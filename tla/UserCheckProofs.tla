--------------------------- MODULE UserCheckProofs ---------------------------
(***************************************************************************)
(* ecall_pointer_user_check stays within its two buffers, its sum stays in *)
(* range and is the checksum of the bytes copied in, and it writes back    *)
(* what the host asserts, for every size of the host's buffer, of the      *)
(* enclave's copy and of the message, every contents and any number of     *)
(* writes by other host threads.                                           *)
(***************************************************************************)
EXTENDS UserCheck, TLAPS, FiniteSetTheorems

Steps == {"check", "copy", "sum", "print", "write", "done", "aborted", "lost"}

\* InBounds with the types its steps rely on: the two buffers, the indices into
\* them, and the sum.
BufferInv ==
  /\ sz \in Nat /\ val \in [0 .. sz - 1 -> 0 .. 255]
  /\ tmp \in [0 .. TMP - 1 -> 0 .. 255]

IndexInv ==
  /\ pc \in Steps
  /\ len \in Nat /\ len <= TMP /\ len <= sz
  /\ i \in Nat /\ i <= len
  /\ count \in Nat
  /\ pc = "sum" => i + count = len

SumInv ==
  /\ sum \in Int
  /\ pc = "sum" => 2 * sum <= i * 32768 /\ 2 * sum >= 0 - (i * 32768)

BoundsInv == BufferInv /\ IndexInv /\ SumInv

\* A char made of a byte, and an int16_t made of two.
LEMMA Signed8Range ==
  ASSUME NEW b \in 0 .. 255
  PROVE  /\ Signed8(b) \in Int
         /\ Signed8(b) <= 127 /\ Signed8(b) >= 0 - 128
<1>1. CASE b < 128
  BY <1>1 DEF Signed8
<1>2. CASE ~(b < 128)
  BY <1>2 DEF Signed8
<1> QED
  BY <1>1, <1>2

LEMMA WordRange ==
  ASSUME NEW buf, NEW k, buf[k] \in 0 .. 255, buf[k + 1] \in 0 .. 255
  PROVE  /\ Word(buf, k) \in Int
         /\ Word(buf, k) <= 32767 /\ Word(buf, k) >= 0 - 32768
<1> DEFINE x == buf[k]  y == buf[k + 1]
<1>1. x \in 0 .. 255 /\ y \in 0 .. 255
  OBVIOUS
<1>2. Word(buf, k) = x + 256 * (IF y < 128 THEN y ELSE y - 256)
  BY DEF Word, Signed8
<1> HIDE DEF x, y
<1>3. CASE y < 128
  BY <1>1, <1>2, <1>3
<1>4. CASE ~(y < 128)
  BY <1>1, <1>2, <1>4
<1> QED
  BY <1>3, <1>4

\* The message is made of bytes.
LEMMA MessageBytes == Message \in [0 .. MSG - 1 -> 0 .. 255]
BY UserCheckAssumption DEF Message

LEMMA BoundsInit == UInit => BoundsInv
<1> SUFFICES ASSUME UInit PROVE BoundsInv
  OBVIOUS
<1>1. BufferInv
  <2>1. sz \in Nat /\ val \in [0 .. sz - 1 -> Bytes]
    BY UserCheckAssumption DEF UInit
  <2>2. val \in [0 .. sz - 1 -> 0 .. 255]
    <3>1. \A k \in 0 .. sz - 1 : val[k] \in Bytes
      BY <2>1
    <3>2. Bytes \subseteq 0 .. 255
      BY UserCheckAssumption
    <3>3. \A k \in 0 .. sz - 1 : val[k] \in 0 .. 255
      BY <3>1, <3>2, Zenon
    <3> QED
      BY <2>1, <3>3
  <2>3. tmp \in [0 .. TMP - 1 -> 0 .. 255]
    BY DEF UInit
  <2> QED
    BY <2>1, <2>2, <2>3 DEF BufferInv
<1>2. IndexInv
  BY UserCheckAssumption DEF UInit, BufferInv, IndexInv, Steps
<1>3. SumInv
  BY DEF UInit, SumInv
<1> QED
  BY <1>1, <1>2, <1>3 DEF BoundsInv

\* Only the copy in, the copy out and the host's writes change a buffer.
LEMMA BufferStep == BoundsInv /\ [UNext]_uvars => BufferInv'
<1> SUFFICES ASSUME BoundsInv, [UNext]_uvars PROVE BufferInv'
  OBVIOUS
<1>1. CASE CopyIn
  <2>1. i \in 0 .. sz - 1 /\ i \in 0 .. TMP - 1
    BY <1>1, UserCheckAssumption DEF CopyIn, BoundsInv, BufferInv, IndexInv
  <2>2. val[i] \in 0 .. 255
    BY <2>1 DEF BoundsInv, BufferInv
  <2>3. tmp' \in [0 .. TMP - 1 -> 0 .. 255]
    BY <1>1, <2>1, <2>2 DEF CopyIn, BoundsInv, BufferInv
  <2> QED
    BY <1>1, <2>3 DEF CopyIn, BoundsInv, BufferInv
<1>2. CASE CopyOut
  <2>1. i \in 0 .. sz - 1 /\ i \in 0 .. MSG - 1
    BY <1>2, UserCheckAssumption
       DEF CopyOut, MessageLength, BoundsInv, BufferInv, IndexInv
  <2>2. Message[i] \in 0 .. 255
    BY <2>1, MessageBytes
  <2>3. val' \in [0 .. sz - 1 -> 0 .. 255]
    BY <1>2, <2>1, <2>2 DEF CopyOut, BoundsInv, BufferInv
  <2> QED
    BY <1>2, <2>3 DEF CopyOut, BoundsInv, BufferInv
<1>3. CASE HostWrite
  <2>1. val' \in [0 .. sz - 1 -> 0 .. 255]
    BY <1>3, UserCheckAssumption DEF HostWrite, BoundsInv, BufferInv
  <2> QED
    BY <1>3, <2>1 DEF HostWrite, BoundsInv, BufferInv
<1>4. CASE UNCHANGED <<val, sz, tmp>>
  BY <1>4 DEF BoundsInv, BufferInv
<1> QED
  BY <1>1, <1>2, <1>3, <1>4
     DEF UNext, CheckFails, Check, CallChecksum, SumWord, SumRest, PrintSum,
         Return, Lose, Finished, uvars

LEMMA IndexStep == BoundsInv /\ [UNext]_uvars => IndexInv'
<1> SUFFICES ASSUME BufferInv, IndexInv, [UNext]_uvars PROVE IndexInv'
  BY DEF BoundsInv
<1> USE DEF IndexInv, Steps, Goto
<1>1. CASE CheckFails \/ PrintSum \/ SumRest \/ Return \/ Lose \/ HostWrite
  BY <1>1 DEF CheckFails, PrintSum, SumRest, Return, Lose, HostWrite
<1>2. CASE Check
  <2>1. sz \in Nat
    BY DEF BufferInv
  <2> QED
    BY <1>2, <2>1, UserCheckAssumption DEF Check, Length
<1>3. CASE CopyIn
  BY <1>3 DEF CopyIn
<1>4. CASE CallChecksum
  BY <1>4 DEF CallChecksum
<1>5. CASE SumWord
  BY <1>5 DEF SumWord
<1>6. CASE CopyOut
  BY <1>6, UserCheckAssumption DEF CopyOut, MessageLength
<1>7. CASE UNCHANGED uvars
  BY <1>7 DEF uvars
<1> QED
  BY <1>1, <1>2, <1>3, <1>4, <1>5, <1>6, <1>7 DEF UNext, Finished

LEMMA SumStep == BoundsInv /\ [UNext]_uvars => SumInv'
<1> SUFFICES ASSUME BoundsInv, [UNext]_uvars PROVE SumInv'
  OBVIOUS
<1>1. CASE SumWord
  <2>1. /\ i \in Nat /\ i + 1 < TMP /\ sum \in Int
        /\ 2 * sum <= i * 32768 /\ 2 * sum >= 0 - (i * 32768)
    BY <1>1, UserCheckAssumption DEF SumWord, BoundsInv, IndexInv, SumInv
  <2>2. tmp[i] \in 0 .. 255 /\ tmp[i + 1] \in 0 .. 255
    BY <2>1, UserCheckAssumption DEF BoundsInv, BufferInv
  <2> DEFINE w == Word(tmp, i)
  <2>3. sum' = sum + w /\ i' = i + 2
    BY <1>1 DEF SumWord
  <2>4. w \in Int /\ w <= 32767 /\ w >= 0 - 32768
    BY <2>2, WordRange
  <2> HIDE DEF w
  <2> QED
    BY <2>1, <2>3, <2>4 DEF SumInv
<1>2. CASE SumRest
  <2>1. CASE count > 0
    <3>1. i \in 0 .. TMP - 1
      BY <1>2, <2>1, UserCheckAssumption
         DEF SumRest, Goto, BoundsInv, IndexInv
    <3>2. tmp[i] \in 0 .. 255
      BY <3>1 DEF BoundsInv, BufferInv
    <3>3. Signed8(tmp[i]) \in Int
      BY <3>2 DEF Signed8
    <3> QED
      BY <1>2, <2>1, <3>3 DEF SumRest, Goto, BoundsInv, SumInv
  <2>2. CASE ~(count > 0)
    BY <1>2, <2>2 DEF SumRest, Goto, BoundsInv, SumInv
  <2> QED
    BY <2>1, <2>2
<1>3. CASE CallChecksum
  BY <1>3 DEF CallChecksum, Goto, SumInv
<1>4. CASE pc' # "sum" /\ UNCHANGED sum
  BY <1>4 DEF BoundsInv, SumInv
<1>5. CASE UNCHANGED <<sum, i, pc>>
  BY <1>5 DEF BoundsInv, SumInv
<1> QED
  BY <1>1, <1>2, <1>3, <1>4, <1>5
     DEF UNext, CheckFails, Check, CopyIn, PrintSum, CopyOut, Return, Lose,
         HostWrite, Finished, Goto, uvars

\* Whatever the host passes and however often it writes, no access leaves a
\* buffer and the sum stays in range.
THEOREM CallInBounds == USpec => []InBounds
<1>1. BoundsInv => InBounds
  <2> SUFFICES ASSUME BoundsInv PROVE InBounds
    OBVIOUS
  <2>1. /\ len \in 0 .. TMP /\ len <= sz
        /\ i \in 0 .. len
        /\ pc = "sum" => i + count = len
    BY UserCheckAssumption DEF BoundsInv, IndexInv
  <2>2. pc = "sum" => 2 * sum <= i * 32768 /\ 2 * sum >= 0 - (i * 32768)
    BY DEF BoundsInv, SumInv
  <2>3. /\ \A k \in DOMAIN val : val[k] \in 0 .. 255
        /\ DOMAIN val = 0 .. sz - 1 /\ DOMAIN tmp = 0 .. TMP - 1
    BY DEF BoundsInv, BufferInv
  <2> QED
    BY <2>1, <2>2, <2>3 DEF InBounds
<1>2. BoundsInv /\ [UNext]_uvars => BoundsInv'
  BY BufferStep, IndexStep, SumStep DEF BoundsInv
<1> QED
  BY <1>1, <1>2, BoundsInit, PTL DEF USpec

-----------------------------------------------------------------------------
(* What the host finds in its buffer. *)

\* The copy and the host's buffer, byte by byte, while nobody else writes: the
\* same as far as the copy in has come, and later the message as far as the copy
\* out has come.
Copied(n) == \A k \in 0 .. n - 1 : tmp[k] = val[k]
Overwritten ==
  \A k \in 0 .. len - 1 : val[k] = IF k < i THEN Message[k] ELSE tmp[k]

LengthInv ==
  /\ writes \in Nat
  /\ pc \in {"copy", "sum", "print", "write", "done"} => len = Length
  /\ pc \in {"write", "done"} => i <= MessageLength
  /\ pc = "done" => i = MessageLength /\ ret = len

ContentInv ==
  writes = 0 =>
    /\ pc = "copy" => Copied(i)
    /\ pc \in {"sum", "print"} => Copied(len)
    /\ pc \in {"write", "done"} => Overwritten

WriteBackInv == LengthInv /\ ContentInv

\* The ECALL starts with nothing copied.
LEMMA WriteBackInit == UInit => WriteBackInv
BY DEF UInit, WriteBackInv, LengthInv, ContentInv

\* len is fixed by Check, and the copy out stops at MessageLength.
LEMMA LengthStep == BoundsInv /\ LengthInv /\ [UNext]_uvars => LengthInv'
<1> SUFFICES ASSUME BoundsInv, LengthInv, [UNext]_uvars PROVE LengthInv'
  OBVIOUS
<1> USE DEF LengthInv, Length, MessageLength, Goto
<1>1. CASE CheckFails \/ Check \/ CopyIn \/ CallChecksum \/ SumWord \/ SumRest
           \/ Lose \/ HostWrite
  BY <1>1 DEF CheckFails, Check, CopyIn, CallChecksum, SumWord, SumRest, Lose,
              HostWrite
<1>2. CASE PrintSum
  BY <1>2, UserCheckAssumption DEF PrintSum, BoundsInv, IndexInv
<1>3. CASE CopyOut
  BY <1>3, UserCheckAssumption DEF CopyOut, BoundsInv, IndexInv
<1>4. CASE Return
  BY <1>4 DEF Return
<1>5. CASE UNCHANGED uvars
  BY <1>5 DEF uvars
<1> QED
  BY <1>1, <1>2, <1>3, <1>4, <1>5 DEF UNext, Finished

\* Each byte copied agrees with its source, and no step but a write by another
\* thread changes a byte behind the index.
LEMMA ContentStep == BoundsInv /\ WriteBackInv /\ [UNext]_uvars => ContentInv'
<1> SUFFICES ASSUME BoundsInv, WriteBackInv, [UNext]_uvars, writes' = 0
             PROVE  /\ pc' = "copy" => Copied(i)'
                    /\ pc' \in {"sum", "print"} => Copied(len)'
                    /\ pc' \in {"write", "done"} => Overwritten'
  BY DEF ContentInv
<1>1. /\ i \in Nat /\ i <= len /\ len \in Nat /\ len <= TMP /\ len <= sz
      /\ sz \in Nat /\ writes \in Nat
      /\ val \in [0 .. sz - 1 -> 0 .. 255] /\ tmp \in [0 .. TMP - 1 -> 0 .. 255]
  BY DEF BoundsInv, BufferInv, IndexInv, WriteBackInv, LengthInv
<1>2. ~HostWrite
  BY <1>1 DEF HostWrite
<1>3. /\ writes = 0
      /\ pc = "copy" => Copied(i)
      /\ pc \in {"sum", "print"} => Copied(len)
      /\ pc \in {"write", "done"} => Overwritten
  <2>1. writes = 0
    BY <1>2 DEF UNext, CheckFails, Check, CopyIn, CallChecksum, SumWord,
                SumRest, PrintSum, CopyOut, Return, Lose, Finished, uvars
  <2> QED
    BY <2>1 DEF WriteBackInv, ContentInv
<1> USE DEF Goto
<1>4. CASE CheckFails \/ Lose
  BY <1>4 DEF CheckFails, Lose
<1>5. CASE Check
  BY <1>5 DEF Check, Copied
<1>6. CASE CopyIn
  <2>1. /\ pc = "copy" /\ pc' = "copy" /\ i < len /\ i' = i + 1 /\ val' = val
        /\ tmp' = [tmp EXCEPT ![i] = val[i]]
    BY <1>6 DEF CopyIn
  <2>2. \A k \in 0 .. i : tmp'[k] = val[k]
    BY <1>1, <1>3, <2>1, UserCheckAssumption DEF Copied
  <2> QED
    BY <1>1, <2>1, <2>2 DEF Copied
<1>7. CASE CallChecksum
  BY <1>3, <1>7 DEF CallChecksum, Copied
<1>8. CASE SumWord \/ SumRest
  BY <1>3, <1>8 DEF SumWord, SumRest, Copied
<1>9. CASE PrintSum
  <2>1. /\ pc = "print" /\ pc' = "write" /\ i' = 0
        /\ UNCHANGED <<val, tmp, len>>
    BY <1>9 DEF PrintSum
  <2>2. \A k \in 0 .. len - 1 : ~(k < 0) /\ val[k] = tmp[k]
    BY <1>1, <1>3, <2>1 DEF Copied
  <2> QED
    BY <2>1, <2>2 DEF Overwritten
<1>10. CASE CopyOut
  <2>1. /\ pc = "write" /\ pc' = "write" /\ i < len /\ i' = i + 1
        /\ val' = [val EXCEPT ![i] = Message[i]]
        /\ UNCHANGED <<tmp, len>>
    BY <1>1, <1>10, UserCheckAssumption DEF CopyOut, MessageLength
  <2>2. \A k \in 0 .. len - 1 :
          val[k] = IF k < i THEN Message[k] ELSE tmp[k]
    BY <1>3, <2>1 DEF Overwritten
  <2>3. ASSUME NEW k \in 0 .. len - 1
        PROVE  val'[k] = IF k < i + 1 THEN Message[k] ELSE tmp[k]
    <3>1. CASE k = i
      BY <1>1, <2>1, <3>1
    <3>2. CASE k # i
      <4>1. val'[k] = val[k] /\ (k < i + 1 <=> k < i)
        BY <1>1, <2>1, <3>2
      <4> QED
        BY <2>2, <4>1
    <3> QED
      BY <3>1, <3>2
  <2>4. Message' = Message
    BY DEF Message
  <2> QED
    BY <2>1, <2>3, <2>4 DEF Overwritten
<1>11. CASE Return
  BY <1>3, <1>11 DEF Return, Overwritten, Message
<1>12. CASE UNCHANGED uvars
  BY <1>3, <1>12 DEF uvars, Overwritten, Copied, Message
<1> QED
  BY <1>2, <1>4, <1>5, <1>6, <1>7, <1>8, <1>9, <1>10, <1>11, <1>12
     DEF UNext, Finished

\* With no other writer, the call that returns leaves "SGX_SUCCESS", or as much
\* of it as fits, at the front of the host's buffer and every other byte as it
\* was read: what the host's assert(strcmp(...)) needs.
THEOREM HostFindsMessage == USpec => []WrittenBack
<1>1. BoundsInv /\ WriteBackInv => WrittenBack
  <2> SUFFICES ASSUME BoundsInv, WriteBackInv, pc = "done", writes = 0
               PROVE  /\ ret = (IF TMP < sz THEN TMP ELSE sz)
                      /\ \A k \in 0 .. ret - 1 :
                           val[k] = IF k < MSG THEN Message[k] ELSE tmp[k]
    BY DEF WrittenBack
  <2>1. /\ len = Length /\ i = MessageLength /\ ret = len
        /\ Overwritten /\ len \in Nat /\ sz \in Nat
    BY DEF BoundsInv, BufferInv, IndexInv, WriteBackInv, LengthInv, ContentInv
  <2>2. ret = (IF TMP < sz THEN TMP ELSE sz)
    BY <2>1, UserCheckAssumption DEF Length
  <2>3. \A k \in 0 .. len - 1 : k < i <=> k < MSG
    BY <2>1, UserCheckAssumption DEF MessageLength
  <2> QED
    BY <2>1, <2>2, <2>3 DEF Overwritten
<1>2. BoundsInv /\ [UNext]_uvars => BoundsInv'
  BY BufferStep, IndexStep, SumStep DEF BoundsInv
<1>3. BoundsInv /\ WriteBackInv /\ [UNext]_uvars => WriteBackInv'
  BY LengthStep, ContentStep DEF WriteBackInv
<1> QED
  BY <1>1, <1>2, <1>3, BoundsInit, WriteBackInit, PTL DEF USpec

-----------------------------------------------------------------------------
(* The checksum.  The library defines MapThenSumSet by recursion, over an   *)
(* order it chooses; the sum is shown to be one that has neither, a         *)
(* difference of two cardinalities, by a smallest set on which they differ. *)

\* The reference checksum picks the bytes one by one, in an order of its own.
Pick(s) == CHOOSE x \in s : TRUE
IsTotal(f, buf, n, S) ==
  f = [s \in SUBSET S |->
         IF s = {} THEN 0
         ELSE Contribution(buf, n, Pick(s)) + f[s \ {Pick(s)}]]

\* The reference checksum of the bytes of buf whose indices are in s.
Total(buf, n, s) == MapThenSumSet(LAMBDA k : Contribution(buf, n, k), s)

\* The same without recursion: one token <<k, u>> for each unit u that byte k adds
\* or takes away, out of enough units for any word.
Enough(m) == m >= 32768
Gains(buf, n, s, m) ==
  {p \in s \X (0 .. m) : p[2] < Contribution(buf, n, p[1])}
Losses(buf, n, s, m) ==
  {p \in s \X (0 .. m) : p[2] < 0 - Contribution(buf, n, p[1])}
Balance(buf, n, s, m) ==
  Cardinality(Gains(buf, n, s, m)) - Cardinality(Losses(buf, n, s, m))

\* A byte counts by at most half of 2^16 in either direction.
LEMMA ContributionRange ==
  ASSUME NEW buf, NEW n \in Nat, NEW k \in Nat, buf[k] \in 0 .. 255
  PROVE  /\ Contribution(buf, n, k) \in Int
         /\ Contribution(buf, n, k) <= 32512
         /\ Contribution(buf, n, k) >= 0 - 32768
<1> DEFINE b == buf[k]
<1> HIDE DEF b
<1>1. b \in 0 .. 255
  BY DEF b
<1>2. Contribution(buf, n, k) =
        IF k % 2 = 1 THEN 256 * (b - (IF b > 127 THEN 256 ELSE 0))
        ELSE IF k = n - 1 /\ b > 127 THEN b - 256 ELSE b
  BY DEF Contribution, b
<1> QED
  BY <1>1, <1>2

\* The same without its numerals, which get in the way of other facts.
LEMMA ContributionInt ==
  ASSUME NEW buf, NEW n \in Nat, NEW k \in Nat, buf[k] \in 0 .. 255
  PROVE  Contribution(buf, n, k) \in Int
BY ContributionRange

\* What the two buffers of the call hold.
HoldsBytes(buf, s) == \A k \in s : k \in Nat /\ buf[k] \in 0 .. 255

\* A set of tokens that grows by those of one more byte.
LEMMA TokensAdded ==
  ASSUME NEW s, IsFiniteSet(s), NEW x, x \notin s, NEW m \in Nat, NEW c \in Nat,
         NEW T, NEW U, T \subseteq s \X (0 .. m),
         U = T \cup ({x} \X (0 .. c - 1))
  PROVE  /\ Cardinality(T) \in Nat
         /\ Cardinality(U) = Cardinality(T) + c
<1>1. IsFiniteSet(0 .. m)
  BY FS_Interval
<1>2. IsFiniteSet(T)
  <2>1. IsFiniteSet(s \X (0 .. m))
    BY <1>1, FS_Product
  <2> QED
    BY <2>1, FS_Subset
<1>3. IsFiniteSet(0 .. c - 1) /\ Cardinality(0 .. c - 1) = c
  BY FS_Interval
<1>4. IsFiniteSet({x}) /\ Cardinality({x}) = 1
  BY FS_Singleton
<1> DEFINE V == {x} \X (0 .. c - 1)
<1>5. IsFiniteSet(V) /\ Cardinality(V) = c
  <2> DEFINE A == {x}  B == 0 .. c - 1
  <2>1. /\ IsFiniteSet(A) /\ Cardinality(A) = 1
        /\ IsFiniteSet(B) /\ Cardinality(B) = c
    BY <1>3, <1>4
  <2> HIDE DEF A, B
  <2>2. /\ IsFiniteSet(A \X B)
        /\ Cardinality(A \X B) = Cardinality(A) * Cardinality(B)
    BY <2>1, FS_Product
  <2>3. Cardinality(A \X B) = c
    BY <2>1, <2>2
  <2> QED
    BY <2>2, <2>3 DEF A, B
<1>6. T \cap V = {}
  <2> SUFFICES ASSUME NEW p \in T, p \in V PROVE FALSE
    OBVIOUS
  <2>1. p[1] \in s
    OBVIOUS
  <2>2. p[1] = x
    OBVIOUS
  <2> QED
    BY <2>1, <2>2
<1> HIDE DEF V
<1>7. Cardinality(T \cap V) = 0
  BY <1>6, FS_EmptySet
<1>8. Cardinality(T) \in Nat
  BY <1>2, FS_CardinalityType
<1>9. Cardinality(T \cup V) =
        Cardinality(T) + Cardinality(V) - Cardinality(T \cap V)
  BY <1>2, <1>5, FS_Union
<1>10. Cardinality(T \cup V) = Cardinality(T) + c
  BY <1>5, <1>7, <1>8, <1>9
<1> QED
  BY <1>8, <1>10 DEF V

\* One more byte adds its contribution to the balance.
LEMMA BalanceAdds ==
  ASSUME NEW buf, NEW n \in Nat, NEW m \in Nat, Enough(m),
         NEW s, IsFiniteSet(s), NEW x, x \notin s,
         HoldsBytes(buf, s \cup {x})
  PROVE  /\ Balance(buf, n, s, m) \in Int
         /\ Balance(buf, n, s \cup {x}, m) =
              Balance(buf, n, s, m) + Contribution(buf, n, x)
<1> DEFINE c == Contribution(buf, n, x)
           G == Gains(buf, n, s, m)  H == Gains(buf, n, s \cup {x}, m)
           L == Losses(buf, n, s, m)  M == Losses(buf, n, s \cup {x}, m)
           up == IF c > 0 THEN c ELSE 0
           down == IF c < 0 THEN 0 - c ELSE 0
<1>1. c \in Int /\ c <= 32512 /\ c >= 0 - 32768
  <2>1. x \in Nat /\ buf[x] \in 0 .. 255
    BY DEF HoldsBytes
  <2> QED
    BY <2>1, ContributionRange
<1>2. up \in Nat /\ down \in Nat /\ up - down = c
  BY <1>1
<1>3. (c > 0 /\ up = c /\ down = 0) \/ (c <= 0 /\ up = 0 /\ down = 0 - c)
  BY <1>1
<1> HIDE DEF c, up, down
<1>4. \A j \in 0 .. m : j < c <=> j \in 0 .. up - 1
  BY <1>1, <1>3 DEF Enough
<1>5. \A j \in 0 .. m : j < 0 - c <=> j \in 0 .. down - 1
  BY <1>1, <1>3 DEF Enough
<1>6. 0 .. up - 1 \subseteq 0 .. m /\ 0 .. down - 1 \subseteq 0 .. m
  BY <1>1, <1>3 DEF Enough
<1>7. H = G \cup ({x} \X (0 .. up - 1))
  BY <1>4, <1>6 DEF Gains, c
<1>8. M = L \cup ({x} \X (0 .. down - 1))
  BY <1>5, <1>6 DEF Losses, c
<1>9. G \subseteq s \X (0 .. m) /\ L \subseteq s \X (0 .. m)
  BY DEF Gains, Losses
<1> HIDE DEF G, H, L, M
<1>10. Cardinality(G) \in Nat /\ Cardinality(H) = Cardinality(G) + up
  BY <1>2, <1>7, <1>9, TokensAdded
<1>11. Cardinality(L) \in Nat /\ Cardinality(M) = Cardinality(L) + down
  BY <1>2, <1>8, <1>9, TokensAdded
<1> QED
  BY <1>1, <1>2, <1>10, <1>11 DEF Balance, G, H, L, M, c

\* The fold of the library, which is defined for some order of its choice, is the
\* balance, which has none.
LEMMA TotalIsBalance ==
  ASSUME NEW buf, NEW n \in Nat, NEW m \in Nat, Enough(m),
         NEW S, IsFiniteSet(S), HoldsBytes(buf, S)
  PROVE  Total(buf, n, S) = Balance(buf, n, S, m)
<1> DEFINE g == [s \in SUBSET S |-> Balance(buf, n, s, m)]
           f == CHOOSE h : IsTotal(h, buf, n, S)
<1>1. Balance(buf, n, {}, m) = 0
  <2>1. Gains(buf, n, {}, m) = {} /\ Losses(buf, n, {}, m) = {}
    BY DEF Gains, Losses
  <2> QED
    BY <2>1, FS_EmptySet DEF Balance
<1>2. ASSUME NEW s \in SUBSET S, s # {}
      PROVE  /\ Pick(s) \in s
             /\ Balance(buf, n, s, m) =
                  Contribution(buf, n, Pick(s))
                    + Balance(buf, n, s \ {Pick(s)}, m)
  <2> DEFINE x == Pick(s)  t == s \ {x}
  <2>1. x \in s
    BY <1>2 DEF Pick
  <2> HIDE DEF x
  <2>2. s = t \cup {x} /\ x \notin t
    BY <2>1
  <2>3. IsFiniteSet(t)
    BY FS_Subset
  <2>4. HoldsBytes(buf, t \cup {x})
    BY <2>2 DEF HoldsBytes
  <2>5. Contribution(buf, n, x) \in Int
    BY <2>1, ContributionRange DEF HoldsBytes
  <2> HIDE DEF t
  <2>6. /\ Balance(buf, n, t, m) \in Int
        /\ Balance(buf, n, t \cup {x}, m) =
             Balance(buf, n, t, m) + Contribution(buf, n, x)
    BY <2>2, <2>3, <2>4, BalanceAdds
  <2>7. Balance(buf, n, s, m) = Contribution(buf, n, x) + Balance(buf, n, t, m)
    BY <2>2, <2>5, <2>6
  <2> QED
    BY <2>1, <2>7 DEF x, t
<1>3. IsTotal(g, buf, n, S)
  <2>1. ASSUME NEW s \in SUBSET S
        PROVE  g[s] = IF s = {} THEN 0
                      ELSE Contribution(buf, n, Pick(s)) + g[s \ {Pick(s)}]
    <3>1. CASE s = {}
      BY <1>1, <3>1
    <3>2. CASE s # {}
      <4>1. s \ {Pick(s)} \in SUBSET S
        OBVIOUS
      <4>2. g[s \ {Pick(s)}] = Balance(buf, n, s \ {Pick(s)}, m)
        BY <4>1
      <4> QED
        BY <1>2, <3>2, <4>2
    <3> QED
      BY <3>1, <3>2
  <2>2. g = [s \in SUBSET S |-> g[s]]
    OBVIOUS
  <2> HIDE DEF g
  <2> QED
    BY <2>1, <2>2 DEF IsTotal
<1>4. IsTotal(f, buf, n, S)
  BY <1>3
<1>5. ASSUME NEW h, IsTotal(h, buf, n, S)
      PROVE  /\ h[{}] = 0
             /\ \A s \in SUBSET S : s # {} =>
                  h[s] = Contribution(buf, n, Pick(s)) + h[s \ {Pick(s)}]
  BY <1>5 DEF IsTotal
<1>6. Total(buf, n, S) = f[S]
  BY DEF Total, MapThenSumSet, MapThenFoldSet, IsTotal, Pick
<1> HIDE DEF f, g
<1>7. \A U \in SUBSET S : f[U] = g[U]
  <2> DEFINE T == {U \in SUBSET S : f[U] # g[U]}
  <2> SUFFICES ASSUME T # {} PROVE FALSE
    OBVIOUS
  <2>1. IsWellFoundedOn(StrictSubsetOrdering(S), FiniteSubsetsOf(S))
    BY FS_StrictSubsetOrderingWellFounded
  <2>2. T \subseteq FiniteSubsetsOf(S)
    BY FS_FiniteSubsetsOfFinite
  <2> HIDE DEF T
  <2>3. PICK U \in T : \A V \in T : ~(<<V, U>> \in StrictSubsetOrdering(S))
    BY <2>1, <2>2, WFMin
  <2>4. U \in SUBSET S /\ f[U] # g[U]
    BY DEF T
  <2>5. U # {}
    BY <1>3, <1>4, <1>5, <2>4
  <2>6. Pick(U) \in U
    BY <1>2, <2>4, <2>5
  <2> DEFINE x == Pick(U)  V == U \ {x}
  <2>7. V \in SUBSET S /\ <<V, U>> \in StrictSubsetOrdering(S)
    <3>1. V \in SUBSET S /\ V \subseteq U /\ V # U
      BY <2>4, <2>6
    <3> HIDE DEF V
    <3> QED
      BY <2>4, <3>1 DEF StrictSubsetOrdering
  <2>8. f[V] = g[V]
    BY <2>3, <2>7 DEF T
  <2>9. /\ f[U] = Contribution(buf, n, x) + f[V]
        /\ g[U] = Contribution(buf, n, x) + g[V]
    BY <1>3, <1>4, <1>5, <2>4, <2>5
  <2> QED
    BY <2>4, <2>8, <2>9
<1>8. f[S] = g[S]
  BY <1>7
<1> QED
  BY <1>6, <1>8 DEF g

\* There are enough numbers.
LEMMA EnoughUnits == \E m \in Nat : Enough(m)
<1>1. \E m \in Nat : m = 32768
  OBVIOUS
<1> QED
  BY <1>1 DEF Enough

\* The reference checksum of a longer prefix of a buffer.
LEMMA TotalAdds ==
  ASSUME NEW buf, NEW n \in Nat, NEW j \in Nat,
         \A k \in 0 .. j : buf[k] \in 0 .. 255
  PROVE  /\ Total(buf, n, 0 .. j - 1) \in Int
         /\ Total(buf, n, 0 .. j) =
              Total(buf, n, 0 .. j - 1) + Contribution(buf, n, j)
<1>1. PICK m \in Nat : Enough(m)
  BY EnoughUnits
<1> DEFINE s == 0 .. j - 1
<1>2. IsFiniteSet(s) /\ IsFiniteSet(0 .. j)
  BY FS_Interval
<1>3. 0 .. j = s \cup {j} /\ j \notin s
  OBVIOUS
<1>4. HoldsBytes(buf, s) /\ HoldsBytes(buf, 0 .. j)
  BY DEF HoldsBytes
<1> HIDE DEF s
<1>5. /\ Total(buf, n, s) = Balance(buf, n, s, m)
      /\ Total(buf, n, 0 .. j) = Balance(buf, n, 0 .. j, m)
  <2>1. Total(buf, n, s) = Balance(buf, n, s, m)
    BY <1>1, <1>2, <1>4, TotalIsBalance
  <2>2. Total(buf, n, 0 .. j) = Balance(buf, n, 0 .. j, m)
    BY <1>1, <1>2, <1>4, TotalIsBalance
  <2> QED
    BY <2>1, <2>2
<1>6. /\ Balance(buf, n, s, m) \in Int
      /\ Balance(buf, n, s \cup {j}, m) =
           Balance(buf, n, s, m) + Contribution(buf, n, j)
  <2>1. HoldsBytes(buf, s \cup {j})
    BY <1>3, <1>4
  <2> QED
    BY <1>1, <1>2, <1>3, <2>1, BalanceAdds
<1> QED
  BY <1>3, <1>5, <1>6 DEF s

\* No bytes, no sum.
LEMMA TotalOfNone == ASSUME NEW buf, NEW n \in Nat PROVE Total(buf, n, {}) = 0
<1>1. PICK m \in Nat : Enough(m)
  BY EnoughUnits
<1>2. HoldsBytes(buf, {})
  BY DEF HoldsBytes
<1>3. Total(buf, n, {}) = Balance(buf, n, {}, m)
  BY <1>1, <1>2, FS_EmptySet, TotalIsBalance
<1>4. Gains(buf, n, {}, m) = {} /\ Losses(buf, n, {}, m) = {}
  BY DEF Gains, Losses
<1> QED
  BY <1>3, <1>4, FS_EmptySet DEF Balance

\* How checksum_internal reads two bytes.
LEMMA WordContribution ==
  ASSUME NEW buf, NEW n \in Nat, NEW j \in Nat, j % 2 = 0, j + 1 < n,
         buf[j] \in 0 .. 255, buf[j + 1] \in 0 .. 255
  PROVE  Word(buf, j) = Contribution(buf, n, j) + Contribution(buf, n, j + 1)
<1> DEFINE x == buf[j]  y == buf[j + 1]
<1>1. j # n - 1 /\ (j + 1) % 2 = 1
  OBVIOUS
<1>2. Contribution(buf, n, j) = x
  BY <1>1 DEF Contribution
<1>3. Contribution(buf, n, j + 1) = 256 * (y - (IF y > 127 THEN 256 ELSE 0))
  BY <1>1 DEF Contribution
<1>4. Word(buf, j) = x + 256 * (IF y < 128 THEN y ELSE y - 256)
  BY DEF Word, Signed8
<1>5. x \in 0 .. 255 /\ y \in 0 .. 255
  OBVIOUS
<1> HIDE DEF x, y
<1> QED
  BY <1>2, <1>3, <1>4, <1>5

\* How it reads the one left over.
LEMMA RestContribution ==
  ASSUME NEW buf, NEW n \in Nat, NEW j \in Nat, j % 2 = 0, j = n - 1,
         buf[j] \in 0 .. 255
  PROVE  Signed8(buf[j]) = Contribution(buf, n, j)
BY DEF Signed8, Contribution

\* checksum_internal has added the contributions of the bytes before i, and i is
\* even; afterwards sum is the complement of the whole.
ChecksumInv ==
  /\ pc = "sum" => i % 2 = 0 /\ sum = Total(tmp, len, 0 .. i - 1)
  /\ pc \in {"print", "write", "done"} =>
       sum = -1 - Total(tmp, len, 0 .. len - 1)

\* Every step of the summing loop keeps it, whatever another thread writes.
LEMMA ChecksumStep == BoundsInv /\ ChecksumInv /\ [UNext]_uvars => ChecksumInv'
<1> SUFFICES ASSUME BoundsInv, ChecksumInv, [UNext]_uvars PROVE ChecksumInv'
  OBVIOUS
<1>1. /\ i \in Nat /\ i <= len /\ len \in Nat /\ len <= TMP /\ count \in Nat
      /\ tmp \in [0 .. TMP - 1 -> 0 .. 255]
      /\ pc = "sum" => i + count = len
  BY DEF BoundsInv, BufferInv, IndexInv
<1>2. \A j \in 0 .. len - 1 : tmp[j] \in 0 .. 255
  BY <1>1, UserCheckAssumption
<1>3. CASE CallChecksum
  <2>1. /\ pc' = "sum" /\ i' = 0 /\ sum' = 0 /\ tmp' = tmp /\ len' = len
    BY <1>3 DEF CallChecksum, Goto
  <2>2. 0 .. i' - 1 = {}
    BY <2>1
  <2>3. Total(tmp, len, {}) = 0
    BY <1>1, TotalOfNone
  <2> QED
    BY <2>1, <2>2, <2>3 DEF ChecksumInv
<1>4. CASE SumWord
  <2>1. /\ pc = "sum" /\ pc' = "sum" /\ count > 1 /\ i' = i + 2
        /\ sum' = sum + Word(tmp, i) /\ tmp' = tmp /\ len' = len
    BY <1>4 DEF SumWord
  <2>2. i % 2 = 0 /\ sum = Total(tmp, len, 0 .. i - 1) /\ i + 1 < len
    BY <1>1, <2>1 DEF ChecksumInv
  <2>3. \A j \in 0 .. i + 1 : tmp[j] \in 0 .. 255
    BY <1>1, <1>2, <2>2
  <2>4. tmp[i] \in 0 .. 255 /\ tmp[i + 1] \in 0 .. 255
    BY <1>1, <2>3
  <2>5. /\ Total(tmp, len, 0 .. i - 1) \in Int
        /\ Total(tmp, len, 0 .. i) =
             Total(tmp, len, 0 .. i - 1) + Contribution(tmp, len, i)
    <3>1. \A j \in 0 .. i : tmp[j] \in 0 .. 255
      BY <1>1, <2>3
    <3> QED
      BY <1>1, <3>1, TotalAdds
  <2>6. Total(tmp, len, 0 .. i + 1) =
          Total(tmp, len, 0 .. i) + Contribution(tmp, len, i + 1)
    <3>1. i + 1 \in Nat /\ (i + 1) - 1 = i
      BY <1>1
    <3>2. Total(tmp, len, 0 .. i + 1) =
            Total(tmp, len, 0 .. (i + 1) - 1) + Contribution(tmp, len, i + 1)
      BY <1>1, <2>3, <3>1, TotalAdds
    <3> QED
      BY <3>1, <3>2
  <2>7. Word(tmp, i) = Contribution(tmp, len, i) + Contribution(tmp, len, i + 1)
    BY <1>1, <2>2, <2>4, WordContribution
  <2>8. /\ Contribution(tmp, len, i) \in Int
        /\ Contribution(tmp, len, i + 1) \in Int
    <3>1. i + 1 \in Nat
      BY <1>1
    <3> QED
      BY <1>1, <2>4, <3>1, ContributionInt
  <2>9. sum' = Total(tmp, len, 0 .. i + 1)
    BY <2>1, <2>2, <2>5, <2>6, <2>7, <2>8
  <2>10. 0 .. i' - 1 = 0 .. i + 1 /\ i' % 2 = 0
    BY <1>1, <2>1, <2>2
  <2> QED
    BY <2>1, <2>9, <2>10 DEF ChecksumInv
<1>5. CASE SumRest
  <2>1. /\ pc = "sum" /\ pc' = "print" /\ count <= 1 /\ tmp' = tmp /\ len' = len
        /\ sum' = -1 - (sum + (IF count > 0 THEN Signed8(tmp[i]) ELSE 0))
    BY <1>5 DEF SumRest, Goto
  <2>2. i % 2 = 0 /\ sum = Total(tmp, len, 0 .. i - 1)
    BY <2>1 DEF ChecksumInv
  <2>3. CASE count > 0
    <3>1. i = len - 1
      BY <1>1, <2>1, <2>3
    <3>2. \A j \in 0 .. i : tmp[j] \in 0 .. 255
      BY <1>2, <3>1
    <3>3. Total(tmp, len, 0 .. i) =
            Total(tmp, len, 0 .. i - 1) + Contribution(tmp, len, i)
      BY <1>1, <3>2, TotalAdds
    <3>4. Signed8(tmp[i]) = Contribution(tmp, len, i)
      <4>1. tmp[i] \in 0 .. 255
        BY <1>1, <3>2
      <4> QED
        BY <1>1, <2>2, <3>1, <4>1, RestContribution
    <3> QED
      BY <2>1, <2>2, <2>3, <3>1, <3>3, <3>4 DEF ChecksumInv
  <2>4. CASE ~(count > 0)
    <3>1. i = len /\ sum \in Int
      BY <1>1, <2>1, <2>4 DEF BoundsInv, SumInv
    <3> QED
      BY <2>1, <2>2, <2>4, <3>1 DEF ChecksumInv
  <2> QED
    BY <2>3, <2>4
<1>6. CASE UNCHANGED <<pc, i, sum, tmp, len>>
  BY <1>6 DEF ChecksumInv
<1>7. CASE /\ pc \in {"print", "write"} /\ pc' \in {"print", "write", "done"}
           /\ UNCHANGED <<sum, tmp, len>>
  BY <1>7 DEF ChecksumInv
<1>8. CASE pc' \in {"copy", "aborted", "lost"}
  BY <1>8 DEF ChecksumInv
<1> QED
  BY <1>3, <1>4, <1>5, <1>6, <1>7, <1>8
     DEF UNext, CheckFails, Check, CopyIn, PrintSum, CopyOut, Return, Lose,
         HostWrite, Finished, Goto, uvars

\* What the enclave prints is the checksum of the bytes it copied in, weighed
\* one by one, for every length and contents and however the host rewrites its
\* buffer while the 16-bit words of tmp are summed.
THEOREM ChecksumOfCopy == USpec => []ChecksumCorrect
<1>1. UInit => ChecksumInv
  BY DEF UInit, ChecksumInv
<1>2. BoundsInv /\ [UNext]_uvars => BoundsInv'
  BY BufferStep, IndexStep, SumStep DEF BoundsInv
<1>3. ChecksumInv => ChecksumCorrect
  BY DEF ChecksumInv, ChecksumCorrect, Total
<1> QED
  BY <1>1, <1>2, <1>3, BoundsInit, ChecksumStep, PTL DEF USpec
=============================================================================
