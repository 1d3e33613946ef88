------------------------------ MODULE UserCheck ------------------------------
(***************************************************************************)
(* ecall_pointer_user_check: the ECALL that works on host memory through a *)
(* [user_check] pointer (Enclave/Edger8rSyntax/Pointers.cpp).              *)
(*                                                                         *)
(* The buffer val stays outside the enclave, so any other host thread may  *)
(* write it between two accesses of the enclave, and the platform may lose *)
(* the enclave in the middle of the call.  The enclave copies the buffer   *)
(* in, sums the copy, prints the sum by an OCALL and writes a message back.*)
(***************************************************************************)
EXTENDS Integers, FiniteSets, FiniteSetsExt

CONSTANTS
  Bytes,      \* the byte values the host stores: a subset of 0 .. 255
  MaxSize,    \* bound: the largest buffer the host passes (128 in App)
  TMP,        \* the size of the enclave's copy (100 in the code)
  MSG,        \* the size of "SGX_SUCCESS" with its NUL (12 in the code)
  MaxWrites   \* bound: writes by other host threads during the call

ASSUME UserCheckAssumption ==
  /\ Bytes \subseteq 0 .. 255
  /\ MaxSize \in Nat /\ TMP \in Nat /\ MSG \in Nat \ {0} /\ MaxWrites \in Nat
  /\ TMP < 65536   \* half as many words of at most 2^15 each fit in int32_t

VARIABLES
  val, sz, outside,   \* the host's buffer, its size, and where it lies
  tmp, len,           \* the enclave's copy
  i,                  \* the next byte of the memcpy or of the sum
  count, sum,         \* checksum_internal's count and sum
  ret,                \* what the ECALL returns: len
  pc, writes

uvars == <<val, sz, outside, tmp, len, i, count, sum, ret, pc, writes>>

\* The message written back: its last byte is the NUL.
Message == [k \in 0 .. MSG - 1 |-> IF k = MSG - 1 THEN 0 ELSE 65]

\* How a little-endian machine reads a char and an int16_t from memory.
Signed8(b) == IF b < 128 THEN b ELSE b - 256
Word(buf, k) == buf[k] + 256 * Signed8(buf[k + 1])

\* The host calls with any contents of any buffer.
UInit ==
  /\ sz \in 0 .. MaxSize
  /\ val \in [0 .. sz - 1 -> Bytes]
  /\ outside \in BOOLEAN
  /\ tmp = [k \in 0 .. TMP - 1 |-> 0]
  /\ len = 0 /\ i = 0 /\ count = 0 /\ sum = 0 /\ ret = 0
  /\ pc = "check" /\ writes = 0
-----------------------------------------------------------------------------
Goto(here, there) == pc = here /\ pc' = there

\* Mutant: the size the host gave is not cut to the buffer.
MutLen == sz

\* len = sz > 100 ? 100 : sz
Length == IF sz > TMP THEN TMP ELSE sz

\* sgx_is_outside_enclave fails: the ECALL aborts before it reads anything.
CheckFails ==
  /\ ~outside
  /\ Goto("check", "aborted")
  /\ UNCHANGED <<val, sz, outside, tmp, len, i, count, sum, ret, writes>>

Check ==
  /\ outside
  /\ Goto("check", "copy")
  /\ len' = Length /\ i' = 0
  /\ UNCHANGED <<val, sz, outside, tmp, count, sum, ret, writes>>

\* memcpy(tmp, val, len), a byte at a time.
CopyIn ==
  /\ pc = "copy" /\ i < len
  /\ tmp' = [tmp EXCEPT ![i] = val[i]]
  /\ i' = i + 1
  /\ UNCHANGED <<val, sz, outside, len, count, sum, ret, pc, writes>>

\* checksum_internal(tmp, len) begins.
CallChecksum ==
  /\ i = len
  /\ Goto("copy", "sum")
  /\ i' = 0 /\ count' = len /\ sum' = 0
  /\ UNCHANGED <<val, sz, outside, tmp, len, ret, writes>>

\* Mutant: the sum is taken of the host's buffer.
MutSumWord ==
  /\ pc = "sum" /\ count > 1
  /\ sum' = sum + Word(val, i)
  /\ i' = i + 2 /\ count' = count - 2
  /\ UNCHANGED <<val, sz, outside, tmp, len, ret, pc, writes>>

SumWord ==
  /\ pc = "sum" /\ count > 1
  /\ sum' = sum + Word(tmp, i)
  /\ i' = i + 2 /\ count' = count - 2
  /\ UNCHANGED <<val, sz, outside, tmp, len, ret, pc, writes>>

\* The left-over byte, if any, and the complement.
SumRest ==
  /\ count <= 1
  /\ Goto("sum", "print")
  /\ sum' = -1 - (sum + (IF count > 0 THEN Signed8(tmp[i]) ELSE 0))
  /\ UNCHANGED <<val, sz, outside, tmp, len, i, count, ret, writes>>

\* The enclave's printf: ocall_print_string, whose status nobody looks at.
PrintSum ==
  /\ Goto("print", "write")
  /\ i' = 0
  /\ UNCHANGED <<val, sz, outside, tmp, len, count, sum, ret, writes>>

\* len > 12 ? 12 : len
MessageLength == IF len > MSG THEN MSG ELSE len

\* memcpy(val, "SGX_SUCCESS", ...) straight into host memory.
CopyOut ==
  /\ pc = "write" /\ i < MessageLength
  /\ val' = [val EXCEPT ![i] = Message[i]]
  /\ i' = i + 1
  /\ UNCHANGED <<sz, outside, tmp, len, count, sum, ret, pc, writes>>

\* Mutant: the last byte of the message is left out.
MutReturn ==
  /\ i + 1 = MessageLength
  /\ Goto("write", "done")
  /\ ret' = len
  /\ UNCHANGED <<val, sz, outside, tmp, len, i, count, sum, writes>>

Return ==
  /\ i = MessageLength
  /\ Goto("write", "done")
  /\ ret' = len
  /\ UNCHANGED <<val, sz, outside, tmp, len, i, count, sum, writes>>

\* A power transition: the ECALL ends with SGX_ERROR_ENCLAVE_LOST where it is.
Lose ==
  /\ pc \notin {"done", "aborted", "lost"}
  /\ pc' = "lost"
  /\ UNCHANGED <<val, sz, outside, tmp, len, i, count, sum, ret, writes>>

\* Another host thread writes the buffer while the call is in progress.
HostWrite ==
  /\ writes < MaxWrites
  /\ pc \notin {"done", "aborted", "lost"}
  /\ \E k \in 0 .. sz - 1, b \in Bytes : val' = [val EXCEPT ![k] = b]
  /\ writes' = writes + 1
  /\ UNCHANGED <<sz, outside, tmp, len, i, count, sum, ret, pc>>

\* The call is over: not a deadlock.
Finished == pc \in {"done", "aborted", "lost"} /\ UNCHANGED uvars

UNext ==
  \/ CheckFails \/ Check \/ CopyIn \/ CallChecksum \/ SumWord \/ SumRest
  \/ PrintSum \/ CopyOut \/ Return \/ Lose \/ HostWrite \/ Finished

USpec == UInit /\ [][UNext]_uvars
-----------------------------------------------------------------------------
\* The value by which byte k of the first n of buf counts: the high byte of a
\* word and a left-over byte are signed, a low byte is not.
Contribution(buf, n, k) ==
  IF k % 2 = 1 THEN 256 * (buf[k] - (IF buf[k] > 127 THEN 256 ELSE 0))
  ELSE IF k = n - 1 /\ buf[k] > 127 THEN buf[k] - 256 ELSE buf[k]

\* No memcpy or sum of ecall_pointer_user_check leaves tmp or the size that the
\* host gave, whatever that size is, and the int32_t sum cannot overflow:
\* over i bytes it is at most i * 2^14 in magnitude.
InBounds ==
  /\ len \in 0 .. TMP /\ len <= sz
  /\ i \in 0 .. len
  /\ pc = "sum" => /\ i + count = len
                   /\ 2 * sum <= i * 32768 /\ 2 * sum >= 0 - (i * 32768)
  /\ \A k \in DOMAIN val : val[k] \in 0 .. 255
  /\ DOMAIN val = 0 .. sz - 1 /\ DOMAIN tmp = 0 .. TMP - 1

\* What is printed is the checksum of the len bytes copied in, however the host
\* rewrites the buffer in the meantime: "copy the memory into the enclave to
\* make sure 'val' is not being changed in checksum_internal()".
ChecksumCorrect ==
  pc \in {"print", "write", "done"} =>
    sum = -1 - MapThenSumSet(LAMBDA k : Contribution(tmp, len, k), 0 .. len - 1)

\* With no other writer, the call that returns has put the whole message, or as
\* much as fits, at the front of the buffer, left the other bytes as it read
\* them and returned how many it read: with a buffer of at least MSG bytes the
\* host's assert(strcmp(c, "SGX_SUCCESS") == 0) holds.
WrittenBack ==
  pc = "done" /\ writes = 0 =>
    /\ ret = (IF TMP < sz THEN TMP ELSE sz)
    /\ \A k \in 0 .. ret - 1 : val[k] = IF k < MSG THEN Message[k] ELSE tmp[k]
=============================================================================
