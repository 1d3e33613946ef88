------------------------- MODULE ThreadFunctionsProofs -------------------------
(***************************************************************************)
(* Proofs about ThreadFunctions: ecall_thread_functions with its adders,   *)
(* consumers and producer, for any number of each, any number of loops and *)
(* any buffer size.                                                        *)
(*                                                                         *)
(* The function has two phases, separated by the assertion.  In the first  *)
(* the buffer has not been touched and a step is one of IncreaseCounter; in*)
(* the second the adders are done and a step is one of CondBuffer: each    *)
(* phase inherits the invariant of its component, and the joins carry what *)
(* is needed from the first to the second.                                 *)
(***************************************************************************)
EXTENDS ThreadFunctions, SequenceTheorems, FiniteSetTheorems, TLAPS

ICP == INSTANCE IncreaseCounterProofs
         WITH alost <- lost, aaborted <- aborted
CBP == INSTANCE CondBufferProofs

nA == Len(AdderOrder)
nS == Len(SpawnOrder)
nJ == Len(JoinOrder)

-----------------------------------------------------------------------------
(* The script, line by line. *)

\* A statement of the function: what it does, to which thread.
Line(op, t) == <<op, t>>

Operations == {"spawn adder", "join adder", "assert", "spawn", "join"}
Subjects   == ToSet(AdderOrder) \cup ToSet(SpawnOrder) \cup {NoThread}
Statements == {Line(op, t) : op \in Operations, t \in Subjects}

LEMMA LineFacts ==
  ASSUME NEW op1, NEW op2, NEW t1, NEW t2
  PROVE  Line(op1, t1) = Line(op2, t2) => op1 = op2 /\ t1 = t2
  BY DEF Line

LEMMA Lengths == nA \in Nat /\ nS \in Nat /\ nJ \in Nat
  BY ListsAssumption, LenProperties DEF nA, nS, nJ

\* A list of threads turned into statements.
LEMMA ForAllStatements ==
  ASSUME NEW op \in Operations,
         NEW threads \in Seq(Subjects)
  PROVE  /\ ForAll(op, threads) \in Seq(Statements)
         /\ Len(ForAll(op, threads)) = Len(threads)
         /\ \A k \in 1 .. Len(threads) : ForAll(op, threads)[k] = Line(op, threads[k])
<1>1. DOMAIN threads = 1 .. Len(threads) /\ Len(threads) \in Nat
  BY LenProperties
<1>2. \A k \in 1 .. Len(threads) : Line(op, threads[k]) \in Statements
  BY ElementOfSeq DEF Statements, Subjects
<1>3. ForAll(op, threads) = [k \in 1 .. Len(threads) |-> Line(op, threads[k])]
  <2>1. ForAll(op, threads) = [k \in DOMAIN threads |-> Line(op, threads[k])]
    BY DEF ForAll, Line
  <2>2. QED
    BY <1>1, <2>1
<1>4. /\ [k \in 1 .. Len(threads) |-> Line(op, threads[k])] \in Seq(Statements)
      /\ Len([k \in 1 .. Len(threads) |-> Line(op, threads[k])]) = Len(threads)
  BY <1>1, <1>2
<1>5. QED
  BY <1>3, <1>4

\* Two lists of statements one after the other.
LEMMA Appended ==
  ASSUME NEW S, NEW s \in Seq(S), NEW t \in Seq(S)
  PROVE  /\ s \o t \in Seq(S)
         /\ Len(s \o t) = Len(s) + Len(t)
         /\ \A k \in 1 .. Len(s) : (s \o t)[k] = s[k]
         /\ \A k \in 1 .. Len(t) : (s \o t)[Len(s) + k] = t[k]
<1>1. Len(s) \in Nat /\ Len(t) \in Nat
  BY LenProperties
<1>2. s \o t \in Seq(S) /\ Len(s \o t) = Len(s) + Len(t)
  BY ConcatProperties
<1>3. \A k \in 1 .. Len(s) + Len(t) :
         (s \o t)[k] = IF k <= Len(s) THEN s[k] ELSE t[k - Len(s)]
  BY <1>2, ConcatProperties
<1>4. ASSUME NEW k \in 1 .. Len(s) PROVE (s \o t)[k] = s[k]
  BY <1>1, <1>3
<1>5. ASSUME NEW k \in 1 .. Len(t) PROVE (s \o t)[Len(s) + k] = t[k]
  <2>1. /\ Len(s) + k \in 1 .. Len(s) + Len(t)
        /\ ~(Len(s) + k <= Len(s)) /\ (Len(s) + k) - Len(s) = k
    BY <1>1
  <2>2. QED
    BY <1>3, <2>1
<1>6. QED
  BY <1>2, <1>4, <1>5

\* What each line of the function does, and how many lines there are.
LEMMA ScriptLines ==
  /\ Len(Script) = nA + nA + 1 + nS + nJ
  /\ \A k \in 1 .. nA : /\ Script[k] = Line("spawn adder", AdderOrder[k])
                        /\ Script[nA + k] = Line("join adder", AdderOrder[k])
  /\ Script[nA + nA + 1] = Line("assert", NoThread)
  /\ \A k \in 1 .. nS : Script[nA + nA + 1 + k] = Line("spawn", SpawnOrder[k])
  /\ \A k \in 1 .. nJ : Script[nA + nA + 1 + nS + k] = Line("join", JoinOrder[k])
<1> DEFINE S1 == ForAll("spawn adder", AdderOrder)
           S2 == ForAll("join adder", AdderOrder)
           S3 == << Line("assert", NoThread) >>
           S4 == ForAll("spawn", SpawnOrder)
           S5 == ForAll("join", JoinOrder)
<1>1. Script = S1 \o S2 \o S3 \o S4 \o S5
  BY DEF Script, Line
<1>2. /\ AdderOrder \in Seq(Subjects) /\ SpawnOrder \in Seq(Subjects)
      /\ JoinOrder \in Seq(Subjects)
  <2>1. ToSet(AdderOrder) \subseteq Subjects /\ ToSet(SpawnOrder) \subseteq Subjects
    BY DEF Subjects
  <2>2. QED
    BY <2>1, ListsAssumption, OrderAssumption, SeqMonotonic
<1>3. /\ S1 \in Seq(Statements) /\ Len(S1) = nA
      /\ \A k \in 1 .. nA : S1[k] = Line("spawn adder", AdderOrder[k])
  BY <1>2, ForAllStatements DEF nA, Operations
<1>4. /\ S2 \in Seq(Statements) /\ Len(S2) = nA
      /\ \A k \in 1 .. nA : S2[k] = Line("join adder", AdderOrder[k])
  BY <1>2, ForAllStatements DEF nA, Operations
<1>5. S3 \in Seq(Statements) /\ Len(S3) = 1 /\ S3[1] = Line("assert", NoThread)
  <2>1. Line("assert", NoThread) \in Statements
    <3>1. "assert" \in Operations /\ NoThread \in Subjects
      BY DEF Operations, Subjects
    <3>2. QED
      BY <3>1 DEF Statements
  <2>2. QED
    BY <2>1
<1>6. /\ S4 \in Seq(Statements) /\ Len(S4) = nS
      /\ \A k \in 1 .. nS : S4[k] = Line("spawn", SpawnOrder[k])
  BY <1>2, ForAllStatements DEF nS, Operations
<1>7. /\ S5 \in Seq(Statements) /\ Len(S5) = nJ
      /\ \A k \in 1 .. nJ : S5[k] = Line("join", JoinOrder[k])
  BY <1>2, ForAllStatements DEF nJ, Operations
<1> HIDE DEF S1, S2, S3, S4, S5
<1>8. /\ S1 \in Seq(Statements) /\ S2 \in Seq(Statements) /\ S3 \in Seq(Statements)
      /\ S4 \in Seq(Statements) /\ S5 \in Seq(Statements)
  BY <1>3, <1>4, <1>5, <1>6, <1>7
<1>9. PICK a \in Nat, s \in Nat, j \in Nat, n \in Nat :
         /\ a = nA /\ s = nS /\ j = nJ /\ n = 1
         /\ Len(S1) = a /\ Len(S2) = a /\ Len(S3) = n /\ Len(S4) = s /\ Len(S5) = j
  <2>1. nA \in Nat /\ nS \in Nat /\ nJ \in Nat /\ 1 \in Nat
    BY Lengths
  <2>2. /\ Len(S1) = nA /\ Len(S2) = nA /\ Len(S3) = 1
        /\ Len(S4) = nS /\ Len(S5) = nJ
    BY <1>3, <1>4, <1>5, <1>6, <1>7
  <2>3. QED
    BY <2>1, <2>2, Zenon
<1> DEFINE T2 == S1 \o S2
           T3 == T2 \o S3
           T4 == T3 \o S4
           T5 == T4 \o S5
<1>10. /\ T2 \in Seq(Statements) /\ Len(T2) = a + a
       /\ \A k \in 1 .. a : T2[k] = S1[k] /\ T2[a + k] = S2[k]
  <2>1. S1 \o S2 \in Seq(Statements)
    BY <1>8, Appended
  <2>2. Len(S1 \o S2) = Len(S1) + Len(S2)
    BY <1>8, Appended
  <2>3. \A k \in 1 .. Len(S1) : (S1 \o S2)[k] = S1[k]
    BY <1>8, Appended
  <2>4. \A k \in 1 .. Len(S2) : (S1 \o S2)[Len(S1) + k] = S2[k]
    BY <1>8, Appended
  <2>5. QED
    BY <1>9, <2>1, <2>2, <2>3, <2>4 DEF T2
<1> HIDE DEF T2
<1>11. /\ T3 \in Seq(Statements) /\ Len(T3) = a + a + 1
       /\ \A k \in 1 .. a + a : T3[k] = T2[k]
       /\ \A k \in 1 .. n : T3[a + a + k] = S3[k]
  <2>1. T2 \o S3 \in Seq(Statements)
    BY <1>8, <1>10, Appended
  <2>2. Len(T2 \o S3) = Len(T2) + Len(S3)
    BY <1>8, <1>10, Appended
  <2>3. \A k \in 1 .. Len(T2) : (T2 \o S3)[k] = T2[k]
    BY <1>8, <1>10, Appended
  <2>4. \A k \in 1 .. Len(S3) : (T2 \o S3)[Len(T2) + k] = S3[k]
    BY <1>8, <1>10, Appended
  <2>5. QED
    BY <1>9, <1>10, <2>1, <2>2, <2>3, <2>4 DEF T3
<1> HIDE DEF T3
<1>12. /\ T4 \in Seq(Statements) /\ Len(T4) = a + a + 1 + s
       /\ \A k \in 1 .. a + a + 1 : T4[k] = T3[k]
       /\ \A k \in 1 .. s : T4[a + a + 1 + k] = S4[k]
  <2>1. T3 \o S4 \in Seq(Statements)
    BY <1>8, <1>11, Appended
  <2>2. Len(T3 \o S4) = Len(T3) + Len(S4)
    BY <1>8, <1>11, Appended
  <2>3. \A k \in 1 .. Len(T3) : (T3 \o S4)[k] = T3[k]
    BY <1>8, <1>11, Appended
  <2>4. \A k \in 1 .. Len(S4) : (T3 \o S4)[Len(T3) + k] = S4[k]
    BY <1>8, <1>11, Appended
  <2>5. QED
    BY <1>9, <1>11, <2>1, <2>2, <2>3, <2>4 DEF T4
<1> HIDE DEF T4
<1>13. /\ Len(T5) = a + a + 1 + s + j
       /\ \A k \in 1 .. a + a + 1 + s : T5[k] = T4[k]
       /\ \A k \in 1 .. j : T5[a + a + 1 + s + k] = S5[k]
  <2>1. T4 \o S5 \in Seq(Statements)
    BY <1>8, <1>12, Appended
  <2>2. Len(T4 \o S5) = Len(T4) + Len(S5)
    BY <1>8, <1>12, Appended
  <2>3. \A k \in 1 .. Len(T4) : (T4 \o S5)[k] = T4[k]
    BY <1>8, <1>12, Appended
  <2>4. \A k \in 1 .. Len(S5) : (T4 \o S5)[Len(T4) + k] = S5[k]
    BY <1>8, <1>12, Appended
  <2>5. QED
    BY <1>9, <1>12, <2>1, <2>2, <2>3, <2>4 DEF T5
<1>14. Script = T5
  BY <1>1 DEF T5, T2, T3, T4
<1> HIDE DEF T5
<1>15. ASSUME NEW k \in 1 .. a PROVE T5[k] = S1[k] /\ T5[a + k] = S2[k]
  <2>1. /\ k \in 1 .. a + a /\ k \in 1 .. a + a + 1 /\ k \in 1 .. a + a + 1 + s
        /\ a + k \in 1 .. a + a /\ a + k \in 1 .. a + a + 1
        /\ a + k \in 1 .. a + a + 1 + s
    BY <1>9
  <2>2. QED
    BY <1>10, <1>11, <1>12, <1>13, <2>1
<1>16. T5[a + a + 1] = S3[1]
  <2>1. a + a + 1 \in 1 .. a + a + 1 /\ a + a + 1 \in 1 .. a + a + 1 + s
    BY <1>9
  <2>2. T3[a + a + 1] = S3[1]
    <3>1. 1 \in 1 .. n
      BY <1>9
    <3>2. QED
      BY <3>1, <1>11, Zenon
  <2>3. QED
    BY <1>12, <1>13, <2>1, <2>2
<1>17. ASSUME NEW k \in 1 .. s PROVE T5[a + a + 1 + k] = S4[k]
  <2>1. a + a + 1 + k \in 1 .. a + a + 1 + s
    BY <1>9
  <2>2. QED
    BY <1>12, <1>13, <2>1
<1>18. /\ Len(Script) = nA + nA + 1 + nS + nJ
       /\ \A k \in 1 .. nA : Script[k] = S1[k] /\ Script[nA + k] = S2[k]
       /\ Script[nA + nA + 1] = S3[1]
       /\ \A k \in 1 .. nS : Script[nA + nA + 1 + k] = S4[k]
       /\ \A k \in 1 .. nJ : Script[nA + nA + 1 + nS + k] = S5[k]
  <2>1. a = nA /\ s = nS /\ j = nJ
    BY <1>9
  <2>2. Len(Script) = nA + nA + 1 + nS + nJ
    BY <2>1, <1>13, <1>14
  <2>3. \A k \in 1 .. nA : Script[k] = S1[k] /\ Script[nA + k] = S2[k]
    BY <2>1, <1>14, <1>15
  <2>4. Script[nA + nA + 1] = S3[1]
    BY <2>1, <1>14, <1>16
  <2>5. \A k \in 1 .. nS : Script[nA + nA + 1 + k] = S4[k]
    BY <2>1, <1>14, <1>17
  <2>6. \A k \in 1 .. nJ : Script[nA + nA + 1 + nS + k] = S5[k]
    BY <2>1, <1>13, <1>14
  <2>7. QED
    BY <2>2, <2>3, <2>4, <2>5, <2>6
<1>19. QED
  BY <1>3, <1>4, <1>5, <1>6, <1>7, <1>18

\* The five parts of the function that a line can be in.
LEMMA WhichPart ==
  ASSUME NEW n \in 1 .. Len(Script)
  PROVE  \/ \E k \in 1 .. nA : n = k /\ Script[n] = Line("spawn adder", AdderOrder[k])
         \/ \E k \in 1 .. nA :
              n = nA + k /\ Script[n] = Line("join adder", AdderOrder[k])
         \/ n = nA + nA + 1 /\ Script[n] = Line("assert", NoThread)
         \/ \E k \in 1 .. nS :
              n = nA + nA + 1 + k /\ Script[n] = Line("spawn", SpawnOrder[k])
         \/ \E k \in 1 .. nJ :
              n = nA + nA + 1 + nS + k /\ Script[n] = Line("join", JoinOrder[k])
<1>1. PICK a \in Nat, s \in Nat, j \in Nat : a = nA /\ s = nS /\ j = nJ
  BY Lengths
<1>2. n \in 1 .. a + a + 1 + s + j
  BY <1>1, ScriptLines
<1>3. \/ n \in 1 .. a
      \/ n - a \in 1 .. a /\ n = a + (n - a)
      \/ n = a + a + 1
      \/ n - (a + a + 1) \in 1 .. s /\ n = a + a + 1 + (n - (a + a + 1))
      \/ n - (a + a + 1 + s) \in 1 .. j /\ n = a + a + 1 + s + (n - (a + a + 1 + s))
  BY <1>2
<1>4. /\ \A k \in 1 .. a : /\ Script[k] = Line("spawn adder", AdderOrder[k])
                           /\ Script[a + k] = Line("join adder", AdderOrder[k])
      /\ Script[a + a + 1] = Line("assert", NoThread)
      /\ \A k \in 1 .. s : Script[a + a + 1 + k] = Line("spawn", SpawnOrder[k])
      /\ \A k \in 1 .. j : Script[a + a + 1 + s + k] = Line("join", JoinOrder[k])
  BY <1>1, ScriptLines
<1>5. QED
  BY <1>1, <1>3, <1>4

\* The lines of the function's parts, and the thread a join waits for.
SpawningAdders(n)  == n \in 1 .. nA
JoiningAdder(n, t) == \E k \in 1 .. nA : n = nA + k /\ t = AdderOrder[k]
Asserting(n)       == n = nA + nA + 1
Spawning(n)        == \E k \in 1 .. nS : n = nA + nA + 1 + k
Joining(n, t)      == \E k \in 1 .. nJ : n = nA + nA + 1 + nS + k /\ t = JoinOrder[k]

\* Which lines a statement can be on.
LEMMA WhichLine ==
  ASSUME line \in 1 .. Len(Script) + 1, NEW t, NEW op, AtLine(op, t)
  PROVE  \/ op = "spawn adder" /\ SpawningAdders(line)
         \/ op = "join adder" /\ JoiningAdder(line, t)
         \/ op = "assert" /\ Asserting(line)
         \/ op = "spawn" /\ Spawning(line)
         \/ op = "join" /\ Joining(line, t)
<1>1. Len(Script) \in Nat
  <2>1. PICK a \in Nat, s \in Nat, j \in Nat : a = nA /\ s = nS /\ j = nJ
    BY Lengths
  <2>2. Len(Script) = a + a + 1 + s + j
    BY <2>1, ScriptLines
  <2>3. QED
    BY <2>2
<1>3. line \in 1 .. Len(Script) /\ Script[line] = Line(op, t)
  BY <1>1 DEF AtLine, Line
<1>4. ASSUME NEW k \in 1 .. nA, line = k, Script[line] = Line("spawn adder", AdderOrder[k])
      PROVE  op = "spawn adder" /\ SpawningAdders(line)
  <2>1. Line(op, t) = Line("spawn adder", AdderOrder[k])
    BY <1>3, <1>4
  <2>2. op = "spawn adder"
    BY <2>1, LineFacts
  <2>3. QED
    BY <1>4, <2>2 DEF SpawningAdders
<1>5. ASSUME NEW k \in 1 .. nA, line = nA + k,
             Script[line] = Line("join adder", AdderOrder[k])
      PROVE  op = "join adder" /\ JoiningAdder(line, t)
  <2>1. Line(op, t) = Line("join adder", AdderOrder[k])
    BY <1>3, <1>5
  <2>2. op = "join adder" /\ t = AdderOrder[k]
    BY <2>1, LineFacts
  <2>3. QED
    BY <1>5, <2>2 DEF JoiningAdder
<1>6. ASSUME line = nA + nA + 1, Script[line] = Line("assert", NoThread)
      PROVE  op = "assert" /\ Asserting(line)
  <2>1. Line(op, t) = Line("assert", NoThread)
    BY <1>3, <1>6
  <2>2. op = "assert"
    BY <2>1, LineFacts
  <2>3. QED
    BY <1>6, <2>2 DEF Asserting
<1>7. ASSUME NEW k \in 1 .. nS, line = nA + nA + 1 + k,
             Script[line] = Line("spawn", SpawnOrder[k])
      PROVE  op = "spawn" /\ Spawning(line)
  <2>1. Line(op, t) = Line("spawn", SpawnOrder[k])
    BY <1>3, <1>7
  <2>2. op = "spawn"
    BY <2>1, LineFacts
  <2>3. QED
    BY <1>7, <2>2 DEF Spawning
<1>8. ASSUME NEW k \in 1 .. nJ, line = nA + nA + 1 + nS + k,
             Script[line] = Line("join", JoinOrder[k])
      PROVE  op = "join" /\ Joining(line, t)
  <2>1. Line(op, t) = Line("join", JoinOrder[k])
    BY <1>3, <1>8
  <2>2. op = "join" /\ t = JoinOrder[k]
    BY <2>1, LineFacts
  <2>3. QED
    BY <1>8, <2>2 DEF Joining
<1>9. QED
  BY <1>3, <1>4, <1>5, <1>6, <1>7, <1>8, WhichPart

-----------------------------------------------------------------------------
(* The components in this composition. *)

\* The threads of a list are finitely many.
LEMMA ListFinite ==
  ASSUME NEW s, s \in Seq(ToSet(s))
  PROVE  IsFiniteSet(ToSet(s))
<1>1. DOMAIN s = 1 .. Len(s) /\ Len(s) \in Nat
  BY LenProperties
<1>2. IsFiniteSet(DOMAIN s)
  BY <1>1, FS_Interval
<1>3. s \in Surjection(DOMAIN s, ToSet(s))
  BY <1>1 DEF Surjection, ToSet
<1>4. QED
  BY <1>2, <1>3, FS_Surjection

\* The assumptions of the two components hold of the lists of threads.
LEMMA Components ==
  /\ IsFiniteSet(Adders) /\ NoThread \notin Adders
  /\ IsFiniteSet(Consumers) /\ Producer \notin Consumers
  /\ NoThread \notin Consumers \cup {Producer}
  /\ LOOPS_PER_THREAD \in Nat /\ TCSNum \in Nat
  /\ BUFFER_SIZE \in Nat \ {0}
<1>1. IsFiniteSet(Adders)
  BY ListsAssumption, ListFinite DEF Adders
<1>2. IsFiniteSet(ToSet(SpawnOrder))
  BY ListsAssumption, ListFinite
<1>3. IsFiniteSet(Consumers)
  BY <1>2, FS_Subset DEF Consumers
<1>4. QED
  BY <1>1, <1>3, OrderAssumption, NumbersAssumption DEF Adders, Consumers

\* A step of the adders here is one of IncreaseCounter.
LEMMA AdderSteps ==
  /\ IC!AStep <=> ICP!AStep
  /\ \A a \in Adders : IC!ASpawn(a) => ICP!ANext
  /\ ICP!AStep => ICP!ANext
<1> USE DEF IC!AGoto, IC!ARunning, IC!AInside, IC!AHolding, IC!aenv,
            ICP!AGoto, ICP!ARunning, ICP!AInside, ICP!AHolding, ICP!aenv
<1>0. IC!Goal = ICP!Goal
  BY Zenon DEF IC!Goal, ICP!Goal, IC!Cardinality, ICP!Cardinality
<1>1. \A a \in Adders : IC!AEnter(a) <=> ICP!AEnter(a)
  BY Zenon DEF IC!AEnter, ICP!AEnter
<1>2. \A a \in Adders : IC!AEcallFails(a) <=> ICP!AEcallFails(a)
  BY Zenon DEF IC!AEcallFails, ICP!AEcallFails
<1>3. \A a \in Adders : IC!ALock(a) <=> ICP!ALock(a)
  BY Zenon DEF IC!ALock, ICP!ALock
<1>4. \A a \in Adders : IC!ARead(a) <=> ICP!ARead(a)
  BY Zenon DEF IC!ARead, ICP!ARead
<1>5. \A a \in Adders : IC!AWrite(a) <=> ICP!AWrite(a)
  BY <1>0 DEF IC!AWrite, ICP!AWrite
<1>6. \A a \in Adders : IC!AUnlock(a) <=> ICP!AUnlock(a)
  BY Zenon DEF IC!AUnlock, ICP!AUnlock
<1>7. \A a \in Adders : IC!AReturn(a) <=> ICP!AReturn(a)
  BY Zenon DEF IC!AReturn, ICP!AReturn
<1>8. \A a \in Adders : IC!APublish(a) <=> ICP!APublish(a)
  BY Zenon DEF IC!APublish, ICP!APublish
<1>9. IC!AStep <=> ICP!AStep
  BY <1>1, <1>2, <1>3, <1>4, <1>5, <1>6, <1>7, <1>8 DEF IC!AStep, ICP!AStep
<1>10. \A a \in Adders : IC!ASpawn(a) => ICP!ASpawn(a)
  BY Zenon DEF IC!ASpawn, ICP!ASpawn
<1>11. QED
  BY <1>9, <1>10 DEF ICP!ANext, ICP!AProgress

\* A step of the consumers and the producer here is one of CondBuffer.
LEMMA BufferSteps ==
  /\ CB!Step <=> CBP!Step
  /\ CB!Threads = CBP!Threads
  /\ \A t \in CB!Threads : CB!Spawn(t) => CBP!Next
  /\ CBP!Step => CBP!Next
  /\ CB!PowerTransition => CBP!Next
<1> USE DEF CB!Goto, CB!Running, CB!Inside, CB!Holding, CB!env, CB!ring,
            CBP!Goto, CBP!Running, CBP!Inside, CBP!Holding, CBP!env, CBP!ring
<1>0. CB!Threads = CBP!Threads
  BY DEF CB!Threads, CBP!Threads
<1>01. \A t : CB!Loops(t) = CBP!Loops(t)
  BY DEF CB!Loops, CBP!Loops, CB!Total, CBP!Total, CB!Cardinality, CBP!Cardinality
<1>1. \A t : CB!Enter(t) <=> CBP!Enter(t)
  BY Zenon DEF CB!Enter, CBP!Enter
<1>2. \A t : CB!EcallFails(t) <=> CBP!EcallFails(t)
  BY Zenon DEF CB!EcallFails, CBP!EcallFails
<1>3. \A t : CB!Lock(t) <=> CBP!Lock(t)
  BY <1>01 DEF CB!Lock, CBP!Lock
<1>4. \A t : CB!Return(t) <=> CBP!Return(t)
  BY <1>01 DEF CB!Return, CBP!Return
<1>5. \A t : CB!Relock(t) <=> CBP!Relock(t)
  BY Zenon DEF CB!Relock, CBP!Relock
<1>6. \A t : CB!Unlock(t) <=> CBP!Unlock(t)
  BY Zenon DEF CB!Unlock, CBP!Unlock
<1>7. CB!ProducerWait <=> CBP!ProducerWait
  BY Zenon DEF CB!ProducerWait, CBP!ProducerWait
<1>8. CB!ProducerGo <=> CBP!ProducerGo
  BY Zenon DEF CB!ProducerGo, CBP!ProducerGo
<1>9. CB!ProducerStore <=> CBP!ProducerStore
  BY Zenon DEF CB!ProducerStore, CBP!ProducerStore, CB!NextSlot, CBP!NextSlot
<1>10. CB!ProducerCount <=> CBP!ProducerCount
  BY Zenon DEF CB!ProducerCount, CBP!ProducerCount
<1>11. CB!ProducerSignal <=> CBP!ProducerSignal
  BY Zenon DEF CB!ProducerSignal, CBP!ProducerSignal, CB!Signal, CBP!Signal
<1>12. \A t : CB!ConsumerWait(t) <=> CBP!ConsumerWait(t)
  BY Zenon DEF CB!ConsumerWait, CBP!ConsumerWait
<1>13. \A t : CB!ConsumerGo(t) <=> CBP!ConsumerGo(t)
  BY Zenon DEF CB!ConsumerGo, CBP!ConsumerGo
<1>14. \A t : CB!ConsumerStore(t) <=> CBP!ConsumerStore(t)
  BY Zenon DEF CB!ConsumerStore, CBP!ConsumerStore, CB!NextSlot, CBP!NextSlot
<1>15. \A t : CB!ConsumerCount(t) <=> CBP!ConsumerCount(t)
  BY Zenon DEF CB!ConsumerCount, CBP!ConsumerCount
<1>16. \A t : CB!ConsumerSignal(t) <=> CBP!ConsumerSignal(t)
  BY Zenon DEF CB!ConsumerSignal, CBP!ConsumerSignal, CB!Signal, CBP!Signal
<1>17. \A t : CB!ThreadStep(t) <=> CBP!ThreadStep(t)
  BY <1>1, <1>2, <1>3, <1>4, <1>5, <1>6 DEF CB!ThreadStep, CBP!ThreadStep
<1>18. CB!ProducerStep <=> CBP!ProducerStep
  BY <1>7, <1>8, <1>9, <1>10, <1>11 DEF CB!ProducerStep, CBP!ProducerStep
<1>19. \A t : CB!ConsumerStep(t) <=> CBP!ConsumerStep(t)
  BY <1>12, <1>13, <1>14, <1>15, <1>16 DEF CB!ConsumerStep, CBP!ConsumerStep
<1>20. CB!Step <=> CBP!Step
  BY <1>0, <1>17, <1>18, <1>19, Zenon DEF CB!Step, CBP!Step
<1>21. \A t : CB!Spawn(t) => CBP!Spawn(t)
  BY Zenon DEF CB!Spawn, CBP!Spawn
<1>22. CB!PowerTransition => CBP!PowerTransition
  BY Zenon DEF CB!PowerTransition, CBP!PowerTransition
<1>23. QED
  BY <1>0, <1>20, <1>21, <1>22 DEF CBP!Next, CBP!Progress

-----------------------------------------------------------------------------
(* The invariant. *)

\* Past the assertion.
SecondPhase == nA + nA + 1 < line

\* What the joins that were passed have waited for.
AddersJoined  == \A k \in 1 .. nA : nA + k < line => apc[AdderOrder[k]] = "done"
ThreadsJoined ==
  \A k \in 1 .. nJ : nA + nA + 1 + nS + k < line => pc[JoinOrder[k]] = "done"

LineInv == line \in 1 .. Len(Script) + 1 /\ AddersJoined /\ ThreadsJoined

\* The inductive invariants of the two components.
AdderInv  == ICP!ASyncInv /\ ICP!ACountInv
BufferInv == CBP!SyncInv /\ CBP!RingInv /\ CBP!CountInv

\* Nobody has touched the buffer.
Untouched ==
  /\ buf = [s \in CBP!Slots |-> 0]
  /\ occupied = 0 /\ nextin = 0 /\ nextout = 0
  /\ mutex = NoThread
  /\ more = {} /\ less = {}
  /\ pc = [t \in CB!Threads |-> "unborn"]
  /\ i = [t \in CB!Threads |-> 0]

\* Until the assertion the adders are at work and the buffer is untouched.
FirstInv == AdderInv /\ Untouched

\* After it the adders are gone and the buffer's threads are at work.
SecondInv == IC!AllAdded /\ global_mutex = NoThread /\ BufferInv

PhaseInv == IF SecondPhase THEN SecondInv ELSE FirstInv

TFInv == LineInv /\ PhaseInv

\* Where a statement leaves the function, as far as phases and joins go.
LEMMA LineMoves ==
  ASSUME line \in 1 .. Len(Script) + 1, NEW t,
         NEW op, AtLine(op, t), Advance
  PROVE  /\ line' \in 1 .. Len(Script) + 1
         /\ SecondPhase => SecondPhase'
         /\ op \in {"spawn adder", "join adder"} => ~SecondPhase'
         /\ op = "assert" => ~SecondPhase /\ SecondPhase'
         /\ op \in {"spawn", "join"} => SecondPhase
         /\ \A k \in 1 .. nA :
              nA + k < line' =>
                \/ nA + k < line
                \/ op = "join adder" /\ t = AdderOrder[k]
         /\ \A k \in 1 .. nJ :
              nA + nA + 1 + nS + k < line' =>
                \/ nA + nA + 1 + nS + k < line
                \/ op = "join" /\ t = JoinOrder[k]
         /\ op = "assert" => \A k \in 1 .. nA : nA + k < line
<1>1. PICK a \in Nat, s \in Nat, j \in Nat : a = nA /\ s = nS /\ j = nJ
  BY Lengths
<1>2. Len(Script) = a + a + 1 + s + j
  BY <1>1, ScriptLines
<1>3. line \in 1 .. Len(Script) /\ line' = line + 1 /\ line \in Nat
  BY <1>2 DEF AtLine, Advance
<1>4. line' \in 1 .. Len(Script) + 1
  BY <1>2, <1>3
<1>5. /\ SecondPhase <=> a + a + 1 < line
      /\ SecondPhase' <=> a + a + 1 < line'
  BY <1>1 DEF SecondPhase
<1>6. SecondPhase => SecondPhase'
  BY <1>3, <1>5
<1>7. /\ SpawningAdders(line) => line \in 1 .. a
      /\ JoiningAdder(line, t) => \E k \in 1 .. a : line = a + k /\ t = AdderOrder[k]
      /\ Asserting(line) => line = a + a + 1
      /\ Spawning(line) => \E k \in 1 .. s : line = a + a + 1 + k
      /\ Joining(line, t) =>
           \E k \in 1 .. j : line = a + a + 1 + s + k /\ t = JoinOrder[k]
  BY <1>1 DEF SpawningAdders, JoiningAdder, Asserting, Spawning, Joining
<1>8. CASE op = "spawn adder" /\ SpawningAdders(line)
  <2>1. line \in 1 .. a
    BY <1>7, <1>8
  <2>2. \A k \in 1 .. a : a + k < line' => a + k < line
    BY <1>3, <2>1
  <2>3. \A k \in 1 .. j : a + a + 1 + s + k < line' => a + a + 1 + s + k < line
    BY <1>3, <2>1
  <2>4. ~SecondPhase'
    BY <1>3, <1>5, <2>1
  <2>5. QED
    BY <1>1, <1>4, <1>6, <1>8, <2>2, <2>3, <2>4
<1>9. CASE op = "join adder" /\ JoiningAdder(line, t)
  <2>1. PICK k \in 1 .. a : line = a + k /\ t = AdderOrder[k]
    BY <1>7, <1>9
  <2>2. \A m \in 1 .. a : a + m < line' => a + m < line \/ m = k
    BY <1>3, <2>1
  <2>3. \A m \in 1 .. j : a + a + 1 + s + m < line' => a + a + 1 + s + m < line
    BY <1>3, <2>1
  <2>4. ~SecondPhase'
    BY <1>3, <1>5, <2>1
  <2>5. QED
    BY <1>1, <1>4, <1>6, <1>9, <2>1, <2>2, <2>3, <2>4
<1>10. CASE op = "assert" /\ Asserting(line)
  <2>1. line = a + a + 1
    BY <1>7, <1>10
  <2>2. \A k \in 1 .. a : a + k < line
    BY <2>1
  <2>3. \A k \in 1 .. j : a + a + 1 + s + k < line' => a + a + 1 + s + k < line
    BY <1>3, <2>1
  <2>4. ~SecondPhase /\ SecondPhase'
    BY <1>3, <1>5, <2>1
  <2>5. QED
    BY <1>1, <1>4, <1>6, <1>10, <2>2, <2>3, <2>4
<1>11. CASE op = "spawn" /\ Spawning(line)
  <2>1. PICK k \in 1 .. s : line = a + a + 1 + k
    BY <1>7, <1>11
  <2>2. \A m \in 1 .. a : a + m < line' => a + m < line
    BY <1>3, <2>1
  <2>3. \A m \in 1 .. j : a + a + 1 + s + m < line' => a + a + 1 + s + m < line
    BY <1>2, <1>3, <2>1
  <2>4. SecondPhase
    BY <1>5, <2>1
  <2>5. QED
    BY <1>1, <1>4, <1>6, <1>11, <2>2, <2>3, <2>4
<1>12. CASE op = "join" /\ Joining(line, t)
  <2>1. PICK k \in 1 .. j : line = a + a + 1 + s + k /\ t = JoinOrder[k]
    BY <1>7, <1>12
  <2>2. \A m \in 1 .. a : a + m < line' => a + m < line
    BY <1>3, <2>1
  <2>3. \A m \in 1 .. j :
          a + a + 1 + s + m < line' => a + a + 1 + s + m < line \/ m = k
    BY <1>3, <2>1
  <2>4. SecondPhase
    BY <1>5, <2>1
  <2>5. QED
    BY <1>1, <1>4, <1>6, <1>12, <2>1, <2>2, <2>3, <2>4
<1>13. QED
  BY <1>8, <1>9, <1>10, <1>11, <1>12, WhichLine

-----------------------------------------------------------------------------
(* Results of the components, for this composition. *)

LEMMA AddersOK ==
  /\ ICP!AddersAssumption /\ ICP!AdderLoopsAssumption /\ ICP!AdderTCSAssumption
  /\ ICP!Cardinality(Adders) = Cardinality(Adders)
  BY Components DEF ICP!AddersAssumption, ICP!AdderLoopsAssumption,
     ICP!AdderTCSAssumption, ICP!IsFiniteSet, IsFiniteSet,
     ICP!Cardinality, Cardinality

LEMMA BufferOK ==
  /\ CBP!ConsumersAssumption /\ CBP!ThreadsAssumption /\ CBP!LoopsAssumption
  /\ CBP!SizeAssumption /\ CBP!TCSAssumption
  /\ CBP!Cardinality(CB!Threads) = Cardinality(CB!Threads)
  BY Components DEF CBP!ConsumersAssumption, CBP!ThreadsAssumption,
     CBP!LoopsAssumption, CBP!SizeAssumption, CBP!TCSAssumption, CBP!IsFiniteSet, IsFiniteSet,
     CBP!Cardinality, Cardinality

LEMMA AddersStart == IC!AInit => AdderInv
<1>1. IC!AInit => ICP!AInit
  BY DEF IC!AInit, ICP!AInit
<1>2. QED
  BY <1>1, ICP!ASyncInit, ICP!ACountInit, AddersOK DEF AdderInv

LEMMA AddersNext == AdderInv /\ [ICP!ANext]_(ICP!avars) => AdderInv'
  BY ICP!ASyncNext, ICP!ACountNext, AddersOK DEF AdderInv

LEMMA AddersDone ==
  ASSUME AdderInv, IC!AllAdded
  PROVE  counter = IC!Goal /\ tcs = 0 /\ global_mutex = NoThread /\ ~IC!AStep
<1>1. ICP!AllAdded /\ ICP!Goal = IC!Goal
  BY DEF IC!AllAdded, ICP!AllAdded, ICP!Goal, IC!Goal, IC!Cardinality, ICP!Cardinality
<1>2. QED
  BY <1>1, ICP!AllAddedComplete, ICP!AllAddedLeft, ICP!AllAddedStill, AddersOK,
     AdderSteps DEF AdderInv, ICP!CounterComplete

LEMMA BufferStart == CBP!Fresh => BufferInv
  BY CBP!SyncInit, CBP!RingInit, CBP!CountInit, BufferOK DEF BufferInv

LEMMA BufferNext == BufferInv /\ [CBP!Next]_(CBP!vars) => BufferInv'
  BY CBP!SyncNext, CBP!RingNext, CBP!CountNext, BufferOK DEF BufferInv

LEMMA BufferDone ==
  ASSUME BufferInv, CB!AllDone
  PROVE  /\ tcs = 0 /\ mutex = NoThread
         /\ more = {} /\ less = {}
         /\ occupied = 0 /\ nextin = nextout
<1>1. CBP!AllDone
  BY DEF CB!AllDone, CBP!AllDone, CB!Threads, CBP!Threads
<1>2. QED
  BY <1>1, CBP!AllDoneClean, BufferOK DEF BufferInv

-----------------------------------------------------------------------------
(* The steps. *)

\* A join list names every thread it joins.
LEMMA EveryThread ==
  /\ \A a \in Adders : \E k \in 1 .. nA : a = AdderOrder[k]
  /\ \A t \in CB!Threads : \E k \in 1 .. nJ : t = JoinOrder[k]
  /\ \A k \in 1 .. nA : AdderOrder[k] \in Adders
  /\ \A k \in 1 .. nJ : JoinOrder[k] \in CB!Threads
<1>1. DOMAIN AdderOrder = 1 .. nA /\ DOMAIN JoinOrder = 1 .. nJ
  BY ListsAssumption, LenProperties DEF nA, nJ
<1>2. CB!Threads = ToSet(JoinOrder)
  BY OrderAssumption DEF CB!Threads, Consumers
<1>3. QED
  BY <1>1, <1>2 DEF Adders, ToSet

LEMMA TFStart == TFInit => TFInv
<1> SUFFICES ASSUME TFInit PROVE TFInv
  OBVIOUS
<1>1. PICK a \in Nat, s \in Nat, j \in Nat : a = nA /\ s = nS /\ j = nJ
  BY Lengths
<1>2. Len(Script) = a + a + 1 + s + j /\ line = 1
  BY <1>1, ScriptLines DEF TFInit
<1>3. line \in 1 .. Len(Script) + 1 /\ ~(a + a + 1 < line)
  BY <1>2
<1>4. /\ \A k \in 1 .. a : ~(a + k < line)
      /\ \A k \in 1 .. j : ~(a + a + 1 + s + k < line)
  BY <1>2
<1>5. LineInv /\ ~SecondPhase
  BY <1>1, <1>3, <1>4 DEF LineInv, AddersJoined, ThreadsJoined, SecondPhase
<1>6. Untouched
  BY DEF TFInit, CB!Init, Untouched, CB!Slots, CBP!Slots
<1>7. QED
  BY <1>5, <1>6, AddersStart DEF TFInit, TFInv, PhaseInv, FirstInv

\* A step of the adders alone, on a line of the first phase.
LEMMA AddersMove ==
  ASSUME FirstInv, [ICP!ANext]_(ICP!avars), UNCHANGED bufferVars
  PROVE  /\ FirstInv'
         /\ \A a \in Adders : apc[a] = "done" => apc'[a] = "done"
<1>1. AdderInv'
  BY AddersNext DEF FirstInv
<1>2. Untouched'
  BY DEF FirstInv, Untouched, bufferVars, CB!Threads, CBP!Slots
<1>3. \A a \in Adders : apc[a] = "done" => apc'[a] = "done"
  BY ICP!AddedStays, AddersOK DEF FirstInv, AdderInv
<1>4. QED
  BY <1>1, <1>2, <1>3 DEF FirstInv

\* A step of the buffer's threads alone, on a line of the second phase.
LEMMA BufferMove ==
  ASSUME SecondInv, [CBP!Next]_(CBP!vars), UNCHANGED counterVars
  PROVE  /\ SecondInv'
         /\ \A t \in CB!Threads : pc[t] = "done" => pc'[t] = "done"
<1>1. BufferInv'
  BY BufferNext DEF SecondInv
<1>2. IC!AllAdded' /\ global_mutex' = NoThread
  BY DEF SecondInv, counterVars, IC!AllAdded
<1>3. \A t \in CB!Threads : pc[t] = "done" => pc'[t] = "done"
  BY CBP!DoneStays, BufferOK, BufferSteps DEF SecondInv, BufferInv
<1>4. QED
  BY <1>1, <1>2, <1>3 DEF SecondInv

\* A step of either phase that stays on its line.
LEMMA SameLine ==
  ASSUME TFInv, UNCHANGED line,
         \/ ~SecondPhase /\ [ICP!ANext]_(ICP!avars) /\ UNCHANGED bufferVars
         \/ SecondPhase /\ [CBP!Next]_(CBP!vars) /\ UNCHANGED counterVars
  PROVE  TFInv'
<1>1. (SecondPhase <=> SecondPhase') /\ LineInv
  BY DEF SecondPhase, TFInv
<1>2. CASE ~SecondPhase
  <2>1. FirstInv' /\ \A a \in Adders : apc[a] = "done" => apc'[a] = "done"
    BY <1>2, AddersMove DEF TFInv, PhaseInv
  <2>2. AddersJoined' /\ ThreadsJoined'
    BY <1>1, <1>2, <2>1, EveryThread DEF LineInv, AddersJoined, ThreadsJoined, bufferVars
  <2>3. QED
    BY <1>1, <1>2, <2>1, <2>2 DEF TFInv, LineInv, PhaseInv
<1>3. CASE SecondPhase
  <2>1. SecondInv' /\ \A t \in CB!Threads : pc[t] = "done" => pc'[t] = "done"
    BY <1>3, BufferMove DEF TFInv, PhaseInv
  <2>2. AddersJoined' /\ ThreadsJoined'
    BY <1>1, <1>3, <2>1, EveryThread DEF LineInv, AddersJoined, ThreadsJoined, counterVars
  <2>3. QED
    BY <1>1, <1>3, <2>1, <2>2 DEF TFInv, LineInv, PhaseInv
<1>4. QED
  BY <1>2, <1>3

\* A step of either phase that ends its line, within the phase.
LEMMA NextLine ==
  ASSUME TFInv, NEW op, NEW t, AtLine(op, t), Advance,
         \/ ~SecondPhase /\ [ICP!ANext]_(ICP!avars) /\ UNCHANGED bufferVars
         \/ SecondPhase /\ [CBP!Next]_(CBP!vars) /\ UNCHANGED counterVars,
         SecondPhase' => SecondPhase,
         op = "join adder" => apc[t] = "done",
         op = "join" => pc[t] = "done"
  PROVE  TFInv'
<1>1. /\ line' \in 1 .. Len(Script) + 1
      /\ SecondPhase => SecondPhase'
      /\ \A k \in 1 .. nA :
           nA + k < line' =>
             \/ nA + k < line
             \/ op = "join adder" /\ t = AdderOrder[k]
      /\ \A k \in 1 .. nJ :
           nA + nA + 1 + nS + k < line' =>
             \/ nA + nA + 1 + nS + k < line
             \/ op = "join" /\ t = JoinOrder[k]
  BY LineMoves DEF TFInv, LineInv
<1>2. /\ \A k \in 1 .. nA : nA + k < line' => apc[AdderOrder[k]] = "done"
      /\ \A k \in 1 .. nJ : nA + nA + 1 + nS + k < line' => pc[JoinOrder[k]] = "done"
  BY <1>1 DEF TFInv, LineInv, AddersJoined, ThreadsJoined
<1>3. CASE ~SecondPhase
  <2>1. FirstInv' /\ \A a \in Adders : apc[a] = "done" => apc'[a] = "done"
    BY <1>3, AddersMove DEF TFInv, PhaseInv
  <2>2. AddersJoined' /\ ThreadsJoined'
    BY <1>2, <1>3, <2>1, EveryThread DEF AddersJoined, ThreadsJoined, bufferVars
  <2>3. QED
    BY <1>1, <1>3, <2>1, <2>2 DEF TFInv, LineInv, PhaseInv
<1>4. CASE SecondPhase
  <2>1. SecondInv' /\ \A u \in CB!Threads : pc[u] = "done" => pc'[u] = "done"
    BY <1>4, BufferMove DEF TFInv, PhaseInv
  <2>2. AddersJoined' /\ ThreadsJoined'
    BY <1>2, <1>4, <2>1, EveryThread DEF AddersJoined, ThreadsJoined, counterVars
  <2>3. QED
    BY <1>1, <1>4, <2>1, <2>2 DEF TFInv, LineInv, PhaseInv
<1>5. QED
  BY <1>3, <1>4

\* The statement after the joins of the adders: at the assertion every adder is
\* done, so it holds, and what follows starts from an untouched buffer.
LEMMA AtAssertion ==
  ASSUME TFInv, AtLine("assert", NoThread)
  PROVE  /\ IC!AllAdded /\ FirstInv /\ ~SecondPhase
         /\ counter = IC!Goal /\ tcs = 0 /\ global_mutex = NoThread
<1>1. /\ line \in 1 .. Len(Script) + 1 /\ AddersJoined /\ PhaseInv
  BY DEF TFInv, LineInv
<1>2. line = nA + nA + 1
  <2>1. PICK op : op = "assert" /\ AtLine(op, NoThread)
    OBVIOUS
  <2>2. \/ op = "spawn adder" /\ SpawningAdders(line)
        \/ op = "join adder" /\ JoiningAdder(line, NoThread)
        \/ op = "assert" /\ Asserting(line)
        \/ op = "spawn" /\ Spawning(line)
        \/ op = "join" /\ Joining(line, NoThread)
    <3>1. AtLine(op, NoThread)
      BY <2>1
    <3>2. QED
      BY <1>1, <3>1, WhichLine
  <2>3. QED
    BY <2>1, <2>2 DEF Asserting
<1>3. ~SecondPhase /\ \A k \in 1 .. nA : nA + k < line
  <2>1. PICK a \in Nat : a = nA
    BY Lengths
  <2>2. ~(a + a + 1 < line) /\ \A k \in 1 .. a : a + k < line
    BY <1>2, <2>1
  <2>3. QED
    BY <2>1, <2>2 DEF SecondPhase
<1>4. IC!AllAdded
  BY <1>1, <1>3, EveryThread DEF AddersJoined, IC!AllAdded
<1>5. FirstInv
  BY <1>1, <1>3 DEF PhaseInv
<1>6. QED
  BY <1>3, <1>4, <1>5, AddersDone DEF FirstInv

\* Passing the assertion enters the second phase.
LEMMA PassAssertion == TFInv /\ CheckCounter => TFInv' /\ UNCHANGED aborted
<1> SUFFICES ASSUME TFInv, CheckCounter PROVE TFInv' /\ UNCHANGED aborted
  OBVIOUS
<1>1. /\ AtLine("assert", NoThread)
      /\ UNCHANGED <<counterVars, bufferVars, tcs, lost>>
  BY DEF CheckCounter
<1>2. /\ IC!AllAdded /\ FirstInv /\ ~SecondPhase
      /\ counter = IC!Goal /\ tcs = 0 /\ global_mutex = NoThread
  BY <1>1, AtAssertion
<1>3. Advance /\ UNCHANGED aborted
  BY <1>2 DEF CheckCounter
<1>4. /\ line' \in 1 .. Len(Script) + 1 /\ SecondPhase'
      /\ \A k \in 1 .. nJ :
           nA + nA + 1 + nS + k < line' => nA + nA + 1 + nS + k < line
  BY <1>1, <1>3, LineMoves DEF TFInv, LineInv
<1>5. CBP!Fresh
  BY <1>2 DEF FirstInv, AdderInv, Untouched, CBP!Fresh, CB!Threads, CBP!Threads,
              ICP!ASyncInv, ICP!ATypeOK
<1>6. BufferInv'
  <2>1. BufferInv
    BY <1>5, BufferStart
  <2>2. UNCHANGED CBP!vars
    BY <1>1, <1>3 DEF CBP!vars, bufferVars
  <2>3. QED
    BY <2>1, <2>2, BufferNext
<1>7. IC!AllAdded' /\ global_mutex' = NoThread
  BY <1>1, <1>2 DEF counterVars, IC!AllAdded
<1>8. AddersJoined'
  BY <1>7, EveryThread DEF AddersJoined, IC!AllAdded
<1>9. ThreadsJoined'
  BY <1>1, <1>4 DEF TFInv, LineInv, ThreadsJoined, bufferVars
<1>10. QED
  BY <1>3, <1>4, <1>6, <1>7, <1>8, <1>9 DEF TFInv, LineInv, PhaseInv, SecondInv

\* In each phase the threads of the other one take no step.
LEMMA Idle ==
  /\ TFInv /\ SecondPhase => ~AdderStep
  /\ TFInv /\ ~SecondPhase => ~BufferStep
<1>1. IC!AllAdded => ~IC!AStep
  BY ICP!AllAddedStill, AddersOK, AdderSteps DEF IC!AllAdded, ICP!AllAdded
<1>2. Untouched => ~CB!Step
  BY CBP!UnbornStill, BufferOK, BufferSteps DEF Untouched
<1>3. QED
  BY <1>1, <1>2 DEF TFInv, PhaseInv, FirstInv, SecondInv, AdderStep, BufferStep

\* Which component a step belongs to, apart from the assertion.
LEMMA StepIsOne ==
  ASSUME TFInv, [TFNext]_allVars, ~CheckCounter
  PROVE  \/ ~SecondPhase /\ [ICP!ANext]_(ICP!avars) /\ UNCHANGED bufferVars
         \/ SecondPhase /\ [CBP!Next]_(CBP!vars) /\ UNCHANGED counterVars
<1> USE DEF ICP!avars, CBP!vars, counterVars, bufferVars
<1>0. line \in 1 .. Len(Script) + 1
  BY DEF TFInv, LineInv
<1>1. CASE SpawnAdder
  <2>1. PICK a \in Adders : /\ AtLine("spawn adder", a) /\ IC!ASpawn(a)
                            /\ Advance /\ UNCHANGED bufferVars
    BY <1>1 DEF SpawnAdder
  <2>2. ~SecondPhase
    BY <1>0, <2>1, LineMoves
  <2>3. QED
    BY <2>1, <2>2, AdderSteps
<1>2. CASE SpawnThread
  <2>1. PICK t \in CB!Threads : /\ AtLine("spawn", t) /\ CB!Spawn(t)
                                /\ Advance /\ UNCHANGED counterVars
    BY <1>2 DEF SpawnThread
  <2>2. SecondPhase
    BY <1>0, <2>1, LineMoves
  <2>3. QED
    BY <2>1, <2>2, BufferSteps
<1>3. CASE JoinAdder \/ JoinThread \/ TFStopped \/ UNCHANGED allVars
  BY <1>3 DEF JoinAdder, JoinThread, TFStopped, allVars
<1>4. CASE AdderStep
  BY <1>4, Idle, AdderSteps DEF AdderStep
<1>5. CASE BufferStep
  BY <1>5, Idle, BufferSteps DEF BufferStep
<1>6. CASE LoseEnclave
  <2>1. CB!PowerTransition /\ UNCHANGED counterVars
    BY <1>6 DEF LoseEnclave
  <2>2. ICP!ANext /\ UNCHANGED bufferVars
    BY <2>1 DEF CB!PowerTransition, CB!ring, ICP!ANext, ICP!APowerTransition
  <2>3. QED
    BY <2>1, <2>2, BufferSteps
<1>7. QED
  BY <1>1, <1>2, <1>3, <1>4, <1>5, <1>6 DEF TFNext, TFProgress

\* Every step of the function and of its threads preserves the invariant.
LEMMA TFStep == TFInv /\ [TFNext]_allVars => TFInv'
<1> SUFFICES ASSUME TFInv, [TFNext]_allVars PROVE TFInv'
  OBVIOUS
<1>0. line \in 1 .. Len(Script) + 1
  BY DEF TFInv, LineInv
<1>1. CASE CheckCounter
  BY <1>1, PassAssertion
<1> DEFINE Own == \/ ~SecondPhase /\ [ICP!ANext]_(ICP!avars) /\ UNCHANGED bufferVars
                  \/ SecondPhase /\ [CBP!Next]_(CBP!vars) /\ UNCHANGED counterVars
<1>2. ~CheckCounter => Own
  BY StepIsOne
<1>3. CASE SpawnAdder /\ Own
  <2>1. PICK a \in Adders : AtLine("spawn adder", a) /\ Advance
    BY <1>3 DEF SpawnAdder
  <2>2. ~SecondPhase'
    BY <1>0, <2>1, LineMoves
  <2>3. QED
    BY <1>3, <2>1, <2>2, NextLine
<1>4. CASE JoinAdder /\ Own
  <2>1. PICK a \in Adders : /\ AtLine("join adder", a) /\ Advance
                            /\ apc[a] = "done"
    BY <1>4 DEF JoinAdder
  <2>2. ~SecondPhase'
    BY <1>0, <2>1, LineMoves
  <2>3. QED
    BY <1>4, <2>1, <2>2, NextLine
<1>5. CASE SpawnThread /\ Own
  <2>1. PICK t \in CB!Threads : AtLine("spawn", t) /\ Advance
    BY <1>5 DEF SpawnThread
  <2>2. SecondPhase
    BY <1>0, <2>1, LineMoves
  <2>3. QED
    BY <1>5, <2>1, <2>2, NextLine
<1>6. CASE JoinThread /\ Own
  <2>1. PICK t \in CB!Threads : AtLine("join", t) /\ Advance /\ pc[t] = "done"
    BY <1>6 DEF JoinThread
  <2>2. SecondPhase
    BY <1>0, <2>1, LineMoves
  <2>3. QED
    BY <1>6, <2>1, <2>2, NextLine
<1>7. CASE UNCHANGED line /\ Own
  BY <1>7, SameLine
<1>8. QED
  BY <1>1, <1>2, <1>3, <1>4, <1>5, <1>6, <1>7
     DEF TFNext, TFProgress, AdderStep, BufferStep, LoseEnclave, TFStopped, allVars

LEMMA TFInvariance == TFSpec => []TFInv
<1>1. QED
  BY TFStart, TFStep, PTL DEF TFSpec

-----------------------------------------------------------------------------
\* The assertion of line 83 holds whenever the main thread gets to it, for any
\* number of adders and loops and whatever the scheduler does.
THEOREM AssertionHolds == TFSpec => []AssertHolds
<1>1. TFInv => AssertHolds
  BY AtAssertion DEF AssertHolds
<1>2. QED
  BY <1>1, TFInvariance, PTL

\* When ecall_thread_functions returns (line 98) it leaves no thread running,
\* no mutex locked, no TCS in use, nobody queued and nothing in the buffer.
THEOREM ReturnsClean == TFSpec => []CleanReturn
<1>1. TFInv => CleanReturn
  <2> SUFFICES ASSUME TFInv, Returned
               PROVE  /\ IC!AllAdded /\ CB!AllDone
                      /\ tcs = 0 /\ mutex = NoThread /\ global_mutex = NoThread
                      /\ more = {} /\ less = {}
                      /\ occupied = 0 /\ nextin = nextout
    BY DEF CleanReturn
  <2>1. PICK a \in Nat, s \in Nat, j \in Nat : a = nA /\ s = nS /\ j = nJ
    BY Lengths
  <2>2. line = a + a + 1 + s + j + 1
    <3>1. Len(Script) = a + a + 1 + s + j /\ line \in 1 .. Len(Script) + 1
      BY <2>1, ScriptLines DEF TFInv, LineInv
    <3>2. line > Len(Script)
      BY DEF Returned
    <3>3. QED
      BY <3>1, <3>2
  <2>3. a + a + 1 < line /\ \A k \in 1 .. j : a + a + 1 + s + k < line
    BY <2>2
  <2>4. SecondPhase /\ \A k \in 1 .. nJ : pc[JoinOrder[k]] = "done"
    BY <2>1, <2>3 DEF SecondPhase, TFInv, LineInv, ThreadsJoined
  <2>5. CB!AllDone
    BY <2>4, EveryThread DEF CB!AllDone
  <2>6. SecondInv
    BY <2>4 DEF TFInv, PhaseInv
  <2>7. QED
    BY <2>5, <2>6, BufferDone DEF SecondInv
<1>2. QED
  BY <1>1, TFInvariance, PTL

\* The enclave has a TCS for every thread of either phase: TCSNum is 10 in
\* Enclave.config.xml, for 4 adders and then 5 threads.
EnoughTCS == Cardinality(Adders) <= TCSNum /\ Cardinality(CB!Threads) <= TCSNum

LEMMA AbortStep ==
  ASSUME EnoughTCS, TFInv, [TFNext]_allVars, aborted => lost
  PROVE  aborted' => lost'
<1>1. CASE CheckCounter
  <2>1. UNCHANGED aborted /\ UNCHANGED lost
    BY <1>1, PassAssertion DEF CheckCounter
  <2>2. QED
    BY <2>1
<1>2. CASE ~SecondPhase /\ [ICP!ANext]_(ICP!avars)
  BY <1>2, ICP!AddersAbort, AddersOK
     DEF EnoughTCS, TFInv, PhaseInv, FirstInv, AdderInv
<1>3. CASE SecondPhase /\ [CBP!Next]_(CBP!vars)
  BY <1>3, CBP!ThreadsAbort, BufferOK, BufferSteps
     DEF EnoughTCS, TFInv, PhaseInv, SecondInv, BufferInv
<1>4. QED
  BY <1>1, <1>2, <1>3, StepIsOne

\* With a TCS for every thread of a phase, the process aborts only when a power
\* transition took the enclave: the joins of lines 78-81 return the adders' TCSs
\* before the consumers and the producer need theirs.
THEOREM AbortsOnlyIfLost == EnoughTCS => (TFSpec => []AbortOnlyIfLost)
<1> SUFFICES ASSUME EnoughTCS PROVE TFSpec => []AbortOnlyIfLost
  OBVIOUS
<1>1. TFInit => AbortOnlyIfLost
  BY DEF TFInit, CB!Init, AbortOnlyIfLost
<1>2. TFInv /\ AbortOnlyIfLost /\ [TFNext]_allVars => AbortOnlyIfLost'
  BY AbortStep DEF AbortOnlyIfLost
<1>3. QED
  BY <1>1, <1>2, TFInvariance, PTL DEF TFSpec
=============================================================================
