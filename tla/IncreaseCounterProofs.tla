------------------------ MODULE IncreaseCounterProofs ------------------------
(***************************************************************************)
(* Proofs about IncreaseCounter, for any finite set of adders, any number  *)
(* of loops and any number of TCSs.                                        *)
(*                                                                         *)
(* ASyncInv (types, mutual exclusion, the fresh read, the TCS pool) is     *)
(* inductive by itself; ACountInv (increments counted through tickets, and *)
(* who reports the goal) is inductive on top of it.                        *)
(***************************************************************************)
EXTENDS IncreaseCounter, FiniteSetTheorems, TLAPS

\* Facts about the constants, and the finite sets that are counted.
LEMMA AConstants ==
  /\ LOOPS_PER_THREAD \in Nat /\ TCSNum \in Nat
  /\ \A a \in Adders : a # NoThread
  /\ Goal \in Nat
  /\ IsFiniteSet(ATickets) /\ Cardinality(ATickets) = Goal
<1>1. /\ IsFiniteSet(1 .. LOOPS_PER_THREAD)
      /\ Cardinality(1 .. LOOPS_PER_THREAD) = LOOPS_PER_THREAD
  BY FS_Interval, AdderLoopsAssumption
<1>2. IsFiniteSet(ATickets) /\ Cardinality(ATickets) = Goal
  BY <1>1, FS_Product, AddersAssumption DEF ATickets, Goal
<1>3. Goal \in Nat
  BY <1>2, FS_CardinalityType
<1>4. QED
  BY <1>2, <1>3, AddersAssumption, AdderLoopsAssumption, AdderTCSAssumption

LEMMA AEnteredFinite == IsFiniteSet(AEntered) /\ Cardinality(AEntered) \in Nat
  BY AddersAssumption, FS_Subset, FS_CardinalityType DEF AEntered

\* No more increments can be made than there are tickets.
LEMMA IncrementsFinite ==
  /\ IsFiniteSet(Increments)
  /\ Cardinality(Increments) \in Nat
  /\ Cardinality(Increments) <= Goal
  BY AConstants, FS_Subset, FS_CardinalityType DEF Increments

-----------------------------------------------------------------------------
(* Layer 1: synchronisation. *)

LEMMA ASyncInit == AInit => ASyncInv
<1> SUFFICES ASSUME AInit PROVE ASyncInv
  OBVIOUS
<1>1. ATypeOK
  <2>1. 0 \in Nat /\ 0 \in 0 .. LOOPS_PER_THREAD /\ 0 \in 0 .. TCSNum
    BY AConstants
  <2>2. QED
    BY <2>1 DEF AInit, ATypeOK, APCs
<1>2. AMutexInv /\ FreshRead /\ ALoopInv
  BY AConstants DEF AInit, AMutexInv, FreshRead, ALoopInv, AHolding
<1>3. AEntered = {}
  BY DEF AInit, AEntered, AInside, AHolding
<1>4. APoolInv
  BY <1>3, FS_EmptySet DEF AInit, APoolInv
<1>5. QED
  BY <1>1, <1>2, <1>4 DEF ASyncInv

\* A step that keeps every adder on its side of the enclave's boundary keeps
\* the pool.
LEMMA APoolKept ==
  ASSUME APoolInv, tcs' = tcs,
         \A a \in Adders : apc'[a] \in AInside <=> apc[a] \in AInside
  PROVE  APoolInv'
  BY DEF APoolInv, AEntered, AInside, AHolding

\* Every step preserves the synchronisation invariant.
LEMMA ASyncNext == ASyncInv /\ [ANext]_avars => ASyncInv'
<1> SUFFICES ASSUME ASyncInv, [ANext]_avars PROVE ASyncInv'
  OBVIOUS
<1> USE AConstants
<1> USE DEF ASyncInv, ATypeOK, AMutexInv, FreshRead, ALoopInv, APCs, AInside,
            AHolding, aenv, AGoto, ARunning
<1>1. ASSUME NEW a \in Adders, ASpawn(a) PROVE ASyncInv'
  <2>1. APoolInv'
    BY <1>1, APoolKept DEF ASpawn
  <2>2. QED
    BY <1>1, <2>1 DEF ASpawn
<1>2. ASSUME NEW a \in Adders, AEnter(a) PROVE ASyncInv'
  <2>1. AEntered' = AEntered \cup {a} /\ a \notin AEntered
    BY <1>2 DEF AEnter, AEntered
  <2>2. APoolInv'
    BY <1>2, <2>1, AEnteredFinite, FS_AddElement DEF AEnter, APoolInv
  <2>3. QED
    BY <1>2, <2>2 DEF AEnter
<1>3. ASSUME NEW a \in Adders, AEcallFails(a) PROVE ASyncInv'
  <2>1. APoolInv'
    BY <1>3, APoolKept DEF AEcallFails
  <2>2. QED
    BY <1>3, <2>1 DEF AEcallFails
<1>4. ASSUME NEW a \in Adders, ALock(a) PROVE ASyncInv'
  <2>1. APoolInv'
    BY <1>4, APoolKept DEF ALock
  <2>2. QED
    BY <1>4, <2>1 DEF ALock
<1>5. ASSUME NEW a \in Adders, ARead(a) PROVE ASyncInv'
  <2>1. APoolInv'
    BY <1>5, APoolKept DEF ARead
  <2>2. QED
    BY <1>5, <2>1 DEF ARead
<1>6. ASSUME NEW a \in Adders, AWrite(a) PROVE ASyncInv'
  <2>1. APoolInv'
    BY <1>6, APoolKept DEF AWrite
  <2>2. QED
    BY <1>6, <2>1 DEF AWrite
<1>7. ASSUME NEW a \in Adders, AUnlock(a) PROVE ASyncInv'
  <2>1. APoolInv'
    BY <1>7, APoolKept DEF AUnlock
  <2>2. QED
    BY <1>7, <2>1 DEF AUnlock
<1>8. ASSUME NEW a \in Adders, AReturn(a) PROVE ASyncInv'
  <2>1. AEntered' = AEntered \ {a} /\ a \in AEntered
    BY <1>8 DEF AReturn, AEntered
  <2>2. APoolInv' /\ tcs > 0
    <3>1. Cardinality(AEntered) # 0
      BY <2>1, AEnteredFinite, FS_EmptySet
    <3>2. Cardinality(AEntered') = Cardinality(AEntered) - 1
      BY <2>1, AEnteredFinite, FS_RemoveElement
    <3>3. QED
      BY <1>8, <3>1, <3>2, AEnteredFinite DEF AReturn, APoolInv
  <2>3. QED
    BY <1>8, <2>2 DEF AReturn
<1>9. ASSUME NEW a \in Adders, APublish(a) PROVE ASyncInv'
  <2>1. APoolInv'
    BY <1>9, APoolKept DEF APublish
  <2>2. QED
    BY <1>9, <2>1 DEF APublish
<1>10. CASE APowerTransition \/ UNCHANGED avars
  <2>1. APoolInv'
    BY <1>10, APoolKept DEF APowerTransition, avars
  <2>2. QED
    BY <1>10, <2>1 DEF APowerTransition, avars
<1>11. QED
  BY <1>1, <1>2, <1>3, <1>4, <1>5, <1>6, <1>7, <1>8, <1>9, <1>10
     DEF ANext, AProgress, AStep, AStopped

-----------------------------------------------------------------------------
(* Layer 2: increments and their report. *)

LEMMA ACountInit == AInit => ACountInv
<1> SUFFICES ASSUME AInit PROVE ACountInv
  OBVIOUS
<1>1. Increments = {}
  BY DEF AInit, Increments, ATickets, Added
<1>2. NoLostUpdate
  BY <1>1, FS_EmptySet DEF AInit, NoLostUpdate
<1>3. OneWriter /\ GoalReported /\ ReportInv
  BY DEF AInit, OneWriter, GoalReported, ReportInv
<1>4. QED
  BY <1>2, <1>3 DEF ACountInv

\* The write uses exactly one ticket, and the adder that uses the last one is
\* the only one that ever reports.
LEMMA WriteCounts ==
  ASSUME ASyncInv, ACountInv, NEW a \in Adders, AWrite(a)
  PROVE  ACountInv'
<1>0. /\ apc[a] = "write" /\ apc' = [apc EXCEPT ![a] = "unlock"]
      /\ apc \in [Adders -> APCs] /\ ai \in [Adders -> 0 .. LOOPS_PER_THREAD]
      /\ ret \in [Adders -> Nat]
      /\ ret' = [ret EXCEPT ![a] = IF tmp[a] = Goal THEN tmp[a] ELSE @]
      /\ UNCHANGED <<ai, counter>>
      /\ global_counter \in Nat /\ global_counter' = global_counter + 1
      /\ tmp[a] = global_counter'
      /\ ai[a] < LOOPS_PER_THREAD
  BY DEF ASyncInv, ATypeOK, FreshRead, ALoopInv, AHolding, AWrite, AGoto
<1> DEFINE k == <<a, ai[a] + 1>>
<1>1. /\ Added(a) = ai[a] /\ Added(a)' = ai[a] + 1
      /\ \A x \in Adders \ {a} : Added(x)' = Added(x)
      /\ \A x \in Adders : Added(x) \in Nat
  BY <1>0, AConstants DEF Added
<1>2. k \in ATickets /\ k \notin Increments
  BY <1>0, <1>1, AConstants DEF Increments, ATickets
<1>3. Increments' = Increments \cup {k}
  <2>1. ASSUME NEW x \in Adders, NEW n \in 1 .. LOOPS_PER_THREAD
        PROVE  n <= Added(x)' <=> n <= Added(x) \/ <<x, n>> = k
    BY <1>0, <1>1, AConstants
  <2>2. QED
    BY <1>2, <2>1 DEF Increments, ATickets
<1>4. Cardinality(Increments') = Cardinality(Increments) + 1
  BY <1>2, <1>3, IncrementsFinite, FS_AddElement
<1>5. NoLostUpdate'
  BY <1>0, <1>4 DEF NoLostUpdate, ACountInv
<1>6. Cardinality(Increments') <= Goal
  BY <1>2, <1>3, IncrementsFinite, AConstants, FS_Subset DEF Increments
<1>7. global_counter < Goal
  BY <1>0, <1>4, <1>6, IncrementsFinite, AConstants DEF NoLostUpdate, ACountInv
<1>8. \A x \in Adders : ret[x] = 0
  BY <1>0, <1>7, AConstants DEF GoalReported, ACountInv
<1>9. OneWriter' /\ GoalReported'
  BY <1>0, <1>8, AConstants DEF OneWriter, GoalReported, ACountInv
<1>10. ReportInv'
  BY <1>0, <1>8, AConstants DEF ReportInv
<1>11. QED
  BY <1>5, <1>9, <1>10 DEF ACountInv

\* A step that makes no increment and reports nothing keeps the counts.
LEMMA ACountKept ==
  ASSUME ACountInv, UNCHANGED <<global_counter, counter, ret>>,
         \A a \in Adders : Added(a)' = Added(a),
         \A a \in Adders : apc'[a] = "done" => apc[a] = "done"
  PROVE  ACountInv'
<1>1. Increments' = Increments
  BY DEF Increments, ATickets
<1>2. QED
  BY <1>1 DEF ACountInv, NoLostUpdate, OneWriter, GoalReported, ReportInv

\* Every step preserves the counting invariant.
LEMMA ACountNext == ASyncInv /\ ACountInv /\ [ANext]_avars => ACountInv'
<1> SUFFICES ASSUME ASyncInv, ACountInv, [ANext]_avars PROVE ACountInv'
  OBVIOUS
<1>0. /\ apc \in [Adders -> APCs] /\ ai \in [Adders -> 0 .. LOOPS_PER_THREAD]
      /\ ret \in [Adders -> Nat]
  BY DEF ASyncInv, ATypeOK
<1> USE <1>0, AConstants DEF AGoto
<1>1. ASSUME NEW a \in Adders, AWrite(a) PROVE ACountInv'
  BY <1>1, WriteCounts
<1>2. ASSUME NEW a \in Adders, APublish(a) PROVE ACountInv'
  <2>1. Increments' = Increments
    BY <1>2 DEF APublish, Increments, ATickets, Added
  <2>2. NoLostUpdate' /\ OneWriter'
    BY <1>2, <2>1 DEF APublish, ACountInv, NoLostUpdate, OneWriter
  <2>3. GoalReported' /\ ReportInv'
    BY <1>2 DEF APublish, ACountInv, GoalReported, ReportInv
  <2>4. QED
    BY <2>2, <2>3 DEF ACountInv
<1>3. ASSUME NEW a \in Adders, AUnlock(a) PROVE ACountInv'
  <2>1. \A x \in Adders : Added(x)' = Added(x)
    BY <1>3 DEF AUnlock, Added
  <2>2. QED
    BY <1>3, <2>1, ACountKept DEF AUnlock
<1>4. ASSUME NEW a \in Adders,
             \/ ASpawn(a) \/ AEnter(a) \/ AEcallFails(a)
             \/ ALock(a) \/ ARead(a) \/ AReturn(a)
      PROVE  ACountInv'
  <2>1. \A x \in Adders : Added(x)' = Added(x)
    BY <1>4
       DEF ASpawn, AEnter, AEcallFails, ALock, ARead, AReturn, Added
  <2>2. QED
    BY <1>4, <2>1, ACountKept
       DEF ASpawn, AEnter, AEcallFails, ALock, ARead, AReturn
<1>5. CASE APowerTransition \/ UNCHANGED avars
  <2>1. \A x \in Adders : Added(x)' = Added(x)
    BY <1>5 DEF APowerTransition, avars, Added
  <2>2. QED
    BY <1>5, <2>1, ACountKept DEF APowerTransition, avars
<1>6. QED
  BY <1>1, <1>2, <1>3, <1>4, <1>5 DEF ANext, AProgress, AStep, AStopped

-----------------------------------------------------------------------------
LEMMA AInvariance == ASpec => [](ASyncInv /\ ACountInv)
<1>1. AInit => ASyncInv /\ ACountInv
  BY ASyncInit, ACountInit
<1>2. ASyncInv /\ ACountInv /\ [ANext]_avars => (ASyncInv /\ ACountInv)'
  BY ASyncNext, ACountNext
<1>3. QED
  BY <1>1, <1>2, PTL DEF ASpec

\* Type correctness, and the critical section of ecall_increase_counter
\* (Thread.cpp 64-70) has one thread at a time.
THEOREM CounterTyped == ASpec => [](ATypeOK /\ AMutexInv)
<1>1. ASyncInv => ATypeOK /\ AMutexInv
  BY DEF ASyncInv
<1>2. QED
  BY <1>1, AInvariance, PTL

\* Through every interleaving (Thread.cpp 58-72) the variables keep their types
\* and the counters and what the threads return stay at or below the goal: no
\* thread counts an increment that another one has counted.
THEOREM ATyped ==
  ASpec => [](/\ ATypeOK
              /\ global_counter <= Goal /\ counter <= Goal
              /\ \A a \in Adders : ret[a] <= Goal)
<1>1. ASSUME ASyncInv, ACountInv
      PROVE  /\ ATypeOK
             /\ global_counter <= Goal /\ counter <= Goal
             /\ \A a \in Adders : ret[a] <= Goal
  <2>1. ATypeOK
    BY <1>1 DEF ASyncInv
  <2>2. global_counter <= Goal
    BY <1>1, IncrementsFinite DEF ACountInv, NoLostUpdate
  <2>3. counter <= Goal /\ \A a \in Adders : ret[a] <= Goal
    BY <1>1, <2>1, AConstants DEF ACountInv, GoalReported, ATypeOK
  <2>4. QED
    BY <2>1, <2>2, <2>3
<1>2. QED
  BY <1>1, AInvariance, PTL

\* No increment of global_counter is lost (Thread.cpp 66-67), for any number of
\* adders and loops.
THEOREM EveryIncrement == ASpec => []NoLostUpdate
<1>1. ACountInv => NoLostUpdate
  BY DEF ACountInv
<1>2. QED
  BY <1>1, AInvariance, PTL

\* At most one thread writes the host's unprotected counter, and what it writes
\* is the goal (Thread.cpp 68-69, and line 47 of the host's).
THEOREM SingleReport == ASpec => [](OneWriter /\ GoalReported)
<1>1. ACountInv => OneWriter /\ GoalReported
  BY DEF ACountInv
<1>2. QED
  BY <1>1, AInvariance, PTL

\* The goal is never reported early: whatever result reaches the host is the goal,
\* and was reached (Thread.cpp 67-69 of the enclave, 47 of the host).
THEOREM NeverEarly == ASpec => []GoalReported
  BY SingleReport, PTL

\* When every adder is done the host has the goal.
LEMMA AllAddedComplete == ASyncInv /\ ACountInv => CounterComplete
<1> SUFFICES ASSUME ASyncInv, ACountInv, AllAdded PROVE counter = Goal
  BY DEF CounterComplete
<1>1. \A a \in Adders : Added(a) = LOOPS_PER_THREAD
  BY AConstants DEF AllAdded, Added, ASyncInv, ATypeOK, ALoopInv
<1>2. Increments = ATickets
  BY <1>1, AConstants DEF Increments, ATickets
<1>3. global_counter = Goal
  BY <1>2, AConstants DEF ACountInv, NoLostUpdate
<1>4. CASE Goal # 0
  <2>1. PICK a \in Adders : ret[a] = Goal
    BY <1>3, <1>4 DEF ACountInv, ReportInv
  <2>2. QED
    BY <1>4, <2>1 DEF AllAdded, ACountInv, ReportInv
<1>5. CASE Goal = 0
  BY <1>5 DEF ACountInv, GoalReported
<1>6. QED
  BY <1>4, <1>5

\* The assertion of the host (line 83): when every adder is done, counter is
\* the number of increments asked for.
THEOREM AssertionHolds == ASpec => []CounterComplete
  BY AllAddedComplete, AInvariance, PTL

-----------------------------------------------------------------------------
(* What the driver of the two components needs to know about the adders. *)

\* Adders that are done have left the enclave and its mutex.
LEMMA AllAddedLeft == ASyncInv /\ AllAdded => tcs = 0 /\ global_mutex = NoThread
<1> SUFFICES ASSUME ASyncInv, AllAdded PROVE tcs = 0 /\ global_mutex = NoThread
  OBVIOUS
<1>1. AEntered = {}
  BY DEF AllAdded, AEntered, AInside, AHolding
<1>2. tcs = 0
  BY <1>1, FS_EmptySet DEF ASyncInv, APoolInv
<1>3. \A a \in Adders : global_mutex # a
  BY DEF AllAdded, ASyncInv, AMutexInv, AHolding
<1>4. QED
  BY <1>2, <1>3 DEF ASyncInv, ATypeOK

LEMMA AllAddedStill == AllAdded => ~AStep
  BY DEF AllAdded, AStep, AEnter, AEcallFails, ALock, ARead, AWrite, AUnlock,
         AReturn, APublish, AGoto, AInside, AHolding

\* An adder that is done stays done.
LEMMA AddedStays ==
  ASSUME ASyncInv, [ANext]_avars, NEW a \in Adders, apc[a] = "done"
  PROVE  apc'[a] = "done"
<1>1. apc \in [Adders -> APCs]
  BY DEF ASyncInv, ATypeOK
<1>2. QED
  BY <1>1 DEF ANext, AProgress, AStep, AStopped, ASpawn, AEnter, AEcallFails,
              APowerTransition, ALock, ARead, AWrite, AUnlock, AReturn, APublish,
              AGoto, avars

\* With a TCS for every adder an ECALL fails only when the enclave was lost.
LEMMA AddersAbort ==
  ASSUME ASyncInv, [ANext]_avars, Cardinality(Adders) <= TCSNum,
         aaborted => alost
  PROVE  aaborted' => alost'
<1>1. ASSUME NEW a \in Adders, AEcallFails(a) PROVE alost'
  <2> SUFFICES ASSUME apc[a] = "enter", tcs >= TCSNum PROVE FALSE
    BY <1>1 DEF AEcallFails
  <2>1. AEntered \subseteq Adders \ {a}
    BY DEF AEntered, AInside, AHolding
  <2>2. /\ IsFiniteSet(Adders \ {a})
        /\ Cardinality(Adders \ {a}) = Cardinality(Adders) - 1
    BY AddersAssumption, FS_RemoveElement
  <2>3. Cardinality(AEntered) <= Cardinality(Adders) - 1
    BY <2>1, <2>2, FS_Subset
  <2>4. Cardinality(Adders) \in Nat /\ Cardinality(AEntered) \in Nat
    BY AEnteredFinite, AddersAssumption, FS_CardinalityType
  <2>5. QED
    BY <2>3, <2>4, AConstants DEF ASyncInv, APoolInv
<1>2. (\A a \in Adders : ~AEcallFails(a)) => aaborted' = aaborted /\ (alost => alost')
  BY DEF ANext, AProgress, AStep, AStopped, ASpawn, AEnter,
         APowerTransition, ALock, ARead, AWrite, AUnlock, AReturn, APublish,
         aenv, avars
<1>3. QED
  BY <1>1, <1>2
=============================================================================
