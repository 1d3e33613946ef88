-------------------------- MODULE CondBufferProofs --------------------------
(***************************************************************************)
(* Proofs about CondBuffer, for any finite set of consumers, any number of *)
(* loops, any positive buffer size and any number of TCSs.                 *)
(*                                                                         *)
(* The inductive invariant comes in three layers: SyncInv (types, mutual   *)
(* exclusion, wait queues, the TCS pool), then RingInv (the indices and    *)
(* slots) and CountInv (items, wakeups), which rest on the first.          *)
(***************************************************************************)
EXTENDS CondBuffer, FiniteSetTheorems, TLAPS

USE DEF Threads, Slots

\* Facts about the constants that every proof below needs.
LEMMA ConstantFacts ==
  /\ IsFiniteSet(Threads)
  /\ Cardinality(Consumers) \in Nat
  /\ Total \in Nat
  /\ Producer # NoThread
  /\ \A c \in Consumers : c # Producer /\ c # NoThread
  /\ BUFFER_SIZE \in Nat /\ BUFFER_SIZE > 0
  /\ LOOPS_PER_THREAD \in Nat /\ TCSNum \in Nat
<1>1. IsFiniteSet(Threads)
  BY FS_AddElement, ConsumersAssumption
<1>2. Cardinality(Consumers) \in Nat
  BY FS_CardinalityType, ConsumersAssumption
<1>3. Total \in Nat
  BY <1>2, LoopsAssumption DEF Total
<1>4. QED
  BY <1>1, <1>2, <1>3, ThreadsAssumption, LoopsAssumption, SizeAssumption,
     TCSAssumption

\* The number of threads inside the enclave is a natural number.
LEMMA EnteredFinite == IsFiniteSet(Entered) /\ Cardinality(Entered) \in Nat
  BY ConstantFacts, FS_Subset, FS_CardinalityType DEF Entered

\* Advancing an index around the ring, without the modulo.
LEMMA NextSlotValue ==
  ASSUME NEW n \in Slots
  PROVE  /\ NextSlot(n) = IF n = BUFFER_SIZE - 1 THEN 0 ELSE n + 1
         /\ NextSlot(n) \in Slots
  BY ConstantFacts DEF NextSlot

\* The slot d places after slot n, without the modulo.
LEMMA Around ==
  ASSUME NEW n \in Slots, NEW d \in 0 .. BUFFER_SIZE
  PROVE  (n + d) % BUFFER_SIZE =
           IF n + d < BUFFER_SIZE THEN n + d ELSE n + d - BUFFER_SIZE
  BY ConstantFacts

-----------------------------------------------------------------------------
(* Layer 1: synchronisation. *)

\* A buffer that no thread has entered yet, whatever became of the enclave: the
\* initial state, and the state in which ecall_thread_functions gets to it.
Fresh ==
  /\ buf = [s \in Slots |-> 0]
  /\ occupied = 0 /\ nextin = 0 /\ nextout = 0
  /\ mutex = NoThread
  /\ more = {} /\ less = {}
  /\ pc = [t \in Threads |-> "unborn"]
  /\ i = [t \in Threads |-> 0]
  /\ tcs = 0
  /\ lost \in BOOLEAN /\ aborted \in BOOLEAN

LEMMA InitFresh == Init => Fresh
  BY DEF Init, Fresh

LEMMA SyncInit == Fresh => SyncInv
<1> SUFFICES ASSUME Fresh PROVE SyncInv
  OBVIOUS
<1>1. TypeOK /\ MutexInv /\ QueueInv /\ TestedInv
  <2>1. 0 \in Slots /\ 0 \in 0 .. BUFFER_SIZE /\ 0 \in 0 .. TCSNum
    BY ConstantFacts
  <2>2. TypeOK
    BY <2>1 DEF Fresh, TypeOK, PCs
  <2>3. MutexInv /\ QueueInv /\ TestedInv
    BY ConstantFacts DEF Fresh, MutexInv, QueueInv, TestedInv, Holding
  <2>4. QED
    BY <2>2, <2>3
<1>2. Entered = {}
  BY DEF Fresh, Entered, Inside, Holding
<1>3. PoolInv
  BY <1>2, FS_EmptySet DEF Fresh, PoolInv
<1>4. QED
  BY <1>1, <1>3 DEF SyncInv

\* A step that keeps every thread on its side of the enclave's boundary keeps
\* the pool.
LEMMA PoolKept ==
  ASSUME PoolInv, tcs' = tcs,
         \A t \in Threads : pc'[t] \in Inside <=> pc[t] \in Inside
  PROVE  PoolInv'
  BY DEF PoolInv, Entered, Inside, Holding

\* Every step preserves the synchronisation invariant.
LEMMA SyncNext == SyncInv /\ [Next]_vars => SyncInv'
<1> SUFFICES ASSUME SyncInv, [Next]_vars PROVE SyncInv'
  OBVIOUS
<1> USE ConstantFacts
<1> USE DEF SyncInv, TypeOK, MutexInv, QueueInv, TestedInv, PCs, Inside,
            Holding, ring, env, Goto, Running
<1>1. ASSUME NEW t \in Threads, Spawn(t) PROVE SyncInv'
  <2>1. PoolInv'
    BY <1>1, PoolKept DEF Spawn
  <2>2. QED
    BY <1>1, <2>1 DEF Spawn
<1>2. ASSUME NEW t \in Threads, Enter(t) PROVE SyncInv'
  <2>1. Entered' = Entered \cup {t} /\ t \notin Entered
    BY <1>2 DEF Enter, Entered
  <2>2. PoolInv'
    BY <1>2, <2>1, EnteredFinite, FS_AddElement DEF Enter, PoolInv
  <2>3. QED
    <3>1. TypeOK'
      BY <1>2 DEF Enter
    <3>2. MutexInv' /\ QueueInv' /\ TestedInv'
      BY <1>2 DEF Enter
    <3>3. QED
      BY <2>2, <3>1, <3>2
<1>3. ASSUME NEW t \in Threads, EcallFails(t) PROVE SyncInv'
  <2>1. PoolInv'
    BY <1>3, PoolKept DEF EcallFails
  <2>2. QED
    BY <1>3, <2>1 DEF EcallFails
<1>4. ASSUME NEW t \in Threads, Lock(t) PROVE SyncInv'
  <2>1. PoolInv'
    BY <1>4, PoolKept DEF Lock
  <2>2. QED
    BY <1>4, <2>1 DEF Lock
<1>5. ASSUME NEW t \in Threads, Return(t) PROVE SyncInv'
  <2>1. Entered' = Entered \ {t} /\ t \in Entered
    BY <1>5 DEF Return, Entered
  <2>2. PoolInv' /\ tcs > 0
    <3>1. Cardinality(Entered) # 0
      BY <2>1, EnteredFinite, FS_EmptySet
    <3>2. Cardinality(Entered') = Cardinality(Entered) - 1
      BY <2>1, EnteredFinite, FS_RemoveElement
    <3>3. QED
      BY <1>5, <3>1, <3>2, EnteredFinite DEF Return, PoolInv
  <2>3. QED
    <3>1. TypeOK'
      BY <1>5, <2>2 DEF Return
    <3>2. MutexInv' /\ QueueInv' /\ TestedInv'
      BY <1>5 DEF Return
    <3>3. QED
      BY <2>2, <3>1, <3>2
<1>6. ASSUME NEW t \in Threads, Relock(t) PROVE SyncInv'
  <2>1. PoolInv'
    BY <1>6, PoolKept DEF Relock
  <2>2. QED
    BY <1>6, <2>1 DEF Relock
<1>7. ASSUME NEW t \in Threads, Unlock(t) PROVE SyncInv'
  <2>1. PoolInv'
    BY <1>7, PoolKept DEF Unlock
  <2>2. QED
    <3>1. TypeOK'
      BY <1>7 DEF Unlock
    <3>2. MutexInv' /\ QueueInv' /\ TestedInv'
      BY <1>7 DEF Unlock
    <3>3. QED
      BY <2>1, <3>1, <3>2
<1>8. CASE ProducerWait
  <2>1. PoolInv'
    BY <1>8, PoolKept DEF ProducerWait
  <2>2. QED
    BY <1>8, <2>1 DEF ProducerWait
<1>9. CASE ProducerGo
  <2>1. PoolInv'
    BY <1>9, PoolKept DEF ProducerGo
  <2>2. QED
    BY <1>9, <2>1 DEF ProducerGo
<1>10. CASE ProducerStore
  <2>1. PoolInv'
    BY <1>10, PoolKept DEF ProducerStore
  <2>2. QED
    BY <1>10, <2>1, NextSlotValue DEF ProducerStore
<1>11. CASE ProducerCount
  <2>1. PoolInv'
    BY <1>11, PoolKept DEF ProducerCount
  <2>2. QED
    BY <1>11, <2>1 DEF ProducerCount
<1>12. ASSUME NEW c \in Consumers, ConsumerWait(c) PROVE SyncInv'
  <2>1. PoolInv'
    BY <1>12, PoolKept DEF ConsumerWait
  <2>2. QED
    BY <1>12, <2>1 DEF ConsumerWait
<1>13. ASSUME NEW c \in Consumers, ConsumerGo(c) PROVE SyncInv'
  <2>1. PoolInv'
    BY <1>13, PoolKept DEF ConsumerGo
  <2>2. QED
    BY <1>13, <2>1 DEF ConsumerGo
<1>14. ASSUME NEW c \in Consumers, ConsumerStore(c) PROVE SyncInv'
  <2>1. PoolInv'
    BY <1>14, PoolKept DEF ConsumerStore
  <2>2. QED
    <3>1. TypeOK'
      <4> HIDE DEF SyncInv, MutexInv, QueueInv, TestedInv
      <4>1. 0 \in Slots /\ NextSlot(nextout) \in Slots
        <5>1. nextout \in Slots
          BY DEF SyncInv
        <5>2. QED
          BY <5>1, NextSlotValue, SMTT(20)
      <4>2. QED
        BY <1>14, <4>1 DEF ConsumerStore, SyncInv
    <3>2. MutexInv' /\ QueueInv' /\ TestedInv'
      BY <1>14 DEF ConsumerStore
    <3>3. QED
      BY <2>1, <3>1, <3>2
<1>15. ASSUME NEW c \in Consumers, ConsumerCount(c) PROVE SyncInv'
  <2>1. PoolInv'
    BY <1>15, PoolKept DEF ConsumerCount
  <2>2. QED
    BY <1>15, <2>1 DEF ConsumerCount
<1>16. CASE ProducerSignal
  <2>1. PoolInv'
    BY <1>16, PoolKept DEF ProducerSignal, Signal
  <2>2. QED
    BY <1>16, <2>1 DEF ProducerSignal, Signal
<1>17. ASSUME NEW c \in Consumers, ConsumerSignal(c) PROVE SyncInv'
  <2>1. PoolInv'
    BY <1>17, PoolKept DEF ConsumerSignal, Signal
  <2>2. QED
    BY <1>17, <2>1 DEF ConsumerSignal, Signal
<1>18. CASE PowerTransition
  <2>1. PoolInv'
    BY <1>18, PoolKept DEF PowerTransition
  <2>2. QED
    BY <1>18, <2>1 DEF PowerTransition
<1>19. CASE UNCHANGED vars
  <2>1. PoolInv'
    BY <1>19, PoolKept DEF vars
  <2>2. QED
    BY <1>19, <2>1 DEF vars
<1>20. QED
  BY <1>1, <1>2, <1>3, <1>4, <1>5, <1>6, <1>7, <1>8, <1>9, <1>10, <1>11, <1>12,
     <1>13, <1>14, <1>15, <1>16, <1>17, <1>18, <1>19
     DEF Next, Progress, Step, ThreadStep, ProducerStep, ConsumerStep, Stopped

\* Mutual exclusion on the buffer, and with it the types of all the state, for
\* any number of consumers, loops, slots and TCSs (Thread.cpp 75-104).
THEOREM Synchronised == Spec => [](TypeOK /\ MutexInv)
<1>1. SyncInv => TypeOK /\ MutexInv
  BY DEF SyncInv
<1>2. QED
  BY <1>1, InitFresh, SyncInit, SyncNext, PTL DEF Spec

\* The indices of cond_buffer_t stay within the buffer, occupied within its size
\* and the TCSs in use within the pool, whatever the threads do.
THEOREM Typed == Spec => []TypeOK
  BY Synchronised, PTL

-----------------------------------------------------------------------------
(* Layer 2: the ring. *)

\* The slot d places after nextout.
Place(d) == (nextout + d) % BUFFER_SIZE

LEMMA RingInit == Fresh => RingInv
<1> SUFFICES ASSUME Fresh PROVE RingInv
  OBVIOUS
<1>1. Filled = 0
  BY ConstantFacts DEF Fresh, Filled
<1>2. \A d \in Slots : (0 + d) % BUFFER_SIZE \in Slots
  BY ConstantFacts, Around
<1>3. IndexInv
  BY <1>1, ConstantFacts, Around DEF Fresh, IndexInv
<1>4. SlotInv
  BY <1>1, <1>2, ConstantFacts DEF Fresh, SlotInv
<1>5. QED
  BY <1>3, <1>4 DEF RingInv

\* A step that leaves the buffer alone and moves no thread to or from the point
\* between its index and its count keeps the ring.
LEMMA RingKept ==
  ASSUME RingInv, UNCHANGED ring,
         \A t \in Threads : pc'[t] = "count" <=> pc[t] = "count"
  PROVE  RingInv'
<1>1. Filled' = Filled
  BY DEF Filled, ring
<1>2. QED
  BY <1>1 DEF RingInv, IndexInv, SlotInv, ring

\* Only the owner of the mutex can be between its index and its count.
LEMMA FilledValue ==
  ASSUME SyncInv
  PROVE  /\ (\A t \in Threads : pc[t] # "count") => Filled = occupied
         /\ pc[Producer] = "count" => Filled = occupied + 1
         /\ (\E c \in Consumers : pc[c] = "count") => Filled = occupied - 1
  BY ConstantFacts DEF SyncInv, MutexInv, Holding, Filled

\* The producer fills the slot after the last filled one.
LEMMA RingProducerStore ==
  ASSUME SyncInv, SyncInv', RingInv, ProducerStore
  PROVE  RingInv'
<1>1. /\ pc[Producer] = "store" /\ pc'[Producer] = "count"
      /\ occupied < BUFFER_SIZE /\ occupied \in Nat
      /\ nextin \in Slots /\ nextout \in Slots /\ nextin' \in Slots
      /\ occupied' = occupied /\ nextout' = nextout
      /\ buf \in [Slots -> Slots]
      /\ buf' = [buf EXCEPT ![nextin] = nextin]
      /\ nextin' = NextSlot(nextin)
  BY ConstantFacts
     DEF SyncInv, TypeOK, TestedInv, ProducerStore, Goto
<1>0. /\ nextin \in Slots /\ nextout \in Slots
      /\ occupied \in Nat /\ occupied < BUFFER_SIZE
      /\ BUFFER_SIZE \in Nat /\ BUFFER_SIZE > 0
  BY <1>1, ConstantFacts
<1>2. Filled = occupied
  <2>1. \A t \in Threads : pc[t] # "count"
    BY <1>1, ConstantFacts DEF SyncInv, MutexInv, Holding
  <2>2. QED
    BY <2>1, FilledValue
<1>3. Filled' = occupied + 1
  BY <1>1 DEF Filled
<1>4. nextin = IF nextout + occupied < BUFFER_SIZE THEN nextout + occupied
               ELSE nextout + occupied - BUFFER_SIZE
  BY <1>1, <1>2, Around, ConstantFacts DEF RingInv, IndexInv
<1>5. IndexInv'
  <2>1. occupied + 1 \in 0 .. BUFFER_SIZE
    BY <1>1, ConstantFacts
  <2>2. (nextout + (occupied + 1)) % BUFFER_SIZE =
          IF nextout + (occupied + 1) < BUFFER_SIZE THEN nextout + (occupied + 1)
          ELSE nextout + (occupied + 1) - BUFFER_SIZE
    BY <1>1, <2>1, Around
  <2>3. nextin' = IF nextin = BUFFER_SIZE - 1 THEN 0 ELSE nextin + 1
    BY <1>1, NextSlotValue
  <2>4. nextin' = (nextout + (occupied + 1)) % BUFFER_SIZE
    BY <1>0, <1>4, <2>2, <2>3
  <2>5. QED
    BY <1>1, <1>3, <2>1, <2>4 DEF IndexInv
<1>6. SlotInv'
  <2>1. SUFFICES ASSUME NEW d \in Slots
                 PROVE  buf'[Place(d)] = IF d < occupied + 1 THEN Place(d) ELSE 0
    BY <1>1, <1>3 DEF SlotInv, Place
  <2>2. Place(d) = IF nextout + d < BUFFER_SIZE THEN nextout + d
                   ELSE nextout + d - BUFFER_SIZE
    <3>1. d \in 0 .. BUFFER_SIZE
      BY <1>0
    <3>2. QED
      BY <1>0, <3>1, Around DEF Place
  <2>3. Place(d) \in Slots /\ (Place(d) = nextin <=> d = occupied)
    BY <1>0, <1>4, <2>2
  <2>4. buf[Place(d)] = IF d < occupied THEN Place(d) ELSE 0
    BY <1>2 DEF RingInv, SlotInv, Place
  <2>5. buf'[Place(d)] = IF Place(d) = nextin THEN nextin ELSE buf[Place(d)]
    BY <1>1, <2>3
  <2>6. QED
    BY <1>1, <2>3, <2>4, <2>5
<1>7. QED
  BY <1>5, <1>6 DEF RingInv

\* The consumer clears the first filled slot.
LEMMA RingConsumerStore ==
  ASSUME SyncInv, SyncInv', RingInv, NEW c \in Consumers, ConsumerStore(c)
  PROVE  RingInv'
<1>1. /\ pc[c] = "store" /\ pc'[c] = "count" /\ pc'[Producer] # "count"
      /\ occupied > 0 /\ occupied \in 0 .. BUFFER_SIZE
      /\ nextin \in Slots /\ nextout \in Slots /\ nextout' \in Slots
      /\ occupied' = occupied /\ nextin' = nextin
      /\ buf \in [Slots -> Slots]
      /\ buf' = [buf EXCEPT ![nextout] = 0]
      /\ nextout' = NextSlot(nextout)
  BY ConstantFacts
     DEF SyncInv, TypeOK, MutexInv, Holding, TestedInv, ConsumerStore, Goto
<1>0. /\ nextin \in Slots /\ nextout \in Slots /\ nextout' \in Slots
      /\ occupied \in 1 .. BUFFER_SIZE
      /\ BUFFER_SIZE \in Nat /\ BUFFER_SIZE > 0
  BY <1>1, ConstantFacts
<1>2. Filled = occupied
  <2>1. \A t \in Threads : pc[t] # "count"
    BY <1>1, ConstantFacts DEF SyncInv, MutexInv, Holding
  <2>2. QED
    BY <2>1, FilledValue
<1>3. Filled' = occupied - 1
  BY <1>1 DEF Filled
<1>4. nextin = IF nextout + occupied < BUFFER_SIZE THEN nextout + occupied
               ELSE nextout + occupied - BUFFER_SIZE
  BY <1>1, <1>2, Around, ConstantFacts DEF RingInv, IndexInv
<1>5. nextout' = IF nextout = BUFFER_SIZE - 1 THEN 0 ELSE nextout + 1
  BY <1>1, NextSlotValue
<1>6. IndexInv'
  <2>1. occupied - 1 \in 0 .. BUFFER_SIZE
    BY <1>1, ConstantFacts
  <2>2. (nextout' + (occupied - 1)) % BUFFER_SIZE =
          IF nextout' + (occupied - 1) < BUFFER_SIZE
          THEN nextout' + (occupied - 1)
          ELSE nextout' + (occupied - 1) - BUFFER_SIZE
    BY <1>1, <2>1, Around
  <2>3. nextin' = (nextout' + (occupied - 1)) % BUFFER_SIZE
    BY <1>1, <1>4, <1>5, <2>2, ConstantFacts
  <2>4. QED
    BY <1>3, <2>1, <2>3 DEF IndexInv
<1>7. SlotInv'
  <2> DEFINE Q(d) == (nextout' + d) % BUFFER_SIZE
  <2>1. SUFFICES ASSUME NEW d \in Slots
                 PROVE  buf'[Q(d)] = IF d < occupied - 1 THEN Q(d) ELSE 0
    BY <1>3 DEF SlotInv
  <2>2. Q(d) = IF nextout' + d < BUFFER_SIZE THEN nextout' + d
               ELSE nextout' + d - BUFFER_SIZE
    <3>1. d \in 0 .. BUFFER_SIZE
      BY <1>0
    <3>2. QED
      BY <1>0, <3>1, Around
  <2> HIDE DEF Q
  <2>3. CASE d = BUFFER_SIZE - 1
    <3>1. Q(d) = nextout
      BY <1>0, <1>5, <2>2, <2>3
    <3>2. QED
      BY <1>1, <2>3, <3>1, ConstantFacts
  <2>4. CASE d # BUFFER_SIZE - 1
    <3>1. d + 1 \in Slots
      BY <2>4, ConstantFacts
    <3>2. Place(d + 1) = IF nextout + (d + 1) < BUFFER_SIZE THEN nextout + (d + 1)
                         ELSE nextout + (d + 1) - BUFFER_SIZE
      <4>1. d + 1 \in 0 .. BUFFER_SIZE
        BY <1>0, <3>1
      <4>2. QED
        BY <1>0, <4>1, Around DEF Place
    <3>3. Q(d) = Place(d + 1) /\ Q(d) # nextout /\ Q(d) \in Slots
      BY <1>0, <1>5, <2>2, <3>1, <3>2
    <3>4. buf[Place(d + 1)] = IF d + 1 < occupied THEN Place(d + 1) ELSE 0
      BY <1>2, <3>1 DEF RingInv, SlotInv, Place
    <3>5. buf'[Q(d)] = buf[Q(d)]
      BY <1>1, <3>3
    <3>6. QED
      BY <1>1, <3>3, <3>4, <3>5
  <2>5. QED
    BY <2>3, <2>4
<1>8. QED
  BY <1>6, <1>7 DEF RingInv

\* Every step preserves the ring invariant.
LEMMA RingNext == SyncInv /\ SyncInv' /\ RingInv /\ [Next]_vars => RingInv'
<1> SUFFICES ASSUME SyncInv, SyncInv', RingInv, [Next]_vars PROVE RingInv'
  OBVIOUS
<1>0. pc \in [Threads -> PCs]
  BY DEF SyncInv, TypeOK
<1> USE <1>0, ConstantFacts DEF Goto, ring
<1>1. ASSUME NEW t \in Threads, ThreadStep(t) \/ Spawn(t) PROVE RingInv'
  BY <1>1, RingKept
     DEF ThreadStep, Spawn, Enter, EcallFails, Lock, Return, Relock, Unlock
<1>2. CASE ProducerWait \/ ProducerGo
  BY <1>2, RingKept DEF ProducerWait, ProducerGo
<1>3. CASE ProducerStore
  BY <1>3, RingProducerStore
<1>4. CASE ProducerCount
  <2>1. /\ pc[Producer] = "count" /\ \A t \in Threads : pc'[t] # "count"
        /\ occupied' = occupied + 1 /\ UNCHANGED <<buf, nextin, nextout>>
    BY <1>4 DEF ProducerCount, SyncInv, MutexInv, Holding
  <2>2. Filled' = Filled
    BY <2>1, FilledValue DEF Filled
  <2>3. QED
    BY <2>1, <2>2 DEF RingInv, IndexInv, SlotInv
<1>5. ASSUME NEW c \in Consumers, ConsumerWait(c) \/ ConsumerGo(c)
      PROVE  RingInv'
  BY <1>5, RingKept DEF ConsumerWait, ConsumerGo
<1>6. ASSUME NEW c \in Consumers, ConsumerStore(c) PROVE RingInv'
  BY <1>6, RingConsumerStore
<1>7. ASSUME NEW c \in Consumers, ConsumerCount(c) PROVE RingInv'
  <2>1. /\ pc[c] = "count" /\ \A t \in Threads : pc'[t] # "count"
        /\ occupied' = occupied - 1 /\ UNCHANGED <<buf, nextin, nextout>>
    BY <1>7 DEF ConsumerCount, SyncInv, MutexInv, Holding
  <2>2. Filled' = Filled
    BY <2>1, FilledValue DEF Filled
  <2>3. QED
    BY <2>1, <2>2 DEF RingInv, IndexInv, SlotInv
<1>8. CASE ProducerSignal
  BY <1>8, RingKept DEF ProducerSignal, Signal, SyncInv, QueueInv
<1>9. ASSUME NEW c \in Consumers, ConsumerSignal(c) PROVE RingInv'
  BY <1>9, RingKept DEF ConsumerSignal, Signal, SyncInv, QueueInv
<1>10. CASE PowerTransition \/ UNCHANGED vars
  BY <1>10, RingKept DEF PowerTransition, vars
<1>11. QED
  BY <1>1, <1>2, <1>3, <1>4, <1>5, <1>6, <1>7, <1>8, <1>9, <1>10
     DEF Next, Progress, Step, ProducerStep, ConsumerStep, Stopped

\* The two indices and the item count always agree, no item is overwritten
\* before it is taken and no slot is taken twice, for any number of consumers
\* and any buffer size (Thread.cpp 82-85 and 98-100).
THEOREM RingCorrect == Spec => [](IndexInv /\ SlotInv)
<1>1. Init => SyncInv /\ RingInv
  BY InitFresh, SyncInit, RingInit
<1>2. SyncInv /\ RingInv /\ [Next]_vars => (SyncInv /\ RingInv)'
  BY SyncNext, RingNext
<1>3. SyncInv /\ RingInv => IndexInv /\ SlotInv
  BY DEF RingInv
<1>4. QED
  BY <1>1, <1>2, <1>3, PTL DEF Spec

\* nextin, nextout and occupied, updated in three separate statements and wrapped
\* at BUFFER_SIZE, never disagree (Thread.cpp 83-85 and 98-100).
THEOREM IndicesAgree == Spec => []IndexInv
  BY RingCorrect, PTL

-----------------------------------------------------------------------------
(* Layer 3: items and wakeups. *)

\* The sets that are counted are finite, whatever the state.
LEMMA CountedFinite ==
  /\ IsFiniteSet(Tickets) /\ Cardinality(Tickets) = Total
  /\ IsFiniteSet(Pending) /\ Cardinality(Pending) \in Nat
  /\ IsFiniteSet(Taken) /\ Cardinality(Taken) \in Nat
  /\ IsFiniteSet(Hungry) /\ Cardinality(Hungry) \in Nat
<1>1. /\ IsFiniteSet(1 .. LOOPS_PER_THREAD)
      /\ Cardinality(1 .. LOOPS_PER_THREAD) = LOOPS_PER_THREAD
  BY FS_Interval, LoopsAssumption
<1>2. IsFiniteSet(Tickets) /\ Cardinality(Tickets) = Total
  BY <1>1, FS_Product, ConsumersAssumption DEF Tickets, Total
<1>3. IsFiniteSet(Pending) /\ IsFiniteSet(Taken)
  BY <1>2, FS_Subset DEF Pending, Taken
<1>4. IsFiniteSet(Hungry)
  BY ConsumersAssumption, FS_Subset DEF Hungry
<1>5. QED
  BY <1>2, <1>3, <1>4, FS_CardinalityType

LEMMA CountInit == Fresh => CountInv
<1> SUFFICES ASSUME Fresh PROVE CountInv
  OBVIOUS
<1>1. LoopInv
  BY ConstantFacts DEF Fresh, LoopInv, Loops, Holding
<1>2. \A t \in Threads : Moved(t) = 0
  BY DEF Fresh, Moved
<1>3. Pending = Tickets
  BY <1>2 DEF Pending, Tickets
<1>4. Conservation
  BY <1>2, <1>3, CountedFinite, ConstantFacts DEF Fresh, Conservation
<1>5. NoLostWakeup
  BY DEF Fresh, NoLostWakeup
<1>6. QED
  BY <1>1, <1>4, <1>5 DEF CountInv

\* Every step preserves the bounds on the iterations.
LEMMA LoopNext == SyncInv /\ LoopInv /\ [Next]_vars => LoopInv'
<1> SUFFICES ASSUME SyncInv, LoopInv, [Next]_vars PROVE LoopInv'
  OBVIOUS
<1>0. /\ pc \in [Threads -> PCs] /\ i \in [Threads -> Nat]
      /\ more \subseteq Consumers /\ less \subseteq {Producer}
      /\ \A c \in more : pc[c] = "wait"
      /\ \A t \in less : pc[t] = "wait"
      /\ \A t \in Threads : Loops(t) \in Nat
  BY ConstantFacts DEF SyncInv, TypeOK, QueueInv, Loops
<1> USE <1>0 DEF LoopInv, Goto, Holding
<1>1. ASSUME NEW t \in Threads, ThreadStep(t) \/ Spawn(t) PROVE LoopInv'
  <2>1. CASE Unlock(t)
    BY <2>1 DEF Unlock
  <2>2. CASE Return(t)
    BY <2>2 DEF Return
  <2>3. CASE Spawn(t) \/ Enter(t) \/ EcallFails(t) \/ Lock(t) \/ Relock(t)
    BY <2>3 DEF Spawn, Enter, EcallFails, Lock, Relock
  <2>4. QED
    BY <1>1, <2>1, <2>2, <2>3 DEF ThreadStep
<1>2. CASE ProducerStep
  <2>1. CASE ProducerSignal
    BY <2>1 DEF ProducerSignal, Signal
  <2>2. QED
    BY <1>2, <2>1
       DEF ProducerStep, ProducerWait, ProducerGo, ProducerStore, ProducerCount
<1>3. ASSUME NEW c \in Consumers, ConsumerStep(c) PROVE LoopInv'
  <2>1. CASE ConsumerSignal(c)
    BY <2>1 DEF ConsumerSignal, Signal
  <2>2. QED
    BY <1>3, <2>1
       DEF ConsumerStep, ConsumerWait, ConsumerGo, ConsumerStore, ConsumerCount
<1>4. CASE PowerTransition \/ UNCHANGED vars
  BY <1>4 DEF PowerTransition, vars
<1>5. QED
  BY <1>1, <1>2, <1>3, <1>4 DEF Next, Progress, Step, Stopped

\* A step that moves no item, wakes nobody and sends nobody to sleep keeps the
\* counts and the wakeups.
LEMMA CountKept ==
  ASSUME Conservation, NoLostWakeup,
         occupied' = occupied, more' = more, less' = less,
         \A t \in Threads : Moved(t)' = Moved(t),
         \A t \in Threads : pc'[t] = "wait" <=> pc[t] = "wait",
         \A t \in Threads : pc'[t] = "signal" <=> pc[t] = "signal"
  PROVE  Conservation' /\ NoLostWakeup'
<1>1. Pending' = Pending
  BY DEF Pending, Tickets
<1>2. Hungry' = Hungry
  BY DEF Hungry
<1>3. QED
  BY <1>1, <1>2 DEF Conservation, NoLostWakeup

\* What each thread has moved is a number, and grows only when it counts.
LEMMA MovedNat ==
  ASSUME SyncInv
  PROVE  \A t \in Threads : Moved(t) \in Nat
  BY DEF SyncInv, TypeOK, Moved

\* A sleeping consumer joins the hungry ones when the producer signals it.
LEMMA WakeConsumer ==
  ASSUME SyncInv, LoopInv, Conservation, NoLostWakeup, ProducerSignal
  PROVE  Conservation' /\ NoLostWakeup'
<1> USE ConstantFacts DEF ProducerSignal, Signal, Goto
<1>0. /\ pc \in [Threads -> PCs] /\ i \in [Threads -> Nat]
      /\ more = {c \in Consumers : pc[c] = "wait"}
      /\ less = {} /\ pc[Producer] = "signal"
      /\ UNCHANGED <<occupied, i>> /\ occupied \in Nat
  BY DEF SyncInv, TypeOK, QueueInv, ring
<1>1. \A t \in Threads : Moved(t)' = Moved(t)
  BY <1>0 DEF Moved
<1>2. Pending' = Pending
  BY <1>1 DEF Pending, Tickets
<1>3. Conservation'
  BY <1>0, <1>1, <1>2 DEF Conservation
<1>4. CASE more = {}
  BY <1>0, <1>3, <1>4 DEF NoLostWakeup
<1>5. CASE more # {}
  <2>1. PICK w \in more : /\ pc' = [pc EXCEPT ![Producer] = "unlock",
                                              ![w] = "relock"]
                          /\ more' = more \ {w} /\ less' = less \ {w}
    BY <1>5
  <2>2. Moved(w) < LOOPS_PER_THREAD /\ w \in Consumers /\ w # Producer
    BY <1>0 DEF Moved, LoopInv, Loops
  <2>3. Hungry' = Hungry \cup {w} /\ w \notin Hungry
    BY <1>0, <1>1, <2>1, <2>2 DEF Hungry
  <2>4. Cardinality(Hungry') = Cardinality(Hungry) + 1
    BY <2>3, CountedFinite, FS_AddElement
  <2>5. occupied <= Cardinality(Hungry) + 1
    BY <1>0, <1>5 DEF NoLostWakeup
  <2>6. less' = {} /\ pc'[Producer] # "signal"
    BY <1>0, <2>1, <2>2
  <2>7. occupied' <= Cardinality(Hungry')
                     + (IF pc'[Producer] = "signal" THEN 1 ELSE 0)
    BY <1>0, <2>4, <2>5, <2>6, CountedFinite
  <2>8. QED
    BY <1>3, <2>6, <2>7 DEF NoLostWakeup
<1>6. QED
  BY <1>4, <1>5

\* A consumer's count uses up one pending ticket, and one hunger at most.
LEMMA TakeOne ==
  ASSUME SyncInv, LoopInv, Conservation, NoLostWakeup,
         NEW c \in Consumers, ConsumerCount(c)
  PROVE  Conservation' /\ NoLostWakeup'
<1>0. /\ pc \in [Threads -> PCs] /\ i \in [Threads -> Nat]
      /\ pc[c] = "count" /\ pc' = [pc EXCEPT ![c] = "signal"]
      /\ UNCHANGED <<i, more, less>>
      /\ occupied' = occupied - 1 /\ occupied \in Nat
      /\ c # Producer /\ c \in Threads
      /\ i[c] < LOOPS_PER_THREAD
  BY ConstantFacts
     DEF SyncInv, TypeOK, ConsumerCount, Goto, LoopInv, Loops, Holding
<1>1. /\ Moved(c) = i[c] /\ Moved(c)' = i[c] + 1
      /\ \A t \in Threads \ {c} : Moved(t)' = Moved(t)
  BY <1>0 DEF Moved
<1>2. Conservation'
  <2> DEFINE k == <<c, i[c] + 1>>
  <2>1. k \in Pending
    BY <1>0, <1>1, ConstantFacts DEF Pending, Tickets
  <2>2. Pending' = Pending \ {k}
    <3>1. ASSUME NEW x \in Consumers, NEW n \in 1 .. LOOPS_PER_THREAD
          PROVE  n > Moved(x)' <=> n > Moved(x) /\ <<x, n>> # k
      BY <1>0, <1>1, MovedNat
    <3>2. QED
      BY <3>1 DEF Pending, Tickets
  <2>3. Cardinality(Pending') = Cardinality(Pending) - 1
    BY <2>1, <2>2, CountedFinite, FS_RemoveElement
  <2>4. Moved(Producer)' = Moved(Producer) /\ Moved(Producer) \in Nat
    BY <1>0, <1>1, MovedNat
  <2>5. QED
    BY <1>0, <2>3, <2>4, CountedFinite, ConstantFacts DEF Conservation
<1>3. Cardinality(Hungry') >= Cardinality(Hungry) - 1
  <2>1. \/ Hungry' = Hungry
        \/ Hungry' = Hungry \ {c}
    BY <1>0, <1>1 DEF Hungry
  <2>2. Cardinality(Hungry \ {c}) >= Cardinality(Hungry) - 1
    <3>1. Cardinality(Hungry \ {c}) = IF c \in Hungry THEN Cardinality(Hungry) - 1
                                     ELSE Cardinality(Hungry)
      BY CountedFinite, FS_RemoveElement
    <3>2. QED
      BY <3>1, CountedFinite, SMT
  <2>3. QED
    BY <2>1, <2>2, CountedFinite
<1>4. more' # {} =>
        occupied' <= Cardinality(Hungry')
                     + (IF pc'[Producer] = "signal" THEN 1 ELSE 0)
  <2>1. pc'[Producer] = pc[Producer]
    BY <1>0
  <2>2. Cardinality(Hungry') \in Nat
    <3>1. Hungry' \in SUBSET Consumers
      BY DEF Hungry
    <3>2. QED
      BY <3>1, ConsumersAssumption, FS_Subset, FS_CardinalityType
  <2>3. QED
    BY <1>0, <1>3, <2>1, <2>2, CountedFinite DEF NoLostWakeup
<1>5. pc'[c] = "signal"
  BY <1>0
<1>6. QED
  BY <1>2, <1>4, <1>5 DEF NoLostWakeup

\* Every step preserves the counts and loses no wakeup.
LEMMA CountNext == SyncInv /\ SyncInv' /\ CountInv /\ [Next]_vars => CountInv'
<1> SUFFICES ASSUME SyncInv, SyncInv', CountInv, [Next]_vars
             PROVE  Conservation' /\ NoLostWakeup'
  BY LoopNext DEF CountInv
<1>0. /\ pc \in [Threads -> PCs] /\ i \in [Threads -> Nat]
      /\ occupied \in 0 .. BUFFER_SIZE
      /\ more = {c \in Consumers : pc[c] = "wait"}
      /\ less = {t \in {Producer} : pc[t] = "wait"}
      /\ LoopInv /\ Conservation /\ NoLostWakeup
  BY DEF SyncInv, TypeOK, QueueInv, CountInv
<1> USE <1>0, ConstantFacts DEF Goto, ring
<1>1. ASSUME NEW t \in Threads, ThreadStep(t) \/ Spawn(t)
      PROVE  Conservation' /\ NoLostWakeup'
  <2>1. CASE Unlock(t)
    <3>1. \A s \in Threads : Moved(s)' = Moved(s)
      BY <2>1 DEF Unlock, Moved
    <3>2. QED
      BY <2>1, <3>1, CountKept DEF Unlock
  <2>2. CASE Spawn(t) \/ Enter(t) \/ EcallFails(t) \/ Lock(t) \/ Return(t)
             \/ Relock(t)
    <3>1. \A s \in Threads : Moved(s)' = Moved(s)
      BY <2>2 DEF Spawn, Enter, EcallFails, Lock, Return, Relock, Moved
    <3>2. QED
      BY <2>2, <3>1, CountKept
         DEF Spawn, Enter, EcallFails, Lock, Return, Relock
  <2>3. QED
    BY <1>1, <2>1, <2>2 DEF ThreadStep
<1>2. CASE ProducerGo \/ ProducerStore
  <2>1. \A s \in Threads : Moved(s)' = Moved(s)
    BY <1>2 DEF ProducerGo, ProducerStore, Moved
  <2>2. QED
    BY <1>2, <2>1, CountKept DEF ProducerGo, ProducerStore
<1>3. CASE ProducerWait
  <2>1. /\ \A s \in Threads : Moved(s)' = Moved(s)
        /\ Hungry' = Hungry /\ Pending' = Pending
    BY <1>3 DEF ProducerWait, Moved, Hungry, Pending, Tickets
  <2>2. occupied' = BUFFER_SIZE /\ occupied' = occupied /\ more' = more
    BY <1>3 DEF ProducerWait
  <2>3. pc[Producer] # "signal" /\ pc'[Producer] # "signal"
    BY <1>3 DEF ProducerWait
  <2>4. QED
    BY <2>1, <2>2, <2>3 DEF Conservation, NoLostWakeup
<1>4. CASE ProducerCount
  <2>1. /\ \A s \in Consumers : Moved(s)' = Moved(s)
        /\ Moved(Producer)' = Moved(Producer) + 1
        /\ Moved(Producer) \in Nat
    BY <1>4 DEF ProducerCount, Moved
  <2>2. Hungry' = Hungry /\ Pending' = Pending
    BY <1>4, <2>1 DEF ProducerCount, Hungry, Pending, Tickets
  <2>3. /\ occupied' = occupied + 1 /\ more' = more /\ less' = less
        /\ pc[Producer] = "count" /\ pc'[Producer] = "signal" /\ less = {}
    BY <1>4 DEF ProducerCount
  <2>4. Conservation'
    BY <2>1, <2>2, <2>3, CountedFinite DEF Conservation
  <2>5. NoLostWakeup'
    BY <2>2, <2>3, CountedFinite DEF NoLostWakeup
  <2>6. QED
    BY <2>4, <2>5
<1>5. CASE ProducerSignal
  BY <1>5, WakeConsumer
<1>6. ASSUME NEW c \in Consumers, ConsumerGo(c) \/ ConsumerStore(c)
      PROVE  Conservation' /\ NoLostWakeup'
  <2>1. \A s \in Threads : Moved(s)' = Moved(s)
    BY <1>6 DEF ConsumerGo, ConsumerStore, Moved
  <2>2. QED
    BY <1>6, <2>1, CountKept DEF ConsumerGo, ConsumerStore
<1>7. ASSUME NEW c \in Consumers, ConsumerWait(c)
      PROVE  Conservation' /\ NoLostWakeup'
  <2>1. /\ \A s \in Threads : Moved(s)' = Moved(s)
        /\ Pending' = Pending
    BY <1>7 DEF ConsumerWait, Moved, Pending, Tickets
  <2>2. /\ occupied' = 0 /\ occupied' = occupied /\ less' = less
        /\ \A s \in Consumers : pc'[s] = "signal" <=> pc[s] = "signal"
    BY <1>7 DEF ConsumerWait
  <2>3. Cardinality(Hungry') \in Nat
    <3>1. Hungry' \in SUBSET Consumers
      BY DEF Hungry
    <3>2. QED
      BY <3>1, ConsumersAssumption, FS_Subset, FS_CardinalityType
  <2>4. QED
    BY <2>1, <2>2, <2>3 DEF Conservation, NoLostWakeup
<1>8. ASSUME NEW c \in Consumers, ConsumerCount(c)
      PROVE  Conservation' /\ NoLostWakeup'
  BY <1>8, TakeOne
<1>9. ASSUME NEW c \in Consumers, ConsumerSignal(c)
      PROVE  Conservation' /\ NoLostWakeup'
  <2>1. /\ \A s \in Threads : Moved(s)' = Moved(s)
        /\ Hungry' = Hungry /\ Pending' = Pending
    BY <1>9 DEF ConsumerSignal, Signal, Moved, Hungry, Pending, Tickets
  <2>2. /\ occupied' = occupied /\ less' = {} /\ more' = more
        /\ pc'[Producer] = "signal" <=> pc[Producer] = "signal"
    BY <1>9 DEF ConsumerSignal, Signal
  <2>3. QED
    BY <2>1, <2>2 DEF Conservation, NoLostWakeup
<1>10. CASE PowerTransition \/ UNCHANGED vars
  <2>1. \A s \in Threads : Moved(s)' = Moved(s)
    BY <1>10 DEF PowerTransition, vars, Moved
  <2>2. QED
    BY <1>10, <2>1, CountKept DEF PowerTransition, vars
<1>11. QED
  BY <1>1, <1>2, <1>3, <1>4, <1>5, <1>6, <1>7, <1>8, <1>9, <1>10
     DEF Next, Progress, Step, ProducerStep, ConsumerStep, Stopped

\* The three layers together.
LEMMA Invariance == Spec => [](SyncInv /\ RingInv /\ CountInv)
<1>1. Init => SyncInv /\ RingInv /\ CountInv
  BY InitFresh, SyncInit, RingInit, CountInit
<1>2. SyncInv /\ RingInv /\ CountInv /\ [Next]_vars
        => (SyncInv /\ RingInv /\ CountInv)'
  BY SyncNext, RingNext, CountNext
<1>3. QED
  BY <1>1, <1>2, PTL DEF Spec

\* No wakeup is ever lost and no item either, for any number of consumers,
\* loops and slots: one signal per item is enough (Thread.cpp 75-104).
THEOREM WakeupsKept == Spec => [](Conservation /\ NoLostWakeup)
<1>1. SyncInv /\ RingInv /\ CountInv => Conservation /\ NoLostWakeup
  BY DEF CountInv
<1>2. QED
  BY <1>1, Invariance, PTL

\* Every item the producer puts is in the buffer or was taken, and there are
\* exactly as many as the consumers still want (Thread.cpp 77 and 93).
THEOREM ItemsConserved == Spec => []Conservation
  BY WakeupsKept, PTL

\* If every thread sleeps or is done then every thread is done.
LEMMA SomebodyAwake == SyncInv /\ CountInv => NoDeadlock
<1> SUFFICES ASSUME SyncInv, CountInv,
                    \A t \in Threads : pc[t] \in {"wait", "done"}
             PROVE  AllDone
  BY DEF NoDeadlock
<1>0. /\ pc \in [Threads -> PCs] /\ i \in [Threads -> Nat]
      /\ occupied \in 0 .. BUFFER_SIZE
      /\ more = {c \in Consumers : pc[c] = "wait"}
      /\ less = {t \in {Producer} : pc[t] = "wait"}
      /\ LoopInv /\ Conservation /\ NoLostWakeup
  BY DEF SyncInv, TypeOK, QueueInv, CountInv
<1>1. \A t \in Threads : Moved(t) = i[t]
  BY <1>0 DEF Moved
<1>2. Hungry = {}
  BY <1>0, <1>1, ConstantFacts DEF Hungry, LoopInv, Loops
<1>3. more # {} => occupied = 0
  <2>1. Cardinality(Hungry) = 0
    BY <1>2, FS_EmptySet
  <2>2. QED
    BY <1>0, <2>1, ConstantFacts DEF NoLostWakeup
<1>4. pc[Producer] = "wait" => occupied = BUFFER_SIZE
  BY <1>0, ConstantFacts DEF NoLostWakeup
<1>5. Cardinality(Pending) = occupied + (Total - i[Producer])
  BY <1>0, <1>1 DEF Conservation
<1>6. pc[Producer] = "done"
  <2> SUFFICES ASSUME pc[Producer] = "wait" PROVE FALSE
    OBVIOUS
  <2>1. occupied > 0 /\ more = {}
    BY <1>0, <1>3, <1>4, ConstantFacts
  <2>2. \A c \in Consumers : Moved(c) = LOOPS_PER_THREAD
    BY <1>0, <1>1, <2>1, ConstantFacts DEF LoopInv, Loops
  <2>3. Pending = {}
    BY <2>2, ConstantFacts DEF Pending, Tickets
  <2>4. Cardinality(Pending) = 0
    BY <2>3, FS_EmptySet
  <2>5. i[Producer] <= Total /\ i[Producer] \in Nat
    BY <1>0 DEF LoopInv, Loops
  <2>6. QED
    BY <1>0, <1>5, <2>1, <2>4, <2>5, ConstantFacts
<1>7. \A c \in Consumers : pc[c] = "done"
  <2> SUFFICES ASSUME NEW c \in Consumers, pc[c] = "wait" PROVE FALSE
    OBVIOUS
  <2>1. occupied = 0
    BY <1>0, <1>3
  <2>2. i[Producer] = Total
    BY <1>0, <1>6 DEF LoopInv, Loops
  <2>3. Cardinality(Pending) = 0
    BY <1>5, <2>1, <2>2, ConstantFacts
  <2>4. <<c, i[c] + 1>> \in Pending
    BY <1>0, <1>1, ConstantFacts
       DEF LoopInv, Loops, Holding, Pending, Tickets
  <2>5. QED
    BY <2>3, <2>4, CountedFinite, FS_EmptySet
<1>8. QED
  BY <1>6, <1>7 DEF AllDone

\* The producer and the consumers never all sleep waiting for each other, for
\* any number of consumers, loops and slots (Thread.cpp 80-81 and 96-97).
THEOREM DeadlockFree == Spec => []NoDeadlock
<1>1. SyncInv /\ RingInv /\ CountInv => NoDeadlock
  BY SomebodyAwake
<1>2. QED
  BY <1>1, Invariance, PTL

-----------------------------------------------------------------------------
(* CondBuffer implements BoundedBuffer. *)

\* The consumers took what was put and is no longer in the buffer.
LEMMA TakenValue ==
  SyncInv /\ CountInv => Cardinality(Taken) = Moved(Producer) - occupied
<1> SUFFICES ASSUME SyncInv, CountInv
             PROVE  Cardinality(Taken) = Moved(Producer) - occupied
  OBVIOUS
<1>1. Pending = Tickets \ Taken /\ Tickets \cap Taken = Taken
  <2>1. \A x \in Consumers : Moved(x) \in Nat
    BY MovedNat
  <2>2. \A k \in Tickets : k[2] > Moved(k[1]) <=> ~(k[2] <= Moved(k[1]))
    BY <2>1, ConstantFacts DEF Tickets
  <2>3. QED
    BY <2>2 DEF Pending, Taken
<1>2. Cardinality(Pending) = Total - Cardinality(Taken)
  BY <1>1, CountedFinite, FS_Difference
<1>3. Cardinality(Pending) = occupied + (Total - Moved(Producer))
  BY DEF CountInv, Conservation
<1>4. occupied \in Nat /\ Moved(Producer) \in Nat
  BY MovedNat DEF SyncInv, TypeOK
<1>5. QED
  BY <1>2, <1>3, <1>4, CountedFinite, ConstantFacts

\* Which steps move an item, and what holds when they do.
LEMMA ItemSteps ==
  ASSUME SyncInv, CountInv, [Next]_vars
  PROVE  \/ /\ Moved(Producer)' = Moved(Producer) + 1
            /\ occupied' = occupied + 1
            /\ Moved(Producer) < Total /\ occupied < BUFFER_SIZE
         \/ /\ Moved(Producer)' = Moved(Producer)
            /\ occupied' = occupied - 1
            /\ occupied > 0
         \/ /\ Moved(Producer)' = Moved(Producer)
            /\ occupied' = occupied
<1>0. /\ pc \in [Threads -> PCs] /\ i \in [Threads -> Nat]
      /\ occupied \in 0 .. BUFFER_SIZE
      /\ more = {c \in Consumers : pc[c] = "wait"}
      /\ less = {t \in {Producer} : pc[t] = "wait"}
      /\ LoopInv /\ TestedInv
  BY DEF SyncInv, TypeOK, QueueInv, CountInv
<1> USE <1>0, ConstantFacts DEF Goto, ring
<1>1. CASE ProducerCount
  BY <1>1 DEF ProducerCount, Moved, LoopInv, Loops, TestedInv, Holding
<1>2. ASSUME NEW c \in Consumers, ConsumerCount(c)
      PROVE  /\ Moved(Producer)' = Moved(Producer)
             /\ occupied' = occupied - 1
             /\ occupied > 0
  BY <1>2 DEF ConsumerCount, Moved, TestedInv
<1> DEFINE Still == Moved(Producer)' = Moved(Producer) /\ occupied' = occupied
<1>3. ASSUME NEW t \in Threads, ThreadStep(t) \/ Spawn(t) PROVE Still
  BY <1>3 DEF ThreadStep, Spawn, Enter, EcallFails, Lock, Return, Relock,
              Unlock, Moved
<1>4. CASE ProducerWait \/ ProducerGo \/ ProducerStore
  BY <1>4 DEF ProducerWait, ProducerGo, ProducerStore, Moved
<1>5. CASE ProducerSignal
  BY <1>5 DEF ProducerSignal, Signal, Moved
<1>6. ASSUME NEW c \in Consumers,
             ConsumerWait(c) \/ ConsumerGo(c) \/ ConsumerStore(c)
      PROVE  Still
  BY <1>6 DEF ConsumerWait, ConsumerGo, ConsumerStore, Moved
<1>7. ASSUME NEW c \in Consumers, ConsumerSignal(c) PROVE Still
  BY <1>7 DEF ConsumerSignal, Signal, Moved
<1>8. CASE PowerTransition \/ UNCHANGED vars
  BY <1>8 DEF PowerTransition, vars, Moved
<1>9. QED
  BY <1>1, <1>2, <1>3, <1>4, <1>5, <1>6, <1>7, <1>8
     DEF Next, Progress, Step, ProducerStep, ConsumerStep, Stopped

\* The buffer with its lock, its condition variables and its slots implements
\* the abstract bounded buffer: an item is counted in only when there is room,
\* and out only when there is one (Thread.cpp 75-104).
THEOREM Implements == Spec => Refinement
<1>1. Init => Abstract!BBInit
  <2> SUFFICES ASSUME Init PROVE Abstract!BBInit
    OBVIOUS
  <2>1. Moved(Producer) = 0 /\ occupied = 0
    BY DEF Init, Moved
  <2>2. Cardinality(Taken) = 0
    BY <2>1, TakenValue, InitFresh, SyncInit, CountInit
  <2>3. QED
    BY <2>1, <2>2 DEF Abstract!BBInit
<1>2. (SyncInv /\ CountInv
         => Cardinality(Taken) = Moved(Producer) - occupied)'
  BY TakenValue, PTL
<1>3. SyncInv /\ CountInv /\ SyncInv' /\ CountInv' /\ [Next]_vars
        => [Abstract!BBNext]_(Abstract!bbvars)
  <2> SUFFICES ASSUME SyncInv, CountInv, SyncInv', CountInv', [Next]_vars
               PROVE  [Abstract!BBNext]_(Abstract!bbvars)
    OBVIOUS
  <2>1. Cardinality(Taken) = Moved(Producer) - occupied
    BY TakenValue
  <2>2. Cardinality(Taken)' = Moved(Producer)' - occupied'
    BY <1>2
  <2>3. occupied \in Nat /\ Moved(Producer) \in Nat
    BY MovedNat DEF SyncInv, TypeOK
  <2>4. QED
    BY <2>1, <2>2, <2>3, ItemSteps, ConstantFacts
       DEF Abstract!BBNext, Abstract!bbvars, Abstract!Insert, Abstract!Remove
<1>4. QED
  BY <1>1, <1>3, Invariance, PTL DEF Spec, Refinement, Abstract!BBSpec

-----------------------------------------------------------------------------
(* What the driver of the two components needs to know about the buffer. *)

\* Threads that all returned leave everything as they found it.
LEMMA AllDoneClean ==
  ASSUME SyncInv, RingInv, CountInv, AllDone
  PROVE  /\ tcs = 0 /\ mutex = NoThread
         /\ more = {} /\ less = {}
         /\ occupied = 0 /\ nextin = nextout
<1>0. /\ pc \in [Threads -> PCs] /\ i \in [Threads -> Nat]
      /\ occupied \in 0 .. BUFFER_SIZE /\ nextout \in Slots
      /\ mutex \in Threads \cup {NoThread}
      /\ LoopInv /\ Conservation
      /\ \A t \in Threads : pc[t] = "done"
  BY DEF SyncInv, TypeOK, CountInv, AllDone
<1>1. Entered = {}
  BY <1>0 DEF Entered, Inside, Holding
<1>2. tcs = 0
  BY <1>1, FS_EmptySet DEF SyncInv, PoolInv
<1>3. mutex = NoThread
  BY <1>0 DEF SyncInv, MutexInv, Holding
<1>4. more = {} /\ less = {}
  BY <1>0 DEF SyncInv, QueueInv
<1>5. \A t \in Threads : Moved(t) = i[t] /\ i[t] = Loops(t)
  BY <1>0 DEF Moved, LoopInv
<1>6. /\ Moved(Producer) = Total
      /\ \A c \in Consumers : Moved(c) = LOOPS_PER_THREAD
  BY <1>5, ConstantFacts DEF Loops
<1>7. Pending = {}
  BY <1>6, ConstantFacts DEF Pending, Tickets
<1>8. Cardinality(Pending) = 0
  BY <1>7, FS_EmptySet
<1>9. occupied = 0
  BY <1>0, <1>6, <1>8, ConstantFacts DEF Conservation
<1>10. Filled = 0
  BY <1>0, <1>9 DEF Filled
<1>11. (nextout + 0) % BUFFER_SIZE = nextout
  BY <1>0, Around, ConstantFacts
<1>12. nextin = nextout
  BY <1>10, <1>11 DEF RingInv, IndexInv
<1>13. QED
  BY <1>2, <1>3, <1>4, <1>9, <1>12

\* Threads that were not created take no step.
LEMMA UnbornStill == (\A t \in Threads : pc[t] = "unborn") => ~Step
<1>1. \A t \in Threads : pc[t] = "unborn" => ~ThreadStep(t)
  BY DEF ThreadStep, Enter, EcallFails, Lock, Return, Relock, Unlock, Goto,
         Inside, Holding
<1>2. pc[Producer] = "unborn" => ~ProducerStep
  BY DEF ProducerStep, ProducerWait, ProducerGo, ProducerStore, ProducerCount,
         ProducerSignal, Signal, Goto
<1>3. \A c \in Consumers : pc[c] = "unborn" => ~ConsumerStep(c)
  BY DEF ConsumerStep, ConsumerWait, ConsumerGo, ConsumerStore, ConsumerCount,
         ConsumerSignal, Signal, Goto
<1>4. QED
  BY <1>1, <1>2, <1>3 DEF Step

\* A thread that is done stays done.
LEMMA DoneStays ==
  ASSUME SyncInv, [Next]_vars, NEW t \in Threads, pc[t] = "done"
  PROVE  pc'[t] = "done"
<1>0. /\ pc \in [Threads -> PCs]
      /\ \A w \in more \cup less : w \in Threads /\ pc[w] = "wait"
  BY DEF SyncInv, TypeOK, QueueInv
<1>1. ASSUME NEW u \in Threads, ThreadStep(u) \/ Spawn(u) PROVE pc'[t] = "done"
  BY <1>0, <1>1 DEF ThreadStep, Spawn, Enter, EcallFails, Lock, Return, Relock,
                    Unlock, Goto
<1>2. ASSUME NEW u \in Threads, Signal(u, more) \/ Signal(u, less)
      PROVE  pc'[t] = "done"
  BY <1>0, <1>2 DEF Signal, Goto
<1>3. CASE ProducerStep
  BY <1>0, <1>2, <1>3 DEF ProducerStep, ProducerWait, ProducerGo, ProducerStore,
                          ProducerCount, ProducerSignal, Goto
<1>4. ASSUME NEW c \in Consumers, ConsumerStep(c) PROVE pc'[t] = "done"
  BY <1>0, <1>2, <1>4 DEF ConsumerStep, ConsumerWait, ConsumerGo, ConsumerStore,
                          ConsumerCount, ConsumerSignal, Goto
<1>5. CASE PowerTransition \/ UNCHANGED vars
  BY <1>5 DEF PowerTransition, vars
<1>6. QED
  BY <1>1, <1>3, <1>4, <1>5 DEF Next, Progress, Step, Stopped

\* With a TCS for every thread an ECALL fails only when the enclave was lost.
LEMMA ThreadsAbort ==
  ASSUME SyncInv, [Next]_vars, Cardinality(Threads) <= TCSNum, aborted => lost
  PROVE  aborted' => lost'
<1>1. ASSUME NEW t \in Threads, EcallFails(t) PROVE lost'
  <2> SUFFICES ASSUME pc[t] = "enter", tcs >= TCSNum PROVE FALSE
    BY <1>1 DEF EcallFails
  <2>1. Entered \subseteq Threads \ {t}
    BY DEF Entered, Inside, Holding
  <2>2. /\ IsFiniteSet(Threads \ {t})
        /\ Cardinality(Threads \ {t}) = Cardinality(Threads) - 1
    BY ConstantFacts, FS_RemoveElement
  <2>3. Cardinality(Entered) <= Cardinality(Threads) - 1
    BY <2>1, <2>2, FS_Subset
  <2>4. Cardinality(Threads) \in Nat /\ Cardinality(Entered) \in Nat
    BY EnteredFinite, ConstantFacts, FS_CardinalityType
  <2>5. QED
    BY <2>3, <2>4, ConstantFacts DEF SyncInv, PoolInv
<1>2. (\A t \in Threads : ~EcallFails(t)) => aborted' = aborted /\ (lost => lost')
  BY DEF Next, Progress, Step, Stopped, PowerTransition, vars, env,
         ThreadStep, Spawn, Enter, Lock, Return, Relock, Unlock,
         ProducerStep, ProducerWait, ProducerGo, ProducerStore, ProducerCount,
         ProducerSignal, ConsumerStep, ConsumerWait, ConsumerGo, ConsumerStore,
         ConsumerCount, ConsumerSignal
<1>3. QED
  BY <1>1, <1>2
=============================================================================
