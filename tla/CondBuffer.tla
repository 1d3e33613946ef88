----------------------------- MODULE CondBuffer -----------------------------
(***************************************************************************)
(* The bounded buffer of basic-enclave: ecall_producer and ecall_consumer  *)
(* of Enclave/TrustedLibrary/Thread.cpp, and the host threads              *)
(* data_producer and data_consumer of App/TrustedLibrary/Thread.cpp that   *)
(* call them.                                                              *)
(*                                                                         *)
(* Every thread runs                                                       *)
(*                                                                         *)
(*   unborn -> enter -> loop -> check -> store -> count -> signal -> unlock*)
(*                       ^  |     | ^                                  |   *)
(*                       |  v     v |                                  |   *)
(*                       | done  wait -> relock                        |   *)
(*                       +---------------------------------------------+   *)
(*                                                                         *)
(* The SDK's mutex and condition variables are external: the mutex is its  *)
(* owner, a condition variable the set of threads queued on it.  A signal  *)
(* removes one queued thread, whichever: the SDK takes the oldest, so every*)
(* behaviour of the SDK is one of this model.  cond_wait queues the caller *)
(* and releases the mutex in one step, as the SDK does under the variable's*)
(* spin lock.                                                              *)
(***************************************************************************)
EXTENDS Integers, FiniteSets

CONSTANTS Consumers,         \* the threads running data_consumer
          Producer,          \* the thread running data_producer
          LOOPS_PER_THREAD,
          BUFFER_SIZE,
          TCSNum,            \* thread control structures of the enclave
          NoThread           \* the owner of a free mutex

ASSUME ConsumersAssumption == IsFiniteSet(Consumers)
ASSUME ThreadsAssumption ==
  /\ Producer \notin Consumers
  /\ NoThread \notin Consumers \cup {Producer}
ASSUME LoopsAssumption == LOOPS_PER_THREAD \in Nat
ASSUME SizeAssumption == BUFFER_SIZE \in Nat \ {0}
ASSUME TCSAssumption == TCSNum \in Nat

VARIABLES
  buf, occupied, nextin, nextout,  \* the fields of cond_buffer_t
  mutex,                           \* the thread holding buffer.mutex
  more, less,                      \* threads queued on the two conditions
  pc,                              \* where each host thread is
  i,                               \* each thread's completed iterations
  tcs,                             \* thread control structures in use
  lost,                            \* a power transition destroyed the enclave
  aborted                          \* a host thread called abort()

ring == <<buf, occupied, nextin, nextout>>
env  == <<lost, aborted>>
vars == <<buf, occupied, nextin, nextout, mutex, more, less, pc, i,
          tcs, lost, aborted>>

Threads == Consumers \cup {Producer}
Slots   == 0 .. BUFFER_SIZE - 1

\* Iterations of the producer's loop: 4*LOOPS_PER_THREAD for four consumers.
Total == Cardinality(Consumers) * LOOPS_PER_THREAD

Loops(t) == IF t = Producer THEN Total ELSE LOOPS_PER_THREAD

Holding == {"check", "store", "count", "signal", "unlock"}
Inside  == Holding \cup {"loop", "wait", "relock"}
PCs     == Inside \cup {"unborn", "enter", "done"}

\* Mutant: the index wraps one slot too late.
MutNextSlot(n) == (n + 1) % (BUFFER_SIZE + 1)

NextSlot(n) == (n + 1) % BUFFER_SIZE

Init ==
  /\ buf = [s \in Slots |-> 0]
  /\ occupied = 0 /\ nextin = 0 /\ nextout = 0
  /\ mutex = NoThread
  /\ more = {} /\ less = {}
  /\ pc = [t \in Threads |-> "unborn"]
  /\ i = [t \in Threads |-> 0]
  /\ tcs = 0
  /\ lost = FALSE /\ aborted = FALSE

-----------------------------------------------------------------------------
(* Steps of a host thread outside the enclave. *)

Goto(t, from, to) ==
  /\ pc[t] = from
  /\ pc' = [pc EXCEPT ![t] = to]

\* std::thread's constructor: the thread starts data_producer/data_consumer.
Spawn(t) ==
  /\ ~aborted
  /\ Goto(t, "unborn", "enter")
  /\ UNCHANGED <<ring, mutex, more, less, i, tcs, env>>

\* The ECALL binds a free TCS and starts the trusted loop with i = 0.
Enter(t) ==
  /\ ~aborted /\ ~lost
  /\ tcs < TCSNum
  /\ Goto(t, "enter", "loop")
  /\ tcs' = tcs + 1
  /\ UNCHANGED <<ring, mutex, more, less, i, env>>

\* Mutant: the host thread ignores the status of the ECALL and returns.
MutEcallFails(t) ==
  /\ ~aborted
  /\ \/ pc[t] = "enter" /\ (lost \/ tcs >= TCSNum)
     \/ pc[t] \in Inside \ {"wait"} /\ lost
  /\ pc' = [pc EXCEPT ![t] = "done"]
  /\ UNCHANGED <<ring, mutex, more, less, i, tcs, env>>

\* The ECALL returns an error (no TCS left, or the enclave was lost): abort().
\* A thread sleeping in cond_wait is outside the enclave, in the SDK's wait
\* OCALL, and does not notice.
EcallFails(t) ==
  /\ ~aborted
  /\ \/ pc[t] = "enter" /\ (lost \/ tcs >= TCSNum)
     \/ pc[t] \in Inside \ {"wait"} /\ lost
  /\ aborted' = TRUE
  /\ UNCHANGED <<ring, mutex, more, less, pc, i, tcs, lost>>

\* The machine sleeps and the enclave's memory is gone: external.
PowerTransition ==
  /\ ~aborted /\ ~lost
  /\ lost' = TRUE
  /\ UNCHANGED <<ring, mutex, more, less, pc, i, tcs, aborted>>

-----------------------------------------------------------------------------
(* Steps of a thread inside the enclave. *)

Running == ~aborted /\ ~lost

\* The head of the for loop, then sgx_thread_mutex_lock.
Lock(t) ==
  /\ Running
  /\ i[t] < Loops(t)
  /\ mutex = NoThread
  /\ Goto(t, "loop", "check")
  /\ mutex' = t
  /\ UNCHANGED <<ring, more, less, i, tcs, env>>

\* The loop ends: the ECALL returns SGX_SUCCESS and frees its TCS.
Return(t) ==
  /\ Running
  /\ i[t] >= Loops(t)
  /\ Goto(t, "loop", "done")
  /\ tcs' = tcs - 1
  /\ UNCHANGED <<ring, mutex, more, less, i, env>>

\* Mutant: "if" instead of "while" around cond_wait, no test after the wakeup.
MutRelockIf(t) ==
  /\ Running
  /\ mutex = NoThread
  /\ Goto(t, "relock", "store")
  /\ mutex' = t
  /\ UNCHANGED <<ring, more, less, i, tcs, env>>

\* Mutant: cond_wait returns without taking the mutex back.
MutRelockUnlocked(t) ==
  /\ Running
  /\ Goto(t, "relock", "check")
  /\ UNCHANGED <<ring, mutex, more, less, i, tcs, env>>

\* A thread that was signalled takes the mutex back inside cond_wait.
Relock(t) ==
  /\ Running
  /\ mutex = NoThread
  /\ Goto(t, "relock", "check")
  /\ mutex' = t
  /\ UNCHANGED <<ring, more, less, i, tcs, env>>

\* sgx_thread_mutex_unlock, then i++.
Unlock(t) ==
  /\ Running
  /\ Goto(t, "unlock", "loop")
  /\ mutex' = NoThread
  /\ i' = [i EXCEPT ![t] = @ + 1]
  /\ UNCHANGED <<ring, more, less, tcs, env>>

ProducerWait ==
  /\ Running
  /\ occupied >= BUFFER_SIZE
  /\ Goto(Producer, "check", "wait")
  /\ less' = less \cup {Producer}
  /\ mutex' = NoThread
  /\ UNCHANGED <<ring, more, i, tcs, env>>

\* Mutant: the full test is off by one (">" instead of ">=").
MutProducerGo ==
  /\ Running
  /\ ~(occupied > BUFFER_SIZE)
  /\ Goto(Producer, "check", "store")
  /\ UNCHANGED <<ring, mutex, more, less, i, tcs, env>>

ProducerGo ==
  /\ Running
  /\ ~(occupied >= BUFFER_SIZE)
  /\ Goto(Producer, "check", "store")
  /\ UNCHANGED <<ring, mutex, more, less, i, tcs, env>>

ProducerStore ==
  /\ Running
  /\ Goto(Producer, "store", "count")
  /\ buf' = [buf EXCEPT ![nextin] = nextin]
  /\ nextin' = NextSlot(nextin)
  /\ UNCHANGED <<occupied, nextout, mutex, more, less, i, tcs, env>>

ProducerCount ==
  /\ Running
  /\ Goto(Producer, "count", "signal")
  /\ occupied' = occupied + 1
  /\ UNCHANGED <<buf, nextin, nextout, mutex, more, less, i, tcs, env>>

ConsumerWait(c) ==
  /\ Running
  /\ occupied <= 0
  /\ Goto(c, "check", "wait")
  /\ more' = more \cup {c}
  /\ mutex' = NoThread
  /\ UNCHANGED <<ring, less, i, tcs, env>>

ConsumerGo(c) ==
  /\ Running
  /\ ~(occupied <= 0)
  /\ Goto(c, "check", "store")
  /\ UNCHANGED <<ring, mutex, more, less, i, tcs, env>>

\* Mutant: buf[++nextout] instead of buf[nextout++].
MutConsumerStore(c) ==
  /\ Running
  /\ Goto(c, "store", "count")
  /\ buf' = [buf EXCEPT ![NextSlot(nextout)] = 0]
  /\ nextout' = NextSlot(nextout)
  /\ UNCHANGED <<occupied, nextin, mutex, more, less, i, tcs, env>>

ConsumerStore(c) ==
  /\ Running
  /\ Goto(c, "store", "count")
  /\ buf' = [buf EXCEPT ![nextout] = 0]
  /\ nextout' = NextSlot(nextout)
  /\ UNCHANGED <<occupied, nextin, mutex, more, less, i, tcs, env>>

\* Mutant: the consumer that empties the buffer forgets to count.
MutConsumerCount(c) ==
  /\ Running
  /\ Goto(c, "count", "signal")
  /\ occupied' = IF occupied = BUFFER_SIZE THEN occupied - 1 ELSE occupied
  /\ UNCHANGED <<buf, nextin, nextout, mutex, more, less, i, tcs, env>>

ConsumerCount(c) ==
  /\ Running
  /\ Goto(c, "count", "signal")
  /\ occupied' = occupied - 1
  /\ UNCHANGED <<buf, nextin, nextout, mutex, more, less, i, tcs, env>>

\* sgx_thread_cond_signal by t on a condition with the queue waiters: one
\* queued thread, if there is one, leaves the queue and must relock.
Signal(t, waiters) ==
  IF waiters = {}
  THEN /\ Goto(t, "signal", "unlock")
       /\ UNCHANGED <<more, less>>
  ELSE \E w \in waiters :
         /\ pc[t] = "signal"
         /\ pc' = [pc EXCEPT ![t] = "unlock", ![w] = "relock"]
         /\ more' = more \ {w}
         /\ less' = less \ {w}

\* Mutant: signal only when the buffer was empty.
MutProducerSignal ==
  /\ Running
  /\ Signal(Producer, IF occupied = 1 THEN more ELSE {})
  /\ UNCHANGED <<ring, mutex, i, tcs, env>>

ProducerSignal ==
  /\ Running
  /\ Signal(Producer, more)
  /\ UNCHANGED <<ring, mutex, i, tcs, env>>

\* Mutant: the consumer signals the condition consumers wait on.
MutConsumerSignal(c) ==
  /\ Running
  /\ Signal(c, more)
  /\ UNCHANGED <<ring, mutex, i, tcs, env>>

ConsumerSignal(c) ==
  /\ Running
  /\ Signal(c, less)
  /\ UNCHANGED <<ring, mutex, i, tcs, env>>

-----------------------------------------------------------------------------
ThreadStep(t) ==
  \/ Enter(t) \/ EcallFails(t)
  \/ Lock(t) \/ Return(t) \/ Relock(t) \/ Unlock(t)

ProducerStep ==
  ProducerWait \/ ProducerGo \/ ProducerStore \/ ProducerCount \/ ProducerSignal

ConsumerStep(c) ==
  \/ ConsumerWait(c) \/ ConsumerGo(c) \/ ConsumerStore(c)
  \/ ConsumerCount(c) \/ ConsumerSignal(c)

\* Everything but the creation of the threads, which ThreadFunctions orders.
Step ==
  \/ \E t \in Threads : ThreadStep(t)
  \/ ProducerStep
  \/ \E c \in Consumers : ConsumerStep(c)

AllDone == \A t \in Threads : pc[t] = "done"

\* Every thread returned, or the process is gone.
Stopped == (AllDone \/ aborted) /\ UNCHANGED vars

Progress == (\E t \in Threads : Spawn(t)) \/ Step

Next == Progress \/ PowerTransition \/ Stopped

\* The scheduler never stops the whole process while a thread can run; power
\* transitions need not happen.
Spec == Init /\ [][Next]_vars /\ WF_vars(Progress)

-----------------------------------------------------------------------------
(* Counting items. *)

\* Items thread t has put or taken so far.
Moved(t) == i[t] + (IF pc[t] \in {"signal", "unlock"} THEN 1 ELSE 0)

Tickets == Consumers \X (1 .. LOOPS_PER_THREAD)

\* One ticket for every item a consumer took, and one for each it still will.
Taken   == {k \in Tickets : k[2] <= Moved(k[1])}
Pending == {k \in Tickets : k[2] > Moved(k[1])}

\* Consumers that still want items and are not asleep.
Hungry == {c \in Consumers : pc[c] # "wait" /\ Moved(c) < LOOPS_PER_THREAD}
-----------------------------------------------------------------------------
(* Properties. *)

\* Type invariant of the buffer and of the threads that use it.
TypeOK ==
  /\ buf \in [Slots -> Slots]
  /\ occupied \in 0 .. BUFFER_SIZE
  /\ nextin \in Slots
  /\ nextout \in Slots
  /\ mutex \in Threads \cup {NoThread}
  /\ more \subseteq Consumers
  /\ less \subseteq {Producer}
  /\ pc \in [Threads -> PCs]
  /\ i \in [Threads -> Nat]
  /\ tcs \in 0 .. TCSNum
  /\ lost \in BOOLEAN
  /\ aborted \in BOOLEAN

\* A thread between lock and unlock (Thread.cpp 79-87 and 95-102, except while
\* it sleeps in cond_wait) is the owner of the mutex: no two threads touch the
\* buffer at once.
MutexInv == \A t \in Threads : pc[t] \in Holding <=> mutex = t

\* How many stored items nextin and nextout account for: occupied lags one
\* behind while a thread is between moving its index and counting.
Filled ==
  IF pc[Producer] = "count" THEN occupied + 1
  ELSE IF \E c \in Consumers : pc[c] = "count" THEN occupied - 1
  ELSE occupied

\* nextin is always Filled slots ahead of nextout around the ring, so the two
\* indices and occupied, updated separately, never disagree.
IndexInv ==
  /\ Filled \in 0 .. BUFFER_SIZE
  /\ nextin = (nextout + Filled) % BUFFER_SIZE

\* The Filled slots from nextout on hold what the producer stored (their own
\* index) and all the others were cleared by a consumer: no item is overwritten
\* before it is taken, no slot is taken twice.
SlotInv ==
  \A d \in Slots :
    LET s == (nextout + d) % BUFFER_SIZE
    IN  buf[s] = IF d < Filled THEN s ELSE 0

\* Every item put is in the buffer or was taken, and the items that the
\* consumers still want are those in the buffer and those still to be put.
Conservation ==
  Cardinality(Pending) = occupied + (Total - Moved(Producer))

\* No lost wakeup: while a consumer sleeps, every item in the buffer is matched
\* by a consumer that is awake and wants one, or by the signal the producer is
\* about to send; while the producer sleeps the buffer is full, or a consumer
\* is about to signal.
NoLostWakeup ==
  /\ more # {} =>
       occupied <= Cardinality(Hungry)
                   + (IF pc[Producer] = "signal" THEN 1 ELSE 0)
  /\ less # {} =>
       \/ occupied = BUFFER_SIZE
       \/ \E c \in Consumers : pc[c] = "signal"

\* The threads never all sleep waiting for each other.
NoDeadlock ==
  (\A t \in Threads : pc[t] \in {"wait", "done"}) => AllDone

\* The buffer behaves as BoundedBuffer: an item is counted in only when there
\* is room and out only when there is one, in whatever order threads run.
Abstract == INSTANCE BoundedBuffer
  WITH Size <- BUFFER_SIZE, Total <- Total,
       produced <- Moved(Producer), consumed <- Cardinality(Taken)
Refinement == Abstract!BBSpec

\* Every thread returns, or the process aborts.
Termination == <>(AllDone \/ aborted)
-----------------------------------------------------------------------------
(* What the proofs need in addition: together with the invariants above these *)
(* are inductive.                                                             *)

\* The queues hold exactly the sleeping threads.
QueueInv ==
  /\ more = {c \in Consumers : pc[c] = "wait"}
  /\ less = {t \in {Producer} : pc[t] = "wait"}

\* A thread that passed its test still finds it true: the mutex protects the
\* window between the test and the update.
TestedInv ==
  /\ pc[Producer] \in {"store", "count"} => occupied < BUFFER_SIZE
  /\ \A c \in Consumers : pc[c] \in {"store", "count"} => occupied > 0

Entered == {t \in Threads : pc[t] \in Inside}

\* A TCS is in use for every thread inside the enclave, asleep or not.
PoolInv == tcs = Cardinality(Entered)

\* A thread outside its iterations has a consistent count of them.
LoopInv ==
  \A t \in Threads :
    /\ i[t] <= Loops(t)
    /\ pc[t] \in (Holding \cup {"wait", "relock"}) => i[t] < Loops(t)
    /\ pc[t] = "done" => i[t] = Loops(t)

SyncInv  == TypeOK /\ MutexInv /\ QueueInv /\ TestedInv /\ PoolInv
RingInv  == IndexInv /\ SlotInv
CountInv == LoopInv /\ Conservation /\ NoLostWakeup
=============================================================================
