--------------------------- MODULE IncreaseCounter ---------------------------
(***************************************************************************)
(* The shared counter of basic-enclave: ecall_increase_counter of          *)
(* Enclave/TrustedLibrary/Thread.cpp and its host thread increase_counter  *)
(* of App/TrustedLibrary/Thread.cpp.                                       *)
(*                                                                         *)
(*   unborn -> enter -> loop -> read -> write -> unlock                    *)
(*                      ^ |                        |                       *)
(*                      | +-> publish -> done      |                       *)
(*                      +--------------------------+                       *)
(*                                                                         *)
(* global_counter lives in the enclave under global_mutex; counter lives in*)
(* the host, where nothing protects it: the code relies on at most one     *)
(* adder ever getting a non-zero result.                                   *)
(***************************************************************************)
EXTENDS Integers, FiniteSets

CONSTANTS Adders,            \* the threads running increase_counter
          LOOPS_PER_THREAD,
          TCSNum,            \* thread control structures of the enclave
          NoThread           \* the owner of a free mutex

ASSUME AddersAssumption == IsFiniteSet(Adders) /\ NoThread \notin Adders
ASSUME AdderLoopsAssumption == LOOPS_PER_THREAD \in Nat
ASSUME AdderTCSAssumption == TCSNum \in Nat

VARIABLES
  global_counter, global_mutex,  \* trusted globals
  counter,                       \* the host's static counter
  apc,                           \* where each adder is
  ai,                            \* each adder's completed iterations
  tmp, ret,                      \* the ECALL's locals
  tcs,                           \* thread control structures in use
  alost, aaborted                \* enclave lost, process aborted

aenv  == <<alost, aaborted>>
avars == <<global_counter, global_mutex, counter, apc, ai, tmp, ret,
           tcs, alost, aaborted>>

\* 4*LOOPS_PER_THREAD for four adders.
Goal == Cardinality(Adders) * LOOPS_PER_THREAD

AHolding == {"read", "write", "unlock"}
AInside  == AHolding \cup {"loop"}
APCs     == AInside \cup {"unborn", "enter", "publish", "done"}

AInit ==
  /\ global_counter = 0 /\ global_mutex = NoThread
  /\ counter = 0
  /\ apc = [a \in Adders |-> "unborn"]
  /\ ai = [a \in Adders |-> 0]
  /\ tmp = [a \in Adders |-> 0]
  /\ ret = [a \in Adders |-> 0]
  /\ tcs = 0
  /\ alost = FALSE /\ aaborted = FALSE

AGoto(a, from, to) ==
  /\ apc[a] = from
  /\ apc' = [apc EXCEPT ![a] = to]

-----------------------------------------------------------------------------
ASpawn(a) ==
  /\ ~aaborted
  /\ AGoto(a, "unborn", "enter")
  /\ UNCHANGED <<global_counter, global_mutex, counter, ai, tmp, ret, tcs, aenv>>

\* The ECALL starts with ret = 0 (line 62) and i = 0.
AEnter(a) ==
  /\ ~aaborted /\ ~alost
  /\ tcs < TCSNum
  /\ AGoto(a, "enter", "loop")
  /\ tcs' = tcs + 1
  /\ UNCHANGED <<global_counter, global_mutex, counter, ai, tmp, ret, aenv>>

\* The ECALL returns an error: cnr keeps its 0, so counter is left alone, and
\* the host thread aborts.
AEcallFails(a) ==
  /\ ~aaborted
  /\ \/ apc[a] = "enter" /\ (alost \/ tcs >= TCSNum)
     \/ apc[a] \in AInside /\ alost
  /\ aaborted' = TRUE
  /\ UNCHANGED <<global_counter, global_mutex, counter, apc, ai, tmp, ret,
                 tcs, alost>>

\* The machine sleeps and the enclave's memory is gone: external.
APowerTransition ==
  /\ ~aaborted /\ ~alost
  /\ alost' = TRUE
  /\ UNCHANGED <<global_counter, global_mutex, counter, apc, ai, tmp, ret,
                 tcs, aaborted>>

ARunning == ~aaborted /\ ~alost

\* Mutant: sgx_thread_mutex_lock does not wait for the holder.
MutALock(a) ==
  /\ ARunning
  /\ ai[a] < LOOPS_PER_THREAD
  /\ AGoto(a, "loop", "read")
  /\ global_mutex' = a
  /\ UNCHANGED <<global_counter, counter, ai, tmp, ret, tcs, aenv>>

\* Mutant: the loop runs once too often ("<=" instead of "<").
MutALockOff(a) ==
  /\ ARunning
  /\ ai[a] <= LOOPS_PER_THREAD
  /\ global_mutex = NoThread
  /\ AGoto(a, "loop", "read")
  /\ global_mutex' = a
  /\ UNCHANGED <<global_counter, counter, ai, tmp, ret, tcs, aenv>>

\* The head of the for loop, then sgx_thread_mutex_lock.
ALock(a) ==
  /\ ARunning
  /\ ai[a] < LOOPS_PER_THREAD
  /\ global_mutex = NoThread
  /\ AGoto(a, "loop", "read")
  /\ global_mutex' = a
  /\ UNCHANGED <<global_counter, counter, ai, tmp, ret, tcs, aenv>>

\* size_t tmp = global_counter, already with the increment of ++tmp.
ARead(a) ==
  /\ ARunning
  /\ AGoto(a, "read", "write")
  /\ tmp' = [tmp EXCEPT ![a] = global_counter + 1]
  /\ UNCHANGED <<global_counter, global_mutex, counter, ai, ret, tcs, aenv>>

\* Mutant: the goal is recognised one increment early.
MutAWrite(a) ==
  /\ ARunning
  /\ AGoto(a, "write", "unlock")
  /\ global_counter' = tmp[a]
  /\ ret' = [ret EXCEPT ![a] = IF tmp[a] >= Goal - 1 THEN tmp[a] ELSE @]
  /\ UNCHANGED <<global_mutex, counter, ai, tmp, tcs, aenv>>

\* global_counter = ++tmp, and ret if this increment reached the goal.
AWrite(a) ==
  /\ ARunning
  /\ AGoto(a, "write", "unlock")
  /\ global_counter' = tmp[a]
  /\ ret' = [ret EXCEPT ![a] = IF tmp[a] = Goal THEN tmp[a] ELSE @]
  /\ UNCHANGED <<global_mutex, counter, ai, tmp, tcs, aenv>>

\* Mutant: an adder leaves its last iteration without unlocking.
MutAUnlock(a) ==
  /\ ARunning
  /\ AGoto(a, "unlock", "loop")
  /\ global_mutex' = IF ai[a] + 1 = LOOPS_PER_THREAD THEN a ELSE NoThread
  /\ ai' = [ai EXCEPT ![a] = @ + 1]
  /\ tmp' = [tmp EXCEPT ![a] = 0]
  /\ UNCHANGED <<global_counter, counter, ret, tcs, aenv>>

\* sgx_thread_mutex_unlock, then i++; tmp goes out of scope.
AUnlock(a) ==
  /\ ARunning
  /\ AGoto(a, "unlock", "loop")
  /\ global_mutex' = NoThread
  /\ ai' = [ai EXCEPT ![a] = @ + 1]
  /\ tmp' = [tmp EXCEPT ![a] = 0]
  /\ UNCHANGED <<global_counter, counter, ret, tcs, aenv>>

\* The ECALL returns ret into cnr and frees its TCS.
AReturn(a) ==
  /\ ARunning
  /\ ai[a] >= LOOPS_PER_THREAD
  /\ AGoto(a, "loop", "publish")
  /\ tcs' = tcs - 1
  /\ UNCHANGED <<global_counter, global_mutex, counter, ai, tmp, ret, aenv>>

\* Mutant: every adder stores its result, zero or not.
MutAPublish(a) ==
  /\ ~aaborted
  /\ AGoto(a, "publish", "done")
  /\ counter' = ret[a]
  /\ UNCHANGED <<global_counter, global_mutex, ai, tmp, ret, tcs, aenv>>

\* if (cnr != 0) counter = cnr, in the host, outside any lock.
APublish(a) ==
  /\ ~aaborted
  /\ AGoto(a, "publish", "done")
  /\ counter' = IF ret[a] # 0 THEN ret[a] ELSE counter
  /\ UNCHANGED <<global_counter, global_mutex, ai, tmp, ret, tcs, aenv>>

-----------------------------------------------------------------------------
AStep ==
  \E a \in Adders :
    \/ AEnter(a) \/ AEcallFails(a)
    \/ ALock(a) \/ ARead(a) \/ AWrite(a) \/ AUnlock(a)
    \/ AReturn(a) \/ APublish(a)

AllAdded == \A a \in Adders : apc[a] = "done"

AStopped == (AllAdded \/ aaborted) /\ UNCHANGED avars

AProgress == (\E a \in Adders : ASpawn(a)) \/ AStep

ANext == AProgress \/ APowerTransition \/ AStopped

\* The scheduler never stops the whole process while a thread can run; power
\* transitions need not happen.
ASpec == AInit /\ [][ANext]_avars /\ WF_avars(AProgress)
-----------------------------------------------------------------------------
\* Increments adder a has made visible so far.
Added(a) == ai[a] + (IF apc[a] = "unlock" THEN 1 ELSE 0)

\* One ticket for every increment the adders are to make, and those made.
ATickets   == Adders \X (1 .. LOOPS_PER_THREAD)
Increments == {k \in ATickets : k[2] <= Added(k[1])}
-----------------------------------------------------------------------------
\* Type invariant of the counter and of the adders.
ATypeOK ==
  /\ global_counter \in Nat
  /\ global_mutex \in Adders \cup {NoThread}
  /\ counter \in Nat
  /\ apc \in [Adders -> APCs]
  /\ ai \in [Adders -> 0 .. LOOPS_PER_THREAD]
  /\ tmp \in [Adders -> Nat]
  /\ ret \in [Adders -> Nat]
  /\ tcs \in 0 .. TCSNum
  /\ alost \in BOOLEAN
  /\ aaborted \in BOOLEAN

\* No increment is lost: global_counter is the number of increments made, over
\* all threads, in whatever order they ran.
NoLostUpdate == global_counter = Cardinality(Increments)

\* Host variable counter is unprotected, and needs no protection: at most one
\* adder ever carries a non-zero result, so no two threads write it.
OneWriter ==
  \A a, b \in Adders : ret[a] # 0 /\ ret[b] # 0 => a = b

\* What the host asserts after joining the adders (line 83): the result
\* was neither missed by every adder nor overwritten.
CounterComplete == AllAdded => counter = Goal

\* Every adder returns, or the process aborts.
ATermination == <>(AllAdded \/ aaborted)
-----------------------------------------------------------------------------
(* What the proofs need in addition: together with the invariants above these *)
(* are inductive.                                                             *)

\* A thread between lock and unlock owns global_mutex (lines 64-70).
AMutexInv == \A a \in Adders : apc[a] \in AHolding <=> global_mutex = a

\* A thread that read the counter still has its successor: nobody wrote between
\* tmp = global_counter and global_counter = ++tmp.
FreshRead == \A a \in Adders : apc[a] = "write" => tmp[a] = global_counter + 1

\* Where an adder is bounds the iterations it has completed.
ALoopInv ==
  \A a \in Adders :
    /\ apc[a] \in AHolding => ai[a] < LOOPS_PER_THREAD
    /\ apc[a] \in {"publish", "done"} => ai[a] = LOOPS_PER_THREAD

AEntered == {a \in Adders : apc[a] \in AInside}

\* A TCS is in use for every adder inside the enclave.
APoolInv == tcs = Cardinality(AEntered)

\* The result that reaches the host is the goal and was reached: it is never
\* reported early.
GoalReported ==
  /\ \A a \in Adders : ret[a] # 0 => ret[a] = Goal /\ global_counter = Goal
  /\ counter # 0 => counter = Goal

\* Once the goal is reached some adder carries it, and once that adder is done
\* the host has it.
ReportInv ==
  /\ global_counter = Goal /\ Goal # 0 => \E a \in Adders : ret[a] = Goal
  /\ \A a \in Adders : apc[a] = "done" /\ ret[a] # 0 => counter = Goal

ASyncInv  == ATypeOK /\ AMutexInv /\ FreshRead /\ ALoopInv /\ APoolInv
ACountInv == NoLostUpdate /\ OneWriter /\ GoalReported /\ ReportInv
=============================================================================
