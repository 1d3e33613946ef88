--------------------------- MODULE ThreadFunctions ---------------------------
(***************************************************************************)
(* ecall_thread_functions of App/TrustedLibrary/Thread.cpp: the main thread*)
(* that creates the adders, joins them, asserts their result, then creates *)
(* the consumers and the producer and joins those.  It composes            *)
(* IncreaseCounter and CondBuffer, which share the enclave: its TCS pool   *)
(* (tcs), its loss in a power transition, and the fate of the process.     *)
(***************************************************************************)
EXTENDS Integers, Sequences, SequencesExt, FiniteSets

CONSTANTS AdderOrder,   \* adder1 .. adder4, in creation and join order
          SpawnOrder,   \* consumer1, producer0, consumer2 ..
          JoinOrder,    \* consumer1, consumer2 .., producer0
          Producer,
          LOOPS_PER_THREAD, BUFFER_SIZE, TCSNum, NoThread

ASSUME OrderAssumption ==
  /\ ToSet(SpawnOrder) = ToSet(JoinOrder)
  /\ Producer \in ToSet(SpawnOrder)
  /\ ToSet(SpawnOrder) \cap ToSet(AdderOrder) = {}
  /\ NoThread \notin ToSet(SpawnOrder) \cup ToSet(AdderOrder)

ASSUME ListsAssumption ==
  /\ AdderOrder \in Seq(ToSet(AdderOrder))
  /\ SpawnOrder \in Seq(ToSet(SpawnOrder))
  /\ JoinOrder \in Seq(ToSet(SpawnOrder))

ASSUME NumbersAssumption ==
  /\ LOOPS_PER_THREAD \in Nat /\ TCSNum \in Nat
  /\ BUFFER_SIZE \in Nat \ {0}

VARIABLES
  line,                                                    \* main's next line
  global_counter, global_mutex, counter, apc, ai, tmp, ret,
  buf, occupied, nextin, nextout, mutex, more, less, pc, i,
  tcs, lost, aborted

counterVars == <<global_counter, global_mutex, counter, apc, ai, tmp, ret>>
bufferVars  == <<buf, occupied, nextin, nextout, mutex, more, less, pc, i>>
allVars     == <<line, counterVars, bufferVars, tcs, lost, aborted>>

Adders    == ToSet(AdderOrder)
Consumers == ToSet(SpawnOrder) \ {Producer}

IC == INSTANCE IncreaseCounter
        WITH alost <- lost, aaborted <- aborted
CB == INSTANCE CondBuffer

\* The statements op(t) for the threads t of a list.
ForAll(op, threads) == [k \in DOMAIN threads |-> <<op, threads[k]>>]

\* Mutant: the adders are not joined before the second phase.
MutScriptNoJoin ==
  ForAll("spawn adder", AdderOrder)
  \o ForAll("spawn", SpawnOrder) \o ForAll("join", JoinOrder)

\* Mutant: the assertion comes before the last join.
MutScriptEarlyAssert ==
  ForAll("spawn adder", AdderOrder)
  \o ForAll("join adder", Front(AdderOrder))
  \o << <<"assert", NoThread>>, <<"join adder", Last(AdderOrder)>> >>
  \o ForAll("spawn", SpawnOrder) \o ForAll("join", JoinOrder)

\* Mutant: the producer is not joined.
MutScriptLoose ==
  ForAll("spawn adder", AdderOrder) \o ForAll("join adder", AdderOrder)
  \o << <<"assert", NoThread>> >>
  \o ForAll("spawn", SpawnOrder) \o ForAll("join", Front(JoinOrder))

\* The body of ecall_thread_functions.
Script ==
  ForAll("spawn adder", AdderOrder) \o ForAll("join adder", AdderOrder)
  \o << <<"assert", NoThread>> >>
  \o ForAll("spawn", SpawnOrder) \o ForAll("join", JoinOrder)

AtLine(op, t) == line <= Len(Script) /\ Script[line] = <<op, t>>

Returned == line > Len(Script)

TFInit == line = 1 /\ IC!AInit /\ CB!Init

-----------------------------------------------------------------------------
Advance == line' = line + 1

SpawnAdder ==
  \E a \in Adders :
    /\ AtLine("spawn adder", a)
    /\ IC!ASpawn(a)
    /\ Advance
    /\ UNCHANGED bufferVars

JoinAdder ==
  \E a \in Adders :
    /\ ~aborted
    /\ AtLine("join adder", a)
    /\ apc[a] = "done"
    /\ Advance
    /\ UNCHANGED <<counterVars, bufferVars, tcs, lost, aborted>>

\* assert(counter == 4*LOOPS_PER_THREAD): a failure aborts the process.
CheckCounter ==
  /\ ~aborted
  /\ AtLine("assert", NoThread)
  /\ IF counter = IC!Goal
     THEN Advance /\ UNCHANGED aborted
     ELSE aborted' = TRUE /\ UNCHANGED line
  /\ UNCHANGED <<counterVars, bufferVars, tcs, lost>>

SpawnThread ==
  \E t \in CB!Threads :
    /\ AtLine("spawn", t)
    /\ CB!Spawn(t)
    /\ Advance
    /\ UNCHANGED counterVars

JoinThread ==
  \E t \in CB!Threads :
    /\ ~aborted
    /\ AtLine("join", t)
    /\ pc[t] = "done"
    /\ Advance
    /\ UNCHANGED <<counterVars, bufferVars, tcs, lost, aborted>>

AdderStep  == IC!AStep /\ UNCHANGED <<line, bufferVars>>
BufferStep == CB!Step /\ UNCHANGED <<line, counterVars>>

LoseEnclave ==
  /\ CB!PowerTransition
  /\ UNCHANGED <<line, counterVars>>

TFStopped == (Returned \/ aborted) /\ UNCHANGED allVars

TFProgress ==
  \/ SpawnAdder \/ JoinAdder \/ CheckCounter \/ SpawnThread \/ JoinThread
  \/ AdderStep \/ BufferStep

TFNext == TFProgress \/ LoseEnclave \/ TFStopped

\* The scheduler never stops the whole process while a thread can run; power
\* transitions need not happen.
TFSpec == TFInit /\ [][TFNext]_allVars /\ WF_allVars(TFProgress)
-----------------------------------------------------------------------------
\* The assertion of line 83 never fails: once the adders are joined, the one
\* result that reached the host is there.
AssertHolds == AtLine("assert", NoThread) => counter = IC!Goal

\* The joins between the two phases keep the number of concurrent ECALLs within
\* the TCS pool, so that the process aborts only when the enclave was lost.
AbortOnlyIfLost == aborted => lost

\* When the function returns nothing is left running or behind: all threads
\* ended (std::thread would terminate the process otherwise), every TCS and both
\* mutexes are free, nobody is queued and the buffer is empty again.
CleanReturn ==
  Returned =>
    /\ IC!AllAdded /\ CB!AllDone
    /\ tcs = 0 /\ mutex = NoThread /\ global_mutex = NoThread
    /\ more = {} /\ less = {}
    /\ occupied = 0 /\ nextin = nextout

\* The function returns, or the process aborts.
TFTermination == <>(Returned \/ aborted)
=============================================================================
