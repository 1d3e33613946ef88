-------------------------- MODULE RemoteAttestation --------------------------
(***************************************************************************)
(* The remote attestation sample as a whole: main() of app/app.cpp, the    *)
(* service provider it calls and the enclave it creates.  main is a        *)
(* sequence of calls, each of which may fail, with two retry loops on BUSY,*)
(* one on a lost enclave, a clean-up label and an exit that skips it.  A   *)
(* power transition may destroy the enclave between any two calls.         *)
(*                                                                         *)
(* msg3 and everything after it is commented out in main, so an attestation*)
(* ends when the enclave has accepted msg2.                                *)
(***************************************************************************)
EXTENDS Integers, FiniteSets

CONSTANTS
  Groups, GroupIds, PublicKeys, IASMayFail, MaxKeys,
  EnclaveIds,   \* 1 .. 2: the first enclave and the one after a loss
  MaxLosses,    \* bound: power transitions
  NULL

ASSUME EnclaveIdsAssumption == EnclaveIds = 1 .. 2
ASSUME LossesAssumption == MaxLosses \in Nat
\* main's msg0 and its one msg1 are among the requests of a client.
ASSUME RequestsAssumption == 0 \in GroupIds /\ 1 \in PublicKeys

VARIABLES
  SUPPLIED_KEY_DERIVATION,                          \* KeyExchange
  g_is_sp_registered, g_sp_extended_epid_group_id, g_spid, g_sp_db, nkeys,
  net_ret, p_resp,                                  \* ServiceProvider
  enclaves, contexts, nga, g_secret,                \* EnclaveRA
  at,                         \* where main is
  ret, enclave_id, context,   \* main's locals
  enclave_lost_retry_time, busy_retry_time,
  heap,                       \* main's live buffers: msg0, msg0_resp, msg1 ..
  msg1,                       \* the g_a in p_msg1_full
  msg2,                       \* the body of p_msg2_full
  calls,                      \* how often each retried call, and the close, was made
  losses, exit_code

SP == INSTANCE ServiceProvider

\* main opens at most one context in an enclave, so the enclave's id names it.
E == INSTANCE EnclaveRA WITH
       ContextIds <- EnclaveIds,
       Home       <- [e \in EnclaveIds |-> e]

sp   == <<g_is_sp_registered, g_sp_extended_epid_group_id, g_spid, g_sp_db,
          nkeys, net_ret, p_resp>>
encl == <<enclaves, contexts, nga, g_secret>>
retries == <<enclave_lost_retry_time, busy_retry_time, calls>>
msgs == <<msg1, msg2>>
rest == <<losses, exit_code>>
rvars == <<SUPPLIED_KEY_DERIVATION, sp, encl, at, ret, enclave_id, context,
           retries, heap, msgs, rest>>

INT_MAX == 2147483647   \* the context before enclave_init_ra
SUCCESS == 0

RAInit ==
  /\ SP!SPInit /\ E!EnclaveInit
  /\ at = "msg0"
  /\ ret = 0 /\ enclave_id = 0 /\ context = INT_MAX
  /\ enclave_lost_retry_time = 1 /\ busy_retry_time = 4
  /\ heap = {} /\ msg1 = NULL /\ msg2 = NULL
  /\ calls = [create |-> 0, msg1 |-> 0, msg2 |-> 0, close |-> 0]
  /\ losses = 0 /\ exit_code = NULL

\* Mutant: goto a label after the close.
MutFail(value) == ret' = value /\ at' = "destroy"

\* ret = value; goto CLEANUP
Fail(value) == ret' = value /\ at' = "cleanup"

Continue(next) == ret' = SUCCESS /\ at' = next

\* malloc of a buffer of main, then on to next.
Allocate(buffer, next) ==
  \/ Fail(-1) /\ UNCHANGED heap
  \/ Continue(next) /\ heap' = heap \cup {buffer}

-----------------------------------------------------------------------------
(* msg0 and the attestation key *)

MakeMsg0 ==
  /\ at = "msg0"
  /\ Allocate("msg0", "send0")
  /\ UNCHANGED <<sp, encl, enclave_id, context, retries, msgs, rest>>

\* The extended EPID group id is always 0.
SendMsg0 ==
  /\ at = "send0"
  /\ SP!ProcMsg0(0)
  /\ IF net_ret' # SUCCESS
     THEN Fail(net_ret') /\ UNCHANGED heap
     ELSE Continue("select") /\ heap' = heap \cup {"msg0_resp"}
  /\ UNCHANGED <<encl, enclave_id, context, retries, msgs, rest>>

SelectKey ==
  /\ at = "select"
  /\ Fail(-1) \/ Continue("create")
  /\ UNCHANGED <<sp, encl, enclave_id, context, retries, heap, msgs, rest>>

-----------------------------------------------------------------------------
(* The enclave: created again once if it is lost before enclave_init_ra. *)

Called(what) == calls' = [calls EXCEPT ![what] = @ + 1]

CreateFails ==
  /\ at = "create"
  /\ Called("create")
  /\ Fail(-1)
  /\ UNCHANGED <<sp, encl, enclave_id, context, enclave_lost_retry_time,
                 busy_retry_time, heap, msgs, rest>>

CreateEnclave ==
  /\ at = "create"
  /\ Called("create")
  /\ enclave_id' = enclave_id + 1
  /\ E!Create(enclave_id + 1)
  /\ Continue("init")
  /\ UNCHANGED <<sp, context, enclave_lost_retry_time, busy_retry_time, heap,
                 msgs, rest>>

InitRA ==
  /\ at = "init"
  /\ E!enclave_init_ra(enclave_id)
  /\ context' = 0
  /\ Continue("alloc1")
  /\ UNCHANGED <<sp, enclave_id, retries, heap, msgs, rest>>

\* The ECALL fails, or it returns and status reports that sgx_ra_init failed; in
\* that case the marshalling code may still have copied out a zero context.
InitFails ==
  /\ at = "init"
  /\ E!Alive(enclave_id)
  /\ context' \in {context, 0}
  /\ Fail(-1)
  /\ UNCHANGED <<sp, encl, enclave_id, retries, heap, msgs, rest>>

\* SGX_ERROR_ENCLAVE_LOST && enclave_lost_retry_time--
InitLost ==
  /\ at = "init"
  /\ ~E!Alive(enclave_id)
  /\ enclave_lost_retry_time' = enclave_lost_retry_time - 1
  /\ IF enclave_lost_retry_time # 0
     THEN at' = "create" /\ UNCHANGED ret
     ELSE Fail(-1)
  /\ UNCHANGED <<sp, encl, enclave_id, context, busy_retry_time, calls, heap,
                 msgs, rest>>

-----------------------------------------------------------------------------
(* msg1 *)

MakeMsg1 ==
  /\ at = "alloc1"
  /\ Allocate("msg1", "get1")
  /\ UNCHANGED <<sp, encl, enclave_id, context, retries, msgs, rest>>

\* Mutant: the loop goes on while the budget is not negative.
MutRetryBusy(fallback) ==
  /\ busy_retry_time' = busy_retry_time - 1
  /\ IF busy_retry_time >= 0
     THEN UNCHANGED <<at, ret>>
     ELSE fallback

\* A call returned SGX_ERROR_BUSY: ret == BUSY && busy_retry_time--.
RetryBusy(fallback) ==
  /\ busy_retry_time' = busy_retry_time - 1
  /\ IF busy_retry_time # 0
     THEN UNCHANGED <<at, ret>>
     ELSE fallback

GetMsg1 ==
  /\ at = "get1"
  /\ Called("msg1")
  /\ E!get_ga(enclave_id)
  /\ msg1' = contexts'[enclave_id].a
  /\ Continue("send1")
  /\ UNCHANGED <<sp, enclave_id, context, enclave_lost_retry_time,
                 busy_retry_time, heap, msg2, rest>>

GetMsg1Busy ==
  /\ at = "get1"
  /\ Called("msg1")
  /\ RetryBusy(Fail(-1))
  /\ UNCHANGED <<sp, encl, enclave_id, context, enclave_lost_retry_time, heap,
                 msgs, rest>>

\* Any other error, a lost enclave among them.
GetMsg1Fails ==
  /\ at = "get1"
  /\ Called("msg1")
  /\ Fail(-1)
  /\ UNCHANGED <<sp, encl, enclave_id, context, enclave_lost_retry_time,
                 busy_retry_time, heap, msgs, rest>>

\* Mutant: what is left of the first loop's budget is used for the second.
MutSendMsg1 ==
  /\ at = "send1"
  /\ SP!ProcMsg1(msg1)
  /\ IF net_ret' # SUCCESS \/ p_resp' = NULL
     THEN Fail(net_ret') /\ UNCHANGED <<heap, msg2>>
     ELSE /\ Continue(IF p_resp'.type = "MSG2" THEN "proc2" ELSE "cleanup")
          /\ heap' = heap \cup {"msg2"}
          /\ msg2' = p_resp'
  /\ UNCHANGED <<encl, enclave_id, context, retries, msg1, rest>>

\* msg2 arrives and the retry budget is set again for the next loop.
SendMsg1 ==
  /\ at = "send1"
  /\ SP!ProcMsg1(msg1)
  /\ IF net_ret' # SUCCESS \/ p_resp' = NULL
     THEN Fail(net_ret') /\ UNCHANGED <<heap, msg2, busy_retry_time>>
     ELSE /\ Continue(IF p_resp'.type = "MSG2" THEN "proc2" ELSE "cleanup")
          /\ heap' = heap \cup {"msg2"}
          /\ msg2' = p_resp'
          /\ busy_retry_time' = 2
  /\ UNCHANGED <<encl, enclave_id, context, enclave_lost_retry_time, calls,
                 msg1, rest>>

-----------------------------------------------------------------------------
(* msg2: sgx_ra_proc_msg2_ex runs the trusted part, then asks for a quote. *)

ProcMsg2 ==
  /\ at = "proc2"
  /\ Called("msg2")
  /\ E!proc_msg2(enclave_id, msg2)
  /\ heap' = heap \cup {"msg3"}
  /\ Continue("getchar")
  /\ UNCHANGED <<sp, enclave_id, context, enclave_lost_retry_time,
                 busy_retry_time, msgs, rest>>

\* BUSY, before or after the enclave took msg2; p_msg3 stays NULL.
ProcMsg2Busy ==
  /\ at = "proc2"
  /\ Called("msg2")
  /\ E!proc_msg2(enclave_id, msg2) \/ UNCHANGED encl
  /\ RetryBusy(Fail(-1))
  /\ UNCHANGED <<sp, enclave_id, context, enclave_lost_retry_time, heap, msgs,
                 rest>>

\* Any other error, before or after the enclave took msg2, with or without a
\* msg3: main tests both.
ProcMsg2Fails ==
  /\ at = "proc2"
  /\ Called("msg2")
  /\ E!proc_msg2(enclave_id, msg2) \/ UNCHANGED encl
  /\ heap' \in {heap, heap \cup {"msg3"}}
  /\ Fail(-1)
  /\ UNCHANGED <<sp, enclave_id, context, enclave_lost_retry_time,
                 busy_retry_time, msgs, rest>>

-----------------------------------------------------------------------------
(* The two ways out. *)

\* getchar() returns and so does main, without cleaning up.
GetChar ==
  /\ at = "getchar"
  /\ at' = "exited"
  /\ exit_code' = ret
  /\ UNCHANGED <<sp, encl, ret, enclave_id, context, retries, heap, msgs,
                 losses>>

SkipClose ==
  /\ at = "cleanup"
  /\ context = INT_MAX
  /\ at' = "destroy"
  /\ UNCHANGED <<sp, encl, ret, enclave_id, context, retries, heap, msgs, rest>>

\* enclave_ra_close succeeds and ret gets its value back.
CloseContext ==
  /\ at = "cleanup"
  /\ context # INT_MAX
  /\ Called("close")
  /\ E!enclave_ra_close(enclave_id)
  /\ at' = "destroy"
  /\ UNCHANGED <<sp, ret, enclave_id, context, enclave_lost_retry_time,
                 busy_retry_time, heap, msgs, rest>>

\* Mutant: a failed close starts the clean-up again.
MutCloseFails ==
  /\ at = "cleanup"
  /\ context # INT_MAX
  /\ ret' = -1
  /\ UNCHANGED <<sp, encl, at, enclave_id, context, retries, heap, msgs, rest>>

\* The close fails, whether the enclave is lost, the context was never opened or
\* it is open: main goes on to destroy the enclave.
CloseFails ==
  /\ at = "cleanup"
  /\ context # INT_MAX
  /\ Called("close")
  /\ ret' = -1
  /\ at' = "destroy"
  /\ UNCHANGED <<sp, encl, enclave_id, context, enclave_lost_retry_time,
                 busy_retry_time, heap, msgs, rest>>

DestroyEnclave ==
  /\ at = "destroy"
  /\ E!Destroy(enclave_id)
  /\ at' = "free"
  /\ UNCHANGED <<sp, ret, enclave_id, context, retries, heap, msgs, rest>>

\* Mutant: msg3, allocated by the library, is forgotten.
MutFreeAll ==
  /\ at = "free"
  /\ heap' = heap \ {"msg0_resp", "msg2", "msg1", "msg0"}
  /\ at' = "exited"
  /\ exit_code' = 0
  /\ UNCHANGED <<sp, encl, ret, enclave_id, context, retries, msgs, losses>>

\* The responses, msg3, msg1 and msg0 are freed; main then falls off its end,
\* which in C++ returns 0.
FreeAll ==
  /\ at = "free"
  /\ heap' = heap \ {"msg0_resp", "msg2", "msg3", "msg1", "msg0"}
  /\ at' = "exited"
  /\ exit_code' = 0
  /\ UNCHANGED <<sp, encl, ret, enclave_id, context, retries, msgs, losses>>

-----------------------------------------------------------------------------
PowerTransition ==
  /\ at # "exited"
  /\ losses < MaxLosses
  /\ losses' = losses + 1
  /\ E!LoseAll
  /\ UNCHANGED <<sp, at, ret, enclave_id, context, retries, heap, msgs,
                 exit_code>>

Exited == at = "exited" /\ UNCHANGED rvars

\* Every step of main but the one that waits for the user.
MainStep ==
  /\ SP!SameBuild
  /\ \/ MakeMsg0 \/ SendMsg0 \/ SelectKey
     \/ CreateFails \/ CreateEnclave \/ InitRA \/ InitFails \/ InitLost
     \/ MakeMsg1 \/ GetMsg1 \/ GetMsg1Busy \/ GetMsg1Fails \/ SendMsg1
     \/ ProcMsg2 \/ ProcMsg2Busy \/ ProcMsg2Fails
     \/ SkipClose \/ CloseContext \/ CloseFails \/ DestroyEnclave \/ FreeAll

\* The steps nobody is obliged to take: the user's key, a loss of power.
OtherStep == SP!SameBuild /\ (GetChar \/ PowerTransition)

RANext == MainStep \/ OtherStep \/ Exited

\* main runs on; the user may never press a key.
RASpec == RAInit /\ [][RANext]_rvars /\ WF_rvars(MainStep)
-----------------------------------------------------------------------------
\* Type invariant of main.
RATypeOK ==
  /\ at \in {"msg0", "send0", "select", "create", "init", "alloc1", "get1",
             "send1", "proc2", "getchar", "cleanup", "destroy", "free",
             "exited"}
  /\ ret \in -1 .. 7
  /\ enclave_id \in 0 .. 2
  /\ context \in {INT_MAX, 0}
  /\ enclave_lost_retry_time \in -1 .. 1
  /\ busy_retry_time \in -1 .. 4
  /\ heap \subseteq {"msg0", "msg0_resp", "msg1", "msg2", "msg3"}
  /\ losses \in 0 .. MaxLosses

\* Key agreement: whenever an enclave holds session keys they are the four keys
\* in the provider's database, through every failure, retry and loss; and main
\* reports success only if the enclave reached that point or is gone.
KeyAgreement ==
  /\ \A e \in EnclaveIds :
       contexts[e] # NULL /\ contexts[e].state = "msg2" =>
         \A name \in E!KeyNames : contexts[e].keys[name] = g_sp_db[name]
  /\ at = "getchar" =>
       \/ enclaves[enclave_id] = "lost"
       \/ contexts[enclave_id] # NULL /\ contexts[enclave_id].state = "msg2"

\* After the clean-up every buffer is freed and no enclave is left running: an
\* enclave that main no longer names was lost.
CleanupInv ==
  at = "exited" /\ ret # SUCCESS =>
    /\ heap = {}
    /\ \A e \in EnclaveIds : enclaves[e] # "alive"

\* From wherever main gives up, it destroys an enclave whose key exchange is still
\* open only after enclave_ra_close was called for it and failed, and ret says so.
CloseBeforeDestroy ==
  [][\A e \in EnclaveIds :
       enclaves[e] = "alive" /\ enclaves'[e] = "destroyed" /\ E!Open(e) =>
         calls.close = 1 /\ ret = -1]_rvars

\* The three do-while loops with a post-decremented budget make at most two,
\* five and three calls; a failed close is not retried.
RetryBounds ==
  calls.create <= 2 /\ calls.msg1 <= 5 /\ calls.msg2 <= 3 /\ calls.close <= 1

\* main ends or waits for the user's key.
RATermination == <>(at \in {"getchar", "exited"})

\* What main says it does on a failure: ret, restored after enclave_ra_close to
\* "the value that led us to this point in the code", is what it returns.
ExitReportsRet == at = "exited" => exit_code = ret

\* What main says of its buffers: "msg2 needs to be freed when no longer needed"
\* and "The ISV app is responsible for freeing the returned p_msg3!!".
BuffersFreed == at = "exited" => heap \cap {"msg2", "msg3"} = {}
=============================================================================
