----------------------- MODULE RemoteAttestationProofs -----------------------
(***************************************************************************)
(* Proofs about RemoteAttestation, for any number of power transitions and *)
(* every outcome of every call of main().                                  *)
(*                                                                         *)
(* The inductive invariant has one part for each thing main keeps track of *)
(* by its position: which enclave it named and how often it may create one *)
(* (CreateInv), what is left of the budget for busy calls (BusyInv), what  *)
(* it returns (RetInv), which enclave runs and whether its key exchange is *)
(* open (EnclaveInv), and what the exchange has established (ExchangeInv). *)
(***************************************************************************)
EXTENDS RemoteAttestation, TLAPS

\* The places of main: before the first enclave, before the first msg1 is asked
\* for, before msg1 is answered.
Start     == {"msg0", "send0", "select"}
BeforeGet == Start \cup {"create", "init", "alloc1"}
BeforeMsg2 == BeforeGet \cup {"get1", "send1"}
Places == BeforeMsg2 \cup {"proc2", "getchar", "cleanup", "destroy", "free",
                           "exited"}

CallsInv == calls = [create |-> calls.create, msg1 |-> calls.msg1,
                     msg2 |-> calls.msg2, close |-> calls.close]

\* The enclave of each attempt to create one, and the budget of attempts.
CreateInv ==
  /\ enclave_id \in 0 .. 2
  /\ enclave_lost_retry_time \in -1 .. 1
  /\ calls.create \in 0 .. 2
  /\ at \in Start =>
       enclave_id = 0 /\ enclave_lost_retry_time = 1 /\ calls.create = 0
  /\ at = "create" =>
       /\ calls.create = enclave_id
       /\ \/ enclave_id = 0 /\ enclave_lost_retry_time = 1
          \/ enclave_id = 1 /\ enclave_lost_retry_time = 0
  /\ at = "init" =>
       \/ enclave_id = 1 /\ enclave_lost_retry_time = 1 /\ calls.create = 1
       \/ enclave_id = 2 /\ enclave_lost_retry_time = 0
  /\ at \in {"alloc1", "get1", "send1", "proc2", "getchar"} => enclave_id # 0

\* The calls made and the calls the budget still allows, in the two loops.
BusyInv ==
  /\ busy_retry_time \in -1 .. 4
  /\ calls.msg1 \in 0 .. 5
  /\ calls.msg2 \in 0 .. 3
  /\ calls.close \in 0 .. 1
  /\ at \notin {"destroy", "free", "exited"} => calls.close = 0
  /\ at \in BeforeGet => busy_retry_time = 4 /\ calls.msg1 = 0
  /\ at \in BeforeMsg2 => calls.msg2 = 0
  /\ at = "get1" => busy_retry_time >= 0 /\ calls.msg1 + busy_retry_time = 4
  /\ at = "proc2" => busy_retry_time >= 0 /\ calls.msg2 + busy_retry_time = 2

RetInv ==
  /\ at \in Places
  /\ ret \in -1 .. 7
  /\ context \in {INT_MAX, 0}
  /\ losses \in 0 .. MaxLosses

Buffers == {"msg0", "msg0_resp", "msg1", "msg2", "msg3"}

\* The clean-up leaves no buffer; the exit that skips it returns success.
HeapInv ==
  /\ heap \subseteq Buffers
  /\ at = "getchar" => ret = SUCCESS
  /\ at = "exited" /\ ret # SUCCESS => heap = {}

FreshContext == [state |-> "init", a |-> 0, keys |-> NULL]

IsContext(c) == c = [state |-> c.state, a |-> c.a, keys |-> c.keys]

\* An enclave runs only if main names it, and only until main destroys it; a key
\* exchange is open only in a running enclave, and when main destroys it only if
\* the close that main tried failed.
EnclaveInv ==
  /\ enclaves \in [EnclaveIds -> {"none", "alive", "lost", "destroyed"}]
  /\ contexts = [e \in EnclaveIds |-> contexts[e]]
  /\ \A e \in EnclaveIds :
       contexts[e] # NULL => enclaves[e] = "alive" /\ IsContext(contexts[e])
  /\ \A e \in EnclaveIds :
       enclaves[e] = "alive" =>
         /\ e = enclave_id
         /\ at \notin Start \cup {"create", "free"}
         /\ at = "exited" => ret = SUCCESS
  /\ at \in {"alloc1", "get1", "send1", "proc2", "getchar"} =>
       enclaves[enclave_id] \in {"alive", "lost"}
  /\ context = INT_MAX => \A e \in EnclaveIds : contexts[e] = NULL
  /\ at = "destroy" /\ (\E e \in EnclaveIds : contexts[e] # NULL) =>
       calls.close = 1 /\ ret = -1

\* msg2 is the one the provider made of its database.
FromDatabase(m) ==
  /\ SP!Coherent(g_sp_db)
  /\ g_sp_db.g_b = g_sp_db.b
  /\ m.g_b = g_sp_db.g_b
  /\ m.sign_gb_ga = [g_b |-> g_sp_db.g_b, g_a |-> g_sp_db.g_a]

Agreed(e) == contexts[e] # NULL /\ contexts[e].state = "msg2"

ExchangeInv ==
  /\ at = "proc2" => FromDatabase(msg2)
  /\ at \in BeforeMsg2 => \A e \in EnclaveIds : ~Agreed(e)
  /\ KeyAgreement

-----------------------------------------------------------------------------
(* One part after the other. *)

\* The do-while around sgx_create_enclave: an enclave is created again only
\* after a loss, once, and the second one has the second id.
LEMMA CreateStep ==
  CallsInv /\ CreateInv /\ [RANext]_rvars => CreateInv'
<1> SUFFICES ASSUME CallsInv /\ CreateInv, [RANext]_rvars PROVE CreateInv'
  OBVIOUS
<1> USE DEF CallsInv, CreateInv, Start, Fail, Continue, retries, rest
<1>1. CASE MakeMsg0
  BY <1>1 DEF MakeMsg0, Allocate
<1>2. CASE SendMsg0
  BY <1>2 DEF SendMsg0
<1>3. CASE SelectKey
  BY <1>3 DEF SelectKey
<1>4. CASE CreateFails
  BY <1>4 DEF CreateFails, Called
<1>5. CASE CreateEnclave
  BY <1>5 DEF CreateEnclave, Called
<1>6. CASE InitRA
  BY <1>6 DEF InitRA
<1>7. CASE InitFails
  BY <1>7 DEF InitFails
<1>8. CASE InitLost
  BY <1>8 DEF InitLost
<1>9. CASE MakeMsg1
  BY <1>9 DEF MakeMsg1, Allocate
<1>10. CASE GetMsg1
  BY <1>10 DEF GetMsg1, Called
<1>11. CASE GetMsg1Busy
  BY <1>11 DEF GetMsg1Busy, RetryBusy, Called
<1>12. CASE GetMsg1Fails
  BY <1>12 DEF GetMsg1Fails, Called
<1>13. CASE SendMsg1
  BY <1>13 DEF SendMsg1
<1>14. CASE ProcMsg2
  BY <1>14 DEF ProcMsg2, Called
<1>15. CASE ProcMsg2Busy
  BY <1>15 DEF ProcMsg2Busy, RetryBusy, Called
<1>16. CASE ProcMsg2Fails
  BY <1>16 DEF ProcMsg2Fails, Called
<1>17. CASE GetChar
  BY <1>17 DEF GetChar
<1>18. CASE SkipClose
  BY <1>18 DEF SkipClose
<1>19. CASE CloseContext
  BY <1>19 DEF CloseContext, Called
<1>20. CASE CloseFails
  BY <1>20 DEF CloseFails, Called
<1>21. CASE DestroyEnclave
  BY <1>21 DEF DestroyEnclave
<1>22. CASE FreeAll
  BY <1>22 DEF FreeAll
<1>23. CASE PowerTransition
  BY <1>23 DEF PowerTransition
<1>24. CASE UNCHANGED rvars
  BY <1>24 DEF rvars
<1>25. QED
  BY <1>1, <1>2, <1>3, <1>4, <1>5, <1>6, <1>7, <1>8, <1>9, <1>10, <1>11,
     <1>12, <1>13, <1>14, <1>15, <1>16, <1>17, <1>18, <1>19, <1>20, <1>21,
     <1>22, <1>23, <1>24 DEF RANext, MainStep, OtherStep, Exited

\* Counting the calls of main keeps the four counters.
LEMMA CallsStep ==
  CallsInv /\ [RANext]_rvars => CallsInv'
<1> SUFFICES ASSUME CallsInv, [RANext]_rvars PROVE CallsInv'
  OBVIOUS
<1> USE DEF CallsInv, Fail, Continue, retries, rest
<1>1. CASE MakeMsg0
  BY <1>1 DEF MakeMsg0, Allocate
<1>2. CASE SendMsg0
  BY <1>2 DEF SendMsg0
<1>3. CASE SelectKey
  BY <1>3 DEF SelectKey
<1>4. CASE CreateFails
  BY <1>4 DEF CreateFails, Called
<1>5. CASE CreateEnclave
  BY <1>5 DEF CreateEnclave, Called
<1>6. CASE InitRA
  BY <1>6 DEF InitRA
<1>7. CASE InitFails
  BY <1>7 DEF InitFails
<1>8. CASE InitLost
  BY <1>8 DEF InitLost
<1>9. CASE MakeMsg1
  BY <1>9 DEF MakeMsg1, Allocate
<1>10. CASE GetMsg1
  BY <1>10 DEF GetMsg1, Called
<1>11. CASE GetMsg1Busy
  BY <1>11 DEF GetMsg1Busy, RetryBusy, Called
<1>12. CASE GetMsg1Fails
  BY <1>12 DEF GetMsg1Fails, Called
<1>13. CASE SendMsg1
  BY <1>13 DEF SendMsg1
<1>14. CASE ProcMsg2
  BY <1>14 DEF ProcMsg2, Called
<1>15. CASE ProcMsg2Busy
  BY <1>15 DEF ProcMsg2Busy, RetryBusy, Called
<1>16. CASE ProcMsg2Fails
  BY <1>16 DEF ProcMsg2Fails, Called
<1>17. CASE GetChar
  BY <1>17 DEF GetChar
<1>18. CASE SkipClose
  BY <1>18 DEF SkipClose
<1>19. CASE CloseContext
  BY <1>19 DEF CloseContext, Called
<1>20. CASE CloseFails
  BY <1>20 DEF CloseFails, Called
<1>21. CASE DestroyEnclave
  BY <1>21 DEF DestroyEnclave
<1>22. CASE FreeAll
  BY <1>22 DEF FreeAll
<1>23. CASE PowerTransition
  BY <1>23 DEF PowerTransition
<1>24. CASE UNCHANGED rvars
  BY <1>24 DEF rvars
<1>25. QED
  BY <1>1, <1>2, <1>3, <1>4, <1>5, <1>6, <1>7, <1>8, <1>9, <1>10, <1>11,
     <1>12, <1>13, <1>14, <1>15, <1>16, <1>17, <1>18, <1>19, <1>20, <1>21,
     <1>22, <1>23, <1>24 DEF RANext, MainStep, OtherStep, Exited

\* Each loop on SGX_ERROR_BUSY: calls made and calls left add up, and main
\* resets the budget between the two loops.
LEMMA BusyStep ==
  CallsInv /\ BusyInv /\ [RANext]_rvars => BusyInv'
<1> SUFFICES ASSUME CallsInv /\ BusyInv, [RANext]_rvars PROVE BusyInv'
  OBVIOUS
<1> USE DEF CallsInv, BusyInv, BeforeMsg2, BeforeGet, Start, Fail, Continue,
   retries, rest
<1>1. CASE MakeMsg0
  BY <1>1 DEF MakeMsg0, Allocate
<1>2. CASE SendMsg0
  BY <1>2 DEF SendMsg0
<1>3. CASE SelectKey
  BY <1>3 DEF SelectKey
<1>4. CASE CreateFails
  BY <1>4 DEF CreateFails, Called
<1>5. CASE CreateEnclave
  BY <1>5 DEF CreateEnclave, Called
<1>6. CASE InitRA
  BY <1>6 DEF InitRA
<1>7. CASE InitFails
  BY <1>7 DEF InitFails
<1>8. CASE InitLost
  BY <1>8 DEF InitLost
<1>9. CASE MakeMsg1
  BY <1>9 DEF MakeMsg1, Allocate
<1>10. CASE GetMsg1
  BY <1>10 DEF GetMsg1, Called
<1>11. CASE GetMsg1Busy
  BY <1>11 DEF GetMsg1Busy, RetryBusy, Called
<1>12. CASE GetMsg1Fails
  BY <1>12 DEF GetMsg1Fails, Called
<1>13. CASE SendMsg1
  BY <1>13 DEF SendMsg1
<1>14. CASE ProcMsg2
  BY <1>14 DEF ProcMsg2, Called
<1>15. CASE ProcMsg2Busy
  BY <1>15 DEF ProcMsg2Busy, RetryBusy, Called
<1>16. CASE ProcMsg2Fails
  BY <1>16 DEF ProcMsg2Fails, Called
<1>17. CASE GetChar
  BY <1>17 DEF GetChar
<1>18. CASE SkipClose
  BY <1>18 DEF SkipClose
<1>19. CASE CloseContext
  BY <1>19 DEF CloseContext, Called
<1>20. CASE CloseFails
  BY <1>20 DEF CloseFails, Called
<1>21. CASE DestroyEnclave
  BY <1>21 DEF DestroyEnclave
<1>22. CASE FreeAll
  BY <1>22 DEF FreeAll
<1>23. CASE PowerTransition
  BY <1>23 DEF PowerTransition
<1>24. CASE UNCHANGED rvars
  BY <1>24 DEF rvars
<1>25. QED
  BY <1>1, <1>2, <1>3, <1>4, <1>5, <1>6, <1>7, <1>8, <1>9, <1>10, <1>11,
     <1>12, <1>13, <1>14, <1>15, <1>16, <1>17, <1>18, <1>19, <1>20, <1>21,
     <1>22, <1>23, <1>24 DEF RANext, MainStep, OtherStep, Exited

-----------------------------------------------------------------------------
(* The provider, as main calls it. *)

\* What ra_network_send_receive returns for msg0 and msg1.
LEMMA Statuses ==
  ASSUME NEW g, SP!ProcMsg0(0) \/ SP!ProcMsg1(g)
  PROVE  net_ret' \in {-1, 0, 1, 4, 5}
<1>1. \A f : SP!Msg1Status(f) \in {-1, 0, 4, 5}
  BY DEF SP!Msg1Status, SP!SP_OK, SP!BAD_REQUEST, SP!SP_IAS_FAILED,
         SP!SP_INTERNAL_ERROR
<1>2. CASE SP!ProcMsg0(0)
  BY <1>2 DEF SP!ProcMsg0, SP!Msg0Keep, SP!Msg0Enroll, SP!Msg0EnrollFails,
     SP!RespondMsg0, SP!Answer, SP!SP_OK, SP!SP_IAS_FAILED, SP!SP_INTERNAL_ERROR
<1>3. CASE SP!Msg1Unregistered
  BY <1>3 DEF SP!Msg1Unregistered, SP!Answer,
     SP!SP_UNSUPPORTED_EXTENDED_EPID_GROUP
<1>4. CASE SP!Msg1(g)
  BY <1>1, <1>4 DEF SP!Msg1, SP!Answer
<1>5. QED
  BY <1>2, <1>3, <1>4 DEF SP!ProcMsg1

\* sp_ra_proc_msg0_req leaves the session's keys alone.
LEMMA Msg0Keeps == SP!ProcMsg0(0) => UNCHANGED g_sp_db
  BY DEF SP!ProcMsg0, SP!Msg0Keep, SP!Msg0Enroll, SP!Msg0EnrollFails

\* A msg1 that was answered: no call failed, so the whole database was written
\* before msg2 was made of it.
LEMMA Msg1Answered ==
  ASSUME NEW g, SP!ProcMsg1(g), SP!SameBuild, net_ret' = SUCCESS, p_resp' # NULL
  PROVE  /\ SP!Coherent(g_sp_db)'
         /\ g_sp_db'.g_b = g_sp_db'.b
         /\ p_resp'.g_b = g_sp_db'.g_b
         /\ p_resp'.sign_gb_ga = [g_b |-> g_sp_db'.g_b, g_a |-> g_sp_db'.g_a]
<1>1. SP!Msg1(g)
  BY DEF SP!ProcMsg1, SP!Msg1Unregistered, SP!Answer,
         SP!SP_UNSUPPORTED_EXTENDED_EPID_GROUP, SUCCESS
<1>2. PICK failing, scribbled :
        /\ g_sp_db' = SP!DbAfter(g, failing, scribbled)
        /\ SP!Answer(SP!Msg1Status(failing), SP!Msg2(g_sp_db'))
  BY <1>1 DEF SP!Msg1
<1>3. failing = SP!Done
  BY <1>2 DEF SP!Answer, SP!Msg1Status, SP!BAD_REQUEST, SP!SP_IAS_FAILED,
              SP!SP_INTERNAL_ERROR, SUCCESS
<1>4. p_resp' = SP!Msg2(g_sp_db')
  BY <1>2 DEF SP!Answer
<1>5. /\ failing > SP!KeyPair
      /\ \A name \in SP!KeyNames : failing > SP!Derive(name)
  BY <1>3 DEF SP!Done, SP!KeyPair, SP!KeyNames, SP!Derive
<1>6. /\ g_sp_db'.b = nkeys + 1 /\ g_sp_db'.g_b = nkeys + 1 /\ g_sp_db'.g_a = g
      /\ \A name \in SP!KeyNames :
           g_sp_db'[name] = SP!SPKey(name, SP!SPSecret(nkeys + 1, g))
  BY <1>2, <1>5 DEF SP!DbAfter, SP!KeyNames
<1>7. \A name, s : SP!SPKey(name, s)' = SP!SPKey(name, s)
  BY DEF SP!SameBuild, SP!SPKey
<1>8. SP!Coherent(g_sp_db)'
  BY <1>6, <1>7 DEF SP!Coherent, SP!SPSecret
<1>9. QED
  BY <1>4, <1>6, <1>8 DEF SP!Msg2

\* main's ret, context and position stay in their ranges.
LEMMA RetStep ==
  RetInv /\ [RANext]_rvars => RetInv'
<1> SUFFICES ASSUME RetInv, [RANext]_rvars PROVE RetInv'
  OBVIOUS
<1> USE DEF RetInv, Places, BeforeMsg2, BeforeGet, Start, SUCCESS, Fail,
   Continue, retries, rest
<1>1. CASE MakeMsg0
  BY <1>1 DEF MakeMsg0, Allocate
<1>2. CASE SendMsg0
  BY <1>2, Statuses DEF SendMsg0
<1>3. CASE SelectKey
  BY <1>3 DEF SelectKey
<1>4. CASE CreateFails
  BY <1>4 DEF CreateFails, Called
<1>5. CASE CreateEnclave
  BY <1>5 DEF CreateEnclave, Called
<1>6. CASE InitRA
  BY <1>6 DEF InitRA
<1>7. CASE InitFails
  BY <1>7 DEF InitFails
<1>8. CASE InitLost
  BY <1>8 DEF InitLost
<1>9. CASE MakeMsg1
  BY <1>9 DEF MakeMsg1, Allocate
<1>10. CASE GetMsg1
  BY <1>10 DEF GetMsg1, Called
<1>11. CASE GetMsg1Busy
  BY <1>11 DEF GetMsg1Busy, RetryBusy, Called
<1>12. CASE GetMsg1Fails
  BY <1>12 DEF GetMsg1Fails, Called
<1>13. CASE SendMsg1
  BY <1>13, Statuses DEF SendMsg1
<1>14. CASE ProcMsg2
  BY <1>14 DEF ProcMsg2, Called
<1>15. CASE ProcMsg2Busy
  BY <1>15 DEF ProcMsg2Busy, RetryBusy, Called
<1>16. CASE ProcMsg2Fails
  BY <1>16 DEF ProcMsg2Fails, Called
<1>17. CASE GetChar
  BY <1>17 DEF GetChar
<1>18. CASE SkipClose
  BY <1>18 DEF SkipClose
<1>19. CASE CloseContext
  BY <1>19 DEF CloseContext, Called
<1>20. CASE CloseFails
  BY <1>20 DEF CloseFails, Called
<1>21. CASE DestroyEnclave
  BY <1>21 DEF DestroyEnclave
<1>22. CASE FreeAll
  BY <1>22 DEF FreeAll
<1>23. CASE PowerTransition
  BY <1>23, LossesAssumption DEF PowerTransition
<1>24. CASE UNCHANGED rvars
  BY <1>24 DEF rvars
<1>25. QED
  BY <1>1, <1>2, <1>3, <1>4, <1>5, <1>6, <1>7, <1>8, <1>9, <1>10, <1>11,
     <1>12, <1>13, <1>14, <1>15, <1>16, <1>17, <1>18, <1>19, <1>20, <1>21,
     <1>22, <1>23, <1>24 DEF RANext, MainStep, OtherStep, Exited

\* Every goto CLEANUP ends with the buffers freed; the way out through getchar()
\* returns success.
LEMMA HeapStep ==
  HeapInv /\ [RANext]_rvars => HeapInv'
<1> SUFFICES ASSUME HeapInv, [RANext]_rvars PROVE HeapInv'
  OBVIOUS
<1> USE DEF HeapInv, Buffers, SUCCESS, Fail, Continue, retries, rest
<1>1. CASE MakeMsg0
  BY <1>1 DEF MakeMsg0, Allocate
<1>2. CASE SendMsg0
  BY <1>2 DEF SendMsg0
<1>3. CASE SelectKey
  BY <1>3 DEF SelectKey
<1>4. CASE CreateFails
  BY <1>4 DEF CreateFails, Called
<1>5. CASE CreateEnclave
  BY <1>5 DEF CreateEnclave, Called
<1>6. CASE InitRA
  BY <1>6 DEF InitRA
<1>7. CASE InitFails
  BY <1>7 DEF InitFails
<1>8. CASE InitLost
  BY <1>8 DEF InitLost
<1>9. CASE MakeMsg1
  BY <1>9 DEF MakeMsg1, Allocate
<1>10. CASE GetMsg1
  BY <1>10 DEF GetMsg1, Called
<1>11. CASE GetMsg1Busy
  BY <1>11 DEF GetMsg1Busy, RetryBusy, Called
<1>12. CASE GetMsg1Fails
  BY <1>12 DEF GetMsg1Fails, Called
<1>13. CASE SendMsg1
  BY <1>13 DEF SendMsg1
<1>14. CASE ProcMsg2
  BY <1>14 DEF ProcMsg2, Called
<1>15. CASE ProcMsg2Busy
  BY <1>15 DEF ProcMsg2Busy, RetryBusy, Called
<1>16. CASE ProcMsg2Fails
  BY <1>16 DEF ProcMsg2Fails, Called
<1>17. CASE GetChar
  BY <1>17 DEF GetChar
<1>18. CASE SkipClose
  BY <1>18 DEF SkipClose
<1>19. CASE CloseContext
  BY <1>19 DEF CloseContext, Called
<1>20. CASE CloseFails
  BY <1>20 DEF CloseFails, Called
<1>21. CASE DestroyEnclave
  BY <1>21 DEF DestroyEnclave
<1>22. CASE FreeAll
  BY <1>22 DEF FreeAll
<1>23. CASE PowerTransition
  BY <1>23 DEF PowerTransition
<1>24. CASE UNCHANGED rvars
  BY <1>24 DEF rvars
<1>25. QED
  BY <1>1, <1>2, <1>3, <1>4, <1>5, <1>6, <1>7, <1>8, <1>9, <1>10, <1>11,
     <1>12, <1>13, <1>14, <1>15, <1>16, <1>17, <1>18, <1>19, <1>20, <1>21,
     <1>22, <1>23, <1>24 DEF RANext, MainStep, OtherStep, Exited

\* Only the enclave that enclave_id names runs, only until sgx_destroy_enclave,
\* and it is destroyed with a key exchange open only after a failed close.
LEMMA EnclaveStep ==
  CallsInv /\ CreateInv /\ BusyInv /\ HeapInv /\ EnclaveInv /\ [RANext]_rvars
    => EnclaveInv'
<1> SUFFICES ASSUME CallsInv /\ CreateInv /\ BusyInv /\ HeapInv /\ EnclaveInv,
                    [RANext]_rvars
             PROVE  EnclaveInv'
  OBVIOUS
<1> USE DEF CreateInv, HeapInv, EnclaveInv, IsContext, Start, SUCCESS, encl,
   Fail, Continue, retries, rest
<1>1. CASE MakeMsg0
  BY <1>1 DEF MakeMsg0, Allocate
<1>2. CASE SendMsg0
  BY <1>2 DEF SendMsg0
<1>3. CASE SelectKey
  BY <1>3 DEF SelectKey
<1>4. CASE CreateFails
  BY <1>4 DEF CreateFails, Called
<1>5. CASE CreateEnclave
  BY <1>5, EnclaveIdsAssumption DEF CreateEnclave, Called, E!Create
<1>6. CASE InitRA
  <2>1. /\ enclave_id \in EnclaveIds /\ enclaves[enclave_id] = "alive"
        /\ contexts' = [contexts EXCEPT ![enclave_id] = FreshContext]
        /\ enclaves' = enclaves
    BY <1>6 DEF InitRA, E!enclave_init_ra, E!Alive, FreshContext
  <2>2. /\ at = "init" /\ at' = "alloc1"
        /\ context' = 0 /\ enclave_id' = enclave_id
    BY <1>6 DEF InitRA
  <2>3. \A e \in EnclaveIds :
          contexts'[e] = IF e = enclave_id THEN FreshContext ELSE contexts[e]
    BY <2>1
  <2>4. contexts' = [e \in EnclaveIds |-> contexts'[e]]
    BY <2>1
  <2>5. IsContext(FreshContext)
    BY DEF FreshContext
  <2>6. \A e \in EnclaveIds : contexts'[e] # NULL =>
          enclaves'[e] = "alive" /\ IsContext(contexts'[e])
    BY <2>1, <2>3, <2>5
  <2> HIDE DEF IsContext
  <2>7. \A e \in EnclaveIds : enclaves'[e] = "alive" =>
          /\ e = enclave_id'
          /\ at' \notin Start \cup {"create", "free"}
          /\ at' = "exited" => ret' = SUCCESS
    BY <2>1, <2>2
  <2>8. \A e \in EnclaveIds : contexts'[e] # NULL =>
          /\ enclaves'[e] = "alive"
          /\ contexts'[e] = [state |-> contexts'[e].state, a |-> contexts'[e].a,
                             keys |-> contexts'[e].keys]
    BY <2>6 DEF IsContext
  <2>9. QED
    BY <2>1, <2>2, <2>4, <2>7, <2>8 DEF INT_MAX, IsContext
<1>7. CASE InitFails
  BY <1>7 DEF InitFails, E!Alive, INT_MAX
<1>8. CASE InitLost
  BY <1>8 DEF InitLost, E!Alive
<1>9. CASE MakeMsg1
  BY <1>9 DEF MakeMsg1, Allocate
<1>10. CASE GetMsg1
  BY <1>10 DEF GetMsg1, Called, E!get_ga, E!Open, E!Alive
<1>11. CASE GetMsg1Busy
  BY <1>11 DEF GetMsg1Busy, RetryBusy, Called
<1>12. CASE GetMsg1Fails
  BY <1>12 DEF GetMsg1Fails, Called
<1>13. CASE SendMsg1
  BY <1>13 DEF SendMsg1
<1>14. CASE ProcMsg2
  BY <1>14 DEF ProcMsg2, Called, E!proc_msg2, E!Open, E!Alive
<1>15. CASE ProcMsg2Busy
  BY <1>15 DEF ProcMsg2Busy, RetryBusy, Called, E!proc_msg2, E!Open, E!Alive
<1>16. CASE ProcMsg2Fails
  BY <1>16 DEF ProcMsg2Fails, Called, E!proc_msg2, E!Open, E!Alive
<1>17. CASE GetChar
  BY <1>17 DEF GetChar
<1>18. CASE SkipClose
  BY <1>18 DEF SkipClose
<1>19. CASE CloseContext
  BY <1>19 DEF CloseContext, Called, E!enclave_ra_close, E!Open, E!Alive
<1>20. CASE CloseFails
  BY <1>20 DEF CloseFails, Called, CallsInv, BusyInv
<1>21. CASE DestroyEnclave
  BY <1>21 DEF DestroyEnclave, E!Destroy
<1>22. CASE FreeAll
  BY <1>22 DEF FreeAll
<1>23. CASE PowerTransition
  BY <1>23 DEF PowerTransition, E!LoseAll, E!Alive
<1>24. CASE UNCHANGED rvars
  BY <1>24 DEF rvars
<1>25. QED
  BY <1>1, <1>2, <1>3, <1>4, <1>5, <1>6, <1>7, <1>8, <1>9, <1>10, <1>11,
     <1>12, <1>13, <1>14, <1>15, <1>16, <1>17, <1>18, <1>19, <1>20, <1>21,
     <1>22, <1>23, <1>24 DEF RANext, MainStep, OtherStep, Exited

-----------------------------------------------------------------------------
(* The two sides of the exchange. *)

\* NULL is told from every context, as the null pointer is.
NullIsNoContext == \A c : IsContext(c) => c # NULL

\* The enclave derives from (a, g_b) what the provider derives from (b, g_a).
LEMMA SameKeys ==
  ASSUME NEW a, NEW b, NEW name
  PROVE  E!EnclaveKey(name, E!EnclaveSecret(a, b)) =
           SP!SPKey(name, SP!SPSecret(b, a))
  BY DEF E!EnclaveKey, E!EnclaveSecret, SP!SPKey, SP!SPSecret, E!HashHalf,
     SP!HashHalf,
         E!CmacLabel, SP!CmacLabel

\* An enclave that accepts the provider's msg2 holds the keys of its database:
\* the signature ties msg2 to the enclave's own g_a and to g_b.
LEMMA AcceptedKeys ==
  ASSUME NEW e, FromDatabase(msg2), EnclaveInv, E!proc_msg2(e, msg2)
  PROVE  /\ IsContext(contexts'[e]) /\ contexts'[e].state = "msg2"
         /\ \A name \in E!KeyNames : contexts'[e].keys[name] = g_sp_db[name]
         /\ \A f \in EnclaveIds : f # e => contexts'[f] = contexts[f]
<1> DEFINE c == contexts[e]
<1>1. e \in EnclaveIds /\ c # NULL
  BY DEF E!proc_msg2, E!Open, E!Alive
<1>2. IsContext(c)
  BY <1>1 DEF EnclaveInv
<1>3. contexts = [f \in EnclaveIds |-> contexts[f]]
  BY DEF EnclaveInv
<1>4. msg2.sign_gb_ga = [g_b |-> msg2.g_b, g_a |-> c.a]
  BY DEF E!proc_msg2, E!Accepts
<1>5. c.a = g_sp_db.g_a /\ msg2.g_b = g_sp_db.b
  BY <1>4 DEF FromDatabase
<1>6. contexts' = [contexts EXCEPT
                     ![e].state = "msg2",
                     ![e].keys = E!EnclaveKeys(E!EnclaveSecret(c.a, msg2.g_b))]
  BY DEF E!proc_msg2
<1>7. contexts'[e] = [state |-> "msg2", a |-> c.a,
                      keys |-> E!EnclaveKeys(E!EnclaveSecret(c.a, msg2.g_b))]
  BY <1>1, <1>2, <1>3, <1>6 DEF IsContext
<1>8. \A name \in E!KeyNames :
        contexts'[e].keys[name] =
          SP!SPKey(name, SP!SPSecret(g_sp_db.b, g_sp_db.g_a))
  BY <1>5, <1>7, SameKeys DEF E!EnclaveKeys
<1>9. \A name \in E!KeyNames :
        g_sp_db[name] = SP!SPKey(name, SP!SPSecret(g_sp_db.b, g_sp_db.g_a))
  BY DEF FromDatabase, SP!Coherent, SP!KeyNames, E!KeyNames
<1>10. \A f \in EnclaveIds : f # e => contexts'[f] = contexts[f]
  BY <1>3, <1>6
<1>11. IsContext(contexts'[e]) /\ contexts'[e].state = "msg2"
  BY <1>7 DEF IsContext
<1>12. QED
  BY <1>8, <1>9, <1>10, <1>11

\* What msg2 is does not change while the database does not.
LEMMA FromDatabaseStays ==
  ASSUME FromDatabase(msg2), SP!SameBuild, UNCHANGED <<g_sp_db, msg2>>
  PROVE  FromDatabase(msg2)'
<1>1. \A name, s : SP!SPKey(name, s)' = SP!SPKey(name, s)
  BY DEF SP!SameBuild, SP!SPKey
<1>2. QED
  BY <1>1 DEF FromDatabase, SP!Coherent, SP!SPSecret

\* The session keys on both sides, through every step of main: msg2 at proc_msg2
\* is the one made of the current database, and msg1 is sent before any keys
\* exist.
LEMMA ExchangeStep ==
  ASSUME NullIsNoContext, CreateInv, EnclaveInv, ExchangeInv, [RANext]_rvars
  PROVE  ExchangeInv'
<1> USE DEF ExchangeInv, KeyAgreement, Agreed, BeforeMsg2, BeforeGet, Start,
   sp, encl, msgs, Fail, Continue, retries, rest
<1>1. CASE MakeMsg0
  BY <1>1 DEF MakeMsg0, Allocate
<1>2. CASE SendMsg0
  BY <1>2, Msg0Keeps DEF SendMsg0, sp
<1>3. CASE SelectKey
  BY <1>3 DEF SelectKey
<1>4. CASE CreateFails
  BY <1>4 DEF CreateFails, Called
<1>5. CASE CreateEnclave
  BY <1>5 DEF CreateEnclave, Called, E!Create
<1>6. CASE InitRA
  <2>1. /\ enclave_id \in EnclaveIds
        /\ contexts' = [contexts EXCEPT ![enclave_id] = FreshContext]
        /\ at = "init" /\ at' = "alloc1" /\ g_sp_db' = g_sp_db
    BY <1>6 DEF InitRA, E!enclave_init_ra, E!Alive, FreshContext, sp
  <2>2. \A e \in EnclaveIds :
          contexts'[e] = IF e = enclave_id THEN FreshContext ELSE contexts[e]
    BY <2>1 DEF EnclaveInv
  <2>3. FreshContext.state # "msg2"
    BY DEF FreshContext
  <2>4. \A e \in EnclaveIds : ~Agreed(e)'
    BY <2>1, <2>2, <2>3
  <2>5. QED
    BY <2>1, <2>4
<1>7. CASE InitFails
  BY <1>7 DEF InitFails
<1>8. CASE InitLost
  BY <1>8 DEF InitLost
<1>9. CASE MakeMsg1
  BY <1>9 DEF MakeMsg1, Allocate
<1>10. CASE GetMsg1
  <2>1. /\ at = "get1" /\ at' = "send1" /\ E!get_ga(enclave_id)
    BY <1>10 DEF GetMsg1
  <2>2. /\ enclave_id \in EnclaveIds
        /\ contexts' = [contexts EXCEPT ![enclave_id].state = "ga",
                                        ![enclave_id].a = nga + 1]
    BY <2>1 DEF E!get_ga, E!Open, E!Alive
  <2>3. IsContext(contexts[enclave_id])
    BY <2>1 DEF E!get_ga, E!Open, E!Alive, EnclaveInv
  <2>4. contexts'[enclave_id].state = "ga"
    BY <2>2, <2>3 DEF EnclaveInv, IsContext
  <2>5. \A e \in EnclaveIds : e # enclave_id => contexts'[e] = contexts[e]
    BY <2>2 DEF EnclaveInv
  <2>6. \A e \in EnclaveIds : ~Agreed(e)'
    BY <2>1, <2>4, <2>5
  <2>7. QED
    BY <2>1, <2>6
<1>11. CASE GetMsg1Busy
  BY <1>11 DEF GetMsg1Busy, RetryBusy, Called
<1>12. CASE GetMsg1Fails
  BY <1>12 DEF GetMsg1Fails, Called
<1>13. CASE SP!SameBuild /\ SendMsg1
  <2>1. at = "send1" /\ SP!ProcMsg1(msg1) /\ contexts' = contexts
    BY <1>13 DEF SendMsg1
  <2>2. \A e \in EnclaveIds : ~Agreed(e)'
    BY <2>1
  <2>3. /\ at' \in {"cleanup", "proc2"}
        /\ at' = "proc2" =>
             net_ret' = SUCCESS /\ p_resp' # NULL /\ msg2' = p_resp'
    BY <1>13 DEF SendMsg1
  <2>4. at' = "proc2" => FromDatabase(msg2)'
    BY <1>13, <2>1, <2>3, Msg1Answered DEF FromDatabase
  <2>5. QED
    BY <2>2, <2>3, <2>4
<1>14. CASE SP!SameBuild /\ ProcMsg2
  <2>1. /\ at = "proc2" /\ enclave_id' = enclave_id
        /\ at' = "getchar"
        /\ g_sp_db' = g_sp_db /\ msg2' = msg2
    BY <1>14 DEF ProcMsg2, sp, msgs
  <2>2. E!proc_msg2(enclave_id, msg2)
    BY <1>14 DEF ProcMsg2
  <2>3. enclave_id \in EnclaveIds
    BY <2>2 DEF E!proc_msg2, E!Open, E!Alive
  <2>4. /\ IsContext(contexts'[enclave_id])
        /\ contexts'[enclave_id].state = "msg2"
        /\ \A name \in E!KeyNames :
             contexts'[enclave_id].keys[name] = g_sp_db[name]
        /\ \A f \in EnclaveIds :
             f # enclave_id => contexts'[f] = contexts[f]
    BY <2>1, <2>2, AcceptedKeys
  <2>5. FromDatabase(msg2)'
    BY <1>14, <2>1, FromDatabaseStays
  <2>6. contexts'[enclave_id] # NULL
    BY <2>4 DEF NullIsNoContext
  <2>7. QED
    BY <2>1, <2>3, <2>4, <2>5, <2>6
<1>15. CASE SP!SameBuild /\ ProcMsg2Busy
  <2>1. CASE E!proc_msg2(enclave_id, msg2)
    <3>1. /\ at = "proc2" /\ enclave_id' = enclave_id
          /\ at' \in {"proc2", "cleanup"}
          /\ g_sp_db' = g_sp_db /\ msg2' = msg2
      BY <1>15 DEF ProcMsg2Busy, RetryBusy, sp, msgs
    <3>2. E!proc_msg2(enclave_id, msg2)
      BY <2>1
    <3>3. enclave_id \in EnclaveIds
      BY <3>2 DEF E!proc_msg2, E!Open, E!Alive
    <3>4. /\ IsContext(contexts'[enclave_id])
          /\ contexts'[enclave_id].state = "msg2"
          /\ \A name \in E!KeyNames :
               contexts'[enclave_id].keys[name] = g_sp_db[name]
          /\ \A f \in EnclaveIds :
               f # enclave_id => contexts'[f] = contexts[f]
      BY <3>1, <3>2, AcceptedKeys
    <3>5. FromDatabase(msg2)'
      BY <1>15, <3>1, FromDatabaseStays
    <3>6. contexts'[enclave_id] # NULL
      BY <3>4 DEF NullIsNoContext
    <3>7. QED
      BY <3>1, <3>3, <3>4, <3>5, <3>6
  <2>2. CASE UNCHANGED encl
    <3>1. /\ at = "proc2" /\ enclave_id' = enclave_id
          /\ at' \in {"proc2", "cleanup"}
          /\ g_sp_db' = g_sp_db /\ msg2' = msg2
      BY <1>15 DEF ProcMsg2Busy, RetryBusy, sp, msgs
    <3>2. FromDatabase(msg2)'
      BY <1>15, <3>1, FromDatabaseStays
    <3>3. QED
      BY <2>2, <3>1, <3>2
  <2>3. QED
    BY <1>15, <2>1, <2>2 DEF ProcMsg2Busy
<1>16. CASE ProcMsg2Fails
  <2>1. at = "proc2" /\ at' = "cleanup" /\ g_sp_db' = g_sp_db
    BY <1>16 DEF ProcMsg2Fails, sp
  <2>2. CASE E!proc_msg2(enclave_id, msg2)
    BY <2>1, <2>2, AcceptedKeys
  <2>3. CASE UNCHANGED encl
    BY <2>1, <2>3
  <2>4. QED
    BY <1>16, <2>2, <2>3 DEF ProcMsg2Fails
<1>17. CASE GetChar
  BY <1>17 DEF GetChar
<1>18. CASE SkipClose
  BY <1>18 DEF SkipClose
<1>19. CASE CloseContext
  BY <1>19 DEF CloseContext, E!enclave_ra_close, E!Open, E!Alive, EnclaveInv
<1>20. CASE CloseFails
  BY <1>20 DEF CloseFails, Called
<1>21. CASE DestroyEnclave
  BY <1>21 DEF DestroyEnclave, E!Destroy
<1>22. CASE FreeAll
  BY <1>22 DEF FreeAll
<1>23. CASE SP!SameBuild /\ PowerTransition
  <2>1. /\ at' = at /\ g_sp_db' = g_sp_db /\ msg2' = msg2
        /\ enclave_id' = enclave_id
        /\ contexts' = [e \in EnclaveIds |-> NULL]
        /\ enclaves' = [e \in EnclaveIds |->
                          IF E!Alive(e) THEN "lost" ELSE enclaves[e]]
    BY <1>23 DEF PowerTransition, E!LoseAll, sp, msgs
  <2>2. at = "proc2" => FromDatabase(msg2)'
    BY <1>23, <2>1, FromDatabaseStays
  <2>3. at = "getchar" => enclaves'[enclave_id] = "lost"
    BY <2>1, EnclaveIdsAssumption DEF E!Alive, CreateInv, EnclaveInv
  <2>4. QED
    BY <2>1, <2>2, <2>3
<1>24. CASE UNCHANGED rvars
  <2>1. at = "proc2" => FromDatabase(msg2)'
    BY <1>24, FromDatabaseStays DEF rvars, SP!SameBuild
  <2>2. QED
    BY <1>24, <2>1 DEF rvars
<1>25. QED
  BY <1>1, <1>2, <1>3, <1>4, <1>5, <1>6, <1>7, <1>8, <1>9, <1>10, <1>11,
     <1>12, <1>13, <1>14, <1>15, <1>16, <1>17, <1>18, <1>19, <1>20, <1>21,
     <1>22, <1>23, <1>24 DEF RANext, MainStep, OtherStep, Exited

-----------------------------------------------------------------------------
(* The theorems. *)
MainInv == CallsInv /\ CreateInv /\ BusyInv /\ RetInv /\ HeapInv /\ EnclaveInv

\* main starts in the invariant.
LEMMA InitMain == RAInit => MainInv /\ ExchangeInv
<1> SUFFICES ASSUME RAInit PROVE MainInv /\ ExchangeInv
  OBVIOUS
<1> USE DEF RAInit, E!EnclaveInit
<1>1. CallsInv /\ CreateInv /\ BusyInv
  BY DEF CallsInv, CreateInv, BusyInv, BeforeMsg2, BeforeGet, Start
<1>2. RetInv
  BY LossesAssumption DEF RetInv, Places, BeforeMsg2, BeforeGet, Start
<1>3. HeapInv
  BY DEF HeapInv
<1>4. EnclaveInv
  BY DEF EnclaveInv
<1>5. ExchangeInv
  BY DEF ExchangeInv, KeyAgreement, Agreed
<1>6. QED
  BY <1>1, <1>2, <1>3, <1>4, <1>5 DEF MainInv

\* Where main is determines its budgets, its result and its enclave.
THEOREM MainInvariance == RASpec => []MainInv
<1>1. RAInit => MainInv
  BY InitMain
<1>2. MainInv /\ [RANext]_rvars => MainInv'
  BY CallsStep, CreateStep, BusyStep, RetStep, HeapStep, EnclaveStep DEF
     MainInv
<1>3. QED
  BY <1>1, <1>2, PTL DEF RASpec

\* main's locals stay in their ranges through every failure, retry and loss.
THEOREM MainTypes == RASpec => []RATypeOK
<1>1. MainInv => RATypeOK
  BY DEF MainInv, RATypeOK, CreateInv, BusyInv, RetInv, HeapInv, Places,
     BeforeMsg2,
         BeforeGet, Start, Buffers
<1>2. QED
  BY <1>1, MainInvariance, PTL

\* The do-while loops of main with their post-decremented budgets make at most
\* two, five and three calls, also when the enclave is lost in between, and a
\* failed close is not tried again.
THEOREM RetriesBounded == RASpec => []RetryBounds
<1>1. MainInv => RetryBounds
  BY DEF MainInv, RetryBounds, CreateInv, BusyInv
<1>2. QED
  BY <1>1, MainInvariance, PTL

\* Every way through CLEANUP frees all buffers and leaves no enclave running.
THEOREM CleansUp == RASpec => []CleanupInv
<1>1. MainInv => CleanupInv
  BY DEF MainInv, CleanupInv, HeapInv, EnclaveInv
<1>2. QED
  BY <1>1, MainInvariance, PTL

\* sgx_destroy_enclave is reached only through enclave_ra_close, or with no
\* context to close: a key exchange is destroyed open only if closing it failed.
THEOREM ClosedFirst == RASpec => CloseBeforeDestroy
<1>1. ASSUME MainInv, [RANext]_rvars, NEW e \in EnclaveIds,
             enclaves[e] = "alive", enclaves'[e] = "destroyed", E!Open(e)
      PROVE  calls.close = 1 /\ ret = -1
  <2> USE <1>1 DEF encl
  <2>1. CASE MakeMsg0
    BY <2>1 DEF MakeMsg0
  <2>2. CASE SendMsg0
    BY <2>2 DEF SendMsg0
  <2>3. CASE SelectKey
    BY <2>3 DEF SelectKey
  <2>4. CASE CreateFails
    BY <2>4 DEF CreateFails
  <2>5. CASE CreateEnclave
    BY <2>5 DEF CreateEnclave, E!Create, MainInv, EnclaveInv
  <2>6. CASE InitRA
    BY <2>6 DEF InitRA, E!enclave_init_ra
  <2>7. CASE InitFails
    BY <2>7 DEF InitFails
  <2>8. CASE InitLost
    BY <2>8 DEF InitLost
  <2>9. CASE MakeMsg1
    BY <2>9 DEF MakeMsg1
  <2>10. CASE GetMsg1
    BY <2>10 DEF GetMsg1, E!get_ga
  <2>11. CASE GetMsg1Busy
    BY <2>11 DEF GetMsg1Busy
  <2>12. CASE GetMsg1Fails
    BY <2>12 DEF GetMsg1Fails
  <2>13. CASE SendMsg1
    BY <2>13 DEF SendMsg1
  <2>14. CASE ProcMsg2
    BY <2>14 DEF ProcMsg2, E!proc_msg2
  <2>15. CASE ProcMsg2Busy
    BY <2>15 DEF ProcMsg2Busy, E!proc_msg2
  <2>16. CASE ProcMsg2Fails
    BY <2>16 DEF ProcMsg2Fails, E!proc_msg2
  <2>17. CASE GetChar
    BY <2>17 DEF GetChar
  <2>18. CASE SkipClose
    BY <2>18 DEF SkipClose
  <2>19. CASE CloseContext
    BY <2>19 DEF CloseContext, E!enclave_ra_close
  <2>20. CASE CloseFails
    BY <2>20 DEF CloseFails
  <2>21. CASE DestroyEnclave
    BY <2>21 DEF DestroyEnclave, E!Open, MainInv, EnclaveInv
  <2>22. CASE FreeAll
    BY <2>22 DEF FreeAll
  <2>23. CASE PowerTransition
    BY <2>23 DEF PowerTransition, E!LoseAll
  <2>24. CASE UNCHANGED rvars
    BY <2>24 DEF rvars
  <2>25. QED
    BY <2>1, <2>2, <2>3, <2>4, <2>5, <2>6, <2>7, <2>8, <2>9, <2>10, <2>11,
       <2>12, <2>13, <2>14, <2>15, <2>16, <2>17, <2>18, <2>19, <2>20, <2>21,
       <2>22, <2>23, <2>24 DEF RANext, MainStep, OtherStep, Exited
<1>2. MainInv /\ [RANext]_rvars =>
        [\A e \in EnclaveIds :
           enclaves[e] = "alive" /\ enclaves'[e] = "destroyed" /\ E!Open(e) =>
             calls.close = 1 /\ ret = -1]_rvars
  BY <1>1
<1>3. QED
  BY <1>2, MainInvariance, PTL DEF RASpec, CloseBeforeDestroy

\* Key agreement through every failure, BUSY retry and loss: whenever an enclave
\* holds session keys they are those of the provider's g_sp_db, and main reaches
\* its getchar() only with an enclave that holds them or is gone.
THEOREM KeysAgree == NullIsNoContext => (RASpec => []KeyAgreement)
<1> SUFFICES ASSUME NullIsNoContext PROVE RASpec => []KeyAgreement
  OBVIOUS
<1>1. RAInit => ExchangeInv
  BY InitMain
<1>2. MainInv /\ ExchangeInv /\ [RANext]_rvars => ExchangeInv'
  BY ExchangeStep DEF MainInv
<1>3. ExchangeInv => KeyAgreement
  BY DEF ExchangeInv
<1>4. QED
  BY <1>1, <1>2, <1>3, MainInvariance, PTL DEF RASpec
-----------------------------------------------------------------------------
(* The provider main talks to is the one of ServiceProvider. *)

\* main asks for one key pair and sends its public key in its one msg1.
RequestInv ==
  /\ at \in BeforeGet \cup {"get1"} => nga = 0
  /\ at = "send1" => msg1 = 1

LEMMA RequestStart == RAInit => RequestInv
  BY DEF RAInit, E!EnclaveInit, RequestInv, BeforeGet, Start

LEMMA RequestStep ==
  ASSUME EnclaveInv, RequestInv, CreateInv, [RANext]_rvars
  PROVE  RequestInv'
<1> USE DEF RequestInv, BeforeGet, Start, Fail, Continue, encl, msgs
<1>1. CASE GetMsg1
  <2>1. contexts[enclave_id] # NULL /\ enclave_id \in EnclaveIds
    BY <1>1 DEF GetMsg1, E!get_ga, E!Open, E!Alive
  <2>2. IsContext(contexts[enclave_id])
    BY <2>1 DEF EnclaveInv
  <2>3. contexts'[enclave_id].a = 1
    <3>1. /\ DOMAIN contexts = EnclaveIds
          /\ DOMAIN contexts[enclave_id] = {"state", "a", "keys"}
      BY <2>2 DEF EnclaveInv, IsContext
    <3>2. /\ nga = 0
          /\ contexts' = [contexts EXCEPT ![enclave_id].state = "ga",
                                         ![enclave_id].a = nga + 1]
      BY <1>1 DEF GetMsg1, E!get_ga
    <3>3. contexts'[enclave_id].a = nga + 1
      BY <2>1, <3>1, <3>2
    <3>4. QED
      BY <3>2, <3>3
  <2>4. QED
    BY <1>1, <2>3 DEF GetMsg1
<1>2. CASE CreateEnclave \/ InitRA \/ MakeMsg0 \/ SendMsg0 \/ SelectKey \/ MakeMsg1
  BY <1>2 DEF CreateEnclave, InitRA, E!Create, E!enclave_init_ra, MakeMsg0,
              SendMsg0, SelectKey, MakeMsg1, Allocate
<1>3. CASE CreateFails \/ InitFails \/ InitLost \/ GetMsg1Busy \/ GetMsg1Fails
  BY <1>3 DEF CreateFails, InitFails, InitLost, GetMsg1Busy, GetMsg1Fails,
              RetryBusy
<1>4. CASE SendMsg1 \/ ProcMsg2 \/ ProcMsg2Fails
  BY <1>4 DEF SendMsg1, ProcMsg2, ProcMsg2Fails
<1>5. CASE ProcMsg2Busy
  BY <1>5 DEF ProcMsg2Busy, RetryBusy
<1>6. CASE \/ SkipClose \/ CloseContext \/ CloseFails \/ DestroyEnclave \/ FreeAll
           \/ GetChar
  BY <1>6 DEF SkipClose, CloseContext, CloseFails, DestroyEnclave, FreeAll,
              GetChar
<1>7. CASE PowerTransition \/ UNCHANGED rvars
  BY <1>7 DEF PowerTransition, E!LoseAll, rvars
<1>8. QED
  BY <1>1, <1>2, <1>3, <1>4, <1>5, <1>6, <1>7
     DEF RANext, MainStep, OtherStep, Exited

LEMMA ProviderSees ==
  ASSUME RequestInv, [RANext]_rvars
  PROVE  [SP!SPNext]_(SP!spvars)
<1>1. CASE UNCHANGED rvars
  BY <1>1 DEF rvars, sp, SP!spvars
<1>2. CASE SP!SameBuild /\ SendMsg0
  BY <1>2, RequestsAssumption DEF SendMsg0, SP!SPNext
<1>3. CASE SP!SameBuild /\ SendMsg1
  BY <1>3, RequestsAssumption DEF SendMsg1, RequestInv, SP!SPNext
<1>4. CASE SP!SameBuild /\ UNCHANGED sp
  BY <1>4 DEF sp, SP!spvars, SP!SameBuild
<1>5. QED
  BY <1>1, <1>2, <1>3, <1>4 DEF RANext, MainStep, OtherStep, Exited,
     MakeMsg0, SelectKey, CreateFails, CreateEnclave, InitRA, InitFails,
     InitLost, MakeMsg1, GetMsg1, GetMsg1Busy, GetMsg1Fails, ProcMsg2,
     ProcMsg2Busy, ProcMsg2Fails, SkipClose, CloseContext, CloseFails,
     DestroyEnclave, FreeAll, GetChar, PowerTransition

\* main makes of the provider only what any client may: the provider's part of
\* every behaviour of the sample is one of ServiceProvider.
THEOREM ProviderImplemented == RASpec => SP!SPSpec
<1>1. RAInit => SP!SPInit
  BY DEF RAInit
<1>2. MainInv /\ RequestInv /\ [RANext]_rvars => RequestInv'
  BY RequestStep DEF MainInv
<1>3. RequestInv /\ [RANext]_rvars => [SP!SPNext]_(SP!spvars)
  BY ProviderSees
<1>4. QED
  BY <1>1, <1>2, <1>3, RequestStart, MainInvariance, PTL DEF RASpec, SP!SPSpec
=============================================================================
