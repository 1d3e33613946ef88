------------------------ MODULE SecretProvisioningProofs ------------------------
(***************************************************************************)
(* Proofs about SecretProvisioning: for any set of enclaves, any number of *)
(* contexts open in each, of sessions, requests and power transitions, and *)
(* a host that replays, reorders, garbles and misdelivers what it holds.   *)
(*                                                                         *)
(* What an ECALL accepts is decided by the keys of its context, so the     *)
(* invariant is about those: they were derived from this context's key     *)
(* pair and from a key pair the provider really generated (ContextInv),    *)
(* because every msg2 the host can deliver carries one (HeldInv).          *)
(***************************************************************************)
EXTENDS SecretProvisioning, TLAPS

\* Both sides derive their keys in the same way.
LEMMA SameKeys ==
  ASSUME NEW name, NEW s
  PROVE  E!EnclaveKey(name, s) = SP!SPKey(name, s)
  BY DEF E!EnclaveKey, SP!SPKey, E!HashHalf, SP!HashHalf, E!CmacLabel,
         SP!CmacLabel

\* Every context is one of an enclave.
LEMMA HomeIsEnclave == \A c \in ContextIds : Home[c] \in EnclaveIds
  BY DEF ContextIds, Home

\* The shape of a key exchange context, and of the tables of the enclaves.
ShapeInv ==
  /\ nkeys \in Nat
  /\ DOMAIN enclaves = EnclaveIds
  /\ DOMAIN contexts = ContextIds
  /\ DOMAIN g_secret = EnclaveIds
  /\ \A c \in ContextIds :
       contexts[c] # NULL => DOMAIN contexts[c] = {"state", "a", "keys"}

\* The host holds messages of three kinds; each msg2 came from the provider.
HeldInv ==
  \A m \in held : m.type = "MSG2" => m.g_b \in 1 .. nkeys

\* An open context that accepted a msg2 holds the keys of its own key pair and
\* of one of the provider's.
ContextInv ==
  \A c \in ContextIds :
    contexts[c] # NULL /\ contexts[c].state = "msg2" =>
      \E s \in Exchanges(c) : contexts[c].keys = E!EnclaveKeys(s)

PInv ==
  /\ ShapeInv /\ HeldInv /\ ContextInv
  /\ ResultAuthentic /\ SecretAuthentic
-----------------------------------------------------------------------------
(* The provider's side. *)

\* What any request does to the count of its key pairs, and what it answers.
LEMMA ProviderStep ==
  ASSUME nkeys \in Nat, NEW g_a, SP!ProcMsg1(g_a)
  PROVE  /\ nkeys' \in Nat /\ nkeys <= nkeys'
         /\ p_resp' # NULL =>
              p_resp'.type = "MSG2" /\ p_resp'.g_b \in 1 .. nkeys'
<1>1. CASE SP!Msg1Unregistered
  BY <1>1 DEF SP!Msg1Unregistered, SP!Answer, SP!SP_OK,
              SP!SP_UNSUPPORTED_EXTENDED_EPID_GROUP
<1>2. CASE SP!Msg1(g_a)
  <2>1. PICK failing \in SP!Calls, scribbled \in BOOLEAN :
           /\ g_sp_db' = SP!DbAfter(g_a, failing, scribbled)
           /\ nkeys' = IF failing > SP!KeyPair THEN nkeys + 1 ELSE nkeys
           /\ SP!Answer(SP!Msg1Status(failing), SP!Msg2(g_sp_db'))
    BY <1>2 DEF SP!Msg1
  <2>2. nkeys' \in Nat /\ nkeys <= nkeys'
    BY <2>1
  <2>3. ASSUME p_resp' # NULL
        PROVE  p_resp'.type = "MSG2" /\ p_resp'.g_b \in 1 .. nkeys'
    <3>1. SP!Msg1Status(failing) = 0 /\ p_resp' = SP!Msg2(g_sp_db')
      BY <2>1, <2>3 DEF SP!Answer, SP!SP_OK
    <3>2. failing = 12
      BY <3>1 DEF SP!Msg1Status, SP!SP_OK, SP!SP_IAS_FAILED, SP!Done,
                  SP!SP_INTERNAL_ERROR, SP!BAD_REQUEST
    <3>3. g_sp_db'.g_b = nkeys + 1 /\ nkeys' = nkeys + 1
      BY <2>1, <3>2 DEF SP!DbAfter, SP!KeyPair
    <3>4. p_resp'.type = "MSG2" /\ p_resp'.g_b = nkeys + 1
      BY <3>1, <3>3 DEF SP!Msg2
    <3>5. QED
      BY <3>3, <3>4
  <2>4. QED
    BY <2>2, <2>3
<1>3. QED
  BY <1>1, <1>2 DEF SP!ProcMsg1

\* More key pairs of the provider never take an exchange away.
LEMMA ExchangesGrow ==
  ASSUME nkeys \in Nat, nkeys' \in Nat, nkeys <= nkeys',
         NEW c, contexts'[c].a = contexts[c].a
  PROVE  Exchanges(c) \subseteq Exchanges(c)'
  BY DEF Exchanges

\* The build never changes, so the keys of an exchange do not either.
LEMMA EnclaveKeysKept ==
  ASSUME SP!SameBuild, NEW s
  PROVE  E!EnclaveKeys(s)' = E!EnclaveKeys(s)
  BY DEF SP!SameBuild, E!EnclaveKeys, E!EnclaveKey
-----------------------------------------------------------------------------
LEMMA PInitInv == PInit => PInv
<1> SUFFICES ASSUME PInit PROVE PInv
  OBVIOUS
<1>1. ShapeInv /\ ContextInv
  BY DEF PInit, SP!SPInit, E!EnclaveInit, ShapeInv, ContextInv
<1>2. HeldInv
  BY DEF PInit, HeldInv, Garbled
<1>3. ResultAuthentic /\ SecretAuthentic
  BY DEF PInit, ResultAuthentic, SecretAuthentic
<1>4. QED
  BY <1>1, <1>2, <1>3 DEF PInv

\* A step that leaves the contexts alone keeps what is known of them.
LEMMA ContextsUntouched ==
  ASSUME PInv, SP!SameBuild, nkeys' \in Nat, nkeys <= nkeys',
         NEW c \in ContextIds, contexts'[c] = contexts[c],
         contexts[c] # NULL, contexts[c].state = "msg2"
  PROVE  \E s \in Exchanges(c)' : contexts'[c].keys = E!EnclaveKeys(s)'
<1>1. PICK s \in Exchanges(c) : contexts[c].keys = E!EnclaveKeys(s)
  BY DEF PInv, ContextInv
<1>2. s \in Exchanges(c)'
  BY ExchangesGrow DEF PInv, ShapeInv
<1>3. QED
  BY <1>1, <1>2, EnclaveKeysKept

\* Nothing accepts a result but the two ECALLs.
LEMMA NoReply == reply' = NULL => ResultAuthentic' /\ SecretAuthentic'
  BY DEF ResultAuthentic, SecretAuthentic
-----------------------------------------------------------------------------
(* The host's steps. *)

\* What the invariant's first half says: the part about state, not the reply.
StateInv == ShapeInv /\ HeldInv /\ ContextInv

\* Enclaves created, and contexts opened, closed or given a key pair, never
\* leave a context with keys that are not its own.
LEMMA ContextSteps ==
  ASSUME PInv, SP!SameBuild,
         \/ \E e \in EnclaveIds : CreateEnclave(e)
         \/ \E c \in ContextIds : InitRA(c) \/ CloseRA(c) \/ GetGa(c)
  PROVE  StateInv'
<1> USE DEF PInv, E!encvars
<1>1. UNCHANGED <<held, nkeys>>
  BY DEF CreateEnclave, InitRA, CloseRA, GetGa, sp
<1>2. HeldInv'
  BY <1>1 DEF HeldInv
<1>3. DOMAIN enclaves' = EnclaveIds /\ DOMAIN contexts' = ContextIds
      /\ DOMAIN g_secret' = EnclaveIds
  BY DEF ShapeInv, CreateEnclave, InitRA, CloseRA, GetGa, E!Create,
         E!enclave_init_ra, E!enclave_ra_close, E!get_ga
<1>4. ASSUME NEW d \in ContextIds, contexts'[d] # NULL
      PROVE  /\ DOMAIN contexts'[d] = {"state", "a", "keys"}
             /\ contexts'[d].state = "msg2" => contexts'[d] = contexts[d]
  <2>1. CASE \E e \in EnclaveIds : CreateEnclave(e)
    BY <1>4, <2>1 DEF CreateEnclave, E!Create, ShapeInv
  <2>2. CASE \E c \in ContextIds : InitRA(c)
    BY <1>4, <2>2 DEF InitRA, E!enclave_init_ra, ShapeInv
  <2>3. CASE \E c \in ContextIds : CloseRA(c)
    BY <1>4, <2>3 DEF CloseRA, E!enclave_ra_close, ShapeInv
  <2>4. CASE \E c \in ContextIds : GetGa(c)
    BY <1>4, <2>4 DEF GetGa, E!get_ga, E!Open, ShapeInv
  <2>5. QED
    BY <2>1, <2>2, <2>3, <2>4
<1>5. ShapeInv'
  BY <1>1, <1>3, <1>4 DEF ShapeInv
<1>6. ContextInv'
  <2> SUFFICES ASSUME NEW d \in ContextIds,
                      contexts'[d] # NULL, contexts'[d].state = "msg2"
               PROVE  \E s \in Exchanges(d)' : contexts'[d].keys = E!EnclaveKeys(s)'
    BY DEF ContextInv
  <2>1. contexts'[d] = contexts[d]
    BY <1>4
  <2>2. QED
    BY <1>1, <2>1, ContextsUntouched DEF ShapeInv
<1>7. QED
  BY <1>2, <1>5, <1>6 DEF StateInv

\* A step that does not touch the enclaves: requests to the provider, results
\* it issues, and the ECALLs that only read.
LEMMA EnclavesUntouched ==
  ASSUME PInv, SP!SameBuild, UNCHANGED <<enclaves, contexts>>,
         DOMAIN g_secret' = EnclaveIds, nkeys' \in Nat, nkeys <= nkeys',
         \A m \in held' \ held : m.type = "MSG2" => m.g_b \in 1 .. nkeys'
  PROVE  StateInv'
<1> USE DEF PInv
<1>1. ShapeInv'
  BY DEF ShapeInv
<1>2. HeldInv'
  <2> SUFFICES ASSUME NEW m \in held', m.type = "MSG2"
               PROVE  m.g_b \in 1 .. nkeys'
    BY DEF HeldInv
  <2>1. CASE m \in held
    BY <2>1 DEF HeldInv, ShapeInv
  <2>2. QED
    BY <2>1
<1>3. ContextInv'
  BY ContextsUntouched DEF ContextInv
<1>4. QED
  BY <1>1, <1>2, <1>3 DEF StateInv

\* Requests to the provider and the results it issues.
LEMMA ProviderSteps ==
  ASSUME PInv, SP!SameBuild,
         \/ SendMsg0 \/ SendMsg1
         \/ \E msg3 \in Held("MSG3") : IssueResult(msg3)
  PROVE  StateInv'
<1> USE DEF PInv, ShapeInv
<1>1. CASE SendMsg0
  <2>1. UNCHANGED <<nkeys, held, encl>>
    BY <1>1 DEF SendMsg0, SP!ProcMsg0, SP!Msg0Keep, SP!Msg0Enroll,
                SP!Msg0EnrollFails
  <2>2. QED
    BY <2>1, EnclavesUntouched DEF encl
<1>2. CASE SendMsg1
  <2>1. PICK g_a \in 1 .. nga : SP!ProcMsg1(g_a)
    BY <1>2 DEF SendMsg1
  <2>2. /\ nkeys' \in Nat /\ nkeys <= nkeys'
        /\ p_resp' # NULL => p_resp'.type = "MSG2" /\ p_resp'.g_b \in 1 .. nkeys'
    BY <2>1, ProviderStep
  <2>3. UNCHANGED encl /\ held' = held \cup ({p_resp'} \ {NULL})
    BY <1>2 DEF SendMsg1
  <2>4. QED
    BY <2>2, <2>3, EnclavesUntouched DEF encl
<1>3. ASSUME NEW msg3 \in Held("MSG3"), IssueResult(msg3)
      PROVE  StateInv'
  <2>1. UNCHANGED <<nkeys, encl>>
    BY <1>3 DEF IssueResult, sp
  <2>2. \A m \in held' \ held : m.type = "RESULT"
    BY <1>3 DEF IssueResult
  <2>3. QED
    BY <2>1, <2>2, EnclavesUntouched DEF encl
<1>4. QED
  BY <1>1, <1>2, <1>3

\* A context that accepts a msg2 gets the keys of its own exchange: the MAC
\* and the signature are not needed for that, the provider's g_b is.
LEMMA Msg2Step ==
  ASSUME PInv, SP!SameBuild, NEW c \in ContextIds,
         NEW msg2 \in Held("MSG2"), ProcMsg2(c, msg2)
  PROVE  StateInv'
<1> USE DEF PInv
<1>1. UNCHANGED <<nkeys, enclaves, g_secret>>
  BY DEF ProcMsg2, E!proc_msg2, sp
<1>2. contexts[c] # NULL
  BY DEF ProcMsg2, E!proc_msg2, E!Open
<1>3. contexts' = [contexts EXCEPT
                     ![c].state = "msg2",
                     ![c].keys = E!EnclaveKeys([a |-> contexts[c].a,
                                                b |-> msg2.g_b])]
  BY DEF ProcMsg2, E!proc_msg2, E!EnclaveSecret
<1>4. /\ contexts'[c].a = contexts[c].a
      /\ contexts'[c].keys = E!EnclaveKeys([a |-> contexts[c].a, b |-> msg2.g_b])
      /\ DOMAIN contexts'[c] = {"state", "a", "keys"}
      /\ \A d \in ContextIds \ {c} : contexts'[d] = contexts[d]
      /\ DOMAIN contexts' = ContextIds
  BY <1>2, <1>3 DEF ShapeInv
<1>5. ShapeInv'
  BY <1>1, <1>4 DEF ShapeInv
<1>6. HeldInv'
  <2>1. \A m \in held' \ held : m.type = "MSG3"
    BY DEF ProcMsg2
  <2>2. QED
    BY <1>1, <2>1 DEF HeldInv
<1>7. ContextInv'
  <2> SUFFICES ASSUME NEW d \in ContextIds,
                      contexts'[d] # NULL, contexts'[d].state = "msg2"
               PROVE  \E s \in Exchanges(d)' : contexts'[d].keys = E!EnclaveKeys(s)'
    BY DEF ContextInv
  <2>1. CASE d = c
    <3> DEFINE s == [a |-> contexts[c].a, b |-> msg2.g_b]
    <3>1. msg2.g_b \in 1 .. nkeys
      BY DEF Held, HeldInv
    <3>2. s \in Exchanges(c)'
      BY <1>1, <1>4, <3>1 DEF Exchanges
    <3>3. PICK t : t = s
      OBVIOUS
    <3>4. contexts'[c].keys = E!EnclaveKeys(t)'
      BY <1>4, <3>3, EnclaveKeysKept
    <3>5. QED
      BY <2>1, <3>2, <3>3, <3>4
  <2>2. CASE d # c
    BY <1>1, <1>4, <2>2, ContextsUntouched DEF ShapeInv
  <2>3. QED
    BY <2>1, <2>2
<1>8. QED
  BY <1>5, <1>6, <1>7 DEF StateInv

\* A power transition leaves no context behind.
LEMMA PowerStep ==
  ASSUME PInv, SP!SameBuild, PowerTransition
  PROVE  StateInv'
BY DEF PInv, StateInv, ShapeInv, HeldInv, ContextInv, PowerTransition,
       E!LoseAll, sp
-----------------------------------------------------------------------------
(* The two ECALLs that take a result. *)

\* verify_att_result_mac answers SUCCESS only for the mk of the open context.
LEMMA VerifyStep ==
  ASSUME PInv, SP!SameBuild, NEW c \in ContextIds,
         NEW result \in Held("RESULT"), VerifyResult(c, result)
  PROVE  PInv'
<1> USE DEF PInv
<1>1. /\ UNCHANGED <<sp, encl, held>>
      /\ reply'.call = "verify" /\ reply'.c = c
      /\ E!Alive(Home[c])
      /\ reply'.accepted = Accepted(result, reply'.status)
      /\ \E ok \in BOOLEAN : reply'.status \in E!verify_att_result_mac(c, result, ok)
  BY DEF VerifyResult
<1>2. StateInv'
  BY <1>1, EnclavesUntouched DEF ShapeInv, sp, encl
<1>3. ASSUME reply'.status = "SUCCESS"
      PROVE  /\ E!HasKeys(c)'
             /\ \E s \in Exchanges(c)' : reply'.accepted.mac = SP!SPKey("mk", s)'
  <2>1. E!HasKeys(c) /\ result.mac = contexts[c].keys["mk"]
    BY <1>1, <1>3 DEF E!verify_att_result_mac
  <2>2. PICK s \in Exchanges(c) : contexts[c].keys = E!EnclaveKeys(s)
    BY <2>1 DEF ContextInv, E!HasKeys, E!Open
  <2>3. contexts[c].keys["mk"] = SP!SPKey("mk", s)
    BY <2>2, SameKeys DEF E!EnclaveKeys, E!KeyNames
  <2>4. reply'.accepted = result
    BY <1>1, <1>3 DEF Accepted
  <2>5. SP!SPKey("mk", s)' = SP!SPKey("mk", s)
    BY DEF SP!SameBuild, SP!SPKey
  <2>6. E!HasKeys(c)' /\ s \in Exchanges(c)'
    BY <1>1, <2>1, <2>2 DEF E!HasKeys, E!Open, E!Alive, Exchanges, sp, encl
  <2>7. QED
    BY <2>1, <2>3, <2>4, <2>5, <2>6
<1>4. ResultAuthentic' /\ SecretAuthentic'
  BY <1>1, <1>3 DEF ResultAuthentic, SecretAuthentic
<1>5. QED
  BY <1>2, <1>4 DEF StateInv

\* What put_secret_data does when it reports success, and to g_secret in any
\* case: the secret appears in it only with success.
LEMMA PutFacts ==
  ASSUME ShapeInv, NEW c \in ContextIds, NEW result, PutSecret(c, result)
  PROVE  /\ UNCHANGED <<sp, enclaves, contexts, nga, held>>
         /\ reply'.call = "put" /\ reply'.c = c
         /\ DOMAIN g_secret' = EnclaveIds
         /\ \A e \in EnclaveIds \ {Home[c]} : g_secret'[e] = g_secret[e]
         /\ reply'.status = "SUCCESS" =>
              /\ E!HasKeys(c)
              /\ reply'.accepted = result
              /\ result.payload.key = contexts[c].keys["sk"]
              /\ result.payload.plain = "secret"
              /\ g_secret'[Home[c]] = "secret"
         /\ g_secret'[Home[c]] = "secret" /\ g_secret[Home[c]] # "secret" =>
              reply'.status = "SUCCESS"
<1>0. Home[c] \in EnclaveIds
  BY HomeIsEnclave
<1>1. PICK ok \in BOOLEAN,
           gcm \in {NULL, "SUCCESS", "MAC_MISMATCH", "OUT_OF_MEMORY"},
           status \in {"SUCCESS", "INVALID_PARAMETER", "INVALID_STATE",
                       "MAC_MISMATCH", "OUT_OF_MEMORY", "UNEXPECTED"} :
        /\ E!put_secret_data(c, result, ok, gcm, status)
        /\ reply' = [call |-> "put", c |-> c, gcm |-> gcm, status |-> status,
                     accepted |-> Accepted(result, status)]
        /\ UNCHANGED <<sp, held, losses>>
  BY DEF PutSecret
<1>2. /\ reply'.call = "put" /\ reply'.c = c /\ reply'.status = status
      /\ reply'.accepted = Accepted(result, status)
  BY <1>1
<1>3. CASE status \in {"INVALID_PARAMETER", "INVALID_STATE"} /\ UNCHANGED E!encvars
  BY <1>1, <1>2, <1>3 DEF E!encvars, ShapeInv
<1>4. CASE /\ E!HasKeys(c)
           /\ E!GcmDecrypt(c, result.payload, gcm)
           /\ status = E!SecretMatch(g_secret'[Home[c]], gcm)
           /\ UNCHANGED <<enclaves, contexts, nga>>
  <2>1. /\ DOMAIN g_secret' = EnclaveIds
        /\ \A e \in EnclaveIds \ {Home[c]} : g_secret'[e] = g_secret[e]
    BY <1>0, <1>4 DEF E!GcmDecrypt, ShapeInv
  <2>2. g_secret'[Home[c]] = "secret" => status = gcm
    BY <1>4 DEF E!SecretMatch
  <2>3. status = "SUCCESS" => g_secret'[Home[c]] = "secret" /\ gcm = "SUCCESS"
    BY <1>4 DEF E!SecretMatch
  <2>4. gcm = "SUCCESS" => /\ result.payload.key = contexts[c].keys["sk"]
                           /\ g_secret'[Home[c]] = result.payload.plain
    BY <1>0, <1>4 DEF E!GcmDecrypt, ShapeInv
  <2>5. gcm # "SUCCESS" => g_secret'[Home[c]] \in {g_secret[Home[c]], "zero"}
    BY <1>0, <1>4 DEF E!GcmDecrypt, ShapeInv
  <2>6. QED
    BY <1>1, <1>2, <1>4, <2>1, <2>2, <2>3, <2>4, <2>5 DEF Accepted
<1>5. QED
  BY <1>1, <1>3, <1>4 DEF E!put_secret_data

\* put_secret_data answers SUCCESS only for a payload under the sk of the open
\* context, and with the secret it delivered in place.
LEMMA PutStep ==
  ASSUME PInv, SP!SameBuild, NEW c \in ContextIds,
         NEW result \in Held("RESULT"), PutSecret(c, result)
  PROVE  PInv'
<1> USE DEF PInv
<1>1. /\ UNCHANGED <<sp, enclaves, contexts, nga, held>>
      /\ reply'.call = "put" /\ reply'.c = c
      /\ DOMAIN g_secret' = EnclaveIds
      /\ reply'.status = "SUCCESS" =>
           /\ E!HasKeys(c)
           /\ reply'.accepted = result
           /\ result.payload.key = contexts[c].keys["sk"]
           /\ g_secret'[Home[c]] = "secret"
  BY PutFacts
<1>2. StateInv'
  BY <1>1, EnclavesUntouched DEF ShapeInv, sp
<1>3. ASSUME reply'.status = "SUCCESS"
      PROVE  /\ E!HasKeys(c)'
             /\ \E s \in Exchanges(c)' :
                  reply'.accepted.payload.key = SP!SPKey("sk", s)'
             /\ g_secret'[Home[c]] = "secret"
  <2>1. PICK s \in Exchanges(c) : contexts[c].keys = E!EnclaveKeys(s)
    BY <1>1, <1>3 DEF ContextInv, E!HasKeys, E!Open
  <2>2. contexts[c].keys["sk"] = SP!SPKey("sk", s)
    BY <2>1, SameKeys DEF E!EnclaveKeys, E!KeyNames
  <2>3. SP!SPKey("sk", s)' = SP!SPKey("sk", s)
    BY DEF SP!SameBuild, SP!SPKey
  <2>4. E!HasKeys(c)' /\ s \in Exchanges(c)'
    BY <1>1, <1>3, <2>1 DEF E!HasKeys, E!Open, E!Alive, Exchanges, sp
  <2>5. QED
    BY <1>1, <1>3, <2>2, <2>3, <2>4
<1>4. ResultAuthentic' /\ SecretAuthentic'
  BY <1>1, <1>3 DEF ResultAuthentic, SecretAuthentic
<1>5. QED
  BY <1>2, <1>4 DEF StateInv
-----------------------------------------------------------------------------
\* A stuttering step keeps everything.
LEMMA PStutter == PInv /\ UNCHANGED pvars => PInv'
<1> SUFFICES ASSUME PInv, UNCHANGED pvars PROVE PInv'
  OBVIOUS
<1> USE DEF PInv, pvars, sp, encl
<1>1. SP!SameBuild
  BY DEF SP!SameBuild
<1>2. StateInv'
  BY <1>1, EnclavesUntouched DEF ShapeInv
<1>3. \A name, s : SP!SPKey(name, s)' = SP!SPKey(name, s)
  BY DEF SP!SPKey
<1>4. \A c : (Exchanges(c)' = Exchanges(c)) /\ (E!HasKeys(c)' <=> E!HasKeys(c))
  BY DEF Exchanges, E!HasKeys, E!Open, E!Alive
<1>5. ResultAuthentic'
  BY <1>3, <1>4 DEF ResultAuthentic
<1>6. SecretAuthentic'
  BY <1>3, <1>4 DEF SecretAuthentic
<1>7. QED
  BY <1>2, <1>5, <1>6 DEF StateInv

\* Every step of the host, the provider and the enclaves preserves it.
LEMMA PNextInv == PInv /\ [PNext]_pvars => PInv'
<1> SUFFICES ASSUME PInv, PNext PROVE PInv'
  BY PStutter
<1>1. SP!SameBuild
  BY DEF PNext
<1>2. ASSUME StateInv', reply' = NULL PROVE PInv'
  BY <1>2, NoReply DEF PInv, StateInv
<1>3. ASSUME NEW c \in ContextIds, ContextStep(c) PROVE PInv'
  <2>1. CASE InitRA(c) \/ CloseRA(c) \/ GetGa(c)
    <3>1. reply' = NULL
      BY <2>1 DEF InitRA, CloseRA, GetGa
    <3>2. QED
      BY <1>1, <1>2, <2>1, <3>1, ContextSteps
  <2>2. ASSUME NEW msg2 \in Held("MSG2"), ProcMsg2(c, msg2) PROVE PInv'
    <3>1. reply' = NULL
      BY <2>2 DEF ProcMsg2
    <3>2. QED
      BY <1>1, <1>2, <2>2, <3>1, Msg2Step
  <2>3. QED
    BY <1>1, <1>3, <2>1, <2>2, VerifyStep, PutStep DEF ContextStep
<1>4. ASSUME NEW e \in EnclaveIds, CreateEnclave(e) PROVE PInv'
  <2>1. reply' = NULL
    BY <1>4 DEF CreateEnclave
  <2>2. QED
    BY <1>1, <1>2, <1>4, <2>1, ContextSteps
<1>5. CASE \/ SendMsg0 \/ SendMsg1
           \/ \E msg3 \in Held("MSG3") : IssueResult(msg3)
  <2>1. reply' = NULL
    BY <1>5 DEF SendMsg0, SendMsg1, IssueResult
  <2>2. QED
    BY <1>1, <1>2, <1>5, <2>1, ProviderSteps
<1>6. CASE PowerTransition
  <2>1. reply' = NULL
    BY <1>6 DEF PowerTransition
  <2>2. QED
    BY <1>1, <1>2, <1>6, <2>1, PowerStep
<1>7. CASE Return
  <2>1. StateInv' /\ reply' = NULL
    BY <1>1, <1>7, EnclavesUntouched DEF Return, PInv, ShapeInv, sp, encl
  <2>2. QED
    BY <1>2, <2>1
<1>8. QED
  BY <1>3, <1>4, <1>5, <1>6, <1>7 DEF PNext, SystemStep

\* The contexts of all enclaves hold only keys of their own exchanges.
THEOREM ProvisioningInv == PSpec => []PInv
  BY PInitInv, PNextInv, PTL DEF PSpec

\* verify_att_result_mac accepts only a result made for the key pair of the
\* open context it names, whatever the host replayed, swapped or damaged.
THEOREM ResultsAuthentic == PSpec => []ResultAuthentic
<1>1. PInv => ResultAuthentic
  BY DEF PInv
<1>2. QED
  BY <1>1, ProvisioningInv, PTL

\* put_secret_data accepts only a payload encrypted for this session, and then
\* g_secret holds what that payload delivered.
THEOREM SecretsAuthentic == PSpec => []SecretAuthentic
<1>1. PInv => SecretAuthentic
  BY DEF PInv
<1>2. QED
  BY <1>1, ProvisioningInv, PTL

\* NULL stands for no reply, no context and no session: it is a record of none
\* of these kinds.
NullIsNoRecord == \A field \in {"call", "state", "a"} : field \notin DOMAIN NULL

\* g_secret becomes the secret only in a put_secret_data that reports success:
\* decrypting in place never leaves it behind an error.
THEOREM SecretNeverBehindError == NullIsNoRecord => (PSpec => SecretOnlyBySuccess)
<1> SUFFICES ASSUME NullIsNoRecord PROVE PSpec => SecretOnlyBySuccess
  OBVIOUS
<1> DEFINE Step == \A e \in EnclaveIds :
             g_secret[e] # "secret" /\ g_secret'[e] = "secret" =>
               /\ reply' # NULL
               /\ reply'.call = "put" /\ Home[reply'.c] = e
               /\ reply'.status = "SUCCESS"
<1>1. PInv /\ [PNext]_pvars => [Step]_pvars
  <2> SUFFICES ASSUME PInv, PNext, NEW e \in EnclaveIds,
                      g_secret[e] # "secret", g_secret'[e] = "secret"
               PROVE  /\ reply' # NULL
                      /\ reply'.call = "put" /\ Home[reply'.c] = e
                      /\ reply'.status = "SUCCESS"
    OBVIOUS
  <2> USE DEF PInv
  <2>1. PICK c \in ContextIds, result \in Held("RESULT") : PutSecret(c, result)
    <3>1. CASE UNCHANGED g_secret
      BY <3>1
    <3>2. CASE PowerTransition
      BY <3>2 DEF PowerTransition, E!LoseAll
    <3>3. QED
      BY <3>1, <3>2 DEF PNext, SystemStep, Return, ContextStep, encl, CreateEnclave, E!Create,
           InitRA, E!enclave_init_ra, CloseRA, E!enclave_ra_close, GetGa,
           E!get_ga, ProcMsg2, E!proc_msg2, VerifyResult, SendMsg0, SendMsg1,
           IssueResult
  <2>2. /\ Home[c] = e /\ reply'.call = "put" /\ reply'.c = c
        /\ reply'.status = "SUCCESS"
    BY <2>1, PutFacts
  <2>3. reply' # NULL
    <3>1. "call" \in DOMAIN reply'
      BY <2>1 DEF PutSecret
    <3>2. QED
      BY <3>1 DEF NullIsNoRecord
  <2>4. QED
    BY <2>2, <2>3
<1>2. QED
  BY <1>1, ProvisioningInv, PTL DEF PSpec, SecretOnlyBySuccess
-----------------------------------------------------------------------------
(* Delivery refines SecretDelivery.  The enclave's side of the invariant says *)
(* that a key pair belongs to one context, and that a context's own msg3 is   *)
(* the only one with its key; the provider's side, that each message stands   *)
(* for one session, of which the key database never keeps smk without sk.     *)

\* The exchange that a msg2 is signed for.
Sent(m) == [a |-> m.sign_gb_ga.g_a, b |-> m.g_b]

\* Has context c a key pair?
HasGa(c) == contexts[c] # NULL /\ contexts[c].state # "init"

\* A context is one of an enclave that is there; its key pair was generated.
StageInv ==
  /\ nkeys <= MaxKeys /\ nga \in Nat
  /\ \A c \in ContextIds : contexts[c] # NULL =>
       /\ enclaves[Home[c]] = "alive"
       /\ contexts[c].state \in {"init", "ga", "msg2"}
       /\ HasGa(c) => contexts[c].a \in PublicKeys /\ contexts[c].a \in 1 .. nga

\* No two contexts use one key pair.
OwnKeys ==
  \A c, d \in ContextIds :
    c # d /\ HasGa(c) /\ HasGa(d) => contexts[c].a # contexts[d].a

\* A context that waits for msg2 has made no msg3 with its key pair.
NotYet ==
  \A c \in ContextIds :
    contexts[c] # NULL /\ contexts[c].state = "ga" =>
      \A m \in Held("MSG3") : m.g_a # contexts[c].a

\* A msg3 is authenticated under the smk of a session some msg2 is signed for.
Msg3Inv ==
  \A m \in Held("MSG3") :
    /\ m.mac.secret \in [a : PublicKeys, b : 1 .. MaxKeys]
    /\ m.mac = SP!SPKey("smk", m.mac.secret)
    /\ m.g_a = m.mac.secret.a /\ m.g_a \in 1 .. nga
    /\ \E n \in Held("MSG2") : Sent(n) = m.mac.secret

\* A result carries the secret under the sk of a confirmed session.
ResultInv ==
  \A r \in Held("RESULT") :
    r.payload.plain = "secret" =>
      /\ r.payload.key = SP!SPKey("sk", r.payload.key.secret)
      /\ r.payload.key.secret \in Confirmed

\* Whatever failed since, where the database has the smk of a session that was
\* answered, it has its sk.
DbInv ==
  \A m \in Held("MSG2") :
    g_sp_db.smk = SP!SPKey("smk", Sent(m)) =>
      g_sp_db.sk = SP!SPKey("sk", Sent(m))

DeliveryInv ==
  /\ StageInv /\ OwnKeys /\ NotYet
  /\ Msg3Inv /\ ResultInv /\ DbInv
-----------------------------------------------------------------------------
\* A derived key determines the secret it was derived from.
LEMMA KeySecret ==
  ASSUME NEW name \in SP!KeyNames, NEW s
  PROVE  SP!SPKey(name, s).secret = s
BY DEF SP!KeyNames, SP!SPKey, SP!HashHalf, SP!CmacLabel

\* The other two values a key may have are no derived keys.
LEMMA NoSecret ==
  ASSUME NEW name \in SP!KeyNames, NEW s
  PROVE  SP!SPKey(name, s) # SP!ZeroKey /\ SP!SPKey(name, s) # SP!JunkKey
<1>1. "secret" \in DOMAIN SP!SPKey(name, s)
  BY DEF SP!KeyNames, SP!SPKey, SP!HashHalf, SP!CmacLabel
<1>2. "secret" \notin DOMAIN SP!ZeroKey /\ "secret" \notin DOMAIN SP!JunkKey
  BY DEF SP!ZeroKey, SP!JunkKey
<1>3. QED
  BY <1>1, <1>2

\* The build never changes, so the provider's keys do not either.
LEMMA SPKeysKept ==
  ASSUME SP!SameBuild, NEW name, NEW s
  PROVE  SP!SPKey(name, s)' = SP!SPKey(name, s)
BY DEF SP!SameBuild, SP!SPKey

\* What is held stays held: a step that adds only msg2s keeps what is known of
\* the msg3s and the results.
LEMMA MessagesKept ==
  ASSUME SP!SameBuild, Msg3Inv, ResultInv, nga' = nga \/ nga' = nga + 1,
         nga \in Nat, held \subseteq held',
         \A m \in held' \ held : m.type = "MSG2"
  PROVE  /\ Msg3Inv' /\ ResultInv' /\ Confirmed' = Confirmed /\ Issued' = Issued
         /\ Held("MSG3")' = Held("MSG3")
<1>1. Held("MSG3")' = Held("MSG3") /\ Held("RESULT")' = Held("RESULT")
  BY DEF Held
<1>2. Held("MSG2") \subseteq Held("MSG2")'
  BY DEF Held
<1>3. Confirmed' = Confirmed /\ Issued' = Issued
  BY <1>1 DEF Confirmed, Issued
<1>4. 1 .. nga \subseteq 1 .. nga'
  OBVIOUS
<1>5. Msg3Inv'
  BY <1>1, <1>2, <1>4, SPKeysKept DEF Msg3Inv, Sent
<1>6. ResultInv'
  BY <1>1, <1>3, SPKeysKept DEF ResultInv
<1>7. QED
  BY <1>1, <1>3, <1>5, <1>6

\* The database and the msg2s as they are.
LEMMA DbKept ==
  ASSUME SP!SameBuild, DbInv, g_sp_db' = g_sp_db,
         Held("MSG2")' = Held("MSG2")
  PROVE  DbInv'
BY SPKeysKept DEF DbInv, Sent
-----------------------------------------------------------------------------
(* The provider. *)

\* What a msg1 leaves in the database: the smk and the sk of a new session
\* together; neither; or a smk that belongs to no session answered before.
LEMMA Msg1Keys ==
  ASSUME nkeys \in Nat, NEW g_a, SP!ProcMsg1(g_a)
  PROVE  /\ nkeys <= MaxKeys => nkeys' <= MaxKeys
         /\ \/ /\ p_resp' = NULL
               /\ \/ /\ g_sp_db'.smk = g_sp_db.smk
                     /\ g_sp_db'.sk = g_sp_db.sk
                  \/ g_sp_db'.smk = SP!JunkKey
                  \/ g_sp_db'.smk = SP!SPKey("smk", [a |-> g_a, b |-> nkeys + 1])
            \/ /\ g_sp_db'.smk = SP!SPKey("smk", [a |-> g_a, b |-> nkeys + 1])
               /\ g_sp_db'.sk = SP!SPKey("sk", [a |-> g_a, b |-> nkeys + 1])
               /\ Sent(p_resp') = [a |-> g_a, b |-> nkeys + 1]
<1>1. CASE SP!Msg1Unregistered
  BY <1>1 DEF SP!Msg1Unregistered, SP!Answer, SP!SP_OK,
              SP!SP_UNSUPPORTED_EXTENDED_EPID_GROUP
<1>2. CASE SP!Msg1(g_a)
  <2>1. PICK failing \in SP!Calls, scribbled \in BOOLEAN :
           /\ scribbled => ~SUPPLIED_KEY_DERIVATION
           /\ g_sp_db' = SP!DbAfter(g_a, failing, scribbled)
           /\ nkeys' = IF failing > SP!KeyPair THEN nkeys + 1 ELSE nkeys
           /\ SP!Answer(SP!Msg1Status(failing), SP!Msg2(g_sp_db'))
    BY <1>2 DEF SP!Msg1
  <2>2. nkeys < MaxKeys
    BY <1>2 DEF SP!Msg1
  <2>3. nkeys <= MaxKeys => nkeys' <= MaxKeys
    BY <2>1, <2>2, ProvisioningAssumption
  <2> DEFINE s == [a |-> g_a, b |-> nkeys + 1]
  <2>4. /\ SP!Derive("smk") = 5 /\ SP!Derive("sk") > 4 /\ SP!Derive("sk") < 12
        /\ SP!Derive("sk") \in Nat
        /\ SP!Derive("sk") = 5 => SUPPLIED_KEY_DERIVATION
    BY DEF SP!Derive
  <2>5. failing \in 1 .. 12
    BY DEF SP!Calls, SP!OpenContext, SP!KeyPair, SP!ComputeDH, SP!GetSigRL,
           SP!Malloc, SP!Sign, SP!Cmac, SP!Done, SP!Derive, SP!KeyNames
  <2>6. SP!SPSecret(nkeys + 1, g_a) = s
    BY DEF SP!SPSecret
  <2>7. /\ failing > 5 => g_sp_db'.smk = SP!SPKey("smk", s)
        /\ ~(failing > 5) => \/ g_sp_db'.smk = g_sp_db.smk
                                 /\ g_sp_db'.sk = g_sp_db.sk
                             \/ g_sp_db'.smk = SP!JunkKey
        /\ failing = 12 => /\ g_sp_db'.sk = SP!SPKey("sk", s)
                           /\ g_sp_db'.g_a = g_a /\ g_sp_db'.g_b = nkeys + 1
    BY <2>1, <2>4, <2>5, <2>6 DEF SP!DbAfter, SP!KeyPair
  <2>8. failing # 12 => p_resp' = NULL
    BY <2>1 DEF SP!Answer, SP!Msg1Status, SP!SP_OK, SP!Done, SP!OpenContext,
                SP!GetSigRL, SP!BAD_REQUEST, SP!SP_IAS_FAILED,
                SP!SP_INTERNAL_ERROR
  <2>9. ASSUME failing = 12 PROVE Sent(p_resp') = s
    <3>0. SP!Msg1Status(failing) = SP!SP_OK
      BY <2>9 DEF SP!Msg1Status, SP!Done, SP!OpenContext, SP!GetSigRL
    <3>1. p_resp' = SP!Msg2(g_sp_db')
      BY <2>1, <3>0, Zenon DEF SP!Answer
    <3>2. p_resp'.g_b = nkeys + 1 /\ p_resp'.sign_gb_ga.g_a = g_a
      BY <2>7, <2>9, <3>1 DEF SP!Msg2
    <3>3. QED
      BY <3>2 DEF Sent
  <2>10. QED
    BY <2>3, <2>5, <2>7, <2>8, <2>9
<1>3. QED
  BY <1>1, <1>2 DEF SP!ProcMsg1

\* A request to the provider.
LEMMA ProviderDelivery ==
  ASSUME PInv, DeliveryInv, SP!SameBuild, SendMsg0 \/ SendMsg1
  PROVE  /\ DeliveryInv'
         /\ UNCHANGED <<KeptSessions, Confirmed, Issued, Delivered>>
<1> USE DEF PInv, DeliveryInv
<1>1. /\ UNCHANGED encl /\ held \subseteq held'
      /\ \A m \in held' \ held : m.type = "MSG2"
  <2>1. CASE SendMsg0
    BY <2>1 DEF SendMsg0
  <2>2. ASSUME SendMsg1 PROVE \A m \in held' \ held : m.type = "MSG2"
    BY <2>2, ProviderStep DEF SendMsg1, ShapeInv
  <2>3. QED
    BY <2>1, <2>2 DEF SendMsg1
<1>2. /\ UNCHANGED <<enclaves, contexts, nga, g_secret>>
  BY <1>1 DEF encl
<1>3. /\ Msg3Inv' /\ ResultInv' /\ Confirmed' = Confirmed /\ Issued' = Issued
      /\ Held("MSG3")' = Held("MSG3")
  BY <1>1, <1>2, MessagesKept DEF StageInv
<1>4. KeptSessions' = KeptSessions /\ Delivered' = Delivered
  BY <1>2 DEF KeptSessions, SessionOf, E!HasKeys, E!Open, E!Alive, Delivered
<1>5. OwnKeys' /\ NotYet'
  BY <1>2, <1>3 DEF OwnKeys, NotYet, HasGa
<1>6. CASE SendMsg0
  <2>1. UNCHANGED <<nkeys, g_sp_db, held>>
    BY <1>6 DEF SendMsg0, SP!ProcMsg0, SP!Msg0Keep, SP!Msg0Enroll,
                SP!Msg0EnrollFails
  <2>2. StageInv'
    BY <1>2, <2>1 DEF StageInv, HasGa
  <2>3. DbInv'
    BY <2>1, DbKept DEF Held
  <2>4. QED
    BY <1>3, <1>4, <1>5, <2>2, <2>3
<1>7. CASE SendMsg1
  <2>1. PICK g_a \in 1 .. nga : SP!ProcMsg1(g_a)
    BY <1>7 DEF SendMsg1
  <2>2. nkeys' <= MaxKeys
    BY <2>1, Msg1Keys DEF ShapeInv, StageInv
  <2>3. StageInv'
    BY <1>2, <2>2 DEF StageInv, HasGa
  <2>4. held' = held \cup ({p_resp'} \ {NULL})
    BY <1>7 DEF SendMsg1
  <2>5. ASSUME NEW m \in Held("MSG2")',
               g_sp_db'.smk = SP!SPKey("smk", Sent(m))
        PROVE  g_sp_db'.sk = SP!SPKey("sk", Sent(m))
    <3> DEFINE s == [a |-> g_a, b |-> nkeys + 1]
    <3>1. "smk" \in SP!KeyNames
      BY DEF SP!KeyNames
    <3>2. g_sp_db'.smk # SP!JunkKey
      BY <2>5, <3>1, NoSecret
    <3>3. CASE g_sp_db'.smk = SP!SPKey("smk", s)
      <4>1. Sent(m) = s
        BY <2>5, <3>1, <3>3, KeySecret
      <4>2. m.g_b = nkeys + 1
        BY <4>1 DEF Sent
      <4>3. m \notin held
        BY <4>2 DEF HeldInv, ShapeInv, Held
      <4>4. p_resp' # NULL
        BY <2>4, <4>3 DEF Held
      <4>5. g_sp_db'.sk = SP!SPKey("sk", s)
        BY <2>1, <4>4, Msg1Keys DEF ShapeInv
      <4>6. QED
        BY <4>1, <4>5
    <3>4. CASE g_sp_db'.smk # SP!SPKey("smk", s)
      <4>1. /\ p_resp' = NULL
            /\ g_sp_db'.smk = g_sp_db.smk /\ g_sp_db'.sk = g_sp_db.sk
        BY <2>1, <3>2, <3>4, Msg1Keys DEF ShapeInv
      <4>2. m \in Held("MSG2")
        BY <2>4, <4>1 DEF Held
      <4>3. QED
        BY <2>5, <4>1, <4>2 DEF DbInv
    <3>5. QED
      BY <3>3, <3>4
  <2>6. DbInv'
    BY <2>5, SPKeysKept DEF DbInv, Sent
  <2>7. QED
    BY <1>3, <1>4, <1>5, <2>3, <2>6
<1>8. QED
  BY <1>6, <1>7

\* A result that carries the secret is for the session of the msg3 it answers.
LEMMA IssueDelivery ==
  ASSUME PInv, DeliveryInv, SP!SameBuild,
         NEW msg3 \in Held("MSG3"), IssueResult(msg3)
  PROVE  /\ DeliveryInv'
         /\ UNCHANGED <<KeptSessions, Confirmed, Delivered>>
         /\ Issued' = Issued \/ \E s \in Confirmed : Issued' = Issued \cup {s}
<1> USE DEF PInv, DeliveryInv
<1>1. UNCHANGED <<nkeys, g_sp_db, enclaves, contexts, nga, g_secret>>
  BY DEF IssueResult, sp, encl
<1>2. PICK payload :
        /\ payload = [key |-> g_sp_db.sk, plain |-> "secret"]
             \/ payload = [key |-> SP!ZeroKey, plain |-> "zero"]
        /\ held' = held \cup {[type |-> "RESULT", mac |-> g_sp_db.mk,
                               payload |-> payload]}
  BY DEF IssueResult
<1> DEFINE r == [type |-> "RESULT", mac |-> g_sp_db.mk, payload |-> payload]
           s == msg3.mac.secret
<1>3. /\ Held("MSG3")' = Held("MSG3") /\ Held("MSG2")' = Held("MSG2")
      /\ Held("RESULT")' = Held("RESULT") \cup {r}
  BY <1>2 DEF Held
<1>4. r.payload = payload
  OBVIOUS
<1> HIDE DEF r
<1>5. Confirmed' = Confirmed /\ s \in Confirmed
  BY <1>3 DEF Confirmed
<1>6. KeptSessions' = KeptSessions /\ Delivered' = Delivered
  BY <1>1 DEF KeptSessions, SessionOf, E!HasKeys, E!Open, E!Alive, Delivered
<1>7. StageInv' /\ OwnKeys' /\ NotYet' /\ DbInv'
  BY <1>1, <1>3, DbKept DEF StageInv, OwnKeys, NotYet, HasGa
<1>8. Msg3Inv'
  BY <1>1, <1>3, SPKeysKept DEF Msg3Inv, Sent
<1>9. ASSUME payload.plain = "secret"
      PROVE  payload.key = SP!SPKey("sk", s) /\ payload.key.secret = s
  <2>1. payload.key = g_sp_db.sk
    BY <1>2, <1>9
  <2>2. msg3.mac = g_sp_db.smk
    BY DEF IssueResult
  <2>3. msg3.mac = SP!SPKey("smk", s) /\ \E n \in Held("MSG2") : Sent(n) = s
    BY DEF Msg3Inv
  <2>4. g_sp_db.sk = SP!SPKey("sk", s)
    BY <2>2, <2>3 DEF DbInv
  <2>5. "sk" \in SP!KeyNames
    BY DEF SP!KeyNames
  <2>6. QED
    BY <2>1, <2>4, <2>5, KeySecret
<1> HIDE DEF s
<1>10. ResultInv'
  <2> SUFFICES ASSUME NEW q \in Held("RESULT")', q.payload.plain = "secret"
               PROVE  /\ q.payload.key = SP!SPKey("sk", q.payload.key.secret)'
                      /\ q.payload.key.secret \in Confirmed'
    BY DEF ResultInv
  <2>1. CASE q \in Held("RESULT")
    BY <1>5, <2>1, SPKeysKept DEF ResultInv
  <2>2. CASE q = r
    BY <1>4, <1>5, <1>9, <2>2, SPKeysKept
  <2>3. QED
    BY <1>3, <2>1, <2>2
<1>11. Issued' = Issued \/ Issued' = Issued \cup {s}
  <2>1. CASE payload.plain = "secret"
    BY <1>3, <1>4, <1>9, <2>1 DEF Issued
  <2>2. CASE payload.plain # "secret"
    BY <1>3, <1>4, <2>2 DEF Issued
  <2>3. QED
    BY <2>1, <2>2
<1>12. QED
  BY <1>5, <1>6, <1>7, <1>8, <1>10, <1>11
-----------------------------------------------------------------------------
(* The enclaves. *)

\* A context with keys keeps the session they were derived from, and that is
\* one of its own key pair.
LEMMA KeptSession ==
  ASSUME PInv, DeliveryInv, NEW c \in ContextIds, E!HasKeys(c)
  PROVE  /\ SessionOf(c) \in Exchanges(c)
         /\ contexts[c].keys["sk"] = SP!SPKey("sk", SessionOf(c))
         /\ SessionOf(c).a = contexts[c].a
<1>1. PICK s \in Exchanges(c) : contexts[c].keys = E!EnclaveKeys(s)
  BY DEF PInv, ContextInv, E!HasKeys, E!Open
<1>2. contexts[c].keys["sk"] = SP!SPKey("sk", s)
  BY <1>1, SameKeys DEF E!EnclaveKeys, E!KeyNames
<1>3. SessionOf(c) = s
  BY <1>2, KeySecret DEF SessionOf, SP!KeyNames
<1>4. s.a = contexts[c].a
  BY DEF Exchanges
<1>5. QED
  BY <1>1, <1>2, <1>3, <1>4

\* What a step that leaves the messages and the provider alone keeps.
LEMMA ProviderKept ==
  ASSUME PInv, DeliveryInv, SP!SameBuild, nga' = nga \/ nga' = nga + 1,
         UNCHANGED <<held, g_sp_db, nkeys>>
  PROVE  /\ Msg3Inv' /\ ResultInv' /\ DbInv'
         /\ UNCHANGED <<Confirmed, Issued>>
         /\ \A type : Held(type)' = Held(type)
<1>1. \A type : Held(type)' = Held(type)
  BY DEF Held
<1>2. DbInv'
  BY <1>1, DbKept DEF DeliveryInv
<1>3. Msg3Inv' /\ ResultInv' /\ UNCHANGED <<Confirmed, Issued>>
  BY MessagesKept DEF DeliveryInv, StageInv
<1>4. QED
  BY <1>1, <1>2, <1>3

\* A new enclave has no context.
LEMMA CreateDelivery ==
  ASSUME PInv, DeliveryInv, SP!SameBuild, NEW e \in EnclaveIds, CreateEnclave(e)
  PROVE  DeliveryInv' /\ UNCHANGED D!dvars
<1> USE DEF PInv, DeliveryInv
<1>1. /\ UNCHANGED <<held, nkeys, g_sp_db, nga, contexts, g_secret>>
      /\ enclaves'[e] = "alive" /\ enclaves[e] # "alive"
      /\ \A f \in EnclaveIds \ {e} : enclaves'[f] = enclaves[f]
  BY DEF CreateEnclave, E!Create, sp, ShapeInv
<1>2. /\ Msg3Inv' /\ ResultInv' /\ DbInv' /\ UNCHANGED <<Confirmed, Issued>>
      /\ \A type : Held(type)' = Held(type)
  BY <1>1, ProviderKept
<1>3. \A c \in ContextIds : contexts[c] # NULL =>
        enclaves[Home[c]] = "alive" /\ enclaves'[Home[c]] = "alive"
  BY <1>1, HomeIsEnclave DEF StageInv
<1>4. StageInv' /\ OwnKeys' /\ NotYet'
  BY <1>1, <1>2, <1>3 DEF StageInv, OwnKeys, NotYet, HasGa
<1>5. \A c \in ContextIds : SessionOf(c)' = SessionOf(c)
  BY <1>1, <1>3, HomeIsEnclave DEF SessionOf, E!HasKeys, E!Open, E!Alive
<1>6. UNCHANGED <<KeptSessions, Delivered>>
  BY <1>1, <1>5 DEF KeptSessions, Delivered
<1>7. QED
  BY <1>2, <1>4, <1>6 DEF D!dvars

\* A context that is opened, closed or given a new key pair has no session: the
\* one it had is given up.
LEMMA ContextDelivery ==
  ASSUME PInv, DeliveryInv, SP!SameBuild, NEW c \in ContextIds,
         InitRA(c) \/ CloseRA(c) \/ GetGa(c)
  PROVE  /\ DeliveryInv'
         /\ UNCHANGED <<Confirmed, Issued, Delivered>>
         /\ \/ KeptSessions' = KeptSessions
            \/ KeptSessions' = [KeptSessions EXCEPT ![c] = NULL]
<1> USE DEF PInv, DeliveryInv
<1>1. UNCHANGED <<held, nkeys, g_sp_db>> /\ (nga' = nga \/ nga' = nga + 1)
  BY DEF InitRA, CloseRA, GetGa, sp,
         E!enclave_init_ra, E!enclave_ra_close, E!get_ga
<1>2. /\ Msg3Inv' /\ ResultInv' /\ DbInv'
      /\ UNCHANGED <<Confirmed, Issued>>
      /\ \A type : Held(type)' = Held(type)
  BY <1>1, ProviderKept
<1>3. UNCHANGED g_secret
  BY DEF InitRA, CloseRA, GetGa,
         E!enclave_init_ra, E!enclave_ra_close, E!get_ga
<1>4. Delivered' = Delivered
  BY <1>3 DEF Delivered
<1>5. /\ UNCHANGED enclaves
      /\ \A d \in ContextIds \ {c} : contexts'[d] = contexts[d]
  BY DEF ShapeInv, InitRA, CloseRA, GetGa,
         E!enclave_init_ra, E!enclave_ra_close, E!get_ga
<1>6. \A d \in ContextIds \ {c} : SessionOf(d)' = SessionOf(d)
  BY <1>5 DEF SessionOf, E!HasKeys, E!Open, E!Alive
<1>7. ASSUME SessionOf(c)' = SessionOf(c) \/ SessionOf(c)' = NULL
      PROVE  \/ KeptSessions' = KeptSessions
             \/ KeptSessions' = [KeptSessions EXCEPT ![c] = NULL]
  <2>1. CASE SessionOf(c)' = SessionOf(c)
    BY <1>6, <2>1 DEF KeptSessions
  <2>2. CASE SessionOf(c)' = NULL
    BY <1>6, <2>2 DEF KeptSessions
  <2>3. QED
    BY <1>7, <2>1, <2>2
<1>8. CASE InitRA(c)
  <2>1. /\ UNCHANGED <<enclaves, nga>> /\ enclaves[Home[c]] = "alive"
        /\ contexts'[c].state = "init"
    BY <1>8 DEF InitRA, E!enclave_init_ra, E!Alive, ShapeInv
  <2>2. SessionOf(c)' = NULL
    BY <2>1 DEF SessionOf, E!HasKeys
  <2>3. StageInv' /\ OwnKeys' /\ NotYet'
    BY <1>1, <1>2, <1>5, <2>1 DEF StageInv, OwnKeys, NotYet, HasGa
  <2>4. QED
    BY <1>2, <1>4, <1>7, <2>2, <2>3
<1>9. CASE CloseRA(c)
  <2>1. UNCHANGED <<enclaves, nga>> /\ contexts'[c] = NULL
    BY <1>9 DEF CloseRA, E!enclave_ra_close, ShapeInv
  <2>2. SessionOf(c)' = NULL
    BY <2>1 DEF SessionOf, E!HasKeys, E!Open
  <2>3. StageInv' /\ OwnKeys' /\ NotYet'
    BY <1>1, <1>2, <1>5, <2>1 DEF StageInv, OwnKeys, NotYet, HasGa
  <2>4. QED
    BY <1>2, <1>4, <1>7, <2>2, <2>3
<1>10. CASE GetGa(c)
  <2>1. /\ UNCHANGED enclaves /\ enclaves[Home[c]] = "alive" /\ nga' = nga + 1
        /\ contexts'[c].state = "ga" /\ contexts'[c].a = nga + 1
        /\ nga + 1 \in PublicKeys
    BY <1>10 DEF GetGa, E!get_ga, E!Open, E!Alive, ShapeInv
  <2>2. SessionOf(c)' = NULL
    BY <2>1 DEF SessionOf, E!HasKeys
  <2>3. StageInv'
    <3>1. ASSUME NEW d \in ContextIds, contexts'[d] # NULL
          PROVE  /\ enclaves'[Home[d]] = "alive"
                 /\ contexts'[d].state \in {"init", "ga", "msg2"}
                 /\ HasGa(d)' => /\ contexts'[d].a \in PublicKeys
                                 /\ contexts'[d].a \in 1 .. nga'
      <4>1. CASE d = c
        BY <2>1, <4>1 DEF StageInv
      <4>2. CASE d # c
        BY <1>5, <2>1, <3>1, <4>2 DEF StageInv, HasGa
      <4>3. QED
        BY <4>1, <4>2
    <3>2. QED
      BY <1>1, <2>1, <3>1 DEF StageInv
  <2>4. \A d \in ContextIds \ {c} : HasGa(d)' => contexts'[d].a # nga + 1
    BY <1>5 DEF StageInv, HasGa
  <2>5. OwnKeys'
    BY <1>5, <2>1, <2>4 DEF OwnKeys, HasGa
  <2>6. NotYet'
    <3>1. \A m \in Held("MSG3") : m.g_a # nga + 1
      BY DEF Msg3Inv, StageInv
    <3>2. QED
      BY <1>2, <1>5, <2>1, <3>1 DEF NotYet
  <2>7. QED
    BY <1>2, <1>4, <1>7, <2>2, <2>3, <2>5, <2>6
<1>11. QED
  BY <1>8, <1>9, <1>10

\* A context that accepts a msg2 confirms the session it is signed for: with a
\* key pair of its own, and never one that it gave up.
LEMMA Msg2Delivery ==
  ASSUME PInv, DeliveryInv, SP!SameBuild, NullIsNoRecord, NEW c \in ContextIds,
         NEW msg2 \in Held("MSG2"), ProcMsg2(c, msg2)
  PROVE  /\ DeliveryInv'
         /\ \E s \in [a : PublicKeys, b : 1 .. MaxKeys] : D!Confirm(c, s)
<1> USE DEF PInv, DeliveryInv
<1> DEFINE s == [a |-> contexts[c].a, b |-> msg2.g_b]
           m == [type |-> "MSG3", g_a |-> contexts[c].a,
                 mac |-> contexts'[c].keys["smk"]]
<1>1. /\ UNCHANGED <<nkeys, g_sp_db, enclaves, nga, g_secret>>
      /\ held' = held \cup {m}
  BY DEF ProcMsg2, E!proc_msg2, sp
<1>2. /\ enclaves[Home[c]] = "alive" /\ contexts[c] # NULL
      /\ contexts[c].state \in {"ga", "msg2"} /\ HasGa(c)
      /\ msg2.sign_gb_ga.g_a = contexts[c].a
  BY DEF ProcMsg2, E!proc_msg2, E!Open, E!Alive, E!Accepts, HasGa
<1>3. contexts' = [contexts EXCEPT ![c].state = "msg2",
                                   ![c].keys = E!EnclaveKeys(s)]
  BY DEF ProcMsg2, E!proc_msg2, E!EnclaveSecret
<1>4. /\ contexts'[c].a = contexts[c].a /\ contexts'[c].state = "msg2"
      /\ contexts'[c].keys = E!EnclaveKeys(s)
      /\ \A d \in ContextIds \ {c} : contexts'[d] = contexts[d]
      /\ DOMAIN contexts'[c] = {"state", "a", "keys"}
  BY <1>2, <1>3 DEF ShapeInv
<1>5. contexts'[c] # NULL
  BY <1>4 DEF NullIsNoRecord
<1>6. /\ m.mac = SP!SPKey("smk", s)
      /\ contexts'[c].keys["sk"] = SP!SPKey("sk", s)
  BY <1>4, SameKeys DEF E!EnclaveKeys, E!KeyNames
<1>7. m.mac.secret = s /\ contexts'[c].keys["sk"].secret = s
  BY <1>6, KeySecret DEF SP!KeyNames
<1>8. m.g_a = contexts[c].a /\ m.type = "MSG3"
  OBVIOUS
<1>9. msg2.g_b \in 1 .. MaxKeys
  BY ProvisioningAssumption DEF HeldInv, Held, StageInv, ShapeInv
<1>10. /\ s \in [a : PublicKeys, b : 1 .. MaxKeys]
       /\ s.a = contexts[c].a /\ s.a \in 1 .. nga /\ Sent(msg2) = s
  BY <1>2, <1>9 DEF StageInv, Sent
<1> HIDE DEF m, s
<1>11. /\ Held("MSG3")' = Held("MSG3") \cup {m}
       /\ Held("MSG2")' = Held("MSG2") /\ Held("RESULT")' = Held("RESULT")
  BY <1>1, <1>8 DEF Held
<1>12. Confirmed' = Confirmed \cup {s} /\ Issued' = Issued
  BY <1>7, <1>11 DEF Confirmed, Issued
<1>13. E!HasKeys(c)'
  BY <1>1, <1>2, <1>4, <1>5, HomeIsEnclave DEF E!HasKeys, E!Open, E!Alive
<1>14. SessionOf(c)' = s
  BY <1>7, <1>13 DEF SessionOf
<1>15. \A d \in ContextIds \ {c} : SessionOf(d)' = SessionOf(d)
  BY <1>1, <1>4 DEF SessionOf, E!HasKeys, E!Open, E!Alive
<1>16. KeptSessions' = [KeptSessions EXCEPT ![c] = s] /\ Delivered' = Delivered
  BY <1>1, <1>14, <1>15 DEF KeptSessions, Delivered
<1>17. \A d \in ContextIds \ {c} : ~D!Keeps(d, s.a)
  <2> SUFFICES ASSUME NEW d \in ContextIds \ {c},
                      SessionOf(d) # NULL, SessionOf(d).a = s.a
               PROVE  FALSE
    BY DEF D!Keeps, KeptSessions
  <2>1. E!HasKeys(d)
    BY DEF SessionOf
  <2>2. contexts[d].a = s.a
    BY <2>1, KeptSession
  <2>3. HasGa(d)
    BY <2>1 DEF HasGa, E!HasKeys, E!Open
  <2>4. QED
    BY <1>2, <1>10, <2>2, <2>3 DEF OwnKeys
<1>18. ASSUME s \in Confirmed PROVE D!Keeps(c, s.a)
  <2>1. PICK n \in Held("MSG3") : n.mac.secret = s
    BY <1>18 DEF Confirmed
  <2>2. n.g_a = contexts[c].a
    BY <1>10, <2>1 DEF Msg3Inv
  <2>3. E!HasKeys(c)
    BY <1>2, <2>2, HomeIsEnclave DEF NotYet, E!HasKeys, E!Open, E!Alive
  <2>4. SessionOf(c).a = s.a
    BY <1>10, <2>3, KeptSession
  <2>5. "a" \in DOMAIN SessionOf(c)
    BY <2>3, KeptSession DEF Exchanges
  <2>6. QED
    BY <2>4, <2>5 DEF D!Keeps, KeptSessions, NullIsNoRecord
<1>19. D!Confirm(c, s)
  BY <1>12, <1>16, <1>17, <1>18 DEF D!Confirm
<1>20. StageInv' /\ OwnKeys'
  BY <1>1, <1>2, <1>4 DEF StageInv, OwnKeys, HasGa
<1>21. NotYet'
  <2> SUFFICES ASSUME NEW d \in ContextIds, contexts'[d] # NULL,
                      contexts'[d].state = "ga", NEW n \in Held("MSG3")'
               PROVE  n.g_a # contexts'[d].a
    BY DEF NotYet
  <2>1. d # c /\ contexts'[d] = contexts[d]
    BY <1>4
  <2>2. HasGa(d)
    BY <2>1 DEF HasGa
  <2>3. contexts[d].a # contexts[c].a
    BY <1>2, <2>1, <2>2 DEF OwnKeys
  <2>4. QED
    BY <1>8, <1>11, <2>1, <2>3 DEF NotYet
<1>22. Msg3Inv'
  <2> SUFFICES ASSUME NEW n \in Held("MSG3")'
               PROVE  /\ n.mac.secret \in [a : PublicKeys, b : 1 .. MaxKeys]
                      /\ n.mac = SP!SPKey("smk", n.mac.secret)'
                      /\ n.g_a = n.mac.secret.a /\ n.g_a \in 1 .. nga
                      /\ \E q \in Held("MSG2") : Sent(q) = n.mac.secret
    BY <1>1, <1>11 DEF Msg3Inv, Sent
  <2>1. SP!SPKey("smk", n.mac.secret)' = SP!SPKey("smk", n.mac.secret)
    BY SPKeysKept
  <2>2. CASE n \in Held("MSG3")
    BY <2>1, <2>2 DEF Msg3Inv
  <2>3. CASE n = m
    BY <1>6, <1>7, <1>8, <1>10, <2>1, <2>3
  <2>4. QED
    BY <1>11, <2>2, <2>3
<1>23. ResultInv'
  BY <1>11, <1>12, SPKeysKept DEF ResultInv
<1>24. DbInv'
  BY <1>1, <1>11, DbKept
<1>25. QED
  BY <1>10, <1>19, <1>20, <1>21, <1>22, <1>23, <1>24

\* put_secret_data takes the secret only in the session the context keeps, and
\* only when the provider issued it to that session.
LEMMA PutDelivery ==
  ASSUME PInv, DeliveryInv, SP!SameBuild, NEW c \in ContextIds,
         NEW result \in Held("RESULT"), PutSecret(c, result)
  PROVE  DeliveryInv' /\ [D!DNext]_(D!dvars)
<1> USE DEF PInv, DeliveryInv
<1>1. /\ UNCHANGED <<sp, enclaves, contexts, nga, held>>
      /\ \A e \in EnclaveIds \ {Home[c]} : g_secret'[e] = g_secret[e]
      /\ reply'.status = "SUCCESS" =>
           /\ E!HasKeys(c)
           /\ result.payload.key = contexts[c].keys["sk"]
           /\ result.payload.plain = "secret"
      /\ g_secret'[Home[c]] = "secret" /\ g_secret[Home[c]] # "secret" =>
           reply'.status = "SUCCESS"
  BY PutFacts
<1>2. UNCHANGED <<g_sp_db, nkeys>>
  BY <1>1 DEF sp
<1>3. /\ Msg3Inv' /\ ResultInv' /\ DbInv'
      /\ UNCHANGED <<Confirmed, Issued>>
      /\ \A type : Held(type)' = Held(type)
  BY <1>1, <1>2, ProviderKept
<1>4. StageInv' /\ OwnKeys' /\ NotYet'
  BY <1>1, <1>2, <1>3 DEF StageInv, OwnKeys, NotYet, HasGa
<1>5. KeptSessions' = KeptSessions
  BY <1>1 DEF KeptSessions, SessionOf, E!HasKeys, E!Open, E!Alive
<1>6. CASE g_secret'[Home[c]] = "secret" /\ g_secret[Home[c]] # "secret"
  <2>1. result.payload.key = SP!SPKey("sk", SessionOf(c))
    BY <1>1, <1>6, KeptSession
  <2>2. result.payload.key.secret = SessionOf(c)
    BY <2>1, KeySecret DEF SP!KeyNames
  <2>3. KeptSessions[c] \in Issued
    BY <1>1, <1>6, <2>2 DEF KeptSessions, Issued
  <2>4. Delivered' = [Delivered EXCEPT ![Home[c]] = TRUE]
    BY <1>1, <1>6 DEF Delivered
  <2>5. D!Deliver(c)
    BY <1>3, <1>5, <2>3, <2>4 DEF D!Deliver
  <2>6. QED
    BY <1>3, <1>4, <2>5 DEF D!DNext
<1>7. CASE g_secret'[Home[c]] # "secret"
  <2>1. Delivered' = [Delivered EXCEPT ![Home[c]] = FALSE]
    BY <1>1, <1>7 DEF Delivered
  <2>2. D!Overwrite(Home[c])
    BY <1>3, <1>5, <2>1 DEF D!Overwrite
  <2>3. Home[c] \in EnclaveIds
    BY HomeIsEnclave
  <2>4. QED
    BY <1>3, <1>4, <2>2, <2>3 DEF D!DNext
<1>8. CASE g_secret'[Home[c]] = "secret" /\ g_secret[Home[c]] = "secret"
  <2>1. Delivered' = Delivered
    BY <1>1, <1>8 DEF Delivered
  <2>2. QED
    BY <1>3, <1>4, <1>5, <2>1 DEF D!dvars
<1>9. QED
  BY <1>6, <1>7, <1>8

\* A power transition loses every session and every secret.
LEMMA PowerDelivery ==
  ASSUME PInv, DeliveryInv, SP!SameBuild, PowerTransition
  PROVE  DeliveryInv' /\ D!Lose
<1> USE DEF PInv, DeliveryInv
<1>1. /\ UNCHANGED <<held, g_sp_db, nkeys, nga>>
      /\ contexts' = [c \in ContextIds |-> NULL]
      /\ g_secret' = [e \in EnclaveIds |-> "zero"]
  BY DEF PowerTransition, E!LoseAll, sp
<1>2. /\ Msg3Inv' /\ ResultInv' /\ DbInv' /\ UNCHANGED <<Confirmed, Issued>>
  BY <1>1, ProviderKept
<1>3. StageInv' /\ OwnKeys' /\ NotYet'
  BY <1>1 DEF StageInv, OwnKeys, NotYet, HasGa
<1>4. /\ KeptSessions' = [c \in ContextIds |-> NULL]
      /\ Delivered' = [e \in EnclaveIds |-> FALSE]
  BY <1>1 DEF KeptSessions, SessionOf, E!HasKeys, E!Open, Delivered
<1>5. QED
  BY <1>2, <1>3, <1>4 DEF D!Lose

\* A step that changes neither the enclaves nor the provider nor what is held.
LEMMA NothingDelivered ==
  ASSUME PInv, DeliveryInv, SP!SameBuild, UNCHANGED <<sp, encl, held>>
  PROVE  DeliveryInv' /\ UNCHANGED D!dvars
<1> USE DEF PInv, DeliveryInv
<1>1. UNCHANGED <<held, g_sp_db, nkeys, nga, contexts, enclaves, g_secret>>
  BY DEF sp, encl
<1>2. /\ Msg3Inv' /\ ResultInv' /\ DbInv' /\ UNCHANGED <<Confirmed, Issued>>
      /\ \A type : Held(type)' = Held(type)
  BY <1>1, ProviderKept
<1>3. StageInv' /\ OwnKeys' /\ NotYet'
  BY <1>1, <1>2 DEF StageInv, OwnKeys, NotYet, HasGa
<1>4. UNCHANGED <<KeptSessions, Delivered>>
  BY <1>1 DEF KeptSessions, SessionOf, E!HasKeys, E!Open, E!Alive, Delivered
<1>5. QED
  BY <1>2, <1>3, <1>4 DEF D!dvars
-----------------------------------------------------------------------------
LEMMA DeliveryStart == PInit => DeliveryInv /\ D!DInit
<1> SUFFICES ASSUME PInit PROVE DeliveryInv /\ D!DInit
  OBVIOUS
<1>1. /\ nkeys = 0 /\ nga = 0 /\ contexts = [c \in ContextIds |-> NULL]
      /\ g_secret = [e \in EnclaveIds |-> "zero"]
      /\ \A m \in held : m.type = "RESULT" /\ m.payload.plain = "other"
  BY DEF PInit, SP!SPInit, E!EnclaveInit, Garbled
<1>2. Held("MSG2") = {} /\ Held("MSG3") = {}
      /\ \A r \in Held("RESULT") : r.payload.plain # "secret"
  BY <1>1 DEF Held
<1>3. StageInv /\ OwnKeys /\ NotYet
  BY <1>1, ProvisioningAssumption DEF StageInv, OwnKeys, NotYet, HasGa
<1>4. Msg3Inv /\ ResultInv /\ DbInv
  BY <1>2 DEF Msg3Inv, ResultInv, DbInv
<1>5. Confirmed = {} /\ Issued = {}
  BY <1>2 DEF Confirmed, Issued
<1>6. /\ KeptSessions = [c \in ContextIds |-> NULL]
      /\ Delivered = [e \in EnclaveIds |-> FALSE]
  BY <1>1 DEF KeptSessions, SessionOf, E!HasKeys, E!Open, Delivered
<1>7. QED
  BY <1>3, <1>4, <1>5, <1>6 DEF DeliveryInv, D!DInit

\* Every step of the host, the provider and the enclaves is a step of the
\* delivery, or none.
LEMMA DeliveryStep ==
  ASSUME PInv, DeliveryInv, NullIsNoRecord, [PNext]_pvars
  PROVE  DeliveryInv' /\ [D!DNext]_(D!dvars)
<1>1. CASE UNCHANGED pvars
  BY <1>1, NothingDelivered DEF pvars, SP!SameBuild
<1> SUFFICES ASSUME PNext PROVE DeliveryInv' /\ [D!DNext]_(D!dvars)
  BY <1>1
<1>2. SP!SameBuild
  BY DEF PNext
<1>3. ASSUME NEW c \in ContextIds, ContextStep(c)
      PROVE  DeliveryInv' /\ [D!DNext]_(D!dvars)
  <2>1. CASE InitRA(c) \/ CloseRA(c) \/ GetGa(c)
    <3>1. /\ DeliveryInv'
          /\ UNCHANGED <<Confirmed, Issued, Delivered>>
          /\ \/ KeptSessions' = KeptSessions
             \/ KeptSessions' = [KeptSessions EXCEPT ![c] = NULL]
      BY <1>2, <2>1, ContextDelivery
    <3>2. D!GiveUp(c) \/ UNCHANGED D!dvars
      BY <3>1 DEF D!GiveUp, D!dvars
    <3>3. QED
      BY <3>1, <3>2 DEF D!DNext
  <2>2. ASSUME NEW msg2 \in Held("MSG2"), ProcMsg2(c, msg2)
        PROVE  DeliveryInv' /\ D!DNext
    BY <1>2, <2>2, Msg2Delivery DEF D!DNext
  <2>3. ASSUME NEW result \in Held("RESULT"), VerifyResult(c, result)
        PROVE  DeliveryInv' /\ UNCHANGED D!dvars
    BY <1>2, <2>3, NothingDelivered DEF VerifyResult
  <2>4. QED
    BY <1>2, <1>3, <2>1, <2>2, <2>3, PutDelivery DEF ContextStep
<1>4. CASE SendMsg0 \/ SendMsg1
  BY <1>2, <1>4, ProviderDelivery DEF D!dvars
<1>5. ASSUME NEW msg3 \in Held("MSG3"), IssueResult(msg3)
      PROVE  DeliveryInv' /\ [D!DNext]_(D!dvars)
  <2>1. /\ DeliveryInv' /\ UNCHANGED <<KeptSessions, Confirmed, Delivered>>
        /\ Issued' = Issued \/ \E s \in Confirmed : Issued' = Issued \cup {s}
    BY <1>2, <1>5, IssueDelivery
  <2>2. UNCHANGED D!dvars \/ \E s \in Confirmed : D!Issue(s)
    BY <2>1 DEF D!dvars, D!Issue
  <2>3. QED
    BY <2>1, <2>2 DEF D!DNext
<1>6. CASE PowerTransition
  BY <1>2, <1>6, PowerDelivery DEF D!DNext
<1>7. ASSUME NEW e \in EnclaveIds, CreateEnclave(e)
      PROVE  DeliveryInv' /\ [D!DNext]_(D!dvars)
  BY <1>2, <1>7, CreateDelivery
<1>8. CASE Return
  BY <1>2, <1>8, NothingDelivered DEF Return
<1>9. QED
  BY <1>3, <1>4, <1>5, <1>6, <1>7, <1>8 DEF PNext, SystemStep

\* Delivery of the secret implements SecretDelivery: whatever the host replays,
\* swaps or garbles, whatever request failed half way in the provider and
\* whatever enclave was lost, a secret reaches an enclave only through an open
\* session that a context of it confirmed and that the secret was issued to.
THEOREM SecretDelivered == NullIsNoRecord => (PSpec => DeliveredInSession)
<1> SUFFICES ASSUME NullIsNoRecord PROVE PSpec => DeliveredInSession
  OBVIOUS
<1>1. PInit => PInv /\ DeliveryInv /\ D!DInit
  BY PInitInv, DeliveryStart
<1>2. PInv /\ DeliveryInv /\ [PNext]_pvars =>
        PInv' /\ DeliveryInv' /\ [D!DNext]_(D!dvars)
  BY PNextInv, DeliveryStep
<1>3. QED
  BY <1>1, <1>2, PTL DEF PSpec, DeliveredInSession, D!DSpec

\* A step of the delivery keeps the owners of the sessions apart.
LEMMA OwnerStep == D!OneOwner /\ [D!DNext]_(D!dvars) => D!OneOwner'
<1> SUFFICES ASSUME D!OneOwner, [D!DNext]_(D!dvars) PROVE D!OneOwner'
  OBVIOUS
<1> USE DEF D!OneOwner, D!Keeps
<1>1. CASE UNCHANGED D!dvars
  BY <1>1 DEF D!dvars
<1>2. ASSUME NEW c \in ContextIds, NEW s, D!Confirm(c, s) PROVE D!OneOwner'
  <2>1. /\ KeptSessions' = [KeptSessions EXCEPT ![c] = s]
        /\ \A d \in ContextIds \ {c} :
             KeptSessions[d] # NULL => KeptSessions[d].a # s.a
        /\ Issued' = Issued /\ Confirmed \subseteq Confirmed'
    BY <1>2 DEF D!Confirm
  <2>2. /\ KeptSessions'[c] = s
        /\ \A d \in ContextIds \ {c} : KeptSessions'[d] = KeptSessions[d]
    BY <2>1 DEF KeptSessions
  <2>3. QED
    BY <2>1, <2>2
<1>3. ASSUME NEW c \in ContextIds, D!GiveUp(c) PROVE D!OneOwner'
  <2>1. /\ KeptSessions'[c] = NULL
        /\ \A d \in ContextIds \ {c} : KeptSessions'[d] = KeptSessions[d]
        /\ Issued' = Issued /\ Confirmed' = Confirmed
    BY <1>3 DEF D!GiveUp, KeptSessions
  <2>2. QED
    BY <2>1
<1>4. CASE \/ \E c \in ContextIds : D!Deliver(c)
           \/ \E e \in EnclaveIds : D!Overwrite(e)
  BY <1>4 DEF D!Deliver, D!Overwrite
<1>5. ASSUME NEW s \in Confirmed, D!Issue(s) PROVE D!OneOwner'
  BY <1>5 DEF D!Issue
<1>6. CASE D!Lose
  BY <1>6 DEF D!Lose, KeptSessions
<1>7. QED
  BY <1>1, <1>2, <1>3, <1>4, <1>5, <1>6 DEF D!DNext

\* So no two contexts ever hold keys of one session, in one enclave or in two,
\* and what a host that replays messages can have the provider issue is for a
\* confirmed session only.
THEOREM SessionsOwned == NullIsNoRecord => (PSpec => []D!OneOwner)
<1>1. D!DInit => D!OneOwner
  BY DEF D!DInit, D!OneOwner
<1>2. QED
  BY <1>1, OwnerStep, SecretDelivered, PTL DEF DeliveredInSession, D!DSpec
-----------------------------------------------------------------------------
(* The provider of this system is the one of ServiceProvider: requests in any *)
(* order are all that the host makes of it.                                   *)

\* Every public key the host has seen is one a msg1 may carry.
KeysSent == nga \in Nat /\ 1 .. nga \subseteq PublicKeys

LEMMA KeysSentStart == PInit => KeysSent
  BY DEF PInit, E!EnclaveInit, KeysSent

LEMMA KeysSentStep == KeysSent /\ [PNext]_pvars => KeysSent'
<1> SUFFICES ASSUME KeysSent, [PNext]_pvars PROVE KeysSent'
  OBVIOUS
<1>1. nga' = nga \/ (nga' = nga + 1 /\ nga + 1 \in PublicKeys)
  <2>1. ASSUME NEW c \in ContextIds, ContextStep(c)
        PROVE  nga' = nga \/ (nga' = nga + 1 /\ nga + 1 \in PublicKeys)
    BY <2>1 DEF ContextStep, InitRA,
         E!enclave_init_ra, CloseRA, E!enclave_ra_close, GetGa, E!get_ga,
         ProcMsg2, E!proc_msg2, VerifyResult, encl, PutSecret,
         E!put_secret_data, E!encvars
  <2>2. QED
    BY <2>1 DEF PNext, SystemStep, Return, CreateEnclave, E!Create, SendMsg0,
         SendMsg1, IssueResult, PowerTransition, E!LoseAll, pvars, encl
<1>2. QED
  BY <1>1 DEF KeysSent

LEMMA ProviderSees ==
  ASSUME KeysSent, [PNext]_pvars
  PROVE  [SP!SPNext]_(SP!spvars)
<1>1. CASE UNCHANGED pvars
  BY <1>1 DEF pvars, sp, SP!spvars
<1> SUFFICES ASSUME PNext PROVE [SP!SPNext]_(SP!spvars)
  BY <1>1
<1>2. SP!SameBuild
  BY DEF PNext
<1>3. CASE SendMsg0
  BY <1>2, <1>3 DEF SendMsg0, SP!SPNext
<1>4. CASE SendMsg1
  BY <1>2, <1>4 DEF SendMsg1, KeysSent, SP!SPNext
<1>5. ASSUME UNCHANGED sp PROVE UNCHANGED SP!spvars
  BY <1>2, <1>5 DEF sp, SP!spvars, SP!SameBuild
<1>6. ASSUME NEW c \in ContextIds, ContextStep(c) PROVE UNCHANGED sp
  BY <1>6 DEF ContextStep, InitRA, CloseRA, GetGa, ProcMsg2, VerifyResult,
              PutSecret
<1>7. QED
  BY <1>3, <1>4, <1>5, <1>6 DEF PNext, SystemStep, Return, CreateEnclave,
     IssueResult, PowerTransition

\* What the provider does under this host it does under a client that sends its
\* requests in any order.
THEOREM ProviderImplemented == PSpec => SP!SPSpec
<1>1. PInit => SP!SPInit
  BY DEF PInit
<1>2. KeysSent /\ [PNext]_pvars => [SP!SPNext]_(SP!spvars)
  BY ProviderSees
<1>3. QED
  BY <1>1, <1>2, KeysSentStart, KeysSentStep, PTL DEF PSpec, SP!SPSpec

\* The theorems of ServiceProviderProofs, about this system's provider.
SPP == INSTANCE ServiceProviderProofs

\* One request is the same action in either instance of the module.
LEMMA SameProvider ==
  /\ SP!SPInit => SPP!SPInit
  /\ [SP!SPNext]_(SP!spvars) => [SPP!SPNext]_(SPP!spvars)
<1> USE DEF SP!spState, SPP!spState, SP!Answer, SPP!Answer, SP!SP_OK, SPP!SP_OK,
            SP!BAD_REQUEST, SPP!BAD_REQUEST
<1>1. SP!Reject <=> SPP!Reject
  BY Zenon DEF SP!Reject, SPP!Reject
<1>2. \A gid : SP!MustConfigure(gid) <=> SPP!MustConfigure(gid)
  BY Zenon DEF SP!MustConfigure, SPP!MustConfigure
<1>3. SP!RespondMsg0 <=> SPP!RespondMsg0
  BY Zenon DEF SP!RespondMsg0, SPP!RespondMsg0, SP!Msg0Resp, SPP!Msg0Resp,
     SP!SP_INTERNAL_ERROR, SPP!SP_INTERNAL_ERROR
<1>4. \A gid : SP!Msg0Keep(gid) <=> SPP!Msg0Keep(gid)
  BY <1>2, <1>3, Zenon DEF SP!Msg0Keep, SPP!Msg0Keep, SP!Supported, SPP!Supported
<1>5. \A gid : SP!Msg0Enroll(gid) <=> SPP!Msg0Enroll(gid)
  BY <1>2, <1>3, Zenon DEF SP!Msg0Enroll, SPP!Msg0Enroll, SP!Supported, SPP!Supported
<1>6. SP!ias_returns = SPP!ias_returns
  BY Zenon DEF SP!ias_returns, SPP!ias_returns
<1>7. \A gid : SP!Msg0EnrollFails(gid) <=> SPP!Msg0EnrollFails(gid)
  BY <1>2, <1>6, Zenon DEF SP!Msg0EnrollFails, SPP!Msg0EnrollFails,
     SP!Supported, SPP!Supported, SP!SP_IAS_FAILED, SPP!SP_IAS_FAILED
<1>8. \A gid : SP!ProcMsg0(gid) <=> SPP!ProcMsg0(gid)
  BY <1>4, <1>5, <1>7, Zenon DEF SP!ProcMsg0, SPP!ProcMsg0
<1>9. \A name : SP!Derive(name) = SPP!Derive(name)
  BY Zenon DEF SP!Derive, SPP!Derive
<1> USE DEF SP!KeyNames, SPP!KeyNames, SP!OpenContext, SPP!OpenContext,
            SP!KeyPair, SPP!KeyPair, SP!ComputeDH, SPP!ComputeDH,
            SP!GetSigRL, SPP!GetSigRL, SP!Malloc, SPP!Malloc, SP!Sign, SPP!Sign,
            SP!Cmac, SPP!Cmac, SP!Done, SPP!Done
<1>10. SP!Calls = SPP!Calls
  BY <1>6, <1>9 DEF SP!Calls, SPP!Calls
<1>11. \A failing : SP!Msg1Status(failing) = SPP!Msg1Status(failing)
  BY Zenon DEF SP!Msg1Status, SPP!Msg1Status, SP!SP_IAS_FAILED, SPP!SP_IAS_FAILED,
     SP!SP_INTERNAL_ERROR, SPP!SP_INTERNAL_ERROR
<1>12. \A name, s : SP!SPKey(name, s) = SPP!SPKey(name, s)
  BY Zenon DEF SP!SPKey, SPP!SPKey, SP!HashHalf, SPP!HashHalf, SP!CmacLabel,
     SPP!CmacLabel
<1>13. \A g_a, failing, scribbled :
         SP!DbAfter(g_a, failing, scribbled) = SPP!DbAfter(g_a, failing, scribbled)
  BY <1>9, <1>12 DEF SP!DbAfter, SPP!DbAfter, SP!SPSecret, SPP!SPSecret,
                     SP!JunkKey, SPP!JunkKey
<1>14. \A db : SP!Msg2(db) = SPP!Msg2(db)
  BY Zenon DEF SP!Msg2, SPP!Msg2, SP!KdfId, SPP!KdfId
<1>15. \A g_a : SP!Msg1(g_a) <=> SPP!Msg1(g_a)
  BY <1>9, <1>10, <1>11, <1>13, <1>14 DEF SP!Msg1, SPP!Msg1
<1>16. \A g_a : SP!ProcMsg1(g_a) <=> SPP!ProcMsg1(g_a)
  BY <1>15, Zenon DEF SP!ProcMsg1, SPP!ProcMsg1, SP!Msg1Unregistered,
     SPP!Msg1Unregistered, SP!SP_UNSUPPORTED_EXTENDED_EPID_GROUP,
     SPP!SP_UNSUPPORTED_EXTENDED_EPID_GROUP
<1>17. SP!SPNext <=> SPP!SPNext
  BY <1>1, <1>8, <1>16, Zenon DEF SP!SPNext, SPP!SPNext, SP!SameBuild, SPP!SameBuild
<1>18. SP!SPInit => SPP!SPInit
  BY Zenon DEF SP!SPInit, SPP!SPInit, SP!AnyBuild, SPP!AnyBuild, SP!ZeroKey,
     SPP!ZeroKey
<1>19. UNCHANGED SP!spvars <=> UNCHANGED SPP!spvars
  BY Zenon DEF SP!spvars, SPP!spvars
<1>20. QED
  BY <1>17, <1>18, <1>19

\* The assumptions of ServiceProvider are this module's.
LEMMA ProviderAssumed ==
  SPP!KeysAssumption /\ SPP!GroupsAssumption /\ SPP!IASAssumption
  BY ProvisioningAssumption
     DEF SPP!KeysAssumption, SPP!GroupsAssumption, SPP!IASAssumption

LEMMA SameProperties ==
  /\ SPP!VkCommits => SP!VkCommits
  /\ SPP!Msg2Inv => SP!Msg2Inv
<1> USE DEF SP!SPSecret, SPP!SPSecret, SP!KeyNames, SPP!KeyNames
<1>1. \A name, s : SP!SPKey(name, s) = SPP!SPKey(name, s)
  BY Zenon DEF SP!SPKey, SPP!SPKey, SP!HashHalf, SPP!HashHalf, SP!CmacLabel,
     SPP!CmacLabel
<1>2. \A db : SP!Coherent(db) <=> SPP!Coherent(db)
  BY <1>1, Zenon DEF SP!Coherent, SPP!Coherent
<1>3. SPP!VkCommits => SP!VkCommits
  BY <1>1, <1>2, Zenon DEF SP!VkCommits, SPP!VkCommits
<1>4. SPP!Msg2Inv => SP!Msg2Inv
  BY <1>1, <1>2, Zenon DEF SP!Msg2Inv, SPP!Msg2Inv
<1>5. QED
  BY <1>3, <1>4

\* So its guarantees hold under this host too: every msg2 it hands out is for
\* one exchange, signed and authenticated with the keys of that exchange; the
\* verification key tells a whole session from a half-written one; and no key
\* pair is used for two of them.
THEOREM ProviderGuarantees ==
  PSpec => []SP!Msg2Inv /\ []SP!VkCommits /\ SP!FreshKeys
<1> DEFINE Fresh == p_resp' # NULL /\ p_resp' # p_resp /\ p_resp'.type = "MSG2"
                      => p_resp'.g_b > g_sp_db.b
<1>1. SP!SPInit => SPP!SPInv
  BY SameProvider, ProviderAssumed, SPP!SPInitInv
<1>2. SPP!SPInv /\ [SP!SPNext]_(SP!spvars) => SPP!SPInv'
  BY SameProvider, ProviderAssumed, SPP!SPInvNext
<1>3. SPP!SPInv => SP!Msg2Inv /\ SP!VkCommits
  BY SameProperties, ProviderAssumed, SPP!VkTells DEF SPP!SPInv
<1>4. SPP!SPInv /\ [SP!SPNext]_(SP!spvars) => [Fresh]_(SP!spvars)
  BY SameProvider, ProviderAssumed, SPP!FreshStep
<1>5. QED
  BY <1>1, <1>2, <1>3, <1>4, ProviderImplemented, PTL
     DEF SP!SPSpec, SP!FreshKeys
=============================================================================
