------------------------- MODULE SecretProvisioning -------------------------
(***************************************************************************)
(* The attestation enclave and the service provider under a host that      *)
(* makes their calls in any order and keeps every message: it may open     *)
(* several key exchanges in one enclave, deliver a message late, twice, to *)
(* the wrong enclave or in the wrong context, or deliver a garbled one,    *)
(* and the enclave may be lost and created again between any two calls.    *)
(*                                                                         *)
(* msg3 and the attestation result are beyond the code that is compiled:   *)
(* sp_ra_proc_msg3_req is commented out.  A provider that completes the    *)
(* exchange is external, and answers the msg3 of its current session with  *)
(* a result under the keys in g_sp_db, which is what the enclave's         *)
(* verify_att_result_mac and put_secret_data are written for.              *)
(***************************************************************************)
EXTENDS Integers

CONSTANTS
  Groups, GroupIds, PublicKeys, IASMayFail, MaxKeys,
  EnclaveIds,
  Slots,       \* bound: the sgx_ra_context_t values of one enclave
  MaxLosses,   \* bound: power transitions
  NULL

ASSUME ProvisioningAssumption ==
  /\ MaxLosses \in Nat /\ MaxKeys \in Nat
  /\ PublicKeys \subseteq Nat \ {0}
  /\ NULL \notin Groups \cup GroupIds
  /\ IASMayFail \in BOOLEAN

VARIABLES
  SUPPLIED_KEY_DERIVATION,
  g_is_sp_registered, g_sp_extended_epid_group_id, g_spid, g_sp_db, nkeys,
  net_ret, p_resp,                                  \* ServiceProvider
  enclaves, contexts, nga, g_secret,                \* EnclaveRA
  held,      \* the messages the host holds: msg2, msg3 and results
  reply,     \* the result ECALL just made and what it returned, or NULL
  losses

\* Each call names an enclave and a context in it.
ContextIds == EnclaveIds \X Slots
Home == [c \in ContextIds |-> c[1]]

SP == INSTANCE ServiceProvider
E  == INSTANCE EnclaveRA

sp   == <<g_is_sp_registered, g_sp_extended_epid_group_id, g_spid, g_sp_db,
          nkeys, net_ret, p_resp>>
encl == <<enclaves, contexts, nga, g_secret>>
pvars == <<SUPPLIED_KEY_DERIVATION, sp, encl, held, reply, losses>>

\* A result damaged on its way.
Garbled == [type |-> "RESULT", mac |-> SP!JunkKey,
            payload |-> [key |-> SP!JunkKey, plain |-> "other"]]

PInit ==
  /\ SP!SPInit /\ E!EnclaveInit
  /\ held = {Garbled}
  /\ reply = NULL
  /\ losses = 0

Held(type) == {m \in held : m.type = type}
-----------------------------------------------------------------------------
(* The host. *)

CreateEnclave(e) ==
  /\ enclaves[e] \in {"none", "lost"}
  /\ E!Create(e)
  /\ UNCHANGED <<sp, held, losses>> /\ reply' = NULL

\* A further key exchange in an enclave, whatever became of the others.
InitRA(c) ==
  /\ E!enclave_init_ra(c)
  /\ UNCHANGED <<sp, held, losses>> /\ reply' = NULL

CloseRA(c) ==
  /\ E!enclave_ra_close(c)
  /\ UNCHANGED <<sp, held, losses>> /\ reply' = NULL

\* msg1 gets the context's new public key.
GetGa(c) ==
  /\ nga + 1 \in PublicKeys
  /\ E!get_ga(c)
  /\ UNCHANGED <<sp, held, losses>> /\ reply' = NULL

SendMsg0 ==
  /\ \E gid \in GroupIds : SP!ProcMsg0(gid)
  /\ UNCHANGED <<encl, held, losses>> /\ reply' = NULL

\* The host keeps the provider's answer if it is a msg2.
SendMsg1 ==
  /\ \E g_a \in 1 .. nga : SP!ProcMsg1(g_a)
  /\ held' = held \cup ({p_resp'} \ {NULL})
  /\ UNCHANGED <<encl, losses>> /\ reply' = NULL

\* Any msg2 to any context, early or late; sgx_ra_proc_msg2_ex returns msg3.
ProcMsg2(c, msg2) ==
  /\ E!proc_msg2(c, msg2)
  /\ held' = held \cup {[type |-> "MSG3", g_a |-> contexts[c].a,
                         mac |-> contexts'[c].keys["smk"]]}
  /\ UNCHANGED <<sp, losses>> /\ reply' = NULL

Accepted(result, status) == IF status = "SUCCESS" THEN result ELSE NULL

VerifyResult(c, result) ==
  \E ok \in BOOLEAN : \E status \in E!verify_att_result_mac(c, result, ok) :
    /\ E!Alive(Home[c])
    /\ reply' = [call |-> "verify", c |-> c, gcm |-> NULL, status |-> status,
                 accepted |-> Accepted(result, status)]
    /\ UNCHANGED <<sp, encl, held, losses>>

PutSecret(c, result) ==
  \E ok \in BOOLEAN,
     gcm \in {NULL, "SUCCESS", "MAC_MISMATCH", "OUT_OF_MEMORY"},
     status \in {"SUCCESS", "INVALID_PARAMETER", "INVALID_STATE",
                "MAC_MISMATCH", "OUT_OF_MEMORY", "UNEXPECTED"} :
    /\ E!Alive(Home[c])
    /\ E!put_secret_data(c, result, ok, gcm, status)
    /\ reply' = [call |-> "put", c |-> c, gcm |-> gcm, status |-> status,
                 accepted |-> Accepted(result, status)]
    /\ UNCHANGED <<sp, held, losses>>

-----------------------------------------------------------------------------
\* The provider answers a msg3 of its current session: the platform info blob
\* under mk and, if the quote was good, the secret under sk: external.
IssueResult(msg3) ==
  /\ msg3.g_a = g_sp_db.g_a
  /\ msg3.mac = g_sp_db.smk
  /\ \E payload \in {[key |-> g_sp_db.sk, plain |-> "secret"],
                     [key |-> SP!ZeroKey, plain |-> "zero"]} :
       held' = held \cup {[type |-> "RESULT", mac |-> g_sp_db.mk,
                           payload |-> payload]}
  /\ UNCHANGED <<sp, encl, losses>> /\ reply' = NULL

PowerTransition ==
  /\ losses < MaxLosses
  /\ losses' = losses + 1
  /\ E!LoseAll
  /\ UNCHANGED <<sp, held>> /\ reply' = NULL

-----------------------------------------------------------------------------
ContextStep(c) ==
  \/ InitRA(c) \/ CloseRA(c) \/ GetGa(c)
  \/ \E msg2 \in Held("MSG2") : ProcMsg2(c, msg2)
  \/ \E result \in Held("RESULT") : VerifyResult(c, result)
  \/ \E result \in Held("RESULT") : PutSecret(c, result)

\* The host has read what the result ECALL returned, and may go on.
Return ==
  /\ reply # NULL
  /\ reply' = NULL
  /\ UNCHANGED <<sp, encl, held, losses>>

SystemStep ==
  /\ reply = NULL
  /\ \/ \E e \in EnclaveIds : CreateEnclave(e)
     \/ \E c \in ContextIds : ContextStep(c)
     \/ SendMsg0 \/ SendMsg1
     \/ \E msg3 \in Held("MSG3") : IssueResult(msg3)
     \/ PowerTransition

PNext == SP!SameBuild /\ (SystemStep \/ Return)

PSpec == PInit /\ [][PNext]_pvars
-----------------------------------------------------------------------------
\* The exchanges between the provider and the key pair of context c.
Exchanges(c) == {[a |-> contexts[c].a, b |-> b] : b \in 1 .. nkeys}

\* verify_att_result_mac succeeds only for a result that the provider made for
\* the key pair of the context it names, which is open: not for a garbled one,
\* nor for one of an earlier session, of another context of this enclave or of
\* another enclave, whatever was replayed, closed or lost in between.
ResultAuthentic ==
  reply # NULL /\ reply.call = "verify" /\ reply.status = "SUCCESS" =>
    /\ E!HasKeys(reply.c)
    /\ \E s \in Exchanges(reply.c) : reply.accepted.mac = SP!SPKey("mk", s)

\* put_secret_data succeeds only for a payload encrypted for this very session,
\* and then g_secret is the expected one: the buffer it compares is one for all
\* contexts of the enclave and may still hold the secret of an earlier call, in
\* this or in another of them, which must not stand in for this one's.
SecretAuthentic ==
  reply # NULL /\ reply.call = "put" /\ reply.status = "SUCCESS" =>
    /\ E!HasKeys(reply.c)
    /\ \E s \in Exchanges(reply.c) :
         reply.accepted.payload.key = SP!SPKey("sk", s)
    /\ g_secret[Home[reply.c]] = "secret"

\* g_secret is decrypted in place before it is validated: it becomes the secret
\* only in a call that reports success, never behind an error.
SecretOnlyBySuccess ==
  [][\A e \in EnclaveIds :
       g_secret[e] # "secret" /\ g_secret'[e] = "secret" =>
         /\ reply' # NULL
         /\ reply'.call = "put" /\ Home[reply'.c] = e
         /\ reply'.status = "SUCCESS"]_pvars

\* What put_secret_data's header says it returns: "Any error produced by the
\* AESGCM function."
GcmErrorReturned ==
  reply # NULL /\ reply.call = "put" /\ reply.gcm \notin {NULL, "SUCCESS"} =>
    reply.status = reply.gcm
-----------------------------------------------------------------------------
\* The session whose keys a context holds.
SessionOf(c) == IF E!HasKeys(c) THEN contexts[c].keys["sk"].secret ELSE NULL

KeptSessions == [c \in ContextIds |-> SessionOf(c)]

\* A context confirms a session with its msg3; the provider issues the secret
\* with a result.
Confirmed == {m.mac.secret : m \in Held("MSG3")}
Issued    == {m.payload.key.secret :
                m \in {r \in Held("RESULT") : r.payload.plain = "secret"}}
Delivered == [e \in EnclaveIds |-> g_secret[e] = "secret"]

\* Delivery of the secret, read off the contexts and the messages.
D == INSTANCE SecretDelivery WITH
       Sessions  <- [a : PublicKeys, b : 1 .. MaxKeys],
       session   <- KeptSessions,
       confirmed <- Confirmed,
       issued    <- Issued,
       delivered <- Delivered

\* Whatever the host replays, swaps or garbles, and whatever request failed half
\* way in the provider, the secret reaches an enclave only through a session that
\* a context of it confirmed, that the provider issued the secret to, and that is
\* still open.
DeliveredInSession == D!DSpec
=============================================================================
