--------------------------- MODULE ServiceProvider ---------------------------
(***************************************************************************)
(* The service provider of the remote attestation sample, as its client    *)
(* sees it: ra_network_send_receive (network_ra.cpp) dispatching to        *)
(* sp_ra_proc_msg0_req and sp_ra_proc_msg1_req (service_provider.cpp), and *)
(* the attestation server functions they call through the extended EPID    *)
(* group table (ias_ra.cpp).  The calls are synchronous, so a request is   *)
(* one step; what makes it hard is that any call inside a handler may fail *)
(* after g_sp_db was partly overwritten, and that clients send requests in *)
(* any order.                                                              *)
(***************************************************************************)
EXTENDS Integers, KeyExchange

CONSTANTS
  Groups,      \* the ids of g_extended_epid_groups
  GroupIds,    \* the group ids a msg0 may carry
  PublicKeys,  \* the g_a a msg1 may carry
  IASMayFail,  \* the attestation server's functions may report an error; the
               \* simulation in ias_ra.cpp never does
  MaxKeys,     \* bound: ECDH key pairs the provider generates
  NULL

ASSUME GroupsAssumption == NULL \notin Groups \cup GroupIds
ASSUME KeysAssumption == PublicKeys \subseteq Nat \ {0} /\ MaxKeys \in Nat
ASSUME IASAssumption == IASMayFail \in BOOLEAN

VARIABLES
  g_is_sp_registered,
  g_sp_extended_epid_group_id,  \* a group of the table, or NULL
  g_spid,                       \* NULL until enrolled
  g_sp_db,                      \* the session's keys, zero at first
  nkeys,                        \* key pairs generated so far
  net_ret,                      \* what ra_network_send_receive returned
  p_resp                        \* the response it handed out, or NULL

spState == <<g_is_sp_registered, g_sp_extended_epid_group_id, g_spid>>
spvars  == <<g_is_sp_registered, g_sp_extended_epid_group_id, g_spid, g_sp_db,
             nkeys, net_ret, p_resp, SUPPLIED_KEY_DERIVATION>>

ZeroKey == [label |-> "zero"]   \* a key of g_sp_db that was never derived
JunkKey == [label |-> "junk"]   \* a key whose derivation failed half way

\* sp_ra_msg_status_t, and the -1 of malformed requests
SP_OK == 0
SP_UNSUPPORTED_EXTENDED_EPID_GROUP == 1
SP_IAS_FAILED == 4
SP_INTERNAL_ERROR == 5
BAD_REQUEST == -1

SPInit ==
  /\ AnyBuild
  /\ g_is_sp_registered = FALSE
  /\ g_sp_extended_epid_group_id = NULL
  /\ g_spid = NULL
  /\ g_sp_db = [g_a |-> 0, b |-> 0, g_b |-> 0, smk |-> ZeroKey,
                mk |-> ZeroKey, sk |-> ZeroKey, vk |-> ZeroKey]
  /\ nkeys = 0
  /\ net_ret = 0
  /\ p_resp = NULL

\* A handler's epilogue and the dispatcher's: a response only with SP_OK.
Answer(ret, resp) ==
  /\ net_ret' = ret
  /\ p_resp' = IF ret = SP_OK THEN resp ELSE NULL

\* A malformed request, an unknown type, or TYPE_RA_MSG3, whose case is
\* commented out: -1, and nothing else happens.
Reject ==
  /\ Answer(BAD_REQUEST, NULL)
  /\ UNCHANGED <<spState, g_sp_db, nkeys>>

-----------------------------------------------------------------------------
(* sp_ra_proc_msg0_req *)

Msg0Resp == [type |-> "MSG0"]

\* What ias_enroll and ias_get_sigrl return.
ias_returns == IF IASMayFail THEN {0, 1} ELSE {0}

\* The lookup in g_extended_epid_groups.
Supported(gid) == gid \in Groups

\* The provider (re)configures itself for group gid.
MustConfigure(gid) ==
  \/ ~g_is_sp_registered
  \/ /\ g_sp_extended_epid_group_id # NULL
     /\ g_sp_extended_epid_group_id # gid

\* The rest of the handler: the response cannot be allocated, or msg0 passes,
\* whether or not the group was found in the table.
RespondMsg0 == \E ret \in {SP_OK, SP_INTERNAL_ERROR} : Answer(ret, Msg0Resp)

\* The group is already configured, or is not in the table.
Msg0Keep(gid) ==
  /\ ~(MustConfigure(gid) /\ Supported(gid))
  /\ RespondMsg0
  /\ UNCHANGED <<spState, g_sp_db, nkeys>>

\* Mutant: the group is not looked up in the table.
MutMsg0Enroll(gid) ==
  /\ MustConfigure(gid)
  /\ g_sp_extended_epid_group_id' = gid
  /\ g_spid' = gid
  /\ g_is_sp_registered' = TRUE
  /\ RespondMsg0
  /\ UNCHANGED <<g_sp_db, nkeys>>

Msg0Enroll(gid) ==
  /\ MustConfigure(gid) /\ Supported(gid)
  /\ g_sp_extended_epid_group_id' = gid
  /\ g_spid' = gid                       \* the SPID enroll() hands out
  /\ g_is_sp_registered' = TRUE
  /\ RespondMsg0
  /\ UNCHANGED <<g_sp_db, nkeys>>

\* Mutant: registered before enrolling.
MutMsg0EnrollFails(gid) ==
  /\ \E r \in ias_returns : r # 0
  /\ MustConfigure(gid) /\ Supported(gid)
  /\ g_sp_extended_epid_group_id' = gid
  /\ g_is_sp_registered' = TRUE
  /\ Answer(SP_IAS_FAILED, NULL)
  /\ UNCHANGED <<g_spid, g_sp_db, nkeys>>

\* enroll() fails: the group pointer is already set, registration is not.
Msg0EnrollFails(gid) ==
  /\ \E r \in ias_returns : r # 0
  /\ MustConfigure(gid) /\ Supported(gid)
  /\ g_sp_extended_epid_group_id' = gid
  /\ Answer(SP_IAS_FAILED, NULL)
  /\ UNCHANGED <<g_is_sp_registered, g_spid, g_sp_db, nkeys>>

ProcMsg0(gid) == Msg0Keep(gid) \/ Msg0Enroll(gid) \/ Msg0EnrollFails(gid)

-----------------------------------------------------------------------------
(* sp_ra_proc_msg1_req: its calls that may fail, in order.  A call numbered *)
(* below the failing one succeeded; Done means that none failed.            *)

OpenContext == 1
KeyPair     == 2
ComputeDH   == 3
GetSigRL    == 4
Malloc      == 9
Sign        == 10
Cmac        == 11
Done        == 12

\* Mutant: the verification key is derived first.
MutDerive(name) ==
  CASE name = "smk" -> 6
    [] name = "mk"  -> IF SUPPLIED_KEY_DERIVATION THEN 5 ELSE 7
    [] name = "sk"  -> IF SUPPLIED_KEY_DERIVATION THEN 6 ELSE 8
    [] name = "vk"  -> 5

\* The derive_key call that writes each key.  SUPPLIED_KEY_DERIVATION derives
\* smk with sk and mk with vk, the default derives smk, mk, sk and vk in turn.
Derive(name) ==
  CASE name = "smk" -> 5
    [] name = "mk"  -> 6
    [] name = "sk"  -> IF SUPPLIED_KEY_DERIVATION THEN 5 ELSE 7
    [] name = "vk"  -> IF SUPPLIED_KEY_DERIVATION THEN 6 ELSE 8

Calls == {OpenContext, KeyPair, ComputeDH, Malloc, Sign, Cmac, Done}
         \cup {Derive(name) : name \in KeyNames}
         \cup {GetSigRL : r \in ias_returns \ {0}}

Msg1Status(failing) ==
  CASE failing = Done        -> SP_OK
    [] failing = OpenContext -> BAD_REQUEST
    [] failing = GetSigRL    -> SP_IAS_FAILED
    [] OTHER                 -> SP_INTERNAL_ERROR

\* Mutant: the key pair is generated once and kept.
MutDbAfter(g_a, failing, scribbled) ==
  LET b == IF failing > KeyPair /\ g_sp_db.b = 0 THEN nkeys + 1 ELSE g_sp_db.b
      Key(name) ==
        IF failing > Derive(name) THEN SPKey(name, SPSecret(b, g_a))
        ELSE IF failing = Derive(name) /\ scribbled THEN JunkKey
        ELSE g_sp_db[name]
  IN  [g_a |-> g_a, b |-> b, g_b |-> b,
       smk |-> Key("smk"), mk |-> Key("mk"), sk |-> Key("sk"), vk |-> Key("vk")]

\* g_sp_db when the call "failing" fails while msg1 carries g_a: everything
\* written before it is new, everything after it is left from earlier requests.
\* A failed default derivation may have scribbled over its own key.
DbAfter(g_a, failing, scribbled) ==
  LET b == IF failing > KeyPair THEN nkeys + 1 ELSE g_sp_db.b
      Key(name) ==
        IF failing > Derive(name) THEN SPKey(name, SPSecret(b, g_a))
        ELSE IF failing = Derive(name) /\ scribbled THEN JunkKey
        ELSE g_sp_db[name]
  IN  [g_a |-> g_a, b |-> b,
       g_b |-> IF failing > KeyPair THEN b ELSE g_sp_db.g_b,
       smk |-> Key("smk"), mk |-> Key("mk"), sk |-> Key("sk"), vk |-> Key("vk")]

\* msg2, assembled from the database.  Quote type and SigRL are constants.
Msg2(db) ==
  LET sign == [g_b |-> db.g_b, g_a |-> db.g_a]
  IN  [type |-> "MSG2", g_b |-> db.g_b, spid |-> g_spid, kdf_id |-> KdfId,
       sign_gb_ga |-> sign,
       mac |-> [key |-> db.smk, g_b |-> db.g_b, spid |-> g_spid,
                kdf_id |-> KdfId, sign_gb_ga |-> sign]]

\* Mutant: msg1 is served before registration.
MutMsg1Unregistered ==
  /\ ~g_is_sp_registered
  /\ nkeys < MaxKeys
  /\ \E g_a \in PublicKeys :
       /\ g_sp_db' = DbAfter(g_a, Done, FALSE)
       /\ Answer(SP_OK, Msg2(g_sp_db'))
  /\ nkeys' = nkeys + 1
  /\ UNCHANGED spState

Msg1Unregistered ==
  /\ ~g_is_sp_registered
  /\ Answer(SP_UNSUPPORTED_EXTENDED_EPID_GROUP, NULL)
  /\ UNCHANGED <<spState, g_sp_db, nkeys>>

\* Mutant: msg2 is assembled from the database before this request.
MutMsg1(g_a) ==
  /\ g_is_sp_registered
  /\ nkeys < MaxKeys
  /\ \E failing \in Calls :
       /\ g_sp_db' = DbAfter(g_a, failing, FALSE)
       /\ nkeys' = IF failing > KeyPair THEN nkeys + 1 ELSE nkeys
       /\ Answer(Msg1Status(failing), Msg2(g_sp_db))
  /\ UNCHANGED spState

Msg1(g_a) ==
  /\ g_is_sp_registered
  /\ nkeys < MaxKeys
  /\ \E failing \in Calls, scribbled \in BOOLEAN :
       /\ scribbled =>
            /\ ~SUPPLIED_KEY_DERIVATION
            /\ failing \in {Derive(name) : name \in KeyNames}
       /\ g_sp_db' = DbAfter(g_a, failing, scribbled)
       /\ nkeys' = IF failing > KeyPair THEN nkeys + 1 ELSE nkeys
       /\ Answer(Msg1Status(failing), Msg2(g_sp_db'))
  /\ UNCHANGED spState

ProcMsg1(g_a) == Msg1Unregistered \/ Msg1(g_a)

-----------------------------------------------------------------------------
SPNext ==
  /\ SameBuild
  /\ \/ Reject
     \/ \E gid \in GroupIds : ProcMsg0(gid)
     \/ \E g_a \in PublicKeys : ProcMsg1(g_a)

SPSpec == SPInit /\ [][SPNext]_spvars
-----------------------------------------------------------------------------
Secrets == [a : PublicKeys \cup {0}, b : 0 .. MaxKeys]
KeyVals == {ZeroKey, JunkKey}
           \cup {SPKey(name, s) : name \in KeyNames, s \in Secrets}

\* Type invariant of the provider.
SPTypeOK ==
  /\ g_is_sp_registered \in BOOLEAN
  /\ g_sp_extended_epid_group_id \in Groups \cup {NULL}
  /\ g_spid \in Groups \cup {NULL}
  /\ g_sp_db \in [g_a : PublicKeys \cup {0}, b : 0 .. MaxKeys,
                  g_b : 0 .. MaxKeys, smk : KeyVals, mk : KeyVals,
                  sk : KeyVals, vk : KeyVals]
  /\ nkeys \in 0 .. MaxKeys
  /\ net_ret \in {SP_OK, SP_UNSUPPORTED_EXTENDED_EPID_GROUP, SP_IAS_FAILED,
                  SP_INTERNAL_ERROR, BAD_REQUEST}

\* The four keys of the database all come from its key pair and its g_a.
Coherent(db) ==
  \A name \in KeyNames : db[name] = SPKey(name, SPSecret(db.b, db.g_a))

\* msg1 dereferences the group pointer and copies g_spid with no test but
\* g_is_sp_registered: a registered provider has both, from the same group,
\* whatever enrolments failed before.
RegisteredInv ==
  g_is_sp_registered =>
    /\ g_sp_extended_epid_group_id \in Groups
    /\ g_spid = g_sp_extended_epid_group_id

\* A handler that fails half way leaves a database that mixes two sessions.
\* The verification key, which is derived last, tells: if it belongs to the
\* stored g_a and b, so do all the keys.
VkCommits ==
  g_sp_db.vk = SPKey("vk", SPSecret(g_sp_db.b, g_sp_db.g_a))
    => Coherent(g_sp_db)

\* Every msg2 that leaves the provider comes from a registered provider, carries
\* the stored g_b, signs it together with the g_a the client sent, and is
\* authenticated under the smk of exactly that exchange.
Msg2Inv ==
  p_resp # NULL /\ p_resp.type = "MSG2" =>
    /\ g_is_sp_registered
    /\ Coherent(g_sp_db)
    /\ g_sp_db.g_b = g_sp_db.b
    /\ p_resp.spid \in Groups
    /\ p_resp.sign_gb_ga = [g_b |-> g_sp_db.b, g_a |-> g_sp_db.g_a]
    /\ p_resp.mac = [key |-> SPKey("smk", SPSecret(p_resp.g_b, g_sp_db.g_a)),
                     g_b |-> p_resp.g_b, spid |-> p_resp.spid,
                     kdf_id |-> p_resp.kdf_id,
                     sign_gb_ga |-> p_resp.sign_gb_ga]

\* Ephemeral keys are never reused: a msg2 that answers a later request carries
\* a g_b that no earlier request, answered or failed, stored.
FreshKeys ==
  [][p_resp' # NULL /\ p_resp' # p_resp /\ p_resp'.type = "MSG2"
       => p_resp'.g_b > g_sp_db.b]_spvars
=============================================================================
