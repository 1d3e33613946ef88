------------------------- MODULE ServiceProviderProofs -------------------------
(***************************************************************************)
(* Proofs about ServiceProvider, for any group table, any group ids and    *)
(* public keys a client may send, any number of requests, both builds.     *)
(*                                                                         *)
(* DbInv is the strengthening: the stored g_b belongs to the stored b, no  *)
(* stored key is newer than the last key pair, and a verification key of   *)
(* the stored key pair brings the other three keys of its secret with it,  *)
(* even if a failed request has replaced g_a since.                        *)
(***************************************************************************)
EXTENDS ServiceProvider, TLAPS

\* What a key of the database may be: never derived, scribbled over, or derived
\* under its own name from one of the key pairs generated so far.
StoredKey(name, key) ==
  \/ key \in {ZeroKey, JunkKey}
  \/ \E s \in [a : PublicKeys \cup {0}, b : 0 .. nkeys] : key = SPKey(name, s)

\* The key pair of the database is one that was generated, with its public key.
PairInv ==
  /\ g_sp_db.b \in 0 .. nkeys
  /\ g_sp_db.g_b = g_sp_db.b

KeysInv == \A name \in KeyNames : StoredKey(name, g_sp_db[name])

\* A verification key of the stored key pair, whatever g_a it was derived with.
VkInv ==
  \A s \in Secrets :
    s.b = g_sp_db.b /\ g_sp_db.vk = SPKey("vk", s)
      => \A name \in KeyNames : g_sp_db[name] = SPKey(name, s)

\* A registered provider has a group and an SPID of the table.
HasGroup ==
  g_is_sp_registered => g_sp_extended_epid_group_id \in Groups /\ g_spid \in Groups

DbInv == PairInv /\ KeysInv /\ VkInv

SPInv == SPTypeOK /\ HasGroup /\ DbInv /\ Msg2Inv
-----------------------------------------------------------------------------
(* Keys. *)

\* derive_key hashes its whole input: equal keys of one name have equal secrets,
\* and no derived key is zero or junk.
LEMMA SPKeyDistinct ==
  ASSUME NEW name \in KeyNames, NEW s, NEW t
  PROVE  /\ SPKey(name, s) = SPKey(name, t) => s = t
         /\ SPKey(name, s) # ZeroKey
         /\ SPKey(name, s) # JunkKey
<1>1. ASSUME NEW u PROVE "secret" \in DOMAIN SPKey(name, u)
                         /\ SPKey(name, u).secret = u
  BY DEF KeyNames, SPKey, HashHalf, CmacLabel
<1>2. "secret" \notin DOMAIN ZeroKey /\ "secret" \notin DOMAIN JunkKey
  BY DEF ZeroKey, JunkKey
<1>3. QED
  BY <1>1, <1>2

\* One build for both sides and for ever: a step derives the same keys.
LEMMA SPKeyKept ==
  ASSUME SameBuild, NEW name, NEW s
  PROVE  SPKey(name, s)' = SPKey(name, s)
  BY DEF SameBuild, SPKey

\* The verification key is derived last, after the ECDH secret, in both builds.
LEMMA DeriveOrder ==
  \A name \in KeyNames :
    /\ Derive(name) \in 5 .. 8
    /\ Derive(name) <= Derive("vk")
  BY DEF KeyNames, Derive

\* What sp_ra_proc_msg1_req leaves in each key of the database.
LEMMA DbAfterKeys ==
  ASSUME NEW g_a, NEW failing, NEW scribbled, NEW name \in KeyNames
  PROVE  DbAfter(g_a, failing, scribbled)[name] =
           IF failing > Derive(name)
           THEN SPKey(name, SPSecret(IF failing > KeyPair THEN nkeys + 1
                                     ELSE g_sp_db.b, g_a))
           ELSE IF failing = Derive(name) /\ scribbled THEN JunkKey
           ELSE g_sp_db[name]
  BY DEF KeyNames, DbAfter

\* The numbers of the calls that may fail.
LEMMA CallsRange == Calls \subseteq 1 .. 12
  BY DeriveOrder DEF Calls, OpenContext, KeyPair, ComputeDH, GetSigRL, Malloc,
                     Sign, Cmac, Done
-----------------------------------------------------------------------------
(* The initial state, and what a step does to the database. *)

LEMMA SPInitInv == SPInit => SPInv
<1> SUFFICES ASSUME SPInit PROVE SPInv
  OBVIOUS
<1>1. SPTypeOK
  <2>1. ZeroKey \in KeyVals
    BY DEF KeyVals
  <2>2. 0 \in 0 .. MaxKeys /\ 0 \in PublicKeys \cup {0}
    BY KeysAssumption
  <2>3. g_sp_db \in [g_a : PublicKeys \cup {0}, b : 0 .. MaxKeys,
                     g_b : 0 .. MaxKeys, smk : KeyVals, mk : KeyVals,
                     sk : KeyVals, vk : KeyVals]
    BY <2>1, <2>2 DEF SPInit
  <2>4. QED
    BY <2>2, <2>3 DEF SPInit, SPTypeOK, SP_OK
<1>2. HasGroup /\ PairInv /\ KeysInv
  BY DEF SPInit, HasGroup, PairInv, KeysInv, StoredKey, KeyNames
<1>3. VkInv
  BY SPKeyDistinct DEF SPInit, VkInv, KeyNames
<1>4. Msg2Inv
  BY DEF SPInit, Msg2Inv
<1>5. QED
  BY <1>1, <1>2, <1>3, <1>4 DEF SPInv, DbInv

\* A step that leaves the database alone keeps what is known of it.
LEMMA DbUntouched ==
  ASSUME DbInv, SameBuild, UNCHANGED <<g_sp_db, nkeys>>
  PROVE  DbInv'
<1>1. PairInv'
  BY DEF DbInv, PairInv
<1>2. KeysInv'
  BY SPKeyKept DEF DbInv, KeysInv, StoredKey, ZeroKey, JunkKey
<1>3. VkInv'
  BY SPKeyKept DEF DbInv, VkInv, Secrets, KeyNames
<1>4. QED
  BY <1>1, <1>2, <1>3 DEF DbInv

\* msg1 up to its failing call, as Msg1 and the lemmas below use it.
Serves(g_a, failing, scribbled) ==
  /\ g_sp_db' = DbAfter(g_a, failing, scribbled)
  /\ nkeys' = IF failing > KeyPair THEN nkeys + 1 ELSE nkeys

\* The b that a request failing at that call leaves in the database.
NewB(failing) == IF failing > KeyPair THEN nkeys + 1 ELSE g_sp_db.b

\* A request leaves the key pair and the public key of the same number.
LEMMA PairServed ==
  ASSUME SPTypeOK, PairInv, NEW g_a \in PublicKeys, NEW failing \in Calls,
         NEW scribbled \in BOOLEAN, Serves(g_a, failing, scribbled)
  PROVE  /\ PairInv'
         /\ g_sp_db'.b = NewB(failing) /\ g_sp_db'.g_a = g_a
         /\ nkeys <= nkeys' /\ nkeys' \in Nat
BY KeysAssumption DEF PairInv, Serves, DbAfter, SPTypeOK, NewB

\* The key of each name after a request that failed at the given call.
LEMMA KeyServed ==
  ASSUME SameBuild, NEW g_a \in PublicKeys, NEW failing \in Calls,
         NEW scribbled \in BOOLEAN, Serves(g_a, failing, scribbled),
         NEW name \in KeyNames
  PROVE  /\ failing > Derive(name) =>
              /\ failing > KeyPair
              /\ g_sp_db'[name] = SPKey(name, SPSecret(nkeys + 1, g_a))
         /\ ~(failing > Derive(name)) =>
              g_sp_db'[name] \in {g_sp_db[name], JunkKey}
<1>1. Derive(name) \in 5 .. 8 /\ failing \in 1 .. 12
  BY DeriveOrder, CallsRange
<1>2. failing > Derive(name) => failing > KeyPair
  BY <1>1 DEF KeyPair
<1>3. QED
  BY <1>2, DbAfterKeys DEF Serves

\* Keys stay derived from generated key pairs, zero or junk.
LEMMA KeysServed ==
  ASSUME SPTypeOK, PairInv, KeysInv, SameBuild,
         NEW g_a \in PublicKeys, NEW failing \in Calls,
         NEW scribbled \in BOOLEAN, Serves(g_a, failing, scribbled)
  PROVE  KeysInv'
<1> SUFFICES ASSUME NEW name \in KeyNames
             PROVE  StoredKey(name, g_sp_db[name])'
  BY DEF KeysInv
<1>1. CASE failing > Derive(name)
  <2>1. nkeys' = nkeys + 1
    BY <1>1, KeyServed DEF Serves
  <2>2. PICK s \in [a : PublicKeys \cup {0}, b : 0 .. nkeys'] :
               s = SPSecret(nkeys + 1, g_a)
    <3>1. nkeys + 1 \in 0 .. nkeys'
      BY <2>1 DEF SPTypeOK
    <3>2. SPSecret(nkeys + 1, g_a) \in [a : PublicKeys \cup {0}, b : 0 .. nkeys']
      BY <3>1 DEF SPSecret
    <3>3. QED
      BY <3>2
  <2>3. g_sp_db'[name] = SPKey(name, s)'
    BY <1>1, <2>2, KeyServed, SPKeyKept
  <2>4. QED
    BY <2>3 DEF StoredKey
<1>2. CASE ~(failing > Derive(name))
  <2>1. CASE g_sp_db'[name] = JunkKey
    BY <2>1 DEF StoredKey, JunkKey
  <2>2. CASE g_sp_db'[name] = g_sp_db[name]
    <3>1. StoredKey(name, g_sp_db[name])
      BY DEF KeysInv
    <3>2. CASE g_sp_db[name] \in {ZeroKey, JunkKey}
      BY <3>2, <2>2 DEF StoredKey, ZeroKey, JunkKey
    <3>3. CASE \E s \in [a : PublicKeys \cup {0}, b : 0 .. nkeys] :
                  g_sp_db[name] = SPKey(name, s)
      <4>1. PICK s \in [a : PublicKeys \cup {0}, b : 0 .. nkeys] :
                   g_sp_db[name] = SPKey(name, s)
        BY <3>3
      <4>2. s \in [a : PublicKeys \cup {0}, b : 0 .. nkeys']
        BY PairServed DEF SPTypeOK
      <4>3. g_sp_db'[name] = SPKey(name, s)'
        BY <2>2, <4>1, SPKeyKept
      <4>4. QED
        BY <4>2, <4>3 DEF StoredKey
    <3>4. QED
      BY <3>1, <3>2, <3>3 DEF StoredKey
  <2>3. QED
    BY <1>2, <2>1, <2>2, KeyServed
<1>3. QED
  BY <1>1, <1>2

\* After a request whose four derivations all succeeded, the whole database
\* belongs to it.
LEMMA CoherentServed ==
  ASSUME SPTypeOK, PairInv, SameBuild, NEW g_a \in PublicKeys,
         NEW failing \in Calls, NEW scribbled \in BOOLEAN,
         Serves(g_a, failing, scribbled), failing > Derive("vk")
  PROVE  /\ g_sp_db'.b = nkeys + 1
         /\ \A name \in KeyNames :
              g_sp_db'[name] = SPKey(name, SPSecret(nkeys + 1, g_a))
<1>1. \A name \in KeyNames : failing > Derive(name)
  BY DeriveOrder, CallsRange DEF KeyNames
<1>2. \A name \in KeyNames :
         /\ failing > KeyPair
         /\ g_sp_db'[name] = SPKey(name, SPSecret(nkeys + 1, g_a))
  BY <1>1, KeyServed
<1>3. failing > KeyPair
  BY <1>2 DEF KeyNames
<1>4. QED
  BY <1>2, <1>3, PairServed DEF NewB

\* A verification key of the stored key pair still brings the others with it.
LEMMA VkServed ==
  ASSUME SPTypeOK, DbInv, SameBuild, NEW g_a \in PublicKeys,
         NEW failing \in Calls, NEW scribbled \in BOOLEAN,
         Serves(g_a, failing, scribbled)
  PROVE  VkInv'
<1> USE DEF DbInv
<1> SUFFICES ASSUME NEW s \in Secrets,
                    s.b = g_sp_db'.b, g_sp_db'.vk = SPKey("vk", s)
             PROVE  \A name \in KeyNames : g_sp_db'[name] = SPKey(name, s)
  BY SPKeyKept DEF VkInv, Secrets, KeyNames
<1>0. "vk" \in KeyNames
  BY DEF KeyNames
<1>1. CASE failing > Derive("vk")
  <2>1. g_sp_db'.vk = SPKey("vk", SPSecret(nkeys + 1, g_a))
    BY <1>0, <1>1, CoherentServed
  <2>2. s = SPSecret(nkeys + 1, g_a)
    BY <1>0, <2>1, SPKeyDistinct
  <2>3. QED
    BY <1>1, <2>2, CoherentServed
<1>2. CASE ~(failing > Derive("vk"))
  <2>1. g_sp_db.vk = SPKey("vk", s)
    BY <1>0, <1>2, KeyServed, SPKeyDistinct
  <2>2. s.b <= nkeys
    <3>1. StoredKey("vk", g_sp_db.vk)
      BY <1>0 DEF KeysInv
    <3>2. PICK t \in [a : PublicKeys \cup {0}, b : 0 .. nkeys] :
                 g_sp_db.vk = SPKey("vk", t)
      BY <1>0, <2>1, <3>1, SPKeyDistinct DEF StoredKey
    <3>3. s = t
      BY <1>0, <2>1, <3>2, SPKeyDistinct
    <3>4. QED
      BY <3>2, <3>3 DEF SPTypeOK
  <2>3. s.b = g_sp_db.b /\ ~(failing > KeyPair)
    BY <2>2, PairServed DEF NewB, SPTypeOK
  <2>4. \A name \in KeyNames : g_sp_db[name] = SPKey(name, s)
    BY <2>1, <2>3 DEF VkInv
  <2>5. failing \in 1 .. 2
    BY <2>3, CallsRange DEF KeyPair
  <2>6. \A name \in KeyNames : g_sp_db'[name] = g_sp_db[name]
    BY <2>5, DeriveOrder, DbAfterKeys DEF Serves
  <2>7. QED
    BY <2>4, <2>6
<1>3. QED
  BY <1>1, <1>2

\* The database keeps its type: key pairs are bounded by MaxKeys.
LEMMA TypeServed ==
  ASSUME SPTypeOK, DbInv, SameBuild, nkeys < MaxKeys,
         NEW g_a \in PublicKeys, NEW failing \in Calls,
         NEW scribbled \in BOOLEAN, Serves(g_a, failing, scribbled)
  PROVE  /\ nkeys' \in 0 .. MaxKeys
         /\ g_sp_db' \in [g_a : PublicKeys \cup {0}, b : 0 .. MaxKeys,
                          g_b : 0 .. MaxKeys, smk : KeyVals, mk : KeyVals,
                          sk : KeyVals, vk : KeyVals]'
<1>1. nkeys' \in 0 .. MaxKeys
  BY KeysAssumption DEF SPTypeOK, Serves
<1>2. PairInv' /\ g_sp_db'.g_a = g_a /\ KeysInv'
  BY PairServed, KeysServed DEF DbInv
<1>3. \A name \in KeyNames : g_sp_db'[name] \in KeyVals'
  <2> SUFFICES ASSUME NEW name \in KeyNames
               PROVE  g_sp_db'[name] \in KeyVals'
    OBVIOUS
  <2>1. StoredKey(name, g_sp_db[name])'
    BY <1>2 DEF KeysInv
  <2>2. CASE \E s \in [a : PublicKeys \cup {0}, b : 0 .. nkeys'] :
                g_sp_db'[name] = SPKey(name, s)'
    <3>1. PICK s \in [a : PublicKeys \cup {0}, b : 0 .. nkeys'] :
                 g_sp_db'[name] = SPKey(name, s)'
      BY <2>2
    <3>2. s \in Secrets
      BY <1>1, KeysAssumption DEF Secrets
    <3>3. QED
      BY <3>1, <3>2 DEF KeyVals, Secrets
  <2>3. QED
    BY <2>1, <2>2 DEF StoredKey, KeyVals
<1>4. g_sp_db'.b \in 0 .. MaxKeys /\ g_sp_db'.g_b \in 0 .. MaxKeys
  BY <1>1, <1>2, KeysAssumption DEF PairInv
<1>5. g_sp_db' = [g_a |-> g_sp_db'.g_a, b |-> g_sp_db'.b, g_b |-> g_sp_db'.g_b,
                  smk |-> g_sp_db'.smk, mk |-> g_sp_db'.mk,
                  sk |-> g_sp_db'.sk, vk |-> g_sp_db'.vk]
  BY DEF Serves, DbAfter
<1>6. QED
  BY <1>1, <1>2, <1>3, <1>4, <1>5 DEF KeyNames
-----------------------------------------------------------------------------
(* The handlers. *)

\* What a handler's answer is: a status of the interface and, with any status
\* but SP_OK, no response.
LEMMA AnswerFacts ==
  ASSUME NEW ret, NEW resp, Answer(ret, resp)
  PROVE  /\ net_ret' = ret
         /\ p_resp' # NULL => ret = SP_OK /\ p_resp' = resp
  BY DEF Answer

\* msg0 never touches the session database, and its response is not a msg2.
LEMMA Msg0Step ==
  ASSUME SPInv, SameBuild, NEW gid \in GroupIds, ProcMsg0(gid)
  PROVE  /\ SPInv'
         /\ p_resp' # NULL => p_resp'.type = "MSG0"
<1> USE DEF SPInv, SPTypeOK, HasGroup
<1>1. UNCHANGED <<g_sp_db, nkeys>>
  BY DEF ProcMsg0, Msg0Keep, Msg0Enroll, Msg0EnrollFails
<1>2. DbInv'
  BY <1>1, DbUntouched
<1>3. /\ net_ret' \in {SP_OK, SP_INTERNAL_ERROR, SP_IAS_FAILED}
      /\ p_resp' # NULL => p_resp' = Msg0Resp
  BY DEF ProcMsg0, Msg0Keep, Msg0Enroll, Msg0EnrollFails, RespondMsg0, Answer
<1>4. p_resp' # NULL => p_resp'.type = "MSG0"
  BY <1>3 DEF Msg0Resp
<1>5. Msg2Inv'
  BY <1>4 DEF Msg2Inv
<1>6. HasGroup'
  BY DEF ProcMsg0, Msg0Keep, Msg0Enroll, Msg0EnrollFails, Supported, spState
<1>7. KeyVals' = KeyVals
  BY SPKeyKept DEF KeyVals, ZeroKey, JunkKey, Secrets, KeyNames
<1>8. SPTypeOK'
  <2>1. /\ g_is_sp_registered' \in BOOLEAN
        /\ g_sp_extended_epid_group_id' \in Groups \cup {NULL}
        /\ g_spid' \in Groups \cup {NULL}
    BY DEF ProcMsg0, Msg0Keep, Msg0Enroll, Msg0EnrollFails, Supported, spState
  <2>2. QED
    BY <1>1, <1>3, <1>7, <2>1
<1>9. QED
  BY <1>2, <1>4, <1>5, <1>6, <1>8

\* Every msg1, served or not, keeps the invariant; a msg2 that leaves carries a
\* key pair younger than any that was generated before.
LEMMA Msg1Step ==
  ASSUME SPInv, SameBuild, NEW g_a \in PublicKeys, Msg1(g_a)
  PROVE  /\ SPInv'
         /\ p_resp' # NULL => p_resp'.g_b = nkeys + 1 /\ nkeys' = nkeys + 1
<1> USE DEF SPInv
<1>1. PICK failing \in Calls, scribbled \in BOOLEAN :
         /\ Serves(g_a, failing, scribbled)
         /\ Answer(Msg1Status(failing), Msg2(g_sp_db'))
  BY DEF Msg1, Serves
<1>2. nkeys < MaxKeys /\ g_is_sp_registered /\ UNCHANGED spState
  BY DEF Msg1
<1>3. DbInv'
  BY <1>1, PairServed, KeysServed, VkServed DEF DbInv
<1>4. Msg1Status(failing) \in {SP_OK, SP_IAS_FAILED, SP_INTERNAL_ERROR, BAD_REQUEST}
  BY DEF Msg1Status
<1>5. SPTypeOK'
  BY <1>1, <1>2, <1>4, TypeServed, AnswerFacts DEF SPTypeOK, spState
<1>6. HasGroup'
  BY <1>2 DEF HasGroup, spState
<1>7. ASSUME p_resp' # NULL
      PROVE  /\ Msg2Inv'
             /\ p_resp'.g_b = nkeys + 1 /\ nkeys' = nkeys + 1
  <2>1. failing = Done /\ p_resp' = Msg2(g_sp_db')
    <3>1. Msg1Status(failing) = SP_OK /\ p_resp' = Msg2(g_sp_db')
      BY <1>1, <1>7, AnswerFacts
    <3>2. QED
      BY <3>1 DEF Msg1Status, SP_OK, SP_IAS_FAILED, SP_INTERNAL_ERROR,
                  BAD_REQUEST
  <2>2. failing > Derive("vk") /\ failing > KeyPair
    BY <2>1, DeriveOrder DEF Done, KeyNames, KeyPair
  <2>3. /\ g_sp_db'.b = nkeys + 1 /\ nkeys' = nkeys + 1
        /\ g_sp_db'.g_a = g_a /\ g_sp_db'.g_b = nkeys + 1
        /\ \A name \in KeyNames :
             g_sp_db'[name] = SPKey(name, SPSecret(nkeys + 1, g_a))
    BY <1>1, <1>3, <2>2, CoherentServed, PairServed DEF DbInv, PairInv, Serves
  <2>4. Coherent(g_sp_db)'
    BY <2>3, SPKeyKept DEF Coherent, SPSecret
  <2>5. p_resp'.g_b = nkeys + 1 /\ p_resp'.spid = g_spid
    BY <2>1, <2>3 DEF Msg2
  <2>6. p_resp'.sign_gb_ga = [g_b |-> g_sp_db'.b, g_a |-> g_sp_db'.g_a]
    BY <2>1, <2>3 DEF Msg2
  <2>7. p_resp'.mac.key = SPKey("smk", SPSecret(p_resp'.g_b, g_sp_db'.g_a))
    BY <2>1, <2>3, <2>5 DEF Msg2, KeyNames
  <2>8. p_resp'.mac = [key |-> SPKey("smk", SPSecret(p_resp.g_b, g_sp_db.g_a)),
                       g_b |-> p_resp.g_b, spid |-> p_resp.spid,
                       kdf_id |-> p_resp.kdf_id,
                       sign_gb_ga |-> p_resp.sign_gb_ga]'
    BY <2>1, <2>7, SPKeyKept DEF Msg2, SPSecret
  <2>9. g_is_sp_registered' /\ p_resp'.spid \in Groups
    BY <1>2, <2>5 DEF HasGroup, spState
  <2>10. Msg2Inv'
    BY <2>3, <2>4, <2>6, <2>8, <2>9 DEF Msg2Inv
  <2>11. QED
    BY <2>3, <2>5, <2>10
<1>8. CASE p_resp' = NULL
  BY <1>3, <1>5, <1>6, <1>8 DEF Msg2Inv
<1>9. QED
  BY <1>3, <1>5, <1>6, <1>7, <1>8

\* A request that is refused changes nothing and answers nothing.
LEMMA RefusedStep ==
  ASSUME SPInv, SameBuild, Reject \/ Msg1Unregistered
  PROVE  SPInv' /\ p_resp' = NULL
<1> USE DEF SPInv, Reject, Msg1Unregistered, Answer, SP_OK, BAD_REQUEST,
            SP_UNSUPPORTED_EXTENDED_EPID_GROUP
<1>1. DbInv'
  BY DbUntouched
<1>2. p_resp' = NULL
  OBVIOUS
<1>3. KeyVals' = KeyVals
  BY SPKeyKept DEF KeyVals, ZeroKey, JunkKey, Secrets, KeyNames
<1>4. SPTypeOK'
  BY <1>3 DEF SPTypeOK, spState
<1>5. QED
  BY <1>1, <1>2, <1>4 DEF HasGroup, Msg2Inv, spState

\* Stuttering.
LEMMA StutterStep == SPInv /\ UNCHANGED spvars => SPInv'
<1> SUFFICES ASSUME SPInv, UNCHANGED spvars PROVE SPInv'
  OBVIOUS
<1> USE DEF SPInv
<1>1. SameBuild
  BY DEF spvars, SameBuild
<1>2. DbInv'
  BY <1>1, DbUntouched DEF spvars
<1>3. KeyVals' = KeyVals
  BY <1>1, SPKeyKept DEF KeyVals, ZeroKey, JunkKey, Secrets, KeyNames
<1>4. SPTypeOK' /\ HasGroup'
  BY <1>3 DEF SPTypeOK, HasGroup, spvars
<1>5. Coherent(g_sp_db)' <=> Coherent(g_sp_db)
  BY <1>1, SPKeyKept DEF Coherent, SPSecret, spvars
<1>6. SPKey("smk", SPSecret(p_resp.g_b, g_sp_db.g_a))'
        = SPKey("smk", SPSecret(p_resp.g_b, g_sp_db.g_a))
  BY <1>1 DEF spvars, SPKey, SPSecret, SameBuild
<1>7. Msg2Inv'
  BY <1>5, <1>6 DEF Msg2Inv, spvars
<1>8. QED
  BY <1>2, <1>4, <1>7

LEMMA SPInvNext == SPInv /\ [SPNext]_spvars => SPInv'
  BY Msg0Step, Msg1Step, RefusedStep, StutterStep DEF SPNext, ProcMsg1

\* The invariant holds in every reachable state.
THEOREM ServiceProviderInv == SPSpec => []SPInv
  BY SPInitInv, SPInvNext, PTL DEF SPSpec
-----------------------------------------------------------------------------
(* The properties. *)

\* Every variable of service_provider.cpp keeps its type through any sequence
\* of requests and failing calls.
THEOREM SPTypes == SPSpec => []SPTypeOK
<1>1. SPInv => SPTypeOK
  BY DEF SPInv
<1>2. QED
  BY <1>1, ServiceProviderInv, PTL

\* A key pair's own verification key tells that all its keys were written.
LEMMA VkTells == SPInv => VkCommits
<1> SUFFICES ASSUME SPInv,
                    g_sp_db.vk = SPKey("vk", SPSecret(g_sp_db.b, g_sp_db.g_a))
             PROVE  Coherent(g_sp_db)
  BY DEF VkCommits
<1>1. SPSecret(g_sp_db.b, g_sp_db.g_a) \in Secrets
  BY DEF SPInv, SPTypeOK, Secrets, SPSecret
<1>2. SPSecret(g_sp_db.b, g_sp_db.g_a).b = g_sp_db.b
  BY DEF SPSecret
<1>3. QED
  BY <1>1, <1>2 DEF SPInv, DbInv, VkInv, Coherent

\* sp_ra_proc_msg1_req leaves g_sp_db half overwritten when one of its calls
\* fails; the verification key still tells whether the session is whole.
THEOREM VkIsCommitPoint == SPSpec => []VkCommits
  BY VkTells, ServiceProviderInv, PTL

\* Every msg2 sp_ra_proc_msg1_req hands out comes from a registered provider and
\* is signed and authenticated with the keys of exactly its exchange.
THEOREM Msg2Authentic == SPSpec => []Msg2Inv
<1>1. SPInv => Msg2Inv
  BY DEF SPInv
<1>2. QED
  BY <1>1, ServiceProviderInv, PTL

\* A request that is answered made a key pair that is in no earlier msg2.
LEMMA FreshStep ==
  ASSUME SPInv, [SPNext]_spvars,
         p_resp' # NULL, p_resp' # p_resp, p_resp'.type = "MSG2"
  PROVE  p_resp'.g_b > g_sp_db.b
<1>1. SPNext
  BY DEF spvars
<1>2. SameBuild
  BY <1>1 DEF SPNext
<1>3. PICK g_a \in PublicKeys : Msg1(g_a)
  BY <1>1, <1>2, Msg0Step, RefusedStep DEF SPNext, ProcMsg1
<1>4. p_resp'.g_b = nkeys + 1
  BY <1>2, <1>3, Msg1Step
<1>5. g_sp_db.b \in 0 .. nkeys /\ nkeys \in Nat
  BY KeysAssumption DEF SPInv, DbInv, PairInv, SPTypeOK
<1>6. QED
  BY <1>4, <1>5

\* No msg2 carries a key pair an earlier request generated: the pair that
\* sample_ecc_create_key_pair makes is new in every request that is answered.
THEOREM KeysAreFresh == SPSpec => FreshKeys
<1> DEFINE Fresh == p_resp' # NULL /\ p_resp' # p_resp /\ p_resp'.type = "MSG2"
                      => p_resp'.g_b > g_sp_db.b
<1>1. SPInv /\ [SPNext]_spvars => [Fresh]_spvars
  BY FreshStep
<1>2. QED
  BY <1>1, ServiceProviderInv, PTL DEF SPSpec, FreshKeys

\* g_extended_epid_groups has a single entry, and the simulated enroll() never
\* fails.  One of the two is needed: with two groups, a provider registered for
\* the first whose enrolment for the second fails keeps the first group's SPID.
RegistrationSettled == (\A g, h \in Groups : g = h) \/ ~IASMayFail

\* A registered provider has a group and the SPID of that group, so that msg1
\* never dereferences a null group pointer nor sends another group's SPID.
THEOREM RegisteredComplete == RegistrationSettled => (SPSpec => []RegisteredInv)
<1>1. CASE \A g, h \in Groups : g = h
  <2>1. SPInv => RegisteredInv
    BY <1>1 DEF SPInv, HasGroup, RegisteredInv
  <2>2. QED
    BY <2>1, ServiceProviderInv, PTL
<1>2. CASE ~IASMayFail
  <2>1. SPInit => RegisteredInv
    BY DEF SPInit, RegisteredInv
  <2>2. RegisteredInv /\ [SPNext]_spvars => RegisteredInv'
    <3> SUFFICES ASSUME RegisteredInv, [SPNext]_spvars PROVE RegisteredInv'
      OBVIOUS
    <3>1. ASSUME NEW gid \in GroupIds, ProcMsg0(gid)
          PROVE  RegisteredInv'
      <4>1. ~Msg0EnrollFails(gid)
        BY <1>2 DEF Msg0EnrollFails, ias_returns
      <4>2. CASE Msg0Keep(gid)
        BY <4>2 DEF Msg0Keep, spState, RegisteredInv
      <4>3. CASE Msg0Enroll(gid)
        BY <4>3 DEF Msg0Enroll, Supported, RegisteredInv
      <4>4. QED
        BY <3>1, <4>1, <4>2, <4>3 DEF ProcMsg0
    <3>2. ASSUME UNCHANGED spState
          PROVE  RegisteredInv'
      BY <3>2 DEF spState, RegisteredInv
    <3>3. (\E gid \in GroupIds : ProcMsg0(gid)) \/ UNCHANGED spState
      BY DEF SPNext, ProcMsg1, Msg1, Msg1Unregistered, Reject, spvars, spState
    <3>4. QED
      BY <3>1, <3>2, <3>3
  <2>3. QED
    BY <2>1, <2>2, PTL DEF SPSpec
<1>3. QED
  BY <1>1, <1>2 DEF RegistrationSettled
=============================================================================
