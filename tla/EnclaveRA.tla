----------------------------- MODULE EnclaveRA -----------------------------
(***************************************************************************)
(* The attestation enclave (enclave/enclave.cpp): its four ECALLs, and the *)
(* trusted key exchange library behind them, whose sgx_ra_get_ga,          *)
(* sgx_ra_proc_msg2 and sgx_ra_get_msg3 the untrusted library calls.  The  *)
(* host may create a second enclave after the first was lost, so the state *)
(* is indexed by the enclave's id.  Every sgx_ra_init opens a further key  *)
(* exchange context in its enclave, and each call names the one it is for. *)
(***************************************************************************)
EXTENDS Integers, KeyExchange

CONSTANTS
  EnclaveIds,
  ContextIds,   \* every context an enclave can have: bounds those open at once
  Home,         \* context -> the enclave it is in
  NULL

VARIABLES
  enclaves,   \* id -> "none", "alive", "lost" or "destroyed"
  contexts,   \* context -> what the key exchange library keeps, or NULL
  nga,        \* enclave key pairs generated so far
  g_secret    \* id -> "zero", "secret" (the bytes 0 .. 7) or other bytes

encvars == <<enclaves, contexts, nga, g_secret>>

EnclaveInit ==
  /\ enclaves = [e \in EnclaveIds |-> "none"]
  /\ contexts = [c \in ContextIds |-> NULL]
  /\ nga = 0
  /\ g_secret = [e \in EnclaveIds |-> "zero"]

Alive(e) == e \in EnclaveIds /\ enclaves[e] = "alive"

\* Is context c open?
Open(c) == c \in ContextIds /\ Alive(Home[c]) /\ contexts[c] # NULL

\* sgx_create_enclave succeeds: external.
Create(e) ==
  /\ enclaves' = [enclaves EXCEPT ![e] = "alive"]
  /\ UNCHANGED <<contexts, nga, g_secret>>

\* sgx_destroy_enclave: external, a no-op for an id that names no enclave.
Destroy(e) ==
  /\ enclaves' = [f \in EnclaveIds |->
                    IF f = e /\ enclaves[f] # "none" THEN "destroyed"
                    ELSE enclaves[f]]
  /\ contexts' = [c \in ContextIds |-> IF Home[c] = e THEN NULL ELSE contexts[c]]
  /\ g_secret' = [f \in EnclaveIds |-> IF f = e THEN "zero" ELSE g_secret[f]]
  /\ UNCHANGED nga

\* A power transition destroys the memory of every enclave: external.
LoseAll ==
  /\ \E e \in EnclaveIds : Alive(e)
  /\ enclaves' = [e \in EnclaveIds |->
                    IF Alive(e) THEN "lost" ELSE enclaves[e]]
  /\ contexts' = [c \in ContextIds |-> NULL]
  /\ g_secret' = [e \in EnclaveIds |-> "zero"]
  /\ UNCHANGED nga

-----------------------------------------------------------------------------
\* enclave_init_ra: sgx_ra_init or sgx_ra_init_ex opens a context that is not
\* in use.
enclave_init_ra(c) ==
  /\ c \in ContextIds /\ Alive(Home[c])
  /\ contexts[c] = NULL
  /\ contexts' = [contexts EXCEPT ![c] = [state |-> "init", a |-> 0,
                                          keys |-> NULL]]
  /\ UNCHANGED <<enclaves, nga, g_secret>>

\* enclave_ra_close, when it succeeds.
enclave_ra_close(c) ==
  /\ Open(c)
  /\ contexts' = [contexts EXCEPT ![c] = NULL]
  /\ UNCHANGED <<enclaves, nga, g_secret>>

\* Mutant: the key pair is generated once and kept.
Mutget_ga(c) ==
  /\ Open(c)
  /\ nga' = 1
  /\ contexts' = [contexts EXCEPT ![c].state = "ga", ![c].a = 1]
  /\ UNCHANGED <<enclaves, g_secret>>

\* sgx_ra_get_ga: a new ECDH key pair: external.
get_ga(c) ==
  /\ Open(c)
  /\ nga' = nga + 1
  /\ contexts' = [contexts EXCEPT ![c].state = "ga", ![c].a = nga + 1]
  /\ UNCHANGED <<enclaves, g_secret>>

EnclaveKeys(secret) == [name \in KeyNames |-> EnclaveKey(name, secret)]

\* sgx_ra_proc_msg2 accepts msg2: the key derivation is the one it uses, the
\* provider signed g_b together with this context's g_a, and the MAC over all of
\* it is made with this exchange's smk.
Accepts(ctx, msg2) ==
  LET smk == EnclaveKey("smk", EnclaveSecret(ctx.a, msg2.g_b))
  IN  /\ ctx.state \in {"ga", "msg2"}
      /\ msg2.kdf_id = KdfId
      /\ msg2.sign_gb_ga = [g_b |-> msg2.g_b, g_a |-> ctx.a]
      /\ msg2.mac = [key |-> smk, g_b |-> msg2.g_b, spid |-> msg2.spid,
                     kdf_id |-> msg2.kdf_id, sign_gb_ga |-> msg2.sign_gb_ga]

\* Having accepted msg2, the context holds the session keys: external.
proc_msg2(c, msg2) ==
  /\ Open(c)
  /\ Accepts(contexts[c], msg2)
  /\ contexts' = [contexts EXCEPT
                    ![c].state = "msg2",
                    ![c].keys = EnclaveKeys(EnclaveSecret(contexts[c].a,
                                                          msg2.g_b))]
  /\ UNCHANGED <<enclaves, nga, g_secret>>

-----------------------------------------------------------------------------
(* The ECALLs that take an attestation result: a MAC under the mk of its   *)
(* session, and a payload encrypted under the session's sk.                *)

\* sgx_ra_get_keys: external; only a context that accepted msg2 has keys.
HasKeys(c) == Open(c) /\ contexts[c].state = "msg2"

\* Mutant: consttime_memequal is read as if it were memcmp.
Mutverify_att_result_mac(c, result, sizes_ok) ==
  CASE ~sizes_ok                -> {"INVALID_PARAMETER"}
    [] sizes_ok /\ ~HasKeys(c)  -> {"INVALID_STATE"}
    [] sizes_ok /\ HasKeys(c)   ->
         {IF result.mac = contexts[c].keys["mk"] THEN "MAC_MISMATCH"
          ELSE "SUCCESS"}

\* What verify_att_result_mac may return; it changes nothing.  The CMAC itself
\* may fail.
verify_att_result_mac(c, result, sizes_ok) ==
  CASE ~sizes_ok                -> {"INVALID_PARAMETER"}
    [] sizes_ok /\ ~HasKeys(c)  -> {"INVALID_STATE"}
    [] sizes_ok /\ HasKeys(c)   ->
         {"OUT_OF_MEMORY",
          IF result.mac = contexts[c].keys["mk"] THEN "SUCCESS"
          ELSE "MAC_MISMATCH"}

\* sgx_rijndael128GCM_decrypt into g_secret: external.  On a wrong tag it clears
\* its output or leaves it alone; it may run out of memory before it starts.
GcmDecrypt(c, payload, gcm) ==
  \/ /\ gcm = "SUCCESS"
     /\ payload.key = contexts[c].keys["sk"]
     /\ g_secret' = [g_secret EXCEPT ![Home[c]] = payload.plain]
  \/ /\ gcm = "MAC_MISMATCH"
     /\ payload.key # contexts[c].keys["sk"]
     /\ \E left \in {g_secret[Home[c]], "zero"} :
          g_secret' = [g_secret EXCEPT ![Home[c]] = left]
  \/ /\ gcm = "OUT_OF_MEMORY"
     /\ UNCHANGED g_secret

\* Mutant: what the decryption returned is not kept.
MutDropGcm(secret, gcm) ==
  IF secret = "secret" THEN "SUCCESS" ELSE "UNEXPECTED"

\* Mutant: the loop clears secret_match at the bytes that match.
MutMatch(secret, gcm) ==
  IF secret = "secret" THEN "UNEXPECTED" ELSE gcm

\* The end of put_secret_data: g_secret is compared with 0 .. 7 even if the
\* decryption failed, and a mismatch replaces the decryption's error.
SecretMatch(secret, gcm) ==
  IF secret = "secret" THEN gcm ELSE "UNEXPECTED"

\* put_secret_data returns status; gcm is what its decryption returned, NULL if
\* it was not reached.
put_secret_data(c, result, size_ok, gcm, status) ==
  \/ /\ ~size_ok /\ gcm = NULL
     /\ status = "INVALID_PARAMETER"
     /\ UNCHANGED encvars
  \/ /\ size_ok /\ ~HasKeys(c) /\ gcm = NULL
     /\ status = "INVALID_STATE"
     /\ UNCHANGED encvars
  \/ /\ size_ok /\ HasKeys(c)
     /\ GcmDecrypt(c, result.payload, gcm)
     /\ status = SecretMatch(g_secret'[Home[c]], gcm)
     /\ UNCHANGED <<enclaves, contexts, nga>>
=============================================================================
