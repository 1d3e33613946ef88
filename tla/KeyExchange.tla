---------------------------- MODULE KeyExchange ----------------------------
(***************************************************************************)
(* The key material of the SIGMA exchange, on both sides.  A private ECDH  *)
(* key is a number, its public key the same number (nobody in the model    *)
(* inverts it), and the shared secret of enclave key a and provider key b  *)
(* the pair of the two, computed from (b, g_a) by the provider and from    *)
(* (a, g_b) by the enclave.  A derived key is a record of everything its   *)
(* derivation hashes, so two keys are equal exactly when the code hashes   *)
(* the same bytes.                                                         *)
(***************************************************************************)
EXTENDS Naturals

VARIABLE SUPPLIED_KEY_DERIVATION  \* the build: one Makefile flag for both sides

\* Either build; the flag never changes afterwards.
AnyBuild == SUPPLIED_KEY_DERIVATION \in BOOLEAN
SameBuild == UNCHANGED SUPPLIED_KEY_DERIVATION

KeyNames == {"smk", "mk", "sk", "vk"}

\* SAMPLE_AES_CMAC_KDF_ID and ISV_KDF_ID
KdfId == IF SUPPLIED_KEY_DERIVATION THEN 2 ELSE 1

\* The ECDH secret, as each side computes it: external.
SPSecret(b, g_a)      == [a |-> g_a, b |-> b]
EnclaveSecret(a, g_b) == [a |-> a, b |-> g_b]

\* The first (1) or second (2) half of SHA256(id || secret || ID_U || ID_V).
HashHalf(id, half, secret) == [id |-> id, half |-> half, secret |-> secret]

\* CMAC keyed by the secret over 0x01 || label || 0x00 || 0x0080.
CmacLabel(label, secret) == [label |-> label, secret |-> secret]

\* derive_key of service_provider/ecp.cpp as sp_ra_proc_msg1_req calls it.
SPKey(name, secret) ==
  IF SUPPLIED_KEY_DERIVATION
  THEN CASE name = "smk" -> HashHalf(0, 1, secret)
         [] name = "sk"  -> HashHalf(0, 2, secret)
         [] name = "mk"  -> HashHalf(1, 1, secret)
         [] name = "vk"  -> HashHalf(1, 2, secret)
  ELSE CmacLabel(name, secret)

\* Mutant: key_derivation swaps the halves of the second hash.
MutEnclaveKey(name, secret) ==
  IF SUPPLIED_KEY_DERIVATION
  THEN CASE name = "smk" -> HashHalf(0, 1, secret)
         [] name = "sk"  -> HashHalf(0, 2, secret)
         [] name = "mk"  -> HashHalf(1, 2, secret)
         [] name = "vk"  -> HashHalf(1, 1, secret)
  ELSE CmacLabel(IF name = "sk" THEN "mk" ELSE name, secret)

\* key_derivation of enclave/enclave.cpp; without SUPPLIED_KEY_DERIVATION the
\* trusted key exchange library derives the keys, from the same labels.
EnclaveKey(name, secret) ==
  IF SUPPLIED_KEY_DERIVATION
  THEN CASE name = "smk" -> HashHalf(0, 1, secret)
         [] name = "sk"  -> HashHalf(0, 2, secret)
         [] name = "mk"  -> HashHalf(1, 1, secret)
         [] name = "vk"  -> HashHalf(1, 2, secret)
  ELSE CmacLabel(name, secret)
=============================================================================
