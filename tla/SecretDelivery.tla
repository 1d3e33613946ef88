--------------------------- MODULE SecretDelivery ---------------------------
(***************************************************************************)
(* What remote attestation with secret provisioning promises, without its  *)
(* messages and keys: a secret reaches an enclave only through a session   *)
(* that one of its own contexts confirmed, that the provider then issued   *)
(* the secret to, and that is still open.  One context of one enclave owns *)
(* a session, and a closed session stays closed.                           *)
(***************************************************************************)
CONSTANTS
  EnclaveIds,
  ContextIds, \* the contexts in which enclaves exchange keys
  Home,       \* context -> its enclave
  Sessions,   \* pairs [a, b] of an enclave's and a provider's key pair
  NULL

VARIABLES
  session,    \* context -> the session it confirmed and keeps, or NULL
  confirmed,  \* the sessions that some context ever confirmed
  issued,     \* those to which the provider issued the secret
  delivered   \* enclave -> does it hold the secret?

dvars == <<session, confirmed, issued, delivered>>

DInit ==
  /\ session = [c \in ContextIds |-> NULL]
  /\ confirmed = {} /\ issued = {}
  /\ delivered = [e \in EnclaveIds |-> FALSE]

\* Does context c keep a session of the enclave's key a?
Keeps(c, a) == session[c] # NULL /\ session[c].a = a

\* Context c confirms session s: with a key that no other context uses, and, if
\* it is one confirmed before, that c did not give up since.
Confirm(c, s) ==
  /\ \A d \in ContextIds \ {c} : ~Keeps(d, s.a)
  /\ s \in confirmed => Keeps(c, s.a)
  /\ session' = [session EXCEPT ![c] = s]
  /\ confirmed' = confirmed \cup {s}
  /\ UNCHANGED <<issued, delivered>>

\* The provider issues the secret to a session that was confirmed.
Issue(s) ==
  /\ s \in confirmed
  /\ issued' = issued \cup {s}
  /\ UNCHANGED <<session, confirmed, delivered>>

\* The enclave takes it, in the session that its context c keeps.
Deliver(c) ==
  /\ session[c] \in issued
  /\ delivered' = [delivered EXCEPT ![Home[c]] = TRUE]
  /\ UNCHANGED <<session, confirmed, issued>>

\* A context gives its session up.
GiveUp(c) ==
  /\ session' = [session EXCEPT ![c] = NULL]
  /\ UNCHANGED <<confirmed, issued, delivered>>

\* Other bytes replace the secret.
Overwrite(e) ==
  /\ delivered' = [delivered EXCEPT ![e] = FALSE]
  /\ UNCHANGED <<session, confirmed, issued>>

\* The enclaves are lost, with their sessions and secrets.
Lose ==
  /\ session' = [c \in ContextIds |-> NULL]
  /\ delivered' = [e \in EnclaveIds |-> FALSE]
  /\ UNCHANGED <<confirmed, issued>>

DNext ==
  \/ \E c \in ContextIds :
       \/ \E s \in Sessions : Confirm(c, s)
       \/ Deliver(c) \/ GiveUp(c)
  \/ \E e \in EnclaveIds : Overwrite(e)
  \/ \E s \in confirmed : Issue(s)
  \/ Lose

DSpec == DInit /\ [][DNext]_dvars
-----------------------------------------------------------------------------
\* What follows from it alone: no two contexts, of one enclave or of two, share a
\* session, or even the enclave's key of one, and the provider issued the secret
\* to no session but those that a context confirmed.
OneOwner ==
  /\ \A c, d \in ContextIds :
       c # d /\ session[c] # NULL => ~Keeps(d, session[c].a)
  /\ issued \subseteq confirmed
=============================================================================
