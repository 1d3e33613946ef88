--------------------------- MODULE BoundedBuffer ---------------------------
(***************************************************************************)
(* What cond_buffer_t of Enclave/TrustedLibrary/Thread.cpp promises to its *)
(* users, without locks, condition variables or slots: items go in and     *)
(* come out, never more than Size of them are inside, and exactly Total of *)
(* them pass through.  CondBuffer implements this specification.           *)
(***************************************************************************)
EXTENDS Naturals

CONSTANTS Size,    \* BUFFER_SIZE
          Total    \* items the producer inserts: 4*LOOPS_PER_THREAD

VARIABLES produced, consumed

bbvars == <<produced, consumed>>

BBInit == produced = 0 /\ consumed = 0

Insert ==
  /\ produced < Total
  /\ produced < consumed + Size
  /\ produced' = produced + 1
  /\ UNCHANGED consumed

Remove ==
  /\ consumed < produced
  /\ consumed' = consumed + 1
  /\ UNCHANGED produced

BBNext == Insert \/ Remove

BBSpec == BBInit /\ [][BBNext]_bbvars
=============================================================================
