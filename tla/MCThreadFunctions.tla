-------------------------- MODULE MCThreadFunctions --------------------------
(* A small instance of ThreadFunctions for TLC. *)
EXTENDS ThreadFunctions

MCAdders == <<"adder1", "adder2", "adder3">>
MCSpawn  == <<"consumer1", "producer0", "consumer2">>
MCJoin   == <<"consumer1", "consumer2", "producer0">>
=============================================================================
