--------------------------- MODULE MCJobScheduler ---------------------------
(***************************************************************************)
(* JobScheduler with several servers: which of them is which makes no      *)
(* difference to what they do (no liveness is checked with it).            *)
(***************************************************************************)
EXTENDS JobScheduler, TLC

Servers == Permutations(Server)
=============================================================================
