---------------------------- MODULE AmmitProcess ----------------------------
(***************************************************************************)
(* The process of the service, which several of its parts live in: it is   *)
(* killed and started again, and comes back with what was in its stores.   *)
(***************************************************************************)
CONSTANT MaxLives  \* bound: lives of the process
VARIABLE lives
=============================================================================
