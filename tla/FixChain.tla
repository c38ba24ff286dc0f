------------------------------ MODULE FixChain ------------------------------
(***************************************************************************)
(* What the watchdog promises of a chain of drops, whatever a cycle of it  *)
(* goes through: the cycles of a chain follow one another, one at a time,  *)
(* and there are never more than loops.laps_watchdog of them.              *)
(***************************************************************************)
EXTENDS Naturals

CONSTANTS
  Root,   \* the runs a chain can begin with
  Limit   \* loops.laps_watchdog

VARIABLES
  taken,  \* how many cycles of each chain there have been
  moving  \* whether one of them is under way

vars == <<taken, moving>>

Init == taken = [r \in Root |-> 0] /\ moving = [r \in Root |-> FALSE]

\* A drop, or a cycle spent, begins the next cycle.
Begin(r) ==
  /\ ~moving[r] /\ taken[r] < Limit
  /\ taken' = [taken EXCEPT ![r] = @ + 1]
  /\ moving' = [moving EXCEPT ![r] = TRUE]

\* A cycle comes to its end, whichever it is.
End(r) ==
  /\ moving[r]
  /\ moving' = [moving EXCEPT ![r] = FALSE]
  /\ UNCHANGED taken

Next == \E r \in Root : Begin(r) \/ End(r)

Spec == Init /\ [][Next]_vars
=============================================================================
