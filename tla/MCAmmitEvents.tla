--------------------------- MODULE MCAmmitEvents ---------------------------
(***************************************************************************)
(* What becomes of the events of a run: they are read for what the run is  *)
(* doing, and lifted into the tables.  The two readers share nothing but   *)
(* the events' kinds of trouble: a behaviour is one of one reader, with    *)
(* the other at rest as it is initially.                                   *)
(***************************************************************************)
EXTENDS AmmitRecord, AmmitLift, TLC

VARIABLE part

\* Branches are treated alike, and so are the phases of an agent.
Alike == Permutations(Branches) \cup Permutations(Phases)

vars == <<part, recordVars, liftVars>>
Init == part \in {"record", "lift"} /\ RecordInit /\ LiftInit
Next ==
  /\ UNCHANGED part
  /\ \/ part = "record" /\ RecordNext /\ UNCHANGED liftVars
     \/ part = "lift"   /\ LiftNext   /\ UNCHANGED recordVars
Spec == Init /\ [][Next]_vars
=============================================================================
