-------------------------- MODULE MCAmmitFrontier --------------------------
(* Three flows: one with a gate and its repair on a fan-out of two         *)
(* branches, one with two phases on it, and one all of the trunk that ends *)
(* at a gate behind a phase somebody asks for.                             *)
EXTENDS AmmitFrontier, TLC

Alike == Permutations(Branches)
P(id, fan) == [id |-> id, agents |-> TRUE, only_if |-> "", loops_to |-> "", fan |-> fan]
Repair(id, gate, fan) == [P(id, fan) EXCEPT !.only_if = "red", !.loops_to = gate]
MCFlows == {
  << P("plan", FALSE), P("testing", TRUE), Repair("healing", "testing", TRUE), P("report", FALSE) >>,
  << P("implementing", TRUE), P("testing", TRUE), P("report", FALSE) >>,
  << [P("checkout", FALSE) EXCEPT !.agents = FALSE], P("plan", FALSE),
     [P("review", FALSE) EXCEPT !.only_if = "asked"], P("testing", FALSE),
     Repair("healing", "testing", FALSE) >> }
=============================================================================
