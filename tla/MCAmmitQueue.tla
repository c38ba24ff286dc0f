---------------------------- MODULE MCAmmitQueue ----------------------------
(* AmmitQueue for TLC: the payloads a run posts, and the symmetry of tickets. *)
EXTENDS AmmitQueue, TLC

Ask(place, resume) == [place |-> place, resume |-> resume]

AnyStand   == {Ask("any", FALSE)}
BothStands == {Ask("any", TRUE), Ask("local", FALSE)}

TicketSymmetry == Permutations(Tickets)
=============================================================================
