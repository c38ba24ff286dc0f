---------------------------- MODULE AmmitLeases ----------------------------
(***************************************************************************)
(* Leases: a name, who holds it, until when.  A deploy, a stand's run or a *)
(* regression takes one, extends it while it works and gives it back; it   *)
(* may also die with it, or be slow, so that its giving back arrives when  *)
(* another has the lease.  A stand's lease is given back by the pump too,  *)
(* when its ticket has no open run - and a run may take its stand before   *)
(* its row is open.                                                        *)
(*                                                                         *)
(* Time is what a lease has left.                                          *)
(***************************************************************************)
EXTENDS Integers, FiniteSets

CONSTANTS
  Works,      \* what takes a lease, once: a deploy, a run of a ticket
  Name,       \* the lease a work takes
  Holder,     \* what it calls itself: for a run, its ticket and commit
  Ticket,     \* of a run; "" for a work that is no run
  Stands,     \* the names that are a stand's
  Ttl         \* how long a lease is asked for

VARIABLES
  lease,      \* the table: of each name, its holder and what is left
  work,       \* of each work, where it is
  believes,   \* what is left of the lease, by the answers a work has had
  runRow,     \* of each run, its row: none yet, open, or closed
  wire,       \* the works whose DELETE /lease has not arrived
  lost        \* history: those whose lease went, since they took it last, with
              \* a namesake's DELETE, or with the pump before they had a row

leasesVars == <<lease, work, believes, runRow, wire, lost>>

Names == {Name[w] : w \in Works}
Holders == {Holder[w] : w \in Works} \cup {""}
Nobody == [holder |-> "", left |-> 0]
TicketRuns == {w \in Works : Ticket[w] # ""}

\* What the callers give: a stand's lease is asked for by runs alone.
Callers ==
  /\ Ttl \in Nat
  /\ \A w \in Works : Name[w] \in Stands => w \in TicketRuns

LeasesTypeOK ==
  /\ lease \in [Names -> [holder : Holders, left : 0 .. Ttl]]
  /\ work \in [Works -> {"new", "works", "gone"}]
  /\ believes \in [Works -> 0 .. Ttl]
  /\ runRow \in [TicketRuns -> {"none", "open", "closed"}]
  /\ wire \subseteq Works /\ lost \subseteq Works
  /\ \A w \in Works : believes[w] > 0 => work[w] = "works"

LeasesInit ==
  /\ lease = [n \in Names |-> Nobody] /\ work = [w \in Works |-> "new"]
  /\ believes = [w \in Works |-> 0] /\ runRow = [w \in TicketRuns |-> "none"]
  /\ wire = {} /\ lost = {}

\* "Whoever is about to start a run asks for it first and opens its row
\* second": the row is open when the run's first event has arrived, which may
\* be before it asks, too.
Begins(w) ==
  /\ work[w] = "new" /\ work' = [work EXCEPT ![w] = "works"]
  /\ UNCHANGED <<lease, believes, runRow, wire, lost>>
RunOpens(w) ==
  /\ w \in TicketRuns /\ work[w] = "works" /\ runRow[w] = "none"
  /\ runRow' = [runRow EXCEPT ![w] = "open"]
  /\ UNCHANGED <<lease, work, believes, wire, lost>>

\* POST /lease: refused while another holds it and it has not run out; the
\* holder's own extends it.
Held(l, holder) == l.left > 0 /\ l.holder # holder
Take(w) ==
  /\ work[w] = "works" /\ ~Held(lease[Name[w]], Holder[w])
  /\ lease' = [lease EXCEPT ![Name[w]] = [holder |-> Holder[w], left |-> Ttl]]
  /\ believes' = [believes EXCEPT ![w] = Ttl]
  /\ lost' = lost \ {w}
  /\ UNCHANGED <<work, runRow, wire>>

\* A work is done, or dies, with or without sending its DELETE; the row of a
\* run may be closed long before that.
Leaves(w, sends) ==
  /\ work[w] = "works" /\ work' = [work EXCEPT ![w] = "gone"]
  /\ believes' = [believes EXCEPT ![w] = 0]
  /\ runRow' = [v \in TicketRuns |-> IF v = w THEN "closed" ELSE runRow[v]]
  /\ wire' = IF sends THEN wire \cup {w} ELSE wire
  /\ UNCHANGED <<lease, lost>>
RowCloses(w) ==
  /\ w \in TicketRuns /\ runRow[w] = "open" /\ runRow' = [runRow EXCEPT ![w] = "closed"]
  /\ UNCHANGED <<lease, work, believes, wire, lost>>

\* DELETE /lease, by name and holder.  The holder of a run is its ticket and
\* commit, which a resume of it has too.
MutReleased(w) == TRUE                                        \* by name only
Released(w) == lease[Name[w]].holder = Holder[w]
Namesakes(w) == {v \in Works \ {w} : Name[v] = Name[w] /\ Holder[v] = Holder[w]}
GiveBack(w) ==
  /\ w \in wire /\ wire' = wire \ {w}
  /\ lease' = IF Released(w) THEN [lease EXCEPT ![Name[w]] = Nobody] ELSE lease
  /\ lost' = IF Released(w) THEN lost \cup Namesakes(w) ELSE lost
  /\ UNCHANGED <<work, believes, runRow>>

\* The pump: a stand's lease goes when its ticket has no run open.
OpenRuns == {w \in TicketRuns : runRow[w] = "open"}
MutLiveRuns(holder) == {w \in OpenRuns : Ticket[w] = holder}   \* a ticket of that name, commit and all
LiveRuns(holder) == {w \in OpenRuns : \E h \in TicketRuns : Holder[h] = holder /\ Ticket[h] = Ticket[w]}
RunsOver(n) == n \in Stands /\ LiveRuns(lease[n].holder) = {}
releaseEndedStandLeases ==
  /\ lease' = [n \in Names |-> IF RunsOver(n) THEN Nobody ELSE lease[n]]
  /\ lost' = lost \cup {w \in TicketRuns : /\ runRow[w] = "none" /\ RunsOver(Name[w])
                                      /\ lease[Name[w]].holder = Holder[w]}
  /\ UNCHANGED <<work, believes, runRow, wire>>

LeaseElapse ==
  /\ lease' = [n \in Names |-> [lease[n] EXCEPT !.left = IF @ > 0 THEN @ - 1 ELSE 0]]
  /\ believes' = [w \in Works |-> IF believes[w] > 0 THEN believes[w] - 1 ELSE 0]
  /\ UNCHANGED <<work, runRow, wire, lost>>

LeasesNext ==
  \/ \E w \in Works :
       \/ Begins(w) \/ RunOpens(w) \/ Take(w) \/ RowCloses(w) \/ GiveBack(w)
       \/ \E sends \in BOOLEAN : Leaves(w, sends)
  \/ releaseEndedStandLeases \/ LeaseElapse
LeasesSpec == LeasesInit /\ [][LeasesNext]_leasesVars

-----------------------------------------------------------------------------
(* Properties                                                              *)

\* It was told that the lease is its own, and its row, if it is a run's, has
\* not been closed under it.
Sound(w) == believes[w] > 0 /\ (w \in TicketRuns => runRow[w] # "closed")

\* Never two of different names at work on what a lease is for: a late giving
\* back takes it from nobody of another name, and the pump from no run whose
\* row is open.  Those are left out whose lease went over their head: with a
\* DELETE of one of their name, or with the pump when they had no row yet.
OneHolder ==
  \A a, b \in Works : Name[a] = Name[b] /\ Holder[a] # Holder[b] /\ Sound(a) /\ Sound(b)
    => a \in lost \/ b \in lost

\* What makes it hold: what a work believes of its lease, the table says - it is
\* the holder's, and has as much left - and what is on the wire is of one that
\* is gone.
Backed(w) ==
  Sound(w) /\ w \notin lost => /\ lease[Name[w]].holder = Holder[w]
                               /\ lease[Name[w]].left >= believes[w]
LeaseInv ==
  /\ LeasesTypeOK /\ OneHolder
  /\ \A w \in wire : work[w] = "gone"
  /\ \A w \in Works : Backed(w)

(* What the comments say and the code does not keep.                       *)

\* The lease is "a gate instead of two races": two of different names are
\* never both told that one lease is theirs and at work.
OneAtATime ==
  \A a, b \in Works : Name[a] = Name[b] /\ Holder[a] # Holder[b] => ~(Sound(a) /\ Sound(b))
=============================================================================
