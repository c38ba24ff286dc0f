---------------------------- MODULE AmmitArchive ----------------------------
(***************************************************************************)
(* The record as it grows and as it is kept small.  recordLimits writes a  *)
(* limit down when it changes and every minute; archive moves the runs     *)
(* that ended long ago, with all that is about them, into a second schema  *)
(* in one transaction, and only when no run is open.  Events come late,    *)
(* also of runs that have been moved, and a statement may fail anywhere.   *)
(*                                                                         *)
(* Judgements are moved as events are, and are not told from them here.    *)
(***************************************************************************)
EXTENDS Integers, Sequences, FiniteSets, AmmitProcess

CONSTANTS
  Runs,
  Values,      \* what a limit may be set to
  Retention,   \* retention.days
  MaxSaid,     \* bound: events of one run
  MaxRows      \* bound: rows of the limit

VARIABLES
  db,          \* runs, events, search_text, archive.runs, archive.events, limits,
               \* and how many rows of it archive.limits has
  old,         \* of each run, how long ago it finished
  said,        \* of each run, its events
  conf,        \* the limit in the file; Unset when it was taken out
  seen,        \* limitsSeen
  drawn,       \* history: the rows of the limit that were ever written
  quiet        \* has archive found no run open?

archiveVars == <<db, old, said, conf, seen, drawn, quiet, lives>>

\* Days are kept, and counts counted, from nothing.
Bounds == Retention \in Nat /\ MaxSaid \in Nat /\ MaxRows \in Nat /\ MaxLives \in Nat \ {0}

Unset == 0
Events == Runs \X (1 .. MaxSaid)
LimitRow == [value : Values, old : 0 .. Retention + 1]
Record == [runs : [Runs -> {"none", "open", "over"}], events : SUBSET Events, search : SUBSET Events,
           aruns : [Runs -> 0 .. MaxSaid], aevents : [Events -> 0 .. 1], limits : Seq(LimitRow),
           alimits : 0 .. MaxRows]
ArchiveTypeOK ==
  /\ db \in Record /\ Len(db.limits) <= MaxRows
  /\ old \in [Runs -> 0 .. Retention + 1] /\ said \in [Runs -> 0 .. MaxSaid]
  /\ conf \in Values \cup {Unset} /\ seen \in Values \cup {Unset} /\ quiet \in BOOLEAN
  /\ drawn \in 0 .. MaxRows /\ lives \in 1 .. MaxLives

ArchiveInit ==
  /\ db = [runs |-> [r \in Runs |-> "none"], events |-> {}, search |-> {},
           aruns |-> [r \in Runs |-> 0], aevents |-> [e \in Events |-> 0], limits |-> << >>, alimits |-> 0]
  /\ old = [r \in Runs |-> 0] /\ said = [r \in Runs |-> 0]
  /\ conf = Unset /\ seen = Unset /\ drawn = 0 /\ quiet = FALSE /\ lives = 1

-----------------------------------------------------------------------------
(* What fills the record                                                   *)

\* store: the event, its words in the index, and a row for a run that has
\* none - also for one whose row has been moved.
Store(r) ==
  /\ said[r] < MaxSaid /\ said' = [said EXCEPT ![r] = @ + 1]
  /\ db' = [db EXCEPT !.events = @ \cup {<<r, said'[r]>>}, !.search = @ \cup {<<r, said'[r]>>},
                      !.runs[r] = IF @ = "none" THEN "open" ELSE @]
  /\ UNCHANGED <<old, conf, seen, drawn, quiet, lives>>
Ends(r) ==
  /\ db.runs[r] = "open" /\ db' = [db EXCEPT !.runs[r] = "over"] /\ old' = [old EXCEPT ![r] = 0]
  /\ UNCHANGED <<said, conf, seen, drawn, quiet, lives>>
Edit(value) ==
  /\ value # conf /\ conf' = value /\ UNCHANGED <<db, old, said, seen, drawn, quiet, lives>>

\* recordLimits: a value that changed, or was written a while ago; what could
\* not be written is not seen.
Newest == db.limits[Len(db.limits)]
recordLimits ==
  /\ conf # Unset /\ drawn < MaxRows
  /\ seen = conf => Newest.old > 0
  /\ db' = [db EXCEPT !.limits = Append(@, [value |-> conf, old |-> 0])] /\ seen' = conf
  /\ drawn' = drawn + 1
  /\ UNCHANGED <<old, said, conf, quiet, lives>>

Age(n) == IF n > Retention THEN n ELSE n + 1
Aged(limit) == [limit EXCEPT !.old = Age(@)]
ArchiveElapse ==
  /\ old' = [r \in Runs |-> IF db.runs[r] = "over" THEN Age(old[r]) ELSE old[r]]
  /\ db' = [db EXCEPT !.limits = [i \in DOMAIN @ |-> Aged(@[i])]]
  /\ UNCHANGED <<said, conf, seen, drawn, quiet, lives>>
ArchiveRestart ==
  /\ lives < MaxLives /\ lives' = lives + 1 /\ seen' = Unset /\ quiet' = FALSE
  /\ UNCHANGED <<db, old, said, conf, drawn>>

-----------------------------------------------------------------------------
(* archive                                                                 *)

Due(d) == {r \in Runs : d.runs[r] = "over" /\ old[r] > Retention}
Of(d) == {e \in d.events : e[1] \in Due(d)}
KeepRuns(d)     == [d EXCEPT !.aruns = [r \in Runs |-> @[r] + (IF r \in Due(d) THEN 1 ELSE 0)]]
KeepEvents(d)   == [d EXCEPT !.aevents = [e \in Events |-> @[e] + (IF e \in Of(d) THEN 1 ELSE 0)]]
ForgetWords(d)  == [d EXCEPT !.search = @ \ Of(d)]
DropEvents(d)   == [d EXCEPT !.events = @ \ Of(d)]
\* Older rows stand before younger ones, so what is too old is what is first;
\* the newest stays whatever its age.
MutSpent(limits) == {i \in DOMAIN limits : limits[i].old > Retention}   \* the newest too
Spent(limits) == {i \in DOMAIN limits : i < Len(limits) /\ limits[i].old > Retention}
KeepLimits(d)   == [d EXCEPT !.alimits = @ + Cardinality(Spent(d.limits))]
DropLimits(d)   == [d EXCEPT !.limits = SubSeq(@, Cardinality(Spent(@)) + 1, Len(@))]
DropRuns(d)     == [d EXCEPT !.runs = [r \in Runs |-> IF r \in Due(d) THEN "none" ELSE @[r]]]

\* No run is open; and, in a later section, the runs that are due - one may
\* have started in between.  The statements in their order, after the first n of them.
Moved(n) ==
  LET one   == KeepRuns(db)
      two   == KeepEvents(one)
      three == ForgetWords(two)
      four  == DropEvents(three)
      five  == KeepLimits(four)
      six   == DropLimits(five)
  IN  <<one, two, three, four, five, six, DropRuns(six)>>[n]
Statements == 1 .. 7
MutRolledBack(n) == Moved(n)                  \* each statement on its own
RolledBack(n) == db
archiveLooks ==
  /\ ~quiet /\ quiet' = TRUE /\ \A r \in Runs : db.runs[r] # "open"
  /\ UNCHANGED <<db, old, said, conf, seen, drawn, lives>>
archive(n) ==
  /\ quiet /\ quiet' = FALSE /\ (Due(db) = {} => n = 1)
  /\ db' = IF Due(db) = {} THEN db ELSE IF n = 7 THEN Moved(n) ELSE RolledBack(n)
  /\ UNCHANGED <<old, said, conf, seen, drawn, lives>>

ArchiveNext ==
  \/ \E r \in Runs : Store(r) \/ Ends(r)
  \/ \E value \in Values \cup {Unset} : Edit(value)
  \/ recordLimits \/ ArchiveElapse \/ ArchiveRestart
  \/ archiveLooks \/ \E n \in Statements : archive(n)
ArchiveSpec == ArchiveInit /\ [][ArchiveNext]_archiveVars

-----------------------------------------------------------------------------
(* Properties                                                              *)

\* "Nothing is thrown away": every event that was stored is kept, once, here
\* or in the archive, also one that came after its run was moved.
NothingThrownAway ==
  \A e \in Events : e[2] <= said[e[1]] =>
    db.aevents[e] = IF e \in db.events THEN 0 ELSE 1

\* No hit whose event is gone, and no event of a run without a row: a run
\* with no row is one no limit applies to.
NoDeadHits == db.search \subseteq db.events /\ \A e \in db.events : db.runs[e[1]] # "none"

\* So is every row of the limit: those moved and those left are as many as were
\* written.
LimitsKept == db.alimits + Len(db.limits) = drawn

\* What the limit is now can be drawn, whatever its age.
LimitIsKnown == seen # Unset => db.limits # << >> /\ Newest.value = seen

(* What makes these hold between any two steps.                            *)

\* A row of the limit is as old as it stands in the table: DropLimits takes
\* what is too old, and no more.
OldestFirst == \A i, j \in DOMAIN db.limits : i <= j => db.limits[i].old >= db.limits[j].old
\* An event that was not said is nowhere, and a run is moved no more often
\* than events gave it a row.
NothingMadeUp ==
  /\ \A e \in Events : e[2] > said[e[1]] => e \notin db.events /\ db.aevents[e] = 0
  /\ \A r \in Runs : db.aruns[r] + (IF db.runs[r] = "none" THEN 0 ELSE 1) <= said[r]

\* What archive leaves behind is whole, wherever it stopped.
ArchiveInv ==
  ArchiveTypeOK /\ NothingThrownAway /\ NoDeadHits /\ LimitsKept /\ LimitIsKnown
  /\ OldestFirst /\ NothingMadeUp
=============================================================================
