----------------------------- MODULE AmmitLift -----------------------------
(***************************************************************************)
(* What an event becomes when it lands.  store keeps it whole and lifts it *)
(* into the tables that are about it: a turn into turns, the waits of an   *)
(* agent into answers of the model.  An answer is made of many events, so  *)
(* its clock is kept in memory and in the database, and what a process     *)
(* did not lift is replayed from the kept events when the next one starts, *)
(* a slice of time at a time, with new events arriving in between.  The    *)
(* statements of one lift are not one transaction, and a process may be    *)
(* killed between any two of them.                                         *)
(*                                                                         *)
(* One agent of one run, in several phases: they have clocks of their own  *)
(* and the agent's model in common.  Seconds are kept as the sequence of   *)
(* the events that were added up.                                          *)
(***************************************************************************)
EXTENDS Integers, Sequences, FiniteSets, FiniteSetsExt

CONSTANTS
  Phases,
  Models,      \* names of models as their places in the order of names, 1 and up
  Gaps,        \* how much time passes from one event of the agent to the next
  Slice,       \* six hours: how much time one slice of the replay covers
  Day,         \* a clock that stopped longer ago is dropped
  MaxEvents,   \* bound: events sent
  MaxHeld,     \* bound: events on the wire at a time
  MaxLives     \* bound: lives of this process

ASSUME LiftAssumption ==
  /\ Models \subseteq Nat \ {0} /\ Gaps \subseteq Nat \ {0}
  /\ Slice \in Nat \ {0} /\ Day \in Nat \ {0}
  /\ MaxEvents \in Nat /\ MaxHeld \in Nat /\ MaxLives \in Nat \ {0}

VARIABLES
  now, wire,   \* the time; the events sent and not arrived
  db,          \* the database, see Db
  mem,         \* the process: its clocks, the model, and answersLive
  pc,          \* "boot", "load", then "replay" and "live" of backfillAnswers
  mark,        \* how far the replay has got
  sent, lives,
  torn,        \* history: the events whose lift was written in part, and not its mark
  passed       \* history: the events the replay read past while they were on the wire

liftVars == <<now, wire, db, mem, pc, mark, sent, lives, torn, passed>>

\* tool: a wait for something else; wait: for the model, not answered yet;
\* idle: for the model, though it is not thinking; answer: an AssistantMessage.
Waits == {"tool", "wait", "idle", "answer"}
Event == [at : Nat, kind : Waits, phase : Phases, model : {0}]
           \cup [at : Nat, kind : {"turn"}, phase : Phases, model : Models]

\* events by id; turns: ids; rows: model_answers and model_idle, by event id;
\* buckets: phase_model_times; read: lift_marks, -1 for none.
Buckets == Phases \X Models
Clock == [of : Seq(Nat), at : Nat \cup {-1}]
NoClock == [of |-> << >>, at |-> -1]
LiftTypeOK ==
  /\ db.events \in Seq(Event) /\ Len(db.events) <= sent /\ wire \subseteq Event
  /\ db.turns \subseteq DOMAIN db.events
  /\ DOMAIN db.rows \subseteq {i \in DOMAIN db.events : db.events[i].kind \in {"idle", "answer"}}
  /\ \A i \in DOMAIN db.rows : db.rows[i].phase = db.events[i].phase /\ db.rows[i].model \in Models \cup {0}
  /\ db.clocks \in [Phases -> Clock]
  /\ db.model \in Models \cup {0} /\ mem.model \in Models \cup {0}
  /\ db.buckets \in [Buckets -> SUBSET DOMAIN db.rows]
  /\ db.read \in -1 .. now
  /\ mem.clocks \in [Phases -> Seq(1 .. MaxEvents)]
  /\ pc \in {"boot", "load", "replay", "live"} /\ mem.live = (pc = "live")
  /\ mark \in -1 .. now + Slice
  /\ sent \in 0 .. MaxEvents /\ lives \in 1 .. MaxLives
  /\ torn \subseteq DOMAIN db.events /\ passed \subseteq Event

Empty == << >>
Fresh == [clocks |-> [p \in Phases |-> << >>], model |-> 0, live |-> FALSE]
LiftInit ==
  /\ now = 0 /\ wire = {} /\ sent = 0 /\ lives = 1
  /\ db = [events |-> << >>, turns |-> {}, rows |-> Empty, clocks |-> [p \in Phases |-> NoClock],
           model |-> 0, buckets |-> [b \in Buckets |-> {}], read |-> -1]
  /\ mem = Fresh /\ pc = "boot" /\ mark = -1
  /\ torn = {} /\ passed = {}

-----------------------------------------------------------------------------
(* answerBatch: what one event does to the memory m and the database d, and *)
(* what flush has to write of it                                            *)

Row(e, m, of) == [phase |-> e.phase, model |-> m.model, of |-> of]
\* ON CONFLICT DO NOTHING.
Insert(rows, i, row) ==
  IF i \in DOMAIN rows THEN rows ELSE [j \in DOMAIN rows \cup {i} |-> IF j = i THEN row ELSE rows[j]]
Named(phase, model) == IF model = 0 THEN {} ELSE {<<phase, model>>}

\* A turn names the model, the largest name of the agent: every row of its
\* moves there, and the buckets it leaves and joins are due again.
MutDueAgain(rows, model) ==   \* only those it joins
  {<<rows[i].phase, model>> : i \in DOMAIN rows}
DueAgain(rows, model) ==
  UNION {Named(rows[i].phase, rows[i].model) \cup {<<rows[i].phase, model>>} : i \in DOMAIN rows}
addTurn(m, d, e) ==
  IF e.model <= m.model THEN [mem |-> m, model |-> d.model, rows |-> d.rows, touched |-> {}, dirty |-> {}]
  ELSE [mem     |-> [m EXCEPT !.model = e.model],
        model   |-> e.model,
        rows    |-> [i \in DOMAIN d.rows |-> [d.rows[i] EXCEPT !.model = e.model]],
        touched |-> {},
        dirty   |-> DueAgain(d.rows, e.model)]

\* A wait moves the clock of its phase: a tool starts it again, an answer
\* takes what it shows.
MutaddWait(m, d, e, i) ==   \* a tool lets it run on
  LET of == m.clocks[e.phase] \o (IF e.kind \in {"wait", "answer"} THEN <<i>> ELSE << >>)
  IN  [mem |-> [m EXCEPT !.clocks[e.phase] = IF e.kind = "answer" THEN << >> ELSE of],
       model |-> d.model,
       rows |-> IF e.kind = "answer" THEN Insert(d.rows, i, Row(e, m, of)) ELSE d.rows,
       touched |-> {e.phase}, dirty |-> IF e.kind = "answer" THEN Named(e.phase, m.model) ELSE {}]
addWait(m, d, e, i) ==
  LET of == m.clocks[e.phase] \o (IF e.kind \in {"wait", "answer"} THEN <<i>> ELSE << >>)
  IN  [mem     |-> [m EXCEPT !.clocks[e.phase] = IF e.kind \in {"tool", "answer"} THEN << >> ELSE of],
       model   |-> d.model,
       rows    |-> IF e.kind = "answer" THEN Insert(d.rows, i, Row(e, m, of))
                   ELSE IF e.kind = "idle" THEN Insert(d.rows, i, Row(e, m, <<i>>)) ELSE d.rows,
       touched |-> {e.phase},
       dirty   |-> IF e.kind \in {"idle", "answer"} THEN Named(e.phase, m.model) ELSE {}]
add(m, d, e, i) == IF e.kind = "turn" THEN addTurn(m, d, e) ELSE addWait(m, d, e, i)

Clocked(d, m, touched, at) ==
  [d EXCEPT !.clocks = [p \in Phases |-> IF p \in touched THEN [of |-> m.clocks[p], at |-> at] ELSE @[p]]]
Counted(d, dirty) ==
  [d EXCEPT !.buckets = [b \in Buckets |-> IF b \notin dirty THEN @[b]
       ELSE {i \in DOMAIN d.rows : d.rows[i].phase = b[1] /\ d.rows[i].model = b[2]}]]
Marked(d, at) == [d EXCEPT !.read = Max({@, at})]

-----------------------------------------------------------------------------
(* store, and the wire                                                     *)

Send(kind, phase, model, gap) ==
  /\ sent < MaxEvents /\ Cardinality(wire) < MaxHeld
  /\ now' = now + gap /\ sent' = sent + 1
  /\ wire' = wire \cup {[at |-> now', kind |-> kind, phase |-> phase, model |-> model]}
  /\ UNCHANGED <<db, mem, pc, mark, lives, torn, passed>>

Killed == /\ lives < MaxLives /\ lives' = lives + 1
          /\ mem' = Fresh /\ pc' = "boot" /\ mark' = -1

\* The writes of store, one statement after another: the event; the model of
\* its agent; the rows; the clocks; the totals; the mark; the turn's own row.
\* Until the replay is done, only the first and the last.
store(e) ==
  LET i  == Len(db.events) + 1
      a  == add(mem, db, e, i)
      d1 == [db EXCEPT !.events = Append(@, e)]
      d2 == [d1 EXCEPT !.model = a.model]
      d3 == [d2 EXCEPT !.rows = a.rows]
      d4 == Clocked(d3, a.mem, a.touched, e.at)
      d5 == Counted(d4, a.dirty)
      d6 == Marked(d5, e.at)
      Turned(d) == IF e.kind = "turn" THEN [d EXCEPT !.turns = @ \cup {i}] ELSE d
      writes == IF mem.live THEN <<d1, d2, d3, d4, d5, d6, Turned(d6)>> ELSE <<d1, Turned(d1)>>
  IN  [writes |-> writes, mem |-> IF mem.live THEN a.mem ELSE mem]
Store(e) ==
  /\ pc # "boot" /\ e \in wire /\ wire' = wire \ {e}
  /\ db' = store(e).writes[Len(store(e).writes)] /\ mem' = store(e).mem
  /\ UNCHANGED <<now, pc, mark, sent, lives, torn, passed>>
StoreCut(e, k) ==
  /\ pc # "boot" /\ e \in wire /\ wire' = wire \ {e}
  /\ k \in DOMAIN store(e).writes /\ k < Len(store(e).writes)
  /\ db' = store(e).writes[k] /\ Killed
  /\ torn' = IF db' # store(e).writes[1] /\ k < 6 THEN torn \cup {Len(db'.events)} ELSE torn
  /\ UNCHANGED <<now, sent, passed>>
Restart == pc # "boot" /\ Killed /\ UNCHANGED <<now, wire, db, sent, torn, passed>>

-----------------------------------------------------------------------------
(* What a process that starts makes up for                                 *)

\* liftHistory, before anything is served: the turns after the newest row.
MutliftHistory == UNCHANGED db                             \* left to the live path
liftHistory ==
  LET newest == Max({0} \cup db.turns)
  IN  db' = [db EXCEPT !.turns = @ \cup {i \in DOMAIN db.events : i > newest /\ db.events[i].kind = "turn"}]
Boot ==
  /\ pc = "boot" /\ pc' = "load" /\ liftHistory
  /\ UNCHANGED <<now, wire, mem, mark, sent, lives, torn, passed>>

\* backfillAnswers: from the mark, or from before the first event.
Load ==
  /\ pc = "load" /\ pc' = "replay"
  /\ mem' = [mem EXCEPT !.clocks = [p \in Phases |-> db.clocks[p].of], !.model = db.model]
  /\ mark' = IF db.read >= 0 THEN db.read
             ELSE IF db.events = << >> THEN 0 ELSE Min({db.events[i].at : i \in DOMAIN db.events}) - 1
  /\ UNCHANGED <<now, wire, db, sent, lives, torn, passed>>

\* Events in a set of ids, added one after another by their time.
ByTime(is) == CHOOSE s \in [1 .. Cardinality(is) -> is] :
                \A j, k \in DOMAIN s : j < k =>
                  \/ db.events[s[j]].at < db.events[s[k]].at
                  \/ db.events[s[j]].at = db.events[s[k]].at /\ s[j] < s[k]
Begun == [mem |-> mem, db |-> db, touched |-> {}, dirty |-> {}, at |-> [p \in Phases |-> -1]]
AddNext(b, i) ==
  LET e == db.events[i]
      a == add(b.mem, b.db, e, i)
  IN  [mem |-> a.mem, db |-> [b.db EXCEPT !.rows = a.rows, !.model = a.model],
       touched |-> b.touched \cup a.touched, dirty |-> b.dirty \cup a.dirty,
       at |-> IF a.touched = {} THEN b.at ELSE [b.at EXCEPT ![e.phase] = e.at]]
Replayed(is) ==
  LET s == ByTime(is)
      after[n \in 0 .. Len(s)] == IF n = 0 THEN Begun ELSE AddNext(after[n - 1], s[n])
  IN  after[Len(s)]
MutLater(to) == {i \in DOMAIN db.events : db.events[i].at >= mark /\ (to >= now \/ db.events[i].at <= to)}
Later(to) == {i \in DOMAIN db.events : db.events[i].at > mark /\ (to >= now \/ db.events[i].at <= to)}

\* One slice, in a transaction, under the lock; the last one turns the live
\* path on in the same section, and drops the clocks nobody will ask for.
ReplaySlice ==
  LET to   == mark + Slice
      last == to >= now
      b    == Replayed(Later(to))
      d1   == [b.db EXCEPT !.clocks = [p \in Phases |->
                 IF p \in b.touched THEN [of |-> b.mem.clocks[p], at |-> b.at[p]] ELSE @[p]]]
      d2   == Counted(d1, b.dirty)
      read == Max({-1} \cup {db.events[i].at : i \in Later(to)} \cup (IF Later(to) = {} /\ ~last THEN {to} ELSE {}))
      d3   == Marked(d2, read)
  IN  /\ pc = "replay"
      /\ mem' = [b.mem EXCEPT !.live = last]
      /\ db' = IF last THEN [d3 EXCEPT !.clocks = [p \in Phases |->
                                 IF @[p].at < now - Day THEN NoClock ELSE @[p]]] ELSE d3
      /\ pc' = IF last THEN "live" ELSE "replay"
      /\ mark' = IF last THEN mark ELSE to
      /\ passed' = passed \cup {e \in wire : e.at <= to /\ e.at < now}
      /\ UNCHANGED <<now, wire, sent, lives, torn>>

LiftNext ==
  \/ \E kind \in Waits, p \in Phases, gap \in Gaps : Send(kind, p, 0, gap)
  \/ \E p \in Phases, model \in Models, gap \in Gaps : Send("turn", p, model, gap)
  \/ \E e \in wire : Store(e) \/ \E k \in 1 .. 6 : StoreCut(e, k)
  \/ Restart \/ Boot \/ Load \/ ReplaySlice
LiftSpec == LiftInit /\ [][LiftNext]_liftVars

-----------------------------------------------------------------------------
(* Properties                                                              *)

Ids == DOMAIN db.events
Clocks(e) == {i \in Ids : db.events[i].phase = e.phase /\ db.events[i].kind # "turn"}
\* Everything that was sent has arrived, in the order it was sent in.
InOrder == wire = {} /\ \A i, j \in Ids : i < j => db.events[i].at < db.events[j].at

\* What the answer at i is made of: the waits for the model since the answer,
\* or the tool, before it.
MadeOf(i) ==
  LET before == {j \in Clocks(db.events[i]) : j < i /\ db.events[j].kind \in {"tool", "answer"}}
      from   == Max({0} \cup before)
  IN  {j \in Clocks(db.events[i]) : from < j /\ j <= i /\ db.events[j].kind \in {"wait", "answer"}}
\* The stream of i fell silent for longer than a clock is kept.
Stopped(i) == \E j, k \in Clocks(db.events[i]) :
  /\ j < k /\ k <= i /\ db.events[k].at - db.events[j].at > Day
  /\ \A l \in Clocks(db.events[i]) : l <= j \/ l >= k

\* What a lift that was torn can spoil: one of a wait the answers of its phase,
\* one of a turn what the rows of the agent and their totals are under.
Spoiled(p) == \E i \in torn : db.events[i].kind # "turn" /\ db.events[i].phase = p
Misnamed   == \E i \in torn : db.events[i].kind = "turn"

\* However often the process was restarted, and wherever in its replay: once it
\* is live, every answer there was has its row, with all of its waits and no
\* other's.  Excepted is what a torn lift spoiled, and a replay that read past
\* an event on its way.
WholeAnswers ==
  pc = "live" /\ InOrder /\ passed = {} =>
    \A i \in Ids : db.events[i].kind = "answer" /\ ~Spoiled(db.events[i].phase) =>
      /\ i \in DOMAIN db.rows
      /\ {db.rows[i].of[n] : n \in DOMAIN db.rows[i].of} \subseteq MadeOf(i)
      /\ Stopped(i) \/ Len(db.rows[i].of) = Cardinality(MadeOf(i))

\* No wait is counted twice, in one answer or in two, also when events come
\* late and out of order, but in a phase that a torn lift spoiled.
Times(i, row) == Cardinality({n \in DOMAIN row.of : row.of[n] = i})
Once(i) == /\ Cardinality({j \in DOMAIN db.rows : Times(i, db.rows[j]) > 0}) <= 1
           /\ \A j \in DOMAIN db.rows : Times(i, db.rows[j]) <= 1
CountedOnce == \A i \in Ids : ~Spoiled(db.events[i].phase) => Once(i)

\* The totals of a day are those of its answers, and every answer of an agent
\* is under the model its turns named, also the answers made before the first.
TotalsAreTrue ==
  ~Misnamed =>
    /\ \A b \in Buckets : ~Spoiled(b[1]) =>
         db.buckets[b] = {i \in DOMAIN db.rows : <<db.rows[i].phase, db.rows[i].model>> = b}
    /\ pc = "live" /\ InOrder /\ passed = {} => \A i \in DOMAIN db.rows :
         db.rows[i].model = Max({0} \cup {db.events[j].model : j \in Ids})

\* While anything is served, every turn that was kept has its row.
TurnsKept == pc # "boot" => db.turns = {i \in Ids : db.events[i].kind = "turn"}

\* Wherever the process stopped and whatever came late: a wait is counted once
\* and a day's totals are its answers', but for what a torn lift spoiled, and
\* no turn that was kept lacks its row.
LiftInv == LiftTypeOK /\ CountedOnce /\ TotalsAreTrue /\ TurnsKept

(* What the comments say and the code does not keep.                       *)

\* An event that comes while the replay runs is the replay's: once the live
\* path is on, the clock or the rows have it.
LeftToReplay ==
  pc = "live" => \A i \in Ids : db.events[i].kind = "answer" => i \in DOMAIN db.rows

\* The replay takes the events the tables have not seen.  It takes those the
\* mark has not passed, and a lift that was stopped between its clock and its
\* mark is in the tables already: its wait is counted twice.
NothingCountedTwice == \A i \in Ids : Once(i)
=============================================================================
