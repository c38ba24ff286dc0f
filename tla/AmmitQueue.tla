----------------------------- MODULE AmmitQueue -----------------------------
(***************************************************************************)
(* The start queue of ammit: the rows of the table queue, the rows of the  *)
(* table runs they turn into, the loop that starts, sweeps and closes them *)
(* and the HTTP handlers that change them in between.                      *)
(*                                                                         *)
(* One action is one critical section of the mutex mu.  The loop is one    *)
(* goroutine: loop.pc says between which two of its sections it is, so     *)
(* that an event, a DELETE /queue or a lease can come in there, as it does *)
(* in the program.  Rows are numbered in the order they were inserted, and *)
(* the number of rows inserted so far (posted) is the clock: "finished     *)
(* after row i was requested" is ended >= i.                               *)
(***************************************************************************)
EXTENDS Naturals, FiniteSets

CONSTANTS
  Tickets,      \* what a row and a run are named after
  Unnamed,      \* the name of a run no run_start has named yet (its own id)
  MaxRow,       \* bound: rows ever inserted
  MaxRun,       \* bound: runs ever minted
  Slots,        \* queue.parallel
  HostStarter,  \* context.host_starter is set
  Asks,         \* the payloads posted: the stand asked for, and whether a resume
  Verdicts,     \* what runs end with: PASS or FAIL ("answer"), or "other"
  Leases,       \* the leases somebody may take, a subset of LeaseNames
  Faults,       \* what the surroundings may do, a subset of FaultNames
  MaxHolds,     \* bound: start commands answered "try again"
  MaxTakes,     \* bound: leases taken and deploys reported
  MaxRestarts   \* bound: restarts of the service

Row   == 1..MaxRow
Run   == 1..MaxRun
Stand == {"docker", "local"}
Place == Stand \cup {"any"}
Names == Tickets \cup {Unnamed}
NoRun == 0
NoRow == 0

LeaseNames == {"deploy", "branch-docker", "branch-local"}

\* reorder, duplicate: what may happen to the events of a run on their way to
\* POST /events (one that is lost is one that never arrives).  slow: time passes:
\* a start grows older than three minutes, a run older than timeouts.run or
\* silent that long.  unsaid: the answer of a start is cut off before its
\* run_id.  several: an orchestrator starts a ticket that runs on the other
\* stand.  deploys: deploys are reported to POST /deploy.
FaultNames == {"reorder", "duplicate", "slow", "unsaid", "several", "deploys"}

ASSUME TicketAssumption == Tickets # {} /\ Unnamed \notin Tickets
ASSUME BoundAssumption ==
  /\ MaxRow \in Nat \ {0} /\ MaxRun \in Nat \ {0} /\ Slots \in Nat \ {0}
  /\ MaxHolds \in Nat /\ MaxTakes \in Nat /\ MaxRestarts \in Nat
ASSUME SettingAssumption ==
  /\ HostStarter \in BOOLEAN
  /\ Asks \subseteq [place: Place, resume: BOOLEAN]
  /\ Verdicts \subseteq {"answer", "other"}
  /\ Leases \subseteq LeaseNames
  /\ Faults \subseteq FaultNames

VARIABLES
  queue,   \* the table queue
  posted,  \* how many rows it has
  runs,    \* the table runs
  loop,    \* where the loop's goroutine is, and its local variables
  leases,  \* the leases held and not expired
  clear,   \* what deployClear says of the last report of the deploy
  procs,   \* the processes the orchestrators run (external)
  minted,  \* how many of them there have been
  wire,    \* events sent and not stored yet
  spent    \* what is left of the bounds is counted here

vars == <<queue, posted, runs, loop, leases, clear, procs, minted, wire, spent>>
outside == <<procs, minted, wire>>
gates   == <<leases, clear>>

RowRecord ==
  [state: {"none", "waiting", "running", "done"}, name: Names, place: Place,
   resume: BOOLEAN, run: Run \cup {NoRun}, age: {"fresh", "late", "expired"}]
RunRecord ==
  [state: {"none", "open", "closed"}, name: Names, verdict: {"", "answer", "other"},
   ended: 0..MaxRow, local: BOOLEAN, quiet: {"talking", "over", "silent"}]
LoopRecord ==
  [pc: {"sweep", "closing", "weigh", "judging", "check", "mark", "call", "reply"},
   todo: SUBSET Run, row: Row \cup {NoRow}, stand: Stand, asked: Place,
   said: {"", "run_id", "again", "refused"}, held: SUBSET Stand]
ProcRecord ==
  [state: {"unborn", "alive", "gone"}, name: Names, stand: Stand, row: Row \cup {NoRow}]
EventRecord ==
  [run: Run, kind: {"run_start", "run_end"}, verdict: {"", "answer", "other"}, at: 0..MaxRow]

NoQueueRow == [state |-> "none", name |-> Unnamed, place |-> "any",
               resume |-> FALSE, run |-> NoRun, age |-> "fresh"]
NoRunRow   == [state |-> "none", name |-> Unnamed, verdict |-> "", ended |-> 0,
               local |-> FALSE, quiet |-> "talking"]
NoProc     == [state |-> "unborn", name |-> Unnamed, stand |-> "docker", row |-> NoRow]
TopOfRound == [pc |-> "sweep", todo |-> {}, row |-> NoRow, stand |-> "docker",
               asked |-> "any", said |-> "", held |-> {}]

Init ==
  /\ queue = [i \in Row |-> NoQueueRow]
  /\ posted = 0
  /\ runs = [r \in Run |-> NoRunRow]
  /\ loop = TopOfRound
  /\ leases = {}
  /\ clear = TRUE
  /\ procs = [r \in Run |-> NoProc]
  /\ minted = 0
  /\ wire = {}
  /\ spent = [holds |-> 0, takes |-> 0, restarts |-> 0]

-----------------------------------------------------------------------------
(* What the statements of the program select and write.                    *)

Waiting == {i \in Row : queue[i].state = "waiting"}
Untied(i) == queue[i].state = "running" /\ queue[i].run = NoRun
Open(r) == runs[r].state = "open"

MutTieAnyUntied(t) == {i \in Row : Untied(i) /\ queue[i].name = t}

\* The row a run_start of ticket t ties: the oldest running one not tied yet.
TieTarget(t) ==
  {i \in Row : /\ Untied(i) /\ queue[i].name = t
               /\ \A j \in Row : j < i => ~(Untied(j) /\ queue[j].name = t)}

MutSupersedeNone(r, t) == {}

\* The runs a run_start of run r, ticket t, closes.
Superseded(r, t) == {q \in Run \ {r} : Open(q) /\ runs[q].name = t}

MutReplaced(r, t) == [NoRunRow EXCEPT !.state = "open", !.name = t,
                                      !.local = (procs[r].stand = "local")]

\* The row of r once its run_start of ticket t is stored: an upsert of the name.
Upserted(r, t) ==
  [runs[r] EXCEPT !.state = IF @ = "none" THEN "open" ELSE @,
                  !.name  = t,
                  !.local = (procs[r].stand = "local"),
                  !.quiet = IF @ = "silent" THEN "over" ELSE @]

\* The row of r once any other event of it is stored.
Heard(r) ==
  [runs[r] EXCEPT !.state = IF @ = "none" THEN "open" ELSE @,
                  !.quiet = IF @ = "silent" THEN "over" ELSE @]

\* The queue rows that end with run r.
RowsOf(r) == {i \in Row : queue[i].run = r}

Done(rows) == [i \in Row |-> IF i \in rows THEN [queue[i] EXCEPT !.state = "done"]
                                          ELSE queue[i]]

\* finish: the run is closed with a verdict of ammit's own, and its row with it.
Finish(r) ==
  /\ runs' = [runs EXCEPT ![r].state = "closed", ![r].verdict = "other", ![r].ended = posted]
  /\ queue' = Done(RowsOf(r))

-----------------------------------------------------------------------------
(* The HTTP handlers.                                                      *)

\* POST /queue, and the rows the watchdog and the keeper insert the same way.
PostQueue(t, ask) ==
  /\ posted < MaxRow
  /\ posted' = posted + 1
  /\ queue' = [queue EXCEPT ![posted + 1] =
                 [NoQueueRow EXCEPT !.state = "waiting", !.name = t, !.place = ask.place,
                                    !.resume = ask.resume]]
  /\ UNCHANGED <<runs, loop, gates, outside, spent>>

\* DELETE /queue/{id}, DELETE /queue?name= and DELETE /queue.
Withdraw(rows) ==
  /\ rows \cap Waiting # {}
  /\ queue' = Done(rows \cap Waiting)
  /\ UNCHANGED <<posted, runs, loop, gates, outside, spent>>

WithdrawOne(i)    == Withdraw({i})
WithdrawTicket(t) == Withdraw({i \in Row : queue[i].name = t})
WithdrawAll       == Withdraw(Row)

\* An event leaves the wire, unless it is delivered a second time.
Delivered(m) ==
  \/ wire' = wire \ {m}
  \/ "duplicate" \in Faults /\ wire' = wire

\* Without the fault reorder the events about one ticket arrive as they were sent.
InOrder(m) ==
  "reorder" \in Faults \/ ~ \E n \in wire :
      /\ procs[n.run].name = procs[m.run].name
      /\ n.run < m.run \/ (n.run = m.run /\ n.kind = "run_start" /\ m.kind = "run_end")

\* store, case run_start.
StoreRunStart(m) ==
  LET r == m.run  t == procs[m.run].name IN
  /\ m.kind = "run_start" /\ InOrder(m)
  /\ queue' = [i \in Row |-> IF i \in TieTarget(t) THEN [queue[i] EXCEPT !.run = r]
                                                  ELSE queue[i]]
  /\ runs' = [q \in Run |->
       IF q = r THEN Upserted(r, t)
       ELSE IF q \in Superseded(r, t)
       THEN [runs[q] EXCEPT !.state = "closed", !.verdict = "other", !.ended = m.at]
       ELSE runs[q]]
  /\ Delivered(m)
  /\ UNCHANGED <<posted, loop, gates, procs, minted, spent>>

\* store, case run_end: whoever closed the run before, this verdict is written.
StoreRunEnd(m) ==
  LET r == m.run IN
  /\ m.kind = "run_end" /\ InOrder(m)
  /\ runs' = [runs EXCEPT ![r] = [Heard(r) EXCEPT !.state = "closed",
                                    !.verdict = m.verdict, !.ended = m.at]]
  /\ queue' = Done(RowsOf(r))
  /\ Delivered(m)
  /\ UNCHANGED <<posted, loop, gates, procs, minted, spent>>

\* store, any other event of a run: the first one makes its row.
StoreOther(r) ==
  /\ procs[r].state # "unborn"
  /\ "reorder" \in Faults \/ runs[r].name # Unnamed \/ ~ \E m \in wire : m.run = r
  /\ runs[r].state = "none" \/ runs[r].quiet = "silent"
  /\ runs' = [runs EXCEPT ![r] = Heard(r)]
  /\ UNCHANGED <<queue, posted, loop, gates, outside, spent>>

\* POST /lease; DELETE /lease or the lease's time running out.
TakeLease(l) ==
  /\ l \notin leases /\ spent.takes < MaxTakes
  /\ leases' = leases \cup {l}
  /\ spent' = [spent EXCEPT !.takes = @ + 1]
  /\ UNCHANGED <<queue, posted, runs, loop, clear, outside>>

DropLease(l) ==
  /\ l \in leases
  /\ leases' = leases \ {l}
  /\ UNCHANGED <<queue, posted, runs, loop, clear, outside, spent>>

\* POST /deploy with a status that is not clear; then one that is, or, for
\* "yielded", two minutes without another word.
DeployBegins ==
  /\ "deploys" \in Faults /\ clear /\ spent.takes < MaxTakes
  /\ clear' = FALSE
  /\ spent' = [spent EXCEPT !.takes = @ + 1]
  /\ UNCHANGED <<queue, posted, runs, loop, leases, outside>>

DeployEnds ==
  /\ ~clear /\ clear' = TRUE
  /\ UNCHANGED <<queue, posted, runs, loop, leases, outside, spent>>

-----------------------------------------------------------------------------
(* The loop: sweepAbandoned, sweepQueue, weigh, pumpQueue, and round again. *)

\* sweepAbandoned, the snapshot: open runs silent for longer than timeouts.run.
SweepAbandoned ==
  /\ loop.pc = "sweep"
  /\ loop' = [loop EXCEPT !.pc = "closing",
                          !.todo = {r \in Run : Open(r) /\ runs[r].quiet = "silent"}]
  /\ UNCHANGED <<queue, posted, runs, gates, outside, spent>>

\* finish, for a run of the snapshot, whatever has become of it since.
CloseFromSnapshot(r) ==
  /\ loop.pc \in {"closing", "judging"} /\ r \in loop.todo
  /\ Finish(r)
  /\ loop' = [loop EXCEPT !.todo = @ \ {r}]
  /\ UNCHANGED <<posted, gates, outside, spent>>

MutSweptUntiedOnly == {i \in Row : Untied(i) /\ queue[i].age = "expired"}
MutSweptTiedToo ==
  {i \in Row : queue[i].state = "running" /\ queue[i].age # "fresh"}

\* The rows sweepQueue closes: tied to a run that is over, or never tied and
\* older than a run may be.
Swept ==
  {i \in Row : queue[i].state = "running" /\ queue[i].run # NoRun
               /\ runs[queue[i].run].state = "closed"}
  \cup {i \in Row : Untied(i) /\ queue[i].age = "expired"}

SweepQueue ==
  /\ loop.pc = "closing" /\ loop.todo = {}
  /\ queue' = Done(Swept)
  /\ loop' = [loop EXCEPT !.pc = "weigh"]
  /\ UNCHANGED <<posted, runs, gates, outside, spent>>

\* weigh, of its limits timeouts.run: the open runs of openRuns past it.
Weigh ==
  /\ loop.pc = "weigh"
  /\ loop' = [loop EXCEPT !.pc = "judging",
                          !.todo = {r \in Run : Open(r) /\ runs[r].quiet # "talking"}]
  /\ UNCHANGED <<queue, posted, runs, gates, outside, spent>>

MutStartingNone(s) == {}

\* Rows started on stand s in the last three minutes and not tied yet.
Starting(s) ==
  {i \in Row : Untied(i) /\ queue[i].age = "fresh"
               /\ (queue[i].place = s \/ (s = "docker" /\ queue[i].place = "any"))}

\* Open runs counted on stand s: the host's are those whose run_start said so.
Busy(s) == {r \in Run : Open(r) /\ (runs[r].local <=> s = "local")}

DockerFree ==
  /\ Cardinality(Busy("docker")) + Cardinality(Starting("docker")) < Slots
  /\ clear /\ "deploy" \notin leases
  /\ "docker" \notin loop.held /\ "branch-docker" \notin leases

HostFree ==
  /\ HostStarter /\ Busy("local") = {} /\ Starting("local") = {}
  /\ "deploy" \notin leases
  /\ "local" \notin loop.held /\ "branch-local" \notin leases

\* Row i, were it next, goes to stand s: its own, else docker, else the host.
GoesTo(i, s) ==
  \/ s = "docker" /\ DockerFree /\ queue[i].place \in {"docker", "any"}
  \/ s = "local" /\ HostFree /\ queue[i].place = "local"
  \/ s = "local" /\ HostFree /\ queue[i].place = "any" /\ ~DockerFree

MutNewestFirst(i, s) ==
  /\ i \in Waiting /\ GoesTo(i, s)
  /\ \A j \in Waiting : i < j => \A u \in Stand : ~GoesTo(j, u)

MutNextUpUnfinished(i, s) ==
  /\ queue[i].state \in {"waiting", "running"} /\ GoesTo(i, s)
  /\ \A j \in Waiting : j < i => \A u \in Stand : ~GoesTo(j, u)

\* The first waiting row with a free stand.
NextUp(i, s) ==
  /\ i \in Waiting /\ GoesTo(i, s)
  /\ \A j \in Waiting : j < i => \A u \in Stand : ~GoesTo(j, u)

AtPump == loop.pc = "judging" /\ loop.todo = {}

\* pumpQueueSkipping, its first section: what is free and who is next.
PumpPick(i, s) ==
  /\ AtPump /\ NextUp(i, s)
  /\ loop' = [loop EXCEPT !.pc = IF queue[i].resume THEN "check" ELSE "mark",
                          !.row = i, !.stand = s]
  /\ UNCHANGED <<queue, posted, runs, gates, outside, spent>>

MutNothingStaysHeld ==
  /\ AtPump /\ \A i \in Row, s \in Stand : ~NextUp(i, s)
  /\ loop' = [TopOfRound EXCEPT !.held = loop.held]
  /\ UNCHANGED <<queue, posted, runs, gates, outside, spent>>

PumpNothing ==
  /\ AtPump /\ \A i \in Row, s \in Stand : ~NextUp(i, s)
  /\ loop' = TopOfRound
  /\ UNCHANGED <<queue, posted, runs, gates, outside, spent>>

\* A run of the row's ticket ended PASS or FAIL after the row was queued.
Answered(i) ==
  \E r \in Run : /\ runs[r].name = queue[i].name /\ runs[r].verdict = "answer"
                 /\ runs[r].ended >= i

CheckResume ==
  /\ loop.pc = "check"
  /\ IF Answered(loop.row)
     THEN queue' = Done({loop.row}) /\ loop' = TopOfRound
     ELSE queue' = queue /\ loop' = [loop EXCEPT !.pc = "mark"]
  /\ UNCHANGED <<posted, runs, gates, outside, spent>>

\* The row is running before the run is started; the UPDATE asks for its id only.
MarkRunning ==
  /\ loop.pc = "mark"
  /\ queue' = [queue EXCEPT ![loop.row] =
                 [@ EXCEPT !.state = "running", !.place = loop.stand, !.age = "fresh"]]
  /\ loop' = [loop EXCEPT !.pc = "call", !.asked = queue[loop.row].place]
  /\ UNCHANGED <<posted, runs, gates, outside, spent>>

\* The orchestrator mints run r for row i, and the run reports its start.
Mint(r, i) ==
  /\ r = minted + 1
  /\ minted' = r
  /\ procs' = [procs EXCEPT ![r] = [state |-> "alive", name |-> queue[i].name,
                                    stand |-> loop.stand, row |-> i]]
  /\ wire' = wire \cup {[run |-> r, kind |-> "run_start", verdict |-> "", at |-> posted]}

Running(t) == \E r \in Run : procs[r].state = "alive" /\ procs[r].name = t

MutUnsaidAgain == {"run_id", "again"}

\* What ammit reads in the answer of a start that was taken.
TakenAnswers == IF "unsaid" \in Faults THEN {"run_id", "refused"} ELSE {"run_id"}

\* start_run, outside mu: taken, held off ("try again", "already running") or refused.
StartTaken(r) ==
  /\ loop.pc = "call"
  /\ "several" \in Faults \/ ~Running(queue[loop.row].name)
  /\ Mint(r, loop.row)
  /\ \E said \in TakenAnswers : loop' = [loop EXCEPT !.pc = "reply", !.said = said]
  /\ UNCHANGED <<queue, posted, runs, gates, spent>>

StartHeldOff ==
  /\ loop.pc = "call" /\ spent.holds < MaxHolds
  /\ spent' = [spent EXCEPT !.holds = @ + 1]
  /\ loop' = [loop EXCEPT !.pc = "reply", !.said = "again"]
  /\ UNCHANGED <<queue, posted, runs, gates, outside>>

StartRefused ==
  /\ loop.pc = "call"
  /\ loop' = [loop EXCEPT !.pc = "reply", !.said = "refused"]
  /\ UNCHANGED <<queue, posted, runs, gates, outside, spent>>

ReplyTaken ==
  /\ loop.pc = "reply" /\ loop.said = "run_id"
  /\ loop' = TopOfRound
  /\ UNCHANGED <<queue, posted, runs, gates, outside, spent>>

MutWaitsAgainTied(i) ==
  [queue EXCEPT ![i] = [@ EXCEPT !.state = "waiting", !.place = loop.asked, !.age = "fresh"]]
MutWaitsAgainTypo(i) ==
  [queue EXCEPT ![i] = [@ EXCEPT !.state = IF @ = "done" THEN @ ELSE "queued"]]

\* Held off: the row waits again as it was queued, if no run has tied it meanwhile.
WaitsAgain(i) ==
  IF queue[i].run = NoRun
  THEN [queue EXCEPT ![i] = [@ EXCEPT !.state = "waiting", !.place = loop.asked,
                                      !.age = "fresh"]]
  ELSE queue

\* The stand is held for this pass and the pass goes on to the next row.
ReplyAgain ==
  /\ loop.pc = "reply" /\ loop.said = "again"
  /\ queue' = WaitsAgain(loop.row)
  /\ loop' = [TopOfRound EXCEPT !.pc = "judging", !.held = loop.held \cup {loop.stand}]
  /\ UNCHANGED <<posted, runs, gates, outside, spent>>

ReplyRefused ==
  /\ loop.pc = "reply" /\ loop.said = "refused"
  /\ queue' = IF queue[loop.row].run = NoRun THEN Done({loop.row}) ELSE queue
  /\ loop' = TopOfRound
  /\ UNCHANGED <<posted, runs, gates, outside, spent>>

\* The service restarts: the database stays, the goroutine begins its round anew.
Restart ==
  /\ spent.restarts < MaxRestarts
  /\ spent' = [spent EXCEPT !.restarts = @ + 1]
  /\ loop' = TopOfRound
  /\ UNCHANGED <<queue, posted, runs, gates, outside>>

-----------------------------------------------------------------------------
(* The runs themselves, and the passing of time.                           *)

\* A run finishes its work and says so.
ProcEnds(r, verdict) ==
  /\ procs[r].state = "alive"
  /\ procs' = [procs EXCEPT ![r].state = "gone"]
  /\ wire' = wire \cup {[run |-> r, kind |-> "run_end", verdict |-> verdict, at |-> posted]}
  /\ UNCHANGED <<queue, posted, runs, loop, gates, minted, spent>>

Older == [fresh |-> "late", late |-> "expired"]
Quieter == [talking |-> "over", over |-> "silent"]

AgeRow(i) ==
  /\ "slow" \in Faults
  /\ Untied(i) /\ queue[i].age \in DOMAIN Older
  /\ queue' = [queue EXCEPT ![i].age = Older[@]]
  /\ UNCHANGED <<posted, runs, loop, gates, outside, spent>>

AgeRun(r) ==
  /\ "slow" \in Faults
  /\ Open(r) /\ runs[r].quiet \in DOMAIN Quieter
  /\ runs' = [runs EXCEPT ![r].quiet = Quieter[@]]
  /\ UNCHANGED <<queue, posted, loop, gates, outside, spent>>

-----------------------------------------------------------------------------
LoopStep ==
  \/ SweepAbandoned
  \/ \E r \in Run : CloseFromSnapshot(r)
  \/ SweepQueue
  \/ Weigh
  \/ \E i \in Row, s \in Stand : PumpPick(i, s)
  \/ PumpNothing
  \/ CheckResume
  \/ MarkRunning
  \/ \E r \in Run : StartTaken(r)
  \/ StartHeldOff
  \/ StartRefused
  \/ ReplyTaken
  \/ ReplyAgain
  \/ ReplyRefused

Handler ==
  \/ \E t \in Tickets, ask \in Asks : PostQueue(t, ask)
  \/ \E i \in Row : WithdrawOne(i)
  \/ \E t \in Tickets : WithdrawTicket(t)
  \/ WithdrawAll
  \/ \E m \in wire : StoreRunStart(m)
  \/ \E m \in wire : StoreRunEnd(m)
  \/ \E r \in Run : StoreOther(r)
  \/ \E l \in Leases : TakeLease(l)
  \/ \E l \in Leases : DropLease(l)
  \/ DeployBegins
  \/ DeployEnds

Surroundings ==
  \/ Restart
  \/ \E r \in Run, v \in Verdicts : ProcEnds(r, v)
  \/ \E i \in Row : AgeRow(i)
  \/ \E r \in Run : AgeRun(r)

Next == LoopStep \/ Handler \/ Surroundings

Spec == Init /\ [][Next]_vars

\* The loop ticks for as long as the service runs, time passes, leases run out
\* and a deploy reports its end.  Nothing is assumed of the runs, of their
\* events or of the people who post and withdraw rows.
Fairness ==
  /\ WF_vars(LoopStep)
  /\ \A i \in Row : WF_vars(AgeRow(i))
  /\ \A r \in Run : WF_vars(AgeRun(r))
  /\ \A l \in Leases : WF_vars(DropLease(l))
  /\ WF_vars(DeployEnds)

FairSpec == Spec /\ Fairness

-----------------------------------------------------------------------------
(* Properties.                                                             *)

\* "A start that has not reported its run yet holds its stand too": no stand has
\* more live runs than it has room for, whatever has been tied to what.
StandNotOverfilled ==
  /\ Cardinality({r \in Run : procs[r].state = "alive" /\ procs[r].stand = "docker"}) <= Slots
  /\ Cardinality({r \in Run : procs[r].state = "alive" /\ procs[r].stand = "local"}) <= 1

\* Types; and the rows are those inserted so far.
TypeOK ==
  /\ queue \in [Row -> RowRecord]
  /\ posted \in 0..MaxRow
  /\ runs \in [Run -> RunRecord]
  /\ loop \in LoopRecord
  /\ leases \subseteq Leases /\ clear \in BOOLEAN
  /\ procs \in [Run -> ProcRecord] /\ minted \in 0..MaxRun
  /\ wire \subseteq EventRecord
  /\ spent \in [holds: 0..MaxHolds, takes: 0..MaxTakes, restarts: 0..MaxRestarts]

\* However the events of a ticket's runs arrive, late, twice or out of order,
\* and whoever else closes runs, a ticket never has two open runs: the two
\* would share /runs/<name> and a stop of one would stop the other.
OneOpenRunPerTicket ==
  \A q, r \in Run : Open(q) /\ Open(r) /\ runs[q].name = runs[r].name
                    /\ runs[q].name \in Tickets => q = r

\* A row that is done and was tied to a run: that run is over.  The sweep for
\* rows that never became a run, and the close of a refused start, do not end
\* the row of a live run whose run_start came in meanwhile.
DoneMeansOver ==
  \A i \in Row : queue[i].state = "done" /\ queue[i].run # NoRun
                 => runs[queue[i].run].state = "closed"

\* A row in the line belongs to no run: a start answered "try again" after the
\* run_start of it came in is not put back, and would be started a second time.
WaitingIsUntied == \A i \in Waiting : queue[i].run = NoRun

\* One run is one row: a run_start delivered once ties one row, whatever other
\* rows of its ticket are running.
OneRowPerRun ==
  \A i, j \in Row : queue[i].run # NoRun /\ queue[i].run = queue[j].run => i = j

\* A row is served once: however its start was answered, withdrawn, swept or cut
\* off by a restart, no second run is started for a row that was started.
OneRunPerRow ==
  \A q, r \in Run : procs[q].row # NoRow /\ procs[q].row = procs[r].row => q = r

\* A stand has no more live runs than it has room for, where the only runs are
\* the queue's, their events are neither lost nor slower than three minutes, and
\* no row has been tied to the run of another row of its ticket.
RoomKept ==
  (\A i \in Row : queue[i].run # NoRun => procs[queue[i].run].row = i) => StandNotOverfilled

\* A run that is over stays over, whatever of it arrives late.
OverStaysOver ==
  [][\A r \in Run : runs[r].state = "closed" => runs'[r].state = "closed"]_vars

\* The line is a line: no row is started on a stand while an older row that
\* could go there waits, although other rows were posted, withdrawn and held off
\* between the look at the line and the start.
NoOvertaking ==
  [][\A i, j \in Row :
       /\ queue[i].state # "running" /\ queue'[i].state = "running"
       /\ j < i /\ queue[j].state = "waiting"
       => queue[j].place \notin {"any", queue'[i].place}]_vars

\* A row at running does not hold its slot for ever, though its run_start was
\* lost, its run was superseded or died, or the service restarted under it.
NoRowStuck == \A i \in Row : queue[i].state = "running" ~> queue[i].state # "running"

\* A row in the line is started or withdrawn in the end: older rows, held-off
\* starts, deploys, leases and restarts only delay it.
EveryRowServed == \A i \in Row : queue[i].state = "waiting" ~> queue[i].state # "waiting"

\* The conjuncts that make the invariants above inductive.
UnheardIsUnnamed == \A r \in Run : runs[r].state = "none" => runs[r].name = Unnamed
UnpostedIsNone == \A i \in Row : i > posted => queue[i] = NoQueueRow
PickedIsUntied ==
  loop.pc \in {"check", "mark"} =>
    /\ loop.row \in Row /\ queue[loop.row].run = NoRun
    /\ queue[loop.row].state \in {"waiting", "done"}
CalledIsRunning ==
  loop.pc \in {"call", "reply"} =>
    loop.row \in Row /\ queue[loop.row].state \in {"running", "done"}
TakenAnswer ==
  loop.pc = "reply" /\ loop.said = "again" => \A r \in Run : procs[r].row # loop.row
StartedIsNotWaiting ==
  \A r \in Run : procs[r].row # NoRow =>
     /\ queue[procs[r].row].state \in {"running", "done"}
     /\ loop.pc \in {"check", "mark", "call"} => procs[r].row # loop.row
PickedFirst ==
  loop.pc \in {"check", "mark"} =>
    \A j \in Waiting : j < loop.row => queue[j].place \notin {"any", loop.stand}
UnbornHasNoRow == \A r \in Run : r > minted => procs[r].row = NoRow

QueueInv ==
  /\ TypeOK
  /\ OneOpenRunPerTicket /\ UnheardIsUnnamed /\ UnpostedIsNone
  /\ DoneMeansOver /\ WaitingIsUntied /\ PickedIsUntied /\ CalledIsRunning
  /\ OneRunPerRow /\ TakenAnswer /\ StartedIsNotWaiting /\ UnbornHasNoRow
  /\ PickedFirst

(* What the comments say and the code does not keep.                       *)

\* "Taking waiting rows out of the line" (main.go): a row taken out stays out.
WithdrawnStaysOut ==
  [][\A i \in Row : queue[i].state = "done" => queue'[i].state = "done"]_vars

\* "Nothing starts, on either stand, while a deploy holds the deploy lease."
NothingStartsUnderDeploy ==
  [][\A r \in Run : StartTaken(r) => "deploy" \notin leases]_vars

\* "A new run of a ticket supersedes any older run": the older, never the newer.
OnlyOlderSuperseded ==
  [][\A m \in wire : StoreRunStart(m) =>
       \A q \in Superseded(m.run, procs[m.run].name) : q < m.run]_vars

\* A close by ammit is "never confused with a verdict somebody's work produced".
AnswerKept ==
  [][\A r \in Run : runs[r].verdict = "answer" => runs'[r].verdict = "answer"]_vars
=============================================================================
