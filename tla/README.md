# ammit, in TLA+

ammit is the service beside a fleet of pipeline runs: runs report events to it,
and it keeps what they said in Postgres, decides which run starts next, on which
stand, and closes, stops, revives or escalates runs that break a limit. It is
one Go process (`src/server/`, package `main`): one global mutex `mu` around
every statement that belongs together, one goroutine that loops, a few that
lift, sample or judge beside it, and HTTP handlers. The orchestrators that run
the pipeline are other programs, reached by `start_run` / `stop_run` commands.

This directory holds specifications of that service, the TLC runs that check
them on small instances, and proofs for every size of instance.

Each part of the service has a module of its own. They meet in the tables: the
queue and the runs are written by several parts, and each module has what the
others write to its tables as actions. Where two modules model the same writer,
one has it in full and says so.

## Inventory

| component | state | operations | talks to |
|---|---|---|---|
| Start queue (`queue.go`, `main.go` 745–799, 1085–1105) | table `queue`: name, payload, waiting / running / done, run_id, started | `POST` and `DELETE /queue`, `sweepQueue`, `pumpQueue`, tie at `run_start`, close at `run_end` and `finish` | runs, leases, deploys, judge; the watchdog and the keeper insert rows |
| Run lifecycle (`store.go`, `judge.go` 317, `queue.go` 54) | table `runs`: name, started, ended, verdict, archived_at; table `events` | `POST /events` → `store`; `finish`; `sweepAbandoned`; `sweepCrashed` | clients; queue; judge |
| Leases (`main.go` 1106–1186, `queue.go` 354–396) | table `leases`: name, holder, expires, at | `POST` / `GET` / `DELETE /lease`, `releaseEndedStandLeases` | runners, the deploy, the pump |
| Deploys (`deploys.go`) | table `deploys` | `POST /deploy`, `deployClear`, `lastDeployClear` | the deployer, the pump, the watchdog |
| Main loop (`main.go` 641–724) | `lastTick`, absence clock, `upSince`, `swept` | one tick: limits, sweeps, weigh, watchdog, keeper, pump, cooldown, archive, partitions | everything |
| Judge (`judge.go`, `spans.go`, `laps.go`) | `judged`, `judgedCount`, `reanimations`, `absences` in memory; `interventions` | `weigh` (about fifteen limits), `act`, `finish`, `judgeRunEnd`, `judgeEmptyRun`, `sweepCrashed` | runs, orchestrators, notify |
| Watchdog (`watchdog.go`, `watchdog_history.go`) | tables `watchdog_drops`, `watchdog_cycles`, `watchdog_meta` | `recordDrop`, `answerDrop`, `startCycle`, `queueFix`, `stepCycle`, `queueResume`, `resumeOutcome`, `queueOutcome`, `withdraw`, `announceExhausted` | queue, runs, deploys, merge requests |
| Keeper (`keeper.go`) | `keep_at` mark | `keepTick`, `keepOne` | queue, runs |
| Lift of events (`lift.go`, `answers.go`) | answers, their clocks and totals, in memory and in tables | `lift`, `liftAnswer`, `liftHistory` at the start, `backfillAnswers` beside live events | events |
| Readings of the record (`spans.go`, `laps.go`, `progress.go`, `calls.go`) | none: spans, laps, phases and turns are read from the events each time | `openRuns`, `openSpans`, `openPhases`, `currentPhases`, `turnsPerSession`, `shortPhases` | the judge, reports |
| Evidence (`evidence.go`) | objects, table `evidence`, per-key locks in memory | `POST /evidence`, `GET` | object store |
| Archive and partitions (`main.go`, `schema.go`) | schema `archive`, partitions | `archive`, `ensurePartitions` | runs, events |
| Knowledge base (`kb.go`, `kb_docs.go`) | tables `kb`, `kb_docs`, `kb_chunks` | `POST /kb`, `/kb/docs`, `/kb/stale`, `/kb/ask`, `DELETE /kb/docs` | a model that makes vectors |
| Cooldown, limits, prices | `cooledFor`, `limitsSeen`; `limit_changes` | `recordLimits`, `cooldown` | config, orchestrators |
| Configuration, search, reports, pages, SQLite import | files, none | text handling, ranking, read-only queries, one-off migration | |
| Clients (`src/src/ammit`, `src/clients`) | a queue of unsent events | send off the caller's thread, retry | `POST /events` |

What is hard in it, and what makes each part correct:

* **Queue.** The pump reads what is free and who is next under `mu`, marks the
  row under `mu` again, and starts the run with `mu` free. Between these, rows
  are withdrawn, leases taken, and the very run it starts may report its start.
  Correct: a row is started once, in its turn, on a stand with room, a row at
  `running` does not keep its slot for ever, and no row is left in the line.
* **Run lifecycle.** Events of one run are late, lost, repeated and reordered,
  and five places close a run. Correct: a ticket has one open run, what is over
  stays over, and a verdict somebody's work produced is not overwritten.
* **Leases.** A lease runs out under a holder that still works. Correct: one
  holder; nobody gives back or extends a lease that has become another's.
* **Judge.** Silence is measured by a process that is itself suspended and
  restarted; commands fail after the decision. Correct: no limit is acted on
  for time the service was deaf, a run is acted on once per breach, revivals
  stop at the cap.
* **Watchdog.** A cycle lives for hours in the database and is driven by what
  the loop finds each tick. Correct: one live cycle per drop, every cycle
  reaches an end, no more cycles than the cap in one chain, no resume twice.
* **Keeper.** It and the watchdog resume the same tickets. Correct: one waiting
  or open resume per ticket, given up after the limit.
* **Lift and readings.** Events are lost and late, the process is killed between
  two writes, and a replay runs beside live events. Correct: an answer is
  counted once and whole, a call that hangs is heard of, and what is over is
  not judged.
* **Evidence, archive.** Two uploads of the same bytes, a bucket that fails, a
  late event of an archived run. Correct: what was answered 201 is there in one
  version, nothing is archived away unseen.
* **Knowledge base.** Vectors are made with the lock let go. Correct: a vector
  is of the text beside it, what was forgotten is not found.

`PROJECT.json` lists the hazards one by one, each at its line.

## Modules

| module | models | run |
|---|---|---|
| AmmitQueue, AmmitQueueProofs, MCAmmitQueue | start queue, run lifecycle, the loop between them | `queue_events`, `queue_stands`, `queue_live`; proved |
| FixChain, AmmitWatchdog, AmmitWatchdogProofs | drops, fix cycles, resumes; FixChain is what a chain of cycles promises | `watchdog_chain`, `watchdog_outside`; proved |
| AmmitFrontier, AmmitFrontierProofs, MCAmmitFrontier | the phase a resume starts at | `frontier_resume`; proved |
| AmmitAbsence, AmmitAbsenceProofs | the judge's limits on silence, the absence clock, a loop that sleeps | `absence_silence`; proved |
| AmmitJudge, AmmitJudgeProofs, MCAmmitJudge | the other limits of `weigh`: cooldowns, actions, closes, revivals | `judge_weigh`; proved |
| AmmitRecord, AmmitRecordProofs | the readings of a run's events | `events_told`; proved |
| AmmitLift, AmmitLiftProofs | the lift of events into answers, and the replay | `events_told`, `lift_twice`; proved |
| MCAmmitEvents | the two above, side by side | `events_told` |
| AmmitKeeper, AmmitServicesProofs | the keeper and the cooldown | `services_parts`, `keeper_often`; proved |
| AmmitLeases, AmmitServicesProofs | leases with holders and expiry | `services_parts`; proved |
| AmmitEvidence, AmmitServicesProofs | uploads | `services_parts`; proved |
| AmmitArchive, AmmitServicesProofs | archive and `recordLimits` | `services_parts`; proved |
| AmmitKnowledge, AmmitServicesProofs | the knowledge base | `services_parts`; proved |
| AmmitProcess | the lives of the process, which four of the five above live in | |

AmmitLeases, AmmitEvidence, AmmitArchive, AmmitKeeper and AmmitKnowledge share
nothing but the process and its restarts (AmmitProcess). MCAmmitServices extends
all five and sets them side by side, and a behaviour is one of one of them: one
run checks five components. So do AmmitRecord and AmmitLift, two readers of the
same events, in MCAmmitEvents. So that they can be extended together, each names
its initial states, its steps and its specification after itself (`KeeperInit`,
`KeeperNext`, `KeeperSpec`, ...).

All modules but the MC modules take their sizes as constants, have one action
per critical section and declare no `RECURSIVE`, so that they can be proved
about as well as checked. What is proved of a component is said under it; the
section on proofs at the end says what they have in common and what is left.

## AmmitQueue

One action is one section of `mu`. The state:

| variable | in the program |
|---|---|
| `queue`, `posted` | table `queue`, rows in the order of their ids. `age` is `started` against the clock: under three minutes, over three, over `timeouts.run` |
| `runs` | table `runs`: `open` is `ended IS NULL`, `name` what the last `run_start` said (before one, the run's own id: `Unnamed`), `local` the provenance of the host's starter, `quiet` how long ago it spoke and started |
| `loop` | the goroutine of `main`: between which two sections it is (`pc`), the snapshot it works through (`todo`), the row and stand it picked, what the start answered, the stands held off in this pass |
| `leases`, `clear` | table `leases` as `leaseHeld` reads it; `deployClear` |
| `procs`, `minted`, `wire` | outside: the processes that run, and the events they sent that are not stored yet |
| `spent` | how much of the bounds is used |

The clock is `posted`: the only two instants the code compares across rows and
runs are a row's insertion and a run's end, so "ended after row i was queued" is
`ended >= i`.

| action | code |
|---|---|
| `PostQueue`, `WithdrawOne`, `WithdrawTicket`, `WithdrawAll` | `main.go` 751–799 |
| `StoreRunStart`, `StoreRunEnd`, `StoreOther` | `store.go` 27–119, 128–150 and 66–77: tie the oldest untied row, supersede the ticket's other open runs, upsert; close the run and its rows; any other event gives an unheard run its row |
| `TakeLease`, `DropLease`, `DeployBegins`, `DeployEnds` | `main.go` 1106–1166, `deploys.go` |
| `SweepAbandoned`, `CloseFromSnapshot` | `queue.go` 54–101, `judge.go` 317: the ids are read in one section and each is closed in one of its own |
| `SweepQueue` | `queue.go` 30–52 |
| `Weigh` | `judge.go` 585: of its limits, `timeouts.run`; same snapshot, same `finish` |
| `PumpPick`, `PumpNothing`, `CheckResume`, `MarkRunning` | `queue.go` 129–273 |
| `StartTaken`, `StartHeldOff`, `StartRefused` | the command of `act`, with `mu` free |
| `ReplyTaken`, `ReplyAgain`, `ReplyRefused` | `queue.go` 279–315; after "try again" the pass goes on with the stand held |
| `Restart`, `ProcEnds`, `AgeRow`, `AgeRun` | the container is recreated; a run ends; time passes |

`Faults` says what the surroundings may do in a run: `reorder` and `duplicate`
events, time passing (`slow`), an answer cut before its `run_id` (`unsaid`),
an orchestrator that starts a ticket running elsewhere (`several`), deploy
reports (`deploys`). An event never delivered is an event lost; nothing ever
forces a delivery. Without `reorder` the events about one ticket arrive in the
order they were sent.

### The runs

| run | instance | shows |
|---|---|---|
| `queue_events` | one ticket, 2 rows, 2 runs, 2 slots; reorder, slow, unsaid, several | `TypeOK`, `OneOpenRunPerTicket`, `DoneMeansOver`, `WaitingIsUntied`, `OneRunPerRow`, `OverStaysOver`, and the invariant of the proofs, `QueueInv` |
| `queue_stands` | two tickets, 3 rows, 3 runs, both stands with room for one, resumes and pinned rows; a deploy lease, deploy reports, one start held off; tickets symmetric | `RoomKept`, `OneRowPerRun`, `NoOvertaking` |
| `queue_live` | one ticket, 2 rows, 1 run; lost and repeated events, time, a lease, one start held off, one restart; `FairSpec` | `NoRowStuck`, `EveryRowServed` |

Bounds. Two rows and two runs of one ticket are what superseding, tying the
wrong row and a late `run_start` need: each involves one older and one newer of
the two. The stands need three rows, since overtaking wants a row in hand, one
held and one waiting, and a stand is overfilled by the second run on it with a
third row that mixes up the first two. Two tickets, because one ticket has at
most one live run unless `several` says otherwise. One held-off start, one lease
and one restart: each can fall between any two sections, and a second one finds
the loop in a state the first one left it in. What is proved holds for any of these
numbers.

`RoomKept` is about the queue's own runs whose start is stored within three
minutes: older ones do not hold a stand, by design (`queue.go` 150–156). It
excepts one case, in which the code does overfill: see `StandNotOverfilled`
below. `OneRowPerRun` is checked with events delivered once: `run_start` ties a
row without asking whether its run has one, so a `run_start` delivered twice
does tie a second row of the ticket; that row ends with the run.

Fairness. The loop is one goroutine that ticks for as long as the process runs:
`WF(LoopStep)`. Time passes for every row and run (`AgeRow`, `AgeRun`), a lease
has an expiry and is dropped, a deploy reports its end or its report stops
counting. Nothing is assumed of runs, of their events, or of people: a run may
hang, and its `run_start` be lost. A lease that is taken again for ever would
keep a row waiting for ever, and so would an orchestrator that says "try again"
for ever; both are bounded (`MaxTakes`, `MaxHolds`), and so are restarts.

### What the code does otherwise than it says

Met while modelling, each against a sentence of the repository. Each is stated
in AmmitQueue and has a counterexample when it is added to a cfg as the INVARIANT
or PROPERTY: the first, third and fourth with the constants of
`AmmitQueue_events.cfg` (`AnswerKept` with `Verdicts = {"answer"}`), the others with those of
`AmmitQueue_stands.cfg`.

* `WithdrawnStaysOut`: the pump's `UPDATE ... WHERE id=?`
  (`queue.go` 271) makes a row `running` that was withdrawn after it was picked.
* `NothingStartsUnderDeploy`: the lease is read in the pump's
  first section and the start goes out two sections later (`queue.go` 195–278).
* `AnswerKept`: a run of the snapshot that ends PASS before its
  turn is closed again as ABANDONED (`queue.go` 96, `judge.go` 317).
* `OnlyOlderSuperseded`: a `run_start` that arrives after
  the next run's closes the next run (`store.go` 105).
* `StandNotOverfilled`: with a row on each stand for one
  ticket, a `run_start` ties the older of the two, whichever it was for
  (`store.go` 93); the host is then counted free while a start on it has not
  reported, and gets a second run.

### What is proved (AmmitQueueProofs)

For every set of tickets, every number of rows, runs, slots, held-off starts,
leases and restarts, from the assumptions `TicketAssumption`, `BoundAssumption`
and `SettingAssumption`:

| theorem | property | surroundings |
|---|---|---|
| `QueueCorrect` | `QueueInv` | any |
| `TypesCorrect` | `TypeOK` | any |
| `TicketRunsOnce` | `OneOpenRunPerTicket` | any |
| `DoneRowsAreOver` | `DoneMeansOver` | any |
| `LineIsUntied` | `WaitingIsUntied` | any |
| `RowsServedOnce` | `OneRunPerRow` | any |
| `ClosedForGood` | `OverStaysOver` | any |
| `LineIsKept` | `NoOvertaking` | any |
| `RunTiesOneRow` | `OneRowPerRun` | no event delivered twice |
| `StandHasRoom` | `RoomKept` | nothing but deploys |

The two conditions are those the properties are stated under: a `run_start`
delivered twice does tie a second row, and a start older than three minutes does
not hold its stand.

The argument. `QueueInv` is inductive; none of the properties is by itself.
That a row is served once needs to know that a row a run was minted for is
`running` or `done` and not in the loop's hand to be started again
(`StartedIsNotWaiting`), which the answer "try again" could break, unless that
answer means that nothing was started (`TakenAnswer`) and the row put back is
one no run has tied. That a waiting row is untied needs the row the loop picked
to be untied and, at worst, withdrawn since (`PickedIsUntied`,
`CalledIsRunning`). The line is kept because the row in hand was the first that
could go to its stand (`PickedFirst`), and while the loop has a row in hand,
rows are only added after it or taken out: `UnpostedIsNone` says that the next
row inserted is a new one. One open run per ticket needs that a run no event was
heard of has no ticket's name (`UnheardIsUnnamed`).

`RunTiesOneRow` adds `TiedOnce`: a `run_start` is under way once, and the run a
row is tied to has none under way any more.

`StandHasRoom` adds `RoomInv`. The pump counts open rows of `runs` and rows of
the queue that are running and not tied; neither is what a stand is full of,
which is live runs. `PumpSeesAll` relates them: a live run whose `run_start` is
stored is an open row with the stand its `run_start` named (`Told`), and one
whose `run_start` is under way stands behind the row it was started for, which
holds its stand until it is tied (`RowHolds`). The latter map each run to a row
of its own (`OneRunPerRow`) that is not tied, since it could be tied only to
that run (`RoomKept`'s own condition, `Matched`), and so their number is at most
the number of starting rows. `Told` needs that a `run_start` supersedes no live
run of its ticket, which holds because the runs of a ticket come one after the
other and report in that order (`OneByOne`). What the pump found free stays so
until the start: only a start adds a live run to a stand (`KeptStep`).

The proofs go by conjunct, not by action: the steps that write a table only by
closing rows are one case (`QueueCases`), the five that write more one lemma
each (`PostRows`, `TieRows`, `MarkRows`, `AgainRows`, `AgeRows`), and likewise
for `runs` and `loop`. Only model-checked: the two liveness properties.

### Not modelled

The `LIMIT 100` on the line and the 24 hours after which a run no longer counts
as busy; the stand leases taken by runners (`branch-docker`, `branch-local` are
two more leases here, without `releaseEndedStandLeases`); the refusals of
`POST /queue` and of the payload's text; the other limits of `weigh`, which
close runs by the same `finish` in the same snapshot; `stop_run`; a start
command in flight across a restart of the service; the counters and side tables
that `store` fills. A run started without the queue is the start of a row whose
answer was cut off.

## AmmitWatchdog

The watchdog as it works for one ticket. It is driven by the loop: a tick reads
which runs ended, records the drops among them, opens a cycle for each, and then
takes every cycle that moves one step on. Between any two of its statements a
run may start or end, a row be withdrawn, or the service restart. The loop is
the only writer of drops and cycles, so an action is one write of the tick and
the reads since the write before; what GitHub or a deploy says is read in the
action that uses it.

| variable | in the program |
|---|---|
| `runs` | the ticket's rows of `runs`, in the order they started: `of` is the run a run replays, `said` that its replay and first phase are stored, `how` what `classifyDrop` and `answerDrop` make of its end, `ended` how many runs had started by then |
| `drops`, `seen` | `watchdog_drops` (the root of each), the marks `seen:` of `watchdog_meta` |
| `cycles` | `watchdog_cycles`; `late` that the timeout of its state has passed; `pr` and `deployed` what `prsOn` and `deployedAfter` would find |
| `rows` | the rows of `queue` that the watchdog inserted: a fix, a resume, a resume on a fresh budget; `run` is the tie, `born` whether the run started for the row has reported |
| `loop` | where `watchdogTick` is (`pc`), the snapshots it works through (`todo`, `cyc`) and its local variables |
| `used` | the clock, and how much of the bounds is used |

| action | code (`watchdog.go`) |
|---|---|
| `WatchWaiting` | 932–973 |
| `TickBegins`, `ReadRun` | 865–927 |
| `RecordDrop`, `MoveParent`, `QueueFresh` | `answerDrop` 977–1045, `queueFreshResume` 1781 |
| `OpenCycle`, `Exhausted`, `NoCycleNow`, `QueueFix` | `startCycle` 1096–1133, `queueFix` 1146–1174 |
| `CyclesBegin`, `CyclesEnd` | 894–900 |
| `StepStartedOver`, `StepAdopted`, `StepOn`, `StepPutDown`, `StepSpoiled`, `StepDeployed`, `StepFollow`, `StepNothing` | the branches of `stepCycle` 1319–1637, in its order: the conditions are the operators `StartedOver`, `Adopted`, `NextState`, `PutDown`, `Spoiled`, `Outcome` |
| `Withdraw`, `QueueResume`, `Move` | `withdraw` 1921, `queueResumeOf` 1797, `wdMove` 826: the writes of a branch, one by one |
| `RunStarts` (`StartElsewhere`, `ResumeStarts`), `RunEnds`, `FixStarts`, `FixEnds` | `store.go` 66–152: superseding, and the tie of the oldest running untied row, whichever the run was started for |
| `RowStarts`, `RowCloses`, `WithdrawRow` | the pump, `sweepQueue`, `DELETE /queue`; AmmitQueue has them in full |
| `Restart` | the service starts again: the tables stay, the tick is lost |

What the surroundings do is bounded by `Endings` (how runs end) and `Faults`
(runs started elsewhere, GitHub that does not answer, rows withdrawn, runs that
make no progress).

**FixChain** is what the watchdog promises of a chain: cycles are taken one at a
time, and never more than `loops.laps_watchdog`. AmmitWatchdog implements it
with `taken` the cycles of a root that are not the announcement (`Spent`) and
`moving` whether one of them is in a moving state (`MovingOf`). Under this
mapping a cycle may begin only with no other under way, and one that is over
stays over: nothing but a new cycle makes a chain move.

### The runs

| run | instance | shows |
|---|---|---|
| `watchdog_chain` | 2 runs, 3 queue rows, cap of 3 cycles and room for a fourth; runs that drop, go over budget or stop making progress | `WatchInv`, `OneCyclePerChain`, `KeepsChain` (FixChain) |
| `watchdog_outside` | 2 runs, 2 rows, one cycle; every other ending, runs started elsewhere, GitHub not answering, rows withdrawn, one restart; `FairSpec` | `NoFixForAnsweredDrop`, `CyclesMoveOn` |

Bounds. A dropped run and one run after it are what a chain is made of: the
second is a resume, a replay begun elsewhere, a fresh start, or a resume that
comes after its cycle was given up. Each of them can drop in turn and be
attributed to a cycle. Three cycles let a drop come of the first while the
second moves with the third still to be had, which is the only way two could
move at once; a fourth would break the cap. A third row is the fix of the second
cycle. When the rows are used up the `INSERT` fails, which the code handles:
the cycle is spent. One restart can fall between any two writes. Chains of
several cycles under restarts are not in either run (too many states):
`watchdog_outside` restarts within one cycle.

Fairness. The loop ticks (`WF(watchdogTick)`), and the timeout of a state a
cycle is in passes (`WF(CycleLate)`). Nothing is assumed of fix runs, of GitHub,
of deploys or of people. `CyclesMoveOn` stops at `resumed`: a resume waits for
its turn, and a resume withdrawn before it started leaves its cycle there.

### What the code does otherwise than it says

Stated at the end of AmmitWatchdog, and violated with the constants of
`AmmitWatchdog_chain.cfg` (`DropAnswered`) and with those of
`AmmitWatchdog_outside.cfg` and `MaxRow = 3` (`OneResumeInLine`):

* `DropAnswered`: a resumed run whose start is stored only
  after `timeouts.watchdog_start` finds its cycle failed and the next cycle
  under way for the drop before it. When it drops, `startCycle` sees that cycle
  moving (1097) and leaves the drop to it; but that cycle adopts the run as the
  replay of its own drop, finds it ended and recorded, and stays at `resumed`.
  The drop has no cycle of its own and no announcement, against lines 40–43.
* `OneResumeInLine`: `queueResume` (1584) and `wdMove` (1585)
  are two statements; a restart between them queues the resume again, which
  line 1568 says must not be.

### What is proved (AmmitWatchdogProofs)

For any number of runs, cycles and rows, any limit, endings, faults and restarts,
from `BoundAssumption` and `SettingAssumption`:

| theorem | property |
|---|---|
| `WatchInvariant` | `WatchInv` |
| `OneCycleAtATime` | `OneCyclePerChain` |
| `AnsweredDropsNeedNoFix` | `NoFixForAnsweredDrop` |
| `WatchdogKeepsChain` | `KeepsChain`: AmmitWatchdog implements FixChain |

The argument. `startCycle` looks that none of the chain moves and writes the cycle in the same
section; that what the loop has in hand is still as it was read when it moves a cycle on,
two writes later, holds because nobody else moves one (`LoopHolds`). `CyclesNumbered` and
`CyclesOfDrops` say that a new cycle is a new row, of a drop that is recorded, and
`NothingFollowed` that the announcement of the end is never taken up by a resume, so that `WithinLaps` is not
passed through it. That an answered drop leaves no fix needs to know where the fix of a cycle
is: no cycle names a row that is still to be inserted (`FixLinked`), a fix that reported is out of the
line (`FixBegun`), and so is that of a cycle with a pull request (`FixPassed`). The loop
withdraws the fix in one write and moves the cycle in another; `FixPassed` says of the loop's hand that
between the two the row is no longer waiting.

The refinement maps the initial state to FixChain's, and each step to one of
FixChain or to a stutter: opening a cycle adds one to `Spent` of a chain in which nothing
moves, a move to an end takes the cycle out of `MovingOf`, and every other write leaves both
as they are. `Spent` is a cardinality, so that the step which adds one is
a lemma about finite sets (`SpentOfOpened`). Only model-checked: `CyclesMoveOn`.

### Not modelled

Hands off (`actions.enforce`) and `fix_mode: off`, which end a drop's answer
after it is recorded; `enabled_at`; several pull requests on one branch, the
merge asked again and the command that checks a deploy; the causes, phases and
evidence (`causeOf`, `resumeFrom`), what is said and announced; what happens to
the rows of other tickets; the refusal of a drop whose facts cannot be read.

## AmmitFrontier

`resumeFrom` (`watchdog.go` 381–533) reads the phase a dropped run starts again
at from counts of its events by phase, while a fan-out takes phases once per
branch. `flow`, `replay` and `rec` are what the events say; `at`, `doing` and
`red` are what the runner really did on each branch. The actions `PhaseStarts`,
`PhaseEnds`, `PhasePassed` and `Judged` are the runner's; the readings
(`forwardPhase`, `CutOff`, `succeeded`, `frontierFrom`, `resumeFrom`) are
operators. Every state is one a run may drop in, so invariants of the states are
claims about every drop.

A replay does not begin at its replayed phase: it sets up first what it needs of the phases
before it, and passes over the rest. The record in the tests
(`server/testdata/watchdog_65a6d56e_events.json`, a replay from `foldgate`) runs `branch`, `env` and `map`
before it, and has a verdict on `env`, which no repair answers: any phase may be judged.

`frontier_resume`: three flows, one with a gate and its repair on a fan-out, one with two phases on a
fan-out, one on the trunk alone that ends at a gate behind a phase somebody asks for; two branches,
alike; from nothing or a replay of any forward phase; a phase starts at most three times. `FrontierInv` (finished
work is not redone), `ResumeIsAccepted`, `NothingLeftBehind`. A flow comes to its end, so the run stops
(`CHECK_DEADLOCK FALSE`). Two branches are what one count for two can mix up, and three
starts are two branches in a phase and one of them in it again after its repair. A gate is judged after its `phase_end`.

Met while modelling: `InheritedWorkKept`, at the end of the module. A replay that drops while it sets
up has begun a phase before its own work. `Furthest` is then that phase, and the resume starts at it, or when it
succeeded at the next forward phase, which is one the replayed run had done and this one may never
have begun; `watchdog.go` 382–384 says that finished work is never redone, and that inherited phases are
done too. `FrontierInv` says what is left of it: an inherited phase this run never began is resumed at only
when the run dropped before its own work.

And `FurthestIsRedone`, beside it: a branch that is in
the furthest phase while the other got through it leaves a count that says the phase is done,
and the resume starts behind it (`watchdog.go` 381: "the first forward phase that did
not get through").

### What is proved

`FrontierHolds`, `ResumeAlwaysAccepted` and `NothingIsLeftBehind`: the three invariants, for every
flow, any number of branches and any number of starts, from three assumptions.

* `FlowsAssumption`: flows are `WellFormed`. Phases have ids, each its own, and one of them has an agent; a
  repair follows the gate it loops back to, the two and all between them are on the branches or none
  is, and what is no repair loops nowhere. The flow of the record in the tests
  (`server/testdata/watchdog_65a6d56e_flow.json`) is so written; whether a phase is taken once on each branch
  the event does not say.
* `JoinedAssumption`: after a fan-out comes a phase that is not fanned out. Only `FrontierHolds` uses it: if a
  gate on the branches came last, one branch's green would make it succeed while another is in
  it, and `redoFrom` would go over finished work (`FurthestIsRedone`, seen from the other side).
* `BoundAssumption`: the branches are finitely many.

The inductive invariant says of the counts what they know of the branches. As many starts of a phase have no
end as branches are in it, or one for all (`Counted`), so that "cut off" means a branch is in it (`CutOffIs`). Who
is past a phase that nobody has to ask for began it, and so was it if a later forward phase
was (`Begun`, `Reached`): that makes the furthest phase, which is counted over all branches, say something about
each. A branch in a repair was sent there by its gate, which is behind it and still red (`Repairs`, `RedTold`): this
is why a repair that is cut off is answered by going back to a gate that did not succeed. A gate for all that is
green is behind them all (`Green`). A phase that was not begun has no verdict (`Untold`), so that a replay that
sets up is never sent back to what it inherited by what was said of it. With these, of any state: nothing broken and the furthest
phase through means that the front is the phase after it, or that there is none.

## AmmitAbsence

Silence as the judge reads it, against the absences of this service itself.
Ages stand for times. `up` is `upSince`, `last` the round's `last`, `pc` the
step of the loop, `gate` the events and the progress record that wait at `mu`,
`run` the row of a run with the newest event of each kind (`heardFrom`, `heartbeatAge`, ...).

A round is as many actions as it has waits for `mu`, and looks between two waits. What it read
before a wait is in variables of its own, as in the code: `found` is the snapshot of `sweepAbandoned`,
`listened` the `up` that `weigh` reads once (`judge.go` 380), `todo` and `hand` the runs it goes through,
`lived` the age of the one in hand. An absence may begin in any of them.

| action | code |
|---|---|
| `LateRound`, `BeginRound` | `main.go` 641–672: a round that comes late starts the clock of absences anew |
| `sweepCrashed` | `judge.go` 1008, with `since` read before its wait |
| `recordLimits`, `sweepQueue` | the waits before the two looks at how long the round has waited (`main.go` 680, 698), and the looks (`Rearmed`) |
| `readAbandoned`, `judgeAbandoned`, `closeAbandoned` | `queue.go` 54–101: the snapshot, the judgement of it, and the closes one by one |
| `listen`, `listRuns`, `takeRun` | `judge.go` 379–391, `spans.go` 68: `up`, the open runs, the next of them |
| `weighBirth`, `weighPulse`, `weighHost`, `weighSilence`, `workerUp`, `finish` | `judge.go` 409–550: stillborn; no pulse; a host run's other words; `worker_gone`; each reading a wait of its own, as is the close |
| `ProgressRound`, `Store` | `progress.go` 24–52, `store.go` |
| `Sleep`, `Deafen`, `Hear`, `Stop`, `Boot`, `WorkerStops`, `WorkerStarts`, `Elapse` | the host, Postgres, the containers, the clock |

`LiveRunKept`: no absence of ours that a round was asked about is read as a run's silence. It
excepts one case, in which the code does read it so: an absence that begins after the round was asked and before
it closes (`torn`; see below). `DeadRunClosed`: a run that died is closed all the same. Fairness: the loop, the
handlers and a live runner go on, time passes, whoever holds the writer lets go,
a stopped container is started.

`absence_silence`: one run, on the stack or on the host; sleeps, deaf spells and restarts, two in all,
each at any step of the loop. The limits are small and apart (`Heartbeat` 2, `Gone`, `RunLimit` and
`Window` 3), and the cap of ages 4 is past them, so that an age can be over every limit and every rule can close
a row. Two absences, since what is at stake is whether the first is still measured when the second comes.
Absences too short for the guard are left to the proof (`MaxSlips` 0), as their margin takes larger
limits. Absences happen while a run is open; the first word of a runner is a heartbeat; the mutex serves in turn.

### What is proved (AmmitAbsenceProofs)

`SilenceIsTyped` (`TypeOK`) and `OurSilenceIsNotTheirs` (`LiveRunKept`), for any number of runs, any limits,
any number and length of absences, at whatever step of the loop they begin, from `LimitsAssumption` and
`BoundsAssumption` (the times are positive and in the order the code takes for granted) and

* `MarginAssumption`: `Beat + (MaxSlips + 1) * Late <= Heartbeat <= RunLimit`. An absence that is too short
  for the guard (`Late`, three ticks) does not set the clock back, so each eats up to `Late` of the
  margin. The defaults, 60 s + 60 s = 120 s, have room for none besides the one under way. It is
  enough, not necessary: TLC finds no violation with one `Late` less.
* `~HostAlone`: no host run lives on while the stack's worker is down. Without it the invariant is false, see below.

`LiveRunKept` says nothing of how close a live run came to a limit. The inductive invariant does, run by run:
the readings of a live run are as young as its newest word (`Hears`), its words wait at `mu` in their order
(`Queued`, `Asks`), and the runner spoke a beat ago, give or take the absences nobody noticed (`Spoke`,
`Slack`). While a word of it waits, the run was heard within `Margin = Beat + Late + Slack`, or the word
waits for so long that the clock will be set back before anything is judged (`Heeded`, `Since`, `Fresh`).
`sweepCrashed` measures before it waits for the writer: a run it will look at was heard within what it measured, or has
a word in the line before it that was sent since (`Looked`). Each says what it says up, deaf and down, and in and between rounds.

A second part says what the loop has in hand of a run that lives while no absence cut into the round (`WInv`): past the
look at its wait it has listened for too short a time or heard the run within `Heartbeat` (`Near`), what it copied
of that run and of `up` still says so a few waits later, since without an absence nothing grew meanwhile (`Known`), and so
the run is not among those it is about to close (`Spared`).

Only model-checked: `DeadRunClosed`.

Met while modelling: `OnlyAwakeCounts`, at the end of the module, is `LiveRunKept` without its exception, and with the
constants of the run it has a counterexample. The two looks at how long a round has waited (`main.go` 680, 698) come
before the sweep and before `weigh`, and the closes several waits for `mu` after them. If the host sleeps or the
writer is held in between, `up` is what it was, or older, and the ages read after it have grown: the run is closed for a silence that was ours,
against "Only the silence measured AWAKE counts" (`judge.go` 392, `queue.go` 79).

And with `HostAlone = TRUE`, `LiveRunKept` has a counterexample with no absence at all (`MaxAway`,
`MaxBreaks` and `MaxSlips` 0, `Places = {"host"}`). The rule on `worker_gone` asks `workerUp` for the
stack's container whatever run it judges (`judge.go` 543), and `heardFrom` leaves heartbeats out. A host
run whose runner beats while its session is wedged is closed once that container is down, against
`judge.go` 529–533: "close only what is genuinely not there any more". Nor does that rule know the
clock of absences: with one, a sleep of the host longer than `worker_gone` is enough.

## AmmitJudge

The other limits of `weigh`. What crosses a limit is the environment's
(`Crosses`, `Clears`): a crossing is a run, a rule and the session, request, item
or phase that is over. The table `Rules` has what `weigh` does of each, in its
order (`judge.go` 563–1004): under what key it is cooled, which actions close the
row, whether the rest of the run or of the rule is left, and whether the command
names an agent.

| variable | in the program |
|---|---|
| `row` | `runs`: open, or how it was closed |
| `judgements`, `told` | table `interventions` |
| `cool`, `times`, `revived` | `judged`, `judgedCount`, `reanimations`, lost by a restart |
| `enforce`, `at`, `aim` | `actions.enforce`; where `weigh` is; the agent in the run's command context |
| `revivals`, `last`, `over` | history: commands given, and what is over its limit now |

`judge_weigh`: plans of two crossings, every rule beside one that reads other
names of its run, that closes it, or that closes another; the cap at one, two
lives, one command by hand or flip of `enforce`. `RevivalsBounded`,
`ReachesItsOwn`, `WarnedRunsGoOn`, the invariant of the proofs `JudgeInv`, and, with the loop fair,
`NoLimitCrossedSilently`. A second crossing is all one crossing can hide behind;
two rounds are the shortest cooldown that lets one pass without it. Where
`limits.example.yml` only warns of two rules alike, one has an action that does more.

### What is proved (AmmitJudgeProofs)

For any runs, names, rules' actions and plans, from `Wiring`: `JudgeInvariant` (`JudgeInv`),
`RevivedWithinCap` (`RevivalsBounded`), `WarningsCloseNothing` (`WarnedRunsGoOn`) and
`CommandsReachTheirOwn` (`ReachesItsOwn`). The last has the hypothesis `Pointed`: a command for one
session is configured only for rules that name one, as in the defaults of the source and
in `limits.example.yml`; the run checks that its actions are so.

`RevivalsBounded` counts the commands given over all lives of the service, while the code counts
those of one life, and counts a try before it sends the command. `RevivalsCounted` joins the two: no
more than `retry_max` for each life that is over, and what `reanimations` says for this one.
Only model-checked: `NoLimitCrossedSilently`.

### Not modelled

`judgeRunEnd`, `judgeEmptyRun`, the dry run, what a command prints,
escalation of other rules than `turn`, the numbers behind a crossing, and the limit that
`judge.go` 823 leaves changed for the requests after a blind one.

Met while modelling: with `actions.enforce: off` a round closes rows all the same
(`HandsOffStopsNothing`, at the end of the module, violated in
`AmmitJudge_weigh.cfg`): `weigh` finishes a run for the action's name, whether the command was given or not.

## AmmitRecord

This service keeps no state of a run: each limit reads the events that have
arrived, by `at` or by `id`, by branch, by agent or by session. `said` is what the runner said in
the order it happened, `log` what arrived in the order it arrived, `work` what
the runner is doing. The readings are operators: `openSpans`, `spanIsOrphaned`,
`OpenWaits` (`spans.go` 579, 158, `judge.go` 791), `openPhases` (472), `currentPhases`
(`progress.go` 91), `turnsPerSession` (`spans.go` 218), `phaseStarts` (`laps.go` 60),
`shortPhases` (`spans.go` 637).

`events_told`, of this module: every record of six events on two branches, alike, or of eight on one,
with one event on the wire or lost. `HangIsHeard` and `OverIsNotJudged` are the
two sides of `spanIsOrphaned`; `ReportedAsItIs` is what a reader of the report is
told when nothing is missing; `RecordInv` bounds the counts whatever is missing
(`NotOvercounted`) and keeps a first lap under its limit (`FirstLapIsJudged`).
Eight events are two sessions of a branch with a request and an end each; six on two
branches are a phase, a session and a request on each. A record that is full stops
(`CHECK_DEADLOCK FALSE`).

What is proved (AmmitRecordProofs), for any branches and phases, any length of a record, and however many
events are late or lost (`MaxLate` is any number): the four invariants. What is invariant says what the record tells of the
present, in `said` alone: a wait is the place of a `request_start` of its branch's session that has no end (`Waiting`);
a phase that is going on began after its last end, one that is not has an end after each of its beginnings
(`PhaseTold`); the same for a session and what was done in it (`SessionTold`). A step says one thing more or lets one
arrive (`Step`), so that each part is kept by what is added at the end. From there
on nothing is said of steps: a reading, in any state, is set against these parts. `Newest` and `Min` are taken
of sets of places; that such a set has a greatest is proved from the well-foundedness of `<` on `Nat`.
`OverIsNotJudged` rests on `BoundAssumption`: a request's name is no branch's.

Met while modelling: `ShortMeansIdle`, at the end of the module: `shortPhases`
reports a branch for closing its phase too soon although no agent ran there, since a session
of that phase on another branch is enough for its query (`spans.go` 681).

## AmmitLift

`store` keeps an event and lifts it; `liftAnswer` (`answers.go`) adds an agent's
waits up to an answer, with its clock in memory while `answersLive`, and in the
database. `Db` is the tables `events`, `turns`, `model_answers` and `model_idle`,
`phase_model_times`, the clocks and `lift_marks`; `mem` is the process; `pc` and `mark`
are where `backfillAnswers` is. `store` is its statements one after another and may be cut by a kill after any
of them (`StoreCut`): `flush` sends the rows, the clocks, the totals and the mark each on its own, and only the
replay has a transaction. `liftHistory` runs before anything is served,
`backfillAnswers` slice by slice with events in between. `Begun` is what starting over leaves, `AddNext`
what one event does to memory and tables, and `Replayed` folds it over a slice, in one transaction.

What a kill in the middle of a lift leaves, the replay does not repair, so the properties say what it spoils, and that
it spoils no more. `torn` has the events whose lift was written in part and not its mark. A torn wait spoils the
answers of its phase (`Spoiled`), a torn turn the models of rows and the totals under them (`Misnamed`). `passed` has the
events the replay read past while they were on their way.

`events_told`, of this module: two phases of one agent, alike, with the agent's model in common; two
models; three events, two on the wire at a time, in any order; two lives, with every cut. `WholeAnswers` says that an answer is
made of its own waits and of all of them, once all that was sent has arrived in its order, in a phase that is not spoiled and when no event was read past; `LiftInv` counts each
wait once, keeps a day's totals those of its answers and every turn in its table. Three events are a wait, its answer and
a turn that names the model, or two waits and an answer; two lives are one replay over what one process left.
With nothing more to send the run stops (`CHECK_DEADLOCK FALSE`).

`lift_twice` ends in a counterexample to `NothingCountedTwice`, which is `CountedOnce` without its exception: an event's lift
has written its clock and is killed before its mark (`answers.go` 196, 217). The next process starts with
that clock and from the older mark, and adds the same wait again, against "the events the tables have not seen"
(`answers.go` 238). A kill between the model and the rows of a turn is of the same kind: the replay finds the model
known and moves no row to it.

Met while modelling: an event that is late, and comes while
the replay is past its moment, is in no answer (`LeftToReplay`, against
`answers.go` 61–62). A pause longer than a day drops a clock, and `WholeAnswers` says so (`Stopped`).

### What is proved (AmmitLiftProofs)

For any phases, models and pauses, any number of events and lives, any length of a slice, events as late as can be, and a
kill after any statement: `WaitsCountedOnce` has `LiftTypeOK`, `CountedOnce`, `DaysAreTrue` and `TurnsKept`, which is
all of `LiftInv` but the models of answers.

The invariant keeps a book. `Seen` is what the mark is past, and in a clean phase, one no torn lift spoiled, a wait of
it is in one place at most: one clock that runs, or one row (`Book`). Which clocks run depends on where the process is: those of
the memory once it is loaded, those of the database before; and a clock kept in the database is the one
that runs, or empty (`Books`). The totals of a day are those of the rows under it while no turn's lift was torn
(`Tables`). A cut lift either left nothing but its event, which the replay takes; or wrote its mark, and is whole but for the turn's own
row, which `liftHistory` gives it; or its phase is clean no more, and what it wrote belongs to that phase alone (`Owned`).
None of this asks for an order of events.

A slice is a run of events one after the other, and what holds of a slice holds of each step of its fold
(`StepByStep`). The induction over its length is made by hand: if it failed somewhere there would be
a least place where it does, as `<` on `Nat` is well-founded.

## The services: AmmitKeeper, AmmitLeases, AmmitEvidence, AmmitArchive, AmmitKnowledge

**AmmitKeeper.** `loop` goes through `weigh`, `keepTick`, `keepOne` in its three
sections (`keepOneReads`, `keepOneFacts`, `keepOneInserts`), `pumpQueue` and the
two sections of `cooldown` and its command. `run` is the newest run of a ticket, `line` its rows,
`product` the product under test, `keepAt` the mark `keep_at`, `cooled` is `cooledFor`
with `judged`'s cooldown of it. Runs, people (`HandStops`, `Queue`, `Withdraw`), `run_end`
over a close of our own, the clock and restarts come in between.
`NeverLeftLying`: a ticket nobody put down is taken up again. Fairness: the loop, the
clock, and the hour at which a spent pool is full again. `KeeperInv`: one resume of the keeper's at a time,
none of a run closed over its budget, and the product put down under no run that came
from the line. One ticket with `keep` at "all", two
ticks between rounds of the keeper, an idle time of one, one restart. A run
starts from the line; one a person starts past it, between `cooldown`'s look and its
command, is not seen by the code, and is not in the model.

**AmmitLeases.** `lease` is the table, `work` and `believes` the takers and what the last answer told
them, `runRow` the row of a run, `wire` the `DELETE`s on their way. A run asks for its stand before its row is open, as
`main.go` 1098–1101 says, or after. A holder is the ticket and commit of a run, so that a resume of a run has its name. On a
stand there are a run, its resume and a run of another ticket; and there are three deploys; a lease lasts two ticks.
`LeaseInv`: two of different names that believe they hold one lease, and whose row is not closed when they are
runs, never are (`OneHolder`), but for those whose lease went over their head (`lost`). Three deploys let a late return
pass two successors.

Met while modelling: without that exception (`OneAtATime`) there is a counterexample. A run asks for its stand, the pump comes by
before the run's first event is stored, finds no open run of its ticket and gives the stand back (`queue.go`
383); another run takes it while the first is at work on it, against "a gate instead of two races" (`main.go`
1100–1101). A late `DELETE` of a run, when a resume of the same ticket and commit holds the stand, ends the same way.

**AmmitEvidence.** A request goes through `spooled`, `locked`, `putting`, `stored`, `answered`; the
bucket may fail before or after it stored, a client hang up and send again, the process be killed
and lose the locks. `EvidenceInv`: what was answered 201 has its row and the row an object, and
an object has one version (`ProofIsKept`). Three requests over four uploads: the same
bytes for two tests, the same test of two tickets, a form with a field missing. A put given
up has landed by then or never does. Left out: a store that is not configured, files too large, extensions.

**AmmitArchive.** `archive` is a transaction of seven steps, the copy to `archive.limits` among them, and may fail at
any (`RolledBack`); the look at open runs is a section before it, so that an
event may come between. `ArchiveInv`: every event is kept once, here or there; no
search hit without its event, no event of a run without a row; the newest
value of a limit can be drawn, however old, and every value is kept here or there (`LimitsKept`). Two runs with two events each, two
values, two rows of the limit. Judgements move as events do. The 72 hours of `openRuns` are left out.

**AmmitKnowledge.** `kb` is the table of entries, `docs` the documents with their chunk
and vector: a topic has at most one of prose and one of its entry's words. A write embeds
first (`embedKBDoc`) and stores in a later section; a question embeds itself, reads what
has no vector of its model, lets go of the lock, and writes (`kbBackfillReads`,
`kbBackfillWrites`). `KnowledgeInv`: a vector is of the text beside it
(`VectorIsItsOwn`), the words follow their entry unless a write said that it failed
half way (`WordsFollowEntry`), and a question sees every document that was there (`NothingUnseen`).
One topic, two writes, one question, a restart that may change the model. Two writes are what a vector of the
wrong text needs: one is replaced under the question. Left out: chunks beyond the
first and the limit of 64 of a question, ranking, topics that begin with `entry:`,
a backfill that fails in the middle. Not promised, and not so: of two writes of one topic, the one embedded last
stays, and a write sent before `DELETE /kb/docs` may be stored after it.

`services_parts` is all five, one at a time: `KeeperInv`, `LeaseInv`, `EvidenceInv`, `ArchiveInv`,
`KnowledgeInv` and `NeverLeftLying`. Nothing more happens when the bounds are
used up in some of them (`CHECK_DEADLOCK FALSE`).

`keeper_often` ends in a counterexample: `wdSetMeta` inserts `keep_at` with `ON CONFLICT
DO NOTHING` (`watchdog.go` 718), so that the mark never moves and, once `keep_every` has
passed for the first time, the keeper goes through its tickets on every tick, against
`keeper.go` 10 and 18 (`KeeperWaits`).

### What is proved

Each of the five invariants, for every value of the constants under one assumption that the code
justifies. MCAmmitServices assumes the five, so that TLC evaluates them on the instance of the run.

| theorem | property | assumption |
|---|---|---|
| `KeeperHolds` | `KeeperInv` | `Settings`: the times are positive, as `keepTick` makes them (a `keep_every` that is no positive number is 900, and without an idle time there is no cooldown) |
| `LeaseHeldByOne` | `LeaseInv` | `Callers`: a ttl is a number, and a stand's lease is asked for by runs alone |
| `EvidenceIsKept` | `EvidenceInv` | `Numbered`: the uploads are finitely many, requests are numbered from one |
| `ArchiveKeepsRecord` | `ArchiveInv` | `Bounds`: the bounds are numbers |
| `KnowledgeIsKept` | `KnowledgeInv` | `Written`: writes are numbered from one |

* Keeper. What `keepOne` read is old when it inserts; its row is the only one of its kind
  because nobody else writes a keeper's row while it has the ticket in hand (`HandIsFree`), and the
  ticket is not in work because an open run has its row in the line (`RunsHaveRows`), where the last section
  looks. `NoneStarted` is `cooldown`'s: between its look at the line and its command no row is started.
* Leases. What a work believes of its lease, the table says, unless it is among those whose lease went over their
  head: it is the holder's, and has at least as much left (`Backed`). Two believers of different names would both be
  the one holder. A late `DELETE` names its holder and touches no other's row but a namesake's; the pump
  touches no run whose row is open, since that run is live under its holder's ticket.
* Evidence. The lock of a key is held by the one request that looks for it or puts it (`LocksHeld`), so
  that a put lands once (`PutOnce`). What is stored, or named by a row, is in the bucket (`StoredIsThere`,
  `RowsAreTrue`) and stays, whatever a client, the bucket or a restart does; rows have numbers of their own
  (`RowsNumbered`).
* Archive. Events and rows are moved in one transaction or not at all. Nothing is in either place that was not
  said, and a run is moved no more often than events gave it a row (`NothingMadeUp`), so that a
  second move adds to no count wrongly. Rows of the limit are in order of their age (`OldestFirst`): what
  is dropped for its age is never the newest.
* Knowledge. A vector is made of a text that may be replaced while the model works. A document has the
  number of its write (`NumberedByWrite`) and a question reads a text under the number it has
  (`ReadOfDocuments`), so that a vector whose text was replaced meanwhile finds no document with its number. What a
  question is due has a vector of its model, or one under way (`DueIsCompared`), and the model is this
  life's (`AskedInThisLife`).

Only model-checked: `NeverLeftLying`.

## Not modelled

Configuration and its page, reports, pages and charts, the SQLite import, the clients' own
queues: text, read-only queries, one-off tools. `watchdog_history.go`, search over events but for the rows
that evidence and the archive write, `ensurePartitions`, prices and titles. What a component
leaves out is said under it, and in `PROJECT.json` beside its status.

## The proofs

Every theorem is about the specification TLC checks, with no definition changed, and holds for all
values of the constants that the named assumptions admit. The shape is the same throughout: an
inductive invariant (a conjunction of named parts, among them the type invariant), one lemma for the
initial states, one for each action or for each group of actions that write the same table, one that puts
these together, and the theorem by temporal logic. An invariant was checked by TLC
on its component's run before it was proved; where it is not among the properties of
the run (`RoomInv`, `TiedOnce`, `BackedInv` and the like) it is stated in the Proofs module.

| module | proves | of |
|---|---|---|
| AmmitQueueProofs | eight invariants, two action properties | AmmitQueue |
| AmmitWatchdogProofs | three invariants, a refinement | AmmitWatchdog, FixChain |
| AmmitJudgeProofs | four invariants | AmmitJudge |
| AmmitRecordProofs | four invariants | AmmitRecord |
| AmmitFrontierProofs | three invariants | AmmitFrontier |
| AmmitServicesProofs | one invariant of each component | the five services |
| AmmitAbsenceProofs | two invariants | AmmitAbsence |
| AmmitLiftProofs | most of an invariant | AmmitLift |

Every safety invariant that a passing run checks is the property of a theorem, but for `WholeAnswers` and what `LiftInv` says of the models
of answers; so are their action properties and the refinement. In two of them a named hypothesis goes beyond the module's
assumptions (`Pointed`, `~HostAlone`); it holds in the run, and what happens without it is said under the component.

What stays with TLC:

* Liveness under fairness, which the prover does not do: `NoRowStuck`, `EveryRowServed`, `CyclesMoveOn`,
  `DeadRunClosed`, `NoLimitCrossedSilently`, `NeverLeftLying`.
* `WholeAnswers`, and the models of answers in `LiftInv`.
* What the code does otherwise than it says: counterexamples (`keeper_often`, `lift_twice`, and what is met while modelling).
