--------------------------- MODULE AmmitWatchdog ---------------------------
(***************************************************************************)
(* The watchdog of ammit, for one ticket: the drops it records, the cycles *)
(* of fix, merge, deploy and resume that answer them, and the rows it puts *)
(* in the start queue, while runs of the ticket start and end, rows are    *)
(* started and withdrawn, and the service restarts.                        *)
(*                                                                         *)
(* The loop is the only writer of drops and cycles, so an action is one    *)
(* write of watchdogTick together with the reads since the one before; a   *)
(* handler or a restart can come in between any two.  Runs are numbered in *)
(* the order they start, and the number started so far is the clock.       *)
(***************************************************************************)
EXTENDS Naturals, FiniteSets

CONSTANTS
  MaxRun,       \* bound: runs of the ticket
  MaxCycle,     \* bound: rows of watchdog_cycles; one more INSERT fails
  MaxRow,       \* bound: rows the watchdog inserts in the queue; likewise
  Limit,        \* loops.laps_watchdog
  Renewals,     \* watchdog.budget_renewals
  Endings,      \* how runs end, a subset of EndingNames
  Faults,       \* what the surroundings may do, a subset of FaultNames
  MaxRestarts   \* bound: restarts of the service

Run   == 1..MaxRun
Cycle == 1..MaxCycle
Row   == 1..MaxRow
None  == 0

\* green; a verdict that is no drop (SKIPPED, a confirmed FAIL, a stop by hand);
\* a drop; a drop recorded and left to the keeper (every account spent, the
\* network refused); a drop over the ticket's budget.
EndingNames == {"green", "nodrop", "drop", "spent", "budget"}

\* outside: runs of the ticket started elsewhere.  unread: GitHub does not
\* answer.  withdraw: DELETE /queue.  waiting: a run makes no progress.
FaultNames == {"outside", "unread", "withdraw", "waiting"}

ASSUME BoundAssumption ==
  /\ MaxRun \in Nat \ {0} /\ MaxCycle \in Nat \ {0} /\ MaxRow \in Nat \ {0}
  /\ Limit \in Nat \ {0} /\ Renewals \in Nat /\ MaxRestarts \in Nat
ASSUME SettingAssumption == Endings \subseteq EndingNames /\ Faults \subseteq FaultNames

VARIABLES
  runs,    \* the table runs, of this ticket
  drops,   \* watchdog_drops: the root of the chain a drop belongs to, or None
  seen,    \* watchdog_meta "seen:": ended and no drop
  cycles,  \* watchdog_cycles, and what GitHub and the deploys say of each
  rows,    \* the rows of the table queue that the watchdog inserted
  used,    \* how many runs, cycles, rows and restarts there have been
  loop     \* where watchdogTick is, and its local variables

vars == <<runs, drops, seen, cycles, rows, used, loop>>

Building == {"fixing", "ci", "merging", "deploying"}
Moving   == Building \cup {"resumed"}
Over     == {"done", "dropped", "failed", "left", "exhausted"}

RunRecord ==
  [state: {"none", "open", "ended"}, how: EndingNames \cup {""}, of: Run \cup {None},
   said: BOOLEAN, ended: 0..MaxRun]
CycleRecord ==
  [state: Moving \cup Over \cup {"none"}, root: Run \cup {None}, run: Run \cup {None},
   n: 0..Limit + 1, since: 0..MaxRun, fix: Row \cup {None}, resume: Row \cup {None},
   resumed: Run \cup {None}, late: BOOLEAN, deployed: BOOLEAN,
   pr: {"none", "pending", "red", "green", "closed", "merged"}]
RowRecord ==
  [state: {"none", "waiting", "running", "done"}, kind: {"fix", "resume", "fresh"},
   source: Run \cup {None}, run: Run \cup {None}, fix: {"none", "open", "ended", "stopped"},
   begun: {"no", "yes", "late"}, born: BOOLEAN]
LoopRecord ==
  [pc: {"top", "drops", "record", "parent", "fresh", "open", "fix", "step", "withdraw",
        "move", "resume"},
   back: {"top", "drops", "step"}, todo: SUBSET Run, cyc: SUBSET Cycle,
   drop: Run \cup {None}, cycle: Cycle \cup {None}, to: Moving \cup Over,
   run: Run \cup {None}, row: Row \cup {None}]

NoRun   == [state |-> "none", how |-> "", of |-> None, said |-> FALSE, ended |-> 0]
NoCycle == [state |-> "none", root |-> None, run |-> None, n |-> 0, since |-> 0,
            fix |-> None, resume |-> None, resumed |-> None, late |-> FALSE,
            deployed |-> FALSE, pr |-> "none"]
NoRow   == [state |-> "none", kind |-> "fix", source |-> None, run |-> None,
            fix |-> "none", begun |-> "no", born |-> FALSE]
TopOfTick == [pc |-> "top", back |-> "top", todo |-> {}, cyc |-> {}, drop |-> None,
              cycle |-> None, to |-> "fixing", run |-> None, row |-> None]

\* Nothing dropped yet; the first run of the ticket has started.
Init ==
  /\ runs = [r \in Run |-> IF r = 1 THEN [NoRun EXCEPT !.state = "open", !.said = TRUE]
                                    ELSE NoRun]
  /\ drops = [r \in Run |-> None]
  /\ seen = {}
  /\ cycles = [c \in Cycle |-> NoCycle]
  /\ rows = [i \in Row |-> NoRow]
  /\ used = [runs |-> 1, cycles |-> 0, rows |-> 0, restarts |-> 0]
  /\ loop = TopOfTick

-----------------------------------------------------------------------------
(* What the statements of the program select.                              *)

Least(S) == CHOOSE x \in S : \A y \in S : x <= y
Greatest(S) == CHOOSE x \in S : \A y \in S : x >= y

Ended(r) == runs[r].state = "ended"

\* laterStarts: a later run of the ticket answers the drop of r.
Restarted(r) == \E q \in Run : q > r /\ runs[q].state # "none"

\* classifyDrop.
IsDrop(r) == Ended(r) /\ runs[r].how \in {"drop", "spent", "budget"} /\ ~Restarted(r)

RowOf(i) == IF i = None THEN NoRow ELSE rows[i]
Fix(c) == RowOf(cycles[c].fix)
Resume(c) == RowOf(cycles[c].resume)

\* rootOf: the cycles whose resume became r, queued or adopted.
Parents(r) ==
  {c \in Cycle : cycles[c].resumed = r \/ (cycles[c].resume # None /\ Resume(c).run = r)}
Parent(r) == IF Parents(r) = {} THEN None ELSE Greatest(Parents(r))
RootOf(r) == IF Parent(r) = None THEN r ELSE cycles[Parent(r)].root

CyclesOf(root) == {c \in Cycle : cycles[c].state # "none" /\ cycles[c].root = root}
MovingOf(root) == {c \in CyclesOf(root) : cycles[c].state \in Moving}

\* spentCycles.
Spent(root) == Cardinality({c \in CyclesOf(root) : cycles[c].state # "exhausted"})

\* replayOf: runs that replay the dropped run, started after the cycle was.
Replays(c) ==
  {r \in Run : r > cycles[c].since /\ runs[r].said /\ runs[r].of = cycles[c].run}

\* supersededBy: runs of the ticket begun after the drop that do not replay it.
Superseders(c) ==
  {r \in Run : /\ r > runs[cycles[c].run].ended /\ r # cycles[c].run
               /\ runs[r].said /\ runs[r].of # cycles[c].run}

\* The PR on the branch as prsOn lists it.
Listed(c) == {cycles[c].pr} \cup (IF "unread" \in Faults THEN {"none"} ELSE {})

FixEnded(c) == Fix(c).fix \in {"ended", "stopped"}
FixWithdrawn(c) ==
  cycles[c].fix # None /\ Fix(c).state = "done" /\ Fix(c).begun = "no" /\ Fix(c).fix = "none"

\* The run a resumed cycle follows: its row's, else a replay begun elsewhere.
Followed(c) ==
  IF Resume(c).run # None THEN Resume(c).run
  ELSE IF Replays(c) # {} THEN Least(Replays(c)) ELSE None

-----------------------------------------------------------------------------
(* What is found at a cycle, in the order stepCycle asks.                  *)

At(c, state) == cycles[c].state = state

\* The ticket was started over.
StartedOver(c) ==
  cycles[c].state \in Building /\ Replays(c) = {} /\ Superseders(c) # {}

\* The dropped run is being resumed by somebody else.
Adopted(c) ==
  Replays(c) # {} /\ (At(c, "fixing") \/ (At(c, "deploying") /\ cycles[c].deployed))

MutNextState(c, pr) ==
  IF At(c, "fixing") /\ pr # "none" THEN "ci"
  ELSE IF At(c, "ci") /\ pr \in {"green", "merged"} THEN "merge" ELSE "none"

\* The state the PR's own progress takes the cycle to.
NextState(c, pr) ==
  IF At(c, "fixing") /\ pr # "none" THEN "ci"
  ELSE IF At(c, "ci") /\ pr \in {"green", "merged"} THEN "merging"
  ELSE IF At(c, "merging") /\ pr = "merged" THEN "deploying" ELSE "none"

\* A person took the fix out of the queue or stopped it.
PutDown(c, pr) ==
  At(c, "fixing") /\ pr = "none" /\ (FixWithdrawn(c) \/ Fix(c).fix = "stopped")

StartLost(i) == RowOf(i).begun = "late" /\ RowOf(i).run = None /\ RowOf(i).fix = "none"

MutFixNeverLate(c, pr) ==
  \/ At(c, "fixing") /\ pr = "none" /\ ~PutDown(c, pr)
     /\ (Fix(c).fix = "ended" \/ StartLost(cycles[c].fix))
  \/ At(c, "ci") /\ (pr = "closed" \/ (pr \in {"none", "pending", "red"} /\ cycles[c].late)
                     \/ (pr = "red" /\ FixEnded(c)))
  \/ At(c, "merging") /\ pr # "merged" /\ (pr = "closed" \/ cycles[c].late)
  \/ At(c, "deploying") /\ ~cycles[c].deployed /\ cycles[c].late
  \/ At(c, "resumed") /\ Followed(c) = None /\ StartLost(cycles[c].resume)

\* The cycle is spent: no PR, a red or unread one, no merge, no deploy, no start.
Spoiled(c, pr) ==
  \/ /\ At(c, "fixing") /\ pr = "none" /\ ~PutDown(c, pr)
     /\ Fix(c).fix = "ended" \/ StartLost(cycles[c].fix) \/ cycles[c].late
  \/ At(c, "ci") /\ (pr = "closed" \/ (pr \in {"none", "pending", "red"} /\ cycles[c].late)
                     \/ (pr = "red" /\ FixEnded(c)))
  \/ At(c, "merging") /\ pr # "merged" /\ (pr = "closed" \/ cycles[c].late)
  \/ At(c, "deploying") /\ ~cycles[c].deployed /\ cycles[c].late
  \/ At(c, "resumed") /\ Followed(c) = None /\ StartLost(cycles[c].resume)

\* What becomes of a resumed cycle with the run it follows.
Outcome(c) ==
  LET r == Followed(c) IN
  IF ~At(c, "resumed") \/ r = None THEN "none"
  ELSE IF cycles[c].resumed = None \/ (Resume(c).run = None /\ Resume(c).state = "waiting")
  THEN "resumed"
  ELSE IF ~Ended(r) THEN "none"
  ELSE IF runs[r].how = "green" THEN "done"
  ELSE IF drops[r] = None /\ ~IsDrop(r) THEN "left" ELSE "none"

-----------------------------------------------------------------------------
(* watchdogTick: the drops.                                                *)

Goto(pc) == loop' = [loop EXCEPT !.pc = pc]

\* On to the next run or the next cycle of the round.
GoOn == loop' = [TopOfTick EXCEPT !.pc = loop.back, !.back = loop.back,
                                  !.todo = loop.todo, !.cyc = loop.cyc]

\* watchWaiting: a run that makes no progress is closed, and is a drop.
WatchWaiting(r) ==
  /\ "waiting" \in Faults
  /\ loop.pc = "top" /\ runs[r].state = "open" /\ drops[r] = None
  /\ runs' = [runs EXCEPT ![r].state = "ended", ![r].how = "drop", ![r].ended = used.runs]
  /\ rows' = [i \in Row |-> IF rows[i].run = r THEN [rows[i] EXCEPT !.state = "done"]
                                             ELSE rows[i]]
  /\ loop' = [loop EXCEPT !.pc = "record", !.back = "top", !.drop = r]
  /\ UNCHANGED <<drops, seen, cycles, used>>

\* finishedSince: ended, and neither recorded nor marked.
TickBegins ==
  /\ loop.pc = "top"
  /\ loop' = [loop EXCEPT !.pc = "drops", !.back = "drops",
                          !.todo = {r \in Run : Ended(r) /\ drops[r] = None /\ r \notin seen}]
  /\ UNCHANGED <<runs, drops, seen, cycles, rows, used>>

\* A run that ended without dropping is marked, so that it is not read again.
ReadRun(r) ==
  /\ loop.pc = "drops" /\ r \in loop.todo
  /\ \A q \in loop.todo : runs[r].ended <= runs[q].ended
  /\ IF IsDrop(r)
     THEN seen' = seen /\ loop' = [loop EXCEPT !.pc = "record", !.todo = @ \ {r}, !.drop = r]
     ELSE seen' = seen \cup {r} /\ loop' = [loop EXCEPT !.todo = @ \ {r}]
  /\ UNCHANGED <<runs, drops, cycles, rows, used>>

Fresh == {i \in Row : rows[i].kind = "fresh" /\ rows[i].state # "none"}

\* recordDrop, and which of its ways answerDrop goes from there.
RecordDrop ==
  LET r == loop.drop IN
  /\ loop.pc = "record"
  /\ drops' = [drops EXCEPT ![r] = RootOf(r)]
  /\ \/ runs[r].how = "spent" /\ GoOn
     \/ runs[r].how = "budget" /\ Cardinality(Fresh) >= Renewals /\ GoOn
     \/ runs[r].how = "budget" /\ Cardinality(Fresh) < Renewals /\ Goto("fresh")
     \/ runs[r].how = "drop" /\ Goto(IF Parent(r) = None THEN "open" ELSE "parent")
  /\ UNCHANGED <<runs, seen, cycles, rows, used>>

\* The cycle whose resumed run this was ends: the next one answers the drop.
MoveParent ==
  /\ loop.pc = "parent"
  /\ cycles' = [cycles EXCEPT ![Parent(loop.drop)].state = "dropped"]
  /\ Goto("open")
  /\ UNCHANGED <<runs, drops, seen, rows, used>>

\* A row of the watchdog's in the queue; beyond the bound the INSERT fails.
RoomForRow == used.rows < MaxRow
NewRow(kind, source) ==
  /\ rows' = [rows EXCEPT ![used.rows + 1] =
                [NoRow EXCEPT !.state = "waiting", !.kind = kind, !.source = source]]
  /\ used' = [used EXCEPT !.rows = @ + 1]

\* queueFreshResume: on a budget of its own, and no cycle is spent on it.
QueueFresh ==
  /\ loop.pc = "fresh"
  /\ IF RoomForRow THEN NewRow("fresh", loop.drop) ELSE UNCHANGED <<rows, used>>
  /\ GoOn
  /\ UNCHANGED <<runs, drops, seen, cycles>>

-----------------------------------------------------------------------------
(* startCycle and queueFix.                                                *)

NewCycle(state, root) ==
  /\ cycles' = [cycles EXCEPT ![used.cycles + 1] =
                  [NoCycle EXCEPT !.state = state, !.root = root, !.run = loop.drop,
                                  !.n = Spent(root) + 1, !.since = used.runs]]
  /\ used' = [used EXCEPT !.cycles = @ + 1]

MutMayBegin(root) == used.cycles < MaxCycle

\* One cycle per chain at a time.
MayBegin(root) == MovingOf(root) = {} /\ used.cycles < MaxCycle

MutWithinLimit(root) == Spent(root) <= Limit

WithinLimit(root) == Spent(root) < Limit

OpenCycle ==
  LET root == drops[loop.drop] IN
  /\ loop.pc = "open" /\ MayBegin(root) /\ WithinLimit(root)
  /\ NewCycle("fixing", root)
  /\ loop' = [loop EXCEPT !.pc = "fix", !.cycle = used.cycles + 1]
  /\ UNCHANGED <<runs, drops, seen, rows>>

\* The cycle past the last is not taken, it is announced.
Exhausted ==
  LET root == drops[loop.drop] IN
  /\ loop.pc = "open" /\ MayBegin(root) /\ ~WithinLimit(root)
  /\ NewCycle("exhausted", root)
  /\ GoOn
  /\ UNCHANGED <<runs, drops, seen, rows>>

NoCycleNow ==
  /\ loop.pc = "open" /\ ~MayBegin(drops[loop.drop])
  /\ GoOn
  /\ UNCHANGED <<runs, drops, seen, cycles, rows, used>>

\* The fix run's row and the cycle's link to it are one transaction.
QueueFix ==
  LET c == loop.cycle IN
  /\ loop.pc = "fix"
  /\ IF RoomForRow
     THEN NewRow("fix", None) /\ cycles' = [cycles EXCEPT ![c].fix = used.rows + 1]
     ELSE UNCHANGED <<rows, used>> /\ cycles' = [cycles EXCEPT ![c].state = "failed"]
  /\ GoOn
  /\ UNCHANGED <<runs, drops, seen>>

-----------------------------------------------------------------------------
(* stepCycle: each cycle that was moving when the drops had been read.     *)

CyclesBegin ==
  /\ loop.pc = "drops" /\ loop.todo = {}
  /\ loop' = [loop EXCEPT !.pc = "step", !.back = "step",
                          !.cyc = {c \in Cycle : cycles[c].state \in Moving}]
  /\ UNCHANGED <<runs, drops, seen, cycles, rows, used>>

CyclesEnd ==
  /\ loop.pc = "step" /\ loop.cyc = {}
  /\ loop' = TopOfTick
  /\ UNCHANGED <<runs, drops, seen, cycles, rows, used>>

AtCycle(c) == loop.pc = "step" /\ c \in loop.cyc /\ \A b \in loop.cyc : c <= b

\* The next write: withdraw a row first, or move the cycle at once.
Turn(c, pc, to, row, run) ==
  /\ loop' = [loop EXCEPT !.pc = pc, !.cyc = @ \ {c}, !.cycle = c, !.to = to,
                          !.row = row, !.run = run]
  /\ UNCHANGED <<runs, drops, seen, cycles, rows, used>>

StepStartedOver(c) ==
  AtCycle(c) /\ StartedOver(c) /\ Turn(c, "withdraw", "left", cycles[c].fix, None)

MutStepAdopted(c) ==
  /\ AtCycle(c) /\ ~StartedOver(c) /\ Adopted(c)
  /\ Turn(c, "move", "resumed", cycles[c].fix, Least(Replays(c)))

StepAdopted(c) ==
  /\ AtCycle(c) /\ ~StartedOver(c) /\ Adopted(c)
  /\ Turn(c, IF At(c, "fixing") THEN "withdraw" ELSE "move", "resumed",
          cycles[c].fix, Least(Replays(c)))

StepOn(c) ==
  \E pr \in Listed(c) :
    /\ AtCycle(c) /\ ~StartedOver(c) /\ ~Adopted(c) /\ NextState(c, pr) # "none"
    /\ Turn(c, "move", NextState(c, pr), None, None)

StepPutDown(c) ==
  \E pr \in Listed(c) :
    /\ AtCycle(c) /\ ~StartedOver(c) /\ ~Adopted(c) /\ PutDown(c, pr)
    /\ Turn(c, "move", "left", None, None)

StepSpoiled(c) ==
  \E pr \in Listed(c) :
    /\ AtCycle(c) /\ ~StartedOver(c) /\ ~Adopted(c) /\ Spoiled(c, pr)
    /\ Turn(c, "move", "failed", None, None)

StepDeployed(c) ==
  /\ AtCycle(c) /\ ~StartedOver(c) /\ ~Adopted(c)
  /\ At(c, "deploying") /\ cycles[c].deployed
  /\ Turn(c, "resume", "resumed", None, None)

\* The run resumed is learnt, and a row not needed for it withdrawn; or the run
\* has ended: green, or in a way that is no drop.
StepFollow(c) ==
  /\ AtCycle(c) /\ Outcome(c) # "none"
  /\ IF Outcome(c) = "resumed"
     THEN Turn(c, IF Resume(c).run = None THEN "withdraw" ELSE "move", "resumed",
               cycles[c].resume, Followed(c))
     ELSE Turn(c, "move", Outcome(c), None, None)

StepNothing(c) ==
  \E pr \in Listed(c) :
    /\ AtCycle(c) /\ ~StartedOver(c) /\ ~Adopted(c) /\ NextState(c, pr) = "none"
    /\ ~PutDown(c, pr) /\ ~Spoiled(c, pr) /\ Outcome(c) = "none"
    /\ ~(At(c, "deploying") /\ cycles[c].deployed)
    /\ loop' = [loop EXCEPT !.cyc = @ \ {c}]
    /\ UNCHANGED <<runs, drops, seen, cycles, rows, used>>

\* withdraw: a row that has not started is taken out of the line.
Withdraw ==
  /\ loop.pc = "withdraw"
  /\ rows' = [i \in Row |-> IF i = loop.row /\ rows[i].state = "waiting"
                            THEN [rows[i] EXCEPT !.state = "done"] ELSE rows[i]]
  /\ Goto("move")
  /\ UNCHANGED <<runs, drops, seen, cycles, used>>

\* queueResume.
QueueResume ==
  /\ loop.pc = "resume"
  /\ IF RoomForRow
     THEN /\ NewRow("resume", cycles[loop.cycle].run)
          /\ loop' = [loop EXCEPT !.pc = "move", !.row = used.rows + 1]
     ELSE UNCHANGED <<rows, used>> /\ Goto("move")
  /\ UNCHANGED <<runs, drops, seen, cycles>>

\* wdMove; after a cycle spent, the next one answers the same drop.  What the PR
\* and the deploys say is forgotten when the cycle is past them.
Move ==
  LET c == loop.cycle  to == loop.to
      moved == [cycles[c] EXCEPT
                  !.state = to, !.late = FALSE,
                  !.pr = IF to \in Building THEN @ ELSE "none",
                  !.deployed = @ /\ to \in Building,
                  !.resumed = IF @ = None THEN loop.run ELSE @,
                  !.resume = IF to = "resumed" /\ loop.run = None THEN loop.row ELSE @]
      follows == to = "resumed" /\ At(c, "resumed") IN
  /\ loop.pc = "move"
  /\ cycles' = [cycles EXCEPT ![c] = moved]
  /\ loop' = [TopOfTick EXCEPT !.pc = IF to = "failed" THEN "open" ELSE "step",
                               !.back = "step",
                               !.drop = IF to = "failed" THEN cycles[c].run ELSE None,
                               !.cyc = IF follows THEN loop.cyc \cup {c} ELSE loop.cyc]
  /\ UNCHANGED <<runs, drops, seen, rows, used>>

\* The service restarts: what the loop was about to write is not written.
Restart ==
  /\ used.restarts < MaxRestarts
  /\ used' = [used EXCEPT !.restarts = @ + 1]
  /\ loop' = TopOfTick
  /\ UNCHANGED <<runs, drops, seen, cycles, rows>>

-----------------------------------------------------------------------------
(* The runs of the ticket, the queue, GitHub, the deploys and time.        *)

outside == <<drops, seen, loop>>

\* The row a run_start of the ticket ties, whichever row its run was started for.
Tied == {i \in Row : rows[i].state = "running" /\ rows[i].kind # "fix" /\ rows[i].run = None}

\* A run starts, as a replay of another or (None) afresh, for the watchdog's row i
\* or (None) elsewhere.  A run of the ticket that is still open is superseded.
RunStarts(of, i) ==
  LET r == used.runs + 1 IN
  /\ used.runs < MaxRun
  /\ runs' = [q \in Run |->
       IF q = r THEN [NoRun EXCEPT !.state = "open", !.of = of]
       ELSE IF runs[q].state = "open"
       THEN [runs[q] EXCEPT !.state = "ended", !.how = "drop", !.ended = r]
       ELSE runs[q]]
  /\ rows' = [j \in Row |->
       [rows[j] EXCEPT !.run = IF Tied # {} /\ j = Least(Tied) THEN r ELSE @,
                       !.born = @ \/ j = i]]
  /\ used' = [used EXCEPT !.runs = r]
  /\ UNCHANGED <<cycles, outside>>

StartElsewhere(of) ==
  /\ "outside" \in Faults
  /\ of # None => Ended(of)
  /\ RunStarts(of, None)

\* Its replay event, if it has one, and its first phase have been stored.
RunSays(r) ==
  /\ runs[r].state # "none" /\ ~runs[r].said
  /\ runs' = [runs EXCEPT ![r].said = TRUE]
  /\ UNCHANGED <<rows, cycles, used, outside>>

RunEnds(r, how) ==
  /\ runs[r].state = "open"
  /\ runs' = [runs EXCEPT ![r].state = "ended", ![r].how = how, ![r].ended = used.runs]
  /\ rows' = [i \in Row |-> IF rows[i].run = r THEN [rows[i] EXCEPT !.state = "done"]
                                             ELSE rows[i]]
  /\ UNCHANGED <<cycles, used, outside>>

\* The pump, in the same goroutine as the watchdog: a row is started; a start
\* refused, or one that no run comes of, is closed.
RowStarts(i) ==
  /\ loop.pc = "top" /\ rows[i].state = "waiting"
  /\ rows' = [rows EXCEPT ![i].state = "running", ![i].begun = "yes"]
  /\ UNCHANGED <<runs, cycles, used, outside>>

Unborn(i) == rows[i].begun # "no" /\ rows[i].run = None /\ rows[i].fix = "none"

RowCloses(i) ==
  /\ loop.pc = "top" /\ rows[i].state = "running" /\ Unborn(i)
  /\ rows' = [rows EXCEPT ![i].state = "done"]
  /\ UNCHANGED <<runs, cycles, used, outside>>

\* The run_start of a row: of the fix run, or of the ticket's next run.
FixStarts(i) ==
  /\ rows[i].state = "running" /\ rows[i].kind = "fix" /\ rows[i].fix = "none"
  /\ rows' = [rows EXCEPT ![i].fix = "open"]
  /\ UNCHANGED <<runs, cycles, used, outside>>

ResumeStarts(i) ==
  /\ rows[i].begun # "no" /\ rows[i].kind # "fix" /\ ~rows[i].born
  /\ RunStarts(rows[i].source, i)

FixEnds(i, how) ==
  /\ rows[i].fix = "open"
  /\ rows' = [rows EXCEPT ![i].fix = how, ![i].state = "done"]
  /\ UNCHANGED <<runs, cycles, used, outside>>

\* DELETE /queue, or the pump finding the ticket answered.
WithdrawRow(i) ==
  /\ "withdraw" \in Faults /\ rows[i].state = "waiting"
  /\ rows' = [rows EXCEPT ![i].state = "done"]
  /\ UNCHANGED <<runs, cycles, used, outside>>

SetCycle(c, cycle) ==
  /\ cycles' = [cycles EXCEPT ![c] = cycle]
  /\ UNCHANGED <<runs, rows, used, outside>>
SetPr(c, pr) == SetCycle(c, [cycles[c] EXCEPT !.pr = pr])

\* The fix run opens a PR on the branch and pushes to it; its checks finish; it
\* is closed; it is merged, on the watchdog's asking or by hand.
PrOpens(c) ==
  At(c, "fixing") /\ cycles[c].pr = "none" /\ Fix(c).fix = "open" /\ SetPr(c, "pending")

PrChecked(c, result) ==
  /\ At(c, "ci") /\ cycles[c].pr \in {"pending", "red"} /\ result # cycles[c].pr
  /\ cycles[c].pr = "red" => Fix(c).fix = "open"
  /\ SetPr(c, result)

PrCloses(c) ==
  cycles[c].state \in {"ci", "merging"} /\ cycles[c].pr \in {"pending", "red", "green"}
  /\ SetPr(c, "closed")

PrMerges(c) ==
  cycles[c].state \in {"ci", "merging"} /\ cycles[c].pr = "green" /\ SetPr(c, "merged")

\* A deploy that began after the merge reports success.
DeploySucceeds(c) ==
  /\ cycles[c].pr = "merged" /\ ~cycles[c].deployed
  /\ SetCycle(c, [cycles[c] EXCEPT !.deployed = TRUE])

\* The timeout of the state a cycle is in passes; timeouts.watchdog_start of a row.
CycleLate(c) ==
  /\ cycles[c].state \in Building /\ ~cycles[c].late
  /\ SetCycle(c, [cycles[c] EXCEPT !.late = TRUE])

RowLate(i) ==
  /\ rows[i].begun = "yes" /\ Unborn(i)
  /\ rows' = [rows EXCEPT ![i].begun = "late"]
  /\ UNCHANGED <<runs, cycles, used, outside>>

-----------------------------------------------------------------------------
StepCycle ==
  \/ \E c \in Cycle : StepStartedOver(c)
  \/ \E c \in Cycle : StepAdopted(c)
  \/ \E c \in Cycle : StepOn(c)
  \/ \E c \in Cycle : StepPutDown(c)
  \/ \E c \in Cycle : StepSpoiled(c)
  \/ \E c \in Cycle : StepDeployed(c)
  \/ \E c \in Cycle : StepFollow(c)
  \/ \E c \in Cycle : StepNothing(c)
  \/ Withdraw
  \/ QueueResume
  \/ Move

watchdogTick ==
  \/ TickBegins
  \/ \E r \in Run : ReadRun(r)
  \/ RecordDrop
  \/ MoveParent
  \/ QueueFresh
  \/ OpenCycle
  \/ Exhausted
  \/ NoCycleNow
  \/ QueueFix
  \/ CyclesBegin
  \/ StepCycle
  \/ CyclesEnd

Surroundings ==
  \/ \E r \in Run : WatchWaiting(r)
  \/ Restart
  \/ \E of \in Run \cup {None} : StartElsewhere(of)
  \/ \E r \in Run : RunSays(r)
  \/ \E r \in Run, how \in Endings : RunEnds(r, how)
  \/ \E i \in Row : RowStarts(i)
  \/ \E i \in Row : RowCloses(i)
  \/ \E i \in Row : FixStarts(i)
  \/ \E i \in Row : ResumeStarts(i)
  \/ \E i \in Row, how \in {"ended", "stopped"} : FixEnds(i, how)
  \/ \E i \in Row : WithdrawRow(i)
  \/ \E c \in Cycle : PrOpens(c)
  \/ \E c \in Cycle, result \in {"pending", "red", "green"} : PrChecked(c, result)
  \/ \E c \in Cycle : PrCloses(c)
  \/ \E c \in Cycle : PrMerges(c)
  \/ \E c \in Cycle : DeploySucceeds(c)
  \/ \E c \in Cycle : CycleLate(c)
  \/ \E i \in Row : RowLate(i)

Next == watchdogTick \/ Surroundings

Spec == Init /\ [][Next]_vars

\* The loop ticks; time passes.
Fairness ==
  /\ WF_vars(watchdogTick)
  /\ \A c \in Cycle : WF_vars(CycleLate(c))

FairSpec == Spec /\ Fairness

-----------------------------------------------------------------------------
(* Properties.                                                             *)

\* Types.
TypeOK ==
  /\ runs \in [Run -> RunRecord]
  /\ drops \in [Run -> Run \cup {None}] /\ seen \subseteq Run
  /\ cycles \in [Cycle -> CycleRecord]
  /\ rows \in [Row -> RowRecord]
  /\ used \in [runs: 1..MaxRun, cycles: 0..MaxCycle, rows: 0..MaxRow,
               restarts: 0..MaxRestarts]
  /\ loop \in LoopRecord

Chain == INSTANCE FixChain WITH
  Root   <- Run,
  Limit  <- Limit,
  taken  <- [r \in Run |-> Spent(r)],
  moving <- [r \in Run |-> MovingOf(r) # {}]

\* Whatever drops, resumes and restarts come together, the cycles of a chain are
\* taken one at a time and no more than loops.laps_watchdog of them; a cycle that
\* is over does not move again.
KeepsChain == Chain!Spec

\* A chain never has two cycles under way: two fixes of one cause would be
\* merged, deployed and resumed on top of each other.
OneCyclePerChain ==
  \A b, c \in Cycle : cycles[b].state \in Moving /\ cycles[c].state \in Moving
                      /\ cycles[b].root = cycles[c].root => b = c

\* A cycle that follows a resume, or was left because the ticket was started over
\* or the fix put down, leaves no fix in the line for a drop that is answered.
NoFixForAnsweredDrop ==
  \A c \in Cycle : cycles[c].state \in {"resumed", "done", "left"} => Fix(c).state # "waiting"

(* What holds of the tables and of the loop's hand on them between any two  *)
(* writes, and makes the three above hold.                                 *)

\* The rows of watchdog_cycles, numbered as they are inserted; each is of a drop
\* that is recorded, and one that only announces the end is no run's.
CyclesNumbered ==
  \A c \in Cycle : cycles[c].state = "none" <=> c > used.cycles
CyclesOfDrops ==
  \A c \in Cycle : cycles[c].state # "none" =>
    cycles[c].root \in Run /\ cycles[c].run \in Run /\ drops[cycles[c].run] # None
NothingFollowed ==
  \A c \in Cycle : cycles[c].state \in {"none", "exhausted"} =>
    cycles[c].resume = None /\ cycles[c].resumed = None
WithinLaps == \A r \in Run : Spent(r) <= Limit

\* What the loop has in hand is still as it was read: only the loop moves a cycle.
LoopHolds ==
  /\ loop.pc \in {"record", "parent", "fresh", "open"} => loop.drop \in Run
  /\ loop.pc \in {"parent", "fresh", "open"} => drops[loop.drop] # None
  /\ loop.pc = "fix" => /\ loop.cycle \in Cycle /\ At(loop.cycle, "fixing")
                        /\ cycles[loop.cycle].fix = None /\ cycles[loop.cycle].pr = "none"
  /\ loop.pc \in {"withdraw", "move", "resume"} =>
       loop.cycle \in Cycle /\ cycles[loop.cycle].state \in Moving /\ loop.to # "exhausted"

\* A cycle past its fix, or about to be, has none in the line.
FixLinked ==
  \A c \in Cycle : /\ cycles[c].fix <= used.rows
                   /\ cycles[c].state = "none" => cycles[c].fix = None /\ cycles[c].pr = "none"
FixBegun == \A i \in Row : rows[i].fix # "none" => rows[i].state # "waiting"
FixPassed ==
  /\ \A c \in Cycle : (cycles[c].pr # "none" \/ cycles[c].state \in {"ci", "merging", "deploying"})
                       => Fix(c).state # "waiting"
  /\ loop.pc = "resume" \/ (loop.pc = "move" /\ loop.to # "failed") => Fix(loop.cycle).state # "waiting"
  /\ loop.pc = "withdraw" => \/ loop.row = cycles[loop.cycle].fix
                             \/ Fix(loop.cycle).state # "waiting"

WatchInv ==
  /\ TypeOK /\ OneCyclePerChain /\ NoFixForAnsweredDrop
  /\ CyclesNumbered /\ CyclesOfDrops /\ NothingFollowed /\ WithinLaps /\ LoopHolds
  /\ FixLinked /\ FixBegun /\ FixPassed

\* A cycle that waits for a fix, for checks, a merge or a deploy gets to a resume
\* or to its end, whatever of them never happens.
CyclesMoveOn ==
  \A c \in Cycle : cycles[c].state \in Building ~> cycles[c].state \notin Building

(* What the comments say and the code does not keep.                       *)

\* No drop is lost: between ticks every drop recorded for a fix has a cycle of
\* its chain, or the announcement of its end, after the cycle it came of.
DropAnswered ==
  loop.pc = "top" =>
    \A r \in Run : drops[r] # None /\ runs[r].how = "drop"
                   => \E c \in CyclesOf(drops[r]) : c > Parent(r)

\* A run is not queued to be resumed twice over: "a second one in the queue would
\* replay the same run again behind it".
OneResumeInLine ==
  LET resuming == {i \in Row : rows[i].state = "waiting" /\ rows[i].kind = "resume"} IN
  \A i, j \in resuming : rows[i].source = rows[j].source => i = j
=============================================================================
