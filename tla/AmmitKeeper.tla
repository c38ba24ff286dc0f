---------------------------- MODULE AmmitKeeper ----------------------------
(***************************************************************************)
(* The stack between runs.  With watchdog.keep at "all", the keeper looks  *)
(* at every ticket with a run and queues a resume of one that is lying:    *)
(* its last run over without a verdict, not put down by a person, and      *)
(* nothing of it in the line.  cooldown puts the product down when nothing *)
(* has run for a while.  Both are rounds of the main loop, which reads the *)
(* record in sections and acts on it later, with runs, people and restarts *)
(* in between.                                                             *)
(*                                                                         *)
(* The line itself is AmmitQueue's: here a row is waiting or running, and  *)
(* the tickets are of the last two days.  Ages stop counting where no      *)
(* comparison tells them apart any more.                                   *)
(***************************************************************************)
EXTENDS Integers, FiniteSets, AmmitProcess

CONSTANTS
  Tickets,
  Every,      \* watchdog.keep_every
  Idle        \* timeouts.idle

VARIABLES
  run,        \* of each ticket, its newest run
  line,       \* of each ticket, its rows that are waiting or running
  product,    \* the product under test: up or down
  keepAt,     \* how long ago watchdog_meta's keep_at is
  asked,      \* history: how long ago the keeper last went through its list
  still,      \* how long ago the last run or row started or was asked for
  up,         \* how long this process is awake
  cooled,     \* is this stretch cooled, and how long ago was it tried?
  loop        \* the main loop: its step, and what it has in hand

keeperVars == <<run, line, product, keepAt, asked, still, up, cooled, loop, lives>>

\* A keep_every that is no positive number is 900 to keepTick, and with an idle
\* that is none there is no cooldown.
Settings == Every \in Nat \ {0} /\ Idle \in Nat \ {0} /\ MaxLives \in Nat \ {0}

Never == -1
Run == [state : {"none", "open", "over"}, verdict : {"", "PASS", "FAIL", "BLOCKED"},
        summary : {"plain", "budget", "approval", "stopped"},
        judged : SUBSET {"hand", "ours", "budget"},
        back : BOOLEAN,          \* the runner named an hour that has not come
        said : BOOLEAN]          \* its run_end has come
NoRun == [state |-> "none", verdict |-> "", summary |-> "plain", judged |-> {}, back |-> FALSE, said |-> TRUE]
LineRow == [by : {"keeper", "other"}, state : {"waiting", "running"}]
Steps == {"weigh", "keep", "read", "facts", "insert", "pump", "cool", "pending", "act"}
Resting == [at |-> "weigh", todo |-> {}, tickets |-> {}, same |-> TRUE]
NotCooled == [done |-> FALSE, tried |-> Never]

KeeperTypeOK ==
  /\ run \in [Tickets -> Run] /\ line \in [Tickets -> SUBSET LineRow]
  /\ product \in {"up", "down"} /\ keepAt \in Never .. Every /\ asked \in Never .. Every
  /\ still \in 0 .. Idle + 1 /\ up \in 0 .. Idle + 1
  /\ cooled \in [done : BOOLEAN, tried : Never .. Idle]
  /\ loop \in [at : Steps, todo : SUBSET Tickets, tickets : SUBSET Tickets, same : BOOLEAN]
  /\ \A t, u \in loop.tickets : t = u
  /\ lives \in 1 .. MaxLives
  /\ \A t \in Tickets : (run[t].state = "over") = (run[t].verdict # "")

KeeperInit ==
  /\ run = [t \in Tickets |-> NoRun] /\ line = [t \in Tickets |-> {}]
  /\ product = "up" /\ keepAt = Never /\ asked = Never /\ still = Idle + 1 /\ up = 0
  /\ cooled = NotCooled /\ loop = Resting /\ lives = 1

-----------------------------------------------------------------------------
(* Runs, people and the clock                                              *)

Rows(t, state) == {r \in line[t] : r.state = state}
\* Something started or was asked for: another stretch.
Stirs == still' = 0 /\ cooled' = NotCooled /\ loop' = [loop EXCEPT !.same = FALSE]
Calm == UNCHANGED <<still, cooled>>

RunStarts(t) ==
  /\ Rows(t, "running") # {} /\ run[t].state # "open"
  /\ run' = [run EXCEPT ![t] = [NoRun EXCEPT !.state = "open", !.said = FALSE]]
  /\ Stirs /\ UNCHANGED <<line, product, keepAt, asked, up, lives>>

\* run_end closes the run, and writes over a close of this service's own.
RunEnds(t, verdict, summary, back) ==
  /\ run[t].state # "none" /\ ~run[t].said
  /\ run' = [run EXCEPT ![t] = [@ EXCEPT !.state = "over", !.said = TRUE, !.verdict = verdict,
                                         !.summary = summary, !.back = back]]
  /\ line' = [line EXCEPT ![t] = @ \ Rows(t, "running")]
  /\ Calm /\ UNCHANGED <<product, keepAt, asked, up, loop, lives>>

\* POST /act with a stop: the judgement; the run ends when it has heard.
HandStops(t) ==
  /\ run[t].state # "none"
  /\ run' = [run EXCEPT ![t].judged = @ \cup {"hand"}]
  /\ Calm /\ UNCHANGED <<line, product, keepAt, asked, up, loop, lives>>

\* POST /queue, and the watchdog's resumes; DELETE /queue.
Queue(t) ==
  /\ Rows(t, "waiting") = {}
  /\ line' = [line EXCEPT ![t] = @ \cup {[by |-> "other", state |-> "waiting"]}]
  /\ Stirs /\ UNCHANGED <<run, product, keepAt, asked, up, lives>>
Withdraw(t) ==
  /\ \E r \in Rows(t, "waiting") : line' = [line EXCEPT ![t] = @ \ {r}]
  /\ Calm /\ UNCHANGED <<run, product, keepAt, asked, up, loop, lives>>

Older(age, most) == IF age \in {Never, most} THEN age ELSE age + 1
KeeperElapse ==
  /\ keepAt' = Older(keepAt, Every) /\ asked' = Older(asked, Every)
  /\ still' = Older(still, Idle + 1) /\ up' = Older(up, Idle + 1)
  /\ cooled' = [cooled EXCEPT !.tried = Older(@, Idle)]
  /\ UNCHANGED <<run, line, product, loop, lives>>
PoolBack(t) ==
  /\ run[t].back /\ run' = [run EXCEPT ![t].back = FALSE]
  /\ Calm /\ UNCHANGED <<line, product, keepAt, asked, up, loop, lives>>

KeeperRestart ==
  /\ lives < MaxLives /\ lives' = lives + 1
  /\ loop' = Resting /\ up' = 0 /\ cooled' = NotCooled
  /\ UNCHANGED <<run, line, product, keepAt, asked, still>>

-----------------------------------------------------------------------------
(* The loop: weigh, keepTick, pumpQueue, cooldown                          *)

Go(at) == loop' = [loop EXCEPT !.at = at]

\* A limit closes a run; with the ticket's budget it says so.
WeighCloses(t, rule) ==
  /\ loop.at = "weigh" /\ run[t].state = "open"
  /\ run' = [run EXCEPT ![t] = [@ EXCEPT !.state = "over", !.verdict = "BLOCKED",
                                         !.judged = run[t].judged \cup {"ours", rule},
                                         !.summary = IF rule = "budget" THEN "budget" ELSE "plain"]]
  /\ line' = [line EXCEPT ![t] = @ \ Rows(t, "running")]
  /\ Go("keep") /\ Calm /\ UNCHANGED <<product, keepAt, asked, up, lives>>
WeighPasses ==
  /\ loop.at = "weigh" /\ Go("keep") /\ Calm
  /\ UNCHANGED <<run, line, product, keepAt, asked, up, lives>>

\* ON CONFLICT DO NOTHING: the mark is written once and stays.
wdSetMeta == keepAt' = IF keepAt = Never THEN 0 ELSE keepAt
recentTickets == {t \in Tickets : run[t].state # "none"}
MutkeepTick ==   \* a mark that is there is too young, whatever its age
  /\ loop.at = "keep"
  /\ IF keepAt # Never
     THEN Go("pump") /\ UNCHANGED <<keepAt, asked>>
     ELSE wdSetMeta /\ asked' = 0 /\ loop' = [loop EXCEPT !.at = "read", !.todo = recentTickets]
  /\ Calm /\ UNCHANGED <<run, line, product, up, lives>>
keepTick ==
  /\ loop.at = "keep"
  /\ IF keepAt # Never /\ keepAt < Every
     THEN Go("pump") /\ UNCHANGED <<keepAt, asked>>
     ELSE wdSetMeta /\ asked' = 0 /\ loop' = [loop EXCEPT !.at = "read", !.todo = recentTickets]
  /\ Calm /\ UNCHANGED <<run, line, product, up, lives>>

\* keepOne, in the sections it holds the lock for: is the ticket busy, and
\* how did its last run end?
Ended(r) == r.state = "over" /\ r.verdict \notin {"PASS", "FAIL"} /\ r.summary \notin {"budget", "approval"}
keepOneReads ==
  /\ loop.at = "read"
  /\ IF loop.todo = {} THEN Go("pump")
     ELSE \E t \in loop.todo :
            IF Ended(run[t]) /\ line[t] = {}
            THEN loop' = [loop EXCEPT !.at = "facts", !.todo = @ \ {t}, !.tickets = {t}]
            ELSE loop' = [loop EXCEPT !.todo = @ \ {t}]
  /\ Calm /\ UNCHANGED <<run, line, product, keepAt, asked, up, lives>>

\* The record of that run: a stop by hand, or one that no judgement of this
\* service's wrote; its ticket's budget.
stoppedByHand(r) == "hand" \in r.judged \/ ("ours" \notin r.judged /\ r.summary = "stopped")
MutPutDown(r) == r.back \/ stoppedByHand(r)   \* the summary is trusted for the budget
PutDown(r) == r.back \/ stoppedByHand(r) \/ "budget" \in r.judged
keepOneFacts ==
  /\ loop.at = "facts"
  /\ \E t \in loop.tickets :
       loop' = IF PutDown(run[t]) THEN [loop EXCEPT !.at = "read", !.tickets = {}] ELSE [loop EXCEPT !.at = "insert"]
  /\ Calm /\ UNCHANGED <<run, line, product, keepAt, asked, up, lives>>
keepOneInserts ==
  /\ loop.at = "insert"
  /\ \E t \in loop.tickets : line' = [line EXCEPT ![t] = @ \cup {[by |-> "keeper", state |-> "waiting"]}]
  /\ still' = 0 /\ cooled' = NotCooled
  /\ loop' = [loop EXCEPT !.at = "read", !.tickets = {}]
  /\ UNCHANGED <<run, product, keepAt, asked, up, lives>>

\* pumpQueue may start a row, and prepare brings the product up for it; or
\* sweepQueue may close one that no run came of; or neither.
pumpQueue ==
  /\ loop.at = "pump" /\ Go("cool")
  /\ \/ UNCHANGED <<line, product>> /\ Calm
     \/ \E t \in Tickets : \E r \in Rows(t, "waiting") :
          /\ run[t].state # "open" /\ Rows(t, "running") = {}
          /\ line' = [line EXCEPT ![t] = (@ \ {r}) \cup {[r EXCEPT !.state = "running"]}]
          /\ product' = "up" /\ still' = 0 /\ cooled' = NotCooled
     \/ \E t \in Tickets : \E r \in Rows(t, "running") :
          /\ run[t].state # "open" /\ line' = [line EXCEPT ![t] = @ \ {r}]
          /\ UNCHANGED product /\ Calm
  /\ UNCHANGED <<run, keepAt, asked, up, lives>>

\* cooldown: no run open, and in a later section nothing in the line.
cooldownLooks ==
  /\ loop.at = "cool"
  /\ Go(IF \E t \in Tickets : run[t].state = "open" THEN "weigh" ELSE "pending")
  /\ Calm /\ UNCHANGED <<run, line, product, keepAt, asked, up, lives>>
MutPending == \E t \in Tickets : Rows(t, "waiting") # {}   \* not the started ones
Pending == \E t \in Tickets : line[t] # {}
StillAwake == IF up < still THEN up ELSE still
cooldownReads ==
  /\ loop.at = "pending"
  /\ IF Pending \/ StillAwake <= Idle \/ cooled.done \/ cooled.tried \in 0 .. Idle - 1
     THEN Go("weigh") /\ UNCHANGED cooled
     ELSE loop' = [loop EXCEPT !.at = "act", !.same = TRUE] /\ cooled' = [cooled EXCEPT !.tried = 0]
  /\ UNCHANGED <<run, line, product, keepAt, asked, still, up, lives>>
cooldownActs(failed) ==
  /\ loop.at = "act" /\ Go("weigh")
  /\ product' = IF failed THEN product ELSE "down"
  /\ cooled' = IF failed \/ ~loop.same THEN cooled ELSE [cooled EXCEPT !.done = TRUE]
  /\ UNCHANGED <<run, line, keepAt, asked, still, up, lives>>

Loop ==
  \/ WeighPasses \/ \E t \in Tickets, rule \in {"ours", "budget"} : WeighCloses(t, rule)
  \/ keepTick \/ keepOneReads \/ keepOneFacts \/ keepOneInserts \/ pumpQueue
  \/ cooldownLooks \/ cooldownReads \/ \E failed \in BOOLEAN : cooldownActs(failed)
KeeperNext ==
  \/ Loop \/ KeeperElapse \/ KeeperRestart
  \/ \E t \in Tickets :
       \/ RunStarts(t) \/ HandStops(t) \/ Queue(t) \/ Withdraw(t) \/ PoolBack(t)
       \/ \E v \in {"PASS", "FAIL", "BLOCKED"} : RunEnds(t, v, "plain", FALSE)
       \/ \E s \in {"approval", "stopped"} : RunEnds(t, "BLOCKED", s, FALSE)
       \/ RunEnds(t, "BLOCKED", "plain", TRUE)

\* The loop goes round, time passes, and the hour the runner named comes.
KeeperFairness == WF_keeperVars(Loop) /\ WF_keeperVars(KeeperElapse) /\ \A t \in Tickets : WF_keeperVars(PoolBack(t))
KeeperSpec == KeeperInit /\ [][KeeperNext]_keeperVars /\ KeeperFairness

-----------------------------------------------------------------------------
(* Properties                                                              *)

\* A ticket whose run ended, not well, and that nobody put down.
Lying(t) == Ended(run[t]) /\ ~PutDown([run[t] EXCEPT !.back = FALSE]) /\ line[t] = {}

\* What the keeper is for: such a ticket is never left lying, whatever is
\* restarted, withdrawn or said late.
NeverLeftLying == \A t \in Tickets : Lying(t) ~> ~Lying(t)

\* A run closed over its ticket's budget is a person's to go on with, also
\* after its own run_end has written over the summary that said so.
BudgetIsFinal == \A t \in Tickets : loop.at = "insert" /\ t \in loop.tickets => "budget" \notin run[t].judged

\* The keeper waits for its own resume: never two of one ticket in the line.
ResumedOnce == \A t \in Tickets : Cardinality({r \in line[t] : r.by = "keeper"}) <= 1

\* The product is not put down under a row that was started or its run.
ProductUnderRun ==
  \A t \in Tickets : run[t].state = "open" \/ Rows(t, "running") # {} => product = "up"

(* What makes the three above hold between any two steps.                  *)

\* A run that is open has the row it was started from.
RunsHaveRows == \A t \in Tickets : run[t].state = "open" => Rows(t, "running") # {}
\* While the keeper has a ticket in hand, nobody else writes a keeper's row of it.
HandIsFree ==
  loop.at \in {"facts", "insert"} => \A t \in loop.tickets : \A r \in line[t] : r.by # "keeper"
\* Only the loop starts a row, so none starts under a cooldown decided on.
NoneStarted == loop.at = "act" => \A t \in Tickets : Rows(t, "running") = {}

\* One resume at a time, none that is a person's to ask for, and no stack put
\* down under a run.
KeeperInv ==
  /\ KeeperTypeOK /\ ResumedOnce /\ BudgetIsFinal /\ ProductUnderRun
  /\ RunsHaveRows /\ HandIsFree /\ NoneStarted

\* "every watchdog.keep_every seconds": not again before that.
KeeperWaits == [][loop.at = "keep" /\ loop'.at = "read" => asked \in {Never, Every}]_keeperVars
=============================================================================
