----------------------------- MODULE AmmitJudge -----------------------------
(***************************************************************************)
(* The judge: every round it weighs each open run against every limit, and *)
(* what is over one is judged, answered with the action the configuration  *)
(* names, and closed where that action leaves no run.                      *)
(*                                                                         *)
(* A crossing is [run, rule, name]: which run is over which limit, and the *)
(* session, request, item or phase of it that is.  What a reading of the   *)
(* record finds over its limit is the environment's (Crosses, Clears); the *)
(* order of the rules, the cooldowns, the command and its aim, the cap on  *)
(* revivals and the close are the judge's.                                 *)
(***************************************************************************)
EXTENDS Integers, Sequences, FiniteSets

CONSTANTS
  Runs,
  Names,         \* sessions, requests, items and phases, as the record keys them
  Nobody,        \* no name at all: the empty string of the source
  Unset,         \* the agent of a command before any rule named one
  Twice,         \* the name of a crossing of turns_per_run that is twice over
  Anonymous,     \* the names whose start named no agent
  Action,        \* rule -> the action configured for it
  Blind,         \* actions.on_turn_timeout_blind
  TwiceAction,   \* actions.on_turns_per_run_over
  EndsRun,       \* actions.ends_run
  RetryMax,      \* limits.retry_max
  Plans,         \* pairs of crossings: one pair is what may happen
  ByHand,        \* commands given through /act
  Long,          \* how many rounds a cooldown lasts
  MaxLives,      \* bound: lives of this process
  MaxHands,      \* bound: hands through /act, flips of actions.enforce and restarts
  MaxCrossings   \* bound: how often something goes over a limit

VARIABLES
  plan, target,  \* the crossings that may happen, and the one that is followed
  row,           \* run -> "open", or how it was closed: "own" verdict, "limit", "cap"
  over,          \* the crossings that hold now
  judgements,    \* the table: every crossing ever judged
  told,          \* the crossings judged since they last happened
  cool,          \* key -> rounds until it may be judged again: judged
  times,         \* run -> how often it was judged silent: judgedCount
  revived,       \* run -> reanimations
  enforce,       \* actions.enforce is on
  at,            \* the round: see TypeOK
  aim,           \* the agent in the run's command context
  revivals,      \* run -> revival commands given for it, over all lives
  last,          \* the last command given to one agent, and for which crossing
  lives, hands, crossed

memory == <<cool, times, revived>>
round  == <<at, aim>>
given  == <<revivals, last>>
env    == <<plan, target, over, crossed>>
vars == <<env, row, judgements, told, memory, enforce, round, given, lives, hands>>

-----------------------------------------------------------------------------
(* The rules, in the order weigh asks them.                                *)
(*   key   what of a crossing its cooldown is kept under; {} for none      *)
(*   ends  the actions after which the row is closed                       *)
(*   then  what the close leaves: the "run", or only the loop over the     *)
(*         names of this "rule"                                            *)
(*   aims  the rule names the agent of its command                         *)

Stops == {"stop_run", "cancel_run", "close_run"}
Every == {Action[rule] : rule \in DOMAIN Action} \cup {Blind, TwiceAction, "stop_run"}

\* Mutants: money that closes whatever its action, a cooldown of the run for
\* all its sessions.
MutMoney        == [key |-> {}, ends |-> Every, then |-> "run", aims |-> FALSE]
MutSessionTurns == [key |-> {"run"}, ends |-> EndsRun, then |-> "rule", aims |-> TRUE]
Ticket       == [key |-> {}, ends |-> Every, then |-> "run", aims |-> FALSE]
WholeRun     == [key |-> {}, ends |-> Stops, then |-> "run", aims |-> FALSE]
Money        == [key |-> {}, ends |-> Stops, then |-> "run", aims |-> FALSE]
TurnTokens   == [key |-> {"run", "name"}, ends |-> {}, then |-> "rule", aims |-> TRUE]
SessionTurns == [key |-> {"run", "name"}, ends |-> EndsRun, then |-> "rule", aims |-> TRUE]
Spin         == [key |-> {"run", "name"}, ends |-> EndsRun, then |-> "rule", aims |-> TRUE]
RetryWait    == [key |-> {"run", "name"}, ends |-> {}, then |-> "rule", aims |-> TRUE]
RunTurns     == [key |-> {"run", "name"}, ends |-> {}, then |-> "rule", aims |-> FALSE]
Turn         == [key |-> {"run"}, ends |-> EndsRun, then |-> "run", aims |-> TRUE]
Request      == [key |-> {"name"}, ends |-> EndsRun, then |-> "rule", aims |-> TRUE]
Item         == [key |-> {"name"}, ends |-> {}, then |-> "rule", aims |-> TRUE]
Phase        == [key |-> {"name"}, ends |-> {}, then |-> "rule", aims |-> FALSE]
Laps         == [key |-> {}, ends |-> {}, then |-> "rule", aims |-> FALSE]
SessionAge   == [key |-> {"name"}, ends |-> {}, then |-> "rule", aims |-> TRUE]
PhaseMin     == [key |-> {"run", "name"}, ends |-> EndsRun, then |-> "rule", aims |-> FALSE]
Session      == [key |-> {"name"}, ends |-> {}, then |-> "rule", aims |-> TRUE]

Rules == [ticket |-> Ticket, run |-> WholeRun, usd |-> Money, turn_tokens |-> TurnTokens,
          session_turns |-> SessionTurns, spin |-> Spin, retry_wait |-> RetryWait,
          turns |-> RunTurns, turn |-> Turn, request |-> Request, item |-> Item,
          phase |-> Phase, laps |-> Laps, session_age |-> SessionAge,
          phase_min |-> PhaseMin, session |-> Session]
Order == <<"ticket", "run", "usd", "turn_tokens", "session_turns", "spin", "retry_wait",
           "turns", "turn", "request", "item", "phase", "laps", "session_age",
           "phase_min", "session">>

\* What a run can leave again: a wait, a silence, a phase that was left.
Passing == {"spin", "retry_wait", "turn", "request", "item", "phase", "session_age", "session"}

ActionOf(x) ==
  IF x.rule = "ticket" THEN "stop_run"
  ELSE IF x.rule = "turn" /\ x.name = Nobody THEN Blind
  ELSE IF x.rule = "turns" /\ x.name = Twice THEN TwiceAction
  ELSE Action[x.rule]
Ending(x) == ActionOf(x) \in Rules[x.rule].ends

\* recently: the key is the rule's subject, not always the run's own.
KeyOf(x) ==
  LET key == Rules[x.rule].key
  IN  <<x.rule, IF "run" \in key THEN x.run ELSE Nobody, IF "name" \in key THEN x.name ELSE Nobody>>
Keys == {KeyOf(x) : x \in {y \in plan : Rules[y.rule].key # {}}}

\* Whom the command of a crossing reaches.  An item that named no agent
\* leaves the agent of the rule before it.
AgentOf(x) == IF x.name \in Anonymous THEN Nobody ELSE x.name
Aims(x) == Rules[x.rule].aims /\ (x.rule = "item" => AgentOf(x) # Nobody)
\* Mutant: the session rule leaves the agent out.
MutAimed(x) == IF Aims(x) /\ x.rule # "session" THEN AgentOf(x) ELSE aim
Aimed(x) == IF Aims(x) THEN AgentOf(x) ELSE aim
Agents == Names \cup {Nobody, Unset}

\* What may cross a limit, and the numbers a configuration may hold; a
\* retry_max that is none is no cap.
Crossing == {x \in [run : Runs, rule : DOMAIN Rules, name : Names \cup {Nobody, Twice}] :
               x.name = Twice => x.rule = "turns"}
ASSUME Wiring ==
  /\ Plans \subseteq Crossing \X Crossing
  /\ RetryMax \in Nat /\ Long \in Nat /\ MaxLives \in Nat \ {0} /\ MaxHands \in Nat /\ MaxCrossings \in Nat

None  == [run |-> Nobody, rule |-> "none", name |-> Nobody]
TypeOK ==
  /\ \E pair \in Plans : target = pair[1] /\ plan = {pair[1], pair[2]}
  /\ over \subseteq plan
  /\ row \in [Runs -> {"open", "own", "limit", "cap"}]
  /\ judgements \subseteq plan /\ told \subseteq judgements
  /\ cool \in [Keys -> 0 .. Long]
  /\ times \in [Runs -> 0 .. 2]
  /\ revived \in [Runs -> Nat] /\ revivals \in [Runs -> Nat]
  /\ enforce \in BOOLEAN
  /\ at \in [left : SUBSET Runs, run : Runs \cup {Nobody}, rule : 0 .. Len(Order),
              found : SUBSET plan, enforced : BOOLEAN]
  /\ aim \in Agents /\ last \in [crossing : plan \cup {None}, agent : Agents]
  /\ lives \in 1 .. MaxLives /\ hands \in 0 .. MaxHands /\ crossed \in 0 .. MaxCrossings

Rest == [left |-> {}, run |-> Nobody, rule |-> 0, found |-> {}, enforced |-> TRUE]

Init ==
  /\ \E pair \in Plans : target = pair[1] /\ plan = {pair[1], pair[2]}
  /\ row = [r \in Runs |-> IF \E x \in plan : x.run = r THEN "open" ELSE "own"]
  /\ over = {} /\ judgements = {} /\ told = {}
  /\ cool = [k \in Keys |-> 0] /\ times = [r \in Runs |-> 0] /\ revived = [r \in Runs |-> 0]
  /\ enforce = TRUE
  /\ at = Rest /\ aim = Unset
  /\ revivals = [r \in Runs |-> 0] /\ last = [crossing |-> None, agent |-> Unset]
  /\ lives = 1 /\ hands = 0 /\ crossed = 0

-----------------------------------------------------------------------------
(* act: what becomes of a command                                          *)

Revivals == {"retry_session", "retry_branch", "retry_phase", "restart_worker"}
ByAgent  == {"retry_session"}              \* commands with an {agent} to fill
PersonCommands == {"approve_report"}

Allowed(name, enforced) ==
  name \notin PersonCommands /\ (enforced \/ name \in {"start_run", "warn"})
\* A revival is counted before the command is known to go out.
Counts(name, enforced)    == Allowed(name, enforced) /\ name \in Revivals /\ RetryMax > 0
MutCapped(name, r, enforced) == Counts(name, enforced) /\ revived[r] > RetryMax  \* one too many
Capped(name, r, enforced) == Counts(name, enforced) /\ revived[r] + 1 > RetryMax
Goes(name, r, agent, enforced) ==
  /\ Allowed(name, enforced) /\ ~Capped(name, r, enforced)
  /\ name \in ByAgent => agent # Unset

act(name, x, r, agent, enforced) ==
  /\ revived' = IF Counts(name, enforced) THEN [revived EXCEPT ![r] = @ + 1] ELSE revived
  /\ revivals' = IF name \in Revivals /\ Goes(name, r, agent, enforced)
                   THEN [revivals EXCEPT ![r] = @ + 1] ELSE revivals
  /\ last' = IF name \in ByAgent /\ Goes(name, r, agent, enforced)
               THEN [crossing |-> x, agent |-> agent] ELSE last

-----------------------------------------------------------------------------
(* weigh                                                                   *)

\* A round weighs the runs that are open as it begins, under the
\* configuration it was read with.
BeginRound ==
  /\ at.run = Nobody /\ at.left = {}
  /\ at' = [Rest EXCEPT !.left = {r \in Runs : row[r] = "open"}, !.enforced = enforce]
  /\ cool' = [k \in Keys |-> IF cool[k] > 0 THEN cool[k] - 1 ELSE 0]
  /\ UNCHANGED <<env, row, judgements, told, times, revived, enforce,
                 aim, given, lives, hands>>

\* The first rule after i that finds anything of run r over its limit.
OverAt(r, i) == {x \in over : x.run = r /\ x.rule = Order[i]}
Ahead(r, i)  == {j \in 1 .. Len(Order) : j > i /\ OverAt(r, j) # {}}
ReadAfter(r, i) ==
  IF Ahead(r, i) = {} THEN [at EXCEPT !.left = @ \ {r}, !.run = Nobody, !.rule = 0]
  ELSE LET j == CHOOSE k \in Ahead(r, i) : \A l \in Ahead(r, i) : k <= l
       IN  [at EXCEPT !.left = @ \ {r}, !.run = r, !.rule = j, !.found = OverAt(r, j)]

NextRun(r) ==
  /\ at.run = Nobody /\ r \in at.left
  /\ at' = ReadAfter(r, 0)
  /\ aim' = Unset
  /\ UNCHANGED <<env, row, judgements, told, memory, enforce, given, lives, hands>>

\* The names one rule has found are judged one after another, while the run
\* goes on; then the next rule reads.
NextRule ==
  /\ at.run # Nobody /\ at.found = {}
  /\ at' = ReadAfter(at.run, at.rule)
  /\ UNCHANGED <<env, row, judgements, told, memory, enforce, aim, given, lives, hands>>

\* Judged a short while ago; silent, and judged so twice; over its laps, and
\* the table of judgements says so already.
Recently(x) == Rules[x.rule].key # {} /\ cool[KeyOf(x)] > 0
MutHushed(x) == Recently(x) \/ (x.rule = "laps" /\ x \in judgements)  \* silence without an end
Hushed(x) ==
  \/ Recently(x)
  \/ x.rule = "turn" /\ times[x.run] = 2
  \/ x.rule = "laps" /\ x \in judgements

PassOver(x) ==
  /\ x \in at.found /\ Hushed(x)
  /\ at' = [at EXCEPT !.found = @ \ {x}]
  /\ UNCHANGED <<env, row, judgements, told, memory, enforce, aim, given, lives, hands>>

\* finish: the row is closed, whatever became of the command and of the run.
Closed(x) == IF Ending(x) THEN "limit"
             ELSE IF Capped(ActionOf(x), x.run, at.enforced) THEN "cap" ELSE row[x.run]
Left(x) == IF ~Ending(x) THEN [at EXCEPT !.found = @ \ {x}]
           ELSE IF Rules[x.rule].then = "run" THEN [at EXCEPT !.run = Nobody, !.rule = 0, !.found = {}]
           ELSE [at EXCEPT !.found = {}]
Judge(x) ==
  /\ x \in at.found /\ ~Hushed(x)
  /\ aim' = Aimed(x)
  /\ act(ActionOf(x), x, x.run, aim', at.enforced)
  /\ judgements' = judgements \cup {x} /\ told' = told \cup {x}
  /\ cool' = IF Rules[x.rule].key = {} THEN cool ELSE [cool EXCEPT ![KeyOf(x)] = Long]
  /\ times' = IF x.rule = "turn" THEN [times EXCEPT ![x.run] = @ + 1] ELSE times
  /\ row' = [row EXCEPT ![x.run] = Closed(x)]
  /\ at' = Left(x)
  /\ UNCHANGED <<env, enforce, lives, hands>>

weigh == BeginRound \/ (\E r \in Runs : NextRun(r)) \/ NextRule \/ \E x \in at.found : PassOver(x) \/ Judge(x)

-----------------------------------------------------------------------------
(* Everybody else                                                          *)

Crosses(x) ==
  /\ x \in plan \ over /\ row[x.run] = "open" /\ crossed < MaxCrossings
  /\ over' = over \cup {x} /\ told' = told \ {x} /\ crossed' = crossed + 1
  /\ UNCHANGED <<plan, target, row, judgements, memory, enforce, round, given, lives, hands>>
Clears(x) ==
  /\ x \in over /\ x.rule \in Passing
  /\ over' = over \ {x}
  /\ UNCHANGED <<plan, target, crossed, row, judgements, told, memory, enforce,
                 round, given, lives, hands>>

\* run_end.
RunEnds(r) ==
  /\ row[r] # "own"
  /\ row' = [row EXCEPT ![r] = "own"]
  /\ UNCHANGED <<env, judgements, told, memory, enforce, round, given, lives, hands>>

\* A revival through /act is counted with the rest, and may be the one too many.
Hand(r, name) ==
  /\ hands < MaxHands /\ hands' = hands + 1 /\ \E x \in plan : x.run = r
  /\ act(name, None, r, Unset, enforce)
  /\ row' = IF Capped(name, r, enforce) THEN [row EXCEPT ![r] = "cap"] ELSE row
  /\ UNCHANGED <<env, judgements, told, cool, times, enforce, round, lives>>
FlipEnforce ==
  /\ hands < MaxHands /\ hands' = hands + 1
  /\ enforce' = ~enforce
  /\ UNCHANGED <<env, row, judgements, told, memory, round, given, lives>>

\* What was judged and what was revived is remembered in this process only.
Restart ==
  /\ lives < MaxLives /\ lives' = lives + 1
  /\ hands < MaxHands /\ hands' = hands + 1
  /\ cool' = [k \in Keys |-> 0] /\ times' = [r \in Runs |-> 0] /\ revived' = [r \in Runs |-> 0]
  /\ at' = Rest /\ aim' = Unset
  /\ UNCHANGED <<env, row, judgements, told, enforce, given>>

Next ==
  \/ weigh
  \/ \E x \in plan : Crosses(x) \/ Clears(x)
  \/ \E r \in Runs : \/ RunEnds(r)
                     \/ \E name \in ByHand : Hand(r, name)
  \/ FlipEnforce \/ Restart

\* The loop is a goroutine that runs when it can.
Spec == Init /\ [][Next]_vars /\ WF_vars(weigh)

-----------------------------------------------------------------------------
(* Properties                                                              *)

\* One cap on reviving, across every kind of retry and every hand: a run is
\* never brought back more than limits.retry_max times in one life of this
\* process.  Without a cap there is none.
RevivalsBounded == RetryMax > 0 => \A r \in Runs : revivals[r] <= RetryMax * lives

\* A command for one session reaches the session that was judged, never the
\* one an earlier rule of the round had named, and never a hole.
ReachesItsOwn ==
  last.crossing # None => last.agent = AgentOf(last.crossing)

\* A limit that was only to be told of leaves the run alone: a row closed for
\* a limit has a judgement with an action that ends a run behind it.
WarnedRunsGoOn ==
  \A r \in Runs : row[r] = "limit" =>
    \E x \in judgements : x.run = r /\ (x.rule = "ticket" \/ ActionOf(x) \in Stops \cup EndsRun)

(* What makes these hold at every step of a round.                         *)

\* A revival is counted before it goes, and a life counts from nothing.
Lesser(m, n) == IF m < n THEN m ELSE n
RevivalsCounted ==
  RetryMax > 0 => \A r \in Runs : revivals[r] <= RetryMax * (lives - 1) + Lesser(revived[r], RetryMax)
JudgeInv == TypeOK /\ RevivalsCounted
\* A command for one session is configured only for what names one: so are the
\* defaults of the source and limits.example.yml.
Pointed == \A x \in Crossing : ActionOf(x) \in ByAgent => Aims(x)

\* "A limit crossed silently is not a limit": what stays over its limit is
\* judged, also behind rules that end the run or hold their own cooldowns.
\* A silent run is judged twice and then left.
NoLimitCrossedSilently ==
  (target \in over) ~> \/ target \in told \/ target \notin over
                       \/ row[target.run] # "open"
                       \/ target.rule = "turn" /\ times[target.run] = 2
                       \/ target.rule = "laps" /\ target \in judgements

(* What the comments say and the code does not keep.                       *)

\* actions.enforce: off stops nothing: while a round holds its hands off, no
\* row is closed by it.
HandsOffStopsNothing ==
  [][~at.enforced => \A r \in Runs : row[r] = "open" => row'[r] \in {"open", "own"}]_<<at, row>>
=============================================================================
