-------------------------- MODULE AmmitJudgeProofs --------------------------
(***************************************************************************)
(* Proofs about the judge, for any runs, names, actions and caps.          *)
(***************************************************************************)
EXTENDS AmmitJudge, NaturalsInduction, WellFoundedInduction, TLAPS

-----------------------------------------------------------------------------
(* Helpers                                                                 *)

\* A set of numbers that is not empty has a least one.
LEMMA LeastExists ==
  ASSUME NEW S \in SUBSET Nat, S # {}
  PROVE  \E n \in S : \A m \in S : n <= m
<1> DEFINE R == OpToRel(<, Nat)
<1>1. IsWellFoundedOn(R, Nat)
  BY NatLessThanWellFounded
<1>2. ASSUME NEW m \in Nat, NEW n \in Nat, <<n, m>> \notin R  PROVE ~(n < m)
  BY <1>2 DEF OpToRel
<1> HIDE DEF R
<1>3. PICK n \in S : \A m \in S : ~(<<m, n>> \in R)
  BY <1>1, WFMin
<1>4. \A m \in S : ~(m < n)
  BY <1>2, <1>3, Zenon
<1> QED  BY <1>4

\* weigh has sixteen rules to go through.
LEMMA OrderType == Len(Order) = 16
BY DEF Order

RuleNames == {"ticket", "run", "usd", "turn_tokens", "session_turns", "spin", "retry_wait", "turns", "turn",
              "request", "item", "phase", "laps", "session_age", "phase_min", "session"}

\* The table has a row for each rule.
LEMMA RuleDomain == DOMAIN Rules = RuleNames
BY DEF Rules, RuleNames

\* What ends a run is what ends one by its name, or money's tickets.
LEMMA EndsThatEnd ==
  ASSUME NEW rule \in DOMAIN Rules
  PROVE  rule = "ticket" \/ Rules[rule].ends \subseteq Stops \cup EndsRun
BY RuleDomain DEF RuleNames, Rules, WholeRun, Money, TurnTokens, SessionTurns, Spin, RetryWait, RunTurns, Turn,
   Request, Item, Phase, Laps, SessionAge, PhaseMin, Session

\* The rule read next is one of the rules, and what it finds is over a limit.
LEMMA ReadAfterType ==
  ASSUME at \in [left : SUBSET Runs, run : Runs \cup {Nobody}, rule : 0 .. Len(Order),
                 found : SUBSET plan, enforced : BOOLEAN],
         over \subseteq plan, NEW r \in Runs, NEW i \in 0 .. Len(Order)
  PROVE  ReadAfter(r, i) \in [left : SUBSET Runs, run : Runs \cup {Nobody}, rule : 0 .. Len(Order),
                              found : SUBSET plan, enforced : BOOLEAN]
<1>0. Len(Order) = 16
  BY OrderType
<1>1. CASE Ahead(r, i) = {}
  <2>1. ReadAfter(r, i) = [at EXCEPT !.left = @ \ {r}, !.run = Nobody, !.rule = 0]
    BY <1>1, Zenon DEF ReadAfter
  <2>2. at.left \ {r} \in SUBSET Runs /\ Nobody \in Runs \cup {Nobody} /\ 0 \in 0 .. Len(Order)
    BY <1>0
  <2> QED  BY <2>1, <2>2
<1>2. CASE Ahead(r, i) # {}
  <2> DEFINE j == CHOOSE k \in Ahead(r, i) : \A l \in Ahead(r, i) : k <= l
  <2>1. Ahead(r, i) \subseteq 1 .. Len(Order) /\ Ahead(r, i) \in SUBSET Nat
    BY <1>0 DEF Ahead
  <2>2. \E k \in Ahead(r, i) : \A l \in Ahead(r, i) : k <= l
    BY <1>2, <2>1, LeastExists
  <2>3. j \in 0 .. Len(Order)
    <3>1. j \in Ahead(r, i)
      BY <2>2, Zenon
    <3> HIDE DEF j
    <3> QED  BY <1>0, <2>1, <3>1
  <2>4. OverAt(r, j) \subseteq plan
    BY DEF OverAt
  <2>5. ReadAfter(r, i) = [at EXCEPT !.left = @ \ {r}, !.run = r, !.rule = j, !.found = OverAt(r, j)]
    BY <1>2, Zenon DEF ReadAfter
  <2> HIDE DEF j
  <2> QED  BY <1>0, <2>3, <2>4, <2>5, ZenonT(60)
<1> QED  BY <1>1, <1>2

\* Whom a command may reach.
LEMMA AimedType ==
  ASSUME NEW x \in Crossing, aim \in Agents
  PROVE  Aimed(x) \in Agents
<1>1. Aims(x) => x.name # Twice \/ x.name \in Names \cup {Nobody}
  BY DEF Crossing, Aims, Rules, RunTurns
<1> QED  BY <1>1 DEF Crossing, Aimed, AgentOf, Agents

\* Reviving is counted before the command goes, and not above the cap.
LEMMA ActKeepsCount ==
  ASSUME Wiring, TypeOK, RevivalsCounted, NEW name, NEW x, NEW r \in Runs, NEW agent, NEW enforced \in BOOLEAN,
         act(name, x, r, agent, enforced), lives' = lives
  PROVE  revived' \in [Runs -> Nat] /\ revivals' \in [Runs -> Nat] /\ RevivalsCounted'
<1>1. revived \in [Runs -> Nat] /\ revivals \in [Runs -> Nat] /\ lives \in Nat \ {0} /\ RetryMax \in Nat
  BY DEF TypeOK, Wiring
<1>2. revived' \in [Runs -> Nat] /\ revivals' \in [Runs -> Nat]
  BY <1>1 DEF act
<1>3. ASSUME RetryMax > 0, NEW q \in Runs
      PROVE  revivals'[q] <= RetryMax * (lives - 1) + Lesser(revived'[q], RetryMax)
  <2>0. RetryMax * (lives - 1) \in Nat
    BY <1>1
  <2>1. revivals[q] <= RetryMax * (lives - 1) + Lesser(revived[q], RetryMax)
    BY <1>3 DEF RevivalsCounted
  <2>2. CASE q # r
    <3>1. revivals'[q] = revivals[q] /\ revived'[q] = revived[q]
      BY <1>1, <2>2 DEF act
    <3> QED  BY <2>1, <3>1
  <2>3. CASE q = r /\ Goes(name, r, agent, enforced) /\ name \in Revivals
    <3>1. revivals'[q] = revivals[q] + 1 /\ revived'[q] = revived[q] + 1 /\ revived[q] + 1 <= RetryMax
      BY <1>1, <1>3, <2>3 DEF act, Goes, Capped, Counts
    <3> HIDE DEF Lesser
    <3>2. Lesser(revived[q], RetryMax) = revived[q] /\ Lesser(revived[q] + 1, RetryMax) = revived[q] + 1
      BY <1>1, <3>1 DEF Lesser
    <3> QED  BY <1>1, <2>0, <2>1, <3>1, <3>2
  <2>4. CASE q = r /\ ~(Goes(name, r, agent, enforced) /\ name \in Revivals)
    <3>1. revivals'[q] = revivals[q] /\ (revived'[q] = revived[q] \/ revived'[q] = revived[q] + 1)
      BY <1>1, <2>4 DEF act
    <3>2. Lesser(revived'[q], RetryMax) \in Nat /\ Lesser(revived[q], RetryMax) \in Nat
          /\ Lesser(revived[q], RetryMax) <= Lesser(revived'[q], RetryMax)
      BY <1>1, <3>1 DEF Lesser
    <3> QED  BY <1>1, <2>0, <2>1, <3>1, <3>2
  <2> QED  BY <2>2, <2>3, <2>4
<1> QED  BY <1>2, <1>3 DEF RevivalsCounted, Lesser

-----------------------------------------------------------------------------
(* TypeOK, a part at a time                                                *)

PlanType == plan \subseteq Crossing /\ target \in plan /\ \E pair \in Plans : target = pair[1] /\ plan = {pair[1], pair[2]}
RowType == row \in [Runs -> {"open", "own", "limit", "cap"}]
TableType == over \subseteq plan /\ judgements \subseteq plan /\ told \subseteq judgements
CoolType == cool \in [Keys -> 0 .. Long]
TimesType == times \in [Runs -> 0 .. 2]
CountType == revived \in [Runs -> Nat] /\ revivals \in [Runs -> Nat]
RoundType == at \in [left : SUBSET Runs, run : Runs \cup {Nobody}, rule : 0 .. Len(Order),
                     found : SUBSET plan, enforced : BOOLEAN]
AimType == aim \in Agents /\ last \in [crossing : plan \cup {None}, agent : Agents]
BoundType == enforce \in BOOLEAN /\ lives \in 1 .. MaxLives /\ hands \in 0 .. MaxHands /\ crossed \in 0 .. MaxCrossings

\* A plan is of two crossings.
LEMMA PairIsCrossings ==
  ASSUME Wiring, NEW pair \in Plans
  PROVE  pair[1] \in Crossing /\ pair[2] \in Crossing
<1>1. pair \in Crossing \X Crossing
  BY DEF Wiring
<1> HIDE DEF Crossing
<1> QED  BY <1>1

\* The type, taken apart by the records it is of.
LEMMA TypeParts ==
  ASSUME Wiring
  PROVE  TypeOK <=> /\ PlanType /\ RowType /\ TableType /\ CoolType /\ TimesType /\ CountType
                    /\ RoundType /\ AimType /\ BoundType
<1>1. (\E pair \in Plans : target = pair[1] /\ plan = {pair[1], pair[2]}) <=> PlanType
  BY PairIsCrossings, Zenon DEF PlanType
<1> HIDE DEF PlanType
<1>2. TypeOK <=> /\ (\E pair \in Plans : target = pair[1] /\ plan = {pair[1], pair[2]}) /\ RowType /\ TableType
                 /\ CoolType /\ TimesType /\ CountType /\ RoundType /\ AimType /\ BoundType
  BY Zenon DEF TypeOK, RowType, TableType, CoolType, TimesType, CountType, RoundType, AimType, BoundType
<1> QED  BY <1>1, <1>2

IInv ==
  /\ PlanType /\ RowType /\ TableType /\ CoolType /\ TimesType /\ CountType /\ RoundType /\ AimType /\ BoundType
  /\ RevivalsCounted /\ WarnedRunsGoOn

-----------------------------------------------------------------------------
(* The round                                                               *)

\* A step that moves the round on and touches no record of it.
LEMMA MovesKeep ==
  ASSUME IInv, RoundType', aim' \in Agents, CoolType',
         UNCHANGED <<env, row, judgements, told, times, revived, enforce, given, lives, hands>>
  PROVE  IInv'
<1> USE DEF IInv, env, given
<1>1. PlanType' /\ RowType' /\ TableType' /\ TimesType' /\ CountType' /\ BoundType'
  BY DEF PlanType, RowType, TableType, TimesType, CountType, BoundType
<1>2. AimType'
  BY DEF AimType
<1>3. RevivalsCounted'
  BY DEF RevivalsCounted
<1>4. WarnedRunsGoOn'
  BY DEF WarnedRunsGoOn
<1> QED  BY <1>1, <1>2, <1>3, <1>4

\* Only the plan says which keys there are.
LEMMA SameKeys ==
  ASSUME plan' = plan
  PROVE  Keys' = Keys
BY DEF Keys

\* A round begins.
LEMMA BeginRoundKeeps ==
  ASSUME Wiring, IInv, BeginRound
  PROVE  IInv'
<1>1. RoundType'
  <2>1. at' = [Rest EXCEPT !.left = {r \in Runs : row[r] = "open"}, !.enforced = enforce] /\ plan' = plan
    BY DEF BeginRound, env
  <2>2. enforce \in BOOLEAN
    BY DEF IInv, BoundType
  <2>3. at' = [left |-> {r \in Runs : row[r] = "open"}, run |-> Nobody, rule |-> 0, found |-> {}, enforced |-> enforce]
    BY <2>1 DEF Rest
  <2>4. {r \in Runs : row[r] = "open"} \in SUBSET Runs /\ Nobody \in Runs \cup {Nobody} /\ 0 \in 0 .. Len(Order)
    BY OrderType
  <2>5. {} \in SUBSET plan'
    OBVIOUS
  <2> QED  BY <2>2, <2>3, <2>4, <2>5, Zenon DEF RoundType
<1>2. CoolType'
  <2>1. cool \in [Keys -> 0 .. Long] /\ Keys' = Keys /\ Long \in Nat
    BY SameKeys DEF IInv, CoolType, BeginRound, env, Wiring
  <2>2. cool' = [k \in Keys |-> IF cool[k] > 0 THEN cool[k] - 1 ELSE 0]
    BY DEF BeginRound
  <2> HIDE DEF Keys
  <2> QED  BY <2>1, <2>2 DEF CoolType
<1>3. UNCHANGED <<env, row, judgements, told, times, revived, enforce, given, lives, hands>> /\ aim' \in Agents
  BY DEF BeginRound, IInv, AimType
<1> QED  BY <1>1, <1>2, <1>3, MovesKeep

\* Cooldowns that are left alone keep their type.
LEMMA SameCool ==
  ASSUME CoolType, plan' = plan, cool' = cool
  PROVE  CoolType'
BY SameKeys DEF CoolType

\* The loop over the runs, over the rules, and past what was judged lately.
LEMMA ReadsKeep ==
  ASSUME Wiring, IInv, RoundType', aim' \in {aim, Unset},
         UNCHANGED <<env, row, judgements, told, memory, enforce, given, lives, hands>>
  PROVE  IInv'
<1>1. CoolType'
  BY SameCool DEF IInv, env, memory
<1>2. aim' \in Agents
  BY DEF IInv, AimType, Agents
<1> QED  BY <1>1, <1>2, MovesKeep DEF memory

\* weigh goes on to a run.
LEMMA NextRunKeeps ==
  ASSUME Wiring, IInv, NEW r \in Runs, NextRun(r)
  PROVE  IInv'
<1>1. plan' = plan /\ at' = ReadAfter(r, 0) /\ 0 \in 0 .. Len(Order)
  BY OrderType DEF NextRun, env
<1>2. RoundType'
  BY <1>1, ReadAfterType DEF IInv, RoundType, TableType
<1> QED  BY <1>2, ReadsKeep DEF NextRun

\* weigh goes on to the next rule of a run.
LEMMA NextRuleKeeps ==
  ASSUME Wiring, IInv, NextRule
  PROVE  IInv'
<1>1. plan' = plan /\ at' = ReadAfter(at.run, at.rule) /\ at.run \in Runs /\ at.rule \in 0 .. Len(Order)
  BY DEF NextRule, env, IInv, RoundType
<1>2. RoundType'
  BY <1>1, ReadAfterType DEF IInv, RoundType, TableType
<1> QED  BY <1>2, ReadsKeep DEF NextRule

\* weigh passes over a crossing that is cooled.
LEMMA PassOverKeeps ==
  ASSUME Wiring, IInv, NEW x, PassOver(x)
  PROVE  IInv'
<1>1. plan' = plan /\ at' = [at EXCEPT !.found = @ \ {x}]
  BY DEF PassOver, env
<1>2. RoundType'
  BY <1>1 DEF IInv, RoundType
<1> QED  BY <1>2, ReadsKeep DEF PassOver

\* What a crossing is cooled under is a key.
LEMMA KeyIsKey ==
  ASSUME NEW x \in plan, Rules[x.rule].key # {}
  PROVE  KeyOf(x) \in Keys
BY Zenon DEF Keys

\* A row closed for a limit has the judgement that closed it behind it.
LEMMA JudgeKeepsWarned ==
  ASSUME PlanType, RowType, WarnedRunsGoOn, NEW x \in plan, plan' = plan,
         judgements' = judgements \cup {x}, row' = [row EXCEPT ![x.run] = Closed(x)]
  PROVE  WarnedRunsGoOn'
<1>1. ASSUME NEW r \in Runs, row'[r] = "limit"
      PROVE  \E y \in judgements' : y.run = r /\ (y.rule = "ticket" \/ ActionOf(y) \in Stops \cup EndsRun)
  <2>1. CASE row[r] = "limit"
    BY <2>1 DEF WarnedRunsGoOn
  <2>2. CASE row[r] # "limit"
    <3>1. r = x.run /\ Closed(x) = "limit"
      BY <1>1, <2>2 DEF RowType
    <3>2. Ending(x)
      BY <2>2, <3>1 DEF Closed
    <3>3. x.rule \in DOMAIN Rules
      BY DEF PlanType, Crossing
    <3>4. x.rule = "ticket" \/ ActionOf(x) \in Stops \cup EndsRun
      BY <3>2, <3>3, EndsThatEnd DEF Ending
    <3> QED  BY <3>1, <3>4
  <2> QED  BY <2>1, <2>2
<1> QED  BY <1>1 DEF WarnedRunsGoOn

\* weigh judges: a revival is counted before it is given, and a warning closes nothing.
LEMMA JudgeKeeps ==
  ASSUME Wiring, IInv, NEW x, Judge(x)
  PROVE  IInv'
<1> USE DEF IInv
<1>0. x \in plan /\ x \in Crossing /\ x.run \in Runs /\ UNCHANGED <<env, enforce, lives, hands>>
  BY DEF Judge, RoundType, PlanType, Crossing
<1>1. PlanType' /\ BoundType' /\ UNCHANGED <<plan, over, lives>>
  BY <1>0 DEF PlanType, BoundType, env
<1>2. RowType' /\ WarnedRunsGoOn'
  <2>1. Closed(x) \in {"open", "own", "limit", "cap"}
    BY <1>0 DEF Closed, RowType
  <2> QED  BY <1>0, <1>1, <2>1, JudgeKeepsWarned DEF Judge, RowType
<1>3. TableType'
  BY <1>0, <1>1 DEF Judge, TableType
<1>4. CoolType'
  <2>1. Keys' = Keys /\ cool \in [Keys -> 0 .. Long] /\ Long \in 0 .. Long
    BY <1>1, SameKeys DEF CoolType, Wiring
  <2>2. cool' = IF Rules[x.rule].key = {} THEN cool ELSE [cool EXCEPT ![KeyOf(x)] = Long]
    BY DEF Judge
  <2> HIDE DEF Keys
  <2> QED  BY <2>1, <2>2 DEF CoolType
<1>5. TimesType'
  <2>1. x.rule = "turn" => times[x.run] # 2
    BY DEF Judge, Hushed
  <2> QED  BY <1>0, <2>1 DEF Judge, TimesType
<1>6. aim' \in Agents /\ aim' = Aimed(x)
  BY <1>0, AimedType DEF Judge, AimType
<1>7. CountType' /\ RevivalsCounted'
  <2>1. act(ActionOf(x), x, x.run, aim', at.enforced) /\ at.enforced \in BOOLEAN
    BY DEF Judge, RoundType
  <2>2. TypeOK
    BY TypeParts
  <2> QED  BY <1>0, <2>1, <2>2, ActKeepsCount DEF CountType
<1>8. AimType'
  <2>1. last' = last \/ last' = [crossing |-> x, agent |-> aim']
    BY DEF Judge, act
  <2> QED  BY <1>0, <1>1, <1>6, <2>1 DEF AimType
<1>9. RoundType'
  <2>1. at' = Left(x)
    BY DEF Judge
  <2>2. Nobody \in Runs \cup {Nobody} /\ 0 \in 0 .. Len(Order) /\ {} \in SUBSET plan
    BY OrderType
  <2>3. \/ at' = [at EXCEPT !.found = @ \ {x}]
        \/ at' = [at EXCEPT !.run = Nobody, !.rule = 0, !.found = {}]
        \/ at' = [at EXCEPT !.found = {}]
    BY <2>1, Zenon DEF Left
  <2>4. CASE at' = [at EXCEPT !.found = @ \ {x}]
    BY <1>1, <2>4 DEF RoundType
  <2>5. CASE at' = [at EXCEPT !.run = Nobody, !.rule = 0, !.found = {}]
    BY <1>1, <2>2, <2>5 DEF RoundType
  <2>6. CASE at' = [at EXCEPT !.found = {}]
    BY <1>1, <2>6 DEF RoundType
  <2> QED  BY <2>3, <2>4, <2>5, <2>6
<1> QED  BY <1>1, <1>2, <1>3, <1>4, <1>5, <1>7, <1>8, <1>9

-----------------------------------------------------------------------------
(* Everybody else                                                          *)

\* A step that leaves the record of revivals and the round alone.
LEMMA OutsideKeeps ==
  ASSUME IInv, PlanType', TableType', RowType', BoundType', WarnedRunsGoOn', plan' = plan, lives' = lives,
         UNCHANGED <<memory, round, given>>
  PROVE  IInv'
<1> USE DEF IInv, memory, round, given
<1>1. CoolType'
  BY SameCool
<1>2. TimesType' /\ CountType'
  BY DEF TimesType, CountType
<1>3. RoundType'
  BY DEF RoundType
<1>4. AimType'
  BY DEF AimType
<1>5. RevivalsCounted'
  BY DEF RevivalsCounted
<1> QED  BY <1>1, <1>2, <1>3, <1>4, <1>5

\* A limit is crossed, or is not any more.
LEMMA CrossesKeeps ==
  ASSUME Wiring, IInv, NEW x \in plan, Crosses(x) \/ Clears(x)
  PROVE  IInv'
<1>1. PlanType' /\ plan' = plan /\ lives' = lives
  BY DEF Crosses, Clears, IInv, PlanType
<1>2. TableType'
  BY DEF Crosses, Clears, IInv, TableType
<1>3. RowType' /\ WarnedRunsGoOn'
  BY DEF Crosses, Clears, IInv, RowType, WarnedRunsGoOn
<1>4. BoundType'
  BY DEF Crosses, Clears, IInv, BoundType, Wiring
<1> QED  BY <1>1, <1>2, <1>3, <1>4, OutsideKeeps DEF Crosses, Clears

\* A run ends by itself.
LEMMA RunEndsKeeps ==
  ASSUME IInv, NEW r \in Runs, RunEnds(r)
  PROVE  IInv'
<1>1. PlanType' /\ plan' = plan /\ lives' = lives
  BY DEF RunEnds, env, IInv, PlanType
<1>2. TableType' /\ BoundType'
  BY DEF RunEnds, env, IInv, TableType, BoundType
<1>3. RowType' /\ WarnedRunsGoOn'
  BY DEF RunEnds, IInv, RowType, WarnedRunsGoOn
<1> QED  BY <1>1, <1>2, <1>3, OutsideKeeps DEF RunEnds

\* Somebody switches actions.enforce.
LEMMA FlipEnforceKeeps ==
  ASSUME Wiring, IInv, FlipEnforce
  PROVE  IInv'
<1>1. PlanType' /\ TableType' /\ plan' = plan /\ lives' = lives
  BY DEF FlipEnforce, env, IInv, PlanType, TableType
<1>2. RowType' /\ WarnedRunsGoOn'
  BY DEF FlipEnforce, IInv, RowType, WarnedRunsGoOn
<1>3. hands' \in 0 .. MaxHands /\ UNCHANGED <<lives, crossed>>
  BY DEF FlipEnforce, IInv, BoundType, Wiring, env
<1>4. enforce' \in BOOLEAN
  BY DEF FlipEnforce
<1>5. BoundType'
  BY <1>3, <1>4 DEF IInv, BoundType
<1> QED  BY <1>1, <1>2, <1>5, OutsideKeeps DEF FlipEnforce

\* Somebody gives a command by hand; it is no revival of the judge's.
LEMMA HandKeeps ==
  ASSUME Wiring, IInv, NEW r \in Runs, NEW name \in ByHand, Hand(r, name)
  PROVE  IInv'
<1> USE DEF IInv
<1>0. act(name, None, r, Unset, enforce) /\ enforce \in BOOLEAN /\ lives' = lives /\ plan' = plan
  BY DEF Hand, BoundType, env
<1>1. PlanType' /\ TableType' /\ TimesType' /\ CoolType'
  BY <1>0, SameCool DEF Hand, env, PlanType, TableType, TimesType
<1>2. RoundType'
  BY DEF Hand, round, env, RoundType
<1>3. RowType' /\ WarnedRunsGoOn'
  BY DEF Hand, RowType, WarnedRunsGoOn
<1>4. BoundType'
  BY DEF Hand, BoundType, Wiring, env
<1>5. CountType' /\ RevivalsCounted'
  BY <1>0, TypeParts, ActKeepsCount DEF CountType
<1>6. AimType'
  <2>1. last' = last \/ last' = [crossing |-> None, agent |-> Unset]
    BY <1>0 DEF act
  <2>2. aim' = aim /\ Unset \in Agents
    BY DEF Hand, round, Agents
  <2> QED  BY <1>0, <2>1, <2>2 DEF AimType
<1> QED  BY <1>1, <1>2, <1>3, <1>4, <1>5, <1>6

\* Another life counts from nothing: a cap's worth more may come of it.
LEMMA RestartKeeps ==
  ASSUME Wiring, IInv, Restart
  PROVE  IInv'
<1> USE DEF IInv
<1>0. plan' = plan /\ lives' = lives + 1 /\ lives \in Nat \ {0} /\ RetryMax \in Nat /\ UNCHANGED <<env, given>>
  BY DEF Restart, env, BoundType, Wiring
<1>1. PlanType' /\ TableType' /\ RowType' /\ WarnedRunsGoOn'
  BY DEF Restart, env, PlanType, TableType, RowType, WarnedRunsGoOn
<1>2. CoolType'
  BY <1>0, SameKeys DEF Restart, CoolType, Wiring
<1>3. TimesType' /\ CountType'
  BY <1>0 DEF Restart, given, TimesType, CountType
<1>4. RoundType' /\ AimType'
  BY <1>0, OrderType DEF Restart, Rest, RoundType, AimType, Agents, given
<1>5. BoundType'
  BY DEF Restart, BoundType, Wiring, env
<1>6. RevivalsCounted'
  <2>1. ASSUME RetryMax > 0, NEW r \in Runs
        PROVE  revivals'[r] <= RetryMax * (lives' - 1) + Lesser(revived'[r], RetryMax)
    <3>1. revivals[r] <= RetryMax * (lives - 1) + Lesser(revived[r], RetryMax) /\ revivals'[r] = revivals[r]
      BY <1>0, <2>1 DEF RevivalsCounted, given
    <3>2. Lesser(revived[r], RetryMax) <= RetryMax /\ Lesser(revived[r], RetryMax) \in Nat /\ revivals[r] \in Nat
      BY <1>0 DEF Lesser, CountType
    <3>3. RetryMax * (lives' - 1) = RetryMax * (lives - 1) + RetryMax /\ RetryMax * (lives - 1) \in Nat
      BY <1>0
    <3>4. Lesser(revived'[r], RetryMax) = 0
      BY <1>0, <2>1 DEF Restart, Lesser
    <3> QED  BY <1>0, <3>1, <3>2, <3>3, <3>4
  <2> QED  BY <2>1 DEF RevivalsCounted, Lesser
<1> QED  BY <1>1, <1>2, <1>3, <1>4, <1>5, <1>6

-----------------------------------------------------------------------------
(* Theorems                                                                *)

\* At first nobody was judged.
LEMMA InitHolds ==
  ASSUME Wiring, Init
  PROVE  IInv
<1>1. PlanType
  BY PairIsCrossings DEF Init, PlanType
<1>2. RowType /\ TableType /\ TimesType /\ CountType
  BY DEF Init, RowType, TableType, TimesType, CountType
<1>3. CoolType
  BY DEF Init, CoolType, Wiring
<1>4. RoundType /\ AimType /\ BoundType
  BY OrderType DEF Init, RoundType, AimType, BoundType, Rest, Agents, Wiring
<1>5. RevivalsCounted
  <2>1. ASSUME RetryMax > 0, NEW r \in Runs
        PROVE  revivals[r] <= RetryMax * (lives - 1) + Lesser(revived[r], RetryMax)
    <3>1. lives - 1 = 0 /\ revivals[r] = 0 /\ Lesser(revived[r], RetryMax) = 0
      BY <2>1 DEF Init, Lesser
    <3>2. RetryMax * 0 = 0
      BY DEF Wiring
    <3> QED  BY <3>1, <3>2
  <2> QED  BY <2>1 DEF RevivalsCounted
<1>6. WarnedRunsGoOn
  BY DEF Init, WarnedRunsGoOn
<1> QED  BY <1>1, <1>2, <1>3, <1>4, <1>5, <1>6 DEF IInv

\* A step of something else changes nothing here.
LEMMA StutterKeeps ==
  ASSUME IInv, UNCHANGED vars
  PROVE  IInv'
<1>1. PlanType' /\ TableType' /\ RowType' /\ BoundType' /\ WarnedRunsGoOn'
  BY DEF IInv, vars, env, PlanType, TableType, RowType, BoundType, WarnedRunsGoOn
<1> QED  BY <1>1, OutsideKeeps DEF vars, env

\* Every step keeps the invariant.
LEMMA StepKeeps ==
  ASSUME Wiring, IInv, [Next]_vars
  PROVE  IInv'
<1>1. CASE weigh
  BY <1>1, BeginRoundKeeps, NextRunKeeps, NextRuleKeeps, PassOverKeeps, JudgeKeeps DEF weigh
<1>2. CASE \E x \in plan : Crosses(x) \/ Clears(x)
  BY <1>2, CrossesKeeps
<1>3. ASSUME NEW r \in Runs, RunEnds(r) \/ \E name \in ByHand : Hand(r, name)
      PROVE  IInv'
  BY <1>3, RunEndsKeeps, HandKeeps
<1>4. CASE FlipEnforce \/ Restart
  BY <1>4, FlipEnforceKeeps, RestartKeeps
<1>5. CASE UNCHANGED vars
  BY <1>5, StutterKeeps
<1> QED  BY <1>1, <1>2, <1>3, <1>4, <1>5 DEF Next

\* So the invariant holds throughout.
LEMMA IInvAlways == Spec => []IInv
<1>1. Init => IInv
  BY Wiring, InitHolds
<1>2. IInv /\ [Next]_vars => IInv'
  BY Wiring, StepKeeps
<1> QED  BY <1>1, <1>2, PTL DEF Spec

\* Every value is what the round expects of it, silence is judged twice at
\* most, and the revivals of a life are counted before they go out.
THEOREM JudgeInvariant == Spec => []JudgeInv
<1>1. IInv => JudgeInv
  BY Wiring, TypeParts DEF IInv, JudgeInv
<1> QED  BY <1>1, IInvAlways, PTL

\* Whatever the rules, hands and restarts: no more revivals of a run than
\* limits.retry_max in one life of the process.
THEOREM RevivedWithinCap == Spec => []RevivalsBounded
<1>1. IInv => RevivalsBounded
  <2>1. ASSUME IInv, RetryMax > 0, NEW r \in Runs  PROVE revivals[r] <= RetryMax * lives
    <3>1. lives \in Nat \ {0} /\ RetryMax \in Nat /\ revivals[r] \in Nat /\ revived[r] \in Nat
      BY <2>1, Wiring DEF IInv, BoundType, CountType
    <3>2. revivals[r] <= RetryMax * (lives - 1) + Lesser(revived[r], RetryMax)
      BY <2>1 DEF IInv, RevivalsCounted
    <3>3. Lesser(revived[r], RetryMax) <= RetryMax /\ Lesser(revived[r], RetryMax) \in Nat
      BY <3>1 DEF Lesser
    <3>4. RetryMax * lives = RetryMax * (lives - 1) + RetryMax /\ RetryMax * (lives - 1) \in Nat
      BY <3>1
    <3> QED  BY <3>1, <3>2, <3>3, <3>4
  <2> QED  BY <2>1 DEF RevivalsBounded
<1> QED  BY <1>1, IInvAlways, PTL

\* No rule, however configured, closes a run whose action only warns, but the
\* ticket's budget.
THEOREM WarningsCloseNothing == Spec => []WarnedRunsGoOn
<1>1. IInv => WarnedRunsGoOn
  BY DEF IInv
<1> QED  BY <1>1, IInvAlways, PTL

\* Where a command for one session is configured only for rules that name
\* one, each reaches the session its rule has judged.
THEOREM CommandsReachTheirOwn ==
  ASSUME Pointed
  PROVE  Spec => []ReachesItsOwn
<1>1. Init => ReachesItsOwn
  BY DEF Init, ReachesItsOwn
<1>2. ASSUME IInv, ReachesItsOwn, [Next]_vars  PROVE ReachesItsOwn'
  <2>1. CASE last' = last
    BY <1>2, <2>1 DEF ReachesItsOwn
  <2>2. ASSUME NEW x \in at.found, Judge(x), last' # last  PROVE ReachesItsOwn'
    <3>1. ActionOf(x) \in ByAgent /\ last' = [crossing |-> x, agent |-> Aimed(x)]
      BY <2>2 DEF Judge, act
    <3>2. x \in Crossing
      BY <1>2 DEF IInv, PlanType, RoundType
    <3>3. Aimed(x) = AgentOf(x)
      BY <3>1, <3>2 DEF Pointed, Aimed
    <3> QED  BY <3>1, <3>3 DEF ReachesItsOwn
  <2>3. ASSUME NEW r \in Runs, NEW name \in ByHand, Hand(r, name), last' # last  PROVE ReachesItsOwn'
    BY <2>3 DEF Hand, act, ReachesItsOwn
  <2>4. CASE UNCHANGED given
    BY <2>1, <2>4 DEF given
  <2> QED
    BY <1>2, <2>1, <2>2, <2>3, <2>4 DEF Next, vars, weigh, BeginRound, NextRun, NextRule, PassOver, Crosses, Clears,
       RunEnds, FlipEnforce, Restart
<1> QED  BY <1>1, <1>2, IInvAlways, PTL DEF Spec
=============================================================================
