------------------------- MODULE AmmitServicesProofs -------------------------
(***************************************************************************)
(* Proofs about the five services, each on its own.  The keeper with the   *)
(* cooldown, for any tickets, settings and lives, and the leases, for any  *)
(* works, names, holders and times: what the loop resumes and what a stand *)
(* is taken for, it is once.  The archive, for any runs, limits and days,  *)
(* and the knowledge base, for any topics, models, writes and questions:   *)
(* their invariants are inductive.  The evidence store, for any uploads    *)
(* and any number of requests: what is answered as kept is kept.           *)
(***************************************************************************)
EXTENDS AmmitKeeper, AmmitLeases, AmmitArchive, AmmitEvidence, AmmitKnowledge, SequenceTheorems,
        FiniteSetTheorems, NaturalsInduction, WellFoundedInduction, TLAPS
-----------------------------------------------------------------------------
(* The keeper                                                              *)

\* At most one keeper's row of a ticket.
Single(t) == \A r, s \in line[t] : r.by = "keeper" /\ s.by = "keeper" => r = s

\* A set that is counted to one at most has one element at most.
LEMMA AtMostOne ==
  ASSUME NEW S, IsFiniteSet(S)
  PROVE  Cardinality(S) <= 1 <=> \A x, y \in S : x = y
<1>1. ASSUME Cardinality(S) <= 1, NEW x \in S, NEW y \in S  PROVE x = y
  <2>1. IsFiniteSet(S \ {x}) /\ Cardinality(S \ {x}) = Cardinality(S) - 1
    BY FS_RemoveElement
  <2>2. Cardinality(S) \in Nat /\ Cardinality(S \ {x}) \in Nat
    BY <2>1, FS_CardinalityType
  <2>3. Cardinality(S \ {x}) = 0
    BY <1>1, <2>1, <2>2
  <2>4. S \ {x} = {}
    BY <2>1, <2>3, FS_EmptySet
  <2> QED  BY <2>4
<1>2. ASSUME \A x, y \in S : x = y  PROVE Cardinality(S) <= 1
  <2>1. CASE S = {}
    BY <2>1, FS_EmptySet
  <2>2. CASE S # {}
    <3>1. PICK x : S = {x}
      BY <1>2, <2>2
    <3> QED  BY <3>1, FS_Singleton
  <2> QED  BY <2>1, <2>2
<1> QED  BY <1>1, <1>2

\* There are only so many rows.
LEMMA RowsFinite == IsFiniteSet(LineRow)
<1> DEFINE row(b, s) == [by |-> b, state |-> s]
           all == {row("keeper", "waiting"), row("keeper", "running"),
                   row("other", "waiting"), row("other", "running")}
<1>1. LineRow \subseteq all
  BY DEF LineRow
<1>2. IsFiniteSet({}) 
  BY FS_EmptySet
<1>3. \A S, x : IsFiniteSet(S) => IsFiniteSet(S \cup {x})
  BY FS_AddElement
<1>4. all = ((({} \cup {row("keeper", "waiting")}) \cup {row("keeper", "running")})
              \cup {row("other", "waiting")}) \cup {row("other", "running")}
  OBVIOUS
<1> HIDE DEF row, all
<1>a. IsFiniteSet({} \cup {row("keeper", "waiting")})
  BY <1>2, <1>3, Zenon
<1>b. IsFiniteSet(({} \cup {row("keeper", "waiting")}) \cup {row("keeper", "running")})
  BY <1>a, <1>3, Zenon
<1>c. IsFiniteSet((({} \cup {row("keeper", "waiting")}) \cup {row("keeper", "running")})
                  \cup {row("other", "waiting")})
  BY <1>b, <1>3, Zenon
<1>5. IsFiniteSet(all)
  BY <1>c, <1>3, <1>4, Zenon
<1> QED  BY <1>1, <1>5, FS_Subset

\* One resume of a ticket at a time, said row by row.
LEMMA OnceIsSingle ==
  ASSUME line \in [Tickets -> SUBSET LineRow]
  PROVE  ResumedOnce <=> \A t \in Tickets : Single(t)
<1>1. ASSUME NEW t \in Tickets
      PROVE  Cardinality({r \in line[t] : r.by = "keeper"}) <= 1 <=> Single(t)
  <2>1. IsFiniteSet({r \in line[t] : r.by = "keeper"})
    BY RowsFinite, FS_Subset
  <2> QED  BY <2>1, AtMostOne DEF Single
<1> QED  BY <1>1 DEF ResumedOnce

-----------------------------------------------------------------------------
\* What is proved inductive: KeeperInv with the rows compared, not counted.
LineHolds ==
  /\ \A t \in Tickets : Single(t)
  /\ BudgetIsFinal /\ ProductUnderRun /\ RunsHaveRows /\ HandIsFree /\ NoneStarted

\* Ages stay in their ranges.
LEMMA OlderType ==
  ASSUME NEW most \in Nat, NEW age \in Never .. most
  PROVE  /\ Older(age, most) \in Never .. most
         /\ age \in 0 .. most => Older(age, most) \in 0 .. most
BY DEF Older, Never

\* A run with its fields written is a run.
LEMMA NoRunType == NoRun \in Run
BY DEF NoRun, Run

\* A run that starts is open and judged by nobody.
LEMMA OpenedType ==
  LET r == [NoRun EXCEPT !.state = "open", !.said = FALSE]
  IN  r \in Run /\ r.state = "open" /\ r.verdict = "" /\ r.judged = {}
BY DEF NoRun, Run

\* A run that somebody stops is otherwise the same.
LEMMA JudgedType ==
  ASSUME NEW r \in Run
  PROVE  LET n == [r EXCEPT !.judged = @ \cup {"hand"}]
         IN  n \in Run /\ n.state = r.state /\ n.verdict = r.verdict /\ n.judged = r.judged \cup {"hand"}
BY DEF Run

\* A run whose pool is full again is otherwise the same.
LEMMA BackType ==
  ASSUME NEW r \in Run
  PROVE  LET n == [r EXCEPT !.back = FALSE]
         IN  n \in Run /\ n.state = r.state /\ n.verdict = r.verdict /\ n.judged = r.judged
BY DEF Run

-----------------------------------------------------------------------------
\* TypeOK in its four parts: the runs, the line, the hand of the loop, the rest.
KeeperRunsType == run \in [Tickets -> Run] /\ \A t \in Tickets : (run[t].state = "over") = (run[t].verdict # "")
LineType == line \in [Tickets -> SUBSET LineRow]
HandType ==
  /\ loop \in [at : Steps, todo : SUBSET Tickets, tickets : SUBSET Tickets, same : BOOLEAN]
  /\ \A t, u \in loop.tickets : t = u
AgesType ==
  /\ product \in {"up", "down"} /\ keepAt \in Never .. Every /\ asked \in Never .. Every
  /\ still \in 0 .. Idle + 1 /\ up \in 0 .. Idle + 1
  /\ cooled \in [done : BOOLEAN, tried : Never .. Idle] /\ lives \in 1 .. MaxLives

\* The type, taken apart by what it is of.
LEMMA KeeperTypeParts == KeeperTypeOK <=> KeeperRunsType /\ LineType /\ HandType /\ AgesType
BY DEF KeeperTypeOK, KeeperRunsType, LineType, HandType, AgesType

KeeperIInv == KeeperRunsType /\ LineType /\ HandType /\ AgesType /\ LineHolds

\* What a write of one ticket's run, or of its rows, leaves.
LEMMA RunWritten ==
  ASSUME KeeperRunsType, NEW t \in Tickets, NEW n \in Run, (n.state = "over") = (n.verdict # ""),
         run' = [run EXCEPT ![t] = n]
  PROVE  KeeperRunsType' /\ \A u \in Tickets : run'[u] = IF u = t THEN n ELSE run[u]
BY DEF KeeperRunsType

\* What a write of one ticket's rows leaves.
LEMMA LineWritten ==
  ASSUME LineType, NEW t \in Tickets, NEW S \in SUBSET LineRow, line' = [line EXCEPT ![t] = S]
  PROVE  LineType' /\ \A u \in Tickets : line'[u] = IF u = t THEN S ELSE line[u]
BY DEF LineType

\* A step that stirs nothing keeps the ages.
LEMMA CalmAges ==
  ASSUME AgesType, Calm, UNCHANGED <<product, keepAt, asked, up, lives>>
  PROVE  AgesType'
BY DEF AgesType, Calm

\* A step that stirs something starts the idle time anew.
LEMMA StirAges ==
  ASSUME Settings, AgesType, still' = 0, cooled' = NotCooled, product' \in {"up", "down"},
         UNCHANGED <<keepAt, asked, up, lives>>
  PROVE  AgesType'
BY DEF Settings, AgesType, NotCooled, Never

\* The loop goes on to a step; it keeps what it has in hand.
LEMMA Goes ==
  ASSUME HandType, NEW at \in Steps, Go(at)
  PROVE  HandType' /\ loop'.at = at /\ loop'.tickets = loop.tickets
BY DEF HandType, Go

\* What others do takes nothing out of the loop's hand.
LEMMA StirsHand ==
  ASSUME HandType, Stirs
  PROVE  HandType' /\ loop'.at = loop.at /\ loop'.tickets = loop.tickets
BY DEF HandType, Stirs

-----------------------------------------------------------------------------
(* The steps of the outside                                                *)

\* A run starts from its row.
LEMMA RunStartsKeeps ==
  ASSUME Settings, KeeperIInv, NEW t \in Tickets, RunStarts(t)
  PROVE  KeeperIInv'
<1> USE DEF KeeperIInv
<1>1. KeeperRunsType' /\ \A u \in Tickets : run'[u] = IF u = t THEN [NoRun EXCEPT !.state = "open", !.said = FALSE] ELSE run[u]
  BY OpenedType, RunWritten DEF RunStarts
<1>2. HandType' /\ loop'.at = loop.at /\ loop'.tickets = loop.tickets
  BY StirsHand DEF RunStarts
<1>3. LineType' /\ AgesType'
  BY <1>1, <1>2, StirAges DEF RunStarts, Stirs, LineType, AgesType
<1>4. line' = line /\ product' = product /\ Rows(t, "running") # {}
  BY DEF RunStarts
<1>5. (\A u \in Tickets : Single(u))' /\ HandIsFree' /\ NoneStarted'
  BY <1>2, <1>4 DEF LineHolds, Single, HandIsFree, NoneStarted, Rows
<1>6. BudgetIsFinal'
  BY <1>1, <1>2, OpenedType DEF LineHolds, BudgetIsFinal
<1>7. ProductUnderRun' /\ RunsHaveRows'
  BY <1>1, <1>4 DEF LineHolds, ProductUnderRun, RunsHaveRows, Rows
<1> QED  BY <1>1, <1>2, <1>3, <1>5, <1>6, <1>7 DEF LineHolds

\* A close of a run, by its run_end or by a limit: its running rows go with it.
LEMMA CloseKeeps ==
  ASSUME LineType, LineHolds, NEW t \in Tickets, product' = product, loop'.tickets = loop.tickets,
         line' = [line EXCEPT ![t] = @ \ Rows(t, "running")],
         \A u \in Tickets : u # t => run'[u] = run[u],
         run'[t].state = "over",
         loop.at = "act" <=> loop'.at = "act",
         loop'.at \in {"facts", "insert"} => loop'.at = loop.at,
         loop.at = "insert" => run'[t].judged = run[t].judged
  PROVE  LineType' /\ LineHolds'
<1>1. LineType' /\ \A u \in Tickets : line'[u] = IF u = t THEN line[t] \ Rows(t, "running") ELSE line[u]
  BY LineWritten DEF LineType
<1>2. \A u \in Tickets : line'[u] \subseteq line[u]
  BY <1>1
<1>3. (\A u \in Tickets : Single(u))' /\ HandIsFree'
  BY <1>2 DEF LineHolds, Single, HandIsFree
<1>4. NoneStarted'
  BY <1>2 DEF LineHolds, NoneStarted, Rows
<1>5. BudgetIsFinal'
  BY DEF LineHolds, BudgetIsFinal
<1>6. ProductUnderRun'
  BY <1>2 DEF LineHolds, ProductUnderRun, Rows
<1>7. RunsHaveRows'
  BY <1>1 DEF LineHolds, RunsHaveRows, Rows
<1> QED  BY <1>1, <1>3, <1>4, <1>5, <1>6, <1>7 DEF LineHolds

\* A run ends, and its row with it; also a run this service had closed.
LEMMA RunEndsKeeps ==
  ASSUME KeeperIInv, NEW t \in Tickets, NEW v \in {"PASS", "FAIL", "BLOCKED"},
         NEW s \in {"plain", "budget", "approval", "stopped"}, NEW b \in BOOLEAN, RunEnds(t, v, s, b)
  PROVE  KeeperIInv'
<1> USE DEF KeeperIInv
<1>0. PICK n : n = [run[t] EXCEPT !.state = "over", !.said = TRUE, !.verdict = v, !.summary = s, !.back = b]
  OBVIOUS
<1>1. n \in Run /\ n.state = "over" /\ n.verdict = v /\ n.judged = run[t].judged
  <2>1. run[t] \in Run
    BY DEF KeeperRunsType
  <2> QED  BY <1>0, <2>1 DEF Run
<1>2. run' = [run EXCEPT ![t] = n]
  BY <1>0, Zenon DEF RunEnds
<1>3. KeeperRunsType' /\ \A u \in Tickets : run'[u] = IF u = t THEN n ELSE run[u]
  BY <1>1, <1>2, RunWritten
<1>4. HandType' /\ AgesType' /\ loop' = loop /\ product' = product
  BY CalmAges DEF RunEnds, HandType
<1>5. LineType' /\ LineHolds'
  BY <1>1, <1>3, <1>4, CloseKeeps DEF RunEnds
<1> QED  BY <1>3, <1>4, <1>5

\* weigh closes a run, and its row with it.
LEMMA WeighClosesKeeps ==
  ASSUME KeeperIInv, NEW t \in Tickets, NEW rule \in {"ours", "budget"}, WeighCloses(t, rule)
  PROVE  KeeperIInv'
<1> USE DEF KeeperIInv
<1>0. PICK n : n = [run[t] EXCEPT !.state = "over", !.verdict = "BLOCKED", !.judged = run[t].judged \cup {"ours", rule},
                                  !.summary = IF rule = "budget" THEN "budget" ELSE "plain"]
  OBVIOUS
<1>1. n \in Run /\ n.state = "over" /\ n.verdict = "BLOCKED"
  <2>1. run[t] \in Run
    BY DEF KeeperRunsType
  <2> QED  BY <1>0, <2>1 DEF Run
<1>2. run' = [run EXCEPT ![t] = n]
  BY <1>0, Zenon DEF WeighCloses
<1>3. KeeperRunsType' /\ \A u \in Tickets : run'[u] = IF u = t THEN n ELSE run[u]
  BY <1>1, <1>2, RunWritten
<1>4. HandType' /\ loop'.at = "keep" /\ loop'.tickets = loop.tickets
  BY Goes DEF WeighCloses, Steps
<1>5. AgesType' /\ product' = product
  BY CalmAges DEF WeighCloses
<1>6. LineType' /\ LineHolds'
  <2>1. loop.at = "weigh" /\ line' = [line EXCEPT ![t] = @ \ Rows(t, "running")]
    BY DEF WeighCloses
  <2>2. run'[t].state = "over" /\ \A u \in Tickets : u # t => run'[u] = run[u]
    BY <1>1, <1>3
  <2>3. /\ loop.at = "act" <=> loop'.at = "act"
        /\ loop'.at \in {"facts", "insert"} => loop'.at = loop.at
        /\ loop.at = "insert" => run'[t].judged = run[t].judged
    BY <1>4, <2>1
  <2> HIDE DEF KeeperIInv
  <2> QED  BY <1>4, <1>5, <2>1, <2>2, <2>3, CloseKeeps DEF KeeperIInv
<1> QED  BY <1>3, <1>4, <1>5, <1>6

\* A judgement or an hour that comes: the run is where it was.
LEMMA NotedKeeps ==
  ASSUME KeeperIInv, NEW t \in Tickets, NEW n \in Run, run' = [run EXCEPT ![t] = n],
         n.state = run[t].state, n.verdict = run[t].verdict,
         "budget" \in n.judged => "budget" \in run[t].judged,
         Calm, UNCHANGED <<line, product, keepAt, asked, up, loop, lives>>
  PROVE  KeeperIInv'
<1> USE DEF KeeperIInv
<1>1. KeeperRunsType' /\ \A u \in Tickets : run'[u] = IF u = t THEN n ELSE run[u]
  <2>1. (n.state = "over") = (n.verdict # "")
    BY DEF KeeperRunsType
  <2> QED  BY <2>1, RunWritten
<1>2. LineType' /\ HandType' /\ AgesType'
  BY CalmAges DEF LineType, HandType
<1>3. (\A u \in Tickets : Single(u))' /\ HandIsFree' /\ NoneStarted'
  BY DEF LineHolds, Single, HandIsFree, NoneStarted, Rows
<1>4. BudgetIsFinal'
  BY <1>1 DEF LineHolds, BudgetIsFinal
<1>5. ProductUnderRun' /\ RunsHaveRows'
  BY <1>1 DEF LineHolds, ProductUnderRun, RunsHaveRows, Rows
<1> QED  BY <1>1, <1>2, <1>3, <1>4, <1>5 DEF LineHolds

\* Somebody stops a run.
LEMMA HandStopsKeeps ==
  ASSUME KeeperIInv, NEW t \in Tickets, HandStops(t)
  PROVE  KeeperIInv'
<1> DEFINE n == [run[t] EXCEPT !.judged = @ \cup {"hand"}]
<1>1. n \in Run /\ n.state = run[t].state /\ n.verdict = run[t].verdict /\ n.judged = run[t].judged \cup {"hand"}
  BY JudgedType DEF KeeperIInv, KeeperRunsType
<1>2. run' = [run EXCEPT ![t] = n]
  BY DEF HandStops, KeeperIInv, KeeperTypeOK
<1> HIDE DEF n
<1> QED  BY <1>1, <1>2, NotedKeeps DEF HandStops

\* A pool of accounts is full again.
LEMMA PoolBackKeeps ==
  ASSUME KeeperIInv, NEW t \in Tickets, PoolBack(t)
  PROVE  KeeperIInv'
<1> DEFINE n == [run[t] EXCEPT !.back = FALSE]
<1>1. n \in Run /\ n.state = run[t].state /\ n.verdict = run[t].verdict /\ n.judged = run[t].judged
  BY BackType DEF KeeperIInv, KeeperRunsType
<1>2. run' = [run EXCEPT ![t] = n]
  BY DEF PoolBack, KeeperIInv, KeeperRunsType
<1> HIDE DEF n
<1> QED  BY <1>1, <1>2, NotedKeeps DEF PoolBack

\* Somebody queues a ticket.
LEMMA QueueKeeps ==
  ASSUME Settings, KeeperIInv, NEW t \in Tickets, Queue(t)
  PROVE  KeeperIInv'
<1> USE DEF KeeperIInv
<1> DEFINE r == [by |-> "other", state |-> "waiting"]
<1>1. r \in LineRow /\ r.by = "other" /\ r.state = "waiting"
  BY DEF LineRow
<1>2. line' = [line EXCEPT ![t] = @ \cup {r}]
  BY DEF Queue
<1> HIDE DEF r
<1>3. LineType' /\ \A u \in Tickets : line'[u] = IF u = t THEN line[t] \cup {r} ELSE line[u]
  BY <1>1, <1>2, LineWritten DEF LineType
<1>4. HandType' /\ loop'.at = loop.at /\ loop'.tickets = loop.tickets
  BY StirsHand DEF Queue
<1>5. AgesType' /\ KeeperRunsType' /\ run' = run /\ product' = product
  BY StirAges DEF Queue, Stirs, AgesType, KeeperRunsType
<1>6. \A u \in Tickets : \A x \in line'[u] : x \in line[u] \/ (x.by = "other" /\ x.state = "waiting")
  BY <1>1, <1>3
<1>7. \A u \in Tickets : line[u] \subseteq line'[u]
  BY <1>3
<1>8. HandIsFree'
  BY <1>4, <1>6 DEF LineHolds, HandIsFree, HandType
<1>11. (\A u \in Tickets : Single(u))'
  BY <1>6 DEF LineHolds, Single
<1>9. NoneStarted' /\ ProductUnderRun' /\ RunsHaveRows'
  BY <1>4, <1>5, <1>6, <1>7 DEF LineHolds, NoneStarted, ProductUnderRun, RunsHaveRows, Rows
<1>10. BudgetIsFinal'
  BY <1>4, <1>5 DEF LineHolds, BudgetIsFinal
<1> QED  BY <1>3, <1>4, <1>5, <1>8, <1>9, <1>10, <1>11 DEF LineHolds

\* Somebody withdraws a ticket.
LEMMA WithdrawKeeps ==
  ASSUME KeeperIInv, NEW t \in Tickets, Withdraw(t)
  PROVE  KeeperIInv'
<1> USE DEF KeeperIInv
<1>1. PICK r \in Rows(t, "waiting") : line' = [line EXCEPT ![t] = @ \ {r}]
  BY DEF Withdraw
<1>2. LineType' /\ \A u \in Tickets : line'[u] = IF u = t THEN line[t] \ {r} ELSE line[u]
  BY <1>1, LineWritten DEF LineType
<1>3. HandType' /\ AgesType' /\ KeeperRunsType' /\ UNCHANGED <<run, product, loop>>
  BY CalmAges DEF Withdraw, HandType, KeeperRunsType
<1>4. r.state = "waiting"
  BY DEF Rows
<1>5. \A u \in Tickets : line'[u] \subseteq line[u]
  BY <1>2
<1>6. HandIsFree'
  BY <1>3, <1>5 DEF LineHolds, HandIsFree, HandType
<1>9. (\A u \in Tickets : Single(u))'
  BY <1>5 DEF LineHolds, Single
<1>7. NoneStarted' /\ ProductUnderRun' /\ BudgetIsFinal'
  BY <1>3, <1>5 DEF LineHolds, NoneStarted, ProductUnderRun, BudgetIsFinal, Rows
<1>8. RunsHaveRows'
  BY <1>2, <1>3, <1>4 DEF LineHolds, RunsHaveRows, Rows
<1> QED  BY <1>2, <1>3, <1>6, <1>7, <1>8, <1>9 DEF LineHolds

-----------------------------------------------------------------------------
(* Time, a restart, and the steps of the loop                              *)

\* A step that leaves the record alone and puts the loop where nothing is in
\* hand, no cooldown is decided on, or where it was.
LEMMA LoopKeeps ==
  ASSUME KeeperRunsType, LineType, HandType', LineHolds, UNCHANGED <<run, line, product>>,
         loop'.at = "act" => \A t \in Tickets : Rows(t, "running") = {},
         loop'.at \in {"facts", "insert"} =>
           \A t \in loop'.tickets : \A r \in line[t] : r.by # "keeper",
         loop'.at = "insert" => \A t \in loop'.tickets : "budget" \notin run[t].judged
  PROVE  KeeperRunsType' /\ LineType' /\ LineHolds'
<1>1. KeeperRunsType' /\ LineType'
  BY DEF KeeperRunsType, LineType
<1>2. (\A t \in Tickets : Single(t))' /\ ProductUnderRun' /\ RunsHaveRows'
  BY DEF LineHolds, Single, ProductUnderRun, RunsHaveRows, Rows
<1>3. NoneStarted'
  BY DEF NoneStarted, Rows
<1>4. BudgetIsFinal'
  BY DEF BudgetIsFinal
<1>5. HandIsFree'
  BY DEF HandIsFree
<1> QED  BY <1>1, <1>2, <1>3, <1>4, <1>5 DEF LineHolds

\* Where the step is none of the three, nothing is to be shown.
LEMMA ElsewhereKeeps ==
  ASSUME KeeperRunsType, LineType, HandType', LineHolds, UNCHANGED <<run, line, product>>,
         loop'.at \notin {"act", "facts", "insert"}
  PROVE  KeeperRunsType' /\ LineType' /\ LineHolds'
BY LoopKeeps

\* Time passes.
LEMMA KeeperElapseKeeps ==
  ASSUME Settings, KeeperIInv, KeeperElapse
  PROVE  KeeperIInv'
<1> USE DEF KeeperIInv
<1>1. AgesType'
  <2>1. keepAt' \in Never .. Every /\ asked' \in Never .. Every
    BY OlderType DEF KeeperElapse, Settings, AgesType
  <2>2. still' \in 0 .. Idle + 1 /\ up' \in 0 .. Idle + 1
    <3>1. Idle + 1 \in Nat /\ still \in Never .. Idle + 1 /\ up \in Never .. Idle + 1
      BY DEF Settings, AgesType, Never
    <3> QED  BY <3>1, OlderType DEF KeeperElapse, AgesType
  <2>3. cooled' \in [done : BOOLEAN, tried : Never .. Idle]
    <3>1. cooled.tried \in Never .. Idle /\ Idle \in Nat
      BY DEF Settings, AgesType
    <3>2. Older(cooled.tried, Idle) \in Never .. Idle
      BY <3>1, OlderType
    <3> QED  BY <3>2 DEF KeeperElapse, AgesType
  <2> QED  BY <2>1, <2>2, <2>3 DEF KeeperElapse, AgesType
<1>2. KeeperRunsType' /\ LineType' /\ HandType' /\ LineHolds'
  BY DEF KeeperElapse, KeeperRunsType, LineType, HandType, LineHolds, Single, BudgetIsFinal, ProductUnderRun, RunsHaveRows,
         HandIsFree, NoneStarted, Rows
<1> QED  BY <1>1, <1>2

\* The process starts again, and the loop with empty hands.
LEMMA KeeperRestartKeeps ==
  ASSUME Settings, KeeperIInv, KeeperRestart
  PROVE  KeeperIInv'
<1> USE DEF KeeperIInv
<1>1. HandType' /\ loop'.at = "weigh"
  BY DEF KeeperRestart, Resting, HandType, Steps
<1>2. AgesType'
  BY DEF KeeperRestart, Settings, AgesType, NotCooled, Never
<1>3. KeeperRunsType' /\ LineType' /\ LineHolds'
  BY <1>1, ElsewhereKeeps DEF KeeperRestart, ProductUnderRun
<1> QED  BY <1>1, <1>2, <1>3

\* weigh is through.
LEMMA WeighPassesKeeps ==
  ASSUME KeeperIInv, WeighPasses
  PROVE  KeeperIInv'
<1> USE DEF KeeperIInv
<1>1. HandType' /\ loop'.at = "keep"
  BY Goes DEF WeighPasses, Steps
<1> QED  BY <1>1, CalmAges, ElsewhereKeeps DEF WeighPasses

\* keepTick takes the tickets in hand.
LEMMA keepTickKeeps ==
  ASSUME Settings, KeeperIInv, keepTick
  PROVE  KeeperIInv'
<1> USE DEF KeeperIInv
<1>1. HandType' /\ loop'.at \in {"pump", "read"}
  <2>1. CASE keepAt # Never /\ keepAt < Every
    BY <2>1, Goes DEF keepTick, Steps
  <2>2. CASE ~(keepAt # Never /\ keepAt < Every)
    <3>1. loop' = [loop EXCEPT !.at = "read", !.todo = recentTickets] /\ recentTickets \subseteq Tickets
      BY <2>2 DEF keepTick, recentTickets
    <3> QED  BY <3>1 DEF HandType, Steps
  <2> QED  BY <2>1, <2>2
<1>2. AgesType'
  BY DEF keepTick, wdSetMeta, AgesType, Calm, Settings, Never
<1>3. UNCHANGED <<run, line, product>>
  BY DEF keepTick
<1> QED  BY <1>1, <1>2, <1>3, ElsewhereKeeps

\* keepOne reads a ticket's line: no keeper's row is in it.
LEMMA keepOneReadsKeeps ==
  ASSUME KeeperIInv, keepOneReads
  PROVE  KeeperIInv'
<1> USE DEF KeeperIInv
<1>0. AgesType' /\ UNCHANGED <<run, line, product>>
  BY CalmAges DEF keepOneReads
<1>1. CASE loop.todo = {}
  <2>1. HandType' /\ loop'.at = "pump"
    BY <1>1, Goes DEF keepOneReads, Steps
  <2> QED  BY <1>0, <2>1, ElsewhereKeeps
<1>2. ASSUME NEW t \in loop.todo, Ended(run[t]), line[t] = {},
             loop' = [loop EXCEPT !.at = "facts", !.todo = @ \ {t}, !.tickets = {t}]
      PROVE  KeeperIInv'
  <2>1. HandType' /\ loop'.at = "facts" /\ loop'.tickets = {t}
    BY <1>2 DEF HandType, Steps
  <2> QED  BY <1>0, <1>2, <2>1, LoopKeeps
<1>3. ASSUME NEW t \in loop.todo, loop' = [loop EXCEPT !.todo = @ \ {t}]
      PROVE  KeeperIInv'
  <2>1. HandType' /\ loop'.at = "read"
    BY <1>3 DEF HandType, keepOneReads
  <2> QED  BY <1>0, <2>1, ElsewhereKeeps
<1> QED  BY <1>1, <1>2, <1>3 DEF keepOneReads

\* keepOne reads why the ticket lies.
LEMMA keepOneFactsKeeps ==
  ASSUME KeeperIInv, keepOneFacts
  PROVE  KeeperIInv'
<1> USE DEF KeeperIInv
<1>0. AgesType' /\ UNCHANGED <<run, line, product>> /\ loop.at = "facts"
  BY CalmAges DEF keepOneFacts
<1>1. PICK t \in loop.tickets :
        loop' = IF PutDown(run[t]) THEN [loop EXCEPT !.at = "read", !.tickets = {}] ELSE [loop EXCEPT !.at = "insert"]
  BY DEF keepOneFacts
<1>2. CASE PutDown(run[t])
  <2>1. HandType' /\ loop'.at = "read"
    BY <1>1, <1>2 DEF HandType, Steps
  <2> QED  BY <1>0, <2>1, ElsewhereKeeps
<1>3. CASE ~PutDown(run[t])
  <2>1. HandType' /\ loop'.at = "insert" /\ loop'.tickets = loop.tickets
    BY <1>1, <1>3 DEF HandType, Steps
  <2>2. loop.tickets = {t}
    BY DEF HandType
  <2>3. "budget" \notin run[t].judged
    BY <1>3 DEF PutDown
  <2>4. \A u \in loop.tickets : \A r \in line[u] : r.by # "keeper"
    BY <1>0 DEF LineHolds, HandIsFree
  <2> QED  BY <1>0, <2>1, <2>2, <2>3, <2>4, LoopKeeps
<1> QED  BY <1>2, <1>3

\* keepOne inserts the only keeper's row of the ticket.
LEMMA keepOneInsertsKeeps ==
  ASSUME Settings, KeeperIInv, keepOneInserts
  PROVE  KeeperIInv'
<1> USE DEF KeeperIInv
<1>0. PICK r : r = [by |-> "keeper", state |-> "waiting"]
  OBVIOUS
<1>1. PICK t \in loop.tickets : line' = [line EXCEPT ![t] = @ \cup {r}]
  BY <1>0 DEF keepOneInserts
<1>2. r \in LineRow /\ r.by = "keeper" /\ r.state = "waiting" /\ t \in Tickets
  BY <1>0 DEF LineRow, HandType
<1>3. LineType' /\ \A u \in Tickets : line'[u] = IF u = t THEN line[t] \cup {r} ELSE line[u]
  BY <1>1, <1>2, LineWritten DEF LineType
<1>4. HandType' /\ loop'.at = "read"
  BY DEF keepOneInserts, HandType, Steps
<1>5. AgesType' /\ KeeperRunsType' /\ run' = run /\ product' = product
  BY StirAges DEF keepOneInserts, AgesType, KeeperRunsType
<1>6. \A x \in line[t] : x.by # "keeper"
  BY DEF LineHolds, HandIsFree, keepOneInserts
<1>7. (\A u \in Tickets : Single(u))'
  BY <1>3, <1>6 DEF LineHolds, Single
<1>8. ProductUnderRun' /\ RunsHaveRows'
  <2>1. \A u \in Tickets : Rows(u, "running")' = Rows(u, "running")
    BY <1>2, <1>3 DEF Rows
  <2> QED  BY <1>5, <2>1 DEF LineHolds, ProductUnderRun, RunsHaveRows
<1>9. BudgetIsFinal' /\ HandIsFree' /\ NoneStarted'
  BY <1>4 DEF BudgetIsFinal, HandIsFree, NoneStarted
<1> QED  BY <1>3, <1>4, <1>5, <1>7, <1>8, <1>9 DEF LineHolds

\* A row is started: it changes places with itself, and the product is up.
LEMMA StartKeeps ==
  ASSUME KeeperIInv, NEW t \in Tickets, NEW r \in line[t], r.state = "waiting",
         line' = [line EXCEPT ![t] = (@ \ {r}) \cup {[r EXCEPT !.state = "running"]}],
         product' = "up", run' = run, loop.at = "pump", loop'.at = "cool"
  PROVE  LineType' /\ LineHolds'
<1> USE DEF KeeperIInv
<1>0. PICK n : n = [r EXCEPT !.state = "running"]
  OBVIOUS
<1>1. r \in LineRow /\ n \in LineRow /\ n.by = r.by /\ n.state = "running"
  BY <1>0 DEF LineRow, LineType
<1>2. LineType' /\ \A u \in Tickets : line'[u] = IF u = t THEN (line[t] \ {r}) \cup {n} ELSE line[u]
  <2> DEFINE S == (line[t] \ {r}) \cup {n}
  <2>1. line' = [line EXCEPT ![t] = S]
    BY <1>0
  <2>2. S \in SUBSET LineRow /\ LineType
    BY <1>1 DEF LineType
  <2> HIDE DEF S
  <2>3. LineType' /\ \A u \in Tickets : line'[u] = IF u = t THEN S ELSE line[u]
    BY <2>1, <2>2 DEF LineType
  <2> QED  BY <2>3 DEF S
<1>3. (\A u \in Tickets : Single(u))'
  <2>1. ASSUME NEW x \in line'[t], NEW y \in line'[t], x.by = "keeper", y.by = "keeper"  PROVE x = y
    BY <1>1, <1>2, <2>1 DEF LineHolds, Single
  <2>2. ASSUME NEW u \in Tickets, u # t, NEW x \in line'[u], NEW y \in line'[u], x.by = "keeper", y.by = "keeper"
        PROVE  x = y
    BY <1>2, <2>2 DEF LineHolds, Single
  <2> QED  BY <2>1, <2>2 DEF Single
<1>4. ProductUnderRun'
  BY DEF ProductUnderRun
<1>5. RunsHaveRows'
  <2>1. \A u \in Tickets : \A x \in line[u] : x.state = "running" => x \in line'[u]
    BY <1>2
  <2> QED  BY <2>1 DEF LineHolds, RunsHaveRows, Rows
<1>6. BudgetIsFinal' /\ HandIsFree' /\ NoneStarted'
  BY DEF BudgetIsFinal, HandIsFree, NoneStarted
<1> QED  BY <1>2, <1>3, <1>4, <1>5, <1>6 DEF LineHolds

\* A row that no run came of is closed.
LEMMA SweepKeeps ==
  ASSUME KeeperIInv, NEW t \in Tickets, NEW r \in line[t], run[t].state # "open",
         line' = [line EXCEPT ![t] = @ \ {r}],
         UNCHANGED <<run, product>>, loop.at = "pump", loop'.at = "cool"
  PROVE  LineType' /\ LineHolds'
<1> USE DEF KeeperIInv
<1>1. LineType' /\ \A u \in Tickets : line'[u] = IF u = t THEN line[t] \ {r} ELSE line[u]
  BY LineWritten DEF LineType
<1>2. \A u \in Tickets : line'[u] \subseteq line[u]
  BY <1>1
<1>3. (\A u \in Tickets : Single(u))'
  BY <1>2 DEF LineHolds, Single
<1>4. ProductUnderRun'
  BY <1>2 DEF LineHolds, ProductUnderRun, Rows
<1>5. RunsHaveRows'
  BY <1>1 DEF LineHolds, RunsHaveRows, Rows
<1>6. BudgetIsFinal' /\ HandIsFree' /\ NoneStarted'
  BY DEF BudgetIsFinal, HandIsFree, NoneStarted
<1> QED  BY <1>1, <1>3, <1>4, <1>5, <1>6 DEF LineHolds

\* The pump starts a row.
LEMMA pumpQueueKeeps ==
  ASSUME Settings, KeeperIInv, pumpQueue
  PROVE  KeeperIInv'
<1> USE DEF KeeperIInv
<1>1. HandType' /\ loop.at = "pump" /\ loop'.at = "cool"
  BY Goes DEF pumpQueue, Steps
<1>2. KeeperRunsType' /\ run' = run
  BY DEF pumpQueue, KeeperRunsType
<1>3. CASE UNCHANGED <<line, product>> /\ Calm
  BY <1>1, <1>2, <1>3, CalmAges, ElsewhereKeeps DEF pumpQueue
<1>4. ASSUME NEW t \in Tickets, NEW r \in Rows(t, "waiting"), product' = "up", still' = 0, cooled' = NotCooled,
             line' = [line EXCEPT ![t] = (@ \ {r}) \cup {[r EXCEPT !.state = "running"]}]
      PROVE  KeeperIInv'
  <2>1. r \in line[t] /\ r.state = "waiting"
    BY DEF Rows
  <2>2. LineType' /\ LineHolds'
    BY <1>1, <1>2, <1>4, <2>1, StartKeeps
  <2>3. AgesType'
    BY <1>4, StirAges DEF pumpQueue
  <2> QED  BY <1>1, <1>2, <2>2, <2>3
<1>5. ASSUME NEW t \in Tickets, NEW r \in Rows(t, "running"), run[t].state # "open",
             line' = [line EXCEPT ![t] = @ \ {r}], UNCHANGED product, Calm
      PROVE  KeeperIInv'
  <2>1. r \in line[t]
    BY DEF Rows
  <2>2. LineType' /\ LineHolds'
    BY <1>1, <1>2, <1>5, <2>1, SweepKeeps
  <2>3. AgesType'
    BY <1>5, CalmAges DEF pumpQueue
  <2> QED  BY <1>1, <1>2, <2>2, <2>3
<1> QED  BY <1>3, <1>4, <1>5 DEF pumpQueue

\* cooldown looks, and finds nothing at work.
LEMMA cooldownLooksKeeps ==
  ASSUME KeeperIInv, cooldownLooks
  PROVE  KeeperIInv'
<1> USE DEF KeeperIInv
<1>1. HandType' /\ loop'.at \in {"weigh", "pending"}
  BY DEF cooldownLooks, Go, HandType, Steps
<1> QED  BY <1>1, CalmAges, ElsewhereKeeps DEF cooldownLooks

\* Nothing is in the line when the cooldown decides.
LEMMA cooldownReadsKeeps ==
  ASSUME Settings, KeeperIInv, cooldownReads
  PROVE  KeeperIInv'
<1> USE DEF KeeperIInv
<1>0. UNCHANGED <<run, line, product, keepAt, asked, still, up, lives>>
  BY DEF cooldownReads
<1>1. CASE Pending \/ StillAwake <= Idle \/ cooled.done \/ cooled.tried \in 0 .. Idle - 1
  <2>1. HandType' /\ loop'.at = "weigh"
    BY <1>1, Goes DEF cooldownReads, Steps
  <2>2. AgesType'
    BY <1>0, <1>1 DEF cooldownReads, AgesType
  <2> QED  BY <1>0, <2>1, <2>2, ElsewhereKeeps
<1>2. CASE ~(Pending \/ StillAwake <= Idle \/ cooled.done \/ cooled.tried \in 0 .. Idle - 1)
  <2>1. loop' = [loop EXCEPT !.at = "act", !.same = TRUE] /\ cooled' = [cooled EXCEPT !.tried = 0]
    BY <1>2 DEF cooldownReads
  <2>2. HandType' /\ loop'.at = "act"
    BY <2>1 DEF HandType, Steps
  <2>3. AgesType'
    BY <1>0, <2>1 DEF AgesType, Settings, Never
  <2>4. \A t \in Tickets : Rows(t, "running") = {}
    BY <1>2 DEF Pending, Rows
  <2> QED  BY <1>0, <2>2, <2>3, <2>4, LoopKeeps
<1> QED  BY <1>1, <1>2

\* No run is open and no row started, so the product may go.
LEMMA cooldownActsKeeps ==
  ASSUME KeeperIInv, NEW failed \in BOOLEAN, cooldownActs(failed)
  PROVE  KeeperIInv'
<1> USE DEF KeeperIInv
<1>1. HandType' /\ loop'.at = "weigh"
  BY Goes DEF cooldownActs, Steps
<1>2. AgesType' /\ UNCHANGED <<run, line>>
  BY DEF cooldownActs, AgesType
<1>3. KeeperRunsType' /\ LineType'
  BY <1>2 DEF KeeperRunsType, LineType
<1>4. \A t \in Tickets : Rows(t, "running") = {} /\ run[t].state # "open"
  BY DEF cooldownActs, LineHolds, NoneStarted, RunsHaveRows
<1>5. ProductUnderRun'
  BY <1>2, <1>4 DEF ProductUnderRun, Rows
<1>6. (\A u \in Tickets : Single(u))' /\ RunsHaveRows'
  BY <1>2 DEF LineHolds, Single, RunsHaveRows, Rows
<1>7. BudgetIsFinal' /\ HandIsFree' /\ NoneStarted'
  BY <1>1 DEF BudgetIsFinal, HandIsFree, NoneStarted
<1> QED  BY <1>1, <1>2, <1>3, <1>5, <1>6, <1>7 DEF LineHolds

-----------------------------------------------------------------------------
\* At first nothing is queued.
LEMMA InitHolds ==
  ASSUME Settings, KeeperInit
  PROVE  KeeperIInv
<1>1. KeeperRunsType /\ LineType
  BY NoRunType DEF KeeperInit, KeeperRunsType, LineType, NoRun
<1>2. HandType /\ AgesType
  BY DEF KeeperInit, HandType, AgesType, Resting, NotCooled, Steps, Settings, Never
<1>3. LineHolds
  BY DEF KeeperInit, LineHolds, Single, BudgetIsFinal, ProductUnderRun, RunsHaveRows, HandIsFree, NoneStarted, Resting, Rows, NoRun
<1> QED  BY <1>1, <1>2, <1>3 DEF KeeperIInv

\* Every step keeps the invariant.
LEMMA StepKeeps ==
  ASSUME Settings, KeeperIInv, [KeeperNext]_keeperVars
  PROVE  KeeperIInv'
<1>1. CASE Loop
  BY <1>1, WeighPassesKeeps, WeighClosesKeeps, keepTickKeeps, keepOneReadsKeeps, keepOneFactsKeeps,
     keepOneInsertsKeeps, pumpQueueKeeps, cooldownLooksKeeps, cooldownReadsKeeps, cooldownActsKeeps DEF Loop
<1>2. CASE KeeperElapse \/ KeeperRestart
  BY <1>2, KeeperElapseKeeps, KeeperRestartKeeps
<1>3. ASSUME NEW t \in Tickets,
             RunStarts(t) \/ HandStops(t) \/ Queue(t) \/ Withdraw(t) \/ PoolBack(t)
      PROVE  KeeperIInv'
  BY <1>3, RunStartsKeeps, HandStopsKeeps, QueueKeeps, WithdrawKeeps, PoolBackKeeps
<1>4. ASSUME NEW t \in Tickets, NEW v \in {"PASS", "FAIL", "BLOCKED"}, NEW s \in {"plain", "approval", "stopped"},
             NEW b \in BOOLEAN, RunEnds(t, v, s, b)
      PROVE  KeeperIInv'
  BY <1>4, RunEndsKeeps
<1>5. CASE UNCHANGED keeperVars
  BY <1>5 DEF keeperVars, KeeperIInv, KeeperRunsType, LineType, HandType, AgesType, LineHolds, Single, BudgetIsFinal, ProductUnderRun,
              RunsHaveRows, HandIsFree, NoneStarted, Rows
<1> QED  BY <1>1, <1>2, <1>3, <1>4, <1>5 DEF KeeperNext

\* Whatever runs, people and restarts do between the sections of the loop: one
\* resume of the keeper's at a time for a ticket, none of a run that was closed
\* over its budget, and no product put down under a run or a started row.
THEOREM KeeperHolds ==
  ASSUME Settings
  PROVE  KeeperSpec => []KeeperInv
<1>1. KeeperInit => KeeperIInv
  BY InitHolds
<1>2. KeeperIInv /\ [KeeperNext]_keeperVars => KeeperIInv'
  BY StepKeeps
<1>3. KeeperIInv => KeeperInv
  BY KeeperTypeParts, OnceIsSingle DEF KeeperIInv, LineHolds, KeeperInv, LineType
<1> QED  BY <1>1, <1>2, <1>3, PTL DEF KeeperSpec

-----------------------------------------------------------------------------
(* The leases.  For any works, names, holders, tickets and times, no two of *)
(* different names whose leases nobody gave back are at work under one.    *)


\* A row of the table.
Lease == [holder : Holders, left : 0 .. Ttl]

\* LeaseInv without what follows from it.
BackedInv ==
  /\ LeasesTypeOK
  /\ \A w \in wire : work[w] = "gone"
  /\ \A w \in Works : Backed(w)

\* Names and holders are those of the works, or nobody's.
LEMMA NamesAndHolders ==
  ASSUME Callers
  PROVE  /\ \A w \in Works : Name[w] \in Names
         /\ \A w \in Works : [holder |-> Holder[w], left |-> Ttl] \in Lease
         /\ Nobody \in Lease
<1>1. \A w \in Works : Name[w] \in Names
  BY DEF Names
<1>2. "" \in Holders /\ \A w \in Works : Holder[w] \in Holders
  BY Zenon DEF Holders
<1>3. Ttl \in Nat
  BY DEF Callers
<1>4. ASSUME NEW h \in Holders, NEW n \in 0 .. Ttl
      PROVE  [holder |-> h, left |-> n] \in Lease
  BY DEF Lease
<1>5. 0 \in 0 .. Ttl /\ Ttl \in 0 .. Ttl
  BY <1>3
<1> QED  BY <1>1, <1>2, <1>4, <1>5, Zenon DEF Nobody

\* At first nobody works and nobody holds anything.
LEMMA LeaseInit == ASSUME Callers, LeasesInit PROVE BackedInv
<1>1. lease \in [Names -> Lease]
  BY NamesAndHolders DEF LeasesInit
<1>2. LeasesTypeOK
  BY <1>1 DEF Callers, LeasesInit, LeasesTypeOK, Lease
<1> QED  BY <1>2 DEF LeasesInit, BackedInv, Backed, Sound

\* The wire when a work leaves.
LEMMA LeavesWire ==
  ASSUME NEW w, NEW sends \in BOOLEAN, Leaves(w, sends)
  PROVE  wire' = wire \/ wire' = wire \cup {w}
BY Zenon DEF Leaves

\* Every step keeps the types.
LEMMA LeaseTypes == ASSUME Callers, BackedInv, [LeasesNext]_leasesVars PROVE LeasesTypeOK'
<1> USE NamesAndHolders DEF BackedInv, LeasesTypeOK, Lease
<1>1. ASSUME NEW w \in Works, RunOpens(w) PROVE LeasesTypeOK'
  BY <1>1 DEF RunOpens
<1>2. ASSUME NEW w \in Works, Begins(w) PROVE LeasesTypeOK'
  BY <1>2 DEF Begins
<1>3. ASSUME NEW w \in Works, Take(w) PROVE LeasesTypeOK'
  <2>1. lease' \in [Names -> Lease]
    BY <1>3 DEF Take
  <2> QED  BY <1>3, <2>1 DEF Take, Callers
<1>4. ASSUME NEW w \in Works, NEW sends \in BOOLEAN, Leaves(w, sends) PROVE LeasesTypeOK'
  <2>1. believes' \in [Works -> 0 .. Ttl] /\ \A v \in Works : believes'[v] > 0 => work'[v] = "works"
    BY <1>4 DEF Leaves, Callers
  <2>2. runRow' \in [TicketRuns -> {"none", "open", "closed"}]
    BY <1>4 DEF Leaves
  <2>3. wire' \subseteq Works
    BY <1>4, LeavesWire
  <2>4. work' \in [Works -> {"new", "works", "gone"}]
    BY <1>4 DEF Leaves
  <2> QED  BY <1>4, <2>1, <2>2, <2>3, <2>4 DEF Leaves
<1>5. ASSUME NEW w \in Works, RowCloses(w) PROVE LeasesTypeOK'
  BY <1>5 DEF RowCloses
<1>6. ASSUME NEW w \in Works, GiveBack(w) PROVE LeasesTypeOK'
  BY <1>6 DEF GiveBack, Namesakes
<1>7. CASE releaseEndedStandLeases
  BY <1>7 DEF releaseEndedStandLeases, TicketRuns
<1>8. CASE LeaseElapse
  <2>1. lease' \in [Names -> Lease]
    BY <1>8 DEF LeaseElapse, Callers
  <2>2. /\ believes' \in [Works -> 0 .. Ttl]
        /\ \A v \in Works : believes'[v] > 0 => work'[v] = "works"
    BY <1>8 DEF LeaseElapse, Callers
  <2> QED  BY <1>8, <2>1, <2>2 DEF LeaseElapse
<1>9. CASE UNCHANGED leasesVars
  BY <1>9 DEF leasesVars
<1> QED  BY <1>1, <1>2, <1>3, <1>4, <1>5, <1>6, <1>7, <1>8, <1>9 DEF LeasesNext

\* Who sent its giving back has left, and does not come again.
LEMMA WireStep ==
  ASSUME BackedInv, [LeasesNext]_leasesVars PROVE \A w \in wire' : work'[w] = "gone"
<1> USE DEF BackedInv, LeasesTypeOK
<1>1. ASSUME NEW w \in Works, RunOpens(w) \/ Begins(w) PROVE \A v \in wire' : work'[v] = "gone"
  BY <1>1 DEF RunOpens, Begins
<1>2. ASSUME NEW w \in Works, NEW sends \in BOOLEAN, Leaves(w, sends)
      PROVE  \A v \in wire' : work'[v] = "gone"
  BY <1>2, LeavesWire DEF Leaves
<1>3. ASSUME NEW w \in Works, Take(w) \/ RowCloses(w) \/ GiveBack(w)
      PROVE  \A v \in wire' : work'[v] = "gone"
  BY <1>3 DEF Take, RowCloses, GiveBack
<1>4. CASE releaseEndedStandLeases \/ LeaseElapse \/ UNCHANGED leasesVars
  BY <1>4 DEF releaseEndedStandLeases, LeaseElapse, leasesVars
<1> QED  BY <1>1, <1>2, <1>3, <1>4 DEF LeasesNext

\* A lease is taken from nobody who believes in it soundly, unless it was lost to
\* him before: a taker of another name is refused, and one of his name extends it.
LEMMA TakeBacked ==
  ASSUME Callers, BackedInv, NEW v \in Works, Take(v), NEW w \in Works PROVE Backed(w)'
<1> USE NamesAndHolders DEF BackedInv, LeasesTypeOK, Take, Backed, Sound
<1>1. CASE w = v
  BY <1>1 DEF Callers
<1>2. CASE w # v /\ Name[w] = Name[v]
  BY <1>2 DEF Callers, Held
<1>3. CASE w # v /\ Name[w] # Name[v]
  BY <1>3
<1> QED  BY <1>1, <1>2, <1>3

\* A giving back that arrives late finds another's name on the lease, or his who
\* has the same: to him it is lost.
LEMMA GiveBackBacked ==
  ASSUME Callers, BackedInv, NEW v \in Works, GiveBack(v), NEW w \in Works PROVE Backed(w)'
<1> USE NamesAndHolders DEF BackedInv, LeasesTypeOK, GiveBack, Backed, Sound
<1>1. CASE w = v
  BY <1>1
<1>2. CASE w # v /\ Released(v) /\ Name[w] = Name[v]
  <2>1. CASE Holder[w] = Holder[v]
    BY <1>2, <2>1 DEF Namesakes
  <2>2. CASE Holder[w] # Holder[v]
    BY <1>2, <2>2 DEF Released
  <2> QED  BY <2>1, <2>2
<1>3. CASE w # v /\ ~(Released(v) /\ Name[w] = Name[v])
  BY <1>3
<1> QED  BY <1>1, <1>2, <1>3

\* The pump leaves the stand of a run whose row is open alone, and takes it from
\* one that has no row yet.
LEMMA PumpBacked ==
  ASSUME Callers, BackedInv, releaseEndedStandLeases, NEW w \in Works PROVE Backed(w)'
<1> SUFFICES ASSUME Sound(w), w \notin lost' PROVE lease'[Name[w]] = lease[Name[w]]
  BY NamesAndHolders DEF BackedInv, LeasesTypeOK, releaseEndedStandLeases, Backed, Sound
<1>1. Name[w] \in Names /\ lease[Name[w]].holder = Holder[w]
  BY NamesAndHolders DEF BackedInv, Backed, releaseEndedStandLeases
<1>2. CASE RunsOver(Name[w])
  <2>1. w \in TicketRuns /\ runRow[w] \in {"none", "open"}
    BY <1>2 DEF Callers, Sound, RunsOver, BackedInv, LeasesTypeOK
  <2>2. CASE runRow[w] = "open"
    BY <1>1, <1>2, <2>1, <2>2 DEF LiveRuns, OpenRuns, RunsOver
  <2>3. CASE runRow[w] = "none"
    BY <1>1, <1>2, <2>1, <2>3 DEF releaseEndedStandLeases
  <2> QED  BY <2>1, <2>2, <2>3
<1>3. CASE ~RunsOver(Name[w])
  BY <1>1, <1>3 DEF releaseEndedStandLeases
<1> QED  BY <1>2, <1>3

\* The invariant is inductive.
LEMMA LeaseStep == ASSUME Callers, BackedInv, [LeasesNext]_leasesVars PROVE BackedInv'
<1>1. LeasesTypeOK'
  BY LeaseTypes
<1>2. \A w \in wire' : work'[w] = "gone"
  BY WireStep
<1>3. ASSUME NEW w \in Works PROVE Backed(w)'
  <2> USE NamesAndHolders DEF BackedInv, LeasesTypeOK, Backed, Sound
  <2>1. ASSUME NEW v \in Works, RunOpens(v) \/ Begins(v) PROVE Backed(w)'
    BY <2>1 DEF RunOpens, Begins
  <2>2. ASSUME NEW v \in Works, NEW sends \in BOOLEAN, Leaves(v, sends) PROVE Backed(w)'
    BY <2>2 DEF Leaves
  <2>3. ASSUME NEW v \in Works, RowCloses(v) PROVE Backed(w)'
    BY <2>3 DEF RowCloses
  <2>4. CASE LeaseElapse
    BY <2>4 DEF LeaseElapse, Callers
  <2>5. CASE UNCHANGED leasesVars
    BY <2>5 DEF leasesVars
  <2> QED
    BY <2>1, <2>2, <2>3, <2>4, <2>5, TakeBacked, GiveBackBacked, PumpBacked DEF LeasesNext
<1> QED  BY <1>1, <1>2, <1>3 DEF BackedInv

\* Two that both believed in one lease would both be its holder.
LEMMA BackedHolds == ASSUME Callers, BackedInv PROVE LeaseInv
<1>1. OneHolder
  BY DEF BackedInv, Backed, OneHolder
<1> QED  BY <1>1 DEF BackedInv, LeaseInv

\* Two of different names at work on what one lease is for - two deploys, the runs of
\* two tickets on one stand - are never both sound, whoever gives back late, dies, or
\* is slow, unless one of them lost its lease to a DELETE of its own name or, before
\* its row was open, to the pump (POST and DELETE /lease, releaseEndedStandLeases).
THEOREM LeaseHeldByOne == ASSUME Callers PROVE LeasesSpec => []LeaseInv
<1>1. LeasesInit => BackedInv
  BY LeaseInit
<1>2. BackedInv /\ [LeasesNext]_leasesVars => BackedInv'
  BY LeaseStep
<1>3. BackedInv => LeaseInv
  BY BackedHolds
<1> QED  BY <1>1, <1>2, <1>3, PTL DEF LeasesSpec
-----------------------------------------------------------------------------
(* The archive: the rows of the limit                                      *)

\* A row grows older until it is too old, and no further.
LEMMA AgeType ==
  ASSUME Bounds, NEW n \in 0 .. Retention + 1
  PROVE  Age(n) \in 0 .. Retention + 1
BY DEF Bounds, Age

\* Of two rows the older one stays the older.
LEMMA AgeKeepsOrder ==
  ASSUME Bounds, NEW m \in 0 .. Retention + 1, NEW n \in 0 .. Retention + 1, m >= n
  PROVE  Age(m) >= Age(n)
BY DEF Bounds, Age

\* A day makes a row older and changes nothing else of it.
LEMMA AgedType ==
  ASSUME Bounds, NEW limit \in LimitRow
  PROVE  /\ Aged(limit) \in LimitRow
         /\ Aged(limit).value = limit.value /\ Aged(limit).old = Age(limit.old)
<1>1. limit.old \in 0 .. Retention + 1
  BY DEF LimitRow
<1>2. Age(limit.old) \in 0 .. Retention + 1
  BY <1>1, AgeType
<1> HIDE DEF Age
<1> QED  BY <1>2 DEF Aged, LimitRow

\* As many are dropped as are too old and not the newest.
LEMMA SpentType ==
  ASSUME Bounds, NEW limits \in Seq(LimitRow)
  PROVE  /\ Cardinality(Spent(limits)) \in Nat
         /\ limits = << >> => Cardinality(Spent(limits)) = 0
         /\ limits # << >> => Cardinality(Spent(limits)) < Len(limits)
<1>1. Len(limits) \in Nat /\ DOMAIN limits = 1 .. Len(limits)
  OBVIOUS
<1>2. Spent(limits) \subseteq 1 .. Len(limits) - 1
  BY <1>1 DEF Spent
<1>3. IsFiniteSet(1 .. Len(limits) - 1)
      /\ Cardinality(1 .. Len(limits) - 1) = IF 1 > Len(limits) - 1 THEN 0 ELSE Len(limits) - 1
  <2>1. Len(limits) - 1 \in Int
    BY <1>1
  <2> QED  BY <2>1, <1>1, FS_Interval, SMTT(30)
<1>4. IsFiniteSet(Spent(limits)) /\ Cardinality(Spent(limits)) <= Cardinality(1 .. Len(limits) - 1)
  BY <1>2, <1>3, FS_Subset
<1>5. Cardinality(Spent(limits)) \in Nat
  BY <1>4, FS_CardinalityType
<1>6. limits # << >> => Len(limits) > 0
  BY <1>1, EmptySeq
<1>7. limits = << >> => Len(limits) = 0
  BY EmptySeq
<1> QED  BY <1>1, <1>3, <1>4, <1>5, <1>6, <1>7

\* A table of the limit as it should be.
InOrderOfAge(limits) ==
  /\ limits \in Seq(LimitRow) /\ Len(limits) <= MaxRows
  /\ \A i, j \in DOMAIN limits : i <= j => limits[i].old >= limits[j].old

\* recordLimits puts the newest value at the end: rows stay in order of age.
LEMMA AppendSound ==
  ASSUME Bounds, NEW limits, InOrderOfAge(limits), Len(limits) < MaxRows, NEW v \in Values, NEW after,
         after = Append(limits, [value |-> v, old |-> 0])
  PROVE  InOrderOfAge(after) /\ after # << >> /\ after[Len(after)].value = v
<1>1. limits \in Seq(LimitRow) /\ Len(limits) \in Nat /\ DOMAIN limits = 1 .. Len(limits)
  BY DEF InOrderOfAge
<1>2. PICK row : row = [value |-> v, old |-> 0]
  OBVIOUS
<1>3. row \in LimitRow /\ row.value = v /\ row.old = 0
  BY <1>2 DEF LimitRow, Bounds
<1>4. /\ after \in Seq(LimitRow) /\ Len(after) = Len(limits) + 1 /\ after[Len(limits) + 1] = row
      /\ \A i \in 1 .. Len(limits) : after[i] = limits[i]
  BY <1>1, <1>2, <1>3
<1>5. DOMAIN after = 1 .. Len(limits) + 1
  BY <1>4
<1>6. after # << >>
  BY <1>1, <1>4, EmptySeq
<1>7. \A i, j \in DOMAIN after : i <= j => after[i].old >= after[j].old
  <2>1. \A i \in 1 .. Len(limits) : limits[i].old >= 0
    <3>1. \A i \in 1 .. Len(limits) : limits[i] \in LimitRow
      BY <1>1
    <3> QED  BY <3>1 DEF LimitRow, Bounds
  <2>2. ASSUME NEW i \in DOMAIN after, NEW j \in DOMAIN after, i <= j  PROVE after[i].old >= after[j].old
    <3>1. CASE j = Len(limits) + 1 /\ i = j
      BY <1>3, <1>4, <3>1
    <3>2. CASE j = Len(limits) + 1 /\ i < j
      <4>1. i \in 1 .. Len(limits)
        BY <1>1, <1>5, <3>2
      <4> QED  BY <1>3, <1>4, <2>1, <3>2, <4>1
    <3>3. CASE j < Len(limits) + 1
      <4>1. i \in 1 .. Len(limits) /\ j \in 1 .. Len(limits)
        BY <1>1, <1>5, <2>2, <3>3
      <4>2. limits[i].old >= limits[j].old
        BY <1>1, <2>2, <4>1 DEF InOrderOfAge
      <4> QED  BY <1>4, <4>1, <4>2
    <3> QED  BY <1>1, <1>5, <2>2, <3>1, <3>2, <3>3
  <2> QED  BY <2>2
<1> QED  BY <1>1, <1>3, <1>4, <1>6, <1>7 DEF InOrderOfAge, Bounds

\* A day keeps the order of the rows and the newest value.
LEMMA AgedSound ==
  ASSUME Bounds, NEW limits, InOrderOfAge(limits), NEW after, after = [i \in DOMAIN limits |-> Aged(limits[i])]
  PROVE  /\ InOrderOfAge(after) /\ Len(after) = Len(limits) /\ (limits # << >> => after # << >>)
         /\ limits # << >> => after[Len(after)].value = limits[Len(limits)].value
<1>1. limits \in Seq(LimitRow) /\ Len(limits) \in Nat /\ DOMAIN limits = 1 .. Len(limits)
  BY DEF InOrderOfAge
<1>2. \A i \in 1 .. Len(limits) :
        /\ limits[i] \in LimitRow /\ Aged(limits[i]) \in LimitRow
        /\ Aged(limits[i]).value = limits[i].value /\ Aged(limits[i]).old = Age(limits[i].old)
        /\ limits[i].old \in 0 .. Retention + 1
  <2>1. ASSUME NEW i \in 1 .. Len(limits)
        PROVE  /\ limits[i] \in LimitRow /\ Aged(limits[i]) \in LimitRow
               /\ Aged(limits[i]).value = limits[i].value /\ Aged(limits[i]).old = Age(limits[i].old)
    <3>1. limits[i] \in LimitRow
      BY <1>1
    <3> QED  BY <3>1, AgedType
  <2>2. \A row \in LimitRow : row.old \in 0 .. Retention + 1
    BY DEF LimitRow
  <2> HIDE DEF Aged, LimitRow
  <2> QED  BY <2>1, <2>2
<1> HIDE DEF Aged
<1>3. after \in [1 .. Len(limits) -> LimitRow] /\ \A i \in 1 .. Len(limits) : after[i] = Aged(limits[i])
  BY <1>1, <1>2
<1>4. after \in Seq(LimitRow)
  BY <1>1, <1>3, SeqDef
<1>5. Len(after) = Len(limits)
  <2>1. DOMAIN after = 1 .. Len(after) /\ Len(after) \in Nat
    BY <1>4
  <2>2. DOMAIN after = 1 .. Len(limits)
    BY <1>3
  <2> QED  BY <1>1, <2>1, <2>2
<1>6. limits # << >> => after # << >> /\ Len(limits) \in 1 .. Len(limits)
  BY <1>1, <1>5, EmptySeq
<1>7. ASSUME NEW i \in DOMAIN after, NEW j \in DOMAIN after, i <= j  PROVE after[i].old >= after[j].old
  <2>1. i \in 1 .. Len(limits) /\ j \in 1 .. Len(limits) /\ limits[i].old >= limits[j].old
    BY <1>1, <1>3, <1>7 DEF InOrderOfAge
  <2> HIDE DEF Age
  <2>2. Age(limits[i].old) >= Age(limits[j].old)
    BY <1>2, <2>1, AgeKeepsOrder
  <2> QED  BY <1>2, <1>3, <2>1, <2>2
<1> QED  BY <1>2, <1>3, <1>4, <1>5, <1>6, <1>7 DEF InOrderOfAge

\* Where the rows of a suffix stood.
LEMMA SuffixIndex ==
  ASSUME NEW l \in Nat, NEW n \in Nat, NEW a \in Nat, a = l - n
  PROVE  /\ \A i \in 1 .. a : i \in 1 .. l - (n + 1) + 1 /\ n + 1 + i - 1 = n + i /\ n + i \in 1 .. l
         /\ a <= l
OBVIOUS

\* Where the last row is once the first n are gone.
LEMMA SuffixLast ==
  \A l, n, a \in Nat : a = l - n /\ n < l => a > 0 /\ a \in 1 .. a /\ n + a = l
OBVIOUS

\* The rows after the first n are as sound as all, and end with the same value.
LEMMA SuffixSound ==
  ASSUME Bounds, NEW limits, InOrderOfAge(limits), NEW n \in Nat, limits = << >> => n = 0, limits # << >> => n < Len(limits),
         NEW after \in Seq(LimitRow), Len(after) = IF n + 1 <= Len(limits) THEN Len(limits) - (n + 1) + 1 ELSE 0,
         \A i \in 1 .. Len(limits) - (n + 1) + 1 : after[i] = limits[n + 1 + i - 1]
  PROVE  /\ InOrderOfAge(after) /\ (limits # << >> => after # << >>) /\ Len(after) = Len(limits) - n
         /\ limits # << >> => after[Len(after)].value = limits[Len(limits)].value
<1>1. limits \in Seq(LimitRow) /\ Len(limits) \in Nat /\ DOMAIN limits = 1 .. Len(limits) /\ Len(after) \in Nat
  BY DEF InOrderOfAge
<1>4. Len(limits) = 0 <=> limits = << >>
  BY <1>1, EmptySeq
<1>6. Len(after) = Len(limits) - n /\ \A i \in 1 .. Len(after) : after[i] = limits[n + i] /\ n + i \in DOMAIN limits
  <2>1. Len(after) = Len(limits) - n
    <3>1. CASE n + 1 <= Len(limits)
      BY <1>1, <3>1
    <3>2. CASE ~(n + 1 <= Len(limits))
      <4>1. Len(limits) = 0 /\ n = 0
        BY <1>1, <1>4, <3>2
      <4> QED  BY <3>2, <4>1
    <3> QED  BY <3>1, <3>2
  <2>2. ASSUME NEW i \in 1 .. Len(after)  PROVE after[i] = limits[n + i] /\ n + i \in DOMAIN limits
    <3>1. i \in 1 .. Len(limits) - (n + 1) + 1 /\ n + 1 + i - 1 = n + i /\ n + i \in 1 .. Len(limits)
      BY <1>1, <2>1, SuffixIndex, Zenon
    <3>2. after[i] = limits[n + 1 + i - 1]
      BY <3>1, Zenon
    <3> QED  BY <1>1, <3>1, <3>2, Zenon
  <2> QED  BY <2>1, <2>2
<1>7. DOMAIN after = 1 .. Len(after)
  OBVIOUS
<1>8. ASSUME NEW i \in DOMAIN after, NEW j \in DOMAIN after, i <= j  PROVE after[i].old >= after[j].old
  <2>1. n + i <= n + j
    BY <1>7, <1>8
  <2>2. limits[n + i].old >= limits[n + j].old
    BY <1>6, <1>7, <2>1 DEF InOrderOfAge
  <2> QED  BY <1>6, <1>7, <2>2
<1>9. limits # << >> => Len(after) > 0 /\ Len(after) \in 1 .. Len(after) /\ n + Len(after) = Len(limits)
  <2>0. Len(after) = Len(limits) - n
    BY <1>6
  <2>1. n < Len(limits) => Len(after) > 0 /\ Len(after) \in 1 .. Len(after) /\ n + Len(after) = Len(limits)
    BY <1>1, <2>0, SuffixLast, Zenon
  <2>2. limits # << >> => n < Len(limits)
    OBVIOUS
  <2> QED  BY <2>1, <2>2, Zenon
<1>10. limits # << >> => after # << >> /\ after[Len(after)] = limits[Len(limits)]
  <2>1. after = << >> => Len(after) = 0
    BY EmptySeq
  <2>2. \A a \in Nat : a > 0 => a # 0
    OBVIOUS
  <2>3. limits # << >> => after # << >>
    BY <1>1, <1>9, <2>1, <2>2, Zenon
  <2>4. limits # << >> => after[Len(after)] = limits[Len(limits)]
    BY <1>6, <1>9, Zenon
  <2> QED  BY <2>3, <2>4
<1>11. Len(after) <= MaxRows
  <2>1. Len(after) <= Len(limits)
    BY <1>1, <1>6, SuffixIndex, Zenon
  <2>2. \A a, b, c \in Nat : a <= b /\ b <= c => a <= c
    OBVIOUS
  <2> QED  BY <1>1, <2>1, <2>2, Zenon DEF InOrderOfAge, Bounds
<1> QED  BY <1>6, <1>8, <1>10, <1>11 DEF InOrderOfAge

\* DropLimits leaves rows in order and the newest value.
LEMMA DroppedSound ==
  ASSUME Bounds, NEW limits, InOrderOfAge(limits), NEW after,
         after = SubSeq(limits, Cardinality(Spent(limits)) + 1, Len(limits))
  PROVE  /\ InOrderOfAge(after) /\ (limits # << >> => after # << >>)
         /\ limits # << >> => after[Len(after)].value = limits[Len(limits)].value
         /\ Cardinality(Spent(limits)) \in Nat /\ Len(limits) \in Nat
         /\ Len(after) = Len(limits) - Cardinality(Spent(limits))
<1>1. limits \in Seq(LimitRow) /\ Len(limits) \in Nat /\ DOMAIN limits = 1 .. Len(limits)
  BY DEF InOrderOfAge
<1>2. PICK n : n = Cardinality(Spent(limits))
  OBVIOUS
<1>3. n \in Nat /\ (limits = << >> => n = 0) /\ (limits # << >> => n < Len(limits))
  BY <1>1, <1>2, SpentType
<1>5. /\ after \in Seq(LimitRow) /\ Len(after) = IF n + 1 <= Len(limits) THEN Len(limits) - (n + 1) + 1 ELSE 0
      /\ \A i \in 1 .. Len(limits) - (n + 1) + 1 : after[i] = limits[n + 1 + i - 1]
  <2>1. \A i \in n + 1 .. Len(limits) : limits[i] \in LimitRow
    BY <1>1, <1>3
  <2>2. n + 1 \in Int /\ Len(limits) \in Int
    BY <1>1, <1>3
  <2> QED  BY <1>2, <2>1, <2>2, SubSeqProperties
<1>6. /\ InOrderOfAge(after) /\ (limits # << >> => after # << >>) /\ Len(after) = Len(limits) - n
      /\ limits # << >> => after[Len(after)].value = limits[Len(limits)].value
  BY <1>3, <1>5, SuffixSound
<1> QED  BY <1>1, <1>2, <1>3, <1>6, Zenon

-----------------------------------------------------------------------------
(* The archive: the invariant in parts                                     *)

RunsType == db.runs \in [Runs -> {"none", "open", "over"}] /\ db.aruns \in [Runs -> 0 .. MaxSaid]
EventsType == db.events \subseteq Events /\ db.search \subseteq Events /\ db.aevents \in [Events -> 0 .. 1]
Shape == db = [runs |-> db.runs, events |-> db.events, search |-> db.search, aruns |-> db.aruns,
               aevents |-> db.aevents, limits |-> db.limits, alimits |-> db.alimits]
RestType ==
  /\ old \in [Runs -> 0 .. Retention + 1] /\ said \in [Runs -> 0 .. MaxSaid]
  /\ conf \in Values \cup {Unset} /\ seen \in Values \cup {Unset} /\ quiet \in BOOLEAN /\ lives \in 1 .. MaxLives
  /\ drawn \in 0 .. MaxRows

ArchiveIInv ==
  /\ Shape /\ RunsType /\ EventsType /\ RestType /\ InOrderOfAge(db.limits)
  /\ db.alimits \in 0 .. MaxRows /\ LimitsKept
  /\ NothingThrownAway /\ NoDeadHits /\ LimitIsKnown /\ NothingMadeUp

\* The invariant of the proofs is ArchiveInv, with the type taken apart.
LEMMA IInvIsArchiveInv == ArchiveIInv <=> ArchiveInv
<1>1. db \in Record <=> Shape /\ RunsType /\ EventsType /\ db.limits \in Seq(LimitRow) /\ db.alimits \in 0 .. MaxRows
  BY DEF Record, Shape, RunsType, EventsType
<1> QED  BY <1>1 DEF ArchiveIInv, ArchiveInv, ArchiveTypeOK, RestType, InOrderOfAge, OldestFirst

\* The event that is said next.
LEMMA StoreKeeps ==
  ASSUME Bounds, ArchiveIInv, NEW r \in Runs, Store(r)
  PROVE  ArchiveIInv'
<1> USE DEF ArchiveIInv
<1>0. PICK n : n = said[r] + 1
  OBVIOUS
<1>1. said[r] \in Nat /\ n \in 1 .. MaxSaid /\ n > said[r] /\ said' = [said EXCEPT ![r] = n]
  BY <1>0 DEF Store, RestType, Bounds
<1>2. said'[r] = n /\ said' \in [Runs -> 0 .. MaxSaid] /\ \A q \in Runs : q # r => said'[q] = said[q]
  BY <1>1 DEF RestType
<1>3. PICK e : e = <<r, n>>
  OBVIOUS
<1>4. e \in Events /\ e[1] = r /\ e[2] = n
  BY <1>1, <1>3 DEF Events
<1>5. db' = [db EXCEPT !.events = @ \cup {e}, !.search = @ \cup {e}, !.runs[r] = IF @ = "none" THEN "open" ELSE @]
  BY <1>2, <1>3 DEF Store
<1>6. /\ db'.events = db.events \cup {e} /\ db'.search = db.search \cup {e}
      /\ db'.runs = [db.runs EXCEPT ![r] = IF @ = "none" THEN "open" ELSE @]
      /\ db'.aruns = db.aruns /\ db'.aevents = db.aevents /\ db'.limits = db.limits
      /\ db'.alimits = db.alimits /\ Shape'
  BY <1>5 DEF Shape
<1>7. RunsType' /\ EventsType' /\ RestType' /\ InOrderOfAge(db.limits)' /\ LimitIsKnown'
  BY <1>2, <1>4, <1>6 DEF Store, RunsType, EventsType, RestType, InOrderOfAge, LimitIsKnown, Newest
<1>71. db'.alimits \in 0 .. MaxRows /\ LimitsKept'
  BY <1>6 DEF Store, LimitsKept
<1>8. db'.runs[r] # "none" /\ \A q \in Runs : q # r => db'.runs[q] = db.runs[q]
  BY <1>6 DEF RunsType
<1>9. NoDeadHits'
  <2>1. \A x \in db.events : x[1] \in Runs
    BY DEF EventsType, Events
  <2> QED  BY <1>4, <1>6, <1>8, <2>1 DEF NoDeadHits
<1>10. e \notin db.events /\ db.aevents[e] = 0
  BY <1>1, <1>4 DEF NothingMadeUp
<1>11. \A x \in Events : x # e /\ x[2] <= said'[x[1]] => x[2] <= said[x[1]]
  <2>1. ASSUME NEW x \in Events, x # e, x[2] <= said'[x[1]]  PROVE x[2] <= said[x[1]]
    <3>1. x[1] \in Runs /\ x[2] \in 1 .. MaxSaid /\ x = <<x[1], x[2]>>
      BY DEF Events
    <3>2. CASE x[1] = r
      BY <1>0, <1>1, <1>2, <1>3, <2>1, <3>1, <3>2
    <3>3. CASE x[1] # r
      BY <1>2, <2>1, <3>1, <3>3
    <3> QED  BY <3>2, <3>3
  <2> QED  BY <2>1
<1>12. NothingThrownAway'
  BY <1>6, <1>10, <1>11 DEF NothingThrownAway
<1>13. NothingMadeUp'
  <2>1. ASSUME NEW x \in Events, x[2] > said'[x[1]]  PROVE x \notin db'.events /\ db'.aevents[x] = 0
    <3>1. x[1] \in Runs /\ x[2] \in 1 .. MaxSaid
      BY DEF Events
    <3>2. x # e /\ x[2] > said[x[1]]
      BY <1>1, <1>2, <1>4, <2>1, <3>1 DEF RestType, Bounds
    <3> QED  BY <1>6, <3>2 DEF NothingMadeUp
  <2>2. ASSUME NEW q \in Runs  PROVE db'.aruns[q] + (IF db'.runs[q] = "none" THEN 0 ELSE 1) <= said'[q]
    <3>1. db.aruns[q] + (IF db.runs[q] = "none" THEN 0 ELSE 1) <= said[q] /\ db.aruns[q] \in Nat /\ said[q] \in Nat
      BY DEF NothingMadeUp, RunsType, RestType, Bounds
    <3> QED  BY <1>0, <1>2, <1>6, <1>8, <3>1
  <2> QED  BY <2>1, <2>2 DEF NothingMadeUp
<1> QED  BY <1>6, <1>7, <1>71, <1>9, <1>12, <1>13

\* A step that leaves the events, and which runs there are, alone.
LEMMA EventsKeep ==
  ASSUME ArchiveIInv, db'.events = db.events, db'.search = db.search, db'.aruns = db.aruns, db'.aevents = db.aevents,
         \A r \in Runs : db'.runs[r] = "none" <=> db.runs[r] = "none", said' = said
  PROVE  EventsType' /\ NothingThrownAway' /\ NoDeadHits' /\ NothingMadeUp'
<1> USE DEF ArchiveIInv
<1>1. EventsType' /\ NothingThrownAway'
  BY DEF EventsType, NothingThrownAway
<1>2. NoDeadHits'
  BY DEF NoDeadHits, EventsType, Events
<1>3. NothingMadeUp'
  BY DEF NothingMadeUp
<1> QED  BY <1>1, <1>2, <1>3

\* A run ends.
LEMMA EndsKeeps ==
  ASSUME Bounds, ArchiveIInv, NEW r \in Runs, Ends(r)
  PROVE  ArchiveIInv'
<1> USE DEF ArchiveIInv
<1>1. db' = [db EXCEPT !.runs[r] = "over"] /\ old' = [old EXCEPT ![r] = 0]
  BY DEF Ends
<1>2. /\ db'.runs = [db.runs EXCEPT ![r] = "over"] /\ db'.events = db.events /\ db'.search = db.search
      /\ db'.aruns = db.aruns /\ db'.aevents = db.aevents /\ db'.limits = db.limits
      /\ db'.alimits = db.alimits /\ Shape'
  BY <1>1 DEF Shape
<1>3. \A q \in Runs : db'.runs[q] = "none" <=> db.runs[q] = "none"
  BY <1>2 DEF Ends, RunsType
<1>4. RunsType' /\ InOrderOfAge(db.limits)'
  BY <1>2 DEF RunsType, InOrderOfAge
<1>5. RestType' /\ LimitIsKnown'
  BY <1>1, <1>2 DEF Ends, RestType, LimitIsKnown, Newest, Bounds
<1>6. said' = said /\ db'.alimits \in 0 .. MaxRows /\ LimitsKept'
  BY <1>2 DEF Ends, LimitsKept
<1> QED  BY <1>2, <1>3, <1>4, <1>5, <1>6, EventsKeep

\* A value that is new is recorded.
LEMMA recordLimitsKeeps ==
  ASSUME Bounds, ArchiveIInv, recordLimits
  PROVE  ArchiveIInv'
<1> USE DEF ArchiveIInv
<1>0. PICK after : after = Append(db.limits, [value |-> conf, old |-> 0])
  OBVIOUS
<1>1. db' = [db EXCEPT !.limits = after] /\ conf \in Values /\ Len(db.limits) < MaxRows
      /\ drawn' \in 0 .. MaxRows
  <2>1. Len(db.limits) \in Nat /\ db.alimits \in Nat /\ drawn \in Nat /\ drawn < MaxRows /\ MaxRows \in Nat
    BY DEF recordLimits, RestType, InOrderOfAge, Bounds
  <2>2. Len(db.limits) < MaxRows /\ drawn + 1 \in 0 .. MaxRows
    BY <2>1 DEF LimitsKept
  <2> QED  BY <1>0, <2>2 DEF recordLimits, RestType
<1>2. /\ db'.runs = db.runs /\ db'.events = db.events /\ db'.search = db.search
      /\ db'.aruns = db.aruns /\ db'.aevents = db.aevents /\ db'.limits = after /\ db'.alimits = db.alimits /\ Shape'
  BY <1>1 DEF Shape
<1>3. InOrderOfAge(after) /\ after # << >> /\ after[Len(after)].value = conf
  BY <1>0, <1>1, AppendSound, ZenonT(60)
<1>4. InOrderOfAge(db.limits)' /\ LimitIsKnown'
  BY <1>2, <1>3 DEF LimitIsKnown, Newest, recordLimits, InOrderOfAge
<1>5. RestType' /\ RunsType' /\ said' = said
  BY <1>1, <1>2 DEF recordLimits, RestType, RunsType
<1>6. db'.alimits \in 0 .. MaxRows /\ LimitsKept'
  <2>1. Len(after) = Len(db.limits) + 1 /\ Len(db.limits) \in Nat /\ drawn' = drawn + 1
    BY <1>0 DEF InOrderOfAge, recordLimits
  <2>2. db.alimits \in Nat /\ drawn \in Nat
    BY DEF RestType, Bounds
  <2> QED  BY <1>2, <2>1, <2>2 DEF LimitsKept
<1> QED  BY <1>2, <1>4, <1>5, <1>6, EventsKeep

\* A day passes.
LEMMA ElapseKeeps ==
  ASSUME Bounds, ArchiveIInv, ArchiveElapse
  PROVE  ArchiveIInv'
<1> USE DEF ArchiveIInv
<1>0. PICK after : after = [i \in DOMAIN db.limits |-> Aged(db.limits[i])]
  OBVIOUS
<1>1. db' = [db EXCEPT !.limits = after]
  BY <1>0, Zenon DEF ArchiveElapse
<1>2. /\ db'.runs = db.runs /\ db'.events = db.events /\ db'.search = db.search
      /\ db'.aruns = db.aruns /\ db'.aevents = db.aevents /\ db'.limits = after /\ db'.alimits = db.alimits /\ Shape'
  BY <1>1 DEF Shape
<1>3. /\ InOrderOfAge(after) /\ Len(after) = Len(db.limits) /\ (db.limits # << >> => after # << >>)
      /\ db.limits # << >> => after[Len(after)].value = db.limits[Len(db.limits)].value
  BY <1>0, AgedSound
<1>4. InOrderOfAge(db.limits)' /\ LimitIsKnown'
  BY <1>2, <1>3 DEF LimitIsKnown, Newest, ArchiveElapse, InOrderOfAge
<1>5. old' \in [Runs -> 0 .. Retention + 1]
  <2>1. \A r \in Runs : Age(old[r]) \in 0 .. Retention + 1 /\ old[r] \in 0 .. Retention + 1
    BY AgeType DEF RestType
  <2>2. old' = [r \in Runs |-> IF db.runs[r] = "over" THEN Age(old[r]) ELSE old[r]]
    BY DEF ArchiveElapse
  <2> HIDE DEF Age
  <2> QED  BY <2>1, <2>2
<1>6. RestType' /\ RunsType' /\ said' = said
  BY <1>2, <1>5 DEF ArchiveElapse, RestType, RunsType
<1>7. db'.alimits \in 0 .. MaxRows /\ LimitsKept'
  BY <1>2, <1>3 DEF ArchiveElapse, LimitsKept
<1> QED  BY <1>2, <1>4, <1>6, <1>7, EventsKeep

\* What touches neither the record nor what was said of it.
LEMMA RecordStays ==
  ASSUME ArchiveIInv, UNCHANGED <<db, said, drawn>>, RestType', seen' \in {seen, Unset}
  PROVE  ArchiveIInv'
<1> USE DEF ArchiveIInv
<1>1. EventsType' /\ NothingThrownAway' /\ NoDeadHits' /\ NothingMadeUp'
  BY EventsKeep
<1>2. Shape' /\ RunsType' /\ InOrderOfAge(db.limits)'
  BY DEF Shape, RunsType, InOrderOfAge
<1>3. LimitIsKnown'
  BY DEF LimitIsKnown, Newest
<1>4. db'.alimits \in 0 .. MaxRows /\ LimitsKept'
  BY DEF LimitsKept
<1> QED  BY <1>1, <1>2, <1>3, <1>4

\* Somebody edits the configuration.
LEMMA EditKeeps ==
  ASSUME ArchiveIInv, NEW value \in Values \cup {Unset}, Edit(value)
  PROVE  ArchiveIInv'
<1>1. RestType'
  BY DEF Edit, ArchiveIInv, RestType
<1> QED  BY <1>1, RecordStays DEF Edit

\* The process starts again, and forgets what it had recorded.
LEMMA RestartKeeps ==
  ASSUME Bounds, ArchiveIInv, ArchiveRestart
  PROVE  ArchiveIInv'
<1>1. RestType'
  <2>1. quiet' \in BOOLEAN
    BY DEF ArchiveRestart
  <2>2. lives' \in 1 .. MaxLives /\ seen' = Unset /\ UNCHANGED <<old, said, conf, drawn>>
    BY DEF ArchiveRestart, ArchiveIInv, RestType, Bounds
  <2>3. seen' \in Values \cup {Unset}
    BY <2>2
  <2> QED  BY <2>1, <2>2, <2>3, Zenon DEF ArchiveIInv, RestType
<1> QED  BY <1>1, RecordStays DEF ArchiveRestart

\* archive looks whether a run is open.
LEMMA archiveLooksKeeps ==
  ASSUME ArchiveIInv, archiveLooks
  PROVE  ArchiveIInv'
<1>1. RestType'
  <2>1. quiet' \in BOOLEAN
    BY DEF archiveLooks
  <2>2. old' = old /\ said' = said /\ conf' = conf /\ seen' = seen /\ drawn' = drawn /\ lives' = lives
    BY DEF archiveLooks
  <2> QED  BY <2>1, <2>2, Zenon DEF ArchiveIInv, RestType
<1> QED  BY <1>1, RecordStays DEF archiveLooks

\* What all statements together leave.
LEMMA MovedIs ==
  ASSUME ArchiveIInv, NEW d, d = Moved(7)
  PROVE  /\ d = [runs |-> d.runs, events |-> d.events, search |-> d.search, aruns |-> d.aruns,
                 aevents |-> d.aevents, limits |-> d.limits, alimits |-> d.alimits]
         /\ d.runs = [r \in Runs |-> IF r \in Due(db) THEN "none" ELSE db.runs[r]]
         /\ d.aruns = [r \in Runs |-> db.aruns[r] + (IF r \in Due(db) THEN 1 ELSE 0)]
         /\ d.events = db.events \ Of(db) /\ d.search = db.search \ Of(db)
         /\ d.aevents = [e \in Events |-> db.aevents[e] + (IF e \in Of(db) THEN 1 ELSE 0)]
         /\ d.limits = SubSeq(db.limits, Cardinality(Spent(db.limits)) + 1, Len(db.limits))
         /\ d.alimits = db.alimits + Cardinality(Spent(db.limits))
<1> DEFINE Whole(x) == x = [runs |-> x.runs, events |-> x.events, search |-> x.search, aruns |-> x.aruns,
                            aevents |-> x.aevents, limits |-> x.limits, alimits |-> x.alimits]
<1>0. Whole(db)
  BY DEF ArchiveIInv, Shape
<1>1. PICK one : one = KeepRuns(db)
  OBVIOUS
<1>2. PICK two : two = KeepEvents(one)
  OBVIOUS
<1>3. PICK three : three = ForgetWords(two)
  OBVIOUS
<1>4. PICK four : four = DropEvents(three)
  OBVIOUS
<1>5. PICK five : five = KeepLimits(four)
  OBVIOUS
<1>6. PICK six : six = DropLimits(five)
  OBVIOUS
<1>7. PICK seven : seven = DropRuns(six)
  OBVIOUS
<1>8. d = seven
  BY <1>1, <1>2, <1>3, <1>4, <1>5, <1>6, <1>7 DEF Moved
<1>11. /\ Whole(one) /\ one.runs = db.runs /\ one.events = db.events /\ one.search = db.search
       /\ one.aevents = db.aevents /\ one.limits = db.limits /\ one.alimits = db.alimits
       /\ one.aruns = [r \in Runs |-> db.aruns[r] + (IF r \in Due(db) THEN 1 ELSE 0)]
  BY <1>0, <1>1 DEF KeepRuns
<1>12. /\ Whole(two) /\ two.runs = db.runs /\ two.events = db.events /\ two.search = db.search
       /\ two.aruns = one.aruns /\ two.limits = db.limits /\ two.alimits = db.alimits
       /\ two.aevents = [e \in Events |-> db.aevents[e] + (IF e \in Of(db) THEN 1 ELSE 0)]
  <2>1. Of(one) = Of(db)
    BY <1>11 DEF Of, Due
  <2> QED  BY <1>2, <1>11, <2>1 DEF KeepEvents
<1>13. /\ Whole(three) /\ three.runs = db.runs /\ three.events = db.events /\ three.search = db.search \ Of(db)
       /\ three.aruns = one.aruns /\ three.limits = db.limits /\ three.aevents = two.aevents
       /\ three.alimits = db.alimits
  <2>1. Of(two) = Of(db)
    BY <1>12 DEF Of, Due
  <2> QED  BY <1>3, <1>12, <2>1 DEF ForgetWords
<1>14. /\ Whole(four) /\ four.runs = db.runs /\ four.events = db.events \ Of(db) /\ four.search = three.search
       /\ four.aruns = one.aruns /\ four.limits = db.limits /\ four.aevents = two.aevents
       /\ four.alimits = db.alimits
  <2>1. Of(three) = Of(db)
    BY <1>13 DEF Of, Due
  <2> QED  BY <1>4, <1>13, <2>1 DEF DropEvents
<1>15. /\ Whole(five) /\ five.runs = db.runs /\ five.events = four.events /\ five.search = three.search
       /\ five.aruns = one.aruns /\ five.aevents = two.aevents /\ five.limits = db.limits
       /\ five.alimits = db.alimits + Cardinality(Spent(db.limits))
  BY <1>5, <1>14 DEF KeepLimits
<1>16. /\ Whole(six) /\ six.runs = db.runs /\ six.events = four.events /\ six.search = three.search
       /\ six.aruns = one.aruns /\ six.aevents = two.aevents /\ six.alimits = five.alimits
       /\ six.limits = SubSeq(db.limits, Cardinality(Spent(db.limits)) + 1, Len(db.limits))
  <2> DEFINE rest == SubSeq(db.limits, Cardinality(Spent(db.limits)) + 1, Len(db.limits))
  <2>1. six = [five EXCEPT !.limits = rest]
    BY <1>6, <1>15 DEF DropLimits
  <2> HIDE DEF rest
  <2>2. Whole(six) /\ six.runs = db.runs /\ six.events = four.events /\ six.search = three.search
        /\ six.aruns = one.aruns /\ six.aevents = two.aevents /\ six.alimits = five.alimits /\ six.limits = rest
    BY <1>15, <2>1
  <2> QED  BY <2>2 DEF rest
<1>17. /\ Whole(seven) /\ seven.events = four.events /\ seven.search = three.search
       /\ seven.aruns = one.aruns /\ seven.aevents = two.aevents /\ seven.limits = six.limits
       /\ seven.alimits = five.alimits
       /\ seven.runs = [r \in Runs |-> IF r \in Due(db) THEN "none" ELSE db.runs[r]]
  <2>1. Due(six) = Due(db)
    BY <1>16 DEF Due
  <2> HIDE DEF Due
  <2> QED  BY <1>7, <1>16, <2>1 DEF DropRuns
<1> QED  BY <1>8, <1>11, <1>12, <1>13, <1>14, <1>15, <1>16, <1>17, Zenon

\* Everything of the runs that are due is moved, or nothing is.
LEMMA archiveKeeps ==
  ASSUME Bounds, ArchiveIInv, NEW n \in Statements, archive(n)
  PROVE  ArchiveIInv'
<1> USE DEF ArchiveIInv
<1>0. RestType' /\ UNCHANGED <<old, said, conf, seen, drawn>>
  BY DEF archive, RestType
<1>1. CASE db' = db
  BY <1>0, <1>1, RecordStays
<1>2. ASSUME db' = Moved(7)  PROVE ArchiveIInv'
  <2>1. /\ Shape'
        /\ db'.runs = [r \in Runs |-> IF r \in Due(db) THEN "none" ELSE db.runs[r]]
        /\ db'.aruns = [r \in Runs |-> db.aruns[r] + (IF r \in Due(db) THEN 1 ELSE 0)]
        /\ db'.events = db.events \ Of(db) /\ db'.search = db.search \ Of(db)
        /\ db'.aevents = [e \in Events |-> db.aevents[e] + (IF e \in Of(db) THEN 1 ELSE 0)]
        /\ db'.limits = SubSeq(db.limits, Cardinality(Spent(db.limits)) + 1, Len(db.limits))
        /\ db'.alimits = db.alimits + Cardinality(Spent(db.limits))
    BY <1>2, MovedIs DEF Shape
  <2>12. db'.alimits \in 0 .. MaxRows /\ LimitsKept'
    <3>1. /\ Cardinality(Spent(db.limits)) \in Nat /\ Len(db.limits) \in Nat
          /\ Len(db'.limits) = Len(db.limits) - Cardinality(Spent(db.limits)) /\ InOrderOfAge(db'.limits)
      BY <2>1, DroppedSound, Zenon
    <3>2. db.alimits \in Nat /\ drawn \in 0 .. MaxRows /\ drawn' = drawn /\ MaxRows \in Nat /\ Len(db'.limits) \in Nat
      BY <1>0, <3>1 DEF RestType, Bounds, InOrderOfAge
    <3> HIDE DEF Spent
    <3>3. db'.alimits + Len(db'.limits) = drawn
      BY <2>1, <3>1, <3>2 DEF LimitsKept
    <3>4. db'.alimits \in Nat
      BY <2>1, <3>1, <3>2
    <3> QED  BY <3>2, <3>3, <3>4 DEF LimitsKept
  <2>2. InOrderOfAge(db.limits)' /\ LimitIsKnown'
    <3>1. /\ InOrderOfAge(db'.limits) /\ (db.limits # << >> => db'.limits # << >>)
          /\ db.limits # << >> => db'.limits[Len(db'.limits)].value = db.limits[Len(db.limits)].value
      BY <2>1, DroppedSound
    <3> QED  BY <1>0, <3>1 DEF LimitIsKnown, Newest, InOrderOfAge
  <2>3. \A r \in Due(db) : r \in Runs /\ db.runs[r] = "over"
    BY DEF Due
  <2>4. \A e \in Of(db) : e \in db.events /\ e[1] \in Due(db)
    BY DEF Of
  <2>5. \A e \in db.events : e \in Events /\ e[1] \in Runs /\ (e[1] \in Due(db) => e \in Of(db))
    BY DEF Of, EventsType, Events
  <2> HIDE DEF Due, Of
  <2>6. NoDeadHits'
    BY <2>1, <2>5 DEF NoDeadHits
  <2>7. \A e \in Events : e \in Of(db) => db.aevents[e] = 0
    <3>1. \A e \in db.events : e[2] <= said[e[1]]
      BY <2>5 DEF NothingMadeUp, RestType, Events, Bounds
    <3> QED  BY <2>4, <3>1 DEF NothingThrownAway
  <2>8. EventsType'
    <3>1. \A e \in Events : db.aevents[e] + (IF e \in Of(db) THEN 1 ELSE 0) \in 0 .. 1
      BY <2>7 DEF EventsType
    <3> QED  BY <2>1, <3>1 DEF EventsType
  <2>9. NothingThrownAway'
    BY <1>0, <2>1, <2>4, <2>7 DEF NothingThrownAway, EventsType
  <2>10. NothingMadeUp'
    <3>1. ASSUME NEW e \in Events, e[2] > said'[e[1]]  PROVE e \notin db'.events /\ db'.aevents[e] = 0
      BY <1>0, <2>1, <2>4, <3>1 DEF NothingMadeUp
    <3>2. ASSUME NEW r \in Runs  PROVE db'.aruns[r] + (IF db'.runs[r] = "none" THEN 0 ELSE 1) <= said'[r]
      <4>1. db.aruns[r] + (IF db.runs[r] = "none" THEN 0 ELSE 1) <= said[r] /\ db.aruns[r] \in Nat
        BY DEF NothingMadeUp, RunsType
      <4> QED  BY <1>0, <2>1, <2>3, <4>1
    <3> QED  BY <3>1, <3>2 DEF NothingMadeUp
  <2>11. RunsType'
    <3>1. \A r \in Runs : db'.aruns[r] \in Nat /\ db'.aruns[r] <= said'[r] /\ said'[r] <= MaxSaid
      BY <1>0, <2>1, <2>10 DEF NothingMadeUp, RunsType, RestType, Bounds
    <3>2. \A r \in Runs : db'.aruns[r] \in 0 .. MaxSaid
      BY <1>0, <3>1 DEF RestType, Bounds
    <3> QED  BY <2>1, <3>2 DEF RunsType
  <2> QED  BY <1>0, <2>1, <2>2, <2>6, <2>8, <2>9, <2>10, <2>11, <2>12
<1> QED  BY <1>1, <1>2 DEF archive, RolledBack

-----------------------------------------------------------------------------
\* At first there is nothing to keep.
LEMMA ArchiveInitHolds ==
  ASSUME Bounds, ArchiveInit
  PROVE  ArchiveIInv
<1>1. /\ db.runs = [r \in Runs |-> "none"] /\ db.events = {} /\ db.search = {} /\ db.aruns = [r \in Runs |-> 0]
      /\ db.aevents = [e \in Events |-> 0] /\ db.limits = << >> /\ db.alimits = 0 /\ Shape
  BY DEF ArchiveInit, Shape
<1>2. RunsType /\ EventsType
  BY <1>1 DEF RunsType, EventsType, Bounds
<1>7. RestType
  <2>1. quiet \in BOOLEAN
    BY DEF ArchiveInit
  <2>2. old \in [Runs -> 0 .. Retention + 1] /\ said \in [Runs -> 0 .. MaxSaid] /\ lives \in 1 .. MaxLives
        /\ drawn \in 0 .. MaxRows
    BY DEF ArchiveInit, Bounds
  <2>3. conf \in Values \cup {Unset} /\ seen \in Values \cup {Unset}
    BY DEF ArchiveInit
  <2> QED  BY <2>1, <2>2, <2>3, Zenon DEF RestType
<1>3. InOrderOfAge(db.limits)
  BY <1>1, EmptySeq DEF InOrderOfAge, Bounds
<1>4. LimitIsKnown /\ NoDeadHits
  BY <1>1 DEF ArchiveInit, LimitIsKnown, NoDeadHits
<1>5. NothingThrownAway
  BY <1>1 DEF ArchiveInit, NothingThrownAway, Events
<1>6. NothingMadeUp
  BY <1>1 DEF ArchiveInit, NothingMadeUp
<1>8. db.alimits \in 0 .. MaxRows /\ LimitsKept
  BY <1>1, EmptySeq DEF ArchiveInit, LimitsKept, Bounds
<1> QED  BY <1>1, <1>2, <1>3, <1>4, <1>5, <1>6, <1>7, <1>8 DEF ArchiveIInv

\* Every step keeps the invariant.
LEMMA ArchiveStepKeeps ==
  ASSUME Bounds, ArchiveIInv, [ArchiveNext]_archiveVars
  PROVE  ArchiveIInv'
<1>1. ASSUME NEW r \in Runs, Store(r) \/ Ends(r)  PROVE ArchiveIInv'
  BY <1>1, StoreKeeps, EndsKeeps
<1>2. ASSUME NEW value \in Values \cup {Unset}, Edit(value)  PROVE ArchiveIInv'
  BY <1>2, EditKeeps
<1>3. CASE recordLimits \/ ArchiveElapse \/ ArchiveRestart \/ archiveLooks
  BY <1>3, recordLimitsKeeps, ElapseKeeps, RestartKeeps, archiveLooksKeeps
<1>4. ASSUME NEW n \in Statements, archive(n)  PROVE ArchiveIInv'
  BY <1>4, archiveKeeps
<1>5. CASE UNCHANGED archiveVars
  <2>1. RestType'
    BY <1>5 DEF archiveVars, ArchiveIInv, RestType
  <2> QED  BY <1>5, <2>1, RecordStays DEF archiveVars
<1> QED  BY <1>1, <1>2, <1>3, <1>4, <1>5 DEF ArchiveNext

\* "Nothing is thrown away": wherever archive stops and whatever comes late,
\* each event said is kept once, none of a run without a row, and no hit
\* outlives its event; no row of a limit goes uncopied, and the newest stays.
THEOREM ArchiveKeepsRecord ==
  ASSUME Bounds
  PROVE  ArchiveSpec => []ArchiveInv
<1>1. ArchiveInit => ArchiveIInv
  BY ArchiveInitHolds
<1>2. ArchiveIInv /\ [ArchiveNext]_archiveVars => ArchiveIInv'
  BY ArchiveStepKeeps
<1>3. ArchiveIInv => ArchiveInv
  BY IInvIsArchiveInv
<1> QED  BY <1>1, <1>2, <1>3, PTL DEF ArchiveSpec

-----------------------------------------------------------------------------
(* The evidence store: the invariant in parts                              *)

StoreType ==
  /\ bucket \in [Keys -> Nat] /\ rows \in [Proofs -> [id : Nat, key : Keys \cup {<< >>}, version : Nat]]
  /\ lock \in [Keys -> Posts \cup {Free}] /\ lives \in 1 .. MaxLives
PostOk(n) ==
  /\ n \in Post /\ (n.up = {}) = (n.at = "unsent") /\ (\A u, v \in n.up : u = v)
  /\ n.answer # 0 => n.at = "answered"
PostType == post \in [Posts -> Post] /\ \A i \in Posts : PostOk(post[i])

\* What was answered 201 has its row.
AnsweredIsIndexed == \A i \in Posts : post[i].answer = 201 => Proof(Up(i)) \in Indexed

EvidenceIInv ==
  /\ StoreType /\ PostType
  /\ OneVersion /\ LocksHeld /\ PutOnce /\ StoredIsThere /\ RowsAreTrue /\ RowsNumbered /\ AnsweredIsIndexed

\* The type, taken apart by what is stored and who sends.
LEMMA TypeParts == EvidenceTypeOK <=> StoreType /\ PostType
BY DEF EvidenceTypeOK, StoreType, PostType, PostOk

\* A request that was sent has one upload.
LEMMA Sent ==
  ASSUME PostType, NEW i \in Posts, post[i].at # "unsent"
  PROVE  /\ Up(i) \in Uploads /\ post[i].up = {Up(i)}
         /\ Key(i) \in Keys /\ Proof(Up(i)) \in Proofs /\ Key(i)[2] = Proof(Up(i)).sum
<1>1. post[i].up # {} /\ post[i].up \subseteq Uploads /\ \A u, v \in post[i].up : u = v
  BY DEF PostType, PostOk, Post
<1>2. Up(i) \in post[i].up
  BY <1>1 DEF Up
<1>3. post[i].up = {Up(i)} /\ Up(i) \in Uploads
  BY <1>1, <1>2
<1> QED  BY <1>3 DEF Key, Keys, Proofs, Proof, evidenceKey

\* A step of one request; the uploads of the others are what they were.
LEMMA PostWritten ==
  ASSUME PostType, NEW i \in Posts, NEW n, PostOk(n), post' = [post EXCEPT ![i] = n]
  PROVE  /\ PostType' /\ \A j \in Posts : post'[j] = IF j = i THEN n ELSE post[j]
         /\ \A j \in Posts : j # i => Up(j)' = Up(j) /\ Key(j)' = Key(j)
         /\ n.up = post[i].up => Up(i)' = Up(i) /\ Key(i)' = Key(i)
<1>1. \A j \in Posts : post'[j] = IF j = i THEN n ELSE post[j]
  BY DEF PostType
<1>2. PostType'
  BY <1>1 DEF PostType, PostOk
<1>3. \A j \in Posts : post'[j].up = post[j].up => Up(j)' = Up(j)
  BY DEF Up
<1>4. \A j \in Posts : Up(j)' = Up(j) => Key(j)' = Key(j)
  BY DEF Key
<1> QED  BY <1>1, <1>2, <1>3, <1>4

\* Its fields, written one after another.
LEMMA AtWritten ==
  ASSUME PostType, NEW i \in Posts, post[i].at # "unsent", NEW at \in PostSteps \ {"unsent", "answered"}, NEW n,
         post[i].answer = 0, n = [post[i] EXCEPT !.at = at]
  PROVE  PostOk(n) /\ n.at = at /\ n.up = post[i].up /\ n.answer = 0 /\ n.version = post[i].version
<1>1. post[i] \in Post /\ post[i].up # {} /\ (\A u, v \in post[i].up : u = v)
  BY DEF PostType, PostOk
<1>2. n \in Post /\ n.at = at /\ n.up = post[i].up /\ n.answer = 0 /\ n.version = post[i].version
  BY <1>1 DEF Post
<1> QED  BY <1>1, <1>2 DEF PostOk

\* What a handler is once its object is in the bucket.
LEMMA StoredWritten ==
  ASSUME PostType, NEW i \in Posts, post[i].at # "unsent", post[i].answer = 0, NEW version \in Nat, Stored(i, version)
  PROVE  \E n : /\ PostOk(n) /\ post' = [post EXCEPT ![i] = n]
                /\ n.at = "stored" /\ n.up = post[i].up /\ n.answer = 0 /\ n.version = version
<1>1. post[i] \in Post /\ post[i].up # {} /\ (\A u, v \in post[i].up : u = v)
  BY DEF PostType, PostOk
<1>2. post[i].up \in SUBSET Uploads /\ post[i].gone \in BOOLEAN
  BY <1>1 DEF Post
<1> DEFINE n == [at |-> "stored", up |-> post[i].up, version |-> version, gone |-> post[i].gone, answer |-> 0]
<1>3. n \in Post
  <2>1. "stored" \in PostSteps /\ 0 \in {0, 201, 400, 500, 502}
    BY DEF PostSteps
  <2> QED  BY <1>2, <2>1, Zenon DEF Post
<1>4. n = [post[i] EXCEPT !.at = "stored", !.version = version]
  <2> DEFINE m == [post[i] EXCEPT !.at = "stored"]
  <2>1. m = [at |-> "stored", up |-> post[i].up, version |-> post[i].version, gone |-> post[i].gone, answer |-> 0]
    BY <1>1 DEF Post
  <2>2. [post[i] EXCEPT !.at = "stored", !.version = version] = [m EXCEPT !.version = version]
    BY Zenon
  <2> HIDE DEF m
  <2>3. n = [m EXCEPT !.version = version]
    BY <2>1
  <2> QED  BY <2>2, <2>3
<1>5. n.at = "stored" /\ n.up = post[i].up /\ n.answer = 0 /\ n.version = version
  OBVIOUS
<1> HIDE DEF n
<1>6. post' = [post EXCEPT ![i] = n]
  BY <1>4, Zenon DEF Stored
<1> QED  BY <1>1, <1>3, <1>5, <1>6 DEF PostOk

\* The answer of a request, to a client that is there or to nobody.
Codes == {0, 201, 400, 500, 502}
\* What a request is once it is answered.
LEMMA AnswerWritten ==
  ASSUME PostType, NEW i \in Posts, post[i].at # "unsent", NEW c \in Codes,
         post' = [post EXCEPT ![i].at = "answered", ![i].answer = c]
  PROVE  \E n : /\ PostOk(n) /\ post' = [post EXCEPT ![i] = n]
                /\ n.at = "answered" /\ n.up = post[i].up /\ n.answer = c
<1>1. post[i] \in Post /\ post[i].up # {} /\ (\A u, v \in post[i].up : u = v)
  BY DEF PostType, PostOk
<1>2. post[i].up \in SUBSET Uploads /\ post[i].gone \in BOOLEAN /\ post[i].version \in Nat
  BY <1>1 DEF Post
<1> DEFINE n == [at |-> "answered", up |-> post[i].up, version |-> post[i].version, gone |-> post[i].gone, answer |-> c]
<1>5. n \in Post
  <2>1. "answered" \in PostSteps
    BY DEF PostSteps
  <2> QED  BY <1>2, <2>1, ZenonT(60) DEF Post, Codes
<1>6. n = [post[i] EXCEPT !.at = "answered", !.answer = c]
  <2> DEFINE m == [post[i] EXCEPT !.at = "answered"]
  <2>1. m = [at |-> "answered", up |-> post[i].up, version |-> post[i].version, gone |-> post[i].gone, answer |-> post[i].answer]
    BY <1>1 DEF Post
  <2>2. [post[i] EXCEPT !.at = "answered", !.answer = c] = [m EXCEPT !.answer = c]
    BY Zenon
  <2> HIDE DEF m
  <2>3. n = [m EXCEPT !.answer = c]
    BY <2>1
  <2> QED  BY <2>2, <2>3
<1>7. n.at = "answered" /\ n.up = post[i].up /\ n.answer = c
  OBVIOUS
<1> HIDE DEF n
<1>8. post' = [post EXCEPT ![i] = n]
  BY <1>6, Zenon
<1>9. PostOk(n)
  BY <1>1, <1>5, <1>7 DEF PostOk
<1> QED  BY <1>7, <1>8, <1>9

\* A client that hung up hears no answer.
LEMMA AnswerCodes ==
  ASSUME PostType, NEW i \in Posts, post[i].at # "unsent", NEW code \in Codes, Answer(i, code)
  PROVE  \E n : /\ PostOk(n) /\ post' = [post EXCEPT ![i] = n]
                /\ n.at = "answered" /\ n.up = post[i].up /\ n.answer \in {0, code}
<1>1. 0 \in Codes
  BY DEF Codes
<1>2. PICK c \in Codes : c \in {0, code} /\ c = IF post[i].gone THEN 0 ELSE code
  BY <1>1, Zenon
<1>3. post' = [post EXCEPT ![i].at = "answered", ![i].answer = c]
  BY <1>2, Zenon DEF Answer
<1>4. PICK n : /\ PostOk(n) /\ post' = [post EXCEPT ![i] = n]
               /\ n.at = "answered" /\ n.up = post[i].up /\ n.answer = c
  BY <1>3, AnswerWritten, Zenon
<1> QED  BY <1>2, <1>4, Zenon

-----------------------------------------------------------------------------
(* What a step of one request leaves as it was                             *)

Working == {"locked", "putting"}

\* A request that goes on with its key keeps the locks as they are held.
LEMMA LocksKept ==
  ASSUME Numbered, PostType, LocksHeld, NEW i \in Posts, NEW n, PostOk(n), post' = [post EXCEPT ![i] = n],
         n.at \in Working <=> post[i].at \in Working, n.at \in Working => n.up = post[i].up,
         lock \in [Keys -> Posts \cup {Free}], lock' = lock
  PROVE  LocksHeld'
<1>1. \A j \in Posts : post'[j] = (IF j = i THEN n ELSE post[j])
  BY PostWritten, ZenonT(60)
<1>2. \A j \in Posts : post'[j].at \in Working <=> post[j].at \in Working
  BY <1>1
<1>3. \A j \in Posts : post[j].at \in Working => Key(j)' = Key(j)
  BY PostWritten
<1>4. \A k \in Keys : lock[k] # Free => lock[k] \in Posts
  OBVIOUS
<1> QED  BY <1>2, <1>3, <1>4 DEF LocksHeld, Working

\* A request that is through with its key gives the lock back.
LEMMA LockReleased ==
  ASSUME Numbered, PostType, LocksHeld, NEW i \in Posts, NEW n, PostOk(n), post' = [post EXCEPT ![i] = n],
         post[i].at \in Working, n.at \notin Working, n.up = post[i].up,
         lock \in [Keys -> Posts \cup {Free}], lock' = [lock EXCEPT ![Key(i)] = Free]
  PROVE  LocksHeld' /\ lock' \in [Keys -> Posts \cup {Free}]
<1>1. \A j \in Posts : post'[j] = (IF j = i THEN n ELSE post[j])
  BY DEF PostType
<1>2. \A j \in Posts : Key(j)' = Key(j)
  BY PostWritten
<1>3. \A k \in Keys : lock'[k] = (IF k = Key(i) THEN Free ELSE lock[k])
  OBVIOUS
<1>4. \A k \in Keys : lock[k] # Free => lock[k] \in Posts
  OBVIOUS
<1>5. lock[Key(i)] = i
  BY DEF LocksHeld, Working
<1>6. \A j \in Posts : post[j].at \in Working => Key(j) \in Keys
  BY Sent DEF Working
<1>7. \A k \in Keys : lock'[k] # Free => (Key(lock[k]))' = k /\ post'[lock'[k]].at \in Working
  BY <1>1, <1>2, <1>3, <1>4, <1>5 DEF LocksHeld, Working
<1>8. \A j \in Posts : post'[j].at \in Working => lock'[Key(j)'] = j
  BY <1>1, <1>2, <1>3, <1>5, <1>6 DEF LocksHeld, Working
<1> QED  BY <1>7, <1>8 DEF LocksHeld, Working

\* A bucket that only grows still holds what it held.
Grown == bucket' \in [Keys -> Nat] /\ \A k \in Keys : bucket'[k] >= bucket[k]

\* Rows name what is there, whatever is put beside it.
LEMMA RowsStayTrue ==
  ASSUME StoreType, RowsAreTrue, Grown, rows' = rows
  PROVE  RowsAreTrue'
<1>1. ASSUME NEW p \in Indexed
      PROVE  rows[p].key \in Keys /\ rows[p].key[2] = p.sum /\ rows[p].version \in 1 .. bucket'[rows[p].key]
  <2>1. /\ rows[p].key \in Keys /\ rows[p].key[2] = p.sum
        /\ rows[p].version \in 1 .. bucket[rows[p].key]
    BY <1>1 DEF RowsAreTrue
  <2>2. /\ bucket[rows[p].key] \in Nat /\ bucket'[rows[p].key] \in Nat
        /\ bucket'[rows[p].key] >= bucket[rows[p].key]
    BY <2>1 DEF StoreType, Grown
  <2> QED  BY <2>1, <2>2
<1>2. Indexed' = Indexed
  BY DEF Indexed
<1> QED  BY <1>1, <1>2 DEF RowsAreTrue

\* What a handler stored stays there, whatever is put beside it.
LEMMA StoredStays ==
  ASSUME StoreType, PostType, StoredIsThere, Grown, NEW i \in Posts, NEW n, PostOk(n), post' = [post EXCEPT ![i] = n],
         n.at = "stored" => n.up = post[i].up /\ post[i].at # "unsent" /\ n.version \in 1 .. bucket'[Key(i)]
  PROVE  StoredIsThere'
<1>1. \A j \in Posts : post'[j] = (IF j = i THEN n ELSE post[j])
  BY PostWritten, ZenonT(60)
<1>2. (\A j \in Posts : j # i => Key(j)' = Key(j)) /\ (n.up = post[i].up => Key(i)' = Key(i))
  BY PostWritten
<1>3. ASSUME NEW j \in Posts, j # i, post[j].at = "stored"  PROVE post[j].version \in 1 .. bucket'[Key(j)]
  <2>1. post[j].version \in 1 .. bucket[Key(j)] /\ Key(j) \in Keys
    BY <1>3, Sent DEF StoredIsThere
  <2>2. bucket[Key(j)] \in Nat /\ bucket'[Key(j)] \in Nat /\ bucket'[Key(j)] >= bucket[Key(j)]
    BY <2>1 DEF StoreType, Grown
  <2> QED  BY <2>1, <2>2
<1> QED  BY <1>1, <1>2, <1>3 DEF StoredIsThere

\* What was answered 201 keeps its row.
LEMMA AnsweredStays ==
  ASSUME PostType, AnsweredIsIndexed, Indexed \subseteq Indexed', NEW i \in Posts, NEW n, PostOk(n),
         post' = [post EXCEPT ![i] = n],
         n.answer = 201 => n.up = post[i].up /\ Proof(Up(i)) \in Indexed'
  PROVE  AnsweredIsIndexed'
<1>1. \A j \in Posts : post'[j] = (IF j = i THEN n ELSE post[j])
  BY PostWritten
<1>2. (\A j \in Posts : j # i => Up(j)' = Up(j)) /\ (n.up = post[i].up => Up(i)' = Up(i))
  BY PostWritten
<1>3. \A j \in Posts : Up(j)' = Up(j) => Proof(Up(j))' = Proof(Up(j))
  BY DEF Proof
<1> QED  BY <1>1, <1>2, <1>3 DEF AnsweredIsIndexed

\* A step that writes no row.
LEMMA RowsLeftAlone ==
  ASSUME EvidenceIInv, Grown, rows' = rows, NEW i \in Posts, NEW n, PostOk(n), post' = [post EXCEPT ![i] = n],
         n.answer # 201 \/ (n.answer = post[i].answer /\ n.up = post[i].up),
         n.at = "stored" => n.up = post[i].up /\ post[i].at # "unsent" /\ n.version \in 1 .. bucket'[Key(i)]
  PROVE  PostType' /\ StoredIsThere' /\ RowsAreTrue' /\ RowsNumbered' /\ AnsweredIsIndexed'
<1>1. StoreType /\ PostType /\ StoredIsThere /\ RowsAreTrue /\ RowsNumbered /\ AnsweredIsIndexed
  BY DEF EvidenceIInv
<1>2. Indexed' = Indexed
  BY DEF Indexed
<1>3. PostType'
  BY <1>1, PostWritten
<1>4. StoredIsThere'
  BY <1>1, StoredStays
<1>5. RowsAreTrue'
  BY <1>1, RowsStayTrue
<1>6. RowsNumbered'
  BY <1>1, <1>2 DEF RowsNumbered
<1>7. n.answer = 201 => n.up = post[i].up /\ Proof(Up(i)) \in Indexed'
  BY <1>1, <1>2 DEF AnsweredIsIndexed
<1>8. AnsweredIsIndexed'
  BY <1>1, <1>2, <1>7, AnsweredStays
<1> QED  BY <1>3, <1>4, <1>5, <1>6, <1>8

\* What others put is still not there: they hold the locks of their keys.
LEMMA PutOnceStays ==
  ASSUME PostType, LocksHeld, PutOnce, NEW i \in Posts, NEW n, PostOk(n), post' = [post EXCEPT ![i] = n],
         n.at = "putting" => post[i].at # "unsent" /\ n.up = post[i].up /\ bucket'[Key(i)] = 0,
         bucket' = bucket \/ (post[i].at \in Working /\ \A k \in Keys : k # Key(i) => bucket'[k] = bucket[k])
  PROVE  PutOnce'
<1>1. \A j \in Posts : post'[j] = (IF j = i THEN n ELSE post[j])
  BY DEF PostType
<1>2. (\A j \in Posts : j # i => Key(j)' = Key(j)) /\ (n.up = post[i].up => Key(i)' = Key(i))
  BY PostWritten
<1>3. \A j \in Posts : post[j].at = "putting" => Key(j) \in Keys
  BY Sent
<1>4. \A j \in Posts : j # i /\ post[j].at = "putting" /\ post[i].at \in Working => Key(j) # Key(i)
  BY DEF LocksHeld, Working
<1> QED  BY <1>1, <1>2, <1>3, <1>4 DEF PutOnce

-----------------------------------------------------------------------------
(* One lemma per action                                                    *)

\* A bucket that nothing is put into has lost nothing.
LEMMA Same == ASSUME StoreType, bucket' = bucket  PROVE Grown
<1>1. \A k \in Keys : bucket[k] \in Nat
  BY DEF StoreType
<1> QED  BY <1>1 DEF StoreType, Grown

\* A client sends an upload.
LEMMA RequestSent ==
  ASSUME Numbered, EvidenceIInv, NEW i \in Posts, NEW u \in Uploads, postEvidence(i, u)
  PROVE  EvidenceIInv'
<1>1. StoreType /\ PostType /\ LocksHeld /\ PutOnce /\ OneVersion /\ post[i].at = "unsent"
  BY DEF EvidenceIInv, postEvidence
<1>2. post' = [post EXCEPT ![i] = evidenceRowOf(u)] /\ bucket' = bucket /\ rows' = rows /\ lock' = lock /\ lives' = lives
  BY DEF postEvidence
<1>3. /\ PostOk(evidenceRowOf(u)) /\ evidenceRowOf(u).at \in {"spooled", "answered"}
      /\ evidenceRowOf(u).answer \in {0, 400}
  <2>1. CASE u.whole
    <3>1. evidenceRowOf(u) = [at |-> "spooled", up |-> {u}, version |-> 0, gone |-> FALSE, answer |-> 0]
      BY <2>1 DEF evidenceRowOf, Unsent
    <3> QED  BY <3>1 DEF PostOk, Post, PostSteps
  <2>2. CASE ~u.whole
    <3>1. evidenceRowOf(u) = [at |-> "answered", up |-> {u}, version |-> 0, gone |-> FALSE, answer |-> 400]
      BY <2>2, ZenonT(60) DEF evidenceRowOf, Unsent
    <3> QED  BY <3>1 DEF PostOk, Post, PostSteps
  <2> QED  BY <2>1, <2>2
<1>4. PICK n : n = evidenceRowOf(u)
  OBVIOUS
<1> HIDE DEF evidenceRowOf
<1>5. PostOk(n) /\ n.at \notin Working /\ n.at # "stored" /\ n.at # "putting" /\ n.answer # 201 /\ post' = [post EXCEPT ![i] = n]
  BY <1>2, <1>3, <1>4 DEF Working
<1>6. Grown
  BY <1>1, <1>2, Same
<1>7. PostType' /\ StoredIsThere' /\ RowsAreTrue' /\ RowsNumbered' /\ AnsweredIsIndexed'
  BY <1>2, <1>5, <1>6, RowsLeftAlone
<1>8. LocksHeld'
  BY <1>1, <1>2, <1>5, LocksKept DEF StoreType, Working
<1>9. PutOnce'
  BY <1>1, <1>2, <1>5, PutOnceStays
<1> QED  BY <1>1, <1>2, <1>7, <1>8, <1>9 DEF EvidenceIInv, StoreType, OneVersion

\* A client hangs up.
LEMMA ClientGone ==
  ASSUME Numbered, EvidenceIInv, NEW i \in Posts, HangUp(i)
  PROVE  EvidenceIInv'
<1>1. StoreType /\ PostType /\ LocksHeld /\ PutOnce /\ OneVersion /\ StoredIsThere /\ post[i].at # "unsent"
  BY DEF EvidenceIInv, HangUp
<1>2. bucket' = bucket /\ rows' = rows /\ lock' = lock /\ lives' = lives
  BY DEF HangUp
<1>3. PICK n : n = [post[i] EXCEPT !.gone = TRUE]
  OBVIOUS
<1>4. post[i] \in Post /\ PostOk(post[i])
  BY <1>1 DEF PostType
<1>5. n \in Post /\ n.at = post[i].at /\ n.up = post[i].up /\ n.answer = post[i].answer /\ n.version = post[i].version
  <2>1. TRUE \in BOOLEAN
    OBVIOUS
  <2>2. n \in Post
    <3>1. n = [at |-> post[i].at, up |-> post[i].up, version |-> post[i].version, gone |-> TRUE, answer |-> post[i].answer]
      BY <1>3, <1>4, ZenonT(60) DEF Post
    <3>2. post[i].at \in PostSteps /\ post[i].up \in SUBSET Uploads /\ post[i].version \in Nat /\ post[i].answer \in {0, 201, 400, 500, 502}
      BY <1>4 DEF Post
    <3> QED  BY <2>1, <3>1, <3>2, ZenonT(60) DEF Post
  <2>3. n.at = post[i].at /\ n.up = post[i].up /\ n.answer = post[i].answer /\ n.version = post[i].version
    BY <1>3, <1>4 DEF Post
  <2> QED  BY <2>2, <2>3
<1>6. PostOk(n)
  BY <1>4, <1>5 DEF PostOk
<1>7. post' = [post EXCEPT ![i] = n]
  BY <1>3 DEF HangUp
<1>8. Grown
  BY <1>1, <1>2, Same
<1>9. n.at = "stored" => n.version \in 1 .. bucket'[Key(i)]
  BY <1>1, <1>2, <1>5 DEF StoredIsThere
<1>10. PostType' /\ StoredIsThere' /\ RowsAreTrue' /\ RowsNumbered' /\ AnsweredIsIndexed'
  BY <1>1, <1>2, <1>5, <1>6, <1>7, <1>8, <1>9, RowsLeftAlone
<1>11. LocksHeld'
  BY <1>1, <1>2, <1>5, <1>6, <1>7, LocksKept DEF StoreType
<1>12. n.at = "putting" => bucket'[Key(i)] = 0
  BY <1>1, <1>2, <1>5 DEF PutOnce
<1>13. PutOnce'
  BY <1>1, <1>2, <1>5, <1>6, <1>7, <1>12, PutOnceStays
<1> QED  BY <1>1, <1>2, <1>10, <1>11, <1>13 DEF EvidenceIInv, StoreType, OneVersion

\* A handler takes the lock of its key.
LEMMA LockTaken ==
  ASSUME Numbered, EvidenceIInv, NEW i \in Posts, Locks(i)
  PROVE  EvidenceIInv'
<1>1. StoreType /\ PostType /\ LocksHeld /\ PutOnce /\ OneVersion /\ post[i].at = "spooled" /\ lock[Key(i)] = Free
  BY DEF EvidenceIInv, Locks, Open
<1>2. bucket' = bucket /\ rows' = rows /\ lock' = [lock EXCEPT ![Key(i)] = i] /\ lives' = lives
  BY DEF Locks
<1>3. PICK n : n = [post[i] EXCEPT !.at = "locked"]
  OBVIOUS
<1>4. post[i].answer = 0 /\ Key(i) \in Keys
  BY <1>1, Sent DEF PostType, PostOk
<1>5. PostOk(n) /\ n.at = "locked" /\ n.up = post[i].up /\ n.answer = 0
  BY <1>1, <1>3, <1>4, AtWritten DEF PostSteps
<1>6. post' = [post EXCEPT ![i] = n]
  BY <1>3 DEF Locks, To
<1>7. Grown /\ n.at # "stored" /\ n.answer # 201
  BY <1>1, <1>2, <1>5, Same
<1>8. PostType' /\ StoredIsThere' /\ RowsAreTrue' /\ RowsNumbered' /\ AnsweredIsIndexed'
  BY <1>2, <1>5, <1>6, <1>7, RowsLeftAlone
<1>9. PutOnce'
  BY <1>1, <1>2, <1>5, <1>6, PutOnceStays
<1>10. StoreType'
  BY <1>1, <1>2 DEF StoreType
<1>11. LocksHeld'
  <2>1. \A j \in Posts : post'[j] = (IF j = i THEN n ELSE post[j])
    BY <1>1, <1>6 DEF PostType
  <2>2. \A j \in Posts : Key(j)' = Key(j)
    BY <1>1, <1>5, <1>6, PostWritten
  <2>3. \A k \in Keys : lock'[k] = (IF k = Key(i) THEN i ELSE lock[k])
    BY <1>1, <1>2 DEF StoreType
  <2>4. \A k \in Keys : lock[k] # Free => lock[k] \in Posts
    BY <1>1 DEF StoreType
  <2>5. \A k \in Keys : lock'[k] # Free => (Key(lock[k]))' = k /\ post'[lock'[k]].at \in Working
    BY <1>1, <1>5, <2>1, <2>2, <2>3, <2>4 DEF LocksHeld, Working
  <2>6. \A j \in Posts : post[j].at \in Working => Key(j) \in Keys
    BY <1>1, Sent DEF Working
  <2>7. \A j \in Posts : post'[j].at \in Working => lock'[Key(j)'] = j
    <3>1. ASSUME NEW j \in Posts, post'[j].at \in Working  PROVE lock'[Key(j)] = j
      <4>1. CASE j = i
        BY <1>4, <2>3, <4>1
      <4>2. CASE j # i
        <5>1. post[j].at \in Working /\ lock[Key(j)] = j /\ Key(j) \in Keys
          BY <2>1, <2>6, <3>1, <4>2, <1>1 DEF LocksHeld, Working
        <5>2. j # Free
          BY DEF Numbered, Free
        <5> QED  BY <1>1, <2>3, <5>1, <5>2
      <4> QED  BY <4>1, <4>2
    <3> QED  BY <2>2, <3>1
  <2> QED  BY <2>5, <2>7 DEF LocksHeld, Working
<1> QED  BY <1>1, <1>2, <1>8, <1>9, <1>10, <1>11 DEF EvidenceIInv, OneVersion

\* What a step that gives its lock back leaves, with its request at n.
LEMMA LockGivenBack ==
  ASSUME Numbered, EvidenceIInv, NEW i \in Posts, post[i].at \in Working, NEW n, PostOk(n), post' = [post EXCEPT ![i] = n],
         n.at \notin Working, n.up = post[i].up, n.answer # 201,
         n.at = "stored" => n.version \in 1 .. bucket'[Key(i)],
         lock' = [lock EXCEPT ![Key(i)] = Free], rows' = rows, lives' = lives,
         Grown, OneVersion', bucket' = bucket \/ \A k \in Keys : k # Key(i) => bucket'[k] = bucket[k]
  PROVE  EvidenceIInv'
<1>1. StoreType /\ PostType /\ LocksHeld /\ PutOnce /\ lock \in [Keys -> Posts \cup {Free}]
  BY DEF EvidenceIInv, StoreType
<1>2. post[i].at # "unsent" /\ n.at # "putting"
  BY DEF Working
<1>3. PostType' /\ StoredIsThere' /\ RowsAreTrue' /\ RowsNumbered' /\ AnsweredIsIndexed'
  BY <1>2, RowsLeftAlone
<1>4. LocksHeld' /\ lock' \in [Keys -> Posts \cup {Free}]
  BY <1>1, LockReleased
<1>5. PutOnce'
  BY <1>1, <1>2, PutOnceStays
<1> QED  BY <1>1, <1>3, <1>4, <1>5 DEF EvidenceIInv, StoreType, Grown

\* One more version of the key a request has the lock of and found empty.
LEMMA OneMore ==
  ASSUME EvidenceIInv, NEW i \in Posts, post[i].at = "putting", bucket' = [bucket EXCEPT ![Key(i)] = @ + 1]
  PROVE  /\ Grown /\ OneVersion' /\ bucket'[Key(i)] = 1
         /\ \A k \in Keys : k # Key(i) => bucket'[k] = bucket[k]
<1>1. Key(i) \in Keys /\ bucket \in [Keys -> Nat] /\ bucket[Key(i)] = 0
  BY Sent DEF EvidenceIInv, PutOnce, StoreType
<1>2. \A k \in Keys : bucket'[k] = IF k = Key(i) THEN 1 ELSE bucket[k]
  BY <1>1
<1>3. \A k \in Keys : bucket[k] \in Nat /\ bucket[k] <= 1
  BY <1>1 DEF EvidenceIInv, OneVersion
<1>4. bucket' \in [Keys -> Nat]
  BY <1>1
<1>5. \A k \in Keys : bucket'[k] >= bucket[k] /\ bucket'[k] <= 1
  BY <1>1, <1>2, <1>3
<1> QED  BY <1>1, <1>2, <1>4, <1>5 DEF Grown, OneVersion

\* A handler looks whether the object is there.
LEMMA Looked ==
  ASSUME Numbered, EvidenceIInv, NEW i \in Posts, Stat(i)
  PROVE  EvidenceIInv'
<1>1. /\ StoreType /\ PostType /\ LocksHeld /\ PutOnce /\ OneVersion /\ post[i].at = "locked"
      /\ post[i].answer = 0 /\ bucket' = bucket /\ rows' = rows /\ lives' = lives
  BY DEF EvidenceIInv, Stat, PostType, PostOk
<1>2. Key(i) \in Keys /\ bucket[Key(i)] \in Nat
  BY <1>1, Sent DEF StoreType
<1>3. Grown /\ OneVersion'
  BY <1>1, Same DEF OneVersion
<1>4. CASE bucket[Key(i)] > 0
  <2>2. Stored(i, bucket[Key(i)]) /\ lock' = [lock EXCEPT ![Key(i)] = Free]
    BY <1>4 DEF Stat, Unlocks
  <2>3. PICK n : /\ PostOk(n) /\ post' = [post EXCEPT ![i] = n]
                 /\ n.at = "stored" /\ n.up = post[i].up /\ n.answer = 0 /\ n.version = bucket[Key(i)]
    BY <1>1, <1>2, <2>2, StoredWritten
  <2>4. n.at \notin Working /\ n.answer # 201 /\ n.version \in 1 .. bucket'[Key(i)] /\ post[i].at \in Working
    BY <1>1, <1>2, <1>4, <2>3 DEF Working
  <2> QED  BY <1>1, <1>3, <2>2, <2>3, <2>4, LockGivenBack
<1>5. CASE ~(bucket[Key(i)] > 0)
  <2>1. PICK n : n = [post[i] EXCEPT !.at = "putting"]
    BY Zenon
  <2>2. post' = [post EXCEPT ![i] = n] /\ lock' = lock
    BY <1>5, <2>1, Zenon DEF Stat, To
  <2>3. PostOk(n) /\ n.at = "putting" /\ n.up = post[i].up /\ n.answer = 0
    BY <1>1, <2>1, AtWritten DEF PostSteps
  <2>4. bucket'[Key(i)] = 0 /\ n.at # "stored" /\ n.answer # 201
    BY <1>1, <1>2, <1>5, <2>3
  <2>5. PostType' /\ StoredIsThere' /\ RowsAreTrue' /\ RowsNumbered' /\ AnsweredIsIndexed'
    BY <1>1, <1>3, <2>2, <2>3, <2>4, RowsLeftAlone
  <2>6. LocksHeld'
    BY <1>1, <2>2, <2>3, LocksKept DEF StoreType, Working
  <2>7. PutOnce'
    BY <1>1, <2>2, <2>3, <2>4, PutOnceStays
  <2> QED  BY <1>1, <1>3, <2>2, <2>5, <2>6, <2>7 DEF EvidenceIInv, StoreType
<1> QED  BY <1>4, <1>5

\* The put is stored, once: nobody else has the key.
LEMMA PutLands ==
  ASSUME Numbered, EvidenceIInv, NEW i \in Posts, Put(i)
  PROVE  EvidenceIInv'
<1>1. /\ PostType /\ post[i].at = "putting" /\ post[i].answer = 0 /\ rows' = rows /\ lives' = lives
      /\ bucket' = [bucket EXCEPT ![Key(i)] = @ + 1] /\ lock' = [lock EXCEPT ![Key(i)] = Free]
  BY DEF EvidenceIInv, Put, PostType, PostOk, Unlocks
<1>2. /\ Grown /\ OneVersion' /\ bucket'[Key(i)] = 1
      /\ \A k \in Keys : k # Key(i) => bucket'[k] = bucket[k]
  BY <1>1, OneMore
<1>4. Stored(i, 1)
  BY <1>2 DEF Put
<1>5. PICK n : /\ PostOk(n) /\ post' = [post EXCEPT ![i] = n]
               /\ n.at = "stored" /\ n.up = post[i].up /\ n.answer = 0 /\ n.version = 1
  BY <1>1, <1>4, StoredWritten
<1>6. n.at \notin Working /\ n.answer # 201 /\ n.version \in 1 .. bucket'[Key(i)] /\ post[i].at \in Working
  BY <1>1, <1>2, <1>5 DEF Working
<1> QED  BY <1>1, <1>2, <1>5, <1>6, LockGivenBack

\* The bucket fails, before or after it stored.
LEMMA StoreSaysNo ==
  ASSUME Numbered, EvidenceIInv, NEW i \in Posts, NEW landed \in BOOLEAN, StoreFails(i, landed)
  PROVE  EvidenceIInv'
<1>1. /\ StoreType /\ PostType /\ OneVersion /\ post[i].at \in Working /\ post[i].at # "unsent" /\ rows' = rows
      /\ lives' = lives /\ lock' = [lock EXCEPT ![Key(i)] = Free] /\ Answer(i, 502)
  BY DEF EvidenceIInv, StoreFails, Unlocks, Fails, Working
<1>2. PICK n : /\ PostOk(n) /\ post' = [post EXCEPT ![i] = n]
               /\ n.at = "answered" /\ n.up = post[i].up /\ n.answer \in {0, 502}
  BY <1>1, AnswerCodes DEF Codes
<1>3. n.at \notin Working /\ n.answer # 201 /\ (n.at = "stored" => n.version \in 1 .. bucket'[Key(i)])
  BY <1>2 DEF Working
<1>4. /\ Grown /\ OneVersion'
      /\ bucket' = bucket \/ \A k \in Keys : k # Key(i) => bucket'[k] = bucket[k]
  <2>1. CASE landed
    <3>1. post[i].at = "putting" /\ bucket' = [bucket EXCEPT ![Key(i)] = @ + 1]
      BY <2>1 DEF StoreFails
    <3> QED  BY <3>1, OneMore
  <2>2. CASE ~landed
    <3>1. bucket' = bucket
      BY <2>2 DEF StoreFails
    <3> QED  BY <1>1, <3>1, Same DEF OneVersion
  <2> QED  BY <2>1, <2>2
<1>5. PICK m : m = n
  OBVIOUS
<1>6. /\ PostOk(m) /\ post' = [post EXCEPT ![i] = m] /\ m.at \notin Working /\ m.up = post[i].up /\ m.answer # 201
      /\ m.at = "stored" => m.version \in 1 .. bucket'[Key(i)]
  BY <1>2, <1>3, <1>5
<1>7. post[i].at \in Working /\ rows' = rows /\ lives' = lives /\ lock' = [lock EXCEPT ![Key(i)] = Free]
  BY <1>1
<1> QED  BY <1>4, <1>6, <1>7, LockGivenBack

\* There are finitely many proofs, for there are finitely many uploads.
LEMMA ProofsFinite ==
  ASSUME Numbered
  PROVE  IsFiniteSet(Indexed) /\ Cardinality(Indexed) \in Nat
<1> DEFINE f == [u \in Uploads |-> Proof(u)]
<1>1. f \in Surjection(Uploads, Proofs)
  BY DEF Surjection, Proofs
<1>2. IsFiniteSet(Uploads)
  BY DEF Numbered
<1> HIDE DEF f
<1>3. IsFiniteSet(Proofs)
  BY <1>1, <1>2, FS_Surjection
<1>4. Indexed \in SUBSET Proofs
  BY DEF Indexed
<1>5. IsFiniteSet(Indexed)
  BY <1>3, <1>4, FS_Subset
<1> QED  BY <1>5, FS_CardinalityType

\* A row is written where there was one, or numbered after all there are.
LEMMA RowWritten ==
  ASSUME Numbered, EvidenceIInv, NEW i \in Posts, post[i].at = "stored", bucket' = bucket,
         rows' = [rows EXCEPT ![Proof(Up(i))] = Row(i)]
  PROVE  /\ rows' \in [Proofs -> [id : Nat, key : Keys \cup {<< >>}, version : Nat]]
         /\ Indexed \subseteq Indexed' /\ Proof(Up(i)) \in Indexed' /\ RowsAreTrue' /\ RowsNumbered'
<1>1. StoreType /\ PostType /\ StoredIsThere /\ RowsAreTrue /\ RowsNumbered
  BY DEF EvidenceIInv
<1>2. /\ Key(i) \in Keys /\ Proof(Up(i)) \in Proofs /\ Key(i)[2] = Proof(Up(i)).sum
      /\ post[i].version \in 1 .. bucket[Key(i)]
  BY <1>1, Sent DEF StoredIsThere
<1>3. bucket[Key(i)] \in Nat /\ post[i].version \in Nat
  BY <1>1, <1>2 DEF StoreType
<1>4. IsFiniteSet(Indexed) /\ Cardinality(Indexed) \in Nat /\ NextId = Cardinality(Indexed) + 1
  BY ProofsFinite DEF NextId
<1>5. \A p \in Proofs : rows[p].id \in Nat
  BY <1>1 DEF StoreType
<1>6. PICK q \in Proofs : q = Proof(Up(i))
  BY <1>2
<1>7. PICK row : row = Row(i)
  OBVIOUS
<1>8. /\ row.key = Key(i) /\ row.version = post[i].version
      /\ row.id = IF rows[q].id > 0 THEN rows[q].id ELSE NextId
  BY <1>6, <1>7 DEF Row
<1>9. row.id \in Nat /\ row.id > 0
  BY <1>4, <1>5, <1>8
<1>10. row \in [id : Nat, key : Keys \cup {<< >>}, version : Nat]
  <2>1. row = [id |-> row.id, key |-> row.key, version |-> row.version]
    BY <1>7 DEF Row
  <2> QED  BY <1>2, <1>3, <1>8, <1>9, <2>1
<1>11. \A p \in Proofs : rows'[p] = (IF p = q THEN row ELSE rows[p])
  BY <1>1, <1>6, <1>7 DEF StoreType
<1>12. rows' \in [Proofs -> [id : Nat, key : Keys \cup {<< >>}, version : Nat]]
  BY <1>1, <1>6, <1>7, <1>10 DEF StoreType
<1>13. Indexed' = Indexed \cup {q}
  BY <1>9, <1>11 DEF Indexed
<1>14. RowsAreTrue'
  BY <1>1, <1>2, <1>6, <1>8, <1>11, <1>13 DEF RowsAreTrue, Indexed
<1>15. RowsNumbered'
  <2>1. Cardinality(Indexed') = IF q \in Indexed THEN Cardinality(Indexed) ELSE Cardinality(Indexed) + 1
    BY <1>4, <1>13, FS_AddElement
  <2>2. \A p \in Indexed : p \in Proofs /\ rows[p].id \in Nat /\ rows[p].id <= Cardinality(Indexed)
    BY <1>1, <1>5 DEF RowsNumbered, Indexed
  <2>3. CASE q \in Indexed
    <3>1. Indexed' = Indexed /\ row.id = rows[q].id
      BY <1>8, <1>13, <2>3 DEF Indexed
    <3>2. \A p \in Indexed : rows'[p].id = rows[p].id
      BY <1>11, <2>2, <3>1
    <3> QED  BY <1>1, <3>1, <3>2 DEF RowsNumbered
  <2>4. CASE q \notin Indexed
    <3>1. row.id = Cardinality(Indexed) + 1 /\ Cardinality(Indexed') = Cardinality(Indexed) + 1
      BY <1>4, <1>5, <1>6, <1>8, <2>1, <2>4 DEF Indexed
    <3>2. rows'[q].id = Cardinality(Indexed) + 1 /\ \A p \in Indexed : rows'[p].id = rows[p].id
      BY <1>11, <2>2, <2>4, <3>1
    <3>3. \A p \in Indexed' : rows'[p].id <= Cardinality(Indexed')
      BY <1>4, <1>13, <2>2, <3>1, <3>2
    <3>4. ASSUME NEW p \in Indexed', NEW r \in Indexed', rows'[p].id = rows'[r].id  PROVE p = r
      <4>1. CASE p \in Indexed /\ r \in Indexed
        BY <1>1, <3>2, <3>4, <4>1 DEF RowsNumbered
      <4>2. CASE p = q /\ r = q
        BY <4>2
      <4>3. CASE p = q /\ r \in Indexed
        BY <1>4, <2>2, <3>2, <3>4, <4>3
      <4>4. CASE p \in Indexed /\ r = q
        BY <1>4, <2>2, <3>2, <3>4, <4>4
      <4> QED  BY <1>13, <4>1, <4>2, <4>3, <4>4
    <3> QED  BY <3>3, <3>4 DEF RowsNumbered
  <2> QED  BY <2>3, <2>4
<1> QED  BY <1>6, <1>12, <1>13, <1>14, <1>15

\* A request answered after its object was stored, with its row or without.
LEMMA AnsweredAtIndex ==
  ASSUME Numbered, EvidenceIInv, NEW i \in Posts, post[i].at = "stored", NEW code \in {201, 500}, Answer(i, code),
         bucket' = bucket, lock' = lock, lives' = lives,
         rows' = [rows EXCEPT ![Proof(Up(i))] = Row(i)] \/ (code = 500 /\ rows' = rows)
  PROVE  EvidenceIInv'
<1>1. /\ StoreType /\ PostType /\ OneVersion /\ LocksHeld /\ PutOnce /\ StoredIsThere /\ RowsAreTrue
      /\ RowsNumbered /\ AnsweredIsIndexed
  BY DEF EvidenceIInv
<1>2. PICK n : /\ PostOk(n) /\ post' = [post EXCEPT ![i] = n]
               /\ n.at = "answered" /\ n.up = post[i].up /\ n.answer \in {0, code}
  BY <1>1, AnswerCodes DEF Codes
<1>3. Grown
  BY <1>1, Same
<1>4. /\ rows' \in [Proofs -> [id : Nat, key : Keys \cup {<< >>}, version : Nat]] /\ Indexed \subseteq Indexed'
      /\ (n.answer = 201 => Proof(Up(i)) \in Indexed') /\ RowsAreTrue' /\ RowsNumbered'
  <2>1. CASE rows' = [rows EXCEPT ![Proof(Up(i))] = Row(i)]
    BY <2>1, RowWritten
  <2>2. CASE code = 500 /\ rows' = rows
    <3>1. Indexed' = Indexed
      BY <2>2 DEF Indexed
    <3>2. RowsAreTrue'
      BY <1>1, <1>3, <2>2, RowsStayTrue
    <3>3. RowsNumbered'
      BY <1>1, <2>2, <3>1 DEF RowsNumbered
    <3>4. n.answer # 201
      BY <1>2, <2>2
    <3> QED  BY <1>1, <2>2, <3>1, <3>2, <3>3, <3>4 DEF StoreType
  <2> QED  BY <2>1, <2>2
<1>5. PostType'
  BY <1>1, <1>2, PostWritten
<1>6. StoredIsThere'
  BY <1>1, <1>2, <1>3, StoredStays
<1>7. AnsweredIsIndexed'
  <2>1. n.answer = 201 => n.up = post[i].up /\ Proof(Up(i)) \in Indexed'
    BY <1>2, <1>4
  <2>2. Indexed \subseteq Indexed' /\ PostOk(n) /\ post' = [post EXCEPT ![i] = n]
    BY <1>2, <1>4
  <2> HIDE DEF Indexed, Proof
  <2> QED  BY <1>1, <2>1, <2>2, AnsweredStays, Zenon
<1>8. LocksHeld'
  <2>1. n.at \notin Working /\ post[i].at \notin Working /\ lock \in [Keys -> Posts \cup {Free}]
    BY <1>1, <1>2 DEF StoreType, Working
  <2> QED  BY <1>1, <1>2, <2>1, LocksKept
<1>9. PutOnce'
  <2>1. n.at # "putting"
    BY <1>2
  <2> QED  BY <1>1, <1>2, <2>1, PutOnceStays
<1> QED  BY <1>1, <1>4, <1>5, <1>6, <1>7, <1>8, <1>9 DEF EvidenceIInv, StoreType, OneVersion

\* What was being put when the process died has landed once, or not at all.
LEMMA Landed ==
  ASSUME Numbered, EvidenceIInv, NEW landed \in SUBSET {i \in Posts : post[i].at = "putting"}, NEW k \in Keys
  PROVE  LET n == Cardinality({i \in landed : Key(i) = k}) IN n = 0 \/ (n = 1 /\ bucket[k] = 0)
<1> DEFINE S == {i \in landed : Key(i) = k}
<1>1. \A i \in S : i \in Posts /\ post[i].at = "putting" /\ Key(i) = k
  OBVIOUS
<1>2. \A i \in S : lock[k] = i /\ bucket[k] = 0
  BY <1>1 DEF EvidenceIInv, LocksHeld, PutOnce
<1>3. S = {} \/ \E i \in S : S = {i}
  BY <1>2
<1> HIDE DEF S
<1>4. S = {} => Cardinality(S) = 0
  BY FS_EmptySet
<1>5. \A i \in S : S = {i} => Cardinality(S) = 1
  BY FS_Singleton
<1>6. Cardinality(S) = 0 \/ (Cardinality(S) = 1 /\ bucket[k] = 0)
  BY <1>2, <1>3, <1>4, <1>5
<1> QED  BY <1>6 DEF S

\* A request whose client is gone is otherwise the same.
LEMMA GoneWritten ==
  ASSUME NEW p \in Post
  PROVE  [p EXCEPT !.gone = TRUE] = [at |-> p.at, up |-> p.up, version |-> p.version, gone |-> TRUE, answer |-> p.answer]
<1>1. PICK n : n = [p EXCEPT !.gone = TRUE]
  OBVIOUS
<1>2. n = [at |-> p.at, up |-> p.up, version |-> p.version, gone |-> TRUE, answer |-> p.answer]
  BY <1>1, ZenonT(60) DEF Post
<1> QED  BY <1>1, <1>2

\* The process is killed: the handlers and their locks are lost, what is stored is not.
LEMMA EvidenceRestarted ==
  ASSUME Numbered, EvidenceIInv, NEW landed, Killed(landed)
  PROVE  EvidenceIInv'
<1>1. /\ StoreType /\ PostType /\ OneVersion /\ RowsAreTrue /\ RowsNumbered /\ AnsweredIsIndexed
      /\ lives' = lives + 1 /\ lives < MaxLives /\ rows' = rows /\ lock' = [k \in Keys |-> Free]
      /\ landed \in SUBSET {i \in Posts : post[i].at = "putting"}
      /\ bucket' = [k \in Keys |-> bucket[k] + Cardinality({i \in landed : Key(i) = k})]
  BY DEF EvidenceIInv, Killed
<1>2. Grown /\ OneVersion'
  <2>1. ASSUME NEW k \in Keys
        PROVE  bucket'[k] \in Nat /\ bucket'[k] >= bucket[k] /\ bucket'[k] <= 1
    <3>1. PICK n : n = Cardinality({i \in landed : Key(i) = k})
      OBVIOUS
    <3>2. n = 0 \/ (n = 1 /\ bucket[k] = 0)
      BY <1>1, <3>1, Landed
    <3>3. bucket'[k] = bucket[k] + n /\ bucket[k] \in Nat /\ bucket[k] <= 1
      BY <1>1, <3>1 DEF StoreType, OneVersion
    <3> QED  BY <3>2, <3>3
  <2>2. bucket' \in [Keys -> Nat]
    <3>1. DOMAIN bucket' = Keys /\ bucket' = [k \in Keys |-> bucket'[k]]
      BY <1>1, Zenon
    <3> QED  BY <2>1, <3>1
  <2> QED  BY <2>1, <2>2 DEF Grown, OneVersion
<1>3. StoreType'
  <2>1. lives' \in 1 .. MaxLives
    BY <1>1 DEF StoreType, Numbered
  <2>2. lock' \in [Keys -> Posts \cup {Free}]
    BY <1>1
  <2> QED  BY <1>1, <1>2, <2>1, <2>2 DEF StoreType, Grown
<1> DEFINE Broken(i) == [post[i] EXCEPT !.at = "answered", !.gone = TRUE]
<1>4. post' = [i \in Posts |-> IF post[i].at \in {"unsent", "answered"} THEN post[i] ELSE Broken(i)]
  BY Zenon DEF Killed
<1>5. ASSUME NEW i \in Posts, post[i].at \notin {"unsent", "answered"}
      PROVE  /\ Broken(i) \in Post /\ PostOk(Broken(i)) /\ Broken(i).at = "answered"
             /\ Broken(i).up = post[i].up /\ Broken(i).answer = post[i].answer
  <2>1. /\ post[i] \in Post /\ post[i].up # {} /\ (\A u, v \in post[i].up : u = v)
    BY <1>1, <1>5 DEF PostType, PostOk
  <2>2. /\ post[i].up \in SUBSET Uploads /\ post[i].version \in Nat /\ post[i].answer \in {0, 201, 400, 500, 502}
        /\ "answered" \in PostSteps /\ TRUE \in BOOLEAN
    BY <2>1 DEF Post, PostSteps
  <2> DEFINE n == [at |-> "answered", up |-> post[i].up, version |-> post[i].version, gone |-> TRUE, answer |-> post[i].answer]
  <2>3. n \in Post
    BY <2>2, ZenonT(60) DEF Post
  <2>4. n = Broken(i)
    <3> DEFINE m == [post[i] EXCEPT !.at = "answered"]
    <3>1. m = [at |-> "answered", up |-> post[i].up, version |-> post[i].version, gone |-> post[i].gone, answer |-> post[i].answer]
      BY <2>1 DEF Post
    <3>2. Broken(i) = [m EXCEPT !.gone = TRUE]
      BY Zenon
    <3>4. m \in Post
      BY <2>1, <2>2 DEF Post
    <3> HIDE DEF m
    <3>3. [m EXCEPT !.gone = TRUE] = [at |-> m.at, up |-> m.up, version |-> m.version, gone |-> TRUE, answer |-> m.answer]
      BY <3>4, GoneWritten
    <3>5. m.at = "answered" /\ m.up = post[i].up /\ m.version = post[i].version /\ m.answer = post[i].answer
      BY <3>1
    <3> QED  BY <3>2, <3>3, <3>5, Zenon
  <2>5. n.at = "answered" /\ n.up = post[i].up /\ n.answer = post[i].answer
    OBVIOUS
  <2> HIDE DEF n, Broken
  <2> QED  BY <2>1, <2>3, <2>4, <2>5 DEF PostOk
<1> HIDE DEF Broken
<1>6. \A i \in Posts : /\ post'[i] \in Post /\ PostOk(post'[i]) /\ post'[i].at \in {"unsent", "answered"}
                       /\ post'[i].up = post[i].up /\ post'[i].answer = post[i].answer
  <2>1. ASSUME NEW i \in Posts
        PROVE  /\ post'[i] \in Post /\ PostOk(post'[i]) /\ post'[i].at \in {"unsent", "answered"}
               /\ post'[i].up = post[i].up /\ post'[i].answer = post[i].answer
    <3>1. CASE post[i].at \in {"unsent", "answered"}
      <4>1. post'[i] = post[i]
        BY <1>4, <3>1
      <4> QED  BY <1>1, <3>1, <4>1 DEF PostType
    <3>2. CASE post[i].at \notin {"unsent", "answered"}
      <4>1. post'[i] = Broken(i)
        BY <1>4, <3>2
      <4> QED  BY <1>5, <3>2, <4>1
    <3> QED  BY <3>1, <3>2
  <2> QED  BY <2>1
<1>7. PostType'
  <2>1. DOMAIN post' = Posts /\ post' = [i \in Posts |-> post'[i]]
    BY <1>4, Zenon
  <2>2. post' \in [Posts -> Post]
    BY <1>6, <2>1
  <2> QED  BY <1>6, <2>2 DEF PostType, PostOk
<1>8. LocksHeld' /\ PutOnce' /\ StoredIsThere'
  BY <1>1, <1>6 DEF LocksHeld, PutOnce, StoredIsThere
<1>9. RowsAreTrue'
  BY <1>1, <1>2, RowsStayTrue
<1>10. Indexed' = Indexed
  BY <1>1 DEF Indexed
<1>11. RowsNumbered'
  BY <1>1, <1>10 DEF RowsNumbered
<1>12. AnsweredIsIndexed'
  <2>1. \A i \in Posts : Up(i)' = Up(i)
    BY <1>6 DEF Up
  <2>2. \A i \in Posts : Proof(Up(i))' = Proof(Up(i))
    BY <2>1 DEF Proof
  <2> QED  BY <1>1, <1>6, <1>10, <2>2 DEF AnsweredIsIndexed
<1> QED  BY <1>2, <1>3, <1>7, <1>8, <1>9, <1>11, <1>12 DEF EvidenceIInv

-----------------------------------------------------------------------------
(* The invariant, and what follows                                         *)

\* At first nothing is sent.
LEMMA EvidenceInitHolds ==
  ASSUME Numbered, EvidenceInit
  PROVE  EvidenceIInv
<1>1. PICK n : n = Unsent
  OBVIOUS
<1>2. n.at = "unsent" /\ n.up = {} /\ n.answer = 0 /\ \A i \in Posts : post[i] = n
  BY <1>1 DEF EvidenceInit, Unsent
<1>3. n \in Post
  <2>1. "unsent" \in PostSteps /\ {} \in SUBSET Uploads /\ 0 \in Nat /\ FALSE \in BOOLEAN /\ 0 \in {0, 201, 400, 500, 502}
    BY DEF PostSteps
  <2> QED  BY <1>1, <2>1, Zenon DEF Post, Unsent
<1>4. PostType
  <2>1. post = [i \in Posts |-> n]
    BY <1>1, Zenon DEF EvidenceInit
  <2> QED  BY <1>2, <1>3, <2>1 DEF PostType, PostOk
<1>5. StoreType
  <2>1. NoRow \in [id : Nat, key : Keys \cup {<< >>}, version : Nat]
    BY DEF NoRow
  <2> QED  BY <2>1 DEF EvidenceInit, StoreType, Numbered
<1>6. Indexed = {}
  BY DEF EvidenceInit, Indexed, NoRow
<1>7. LocksHeld /\ PutOnce /\ StoredIsThere
  BY <1>2 DEF EvidenceInit, LocksHeld, PutOnce, StoredIsThere
<1>8. OneVersion
  BY DEF EvidenceInit, OneVersion
<1>9. AnsweredIsIndexed
  BY <1>2 DEF AnsweredIsIndexed
<1> QED  BY <1>4, <1>5, <1>6, <1>7, <1>8, <1>9 DEF EvidenceIInv, RowsAreTrue, RowsNumbered

\* Every step keeps the invariant.
LEMMA EvidenceStepHolds ==
  ASSUME Numbered, EvidenceIInv, [EvidenceNext]_evidenceVars
  PROVE  EvidenceIInv'
<1>1. ASSUME NEW i \in Posts, Handler(i)  PROVE EvidenceIInv'
  <2>1. CASE Locks(i)
    BY <2>1, LockTaken
  <2>2. CASE Stat(i)
    BY <2>2, Looked
  <2>3. CASE Put(i)
    BY <2>3, PutLands
  <2>4. CASE Indexes(i)
    <3>1. /\ post[i].at = "stored" /\ Answer(i, 201) /\ bucket' = bucket /\ lock' = lock /\ lives' = lives
          /\ rows' = [rows EXCEPT ![Proof(Up(i))] = Row(i)]
      BY <2>4 DEF Indexes
    <3> QED  BY <3>1, AnsweredAtIndex, ZenonT(60)
  <2>5. CASE \E b \in BOOLEAN : StoreFails(i, b)
    BY <2>5, StoreSaysNo
  <2>6. CASE \E b \in BOOLEAN : IndexFails(i, b)
    <3>1. PICK b \in BOOLEAN : IndexFails(i, b)
      BY <2>6
    <3>2. /\ post[i].at = "stored" /\ Answer(i, 500) /\ bucket' = bucket /\ lock' = lock /\ lives' = lives
          /\ rows' = [rows EXCEPT ![Proof(Up(i))] = Row(i)] \/ rows' = rows
      BY <3>1 DEF IndexFails
    <3> QED  BY <3>2, AnsweredAtIndex
  <2> QED  BY <1>1, <2>1, <2>2, <2>3, <2>4, <2>5, <2>6 DEF Handler
<1>2. ASSUME NEW i \in Posts, HangUp(i)  PROVE EvidenceIInv'
  BY <1>2, ClientGone
<1>3. ASSUME NEW i \in Posts, NEW u \in Uploads, postEvidence(i, u)  PROVE EvidenceIInv'
  BY <1>3, RequestSent
<1>4. ASSUME NEW landed \in SUBSET Posts, Killed(landed)  PROVE EvidenceIInv'
  BY <1>4, EvidenceRestarted
<1>5. CASE UNCHANGED evidenceVars
  <2>1. bucket' = bucket /\ rows' = rows /\ lock' = lock /\ post' = post /\ lives' = lives
    BY <1>5 DEF evidenceVars
  <2>2. Indexed' = Indexed /\ (\A i \in Posts : Up(i)' = Up(i)) /\ (\A i \in Posts : Key(i)' = Key(i))
    BY <2>1 DEF Indexed, Up, Key
  <2>3. \A i \in Posts : Proof(Up(i))' = Proof(Up(i))
    BY <2>2 DEF Proof
  <2>4. StoreType' /\ PostType' /\ OneVersion'
    BY <2>1 DEF EvidenceIInv, StoreType, PostType, PostOk, OneVersion
  <2>5. LocksHeld'
    BY <2>1 DEF EvidenceIInv, LocksHeld, Key, Up
  <2>6. PutOnce' /\ StoredIsThere'
    BY <2>1, <2>2 DEF EvidenceIInv, PutOnce, StoredIsThere
  <2>7. RowsAreTrue' /\ RowsNumbered'
    BY <2>1, <2>2 DEF EvidenceIInv, RowsAreTrue, RowsNumbered
  <2>8. AnsweredIsIndexed'
    BY <2>1, <2>2, <2>3 DEF EvidenceIInv, AnsweredIsIndexed
  <2> QED  BY <2>4, <2>5, <2>6, <2>7, <2>8 DEF EvidenceIInv
<1> QED  BY <1>1, <1>2, <1>3, <1>4, <1>5 DEF EvidenceNext

\* A set of naturals that is not empty has a least element.
LEMMA LeastExists ==
  ASSUME NEW S \in SUBSET Nat, S # {}
  PROVE  \E x \in S : \A y \in S : x <= y
<1> DEFINE R == OpToRel(<, Nat)
<1>1. IsWellFoundedOn(R, Nat)
  BY NatLessThanWellFounded
<1>2. ASSUME NEW x \in Nat, NEW y \in Nat, <<y, x>> \notin R  PROVE ~(y < x)
  BY <1>2 DEF OpToRel
<1> HIDE DEF R
<1>3. PICK x \in S : \A y \in S : ~(<<y, x>> \in R)
  BY <1>1, WFMin
<1>4. \A y \in S : ~(y < x)
  BY <1>2, <1>3, Zenon
<1> QED  BY <1>4

\* The row that a hash serves is there, and true.
LEMMA Served ==
  ASSUME EvidenceIInv, NEW p \in Indexed
  PROVE  /\ serveEvidenceFile(p.sum) # {}
         /\ \A r \in serveEvidenceFile(p.sum) : r.key[2] = p.sum /\ r.version \in 1 .. bucket[r.key]
<1> DEFINE found == {q \in Indexed : q.sum = p.sum}
           ids == {rows[q].id : q \in found}
<1>1. p \in found /\ \A q \in found : q \in Proofs /\ rows[q].id \in Nat
  BY DEF EvidenceIInv, StoreType, Indexed
<1>2. ids \in SUBSET Nat /\ ids # {}
  BY <1>1
<1>3. \E least \in ids : \A n \in ids : least <= n
  <2> HIDE DEF ids
  <2> QED  BY <1>2, LeastExists
<1>4. PICK q \in found : \A r \in found : rows[q].id <= rows[r].id
  BY <1>3
<1>5. serveEvidenceFile(p.sum) = {rows[r] : r \in {s \in found : \A t \in found : rows[s].id <= rows[t].id}}
  BY Zenon DEF serveEvidenceFile
<1>6. \A r \in found : rows[r].key[2] = p.sum /\ rows[r].version \in 1 .. bucket[rows[r].key]
  BY DEF EvidenceIInv, RowsAreTrue
<1> HIDE DEF found
<1> QED  BY <1>4, <1>5, <1>6

\* The invariant of the proofs is what EvidenceInv says.
LEMMA Kept ==
  ASSUME EvidenceIInv
  PROVE  EvidenceInv
<1>1. EvidenceTypeOK
  BY TypeParts DEF EvidenceIInv
<1>2. ASSUME NEW i \in Posts, post[i].answer = 201
      PROVE  /\ rows[Proof(Up(i))].id > 0
             /\ serveEvidenceFile(Up(i).sum) # {}
             /\ \A r \in serveEvidenceFile(Up(i).sum) : r.key[2] = Up(i).sum /\ r.version \in 1 .. bucket[r.key]
  <2>1. Proof(Up(i)) \in Indexed /\ Proof(Up(i)).sum = Up(i).sum
    BY <1>2 DEF EvidenceIInv, AnsweredIsIndexed, Proof
  <2>2. rows[Proof(Up(i))].id > 0
    BY <2>1 DEF Indexed
  <2> QED  BY <2>1, <2>2, Served
<1>3. ProofIsKept
  BY <1>2 DEF ProofIsKept
<1> QED  BY <1>1, <1>3 DEF EvidenceIInv, EvidenceInv

\* Whoever hangs up, sends again or is cut off, and wherever the process is
\* killed: bytes are stored once, a row names an object that is there, and
\* what was answered 201 is served from then on (postEvidence, storeEvidence,
\* indexEvidence, serveEvidenceFile).
THEOREM EvidenceIsKept ==
  ASSUME Numbered
  PROVE  EvidenceSpec => []EvidenceInv
<1>1. EvidenceInit => EvidenceIInv
  BY EvidenceInitHolds
<1>2. EvidenceIInv /\ [EvidenceNext]_evidenceVars => EvidenceIInv'
  BY EvidenceStepHolds
<1>3. EvidenceIInv => EvidenceInv
  BY Kept
<1> QED  BY <1>1, <1>2, <1>3, PTL DEF EvidenceSpec

-----------------------------------------------------------------------------
(* Documents                                                               *)

Unique == \A p, q \in StoredDocs : p # q => docs[p].id # docs[q].id
DocsOk == docs \in [DocTopics -> Doc] /\ Unique /\ VectorIsItsOwn /\ NumberedByWrite

\* The stored documents are those with a number.
LEMMA StoredIs ==
  ASSUME docs \in [DocTopics -> Doc]
  PROVE  StoredDocs = {p \in DocTopics : docs[p].id > 0}
BY DEF StoredDocs

\* So are those after a step.
LEMMA StoredIsNext ==
  ASSUME docs' \in [DocTopics -> Doc]
  PROVE  StoredDocs' = {p \in DocTopics : docs'[p].id > 0}
BY DEF StoredDocs

\* A document under the number of a write that is answered just now.
LEMMA DocStored ==
  ASSUME Written, DocsOk, NEW i \in Puts, put[i].at = "embedded", put[i].model \in Models \cup {""},
         i \in Answered', Answered \subseteq Answered',
         NEW p \in DocTopics, docs' = storeKBDoc(p, i)
  PROVE  /\ DocsOk' /\ docs'[p].text = i /\ docs'[p].stale = FALSE /\ docs'[p].id = i /\ i \notin Answered
         /\ \A q \in DocTopics : q # p => docs'[q] = docs[q]
<1>1. i \notin Answered
  BY DEF Answered
<1>2. PICK n : n = [id |-> i, text |-> i, stale |-> FALSE, model |-> put[i].model, vec |-> IF put[i].model = "" THEN None ELSE i]
  OBVIOUS
<1>3. n.id = i /\ n.text = i /\ n.stale = FALSE /\ n.model = put[i].model /\ (n.model # "" => n.vec = i)
  BY <1>2
<1>4. n \in Doc
  <2>1. FALSE \in BOOLEAN /\ (IF put[i].model = "" THEN None ELSE i) \in Puts \cup {None} /\ i \in Ids /\ i \in Puts \cup {None}
    BY DEF Ids
  <2> QED  BY <1>2, <2>1, Zenon DEF Doc
<1>5. docs' = [docs EXCEPT ![p] = n]
  BY <1>2, Zenon DEF storeKBDoc
<1>6. docs \in [DocTopics -> Doc]
  BY DEF DocsOk
<1>7. docs' \in [DocTopics -> Doc] /\ \A q \in DocTopics : docs'[q] = IF q = p THEN n ELSE docs[q]
  BY <1>4, <1>5, <1>6
<1>8. StoredDocs = {q \in DocTopics : docs[q].id > 0} /\ StoredDocs' = {q \in DocTopics : docs'[q].id > 0}
  BY <1>6, <1>7 DEF StoredDocs
<1>9. \A q \in DocTopics : docs[q].id \in Answered \cup {0} /\ docs[q].id = docs[q].text
  BY DEF DocsOk, NumberedByWrite
<1>10. Unique'
  <2>1. i # 0
    BY DEF Written
  <2>2. \A q \in DocTopics : docs[q].id # i
    BY <1>1, <1>9, <2>1
  <2>3. \A q, r \in StoredDocs : q # r => docs[q].id # docs[r].id
    BY DEF DocsOk, Unique
  <2>4. ASSUME NEW q \in StoredDocs', NEW r \in StoredDocs', q # r  PROVE docs'[q].id # docs'[r].id
    <3>1. CASE q # p /\ r # p
      <4>1. docs'[q] = docs[q] /\ docs'[r] = docs[r]
        BY <1>7, <1>8, <2>4, <3>1
      <4>2. q \in StoredDocs /\ r \in StoredDocs
        BY <1>8, <2>4, <4>1
      <4> QED  BY <2>3, <2>4, <4>1, <4>2, Zenon
    <3>2. CASE q = p /\ r # p
      BY <1>3, <1>7, <1>8, <2>2, <3>2
    <3>3. CASE q # p /\ r = p
      BY <1>3, <1>7, <1>8, <2>2, <3>3
    <3> QED  BY <2>4, <3>1, <3>2, <3>3
  <2> QED  BY <2>4 DEF Unique
<1>11. VectorIsItsOwn'
  BY <1>3, <1>7, <1>8 DEF DocsOk, VectorIsItsOwn
<1>12. NumberedByWrite'
  BY <1>3, <1>7, <1>9 DEF NumberedByWrite
<1> QED  BY <1>1, <1>3, <1>7, <1>10, <1>11, <1>12 DEF DocsOk

\* A document is marked, or is not.
LEMMA StaleWritten ==
  ASSUME NEW doc \in Doc
  PROVE  LET n == [doc EXCEPT !.stale = TRUE]
         IN  /\ n \in Doc /\ n.id = doc.id /\ n.text = doc.text /\ n.model = doc.model /\ n.vec = doc.vec
             /\ n.stale = TRUE
<1>1. PICK n : n = [doc EXCEPT !.stale = TRUE]
  OBVIOUS
<1>2. n = [id |-> doc.id, text |-> doc.text, stale |-> TRUE, model |-> doc.model, vec |-> doc.vec]
  BY <1>1 DEF Doc
<1>3. n \in Doc
  <2>1. /\ doc.id \in Ids /\ doc.text \in Puts \cup {None} /\ TRUE \in BOOLEAN /\ doc.model \in Models \cup {""}
        /\ doc.vec \in Puts \cup {None}
    BY DEF Doc
  <2> QED  BY <1>2, <2>1, Zenon DEF Doc
<1>4. n.id = doc.id /\ n.text = doc.text /\ n.model = doc.model /\ n.vec = doc.vec /\ n.stale = TRUE
  BY <1>2
<1> QED  BY <1>1, <1>3, <1>4

\* A mark changes no document but for the mark.
LEMMA DocsMarked ==
  ASSUME DocsOk, Answered' = Answered, NEW t, NEW marked, docs' = Marked(t, marked)
  PROVE  /\ DocsOk'
         /\ \A q \in DocTopics :
              /\ docs'[q].id = docs[q].id /\ docs'[q].text = docs[q].text /\ docs'[q].model = docs[q].model
              /\ docs'[q].stale = IF q \in marked /\ q.topic = t /\ docs[q].id > 0 THEN TRUE ELSE docs[q].stale
<1>1. docs \in [DocTopics -> Doc]
  BY DEF DocsOk
<1>2. ASSUME NEW q \in DocTopics
      PROVE  /\ docs'[q] \in Doc /\ docs'[q].id = docs[q].id /\ docs'[q].text = docs[q].text
             /\ docs'[q].model = docs[q].model /\ docs'[q].vec = docs[q].vec
             /\ docs'[q].stale = IF q \in marked /\ q.topic = t /\ docs[q].id > 0 THEN TRUE ELSE docs[q].stale
  <2>1. docs[q] \in Doc
    BY <1>1
  <2>2. CASE q \in marked /\ q.topic = t /\ docs[q].id > 0
    <3>1. docs'[q] = [docs[q] EXCEPT !.stale = TRUE]
      BY <2>2 DEF Marked
    <3> QED  BY <2>1, <2>2, <3>1, StaleWritten
  <2>3. CASE ~(q \in marked /\ q.topic = t /\ docs[q].id > 0)
    <3>1. docs'[q] = docs[q]
      BY <2>3 DEF Marked
    <3> QED  BY <2>1, <2>3, <3>1
  <2> QED  BY <2>2, <2>3
<1>3. docs' \in [DocTopics -> Doc]
  <2>1. docs' = [q \in DocTopics |-> docs'[q]]
    BY Zenon DEF Marked
  <2> QED  BY <1>2, <2>1
<1>4. StoredDocs' = StoredDocs /\ StoredDocs \subseteq DocTopics
  <2>1. StoredDocs = {p \in DocTopics : docs[p].id > 0}
    BY <1>1, StoredIs
  <2>2. StoredDocs' = {p \in DocTopics : docs'[p].id > 0}
    BY <1>3, StoredIsNext
  <2> QED  BY <1>2, <2>1, <2>2
<1>5. Unique'
  <2>1. \A p \in StoredDocs : p \in DocTopics /\ docs'[p].id = docs[p].id
    BY <1>2, <1>4
  <2>2. \A p, q \in StoredDocs : p # q => docs[p].id # docs[q].id
    BY DEF DocsOk, Unique
  <2>3. ASSUME NEW p \in StoredDocs', NEW q \in StoredDocs', p # q  PROVE docs'[p].id # docs'[q].id
    BY <1>4, <2>1, <2>2, <2>3
  <2> QED  BY <2>3 DEF Unique
<1>6. VectorIsItsOwn'
  BY <1>2, <1>4 DEF DocsOk, VectorIsItsOwn
<1>7. NumberedByWrite'
  BY <1>2 DEF DocsOk, NumberedByWrite
<1>8. DocsOk'
  BY <1>3, <1>5, <1>6, <1>7 DEF DocsOk
<1> QED  BY <1>2, <1>8

\* Documents are forgotten.
LEMMA DocsForgotten ==
  ASSUME Written, DocsOk, Answered' = Answered, NEW gone,
         docs' = [p \in DocTopics |-> IF p \in gone THEN NoDoc ELSE docs[p]]
  PROVE  DocsOk' /\ \A p \in DocTopics : IF p \in gone THEN docs'[p].id = 0 ELSE docs'[p] = docs[p]
<1>1. docs \in [DocTopics -> Doc]
  BY DEF DocsOk
<1>2. NoDoc \in Doc
  <2>1. 0 \in Ids /\ None \in Puts \cup {None} /\ FALSE \in BOOLEAN /\ "" \in Models \cup {""}
    BY DEF Ids, None
  <2> QED  BY <2>1, Zenon DEF NoDoc, Doc
<1>3. NoDoc.id = 0 /\ NoDoc.text = 0 /\ NoDoc.model = ""
  BY DEF NoDoc, None
<1>4. \A p \in DocTopics : docs'[p] = IF p \in gone THEN NoDoc ELSE docs[p]
  OBVIOUS
<1>5. docs' \in [DocTopics -> Doc]
  BY <1>1, <1>2
<1>6. StoredDocs = {q \in DocTopics : docs[q].id > 0} /\ StoredDocs' = {q \in DocTopics : docs'[q].id > 0}
  BY <1>1, <1>5, StoredIs, StoredIsNext
<1>7. \A p \in StoredDocs' : p \in StoredDocs /\ docs'[p] = docs[p]
  <2>1. ASSUME NEW p \in StoredDocs'  PROVE p \in StoredDocs /\ docs'[p] = docs[p]
    <3>1. p \in DocTopics /\ docs'[p].id > 0
      BY <1>6, <2>1
    <3>2. ASSUME p \in gone  PROVE FALSE
      <4>1. docs'[p] = NoDoc
        BY <1>4, <3>1, <3>2
      <4>2. docs'[p].id = 0
        BY <1>3, <4>1
      <4> QED  BY <3>1, <4>2
    <3> QED  BY <1>4, <1>6, <3>1, <3>2
  <2> QED  BY <2>1
<1>8. Unique'
  BY <1>7 DEF DocsOk, Unique
<1>9. VectorIsItsOwn'
  BY <1>7 DEF DocsOk, VectorIsItsOwn
<1>10. NumberedByWrite'
  BY <1>3, <1>4 DEF DocsOk, NumberedByWrite
<1>11. DocsOk'
  BY <1>5, <1>8, <1>9, <1>10 DEF DocsOk
<1> QED  BY <1>3, <1>4, <1>11

-----------------------------------------------------------------------------
(* Writes                                                                  *)

\* Everything the invariant says, sorted by what it is about.
KbOk == kb \in [Topics -> Entry] /\ unsure \subseteq Topics /\ WordsFollowEntry
AskOk(j) ==
  /\ ask[j].failed \/ ask[j].missed = {}
  /\ ask[j].at # "answered" => ask[j].missed = {}
  /\ ask[j].due \subseteq Answered /\ \A r \in ask[j].read : r[1] = r[2]
  /\ ask[j].at \in Unanswered => ask[j].model = model
  /\ ask[j].at = "embedding" =>
       \A p \in DocTopics : docs[p].id > 0 /\ docs[p].id \in ask[j].due =>
         docs[p].model = ask[j].model \/ \E r \in ask[j].read : r[1] = docs[p].id
  /\ ask[j].at = "filled" /\ ~ask[j].failed =>
       \A p \in DocTopics : docs[p].id > 0 /\ docs[p].id \in ask[j].due => docs[p].model = ask[j].model
HandlersOk == put \in [Puts -> PutHandler] /\ model \in Models /\ lives \in 1 .. MaxLives
KnowledgeIInv == DocsOk /\ KbOk /\ HandlersOk /\ ask \in [Asks -> AskHandler] /\ \A j \in Asks : AskOk(j)

\* A topic has a place for its prose and one for its entry's words.
LEMMA TopicsOfDocs ==
  /\ \A t \in Topics : Prose(t) \in DocTopics /\ Words(t) \in DocTopics /\ Prose(t).topic = t /\ Words(t).topic = t
  /\ \A t, u \in Topics : Prose(t) # Words(u) /\ (Words(t) = Words(u) => t = u)
  /\ \A p \in DocTopics : p.topic \in Topics /\ (p.of = "entry" => p = Words(p.topic))
  /\ \A p \in DocTopics, t \in Topics : p.of = "prose" => p # Words(t)
BY DEF Prose, Words, DocTopics

\* A question that is left alone stays as it should be, whatever is written,
\* marked or forgotten beside it.
LEMMA AskStays ==
  ASSUME NEW j \in Asks, AskOk(j), ask'[j] = ask[j], model' = model, Answered \subseteq Answered',
         \A p \in DocTopics :
           \/ docs'[p].id = 0 \/ docs'[p].id \notin Answered
           \/ docs'[p].id = docs[p].id /\ (docs'[p].model = docs[p].model \/ docs'[p].model = model)
  PROVE  AskOk(j)'
<1>1. (ask'[j].failed \/ ask'[j].missed = {}) /\ (ask'[j].at # "answered" => ask'[j].missed = {})
  BY DEF AskOk
<1>2. ask'[j].due \subseteq Answered' /\ \A r \in ask'[j].read : r[1] = r[2]
  BY DEF AskOk
<1>3. ask'[j].at \in Unanswered => ask'[j].model = model'
  BY DEF AskOk
<1>4. ASSUME NEW p \in DocTopics, docs'[p].id > 0, docs'[p].id \in ask[j].due
      PROVE  docs'[p].id = docs[p].id /\ (docs'[p].model = docs[p].model \/ docs'[p].model = model)
  BY <1>4 DEF AskOk
<1>5. ASSUME ask[j].at = "embedding", NEW p \in DocTopics, docs'[p].id > 0, docs'[p].id \in ask[j].due
      PROVE  docs'[p].model = ask[j].model \/ \E r \in ask[j].read : r[1] = docs'[p].id
  BY <1>4, <1>5 DEF AskOk, Unanswered
<1>6. ASSUME ask[j].at = "filled", ~ask[j].failed, NEW p \in DocTopics, docs'[p].id > 0, docs'[p].id \in ask[j].due
      PROVE  docs'[p].model = ask[j].model
  BY <1>4, <1>6 DEF AskOk, Unanswered
<1> QED  BY <1>1, <1>2, <1>3, <1>5, <1>6 DEF AskOk, Unanswered

\* A write that is answered.
LEMMA WriteAnswered ==
  ASSUME put \in [Puts -> PutHandler], NEW i \in Puts, put' = [put EXCEPT ![i] = [NoPut EXCEPT !.at = "answered"]]
  PROVE  put' \in [Puts -> PutHandler] /\ i \in Answered' /\ Answered \subseteq Answered'
<1>1. PICK n : n = [NoPut EXCEPT !.at = "answered"]
  OBVIOUS
<1>2. n = [at |-> "answered", to |-> {}, model |-> ""]
  BY <1>1 DEF NoPut
<1>3. n \in PutHandler /\ n.at = "answered"
  BY <1>2 DEF PutHandler
<1>4. put' = [put EXCEPT ![i] = n]
  BY <1>1
<1> QED  BY <1>3, <1>4 DEF Answered

\* A write has its text made into a vector.
LEMMA WriteSent ==
  ASSUME KnowledgeIInv, NEW i \in Puts, NEW p \in DocTopics, NEW answers \in BOOLEAN, embedKBDoc(i, p, answers)
  PROVE  KnowledgeIInv'
<1>1. put' \in [Puts -> PutHandler] /\ Answered \subseteq Answered'
  <2>1. PICK n : n = [at |-> "embedded", to |-> {p}, model |-> IF answers THEN model ELSE ""]
    OBVIOUS
  <2>2. (IF answers THEN model ELSE "") \in Models \cup {""} /\ {p} \in SUBSET DocTopics
    BY DEF KnowledgeIInv, HandlersOk
  <2>3. n \in PutHandler
    BY <2>1, <2>2, Zenon DEF PutHandler
  <2>4. put' = [put EXCEPT ![i] = n] /\ put \in [Puts -> PutHandler] /\ put[i].at # "answered"
    BY <2>1 DEF embedKBDoc, KnowledgeIInv, HandlersOk
  <2> QED  BY <2>3, <2>4 DEF Answered
<1>2. kb' = kb /\ docs' = docs /\ unsure' = unsure /\ model' = model /\ ask' = ask /\ lives' = lives
  BY DEF embedKBDoc
<1>3. \A j \in Asks : AskOk(j)'
  BY <1>1, <1>2, AskStays DEF KnowledgeIInv
<1>4. DocsOk'
  BY <1>1, <1>2 DEF KnowledgeIInv, DocsOk, Unique, VectorIsItsOwn, NumberedByWrite, StoredDocs
<1>5. KbOk'
  BY <1>2 DEF KnowledgeIInv, KbOk, WordsFollowEntry
<1>6. HandlersOk'
  BY <1>1, <1>2 DEF KnowledgeIInv, HandlersOk
<1> QED  BY <1>2, <1>3, <1>4, <1>5, <1>6 DEF KnowledgeIInv

\* A write that is answered leaves the questions as they should be.
LEMMA AsksBesideWrites ==
  ASSUME KnowledgeIInv, ask' = ask, model' = model, Answered \subseteq Answered',
         \A p \in DocTopics :
           docs'[p].id = 0 \/ docs'[p].id \notin Answered \/ (docs'[p].id = docs[p].id /\ docs'[p].model = docs[p].model)
  PROVE  ask' \in [Asks -> AskHandler] /\ \A j \in Asks : AskOk(j)'
<1>1. ASSUME NEW j \in Asks  PROVE AskOk(j)'
  <2>1. AskOk(j) /\ ask'[j] = ask[j]
    BY DEF KnowledgeIInv
  <2> QED  BY <2>1, AskStays
<1> QED  BY <1>1 DEF KnowledgeIInv

\* The handler of a write, when it answers.
LEMMA Answering ==
  ASSUME KnowledgeIInv, NEW i \in Puts, put[i].at = "embedded", Answers(i)
  PROVE  /\ HandlersOk' /\ i \in Answered' /\ Answered \subseteq Answered' /\ ask' = ask /\ model' = model
         /\ put[i].model \in Models \cup {""} /\ put[i].to \subseteq DocTopics
<1>1. put \in [Puts -> PutHandler] /\ model \in Models /\ lives \in 1 .. MaxLives
  BY DEF KnowledgeIInv, HandlersOk
<1>2. put' = [put EXCEPT ![i] = [NoPut EXCEPT !.at = "answered"]] /\ model' = model /\ ask' = ask /\ lives' = lives
  BY DEF Answers
<1>3. put' \in [Puts -> PutHandler] /\ i \in Answered' /\ Answered \subseteq Answered'
  BY <1>1, <1>2, WriteAnswered
<1>4. put[i].model \in Models \cup {""} /\ put[i].to \subseteq DocTopics
  BY <1>1 DEF PutHandler
<1> QED  BY <1>1, <1>2, <1>3, <1>4 DEF HandlersOk

\* A document is stored under the number of its write.
LEMMA DocumentWritten ==
  ASSUME Written, KnowledgeIInv, NEW i \in Puts, putKBDoc(i)
  PROVE  KnowledgeIInv'
<1>1. put[i].at = "embedded" /\ Answers(i) /\ kb' = kb /\ unsure' = unsure
  BY DEF putKBDoc
<1>2. PICK p \in put[i].to : p.of = "prose" /\ docs' = storeKBDoc(p, i)
  BY DEF putKBDoc
<1>3. /\ HandlersOk' /\ i \in Answered' /\ Answered \subseteq Answered' /\ ask' = ask /\ model' = model
      /\ put[i].model \in Models \cup {""} /\ p \in DocTopics
  BY <1>1, <1>2, Answering
<1>4. /\ DocsOk' /\ docs'[p].id = i /\ i \notin Answered
      /\ \A q \in DocTopics : q # p => docs'[q] = docs[q]
  BY <1>1, <1>2, <1>3, DocStored DEF KnowledgeIInv
<1>5. KbOk'
  <2>1. \A t \in Topics : Words(t) \in DocTopics /\ Words(t) # p
    BY <1>2, <1>3, TopicsOfDocs
  <2>2. \A t \in Topics : docs'[Words(t)] = docs[Words(t)]
    BY <1>4, <2>1
  <2> QED  BY <1>1, <2>2 DEF KnowledgeIInv, KbOk, WordsFollowEntry
<1>6. ask' \in [Asks -> AskHandler] /\ \A j \in Asks : AskOk(j)'
  BY <1>3, <1>4, AsksBesideWrites
<1> QED  BY <1>3, <1>4, <1>5, <1>6 DEF KnowledgeIInv

\* A write of an entry's words fails after the entry was stored.
LEMMA WriteFailed ==
  ASSUME KnowledgeIInv, NEW i \in Puts, PutFails(i)
  PROVE  KnowledgeIInv'
<1>1. put[i].at = "embedded" /\ Answers(i) /\ kb' = kb /\ unsure' = unsure /\ docs' = docs
  BY DEF PutFails
<1>2. HandlersOk' /\ Answered \subseteq Answered' /\ ask' = ask /\ model' = model
  BY <1>1, Answering
<1>3. DocsOk'
  BY <1>1, <1>2 DEF KnowledgeIInv, DocsOk, Unique, VectorIsItsOwn, NumberedByWrite, StoredDocs
<1>4. KbOk'
  BY <1>1 DEF KnowledgeIInv, KbOk, WordsFollowEntry
<1>5. ask' \in [Asks -> AskHandler] /\ \A j \in Asks : AskOk(j)'
  BY <1>1, <1>2, AsksBesideWrites
<1> QED  BY <1>2, <1>3, <1>4, <1>5 DEF KnowledgeIInv

\* The entry is written, and its words beside it, or the topic is one to doubt.
LEMMA EntryWritten ==
  ASSUME Written, KnowledgeIInv, NEW i \in Puts, NEW indexed \in BOOLEAN, putKB(i, indexed)
  PROVE  KnowledgeIInv'
<1>1. put[i].at = "embedded" /\ Answers(i)
  BY DEF putKB
<1>2. PICK p \in put[i].to :
        /\ p.of = "entry" /\ kb' = [kb EXCEPT ![p.topic] = [text |-> i, stale |-> FALSE]]
        /\ docs' = IF indexed THEN storeKBDoc(p, i) ELSE docs
        /\ unsure' = IF indexed THEN unsure \ {p.topic} ELSE unsure \cup {p.topic}
  BY DEF putKB
<1>3. /\ HandlersOk' /\ i \in Answered' /\ Answered \subseteq Answered' /\ ask' = ask /\ model' = model
      /\ put[i].model \in Models \cup {""} /\ p \in DocTopics
  BY <1>1, <1>2, Answering
<1>4. PICK t : t = p.topic
  OBVIOUS
<1>5. t \in Topics /\ p = Words(t)
  BY <1>2, <1>3, <1>4, TopicsOfDocs
<1>6. kb \in [Topics -> Entry] /\ unsure \subseteq Topics /\ docs \in [DocTopics -> Doc] /\ i # None
  BY DEF KnowledgeIInv, KbOk, DocsOk, Written, None
<1>7. PICK e : e = [text |-> i, stale |-> FALSE]
  OBVIOUS
<1>8. e \in Entry /\ e.text = i /\ e.stale = FALSE
  <2>1. i \in Puts \cup {None} /\ FALSE \in BOOLEAN
    OBVIOUS
  <2> QED  BY <1>7, <2>1, Zenon DEF Entry
<1>9. kb' \in [Topics -> Entry] /\ \A u \in Topics : kb'[u] = IF u = t THEN e ELSE kb[u]
  <2>1. kb' = [kb EXCEPT ![t] = e]
    BY <1>2, <1>4, <1>7, Zenon
  <2>2. kb \in [Topics -> Entry] /\ e \in Entry
    BY <1>6, <1>8
  <2> QED  BY <1>5, <2>1, <2>2
<1>10. /\ DocsOk' /\ \A q \in DocTopics : q # p => docs'[q] = docs[q]
       /\ (docs'[p].id = docs[p].id /\ docs'[p].model = docs[p].model) \/ docs'[p].id \notin Answered
       /\ indexed => docs'[p].text = i /\ docs'[p].stale = FALSE
  <2>1. CASE indexed
    <3>1. docs' = storeKBDoc(p, i)
      BY <1>2, <2>1
    <3>2. DocsOk
      BY DEF KnowledgeIInv
    <3>3. /\ DocsOk' /\ docs'[p].text = i /\ docs'[p].stale = FALSE /\ docs'[p].id = i /\ i \notin Answered
          /\ \A q \in DocTopics : q # p => docs'[q] = docs[q]
      BY <1>1, <1>3, <3>1, <3>2, DocStored
    <3> QED  BY <3>3, Zenon
  <2>2. CASE ~indexed
    <3>1. docs' = docs
      BY <1>2, <2>2
    <3>2. DocsOk'
      BY <1>3, <3>1 DEF KnowledgeIInv, DocsOk, Unique, VectorIsItsOwn, NumberedByWrite, StoredDocs
    <3> QED  BY <2>2, <3>1, <3>2
  <2> QED  BY <2>1, <2>2
<1>11. KbOk'
  <2>1. unsure' \subseteq Topics /\ \A u \in Topics : u # t /\ u \notin unsure' => u \notin unsure
    BY <1>2, <1>4, <1>5, <1>6
  <2>2. t \notin unsure' => indexed
    BY <1>2, <1>4
  <2>3. ASSUME NEW u \in Topics
        PROVE  /\ docs'[Words(u)].id > 0 => kb'[u].text # None
               /\ kb'[u].text # None /\ u \notin unsure' =>
                    docs'[Words(u)].text = kb'[u].text /\ docs'[Words(u)].stale = kb'[u].stale
    <3>1. CASE u = t
      BY <1>5, <1>6, <1>8, <1>9, <1>10, <2>2, <3>1
    <3>2. CASE u # t
      <4>1. Words(u) \in DocTopics /\ Words(u) # p
        BY <1>5, <3>2, TopicsOfDocs
      <4>2. docs'[Words(u)] = docs[Words(u)] /\ kb'[u] = kb[u]
        BY <1>9, <1>10, <3>2, <4>1
      <4> QED  BY <2>1, <3>2, <4>2 DEF KnowledgeIInv, KbOk, WordsFollowEntry
    <3> QED  BY <3>1, <3>2
  <2> QED  BY <1>9, <2>1, <2>3 DEF KbOk, WordsFollowEntry
<1>12. ask' \in [Asks -> AskHandler] /\ \A j \in Asks : AskOk(j)'
  BY <1>3, <1>10, AsksBesideWrites
<1> QED  BY <1>3, <1>10, <1>11, <1>12 DEF KnowledgeIInv

\* An entry is marked, or is not.
LEMMA EntryMarked ==
  ASSUME NEW e \in Entry, NEW b \in BOOLEAN
  PROVE  [e EXCEPT !.stale = b] \in Entry /\ [e EXCEPT !.stale = b].text = e.text /\ [e EXCEPT !.stale = b].stale = b
<1>1. PICK n : n = [e EXCEPT !.stale = b]
  OBVIOUS
<1>2. n = [text |-> e.text, stale |-> b]
  BY <1>1 DEF Entry
<1>3. n \in Entry
  <2>1. e.text \in Puts \cup {None}
    BY DEF Entry
  <2> QED  BY <1>2, <2>1, Zenon DEF Entry
<1> QED  BY <1>1, <1>2, <1>3

\* What was found false is marked wherever it is, or the topic is one to doubt.
LEMMA TopicMarked ==
  ASSUME Written, KnowledgeIInv, NEW t \in Topics, NEW marked \in SUBSET DocTopics, staleKB(t, marked)
  PROVE  KnowledgeIInv'
<1>1. /\ kb' = [kb EXCEPT ![t].stale = kb[t].text # None] /\ docs' = Marked(t, marked)
      /\ unsure' = IF Words(t) \in marked \/ kb[t].text = None THEN unsure ELSE unsure \cup {t}
      /\ model' = model /\ put' = put /\ ask' = ask /\ lives' = lives
  BY DEF staleKB
<1>2. kb \in [Topics -> Entry] /\ unsure \subseteq Topics /\ docs \in [DocTopics -> Doc]
  BY DEF KnowledgeIInv, KbOk, DocsOk
<1>3. Answered' = Answered
  BY <1>1 DEF Answered
<1>4. /\ DocsOk'
      /\ \A q \in DocTopics :
           /\ docs'[q].id = docs[q].id /\ docs'[q].text = docs[q].text /\ docs'[q].model = docs[q].model
           /\ docs'[q].stale = IF q \in marked /\ q.topic = t /\ docs[q].id > 0 THEN TRUE ELSE docs[q].stale
  BY <1>1, <1>3, DocsMarked DEF KnowledgeIInv
<1>5. PICK b \in BOOLEAN : b = (kb[t].text # None)
  OBVIOUS
<1>6. kb' \in [Topics -> Entry] /\ kb'[t].text = kb[t].text /\ kb'[t].stale = b /\ \A u \in Topics : u # t => kb'[u] = kb[u]
  <2>1. PICK n : n = [kb[t] EXCEPT !.stale = b]
    OBVIOUS
  <2>2. n \in Entry /\ n.text = kb[t].text /\ n.stale = b
    BY <1>2, <2>1, EntryMarked
  <2>3. kb' = [kb EXCEPT ![t] = n]
    BY <1>1, <1>5, <2>1, Zenon
  <2> QED  BY <1>2, <2>2, <2>3
<1>7. KbOk'
  <2>1. unsure' \subseteq Topics /\ unsure \subseteq unsure'
    BY <1>1, <1>2
  <2>2. ASSUME NEW u \in Topics
        PROVE  /\ docs'[Words(u)].id > 0 => kb'[u].text # None
               /\ kb'[u].text # None /\ u \notin unsure' =>
                    docs'[Words(u)].text = kb'[u].text /\ docs'[Words(u)].stale = kb'[u].stale
    <3> DEFINE w == Words(u)
    <3>1. w \in DocTopics /\ w.topic = u
      BY TopicsOfDocs
    <3>2. /\ docs'[w].id = docs[w].id /\ docs'[w].text = docs[w].text
          /\ docs'[w].stale = IF w \in marked /\ w.topic = t /\ docs[w].id > 0 THEN TRUE ELSE docs[w].stale
      BY <1>4, <3>1
    <3>3. /\ docs[w].id > 0 => kb[u].text # None
          /\ kb[u].text # None /\ u \notin unsure => docs[w].text = kb[u].text /\ docs[w].stale = kb[u].stale
      BY DEF KnowledgeIInv, KbOk, WordsFollowEntry
    <3>4. docs[w].id = docs[w].text /\ docs[w].id \in Nat
      <4>1. docs[w].id \in Ids
        BY <1>2, <3>1 DEF Doc
      <4>2. docs[w].id = docs[w].text
        BY <3>1 DEF KnowledgeIInv, DocsOk, NumberedByWrite
      <4>3. \A n \in Ids : n \in Nat
        BY DEF Ids, Written
      <4> HIDE DEF w
      <4> QED  BY <4>1, <4>2, <4>3
    <3>5. docs'[w].id > 0 => kb'[u].text # None
      BY <1>6, <3>2, <3>3
    <3>6. CASE u # t
      <4>1. kb'[u] = kb[u] /\ docs'[w].stale = docs[w].stale
        BY <1>6, <3>1, <3>2, <3>6
      <4> QED  BY <2>1, <3>2, <3>3, <3>5, <4>1
    <3>7. ASSUME u = t, kb'[u].text # None, u \notin unsure'
          PROVE  docs'[w].text = kb'[u].text /\ docs'[w].stale = kb'[u].stale
      <4>1. kb[t].text # None /\ t \notin unsure'
        BY <1>6, <3>7
      <4>2. w \in marked /\ t \notin unsure
        BY <1>1, <3>7, <4>1
      <4>3. docs[w].text = kb[t].text /\ docs[w].id > 0
        BY <3>3, <3>4, <3>7, <4>1, <4>2 DEF None
      <4>4. docs'[w].stale = TRUE
        BY <3>1, <3>2, <3>7, <4>2, <4>3
      <4>5. kb'[t].stale = TRUE
        BY <1>5, <1>6, <4>1
      <4> QED  BY <1>6, <3>2, <3>7, <4>3, <4>4, <4>5
    <3> QED  BY <3>5, <3>6, <3>7
  <2> QED  BY <1>6, <2>1, <2>2 DEF KbOk, WordsFollowEntry
<1>8. ask' \in [Asks -> AskHandler] /\ \A j \in Asks : AskOk(j)'
  BY <1>1, <1>3, <1>4, AsksBesideWrites
<1>9. HandlersOk'
  BY <1>1 DEF KnowledgeIInv, HandlersOk
<1> QED  BY <1>4, <1>7, <1>8, <1>9 DEF KnowledgeIInv

\* A topic is forgotten outright.
LEMMA TopicForgotten ==
  ASSUME Written, KnowledgeIInv, NEW t \in Topics, forgetKB(t)
  PROVE  KnowledgeIInv'
<1>1. /\ kb' = [kb EXCEPT ![t] = NoEntry] /\ unsure' = unsure \ {t}
      /\ docs' = [p \in DocTopics |-> IF p \in Forgotten(t) THEN NoDoc ELSE docs[p]]
      /\ model' = model /\ put' = put /\ ask' = ask /\ lives' = lives
  BY DEF forgetKB
<1>2. kb \in [Topics -> Entry] /\ unsure \subseteq Topics
  BY DEF KnowledgeIInv, KbOk
<1>3. Answered' = Answered
  BY <1>1 DEF Answered
<1>4. DocsOk' /\ \A p \in DocTopics : IF p \in Forgotten(t) THEN docs'[p].id = 0 ELSE docs'[p] = docs[p]
  BY <1>1, <1>3, DocsForgotten DEF KnowledgeIInv
<1>5. NoEntry \in Entry /\ NoEntry.text = None
  <2>1. None \in Puts \cup {None} /\ FALSE \in BOOLEAN
    OBVIOUS
  <2> QED  BY <2>1, Zenon DEF NoEntry, Entry
<1>6. kb' \in [Topics -> Entry] /\ kb'[t].text = None /\ \A u \in Topics : u # t => kb'[u] = kb[u]
  BY <1>1, <1>2, <1>5
<1>7. KbOk'
  <2>1. ASSUME NEW u \in Topics
        PROVE  /\ docs'[Words(u)].id > 0 => kb'[u].text # None
               /\ kb'[u].text # None /\ u \notin unsure' =>
                    docs'[Words(u)].text = kb'[u].text /\ docs'[Words(u)].stale = kb'[u].stale
    <3>1. CASE u = t
      <4>1. Words(t) \in DocTopics /\ Words(t) \in Forgotten(t)
        BY TopicsOfDocs DEF Forgotten
      <4>2. docs'[Words(t)].id = 0
        BY <1>4, <4>1
      <4> QED  BY <1>6, <3>1, <4>2
    <3>2. CASE u # t
      <4>1. Words(u) \in DocTopics /\ Words(u) \notin Forgotten(t)
        BY <3>2, TopicsOfDocs DEF Forgotten
      <4>2. docs'[Words(u)] = docs[Words(u)] /\ kb'[u] = kb[u]
        BY <1>4, <1>6, <3>2, <4>1
      <4> QED  BY <1>1, <3>2, <4>2 DEF KnowledgeIInv, KbOk, WordsFollowEntry
    <3> QED  BY <3>1, <3>2
  <2>2. unsure' \subseteq Topics
    BY <1>1, <1>2
  <2> QED  BY <1>6, <2>1, <2>2 DEF KbOk, WordsFollowEntry
<1>8. ask' \in [Asks -> AskHandler] /\ \A j \in Asks : AskOk(j)'
  BY <1>1, <1>3, <1>4, AsksBesideWrites
<1>9. HandlersOk'
  BY <1>1 DEF KnowledgeIInv, HandlersOk
<1> QED  BY <1>4, <1>7, <1>8, <1>9 DEF KnowledgeIInv

-----------------------------------------------------------------------------
(* Questions                                                               *)

\* The handler of one question moves, the others stay where they are.
LEMMA AskWritten ==
  ASSUME KnowledgeIInv, NEW j \in Asks, NEW n \in AskHandler, Ask(j, n),
         \A p \in DocTopics :
           /\ docs'[p].id = docs[p].id /\ docs'[p].text = docs[p].text /\ docs'[p].stale = docs[p].stale
           /\ docs'[p].model = docs[p].model \/ docs'[p].model = model,
         DocsOk', AskOk(j)'
  PROVE  KnowledgeIInv'
<1>1. /\ ask' = [ask EXCEPT ![j] = n] /\ ask \in [Asks -> AskHandler]
      /\ kb' = kb /\ unsure' = unsure /\ model' = model /\ put' = put /\ lives' = lives
  BY DEF Ask, KnowledgeIInv
<1>2. ask' \in [Asks -> AskHandler] /\ \A k \in Asks : k # j => ask'[k] = ask[k]
  BY <1>1
<1>3. KbOk' /\ HandlersOk'
  <2>1. KbOk /\ HandlersOk
    BY DEF KnowledgeIInv
  <2>2. \A t \in Topics : Words(t) \in DocTopics
    BY TopicsOfDocs
  <2>3. WordsFollowEntry'
    BY <1>1, <2>1, <2>2 DEF KbOk, WordsFollowEntry
  <2> QED  BY <1>1, <2>1, <2>3 DEF KbOk, HandlersOk
<1>4. ASSUME NEW k \in Asks  PROVE AskOk(k)'
  <2>1. CASE k = j
    BY <2>1
  <2>2. CASE k # j
    <3>1. AskOk(k) /\ ask'[k] = ask[k] /\ Answered' = Answered
      BY <1>1, <1>2, <2>2 DEF KnowledgeIInv, Answered
    <3> QED  BY <1>1, <3>1, AskStays
  <2> QED  BY <2>1, <2>2
<1> QED  BY <1>2, <1>3, <1>4 DEF KnowledgeIInv

\* The ids of documents are numbers of writes that were answered.
LEMMA IdsAnswered ==
  ASSUME Written, KnowledgeIInv
  PROVE  /\ IdsOf(StoredDocs) \subseteq Answered /\ Answered \subseteq Puts /\ Puts \subseteq Ids
         /\ \A p \in DocTopics : docs[p].id > 0 => docs[p].id \in Answered /\ docs[p].text = docs[p].id
<1>1. docs \in [DocTopics -> Doc]
  BY DEF KnowledgeIInv, DocsOk
<1>2. \A p \in DocTopics : docs[p].id \in Answered \cup {0} /\ docs[p].id = docs[p].text
  BY DEF KnowledgeIInv, DocsOk, NumberedByWrite
<1>3. ASSUME NEW p \in DocTopics, docs[p].id > 0  PROVE docs[p].id \in Answered /\ docs[p].text = docs[p].id
  BY <1>2, <1>3
<1>4. IdsOf(StoredDocs) \subseteq Answered
  BY <1>1, <1>3, StoredIs DEF IdsOf
<1> QED  BY <1>3, <1>4 DEF Answered, Ids

\* Documents nobody writes to stay as they should be.
LEMMA SameDocs ==
  ASSUME KnowledgeIInv, docs' = docs, put' = put
  PROVE  DocsOk'
BY DEF KnowledgeIInv, DocsOk, Unique, VectorIsItsOwn, NumberedByWrite, StoredDocs, Answered

\* A question is asked: it is due what is stored at that moment.
LEMMA QuestionAsked ==
  ASSUME Written, KnowledgeIInv, NEW j \in Asks, NEW answers \in BOOLEAN, askKB(j, answers)
  PROVE  KnowledgeIInv'
<1>1. docs' = docs /\ Ask(j, IF answers THEN [NoAsk EXCEPT !.at = "asked", !.model = model, !.due = IdsOf(StoredDocs)]
                             ELSE [NoAsk EXCEPT !.at = "answered"])
  BY DEF askKB
<1>2. PICK at, m, due :
        /\ at = (IF answers THEN "asked" ELSE "answered")
        /\ m = (IF answers THEN model ELSE "")
        /\ due = (IF answers THEN IdsOf(StoredDocs) ELSE {})
  OBVIOUS
<1>3. PICK n : n = [at |-> at, model |-> m, due |-> due, read |-> {}, failed |-> FALSE, missed |-> {}]
  OBVIOUS
<1>4. n = IF answers THEN [NoAsk EXCEPT !.at = "asked", !.model = model, !.due = IdsOf(StoredDocs)]
          ELSE [NoAsk EXCEPT !.at = "answered"]
  <2>1. CASE answers
    BY <1>2, <1>3, <2>1 DEF NoAsk
  <2>2. CASE ~answers
    BY <1>2, <1>3, <2>2 DEF NoAsk
  <2> QED  BY <2>1, <2>2
<1>5. n \in AskHandler
  <2>1. at \in {"unsent", "asked", "embedding", "filled", "answered"}
    BY <1>2
  <2>2. m \in Models \cup {""}
    BY <1>2 DEF KnowledgeIInv, HandlersOk
  <2>3. due \in SUBSET Ids
    BY <1>2, IdsAnswered
  <2>4. {} \in SUBSET (Ids \X Puts) /\ {} \in SUBSET Ids /\ FALSE \in BOOLEAN
    OBVIOUS
  <2> QED  BY <1>3, <2>1, <2>2, <2>3, <2>4, Zenon DEF AskHandler
<1>6. Ask(j, n)
  BY <1>1, <1>4, Zenon
<1>7. ask'[j] = n /\ model' = model /\ Answered' = Answered /\ put' = put
  BY <1>6 DEF Ask, KnowledgeIInv, Answered
<1>8. AskOk(j)'
  <2>1. n.at = at /\ n.model = m /\ n.due = due /\ n.read = {} /\ n.missed = {}
    BY <1>3
  <2>2. n.due \subseteq Answered
    BY <1>2, <2>1, IdsAnswered
  <2>3. n.at \in {"asked", "answered"} /\ (n.at = "asked" => n.model = model)
    BY <1>2, <2>1
  <2> QED  BY <1>7, <2>1, <2>2, <2>3 DEF AskOk, Unanswered
<1>9. DocsOk'
  BY <1>1, <1>7, SameDocs
<1> QED  BY <1>1, <1>5, <1>6, <1>8, <1>9, AskWritten

\* What a handler is when some of it has changed.
LEMMA HandlerReads ==
  ASSUME NEW h \in AskHandler, NEW a1, NEW r1
  PROVE  [h EXCEPT !.at = a1, !.read = r1]
           = [at |-> a1, model |-> h.model, due |-> h.due, read |-> r1, failed |-> h.failed, missed |-> h.missed]
<1>1. PICK g : g = [h EXCEPT !.at = a1]
  OBVIOUS
<1>2. g = [at |-> a1, model |-> h.model, due |-> h.due, read |-> h.read, failed |-> h.failed, missed |-> h.missed]
  BY <1>1 DEF AskHandler
<1>3. [g EXCEPT !.read = r1]
        = [at |-> a1, model |-> h.model, due |-> h.due, read |-> r1, failed |-> h.failed, missed |-> h.missed]
  BY <1>2
<1> QED  BY <1>1, <1>3, Zenon

\* What a handler is once it read what has no vector, or wrote it.
LEMMA HandlerFills ==
  ASSUME NEW h \in AskHandler, NEW a1, NEW r1, NEW x1
  PROVE  [h EXCEPT !.at = a1, !.read = r1, !.failed = x1]
           = [at |-> a1, model |-> h.model, due |-> h.due, read |-> r1, failed |-> x1, missed |-> h.missed]
<1>1. PICK g : g = [h EXCEPT !.at = a1, !.read = r1]
  OBVIOUS
<1>2. g = [at |-> a1, model |-> h.model, due |-> h.due, read |-> r1, failed |-> h.failed, missed |-> h.missed]
  BY <1>1, HandlerReads, Zenon
<1>3. [g EXCEPT !.failed = x1]
        = [at |-> a1, model |-> h.model, due |-> h.due, read |-> r1, failed |-> x1, missed |-> h.missed]
  BY <1>2
<1> QED  BY <1>1, <1>3, Zenon

\* What a handler is once it answered.
LEMMA HandlerAnswers ==
  ASSUME NEW h \in AskHandler, NEW a1, NEW x1
  PROVE  [h EXCEPT !.at = a1, !.missed = x1]
           = [at |-> a1, model |-> h.model, due |-> h.due, read |-> h.read, failed |-> h.failed, missed |-> x1]
<1>1. PICK g : g = [h EXCEPT !.at = a1]
  OBVIOUS
<1>2. g = [at |-> a1, model |-> h.model, due |-> h.due, read |-> h.read, failed |-> h.failed, missed |-> h.missed]
  BY <1>1 DEF AskHandler
<1>3. [g EXCEPT !.missed = x1]
        = [at |-> a1, model |-> h.model, due |-> h.due, read |-> h.read, failed |-> h.failed, missed |-> x1]
  BY <1>2
<1> QED  BY <1>1, <1>3, Zenon

\* What a handler is made of.
LEMMA HandlerTypes ==
  ASSUME NEW h \in AskHandler
  PROVE  /\ h.at \in {"unsent", "asked", "embedding", "filled", "answered"} /\ h.model \in Models \cup {""}
         /\ h.due \in SUBSET Ids /\ h.read \in SUBSET (Ids \X Puts) /\ h.failed \in BOOLEAN /\ h.missed \in SUBSET Ids
BY Zenon DEF AskHandler

\* A question reads what has no vector of its model.
LEMMA TextsRead ==
  ASSUME Written, KnowledgeIInv, NEW j \in Asks, ask[j].at = "asked", kbBackfillReads(j)
  PROVE  KnowledgeIInv'
<1> DEFINE read == {<<docs[p].id, docs[p].text>> : p \in Uncompared(j)}
<1>1. docs' = docs /\ Ask(j, [ask[j] EXCEPT !.at = IF Uncompared(j) = {} THEN "filled" ELSE "embedding", !.read = read])
  BY DEF kbBackfillReads
<1>2. ask[j] \in AskHandler /\ docs \in [DocTopics -> Doc] /\ AskOk(j)
  BY DEF KnowledgeIInv, DocsOk
<1>3. PICK at : at = IF Uncompared(j) = {} THEN "filled" ELSE "embedding"
  OBVIOUS
<1>4. Uncompared(j) = {p \in DocTopics : docs[p].id > 0 /\ (docs[p].vec = None \/ docs[p].model # ask[j].model)}
  BY <1>2, StoredIs DEF Uncompared
<1>5. /\ read \in SUBSET (Ids \X Puts) /\ \A r \in read : r[1] = r[2]
      /\ \A p \in DocTopics : docs[p].id > 0 => docs[p].model = ask[j].model \/ \E r \in read : r[1] = docs[p].id
      /\ Uncompared(j) = {} => \A p \in DocTopics : docs[p].id > 0 => docs[p].model = ask[j].model
  <2>1. \A p \in Uncompared(j) : p \in DocTopics /\ docs[p].id \in Ids /\ docs[p].text = docs[p].id /\ docs[p].id \in Puts
    BY <1>4, IdsAnswered
  <2>2. read \in SUBSET (Ids \X Puts) /\ \A r \in read : r[1] = r[2]
    BY <2>1
  <2>3. ASSUME NEW p \in DocTopics, docs[p].id > 0, docs[p].model # ask[j].model
        PROVE  p \in Uncompared(j) /\ \E r \in read : r[1] = docs[p].id
    <3>1. p \in Uncompared(j)
      BY <1>4, <2>3
    <3>2. <<docs[p].id, docs[p].text>> \in read
      BY <3>1
    <3> QED  BY <3>1, <3>2
  <2> QED  BY <2>2, <2>3
<1> HIDE DEF read
<1>6. PICK n : n = [at |-> at, model |-> ask[j].model, due |-> ask[j].due, read |-> read,
                    failed |-> ask[j].failed, missed |-> ask[j].missed]
  OBVIOUS
<1>7. n = [ask[j] EXCEPT !.at = at, !.read = read]
  BY <1>2, <1>6, HandlerReads, Zenon
<1>8. n \in AskHandler
  <2>1. at \in {"unsent", "asked", "embedding", "filled", "answered"}
    BY <1>3
  <2> QED  BY <1>2, <1>5, <1>6, <2>1, HandlerTypes, Zenon DEF AskHandler
<1>9. Ask(j, n)
  BY <1>1, <1>3, <1>7, Zenon
<1>10. ask'[j] = n /\ model' = model /\ Answered' = Answered /\ put' = put
  BY <1>9 DEF Ask, KnowledgeIInv, Answered
<1>11. AskOk(j)'
  <2>1. n.at = at /\ n.model = ask[j].model /\ n.due = ask[j].due /\ n.read = read /\ n.failed = ask[j].failed /\ n.missed = ask[j].missed
    BY <1>6
  <2>2. n.missed = {}
    BY <1>2, <2>1 DEF AskOk
  <2>3. n.due \subseteq Answered /\ \A r \in n.read : r[1] = r[2]
    BY <1>2, <1>5, <2>1 DEF AskOk
  <2>4. n.model = model
    BY <1>2, <2>1 DEF AskOk, Unanswered
  <2>5. \A p \in DocTopics : docs[p].id > 0 => docs[p].model = n.model \/ \E r \in n.read : r[1] = docs[p].id
    BY <1>5, <2>1
  <2>6. n.at = "filled" => \A p \in DocTopics : docs[p].id > 0 => docs[p].model = n.model
    BY <1>3, <1>5, <2>1
  <2> QED  BY <1>1, <1>10, <2>2, <2>3, <2>4, <2>5, <2>6 DEF AskOk
<1>12. DocsOk'
  BY <1>1, <1>10, SameDocs
<1> QED  BY <1>1, <1>8, <1>9, <1>11, <1>12, AskWritten

\* A question is answered from all it was due that is still there.
LEMMA QuestionAnswered ==
  ASSUME Written, KnowledgeIInv, NEW j \in Asks, askAnswers(j)
  PROVE  KnowledgeIInv'
<1> DEFINE missed == (ask[j].due \cap IdsOf(StoredDocs)) \ IdsOf(Hits(j))
<1>1. docs' = docs /\ ask[j].at = "filled" /\ Ask(j, [ask[j] EXCEPT !.at = "answered", !.missed = missed])
  BY DEF askAnswers
<1>2. ask[j] \in AskHandler /\ docs \in [DocTopics -> Doc] /\ AskOk(j)
  BY DEF KnowledgeIInv, DocsOk
<1>3. missed \in SUBSET Ids /\ (~ask[j].failed => missed = {})
  <2>1. missed \in SUBSET Ids
    BY <1>2, HandlerTypes
  <2>2. ASSUME ~ask[j].failed, NEW n \in missed  PROVE FALSE
    <3>1. PICK p \in StoredDocs : docs[p].id = n
      BY <2>2 DEF IdsOf
    <3>2. p \in DocTopics /\ docs[p].id > 0 /\ docs[p].id \in ask[j].due
      BY <1>2, <2>2, <3>1, StoredIs
    <3>3. docs[p].model = ask[j].model
      BY <1>1, <1>2, <2>2, <3>2 DEF AskOk
    <3>4. p \in Hits(j)
      BY <3>1, <3>3 DEF Hits
    <3> QED  BY <2>2, <3>1, <3>4 DEF IdsOf
  <2> QED  BY <2>1, <2>2
<1> HIDE DEF missed
<1>4. PICK n : n = [at |-> "answered", model |-> ask[j].model, due |-> ask[j].due, read |-> ask[j].read,
                    failed |-> ask[j].failed, missed |-> missed]
  OBVIOUS
<1>5. n = [ask[j] EXCEPT !.at = "answered", !.missed = missed]
  BY <1>2, <1>4, HandlerAnswers, Zenon
<1>6. n \in AskHandler
  <2>1. "answered" \in {"unsent", "asked", "embedding", "filled", "answered"}
    OBVIOUS
  <2> QED  BY <1>2, <1>3, <1>4, <2>1, HandlerTypes, Zenon DEF AskHandler
<1>7. Ask(j, n)
  BY <1>1, <1>5, Zenon
<1>8. ask'[j] = n /\ model' = model /\ Answered' = Answered /\ put' = put
  BY <1>7 DEF Ask, KnowledgeIInv, Answered
<1>9. AskOk(j)'
  <2>1. n.at = "answered" /\ n.due = ask[j].due /\ n.read = ask[j].read /\ n.failed = ask[j].failed /\ n.missed = missed
    BY <1>4
  <2>2. n.failed \/ n.missed = {}
    BY <1>3, <2>1
  <2>3. n.due \subseteq Answered /\ \A r \in n.read : r[1] = r[2]
    BY <1>2, <2>1 DEF AskOk
  <2> QED  BY <1>8, <2>1, <2>2, <2>3 DEF AskOk, Unanswered
<1>10. DocsOk'
  BY <1>1, <1>8, SameDocs
<1> QED  BY <1>1, <1>6, <1>7, <1>9, <1>10, AskWritten

\* What was read is written where it was read from: a document replaced in
\* the meantime has another number.
LEMMA VectorsWritten ==
  ASSUME Written, KnowledgeIInv, NEW j \in Asks, NEW answers \in BOOLEAN, kbBackfillWrites(j, answers)
  PROVE  KnowledgeIInv'
<1> DEFINE has(p) == \E r \in ask[j].read : r[1] = docs[p].id
           text(p) == (CHOOSE r \in ask[j].read : r[1] = docs[p].id)[2]
<1>1. /\ ask[j].at = "embedding" /\ Ask(j, [ask[j] EXCEPT !.at = "filled", !.read = {}, !.failed = ~answers])
      /\ docs' = [p \in DocTopics |-> IF answers /\ has(p)
                   THEN [docs[p] EXCEPT !.model = ask[j].model, !.vec = text(p)] ELSE docs[p]]
  BY DEF kbBackfillWrites
<1>2. ask[j] \in AskHandler /\ docs \in [DocTopics -> Doc] /\ AskOk(j) /\ ask[j].model = model /\ model \in Models
  BY <1>1 DEF KnowledgeIInv, DocsOk, AskOk, Unanswered, HandlersOk
<1>3. ASSUME NEW p \in DocTopics, has(p)
      PROVE  text(p) = docs[p].id /\ text(p) \in Puts
  <2>1. (CHOOSE r \in ask[j].read : r[1] = docs[p].id) \in {r \in ask[j].read : r[1] = docs[p].id}
    BY <1>3, Zenon
  <2>2. PICK c : c = (CHOOSE r \in ask[j].read : r[1] = docs[p].id)
    OBVIOUS
  <2>3. c \in ask[j].read /\ c[1] = docs[p].id
    BY <2>1, <2>2, Zenon
  <2>4. c[1] = c[2]
    BY <1>2, <2>3 DEF AskOk
  <2>5. ask[j].read \in SUBSET (Ids \X Puts)
    BY <1>2, HandlerTypes
  <2>6. c[2] \in Puts
    BY <2>3, <2>5
  <2> QED  BY <2>2, <2>3, <2>4, <2>6, Zenon
<1>4. ASSUME NEW p \in DocTopics
      PROVE  /\ docs'[p] \in Doc /\ docs'[p].id = docs[p].id /\ docs'[p].text = docs[p].text /\ docs'[p].stale = docs[p].stale
             /\ IF answers /\ has(p) THEN docs'[p].model = model /\ docs'[p].vec = docs[p].id
                ELSE docs'[p].model = docs[p].model /\ docs'[p].vec = docs[p].vec
  <2>1. docs[p] \in Doc
    BY <1>2
  <2>2. CASE answers /\ has(p)
    <3>1. PICK v : v = text(p)
      OBVIOUS
    <3>2. v = docs[p].id /\ v \in Puts
      BY <1>3, <2>2, <3>1
    <3>3. docs'[p] = [docs[p] EXCEPT !.model = model, !.vec = v]
      BY <1>1, <1>2, <2>2, <3>1, Zenon
    <3>4. model \in Models \cup {""} /\ v \in Puts \cup {None}
      BY <1>2, <3>2
    <3>5. /\ docs'[p] \in Doc /\ docs'[p].id = docs[p].id /\ docs'[p].text = docs[p].text
          /\ docs'[p].stale = docs[p].stale /\ docs'[p].model = model /\ docs'[p].vec = v
      <4>1. PICK d, e, m : d = docs[p] /\ e = docs'[p] /\ m = model
        OBVIOUS
      <4>2. e = [d EXCEPT !.model = m, !.vec = v] /\ d \in Doc /\ m \in Models \cup {""}
        BY <2>1, <3>3, <3>4, <4>1, Zenon
      <4>3. e \in Doc /\ e.id = d.id /\ e.text = d.text /\ e.stale = d.stale /\ e.model = m /\ e.vec = v
        <5>1. PICK g : g = [d EXCEPT !.model = m]
          OBVIOUS
        <5>2. g = [id |-> d.id, text |-> d.text, stale |-> d.stale, model |-> m, vec |-> d.vec]
          BY <4>2, <5>1 DEF Doc
        <5>3. e = [g EXCEPT !.vec = v]
          BY <4>2, <5>1, Zenon
        <5>4. e = [id |-> d.id, text |-> d.text, stale |-> d.stale, model |-> m, vec |-> v]
          BY <5>2, <5>3
        <5>5. d.id \in Ids /\ d.text \in Puts \cup {None} /\ d.stale \in BOOLEAN
          BY <4>2, Zenon DEF Doc
        <5>6. e \in Doc
          BY <3>4, <4>2, <5>4, <5>5, Zenon DEF Doc
        <5> QED  BY <5>4, <5>6
      <4> QED  BY <4>1, <4>3, Zenon
    <3> QED  BY <2>2, <3>2, <3>5
  <2>3. CASE ~(answers /\ has(p))
    <3>1. docs'[p] = docs[p]
      BY <1>1, <2>3, Zenon
    <3> QED  BY <2>1, <2>3, <3>1
  <2> QED  BY <2>2, <2>3
<1>5. docs' \in [DocTopics -> Doc]
  <2>1. docs' = [p \in DocTopics |-> docs'[p]]
    BY <1>1, Zenon
  <2> QED  BY <1>4, <2>1
<1> HIDE DEF has, text
<1>14. PICK out : out = ~answers
  OBVIOUS
<1>6. PICK n : n = [at |-> "filled", model |-> ask[j].model, due |-> ask[j].due, read |-> {},
                    failed |-> out, missed |-> ask[j].missed]
  OBVIOUS
<1>7. n = [ask[j] EXCEPT !.at = "filled", !.read = {}, !.failed = ~answers]
  <2>1. n = [ask[j] EXCEPT !.at = "filled", !.read = {}, !.failed = out]
    BY <1>2, <1>6, HandlerFills, ZenonT(60)
  <2> QED  BY <1>14, <2>1, Zenon
<1>8. n \in AskHandler
  <2>1. "filled" \in {"unsent", "asked", "embedding", "filled", "answered"} /\ {} \in SUBSET (Ids \X Puts)
    OBVIOUS
  <2>2. out \in BOOLEAN
    BY <1>14
  <2> QED  BY <1>2, <1>6, <2>1, <2>2, HandlerTypes, Zenon DEF AskHandler
<1>9. Ask(j, n)
  BY <1>1, <1>7, Zenon
<1>10. ask'[j] = n /\ model' = model /\ Answered' = Answered /\ put' = put
  BY <1>9 DEF Ask, KnowledgeIInv, Answered
<1>11. DocsOk'
  <2>1. StoredDocs = {p \in DocTopics : docs[p].id > 0} /\ StoredDocs' = {p \in DocTopics : docs'[p].id > 0}
    BY <1>2, <1>5, StoredIs, StoredIsNext
  <2>2. Unique'
    <3>1. \A p, q \in StoredDocs : p # q => docs[p].id # docs[q].id
      BY DEF KnowledgeIInv, DocsOk, Unique
    <3>2. \A p \in StoredDocs' : p \in StoredDocs /\ docs'[p].id = docs[p].id
      BY <1>4, <2>1
    <3>3. ASSUME NEW p \in StoredDocs', NEW q \in StoredDocs', p # q  PROVE docs'[p].id # docs'[q].id
      BY <3>1, <3>2, <3>3
    <3> QED  BY <3>3 DEF Unique
  <2>3. VectorIsItsOwn'
    <3>1. ASSUME NEW p \in StoredDocs', docs'[p].model # ""  PROVE docs'[p].vec = docs'[p].text
      <4>1. p \in DocTopics /\ p \in StoredDocs
        BY <1>4, <2>1, <3>1
      <4>2. docs[p].id = docs[p].text /\ (docs[p].model # "" => docs[p].vec = docs[p].text)
        BY <4>1 DEF KnowledgeIInv, DocsOk, NumberedByWrite, VectorIsItsOwn
      <4> QED  BY <1>4, <3>1, <4>1, <4>2
    <3> QED  BY <3>1 DEF VectorIsItsOwn
  <2>4. NumberedByWrite'
    BY <1>4, <1>10 DEF KnowledgeIInv, DocsOk, NumberedByWrite
  <2> QED  BY <1>5, <2>2, <2>3, <2>4 DEF DocsOk
<1>12. AskOk(j)'
  <2>1. n.at = "filled" /\ n.model = ask[j].model /\ n.due = ask[j].due /\ n.read = {} /\ n.failed = out
        /\ n.missed = ask[j].missed
    BY <1>6, Zenon
  <2>2. n.missed = {} /\ n.due \subseteq Answered /\ n.model = model
    BY <1>1, <1>2, <2>1 DEF AskOk
  <2>3. ASSUME answers, NEW p \in DocTopics, docs'[p].id > 0, docs'[p].id \in n.due
        PROVE  docs'[p].model = n.model
    <3>1. docs[p].model = ask[j].model \/ has(p)
      BY <1>1, <1>2, <1>4, <2>1, <2>3 DEF AskOk, has
    <3> QED  BY <1>2, <1>4, <2>2, <2>3, <3>1
  <2>4. ~n.failed => answers
    BY <1>14, <2>1
  <2> QED  BY <1>10, <2>1, <2>2, <2>3, <2>4 DEF AskOk, Unanswered
<1>13. \A p \in DocTopics :
         /\ docs'[p].id = docs[p].id /\ docs'[p].text = docs[p].text /\ docs'[p].stale = docs[p].stale
         /\ docs'[p].model = docs[p].model \/ docs'[p].model = model
  BY <1>4
<1> QED  BY <1>8, <1>9, <1>11, <1>12, <1>13, AskWritten

-----------------------------------------------------------------------------
(* The theorem                                                             *)

\* A restart answers nobody: the handlers are gone, what was written is there.
LEMMA KnowledgeRestarted ==
  ASSUME Written, KnowledgeIInv, NEW m \in Models, KnowledgeRestart(m)
  PROVE  KnowledgeIInv'
<1>1. /\ lives < MaxLives /\ lives' = lives + 1 /\ model' = m /\ kb' = kb /\ docs' = docs /\ unsure' = unsure
      /\ put' = [i \in Puts |-> IF put[i].at = "embedded" THEN [NoPut EXCEPT !.at = "answered"] ELSE put[i]]
      /\ ask' = [j \in Asks |-> IF ask[j].at \in {"unsent", "answered"} THEN ask[j] ELSE [NoAsk EXCEPT !.at = "answered"]]
  BY DEF KnowledgeRestart
<1>2. put' \in [Puts -> PutHandler] /\ Answered \subseteq Answered'
  <2>1. PICK n : n = [NoPut EXCEPT !.at = "answered"]
    OBVIOUS
  <2>2. n = [at |-> "answered", to |-> {}, model |-> ""]
    BY <2>1 DEF NoPut
  <2>3. n \in PutHandler /\ n.at = "answered"
    BY <2>2 DEF PutHandler
  <2>4. put' = [i \in Puts |-> IF put[i].at = "embedded" THEN n ELSE put[i]] /\ put \in [Puts -> PutHandler]
    BY <1>1, <2>1 DEF KnowledgeIInv, HandlersOk
  <2> QED  BY <2>3, <2>4 DEF Answered
<1>3. PICK n : n = [NoAsk EXCEPT !.at = "answered"]
  OBVIOUS
<1>4. n = [at |-> "answered", model |-> "", due |-> {}, read |-> {}, failed |-> FALSE, missed |-> {}]
  BY <1>3 DEF NoAsk
<1>5. n \in AskHandler
  <2>1. /\ "answered" \in {"unsent", "asked", "embedding", "filled", "answered"} /\ "" \in Models \cup {""}
        /\ {} \in SUBSET Ids /\ {} \in SUBSET (Ids \X Puts) /\ FALSE \in BOOLEAN
    OBVIOUS
  <2> QED  BY <1>4, <2>1, Zenon DEF AskHandler
<1>6. ask' = [j \in Asks |-> IF ask[j].at \in {"unsent", "answered"} THEN ask[j] ELSE n] /\ ask \in [Asks -> AskHandler]
  BY <1>1, <1>3 DEF KnowledgeIInv
<1>7. ask' \in [Asks -> AskHandler]
  BY <1>5, <1>6
<1>8. ASSUME NEW j \in Asks  PROVE AskOk(j)'
  <2>1. n.at = "answered" /\ n.due = {} /\ n.read = {} /\ n.missed = {}
    BY <1>4
  <2>2. CASE ask[j].at \in {"unsent", "answered"}
    <3>1. ask'[j] = ask[j] /\ AskOk(j)
      BY <1>6, <2>2 DEF KnowledgeIInv
    <3> QED  BY <1>2, <2>2, <3>1 DEF AskOk, Unanswered
  <2>3. CASE ask[j].at \notin {"unsent", "answered"}
    <3>1. ask'[j] = n
      BY <1>6, <2>3
    <3> QED  BY <2>1, <3>1 DEF AskOk, Unanswered
  <2> QED  BY <2>2, <2>3
<1>9. DocsOk'
  BY <1>1, <1>2 DEF KnowledgeIInv, DocsOk, Unique, VectorIsItsOwn, NumberedByWrite, StoredDocs
<1>10. KbOk'
  BY <1>1 DEF KnowledgeIInv, KbOk, WordsFollowEntry
<1>11. HandlersOk'
  <2>1. model' \in Models
    BY <1>1
  <2>2. lives' \in 1 .. MaxLives
    BY <1>1 DEF KnowledgeIInv, HandlersOk, Written
  <2> QED  BY <1>2, <2>1, <2>2 DEF HandlersOk
<1> QED  BY <1>7, <1>8, <1>9, <1>10, <1>11 DEF KnowledgeIInv

\* At first the base is empty.
LEMMA KnowledgeInitHolds == ASSUME Written, KnowledgeInit PROVE KnowledgeIInv
<1>1. /\ kb = [t \in Topics |-> NoEntry] /\ docs = [p \in DocTopics |-> NoDoc] /\ unsure = {} /\ model \in Models
      /\ put = [i \in Puts |-> NoPut] /\ ask = [j \in Asks |-> NoAsk] /\ lives = 1
  BY DEF KnowledgeInit
<1>2. NoDoc \in Doc /\ NoDoc.id = 0 /\ NoDoc.text = 0
  <2>1. 0 \in Ids /\ None \in Puts \cup {None} /\ FALSE \in BOOLEAN /\ "" \in Models \cup {""}
    BY DEF Ids, None
  <2>2. NoDoc \in Doc
    BY <2>1, Zenon DEF NoDoc, Doc
  <2> QED  BY <2>2 DEF NoDoc, None
<1>3. DocsOk
  <2>1. docs \in [DocTopics -> Doc]
    BY <1>1, <1>2
  <2>2. StoredDocs = {}
    BY <1>1, <1>2, <2>1, StoredIs
  <2>3. NumberedByWrite
    BY <1>1, <1>2 DEF NumberedByWrite
  <2> QED  BY <2>1, <2>2, <2>3 DEF DocsOk, Unique, VectorIsItsOwn
<1>4. KbOk
  <2>1. NoEntry \in Entry /\ NoEntry.text = None
    <3>1. None \in Puts \cup {None} /\ FALSE \in BOOLEAN
      OBVIOUS
    <3> QED  BY <3>1, Zenon DEF NoEntry, Entry
  <2>2. \A t \in Topics : kb[t].text = None /\ docs[Words(t)].id = 0
    BY <1>1, <1>2, <2>1, TopicsOfDocs
  <2> QED  BY <1>1, <2>1, <2>2 DEF KbOk, WordsFollowEntry
<1>5. HandlersOk
  <2>1. NoPut \in PutHandler
    <3>1. {} \in SUBSET DocTopics /\ "" \in Models \cup {""} /\ "unsent" \in {"unsent", "embedded", "answered"}
      OBVIOUS
    <3> QED  BY <3>1, Zenon DEF NoPut, PutHandler
  <2>2. lives \in 1 .. MaxLives
    BY <1>1 DEF Written
  <2> QED  BY <1>1, <2>1, <2>2 DEF HandlersOk
<1>6. NoAsk \in AskHandler
  <2>1. /\ "unsent" \in {"unsent", "asked", "embedding", "filled", "answered"} /\ "" \in Models \cup {""}
        /\ {} \in SUBSET Ids /\ {} \in SUBSET (Ids \X Puts) /\ FALSE \in BOOLEAN
    OBVIOUS
  <2> QED  BY <2>1, Zenon DEF NoAsk, AskHandler
<1>7. \A j \in Asks : AskOk(j)
  BY <1>1 DEF AskOk, NoAsk, Unanswered
<1> QED  BY <1>1, <1>3, <1>4, <1>5, <1>6, <1>7 DEF KnowledgeIInv

\* Every step keeps the invariant.
LEMMA StepHolds == ASSUME Written, KnowledgeIInv, [KnowledgeNext]_knowledgeVars PROVE KnowledgeIInv'
<1>1. CASE UNCHANGED knowledgeVars
  <2>1. /\ kb' = kb /\ docs' = docs /\ unsure' = unsure /\ model' = model /\ put' = put /\ ask' = ask /\ lives' = lives
    BY <1>1 DEF knowledgeVars
  <2>2. DocsOk'
    BY <2>1, SameDocs
  <2>3. KbOk' /\ HandlersOk'
    BY <2>1 DEF KnowledgeIInv, KbOk, HandlersOk, WordsFollowEntry
  <2>4. ask' \in [Asks -> AskHandler] /\ \A j \in Asks : AskOk(j)'
    BY <2>1, AsksBesideWrites DEF Answered
  <2> QED  BY <2>2, <2>3, <2>4 DEF KnowledgeIInv
<1>2. ASSUME NEW i \in Puts, NEW p \in DocTopics, NEW answers \in BOOLEAN, embedKBDoc(i, p, answers)  PROVE KnowledgeIInv'
  BY <1>2, WriteSent
<1>3. ASSUME NEW i \in Puts, NEW indexed \in BOOLEAN, putKB(i, indexed)  PROVE KnowledgeIInv'
  BY <1>3, EntryWritten
<1>4. ASSUME NEW i \in Puts, putKBDoc(i) \/ PutFails(i)  PROVE KnowledgeIInv'
  BY <1>4, DocumentWritten, WriteFailed
<1>5. ASSUME NEW t \in Topics, forgetKB(t)  PROVE KnowledgeIInv'
  BY <1>5, TopicForgotten
<1>6. ASSUME NEW t \in Topics, NEW marked \in SUBSET DocTopics, staleKB(t, marked)  PROVE KnowledgeIInv'
  BY <1>6, TopicMarked
<1>7. ASSUME NEW j \in Asks, kbBackfillReads(j) \/ askAnswers(j)  PROVE KnowledgeIInv'
  BY <1>7, TextsRead, QuestionAnswered DEF kbBackfillReads
<1>8. ASSUME NEW j \in Asks, NEW answers \in BOOLEAN, askKB(j, answers) \/ kbBackfillWrites(j, answers)  PROVE KnowledgeIInv'
  BY <1>8, QuestionAsked, VectorsWritten
<1>9. ASSUME NEW m \in Models, KnowledgeRestart(m)  PROVE KnowledgeIInv'
  BY <1>9, KnowledgeRestarted
<1> QED  BY <1>1, <1>2, <1>3, <1>4, <1>5, <1>6, <1>7, <1>8, <1>9 DEF KnowledgeNext

\* What the proof carries along is what the module says.
LEMMA IInvIsKnowledgeInv == ASSUME Written, KnowledgeIInv PROVE KnowledgeInv
<1>1. KnowledgeTypeOK
  BY DEF KnowledgeIInv, DocsOk, KbOk, HandlersOk, KnowledgeTypeOK, Unique
<1>2. VectorIsItsOwn /\ NumberedByWrite /\ WordsFollowEntry
  BY DEF KnowledgeIInv, DocsOk, KbOk
<1>3. NothingUnseen /\ ReadOfDocuments /\ AskedInThisLife
  BY DEF KnowledgeIInv, AskOk, NothingUnseen, ReadOfDocuments, AskedInThisLife
<1>4. DueIsCompared
  <2>1. StoredDocs = {p \in DocTopics : docs[p].id > 0}
    BY StoredIs DEF KnowledgeIInv, DocsOk
  <2>2. ASSUME NEW j \in Asks
        PROVE  /\ ask[j].at = "embedding" => \A p \in DueDocs(j) : p \in Hits(j) \/ \E r \in ask[j].read : r[1] = docs[p].id
               /\ ask[j].at = "filled" /\ ~ask[j].failed => DueDocs(j) \subseteq Hits(j)
    <3>1. AskOk(j)
      BY DEF KnowledgeIInv
    <3> QED  BY <2>1, <3>1 DEF AskOk, DueDocs, Hits
  <2> QED  BY <2>2 DEF DueIsCompared
<1> QED  BY <1>1, <1>2, <1>3, <1>4 DEF KnowledgeInv

\* However writes, marks, questions and restarts meet while the model is at
\* it: a vector is of the text it stands beside, an entry is found by its own
\* words, and a question sees every document it was asked of (putKB, putKBDoc,
\* staleKB, forgetKB, kbBackfill, askKB).
THEOREM KnowledgeIsKept ==
  ASSUME Written
  PROVE  KnowledgeSpec => []KnowledgeInv
<1>1. KnowledgeInit => KnowledgeIInv
  BY KnowledgeInitHolds
<1>2. KnowledgeIInv /\ [KnowledgeNext]_knowledgeVars => KnowledgeIInv'
  BY StepHolds
<1>3. KnowledgeIInv => KnowledgeInv
  BY IInvIsKnowledgeInv
<1> QED  BY <1>1, <1>2, <1>3, PTL DEF KnowledgeSpec
=============================================================================
