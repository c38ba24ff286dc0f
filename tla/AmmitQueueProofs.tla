-------------------------- MODULE AmmitQueueProofs --------------------------
(***************************************************************************)
(* Proofs about the start queue of ammit, for any tickets, stands, leases, *)
(* surroundings and bounds: QueueInv is an inductive invariant of Spec; so *)
(* is TiedOnce where no event is delivered twice, and RoomInv where the    *)
(* surroundings do nothing to the queue but deploys.                       *)
(***************************************************************************)
EXTENDS AmmitQueue, FiniteSetTheorems, TLAPS

\* Closing rows keeps the table's type.
LEMMA DoneType ==
  ASSUME NEW rows, queue \in [Row -> RowRecord]
  PROVE  Done(rows) \in [Row -> RowRecord]
BY DEF Done, RowRecord

\* A run's row, closed, is well typed.
LEMMA ClosedType ==
  ASSUME NEW row \in RunRecord, NEW verdict \in {"", "answer", "other"}, NEW at \in 0..MaxRow
  PROVE  [row EXCEPT !.state = "closed", !.verdict = verdict, !.ended = at] \in RunRecord
BY DEF RunRecord

\* What finish writes is well typed.
LEMMA FinishType ==
  ASSUME TypeOK, NEW r \in Run, Finish(r)
  PROVE  queue' \in [Row -> RowRecord] /\ runs' \in [Run -> RunRecord]
<1>1. queue' \in [Row -> RowRecord]
  BY DoneType DEF TypeOK, Finish
<1> DEFINE closed == [runs[r] EXCEPT !.state = "closed", !.verdict = "other", !.ended = posted]
<1>2. closed \in RunRecord
  BY ClosedType DEF TypeOK
<1>3. runs' = [runs EXCEPT ![r] = closed]
  BY DEF TypeOK, Finish
<1> QED  BY <1>1, <1>2, <1>3 DEF TypeOK

\* The loop at the top of its round is well typed.
LEMMA TopType == TopOfRound \in LoopRecord
BY DEF TopOfRound, LoopRecord, Place, Stand

\* A row put back in the line is well typed.
LEMMA WaitsAgainType ==
  ASSUME queue \in [Row -> RowRecord], NEW i \in Row, loop.asked \in Place
  PROVE  WaitsAgain(i) \in [Row -> RowRecord]
<1> DEFINE again == [queue[i] EXCEPT !.state = "waiting", !.place = loop.asked, !.age = "fresh"]
<1>1. again \in RowRecord
  BY DEF RowRecord
<1>2. WaitsAgain(i) = IF queue[i].run = NoRun THEN [queue EXCEPT ![i] = again] ELSE queue
  BY DEF WaitsAgain
<1> QED  BY <1>1, <1>2

\* The steps of the loop keep the types.
LEMMA LoopType ==
  ASSUME QueueInv, LoopStep
  PROVE  TypeOK'
<1> USE BoundAssumption, SettingAssumption
<1>1. CASE SweepAbandoned
  BY <1>1 DEF QueueInv, TypeOK, SweepAbandoned, gates, outside, LoopRecord
<1>2. CASE \E r \in Run : CloseFromSnapshot(r)
  <2>1. PICK r \in Run : CloseFromSnapshot(r)
    BY <1>2
  <2>2. loop' \in LoopRecord
    BY <2>1 DEF QueueInv, TypeOK, CloseFromSnapshot, LoopRecord
  <2> QED
    BY <2>1, <2>2, FinishType DEF QueueInv, TypeOK, CloseFromSnapshot, gates, outside
<1>3. CASE SweepQueue
  BY <1>3, DoneType DEF QueueInv, TypeOK, SweepQueue, gates, outside, LoopRecord
<1>4. CASE Weigh
  BY <1>4 DEF QueueInv, TypeOK, Weigh, gates, outside, LoopRecord
<1>5. CASE \E i \in Row, s \in Stand : PumpPick(i, s)
  <2>1. PICK i \in Row, s \in Stand : PumpPick(i, s)
    BY <1>5
  <2>2. loop' \in LoopRecord
    BY <2>1 DEF QueueInv, TypeOK, PumpPick, LoopRecord
  <2> QED
    BY <2>1, <2>2 DEF QueueInv, TypeOK, PumpPick, gates, outside
<1>6. CASE PumpNothing
  BY <1>6, TopType DEF QueueInv, TypeOK, PumpNothing, gates, outside
<1>7. CASE CheckResume
  <2>1. loop' \in LoopRecord
    BY <1>7, TopType, ZenonT(60) DEF QueueInv, TypeOK, CheckResume, LoopRecord
  <2>2. queue' \in [Row -> RowRecord]
    BY <1>7, DoneType DEF QueueInv, TypeOK, CheckResume
  <2> QED
    BY <1>7, <2>1, <2>2 DEF QueueInv, TypeOK, CheckResume, gates, outside
<1>8. CASE MarkRunning
  <2>1. loop.row \in Row /\ queue[loop.row] \in RowRecord /\ loop.stand \in Stand
    BY <1>8 DEF QueueInv, TypeOK, PickedIsUntied, MarkRunning, LoopRecord
  <2> DEFINE started == [queue[loop.row] EXCEPT !.state = "running", !.place = loop.stand,
                                                !.age = "fresh"]
  <2>2. started \in RowRecord
    BY <2>1 DEF RowRecord, Place
  <2>3. queue' = [queue EXCEPT ![loop.row] = started]
    BY <1>8, <2>1 DEF QueueInv, TypeOK, MarkRunning
  <2>4. queue' \in [Row -> RowRecord]
    BY <2>1, <2>2, <2>3 DEF QueueInv, TypeOK
  <2>5. queue[loop.row].place \in Place
    BY <2>1 DEF RowRecord
  <2>6. loop' \in LoopRecord
    BY <1>8, <2>5 DEF QueueInv, TypeOK, MarkRunning, LoopRecord
  <2> QED
    BY <1>8, <2>4, <2>6 DEF QueueInv, TypeOK, MarkRunning, gates, outside
<1>9. CASE \E r \in Run : StartTaken(r)
  <2>1. PICK r \in Run : StartTaken(r)
    BY <1>9
  <2>2. loop.row \in Row /\ queue[loop.row].name \in Names /\ loop.stand \in Stand
    BY <2>1 DEF QueueInv, TypeOK, CalledIsRunning, StartTaken, LoopRecord, RowRecord
  <2>3. minted' \in 0..MaxRun
    <3>1. minted' = r
      BY <2>1 DEF StartTaken, Mint
    <3> QED  BY <3>1 DEF Run, BoundAssumption
  <2> DEFINE born == [state |-> "alive", name |-> queue[loop.row].name,
                      stand |-> loop.stand, row |-> loop.row]
  <2>6. born \in ProcRecord
    BY <2>2 DEF ProcRecord
  <2>7. procs' = [procs EXCEPT ![r] = born]
    BY <2>1 DEF StartTaken, Mint
  <2>8. procs' \in [Run -> ProcRecord]
    BY <2>6, <2>7 DEF QueueInv, TypeOK
  <2>4. wire' \subseteq EventRecord
    <3>1. [run |-> r, kind |-> "run_start", verdict |-> "", at |-> posted] \in EventRecord
      BY DEF QueueInv, TypeOK, EventRecord
    <3> QED  BY <2>1, <3>1 DEF QueueInv, TypeOK, StartTaken, Mint
  <2>5. loop' \in LoopRecord
    <3>1. \A said \in {"run_id", "refused"} :
            [loop EXCEPT !.pc = "reply", !.said = said] \in LoopRecord
      BY DEF QueueInv, TypeOK, LoopRecord
    <3>2. TakenAnswers \subseteq {"run_id", "refused"}
      BY DEF TakenAnswers
    <3> QED  BY <2>1, <3>1, <3>2 DEF StartTaken
  <2> QED
    BY <2>1, <2>3, <2>4, <2>5, <2>8 DEF QueueInv, TypeOK, StartTaken, gates
<1>10. CASE StartHeldOff
  <2>1. loop' \in LoopRecord
    BY <1>10 DEF QueueInv, TypeOK, StartHeldOff, LoopRecord
  <2>2. spent' \in [holds: 0..MaxHolds, takes: 0..MaxTakes, restarts: 0..MaxRestarts]
    BY <1>10 DEF QueueInv, TypeOK, StartHeldOff
  <2> QED
    BY <1>10, <2>1, <2>2 DEF QueueInv, TypeOK, StartHeldOff, gates, outside
<1>11. CASE StartRefused
  BY <1>11 DEF QueueInv, TypeOK, StartRefused, gates, outside, LoopRecord
<1>12. CASE ReplyTaken
  BY <1>12, TopType DEF QueueInv, TypeOK, ReplyTaken, gates, outside
<1>13. CASE ReplyAgain
  <2>1. loop.row \in Row /\ loop.asked \in Place /\ loop.held \cup {loop.stand} \subseteq Stand
    BY <1>13 DEF QueueInv, TypeOK, CalledIsRunning, ReplyAgain, LoopRecord
  <2>2. queue' \in [Row -> RowRecord]
    BY <1>13, <2>1, WaitsAgainType DEF QueueInv, TypeOK, ReplyAgain
  <2>3. loop' \in LoopRecord
    <3>1. \A held \in SUBSET Stand :
            [TopOfRound EXCEPT !.pc = "judging", !.held = held] \in LoopRecord
      BY TopType DEF LoopRecord
    <3> QED  BY <1>13, <2>1, <3>1 DEF ReplyAgain
  <2> QED
    BY <1>13, <2>2, <2>3 DEF QueueInv, TypeOK, ReplyAgain, gates, outside
<1>14. CASE ReplyRefused
  BY <1>14, DoneType, TopType DEF QueueInv, TypeOK, ReplyRefused, gates, outside
<1> QED
  BY <1>1, <1>2, <1>3, <1>4, <1>5, <1>6, <1>7, <1>8, <1>9, <1>10, <1>11, <1>12, <1>13, <1>14
  DEF LoopStep

\* What an event makes of its run's row is well typed.
LEMMA EventType ==
  ASSUME TypeOK, NEW r \in Run
  PROVE  /\ \A t \in Names : Upserted(r, t) \in RunRecord
         /\ Heard(r) \in RunRecord
<1>1. runs[r] \in RunRecord
  BY DEF TypeOK
<1>2. \A t \in Names : Upserted(r, t) \in RunRecord
  BY <1>1 DEF Upserted, RunRecord
<1>3. Heard(r) \in RunRecord
  BY <1>1 DEF Heard, RunRecord
<1> QED  BY <1>2, <1>3

\* One more lease taken or deploy reported is counted within its bound.
LEMMA TakesType ==
  ASSUME TypeOK, spent.takes < MaxTakes
  PROVE  [spent EXCEPT !.takes = @ + 1]
           \in [holds: 0..MaxHolds, takes: 0..MaxTakes, restarts: 0..MaxRestarts]
BY BoundAssumption DEF TypeOK, BoundAssumption

\* The handlers keep the types.
LEMMA HandlerType ==
  ASSUME QueueInv, Handler
  PROVE  TypeOK'
<1> USE BoundAssumption, SettingAssumption
<1>1. CASE \E t \in Tickets, ask \in Asks : PostQueue(t, ask)
  <2>1. PICK t \in Tickets, ask \in Asks : PostQueue(t, ask)
    BY <1>1
  <2> DEFINE new == [NoQueueRow EXCEPT !.state = "waiting", !.name = t, !.place = ask.place,
                                       !.resume = ask.resume]
  <2>2. ask.place \in Place /\ ask.resume \in BOOLEAN
    BY DEF SettingAssumption
  <2>3. new \in RowRecord
    BY <2>2 DEF NoQueueRow, RowRecord, Names, Place
  <2>4. queue' = [queue EXCEPT ![posted + 1] = new]
    BY <2>1 DEF PostQueue
  <2>5. queue' \in [Row -> RowRecord]
    BY <2>3, <2>4 DEF QueueInv, TypeOK
  <2>6. posted' \in 0..MaxRow
    <3>1. posted < MaxRow /\ posted' = posted + 1
      BY <2>1 DEF PostQueue
    <3> QED  BY <3>1 DEF QueueInv, TypeOK, BoundAssumption
  <2> QED
    BY <2>1, <2>5, <2>6 DEF QueueInv, TypeOK, PostQueue, gates, outside
<1>2. CASE \/ \E i \in Row : WithdrawOne(i)
           \/ \E t \in Tickets : WithdrawTicket(t)
           \/ WithdrawAll
  <2>1. PICK rows : Withdraw(rows)
    BY <1>2 DEF WithdrawOne, WithdrawTicket, WithdrawAll
  <2> QED
    BY <2>1, DoneType DEF QueueInv, TypeOK, Withdraw, gates, outside
<1>3. CASE \E m \in wire : StoreRunStart(m)
  <2>1. PICK m \in wire : StoreRunStart(m)
    BY <1>3
  <2>2. m.run \in Run /\ m.at \in 0..MaxRow /\ procs[m.run].name \in Names
    BY DEF QueueInv, TypeOK, EventRecord, ProcRecord
  <2>3. queue' \in [Row -> RowRecord]
    <3>1. \A i \in Row : [queue[i] EXCEPT !.run = m.run] \in RowRecord
      BY <2>2 DEF QueueInv, TypeOK, RowRecord
    <3> QED  BY <2>1, <3>1 DEF QueueInv, TypeOK, StoreRunStart
  <2>4. runs' \in [Run -> RunRecord]
    <3>1. \A q \in Run : [runs[q] EXCEPT !.state = "closed", !.verdict = "other",
                                         !.ended = m.at] \in RunRecord
      BY <2>2, ClosedType DEF QueueInv, TypeOK
    <3>2. Upserted(m.run, procs[m.run].name) \in RunRecord
      BY <2>2, EventType DEF QueueInv
    <3> QED  BY <2>1, <3>1, <3>2 DEF QueueInv, TypeOK, StoreRunStart
  <2>5. wire' \subseteq EventRecord
    BY <2>1 DEF QueueInv, TypeOK, StoreRunStart, Delivered
  <2> QED
    BY <2>1, <2>3, <2>4, <2>5 DEF QueueInv, TypeOK, StoreRunStart, gates
<1>4. CASE \E m \in wire : StoreRunEnd(m)
  <2>1. PICK m \in wire : StoreRunEnd(m)
    BY <1>4
  <2>2. m.run \in Run /\ m.at \in 0..MaxRow /\ m.verdict \in {"", "answer", "other"}
    BY DEF QueueInv, TypeOK, EventRecord
  <2> DEFINE closed == [Heard(m.run) EXCEPT !.state = "closed", !.verdict = m.verdict,
                                            !.ended = m.at]
  <2>3. closed \in RunRecord
    BY <2>2, EventType, ClosedType DEF QueueInv
  <2>4. runs' = [runs EXCEPT ![m.run] = closed]
    BY <2>1 DEF StoreRunEnd
  <2>5. runs' \in [Run -> RunRecord]
    BY <2>3, <2>4 DEF QueueInv, TypeOK
  <2>6. queue' \in [Row -> RowRecord]
    BY <2>1, DoneType DEF QueueInv, TypeOK, StoreRunEnd
  <2>7. wire' \subseteq EventRecord
    BY <2>1 DEF QueueInv, TypeOK, StoreRunEnd, Delivered
  <2> QED
    BY <2>1, <2>5, <2>6, <2>7 DEF QueueInv, TypeOK, StoreRunEnd, gates
<1>5. CASE \E r \in Run : StoreOther(r)
  BY <1>5, EventType DEF QueueInv, TypeOK, StoreOther, gates, outside
<1>6. CASE \E l \in Leases : TakeLease(l) \/ DropLease(l)
  <2>1. PICK l \in Leases : TakeLease(l) \/ DropLease(l)
    BY <1>6
  <2>2. spent' \in [holds: 0..MaxHolds, takes: 0..MaxTakes, restarts: 0..MaxRestarts]
    BY <2>1, TakesType DEF QueueInv, TypeOK, TakeLease, DropLease
  <2> QED
    BY <2>1, <2>2 DEF QueueInv, TypeOK, TakeLease, DropLease, outside
<1>7. CASE DeployBegins
  <2>1. spent' \in [holds: 0..MaxHolds, takes: 0..MaxTakes, restarts: 0..MaxRestarts]
    BY <1>7, TakesType DEF QueueInv, TypeOK, DeployBegins
  <2> QED
    BY <1>7, <2>1 DEF QueueInv, TypeOK, DeployBegins, outside
<1>8. CASE DeployEnds
  BY <1>8 DEF QueueInv, TypeOK, DeployEnds, outside
<1> QED
  BY <1>1, <1>2, <1>3, <1>4, <1>5, <1>6, <1>7, <1>8 DEF Handler

\* The runs, a restart and the passing of time keep the types.
LEMMA SurroundingsType ==
  ASSUME QueueInv, Surroundings
  PROVE  TypeOK'
<1> USE BoundAssumption, SettingAssumption
<1>1. CASE Restart
  <2>1. spent' \in [holds: 0..MaxHolds, takes: 0..MaxTakes, restarts: 0..MaxRestarts]
    BY <1>1 DEF QueueInv, TypeOK, Restart, BoundAssumption
  <2> QED
    BY <1>1, <2>1, TopType DEF QueueInv, TypeOK, Restart, gates, outside
<1>2. CASE \E r \in Run, v \in Verdicts : ProcEnds(r, v)
  <2>1. PICK r \in Run, v \in Verdicts : ProcEnds(r, v)
    BY <1>2
  <2>2. [run |-> r, kind |-> "run_end", verdict |-> v, at |-> posted] \in EventRecord
    BY DEF QueueInv, TypeOK, EventRecord, SettingAssumption
  <2>3. wire' \subseteq EventRecord
    BY <2>1, <2>2 DEF QueueInv, TypeOK, ProcEnds
  <2>4. procs' \in [Run -> ProcRecord]
    BY <2>1 DEF QueueInv, TypeOK, ProcEnds, ProcRecord
  <2> QED
    BY <2>1, <2>3, <2>4 DEF QueueInv, TypeOK, ProcEnds, gates
<1>3. CASE \E i \in Row : AgeRow(i)
  <2>1. PICK i \in Row : AgeRow(i)
    BY <1>3
  <2>2. [queue[i] EXCEPT !.age = Older[@]] \in RowRecord
    BY <2>1 DEF QueueInv, TypeOK, AgeRow, Older, RowRecord
  <2>3. queue' = [queue EXCEPT ![i] = [queue[i] EXCEPT !.age = Older[@]]]
    BY <2>1 DEF AgeRow, QueueInv, TypeOK
  <2> QED
    BY <2>1, <2>2, <2>3 DEF QueueInv, TypeOK, AgeRow, gates, outside
<1>4. CASE \E r \in Run : AgeRun(r)
  <2>1. PICK r \in Run : AgeRun(r)
    BY <1>4
  <2>2. [runs[r] EXCEPT !.quiet = Quieter[@]] \in RunRecord
    <3>1. Quieter[runs[r].quiet] \in {"over", "silent"}
      BY <2>1 DEF AgeRun, Quieter
    <3>2. \A quiet \in {"over", "silent"} : [runs[r] EXCEPT !.quiet = quiet] \in RunRecord
      BY ZenonT(60) DEF QueueInv, TypeOK, RunRecord
    <3> QED  BY <3>1, <3>2
  <2>3. runs' = [runs EXCEPT ![r] = [runs[r] EXCEPT !.quiet = Quieter[@]]]
    BY <2>1 DEF AgeRun, QueueInv, TypeOK
  <2> QED
    BY <2>1, <2>2, <2>3 DEF QueueInv, TypeOK, AgeRun, gates, outside
<1> QED
  BY <1>1, <1>2, <1>3, <1>4 DEF Surroundings

\* A step keeps the types.
LEMMA TypeStep ==
  ASSUME QueueInv, [Next]_vars
  PROVE  TypeOK'
<1>1. CASE Next
  BY <1>1, LoopType, HandlerType, SurroundingsType DEF Next
<1>2. CASE UNCHANGED vars
  BY <1>2 DEF QueueInv, TypeOK, vars
<1> QED  BY <1>1, <1>2

-----------------------------------------------------------------------------
(* The table runs.                                                         *)

\* The steps that leave the table runs alone.
RunsKept ==
  \/ SweepAbandoned \/ SweepQueue \/ Weigh \/ PumpNothing \/ CheckResume \/ MarkRunning
  \/ StartHeldOff \/ StartRefused \/ ReplyTaken \/ ReplyAgain \/ ReplyRefused
  \/ WithdrawAll \/ DeployBegins \/ DeployEnds \/ Restart
  \/ \E i \in Row, s \in Stand : PumpPick(i, s)
  \/ \E r \in Run : StartTaken(r)
  \/ \E t \in Tickets, ask \in Asks : PostQueue(t, ask)
  \/ \E i \in Row : WithdrawOne(i) \/ AgeRow(i)
  \/ \E t \in Tickets : WithdrawTicket(t)
  \/ \E l \in Leases : TakeLease(l) \/ DropLease(l)
  \/ \E r \in Run, v \in Verdicts : ProcEnds(r, v)
  \/ UNCHANGED vars

\* The steps listed as RunsKept leave the table runs as it is.
LEMMA RunsUnchanged == RunsKept => runs' = runs
BY DEF RunsKept, SweepAbandoned, SweepQueue, Weigh, PumpNothing, CheckResume, MarkRunning,
   StartHeldOff, StartRefused, ReplyTaken, ReplyAgain, ReplyRefused, WithdrawAll, DeployBegins,
   DeployEnds, Restart, PumpPick, StartTaken, PostQueue, WithdrawOne, WithdrawTicket, Withdraw,
   AgeRow, TakeLease, DropLease, ProcEnds, vars

\* Every step is one of these or one of the five that write the table runs.
LEMMA RunsCases ==
  ASSUME [Next]_vars
  PROVE  \/ RunsKept
         \/ \E r \in Run : CloseFromSnapshot(r) \/ StoreOther(r) \/ AgeRun(r)
         \/ \E m \in wire : StoreRunStart(m) \/ StoreRunEnd(m)
BY DEF Next, LoopStep, Handler, Surroundings, RunsKept

\* What the five write: the state and the name of each run.
LEMMA FinishRuns ==
  ASSUME TypeOK, NEW r \in Run, Finish(r), NEW q \in Run
  PROVE  /\ runs'[q].name = runs[q].name
         /\ runs'[q].state = IF q = r THEN "closed" ELSE runs[q].state
<1> DEFINE closed == [runs[r] EXCEPT !.state = "closed", !.verdict = "other", !.ended = posted]
<1>1. runs[r] \in RunRecord
  BY DEF TypeOK
<1>2. closed.state = "closed" /\ closed.name = runs[r].name
  BY <1>1 DEF RunRecord
<1>3. runs' = [runs EXCEPT ![r] = closed]
  BY DEF TypeOK, Finish
<1> HIDE DEF closed
<1> QED  BY <1>2, <1>3 DEF TypeOK

\* Any other event opens the row of a run first heard of, and closes and names none.
LEMMA OtherRuns ==
  ASSUME TypeOK, NEW r \in Run, StoreOther(r), NEW q \in Run
  PROVE  /\ runs'[q].name = runs[q].name
         /\ runs'[q].state = IF q = r /\ runs[q].state = "none" THEN "open" ELSE runs[q].state
<1>1. runs[r] \in RunRecord
  BY DEF TypeOK
<1>2. /\ Heard(r).name = runs[r].name
      /\ Heard(r).state = IF runs[r].state = "none" THEN "open" ELSE runs[r].state
  BY <1>1 DEF Heard, RunRecord
<1>3. runs' = [runs EXCEPT ![r] = Heard(r)]
  BY DEF StoreOther
<1> QED  BY <1>2, <1>3 DEF TypeOK

\* A run going quiet keeps its state and its name.
LEMMA AgeRuns ==
  ASSUME TypeOK, NEW r \in Run, AgeRun(r), NEW q \in Run
  PROVE  runs'[q].name = runs[q].name /\ runs'[q].state = runs[q].state
<1> DEFINE aged == [runs[r] EXCEPT !.quiet = Quieter[@]]
<1>1. runs[r] \in RunRecord
  BY DEF TypeOK
<1>2. aged.name = runs[r].name /\ aged.state = runs[r].state
  BY <1>1 DEF RunRecord
<1>3. runs' = [runs EXCEPT ![r] = aged]
  BY DEF TypeOK, AgeRun
<1> HIDE DEF aged
<1> QED  BY <1>2, <1>3 DEF TypeOK

\* A run_start opens its run unless it is closed, names it, and closes those it
\* supersedes; the rest are as they were.
LEMMA StartRuns ==
  ASSUME TypeOK, NEW m \in wire, StoreRunStart(m), NEW q \in Run
  PROVE  LET t == procs[m.run].name IN
         IF q = m.run
         THEN /\ runs'[q].name = t
              /\ runs'[q].state = IF runs[q].state = "none" THEN "open" ELSE runs[q].state
         ELSE /\ runs'[q].name = runs[q].name
              /\ runs'[q].state = IF Open(q) /\ runs[q].name = t THEN "closed" ELSE runs[q].state
<1> DEFINE t == procs[m.run].name
           closed == [runs[q] EXCEPT !.state = "closed", !.verdict = "other", !.ended = m.at]
<1>1. runs[q] \in RunRecord
  BY DEF TypeOK
<1>2. runs'[q] = IF q = m.run THEN Upserted(m.run, t)
                 ELSE IF Open(q) /\ runs[q].name = t THEN closed ELSE runs[q]
  BY DEF StoreRunStart, Superseded
<1>3. CASE q = m.run
  <2>1. /\ Upserted(q, t).name = t
        /\ Upserted(q, t).state = IF runs[q].state = "none" THEN "open" ELSE runs[q].state
    BY <1>1 DEF Upserted, RunRecord
  <2> QED  BY <1>2, <1>3, <2>1
<1>4. CASE q # m.run
  <2>1. closed.name = runs[q].name /\ closed.state = "closed"
    BY <1>1 DEF RunRecord
  <2> HIDE DEF closed
  <2> QED  BY <1>2, <1>4, <2>1
<1> QED  BY <1>3, <1>4

\* A run_end closes its run, under the name it had.
LEMMA EndRuns ==
  ASSUME TypeOK, NEW m \in wire, StoreRunEnd(m), NEW q \in Run
  PROVE  /\ runs'[q].name = runs[q].name
         /\ runs'[q].state = IF q = m.run THEN "closed" ELSE runs[q].state
<1> DEFINE r == m.run
           closed == [Heard(r) EXCEPT !.state = "closed", !.verdict = m.verdict, !.ended = m.at]
<1>1. r \in Run
  BY DEF TypeOK, EventRecord
<1>2. Heard(r) \in RunRecord
  BY <1>1, EventType
<1>5. Heard(r).name = runs[r].name
  <2>1. runs[r] \in RunRecord
    BY <1>1 DEF TypeOK
  <2> QED  BY <2>1 DEF Heard, RunRecord
<1>3. closed.name = runs[r].name /\ closed.state = "closed"
  BY <1>2, <1>5 DEF RunRecord
<1>4. runs' = [runs EXCEPT ![r] = closed]
  BY DEF StoreRunEnd
<1> HIDE DEF closed
<1> QED  BY <1>1, <1>3, <1>4 DEF TypeOK

\* A run that is closed is closed after any step.
LEMMA ClosedStays ==
  ASSUME QueueInv, [Next]_vars, NEW q \in Run, runs[q].state = "closed"
  PROVE  runs'[q].state = "closed"
<1>1. CASE RunsKept
  BY <1>1, RunsUnchanged
<1>2. CASE \E r \in Run : CloseFromSnapshot(r) \/ StoreOther(r) \/ AgeRun(r)
  BY <1>2, FinishRuns, OtherRuns, AgeRuns DEF QueueInv, CloseFromSnapshot
<1>3. CASE \E m \in wire : StoreRunStart(m) \/ StoreRunEnd(m)
  BY <1>3, StartRuns, EndRuns DEF QueueInv, Open
<1> QED  BY <1>1, <1>2, <1>3, RunsCases

\* A run_start leaves a ticket with one open run at most, whenever it arrives.
LEMMA StartRunsStep ==
  ASSUME QueueInv, NEW m \in wire, StoreRunStart(m)
  PROVE  OneOpenRunPerTicket' /\ UnheardIsUnnamed'
<1> DEFINE t == procs[m.run].name
<1>1. TypeOK /\ OneOpenRunPerTicket /\ UnheardIsUnnamed
  BY DEF QueueInv
<1>2. m.run \in Run
  BY <1>1 DEF TypeOK, EventRecord
<1>3. runs'[m.run].name = t /\ runs'[m.run].state # "none"
  BY <1>1, <1>2, StartRuns
<1>4. \A q \in Run \ {m.run} :
        /\ runs'[q].name = runs[q].name
        /\ runs'[q].state = "none" => runs[q].state = "none"
        /\ runs'[q].state = "open" => Open(q) /\ runs[q].name # t
  BY <1>1, StartRuns DEF Open
<1>5. UnheardIsUnnamed'
  <2> SUFFICES ASSUME NEW q \in Run, runs'[q].state = "none"  PROVE runs'[q].name = Unnamed
    BY DEF UnheardIsUnnamed
  <2> QED  BY <1>1, <1>3, <1>4 DEF UnheardIsUnnamed
<1>6. OneOpenRunPerTicket'
  <2> SUFFICES ASSUME NEW p \in Run, NEW q \in Run, runs'[p].state = "open",
                      runs'[q].state = "open", runs'[p].name = runs'[q].name,
                      runs'[p].name \in Tickets
               PROVE  p = q
    BY DEF OneOpenRunPerTicket, Open
  <2>1. CASE p = m.run \/ q = m.run
    BY <1>3, <1>4, <2>1
  <2>2. CASE p # m.run /\ q # m.run
    BY <1>1, <1>4, <2>2 DEF OneOpenRunPerTicket, Open
  <2> QED  BY <2>1, <2>2
<1> QED  BY <1>5, <1>6

\* A step leaves a ticket with one open run at most, and only runs heard of named.
LEMMA RunsStep ==
  ASSUME QueueInv, [Next]_vars
  PROVE  OneOpenRunPerTicket' /\ UnheardIsUnnamed'
<1> USE DEF QueueInv, OneOpenRunPerTicket, UnheardIsUnnamed, Open
<1>1. CASE RunsKept
  BY <1>1, RunsUnchanged
<1>2. CASE \E r \in Run : CloseFromSnapshot(r)
  <2>1. PICK r \in Run : Finish(r)
    BY <1>2 DEF CloseFromSnapshot
  <2> QED  BY <2>1, FinishRuns
<1>3. CASE \E r \in Run : StoreOther(r)
  <2>1. PICK r \in Run : StoreOther(r)
    BY <1>3
  <2> QED  BY <2>1, OtherRuns, TicketAssumption DEF TicketAssumption
<1>4. CASE \E r \in Run : AgeRun(r)
  BY <1>4, AgeRuns
<1>5. CASE \E m \in wire : StoreRunStart(m)
  BY <1>5, StartRunsStep
<1>6. CASE \E m \in wire : StoreRunEnd(m)
  <2>1. PICK m \in wire : StoreRunEnd(m)
    BY <1>6
  <2> QED  BY <2>1, EndRuns
<1> QED  BY <1>1, <1>2, <1>3, <1>4, <1>5, <1>6, RunsCases

-----------------------------------------------------------------------------
(* The table queue.                                                        *)

\* The steps that leave the table queue alone.
QueueKept ==
  \/ SweepAbandoned \/ Weigh \/ PumpNothing \/ StartHeldOff \/ StartRefused \/ ReplyTaken
  \/ DeployBegins \/ DeployEnds \/ Restart
  \/ \E i \in Row, s \in Stand : PumpPick(i, s)
  \/ \E r \in Run : StartTaken(r) \/ StoreOther(r) \/ AgeRun(r)
  \/ \E l \in Leases : TakeLease(l) \/ DropLease(l)
  \/ \E r \in Run, v \in Verdicts : ProcEnds(r, v)
  \/ UNCHANGED vars

\* The steps that only close rows of it.
QueueClosed ==
  \/ SweepQueue \/ CheckResume \/ ReplyRefused
  \/ \E rows : Withdraw(rows)
  \/ \E r \in Run : CloseFromSnapshot(r)
  \/ \E m \in wire : StoreRunEnd(m)

\* The steps listed as QueueKept leave the table queue as it is.
LEMMA QueueUnchanged == QueueKept => queue' = queue
BY DEF QueueKept, SweepAbandoned, Weigh, PumpNothing, StartHeldOff, StartRefused, ReplyTaken,
   DeployBegins, DeployEnds, Restart, PumpPick, StartTaken, StoreOther, AgeRun, TakeLease,
   DropLease, ProcEnds, vars

\* Every step is one of these or one of the five that write more than a row's end.
LEMMA QueueCases ==
  ASSUME [Next]_vars
  PROVE  \/ QueueKept \/ QueueClosed \/ MarkRunning \/ ReplyAgain
         \/ \E t \in Tickets, ask \in Asks : PostQueue(t, ask)
         \/ \E m \in wire : StoreRunStart(m)
         \/ \E i \in Row : AgeRow(i)
BY DEF Next, LoopStep, Handler, Surroundings, QueueKept, QueueClosed, WithdrawOne, WithdrawTicket,
   WithdrawAll

\* What they write: the state of each row and the run it is tied to.
LEMMA DoneRows ==
  ASSUME TypeOK, NEW rows, NEW i \in Row
  PROVE  /\ Done(rows)[i].run = queue[i].run
         /\ Done(rows)[i].state = IF i \in rows THEN "done" ELSE queue[i].state
<1> DEFINE done == [queue[i] EXCEPT !.state = "done"]
<1>1. queue[i] \in RowRecord
  BY DEF TypeOK
<1>2. done.run = queue[i].run /\ done.state = "done"
  BY <1>1 DEF RowRecord
<1>3. Done(rows)[i] = IF i \in rows THEN done ELSE queue[i]
  BY DEF Done
<1> QED  BY <1>2, <1>3

\* POST /queue adds a waiting row, tied to no run, after the last.
LEMMA PostRows ==
  ASSUME TypeOK, NEW t \in Tickets, NEW ask \in Asks, PostQueue(t, ask), NEW i \in Row
  PROVE  /\ i # posted + 1 => queue'[i] = queue[i]
         /\ i = posted + 1 => queue'[i].state = "waiting" /\ queue'[i].run = NoRun
<1> DEFINE new == [NoQueueRow EXCEPT !.state = "waiting", !.name = t, !.place = ask.place,
                                     !.resume = ask.resume]
<1>1. new.state = "waiting" /\ new.run = NoRun
  BY DEF NoQueueRow
<1>2. queue' = [queue EXCEPT ![posted + 1] = new]
  BY DEF PostQueue
<1> HIDE DEF new
<1> QED  BY <1>1, <1>2 DEF TypeOK

\* A run_start changes no row's state and ties running rows only.
LEMMA TieRows ==
  ASSUME TypeOK, NEW m \in wire, StoreRunStart(m), NEW i \in Row
  PROVE  /\ queue'[i].state = queue[i].state
         /\ queue'[i].run = queue[i].run \/ (queue[i].state = "running" /\ queue[i].run = NoRun)
<1> DEFINE tied == [queue[i] EXCEPT !.run = m.run]
<1>1. queue[i] \in RowRecord
  BY DEF TypeOK
<1>2. tied.state = queue[i].state
  BY <1>1 DEF RowRecord
<1>3. queue'[i] = IF i \in TieTarget(procs[m.run].name) THEN tied ELSE queue[i]
  BY DEF StoreRunStart
<1> HIDE DEF tied
<1> QED  BY <1>2, <1>3 DEF TieTarget, Untied

\* The pump's UPDATE makes the row in hand running and ties nothing.
LEMMA MarkRows ==
  ASSUME TypeOK, MarkRunning, NEW i \in Row
  PROVE  /\ queue'[i].run = queue[i].run
         /\ queue'[i].state = IF i = loop.row THEN "running" ELSE queue[i].state
<1> DEFINE started == [queue[loop.row] EXCEPT !.state = "running", !.place = loop.stand,
                                              !.age = "fresh"]
<1>1. queue[i] \in RowRecord
  BY DEF TypeOK
<1>2. i = loop.row => started.run = queue[i].run /\ started.state = "running"
  BY <1>1 DEF RowRecord
<1>3. queue' = [queue EXCEPT ![loop.row] = started]
  BY DEF MarkRunning, TypeOK
<1> HIDE DEF started
<1> QED  BY <1>2, <1>3 DEF TypeOK

\* A start held off puts its row back in the line, untied, or leaves the table.
LEMMA AgainRows ==
  ASSUME TypeOK, ReplyAgain, NEW i \in Row
  PROVE  /\ queue'[i].run = queue[i].run
         /\ queue'[i].state = IF i = loop.row /\ queue[i].run = NoRun THEN "waiting"
                                                                    ELSE queue[i].state
<1> DEFINE again == [queue[loop.row] EXCEPT !.state = "waiting", !.place = loop.asked,
                                            !.age = "fresh"]
<1>1. queue[i] \in RowRecord
  BY DEF TypeOK
<1>2. i = loop.row => again.run = queue[i].run /\ again.state = "waiting"
  BY <1>1 DEF RowRecord
<1>3. queue' = IF queue[loop.row].run = NoRun THEN [queue EXCEPT ![loop.row] = again] ELSE queue
  BY DEF ReplyAgain, WaitsAgain
<1> HIDE DEF again
<1> QED  BY <1>2, <1>3 DEF TypeOK

\* A row growing older changes neither its state nor its run.
LEMMA AgeRows ==
  ASSUME TypeOK, NEW j \in Row, AgeRow(j), NEW i \in Row
  PROVE  queue'[i].run = queue[i].run /\ queue'[i].state = queue[i].state
<1> DEFINE aged == [queue[j] EXCEPT !.age = Older[@]]
<1>1. queue[j] \in RowRecord
  BY DEF TypeOK
<1>2. aged.run = queue[j].run /\ aged.state = queue[j].state
  BY <1>1 DEF RowRecord
<1>3. queue' = [queue EXCEPT ![j] = aged]
  BY DEF TypeOK, AgeRow
<1> HIDE DEF aged
<1> QED  BY <1>2, <1>3 DEF TypeOK

\* Of the rows such a step closes, one that is tied to a run is tied to a run
\* that is closed after the step.
LEMMA ClosedRows ==
  ASSUME QueueInv, QueueClosed, NEW i \in Row
  PROVE  /\ queue'[i].run = queue[i].run
         /\ \/ queue'[i].state = queue[i].state
            \/ /\ queue'[i].state = "done"
               /\ queue[i].run # NoRun => runs'[queue[i].run].state = "closed"
<1>1. TypeOK
  BY DEF QueueInv
<1>2. CASE SweepQueue
  <2>1. queue' = Done(Swept) /\ runs' = runs
    BY <1>2 DEF SweepQueue
  <2>2. i \in Swept /\ queue[i].run # NoRun => runs[queue[i].run].state = "closed"
    BY DEF Swept, Untied
  <2>3. /\ Done(Swept)[i].run = queue[i].run
        /\ Done(Swept)[i].state = IF i \in Swept THEN "done" ELSE queue[i].state
    BY <1>1, DoneRows
  <2> QED  BY <2>1, <2>2, <2>3
<1>3. CASE CheckResume
  <2>1. queue' = Done({loop.row}) \/ queue' = queue
    BY <1>3 DEF CheckResume
  <2>2. queue[loop.row].run = NoRun
    BY <1>3 DEF CheckResume, QueueInv, PickedIsUntied
  <2> QED  BY <1>1, <2>1, <2>2, DoneRows
<1>4. CASE ReplyRefused
  <2>1. (queue[loop.row].run = NoRun /\ queue' = Done({loop.row})) \/ queue' = queue
    BY <1>4 DEF ReplyRefused
  <2> QED  BY <1>1, <2>1, DoneRows
<1>5. CASE \E rows : Withdraw(rows)
  <2>1. PICK rows : queue' = Done(rows \cap Waiting)
    BY <1>5 DEF Withdraw
  <2> QED  BY <1>1, <2>1, DoneRows DEF QueueInv, WaitingIsUntied
<1>6. CASE \E r \in Run : CloseFromSnapshot(r)
  <2>1. PICK r \in Run : Finish(r)
    BY <1>6 DEF CloseFromSnapshot
  <2>2. queue' = Done(RowsOf(r)) /\ runs'[r].state = "closed"
    BY <1>1, <2>1, FinishRuns DEF Finish
  <2> QED  BY <1>1, <2>2, DoneRows DEF RowsOf
<1>7. CASE \E m \in wire : StoreRunEnd(m)
  <2>1. PICK m \in wire : StoreRunEnd(m)
    BY <1>7
  <2>2. queue' = Done(RowsOf(m.run)) /\ m.run \in Run
    BY <1>1, <2>1 DEF StoreRunEnd, TypeOK, EventRecord
  <2>3. runs'[m.run].state = "closed"
    BY <1>1, <2>1, <2>2, EndRuns
  <2> QED  BY <1>1, <2>2, <2>3, DoneRows DEF RowsOf
<1> QED  BY <1>2, <1>3, <1>4, <1>5, <1>6, <1>7 DEF QueueClosed

\* None of the rows such a step closes is one nobody inserted.
LEMMA ClosedUnposted ==
  ASSUME QueueInv, QueueClosed, NEW i \in Row, queue[i] = NoQueueRow
  PROVE  queue'[i] = queue[i]
<1>1. queue[i].state = "none" /\ queue[i].run = NoRun
  BY DEF NoQueueRow
<1>2. \A rows : i \notin rows => Done(rows)[i] = queue[i]
  BY DEF Done
<1>3. CASE SweepQueue
  BY <1>1, <1>2, <1>3 DEF SweepQueue, Swept, Untied
<1>4. CASE CheckResume
  <2>1. loop.row # i
    BY <1>1, <1>4 DEF CheckResume, QueueInv, PickedIsUntied
  <2> QED  BY <1>2, <1>4, <2>1 DEF CheckResume
<1>5. CASE ReplyRefused
  <2>1. loop.row # i
    BY <1>1, <1>5 DEF ReplyRefused, QueueInv, CalledIsRunning
  <2> QED  BY <1>2, <1>5, <2>1 DEF ReplyRefused
<1>6. CASE \E rows : Withdraw(rows)
  BY <1>1, <1>2, <1>6 DEF Withdraw, Waiting
<1>7. NoRun \notin Run
  BY DEF NoRun, Run
<1>8. CASE \E r \in Run : CloseFromSnapshot(r)
  BY <1>1, <1>2, <1>7, <1>8 DEF CloseFromSnapshot, Finish, RowsOf
<1>9. CASE \E m \in wire : StoreRunEnd(m)
  <2>1. PICK m \in wire : StoreRunEnd(m)
    BY <1>9
  <2>2. m.run \in Run
    BY DEF QueueInv, TypeOK, EventRecord
  <2> QED  BY <1>1, <1>2, <1>7, <2>1, <2>2 DEF StoreRunEnd, RowsOf
<1> QED  BY <1>3, <1>4, <1>5, <1>6, <1>8, <1>9 DEF QueueClosed

\* DoneMeansOver is kept: a row that is done stays tied to a run that is closed.
LEMMA DoneStep ==
  ASSUME QueueInv, [Next]_vars
  PROVE  DoneMeansOver'
<1> SUFFICES ASSUME NEW i \in Row, queue'[i].state = "done", queue'[i].run # NoRun
             PROVE  runs'[queue'[i].run].state = "closed"
  BY DEF DoneMeansOver
<1>1. TypeOK /\ queue[i].run \in Run \cup {NoRun}
  BY DEF QueueInv, TypeOK, RowRecord
<1>2. CASE queue[i].state = "done" /\ queue'[i].run = queue[i].run
  BY <1>1, <1>2, ClosedStays DEF QueueInv, DoneMeansOver
<1>3. CASE QueueKept
  BY <1>2, <1>3, QueueUnchanged
<1>4. CASE QueueClosed
  BY <1>2, <1>4, ClosedRows
<1>5. CASE MarkRunning
  BY <1>1, <1>2, <1>5, MarkRows
<1>6. CASE ReplyAgain
  BY <1>1, <1>2, <1>6, AgainRows
<1>7. CASE \E t \in Tickets, ask \in Asks : PostQueue(t, ask)
  BY <1>1, <1>2, <1>7, PostRows
<1>8. CASE \E m \in wire : StoreRunStart(m)
  BY <1>1, <1>2, <1>8, TieRows
<1>9. CASE \E j \in Row : AgeRow(j)
  BY <1>1, <1>2, <1>9, AgeRows
<1> QED  BY <1>3, <1>4, <1>5, <1>6, <1>7, <1>8, <1>9, QueueCases

\* A row in the line stays untied, and a row nobody inserted stays as it is.
LEMMA WaitingStep ==
  ASSUME QueueInv, [Next]_vars
  PROVE  WaitingIsUntied'
<1> SUFFICES ASSUME NEW i \in Row, queue'[i].state = "waiting"
             PROVE  queue'[i].run = NoRun
  BY DEF WaitingIsUntied, Waiting
<1>1. TypeOK
  BY DEF QueueInv
<1>2. CASE queue[i].state = "waiting" /\ queue'[i].run = queue[i].run
  BY <1>2 DEF QueueInv, WaitingIsUntied, Waiting
<1>3. CASE QueueKept
  BY <1>2, <1>3, QueueUnchanged
<1>4. CASE QueueClosed
  BY <1>2, <1>4, ClosedRows
<1>5. CASE MarkRunning
  BY <1>1, <1>2, <1>5, MarkRows
<1>6. CASE ReplyAgain
  BY <1>1, <1>2, <1>6, AgainRows
<1>7. CASE \E t \in Tickets, ask \in Asks : PostQueue(t, ask)
  BY <1>1, <1>2, <1>7, PostRows
<1>8. CASE \E m \in wire : StoreRunStart(m)
  BY <1>1, <1>2, <1>8, TieRows
<1>9. CASE \E j \in Row : AgeRow(j)
  BY <1>1, <1>2, <1>9, AgeRows
<1> QED  BY <1>3, <1>4, <1>5, <1>6, <1>7, <1>8, <1>9, QueueCases

\* Only POST /queue counts a row.
LEMMA PostedKept ==
  ASSUME [Next]_vars, ~ \E t \in Tickets, ask \in Asks : PostQueue(t, ask)
  PROVE  posted' = posted
BY DEF Next, LoopStep, Handler, Surroundings, SweepAbandoned, CloseFromSnapshot, SweepQueue, Weigh,
   PumpPick, PumpNothing, CheckResume, MarkRunning, StartTaken, StartHeldOff, StartRefused,
   ReplyTaken, ReplyAgain, ReplyRefused, WithdrawOne, WithdrawTicket, WithdrawAll, Withdraw,
   StoreRunStart, StoreRunEnd, StoreOther, TakeLease, DropLease, DeployBegins, DeployEnds,
   Restart, ProcEnds, AgeRow, AgeRun, vars

\* A row beyond the last one inserted stays as nobody inserted it.
LEMMA UnpostedStep ==
  ASSUME QueueInv, [Next]_vars
  PROVE  UnpostedIsNone'
<1>1. TypeOK /\ UnpostedIsNone
  BY DEF QueueInv
<1>2. CASE \E t \in Tickets, ask \in Asks : PostQueue(t, ask)
  <2>1. PICK t \in Tickets, ask \in Asks : PostQueue(t, ask)
    BY <1>2
  <2>2. posted' = posted + 1 /\ posted \in Nat
    BY <1>1, <2>1, BoundAssumption DEF PostQueue, TypeOK, BoundAssumption
  <2>3. \A i \in Row : i > posted + 1 => i > posted /\ i # posted + 1
    BY <2>2 DEF Row
  <2> QED  BY <1>1, <2>1, <2>2, <2>3, PostRows DEF UnpostedIsNone
<1>3. CASE ~ \E t \in Tickets, ask \in Asks : PostQueue(t, ask)
  <2>1. posted' = posted
    BY <1>3, PostedKept
  <2> SUFFICES ASSUME NEW i \in Row, queue[i] = NoQueueRow  PROVE queue'[i] = queue[i]
    BY <1>1, <2>1 DEF UnpostedIsNone
  <2>2. queue[i].state = "none"
    BY DEF NoQueueRow
  <2>3. CASE QueueKept
    BY <2>3, QueueUnchanged
  <2>4. CASE QueueClosed
    BY <2>4, ClosedUnposted
  <2>5. CASE MarkRunning
    <3>1. loop.row # i
      BY <2>2, <2>5 DEF MarkRunning, QueueInv, PickedIsUntied
    <3> QED  BY <1>1, <2>5, <3>1 DEF MarkRunning, TypeOK
  <2>6. CASE ReplyAgain
    <3>1. loop.row # i
      BY <2>2, <2>6 DEF ReplyAgain, QueueInv, CalledIsRunning
    <3> QED  BY <1>1, <2>6, <3>1 DEF ReplyAgain, WaitsAgain, TypeOK
  <2>7. CASE \E m \in wire : StoreRunStart(m)
    BY <2>2, <2>7 DEF StoreRunStart, TieTarget, Untied
  <2>8. CASE \E j \in Row : AgeRow(j)
    BY <1>1, <2>2, <2>8 DEF AgeRow, Untied, TypeOK
  <2> QED  BY <1>3, <2>3, <2>4, <2>5, <2>6, <2>7, <2>8, QueueCases
<1> QED  BY <1>2, <1>3

-----------------------------------------------------------------------------
(* The loop and the rows it has in hand.                                   *)

\* The steps of everybody but the loop; they leave its local variables alone.
Elsewhere ==
  \/ Handler \/ UNCHANGED vars
  \/ \E r \in Run, v \in Verdicts : ProcEnds(r, v)
  \/ \E i \in Row : AgeRow(i)
  \/ \E r \in Run : AgeRun(r)

\* The handlers, the runs and time leave the loop where it is.
LEMMA ElsewhereLoop == Elsewhere => loop' = loop
BY DEF Elsewhere, Handler, ProcEnds, AgeRow, AgeRun, PostQueue, WithdrawOne, WithdrawTicket,
   WithdrawAll, Withdraw, StoreRunStart, StoreRunEnd, StoreOther, TakeLease, DropLease,
   DeployBegins, DeployEnds, vars

\* The top of the round is the sweep, and the next item is looked for at the pump.
LEMMA TopPc == /\ TopOfRound.pc = "sweep"
               /\ \A h : [TopOfRound EXCEPT !.pc = "judging", !.held = h].pc = "judging"
BY DEF TopOfRound

\* The steps after which no row is in the loop's hands.
HandsFree ==
  \/ SweepAbandoned \/ SweepQueue \/ Weigh \/ PumpNothing \/ ReplyTaken \/ ReplyAgain
  \/ ReplyRefused \/ Restart
  \/ \E r \in Run : CloseFromSnapshot(r)

\* A step of the loop without a row in hand ends without one.
LEMMA HandsFreeLoop ==
  ASSUME TypeOK, HandsFree
  PROVE  loop'.pc \notin {"check", "mark", "call", "reply"}
<1>1. CASE SweepAbandoned \/ SweepQueue \/ Weigh
  BY <1>1 DEF SweepAbandoned, SweepQueue, Weigh, TypeOK, LoopRecord
<1>2. CASE PumpNothing \/ ReplyTaken \/ ReplyAgain \/ ReplyRefused \/ Restart
  <2>1. loop' = TopOfRound \/ \E h : loop' = [TopOfRound EXCEPT !.pc = "judging", !.held = h]
    BY <1>2 DEF PumpNothing, ReplyTaken, ReplyAgain, ReplyRefused, Restart
  <2> QED  BY <2>1, TopPc
<1>3. CASE \E r \in Run : CloseFromSnapshot(r)
  BY <1>3 DEF CloseFromSnapshot, TypeOK, LoopRecord
<1> QED  BY <1>1, <1>2, <1>3 DEF HandsFree

\* Every step is one of these or one of the six that have a row in hand.
LEMMA LoopCases ==
  ASSUME [Next]_vars
  PROVE  \/ Elsewhere \/ HandsFree \/ CheckResume \/ MarkRunning \/ StartHeldOff \/ StartRefused
         \/ \E i \in Row, s \in Stand : PumpPick(i, s)
         \/ \E r \in Run : StartTaken(r)
BY DEF Next, LoopStep, Surroundings, Elsewhere, HandsFree

\* What they may do to a row somebody inserted: tie it if it is running, close it.
LEMMA ElsewhereRows ==
  ASSUME QueueInv, Elsewhere, NEW i \in Row, queue[i].state # "none"
  PROVE  /\ queue'[i].state \in {queue[i].state, "done"}
         /\ queue'[i].run = queue[i].run \/ queue[i].state = "running"
<1>1. TypeOK
  BY DEF QueueInv
<1>2. CASE QueueKept
  BY <1>2, QueueUnchanged
<1>3. CASE QueueClosed
  BY <1>3, ClosedRows
<1>4. CASE \E t \in Tickets, ask \in Asks : PostQueue(t, ask)
  <2>1. i # posted + 1
    <3>1. ~(i > posted)
      BY DEF QueueInv, UnpostedIsNone, NoQueueRow
    <3> QED  BY <1>1, <3>1, BoundAssumption DEF TypeOK, Row, BoundAssumption
  <2> QED  BY <1>1, <1>4, <2>1, PostRows
<1>5. CASE \E m \in wire : StoreRunStart(m)
  BY <1>1, <1>5, TieRows
<1>6. CASE \E j \in Row : AgeRow(j)
  BY <1>1, <1>6, AgeRows
<1> QED
  BY <1>2, <1>3, <1>4, <1>5, <1>6
  DEF Elsewhere, Handler, QueueKept, QueueClosed, WithdrawOne, WithdrawTicket, WithdrawAll

\* The row the loop has picked is still in the line, or taken out of it, and
\* belongs to no run.
LEMMA PickedStep ==
  ASSUME QueueInv, [Next]_vars
  PROVE  PickedIsUntied'
<1> SUFFICES ASSUME loop'.pc \in {"check", "mark"}
             PROVE  /\ loop'.row \in Row /\ queue'[loop'.row].run = NoRun
                    /\ queue'[loop'.row].state \in {"waiting", "done"}
  BY DEF PickedIsUntied
<1>1. TypeOK /\ PickedIsUntied /\ WaitingIsUntied
  BY DEF QueueInv
<1>2. CASE Elsewhere
  <2>1. loop' = loop /\ loop.pc \in {"check", "mark"}
    BY <1>2, ElsewhereLoop
  <2> DEFINE i == loop.row
  <2>2. i \in Row /\ queue[i].run = NoRun /\ queue[i].state \in {"waiting", "done"}
    BY <1>1, <2>1 DEF PickedIsUntied
  <2> HIDE DEF i
  <2>3. queue'[i].run = NoRun /\ queue'[i].state \in {"waiting", "done"}
    BY <1>2, <2>2, ElsewhereRows
  <2> QED  BY <2>1, <2>2, <2>3 DEF i
<1>3. CASE HandsFree
  BY <1>1, <1>3, HandsFreeLoop
<1>4. CASE CheckResume
  <2>1. queue' = queue /\ loop' = [loop EXCEPT !.pc = "mark"] /\ loop.pc = "check"
    BY <1>4, TopPc DEF CheckResume
  <2>2. loop'.row = loop.row
    BY <1>1, <2>1 DEF TypeOK, LoopRecord
  <2> QED  BY <1>1, <2>1, <2>2 DEF PickedIsUntied
<1>5. CASE MarkRunning \/ StartHeldOff \/ StartRefused
  BY <1>1, <1>5 DEF MarkRunning, StartHeldOff, StartRefused, TypeOK, LoopRecord
<1>6. CASE \E i \in Row, s \in Stand : PumpPick(i, s)
  <2>1. PICK i \in Row, s \in Stand : PumpPick(i, s)
    BY <1>6
  <2>2. loop'.row = i /\ queue' = queue /\ i \in Waiting
    BY <1>1, <2>1 DEF PumpPick, NextUp, TypeOK, LoopRecord
  <2> QED  BY <1>1, <2>2 DEF WaitingIsUntied, Waiting
<1>7. CASE \E r \in Run : StartTaken(r)
  BY <1>1, <1>7 DEF StartTaken, TypeOK, LoopRecord
<1> QED  BY <1>2, <1>3, <1>4, <1>5, <1>6, <1>7, LoopCases

\* The row whose start was called is running, or has been closed since.
LEMMA CalledStep ==
  ASSUME QueueInv, [Next]_vars
  PROVE  CalledIsRunning'
<1> SUFFICES ASSUME loop'.pc \in {"call", "reply"}
             PROVE  loop'.row \in Row /\ queue'[loop'.row].state \in {"running", "done"}
  BY DEF CalledIsRunning
<1>1. TypeOK /\ CalledIsRunning /\ PickedIsUntied
  BY DEF QueueInv
<1>2. CASE Elsewhere
  <2>1. loop' = loop /\ loop.pc \in {"call", "reply"}
    BY <1>2, ElsewhereLoop
  <2> DEFINE i == loop.row
  <2>2. i \in Row /\ queue[i].state \in {"running", "done"}
    BY <1>1, <2>1 DEF CalledIsRunning
  <2> HIDE DEF i
  <2>3. queue'[i].state \in {"running", "done"}
    BY <1>2, <2>2, ElsewhereRows
  <2> QED  BY <2>1, <2>2, <2>3 DEF i
<1>3. CASE HandsFree
  BY <1>1, <1>3, HandsFreeLoop
<1>4. CASE CheckResume
  <2>1. loop' = TopOfRound \/ loop' = [loop EXCEPT !.pc = "mark"]
    BY <1>4 DEF CheckResume
  <2> QED  BY <1>1, <2>1, TopPc DEF TypeOK, LoopRecord
<1>5. CASE MarkRunning
  <2>1. loop.row \in Row /\ loop'.row = loop.row
    BY <1>1, <1>5 DEF MarkRunning, PickedIsUntied, TypeOK, LoopRecord
  <2> QED  BY <1>1, <1>5, <2>1, MarkRows
<1>6. CASE \/ StartHeldOff \/ StartRefused
           \/ \E r \in Run : StartTaken(r)
  <2>1. loop.pc = "call" /\ loop'.row = loop.row /\ queue' = queue
    BY <1>1, <1>6 DEF StartHeldOff, StartRefused, StartTaken, TypeOK, LoopRecord
  <2> QED  BY <1>1, <2>1 DEF CalledIsRunning
<1>7. CASE \E i \in Row, s \in Stand : PumpPick(i, s)
  BY <1>1, <1>7 DEF PumpPick, TypeOK, LoopRecord
<1> QED  BY <1>2, <1>3, <1>4, <1>5, <1>6, <1>7, LoopCases

-----------------------------------------------------------------------------
(* The runs that were started, and the rows they were started for.         *)

\* Only a start that is taken gives a run its row.
LEMMA ProcsKept ==
  ASSUME TypeOK, [Next]_vars, ~ \E r \in Run : StartTaken(r), NEW q \in Run
  PROVE  procs'[q].row = procs[q].row /\ minted' = minted
<1>1. CASE \E r \in Run, v \in Verdicts : ProcEnds(r, v)
  <2>1. PICK r \in Run, v \in Verdicts : ProcEnds(r, v)
    BY <1>1
  <2> DEFINE ended == [procs[r] EXCEPT !.state = "gone"]
  <2>2. procs[r] \in ProcRecord
    BY DEF TypeOK
  <2>3. ended.row = procs[r].row
    BY <2>2 DEF ProcRecord
  <2>4. procs' = [procs EXCEPT ![r] = ended] /\ minted' = minted
    BY <2>1 DEF ProcEnds, TypeOK
  <2> HIDE DEF ended
  <2> QED  BY <2>3, <2>4 DEF TypeOK
<1>2. CASE ~ \E r \in Run, v \in Verdicts : ProcEnds(r, v)
  BY <1>2 DEF Next, LoopStep, Handler, Surroundings, SweepAbandoned, CloseFromSnapshot, SweepQueue,
     Weigh, PumpPick, PumpNothing, CheckResume, MarkRunning, StartHeldOff, StartRefused,
     ReplyTaken, ReplyAgain, ReplyRefused, PostQueue, WithdrawOne, WithdrawTicket, WithdrawAll,
     Withdraw, StoreRunStart, StoreRunEnd, StoreOther, TakeLease, DropLease, DeployBegins,
     DeployEnds, Restart, AgeRow, AgeRun, outside, vars
<1> QED  BY <1>1, <1>2

\* A start that is taken gives the next run the row in hand.
LEMMA TakenProcs ==
  ASSUME QueueInv, NEW r \in Run, StartTaken(r), NEW q \in Run
  PROVE  /\ procs'[q].row = IF q = r THEN loop.row ELSE procs[q].row
         /\ r = minted + 1 /\ minted' = r
         /\ loop.row \in Row /\ loop.pc = "call" /\ queue' = queue
         /\ loop'.pc = "reply" /\ loop'.said # "again"
<1> DEFINE born == [state |-> "alive", name |-> queue[loop.row].name,
                    stand |-> loop.stand, row |-> loop.row]
<1>1. r = minted + 1 /\ minted' = r /\ procs' = [procs EXCEPT ![r] = born]
  BY DEF StartTaken, Mint
<1>2. procs'[q].row = IF q = r THEN loop.row ELSE procs[q].row
  BY <1>1 DEF QueueInv, TypeOK
<1>3. loop.pc = "call" /\ queue' = queue
  BY DEF StartTaken
<1>4. loop.row \in Row
  BY <1>3 DEF QueueInv, CalledIsRunning
<1>5. \E said \in {"run_id", "refused"} : loop' = [loop EXCEPT !.pc = "reply", !.said = said]
  BY DEF StartTaken, TakenAnswers
<1>6. loop'.pc = "reply" /\ loop'.said # "again"
  BY <1>5 DEF QueueInv, TypeOK, LoopRecord
<1> QED  BY <1>1, <1>2, <1>3, <1>4, <1>6

\* No row is given to a second run, and a run not minted yet has none.
LEMMA OneRunStep ==
  ASSUME QueueInv, [Next]_vars
  PROVE  OneRunPerRow' /\ UnbornHasNoRow'
<1>1. TypeOK /\ OneRunPerRow /\ UnbornHasNoRow /\ StartedIsNotWaiting
  BY DEF QueueInv
<1>2. CASE ~ \E r \in Run : StartTaken(r)
  BY <1>1, <1>2, ProcsKept DEF OneRunPerRow, UnbornHasNoRow
<1>3. CASE \E r \in Run : StartTaken(r)
  <2>1. PICK r \in Run : StartTaken(r)
    BY <1>3
  <2>2. \A q \in Run : procs'[q].row = IF q = r THEN loop.row ELSE procs[q].row
    BY <2>1, TakenProcs
  <2>3. r = minted + 1 /\ minted' = r /\ loop.pc = "call"
    BY <2>1, TakenProcs
  <2>4. \A q \in Run : procs[q].row # NoRow => procs[q].row # loop.row
    BY <1>1, <2>3 DEF StartedIsNotWaiting
  <2>5. OneRunPerRow'
    BY <1>1, <2>2, <2>4 DEF OneRunPerRow
  <2>6. \A q \in Run : q > r => q > minted /\ q # r
    BY <1>1, <2>3, BoundAssumption DEF TypeOK, Run, BoundAssumption
  <2>7. UnbornHasNoRow'
    BY <1>1, <2>2, <2>3, <2>6 DEF UnbornHasNoRow
  <2> QED  BY <2>5, <2>7
<1> QED  BY <1>2, <1>3

\* A start answered "try again" has started nothing.
LEMMA AnswerStep ==
  ASSUME QueueInv, [Next]_vars
  PROVE  TakenAnswer'
<1> SUFFICES ASSUME loop'.pc = "reply", loop'.said = "again", NEW q \in Run
             PROVE  procs'[q].row # loop'.row
  BY DEF TakenAnswer
<1>1. TypeOK /\ TakenAnswer /\ StartedIsNotWaiting
  BY DEF QueueInv
<1>2. CASE \E r \in Run : StartTaken(r)
  BY <1>2, TakenProcs
<1>3. CASE Elsewhere
  <2>1. procs'[q].row = procs[q].row \/ \E r \in Run : StartTaken(r)
    BY <1>1, ProcsKept
  <2>2. loop' = loop
    BY <1>3, ElsewhereLoop
  <2> QED  BY <1>1, <1>2, <2>1, <2>2 DEF TakenAnswer
<1>4. CASE HandsFree
  BY <1>1, <1>4, HandsFreeLoop
<1>5. CASE CheckResume
  <2>1. loop' = TopOfRound \/ loop' = [loop EXCEPT !.pc = "mark"]
    BY <1>5 DEF CheckResume
  <2> QED  BY <1>1, <2>1, TopPc DEF TypeOK, LoopRecord
<1>6. CASE MarkRunning
  BY <1>1, <1>6 DEF MarkRunning, TypeOK, LoopRecord
<1>7. CASE StartRefused
  BY <1>1, <1>7 DEF StartRefused, TypeOK, LoopRecord
<1>8. CASE StartHeldOff
  <2>1. loop.pc = "call" /\ loop'.row = loop.row /\ procs' = procs
    BY <1>1, <1>8 DEF StartHeldOff, outside, TypeOK, LoopRecord
  <2>2. loop.row \in Row /\ NoRow \notin Row
    BY <2>1 DEF QueueInv, CalledIsRunning, NoRow, Row
  <2> QED  BY <1>1, <2>1, <2>2 DEF StartedIsNotWaiting
<1>9. CASE \E i \in Row, s \in Stand : PumpPick(i, s)
  BY <1>1, <1>9 DEF PumpPick, TypeOK, LoopRecord
<1> QED  BY <1>2, <1>3, <1>4, <1>5, <1>6, <1>7, <1>8, <1>9, LoopCases

\* Nor does such a step of the loop put a row back that was started.
LEMMA HandsFreeRows ==
  ASSUME QueueInv, HandsFree, NEW q \in Run, NEW i \in Row, procs[q].row = i,
         queue[i].state \in {"running", "done"}
  PROVE  queue'[i].state \in {"running", "done"}
<1>1. CASE ReplyAgain
  <2>1. i # loop.row
    <3>1. loop.pc = "reply" /\ loop.said = "again"
      BY <1>1 DEF ReplyAgain
    <3> QED  BY <3>1 DEF QueueInv, TakenAnswer
  <2> QED  BY <1>1, <2>1, AgainRows DEF QueueInv
<1>2. CASE QueueKept
  BY <1>2, QueueUnchanged
<1>3. CASE QueueClosed
  BY <1>3, ClosedRows
<1> QED  BY <1>1, <1>2, <1>3 DEF HandsFree, QueueKept, QueueClosed

\* A row that was started is not back in the line, nor in hand to be started again.
LEMMA StartedStep ==
  ASSUME QueueInv, [Next]_vars
  PROVE  StartedIsNotWaiting'
<1>1. TypeOK /\ StartedIsNotWaiting /\ TakenAnswer
  BY DEF QueueInv
<1>2. CASE \E r \in Run : StartTaken(r)
  <2>1. PICK r \in Run : StartTaken(r)
    BY <1>2
  <2>2. queue[loop.row].state \in {"running", "done"}
    BY <2>1, TakenProcs DEF QueueInv, CalledIsRunning
  <2> QED  BY <1>1, <2>1, <2>2, TakenProcs DEF StartedIsNotWaiting
<1>3. CASE ~ \E r \in Run : StartTaken(r)
  <2> SUFFICES ASSUME NEW q \in Run, NEW i \in Row, procs[q].row = i
               PROVE  /\ queue'[i].state \in {"running", "done"}
                      /\ loop'.pc \in {"check", "mark", "call"} => i # loop'.row
    <3>1. \A q \in Run : procs[q].row \in Row \cup {NoRow} /\ procs'[q].row = procs[q].row
      BY <1>1, <1>3, ProcsKept DEF TypeOK, ProcRecord
    <3> QED  BY <3>1 DEF StartedIsNotWaiting
  <2>1. /\ queue[i].state \in {"running", "done"}
        /\ loop.pc \in {"check", "mark", "call"} => i # loop.row
    <3>1. NoRow \notin Row
      BY DEF NoRow, Row
    <3> QED  BY <1>1, <3>1 DEF StartedIsNotWaiting
  <2>2. CASE Elsewhere
    BY <2>1, <2>2, ElsewhereLoop, ElsewhereRows
  <2>3. CASE HandsFree
    <3>1. queue'[i].state \in {"running", "done"}
      BY <2>1, <2>3, HandsFreeRows
    <3> QED  BY <1>1, <2>3, <3>1, HandsFreeLoop
  <2>4. CASE CheckResume
    <3>1. queue'[i].state \in {"running", "done"}
      BY <2>1, <2>4, ClosedRows DEF QueueClosed
    <3>2. loop' = TopOfRound \/ (loop' = [loop EXCEPT !.pc = "mark"] /\ loop.pc = "check")
      BY <2>4 DEF CheckResume
    <3> QED  BY <1>1, <2>1, <3>1, <3>2, TopPc DEF TypeOK, LoopRecord
  <2>5. CASE MarkRunning
    <3>1. loop.pc = "mark" /\ loop'.row = loop.row
      BY <1>1, <2>5 DEF MarkRunning, TypeOK, LoopRecord
    <3> QED  BY <1>1, <2>1, <2>5, <3>1, MarkRows
  <2>6. CASE StartHeldOff \/ StartRefused
    BY <1>1, <2>1, <2>6 DEF StartHeldOff, StartRefused, TypeOK, LoopRecord
  <2>7. CASE \E j \in Row, s \in Stand : PumpPick(j, s)
    <3>1. PICK j \in Row, s \in Stand : PumpPick(j, s)
      BY <2>7
    <3>2. loop'.row = j /\ queue' = queue /\ queue[j].state = "waiting"
      BY <1>1, <3>1 DEF PumpPick, NextUp, Waiting, TypeOK, LoopRecord
    <3> QED  BY <2>1, <3>2
  <2> QED  BY <1>3, <2>2, <2>3, <2>4, <2>5, <2>6, <2>7, LoopCases
<1> QED  BY <1>2, <1>3

-----------------------------------------------------------------------------
(* The order of the line.                                                  *)

\* While the loop has a row in hand, nobody else touches a row in the line but
\* to take it out.
LEMMA ElsewhereWaiting ==
  ASSUME QueueInv, Elsewhere, NEW j \in Row, queue'[j].state = "waiting", j # posted + 1
  PROVE  queue'[j] = queue[j]
<1>1. TypeOK
  BY DEF QueueInv
<1>2. CASE QueueKept
  BY <1>2, QueueUnchanged
<1>3. CASE \/ \E rows : Withdraw(rows)
           \/ \E m \in wire : StoreRunEnd(m)
  <2>1. PICK rows : queue' = Done(rows)
    BY <1>3 DEF Withdraw, StoreRunEnd
  <2>2. j \notin rows
    BY <1>1, <2>1, DoneRows
  <2> QED  BY <2>1, <2>2 DEF Done
<1>4. CASE \E t \in Tickets, ask \in Asks : PostQueue(t, ask)
  BY <1>1, <1>4, PostRows
<1>5. CASE \E m \in wire : StoreRunStart(m)
  <2>1. PICK m \in wire : StoreRunStart(m)
    BY <1>5
  <2>2. ~Untied(j)
    BY <1>1, <2>1, TieRows DEF Untied
  <2> QED  BY <2>1, <2>2 DEF StoreRunStart, TieTarget
<1>6. CASE \E i \in Row : AgeRow(i)
  <2>1. PICK i \in Row : AgeRow(i)
    BY <1>6
  <2>2. ~Untied(j)
    BY <1>1, <2>1, AgeRows DEF Untied
  <2> QED  BY <1>1, <2>1, <2>2 DEF AgeRow, TypeOK
<1> QED
  BY <1>2, <1>3, <1>4, <1>5, <1>6
  DEF Elsewhere, Handler, QueueKept, WithdrawOne, WithdrawTicket, WithdrawAll

\* The row in hand is the first in the line that could go to its stand.
LEMMA FirstStep ==
  ASSUME QueueInv, [Next]_vars
  PROVE  PickedFirst'
<1> SUFFICES ASSUME loop'.pc \in {"check", "mark"}, NEW j \in Row,
                    queue'[j].state = "waiting", j < loop'.row
             PROVE  queue'[j].place \notin {"any", loop'.stand}
  BY DEF PickedFirst, Waiting
<1>1. TypeOK /\ PickedFirst /\ PickedIsUntied /\ UnpostedIsNone
  BY DEF QueueInv
<1>2. CASE Elsewhere
  <2>1. loop' = loop
    BY <1>2, ElsewhereLoop
  <2>2. loop.row \in Row /\ ~(loop.row > posted)
    BY <1>1, <2>1 DEF PickedIsUntied, UnpostedIsNone, NoQueueRow
  <2>3. j # posted + 1
    BY <1>1, <2>1, <2>2, BoundAssumption DEF TypeOK, Row, BoundAssumption
  <2>4. queue'[j] = queue[j]
    BY <1>2, <2>3, ElsewhereWaiting
  <2> QED  BY <1>1, <2>1, <2>4 DEF PickedFirst, Waiting
<1>3. CASE HandsFree
  BY <1>1, <1>3, HandsFreeLoop
<1>4. CASE CheckResume
  <2>1. queue' = queue /\ loop' = [loop EXCEPT !.pc = "mark"] /\ loop.pc = "check"
    BY <1>4, TopPc DEF CheckResume
  <2>2. loop'.row = loop.row /\ loop'.stand = loop.stand
    BY <1>1, <2>1 DEF TypeOK, LoopRecord
  <2> QED  BY <1>1, <2>1, <2>2 DEF PickedFirst, Waiting
<1>5. CASE MarkRunning \/ StartHeldOff \/ StartRefused
  BY <1>1, <1>5 DEF MarkRunning, StartHeldOff, StartRefused, TypeOK, LoopRecord
<1>6. CASE \E i \in Row, s \in Stand : PumpPick(i, s)
  <2>1. PICK i \in Row, s \in Stand : PumpPick(i, s)
    BY <1>6
  <2>2. loop'.row = i /\ loop'.stand = s /\ queue' = queue
    BY <1>1, <2>1 DEF PumpPick, TypeOK, LoopRecord
  <2>3. GoesTo(i, s) /\ \A u \in Stand : ~GoesTo(j, u)
    BY <2>1, <2>2 DEF PumpPick, NextUp, Waiting
  <2> QED  BY <2>2, <2>3 DEF GoesTo, Stand
<1>7. CASE \E r \in Run : StartTaken(r)
  BY <1>1, <1>7 DEF StartTaken, TypeOK, LoopRecord
<1> QED  BY <1>2, <1>3, <1>4, <1>5, <1>6, <1>7, LoopCases

\* A row that becomes running is the one in hand, on the stand picked for it.
LEMMA StartedIsInHand ==
  ASSUME QueueInv, [Next]_vars, NEW i \in Row,
         queue[i].state # "running", queue'[i].state = "running"
  PROVE  i = loop.row /\ loop.pc = "mark" /\ queue'[i].place = loop.stand
<1>1. TypeOK
  BY DEF QueueInv
<1>2. MarkRunning
  <2>1. ~QueueKept
    BY QueueUnchanged
  <2>2. ~QueueClosed
    BY ClosedRows
  <2>3. ~ReplyAgain
    BY <1>1, AgainRows
  <2>4. ~ \E t \in Tickets, ask \in Asks : PostQueue(t, ask)
    BY <1>1, PostRows
  <2>5. ~ \E m \in wire : StoreRunStart(m)
    BY <1>1, TieRows
  <2>6. ~ \E j \in Row : AgeRow(j)
    BY <1>1, AgeRows
  <2> QED  BY <2>1, <2>2, <2>3, <2>4, <2>5, <2>6, QueueCases
<1>3. i = loop.row
  BY <1>1, <1>2, MarkRows
<1>4. queue[i] \in RowRecord
  BY <1>1 DEF TypeOK
<1>5. queue'[i].place = loop.stand
  BY <1>1, <1>2, <1>3, <1>4 DEF MarkRunning, TypeOK, RowRecord
<1> QED  BY <1>2, <1>3, <1>5 DEF MarkRunning

-----------------------------------------------------------------------------
(* Which run a row is tied to, when no event is delivered twice.           *)

\* The run_start of run r is on its way.
Sent(r) == \E m \in wire : m.run = r /\ m.kind = "run_start"

\* A run_start is under way once, about a run there is; a row is tied to a run
\* whose run_start is not under way any more, and no two rows to one run.
TiedOnce ==
  /\ \A m, n \in wire : m.kind = "run_start" /\ n.kind = "run_start" /\ m.run = n.run => m = n
  /\ \A m \in wire : m.run <= minted
  /\ \A r \in Run : r > minted => procs[r].state = "unborn"
  /\ \A i \in Row : queue[i].run # NoRun => queue[i].run <= minted /\ ~Sent(queue[i].run)
  /\ OneRowPerRun

\* The two steps that change a run of the orchestrators.
LEMMA ProcsSame ==
  ASSUME [Next]_vars, ~ \E r \in Run : StartTaken(r),
         ~ \E r \in Run, v \in Verdicts : ProcEnds(r, v)
  PROVE  procs' = procs /\ minted' = minted
BY DEF Next, LoopStep, Handler, Surroundings, SweepAbandoned, CloseFromSnapshot, SweepQueue, Weigh,
   PumpPick, PumpNothing, CheckResume, MarkRunning, StartHeldOff, StartRefused,
   ReplyTaken, ReplyAgain, ReplyRefused, PostQueue, WithdrawOne, WithdrawTicket, WithdrawAll,
   Withdraw, StoreRunStart, StoreRunEnd, StoreOther, TakeLease, DropLease, DeployBegins,
   DeployEnds, Restart, AgeRow, AgeRun, outside, vars

\* A run that ends is gone; nothing else of any run changes.
LEMMA EndedProcs ==
  ASSUME TypeOK, NEW r \in Run, NEW v, ProcEnds(r, v), NEW q \in Run
  PROVE  /\ procs'[q].state = IF q = r THEN "gone" ELSE procs[q].state
         /\ procs'[q].name = procs[q].name /\ procs'[q].stand = procs[q].stand
         /\ procs'[q].row = procs[q].row
         /\ minted' = minted /\ procs[r].state = "alive"
<1> DEFINE gone == [procs[r] EXCEPT !.state = "gone"]
<1>1. procs[r] \in ProcRecord
  BY DEF TypeOK
<1>2. /\ gone.state = "gone" /\ gone.name = procs[r].name
      /\ gone.stand = procs[r].stand /\ gone.row = procs[r].row
  BY <1>1 DEF ProcRecord
<1>3. procs' = [procs EXCEPT ![r] = gone]
  BY DEF ProcEnds, TypeOK
<1>4. minted' = minted /\ procs[r].state = "alive"
  BY DEF ProcEnds
<1> HIDE DEF gone
<1> QED  BY <1>2, <1>3, <1>4 DEF TypeOK

\* A run that is started is alive, of the ticket of the row in hand, on the stand
\* picked for it; nothing of the others changes.
LEMMA BornProcs ==
  ASSUME QueueInv, NEW r \in Run, StartTaken(r), NEW q \in Run
  PROVE  /\ q # r => procs'[q] = procs[q]
         /\ procs'[r].state = "alive" /\ procs'[r].name = queue[loop.row].name
         /\ procs'[r].stand = loop.stand /\ procs'[r].row = loop.row
<1> DEFINE born == [state |-> "alive", name |-> queue[loop.row].name,
                    stand |-> loop.stand, row |-> loop.row]
<1>1. procs' = [procs EXCEPT ![r] = born]
  BY DEF StartTaken, Mint
<1>2. /\ born.state = "alive" /\ born.name = queue[loop.row].name
      /\ born.stand = loop.stand /\ born.row = loop.row
  OBVIOUS
<1> HIDE DEF born
<1> QED  BY <1>1, <1>2 DEF QueueInv, TypeOK

\* What a step does to the events under way.
LEMMA WireCases ==
  ASSUME "duplicate" \notin Faults, [Next]_vars
  PROVE  \/ wire' = wire
         \/ \E m \in wire : (StoreRunStart(m) \/ StoreRunEnd(m)) /\ wire' = wire \ {m}
         \/ \E r \in Run : StartTaken(r) /\ wire' = wire \cup
              {[run |-> r, kind |-> "run_start", verdict |-> "", at |-> posted]}
         \/ \E r \in Run, v \in Verdicts : ProcEnds(r, v) /\ wire' = wire \cup
              {[run |-> r, kind |-> "run_end", verdict |-> v, at |-> posted]}
<1>1. ASSUME NEW m \in wire, StoreRunStart(m) \/ StoreRunEnd(m)
      PROVE  wire' = wire \ {m}
  BY <1>1 DEF StoreRunStart, StoreRunEnd, Delivered
<1>2. ASSUME NEW r \in Run, StartTaken(r)
      PROVE  wire' = wire \cup {[run |-> r, kind |-> "run_start", verdict |-> "", at |-> posted]}
  BY <1>2 DEF StartTaken, Mint
<1>3. ASSUME NEW r \in Run, NEW v \in Verdicts, ProcEnds(r, v)
      PROVE  wire' = wire \cup {[run |-> r, kind |-> "run_end", verdict |-> v, at |-> posted]}
  BY <1>3 DEF ProcEnds
<1>4. CASE \E m \in wire : StoreRunStart(m) \/ StoreRunEnd(m)
  BY <1>1, <1>4
<1>5. CASE \E r \in Run : StartTaken(r)
  BY <1>2, <1>5
<1>6. CASE \E r \in Run, v \in Verdicts : ProcEnds(r, v)
  BY <1>3, <1>6
<1>7. CASE /\ ~ \E m \in wire : StoreRunStart(m) \/ StoreRunEnd(m)
           /\ ~ \E r \in Run : StartTaken(r)
           /\ ~ \E r \in Run, v \in Verdicts : ProcEnds(r, v)
  <2>1. wire' = wire
    BY <1>7 DEF Next, LoopStep, Handler, Surroundings, SweepAbandoned, CloseFromSnapshot,
      SweepQueue, Weigh, PumpPick, PumpNothing, CheckResume, MarkRunning, StartHeldOff,
      StartRefused, ReplyTaken, ReplyAgain, ReplyRefused, PostQueue, WithdrawOne, WithdrawTicket,
      WithdrawAll, Withdraw, StoreOther, TakeLease, DropLease, DeployBegins,
      DeployEnds, Restart, AgeRow, AgeRun, outside, vars
  <2> QED  BY <2>1
<1> QED  BY <1>4, <1>5, <1>6, <1>7

\* Only a run_start ties a row.
LEMMA TiesKept ==
  ASSUME QueueInv, [Next]_vars, ~ \E m \in wire : StoreRunStart(m), NEW i \in Row
  PROVE  queue'[i].run = queue[i].run
<1>1. TypeOK /\ UnpostedIsNone
  BY DEF QueueInv
<1>2. CASE QueueKept
  BY <1>2, QueueUnchanged
<1>3. CASE QueueClosed
  BY <1>3, ClosedRows
<1>4. CASE MarkRunning
  BY <1>1, <1>4, MarkRows
<1>5. CASE ReplyAgain
  BY <1>1, <1>5, AgainRows
<1>6. CASE \E t \in Tickets, ask \in Asks : PostQueue(t, ask)
  <2>1. i = posted + 1 => queue[i].run = NoRun
    BY <1>1 DEF TypeOK, UnpostedIsNone, NoQueueRow
  <2> QED  BY <1>1, <1>6, <2>1, PostRows
<1>7. CASE \E j \in Row : AgeRow(j)
  BY <1>1, <1>7, AgeRows
<1> QED  BY <1>2, <1>3, <1>4, <1>5, <1>6, <1>7, QueueCases

\* A run_start ties the oldest untied running row of its ticket, and no other.
LEMMA TiedRows ==
  ASSUME TypeOK, NEW m \in wire, StoreRunStart(m), NEW i \in Row
  PROVE  /\ queue'[i].run = IF i \in TieTarget(procs[m.run].name) THEN m.run ELSE queue[i].run
         /\ queue'[i].state = queue[i].state /\ queue'[i].place = queue[i].place
         /\ queue'[i].name = queue[i].name /\ queue'[i].age = queue[i].age
<1> DEFINE tied == [queue[i] EXCEPT !.run = m.run]
<1>1. queue[i] \in RowRecord
  BY DEF TypeOK
<1>2. /\ tied.run = m.run /\ tied.state = queue[i].state /\ tied.place = queue[i].place
      /\ tied.name = queue[i].name /\ tied.age = queue[i].age
  BY <1>1 DEF RowRecord
<1>3. queue'[i] = IF i \in TieTarget(procs[m.run].name) THEN tied ELSE queue[i]
  BY DEF StoreRunStart
<1> HIDE DEF tied
<1> QED  BY <1>2, <1>3

\* There is one such row at most.
LEMMA OneTarget ==
  ASSUME NEW t, NEW i \in TieTarget(t), NEW j \in TieTarget(t)
  PROVE  i = j
BY DEF TieTarget, Row

\* Every step keeps TiedOnce, when no event is delivered twice.
LEMMA TiedStep ==
  ASSUME "duplicate" \notin Faults, QueueInv, TiedOnce, [Next]_vars
  PROVE  TiedOnce'
<1>1. TypeOK
  BY DEF QueueInv
<1> USE DEF NoRun
<1>2. CASE \E m \in wire : StoreRunStart(m)
  <2>1. PICK m \in wire : StoreRunStart(m)
    BY <1>2
  <2>2. /\ wire' = wire \ {m} /\ m.kind = "run_start" /\ m.run \in Run
        /\ minted' = minted /\ procs' = procs
    BY <1>1, <2>1 DEF StoreRunStart, Delivered, TypeOK, EventRecord
  <2>3. \A i \in Row : queue'[i].run = IF i \in TieTarget(procs[m.run].name) THEN m.run
                                                                              ELSE queue[i].run
    BY <1>1, <2>1, TiedRows
  <2>4. \A i \in Row : queue[i].run # m.run
    <3>1. Sent(m.run)
      BY <2>2 DEF Sent
    <3> QED  BY <2>2, <3>1 DEF TiedOnce, Run
  <2>6. OneRowPerRun'
    <3> SUFFICES ASSUME NEW i \in Row, NEW j \in Row, queue'[i].run # NoRun,
                        queue'[i].run = queue'[j].run
                 PROVE  i = j
      BY DEF OneRowPerRun
    <3>1. \A k, l \in TieTarget(procs[m.run].name) : k = l
      BY OneTarget
    <3> QED  BY <2>3, <2>4, <3>1 DEF TiedOnce, OneRowPerRun
  <2>7. \A i \in Row : queue'[i].run # NoRun => queue'[i].run <= minted' /\ ~(Sent(queue[i].run))'
    BY <2>2, <2>3, <2>4 DEF TiedOnce, Sent
  <2> QED  BY <2>2, <2>6, <2>7 DEF TiedOnce
<1>3. CASE ~ \E m \in wire : StoreRunStart(m)
  <2>1. \A i \in Row : queue'[i].run = queue[i].run
    BY <1>3, TiesKept
  <2>2. OneRowPerRun'
    BY <2>1 DEF TiedOnce, OneRowPerRun
  <2>3. CASE \E r \in Run : StartTaken(r)
    <3>1. PICK r \in Run : StartTaken(r)
      BY <2>3
    <3>2. r = minted + 1 /\ minted' = r /\ \A q \in Run : q # r => procs'[q] = procs[q]
      BY <3>1, TakenProcs, BornProcs
    <3> DEFINE start == [run |-> r, kind |-> "run_start", verdict |-> "", at |-> posted]
    <3>3. wire' = wire \cup {start}
      BY <3>1 DEF StartTaken, Mint
    <3>4. start.run = r /\ start.kind = "run_start"
      OBVIOUS
    <3> HIDE DEF start
    <3>5. minted \in Nat /\ \A m \in wire : m.run \in Nat /\ m.run <= minted
      <4>1. minted \in Nat
        BY <1>1, BoundAssumption DEF TypeOK, BoundAssumption
      <4>2. \A m \in wire : m.run \in Run
        BY <1>1 DEF TypeOK, EventRecord
      <4> QED  BY <4>1, <4>2 DEF TiedOnce, Run
    <3>6. \A m, n \in wire' : m.kind = "run_start" /\ n.kind = "run_start" /\ m.run = n.run => m = n
      BY <3>2, <3>3, <3>4, <3>5 DEF TiedOnce
    <3>7. \A m \in wire' : m.run <= minted'
      BY <3>2, <3>3, <3>4, <3>5
    <3>8. \A q \in Run : q > minted' => procs'[q].state = "unborn"
      BY <3>2, <3>5 DEF TiedOnce, Run
    <3>9. \A q : Sent(q)' => Sent(q) \/ q = r
      BY <3>3, <3>4 DEF Sent
    <3>10. \A i \in Row : queue'[i].run # NoRun =>
             queue'[i].run <= minted' /\ ~(Sent(queue[i].run))'
      <4> SUFFICES ASSUME NEW i \in Row, queue[i].run # NoRun
                   PROVE  /\ queue[i].run <= minted'
                          /\ \A m \in wire' : m.kind = "run_start" => m.run # queue[i].run
        BY <2>1 DEF Sent
      <4>1. queue[i].run \in Run /\ queue[i].run <= minted /\ ~Sent(queue[i].run)
        BY <1>1 DEF TypeOK, RowRecord, TiedOnce
      <4> QED  BY <3>2, <3>3, <3>4, <3>5, <4>1 DEF Run, Sent
    <3> QED  BY <2>2, <3>6, <3>7, <3>8, <3>10 DEF TiedOnce
  <2>4. CASE \E r \in Run, v \in Verdicts : ProcEnds(r, v)
    <3>1. PICK r \in Run, v \in Verdicts : ProcEnds(r, v)
      BY <2>4
    <3> DEFINE end == [run |-> r, kind |-> "run_end", verdict |-> v, at |-> posted]
    <3>2. wire' = wire \cup {end}
      BY <3>1 DEF ProcEnds
    <3>3. end.run = r /\ end.kind = "run_end"
      OBVIOUS
    <3> HIDE DEF end
    <3>4. r <= minted
      BY <1>1, <3>1, EndedProcs DEF TiedOnce, TypeOK, Run
    <3>5. minted' = minted /\ \A q \in Run : q > minted => procs'[q].state = "unborn"
      BY <1>1, <3>1, <3>4, EndedProcs DEF TiedOnce, Run, TypeOK
    <3>6. \A q : Sent(q)' => Sent(q)
      BY <3>2, <3>3 DEF Sent
    <3> QED  BY <2>1, <2>2, <3>2, <3>3, <3>4, <3>5, <3>6 DEF TiedOnce
  <2>5. CASE /\ ~ \E r \in Run : StartTaken(r)
             /\ ~ \E r \in Run, v \in Verdicts : ProcEnds(r, v)
    <3>1. procs' = procs /\ minted' = minted
      BY <2>5, ProcsSame
    <3>2. wire' \subseteq wire
      BY <2>5, WireCases
    <3>3. \A q : Sent(q)' => Sent(q)
      BY <3>2 DEF Sent
    <3> QED  BY <2>1, <2>2, <3>1, <3>2, <3>3 DEF TiedOnce
  <2> QED  BY <2>3, <2>4, <2>5
<1> QED  BY <1>2, <1>3

\* TiedOnce holds of an empty database.
LEMMA TiedInit == Init => TiedOnce
BY DEF Init, TiedOnce, NoQueueRow, NoProc, OneRowPerRun

-----------------------------------------------------------------------------
(* The room of a stand, where nothing is late or said twice.         *)

\* Deploys are all the surroundings do to the queue.
OnlyDeploys == Faults \subseteq {"deploys"}

\* Nothing is old: no sweep has anything to close.
OnTime ==
  /\ \A i \in Row : queue[i].age = "fresh"
  /\ \A r \in Run : runs[r].quiet = "talking"
  /\ loop.todo = {}
  /\ \A r \in Run : r <= minted => procs[r].state # "unborn"
  /\ \A m \in wire : m.kind = "run_end" => procs[m.run].state = "gone"

\* What the table says of a run once its run_start is stored, and not before.
ToldOf(r) ==
  IF procs[r].state = "unborn" \/ Sent(r)
  THEN runs[r].state = "none"
  ELSE /\ runs[r].state # "none" /\ runs[r].name = procs[r].name
       /\ runs[r].local = (procs[r].stand = "local")
       /\ procs[r].state = "alive" => Open(r)
Told == \A r \in Run : ToldOf(r)

\* The runs of a ticket come one after the other, and so do their run_starts.
OneByOne ==
  \A q, r \in Run : q < r /\ r <= minted /\ procs[q].name = procs[r].name =>
    procs[q].state # "alive" /\ (Sent(q) => Sent(r))

\* A row that was started, or is being started, holds its stand till it is tied.
RowHolds ==
  /\ \A r \in Run : procs[r].state # "unborn" => procs[r].row \in Row
  /\ \A r \in Run : procs[r].row # NoRow /\ queue[procs[r].row].run = NoRun =>
       queue[procs[r].row].state = "running" /\ queue[procs[r].row].place = procs[r].stand
  /\ loop.pc = "call" /\ queue[loop.row].run = NoRun =>
       queue[loop.row].state = "running" /\ queue[loop.row].place = loop.stand
  /\ loop.pc = "reply" /\ loop.said \in {"again", "refused"} =>
       \A r \in Run : procs[r].row # loop.row

Alive(s) == {r \in Run : procs[r].state = "alive" /\ procs[r].stand = s}
Room(s) == IF s = "docker" THEN Slots ELSE 1
Matched == \A i \in Row : queue[i].run # NoRun => procs[queue[i].run].row = i

\* While every row is tied to the run started for it, a stand has room for its
\* live runs, and for one more if a row is in hand for it.
Kept ==
  Matched => /\ \A s \in Stand : Cardinality(Alive(s)) <= Room(s)
             /\ loop.pc \in {"check", "mark", "call"} =>
                  Cardinality(Alive(loop.stand)) < Room(loop.stand)

RoomInv == TiedOnce /\ OnTime /\ Told /\ OneByOne /\ RowHolds /\ Kept

\* A run whose run_start is on its way has been started, and is not in the table.
LEMMA SentRuns ==
  ASSUME QueueInv, TiedOnce, OnTime, Told, NEW m \in wire
  PROVE  /\ m.run \in Run /\ procs[m.run].state # "unborn" /\ m.run <= minted
         /\ m.kind = "run_start" => Sent(m.run) /\ runs[m.run].state = "none"
<1>1. m.run \in Run
  BY DEF QueueInv, TypeOK, EventRecord
<1>2. m.run <= minted /\ procs[m.run].state # "unborn"
  BY <1>1 DEF TiedOnce, OnTime
<1>3. m.kind = "run_start" => Sent(m.run)
  BY DEF Sent
<1> QED  BY <1>1, <1>2, <1>3 DEF Told, ToldOf

\* Nothing is old enough to be swept, and nothing but its run_start opens a run.
LEMMA QuietSteps ==
  ASSUME OnlyDeploys, QueueInv, TiedOnce, OnTime, Told
  PROVE  /\ \A r \in Run : ~CloseFromSnapshot(r) /\ ~AgeRun(r) /\ ~StoreOther(r)
         /\ \A i \in Row : ~AgeRow(i)
         /\ "duplicate" \notin Faults /\ "reorder" \notin Faults
         /\ TakenAnswers = {"run_id"}
<1>1. \A f \in {"reorder", "duplicate", "slow", "unsaid", "several"} : f \notin Faults
  BY DEF OnlyDeploys
<1>2. ASSUME NEW r \in Run  PROVE ~StoreOther(r)
  <2> SUFFICES ASSUME StoreOther(r)  PROVE FALSE
    OBVIOUS
  <2>1. procs[r].state # "unborn" /\ runs[r].state = "none"
    BY DEF StoreOther, OnTime
  <2>2. Sent(r)
    BY <2>1 DEF Told, ToldOf
  <2>3. runs[r].name = Unnamed
    BY <2>1 DEF QueueInv, UnheardIsUnnamed
  <2> QED  BY <1>1, <2>2, <2>3 DEF StoreOther, Sent
<1> QED  BY <1>1, <1>2 DEF CloseFromSnapshot, OnTime, AgeRun, AgeRow, TakenAnswers

\* Closing a row ends it, and leaves all else of it as it was.
LEMMA DonePlaces ==
  ASSUME TypeOK, NEW rows, NEW i \in Row
  PROVE  Done(rows)[i].place = queue[i].place /\ Done(rows)[i].age = queue[i].age
<1> DEFINE done == [queue[i] EXCEPT !.state = "done"]
<1>1. queue[i] \in RowRecord
  BY DEF TypeOK
<1>2. done.place = queue[i].place /\ done.age = queue[i].age
  BY <1>1 DEF RowRecord
<1>3. Done(rows)[i] = IF i \in rows THEN done ELSE queue[i]
  BY DEF Done
<1> HIDE DEF done
<1> QED  BY <1>2, <1>3

\* The row in hand is marked fresh and with its stand, the others stay.
LEMMA MarkPlaces ==
  ASSUME QueueInv, MarkRunning, NEW i \in Row
  PROVE  /\ i # loop.row => queue'[i] = queue[i]
         /\ i = loop.row => queue'[i].place = loop.stand /\ queue'[i].age = "fresh"
<1> DEFINE marked == [queue[i] EXCEPT !.state = "running", !.place = loop.stand, !.age = "fresh"]
<1>1. queue[i] \in RowRecord
  BY DEF QueueInv, TypeOK
<1>2. marked.place = loop.stand /\ marked.age = "fresh"
  BY <1>1 DEF RowRecord
<1>3. queue'[i] = IF i = loop.row THEN marked ELSE queue[i]
  BY DEF MarkRunning, QueueInv, TypeOK
<1> HIDE DEF marked
<1> QED  BY <1>2, <1>3

\* A row that waits again is fresh, the others stay.
LEMMA AgainPlaces ==
  ASSUME QueueInv, ReplyAgain, NEW i \in Row
  PROVE  /\ i # loop.row => queue'[i] = queue[i]
         /\ queue'[i].age \in {"fresh", queue[i].age}
<1> DEFINE again == [queue[i] EXCEPT !.state = "waiting", !.place = loop.asked, !.age = "fresh"]
<1>1. queue[i] \in RowRecord
  BY DEF QueueInv, TypeOK
<1>2. again.age = "fresh"
  BY <1>1 DEF RowRecord
<1>3. queue'[i] = IF i = loop.row /\ queue[i].run = NoRun THEN again ELSE queue[i]
  BY DEF ReplyAgain, WaitsAgain, QueueInv, TypeOK
<1> HIDE DEF again
<1> QED  BY <1>2, <1>3

\* Every row stays fresh.
LEMMA FreshStep ==
  ASSUME OnlyDeploys, QueueInv, TiedOnce, OnTime, Told, [Next]_vars, NEW i \in Row
  PROVE  queue'[i].age = "fresh"
<1>1. TypeOK /\ queue[i].age = "fresh"
  BY DEF QueueInv, OnTime
<1>2. CASE QueueKept
  BY <1>1, <1>2, QueueUnchanged
<1>3. CASE QueueClosed
  <2>1. PICK rows : queue' = Done(rows) \/ queue' = queue
    BY <1>3 DEF QueueClosed, SweepQueue, CheckResume, ReplyRefused, Withdraw, CloseFromSnapshot,
       Finish, StoreRunEnd
  <2> QED  BY <1>1, <2>1, DonePlaces
<1>4. CASE MarkRunning
  BY <1>1, <1>4, MarkPlaces
<1>5. CASE ReplyAgain
  BY <1>1, <1>5, AgainPlaces
<1>6. CASE \E t \in Tickets, ask \in Asks : PostQueue(t, ask)
  <2>1. PICK t \in Tickets, ask \in Asks : PostQueue(t, ask)
    BY <1>6
  <2> DEFINE new == [NoQueueRow EXCEPT !.state = "waiting", !.name = t, !.place = ask.place,
                                       !.resume = ask.resume]
  <2>2. new.age = "fresh"
    BY DEF NoQueueRow
  <2>3. queue' = [queue EXCEPT ![posted + 1] = new]
    BY <2>1 DEF PostQueue
  <2> HIDE DEF new
  <2> QED  BY <1>1, <2>2, <2>3 DEF TypeOK
<1>7. CASE \E m \in wire : StoreRunStart(m)
  BY <1>1, <1>7, TiedRows
<1>8. CASE \E j \in Row : AgeRow(j)
  BY <1>8, QuietSteps
<1> QED  BY <1>2, <1>3, <1>4, <1>5, <1>6, <1>7, <1>8, QueueCases

\* An event other than a stored one leaves the table runs as it is.
LEMMA QuietRuns ==
  ASSUME OnlyDeploys, QueueInv, TiedOnce, OnTime, Told, [Next]_vars,
         ~ \E m \in wire : StoreRunStart(m) \/ StoreRunEnd(m)
  PROVE  runs' = runs
<1>1. RunsKept
  BY RunsCases, QuietSteps
<1> QED  BY <1>1, RunsUnchanged

\* What a run_start writes, of the stand a run is counted on and of the time it is quiet.
LEMMA StartLocals ==
  ASSUME TypeOK, NEW m \in wire, StoreRunStart(m), NEW q \in Run
  PROVE  /\ runs'[q].local = IF q = m.run THEN procs[q].stand = "local" ELSE runs[q].local
         /\ runs[q].quiet = "talking" => runs'[q].quiet = "talking"
<1> DEFINE t == procs[m.run].name
           closed == [runs[q] EXCEPT !.state = "closed", !.verdict = "other", !.ended = m.at]
<1>1. runs[q] \in RunRecord
  BY DEF TypeOK
<1>2. runs'[q] = IF q = m.run THEN Upserted(m.run, t)
                 ELSE IF Open(q) /\ runs[q].name = t THEN closed ELSE runs[q]
  BY DEF StoreRunStart, Superseded
<1>3. CASE q = m.run
  <2>1. PICK b : b = (procs[q].stand = "local")
    OBVIOUS
  <2>2. Upserted(q, t) = [runs[q] EXCEPT !.state = IF @ = "none" THEN "open" ELSE @, !.name = t,
                                         !.local = b, !.quiet = IF @ = "silent" THEN "over" ELSE @]
    BY <2>1 DEF Upserted
  <2>3. Upserted(q, t).local = b /\ (runs[q].quiet = "talking" => Upserted(q, t).quiet = "talking")
    BY <1>1, <2>2 DEF RunRecord
  <2> QED  BY <1>2, <1>3, <2>1, <2>3
<1>4. CASE q # m.run
  <2>1. closed.local = runs[q].local /\ closed.quiet = runs[q].quiet
    BY <1>1 DEF RunRecord
  <2> HIDE DEF closed
  <2> QED  BY <1>2, <1>4, <2>1
<1> QED  BY <1>3, <1>4

\* A run_end leaves both.
LEMMA EndLocals ==
  ASSUME TypeOK, NEW m \in wire, StoreRunEnd(m), NEW q \in Run
  PROVE  /\ runs'[q].local = runs[q].local
         /\ runs[q].quiet = "talking" => runs'[q].quiet = "talking"
<1> DEFINE r == m.run
           closed == [Heard(r) EXCEPT !.state = "closed", !.verdict = m.verdict, !.ended = m.at]
<1>1. r \in Run
  BY DEF TypeOK, EventRecord
<1>2. runs[r] \in RunRecord /\ Heard(r) \in RunRecord
  BY <1>1, EventType DEF TypeOK
<1>3. Heard(r).local = runs[r].local /\ (runs[r].quiet = "talking" => Heard(r).quiet = "talking")
  BY <1>2 DEF Heard, RunRecord
<1>4. closed.local = Heard(r).local /\ closed.quiet = Heard(r).quiet
  BY <1>2 DEF RunRecord
<1>5. runs' = [runs EXCEPT ![r] = closed]
  BY DEF StoreRunEnd
<1> HIDE DEF closed
<1> QED  BY <1>1, <1>3, <1>4, <1>5 DEF TypeOK

\* Nothing grows old.
LEMMA OnTimeStep ==
  ASSUME OnlyDeploys, QueueInv, TiedOnce, OnTime, Told, [Next]_vars
  PROVE  OnTime'
<1>1. TypeOK
  BY DEF QueueInv
<1>2. \A i \in Row : queue'[i].age = "fresh"
  BY FreshStep
<1>3. \A r \in Run : runs'[r].quiet = "talking"
  <2>1. CASE \E m \in wire : StoreRunStart(m) \/ StoreRunEnd(m)
    BY <1>1, <2>1, StartLocals, EndLocals DEF OnTime
  <2>2. CASE ~ \E m \in wire : StoreRunStart(m) \/ StoreRunEnd(m)
    BY <2>2, QuietRuns DEF OnTime
  <2> QED  BY <2>1, <2>2
<1>4. loop'.todo = {}
  <2>1. \A r \in Run : ~CloseFromSnapshot(r)
    BY QuietSteps
  <2>2. \A r \in Run : runs[r].quiet = "talking"
    BY DEF OnTime
  <2>3. loop.todo = {} /\ TopOfRound.todo = {}
    BY DEF OnTime, TopOfRound
  <2>4. CASE Elsewhere
    BY <2>3, <2>4, ElsewhereLoop
  <2>5. CASE SweepAbandoned \/ Weigh
    <3>1. \E pc \in {"closing", "judging"}, todo \in {{}} :
            loop' = [loop EXCEPT !.pc = pc, !.todo = todo]
      <4>1. {r \in Run : Open(r) /\ runs[r].quiet = "silent"} = {}
        BY <2>2
      <4>2. {r \in Run : Open(r) /\ runs[r].quiet # "talking"} = {}
        BY <2>2
      <4> QED  BY <2>5, <4>1, <4>2 DEF SweepAbandoned, Weigh
    <3> QED  BY <1>1, <3>1 DEF TypeOK, LoopRecord
  <2>6. CASE PumpNothing \/ ReplyTaken \/ ReplyRefused \/ Restart
    BY <2>3, <2>6 DEF PumpNothing, ReplyTaken, ReplyRefused, Restart
  <2>7. CASE ReplyAgain
    <3>1. \A h : [TopOfRound EXCEPT !.pc = "judging", !.held = h].todo = {}
      BY DEF TopOfRound
    <3> QED  BY <2>7, <3>1 DEF ReplyAgain
  <2>8. CASE \/ SweepQueue \/ CheckResume \/ MarkRunning \/ StartHeldOff \/ StartRefused
             \/ \E i \in Row, s \in Stand : PumpPick(i, s)
    BY <1>1, <2>3, <2>8
    DEF SweepQueue, CheckResume, MarkRunning, StartHeldOff, StartRefused, PumpPick, TypeOK,
        LoopRecord
  <2>9. CASE \E r \in Run : StartTaken(r)
    BY <1>1, <2>3, <2>9 DEF StartTaken, TypeOK, LoopRecord
  <2> QED  BY <2>1, <2>4, <2>5, <2>6, <2>7, <2>8, <2>9, LoopCases DEF HandsFree
<1>5. /\ \A r \in Run : r <= minted' => procs'[r].state # "unborn"
      /\ \A m \in wire' : m.kind = "run_end" => procs'[m.run].state = "gone"
  <2>1. \A m \in wire : m.run \in Run
    BY <1>1 DEF TypeOK, EventRecord
  <2>2. minted \in Nat
    BY <1>1, BoundAssumption DEF TypeOK, BoundAssumption
  <2>3. CASE \E r \in Run : StartTaken(r)
    <3>1. PICK r \in Run : StartTaken(r)
      BY <2>3
    <3>2. /\ r = minted + 1 /\ minted' = r
          /\ \A q \in Run : q # r => procs'[q] = procs[q]
          /\ procs'[r].state = "alive"
      BY <3>1, TakenProcs, BornProcs
    <3>3. \A m \in wire' : m.kind = "run_end" => m \in wire
      <4> DEFINE start == [run |-> r, kind |-> "run_start", verdict |-> "", at |-> posted]
      <4>1. wire' = wire \cup {start} /\ start.kind # "run_end"
        BY <3>1 DEF StartTaken, Mint
      <4> HIDE DEF start
      <4> QED  BY <4>1
    <3>4. \A m \in wire : m.run # r
      BY <2>1, <2>2, <3>2 DEF TiedOnce, Run
    <3>5. \A q \in Run : q <= minted' => q <= minted \/ q = r
      BY <2>2, <3>2 DEF Run
    <3> QED  BY <2>1, <3>2, <3>3, <3>4, <3>5 DEF OnTime
  <2>4. CASE \E r \in Run, v \in Verdicts : ProcEnds(r, v)
    <3>1. PICK r \in Run, v \in Verdicts : ProcEnds(r, v)
      BY <2>4
    <3>2. /\ minted' = minted
          /\ \A q \in Run : procs'[q].state = IF q = r THEN "gone" ELSE procs[q].state
      BY <1>1, <3>1, EndedProcs
    <3>3. \A m \in wire' : m \in wire \/ m.run = r
      BY <3>1 DEF ProcEnds
    <3> QED  BY <2>1, <3>2, <3>3 DEF OnTime
  <2>5. CASE ~ (\E r \in Run : StartTaken(r)) /\ ~ \E r \in Run, v \in Verdicts : ProcEnds(r, v)
    <3>1. procs' = procs /\ minted' = minted
      BY <2>5, ProcsSame
    <3>2. wire' \subseteq wire
      BY <2>5, QuietSteps, WireCases
    <3> QED  BY <3>1, <3>2 DEF OnTime
  <2> QED  BY <2>3, <2>4, <2>5
<1> QED  BY <1>2, <1>3, <1>4, <1>5 DEF OnTime

\* A run_start stored is not under way any more; those of other runs are.
LEMMA SentAfterStart ==
  ASSUME OnlyDeploys, QueueInv, TiedOnce, OnTime, Told, NEW m \in wire, StoreRunStart(m), NEW q
  PROVE  /\ (Sent(q))' <=> Sent(q) /\ q # m.run
         /\ \A n \in wire : n.kind = "run_start" /\ procs[n.run].name = procs[m.run].name
                            => ~(n.run < m.run)
<1>1. m.kind = "run_start" /\ InOrder(m)
  BY DEF StoreRunStart
<1>2. wire' = wire \ {m}
  BY QuietSteps DEF StoreRunStart, Delivered
<1>3. (Sent(q))' <=> Sent(q) /\ q # m.run
  BY <1>1, <1>2 DEF Sent, TiedOnce
<1>4. \A n \in wire : n.kind = "run_start" /\ procs[n.run].name = procs[m.run].name
                      => ~(n.run < m.run)
  BY <1>1, QuietSteps DEF InOrder
<1> QED  BY <1>3, <1>4

\* A run_end is stored after the run_start of its run, and takes no run_start with it.
LEMMA SentAfterEnd ==
  ASSUME OnlyDeploys, QueueInv, TiedOnce, OnTime, Told, NEW m \in wire, StoreRunEnd(m), NEW q
  PROVE  /\ (Sent(q))' <=> Sent(q)
         /\ ~Sent(m.run) /\ procs[m.run].state = "gone" /\ procs' = procs
<1>1. m.kind = "run_end" /\ InOrder(m) /\ procs' = procs
  BY DEF StoreRunEnd
<1>2. wire' = wire \ {m}
  BY QuietSteps DEF StoreRunEnd, Delivered
<1>3. (Sent(q))' <=> Sent(q)
  BY <1>1, <1>2 DEF Sent
<1>4. ~Sent(m.run)
  BY <1>1, QuietSteps DEF InOrder, Sent
<1> QED  BY <1>1, <1>3, <1>4 DEF OnTime

\* A start that is taken sends the run_start of its run, and no other.
LEMMA SentAfterTaken ==
  ASSUME NEW r \in Run, StartTaken(r), NEW q
  PROVE  (Sent(q))' <=> Sent(q) \/ q = r
<1> DEFINE start == [run |-> r, kind |-> "run_start", verdict |-> "", at |-> posted]
<1>1. wire' = wire \cup {start} /\ start.kind = "run_start" /\ start.run = r
  BY DEF StartTaken, Mint
<1> HIDE DEF start
<1> QED  BY <1>1 DEF Sent

\* No other step sends or stores a run_start.
LEMMA SentKept ==
  ASSUME OnlyDeploys, QueueInv, TiedOnce, OnTime, Told, [Next]_vars, NEW q,
         ~ \E m \in wire : StoreRunStart(m), ~ \E r \in Run : StartTaken(r)
  PROVE  (Sent(q))' <=> Sent(q)
<1>1. CASE \E m \in wire : StoreRunEnd(m)
  BY <1>1, SentAfterEnd
<1>2. CASE wire' = wire
  BY <1>2 DEF Sent
<1>3. CASE \E r \in Run, v \in Verdicts : ProcEnds(r, v)
  <2>1. PICK r \in Run, v \in Verdicts : ProcEnds(r, v)
    BY <1>3
  <2> DEFINE end == [run |-> r, kind |-> "run_end", verdict |-> v, at |-> posted]
  <2>2. wire' = wire \cup {end} /\ end.kind # "run_start"
    BY <2>1 DEF ProcEnds
  <2> HIDE DEF end
  <2> QED  BY <2>2 DEF Sent
<1> QED  BY <1>1, <1>2, <1>3, WireCases, QuietSteps

\* A run that has not reported its start is a run whose ticket has no other alive.
LEMMA OlderNotAlive ==
  ASSUME QueueInv, TiedOnce, OnTime, OneByOne, NEW m \in wire, m.kind = "run_start", NEW q \in Run,
         q # m.run, procs[q].name = procs[m.run].name, procs[q].state = "alive"
  PROVE  Sent(q)
<1>1. m.run \in Run /\ m.run <= minted
  BY DEF QueueInv, TypeOK, EventRecord, TiedOnce
<1>2. q <= minted
  BY BoundAssumption DEF QueueInv, TypeOK, TiedOnce, Run, BoundAssumption
<1>3. ~(q < m.run)
  BY <1>1 DEF OneByOne
<1>4. m.run < q
  BY <1>1, <1>3 DEF Run
<1>5. Sent(m.run)
  BY DEF Sent
<1> QED  BY <1>1, <1>2, <1>4, <1>5 DEF OneByOne

\* What the table says of a run is what its own run_start said.
LEMMA ToldStep ==
  ASSUME OnlyDeploys, QueueInv, TiedOnce, OnTime, Told, OneByOne, [Next]_vars
  PROVE  Told'
<1> SUFFICES ASSUME NEW q \in Run  PROVE (ToldOf(q))'
  BY DEF Told
<1>1. TypeOK /\ ToldOf(q)
  BY DEF QueueInv, Told
<1>2. CASE \E m \in wire : StoreRunStart(m)
  <2>1. PICK m \in wire : StoreRunStart(m)
    BY <1>2
  <2>2. m.kind = "run_start" /\ procs' = procs
    BY <2>1 DEF StoreRunStart
  <2>3. (Sent(q))' <=> Sent(q) /\ q # m.run
    BY <2>1, SentAfterStart
  <2>4. CASE q = m.run
    <3>1. runs[q].state = "none" /\ procs[q].state # "unborn"
      BY <2>2, <2>4, SentRuns
    <3>2. runs'[q].state = "open" /\ runs'[q].name = procs[q].name
      BY <1>1, <2>1, <2>4, <3>1, StartRuns
    <3>3. runs'[q].local = (procs[q].stand = "local")
      BY <1>1, <2>1, <2>4, StartLocals
    <3> QED  BY <2>2, <2>3, <2>4, <3>1, <3>2, <3>3 DEF ToldOf, Open
  <2>5. CASE q # m.run
    <3> DEFINE t == procs[m.run].name
    <3>1. /\ runs'[q].name = runs[q].name
          /\ runs'[q].state = IF Open(q) /\ runs[q].name = t THEN "closed" ELSE runs[q].state
      BY <1>1, <2>1, <2>5, StartRuns
    <3>2. runs'[q].local = runs[q].local
      BY <1>1, <2>1, <2>5, StartLocals
    <3>3. procs[q].state = "alive" /\ procs[q].name = t => Sent(q)
      BY <2>2, <2>5, OlderNotAlive
    <3>4. CASE procs[q].state = "unborn" \/ Sent(q)
      BY <1>1, <2>2, <2>3, <2>5, <3>1, <3>4 DEF ToldOf, Open
    <3>5. CASE ~(procs[q].state = "unborn" \/ Sent(q))
      <4>1. runs[q].state # "none" /\ runs[q].name = procs[q].name
            /\ runs[q].local = (procs[q].stand = "local") /\ (procs[q].state = "alive" => Open(q))
        BY <1>1, <3>5 DEF ToldOf
      <4>2. runs'[q].state # "none"
        BY <3>1, <4>1
      <4>3. procs[q].state = "alive" => runs'[q].state = "open"
        BY <3>1, <3>3, <3>5, <4>1 DEF Open
      <4> QED  BY <2>2, <2>3, <3>1, <3>2, <3>5, <4>1, <4>2, <4>3 DEF ToldOf, Open
    <3> QED  BY <3>4, <3>5
  <2> QED  BY <2>4, <2>5
<1>3. CASE \E m \in wire : StoreRunEnd(m)
  <2>1. PICK m \in wire : StoreRunEnd(m)
    BY <1>3
  <2>2. ((Sent(q))' <=> Sent(q)) /\ ~Sent(m.run) /\ procs[m.run].state = "gone" /\ procs' = procs
    BY <2>1, SentAfterEnd
  <2>3. /\ runs'[q].name = runs[q].name
        /\ runs'[q].state = IF q = m.run THEN "closed" ELSE runs[q].state
    BY <1>1, <2>1, EndRuns
  <2>4. runs'[q].local = runs[q].local
    BY <1>1, <2>1, EndLocals
  <2>5. CASE procs[q].state = "unborn" \/ Sent(q)
    BY <1>1, <2>2, <2>3, <2>5 DEF ToldOf
  <2>6. CASE ~(procs[q].state = "unborn" \/ Sent(q))
    BY <1>1, <2>2, <2>3, <2>4, <2>6 DEF ToldOf, Open
  <2> QED  BY <2>5, <2>6
<1>4. CASE ~ \E m \in wire : StoreRunStart(m) \/ StoreRunEnd(m)
  <2>1. runs' = runs
    BY <1>4, QuietRuns
  <2>2. CASE \E r \in Run : StartTaken(r)
    <3>1. PICK r \in Run : StartTaken(r)
      BY <2>2
    <3>2. ((Sent(q))' <=> Sent(q) \/ q = r) /\ (q # r => procs'[q] = procs[q]) /\ r = minted + 1
      BY <3>1, SentAfterTaken, BornProcs, TakenProcs
    <3>3. procs[r].state = "unborn"
      BY <1>1, <3>2, BoundAssumption DEF TypeOK, TiedOnce, Run, BoundAssumption
    <3>4. runs[r].state = "none"
      BY <3>3 DEF Told, ToldOf
    <3>5. CASE q = r
      BY <2>1, <3>2, <3>4, <3>5 DEF ToldOf
    <3>6. CASE q # r
      BY <1>1, <2>1, <3>2, <3>6 DEF ToldOf, Open
    <3> QED  BY <3>5, <3>6
  <2>3. CASE ~ \E r \in Run : StartTaken(r)
    <3>1. (Sent(q))' <=> Sent(q)
      BY <1>4, <2>3, SentKept
    <3>2. CASE \E r \in Run, v \in Verdicts : ProcEnds(r, v)
      <4>1. PICK r \in Run, v \in Verdicts : ProcEnds(r, v)
        BY <3>2
      <4>2. /\ procs'[q].state = IF q = r THEN "gone" ELSE procs[q].state
            /\ procs'[q].name = procs[q].name /\ procs'[q].stand = procs[q].stand
            /\ procs[r].state = "alive"
        BY <1>1, <4>1, EndedProcs
      <4>3. CASE procs[q].state = "unborn" \/ Sent(q)
        BY <1>1, <2>1, <3>1, <4>2, <4>3 DEF ToldOf
      <4>4. CASE ~(procs[q].state = "unborn" \/ Sent(q))
        BY <1>1, <2>1, <3>1, <4>2, <4>4 DEF ToldOf, Open
      <4> QED  BY <4>3, <4>4
    <3>3. CASE ~ \E r \in Run, v \in Verdicts : ProcEnds(r, v)
      <4>1. procs' = procs
        BY <2>3, <3>3, ProcsSame
      <4> QED  BY <1>1, <2>1, <3>1, <4>1 DEF ToldOf, Open
    <3> QED  BY <3>2, <3>3
  <2> QED  BY <2>2, <2>3
<1> QED  BY <1>2, <1>3, <1>4

\* A ticket is run again when the run before is over, and reports in that order.
LEMMA OneByOneStep ==
  ASSUME OnlyDeploys, QueueInv, TiedOnce, OnTime, Told, OneByOne, [Next]_vars
  PROVE  OneByOne'
<1>1. TypeOK
  BY DEF QueueInv
<1> SUFFICES ASSUME NEW q \in Run, NEW r \in Run, q < r, r <= minted',
                    procs'[q].name = procs'[r].name
             PROVE  procs'[q].state # "alive" /\ ((Sent(q))' => (Sent(r))')
  BY DEF OneByOne
<1>2. CASE \E p \in Run : StartTaken(p)
  <2>1. PICK p \in Run : StartTaken(p)
    BY <1>2
  <2>2. p = minted + 1 /\ minted' = p /\ \A u \in Run : u # p => procs'[u] = procs[u]
    BY <2>1, TakenProcs, BornProcs
  <2>3. \A u : (Sent(u))' <=> Sent(u) \/ u = p
    BY <2>1, SentAfterTaken
  <2>4. q # p /\ minted \in Nat
    BY <1>1, <2>2, BoundAssumption DEF TypeOK, Run, BoundAssumption
  <2>5. CASE r = p
    <3>1. procs'[r].name = queue[loop.row].name
      BY <2>1, <2>5, BornProcs
    <3>2. ~Running(queue[loop.row].name)
      BY <2>1 DEF StartTaken, OnlyDeploys
    <3>3. procs[q].state # "alive"
      BY <2>2, <2>4, <3>1, <3>2 DEF Running
    <3> QED  BY <2>2, <2>3, <2>4, <2>5, <3>3
  <2>6. CASE r # p
    <3>1. r <= minted
      BY <2>2, <2>4, <2>6 DEF Run
    <3> QED  BY <2>2, <2>3, <2>4, <2>6, <3>1 DEF OneByOne
  <2> QED  BY <2>5, <2>6
<1>3. CASE ~ \E p \in Run : StartTaken(p)
  <2>1. /\ minted' = minted
        /\ procs'[q].name = procs[q].name /\ procs'[r].name = procs[r].name
        /\ procs'[q].state = "alive" => procs[q].state = "alive"
    <3>1. CASE \E p \in Run, v \in Verdicts : ProcEnds(p, v)
      BY <1>1, <3>1, EndedProcs
    <3>2. CASE ~ \E p \in Run, v \in Verdicts : ProcEnds(p, v)
      BY <1>3, <3>2, ProcsSame
    <3> QED  BY <3>1, <3>2
  <2>2. procs[q].state # "alive" /\ (Sent(q) => Sent(r))
    BY <2>1 DEF OneByOne
  <2>3. (Sent(q))' => (Sent(r))'
    <3>1. CASE \E m \in wire : StoreRunStart(m)
      <4>1. PICK m \in wire : StoreRunStart(m)
        BY <3>1
      <4>2. \A u : (Sent(u))' <=> Sent(u) /\ u # m.run
        BY <4>1, SentAfterStart
      <4>3. \A n \in wire : n.kind = "run_start" /\ procs[n.run].name = procs[m.run].name
                            => ~(n.run < m.run)
        BY <4>1, SentAfterStart
      <4>4. Sent(q) => r # m.run
        BY <2>1, <4>3 DEF Sent
      <4> QED  BY <2>2, <4>2, <4>4
    <3>2. CASE ~ \E m \in wire : StoreRunStart(m)
      BY <1>3, <2>2, <3>2, SentKept
    <3> QED  BY <3>1, <3>2
  <2> QED  BY <2>1, <2>2, <2>3
<1> QED  BY <1>2, <1>3

\* A row that is tied stays tied.
LEMMA TieStays ==
  ASSUME QueueInv, [Next]_vars, NEW i \in Row, queue[i].run # NoRun
  PROVE  queue'[i].run = queue[i].run
<1>1. CASE \E m \in wire : StoreRunStart(m)
  BY <1>1, TiedRows DEF QueueInv, TieTarget, Untied
<1>2. CASE ~ \E m \in wire : StoreRunStart(m)
  BY <1>2, TiesKept
<1> QED  BY <1>1, <1>2

\* Nobody closes a row at running that is not tied, or moves it, but the loop that
\* has it in hand and was told that nothing has started.
LEMMA RowKept ==
  ASSUME OnlyDeploys, QueueInv, TiedOnce, OnTime, Told, [Next]_vars,
         NEW i \in Row, queue[i].state = "running", queue'[i].run = NoRun,
         loop.pc = "reply" /\ loop.said \in {"again", "refused"} => i # loop.row
  PROVE  queue'[i].state = "running" /\ queue'[i].place = queue[i].place
<1>1. TypeOK
  BY DEF QueueInv
<1>2. queue[i].run = NoRun
  BY TieStays
<1>3. CASE QueueKept
  BY <1>3, QueueUnchanged
<1>4. CASE QueueClosed
  <2>1. \E rows : (queue' = Done(rows) \/ queue' = queue) /\ i \notin rows
    <3>1. CASE SweepQueue
      <4>1. i \notin Swept
        BY <1>2 DEF Swept, OnTime
      <4> QED  BY <3>1, <4>1 DEF SweepQueue
    <3>2. CASE CheckResume
      <4>1. i # loop.row
        BY <3>2 DEF CheckResume, QueueInv, PickedIsUntied
      <4>2. i \notin {loop.row}
        BY <4>1
      <4> QED  BY <3>2, <4>2 DEF CheckResume
    <3>3. CASE ReplyRefused
      <4>1. i \notin {loop.row}
        BY <3>3 DEF ReplyRefused
      <4> QED  BY <3>3, <4>1 DEF ReplyRefused
    <3>4. CASE \E rows : Withdraw(rows)
      <4>1. PICK rows : Withdraw(rows)
        BY <3>4
      <4>2. i \notin rows \cap Waiting
        BY DEF Waiting
      <4> QED  BY <4>1, <4>2 DEF Withdraw
    <3>5. CASE \E r \in Run : CloseFromSnapshot(r)
      BY <3>5, QuietSteps
    <3>6. CASE \E m \in wire : StoreRunEnd(m)
      <4>1. PICK m \in wire : StoreRunEnd(m)
        BY <3>6
      <4>2. m.run # NoRun
        <5>1. m.run \in Run
          BY <1>1 DEF TypeOK, EventRecord
        <5> QED  BY <5>1 DEF NoRun, Run
      <4>3. i \notin RowsOf(m.run)
        BY <1>2, <4>2 DEF RowsOf
      <4> QED  BY <4>1, <4>3 DEF StoreRunEnd
    <3> QED  BY <1>4, <3>1, <3>2, <3>3, <3>4, <3>5, <3>6 DEF QueueClosed
  <2> QED  BY <1>1, <2>1, DoneRows, DonePlaces
<1>5. CASE MarkRunning
  <2>1. i # loop.row
    BY <1>5 DEF MarkRunning, QueueInv, PickedIsUntied
  <2> QED  BY <1>5, <2>1, MarkPlaces
<1>6. CASE ReplyAgain
  <2>1. i # loop.row
    BY <1>6 DEF ReplyAgain
  <2> QED  BY <1>6, <2>1, AgainPlaces
<1>7. CASE \E t \in Tickets, ask \in Asks : PostQueue(t, ask)
  <2>1. i # posted + 1
    BY <1>1 DEF QueueInv, UnpostedIsNone, NoQueueRow, TypeOK
  <2> QED  BY <1>1, <1>7, <2>1, PostRows
<1>8. CASE \E m \in wire : StoreRunStart(m)
  BY <1>1, <1>8, TiedRows
<1>9. CASE \E j \in Row : AgeRow(j)
  BY <1>9, QuietSteps
<1> QED  BY <1>3, <1>4, <1>5, <1>6, <1>7, <1>8, <1>9, QueueCases

\* A row started or being started holds its stand until its run has said so.
LEMMA HoldsStep ==
  ASSUME OnlyDeploys, QueueInv, TiedOnce, OnTime, Told, RowHolds, [Next]_vars
  PROVE  RowHolds'
<1>1. TypeOK
  BY DEF QueueInv
<1>2. CASE \E r \in Run : StartTaken(r)
  <2>1. PICK r \in Run : StartTaken(r)
    BY <1>2
  <2>2. /\ loop.row \in Row /\ loop.pc = "call" /\ queue' = queue /\ loop'.pc = "reply"
        /\ \A q \in Run : q # r => procs'[q] = procs[q]
        /\ procs'[r].stand = loop.stand /\ procs'[r].row = loop.row
    BY <2>1, TakenProcs, BornProcs
  <2>3. loop'.said = "run_id"
    <3>1. loop' = [loop EXCEPT !.pc = "reply", !.said = "run_id"]
      BY <2>1, QuietSteps DEF StartTaken
    <3> QED  BY <1>1, <3>1 DEF TypeOK, LoopRecord
  <2>4. \A q \in Run : procs'[q].row # NoRow /\ queue'[procs'[q].row].run = NoRun =>
          queue'[procs'[q].row].state = "running" /\ queue'[procs'[q].row].place = procs'[q].stand
    BY <2>2 DEF RowHolds
  <2>5. \A q \in Run : procs'[q].state # "unborn" => procs'[q].row \in Row
    BY <2>2 DEF RowHolds
  <2> QED  BY <2>2, <2>3, <2>4, <2>5 DEF RowHolds
<1>3. CASE ~ \E r \in Run : StartTaken(r)
  <2>1. \A q \in Run : /\ procs'[q].row = procs[q].row /\ procs'[q].stand = procs[q].stand
                       /\ procs'[q].state # "unborn" => procs[q].state # "unborn"
    <3>1. CASE \E p \in Run, v \in Verdicts : ProcEnds(p, v)
      BY <1>1, <3>1, EndedProcs
    <3>2. CASE ~ \E p \in Run, v \in Verdicts : ProcEnds(p, v)
      BY <1>3, <3>2, ProcsSame
    <3> QED  BY <3>1, <3>2
  <2>2. ASSUME NEW q \in Run, procs[q].row # NoRow, queue'[procs[q].row].run = NoRun
        PROVE  /\ queue'[procs[q].row].state = "running"
               /\ queue'[procs[q].row].place = procs[q].stand
    <3>1. procs[q].row \in Row
      BY <1>1, <2>2 DEF TypeOK, ProcRecord
    <3>2. queue[procs[q].row].run = NoRun
      BY <2>2, <3>1, TieStays
    <3>3. queue[procs[q].row].state = "running" /\ queue[procs[q].row].place = procs[q].stand
      BY <2>2, <3>2 DEF RowHolds
    <3>4. loop.pc = "reply" /\ loop.said \in {"again", "refused"} => procs[q].row # loop.row
      BY DEF RowHolds
    <3> QED  BY <2>2, <3>1, <3>3, <3>4, RowKept
  <2>3. loop'.pc = "call" /\ queue'[loop'.row].run = NoRun =>
          queue'[loop'.row].state = "running" /\ queue'[loop'.row].place = loop'.stand
    <3> SUFFICES ASSUME loop'.pc = "call", queue'[loop'.row].run = NoRun
                 PROVE  queue'[loop'.row].state = "running" /\ queue'[loop'.row].place = loop'.stand
      OBVIOUS
    <3>1. CASE Elsewhere
      <4>1. loop' = loop /\ loop.row \in Row
        BY <3>1, ElsewhereLoop DEF QueueInv, CalledIsRunning
      <4>2. queue[loop.row].run = NoRun
        BY <4>1, TieStays
      <4> QED  BY <4>1, <4>2, RowKept DEF RowHolds
    <3>2. CASE MarkRunning
      <4>1. loop.row \in Row /\ loop'.row = loop.row /\ loop'.stand = loop.stand
        BY <1>1, <3>2 DEF MarkRunning, QueueInv, PickedIsUntied, TypeOK, LoopRecord
      <4> QED  BY <1>1, <3>2, <4>1, MarkRows, MarkPlaces
    <3>3. CASE HandsFree
      BY <1>1, <3>3, HandsFreeLoop
    <3>4. CASE CheckResume
      BY <1>1, <3>4, TopPc DEF CheckResume, TypeOK, LoopRecord
    <3>5. CASE StartHeldOff \/ StartRefused
      BY <1>1, <3>5 DEF StartHeldOff, StartRefused, TypeOK, LoopRecord
    <3>6. CASE \E i \in Row, s \in Stand : PumpPick(i, s)
      BY <1>1, <3>6 DEF PumpPick, TypeOK, LoopRecord
    <3> QED  BY <1>3, <3>1, <3>2, <3>3, <3>4, <3>5, <3>6, LoopCases
  <2>4. loop'.pc = "reply" /\ loop'.said \in {"again", "refused"} =>
          \A q \in Run : procs[q].row # loop'.row
    <3> SUFFICES ASSUME loop'.pc = "reply", loop'.said \in {"again", "refused"}, NEW q \in Run
                 PROVE  procs[q].row # loop'.row
      OBVIOUS
    <3>1. CASE Elsewhere
      BY <3>1, ElsewhereLoop DEF RowHolds
    <3>2. CASE StartHeldOff \/ StartRefused
      <4>1. loop.pc = "call" /\ loop'.row = loop.row
        BY <1>1, <3>2 DEF StartHeldOff, StartRefused, TypeOK, LoopRecord
      <4>2. loop.row \in Row /\ NoRow \notin Row
        BY <4>1 DEF QueueInv, CalledIsRunning, NoRow, Row
      <4> QED  BY <4>1, <4>2 DEF QueueInv, StartedIsNotWaiting
    <3>3. CASE HandsFree
      BY <1>1, <3>3, HandsFreeLoop
    <3>4. CASE CheckResume
      BY <1>1, <3>4, TopPc DEF CheckResume, TypeOK, LoopRecord
    <3>5. CASE MarkRunning
      BY <1>1, <3>5 DEF MarkRunning, TypeOK, LoopRecord
    <3>6. CASE \E i \in Row, s \in Stand : PumpPick(i, s)
      BY <1>1, <3>6 DEF PumpPick, TypeOK, LoopRecord
    <3> QED  BY <1>3, <3>1, <3>2, <3>3, <3>4, <3>5, <3>6, LoopCases
  <2>5. \A q \in Run : procs'[q].state # "unborn" => procs'[q].row \in Row
    BY <2>1 DEF RowHolds
  <2>6. \A q \in Run : procs'[q].row # NoRow /\ queue'[procs'[q].row].run = NoRun =>
          queue'[procs'[q].row].state = "running" /\ queue'[procs'[q].row].place = procs'[q].stand
    BY <2>1, <2>2
  <2>7. loop'.pc = "reply" /\ loop'.said \in {"again", "refused"} =>
          \A q \in Run : procs'[q].row # loop'.row
    BY <2>1, <2>4
  <2> QED  BY <2>3, <2>5, <2>6, <2>7 DEF RowHolds
<1> QED  BY <1>2, <1>3

\* The sets counted are finite.
LEMMA Counted ==
  /\ IsFiniteSet(Run) /\ IsFiniteSet(Row)
  /\ \A s : /\ IsFiniteSet(Alive(s)) /\ IsFiniteSet(Busy(s)) /\ IsFiniteSet(Starting(s))
            /\ Cardinality(Alive(s)) \in Nat /\ Cardinality(Busy(s)) \in Nat
            /\ Cardinality(Starting(s)) \in Nat
<1>1. MaxRun \in Int /\ MaxRow \in Int
  BY BoundAssumption DEF BoundAssumption
<1>2. IsFiniteSet(Run) /\ IsFiniteSet(Row)
  BY <1>1, FS_Interval DEF Run, Row
<1>3. \A s : Alive(s) \subseteq Run /\ Busy(s) \subseteq Run /\ Starting(s) \subseteq Row
  BY DEF Alive, Busy, Starting
<1>4. \A s : IsFiniteSet(Alive(s)) /\ IsFiniteSet(Busy(s)) /\ IsFiniteSet(Starting(s))
  BY <1>2, <1>3, FS_Subset
<1> QED  BY <1>2, <1>4, FS_CardinalityType

\* The pump sees every live run: by its row in the table runs once its run_start
\* is stored, and until then by the row of the queue it was started for.
LEMMA PumpSeesAll ==
  ASSUME QueueInv, TiedOnce, OnTime, Told, RowHolds, Matched, NEW s \in Stand
  PROVE  Cardinality(Alive(s)) <= Cardinality(Busy(s)) + Cardinality(Starting(s))
<1> DEFINE heard == {r \in Alive(s) : ~Sent(r)}
           unheard == {r \in Alive(s) : Sent(r)}
<1>1. heard \subseteq Busy(s)
  <2> SUFFICES ASSUME NEW r \in Run, procs[r].state = "alive", procs[r].stand = s, ~Sent(r)
               PROVE  r \in Busy(s)
    BY DEF Alive
  <2>1. Open(r) /\ runs[r].local = (procs[r].stand = "local")
    BY DEF Told, ToldOf
  <2>2. runs[r].local <=> s = "local"
    BY <2>1
  <2> QED  BY <2>1, <2>2 DEF Busy
<1>2. ASSUME NEW r \in unheard
      PROVE  r \in Run /\ procs[r].row \in Starting(s)
  <2>1. r \in Run /\ procs[r].state = "alive" /\ procs[r].stand = s /\ Sent(r)
    BY <1>2 DEF Alive
  <2>2. procs[r].row \in Row /\ procs[r].row # NoRow
    BY <2>1 DEF RowHolds, NoRow, Row
  <2>3. queue[procs[r].row].run = NoRun
    <3> SUFFICES ASSUME queue[procs[r].row].run # NoRun  PROVE FALSE
      OBVIOUS
    <3> DEFINE q == queue[procs[r].row].run
    <3>1. q \in Run /\ ~Sent(q)
      BY <2>2 DEF QueueInv, TypeOK, RowRecord, TiedOnce
    <3>2. procs[q].row = procs[r].row
      BY <2>2 DEF Matched
    <3>3. q = r
      BY <2>1, <2>2, <3>1, <3>2 DEF QueueInv, OneRunPerRow
    <3> QED  BY <2>1, <3>1, <3>3
  <2>4. queue[procs[r].row].state = "running" /\ queue[procs[r].row].place = s
    BY <2>1, <2>2, <2>3 DEF RowHolds
  <2>5. queue[procs[r].row].age = "fresh"
    BY <2>2 DEF OnTime
  <2> QED  BY <2>1, <2>2, <2>3, <2>4, <2>5 DEF Starting, Untied
<1>3. Cardinality(unheard) <= Cardinality(Starting(s))
  <2> DEFINE f == [r \in unheard |-> procs[r].row]
  <2>1. f \in [unheard -> Starting(s)]
    BY <1>2
  <2>2. \A q, r \in unheard : f[q] = f[r] => q = r
    <3> SUFFICES ASSUME NEW q \in unheard, NEW r \in unheard, procs[q].row = procs[r].row
                 PROVE  q = r
      OBVIOUS
    <3>1. procs[q].row # NoRow
      BY <1>2 DEF Starting, NoRow, Row
    <3> QED  BY <1>2, <3>1 DEF QueueInv, OneRunPerRow
  <2> HIDE DEF unheard
  <2>3. f \in Injection(unheard, Starting(s))
    BY <2>1, <2>2 DEF Injection, IsInjective
  <2> HIDE DEF f
  <2> QED  BY <2>3, FS_Injection, Counted
<1>4. IsFiniteSet(heard) /\ IsFiniteSet(unheard) /\ heard \cup unheard = Alive(s)
  <2>1. heard \subseteq Alive(s) /\ unheard \subseteq Alive(s) /\ heard \cup unheard = Alive(s)
    OBVIOUS
  <2> HIDE DEF heard, unheard
  <2> QED  BY <2>1, FS_Subset, Counted
<1> HIDE DEF heard, unheard
<1>5. Cardinality(heard) <= Cardinality(Busy(s))
  BY <1>1, FS_Subset, Counted
<1>6. /\ Cardinality(Alive(s)) = Cardinality(heard) + Cardinality(unheard)
                                  - Cardinality(heard \cap unheard)
      /\ IsFiniteSet(heard \cap unheard)
  <2>1. heard \cap unheard \subseteq heard
    OBVIOUS
  <2> QED  BY <1>4, <2>1, FS_Union, FS_Subset
<1>7. /\ Cardinality(heard) \in Nat /\ Cardinality(unheard) \in Nat
      /\ Cardinality(heard \cap unheard) \in Nat
  BY <1>4, <1>6, FS_CardinalityType
<1> QED  BY <1>3, <1>5, <1>6, <1>7, Counted

\* A stand the pump finds free has room for one more run.
LEMMA FreeHasRoom ==
  ASSUME QueueInv, TiedOnce, OnTime, Told, RowHolds, Matched,
         NEW i \in Row, NEW s \in Stand, GoesTo(i, s)
  PROVE  Cardinality(Alive(s)) < Room(s)
<1>1. Cardinality(Alive(s)) <= Cardinality(Busy(s)) + Cardinality(Starting(s))
  BY PumpSeesAll
<1>2. CASE s = "docker"
  <2>1. Cardinality(Busy(s)) + Cardinality(Starting(s)) < Slots
    BY <1>2 DEF GoesTo, DockerFree
  <2> QED  BY <1>1, <1>2, <2>1, Counted, BoundAssumption DEF Room, BoundAssumption
<1>3. CASE s = "local"
  <2>1. Busy(s) = {} /\ Starting(s) = {}
    BY <1>3 DEF GoesTo, HostFree
  <2>2. Cardinality(Busy(s)) = 0 /\ Cardinality(Starting(s)) = 0
    BY <2>1, FS_EmptySet
  <2> QED  BY <1>1, <1>3, <2>2, Counted DEF Room
<1> QED  BY <1>2, <1>3 DEF Stand

\* Rows tied to the runs started for them were so a step before.
LEMMA MatchedBefore ==
  ASSUME QueueInv, TiedOnce, [Next]_vars, Matched'
  PROVE  Matched
<1> SUFFICES ASSUME NEW i \in Row, queue[i].run # NoRun
             PROVE  procs[queue[i].run].row = i
  BY DEF Matched
<1> DEFINE q == queue[i].run
<1>1. q \in Run /\ q <= minted
  BY DEF QueueInv, TypeOK, RowRecord, TiedOnce
<1>2. queue'[i].run = q
  BY TieStays
<1>3. procs'[q].row = i
  BY <1>2 DEF Matched
<1>4. procs'[q].row = procs[q].row
  <2>1. CASE \E r \in Run : StartTaken(r)
    <3>1. PICK r \in Run : StartTaken(r)
      BY <2>1
    <3>2. r = minted + 1 /\ (q # r => procs'[q] = procs[q])
      BY <1>1, <3>1, TakenProcs, BornProcs
    <3>3. q # r
      BY <1>1, <3>2, BoundAssumption DEF QueueInv, TypeOK, Run, BoundAssumption
    <3> QED  BY <3>2, <3>3
  <2>2. CASE ~ \E r \in Run : StartTaken(r)
    BY <1>1, <2>2, ProcsKept DEF QueueInv
  <2> QED  BY <2>1, <2>2
<1> QED  BY <1>3, <1>4

\* The stands have room for their runs, and for one more while a row is in hand.
LEMMA KeptStep ==
  ASSUME OnlyDeploys, QueueInv, RoomInv, [Next]_vars
  PROVE  Kept'
<1> SUFFICES ASSUME Matched'
             PROVE  /\ \A s \in Stand : Cardinality((Alive(s))') <= Room(s)
                    /\ loop'.pc \in {"check", "mark", "call"} =>
                         Cardinality((Alive(loop.stand))') < Room(loop'.stand)
  BY DEF Kept, Room, Alive
<1>1. TypeOK /\ Matched
  BY MatchedBefore DEF QueueInv, RoomInv
<1>2. /\ \A s \in Stand : Cardinality(Alive(s)) <= Room(s)
      /\ loop.pc \in {"check", "mark", "call"} => Cardinality(Alive(loop.stand)) < Room(loop.stand)
  BY <1>1 DEF RoomInv, Kept
<1>3. CASE \E r \in Run : StartTaken(r)
  <2>1. PICK r \in Run : StartTaken(r)
    BY <1>3
  <2>2. /\ loop.pc = "call" /\ loop'.pc = "reply" /\ procs'[r].stand = loop.stand
        /\ \A q \in Run : q # r => procs'[q] = procs[q]
    BY <2>1, TakenProcs, BornProcs
  <2>3. loop.stand \in Stand /\ \A s \in Stand : Room(s) \in Nat
    BY <1>1, BoundAssumption DEF TypeOK, LoopRecord, Room, BoundAssumption
  <2> SUFFICES ASSUME NEW s \in Stand  PROVE Cardinality((Alive(s))') <= Room(s)
    BY <2>2
  <2>4. IsFiniteSet(Alive(s)) /\ IsFiniteSet(Alive(s) \cup {r})
    BY FS_AddElement, Counted
  <2>5. CASE s = loop.stand
    <3>1. (Alive(s))' \subseteq Alive(s) \cup {r}
      BY <2>2 DEF Alive
    <3>2. Cardinality((Alive(s))') <= Cardinality(Alive(s) \cup {r})
      BY <2>4, <3>1, FS_Subset
    <3>3. Cardinality(Alive(s) \cup {r}) <= Cardinality(Alive(s)) + 1
      <4>1. /\ Cardinality(Alive(s) \cup {r}) = IF r \in Alive(s) THEN Cardinality(Alive(s))
                                                                    ELSE Cardinality(Alive(s)) + 1
            /\ Cardinality(Alive(s)) \in Nat
        BY FS_AddElement, Counted
      <4> QED  BY <4>1
    <3>4. Cardinality((Alive(s))') \in Nat /\ Cardinality(Alive(s) \cup {r}) \in Nat
      BY <2>4, <3>1, FS_Subset, FS_CardinalityType
    <3> QED  BY <1>2, <2>2, <2>3, <2>5, <3>2, <3>3, <3>4, Counted
  <2>6. CASE s # loop.stand
    <3>1. (Alive(s))' \subseteq Alive(s)
      BY <2>2, <2>6 DEF Alive
    <3>2. Cardinality((Alive(s))') <= Cardinality(Alive(s)) /\ Cardinality((Alive(s))') \in Nat
      BY <2>4, <3>1, FS_Subset, FS_CardinalityType
    <3> QED  BY <1>2, <2>3, <3>2, Counted
  <2> QED  BY <2>5, <2>6
<1>4. CASE ~ \E r \in Run : StartTaken(r)
  <2>1. \A q \in Run : /\ procs'[q].state = "alive" => procs[q].state = "alive"
                       /\ procs'[q].stand = procs[q].stand
    <3>1. CASE \E p \in Run, v \in Verdicts : ProcEnds(p, v)
      BY <1>1, <3>1, EndedProcs
    <3>2. CASE ~ \E p \in Run, v \in Verdicts : ProcEnds(p, v)
      BY <1>4, <3>2, ProcsSame
    <3> QED  BY <3>1, <3>2
  <2>2. \A s : (Alive(s))' \subseteq Alive(s)
    BY <2>1 DEF Alive
  <2>3. \A s : Cardinality((Alive(s))') <= Cardinality(Alive(s)) /\ Cardinality((Alive(s))') \in Nat
    BY <2>2, FS_Subset, FS_CardinalityType, Counted
  <2>4. \A s \in Stand : Room(s) \in Nat
    BY BoundAssumption DEF Room, BoundAssumption
  <2>5. \A s \in Stand : Cardinality((Alive(s))') <= Room(s)
    BY <1>2, <2>3, <2>4, Counted
  <2>6. ASSUME loop'.pc \in {"check", "mark", "call"}
        PROVE  loop'.stand \in Stand /\ Cardinality(Alive(loop'.stand)) < Room(loop'.stand)
    <3>1. CASE Elsewhere
      BY <1>1, <1>2, <2>6, <3>1, ElsewhereLoop DEF TypeOK, LoopRecord
    <3>2. CASE HandsFree
      BY <1>1, <2>6, <3>2, HandsFreeLoop
    <3>3. CASE CheckResume \/ MarkRunning
      <4>1. loop.pc \in {"check", "mark"} /\ loop'.stand = loop.stand /\ loop.stand \in Stand
        BY <1>1, <2>6, <3>3, TopPc DEF CheckResume, MarkRunning, TypeOK, LoopRecord
      <4> QED  BY <1>2, <4>1
    <3>4. CASE StartHeldOff \/ StartRefused
      BY <1>1, <2>6, <3>4 DEF StartHeldOff, StartRefused, TypeOK, LoopRecord
    <3>5. CASE \E i \in Row, s \in Stand : PumpPick(i, s)
      <4>1. PICK i \in Row, s \in Stand : PumpPick(i, s)
        BY <3>5
      <4>2. GoesTo(i, s) /\ loop'.stand = s
        BY <1>1, <4>1 DEF PumpPick, NextUp, TypeOK, LoopRecord
      <4> QED  BY <1>1, <4>2, FreeHasRoom DEF RoomInv
    <3> QED  BY <1>4, <3>1, <3>2, <3>3, <3>4, <3>5, LoopCases
  <2>7. ASSUME loop'.pc \in {"check", "mark", "call"}
        PROVE  Cardinality((Alive(loop.stand))') < Room(loop'.stand)
    <3> DEFINE s == loop'.stand
    <3>1. s \in Stand /\ Cardinality(Alive(s)) < Room(s)
      BY <2>6, <2>7
    <3>2. (Alive(loop.stand))' = {r \in Run : procs'[r].state = "alive" /\ procs'[r].stand = s}
      BY DEF Alive
    <3>3. (Alive(loop.stand))' \subseteq Alive(s)
      BY <2>1, <3>2 DEF Alive
    <3>4. /\ Cardinality((Alive(loop.stand))') <= Cardinality(Alive(s))
          /\ Cardinality((Alive(loop.stand))') \in Nat
      BY <3>3, FS_Subset, FS_CardinalityType, Counted
    <3> QED  BY <2>4, <3>1, <3>4, Counted
  <2> QED  BY <2>5, <2>7
<1> QED  BY <1>3, <1>4

\* RoomInv holds of an empty database, on stands without a run.
LEMMA RoomInit == Init => RoomInv
<1> SUFFICES ASSUME Init  PROVE RoomInv
  OBVIOUS
<1>1. \A r \in Run : procs[r] = NoProc /\ procs[r].state = "unborn" /\ procs[r].row = NoRow
  BY DEF Init, NoProc
<1>2. \A r \in Run : runs[r].state = "none" /\ runs[r].quiet = "talking"
  BY DEF Init, NoRunRow
<1>3. \A i \in Row : queue[i].age = "fresh"
  BY DEF Init, NoQueueRow
<1>4. wire = {} /\ minted = 0 /\ loop.pc = "sweep" /\ loop.todo = {}
  BY DEF Init, TopOfRound
<1>5. TiedOnce
  BY TiedInit
<1>6. OnTime
  BY <1>2, <1>3, <1>4 DEF OnTime, Run
<1>7. Told
  BY <1>1, <1>2 DEF Told, ToldOf
<1>8. OneByOne
  BY <1>4 DEF OneByOne, Run
<1>9. RowHolds
  BY <1>1, <1>4 DEF RowHolds
<1>10. Kept
  <2>1. \A s : Alive(s) = {}
    BY <1>1 DEF Alive
  <2>2. \A s : Cardinality(Alive(s)) = 0
    BY <2>1, FS_EmptySet
  <2> QED  BY <1>4, <2>2, BoundAssumption DEF Kept, Room, BoundAssumption
<1> QED  BY <1>5, <1>6, <1>7, <1>8, <1>9, <1>10 DEF RoomInv

\* Every step keeps RoomInv, where nothing is late or said twice.
LEMMA RoomStep ==
  ASSUME OnlyDeploys, QueueInv, RoomInv, [Next]_vars
  PROVE  RoomInv'
<1>1. TiedOnce /\ OnTime /\ Told /\ OneByOne /\ RowHolds /\ "duplicate" \notin Faults
  BY DEF RoomInv, OnlyDeploys
<1> QED
  BY <1>1, TiedStep, OnTimeStep, ToldStep, OneByOneStep, HoldsStep, KeptStep DEF RoomInv

-----------------------------------------------------------------------------
(* The theorems.                                                           *)

\* QueueInv holds of an empty database.
LEMMA QueueInvInit == Init => QueueInv
<1> SUFFICES ASSUME Init  PROVE QueueInv
  OBVIOUS
<1>1. NoRun \notin Run /\ NoRow \notin Row
  BY DEF NoRun, NoRow, Run, Row
<1>2. TypeOK
  <2>1. NoQueueRow \in RowRecord
    BY DEF NoQueueRow, RowRecord, Names, Place
  <2>2. NoRunRow \in RunRecord
    BY BoundAssumption DEF NoRunRow, RunRecord, Names, BoundAssumption
  <2>3. NoProc \in ProcRecord
    BY DEF NoProc, ProcRecord, Names, Stand
  <2>4. spent \in [holds: 0..MaxHolds, takes: 0..MaxTakes, restarts: 0..MaxRestarts]
    BY BoundAssumption DEF Init, BoundAssumption
  <2> QED  BY <2>1, <2>2, <2>3, <2>4, TopType, BoundAssumption DEF Init, TypeOK, BoundAssumption
<1>3. \A r \in Run : runs[r].state = "none" /\ runs[r].name = Unnamed /\ procs[r].row = NoRow
  BY DEF Init, NoRunRow, NoProc
<1>4. \A i \in Row : queue[i] = NoQueueRow /\ queue[i].state = "none"
  BY DEF Init, NoQueueRow
<1>5. loop.pc = "sweep"
  BY TopPc DEF Init
<1> QED
  BY <1>2, <1>3, <1>4, <1>5
  DEF QueueInv, OneOpenRunPerTicket, UnheardIsUnnamed, UnpostedIsNone, DoneMeansOver,
      WaitingIsUntied, Waiting, PickedIsUntied, CalledIsRunning, OneRunPerRow, TakenAnswer,
      StartedIsNotWaiting, UnbornHasNoRow, PickedFirst, Open

\* Every step keeps QueueInv: each of its conjuncts by the lemma about it above.
LEMMA QueueInvStep == QueueInv /\ [Next]_vars => QueueInv'
BY TypeStep, RunsStep, UnpostedStep, DoneStep, WaitingStep, PickedStep, CalledStep, OneRunStep,
   AnswerStep, StartedStep, FirstStep
DEF QueueInv

\* However handlers, restarts and late, lost or repeated events interleave with
\* the loop, QueueInv holds: for every number of rows, runs, tickets and slots.
THEOREM QueueCorrect == Spec => []QueueInv
BY QueueInvInit, QueueInvStep, PTL DEF Spec

\* The variables keep their types, and the rows in use are those inserted.
THEOREM TypesCorrect == Spec => []TypeOK
BY QueueCorrect, PTL DEF QueueInv

\* A ticket never has two open runs, in whatever order run_starts, run_ends and
\* the closes of the sweep and of weigh reach the table.
THEOREM TicketRunsOnce == Spec => []OneOpenRunPerTicket
BY QueueCorrect, PTL DEF QueueInv

\* A row that is done is tied to no run, or to one that is closed.
THEOREM DoneRowsAreOver == Spec => []DoneMeansOver
BY QueueCorrect, PTL DEF QueueInv

\* A row in the line is tied to no run.
THEOREM LineIsUntied == Spec => []WaitingIsUntied
BY QueueCorrect, PTL DEF QueueInv

\* No row is started twice, however its start was answered and whatever became
\* of the row, the loop or the service in the meantime.
THEOREM RowsServedOnce == Spec => []OneRunPerRow
BY QueueCorrect, PTL DEF QueueInv

\* A run that is closed is never opened again by an event of it that comes late.
THEOREM ClosedForGood == Spec => OverStaysOver
<1>1. QueueInv /\ [Next]_vars
        => [\A r \in Run : runs[r].state = "closed" => runs'[r].state = "closed"]_vars
  BY ClosedStays
<1> QED  BY <1>1, QueueCorrect, PTL DEF Spec, OverStaysOver

\* No row is started on a stand past an older one that could go there.
THEOREM LineIsKept == Spec => NoOvertaking
<1>1. ASSUME QueueInv, [Next]_vars, NEW i \in Row, NEW j \in Row,
             queue[i].state # "running", queue'[i].state = "running",
             j < i, queue[j].state = "waiting"
      PROVE  queue[j].place \notin {"any", queue'[i].place}
  BY <1>1, StartedIsInHand DEF QueueInv, PickedFirst, Waiting
<1>2. QueueInv /\ [Next]_vars =>
        [\A i, j \in Row :
           /\ queue[i].state # "running" /\ queue'[i].state = "running"
           /\ j < i /\ queue[j].state = "waiting"
           => queue[j].place \notin {"any", queue'[i].place}]_vars
  BY <1>1
<1> QED  BY <1>2, QueueCorrect, PTL DEF Spec, NoOvertaking

\* One run is one row, as long as no run_start is delivered twice: a second one
\* of the same run ties a second row, if another of its ticket is running.
THEOREM RunTiesOneRow ==
  ASSUME "duplicate" \notin Faults
  PROVE  Spec => []OneRowPerRun
<1>1. QueueInv /\ TiedOnce /\ [Next]_vars => TiedOnce'
  BY TiedStep
<1>2. Spec => []TiedOnce
  BY <1>1, TiedInit, QueueCorrect, PTL DEF Spec
<1>3. TiedOnce => OneRowPerRun
  BY DEF TiedOnce
<1> QED  BY <1>2, <1>3, PTL

\* Where nothing is late or said twice, and every row is tied to the run
\* started for it, a stand never has more live runs than it has room for: the
\* pump counts each by its run or by the row that waits for its run_start.
THEOREM StandHasRoom ==
  ASSUME Faults \subseteq {"deploys"}
  PROVE  Spec => []RoomKept
<1>1. QueueInv /\ RoomInv /\ [Next]_vars => RoomInv'
  BY RoomStep DEF OnlyDeploys
<1>2. Spec => []RoomInv
  BY <1>1, RoomInit, QueueCorrect, PTL DEF Spec
<1>3. RoomInv => RoomKept
  <2>1. Alive("docker") = {r \in Run : procs[r].state = "alive" /\ procs[r].stand = "docker"}
    BY DEF Alive
  <2>2. Alive("local") = {r \in Run : procs[r].state = "alive" /\ procs[r].stand = "local"}
    BY DEF Alive
  <2> QED  BY <2>1, <2>2 DEF RoomInv, Kept, Matched, Room, Stand, RoomKept, StandNotOverfilled
<1> QED  BY <1>2, <1>3, PTL
=============================================================================
