------------------------ MODULE AmmitWatchdogProofs ------------------------
(***************************************************************************)
(* Proofs about the watchdog of ammit, for any bounds, endings and          *)
(* surroundings: WatchInv is an inductive invariant, and the cycles of the  *)
(* watchdog implement FixChain.                                            *)
(***************************************************************************)
EXTENDS AmmitWatchdog, FiniteSetTheorems, WellFoundedInduction, TLAPS

-----------------------------------------------------------------------------
(* Numbers: what the program selects as the first or the last of a set.    *)

\* A set of naturals that is not empty has a least element.
LEMMA LeastExists ==
  ASSUME NEW S \in SUBSET Nat, S # {}
  PROVE  \E x \in S : \A y \in S : x <= y
<1> DEFINE R == OpToRel(<, Nat)
<1>1. IsWellFoundedOn(R, Nat)
  BY NatLessThanWellFounded
<1>2. ASSUME NEW x \in Nat, NEW y \in Nat, <<y, x>> \notin R  PROVE ~(y < x)
  BY <1>2 DEF OpToRel
<1> HIDE DEF R
<1>3. PICK x \in S : \A y \in S : ~(<<y, x>> \in R)
  BY <1>1, WFMin
<1>4. \A y \in S : ~(y < x)
  BY <1>2, <1>3, Zenon
<1> QED  BY <1>4

\* Least picks an element of the set.
LEMMA LeastIn ==
  ASSUME NEW S \in SUBSET Nat, S # {}
  PROVE  Least(S) \in S
BY LeastExists DEF Least

\* Up to a bound, Greatest picks one too.
LEMMA GreatestIn ==
  ASSUME NEW n \in Nat, NEW S \in SUBSET (1 .. n), S # {}
  PROVE  Greatest(S) \in S
<1> DEFINE T == {m \in 0 .. n : n - m \in S}
<1>1. T \in SUBSET Nat
  OBVIOUS
<1>2. \A x \in S : n - x \in T
  <2> SUFFICES ASSUME NEW x \in S  PROVE n - x \in T
    OBVIOUS
  <2>1. n - x \in 0 .. n /\ n - (n - x) = x
    OBVIOUS
  <2> QED  BY <2>1
<1> HIDE DEF T
<1>3. PICK t \in T : \A u \in T : t <= u
  BY <1>1, <1>2, LeastExists
<1>4. n - t \in S /\ t \in 0 .. n
  BY DEF T
<1>5. ASSUME NEW y \in S  PROVE n - t >= y
  <2>1. t <= n - y
    BY <1>2, <1>3
  <2>2. y \in 0 .. n
    OBVIOUS
  <2> QED  BY <1>4, <2>1, <2>2
<1> QED  BY <1>4, <1>5 DEF Greatest

-----------------------------------------------------------------------------
(* Types.                                                                  *)

\* Runs, cycles and rows are numbered from one.
LEMMA Numbers ==
  /\ Run \subseteq Nat \ {None} /\ Cycle \subseteq Nat \ {None} /\ Row \subseteq Nat \ {None}
  /\ 1 \in Run
BY BoundAssumption DEF BoundAssumption, Run, Cycle, Row, None

\* The cycle a run was resumed by has that run in one of its two links.
LEMMA ParentIn ==
  ASSUME NEW r, Parent(r) # None
  PROVE  Parent(r) \in Parents(r)
<1>1. Parents(r) # {} /\ Parent(r) = Greatest(Parents(r))
  BY DEF Parent
<1>2. Parents(r) \in SUBSET (1 .. MaxCycle) /\ MaxCycle \in Nat
  BY BoundAssumption DEF Parents, Cycle, BoundAssumption
<1> QED  BY <1>1, <1>2, GreatestIn

\* It is one that could be followed.
LEMMA ParentFollowed ==
  ASSUME WatchInv, NEW r \in Run, Parent(r) # None
  PROVE  /\ Parent(r) \in Cycle
         /\ cycles[Parent(r)].state \notin {"none", "exhausted"}
<1>1. Parent(r) \in Cycle
      /\ (cycles[Parent(r)].resumed = r \/ cycles[Parent(r)].resume # None)
  BY ParentIn DEF Parents
<1> QED  BY <1>1, Numbers DEF WatchInv, NothingFollowed

\* A chain begins with a run.
LEMMA RootIsRun == ASSUME WatchInv, NEW r \in Run PROVE RootOf(r) \in Run
BY ParentFollowed DEF RootOf, WatchInv, CyclesOfDrops

\* The cycles taken of a chain are a number of them.
LEMMA SpentIsNat ==
  ASSUME NEW r
  PROVE  /\ IsFiniteSet({c \in CyclesOf(r) : cycles[c].state # "exhausted"})
         /\ Spent(r) \in Nat
<1>1. IsFiniteSet(Cycle)
  BY BoundAssumption, FS_Interval DEF BoundAssumption, Cycle
<1>2. {c \in CyclesOf(r) : cycles[c].state # "exhausted"} \in SUBSET Cycle
  BY DEF CyclesOf
<1> QED  BY <1>1, <1>2, FS_Subset, FS_CardinalityType DEF Spent

\* A loop that goes on is well typed.
LEMMA TopType == TopOfTick \in LoopRecord
BY DEF TopOfTick, LoopRecord, Moving, Building, Over

\* A loop that goes on to the next of its snapshot keeps its type.
LEMMA GoOnType == ASSUME TypeOK, GoOn PROVE loop' \in LoopRecord
BY DEF TypeOK, GoOn, TopOfTick, LoopRecord, Moving, Building, Over

\* A new row is well typed.
LEMMA NewRowType ==
  ASSUME TypeOK, RoomForRow, NEW kind \in {"fix", "resume", "fresh"}, NEW source \in Run \cup {None},
         NewRow(kind, source)
  PROVE  /\ rows' \in [Row -> RowRecord]
         /\ used' \in [runs: 1..MaxRun, cycles: 0..MaxCycle, rows: 0..MaxRow, restarts: 0..MaxRestarts]
         /\ used.rows + 1 \in Row
<1>1. [NoRow EXCEPT !.state = "waiting", !.kind = kind, !.source = source] \in RowRecord
  BY DEF NoRow, RowRecord
<1>2. used.rows + 1 \in Row /\ used.rows + 1 \in 0 .. MaxRow
  BY BoundAssumption DEF BoundAssumption, TypeOK, RoomForRow, Row
<1>3. rows' \in [Row -> RowRecord]
  BY <1>1 DEF TypeOK, NewRow
<1> QED  BY <1>2, <1>3 DEF TypeOK, NewRow

\* A new cycle is well typed.
LEMMA NewCycleType ==
  ASSUME WatchInv, NEW state \in {"fixing", "exhausted"}, NEW root \in Run, loop.drop \in Run,
         used.cycles < MaxCycle, NewCycle(state, root)
  PROVE  /\ cycles' \in [Cycle -> CycleRecord]
         /\ used' \in [runs: 1..MaxRun, cycles: 0..MaxCycle, rows: 0..MaxRow, restarts: 0..MaxRestarts]
         /\ used.cycles + 1 \in Cycle
<1>1. Spent(root) + 1 \in 0 .. Limit + 1
  <2>1. Spent(root) \in Nat /\ Spent(root) <= Limit
    BY SpentIsNat DEF WatchInv, WithinLaps
  <2>2. Limit \in Nat
    BY BoundAssumption DEF BoundAssumption
  <2> QED  BY <2>1, <2>2
<1>2. used.runs \in 0 .. MaxRun
  BY BoundAssumption DEF BoundAssumption, WatchInv, TypeOK
<1>3. [NoCycle EXCEPT !.state = state, !.root = root, !.run = loop.drop,
                      !.n = Spent(root) + 1, !.since = used.runs] \in CycleRecord
  BY <1>1, <1>2 DEF NoCycle, CycleRecord, Moving, Building, Over
<1>4. used.cycles + 1 \in Cycle /\ used.cycles + 1 \in 0 .. MaxCycle
  BY BoundAssumption DEF BoundAssumption, WatchInv, TypeOK, Cycle
<1> QED  BY <1>3, <1>4 DEF WatchInv, TypeOK, NewCycle

\* A cycle moved to a state, one that is linked to its fix, and what GitHub, the
\* deploys and the clock say of one, are well typed.
LEMMA CycleType ==
  ASSUME NEW cycle \in CycleRecord
  PROVE  /\ \A state \in Moving \cup Over : [cycle EXCEPT !.state = state] \in CycleRecord
         /\ \A i \in Row : [cycle EXCEPT !.fix = i] \in CycleRecord
         /\ \A pr \in {"pending", "red", "green", "closed", "merged"} :
              [cycle EXCEPT !.pr = pr] \in CycleRecord
         /\ [cycle EXCEPT !.deployed = TRUE] \in CycleRecord
         /\ [cycle EXCEPT !.late = TRUE] \in CycleRecord
<1>1. ASSUME NEW state \in Moving \cup Over  PROVE [cycle EXCEPT !.state = state] \in CycleRecord
  BY DEF CycleRecord
<1>2. ASSUME NEW i \in Row  PROVE [cycle EXCEPT !.fix = i] \in CycleRecord
  BY DEF CycleRecord
<1>3. ASSUME NEW pr \in {"pending", "red", "green", "closed", "merged"}
      PROVE  [cycle EXCEPT !.pr = pr] \in CycleRecord
  BY DEF CycleRecord
<1>4. [cycle EXCEPT !.deployed = TRUE] \in CycleRecord
  BY DEF CycleRecord
<1>5. [cycle EXCEPT !.late = TRUE] \in CycleRecord
  BY DEF CycleRecord
<1> QED  BY <1>1, <1>2, <1>3, <1>4, <1>5

\* The drops, the fixes and the announcements keep the types.
LEMMA DropsType ==
  ASSUME WatchInv,
         \/ \E r \in Run : ReadRun(r)
         \/ TickBegins \/ RecordDrop \/ MoveParent \/ QueueFresh \/ OpenCycle
         \/ Exhausted \/ NoCycleNow \/ QueueFix \/ CyclesBegin \/ CyclesEnd
  PROVE  TypeOK'
<1> USE Numbers, TopType, GoOnType
<1>1. TypeOK /\ LoopHolds
  BY DEF WatchInv
<1>2. ASSUME NEW r \in Run, ReadRun(r)  PROVE TypeOK'
  <2>1. loop' \in LoopRecord
    <3>1. [loop EXCEPT !.pc = "record", !.todo = @ \ {r}, !.drop = r] \in LoopRecord
      BY <1>1, ZenonT(60) DEF TypeOK, LoopRecord
    <3>2. [loop EXCEPT !.todo = @ \ {r}] \in LoopRecord
      BY <1>1 DEF TypeOK, LoopRecord
    <3> QED  BY <1>2, <3>1, <3>2, Zenon DEF ReadRun
  <2>2. seen' \subseteq Run
    BY <1>1, <1>2 DEF TypeOK, ReadRun
  <2> QED  BY <1>1, <1>2, <2>1, <2>2 DEF TypeOK, ReadRun
<1>3. CASE TickBegins
  BY <1>1, <1>3 DEF TypeOK, TickBegins, LoopRecord
<1>4. CASE RecordDrop
  <2>1. RootOf(loop.drop) \in Run
    BY <1>1, <1>4, RootIsRun DEF RecordDrop, LoopHolds
  <2>2. drops' \in [Run -> Run \cup {None}]
    BY <1>1, <1>4, <2>1 DEF RecordDrop, TypeOK
  <2>3. loop' \in LoopRecord
    BY <1>1, <1>4 DEF RecordDrop, TypeOK, Goto, LoopRecord
  <2> QED  BY <1>1, <1>4, <2>2, <2>3 DEF RecordDrop, TypeOK
<1>5. CASE MoveParent
  <2>1. cycles' \in [Cycle -> CycleRecord]
    <3>1. "dropped" \in Moving \cup Over
      BY DEF Over
    <3> QED  BY <1>1, <1>5, <3>1, CycleType DEF MoveParent, TypeOK
  <2>2. loop' \in LoopRecord
    BY <1>1, <1>5 DEF MoveParent, TypeOK, Goto, LoopRecord
  <2> QED  BY <1>1, <1>5, <2>1, <2>2 DEF MoveParent, TypeOK
<1>6. CASE QueueFresh
  <2>1. loop.drop \in Run
    BY <1>1, <1>6 DEF QueueFresh, LoopHolds
  <2> QED  BY <1>1, <1>6, <2>1, NewRowType DEF QueueFresh, TypeOK
<1>7. CASE OpenCycle
  <2>1. loop.drop \in Run /\ drops[loop.drop] \in Run /\ used.cycles < MaxCycle
    BY <1>1, <1>7 DEF OpenCycle, LoopHolds, TypeOK, MayBegin
  <2>2. NewCycle("fixing", drops[loop.drop])
    BY <1>7 DEF OpenCycle
  <2>3. loop' \in LoopRecord
    BY <1>1, <1>7, <2>1, <2>2, NewCycleType DEF OpenCycle, TypeOK, LoopRecord
  <2> QED  BY <1>1, <1>7, <2>1, <2>2, <2>3, NewCycleType DEF OpenCycle, TypeOK
<1>8. CASE Exhausted
  <2>1. loop.drop \in Run /\ drops[loop.drop] \in Run /\ used.cycles < MaxCycle
    BY <1>1, <1>8 DEF Exhausted, LoopHolds, TypeOK, MayBegin
  <2>2. NewCycle("exhausted", drops[loop.drop])
    BY <1>8 DEF Exhausted
  <2> QED  BY <1>1, <1>8, <2>1, <2>2, NewCycleType DEF Exhausted, TypeOK
<1>9. CASE NoCycleNow
  BY <1>1, <1>9 DEF NoCycleNow, TypeOK
<1>10. CASE QueueFix
  <2>1. CASE RoomForRow
    <3>1. NewRow("fix", None)
      BY <1>10, <2>1 DEF QueueFix
    <3>2. cycles' \in [Cycle -> CycleRecord]
      BY <1>1, <1>10, <2>1, <3>1, NewRowType DEF QueueFix, TypeOK, CycleRecord
    <3> QED  BY <1>1, <1>10, <3>1, <3>2, <2>1, NewRowType DEF QueueFix, TypeOK
  <2>2. CASE ~RoomForRow
    <3>1. cycles' \in [Cycle -> CycleRecord]
      <4>1. "failed" \in Moving \cup Over
        BY DEF Over
      <4>2. cycles' = [cycles EXCEPT ![loop.cycle].state = "failed"] /\ loop.cycle \in Cycle
        BY <1>1, <1>10, <2>2 DEF QueueFix, LoopHolds
      <4> QED  BY <1>1, <4>1, <4>2, CycleType DEF TypeOK
    <3> QED  BY <1>1, <1>10, <2>2, <3>1 DEF QueueFix, TypeOK
  <2> QED  BY <2>1, <2>2
<1>11. CASE CyclesBegin
  BY <1>1, <1>11 DEF CyclesBegin, TypeOK, LoopRecord
<1>12. CASE CyclesEnd
  BY <1>1, <1>12 DEF CyclesEnd, TypeOK
<1> QED
  BY <1>2, <1>3, <1>4, <1>5, <1>6, <1>7, <1>8, <1>9, <1>10, <1>11, <1>12

\* The run a cycle follows, and a run that replays its drop, are runs.
LEMMA FollowedIsRun ==
  ASSUME TypeOK, NEW c \in Cycle
  PROVE  /\ Followed(c) \in Run \cup {None}
         /\ Replays(c) # {} => Least(Replays(c)) \in Run
<1>1. Replays(c) # {} => Least(Replays(c)) \in Replays(c)
  BY Numbers, LeastIn DEF Replays
<1>2. Replays(c) # {} => Least(Replays(c)) \in Run
  BY <1>1 DEF Replays
<1>3. Resume(c).run \in Run \cup {None}
  BY DEF TypeOK, Resume, RowOf, NoRow, RowRecord, CycleRecord
<1> QED  BY <1>2, <1>3 DEF Followed

\* Where the loop turns to from a cycle is well typed.
LEMMA TurnType ==
  ASSUME TypeOK, NEW c \in Cycle, NEW pc \in {"withdraw", "move", "resume"},
         NEW to \in Moving \cup Over, NEW row \in Row \cup {None}, NEW run \in Run \cup {None},
         Turn(c, pc, to, row, run)
  PROVE  TypeOK'
<1>1. loop' \in LoopRecord
  BY DEF Turn, TypeOK, LoopRecord
<1> QED  BY <1>1 DEF Turn, TypeOK

\* A step of stepCycle turns to a write of one cycle, from a state that moves to
\* one that is not the announcement, or finds nothing to do.
LEMMA StepTurns ==
  ASSUME TypeOK, NEW c \in Cycle,
         \/ StepStartedOver(c) \/ StepAdopted(c) \/ StepOn(c) \/ StepPutDown(c)
         \/ StepSpoiled(c) \/ StepDeployed(c) \/ StepFollow(c)
  PROVE  /\ AtCycle(c) /\ cycles[c].state \in Moving
         /\ \E pc \in {"withdraw", "move", "resume"}, to \in (Moving \cup Over) \ {"exhausted"},
               row \in Row \cup {None}, run \in Run \cup {None} : Turn(c, pc, to, row, run)
<1> DEFINE Turns == \E pc \in {"withdraw", "move", "resume"}, to \in (Moving \cup Over) \ {"exhausted"},
                      row \in Row \cup {None}, run \in Run \cup {None} : Turn(c, pc, to, row, run)
<1> USE DEF At
<1>1. cycles[c].fix \in Row \cup {None} /\ cycles[c].resume \in Row \cup {None}
  BY DEF TypeOK, CycleRecord
<1>2. None \in Run \cup {None} /\ None \in Row \cup {None}
  OBVIOUS
<1>3. /\ {"resumed", "done", "left", "failed", "ci", "merging", "deploying"}
           \subseteq (Moving \cup Over) \ {"exhausted"}
      /\ Building \subseteq Moving /\ {"fixing", "ci", "merging", "deploying"} \subseteq Moving
      /\ "resumed" \in Moving
  BY DEF Moving, Building, Over
<1>4. CASE StepStartedOver(c)
  <2>1. Turn(c, "withdraw", "left", cycles[c].fix, None) /\ AtCycle(c)
        /\ cycles[c].state \in Building
    BY <1>4 DEF StepStartedOver, StartedOver
  <2> QED  BY <1>1, <1>2, <1>3, <2>1
<1>5. CASE StepAdopted(c)
  <2>1. AtCycle(c) /\ Adopted(c)
    BY <1>5 DEF StepAdopted
  <2>2. Least(Replays(c)) \in Run /\ cycles[c].state \in Moving
    BY <1>3, <2>1, FollowedIsRun DEF Adopted
  <2>3. PICK pc \in {"withdraw", "move"} :
          Turn(c, pc, "resumed", cycles[c].fix, Least(Replays(c)))
    BY <1>5 DEF StepAdopted
  <2> QED  BY <1>1, <1>3, <2>1, <2>2, <2>3
<1>6. CASE StepOn(c)
  <2>1. PICK pr \in Listed(c) : AtCycle(c) /\ NextState(c, pr) # "none"
                                /\ Turn(c, "move", NextState(c, pr), None, None)
    BY <1>6 DEF StepOn
  <2>2. NextState(c, pr) \in {"ci", "merging", "deploying"}
        /\ cycles[c].state \in {"fixing", "ci", "merging"}
    BY <2>1 DEF NextState
  <2> QED  BY <1>2, <1>3, <2>1, <2>2
<1>7. CASE StepPutDown(c)
  <2>1. AtCycle(c) /\ Turn(c, "move", "left", None, None) /\ cycles[c].state = "fixing"
    BY <1>7 DEF StepPutDown, PutDown
  <2> QED  BY <1>2, <1>3, <2>1
<1>8. CASE StepSpoiled(c)
  <2>1. AtCycle(c) /\ Turn(c, "move", "failed", None, None)
        /\ cycles[c].state \in {"fixing", "ci", "merging", "deploying", "resumed"}
    BY <1>8 DEF StepSpoiled, Spoiled
  <2> QED  BY <1>2, <1>3, <2>1
<1>9. CASE StepDeployed(c)
  <2>1. AtCycle(c) /\ Turn(c, "resume", "resumed", None, None) /\ cycles[c].state = "deploying"
    BY <1>9 DEF StepDeployed
  <2> QED  BY <1>2, <1>3, <2>1
<1>10. CASE StepFollow(c)
  <2>1. AtCycle(c) /\ cycles[c].state = "resumed" /\ Outcome(c) \in {"resumed", "done", "left"}
    BY <1>10 DEF StepFollow, Outcome
  <2>2. \/ Turn(c, "withdraw", "resumed", cycles[c].resume, Followed(c))
        \/ Turn(c, "move", "resumed", cycles[c].resume, Followed(c))
        \/ Turn(c, "move", Outcome(c), None, None)
    BY <1>10, Zenon DEF StepFollow
  <2> QED  BY <1>1, <1>2, <1>3, <2>1, <2>2, FollowedIsRun
<1> QED  BY <1>4, <1>5, <1>6, <1>7, <1>8, <1>9, <1>10

\* A row taken out of the line is well typed.
LEMMA WithdrawType == ASSUME TypeOK, Withdraw PROVE TypeOK'
<1>1. \A i \in Row : [rows[i] EXCEPT !.state = "done"] \in RowRecord
  BY DEF TypeOK, RowRecord
<1>2. rows' \in [Row -> RowRecord]
  BY <1>1 DEF TypeOK, Withdraw
<1>3. loop' \in LoopRecord
  BY DEF TypeOK, Withdraw, Goto, LoopRecord
<1> QED  BY <1>2, <1>3 DEF TypeOK, Withdraw

\* wdMove writes a well typed cycle.
LEMMA MoveType == ASSUME WatchInv, Move PROVE TypeOK'
<1> DEFINE c == loop.cycle
           to == loop.to
           moved == [cycles[c] EXCEPT
                  !.state = to, !.late = FALSE,
                  !.pr = IF to \in Building THEN @ ELSE "none",
                  !.deployed = @ /\ to \in Building,
                  !.resumed = IF @ = None THEN loop.run ELSE @,
                  !.resume = IF to = "resumed" /\ loop.run = None THEN loop.row ELSE @]
<1>1. TypeOK /\ c \in Cycle /\ cycles[c] \in CycleRecord /\ to \in Moving \cup Over
      /\ cycles' = [cycles EXCEPT ![c] = moved]
  BY DEF WatchInv, LoopHolds, Move, TypeOK, LoopRecord
<1>2. moved \in CycleRecord
  <2> DEFINE pr == IF to \in Building THEN cycles[c].pr ELSE "none"
             deployed == cycles[c].deployed /\ to \in Building
             resumed == IF cycles[c].resumed = None THEN loop.run ELSE cycles[c].resumed
             resume == IF to = "resumed" /\ loop.run = None THEN loop.row ELSE cycles[c].resume
  <2>1. loop.run \in Run \cup {None} /\ loop.row \in Row \cup {None}
    BY <1>1 DEF TypeOK, LoopRecord
  <2>2. /\ pr \in {"none", "pending", "red", "green", "closed", "merged"}
        /\ resumed \in Run \cup {None} /\ resume \in Row \cup {None}
    BY <1>1, <2>1 DEF CycleRecord
  <2>3. deployed \in BOOLEAN
    BY <1>1 DEF CycleRecord
  <2> DEFINE c1 == [cycles[c] EXCEPT !.state = to]
             c2 == [c1 EXCEPT !.late = FALSE]
             c3 == [c2 EXCEPT !.pr = pr]
             c4 == [c3 EXCEPT !.deployed = deployed]
             c5 == [c4 EXCEPT !.resumed = resumed]
             c6 == [c5 EXCEPT !.resume = resume]
  <2>4. moved = c6
    BY Zenon
  <2>5. c1 \in CycleRecord
    BY <1>1 DEF CycleRecord
  <2> HIDE DEF pr, deployed, resumed, resume, moved, c1
  <2>6. c2 \in CycleRecord
    BY <2>5 DEF CycleRecord
  <2> HIDE DEF c2
  <2>7. c3 \in CycleRecord
    BY <2>2, <2>6 DEF CycleRecord
  <2> HIDE DEF c3
  <2>8. c4 \in CycleRecord
    BY <2>3, <2>7 DEF CycleRecord
  <2> HIDE DEF c4
  <2>9. c5 \in CycleRecord
    BY <2>2, <2>8 DEF CycleRecord
  <2> HIDE DEF c5
  <2>10. c6 \in CycleRecord
    BY <2>2, <2>9 DEF CycleRecord
  <2> HIDE DEF c6
  <2> QED  BY <2>4, <2>10
<1>3. loop' \in LoopRecord
  <2> DEFINE follows == to = "resumed" /\ At(c, "resumed")
             pc == IF to = "failed" THEN "open" ELSE "step"
             drop == IF to = "failed" THEN cycles[c].run ELSE None
             cyc == IF follows THEN loop.cyc \cup {c} ELSE loop.cyc
  <2>1. cycles[c].run \in Run \cup {None} /\ loop.cyc \subseteq Cycle
    BY <1>1 DEF TypeOK, CycleRecord, LoopRecord
  <2>2. pc \in {"open", "step"} /\ drop \in Run \cup {None}
    BY <2>1
  <2>3. cyc \subseteq Cycle
    BY <1>1, <2>1
  <2>4. loop' = [TopOfTick EXCEPT !.pc = pc, !.back = "step", !.drop = drop, !.cyc = cyc]
    BY DEF Move
  <2> HIDE DEF pc, drop, cyc
  <2> QED  BY <2>2, <2>3, <2>4, TopType DEF LoopRecord
<1> HIDE DEF moved
<1> QED  BY <1>1, <1>2, <1>3 DEF Move, TypeOK

\* stepCycle keeps the types.
LEMMA StepCycleType == ASSUME WatchInv, StepCycle PROVE TypeOK'
<1>1. TypeOK
  BY DEF WatchInv
<1>2. ASSUME NEW c \in Cycle,
             \/ StepStartedOver(c) \/ StepAdopted(c) \/ StepOn(c) \/ StepPutDown(c)
             \/ StepSpoiled(c) \/ StepDeployed(c) \/ StepFollow(c)
      PROVE  TypeOK'
  BY <1>1, <1>2, StepTurns, TurnType
<1>3. ASSUME NEW c \in Cycle, StepNothing(c)  PROVE TypeOK'
  <2>1. loop' = [loop EXCEPT !.cyc = @ \ {c}] /\ UNCHANGED <<runs, drops, seen, cycles, rows, used>>
    BY <1>3 DEF StepNothing
  <2> QED  BY <1>1, <2>1 DEF TypeOK, LoopRecord
<1>4. CASE QueueResume
  <2>1. CASE RoomForRow
    <3>1. NewRow("resume", cycles[loop.cycle].run) /\ cycles[loop.cycle].run \in Run \cup {None}
      BY <1>4, <2>1 DEF QueueResume, WatchInv, LoopHolds, TypeOK, CycleRecord
    <3>2. used.rows + 1 \in Row
      BY <1>1, <2>1, <3>1, NewRowType
    <3>3. loop' \in LoopRecord
      BY <1>1, <1>4, <2>1, <3>2, ZenonT(60) DEF QueueResume, TypeOK, LoopRecord
    <3> QED  BY <1>1, <1>4, <2>1, <3>1, <3>3, NewRowType DEF QueueResume, TypeOK
  <2>2. CASE ~RoomForRow
    BY <1>1, <1>4, <2>2 DEF QueueResume, TypeOK, Goto, LoopRecord
  <2> QED  BY <2>1, <2>2
<1> QED  BY <1>1, <1>2, <1>3, <1>4, WithdrawType, MoveType DEF StepCycle

\* A run that ends, and a row with one thing of it changed, are well typed.
LEMMA EndedType ==
  ASSUME NEW run \in RunRecord, NEW how \in EndingNames, NEW at \in 0 .. MaxRun
  PROVE  [run EXCEPT !.state = "ended", !.how = how, !.ended = at] \in RunRecord
<1>1. ASSUME NEW d \in RunRecord  PROVE [d EXCEPT !.state = "ended"] \in RunRecord
  BY <1>1 DEF RunRecord
<1>2. ASSUME NEW d \in RunRecord  PROVE [d EXCEPT !.how = how] \in RunRecord
  BY <1>2 DEF RunRecord
<1>3. ASSUME NEW d \in RunRecord  PROVE [d EXCEPT !.ended = at] \in RunRecord
  BY <1>3 DEF RunRecord
<1> QED  BY <1>1, <1>2, <1>3, Zenon

\* A row that is written to keeps its type.
LEMMA RowType ==
  ASSUME NEW row \in RowRecord
  PROVE  /\ \A run \in Run \cup {None}, born \in BOOLEAN :
              [row EXCEPT !.run = run, !.born = born] \in RowRecord
         /\ \A st \in {"running", "done"} : [row EXCEPT !.state = st] \in RowRecord
         /\ \A b \in {"yes", "late"} : [row EXCEPT !.begun = b] \in RowRecord
         /\ \A f \in {"open", "ended", "stopped"} : [row EXCEPT !.fix = f] \in RowRecord
         /\ [row EXCEPT !.state = "running", !.begun = "yes"] \in RowRecord
         /\ \A f \in {"ended", "stopped"} : [row EXCEPT !.fix = f, !.state = "done"] \in RowRecord
<1>1. ASSUME NEW d \in RowRecord, NEW run \in Run \cup {None}
      PROVE  [d EXCEPT !.run = run] \in RowRecord
  BY <1>1 DEF RowRecord
<1>2. ASSUME NEW d \in RowRecord, NEW born \in BOOLEAN
      PROVE  [d EXCEPT !.born = born] \in RowRecord
  BY <1>2 DEF RowRecord
<1>3. ASSUME NEW d \in RowRecord, NEW st \in {"running", "done"}
      PROVE  [d EXCEPT !.state = st] \in RowRecord
  BY <1>3 DEF RowRecord
<1>4. ASSUME NEW d \in RowRecord, NEW b \in {"yes", "late"}
      PROVE  [d EXCEPT !.begun = b] \in RowRecord
  BY <1>4 DEF RowRecord
<1>5. ASSUME NEW d \in RowRecord, NEW f \in {"open", "ended", "stopped"}
      PROVE  [d EXCEPT !.fix = f] \in RowRecord
  BY <1>5 DEF RowRecord
<1>6. ASSUME NEW run \in Run \cup {None}, NEW born \in BOOLEAN
      PROVE  [row EXCEPT !.run = run, !.born = born] \in RowRecord
  BY <1>1, <1>2, Zenon
<1>7. [row EXCEPT !.state = "running", !.begun = "yes"] \in RowRecord
  <2> DEFINE d == [row EXCEPT !.state = "running"]
  <2>1. d \in RowRecord
    BY <1>3
  <2>2. [d EXCEPT !.begun = "yes"] \in RowRecord
    <3> HIDE DEF d
    <3> QED  BY <1>4, <2>1
  <2> QED  BY <2>2, Zenon
<1>8. ASSUME NEW f \in {"ended", "stopped"}
      PROVE  [row EXCEPT !.fix = f, !.state = "done"] \in RowRecord
  <2> DEFINE d == [row EXCEPT !.fix = f]
  <2>1. d \in RowRecord
    BY <1>5
  <2>2. [d EXCEPT !.state = "done"] \in RowRecord
    <3> HIDE DEF d
    <3> QED  BY <1>3, <2>1
  <2> QED  BY <2>2, Zenon
<1> QED  BY <1>3, <1>4, <1>5, <1>6, <1>7, <1>8

\* A run that starts leaves the runs and the rows well typed.
LEMMA RunStartsType ==
  ASSUME TypeOK, NEW of \in Run \cup {None}, NEW i, RunStarts(of, i)
  PROVE  TypeOK'
<1> DEFINE r == used.runs + 1
<1>0. /\ used.runs < MaxRun /\ used.runs \in 1 .. MaxRun /\ MaxRun \in Nat
      /\ \A q \in Run : runs[q] \in RunRecord
      /\ \A j \in Row : rows[j] \in RowRecord
  BY BoundAssumption DEF BoundAssumption, TypeOK, RunStarts
<1>1. r \in Run /\ r \in 1 .. MaxRun /\ r \in 0 .. MaxRun
  BY <1>0 DEF Run
<1> HIDE DEF r
<1>2. [NoRun EXCEPT !.state = "open", !.of = of] \in RunRecord
  <2>1. 0 \in 0 .. MaxRun /\ "" \in EndingNames \cup {""} /\ None \in Run \cup {None}
    BY <1>0
  <2>2. NoRun \in RunRecord
    BY <2>1, Zenon DEF NoRun, RunRecord
  <2>3. [NoRun EXCEPT !.state = "open"] \in RunRecord
    BY <2>2 DEF RunRecord
  <2> DEFINE d == [NoRun EXCEPT !.state = "open"]
  <2>4. [d EXCEPT !.of = of] \in RunRecord
    <3> HIDE DEF d
    <3> QED  BY <2>3 DEF RunRecord, d
  <2> QED  BY <2>4, Zenon
<1>3. \A q \in Run : [runs[q] EXCEPT !.state = "ended", !.how = "drop", !.ended = r] \in RunRecord
  <2>1. "drop" \in EndingNames
    BY DEF EndingNames
  <2> QED  BY <1>0, <1>1, <2>1, EndedType
<1>4. runs' \in [Run -> RunRecord]
  BY <1>2, <1>3 DEF RunStarts, TypeOK, r
<1>5. ASSUME NEW j \in Row
      PROVE  [rows[j] EXCEPT !.run = IF Tied # {} /\ j = Least(Tied) THEN r ELSE @,
                             !.born = @ \/ j = i] \in RowRecord
  <2> DEFINE run == IF Tied # {} /\ j = Least(Tied) THEN r ELSE rows[j].run
             born == rows[j].born \/ j = i
  <2>1. run \in Run \cup {None}
    BY <1>0, <1>1 DEF RowRecord
  <2>2. born \in BOOLEAN
    OBVIOUS
  <2> HIDE DEF run, born
  <2>3. [rows[j] EXCEPT !.run = run, !.born = born] \in RowRecord
    BY <1>0, <2>1, <2>2, RowType
  <2> QED  BY <2>3, Zenon DEF run, born
<1>6. rows' \in [Row -> RowRecord]
  BY <1>5 DEF RunStarts, r
<1>7. used' \in [runs: 1..MaxRun, cycles: 0..MaxCycle, rows: 0..MaxRow, restarts: 0..MaxRestarts]
  BY <1>1 DEF TypeOK, RunStarts, r
<1> QED  BY <1>4, <1>6, <1>7 DEF TypeOK, RunStarts, outside

\* What the surroundings do of the tables.
RowActs ==
  \/ \E i \in Row : RowStarts(i) \/ RowCloses(i) \/ FixStarts(i) \/ WithdrawRow(i) \/ RowLate(i)
  \/ \E i \in Row, how \in {"ended", "stopped"} : FixEnds(i, how)
RunActs ==
  \/ \E r \in Run : WatchWaiting(r) \/ RunSays(r)
  \/ \E of \in Run \cup {None} : StartElsewhere(of)
  \/ \E r \in Run, how \in Endings : RunEnds(r, how)
  \/ \E i \in Row : ResumeStarts(i)
CycleActs ==
  \/ \E c \in Cycle : PrOpens(c) \/ PrCloses(c) \/ PrMerges(c) \/ DeploySucceeds(c) \/ CycleLate(c)
  \/ \E c \in Cycle, result \in {"pending", "red", "green"} : PrChecked(c, result)

\* They are all of them, a restart aside.
LEMMA SurroundingsSplit == Surroundings => RowActs \/ RunActs \/ CycleActs \/ Restart
BY Zenon DEF Surroundings, RowActs, RunActs, CycleActs

\* The rows, as the pump, their runs and people move them.
LEMMA RowActsType == ASSUME TypeOK, RowActs PROVE TypeOK'
<1>1. \A i \in Row : rows[i] \in RowRecord
  BY DEF TypeOK
<1>3. PICK i \in Row, row \in RowRecord :
        rows' = [rows EXCEPT ![i] = row] /\ UNCHANGED <<runs, cycles, used, outside>>
  <2>1. ASSUME NEW i \in Row,
               RowStarts(i) \/ RowCloses(i) \/ FixStarts(i) \/ WithdrawRow(i) \/ RowLate(i)
        PROVE  \E row \in RowRecord :
                 rows' = [rows EXCEPT ![i] = row] /\ UNCHANGED <<runs, cycles, used, outside>>
    <3>1. CASE RowStarts(i)
      <4>1. rows' = [rows EXCEPT ![i] = [rows[i] EXCEPT !.state = "running", !.begun = "yes"]]
            /\ UNCHANGED <<runs, cycles, used, outside>>
        BY <3>1 DEF RowStarts, TypeOK
      <4>2. [rows[i] EXCEPT !.state = "running", !.begun = "yes"] \in RowRecord
        BY <1>1, RowType
      <4> QED  BY <4>1, <4>2, Zenon
    <3>2. CASE RowCloses(i) \/ WithdrawRow(i)
      BY <1>1, <3>2, RowType DEF RowCloses, WithdrawRow
    <3>3. CASE FixStarts(i)
      BY <1>1, <3>3, RowType DEF FixStarts
    <3>4. CASE RowLate(i)
      BY <1>1, <3>4, RowType DEF RowLate
    <3> QED  BY <2>1, <3>1, <3>2, <3>3, <3>4
  <2>2. ASSUME NEW i \in Row, NEW how \in {"ended", "stopped"}, FixEnds(i, how)
        PROVE  \E row \in RowRecord :
                 rows' = [rows EXCEPT ![i] = row] /\ UNCHANGED <<runs, cycles, used, outside>>
    <3>1. rows' = [rows EXCEPT ![i] = [rows[i] EXCEPT !.fix = how, !.state = "done"]]
          /\ UNCHANGED <<runs, cycles, used, outside>>
      BY <2>2 DEF FixEnds, TypeOK
    <3>2. [rows[i] EXCEPT !.fix = how, !.state = "done"] \in RowRecord
      BY <1>1, RowType
    <3> QED  BY <3>1, <3>2, Zenon
  <2> QED  BY <2>1, <2>2, Zenon DEF RowActs
<1> QED  BY <1>3 DEF TypeOK, outside

\* Runs that start, say what they are and end.
LEMMA RunActsType == ASSUME WatchInv, RunActs PROVE TypeOK'
<1>1. TypeOK
  BY DEF WatchInv
<1>2. ASSUME NEW r \in Run, NEW how \in EndingNames,
             runs' = [runs EXCEPT ![r].state = "ended", ![r].how = how, ![r].ended = used.runs],
             rows' = [i \in Row |-> IF rows[i].run = r THEN [rows[i] EXCEPT !.state = "done"]
                                                       ELSE rows[i]]
      PROVE  runs' \in [Run -> RunRecord] /\ rows' \in [Row -> RowRecord]
  <2>1. used.runs \in 0 .. MaxRun
    BY <1>1, BoundAssumption DEF TypeOK, BoundAssumption
  <2>2. runs' \in [Run -> RunRecord]
    <3>1. [runs[r] EXCEPT !.state = "ended", !.how = how, !.ended = used.runs] \in RunRecord
      BY <1>1, <2>1, EndedType DEF TypeOK
    <3>2. runs' = [runs EXCEPT ![r] =
                     [runs[r] EXCEPT !.state = "ended", !.how = how, !.ended = used.runs]]
      BY <1>1, <1>2 DEF TypeOK
    <3> QED  BY <1>1, <3>1, <3>2 DEF TypeOK
  <2>3. \A i \in Row : [rows[i] EXCEPT !.state = "done"] \in RowRecord
    BY <1>1 DEF TypeOK, RowRecord
  <2> QED  BY <1>1, <1>2, <2>2, <2>3 DEF TypeOK
<1>3. ASSUME NEW r \in Run, WatchWaiting(r)  PROVE TypeOK'
  <2>1. loop' \in LoopRecord
    BY <1>1, <1>3, ZenonT(60) DEF WatchWaiting, TypeOK, LoopRecord
  <2>2. runs' \in [Run -> RunRecord] /\ rows' \in [Row -> RowRecord]
    BY <1>2, <1>3 DEF WatchWaiting, EndingNames
  <2> QED  BY <1>1, <1>3, <2>1, <2>2 DEF WatchWaiting, TypeOK
<1>4. ASSUME NEW r \in Run, RunSays(r)  PROVE TypeOK'
  <2>1. runs' \in [Run -> RunRecord]
    <3>1. [runs[r] EXCEPT !.said = TRUE] \in RunRecord
      BY <1>1, ZenonT(60) DEF TypeOK, RunRecord
    <3> QED  BY <1>1, <1>4, <3>1 DEF RunSays, TypeOK
  <2> QED  BY <1>1, <1>4, <2>1 DEF RunSays, TypeOK, outside
<1>5. ASSUME NEW of \in Run \cup {None}, StartElsewhere(of)  PROVE TypeOK'
  BY <1>1, <1>5, RunStartsType DEF StartElsewhere
<1>6. ASSUME NEW r \in Run, NEW how \in Endings, RunEnds(r, how)  PROVE TypeOK'
  <2>1. how \in EndingNames
    BY SettingAssumption DEF SettingAssumption
  <2>2. runs' \in [Run -> RunRecord] /\ rows' \in [Row -> RowRecord]
    BY <1>2, <1>6, <2>1 DEF RunEnds
  <2> QED  BY <1>1, <1>6, <2>2 DEF RunEnds, TypeOK, outside
<1>7. ASSUME NEW i \in Row, ResumeStarts(i)  PROVE TypeOK'
  <2>1. rows[i].source \in Run \cup {None}
    BY <1>1 DEF TypeOK, RowRecord
  <2> QED  BY <1>1, <1>7, <2>1, RunStartsType DEF ResumeStarts
<1> QED  BY <1>3, <1>4, <1>5, <1>6, <1>7, Zenon DEF RunActs

\* What GitHub, the deploys and the clock say changes one cycle's pr, deployed or
\* late, and nothing else of it.
LEMMA CycleActsSay ==
  ASSUME TypeOK, CycleActs
  PROVE  /\ TypeOK'
         /\ UNCHANGED <<runs, rows, used, outside>>
         /\ \A c \in Cycle :
              /\ cycles'[c] = [cycles[c] EXCEPT !.pr = cycles'[c].pr, !.late = cycles'[c].late,
                                                !.deployed = cycles'[c].deployed]
              /\ cycles[c].pr = "none" => \/ cycles'[c].pr = "none"
                                          \/ cycles[c].state \in {"ci", "merging"}
                                          \/ (At(c, "fixing") /\ Fix(c).fix = "open")
<1> USE DEF At
<1> DEFINE Says(c, cycle) ==
      /\ cycle \in CycleRecord
      /\ cycle = [cycles[c] EXCEPT !.pr = cycle.pr, !.late = cycle.late, !.deployed = cycle.deployed]
      /\ cycles[c].pr = "none" => \/ cycle.pr = "none" \/ cycles[c].state \in {"ci", "merging"}
                                  \/ (At(c, "fixing") /\ Fix(c).fix = "open")
<1>1. \A c \in Cycle : cycles[c] \in CycleRecord
  BY DEF TypeOK
<1>2. ASSUME NEW c \in Cycle, NEW pr \in {"pending", "red", "green", "closed", "merged"},
             \/ cycles[c].state \in {"ci", "merging"} \/ (At(c, "fixing") /\ Fix(c).fix = "open")
      PROVE  Says(c, [cycles[c] EXCEPT !.pr = pr])
  BY <1>1, <1>2, ZenonT(60) DEF CycleRecord
<1>3. ASSUME NEW c \in Cycle  PROVE Says(c, [cycles[c] EXCEPT !.deployed = TRUE])
  BY <1>1 DEF CycleRecord
<1>4. ASSUME NEW c \in Cycle  PROVE Says(c, [cycles[c] EXCEPT !.late = TRUE])
  BY <1>1 DEF CycleRecord
<1>5. PICK c \in Cycle : \E cycle : Says(c, cycle) /\ SetCycle(c, cycle)
  <2> HIDE DEF Says
  <2>1. ASSUME NEW c \in Cycle,
               PrOpens(c) \/ PrCloses(c) \/ PrMerges(c) \/ DeploySucceeds(c) \/ CycleLate(c)
        PROVE  \E cycle : Says(c, cycle) /\ SetCycle(c, cycle)
    <3>1. CASE PrOpens(c) \/ PrCloses(c) \/ PrMerges(c)
      <4>1. PICK pr \in {"pending", "closed", "merged"} : SetPr(c, pr)
        BY <3>1 DEF PrOpens, PrCloses, PrMerges
      <4>2. cycles[c].state \in {"ci", "merging"} \/ (At(c, "fixing") /\ Fix(c).fix = "open")
        BY <3>1, Zenon DEF PrOpens, PrCloses, PrMerges
      <4> QED  BY <1>2, <4>1, <4>2, Zenon DEF SetPr
    <3>2. CASE DeploySucceeds(c)
      BY <1>3, <3>2, Zenon DEF DeploySucceeds
    <3>3. CASE CycleLate(c)
      BY <1>4, <3>3, Zenon DEF CycleLate
    <3> QED  BY <2>1, <3>1, <3>2, <3>3
  <2>2. ASSUME NEW c \in Cycle, NEW result \in {"pending", "red", "green"}, PrChecked(c, result)
        PROVE  \E cycle : Says(c, cycle) /\ SetCycle(c, cycle)
    <3>1. SetPr(c, result) /\ cycles[c].state \in {"ci", "merging"}
      BY <2>2 DEF PrChecked
    <3>2. result \in {"pending", "red", "green", "closed", "merged"}
      OBVIOUS
    <3>3. Says(c, [cycles[c] EXCEPT !.pr = result])
      BY <1>2, <3>1, <3>2
    <3> QED  BY <3>1, <3>3, Zenon DEF SetPr
  <2> QED  BY <2>1, <2>2, Zenon DEF CycleActs
<1> PICK cycle : Says(c, cycle) /\ SetCycle(c, cycle)
  BY <1>5
<1>6. cycles' = [cycles EXCEPT ![c] = cycle] /\ UNCHANGED <<runs, rows, used, outside>>
  BY DEF SetCycle
<1>7. TypeOK'
  BY <1>6 DEF TypeOK, outside
<1>8. ASSUME NEW b \in Cycle
      PROVE  /\ cycles'[b] = [cycles[b] EXCEPT !.pr = cycles'[b].pr, !.late = cycles'[b].late,
                                               !.deployed = cycles'[b].deployed]
             /\ cycles[b].pr = "none" => \/ cycles'[b].pr = "none"
                                         \/ cycles[b].state \in {"ci", "merging"}
                                         \/ (At(b, "fixing") /\ Fix(b).fix = "open")
  <2>1. CASE b = c
    <3>1. cycles'[b] = cycle
      BY <1>6, <2>1 DEF TypeOK
    <3> QED  BY <2>1, <3>1
  <2>2. CASE b # c
    <3>1. cycles'[b] = cycles[b]
      BY <1>6, <2>2 DEF TypeOK
    <3> QED  BY <1>1, <3>1 DEF CycleRecord
  <2> QED  BY <2>1, <2>2
<1> QED  BY <1>6, <1>7, <1>8

\* Every step keeps the types.
LEMMA TypeStep == ASSUME WatchInv, Next PROVE TypeOK'
<1>1. TypeOK
  BY DEF WatchInv
<1>2. CASE watchdogTick
  BY <1>2, DropsType, StepCycleType, Zenon DEF watchdogTick
<1>3. CASE Surroundings
  <2>1. ASSUME Restart  PROVE TypeOK'
    <3>1. used' \in [runs: 1..MaxRun, cycles: 0..MaxCycle, rows: 0..MaxRow, restarts: 0..MaxRestarts]
      <4>1. used.restarts < MaxRestarts /\ used.restarts \in 0 .. MaxRestarts /\ MaxRestarts \in Nat
        BY <1>1, <2>1, BoundAssumption DEF Restart, TypeOK, BoundAssumption
      <4>2. used.restarts + 1 \in 0 .. MaxRestarts
        BY <4>1
      <4> QED  BY <1>1, <2>1, <4>2 DEF Restart, TypeOK
    <3> QED  BY <1>1, <2>1, <3>1, TopType DEF Restart, TypeOK
  <2> QED  BY <1>1, <1>3, <2>1, SurroundingsSplit, RowActsType, RunActsType, CycleActsSay, Zenon
<1> QED  BY <1>2, <1>3 DEF Next

-----------------------------------------------------------------------------
(* What a step does to the cycles: nothing that counts for their chain, or  *)
(* one is opened, or one is moved.                                         *)

KeepsPlace(c) ==
  /\ cycles'[c].state = cycles[c].state /\ cycles'[c].root = cycles[c].root
  /\ cycles'[c].run = cycles[c].run /\ cycles'[c].resume = cycles[c].resume
  /\ cycles'[c].resumed = cycles[c].resumed

NonePlaced == used'.cycles = used.cycles /\ \A c \in Cycle : KeepsPlace(c)

CycleOpened(c) ==
  /\ c = used.cycles + 1 /\ used'.cycles = c /\ drops' = drops /\ rows' = rows
  /\ loop.drop \in Run /\ drops[loop.drop] \in Run
  /\ cycles'[c].root = drops[loop.drop] /\ cycles'[c].run = loop.drop
  /\ cycles'[c].resume = None /\ cycles'[c].resumed = None /\ cycles'[c].fix = None
  /\ cycles'[c].pr = "none"
  /\ \/ cycles'[c].state = "exhausted"
     \/ /\ cycles'[c].state = "fixing"
        /\ MovingOf(drops[loop.drop]) = {} /\ Spent(drops[loop.drop]) < Limit
  /\ \A b \in Cycle \ {c} : cycles'[b] = cycles[b]

CycleMoved(c) ==
  /\ used'.cycles = used.cycles
  /\ cycles[c].state \notin {"none", "exhausted"} /\ cycles'[c].state \notin {"none", "exhausted"}
  /\ cycles'[c].state \in Moving => cycles[c].state \in Moving
  /\ cycles'[c].root = cycles[c].root /\ cycles'[c].run = cycles[c].run
  /\ \A b \in Cycle \ {c} : cycles'[b] = cycles[b]

\* A drop is recorded once and for all.
DropsStay == \A r \in Run : drops[r] # None => drops'[r] # None

\* A row put in the queue is no cycle.
LEMMA NewRowNoCycle ==
  ASSUME TypeOK, NEW kind, NEW source, NewRow(kind, source)
  PROVE  used'.cycles = used.cycles
BY DEF TypeOK, NewRow

\* Most steps of the loop leave the cycles as they are.
LEMMA LoopKeepsCycles ==
  ASSUME WatchInv,
         \/ \E r \in Run : ReadRun(r)
         \/ TickBegins \/ RecordDrop \/ QueueFresh \/ NoCycleNow \/ CyclesBegin \/ CyclesEnd
         \/ \E c \in Cycle : StepStartedOver(c) \/ StepAdopted(c) \/ StepOn(c) \/ StepPutDown(c)
                            \/ StepSpoiled(c) \/ StepDeployed(c) \/ StepFollow(c) \/ StepNothing(c)
         \/ Withdraw \/ QueueResume
  PROVE  cycles' = cycles /\ used'.cycles = used.cycles /\ DropsStay
<1>1. TypeOK
  BY DEF WatchInv
<1>2. CASE RecordDrop
  <2>1. RootOf(loop.drop) # None
    BY <1>2, RootIsRun, Numbers DEF RecordDrop, WatchInv, LoopHolds
  <2> QED  BY <1>1, <1>2, <2>1 DEF RecordDrop, TypeOK, DropsStay
<1>3. CASE QueueFresh
  BY <1>1, <1>3, NewRowNoCycle DEF QueueFresh, DropsStay
<1>4. CASE QueueResume
  BY <1>1, <1>4, NewRowNoCycle DEF QueueResume, DropsStay
<1>5. ASSUME NEW c \in Cycle,
             \/ StepStartedOver(c) \/ StepAdopted(c) \/ StepOn(c) \/ StepPutDown(c)
             \/ StepSpoiled(c) \/ StepDeployed(c) \/ StepFollow(c) \/ StepNothing(c)
      PROVE  cycles' = cycles /\ used' = used /\ drops' = drops
  BY <1>1, <1>5, StepTurns DEF Turn, StepNothing
<1>6. CASE \E c \in Cycle : StepStartedOver(c) \/ StepAdopted(c) \/ StepOn(c) \/ StepPutDown(c)
                            \/ StepSpoiled(c) \/ StepDeployed(c) \/ StepFollow(c) \/ StepNothing(c)
  BY <1>5, <1>6 DEF DropsStay
<1>7. CASE \E r \in Run : ReadRun(r)
  BY <1>7 DEF ReadRun, DropsStay
<1>8. CASE TickBegins \/ NoCycleNow \/ CyclesBegin \/ CyclesEnd \/ Withdraw
  BY <1>8 DEF TickBegins, NoCycleNow, CyclesBegin, CyclesEnd, Withdraw, DropsStay
<1> QED  BY <1>2, <1>3, <1>4, <1>6, <1>7, <1>8

\* So do the runs, the rows and a restart.
LEMMA OthersKeepCycles ==
  ASSUME WatchInv, RowActs \/ RunActs \/ Restart
  PROVE  cycles' = cycles /\ used'.cycles = used.cycles /\ drops' = drops
<1>1. TypeOK
  BY DEF WatchInv
<1>2. CASE RowActs
  BY <1>2 DEF RowActs, RowStarts, RowCloses, FixStarts, WithdrawRow, RowLate, FixEnds, outside
<1>3. CASE Restart
  BY <1>1, <1>3 DEF Restart, TypeOK
<1>4. CASE RunActs
  <2>1. ASSUME NEW of, NEW i, RunStarts(of, i)
        PROVE  cycles' = cycles /\ used'.cycles = used.cycles /\ drops' = drops
    BY <1>1, <2>1 DEF RunStarts, TypeOK, outside
  <2> QED  BY <1>4, <2>1 DEF RunActs, WatchWaiting, RunSays, StartElsewhere, RunEnds, ResumeStarts, outside
<1> QED  BY <1>2, <1>3, <1>4

\* startCycle inserts one row, for a drop whose chain has none under way.
LEMMA CycleOpens ==
  ASSUME WatchInv, OpenCycle \/ Exhausted
  PROVE  used.cycles + 1 \in Cycle /\ CycleOpened(used.cycles + 1)
<1> DEFINE c == used.cycles + 1
           root == drops[loop.drop]
<1>1. TypeOK /\ LoopHolds
  BY DEF WatchInv
<1>2. loop.drop \in Run /\ root \in Run /\ used.cycles < MaxCycle
  BY <1>1 DEF OpenCycle, Exhausted, LoopHolds, TypeOK, MayBegin
<1>3. PICK state \in {"fixing", "exhausted"} : NewCycle(state, root)
        /\ (state = "fixing" => MovingOf(root) = {} /\ Spent(root) < Limit)
  BY DEF OpenCycle, Exhausted, MayBegin, WithinLimit
<1>4. c \in Cycle /\ used'.cycles = c
  BY <1>1, <1>2, <1>3, NewCycleType DEF NewCycle, TypeOK, WatchInv
<1>5. cycles'[c] = [NoCycle EXCEPT !.state = state, !.root = root, !.run = loop.drop,
                                   !.n = Spent(root) + 1, !.since = used.runs]
  BY <1>1, <1>3, <1>4 DEF NewCycle, TypeOK
<1>6. \A b \in Cycle \ {c} : cycles'[b] = cycles[b]
  BY <1>1, <1>3 DEF NewCycle, TypeOK
<1>7. /\ cycles'[c].state = state /\ cycles'[c].root = root /\ cycles'[c].run = loop.drop
      /\ cycles'[c].resume = None /\ cycles'[c].resumed = None /\ cycles'[c].fix = None
      /\ cycles'[c].pr = "none"
  BY <1>5 DEF NoCycle
<1>8. drops' = drops /\ rows' = rows
  BY DEF OpenCycle, Exhausted
<1> QED  BY <1>2, <1>3, <1>4, <1>6, <1>7, <1>8 DEF CycleOpened

\* wdMove, a fix that could not be queued and the end of a parent move one cycle.
LEMMA CycleMoves ==
  ASSUME WatchInv, Move \/ QueueFix \/ MoveParent
  PROVE  /\ NonePlaced \/ \E c \in Cycle : CycleMoved(c)
         /\ DropsStay
<1>1. TypeOK /\ LoopHolds
  BY DEF WatchInv
<1>2. CASE Move
  <2> DEFINE c == loop.cycle
  <2>1. c \in Cycle /\ cycles[c] \in CycleRecord /\ cycles[c].state \in Moving
        /\ loop.to \in (Moving \cup Over) \ {"exhausted"} /\ used' = used /\ drops' = drops
    BY <1>1, <1>2 DEF Move, LoopHolds, TypeOK, LoopRecord
  <2>2. cycles'[c].state = loop.to /\ cycles'[c].root = cycles[c].root
        /\ cycles'[c].run = cycles[c].run
    BY <1>1, <1>2, <2>1 DEF Move, TypeOK, CycleRecord
  <2>3. \A b \in Cycle \ {c} : cycles'[b] = cycles[b]
    BY <1>1, <1>2 DEF Move, TypeOK
  <2>4. "none" \notin Moving \cup Over /\ "exhausted" \notin Moving
    BY DEF Moving, Building, Over
  <2>5. CycleMoved(c)
    BY <2>1, <2>2, <2>3, <2>4 DEF CycleMoved
  <2> QED  BY <2>1, <2>5 DEF DropsStay
<1>3. CASE QueueFix
  <2> DEFINE c == loop.cycle
  <2>1. c \in Cycle /\ cycles[c] \in CycleRecord /\ cycles[c].state = "fixing" /\ drops' = drops
    BY <1>1, <1>3 DEF QueueFix, LoopHolds, TypeOK, At
  <2>2. CASE RoomForRow
    <3>1. used'.cycles = used.cycles /\ cycles' = [cycles EXCEPT ![c].fix = used.rows + 1]
      BY <1>1, <1>3, <2>2, NewRowNoCycle DEF QueueFix
    <3>2. NonePlaced
      BY <1>1, <3>1 DEF NonePlaced, KeepsPlace, TypeOK, CycleRecord
    <3> QED  BY <2>1, <3>2 DEF DropsStay
  <2>3. CASE ~RoomForRow
    <3>1. used' = used /\ cycles' = [cycles EXCEPT ![c].state = "failed"]
      BY <1>3, <2>3 DEF QueueFix
    <3>2. CycleMoved(c)
      BY <1>1, <2>1, <3>1 DEF CycleMoved, TypeOK, CycleRecord, Moving, Building
    <3> QED  BY <2>1, <3>2 DEF DropsStay
  <2> QED  BY <2>2, <2>3
<1>4. CASE MoveParent
  <2> DEFINE c == Parent(loop.drop)
  <2>1. used' = used /\ drops' = drops /\ cycles' = [cycles EXCEPT ![c].state = "dropped"]
        /\ loop.drop \in Run
    BY <1>1, <1>4 DEF MoveParent, LoopHolds
  <2>2. CASE c = None
    <3>1. c \notin Cycle
      BY <2>2, Numbers
    <3>2. NonePlaced
      BY <1>1, <2>1, <3>1 DEF NonePlaced, KeepsPlace, TypeOK
    <3> QED  BY <2>1, <3>2 DEF DropsStay
  <2>3. CASE c # None
    <3>1. c \in Cycle /\ cycles[c].state \notin {"none", "exhausted"}
      BY <2>1, <2>3, ParentFollowed
    <3>2. CycleMoved(c)
      BY <1>1, <2>1, <3>1 DEF CycleMoved, TypeOK, CycleRecord, Moving, Building
    <3> QED  BY <2>1, <3>1, <3>2 DEF DropsStay
  <2> QED  BY <2>2, <2>3
<1> QED  BY <1>2, <1>3, <1>4

\* The three ways of a step.
LEMMA CycleSteps ==
  ASSUME WatchInv, Next
  PROVE  /\ NonePlaced \/ (\E c \in Cycle : CycleOpened(c)) \/ (\E c \in Cycle : CycleMoved(c))
         /\ DropsStay
<1>1. TypeOK
  BY DEF WatchInv
<1>2. ASSUME cycles' = cycles, used'.cycles = used.cycles  PROVE NonePlaced
  BY <1>2 DEF NonePlaced, KeepsPlace
<1>3. ASSUME drops' = drops  PROVE DropsStay
  BY <1>3 DEF DropsStay
<1>4. ASSUME OpenCycle \/ Exhausted
      PROVE  (\E c \in Cycle : CycleOpened(c)) /\ DropsStay
  BY <1>3, <1>4, CycleOpens DEF CycleOpened
<1>5. ASSUME CycleActs  PROVE NonePlaced /\ DropsStay
  <2>1. used' = used /\ drops' = drops
    BY <1>1, <1>5, CycleActsSay DEF outside
  <2>2. ASSUME NEW c \in Cycle  PROVE KeepsPlace(c)
    <3>1. cycles'[c] = [cycles[c] EXCEPT !.pr = cycles'[c].pr, !.late = cycles'[c].late,
                                         !.deployed = cycles'[c].deployed]
          /\ cycles[c] \in CycleRecord
      BY <1>1, <1>5, CycleActsSay DEF TypeOK
    <3> QED  BY <3>1 DEF KeepsPlace, CycleRecord
  <2> QED  BY <2>1, <2>2, <1>3 DEF NonePlaced
<1>6. ASSUME RowActs \/ RunActs \/ Restart  PROVE NonePlaced /\ DropsStay
  BY <1>2, <1>3, <1>6, OthersKeepCycles
<1>7. CASE Surroundings
  BY <1>5, <1>6, <1>7, SurroundingsSplit
<1>8. CASE watchdogTick
  <2>1. CASE Move \/ QueueFix \/ MoveParent
    BY <2>1, CycleMoves
  <2>2. CASE OpenCycle \/ Exhausted
    BY <2>2, <1>4
  <2>3. CASE \/ \E r \in Run : ReadRun(r)
             \/ TickBegins \/ RecordDrop \/ QueueFresh \/ NoCycleNow \/ CyclesBegin \/ CyclesEnd
             \/ \E c \in Cycle :
                  \/ StepStartedOver(c) \/ StepAdopted(c) \/ StepOn(c) \/ StepPutDown(c)
                  \/ StepSpoiled(c) \/ StepDeployed(c) \/ StepFollow(c) \/ StepNothing(c)
             \/ Withdraw \/ QueueResume
    BY <1>2, <2>3, LoopKeepsCycles
  <2> QED  BY <1>8, <2>1, <2>2, <2>3, Zenon DEF watchdogTick, StepCycle
<1> QED  BY <1>7, <1>8 DEF Next

-----------------------------------------------------------------------------
(* What the three ways do to a chain.                                      *)

\* The cycles of a chain that count as laps.
Laps(r) == {c \in CyclesOf(r) : cycles[c].state # "exhausted"}

\* What a chain has spent is the number of its laps.
LEMMA SpentLaps == ASSUME NEW r PROVE Spent(r) = Cardinality(Laps(r)) /\ Spent(r)' = Cardinality(Laps(r)')
BY DEF Spent, Laps

\* A step that opens no cycle and moves none over an end keeps the laps.
LEMMA LapsKept ==
  ASSUME NonePlaced, NEW r
  PROVE  Laps(r)' = Laps(r) /\ MovingOf(r)' = MovingOf(r)
BY DEF NonePlaced, KeepsPlace, Laps, CyclesOf, MovingOf

\* A cycle that moves stays one of its chain.
LEMMA LapsOfMoved ==
  ASSUME NEW c \in Cycle, CycleMoved(c), NEW r
  PROVE  /\ Laps(r)' = Laps(r)
         /\ MovingOf(r)' \subseteq MovingOf(r)
         /\ r # cycles[c].root => MovingOf(r)' = MovingOf(r)
         /\ cycles'[c].state \in Moving => MovingOf(r)' = MovingOf(r)
<1>1. \A b \in Cycle :
        /\ cycles'[b].root = cycles[b].root
        /\ cycles'[b].state = "none" <=> cycles[b].state = "none"
        /\ cycles'[b].state = "exhausted" <=> cycles[b].state = "exhausted"
        /\ cycles'[b].state \in Moving => cycles[b].state \in Moving
        /\ b # c => cycles'[b].state = cycles[b].state
  BY DEF CycleMoved
<1>2. \A b \in Cycle : b \in Laps(r)' <=> b \in Laps(r)
  BY <1>1 DEF Laps, CyclesOf
<1>3. \A b \in Cycle :
        /\ b \in MovingOf(r)' => b \in MovingOf(r)
        /\ r # cycles[c].root => (b \in MovingOf(r)' <=> b \in MovingOf(r))
        /\ cycles'[c].state \in Moving => (b \in MovingOf(r)' <=> b \in MovingOf(r))
  BY <1>1 DEF MovingOf, CyclesOf, CycleMoved
<1>4. Laps(r) \subseteq Cycle /\ Laps(r)' \subseteq Cycle
      /\ MovingOf(r) \subseteq Cycle /\ MovingOf(r)' \subseteq Cycle
  BY DEF Laps, MovingOf, CyclesOf
<1> QED  BY <1>2, <1>3, <1>4

\* A cycle opened is its chain's next, and the only one under way.
LEMMA LapsOfOpened ==
  ASSUME WatchInv, NEW c \in Cycle, CycleOpened(c), NEW r
  PROVE  /\ r # drops[loop.drop] \/ cycles'[c].state = "exhausted" =>
              Laps(r)' = Laps(r) /\ MovingOf(r)' = MovingOf(r)
         /\ r = drops[loop.drop] /\ cycles'[c].state = "fixing" =>
              Laps(r)' = Laps(r) \cup {c} /\ c \notin Laps(r) /\ MovingOf(r)' = {c}
<1> DEFINE root == drops[loop.drop]
<1>1. cycles[c].state = "none"
  <2>1. used.cycles \in Nat /\ c = used.cycles + 1
    BY BoundAssumption DEF WatchInv, TypeOK, CycleOpened, BoundAssumption
  <2> QED  BY <2>1 DEF WatchInv, CyclesNumbered
<1>2. /\ cycles'[c].root = root /\ cycles'[c].state \in {"fixing", "exhausted"}
      /\ \A b \in Cycle \ {c} : cycles'[b] = cycles[b]
      /\ cycles'[c].state = "fixing" => MovingOf(root) = {}
  BY DEF CycleOpened
<1>3. "fixing" \in Moving /\ "none" \notin Moving /\ "exhausted" \notin Moving
  BY DEF Moving, Building
<1>4. ASSUME NEW b \in Cycle \ {c}
      PROVE  (b \in Laps(r)' <=> b \in Laps(r)) /\ (b \in MovingOf(r)' <=> b \in MovingOf(r))
  BY <1>2, <1>4 DEF Laps, MovingOf, CyclesOf
<1>5. c \notin Laps(r) /\ c \notin MovingOf(r)
  BY <1>1 DEF Laps, MovingOf, CyclesOf
<1>6. /\ c \in Laps(r)' <=> r = root /\ cycles'[c].state = "fixing"
      /\ c \in MovingOf(r)' <=> r = root /\ cycles'[c].state = "fixing"
  BY <1>2, <1>3 DEF Laps, MovingOf, CyclesOf
<1>7. Laps(r) \subseteq Cycle /\ Laps(r)' \subseteq Cycle
      /\ MovingOf(r) \subseteq Cycle /\ MovingOf(r)' \subseteq Cycle
  BY DEF Laps, MovingOf, CyclesOf
<1> QED  BY <1>2, <1>4, <1>5, <1>6, <1>7

\* So what a chain has spent grows by one with a cycle opened for it.
LEMMA SpentOfOpened ==
  ASSUME WatchInv, NEW c \in Cycle, CycleOpened(c), cycles'[c].state = "fixing",
         NEW r, r = drops[loop.drop]
  PROVE  Spent(r)' = Spent(r) + 1 /\ Spent(r) < Limit
<1>1. Laps(r)' = Laps(r) \cup {c} /\ c \notin Laps(r)
  BY LapsOfOpened
<1>2. IsFiniteSet(Laps(r))
  BY SpentIsNat DEF Laps
<1>3. Cardinality(Laps(r) \cup {c}) = Cardinality(Laps(r)) + 1
  BY <1>1, <1>2, FS_AddElement
<1>4. Spent(r) < Limit
  BY DEF CycleOpened
<1> QED  BY <1>1, <1>3, <1>4, SpentLaps

\* The cycles stay as the tables number and follow them.
LEMMA CyclesKept ==
  ASSUME WatchInv, Next
  PROVE  CyclesNumbered' /\ CyclesOfDrops' /\ NothingFollowed'
<1>1. CyclesNumbered /\ CyclesOfDrops /\ NothingFollowed /\ DropsStay /\ used.cycles \in Nat
  BY CycleSteps, BoundAssumption DEF WatchInv, TypeOK, BoundAssumption
<1> DEFINE Kept(b) ==
      /\ cycles'[b].state = "none" <=> b > used'.cycles
      /\ cycles'[b].state # "none" =>
           cycles'[b].root \in Run /\ cycles'[b].run \in Run /\ drops'[cycles'[b].run] # None
      /\ cycles'[b].state \in {"none", "exhausted"} =>
           cycles'[b].resume = None /\ cycles'[b].resumed = None
<1>2. SUFFICES ASSUME NEW b \in Cycle  PROVE Kept(b)
  BY DEF CyclesNumbered, CyclesOfDrops, NothingFollowed
<1>3. b \in Nat
  BY Numbers
<1>4. CASE NonePlaced
  BY <1>1, <1>4 DEF NonePlaced, KeepsPlace, CyclesNumbered, CyclesOfDrops, NothingFollowed, DropsStay
<1>5. ASSUME NEW c \in Cycle, CycleOpened(c)  PROVE Kept(b)
  <2>1. CASE b = c
    <3>1. used'.cycles = b /\ ~(b > used'.cycles)
      BY <1>3, <1>5, <2>1 DEF CycleOpened
    <3>2. cycles'[b].state \in {"fixing", "exhausted"}
          /\ cycles'[b].resume = None /\ cycles'[b].resumed = None
      BY <1>5, <2>1 DEF CycleOpened
    <3>3. /\ cycles'[b].root = drops[loop.drop] /\ cycles'[b].run = loop.drop
          /\ loop.drop \in Run /\ drops[loop.drop] \in Run /\ drops' = drops
      BY <1>5, <2>1 DEF CycleOpened
    <3>4. cycles'[b].root \in Run /\ cycles'[b].run \in Run /\ drops'[cycles'[b].run] # None
      BY <3>3, Numbers
    <3> QED  BY <3>1, <3>2, <3>4
  <2>2. CASE b # c
    <3>1. cycles'[b] = cycles[b] /\ (b > used'.cycles <=> b > used.cycles)
      BY <1>1, <1>3, <1>5, <2>2 DEF CycleOpened
    <3> QED  BY <1>1, <3>1 DEF CyclesNumbered, CyclesOfDrops, NothingFollowed, DropsStay
  <2> QED  BY <2>1, <2>2
<1>6. ASSUME NEW c \in Cycle, CycleMoved(c)  PROVE Kept(b)
  <2>1. CASE b = c
    BY <1>1, <1>6, <2>1 DEF CycleMoved, CyclesNumbered, CyclesOfDrops, NothingFollowed, DropsStay
  <2>2. CASE b # c
    BY <1>1, <1>6, <2>2 DEF CycleMoved, CyclesNumbered, CyclesOfDrops, NothingFollowed, DropsStay
  <2> QED  BY <2>1, <2>2
<1> QED  BY <1>4, <1>5, <1>6, CycleSteps

\* A chain never has two cycles under way, nor more laps than it may.
LEMMA ChainsKept ==
  ASSUME WatchInv, Next
  PROVE  OneCyclePerChain' /\ WithinLaps'
<1> DEFINE Single(r) == \A b, c \in MovingOf(r) : b = c
<1>1. \A r \in Run : Single(r)
  <2>1. \A r : \A b \in MovingOf(r) : b \in Cycle /\ cycles[b].state \in Moving /\ cycles[b].root = r
    BY DEF MovingOf, CyclesOf
  <2> QED  BY <2>1 DEF WatchInv, OneCyclePerChain
<1>2. ASSUME NEW r \in Run  PROVE Single(r)' /\ Spent(r)' <= Limit
  <2>1. Spent(r) <= Limit /\ Spent(r) \in Nat /\ Limit \in Nat
    BY SpentIsNat, BoundAssumption DEF WatchInv, WithinLaps, BoundAssumption
  <2>2. ASSUME Laps(r)' = Laps(r)  PROVE Spent(r)' <= Limit
    BY <2>1, <2>2, SpentLaps
  <2>3. CASE NonePlaced
    BY <1>1, <2>2, <2>3, LapsKept
  <2>4. ASSUME NEW c \in Cycle, CycleMoved(c)  PROVE Single(r)' /\ Spent(r)' <= Limit
    <3>1. MovingOf(r)' \subseteq MovingOf(r) /\ Laps(r)' = Laps(r)
      BY <2>4, LapsOfMoved
    <3> QED  BY <1>1, <2>2, <3>1
  <2>5. ASSUME NEW c \in Cycle, CycleOpened(c)  PROVE Single(r)' /\ Spent(r)' <= Limit
    <3>1. CASE r = drops[loop.drop] /\ cycles'[c].state = "fixing"
      <4>1. MovingOf(r)' = {c}
        BY <2>5, <3>1, LapsOfOpened
      <4>2. Spent(r)' = Spent(r) + 1 /\ Spent(r) < Limit
        BY <2>5, <3>1, SpentOfOpened
      <4> QED  BY <2>1, <4>1, <4>2
    <3>2. CASE r # drops[loop.drop] \/ cycles'[c].state = "exhausted"
      <4>1. Laps(r)' = Laps(r) /\ MovingOf(r)' = MovingOf(r)
        BY <2>5, <3>2, LapsOfOpened
      <4> QED  BY <1>1, <2>2, <4>1
    <3> QED  BY <2>5, <3>1, <3>2 DEF CycleOpened
  <2> QED  BY <2>3, <2>4, <2>5, CycleSteps
<1>3. OneCyclePerChain'
  <2>1. SUFFICES ASSUME NEW b \in Cycle, NEW c \in Cycle, cycles'[b].state \in Moving,
                        cycles'[c].state \in Moving, cycles'[b].root = cycles'[c].root
                 PROVE  b = c
    BY DEF OneCyclePerChain
  <2>2. PICK r : r = cycles'[b].root
    OBVIOUS
  <2>3. "none" \notin Moving
    BY DEF Moving, Building
  <2>4. b \in MovingOf(r)' /\ c \in MovingOf(r)'
    BY <2>1, <2>2, <2>3 DEF MovingOf, CyclesOf
  <2>5. r \in Run
    BY <2>1, <2>2, <2>3, CyclesKept DEF CyclesOfDrops
  <2> QED  BY <1>2, <2>4, <2>5
<1>4. WithinLaps'
  BY <1>2 DEF WithinLaps
<1> QED  BY <1>3, <1>4

\* Every step of the watchdog is one of FixChain's or none.
LEMMA ChainStep ==
  ASSUME WatchInv, Next
  PROVE  Chain!Next \/ UNCHANGED Chain!vars
<1> DEFINE taken == [r \in Run |-> Spent(r)]
           moving == [r \in Run |-> MovingOf(r) # {}]
<1>1. ASSUME \A r \in Run : Laps(r)' = Laps(r) /\ MovingOf(r)' = MovingOf(r)
      PROVE  UNCHANGED Chain!vars
  <2>1. \A r \in Run : Spent(r)' = Spent(r) /\ (MovingOf(r) # {})' = (MovingOf(r) # {})
    BY <1>1, SpentLaps
  <2>2. taken' = taken
    BY <2>1
  <2>3. moving' = moving
    BY <2>1, Zenon
  <2> QED  BY <2>2, <2>3 DEF Chain!vars
<1>2. CASE NonePlaced
  BY <1>1, <1>2, LapsKept
<1>3. ASSUME NEW c \in Cycle, CycleOpened(c)  PROVE Chain!Next \/ UNCHANGED Chain!vars
  <2>1. PICK root \in Run : root = drops[loop.drop]
    BY <1>3 DEF CycleOpened
  <2>2. CASE cycles'[c].state = "exhausted"
    BY <1>1, <1>3, <2>2, LapsOfOpened
  <2>3. CASE cycles'[c].state = "fixing"
    <3>1. Spent(root)' = Spent(root) + 1 /\ Spent(root) < Limit
      BY <1>3, <2>1, <2>3, SpentOfOpened
    <3>2. MovingOf(root) = {} /\ MovingOf(root)' # {}
      BY <1>3, <2>1, <2>3, LapsOfOpened DEF CycleOpened
    <3>3. \A r \in Run \ {root} : Spent(r)' = Spent(r) /\ MovingOf(r)' = MovingOf(r)
      BY <1>3, <2>1, LapsOfOpened, SpentLaps
    <3>4. taken' = [taken EXCEPT ![root] = @ + 1] /\ taken[root] < Limit
      BY <3>1, <3>3
    <3>5. moving' = [moving EXCEPT ![root] = TRUE] /\ ~moving[root]
      BY <3>2, <3>3, Zenon
    <3>6. Chain!Begin(root)
      BY <3>4, <3>5, Zenon DEF Chain!Begin
    <3> QED  BY <3>6 DEF Chain!Next
  <2> QED  BY <1>3, <2>2, <2>3 DEF CycleOpened
<1>4. ASSUME NEW c \in Cycle, CycleMoved(c)  PROVE Chain!Next \/ UNCHANGED Chain!vars
  <2>1. CASE cycles[c].state \notin Moving \/ cycles'[c].state \in Moving
    <3>1. ASSUME NEW r \in Run  PROVE MovingOf(r)' = MovingOf(r)
      <4>1. CASE cycles'[c].state \in Moving
        BY <1>4, <4>1, LapsOfMoved
      <4>2. CASE cycles[c].state \notin Moving
        <5>1. \A b \in Cycle : b \in MovingOf(r)' <=> b \in MovingOf(r)
          BY <1>4, <4>2 DEF CycleMoved, MovingOf, CyclesOf
        <5>2. MovingOf(r) \subseteq Cycle /\ MovingOf(r)' \subseteq Cycle
          BY DEF MovingOf, CyclesOf
        <5> QED  BY <5>1, <5>2
      <4> QED  BY <2>1, <4>1, <4>2
    <3> QED  BY <1>1, <1>4, <3>1, LapsOfMoved
  <2>2. CASE cycles[c].state \in Moving /\ cycles'[c].state \notin Moving
    <3>1. PICK root \in Run : root = cycles[c].root
      BY <1>4 DEF CycleMoved, WatchInv, CyclesOfDrops
    <3>2. c \in MovingOf(root)
      BY <1>4, <2>2, <3>1 DEF CycleMoved, MovingOf, CyclesOf
    <3>3. MovingOf(root)' = {}
      <4>1. SUFFICES ASSUME NEW b \in MovingOf(root)'  PROVE FALSE
        OBVIOUS
      <4>2. b \in Cycle /\ cycles'[b].state \in Moving /\ cycles'[b].root = root
        BY DEF MovingOf, CyclesOf
      <4>3. b # c
        BY <2>2, <4>2
      <4>4. cycles[b].state \in Moving /\ cycles[b].root = root
        BY <1>4, <4>2, <4>3 DEF CycleMoved
      <4> QED  BY <2>2, <3>1, <4>2, <4>3, <4>4 DEF WatchInv, OneCyclePerChain
    <3>4. \A r \in Run : Spent(r)' = Spent(r)
      BY <1>4, LapsOfMoved, SpentLaps
    <3>5. \A r \in Run \ {root} : MovingOf(r)' = MovingOf(r)
      BY <1>4, <3>1, LapsOfMoved
    <3>6. taken' = taken
      BY <3>4
    <3>7. moving' = [moving EXCEPT ![root] = FALSE] /\ moving[root]
      BY <3>2, <3>3, <3>5, Zenon
    <3>8. Chain!End(root)
      BY <3>6, <3>7, Zenon DEF Chain!End
    <3> QED  BY <3>8 DEF Chain!Next
  <2> QED  BY <2>1, <2>2
<1> QED  BY <1>2, <1>3, <1>4, CycleSteps

-----------------------------------------------------------------------------
(* The fix of a cycle: its row, and what the loop is about to do with it.  *)

\* The steps that write a cycle, and all the others.
LEMMA StepWays ==
  ASSUME WatchInv, Next
  PROVE  \/ cycles' = cycles \/ CycleActs \/ Move \/ QueueFix \/ MoveParent
         \/ loop' # loop /\ \E c \in Cycle : CycleOpened(c)
<1>1. CASE Surroundings
  BY <1>1, SurroundingsSplit, OthersKeepCycles
<1>2. CASE watchdogTick
  <2>1. CASE OpenCycle \/ Exhausted
    <3>1. loop \in LoopRecord
      BY DEF WatchInv, TypeOK
    <3>2. loop' # loop
      <4>1. CASE OpenCycle
        <5>1. loop.pc = "open" /\ loop'.pc = "fix"
          BY <3>1, <4>1 DEF OpenCycle, LoopRecord
        <5> QED  BY <5>1
      <4>2. CASE Exhausted
        <5>1. loop.pc = "open" /\ loop'.pc = loop.back
          BY <3>1, <4>2 DEF Exhausted, GoOn, TopOfTick, LoopRecord
        <5>2. loop.back # "open"
          BY <3>1 DEF LoopRecord
        <5> QED  BY <5>1, <5>2
      <4> QED  BY <2>1, <4>1, <4>2
    <3> QED  BY <2>1, <3>2, CycleOpens
  <2>2. CASE \/ \E r \in Run : ReadRun(r)
             \/ TickBegins \/ RecordDrop \/ QueueFresh \/ NoCycleNow \/ CyclesBegin \/ CyclesEnd
             \/ \E c \in Cycle :
                  \/ StepStartedOver(c) \/ StepAdopted(c) \/ StepOn(c) \/ StepPutDown(c)
                  \/ StepSpoiled(c) \/ StepDeployed(c) \/ StepFollow(c) \/ StepNothing(c)
             \/ Withdraw \/ QueueResume
    BY <2>2, LoopKeepsCycles
  <2> QED  BY <1>2, <2>1, <2>2, Zenon DEF watchdogTick, StepCycle
<1> QED  BY <1>1, <1>2 DEF Next

\* A row that is in the queue never goes back to waiting, nor loses its fix.
RowsAge ==
  /\ used'.rows \in Nat /\ used.rows <= used'.rows
  /\ \A i \in Row : i <= used.rows /\ rows'[i].state = "waiting" => rows[i].state = "waiting"
  /\ \A i \in Row : rows'[i].fix # "none" => rows'[i].state # "waiting"

\* A row put in the queue is a new one.
LEMMA NewRowAges ==
  ASSUME WatchInv, NEW kind, NEW source, NewRow(kind, source)
  PROVE  RowsAge /\ used'.rows = used.rows + 1
<1>1. used.rows \in Nat /\ used'.rows = used.rows + 1
  BY BoundAssumption DEF WatchInv, TypeOK, NewRow, BoundAssumption
<1>2. \A i \in Row : i <= used.rows => rows'[i] = rows[i]
  <2>1. \A i \in Row : i <= used.rows => i # used.rows + 1
    BY <1>1, Numbers
  <2> QED  BY <2>1 DEF WatchInv, TypeOK, NewRow
<1>3. \A i \in Row : rows'[i] = rows[i] \/ rows'[i].fix = "none"
  BY DEF WatchInv, TypeOK, NewRow, NoRow
<1> QED  BY <1>1, <1>2, <1>3 DEF RowsAge, WatchInv, FixBegun

\* Rows that only end, or of which only the run and begun change, age.
LEMMA RowsThatEnd ==
  ASSUME WatchInv, used'.rows = used.rows,
         \A i \in Row : /\ rows'[i].fix = rows[i].fix
                       /\ (rows'[i].state = rows[i].state \/ rows'[i].state # "waiting")
  PROVE  RowsAge
BY BoundAssumption DEF WatchInv, TypeOK, RowsAge, FixBegun, BoundAssumption

\* Whatever the step.
LEMMA RowsStep == ASSUME WatchInv, Next PROVE RowsAge
<1>1. TypeOK /\ \A i \in Row : rows[i] \in RowRecord
  BY DEF WatchInv, TypeOK
<1>2. ASSUME rows' = rows, used'.rows = used.rows  PROVE RowsAge
  BY <1>2, RowsThatEnd
<1>3. CASE RowActs
  <2>1. used' = used
    BY <1>3 DEF RowActs, RowStarts, RowCloses, FixStarts, WithdrawRow, RowLate, FixEnds
  <2>2. ASSUME NEW i \in Row, FixStarts(i)  PROVE RowsAge
    <3>1. rows' = [rows EXCEPT ![i] = [rows[i] EXCEPT !.fix = "open"]] /\ rows[i].state = "running"
      BY <1>1, <2>2 DEF FixStarts, TypeOK
    <3>2. \A j \in Row : rows'[j].state = rows[j].state /\ (j # i => rows'[j].fix = rows[j].fix)
      BY <1>1, <3>1 DEF TypeOK, RowRecord
    <3>3. \A j \in Row : rows'[j].fix # "none" => rows'[j].state # "waiting"
      BY <3>1, <3>2 DEF WatchInv, FixBegun
    <3> QED  BY <1>1, <2>1, <3>2, <3>3, BoundAssumption DEF RowsAge, TypeOK, BoundAssumption
  <2>3. ASSUME NEW i \in Row, NEW how \in {"ended", "stopped"}, FixEnds(i, how)  PROVE RowsAge
    <3>1. rows' = [rows EXCEPT ![i] = [rows[i] EXCEPT !.fix = how, !.state = "done"]]
      BY <1>1, <2>3 DEF FixEnds, TypeOK
    <3>2. \A j \in Row : j # i => rows'[j] = rows[j]
      BY <1>1, <3>1 DEF TypeOK
    <3>3. rows'[i].state = "done"
      BY <1>1, <3>1 DEF TypeOK, RowRecord
    <3>4. \A j \in Row : rows'[j].fix # "none" => rows'[j].state # "waiting"
      BY <3>2, <3>3 DEF WatchInv, FixBegun
    <3>5. \A j \in Row : rows'[j].state = "waiting" => rows[j].state = "waiting"
      BY <3>2, <3>3
    <3> QED  BY <1>1, <2>1, <3>4, <3>5, BoundAssumption DEF RowsAge, TypeOK, BoundAssumption
  <2>4. ASSUME NEW i \in Row, RowStarts(i) \/ RowCloses(i) \/ WithdrawRow(i) \/ RowLate(i)
        PROVE  RowsAge
    <3>1. PICK row \in RowRecord : rows' = [rows EXCEPT ![i] = row] /\ row.fix = rows[i].fix
                        /\ (row.state = rows[i].state \/ row.state # "waiting")
      <4>1. CASE RowStarts(i)
        <5>1. rows' = [rows EXCEPT ![i] = [rows[i] EXCEPT !.state = "running", !.begun = "yes"]]
          BY <1>1, <4>1 DEF RowStarts, TypeOK
        <5>2. [rows[i] EXCEPT !.state = "running", !.begun = "yes"] \in RowRecord
          BY <1>1, RowType
        <5>3. /\ ([rows[i] EXCEPT !.state = "running", !.begun = "yes"]).fix = rows[i].fix
              /\ ([rows[i] EXCEPT !.state = "running", !.begun = "yes"]).state = "running"
          BY <1>1 DEF RowRecord
        <5> QED  BY <5>1, <5>2, <5>3
      <4>2. CASE RowCloses(i) \/ WithdrawRow(i)
        <5>1. rows' = [rows EXCEPT ![i] = [rows[i] EXCEPT !.state = "done"]]
          BY <1>1, <4>2 DEF RowCloses, WithdrawRow, TypeOK
        <5>2. /\ [rows[i] EXCEPT !.state = "done"] \in RowRecord
              /\ ([rows[i] EXCEPT !.state = "done"]).fix = rows[i].fix
              /\ ([rows[i] EXCEPT !.state = "done"]).state = "done"
          BY <1>1 DEF RowRecord
        <5> QED  BY <5>1, <5>2
      <4>3. CASE RowLate(i)
        <5>1. rows' = [rows EXCEPT ![i] = [rows[i] EXCEPT !.begun = "late"]]
          BY <1>1, <4>3 DEF RowLate, TypeOK
        <5>2. /\ [rows[i] EXCEPT !.begun = "late"] \in RowRecord
              /\ ([rows[i] EXCEPT !.begun = "late"]).fix = rows[i].fix
              /\ ([rows[i] EXCEPT !.begun = "late"]).state = rows[i].state
          BY <1>1 DEF RowRecord
        <5> QED  BY <5>1, <5>2
      <4> QED  BY <2>4, <4>1, <4>2, <4>3
    <3>2. \A j \in Row : j # i => rows'[j] = rows[j]
      BY <3>1
    <3>3. rows'[i] = row
      BY <1>1, <3>1 DEF TypeOK
    <3> QED  BY <2>1, <3>1, <3>2, <3>3, RowsThatEnd
  <2> QED  BY <1>3, <2>2, <2>3, <2>4, Zenon DEF RowActs
<1>4. CASE RunActs
  <2>1. ASSUME NEW r, used'.rows = used.rows,
               rows' = [i \in Row |-> IF rows[i].run = r THEN [rows[i] EXCEPT !.state = "done"]
                                                         ELSE rows[i]]
        PROVE  RowsAge
    <3>1. \A i \in Row : ([rows[i] EXCEPT !.state = "done"]).fix = rows[i].fix
                        /\ ([rows[i] EXCEPT !.state = "done"]).state = "done"
      BY <1>1 DEF RowRecord
    <3> QED  BY <2>1, <3>1, RowsThatEnd
  <2>2. ASSUME NEW of, NEW k, RunStarts(of, k)  PROVE RowsAge
    <3>1. used'.rows = used.rows
      BY <1>1, <2>2 DEF RunStarts, TypeOK
    <3>2. ASSUME NEW j \in Row
          PROVE  rows'[j].fix = rows[j].fix /\ rows'[j].state = rows[j].state
      <4> DEFINE run == IF Tied # {} /\ j = Least(Tied) THEN used.runs + 1 ELSE rows[j].run
                 born == rows[j].born \/ j = k
      <4>1. rows'[j] = [rows[j] EXCEPT !.run = run, !.born = born]
        BY <2>2, Zenon DEF RunStarts
      <4> HIDE DEF run, born
      <4> QED  BY <1>1, <4>1 DEF RowRecord
    <3> QED  BY <3>1, <3>2, RowsThatEnd
  <2>3. ASSUME NEW r \in Run, WatchWaiting(r)  PROVE RowsAge
    BY <2>1, <2>3 DEF WatchWaiting
  <2>4. ASSUME NEW r \in Run, NEW how \in Endings, RunEnds(r, how)  PROVE RowsAge
    BY <2>1, <2>4 DEF RunEnds
  <2>5. ASSUME NEW r \in Run, RunSays(r)  PROVE RowsAge
    BY <1>2, <2>5 DEF RunSays
  <2> QED  BY <1>4, <2>2, <2>3, <2>4, <2>5, Zenon DEF RunActs, StartElsewhere, ResumeStarts
<1>5. CASE CycleActs
  BY <1>1, <1>2, <1>5, CycleActsSay
<1>6. CASE Restart
  BY <1>1, <1>2, <1>6 DEF Restart, TypeOK
<1>7. CASE QueueFresh \/ QueueFix \/ QueueResume
  BY <1>2, <1>7, NewRowAges DEF QueueFresh, QueueFix, QueueResume
<1>8. CASE Withdraw
  <2>1. \A i \in Row : ([rows[i] EXCEPT !.state = "done"]).fix = rows[i].fix
                      /\ ([rows[i] EXCEPT !.state = "done"]).state = "done"
    BY <1>1 DEF RowRecord
  <2> QED  BY <1>8, <2>1, RowsThatEnd DEF Withdraw
<1>9. CASE OpenCycle \/ Exhausted
  BY <1>1, <1>2, <1>9 DEF OpenCycle, Exhausted, NewCycle, TypeOK
<1>10. CASE \E c \in Cycle :
              \/ StepStartedOver(c) \/ StepAdopted(c) \/ StepOn(c) \/ StepPutDown(c)
              \/ StepSpoiled(c) \/ StepDeployed(c) \/ StepFollow(c) \/ StepNothing(c)
  BY <1>1, <1>2, <1>10, StepTurns DEF Turn, StepNothing
<1>11. CASE \/ \E r \in Run : ReadRun(r)
            \/ TickBegins \/ RecordDrop \/ MoveParent \/ NoCycleNow \/ CyclesBegin \/ CyclesEnd
            \/ Move
  BY <1>2, <1>11 DEF ReadRun, TickBegins, RecordDrop, MoveParent, NoCycleNow, CyclesBegin, CyclesEnd, Move
<1> HIDE DEF RowsAge
<1>12. CASE Surroundings
  BY <1>3, <1>4, <1>5, <1>6, <1>12, SurroundingsSplit
<1>13. CASE watchdogTick
  BY <1>7, <1>8, <1>9, <1>10, <1>11, <1>13, Zenon DEF watchdogTick, StepCycle
<1> QED  BY <1>12, <1>13 DEF Next

\* The link of a cycle to its fix is written once, as the row is put in the queue.
FixQueued(c) ==
  /\ c = loop.cycle /\ cycles'[c].fix = used'.rows /\ At(c, "fixing")
  /\ cycles'[c].state = "fixing" /\ cycles'[c].pr = "none" /\ loop'.pc \in {"top", "drops", "step"}

\* What a step does to the fix, the pr and the state of a cycle.
FixStep(c) ==
  /\ cycles'[c].fix = cycles[c].fix \/ FixQueued(c)
  /\ \/ cycles'[c].pr = "none" \/ cycles[c].pr # "none" \/ cycles[c].state \in {"ci", "merging"}
     \/ (At(c, "fixing") /\ Fix(c).fix = "open")
  /\ \/ cycles'[c].state = cycles[c].state \/ cycles'[c].state \in {"fixing", "failed", "dropped", "exhausted"}
     \/ (loop.pc = "move" /\ c = loop.cycle /\ cycles'[c].state = loop.to /\ loop.to # "failed")

\* What every step does to the fix of a cycle.
LEMMA FixSteps == ASSUME WatchInv, Next, NEW b \in Cycle PROVE FixStep(b)
<1>1. TypeOK /\ cycles[b] \in CycleRecord
  BY DEF WatchInv, TypeOK
<1>2. ASSUME cycles'[b] = cycles[b]  PROVE FixStep(b)
  BY <1>2 DEF FixStep
<1>3. CASE cycles' = cycles
  BY <1>2, <1>3
<1>4. CASE CycleActs
  <2>1. /\ cycles'[b] = [cycles[b] EXCEPT !.pr = cycles'[b].pr, !.late = cycles'[b].late,
                                          !.deployed = cycles'[b].deployed]
        /\ cycles[b].pr = "none" => \/ cycles'[b].pr = "none" \/ cycles[b].state \in {"ci", "merging"}
                                    \/ (At(b, "fixing") /\ Fix(b).fix = "open")
    BY <1>1, <1>4, CycleActsSay
  <2>2. cycles'[b].fix = cycles[b].fix /\ cycles'[b].state = cycles[b].state
    BY <1>1, <2>1 DEF CycleRecord
  <2> QED  BY <2>1, <2>2 DEF FixStep
<1>5. ASSUME NEW c \in Cycle, CycleOpened(c)  PROVE FixStep(b)
  <2>1. CASE b = c
    <3>1. cycles[b].state = "none"
      <4>1. used.cycles \in Nat /\ c = used.cycles + 1
        BY <1>1, <1>5, BoundAssumption DEF TypeOK, CycleOpened, BoundAssumption
      <4> QED  BY <2>1, <4>1 DEF WatchInv, CyclesNumbered
    <3>2. cycles[b].fix = None
      BY <3>1 DEF WatchInv, FixLinked
    <3> QED  BY <1>5, <2>1, <3>2 DEF FixStep, CycleOpened
  <2>2. CASE b # c
    BY <1>2, <1>5, <2>2 DEF CycleOpened
  <2> QED  BY <2>1, <2>2
<1>6. CASE Move
  <2>1. CASE b = loop.cycle
    <3>1. cycles'[b].state = loop.to /\ cycles'[b].fix = cycles[b].fix /\ loop.pc = "move"
      BY <1>1, <1>6, <2>1 DEF Move, TypeOK, CycleRecord
    <3>2. cycles'[b].pr \in {cycles[b].pr, "none"}
      BY <1>1, <1>6, <2>1 DEF Move, TypeOK, CycleRecord
    <3> QED  BY <2>1, <3>1, <3>2 DEF FixStep
  <2>2. CASE b # loop.cycle
    BY <1>1, <1>2, <1>6, <2>2 DEF Move, TypeOK
  <2> QED  BY <2>1, <2>2
<1>7. CASE QueueFix
  <2>1. CASE b = loop.cycle
    <3>1. /\ cycles[b].state = "fixing" /\ cycles[b].pr = "none"
          /\ loop'.pc \in {"top", "drops", "step"}
      <4>1. loop'.pc = loop.back /\ loop.pc = "fix"
        BY <1>7 DEF QueueFix, GoOn, TopOfTick
      <4>2. loop.back \in {"top", "drops", "step"}
        BY <1>1 DEF TypeOK, LoopRecord
      <4> QED  BY <2>1, <4>1, <4>2 DEF WatchInv, LoopHolds, At
    <3>2. CASE RoomForRow
      <4>1. cycles' = [cycles EXCEPT ![b].fix = used.rows + 1] /\ used'.rows = used.rows + 1
        BY <1>7, <2>1, <3>2, NewRowAges DEF QueueFix
      <4> QED  BY <1>1, <2>1, <3>1, <4>1 DEF FixStep, FixQueued, TypeOK, CycleRecord, At
    <3>3. CASE ~RoomForRow
      <4>1. cycles' = [cycles EXCEPT ![b].state = "failed"]
        BY <1>7, <2>1, <3>3 DEF QueueFix
      <4> QED  BY <1>1, <3>1, <4>1 DEF FixStep, TypeOK, CycleRecord
    <3> QED  BY <3>2, <3>3
  <2>2. CASE b # loop.cycle
    BY <1>1, <1>2, <1>7, <2>2 DEF QueueFix, TypeOK
  <2> QED  BY <2>1, <2>2
<1>8. CASE MoveParent
  <2>1. cycles' = [cycles EXCEPT ![Parent(loop.drop)].state = "dropped"]
    BY <1>8 DEF MoveParent
  <2>2. cycles'[b].fix = cycles[b].fix /\ cycles'[b].pr = cycles[b].pr
        /\ cycles'[b].state \in {cycles[b].state, "dropped"}
    BY <1>1, <2>1 DEF TypeOK, CycleRecord
  <2> QED  BY <2>2 DEF FixStep
<1> HIDE DEF FixStep
<1> QED  BY <1>3, <1>4, <1>5, <1>6, <1>7, <1>8, StepWays

\* A fix that is not in the line, or has begun, does not get back into it.
LEMMA FixStays ==
  ASSUME WatchInv, Next, NEW c \in Cycle, cycles'[c].fix = cycles[c].fix
  PROVE  /\ Fix(c).state # "waiting" => Fix(c)'.state # "waiting"
         /\ Fix(c).fix # "none" => Fix(c).state # "waiting"
<1> DEFINE i == cycles[c].fix
<1>1. i \in Row \cup {None} /\ i <= used.rows
  BY DEF WatchInv, TypeOK, CycleRecord, FixLinked
<1>2. CASE i = None
  <2>1. Fix(c) = NoRow /\ Fix(c)' = NoRow
    BY <1>2 DEF Fix, RowOf
  <2> QED  BY <2>1 DEF NoRow
<1>3. CASE i # None
  <2>1. Fix(c) = rows[i] /\ Fix(c)' = rows'[i] /\ i \in Row
    BY <1>1, <1>3 DEF Fix, RowOf
  <2> QED  BY <1>1, <2>1, RowsStep DEF RowsAge, WatchInv, FixBegun
<1> QED  BY <1>2, <1>3

\* The links and the fixes that began stay so.
LEMMA LinksKept == ASSUME WatchInv, Next PROVE FixLinked' /\ FixBegun'
<1>1. RowsAge /\ used.rows \in Nat
  BY RowsStep, BoundAssumption DEF WatchInv, TypeOK, BoundAssumption
<1>2. FixBegun'
  BY <1>1 DEF RowsAge, FixBegun
<1>3. ASSUME NEW c \in Cycle
      PROVE  /\ cycles'[c].fix <= used'.rows
             /\ cycles'[c].state = "none" => cycles'[c].fix = None /\ cycles'[c].pr = "none"
  <2>1. FixStep(c) /\ cycles[c].fix <= used.rows /\ cycles[c].fix \in Nat
    <3>1. cycles[c].fix \in Row \cup {None} /\ cycles[c].fix <= used.rows
      BY DEF WatchInv, FixLinked, TypeOK, CycleRecord
    <3>2. Row \cup {None} \subseteq Nat
      BY Numbers DEF None
    <3> QED  BY <3>1, <3>2, FixSteps
  <2>2. cycles'[c].fix <= used'.rows
    BY <1>1, <2>1 DEF RowsAge, FixStep, FixQueued
  <2>3. ASSUME cycles'[c].state = "none"  PROVE cycles[c].state = "none"
    <3>1. ~(\E b \in Cycle : CycleOpened(b)) \/ cycles[c].state = "none" \/ cycles'[c] = cycles[c]
      BY <2>3 DEF CycleOpened
    <3> QED  BY <2>3, <3>1, CycleSteps DEF NonePlaced, KeepsPlace, CycleMoved
  <2>4. ASSUME cycles'[c].state = "none"  PROVE cycles'[c].fix = None /\ cycles'[c].pr = "none"
    <3>1. cycles[c].state = "none" /\ cycles[c].fix = None /\ cycles[c].pr = "none"
      BY <2>3, <2>4 DEF WatchInv, FixLinked
    <3> QED  BY <2>1, <2>4, <3>1 DEF FixStep, FixQueued, At
  <2> QED  BY <2>2, <2>4
<1> QED  BY <1>2, <1>3 DEF FixLinked

\* What the loop turns to from a cycle takes no fix for granted.
LEMMA TurnsPassed ==
  ASSUME WatchInv, NEW c \in Cycle,
         \/ StepStartedOver(c) \/ StepAdopted(c) \/ StepOn(c) \/ StepPutDown(c)
         \/ StepSpoiled(c) \/ StepDeployed(c) \/ StepFollow(c)
  PROVE  /\ UNCHANGED <<runs, drops, seen, cycles, rows, used>>
         /\ loop'.pc \in {"withdraw", "move", "resume"} /\ loop'.cycle = c
         /\ cycles[c].state \in Moving /\ loop'.to # "exhausted"
         /\ \/ Fix(c).state # "waiting"
            \/ loop'.pc = "withdraw" /\ loop'.row = cycles[c].fix
            \/ loop'.pc = "move" /\ loop'.to = "failed"
<1>1. TypeOK
  BY DEF WatchInv
<1>2. ASSUME NEW pc, NEW to, NEW row, NEW run, Turn(c, pc, to, row, run)
      PROVE  /\ UNCHANGED <<runs, drops, seen, cycles, rows, used>>
             /\ loop'.pc = pc /\ loop'.cycle = c /\ loop'.to = to /\ loop'.row = row
  BY <1>1, <1>2 DEF Turn, TypeOK, LoopRecord
<1>3. /\ UNCHANGED <<runs, drops, seen, cycles, rows, used>>
      /\ loop'.pc \in {"withdraw", "move", "resume"} /\ loop'.cycle = c
      /\ cycles[c].state \in Moving /\ loop'.to # "exhausted"
  BY <1>1, <1>2, StepTurns
<1> DEFINE Passed == \/ Fix(c).state # "waiting"
                     \/ loop'.pc = "withdraw" /\ loop'.row = cycles[c].fix
                     \/ loop'.pc = "move" /\ loop'.to = "failed"
<1>4. cycles[c].pr # "none" \/ cycles[c].state \in {"ci", "merging", "deploying", "resumed"}
        => Fix(c).state # "waiting"
  BY DEF WatchInv, FixPassed, NoFixForAnsweredDrop
<1>5. ASSUME StepStartedOver(c)  PROVE Passed
  BY <1>2, <1>5 DEF StepStartedOver
<1>6. ASSUME StepAdopted(c)  PROVE Passed
  <2>1. CASE At(c, "fixing")
    BY <1>2, <1>6, <2>1 DEF StepAdopted
  <2>2. CASE ~At(c, "fixing")
    BY <1>4, <1>6, <2>2 DEF StepAdopted, Adopted, At
  <2> QED  BY <2>1, <2>2
<1>7. ASSUME StepOn(c)  PROVE Passed
  <2>1. PICK pr \in Listed(c) : NextState(c, pr) # "none"
    BY <1>7 DEF StepOn
  <2>2. pr = "none" \/ pr = cycles[c].pr
    BY DEF Listed
  <2> QED  BY <1>4, <2>1, <2>2 DEF NextState, At
<1>8. ASSUME StepPutDown(c)  PROVE Passed
  <2>1. Fix(c).state = "done" \/ Fix(c).fix = "stopped"
    BY <1>8 DEF StepPutDown, PutDown, FixWithdrawn
  <2>2. Fix(c).fix = "stopped" => Fix(c).state # "waiting"
    <3>1. cycles[c].fix \in Row \cup {None}
      BY <1>1 DEF TypeOK, CycleRecord
    <3> QED  BY <3>1 DEF Fix, RowOf, NoRow, WatchInv, FixBegun
  <2> QED  BY <2>1, <2>2
<1>9. ASSUME StepSpoiled(c)  PROVE Passed
  BY <1>2, <1>9 DEF StepSpoiled
<1>10. ASSUME StepDeployed(c)  PROVE Passed
  BY <1>4, <1>10 DEF StepDeployed, At
<1>11. ASSUME StepFollow(c)  PROVE Passed
  BY <1>4, <1>11 DEF StepFollow, Outcome, At
<1> HIDE DEF Passed
<1>12. Passed
  BY <1>5, <1>6, <1>7, <1>8, <1>9, <1>10, <1>11
<1> QED  BY <1>3, <1>12 DEF Passed

\* Where a step can leave the loop.
LoopStep ==
  \/ loop' = loop
  \/ loop'.pc \in {"top", "drops", "step"}
  \/ loop'.pc = "record" /\ loop'.drop \in Run
  \/ loop'.pc \in {"parent", "fresh", "open"} /\ loop'.drop \in Run /\ drops'[loop'.drop] # None
  \/ /\ loop'.pc = "fix" /\ loop'.cycle \in Cycle /\ cycles'[loop'.cycle].state = "fixing"
     /\ cycles'[loop'.cycle].fix = None /\ cycles'[loop'.cycle].pr = "none"
  \/ /\ loop'.pc \in {"withdraw", "move", "resume"} /\ loop'.cycle \in Cycle /\ loop'.to # "exhausted"
     /\ cycles[loop'.cycle].state \in Moving /\ cycles' = cycles
     /\ \/ Fix(loop.cycle)'.state # "waiting"
        \/ loop'.pc = "withdraw" /\ loop'.row = cycles[loop'.cycle].fix
        \/ loop'.pc = "move" /\ loop'.to = "failed"

\* What every step leaves in the loop's hand.
LEMMA LoopSteps == ASSUME WatchInv, Next PROVE LoopStep
<1>1. TypeOK /\ LoopHolds /\ loop \in LoopRecord
  BY DEF WatchInv, TypeOK
<1>2. ASSUME GoOn  PROVE loop'.pc \in {"top", "drops", "step"}
  BY <1>1, <1>2 DEF GoOn, TopOfTick, LoopRecord
<1>3. CASE QueueFresh \/ Exhausted \/ NoCycleNow \/ QueueFix
  BY <1>2, <1>3 DEF QueueFresh, Exhausted, NoCycleNow, QueueFix, LoopStep
<1>4. CASE TickBegins \/ CyclesBegin \/ CyclesEnd \/ Restart
  <2>1. loop'.pc \in {"top", "drops", "step"}
    <3>1. CASE TickBegins
      BY <1>1, <3>1 DEF TickBegins, LoopRecord
    <3>2. CASE CyclesBegin
      BY <1>1, <3>2 DEF CyclesBegin, LoopRecord
    <3>3. CASE CyclesEnd \/ Restart
      <4>1. loop' = TopOfTick
        BY <3>3 DEF CyclesEnd, Restart
      <4> QED  BY <4>1 DEF TopOfTick
    <3> QED  BY <1>4, <3>1, <3>2, <3>3
  <2> QED  BY <2>1 DEF LoopStep
<1>5. ASSUME NEW r \in Run, ReadRun(r)  PROVE LoopStep
  <2>1. \/ loop' = [loop EXCEPT !.pc = "record", !.todo = @ \ {r}, !.drop = r]
        \/ loop' = [loop EXCEPT !.todo = @ \ {r}] /\ loop.pc = "drops"
    BY <1>5, Zenon DEF ReadRun
  <2> QED  BY <1>1, <2>1 DEF LoopRecord, LoopStep
<1>6. CASE RecordDrop
  <2>1. loop.drop \in Run
    BY <1>1, <1>6 DEF RecordDrop, LoopHolds
  <2>2. drops'[loop.drop] # None
    BY <1>1, <1>6, <2>1, RootIsRun, Numbers DEF RecordDrop, TypeOK
  <2>3. CASE GoOn
    BY <1>2, <2>3 DEF LoopStep
  <2>4. CASE ~GoOn
    <3>1. PICK pc \in {"fresh", "open", "parent"} : Goto(pc)
      BY <1>6, <2>4 DEF RecordDrop
    <3>2. loop'.pc = pc /\ loop'.drop = loop.drop
      BY <1>1, <3>1 DEF Goto, LoopRecord
    <3> QED  BY <2>1, <2>2, <3>2 DEF LoopStep
  <2> QED  BY <2>3, <2>4
<1>7. CASE MoveParent
  <2>1. loop'.pc = "open" /\ loop'.drop = loop.drop /\ loop.pc = "parent" /\ drops' = drops
    BY <1>1, <1>7 DEF MoveParent, Goto, LoopRecord
  <2> QED  BY <1>1, <2>1 DEF LoopStep, LoopHolds
<1>8. CASE OpenCycle
  <2> DEFINE c == used.cycles + 1
  <2>1. c \in Cycle /\ CycleOpened(c)
    BY <1>8, CycleOpens
  <2>2. loop'.pc = "fix" /\ loop'.cycle = c
    BY <1>1, <1>8 DEF OpenCycle, LoopRecord
  <2>3. cycles'[c].state = "fixing"
    BY <1>1, <1>8, <2>1 DEF OpenCycle, NewCycle, TypeOK, NoCycle
  <2> HIDE DEF c
  <2> QED  BY <2>1, <2>2, <2>3 DEF LoopStep, CycleOpened
<1>9. ASSUME NEW c \in Cycle,
             \/ StepStartedOver(c) \/ StepAdopted(c) \/ StepOn(c) \/ StepPutDown(c)
             \/ StepSpoiled(c) \/ StepDeployed(c) \/ StepFollow(c)
      PROVE  LoopStep
  <2>1. /\ UNCHANGED <<runs, drops, seen, cycles, rows, used>>
        /\ loop'.pc \in {"withdraw", "move", "resume"} /\ loop'.cycle = c
        /\ cycles[c].state \in Moving /\ loop'.to # "exhausted"
        /\ \/ Fix(c).state # "waiting"
           \/ loop'.pc = "withdraw" /\ loop'.row = cycles[c].fix
           \/ loop'.pc = "move" /\ loop'.to = "failed"
    BY <1>9, TurnsPassed
  <2>2. Fix(c)' = Fix(c)
    BY <2>1 DEF Fix, RowOf
  <2> QED  BY <2>1, <2>2 DEF LoopStep
<1>10. ASSUME NEW c \in Cycle, StepNothing(c)  PROVE LoopStep
  <2>1. loop'.pc = "step"
    BY <1>1, <1>10 DEF StepNothing, AtCycle, LoopRecord
  <2> QED  BY <2>1 DEF LoopStep
<1>11. CASE Withdraw
  <2> DEFINE c == loop.cycle
  <2>1. /\ loop.pc = "withdraw" /\ loop'.pc = "move" /\ loop'.cycle = c /\ loop'.to = loop.to
        /\ cycles' = cycles
    BY <1>1, <1>11 DEF Withdraw, Goto, LoopRecord
  <2>2. c \in Cycle /\ cycles[c].state \in Moving /\ loop.to # "exhausted"
        /\ cycles[c].fix \in Row \cup {None}
    BY <1>1, <2>1 DEF LoopHolds, TypeOK, CycleRecord
  <2>3. Fix(loop.cycle)'.state # "waiting"
    <3>1. Fix(loop.cycle)' = IF cycles[c].fix = None THEN NoRow ELSE rows'[cycles[c].fix]
      BY <2>1 DEF Fix, RowOf
    <3>2. CASE cycles[c].fix = None
      BY <3>1, <3>2 DEF NoRow
    <3>3. CASE cycles[c].fix # None
      <4> DEFINE i == cycles[c].fix
      <4>1. i \in Row /\ Fix(c) = rows[i]
        BY <2>2, <3>3 DEF Fix, RowOf
      <4>2. rows'[i] = IF i = loop.row /\ rows[i].state = "waiting"
                       THEN [rows[i] EXCEPT !.state = "done"] ELSE rows[i]
        BY <1>11, <4>1 DEF Withdraw
      <4>3. i = loop.row \/ rows[i].state # "waiting"
        BY <2>1, <4>1 DEF WatchInv, FixPassed
      <4>4. ([rows[i] EXCEPT !.state = "done"]).state = "done"
        BY <1>1, <4>1 DEF TypeOK, RowRecord
      <4> QED  BY <3>1, <3>3, <4>2, <4>3, <4>4
    <3> QED  BY <3>2, <3>3
  <2> QED  BY <2>1, <2>2, <2>3 DEF LoopStep
<1>12. CASE QueueResume
  <2> DEFINE c == loop.cycle
  <2>1. /\ loop.pc = "resume" /\ loop'.pc = "move" /\ loop'.cycle = c /\ loop'.to = loop.to
        /\ cycles' = cycles
    BY <1>1, <1>12 DEF QueueResume, Goto, LoopRecord
  <2>2. c \in Cycle /\ cycles[c].state \in Moving /\ loop.to # "exhausted"
    BY <1>1, <2>1 DEF LoopHolds
  <2>3. Fix(c).state # "waiting"
    BY <2>1 DEF WatchInv, FixPassed
  <2>4. PICK d \in Cycle : d = loop.cycle
    BY <2>2
  <2>5. Fix(d)'.state # "waiting"
    BY <2>1, <2>3, <2>4, FixStays DEF Next, watchdogTick, StepCycle
  <2>6. Fix(loop.cycle)' = Fix(d)'
    BY <2>1, <2>4 DEF Fix, RowOf
  <2> QED  BY <2>1, <2>2, <2>5, <2>6 DEF LoopStep
<1>13. CASE Move
  <2>1. loop'.pc \in {"open", "step"} /\ (loop'.pc = "open" => loop'.drop = cycles[loop.cycle].run)
        /\ drops' = drops /\ loop.pc = "move"
    BY <1>13 DEF Move, TopOfTick
  <2>2. loop.cycle \in Cycle /\ cycles[loop.cycle].state # "none"
    BY <1>1, <2>1 DEF LoopHolds, Moving, Building
  <2>3. cycles[loop.cycle].run \in Run /\ drops[cycles[loop.cycle].run] # None
    BY <2>2 DEF WatchInv, CyclesOfDrops
  <2> QED  BY <2>1, <2>3 DEF LoopStep
<1>14. ASSUME outside' = outside  PROVE LoopStep
  BY <1>14 DEF outside, LoopStep
<1>15. CASE CycleActs
  BY <1>1, <1>14, <1>15, CycleActsSay
<1>16. CASE RowActs
  BY <1>14, <1>16 DEF RowActs, RowStarts, RowCloses, FixStarts, WithdrawRow, RowLate, FixEnds
<1>17. CASE RunActs
  <2>1. ASSUME NEW r \in Run, WatchWaiting(r)  PROVE LoopStep
    <3>1. loop'.pc = "record" /\ loop'.drop = r
      BY <1>1, <2>1 DEF WatchWaiting, LoopRecord
    <3> QED  BY <3>1 DEF LoopStep
  <2>2. ASSUME NEW r \in Run, RunSays(r)  PROVE LoopStep
    BY <1>14, <2>2 DEF RunSays
  <2>3. ASSUME NEW of, NEW i, RunStarts(of, i)  PROVE LoopStep
    BY <1>14, <2>3 DEF RunStarts
  <2>4. ASSUME NEW r, NEW how, RunEnds(r, how)  PROVE LoopStep
    BY <1>14, <2>4 DEF RunEnds
  <2> QED  BY <1>17, <2>1, <2>2, <2>3, <2>4, Zenon DEF RunActs, StartElsewhere, ResumeStarts
<1> HIDE DEF LoopStep
<1>18. CASE Surroundings
  BY <1>4, <1>15, <1>16, <1>17, <1>18, SurroundingsSplit
<1>19. CASE watchdogTick
  BY <1>3, <1>4, <1>5, <1>6, <1>7, <1>8, <1>9, <1>10, <1>11, <1>12, <1>13, <1>19, Zenon
     DEF watchdogTick, StepCycle
<1> QED  BY <1>18, <1>19 DEF Next

\* While it stays, no cycle is moved.
LEMMA LoopStays ==
  ASSUME WatchInv, Next, loop' = loop
  PROVE  cycles' = cycles \/ CycleActs
<1>1. loop \in LoopRecord
  BY DEF WatchInv, TypeOK
<1>2. ~Move /\ ~QueueFix /\ ~MoveParent
  BY <1>1 DEF Move, QueueFix, MoveParent, GoOn, Goto, TopOfTick, LoopRecord
<1> QED  BY <1>2, StepWays

\* What the loop has in hand stays as it was read.
LEMMA LoopKept == ASSUME WatchInv, Next PROVE LoopHolds'
<1>1. LoopHolds /\ LoopStep /\ DropsStay /\ TypeOK
  BY LoopSteps, CycleSteps DEF WatchInv
<1>2. CASE loop' # loop
  BY <1>1, <1>2 DEF LoopStep, LoopHolds, At
<1>3. CASE loop' = loop
  <2> DEFINE c == loop.cycle
  <2>1. ASSUME c \in Cycle
        PROVE  /\ cycles'[c].state = cycles[c].state /\ cycles'[c].fix = cycles[c].fix
               /\ At(c, "fixing") /\ cycles[c].fix = None /\ cycles[c].pr = "none"
                    => cycles'[c].pr = "none"
    <3>1. CASE cycles' = cycles
      BY <3>1
    <3>2. CASE CycleActs
      <4>1. /\ cycles'[c] = [cycles[c] EXCEPT !.pr = cycles'[c].pr, !.late = cycles'[c].late,
                                              !.deployed = cycles'[c].deployed]
            /\ cycles[c].pr = "none" => \/ cycles'[c].pr = "none"
                                        \/ cycles[c].state \in {"ci", "merging"}
                                        \/ (At(c, "fixing") /\ Fix(c).fix = "open")
        BY <1>1, <2>1, <3>2, CycleActsSay
      <4>2. cycles[c] \in CycleRecord
        BY <1>1, <2>1 DEF TypeOK
      <4>3. cycles[c].fix = None => Fix(c).fix = "none"
        BY DEF Fix, RowOf, NoRow
      <4> QED  BY <4>1, <4>2, <4>3 DEF CycleRecord, At
    <3> QED  BY <1>3, <3>1, <3>2, LoopStays
  <2> QED  BY <1>1, <1>3, <2>1 DEF LoopHolds, DropsStay, At
<1> QED  BY <1>2, <1>3

\* A cycle past its fix has none in the line.
LEMMA PassedKept == ASSUME WatchInv, Next PROVE NoFixForAnsweredDrop' /\ FixPassed'
<1>1. TypeOK /\ LoopHolds /\ NoFixForAnsweredDrop /\ FixPassed /\ LoopStep
  BY LoopSteps DEF WatchInv
<1> DEFINE Clear(c) == Fix(c).state # "waiting"
<1>2. ASSUME NEW c \in Cycle, cycles'[c].fix = cycles[c].fix, Clear(c)  PROVE Clear(c)'
  BY <1>2, FixStays
<1>3. ASSUME NEW c \in Cycle, cycles'[c].state \in {"resumed", "done", "left"}  PROVE Clear(c)'
  <2>1. FixStep(c)
    BY FixSteps
  <2>2. cycles'[c].fix = cycles[c].fix
    BY <1>3, <2>1 DEF FixStep, FixQueued
  <2>3. \/ cycles[c].state = cycles'[c].state
        \/ loop.pc = "move" /\ c = loop.cycle /\ loop.to # "failed"
    BY <1>3, <2>1 DEF FixStep
  <2>4. Clear(c)
    BY <1>1, <1>3, <2>3 DEF NoFixForAnsweredDrop, FixPassed
  <2> QED  BY <1>2, <2>2, <2>4
<1>4. ASSUME NEW c \in Cycle,
             cycles'[c].pr # "none" \/ cycles'[c].state \in {"ci", "merging", "deploying"}
      PROVE  Clear(c)'
  <2>1. FixStep(c)
    BY FixSteps
  <2>2. cycles'[c].fix = cycles[c].fix
    BY <1>4, <2>1 DEF FixStep, FixQueued
  <2>3. Clear(c)
    <3>1. CASE cycles'[c].pr # "none"
      BY <1>1, <2>1, <2>2, <3>1, FixStays DEF FixStep, FixPassed
    <3>2. CASE cycles'[c].state \in {"ci", "merging", "deploying"}
      BY <1>1, <2>1, <3>2 DEF FixStep, FixPassed
    <3> QED  BY <1>4, <3>1, <3>2
  <2> QED  BY <1>2, <2>2, <2>3
<1> HIDE DEF Clear
<1>5. /\ loop'.pc = "resume" \/ (loop'.pc = "move" /\ loop'.to # "failed") => Clear(loop.cycle)'
      /\ loop'.pc = "withdraw" => \/ loop'.row = cycles'[loop'.cycle].fix
                                 \/ Clear(loop.cycle)'
  <2>1. CASE loop' # loop
    BY <1>1, <2>1 DEF LoopStep, Clear
  <2>2. CASE loop' = loop
    <3>1. SUFFICES ASSUME loop.pc \in {"withdraw", "move", "resume"}
                   PROVE  /\ Clear(loop.cycle) => Clear(loop.cycle)'
                          /\ cycles'[loop.cycle].fix = cycles[loop.cycle].fix
      BY <1>1, <2>2 DEF FixPassed, Clear
    <3>2. PICK c \in Cycle : c = loop.cycle
      BY <1>1, <3>1 DEF LoopHolds
    <3>3. cycles'[c].fix = cycles[c].fix
      BY <2>2, <3>1, FixSteps DEF FixStep, FixQueued
    <3>4. Clear(loop.cycle)' = Clear(c)' /\ Clear(loop.cycle) = Clear(c)
      BY <2>2, <3>2 DEF Clear, Fix, RowOf
    <3> QED  BY <1>2, <3>2, <3>3, <3>4
  <2> QED  BY <2>1, <2>2
<1> QED  BY <1>3, <1>4, <1>5 DEF Clear, NoFixForAnsweredDrop, FixPassed

-----------------------------------------------------------------------------
(* The theorems.                                                           *)

\* Nothing has dropped yet.
LEMMA WatchInit == Init => WatchInv
<1> SUFFICES ASSUME Init  PROVE WatchInv
  OBVIOUS
<1> USE DEF Init
<1>1. TypeOK
  <2>1. NoCycle \in CycleRecord
    BY BoundAssumption DEF BoundAssumption, NoCycle, CycleRecord
  <2>2. NoRow \in RowRecord
    BY DEF NoRow, RowRecord
  <2>3. NoRun \in RunRecord
    <3>1. 0 \in 0 .. MaxRun /\ "" \in EndingNames \cup {""} /\ None \in Run \cup {None}
      BY BoundAssumption DEF BoundAssumption
    <3> QED  BY <3>1, Zenon DEF NoRun, RunRecord
  <2>4. [NoRun EXCEPT !.state = "open", !.said = TRUE] \in RunRecord
    <3> DEFINE d == [NoRun EXCEPT !.state = "open"]
    <3>1. d \in RunRecord
      BY <2>3 DEF RunRecord
    <3> HIDE DEF d
    <3>2. [d EXCEPT !.said = TRUE] \in RunRecord
      BY <3>1 DEF RunRecord
    <3> QED  BY <3>2, Zenon DEF d
  <2>5. runs \in [Run -> RunRecord]
    BY <2>3, <2>4
  <2>6. used \in [runs: 1..MaxRun, cycles: 0..MaxCycle, rows: 0..MaxRow, restarts: 0..MaxRestarts]
    BY BoundAssumption DEF BoundAssumption
  <2> QED  BY <2>1, <2>2, <2>5, <2>6, TopType DEF TypeOK
<1>2. \A c \in Cycle : cycles[c] = NoCycle
  OBVIOUS
<1>3. \A c \in Cycle : /\ cycles[c].state = "none" /\ cycles[c].fix = None /\ cycles[c].pr = "none"
                      /\ cycles[c].resume = None /\ cycles[c].resumed = None
  BY <1>2 DEF NoCycle
<1>4. OneCyclePerChain /\ NoFixForAnsweredDrop /\ CyclesOfDrops /\ NothingFollowed
  BY <1>3 DEF OneCyclePerChain, NoFixForAnsweredDrop, CyclesOfDrops, NothingFollowed, Moving, Building
<1>5. CyclesNumbered
  BY <1>3, Numbers DEF CyclesNumbered, None
<1>6. WithinLaps
  <2>1. \A r \in Run : {c \in CyclesOf(r) : cycles[c].state # "exhausted"} = {}
    BY <1>3 DEF CyclesOf
  <2>2. Cardinality({}) = 0 /\ 0 <= Limit
    BY FS_EmptySet, BoundAssumption DEF BoundAssumption
  <2> QED  BY <2>1, <2>2 DEF WithinLaps, Spent
<1>7. LoopHolds
  BY DEF LoopHolds, TopOfTick
<1>8. FixLinked /\ FixBegun
  BY <1>3 DEF FixLinked, FixBegun, None, NoRow
<1>9. FixPassed
  BY <1>3 DEF FixPassed, TopOfTick
<1> QED  BY <1>1, <1>4, <1>5, <1>6, <1>7, <1>8, <1>9 DEF WatchInv

\* The invariant is inductive.
LEMMA WatchStep == WatchInv /\ [Next]_vars => WatchInv'
<1>1. ASSUME WatchInv, Next  PROVE WatchInv'
  BY <1>1, TypeStep, CyclesKept, ChainsKept, LinksKept, LoopKept, PassedKept DEF WatchInv
<1>2. ASSUME WatchInv, UNCHANGED vars  PROVE WatchInv'
  BY <1>2 DEF vars, WatchInv, TypeOK, OneCyclePerChain, NoFixForAnsweredDrop, CyclesNumbered,
     CyclesOfDrops, NothingFollowed, WithinLaps, LoopHolds, FixLinked, FixBegun, FixPassed,
     Fix, RowOf, At, Spent, CyclesOf
<1> QED  BY <1>1, <1>2

\* Whatever bounds, endings and surroundings, what the tables and the loop's hand
\* on them must be, they are.
THEOREM WatchInvariant == Spec => []WatchInv
BY WatchInit, WatchStep, PTL DEF Spec

\* startCycle never has two cycles of one chain under way.
THEOREM OneCycleAtATime == Spec => []OneCyclePerChain
<1>1. WatchInv => OneCyclePerChain
  BY DEF WatchInv
<1> QED  BY <1>1, WatchInvariant, PTL

\* stepCycle never leaves the fix of a drop in the line once the drop is answered.
THEOREM AnsweredDropsNeedNoFix == Spec => []NoFixForAnsweredDrop
<1>1. WatchInv => NoFixForAnsweredDrop
  BY DEF WatchInv
<1> QED  BY <1>1, WatchInvariant, PTL

\* The watchdog implements FixChain: no restart, resume or drop makes a chain take
\* a cycle beside another or past loops.laps_watchdog.
THEOREM WatchdogKeepsChain == Spec => KeepsChain
<1>1. Init => Chain!Init
  <2> SUFFICES ASSUME Init  PROVE Chain!Init
    OBVIOUS
  <2>1. \A c \in Cycle : cycles[c].state = "none"
    BY DEF Init, NoCycle
  <2>2. \A r \in Run : /\ {c \in CyclesOf(r) : cycles[c].state # "exhausted"} = {}
                      /\ MovingOf(r) = {}
    BY <2>1 DEF CyclesOf, MovingOf
  <2>3. Cardinality({}) = 0
    BY FS_EmptySet
  <2>4. [r \in Run |-> Spent(r)] = [r \in Run |-> 0]
    BY <2>2, <2>3 DEF Spent
  <2>5. [r \in Run |-> MovingOf(r) # {}] = [r \in Run |-> FALSE]
    BY <2>2, Zenon
  <2> QED  BY <2>4, <2>5, Zenon DEF Chain!Init
<1>2. WatchInv /\ [Next]_vars => [Chain!Next]_Chain!vars
  <2>1. ASSUME WatchInv, UNCHANGED vars  PROVE UNCHANGED Chain!vars
    <3>1. cycles' = cycles
      BY <2>1 DEF vars
    <3>2. \A r \in Run : Spent(r)' = Spent(r) /\ MovingOf(r)' = MovingOf(r)
      BY <3>1 DEF Spent, CyclesOf, MovingOf
    <3>3. [r \in Run |-> Spent(r)]' = [r \in Run |-> Spent(r)]
      BY <3>2
    <3>4. [r \in Run |-> MovingOf(r) # {}]' = [r \in Run |-> MovingOf(r) # {}]
      BY <3>2, Zenon
    <3> QED  BY <3>3, <3>4 DEF Chain!vars
  <2> QED  BY <2>1, ChainStep
<1> QED  BY <1>1, <1>2, WatchInvariant, PTL DEF Spec, KeepsChain, Chain!Spec
=============================================================================
