--------------------------- MODULE AmmitFrontier ---------------------------
(***************************************************************************)
(* Where a dropped run is resumed.  A runner takes the phases of a flow in *)
(* order, some of them once per branch of a fan-out and each branch at its *)
(* own pace; a replay of another run sets up what it needs of the phases   *)
(* before its own work and passes over the rest; a phase may be judged     *)
(* red, its repair, if it has one, runs and loops back to it, a phase      *)
(* fails, a branch is carried on without its work, and the run may drop at *)
(* any moment.  resumeFrom reads the phase to start again at from the      *)
(* events alone, which it counts by phase, not by branch.                  *)
(***************************************************************************)
EXTENDS Integers, Sequences, FiniteSets, FiniteSetsExt

CONSTANTS
  Flows,      \* the flows there are: sequences of phases
  Branches,   \* the branches of a fan-out
  Trunk,      \* the run itself, where it is not fanned out
  MaxStarts   \* bound: how often a phase starts

Verdicts == {"red", "blocked", "green"}
\* fan: the runner takes it once on each branch, which the flow event does
\* not say.  only_if "red": a repair; "asked": where somebody asked for it.
Phase == [id : STRING, agents : BOOLEAN, only_if : {"", "red", "asked"}, loops_to : STRING, fan : BOOLEAN]
\* What a flow is written to be.  Its phases have names of their own.  A repair
\* follows the gate it loops back to, and is on the branches if the gate is,
\* as is all between them.  What is no repair loops nowhere.
WellFormed(f) ==
  /\ f \in Seq(Phase) /\ \E i \in DOMAIN f : f[i].agents
  /\ \A i, j \in DOMAIN f : f[i].id # "" /\ (f[i].id = f[j].id => i = j)
  /\ \A i \in DOMAIN f :
       IF f[i].only_if # "red" THEN \A j \in DOMAIN f : f[j].id # f[i].loops_to
       ELSE \E g \in 1 .. i - 1 :
              /\ f[g].id = f[i].loops_to /\ f[g].agents /\ f[g].only_if # "red"
              /\ \A j \in g .. i : f[j].fan = f[g].fan
ASSUME FlowsAssumption == Trunk \notin Branches /\ \A f \in Flows : WellFormed(f)
\* The branches are brought together before a flow ends.
ASSUME JoinedAssumption ==
  \A f \in Flows : \A i \in DOMAIN f : f[i].agents /\ f[i].only_if # "red" /\ f[i].fan =>
    \E j \in DOMAIN f : j > i /\ f[j].agents /\ f[j].only_if # "red"
ASSUME BoundAssumption == MaxStarts \in Nat /\ IsFiniteSet(Branches)

VARIABLES
  flow,       \* the flow event of the run
  replay,     \* where a replay's own work starts; 0 for a run from nothing
  rec,        \* phase -> what the events say of it
  at,         \* branch -> the phase it is in, or goes to next
  doing,      \* branch -> "next" to start its phase, "in" it, or "over": it
              \* ended, and its gate is still to say so
  red         \* branch -> the gate a repair may answer, 0 for none

vars == <<flow, replay, rec, at, doing, red>>

Places == Branches \cup {Trunk}
Unread == [starts |-> 0, ends |-> 0, failed |-> FALSE, verdicts |-> [w \in Places |-> ""]]
TypeOK ==
  /\ flow \in Flows
  /\ replay \in 0 .. Len(flow)
  /\ DOMAIN rec = DOMAIN flow
  /\ at \in [Branches -> 1 .. Len(flow) + 1] /\ doing \in [Branches -> {"next", "in", "over"}]
  /\ red \in [Branches -> 0 .. Len(flow)]
  /\ \A i \in DOMAIN rec :
       /\ rec[i].starts \in 0 .. MaxStarts /\ rec[i].failed \in BOOLEAN
       /\ rec[i].verdicts \in [Places -> Verdicts \cup {""}]
       /\ rec[i].starts - rec[i].ends =
            LET ins == {b \in Branches : doing[b] = "in" /\ at[b] = i}
            IN  IF flow[i].fan THEN Cardinality(ins) ELSE IF ins = {} THEN 0 ELSE 1

-----------------------------------------------------------------------------
(* The readings.  A phase is named by its place in flow; 0 is no phase.    *)

\* runnablePhases are the phases the runner executes: those with an agent.
Runnable == {i \in DOMAIN flow : flow[i].agents}
First(is) == IF is = {} THEN 0 ELSE Min(is)
IndexOf(id) == First({i \in Runnable : flow[i].id = id})

\* A repair runs on red only, or loops back to an earlier phase.
forwardPhase(i) ==
  /\ flow[i].only_if # "red"
  /\ \A j \in Runnable : flow[j].id = flow[i].loops_to => j >= i
Forward == {i \in Runnable : forwardPhase(i)}

verdict(i) ==
  LET said == {rec[i].verdicts[w] : w \in Places} \ {""}
  IN  IF said = {} THEN "" ELSE IF "red" \in said THEN "red"
      ELSE IF "blocked" \in said THEN "blocked" ELSE "green"
succeeded(i) ==
  /\ rec[i].starts > 0
  /\ IF verdict(i) # "" THEN verdict(i) = "green" ELSE rec[i].ends >= rec[i].starts /\ ~rec[i].failed

Furthest == Max({0} \cup {i \in Forward : rec[i].starts > 0})
MutCutOff(i) == rec[i].starts > 0 /\ rec[i].ends = 0   \* one branch got through
CutOff(i)  == rec[i].starts > 0 /\ rec[i].ends < rec[i].starts
\* A phase that never began, of the work after the place a replay was asked to
\* start at: what it passed over was done by another run.
Inherited == IF replay = 0 THEN Furthest ELSE replay
LeftOut(i) == rec[i].starts = 0 /\ flow[i].only_if = "" /\ i >= Inherited
Broken == {i \in Runnable : i < Furthest /\ (CutOff(i) \/ LeftOut(i))}

\* A repair cut off mid-lap starts again at the gate it answers.
StartedAt(i) ==
  IF CutOff(i) /\ ~forwardPhase(i) /\ flow[i].loops_to # "" THEN IndexOf(flow[i].loops_to) ELSE i

MutfrontierFrom == First({i \in Forward : i >= Furthest})   \* off by one
\* frontierFrom: the first phase before the furthest that was left out or cut
\* off; else the furthest, if it did not succeed; else the next.
frontierFrom ==
  IF Furthest = 0 THEN (IF replay # 0 THEN replay ELSE First(Runnable))
  ELSE IF Broken # {} THEN StartedAt(Min(Broken))
  ELSE IF ~succeeded(Furthest) THEN Furthest
  ELSE First({i \in Forward : i > Furthest})

\* redoFrom: a run that got through everything goes again from what failed.
redoFrom ==
  LET start == IF replay # 0 THEN replay ELSE First(Runnable)
      again == {i \in Forward : i >= start /\ rec[i].starts > 0 /\ rec[i].failed}
  IN  IF again # {} THEN Min(again) ELSE start

\* resumeFrom: and the gate a branch was dropped at, when it comes before.
MutresumeFrom == frontierFrom                            \* nothing, after everything
resumeFrom ==
  LET front   == IF frontierFrom # 0 THEN frontierFrom ELSE redoFrom
      dropped == {i \in Forward : i < front /\ \E b \in Branches :
                                    rec[i].verdicts[b] \in {"red", "blocked"}}
  IN  IF dropped # {} THEN Min(dropped) ELSE front

-----------------------------------------------------------------------------
(* The runner, and what readRunFacts makes of its events                   *)

Init ==
  /\ flow \in Flows
  /\ replay \in {0} \cup Forward
  /\ rec = [i \in DOMAIN flow |-> Unread]
  /\ at = [b \in Branches |-> 1]
  /\ doing = [b \in Branches |-> "next"]
  /\ red = [b \in Branches |-> 0]

\* Who takes the phase b is at, and who of the branches is in it then.
At(b) == /\ at[b] \in DOMAIN flow
         /\ flow[at[b]].fan \/ \A c \in Branches : at[c] = at[b]
With(b) == IF flow[at[b]].fan THEN {b} ELSE Branches
Name(b) == IF flow[at[b]].fan THEN b ELSE Trunk

Moved(b, f, to) == [c \in Branches |-> IF c \in With(b) THEN to ELSE f[c]]

Due(b) == /\ at[b] \in Runnable
          /\ flow[at[b]].only_if = "red" => red[b] # 0 /\ flow[at[b]].loops_to = flow[red[b]].id
PhaseStarts(b) ==
  /\ At(b) /\ doing[b] = "next" /\ Due(b) /\ rec[at[b]].starts < MaxStarts
  /\ doing' = Moved(b, doing, "in")
  /\ rec' = [rec EXCEPT ![at[b]].starts = @ + 1]
  /\ UNCHANGED <<flow, replay, at, red>>
\* A phase nobody asked for is passed over; so is a repair with no laps left,
\* and what a replay inherits and need not set up again.
PhasePassed(b) ==
  /\ At(b) /\ doing[b] = "next"
  /\ ~Due(b) \/ flow[at[b]].only_if # "" \/ at[b] < replay
  /\ at' = Moved(b, at, at[b] + 1)
  /\ red' = IF Due(b) THEN Moved(b, red, 0) ELSE red
  /\ UNCHANGED <<flow, replay, rec, doing>>
\* What a phase_end says takes the place of what the one before it said, on
\* whatever branch that was.
PhaseEnds(b, bad) ==
  /\ At(b) /\ doing[b] = "in"
  /\ doing' = Moved(b, doing, "over")
  /\ rec' = [rec EXCEPT ![at[b]].ends = @ + 1, ![at[b]].failed = bad]
  /\ UNCHANGED <<flow, replay, at, red>>
\* Any phase may be judged after its end, or not; what is not green goes to the
\* repair that answers it, if one does, and a repair leads back to its gate.
Answered(i) == \E k \in Runnable : flow[k].loops_to = flow[i].id
Judged(b, v) ==
  /\ At(b) /\ doing[b] = "over"
  /\ rec' = IF v = "" THEN rec ELSE [rec EXCEPT ![at[b]].verdicts[Name(b)] = v]
  /\ doing' = Moved(b, doing, "next")
  /\ at' = Moved(b, at, IF forwardPhase(at[b]) THEN at[b] + 1 ELSE red[b])
  /\ red' = Moved(b, red, IF v \in {"red", "blocked"} /\ Answered(at[b]) THEN at[b] ELSE 0)
  /\ UNCHANGED <<flow, replay>>

Next == \E b \in Branches :
  \/ PhaseStarts(b) \/ PhasePassed(b)
  \/ \E v \in Verdicts \cup {""} : Judged(b, v)
  \/ \E bad \in BOOLEAN : PhaseEnds(b, bad)
Spec == Init /\ [][Next]_vars

-----------------------------------------------------------------------------
(* Properties: of every state, for the run may drop in it                  *)

\* A resume always names a phase the orchestrator takes: one the runner
\* executes and reaches by getting on, never a repair and never nothing.
ResumeIsAccepted == resumeFrom \in Forward

\* Nothing is left behind on the way to the furthest phase: every phase of the
\* run's own work that comes before it and before the one it is resumed at was
\* begun, and left by every branch that began it.  Phases that run only where
\* somebody asks for them are not held to this, nor is the furthest itself,
\* which a branch may still be in (FurthestIsRedone, below).
NothingLeftBehind ==
  LET front == Furthest
      from  == resumeFrom
  IN  \A i \in Forward : replay <= i /\ i < front /\ i < from /\ flow[i].only_if = "" =>
        rec[i].starts > 0 /\ \A b \in Branches : ~(at[b] = i /\ doing[b] = "in")

\* Finished work is not redone: a phase that got through is resumed at only
\* when the run had got through every phase there is, and what another run did
\* and this one never began only when it dropped before its own work.
FinishedWorkKept ==
  LET from == resumeFrom
  IN  /\ succeeded(from) /\ ~CutOff(from) =>
           /\ Furthest = Max(Forward)
           /\ \A i \in Forward : ~CutOff(i)
      /\ from < replay /\ rec[from].starts = 0 => Furthest < replay

\* In every state a run may drop in: finished work stays finished.
FrontierInv == TypeOK /\ FinishedWorkKept

(* What the comments say and the code does not keep.                       *)

\* A phase the run inherited from the run it replayed is done too, and never
\* redone.  A replay that drops while it sets up is resumed at the next phase,
\* which is one it inherited.
InheritedWorkKept == resumeFrom < replay => rec[resumeFrom].starts > 0

\* The furthest phase did not get through while a branch is in it.
FurthestIsRedone ==
  \A b \in Branches : at[b] = Furthest /\ doing[b] = "in" => resumeFrom <= Furthest
=============================================================================
