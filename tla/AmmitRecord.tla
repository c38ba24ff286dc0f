---------------------------- MODULE AmmitRecord ----------------------------
(***************************************************************************)
(* What a run's record says of the run.  A runner works on branches: a     *)
(* phase at a time on each, a session in it, requests and turns in the     *)
(* session.  It says so in events, and an event may come late or not at    *)
(* all.  This service keeps no state of a run: every rule reads the events *)
(* that have arrived, in its own way, and here the readings stand beside   *)
(* what the runner did.                                                    *)
(*                                                                         *)
(* said is everything the runner said, in the order it happened: an        *)
(* event's place in it is its "at".  log is what arrived, in that order:   *)
(* a place in it is the event's "id".                                      *)
(***************************************************************************)
EXTENDS Integers, Sequences, FiniteSets, FiniteSetsExt

CONSTANTS
  Branches,      \* the branches of a fan-out; one agent's name on all of them
  FlowPhases,    \* the phases of the flow
  AttemptPhase,  \* loops.attempt_phase: a branch's attempt begins with it
  MaxSaid,       \* bound: events of the run
  MaxAlone,      \* bound: events of a run on one branch only
  MaxLate        \* bound: events on the wire, or lost, at a time

ASSUME PhasesAssumption == AttemptPhase \in FlowPhases /\ "none" \notin FlowPhases
\* A branch has a name, and a request a number.
ASSUME BoundAssumption ==
  /\ {MaxSaid, MaxAlone, MaxLate} \subseteq Nat /\ MaxSaid <= MaxAlone
  /\ \A b \in Branches : b \notin 1 .. MaxAlone

VARIABLES
  said,    \* the events, in the order they happened
  log,     \* places in said, in the order they arrived
  work     \* branch -> what is going on there: see RecordTypeOK

recordVars == <<said, log, work>>

Kinds == {"phase_start", "phase_end", "session_start", "session_end",
          "request_start", "request_end", "turn"}
\* name: the session column, a request's own name on a request, else the
\* session's key, which is its branch's; short: a phase_end under the floor.
RecordEvent == [kind : Kinds, branch : Branches, phase : FlowPhases, name : Branches \cup 1 .. MaxAlone, short : BOOLEAN]

Idle == [phase |-> "none", session |-> FALSE, wait |-> 0]
RecordTypeOK ==
  /\ \A i \in DOMAIN said : said[i] \in RecordEvent
  /\ Len(said) <= MaxAlone
  /\ \A i \in DOMAIN log : log[i] \in DOMAIN said
  /\ Cardinality({log[i] : i \in DOMAIN log}) = Len(log)
  /\ work \in [Branches -> [phase : FlowPhases \cup {"none"}, session : BOOLEAN, wait : 0 .. MaxAlone]]

RecordInit == said = << >> /\ log = << >> /\ work = [b \in Branches |-> Idle]

-----------------------------------------------------------------------------
(* The runner, and the wire                                                *)

Arrived == {log[i] : i \in DOMAIN log}
Held    == DOMAIN said \ Arrived

Room(b) == Len(said) < IF \A i \in DOMAIN said : said[i].branch = b THEN MaxAlone ELSE MaxSaid

\* An event is posted as it happens; it arrives at once, or is held.
Says(kind, b, name, short) ==
  /\ Room(b)
  /\ said' = Append(said, [kind |-> kind, branch |-> b, name |-> name, short |-> short,
                           phase |-> IF kind = "phase_start" THEN work'[b].phase ELSE work[b].phase])
  /\ \/ log' = Append(log, Len(said) + 1)
     \/ Cardinality(Held) < MaxLate /\ log' = log
Arrives(i) == i \in Held /\ log' = Append(log, i) /\ UNCHANGED <<said, work>>

PhaseStarts(b, p) ==
  /\ work[b].phase = "none"
  /\ work' = [work EXCEPT ![b].phase = p]
  /\ Says("phase_start", b, b, FALSE)
PhaseEnds(b, short) ==
  /\ work[b].phase # "none" /\ ~work[b].session
  /\ work' = [work EXCEPT ![b].phase = "none"]
  /\ Says("phase_end", b, b, short)
SessionStarts(b) ==
  /\ work[b].phase # "none" /\ ~work[b].session
  /\ work' = [work EXCEPT ![b].session = TRUE]
  /\ Says("session_start", b, b, FALSE)
\* A session that is stopped leaves its wait behind it.
SessionEnds(b) ==
  /\ work[b].session
  /\ work' = [work EXCEPT ![b].session = FALSE, ![b].wait = 0]
  /\ Says("session_end", b, b, FALSE)
RequestStarts(b) ==
  /\ work[b].session /\ work[b].wait = 0
  /\ work' = [work EXCEPT ![b].wait = Len(said) + 1]
  /\ Says("request_start", b, Len(said) + 1, FALSE)
RequestEnds(b) ==
  /\ work[b].wait # 0
  /\ work' = [work EXCEPT ![b].wait = 0]
  /\ Says("request_end", b, work[b].wait, FALSE)
Turn(b) ==
  /\ work[b].session /\ work' = work
  /\ Says("turn", b, b, FALSE)

RecordNext ==
  \/ \E b \in Branches :
       \/ \E p \in FlowPhases : PhaseStarts(b, p)
       \/ \E short \in BOOLEAN : PhaseEnds(b, short)
       \/ SessionStarts(b) \/ SessionEnds(b) \/ RequestStarts(b) \/ RequestEnds(b) \/ Turn(b)
  \/ \E i \in Held : Arrives(i)
RecordSpec == RecordInit /\ [][RecordNext]_recordVars

-----------------------------------------------------------------------------
(* The readings.  Of reads `read`, a set of places in said: Arrived for    *)
(* this service, everything for the runner itself.                         *)

Of(kind)      == {i \in Arrived : said[i].kind = kind}
On(kind, b)   == {i \in Of(kind) : said[i].branch = b}
In(kind, b, p) == {i \in On(kind, b) : said[i].phase = p}
IdOf(i)       == CHOOSE k \in DOMAIN log : log[k] = i
Newest(is)    == IF is = {} THEN 0 ELSE Max(is)                     \* max(at)
Latest(is)    == IF is = {} THEN 0 ELSE Max({IdOf(i) : i \in is})   \* max(id)

\* openSpans: the names begun and never ended, each with the age of its last
\* beginning: one end closes a name for ever.
openSpans(start, end) ==
  LET ended == {said[i].name : i \in Of(end)}
  IN  {i \in Of(start) : /\ said[i].name \notin ended
                         /\ i = Newest({j \in Of(start) : said[j].name = said[i].name})}

\* spanIsOrphaned: the session the wait belongs to has ended since.
MutAnyEnd(i) == On("session_end", said[i].branch) # {}   \* not only since
MutNoOrphan(i) == FALSE                                  \* the wait is read alone
spanIsOrphaned(i) == \E e \in On("session_end", said[i].branch) : e >= i
OpenWaits == {i \in openSpans("request_start", "request_end") : ~spanIsOrphaned(i)}

\* openPhases: the phases of a branch begun and never ended, since the first
\* time they began.
MutopenPhases ==   \* keyed by the phase alone
  {i \in Of("phase_start") :
     /\ \A e \in Of("phase_end") : said[e].phase # said[i].phase
     /\ i = Min(In("phase_start", said[i].branch, said[i].phase))}
openPhases ==
  {i \in Of("phase_start") :
     /\ In("phase_end", said[i].branch, said[i].phase) = {}
     /\ i = Min(In("phase_start", said[i].branch, said[i].phase))}

\* currentPhases: the phases whose last start has no end after it, and the lap.
MutcurrentPhases ==   \* any end closes it
  {[branch |-> said[i].branch, phase |-> said[i].phase, lap |-> 1] : i \in openPhases}
currentPhases ==
  {[branch |-> bp[1], phase |-> bp[2], lap |-> Cardinality(In("phase_start", bp[1], bp[2]))] :
     bp \in {x \in Branches \X FlowPhases :
              Latest(In("phase_start", x[1], x[2])) > Latest(In("phase_end", x[1], x[2]))}}

\* turnsPerSession: the turns since the session's last start, unless an end
\* has come since.
MutturnsPerSession(b) ==   \* of the agent, on every branch
  Cardinality({i \in Of("turn") : i >= Newest(On("session_start", b))})
turnsPerSession(b) ==
  LET start == Newest(On("session_start", b))
  IN  IF \E e \in On("session_end", b) : e >= start THEN 0
      ELSE Cardinality({i \in On("turn", b) : i >= start})

\* phaseStarts: how often a phase began on a branch in its current attempt.
phaseStarts(b, p) ==
  Cardinality({i \in In("phase_start", b, p) : i > Newest(In("phase_start", b, AttemptPhase))})

\* shortPhases: the first end of a phase on a branch is short, a session ran
\* in the phase, and no turn was taken in it on that branch.
shortPhases ==
  {bp \in Branches \X FlowPhases :
     LET ends == In("phase_end", bp[1], bp[2])
     IN  /\ \E i \in ends : said[i].short /\ \A j \in ends : IdOf(i) <= IdOf(j)
         /\ \E i \in Of("session_start") : said[i].phase = bp[2]
         /\ In("turn", bp[1], bp[2]) = {}}

-----------------------------------------------------------------------------
(* Properties                                                              *)

\* A request that hangs is heard of, whatever was lost or came late beside
\* its own start, and however often its session's name was used before.
HangIsHeard ==
  \A b \in Branches : work[b].wait \in Arrived => work[b].wait \in OpenWaits

\* And only a request that hangs: one that is over is under the limit no
\* longer, once its own end or its session's end is known.
OverIsNotJudged ==
  \A i \in OpenWaits : \/ work[said[i].branch].wait = i
                   \/ \A e \in DOMAIN said :
                        (e > i /\ said[e].branch = said[i].branch
                           /\ (said[e].name = i \/ said[e].kind = "session_end")) => e \in Held

\* With nothing on the wire, the report of a run shows the phases it is in,
\* later laps too, and the turns of each open session and of no earlier one.
ArrivedInOrder == \A i \in DOMAIN log : log[i] = i
ReportedAsItIs ==
  ArrivedInOrder /\ Held = {} =>
    /\ {[branch |-> c.branch, phase |-> c.phase] : c \in currentPhases}
         = {[branch |-> b, phase |-> work[b].phase] : b \in {x \in Branches : work[x].phase # "none"}}
    /\ \A b \in Branches : turnsPerSession(b) =
         IF work[b].session THEN Cardinality({i \in DOMAIN said :
              said[i].branch = b /\ said[i].kind = "turn"
                /\ \A j \in i .. Len(said) : ~(said[j].branch = b /\ said[j].kind = "session_start")})
         ELSE 0

\* No reading makes a session's turns or a loop's laps more than they were,
\* with one event missing: only the start of the attempt or of the session,
\* or the end of the session before it, can do that.
Marks == {"session_start", "session_end"}
NotOvercounted ==
  \A b \in Branches :
    /\ (\A i \in Held : said[i].kind \notin Marks) =>
         turnsPerSession(b) <= Cardinality({i \in DOMAIN said : said[i].branch = b /\ said[i].kind = "turn"
              /\ i > Newest({j \in DOMAIN said : said[j].branch = b /\ said[j].kind = "session_start"})})
    /\ \A p \in FlowPhases \ {AttemptPhase} :
         (\A i \in Held : said[i].phase # AttemptPhase) =>
           phaseStarts(b, p) <= Cardinality({i \in DOMAIN said :
              said[i].branch = b /\ said[i].kind = "phase_start" /\ said[i].phase = p
                /\ i > Newest({j \in DOMAIN said : said[j].branch = b /\ said[j].phase = AttemptPhase
                                                     /\ said[j].kind = "phase_start"})})

\* A phase under its limit for the first time is judged by the time it began;
\* a phase that is over, and whose end is known, is not judged.
FirstLapIsJudged ==
  /\ \A i \in Arrived :
       (/\ said[i].kind = "phase_start" /\ work[said[i].branch].phase = said[i].phase
        /\ \A j \in DOMAIN said : (said[j].branch = said[i].branch /\ said[j].phase = said[i].phase
                                     /\ said[j].kind \in {"phase_start", "phase_end"}) => j = i)
         => i \in openPhases
  /\ \A i \in openPhases : \/ work[said[i].branch].phase = said[i].phase
                           \/ \E e \in Held : e > i /\ said[e].kind = "phase_end"

\* Whatever arrives and in what order, the counts stay under what happened and
\* a first lap is under its limit from its beginning to its end.
RecordInv == RecordTypeOK /\ NotOvercounted /\ FirstLapIsJudged

(* What the comments say and the code does not keep.                       *)

\* What is stopped for having closed too soon did run an agent there, and
\* closed without a turn.
ShortMeansIdle ==
  \A bp \in shortPhases : \E i \in DOMAIN said :
    said[i].kind = "session_start" /\ said[i].branch = bp[1] /\ said[i].phase = bp[2]
=============================================================================
