------------------------- MODULE AmmitAbsenceProofs -------------------------
(***************************************************************************)
(* Proofs about silence, for any number of runs, any limits that leave a   *)
(* beat its margin, and absences of this service at any step of its loop:  *)
(* what is read as the silence of a run is never our own.                  *)
(***************************************************************************)
EXTENDS AmmitAbsence, TLAPS

-----------------------------------------------------------------------------
(* What is invariant                                                       *)

Event == [kind : {"heartbeat", "work"}, age : Ages]
GateOf == [asked : Ages, events : Seq(Event)]
RunOf == [state : {"none", "open", "closed"}, where : {"stack", "host"},
          alive : BOOLEAN, born : Ages, sent : 0 .. Beat, heard : Heard]

\* Where the loop waits for nothing.
Between == {"rest", "boot"} \cup Passing
Steps   == Between \cup Waiting

\* What the loop holds in its hands.
HeldOK ==
  /\ found \in [Runs -> Ages \cup {Never}] /\ todo \subseteq Runs /\ hand \subseteq Runs
  /\ lived \in Ages /\ listened \in Ages /\ torn \in BOOLEAN

\* The absences too short for the clock, so far; and one it is yet to notice.
Slack == slips * Late
Tardy == last > Late

Live(r)  == run[r].state = "open" /\ run[r].alive
Waits(r) == gate[r].events # << >>
First(r) == gate[r].events[1].age
Latest(r) == IF Waits(r) THEN gate[r].events[Len(gate[r].events)].age ELSE run[r].heard.runner
Soon(r, n) == run[r].heard.runner <= n \/ up <= n

\* The readings of a live run are as young as the newest word of its runner,
\* or younger; and the stack's worker is there while a runner lives.
Hears(r) == Live(r) =>
  /\ worker
  /\ run[r].heard.beat = Never => run[r].heard.runner = run[r].born
  /\ run[r].where = "stack" /\ run[r].heard.beat # Never => run[r].heard.beat = run[r].heard.runner
  /\ run[r].heard.newest <= run[r].heard.runner /\ run[r].heard.said <= run[r].heard.runner

\* What waits is in the order it was sent in, and younger than what was heard.
Queued(r) == Live(r) => \A i \in DOMAIN gate[r].events :
  /\ gate[r].events[i].age <= run[r].heard.runner
  /\ \A j \in DOMAIN gate[r].events : i <= j => gate[r].events[j].age <= gate[r].events[i].age
  /\ gate[r].events[i].kind = "work" => run[r].where = "host" /\ run[r].heard.beat # Never
Asks(r) == (~Waits(r) => gate[r].asked = 0) /\ (run[r].state = "none" => ~Waits(r))

\* The runner spoke a beat ago, but for short absences; or the clock was set
\* back since, or is about to be.
Spoke(r) == Live(r) => Tardy \/ Latest(r) <= run[r].sent + Slack \/ up <= run[r].sent + Slack

\* So it was heard, while a word of it waits: within the margin, but for the
\* spell that goes on; or the word waits so long that the clock will be set back.
Margin == Beat + Late + Slack
Heeded(r) == Live(r) /\ Waits(r) =>
  \/ Tardy \/ gate[r].asked > Late \/ service = "down"
  \/ service = "up" /\ Soon(r, Margin)
  \/ service = "deaf" /\ gate[r].asked >= away /\ Soon(r, Margin + away)
  \/ service = "deaf" /\ Soon(r, Beat + Slack + gate[r].asked)

\* The word that waits first was sent since the clock was set back; or the clock
\* was since, and no round has begun in which we had listened for long.
Since(r) == Live(r) /\ Waits(r) =>
  \/ Tardy \/ First(r) <= up \/ service = "down"
  \/ service = "up" /\ up <= Slack
  \/ service = "deaf" /\ up <= Slack + away /\ (gate[r].asked >= away \/ gate[r].asked > Late)
  \/ gate[r].asked > Late /\ pc \notin Between
Fresh(r) == Live(r) /\ Waits(r) /\ gate[r].asked = 0 =>
  Tardy \/ service = "down" \/ run[r].heard.runner <= up \/ up <= Beat + Slack

\* Of a run that sweepCrashed is about to look at, we heard since, or what waits
\* in front of it in the line for the writer was sent since.
Looked(r) == Live(r) /\ pc = "crash" =>
  \/ run[r].heard.runner <= since \/ run[r].born <= since
  \/ Waits(r) /\ gate[r].asked > 0 /\ gate[r].asked >= last /\ First(r) <= since

\* While the loop rests the round is as old as the spell.
Rests == service = "deaf" /\ pc \in Between => away = 0 \/ (away <= last /\ last <= Late)

Holds(r) ==
  Hears(r) /\ Queued(r) /\ Asks(r) /\ Spoke(r) /\ Heeded(r) /\ Since(r) /\ Fresh(r) /\ Looked(r)
IInv == TypeOK /\ Rests /\ \A r \in Runs : Holds(r)

-----------------------------------------------------------------------------
(* Numbers                                                                 *)

\* The limits, as the proofs use them.
LEMMA Limits ==
  /\ Tick \in Nat /\ Late \in Nat /\ Beat \in Nat /\ Heartbeat \in Nat /\ Gone \in Nat /\ RunLimit \in Nat
  /\ Cap \in Nat /\ MaxSlips \in Nat /\ MaxBreaks \in Nat /\ MaxAway \in 0 .. Cap
  /\ Tick > 0 /\ Late > 0 /\ Beat > 0 /\ Tick <= Late /\ Heartbeat < Gone /\ Gone < Cap
  /\ Heartbeat <= RunLimit /\ Beat + (MaxSlips + 1) * Late <= Heartbeat
<1>1. \A limit \in {Tick, Late, Beat, Heartbeat, Gone, RunLimit} : limit \in Nat /\ limit > 0
  BY LimitsAssumption
<1>2. Gone < Cap
  BY LimitsAssumption
<1>3. Cap \in Nat
  BY <1>1, <1>2, LimitsAssumption, BoundsAssumption
<1> QED  BY <1>1, <1>2, <1>3, LimitsAssumption, BoundsAssumption, MarginAssumption

\* Short absences add up to what the margin leaves room for.
LEMMA SlackIs ==
  ASSUME slips \in 0 .. MaxSlips
  PROVE  Slack \in Nat /\ Margin <= Heartbeat /\ Margin = Beat + Late + Slack
<1>1. \A m, l \in Nat : \A s \in 0 .. m : s * l \in Nat /\ s * l + l <= (m + 1) * l
  <2> SUFFICES ASSUME NEW m \in Nat, NEW l \in Nat, NEW s \in 0 .. m
               PROVE  s * l \in Nat /\ s * l + l <= (m + 1) * l
    OBVIOUS
  <2>1. (m + 1) * l = s * l + (m - s) * l + l
    OBVIOUS
  <2>2. m - s \in Nat
    OBVIOUS
  <2>3. (m - s) * l \in Nat /\ s * l \in Nat
    BY <2>2
  <2> QED  BY <2>1, <2>3
<1>2. Slack \in Nat /\ Slack + Late <= (MaxSlips + 1) * Late
  BY <1>1, Limits DEF Slack
<1> HIDE DEF Slack
<1>3. (MaxSlips + 1) * Late \in Nat
  BY Limits
<1> QED  BY <1>2, <1>3, Limits DEF Margin

\* One more of them.
LEMMA SlackGrows ==
  ASSUME slips \in 0 .. MaxSlips, slips' = slips + 1
  PROVE  Slack' = Slack + Late
BY Limits DEF Slack

\* What grows older is bounded, and keeps its order.
LEMMA OlderIs ==
  ASSUME NEW n \in Nat
  PROVE  /\ \A a \in Ages : Older(a, n) \in Ages /\ a <= Older(a, n) /\ Older(a, n) <= a + n
                            /\ (Older(a, n) = a + n \/ Older(a, n) = Cap)
         /\ \A a, b \in Ages : a <= b => Older(a, n) <= Older(b, n)
         /\ Older(Never, n) = Never
BY Limits DEF Older, Ages, Never
LEMMA OlderIsNat ==
  ASSUME NEW n \in Nat, NEW a \in Ages
  PROVE  a \in Nat /\ Older(a, n) \in Nat /\ (n > 0 => Older(a, n) > 0)
BY Limits DEF Older, Ages, Never

-----------------------------------------------------------------------------
(* Types                                                                   *)

\* What is of which kind, run by run.
LEMMA TypeIs ==
  ASSUME TypeOK, NEW r \in Runs
  PROVE  /\ run[r] \in RunOf /\ run[r].state \in {"none", "open", "closed"} /\ run[r].where \in {"stack", "host"}
         /\ run[r].alive \in BOOLEAN /\ run[r].born \in Ages /\ run[r].sent \in 0 .. Beat /\ run[r].heard \in Heard
         /\ run[r].heard.beat \in Ages \cup {Never} /\ run[r].heard.runner \in Ages /\ run[r].heard.said \in Ages
         /\ run[r].heard.newest \in Ages /\ run[r].heard.work \in Ages
         /\ gate[r] \in GateOf /\ gate[r].asked \in Ages /\ gate[r].events \in Seq(Event)
<1>1. run[r] \in RunOf /\ gate[r] \in GateOf
  BY DEF TypeOK, RunOf, GateOf, Event
<1>2. run[r].state \in {"none", "open", "closed"} /\ run[r].where \in {"stack", "host"}
      /\ run[r].alive \in BOOLEAN /\ run[r].born \in Ages /\ run[r].sent \in 0 .. Beat /\ run[r].heard \in Heard
  BY <1>1 DEF RunOf
<1>3. run[r].heard.beat \in Ages \cup {Never} /\ run[r].heard.runner \in Ages /\ run[r].heard.said \in Ages
      /\ run[r].heard.newest \in Ages /\ run[r].heard.work \in Ages
  BY <1>2 DEF Heard
<1>4. gate[r].asked \in Ages /\ gate[r].events \in Seq(Event)
  BY <1>1 DEF GateOf
<1> QED  BY <1>1, <1>2, <1>3, <1>4

\* And what is one for all.
LEMMA LoopIs ==
  ASSUME TypeOK
  PROVE  /\ up \in Ages /\ last \in Ages /\ since \in Ages /\ away \in Ages /\ slips \in 0 .. MaxSlips
         /\ service \in {"up", "deaf", "down"} /\ pc \in Steps
BY DEF TypeOK, Steps, Between

\* The line of a run, word by word.
LEMMA LineIs ==
  ASSUME TypeOK, NEW r \in Runs
  PROVE  /\ Len(gate[r].events) \in Nat /\ DOMAIN gate[r].events = 1 .. Len(gate[r].events)
         /\ Waits(r) <=> Len(gate[r].events) > 0
         /\ \A i \in DOMAIN gate[r].events : /\ gate[r].events[i] \in Event /\ gate[r].events[i].age \in Ages
                                             /\ gate[r].events[i].kind \in {"heartbeat", "work"}
<1>1. gate[r].events \in Seq(Event)
  BY TypeIs
<1>2. Len(gate[r].events) \in Nat /\ DOMAIN gate[r].events = 1 .. Len(gate[r].events)
      /\ (gate[r].events # << >> <=> Len(gate[r].events) > 0)
  BY <1>1
<1>3. \A i \in DOMAIN gate[r].events : gate[r].events[i] \in Event
  BY <1>1
<1>4. \A e \in Event : e.age \in Ages /\ e.kind \in {"heartbeat", "work"}
  BY DEF Event
<1> QED  BY <1>2, <1>3, <1>4 DEF Waits

-----------------------------------------------------------------------------
(* Time passes                                                             *)

\* What was heard grows older.
LEMMA HeardAges ==
  ASSUME NEW h \in Heard, NEW n \in Nat
  PROVE  LET o == [reading \in DOMAIN h |-> Older(h[reading], n)]
         IN  /\ o \in Heard /\ o.beat = Older(h.beat, n) /\ o.runner = Older(h.runner, n)
             /\ o.said = Older(h.said, n) /\ o.newest = Older(h.newest, n)
<1> DEFINE o == [reading \in DOMAIN h |-> Older(h[reading], n)]
<1>1. o \in Heard
  BY Limits DEF Heard, Older, Ages, Never
<1>2. o.beat = Older(h.beat, n) /\ o.runner = Older(h.runner, n) /\ o.said = Older(h.said, n) /\ o.newest = Older(h.newest, n)
  BY DEF Heard
<1> QED  BY <1>1, <1>2

\* A run does.
Grown(x, n, awake) ==
  [x EXCEPT !.born = Older(@, n), !.sent = IF awake /\ x.alive THEN @ + n ELSE @,
            !.heard = [reading \in DOMAIN @ |-> Older(@[reading], n)]]
LEMMA RunAges ==
  ASSUME NEW x \in RunOf, NEW n \in Nat, NEW awake \in BOOLEAN, awake /\ x.alive => x.sent + n <= Beat
  PROVE  /\ Grown(x, n, awake) \in RunOf
         /\ Grown(x, n, awake).state = x.state /\ Grown(x, n, awake).where = x.where /\ Grown(x, n, awake).alive = x.alive
         /\ Grown(x, n, awake).born = Older(x.born, n)
         /\ Grown(x, n, awake).sent = IF awake /\ x.alive THEN x.sent + n ELSE x.sent
         /\ Grown(x, n, awake).heard.beat = Older(x.heard.beat, n)
         /\ Grown(x, n, awake).heard.runner = Older(x.heard.runner, n)
         /\ Grown(x, n, awake).heard.said = Older(x.heard.said, n)
         /\ Grown(x, n, awake).heard.newest = Older(x.heard.newest, n)
<1> DEFINE b == Older(x.born, n)
           s == IF awake /\ x.alive THEN x.sent + n ELSE x.sent
           h == [reading \in DOMAIN x.heard |-> Older(x.heard[reading], n)]
<1>1. x.born \in Ages /\ x.sent \in 0 .. Beat /\ x.heard \in Heard
  BY DEF RunOf
<1>2. b \in Ages /\ s \in 0 .. Beat
  BY <1>1, OlderIs, Limits
<1>3. h \in Heard /\ h.beat = Older(x.heard.beat, n) /\ h.runner = Older(x.heard.runner, n)
      /\ h.said = Older(x.heard.said, n) /\ h.newest = Older(x.heard.newest, n)
  BY <1>1, HeardAges
<1>4. Grown(x, n, awake) = [x EXCEPT !.born = b, !.sent = s, !.heard = h]
  BY DEF Grown
<1> HIDE DEF b, s, h
<1>5. LET y == Grown(x, n, awake)
      IN  /\ y \in RunOf /\ y.state = x.state /\ y.where = x.where /\ y.alive = x.alive
          /\ y.born = b /\ y.sent = s /\ y.heard = h
  BY <1>2, <1>3, <1>4 DEF RunOf
<1> QED  BY <1>3, <1>5 DEF b, s

\* And what waits does.
LEMMA GateAges ==
  ASSUME NEW es \in Seq(Event), NEW n \in Nat
  PROVE  LET os == [i \in DOMAIN es |-> [es[i] EXCEPT !.age = Older(@, n)]]
         IN  /\ os \in Seq(Event) /\ Len(os) = Len(es) /\ DOMAIN os = DOMAIN es
             /\ \A i \in DOMAIN es : os[i].age = Older(es[i].age, n) /\ os[i].kind = es[i].kind
<1> DEFINE os == [i \in DOMAIN es |-> [es[i] EXCEPT !.age = Older(@, n)]]
<1>1. \A e \in Event : e.age \in Ages
  BY DEF Event
<1>2. \A e \in Event : Older(e.age, n) \in Ages
  BY <1>1, OlderIs
<1>3. \A e \in Event : \A a \in Ages : [e EXCEPT !.age = a] \in Event /\ [e EXCEPT !.age = a].age = a
                                        /\ [e EXCEPT !.age = a].kind = e.kind
  BY DEF Event
<1>4. DOMAIN es = 1 .. Len(es) /\ Len(es) \in Nat /\ \A i \in DOMAIN es : es[i] \in Event
  OBVIOUS
<1>5. \A i \in DOMAIN es : os[i] \in Event /\ os[i].age = Older(es[i].age, n) /\ os[i].kind = es[i].kind
  BY <1>2, <1>3, <1>4
<1>6. os \in [1 .. Len(es) -> Event]
  BY <1>4, <1>5
<1>7. os \in Seq(Event) /\ Len(os) = Len(es)
  <2> HIDE DEF os
  <2> QED  BY <1>4, <1>6
<1> QED  BY <1>4, <1>5, <1>7
-----------------------------------------------------------------------------
(* Numbers, run by run                                                     *)

\* All that the parts of the invariant compare is a number.
Typed(r) ==
  /\ up \in Nat /\ last \in Nat /\ since \in Nat /\ away \in Nat /\ Slack \in Nat
  /\ run[r].heard.runner \in Nat /\ run[r].born \in Nat /\ run[r].sent \in 0 .. Beat
  /\ run[r].heard.said \in Nat /\ run[r].heard.newest \in Nat /\ gate[r].asked \in Nat
  /\ run[r].heard.beat # Never => run[r].heard.beat \in Nat
  /\ run[r].alive \in BOOLEAN /\ Len(gate[r].events) \in Nat
  /\ DOMAIN gate[r].events = 1 .. Len(gate[r].events)
  /\ Waits(r) => 1 \in DOMAIN gate[r].events /\ Len(gate[r].events) \in DOMAIN gate[r].events
  /\ \A i \in DOMAIN gate[r].events : gate[r].events[i].age \in Nat
LEMMA TypedIs == TypeOK => \A r \in Runs : Typed(r)
<1> SUFFICES ASSUME TypeOK, NEW r \in Runs PROVE Typed(r)
  OBVIOUS
<1>1. \A a \in Ages : a \in Nat
  BY Limits DEF Ages
<1>2. Len(gate[r].events) \in Nat /\ DOMAIN gate[r].events = 1 .. Len(gate[r].events)
      /\ (Waits(r) <=> Len(gate[r].events) > 0)
      /\ \A i \in DOMAIN gate[r].events : gate[r].events[i].age \in Ages
  BY LineIs
<1>3. Waits(r) => 1 \in DOMAIN gate[r].events /\ Len(gate[r].events) \in DOMAIN gate[r].events
  BY <1>2
<1>4. slips \in 0 .. MaxSlips
  BY LoopIs
<1>5. Slack \in Nat
  BY <1>4, SlackIs
<1> QED  BY <1>1, <1>2, <1>3, <1>5, TypeIs, LoopIs DEF Typed
-----------------------------------------------------------------------------
(* Steps that leave a run alone                                            *)

\* Of a run whose runner does not live little is asked.
LEMMA Quiet ==
  ASSUME NEW r \in Runs, ~Live(r)', Asks(r)'
  PROVE  Holds(r)'
BY DEF Holds, Hears, Queued, Spoke, Heeded, Since, Fresh, Looked

\* Nothing of the run changes, and the clock goes on or is set back; the loop
\* does not move, or leaves the step it was at.
Untouched(r) == run'[r] = run[r] /\ gate'[r] = gate[r] /\ worker' = worker
LEMMA Rewound ==
  ASSUME NEW r \in Runs, Holds(r), Typed(r), Untouched(r),
         UNCHANGED <<service, away, slips>>,
         service = "up" \/ (service = "deaf" /\ away = 0), up' = 0,
         pc' = "crash" => pc = "crash" /\ since' = since /\ last' = last
  PROVE  Holds(r)'
<1>0. Slack' = Slack /\ Slack \in Nat /\ up' = 0 /\ away' = away /\ service' = service
  BY DEF Slack, Typed
<1>1. Live(r)' = Live(r) /\ Waits(r)' = Waits(r) /\ Latest(r)' = Latest(r) /\ First(r)' = First(r)
  BY DEF Untouched, Live, Waits, Latest, First
<1>2. Hears(r)' /\ Queued(r)' /\ Asks(r)'
  BY <1>1 DEF Untouched, Holds, Hears, Queued, Asks, Waits
<1>3. Spoke(r)'
  BY <1>0, <1>1 DEF Untouched, Spoke, Typed
<1>4. Heeded(r)'
  BY <1>0, <1>1, Limits DEF Untouched, Heeded, Soon, Margin, Typed
<1>5. Since(r)'
  BY <1>0, <1>1 DEF Untouched, Since, Typed, Holds
<1>6. Fresh(r)'
  BY <1>0, <1>1, Limits DEF Untouched, Fresh, Typed
<1>7. Looked(r)'
  BY <1>1 DEF Untouched, Holds, Looked
<1> QED  BY <1>2, <1>3, <1>4, <1>5, <1>6, <1>7 DEF Holds

LEMMA Kept ==
  ASSUME NEW r \in Runs, Holds(r), Untouched(r),
         UNCHANGED <<up, last, since, pc, service, away, slips>>
  PROVE  Holds(r)'
<1>1. Live(r)' = Live(r) /\ Waits(r)' = Waits(r) /\ Latest(r)' = Latest(r) /\ First(r)' = First(r)
      /\ Slack' = Slack /\ Margin' = Margin /\ Tardy' = Tardy
  BY DEF Untouched, Live, Waits, Latest, First, Slack, Margin, Tardy
<1>2. Hears(r)' /\ Queued(r)' /\ Asks(r)'
  BY <1>1 DEF Untouched, Holds, Hears, Queued, Asks, Waits
<1>3. Spoke(r)' /\ Heeded(r)' /\ Since(r)' /\ Fresh(r)' /\ Looked(r)'
  BY <1>1 DEF Untouched, Holds, Spoke, Heeded, Soon, Since, Fresh, Looked
<1> QED  BY <1>2, <1>3 DEF Holds
-----------------------------------------------------------------------------
(* The runner and its events                                               *)

\* What is heard when an event is.
LEMMA SaidIs ==
  ASSUME NEW kind \in {"heartbeat", "work", "progress"}, NEW age \in Ages, NEW h \in Heard
  PROVE  LET s == Said(kind, age, h)
         IN  /\ s \in Heard /\ s.said = age /\ s.newest <= age /\ s.newest <= h.newest
             /\ s.beat = IF kind = "heartbeat" THEN age ELSE h.beat
             /\ s.runner = IF kind = "progress" THEN h.runner ELSE age
<1> DEFINE b == IF kind = "heartbeat" THEN age ELSE h.beat
           u == IF kind = "progress" THEN h.runner ELSE age
           w == IF kind = "heartbeat" THEN h.work ELSE age
           n == Least(age, h.newest)
<1>1. h.beat \in Ages \cup {Never} /\ h.runner \in Ages /\ h.work \in Ages /\ h.newest \in Ages
  BY DEF Heard
<1>2. b \in Ages \cup {Never} /\ u \in Ages /\ w \in Ages
  BY <1>1
<1>3. n \in Ages /\ n <= age /\ n <= h.newest
  BY <1>1, Limits DEF Least, Ages
<1>4. Said(kind, age, h) = [beat |-> b, runner |-> u, work |-> w, said |-> age, newest |-> n]
  BY DEF Said
<1> HIDE DEF b, u, w, n
<1>5. LET s == Said(kind, age, h)
      IN  s \in Heard /\ s.said = age /\ s.newest = n /\ s.beat = b /\ s.runner = u
  BY <1>2, <1>3, <1>4 DEF Heard
<1> QED  BY <1>3, <1>5 DEF b, u

\* And what becomes of the row.
Told(x, h)   == [x EXCEPT !.heard = h]
Spoken(x, h) == [x EXCEPT !.sent = 0, !.heard = h]
Silent(x)    == [x EXCEPT !.alive = FALSE, !.sent = 0]
LEMMA RowIs ==
  ASSUME NEW x \in RunOf, NEW h \in Heard
  PROVE  /\ Told(x, h) \in RunOf /\ Told(x, h).heard = h /\ Told(x, h).sent = x.sent
         /\ Told(x, h).state = x.state /\ Told(x, h).alive = x.alive
         /\ Told(x, h).born = x.born /\ Told(x, h).where = x.where
         /\ Spoken(x, h) \in RunOf /\ Spoken(x, h).heard = h /\ Spoken(x, h).sent = 0
         /\ Spoken(x, h).state = x.state /\ Spoken(x, h).alive = x.alive
         /\ Spoken(x, h).born = x.born /\ Spoken(x, h).where = x.where
         /\ Silent(x) \in RunOf /\ Silent(x).state = x.state /\ Silent(x).alive = FALSE
<1>1. 0 \in 0 .. Beat
  BY Limits
<1> QED  BY <1>1 DEF RunOf, Told, Spoken, Silent

\* A run and its line are of their kinds when they are so run by run.
LEMMA TypeByRun ==
  ASSUME TypeOK, up' \in Ages, last' \in Ages, since' \in Ages, away' \in Ages,
         swept' \in BOOLEAN, worker' \in BOOLEAN,
         pc' \in Steps, service' \in {"up", "deaf", "down"},
         run' \in [Runs -> RunOf], gate' \in [Runs -> GateOf],
         breaks' \in 0 .. MaxBreaks, slips' \in 0 .. MaxSlips, HeldOK'
  PROVE  TypeOK'
BY DEF TypeOK, RunOf, GateOf, Event, HeldOK, Steps, Between

LEMMA TypeAll ==
  ASSUME TypeOK
  PROVE  /\ up \in Ages /\ last \in Ages /\ since \in Ages /\ away \in Ages
         /\ swept \in BOOLEAN /\ worker \in BOOLEAN
         /\ pc \in Steps /\ service \in {"up", "deaf", "down"}
         /\ run \in [Runs -> RunOf] /\ gate \in [Runs -> GateOf]
         /\ breaks \in 0 .. MaxBreaks /\ slips \in 0 .. MaxSlips /\ HeldOK
BY DEF TypeOK, RunOf, GateOf, Event, HeldOK, Steps, Between
LEMMA HeldStays ==
  ASSUME HeldOK, UNCHANGED <<held, torn>>
  PROVE  HeldOK'
BY DEF HeldOK, held
LEMMA StepsAre == \A s \in {"rest", "boot", "crash", "abandon", "snapshot", "close", "weigh", "open", "born", "pulse",
                            "host", "heard", "finish", "sweep", "read", "next", "worker"} : s \in Steps
BY DEF Steps, Between, Waiting, Passing
LEMMA BetweenAre ==
  /\ \A s \in {"rest", "boot", "sweep", "read", "next", "worker"} : s \in Between
  /\ \A s \in Waiting \cup {"crash", "abandon"} : s \notin Between
BY DEF Between, Waiting, Passing

LEMMA ZeroAge == 0 \in Ages /\ Unborn \in RunOf /\ Unborn.heard \in Heard
<1>1. 0 \in Ages /\ 0 \in 0 .. Beat
  BY Limits DEF Ages
<1> QED  BY <1>1 DEF Unborn, RunOf, Heard

LEMMA StartKeeps ==
  ASSUME IInv, ~HostAlone, NEW r \in Runs, NEW where \in Places, Start(r, where)
  PROVE  IInv'
<1> DEFINE x == [Unborn EXCEPT !.state = "open", !.where = where, !.alive = TRUE, !.sent = Beat]
<1>1. x \in RunOf /\ x.state = "open" /\ x.alive /\ x.sent = Beat /\ x.heard = Unborn.heard /\ x.born = 0
      /\ x.heard.beat = Never /\ x.heard.runner = 0 /\ x.heard.said = 0 /\ x.heard.newest = 0
  <2>1. Beat \in 0 .. Beat /\ where \in {"stack", "host"}
    BY Limits, BoundsAssumption
  <2>2. Unborn.heard.beat = Never /\ Unborn.heard.runner = 0 /\ Unborn.heard.said = 0
        /\ Unborn.heard.newest = 0 /\ Unborn.born = 0
    BY DEF Unborn
  <2> QED  BY <2>1, <2>2, ZeroAge DEF RunOf
<1>2. run' = [run EXCEPT ![r] = x] /\ UNCHANGED <<loop, service, away, worker, gate, breaks, slips>>
      /\ worker /\ service = "up" /\ run[r].state = "none"
  BY DEF Start
<1> HIDE DEF x
<1>3. TypeOK /\ run \in [Runs -> RunOf]
  BY TypeAll DEF IInv
<1>4. TypeOK'
  <2>1. run' \in [Runs -> RunOf]
    BY <1>1, <1>2, <1>3
  <2> QED  BY <2>1, <1>2, <1>3, TypeAll, TypeByRun, HeldStays, StepsAre DEF loop
<1>5. Rests'
  BY <1>2 DEF Rests
<1>6. ASSUME NEW q \in Runs, q # r PROVE Holds(q)'
  BY <1>2, <1>3, <1>6, Kept DEF IInv, Untouched, loop
<1>7. Holds(r)'
  <2>1. run'[r] = x /\ gate'[r] = gate[r] /\ Holds(r) /\ Typed(r)
    BY <1>2, <1>3, TypedIs DEF IInv
  <2>2. ~Waits(r) /\ gate[r].asked = 0
    BY <1>2, <2>1 DEF Holds, Asks
  <2>3. gate[r].events = << >> /\ ~Waits(r)'
    BY <2>1, <2>2 DEF Waits
  <2>4. since' = since /\ since \in Nat
    BY <1>2, <2>1 DEF Typed, loop
  <2>5. Hears(r)' /\ Queued(r)' /\ Asks(r)'
    <3>1. Hears(r)' /\ Asks(r)'
      BY <1>1, <1>2, <2>1, <2>2, <2>3 DEF Hears, Asks
    <3>2. DOMAIN gate'[r].events = {}
      BY <2>1, <2>3
    <3> QED  BY <3>1, <3>2 DEF Queued
  <2>6. Spoke(r)'
    <3>1. Latest(r)' = 0 /\ run'[r].sent = Beat /\ Slack' = Slack
      BY <1>1, <1>2, <2>1, <2>3 DEF Latest, Slack
    <3>2. Slack \in Nat
      BY <2>1 DEF Typed
    <3> QED  BY <3>1, <3>2, Limits DEF Spoke
  <2>7. Looked(r)'
    BY <1>1, <2>1, <2>4 DEF Looked
  <2>8. Heeded(r)' /\ Since(r)' /\ Fresh(r)'
    BY <2>3 DEF Heeded, Since, Fresh
  <2> QED  BY <1>1, <2>1, <2>5, <2>6, <2>7, <2>8 DEF Holds
<1> QED  BY <1>4, <1>5, <1>6, <1>7 DEF IInv
\* What a runner says is heard at once, or joins the line.
LEMMA SendKeeps ==
  ASSUME IInv, ~HostAlone, NEW r \in Runs, NEW kind \in {"heartbeat", "work"}, Send(r, kind)
  PROVE  IInv'
<1>1. /\ run[r].state = "open" /\ run[r].alive
      /\ kind = "work" => run[r].where = "host" /\ run[r].heard.beat # Never
      /\ UNCHANGED <<loop, service, away, worker, breaks, slips>>
  BY DEF Send
<1>2. TypeOK /\ Holds(r) /\ Typed(r) /\ Rests
  BY TypedIs DEF IInv
<1>3. UNCHANGED <<up, last, swept, since, pc, service, away, worker, slips>> /\ Slack' = Slack /\ Slack \in Nat
      /\ Margin' = Margin /\ Tardy' = Tardy
  BY <1>1, <1>2 DEF loop, Slack, Margin, Tardy, Typed
<1>4. Rests'
  BY <1>2, <1>3 DEF Rests
<1>5. CASE service = "up" /\ gate[r].events = << >>
  <2> DEFINE h == Said(kind, 0, run[r].heard)
             x == Spoken(run[r], h)
  <2>1. h \in Heard /\ h.said = 0 /\ h.newest <= 0 /\ h.runner = 0
        /\ h.beat = IF kind = "heartbeat" THEN 0 ELSE run[r].heard.beat
    BY <1>2, TypeIs, ZeroAge, SaidIs
  <2>2. x \in RunOf /\ x.heard = h /\ x.state = "open" /\ x.alive /\ x.born = run[r].born
        /\ x.where = run[r].where /\ x.sent = 0
    <3>1. run[r] \in RunOf /\ run[r].state = "open" /\ run[r].alive
      BY <1>1, <1>2, TypeIs
    <3> HIDE DEF h
    <3> QED  BY <2>1, <3>1, RowIs
  <2>3. run' = [run EXCEPT ![r] = x] /\ gate' = gate
    BY <1>5 DEF Send, Spoken
  <2> HIDE DEF x, h
  <2>4. TypeOK'
    <3>1. run' \in [Runs -> RunOf]
      BY <1>2, <2>2, <2>3, TypeAll
    <3> QED  BY <3>1, <1>1, <1>2, <2>3, TypeAll, TypeByRun, HeldStays, StepsAre DEF loop
  <2>5. ASSUME NEW q \in Runs, q # r PROVE Holds(q)'
    <3>1. Untouched(q)
      BY <1>2, <1>3, <2>3, <2>5, TypeAll DEF Untouched
    <3> QED  BY <1>3, <3>1, Kept DEF IInv
  <2>6. run'[r] = x /\ gate'[r] = gate[r] /\ ~Waits(r) /\ ~Waits(r)'
    BY <1>2, <1>5, <2>3, TypeAll DEF Waits
  <2>7. Hears(r)'
    BY <1>1, <1>2, <1>3, <2>1, <2>2, <2>6, ZeroAge DEF Hears, Holds, Live, Never
  <2>8. Queued(r)' /\ Asks(r)'
    <3>1. DOMAIN gate'[r].events = {}
      BY <2>6 DEF Waits
    <3> QED  BY <3>1, <1>2, <2>2, <2>6 DEF Queued, Asks, Holds
  <2>9. Spoke(r)'
    <3>1. Latest(r)' = 0 /\ run'[r].sent = 0
      BY <2>1, <2>2, <2>6 DEF Latest
    <3> QED  BY <3>1, <1>3 DEF Spoke
  <2>10. Looked(r)'
    BY <1>2, <1>3, <2>1, <2>2, <2>6 DEF Looked, Typed
  <2>11. Heeded(r)' /\ Since(r)' /\ Fresh(r)'
    BY <2>6 DEF Heeded, Since, Fresh
  <2> QED  BY <1>4, <2>2, <2>4, <2>5, <2>6, <2>7, <2>8, <2>9, <2>10, <2>11 DEF IInv, Holds
<1>6. CASE ~(service = "up" /\ gate[r].events = << >>)
  <2> DEFINE e == [kind |-> kind, age |-> 0]
             g == [gate[r] EXCEPT !.events = Append(@, e)]
             x == Spoken(run[r], run[r].heard)
             n == Len(gate[r].events)
  <2>1. e \in Event /\ e.age = 0 /\ e.kind = kind
    BY ZeroAge DEF Event
  <2>2. x \in RunOf /\ x.heard = run[r].heard /\ x.state = run[r].state /\ x.alive = run[r].alive
        /\ x.born = run[r].born /\ x.where = run[r].where /\ x.sent = 0
    BY <1>2, RowIs, TypeIs
  <2>3. run' = [run EXCEPT ![r] = x] /\ gate' = [gate EXCEPT ![r] = g]
    <3>1. x = [run[r] EXCEPT !.sent = 0]
      BY <1>2, TypeIs DEF Spoken, RunOf
    <3> QED  BY <1>6, <3>1 DEF Send
  <2>4. g \in GateOf /\ g.asked = gate[r].asked /\ g.events = Append(gate[r].events, e)
    <3>1. Append(gate[r].events, e) \in Seq(Event)
      BY <1>2, <2>1, TypeIs
    <3> HIDE DEF e
    <3> QED  BY <1>2, <3>1, TypeIs DEF GateOf
  <2> HIDE DEF x, g
  <2>5. n \in Nat /\ DOMAIN gate[r].events = 1 .. n /\ (Waits(r) <=> n > 0)
        /\ DOMAIN g.events = 1 .. (n + 1) /\ Len(g.events) = n + 1 /\ g.events # << >>
        /\ g.events[n + 1] = e /\ \A i \in 1 .. n : g.events[i] = gate[r].events[i]
    <3>1. gate[r].events \in Seq(Event) /\ e \in Event
      BY <1>2, <2>1, TypeIs
    <3> HIDE DEF e
    <3> QED  BY <1>2, <2>4, <3>1, LineIs
  <2> HIDE DEF n
  <2>6. TypeOK'
    <3>1. run' \in [Runs -> RunOf] /\ gate' \in [Runs -> GateOf]
      BY <1>2, <2>2, <2>3, <2>4, TypeAll
    <3> QED  BY <3>1, <1>1, <1>2, TypeAll, TypeByRun, HeldStays, StepsAre DEF loop
  <2>7. ASSUME NEW q \in Runs, q # r PROVE Holds(q)'
    <3>1. Untouched(q)
      BY <1>2, <1>3, <2>3, <2>7, TypeAll DEF Untouched
    <3> QED  BY <1>3, <3>1, Kept DEF IInv
  <2>8. run'[r] = x /\ gate'[r] = g /\ Waits(r)' /\ Live(r) /\ Live(r)'
    BY <1>1, <1>2, <2>2, <2>3, <2>5, TypeAll DEF Waits, Live
  <2>9. Hears(r)'
    BY <1>1, <1>2, <1>3, <2>2, <2>8 DEF Hears, Holds
  <2>10. Queued(r)'
    <3>1. \A i \in 1 .. n : g.events[i].age <= run[r].heard.runner /\ 0 <= g.events[i].age
            /\ (\A j \in 1 .. n : i <= j => g.events[j].age <= g.events[i].age)
            /\ (g.events[i].kind = "work" => run[r].where = "host" /\ run[r].heard.beat # Never)
      <4>1. \A i \in 1 .. n : gate[r].events[i].age \in Nat /\ g.events[i] = gate[r].events[i]
        BY <1>2, <2>5 DEF Typed
      <4>2. \A i \in 1 .. n :
              /\ gate[r].events[i].age <= run[r].heard.runner
              /\ \A j \in 1 .. n : i <= j => gate[r].events[j].age <= gate[r].events[i].age
              /\ gate[r].events[i].kind = "work" => run[r].where = "host" /\ run[r].heard.beat # Never
        BY <1>2, <2>5, <2>8 DEF Queued, Holds
      <4> QED  BY <4>1, <4>2
    <3>2. g.events[n + 1].age = 0 /\ g.events[n + 1].kind = kind /\ 0 <= run[r].heard.runner
      BY <1>2, <2>1, <2>5 DEF Typed
    <3>3. \A i \in 1 .. (n + 1) : i \in 1 .. n \/ i = n + 1
      BY <2>5
    <3>4. \A i \in 1 .. (n + 1) : g.events[i].age <= run[r].heard.runner
            /\ (\A j \in 1 .. (n + 1) : i <= j => g.events[j].age <= g.events[i].age)
            /\ (g.events[i].kind = "work" => run[r].where = "host" /\ run[r].heard.beat # Never)
      BY <1>1, <3>1, <3>2, <3>3, <2>5
    <3> QED  BY <3>4, <2>2, <2>5, <2>8 DEF Queued
  <2>11. Asks(r)'
    BY <1>1, <2>2, <2>8 DEF Asks
  <2>12. Spoke(r)'
    <3>1. Latest(r)' = 0 /\ run'[r].sent = 0
      BY <2>1, <2>2, <2>5, <2>8 DEF Latest
    <3> QED  BY <3>1, <1>3 DEF Spoke
  <2>13. CASE Waits(r)
    <3>1. First(r)' = First(r)
      <4>1. 1 \in 1 .. n
        BY <2>5, <2>13
      <4> QED  BY <2>5, <2>8, <4>1 DEF First
    <3>2. Heeded(r)' /\ Since(r)' /\ Fresh(r)' /\ Looked(r)'
      BY <1>2, <1>3, <2>2, <2>4, <2>8, <2>13, <3>1 DEF Heeded, Soon, Since, Fresh, Looked, Holds
    <3> QED  BY <1>1, <1>4, <2>2, <2>6, <2>7, <2>8, <2>9, <2>10, <2>11, <2>12, <3>2 DEF IInv, Holds
  <2>14. CASE ~Waits(r)
    <3>1. First(r)' = 0 /\ service # "up" /\ gate'[r].asked = 0 /\ gate[r].asked = 0
      BY <1>2, <1>6, <2>1, <2>4, <2>5, <2>8, <2>14 DEF First, Waits, Asks, Holds
    <3>2. Tardy \/ run[r].heard.runner <= Beat + Slack \/ up <= Beat + Slack
      <4>1. Tardy \/ run[r].heard.runner <= run[r].sent + Slack \/ up <= run[r].sent + Slack
        BY <1>2, <2>8, <2>14 DEF Holds, Spoke, Latest
      <4>2. run[r].sent \in 0 .. Beat /\ Beat \in Nat /\ Slack \in Nat /\ run[r].heard.runner \in Nat /\ up \in Nat
        BY <1>2, Limits DEF Typed
      <4> QED  BY <4>1, <4>2
    <3>3. Heeded(r)'
      <4>1. Tardy \/ Soon(r, Beat + Slack + 0)
        BY <3>2, <1>2, Limits DEF Soon, Typed
      <4>2. service \in {"deaf", "down"}
        BY <1>2, <3>1, LoopIs
      <4> QED  BY <4>1, <4>2, <3>1, <1>3, <2>2, <2>8 DEF Heeded, Soon
    <3>4. Since(r)' /\ Fresh(r)'
      BY <3>1, <3>2, <1>2, <1>3, <2>2, <2>8, Limits DEF Since, Fresh, Typed
    <3>5. Looked(r)'
      BY <1>2, <1>3, <2>2, <2>8, <2>14 DEF Looked, Holds
    <3> QED  BY <1>1, <1>4, <2>2, <2>6, <2>7, <2>8, <2>9, <2>10, <2>11, <2>12, <3>3, <3>4, <3>5 DEF IInv, Holds
  <2> QED  BY <2>13, <2>14
<1> QED  BY <1>5, <1>6
\* The runner of a run dies.
LEMMA DieKeeps ==
  ASSUME IInv, NEW r \in Runs, Die(r)
  PROVE  IInv'
<1> DEFINE x == Silent(run[r])
<1>1. run' = [run EXCEPT ![r] = x] /\ UNCHANGED <<loop, service, away, worker, gate, breaks, slips>>
  BY DEF Die, Silent
<1>2. TypeOK /\ Holds(r) /\ Rests /\ x \in RunOf /\ x.state = run[r].state /\ x.alive = FALSE
  BY RowIs, TypeIs, ZeroAge DEF IInv
<1> HIDE DEF x
<1>3. TypeOK'
  <2>1. run' \in [Runs -> RunOf]
    BY <1>1, <1>2, TypeAll
  <2> QED  BY <2>1, <1>1, <1>2, TypeAll, TypeByRun, HeldStays, StepsAre DEF loop
<1>4. Rests'
  BY <1>1, <1>2 DEF Rests, loop
<1>5. ASSUME NEW q \in Runs, q # r PROVE Holds(q)'
  <2>1. Untouched(q)
    BY <1>1, <1>2, <1>5, TypeAll DEF Untouched
  <2> QED  BY <1>1, <2>1, Kept DEF IInv, loop
<1>6. Holds(r)'
  <2>1. run'[r] = x /\ gate'[r] = gate[r]
    BY <1>1, <1>2, TypeAll
  <2>2. Asks(r)' /\ ~Live(r)'
    BY <1>2, <2>1 DEF Asks, Holds, Live, Waits
  <2> QED  BY <1>2, <2>1, <2>2, Quiet
<1> QED  BY <1>3, <1>4, <1>5, <1>6 DEF IInv

\* The stack's worker goes, and every runner with it.
LEMMA WorkerStopsKeeps ==
  ASSUME IInv, ~HostAlone, WorkerStops
  PROVE  IInv'
<1>1. /\ worker' = FALSE /\ UNCHANGED <<loop, service, away, gate, breaks, slips>>
      /\ \A q \in Runs : run[q].where = "host" => ~run[q].alive
      /\ run' = [q \in Runs |-> IF run[q].where = "stack" THEN Silent(run[q]) ELSE run[q]]
  BY DEF WorkerStops, Silent
<1>2. TypeOK /\ Rests
  BY DEF IInv
<1>3. \A q \in Runs : /\ run'[q] \in RunOf /\ run'[q].state = run[q].state /\ ~run'[q].alive
                      /\ gate'[q] = gate[q] /\ Holds(q)
  <2> TAKE q \in Runs
  <2>1. Silent(run[q]) \in RunOf /\ Silent(run[q]).state = run[q].state /\ Silent(run[q]).alive = FALSE
    BY <1>2, RowIs, TypeIs, ZeroAge
  <2>2. run'[q] = IF run[q].where = "stack" THEN Silent(run[q]) ELSE run[q]
    BY <1>1
  <2>3. run[q].where \in {"stack", "host"} /\ run[q] \in RunOf
    BY <1>2, TypeIs
  <2> QED  BY <1>1, <2>1, <2>2, <2>3 DEF IInv
<1>4. TypeOK'
  <2>1. run' \in [Runs -> RunOf]
    <3>1. run' = [q \in Runs |-> run'[q]]
      BY <1>1
    <3> QED  BY <1>3, <3>1
  <2>2. worker' \in BOOLEAN
    BY <1>1
  <2> QED  BY <2>1, <2>2, <1>1, <1>2, TypeAll, TypeByRun, HeldStays, StepsAre DEF loop
<1>5. Rests'
  BY <1>1, <1>2 DEF Rests, loop
<1>6. ASSUME NEW q \in Runs PROVE Holds(q)'
  <2>1. Asks(q)' /\ ~Live(q)'
    BY <1>3 DEF Asks, Holds, Live, Waits
  <2> QED  BY <1>3, <2>1, Quiet
<1> QED  BY <1>4, <1>5, <1>6 DEF IInv

\* While it was gone nobody lived.
LEMMA WorkerStartsKeeps ==
  ASSUME IInv, WorkerStarts
  PROVE  IInv'
<1>1. ~worker /\ worker' = TRUE /\ UNCHANGED <<loop, service, away, run, gate, breaks, slips>>
  BY DEF WorkerStarts
<1>2. TypeOK /\ Rests
  BY DEF IInv
<1>3. TypeOK'
  <2>1. worker' \in BOOLEAN
    BY <1>1
  <2> QED  BY <2>1, <1>1, <1>2, TypeAll, TypeByRun, HeldStays, StepsAre DEF loop
<1>4. Rests'
  BY <1>1, <1>2 DEF Rests, loop
<1>5. ASSUME NEW q \in Runs PROVE Holds(q)'
  <2>1. Holds(q) /\ ~Live(q)
    BY <1>1 DEF IInv, Holds, Hears
  <2>2. Asks(q)' /\ ~Live(q)'
    BY <1>1, <2>1 DEF Asks, Holds, Live, Waits
  <2> QED  BY <2>2, Quiet
<1> QED  BY <1>3, <1>4, <1>5 DEF IInv

\* What the progress clock writes is not of the runner.
LEMMA ProgressKeeps ==
  ASSUME IInv, ProgressRound
  PROVE  IInv'
<1> DEFINE told(q) == Told(run[q], Said("progress", 0, run[q].heard))
<1>1. /\ UNCHANGED <<loop, service, away, worker, gate, breaks, slips>>
      /\ run' = [q \in Runs |-> IF q \in openRuns THEN told(q) ELSE run[q]]
  BY DEF ProgressRound, Told
<1>2. TypeOK /\ Rests
  BY DEF IInv
<1>3. ASSUME NEW q \in Runs
      PROVE  /\ told(q) \in RunOf /\ told(q).state = run[q].state /\ told(q).alive = run[q].alive
             /\ told(q).born = run[q].born /\ told(q).where = run[q].where /\ told(q).sent = run[q].sent
             /\ told(q).heard.beat = run[q].heard.beat /\ told(q).heard.runner = run[q].heard.runner
             /\ told(q).heard.said = 0 /\ told(q).heard.newest <= run[q].heard.newest
  <2>1. LET h == Said("progress", 0, run[q].heard)
        IN  h \in Heard /\ h.said = 0 /\ h.newest <= run[q].heard.newest /\ h.beat = run[q].heard.beat
            /\ h.runner = run[q].heard.runner
    BY <1>2, TypeIs, ZeroAge, SaidIs
  <2> QED  BY <1>2, <2>1, RowIs, TypeIs
<1> HIDE DEF told
<1>4. TypeOK'
  <2>1. run' \in [Runs -> RunOf]
    BY <1>1, <1>2, <1>3, TypeAll
  <2> QED  BY <2>1, <1>1, <1>2, TypeAll, TypeByRun, HeldStays, StepsAre DEF loop
<1>5. Rests'
  BY <1>1, <1>2 DEF Rests, loop
<1>6. ASSUME NEW q \in Runs PROVE Holds(q)'
  <2>1. Holds(q) /\ Typed(q) /\ gate'[q] = gate[q]
    BY <1>1, <1>2, TypedIs DEF IInv
  <2>2. CASE q \notin openRuns
    <3>1. Untouched(q)
      BY <1>1, <2>2 DEF Untouched
    <3> QED  BY <1>1, <2>1, <3>1, Kept DEF loop
  <2>3. CASE q \in openRuns
    <3>1. run'[q] = told(q)
      BY <1>1, <2>3
    <3>2. Live(q)' = Live(q) /\ Waits(q)' = Waits(q) /\ Latest(q)' = Latest(q) /\ First(q)' = First(q)
          /\ Slack' = Slack /\ Margin' = Margin /\ Tardy' = Tardy
      BY <1>1, <1>3, <2>1, <3>1 DEF Live, Waits, Latest, First, Slack, Margin, Tardy, loop
    <3>3. Hears(q)'
      <4>1. told(q).heard.newest \in Int
        <5>1. told(q).heard \in Heard
          BY <1>3 DEF RunOf
        <5> QED  BY <5>1, Limits DEF Heard, Ages
      <4>2. Live(q) => told(q).heard.newest <= told(q).heard.runner /\ told(q).heard.said <= told(q).heard.runner
        <5>1. Live(q) => run[q].heard.newest <= run[q].heard.runner
          BY <2>1 DEF Holds, Hears
        <5>2. run[q].heard.newest \in Nat /\ run[q].heard.runner \in Nat
          BY <2>1 DEF Typed
        <5> QED  BY <1>3, <4>1, <5>1, <5>2
      <4> QED  BY <1>1, <1>3, <2>1, <3>1, <3>2, <4>2 DEF Hears, Holds
    <3>4. Queued(q)' /\ Asks(q)' /\ Spoke(q)' /\ Heeded(q)' /\ Since(q)' /\ Fresh(q)' /\ Looked(q)'
      BY <1>1, <1>3, <2>1, <3>1, <3>2 DEF Holds, Queued, Asks, Spoke, Heeded, Soon, Since, Fresh, Looked, loop
    <3> QED  BY <1>3, <2>1, <3>1, <3>3, <3>4 DEF Holds
  <2> QED  BY <2>2, <2>3
<1> QED  BY <1>4, <1>5, <1>6 DEF IInv
\* The line moves on by one.
LEMMA LineMoves ==
  ASSUME NEW es \in Seq(Event), es # << >>
  PROVE  /\ Head(es) = es[1] /\ Head(es) \in Event /\ Tail(es) \in Seq(Event) /\ Len(Tail(es)) = Len(es) - 1
         /\ Len(es) \in Nat /\ Len(es) > 0 /\ DOMAIN es = 1 .. Len(es) /\ DOMAIN Tail(es) = 1 .. (Len(es) - 1)
         /\ \A i \in 1 .. (Len(es) - 1) : Tail(es)[i] = es[i + 1]
         /\ (Tail(es) # << >> <=> Len(es) > 1)
<1>1. Len(es) \in Nat /\ Len(es) > 0 /\ DOMAIN es = 1 .. Len(es) /\ 1 \in 1 .. Len(es)
  OBVIOUS
<1>2. Head(es) = es[1] /\ Head(es) \in Event /\ Tail(es) \in Seq(Event) /\ Len(Tail(es)) = Len(es) - 1
  BY <1>1
<1>3. DOMAIN Tail(es) = 1 .. (Len(es) - 1) /\ (Tail(es) # << >> <=> Len(es) > 1)
  <2> DEFINE ts == Tail(es)
  <2>1. ts \in Seq(Event) /\ Len(ts) = Len(es) - 1
    BY <1>2
  <2> HIDE DEF ts
  <2>2. DOMAIN ts = 1 .. Len(ts) /\ (ts # << >> <=> Len(ts) > 0)
    BY <2>1
  <2>3. DOMAIN ts = 1 .. (Len(es) - 1) /\ (ts # << >> <=> Len(es) > 1)
    BY <1>1, <2>1, <2>2
  <2> QED  BY <2>3 DEF ts
<1>4. \A i \in 1 .. (Len(es) - 1) : Tail(es)[i] = es[i + 1]
  BY <1>1
<1> QED  BY <1>1, <1>2, <1>3, <1>4

\* What waits first is heard, and the clock set back if it waited for long.
LEMMA StoreKeeps ==
  ASSUME IInv, NEW r \in Runs, Store(r)
  PROVE  IInv'
<1> DEFINE e == Head(gate[r].events)
           h == Said(e.kind, e.age, run[r].heard)
           x == IF run[r].state = "open" THEN Told(run[r], h) ELSE run[r]
           g == [asked |-> 0, events |-> Tail(gate[r].events)]
<1>1. /\ service = "up" /\ Waits(r)
      /\ run' = [run EXCEPT ![r] = x] /\ gate' = [gate EXCEPT ![r] = g]
      /\ up' = (IF gate[r].asked > Late THEN 0 ELSE up)
      /\ UNCHANGED <<last, swept, pc, since, held, torn, service, away, worker, breaks, slips>>
  <2>1. run \in [Runs -> RunOf]
    BY TypeAll DEF IInv
  <2>2. run' = [run EXCEPT ![r] = x]
    <3>1. CASE run[r].state = "open"
      BY <3>1 DEF Store, Told
    <3>2. CASE run[r].state # "open"
      BY <2>1, <3>2 DEF Store
    <3> QED  BY <3>1, <3>2
  <2>3. gate' = [gate EXCEPT ![r] = g] /\ service = "up" /\ Waits(r)
        /\ UNCHANGED <<last, swept, pc, since, held, torn, service, away, worker, breaks, slips>>
    BY DEF Store, Waits
  <2>4. up' = IF gate[r].asked > Late THEN 0 ELSE up
    BY DEF Store
  <2> QED  BY <2>2, <2>3, <2>4
<1>2. TypeOK /\ Holds(r) /\ Typed(r) /\ Rests
  BY TypedIs DEF IInv
<1> DEFINE n == Len(gate[r].events)
<1>3. gate[r].events \in Seq(Event) /\ n \in Nat /\ n > 0 /\ DOMAIN gate[r].events = 1 .. n
      /\ e = gate[r].events[1] /\ e \in Event /\ e.age \in Ages /\ e.kind \in {"heartbeat", "work"}
      /\ g \in GateOf /\ g.asked = 0 /\ DOMAIN g.events = 1 .. (n - 1) /\ Len(g.events) = n - 1
      /\ (g.events # << >> <=> n > 1) /\ \A i \in 1 .. (n - 1) : g.events[i] = gate[r].events[i + 1]
  <2>1. gate[r].events \in Seq(Event) /\ gate[r].events # << >>
    BY <1>1, <1>2, TypeIs DEF Waits
  <2>2. e \in Event /\ Tail(gate[r].events) \in Seq(Event)
    BY <2>1, LineMoves
  <2>3. \A v \in Event : v.age \in Ages /\ v.kind \in {"heartbeat", "work"}
    BY DEF Event
  <2>4. g \in GateOf
    BY <2>2, ZeroAge DEF GateOf
  <2> QED  BY <2>1, <2>2, <2>3, <2>4, LineMoves
<1>4. h \in Heard /\ h.said = e.age /\ h.newest <= e.age /\ h.runner = e.age
      /\ h.beat = IF e.kind = "heartbeat" THEN e.age ELSE run[r].heard.beat
  <2>1. run[r].heard \in Heard
    BY <1>2, TypeIs
  <2> HIDE DEF e
  <2> QED  BY <1>3, <2>1, SaidIs
<1> HIDE DEF e, h, g
<1>5. x \in RunOf /\ x.state = run[r].state /\ x.alive = run[r].alive /\ x.born = run[r].born
      /\ x.where = run[r].where /\ x.sent = run[r].sent /\ (run[r].state = "open" => x.heard = h)
  <2>1. run[r] \in RunOf
    BY <1>2, TypeIs
  <2> QED  BY <1>4, <2>1, RowIs
<1> HIDE DEF x, n
<1>6. run'[r] = x /\ gate'[r] = g
  BY <1>1, <1>2, TypeAll
<1>7. TypeOK'
  <2>1. run' \in [Runs -> RunOf] /\ gate' \in [Runs -> GateOf]
    BY <1>1, <1>2, <1>3, <1>5, TypeAll
  <2>2. up' \in Ages
    BY <1>1, <1>2, ZeroAge, TypeAll
  <2> QED  BY <2>1, <2>2, <1>1, <1>2, TypeAll, TypeByRun, HeldStays, StepsAre
<1>8. Rests'
  BY <1>1, <1>2 DEF Rests
<1>9. ASSUME NEW q \in Runs, q # r PROVE Holds(q)'
  <2>1. Untouched(q) /\ Holds(q) /\ Typed(q)
    BY <1>1, <1>2, <1>9, TypeAll, TypedIs DEF Untouched, IInv
  <2>2. CASE gate[r].asked > Late
    BY <1>1, <2>1, <2>2, Rewound
  <2>3. CASE ~(gate[r].asked > Late)
    BY <1>1, <2>1, <2>3, Kept
  <2> QED  BY <2>2, <2>3
<1>10. Asks(r)'
  BY <1>1, <1>2, <1>3, <1>5, <1>6 DEF Asks, Holds
<1>11. CASE ~Live(r)
  <2>1. ~Live(r)'
    BY <1>5, <1>6, <1>11 DEF Live
  <2> QED  BY <1>7, <1>8, <1>9, <1>10, <2>1, Quiet DEF IInv
<1>12. CASE Live(r)
  <2>1. x.heard = h /\ Live(r)' /\ Slack' = Slack /\ Slack \in Nat /\ Margin' = Margin /\ Tardy' = Tardy
    BY <1>1, <1>2, <1>5, <1>6, <1>12 DEF Live, Slack, Margin, Tardy, Typed
  <2>2. e.age \in Nat /\ e.age = First(r) /\ e.age <= run[r].heard.runner
        /\ (e.kind = "work" => run[r].where = "host" /\ run[r].heard.beat # Never)
    <3>1. 1 \in DOMAIN gate[r].events
      BY <1>3
    <3>2. e = gate[r].events[1]
      BY <1>3
    <3>3. e.age <= run[r].heard.runner /\ (e.kind = "work" => run[r].where = "host" /\ run[r].heard.beat # Never)
      BY <1>2, <1>12, <3>1, <3>2 DEF Holds, Queued
    <3> QED  BY <1>3, <3>2, <3>3, Limits DEF First, Ages
  <2>3. Hears(r)'
    BY <1>1, <1>2, <1>3, <1>4, <1>5, <1>6, <1>12, <2>1, <2>2 DEF Hears, Holds, Never
  <2>4. Queued(r)'
    <3>1. \A i \in 1 .. (n - 1) : i + 1 \in 1 .. n /\ 1 \in 1 .. n /\ 1 <= i + 1
      BY <1>3
    <3>2. \A i \in 1 .. n : (\A j \in 1 .. n : i <= j => gate[r].events[j].age <= gate[r].events[i].age)
                            /\ (gate[r].events[i].kind = "work" => run[r].where = "host" /\ run[r].heard.beat # Never)
      BY <1>2, <1>3, <1>12 DEF Queued, Holds
    <3>3. \A i \in 1 .. (n - 1) : g.events[i] = gate[r].events[i + 1]
      BY <1>3
    <3>4. \A i \in 1 .. (n - 1) : g.events[i].age <= e.age
      BY <1>3, <3>1, <3>2, <3>3
    <3>5. \A i, j \in 1 .. (n - 1) : i <= j => g.events[j].age <= g.events[i].age
      <4> SUFFICES ASSUME NEW i \in 1 .. (n - 1), NEW j \in 1 .. (n - 1), i <= j
                   PROVE  g.events[j].age <= g.events[i].age
        OBVIOUS
      <4>1. i + 1 \in 1 .. n /\ j + 1 \in 1 .. n /\ i + 1 <= j + 1
        BY <1>3
      <4> QED  BY <3>2, <3>3, <4>1
    <3>6. \A i \in 1 .. (n - 1) : g.events[i].kind = "work" => x.where = "host" /\ x.heard.beat # Never
      <4>1. run[r].heard.beat # Never => h.beat # Never
        BY <1>4, <2>2 DEF Never
      <4> QED  BY <1>5, <2>1, <3>1, <3>2, <3>3, <4>1
    <3> QED  BY <1>3, <1>4, <1>6, <2>1, <3>4, <3>5, <3>6 DEF Queued
  <2>5. Latest(r)' = Latest(r)
    <3>1. Latest(r) = gate[r].events[n].age
      BY <1>1 DEF Latest, n
    <3>2. CASE n > 1
      <4>1. Len(g.events) = n - 1 /\ n - 1 \in 1 .. (n - 1) /\ n - 1 + 1 = n
        BY <1>3, <3>2
      <4>2. g.events[n - 1] = gate[r].events[n]
        BY <1>3, <4>1
      <4>3. Latest(r)' = g.events[n - 1].age
        BY <1>3, <1>6, <3>2, <4>1 DEF Latest, Waits
      <4> QED  BY <3>1, <4>2, <4>3
    <3>3. CASE n = 1
      <4>1. Latest(r)' = h.runner
        BY <1>3, <1>6, <2>1, <3>3 DEF Latest, Waits
      <4> QED  BY <1>3, <1>4, <3>1, <3>3, <4>1
    <3> QED  BY <1>3, <3>2, <3>3
  <2>6. up' = up \/ up' = 0
    BY <1>1
  <2>7. run'[r].heard.runner = e.age /\ gate'[r].asked = 0
    BY <1>3, <1>4, <1>6, <2>1
  <2>8. Spoke(r)'
    BY <1>2, <1>5, <1>6, <1>12, <2>1, <2>5, <2>6 DEF Spoke, Holds, Typed
  <2>9. Heeded(r)'
    <3>1. CASE gate[r].asked > Late
      <4>1. up' = 0 /\ 0 <= Margin
        BY <1>1, <2>1, <3>1, Limits DEF Margin
      <4> QED  BY <1>1, <2>1, <4>1 DEF Heeded, Soon
    <3>2. CASE ~(gate[r].asked > Late)
      <4>1. Tardy \/ Soon(r, Margin)
        BY <1>1, <1>2, <1>12, <3>2 DEF Heeded, Holds
      <4>2. Margin \in Nat /\ run[r].heard.runner \in Nat /\ up' = up
        BY <1>1, <1>2, <2>1, <3>2, Limits DEF Margin, Typed
      <4>3. Tardy \/ e.age <= Margin \/ up <= Margin
        BY <2>2, <4>1, <4>2 DEF Soon
      <4> QED  BY <1>1, <2>1, <2>7, <4>2, <4>3 DEF Heeded, Soon
    <3> QED  BY <3>1, <3>2
  <2>10. n > 1 => First(r)' <= e.age /\ First(r)' \in Nat
    <3> HAVE n > 1
    <3>1. 1 \in 1 .. (n - 1) /\ 1 \in 1 .. n /\ 2 \in 1 .. n /\ 1 + 1 = 2 /\ 1 <= 2
      BY <1>3
    <3>2. First(r)' = gate[r].events[2].age
      BY <1>3, <1>6, <3>1 DEF First
    <3>3. gate[r].events[2].age <= gate[r].events[1].age
      BY <1>2, <1>3, <1>12, <3>1 DEF Queued, Holds
    <3> QED  BY <1>2, <1>3, <3>1, <3>2, <3>3 DEF Typed
  <2>11. Waits(r)' => n > 1
    BY <1>3, <1>6 DEF Waits
  <2>12. Since(r)' /\ Fresh(r)'
    <3>1. CASE gate[r].asked > Late
      <4>1. up' = 0 /\ 0 <= Slack /\ 0 <= Beat + Slack
        BY <1>1, <2>1, <3>1, Limits
      <4> QED  BY <1>1, <2>1, <4>1, Limits DEF Since, Fresh
    <3>2. CASE ~(gate[r].asked > Late)
      <4>1. Tardy \/ e.age <= up \/ up <= Slack
        BY <1>1, <1>2, <1>12, <2>2, <3>2 DEF Since, Holds
      <4>2. up' = up /\ up \in Nat
        BY <1>1, <1>2, <3>2 DEF Typed
      <4>3. Since(r)'
        <5>1. n > 1 => Tardy \/ First(r)' <= up \/ up <= Slack
          BY <2>2, <2>10, <4>1, <4>2
        <5> QED  BY <1>1, <2>1, <2>11, <4>2, <5>1 DEF Since
      <4>4. Fresh(r)'
        <5>1. Tardy \/ e.age <= up \/ up <= Beat + Slack
          BY <2>1, <4>1, <4>2, Limits
        <5> QED  BY <2>1, <2>7, <4>2, <5>1 DEF Fresh
      <4> QED  BY <4>3, <4>4
    <3> QED  BY <3>1, <3>2
  <2>13. Looked(r)'
    <3>1. pc = "crash" => e.age <= since \/ run[r].born <= since
      BY <1>2, <1>12, <2>2 DEF Looked, Holds, Typed
    <3> QED  BY <1>1, <1>5, <1>6, <2>7, <3>1 DEF Looked
  <2> QED  BY <1>7, <1>8, <1>9, <1>10, <2>3, <2>4, <2>8, <2>9, <2>12, <2>13 DEF IInv, Holds
<1> QED  BY <1>11, <1>12
-----------------------------------------------------------------------------
(* The loop                                                                *)

\* A round that is late sets the clock back.
LEMMA LateKeeps ==
  ASSUME IInv, LateRound
  PROVE  IInv'
<1>1. /\ service # "down" /\ pc \in {"rest", "boot"} /\ Tardy
      /\ up' = 0 /\ last' = 0 /\ pc' = "rest"
      /\ UNCHANGED <<swept, since, held, torn, run, service, away, worker, gate, breaks, slips>>
  BY DEF LateRound, UNCHANGEDBesides, Tardy
<1>2. TypeOK /\ Rests
  BY DEF IInv
<1>3. service = "up" \/ (service = "deaf" /\ away = 0)
  <2>1. service \in {"up", "deaf"} /\ last \in Nat
    BY <1>1, <1>2, LoopIs, Limits DEF Ages
  <2> QED  BY <1>1, <1>2, <2>1, Limits, BetweenAre DEF Rests, Tardy
<1>4. TypeOK'
  BY <1>1, <1>2, ZeroAge, TypeAll, TypeByRun, HeldStays, StepsAre
<1>5. Rests'
  BY <1>1, <1>3 DEF Rests
<1>6. ASSUME NEW q \in Runs PROVE Holds(q)'
  <2>1. Holds(q) /\ Typed(q) /\ Untouched(q)
    BY <1>1, <1>2, TypedIs DEF IInv, Untouched
  <2> QED  BY <1>1, <1>3, <2>1, Rewound
<1> QED  BY <1>4, <1>5, <1>6 DEF IInv

\* Before sweepCrashed looks we have listened for longer than a beat takes.
LEMMA BeginKeeps ==
  ASSUME IInv, BeginRound
  PROVE  IInv'
<1>1. /\ service # "down" /\ pc \in {"rest", "boot"} /\ ~Tardy /\ last' = 0
      /\ IF ~swept /\ up >= Heartbeat THEN pc' = "crash" /\ since' = up ELSE pc' = "abandon" /\ since' = 0
      /\ UNCHANGED <<up, swept, held, torn, run, service, away, worker, gate, breaks, slips>>
  <2>1. TypeOK
    BY DEF IInv
  <2>2. last \in Nat
    BY <2>1, LoopIs, Limits DEF Ages
  <2>3. last <= Late /\ (pc = "boot" \/ pc = "rest")
    BY DEF BeginRound
  <2> QED  BY <2>2, <2>3, Limits DEF BeginRound, UNCHANGEDBesides, Tardy
<1>2. TypeOK /\ Rests /\ slips \in 0 .. MaxSlips
  BY LoopIs DEF IInv
<1>3. pc' \in {"crash", "abandon"} /\ since' \in Ages /\ (pc' = "crash" => since' = up /\ up >= Heartbeat)
  BY <1>1, <1>2, ZeroAge, LoopIs
<1>4. TypeOK'
  BY <1>1, <1>2, <1>3, ZeroAge, TypeAll, TypeByRun, HeldStays, StepsAre
<1>5. Rests'
  BY <1>3, BetweenAre DEF Rests
<1>6. ASSUME NEW q \in Runs PROVE Holds(q)'
  <2>1. Holds(q) /\ Typed(q) /\ Untouched(q)
    BY <1>1, <1>2, TypedIs DEF IInv, Untouched
  <2>2. Live(q)' = Live(q) /\ Waits(q)' = Waits(q) /\ Latest(q)' = Latest(q) /\ First(q)' = First(q)
        /\ Slack' = Slack /\ Margin' = Margin
    BY <1>1 DEF Live, Waits, Latest, First, Slack, Margin
  <2>3. Hears(q)' /\ Queued(q)' /\ Asks(q)'
    BY <1>1, <2>1, <2>2 DEF Holds, Hears, Queued, Asks
  <2>4. Spoke(q)' /\ Heeded(q)' /\ Since(q)' /\ Fresh(q)'
    BY <1>1, <1>3, <2>1, <2>2, BetweenAre DEF Holds, Spoke, Heeded, Soon, Since, Fresh
  <2>5. Looked(q)'
    <3> SUFFICES ASSUME Live(q), pc' = "crash"
                 PROVE  \/ run[q].heard.runner <= up
                        \/ Waits(q) /\ gate[q].asked > 0 /\ gate[q].asked >= 0 /\ First(q) <= up
      BY <1>1, <1>3, <2>2 DEF Looked
    <3>1. up \in Nat /\ up >= Heartbeat /\ Slack \in Nat /\ Beat + Slack < Heartbeat /\ Late + Slack < Heartbeat
      <4>1. Slack \in Nat /\ Margin <= Heartbeat /\ Margin = Beat + Late + Slack
        BY <1>2, SlackIs
      <4>2. Beat \in Nat /\ Late \in Nat /\ Beat > 0 /\ Late > 0 /\ Heartbeat \in Nat
        BY Limits
      <4> QED  BY <1>3, <2>1, <4>1, <4>2 DEF Typed
    <3>2. Beat \in Nat /\ Late \in Nat /\ Heartbeat \in Nat
      BY Limits
    <3>3. CASE ~Waits(q)
      <4>1. run[q].heard.runner <= run[q].sent + Slack \/ up <= run[q].sent + Slack
        BY <1>1, <2>1, <3>3 DEF Holds, Spoke, Latest
      <4>2. run[q].sent \in 0 .. Beat /\ run[q].heard.runner \in Nat
        BY <2>1 DEF Typed
      <4> QED  BY <3>1, <3>2, <4>1, <4>2
    <3>4. CASE Waits(q) /\ gate[q].asked = 0
      <4>1. run[q].heard.runner <= up \/ up <= Beat + Slack
        BY <1>1, <2>1, <3>4 DEF Holds, Fresh
      <4> QED  BY <3>1, <3>2, <4>1
    <3>5. CASE Waits(q) /\ gate[q].asked # 0
      <4>1. gate[q].asked > 0 /\ gate[q].asked >= 0
        BY <2>1, <3>5 DEF Typed
      <4>2. First(q) <= up \/ up <= Slack \/ (service = "deaf" /\ up <= Slack + away)
        BY <1>1, <2>1, <3>5, BetweenAre DEF Holds, Since
      <4>3. service = "deaf" => away <= Late
        <5>1. away \in Nat /\ last \in Nat
          BY <2>1 DEF Typed
        <5> QED  BY <1>1, <1>2, <3>2, <5>1, BetweenAre DEF Rests
      <4>4. away \in Nat
        BY <2>1 DEF Typed
      <4>5. First(q) <= up
        BY <3>1, <3>2, <4>2, <4>3, <4>4
      <4> QED  BY <3>5, <4>1, <4>5
    <3> QED  BY <3>3, <3>4, <3>5
  <2> QED  BY <2>3, <2>4, <2>5 DEF Holds
<1> QED  BY <1>4, <1>5, <1>6 DEF IInv

\* A row that is closed is asked about no more.
Dropped(x) == [Unborn EXCEPT !.state = "closed", !.alive = x.alive]
LEMMA CloseIs ==
  ASSUME IInv, NEW closed \in SUBSET Runs, run' = Close(closed), gate' = gate
  PROVE  /\ run' \in [Runs -> RunOf]
         /\ \A q \in Runs : q \notin closed => run'[q] = run[q]
         /\ \A q \in Runs : q \in closed => ~Live(q)' /\ Asks(q)' /\ run'[q].state = "closed"
<1>1. TypeOK /\ run \in [Runs -> RunOf]
  BY TypeAll DEF IInv
<1>2. \A x \in RunOf : Dropped(x) \in RunOf /\ Dropped(x).state = "closed"
  BY ZeroAge DEF RunOf, Dropped
<1>3. run' = [q \in Runs |-> IF q \in closed THEN Dropped(run[q]) ELSE run[q]]
  BY DEF Close, Dropped
<1>4. run' \in [Runs -> RunOf]
  BY <1>1, <1>2, <1>3
<1>5. ASSUME NEW q \in Runs, q \in closed
      PROVE  ~Live(q)' /\ Asks(q)' /\ run'[q].state = "closed"
  <2>1. run'[q] = Dropped(run[q]) /\ run[q] \in RunOf
    BY <1>1, <1>3, <1>5
  <2>2. run'[q].state = "closed" /\ Holds(q)
    BY <1>2, <1>5, <2>1 DEF IInv
  <2> QED  BY <2>2 DEF Live, Asks, Holds, Waits
<1> QED  BY <1>3, <1>4, <1>5
LEMMA CloseNone == ASSUME TypeOK, UNCHANGED run PROVE run' = Close({})
<1>1. run \in [Runs -> RunOf]
  BY TypeAll
<1>2. run = [q \in Runs |-> run[q]]
  BY <1>1
<1> QED  BY <1>2 DEF Close

\* A step of the loop that has waited for the writer, and closes what it closes,
\* keeps what holds of the runs that are left.
LEMMA SweepKeeps ==
  ASSUME IInv, NEW closed \in SUBSET Runs, run' = Close(closed),
         OursNow,
         up' = up \/ up' = 0, pc' \in Steps, pc' # "crash", swept' \in BOOLEAN, since' = since \/ since' = 0,
         HeldOK', UNCHANGED <<last, service, away, worker, gate, breaks, slips>>
  PROVE  IInv'
<1>1. TypeOK /\ Rests /\ service = "up"
  BY DEF IInv, OursNow
<1>2. /\ run' \in [Runs -> RunOf]
      /\ \A q \in Runs : q \notin closed => run'[q] = run[q]
      /\ \A q \in Runs : q \in closed => ~Live(q)' /\ Asks(q)'
  BY CloseIs
<1>3. TypeOK'
  <2>1. up' \in Ages /\ since' \in Ages /\ pc' \in Steps
    BY <1>1, ZeroAge, TypeAll
  <2> QED  BY <1>1, <1>2, <2>1, TypeAll, TypeByRun
<1>4. Rests'
  BY <1>1 DEF Rests
<1>5. ASSUME NEW q \in Runs PROVE Holds(q)'
  <2>1. CASE q \in closed
    BY <1>2, <2>1, Quiet
  <2>2. CASE q \notin closed
    <3>1. Holds(q) /\ Typed(q) /\ Untouched(q)
      BY <1>1, <1>2, <2>2, TypedIs DEF IInv, Untouched
    <3>2. pc' # "crash"
      OBVIOUS
    <3>3. CASE up' = 0
      BY <1>1, <3>1, <3>2, <3>3, Rewound
    <3>4. CASE up' = up
      <4>1. Live(q)' = Live(q) /\ Waits(q)' = Waits(q) /\ Latest(q)' = Latest(q) /\ First(q)' = First(q)
            /\ Slack' = Slack /\ Margin' = Margin /\ Tardy' = Tardy
        BY <3>1 DEF Untouched, Live, Waits, Latest, First, Slack, Margin, Tardy
      <4>2. Hears(q)' /\ Queued(q)' /\ Asks(q)'
        BY <3>1, <4>1 DEF Untouched, Holds, Hears, Queued, Asks
      <4>3. Spoke(q)' /\ Heeded(q)' /\ Fresh(q)'
        BY <3>1, <3>4, <4>1 DEF Untouched, Holds, Spoke, Heeded, Soon, Fresh
      <4>4. Since(q)'
        <5>1. Tardy \/ ~(gate[q].asked > Late)
          <6>1. gate[q].asked = 0 \/ gate[q].asked < last
            BY DEF OursNow
          <6>2. gate[q].asked \in Nat /\ last \in Nat
            BY <3>1 DEF Typed
          <6> QED  BY <6>1, <6>2, Limits DEF Tardy
        <5> QED  BY <1>1, <3>1, <3>4, <4>1, <5>1 DEF Untouched, Holds, Since
      <4>5. Looked(q)'
        BY <3>2 DEF Looked
      <4> QED  BY <4>2, <4>3, <4>4, <4>5 DEF Holds
    <3> QED  BY <3>3, <3>4
  <2> QED  BY <2>1, <2>2
<1> QED  BY <1>3, <1>4, <1>5 DEF IInv

\* Nor does one that waits for nothing and touches no run.
LEMMA PassKeeps ==
  ASSUME IInv, pc \in Passing, pc' \in Steps, pc' # "crash", HeldOK',
         UNCHANGED <<up, last, swept, since, service, away, worker, run, gate, breaks, slips>>
  PROVE  IInv'
<1>1. TypeOK /\ Rests /\ pc \in Between
  BY DEF IInv, Between
<1>2. TypeOK'
  BY <1>1, TypeAll, TypeByRun
<1>3. Rests'
  BY <1>1 DEF Rests
<1>4. ASSUME NEW q \in Runs PROVE Holds(q)'
  <2>1. Holds(q)
    BY DEF IInv
  <2>2. Live(q)' = Live(q) /\ Waits(q)' = Waits(q) /\ Latest(q)' = Latest(q) /\ First(q)' = First(q)
        /\ Slack' = Slack /\ Margin' = Margin /\ Tardy' = Tardy
    BY DEF Live, Waits, Latest, First, Slack, Margin, Tardy
  <2>3. Hears(q)' /\ Queued(q)' /\ Asks(q)' /\ Spoke(q)' /\ Heeded(q)' /\ Fresh(q)' /\ Looked(q)'
    BY <2>1, <2>2 DEF Holds, Hears, Queued, Asks, Spoke, Heeded, Soon, Fresh, Looked
  <2>4. Since(q)'
    BY <1>1, <2>1, <2>2 DEF Holds, Since
  <2> QED  BY <2>3, <2>4 DEF Holds
<1> QED  BY <1>2, <1>3, <1>4 DEF IInv

\* sweepCrashed closes no run that lives.
LEMMA CrashedKeeps ==
  ASSUME IInv, sweepCrashed
  PROVE  IInv' /\ \A q \in Runs : Live(q) => run'[q] = run[q]
<1> DEFINE closed == {r \in openRuns : run[r].born > since /\ run[r].heard.said > since}
<1>1. pc = "crash" /\ pc' = "abandon" /\ OursNow /\ swept' = TRUE /\ since' = 0 /\ run' = Close(closed)
      /\ UNCHANGED <<up, last, held, torn, service, away, worker, gate, breaks, slips>>
  BY DEF sweepCrashed, Step, UNCHANGEDBesides
<1>2. ASSUME NEW q \in Runs, Live(q) PROVE q \notin closed
  <2>1. Holds(q) /\ Typed(q)
    BY TypedIs DEF IInv
  <2>2. run[q].heard.runner <= since \/ run[q].born <= since
    <3>1. gate[q].asked = 0 \/ gate[q].asked < last
      BY <1>1 DEF OursNow
    <3>2. ~(gate[q].asked > 0 /\ gate[q].asked >= last)
      BY <2>1, <3>1 DEF Typed
    <3> QED  BY <1>1, <1>2, <2>1, <3>2 DEF Holds, Looked
  <2>3. run[q].heard.said <= run[q].heard.runner
    BY <1>2, <2>1 DEF Holds, Hears
  <2>4. run[q].heard.said <= since \/ run[q].born <= since
    BY <2>1, <2>2, <2>3 DEF Typed
  <2>5. ~(run[q].heard.said > since) \/ ~(run[q].born > since)
    BY <2>1, <2>4 DEF Typed
  <2> QED  BY <2>5
<1>3. closed \in SUBSET Runs
  BY DEF openRuns
<1>4. TypeOK /\ HeldOK'
  BY <1>1, TypeAll, HeldStays DEF IInv, HeldOK
<1> HIDE DEF closed
<1>5. IInv'
  BY <1>1, <1>3, <1>4, StepsAre, SweepKeeps
<1> QED  BY <1>1, <1>2, <1>3, <1>5, CloseIs

\* Of a living run we heard within the limit on beats, when all is read that was
\* sent before we read; or we have not listened that long ourselves.
LEMMA Recent ==
  ASSUME IInv, OursNow, NEW q \in Runs, Live(q)
  PROVE  /\ run[q].heard.runner <= Heartbeat \/ Rearmed <= Heartbeat
         /\ Rearmed \in Nat /\ (Rearmed = up \/ Rearmed = 0)
<1>1. Holds(q) /\ Typed(q) /\ service = "up" /\ slips \in 0 .. MaxSlips
  BY TypedIs, LoopIs DEF IInv, OursNow
<1>2. Slack \in Nat /\ Margin <= Heartbeat /\ Margin = Beat + Late + Slack
  BY <1>1, SlackIs
<1>3. Beat \in Nat /\ Late \in Nat /\ Heartbeat \in Nat
  BY Limits
<1>4. up \in Nat /\ run[q].heard.runner \in Nat /\ run[q].sent \in 0 .. Beat /\ last \in Nat /\ gate[q].asked \in Nat
  BY <1>1 DEF Typed
<1>5. Rearmed \in Nat /\ (Rearmed = up \/ Rearmed = 0) /\ (Tardy => Rearmed = 0)
  BY <1>4 DEF Rearmed, Tardy
<1>6. CASE Tardy
  BY <1>3, <1>5, <1>6
<1>7. CASE ~Tardy
  <2>1. run[q].heard.runner <= Margin \/ up <= Margin
    <3>1. CASE Waits(q)
      <4>1. ~(gate[q].asked > Late)
        <5>1. gate[q].asked = 0 \/ gate[q].asked < last
          BY DEF OursNow
        <5> QED  BY <1>3, <1>4, <1>7, <5>1 DEF Tardy
      <4> QED  BY <1>1, <1>7, <3>1, <4>1 DEF Holds, Heeded, Soon
    <3>2. CASE ~Waits(q)
      <4>1. run[q].heard.runner <= run[q].sent + Slack \/ up <= run[q].sent + Slack
        BY <1>1, <1>7, <3>2 DEF Holds, Spoke, Latest
      <4> QED  BY <1>2, <1>3, <1>4, <4>1
    <3> QED  BY <3>1, <3>2
  <2> QED  BY <1>2, <1>3, <1>4, <1>5, <2>1
<1> QED  BY <1>5, <1>6, <1>7

LEMMA LeastIs ==
  ASSUME NEW a \in Nat, NEW b \in Nat, NEW n \in Nat, Least(a, b) > n
  PROVE  a > n /\ b > n
BY DEF Least

\* What the loop holds is of its kind, also when it goes on to the next run.
LEMMA NextIs ==
  ASSUME HeldOK, NEW left \in SUBSET Runs, TakeNext(left)
  PROVE  /\ HeldOK' /\ pc' \in Steps /\ pc' # "crash" /\ UNCHANGED <<up, last, swept, since, found>>
         /\ todo' = left /\ hand' = {} /\ pc' \in {"rest", "next"}
         /\ pc' = "next" => torn' = torn /\ listened' = listened
BY ZeroAge, StepsAre DEF HeldOK, TakeNext
LEMMA ThereIs ==
  ASSUME HeldOK, NEW to, Goto(to)
  PROVE  HeldOK' /\ pc' = to /\ UNCHANGED <<up, last, swept, since, held, torn>>
BY DEF HeldOK, Goto, held
LEMMA CloseNextIs ==
  ASSUME NEW left \in SUBSET Runs, CloseNext(left), torn \in BOOLEAN
  PROVE  /\ todo' = left /\ pc' \in {"weigh", "close"} /\ torn' \in BOOLEAN
         /\ pc' = "close" => torn' = torn
BY DEF CloseNext

\* A step that has waited for the writer and closes nothing.
LEMMA LookKeeps ==
  ASSUME IInv, OursNow, up' = up \/ up' = 0, pc' \in Steps, pc' # "crash", HeldOK',
         UNCHANGED <<last, swept, since, run, service, away, worker, gate, breaks, slips>>
  PROVE  IInv'
<1>1. run' = Close({})
  BY CloseNone DEF IInv
<1>2. swept' \in BOOLEAN
  BY TypeAll DEF IInv
<1> QED  BY <1>1, <1>2, SweepKeeps

LEMMA AbandonedKeeps ==
  ASSUME IInv, sweepAbandoned
  PROVE  IInv'
<1>1. HeldOK /\ TypeOK /\ swept \in BOOLEAN
  BY TypeAll DEF IInv
<1>2. CASE recordLimits
  <2>1. up' = up \/ up' = 0
    BY <1>2 DEF recordLimits, Rearmed
  <2>2. HeldOK'
    BY <1>1, <1>2 DEF recordLimits, HeldOK, held
  <2> QED  BY <1>2, <2>1, <2>2, LookKeeps, StepsAre DEF recordLimits, Step, UNCHANGEDBesides
<1>3. CASE readAbandoned
  <2>1. \A q \in Runs : run[q].heard.newest \in Ages
    BY <1>1, TypeIs
  <2>2. found' \in [Runs -> Ages \cup {Never}]
    BY <1>3, <2>1 DEF readAbandoned
  <2>3. HeldOK'
    BY <1>1, <1>3, <2>2 DEF readAbandoned, HeldOK
  <2> QED  BY <1>3, <2>3, LookKeeps, StepsAre DEF readAbandoned, Step, UNCHANGEDBesides
<1>4. CASE judgeAbandoned
  <2> DEFINE left == {r \in Runs : found[r] # Never /\ Least(found[r], up) > RunLimit}
  <2>1. left \in SUBSET Runs /\ CloseNext(left) /\ torn \in BOOLEAN
    BY <1>1, <1>4 DEF judgeAbandoned, HeldOK
  <2> HIDE DEF left
  <2>2. todo' = left /\ pc' \in {"weigh", "close"} /\ torn' \in BOOLEAN
    BY <2>1, CloseNextIs
  <2>3. found' \in [Runs -> Ages \cup {Never}] /\ UNCHANGED <<hand, lived, listened>>
    BY <1>4 DEF judgeAbandoned
  <2>4. HeldOK'
    BY <1>1, <2>1, <2>2, <2>3 DEF HeldOK
  <2> QED  BY <1>4, <2>2, <2>4, PassKeeps, StepsAre DEF judgeAbandoned, UNCHANGEDBesides, Passing
<1>5. CASE closeAbandoned
  <2>1. PICK r \in todo : CloseNext(todo \ {r}) /\ run' = Close({r})
    BY <1>5 DEF closeAbandoned
  <2>2. todo \ {r} \in SUBSET Runs /\ {r} \in SUBSET Runs /\ torn \in BOOLEAN
    BY <1>1 DEF HeldOK
  <2>3. todo' = todo \ {r} /\ pc' \in {"weigh", "close"} /\ torn' \in BOOLEAN
    BY <2>1, <2>2, CloseNextIs
  <2>4. HeldOK'
    BY <1>1, <1>5, <2>2, <2>3 DEF HeldOK, closeAbandoned
  <2> QED  BY <1>1, <1>5, <2>1, <2>2, <2>3, <2>4, SweepKeeps, StepsAre DEF closeAbandoned, UNCHANGEDBesides
<1> QED  BY <1>2, <1>3, <1>4, <1>5 DEF sweepAbandoned

\* Every reading of a run in hand waits for the writer, and goes on to the
\* next question, to the close, or to the next run.
Reading(r) == weighBirth(r) \/ weighPulse(r) \/ weighHost(r) \/ weighSilence(r)
LEMMA ReadingIs ==
  ASSUME TypeOK, NEW r \in Runs, Reading(r)
  PROVE  /\ OursNow /\ r \in hand /\ HeldOK' /\ pc' \in Steps /\ pc' # "crash"
         /\ pc \in {"born", "pulse", "host", "heard"}
         /\ UNCHANGED <<up, last, swept, since, run, service, away, worker, gate, breaks, slips>>
         /\ \/ TakeNext(todo)
            \/ Goto("finish") /\ weighBirth(r) /\ Stillborn(r)
            \/ Goto("finish") /\ weighPulse(r) /\ PulseGone(r, Gone) /\ run[r].where = "stack"
            \/ Goto("finish") /\ weighHost(r) /\ run[r].heard.runner > Heartbeat
            \/ Goto("host") /\ PulseGone(r, Heartbeat)
            \/ \E to \in {"pulse", "heard", "worker"} : Goto(to)
<1>1. HeldOK /\ todo \in SUBSET Runs
  BY TypeAll DEF HeldOK
<1>2. /\ OursNow /\ r \in hand /\ pc \in {"born", "pulse", "host", "heard"} /\ UNCHANGED run /\ UNCHANGEDBesides
      /\ \/ TakeNext(todo)
         \/ Goto("finish") /\ weighBirth(r) /\ Stillborn(r)
         \/ Goto("finish") /\ weighPulse(r) /\ PulseGone(r, Gone) /\ run[r].where = "stack"
         \/ Goto("finish") /\ weighHost(r) /\ run[r].heard.runner > Heartbeat
         \/ Goto("host") /\ PulseGone(r, Heartbeat)
         \/ \E to \in {"pulse", "heard", "worker"} : Goto(to)
  <2>1. CASE weighBirth(r)
    BY <2>1 DEF weighBirth
  <2>2. CASE weighPulse(r)
    BY <2>2 DEF weighPulse
  <2>3. CASE weighHost(r)
    BY <2>3 DEF weighHost
  <2>4. CASE weighSilence(r)
    BY <2>4 DEF weighSilence
  <2> QED  BY <2>1, <2>2, <2>3, <2>4 DEF Reading
<1>3. CASE TakeNext(todo)
  BY <1>1, <1>2, <1>3, NextIs DEF UNCHANGEDBesides
<1>4. ASSUME NEW to \in {"finish", "pulse", "host", "heard", "worker"}, Goto(to)
      PROVE  HeldOK' /\ pc' \in Steps /\ pc' # "crash" /\ UNCHANGED <<up, last, swept, since>>
  <2>1. to \in Steps /\ to # "crash"
    BY StepsAre
  <2> QED  BY <1>1, <1>4, <2>1, ThereIs
<1> QED  BY <1>2, <1>3, <1>4 DEF UNCHANGEDBesides

LEMMA WeighKeeps ==
  ASSUME IInv, weigh
  PROVE  IInv'
<1>1. HeldOK /\ TypeOK /\ swept \in BOOLEAN /\ todo \in SUBSET Runs /\ hand \in SUBSET Runs
  BY TypeAll DEF IInv, HeldOK
<1>2. CASE sweepQueue
  <2>1. up' = up \/ up' = 0
    BY <1>2 DEF sweepQueue, Rearmed
  <2>2. HeldOK'
    BY <1>1, <1>2 DEF sweepQueue, HeldOK, held
  <2> QED  BY <1>2, <2>1, <2>2, LookKeeps, StepsAre DEF sweepQueue, Step, UNCHANGEDBesides
<1>3. CASE listen
  <2>1. up \in Ages
    BY <1>1, TypeAll
  <2>2. HeldOK'
    BY <1>1, <1>3, <2>1 DEF listen, HeldOK
  <2> QED  BY <1>3, <2>2, PassKeeps, StepsAre DEF listen, Step, UNCHANGEDBesides, Passing
<1>4. CASE listRuns
  <2>1. openRuns \in SUBSET Runs
    BY DEF openRuns
  <2>2. TakeNext(openRuns)
    BY <1>4 DEF listRuns
  <2>3. HeldOK' /\ pc' \in Steps /\ pc' # "crash" /\ UNCHANGED <<up, last, swept, since>>
    BY <1>1, <2>1, <2>2, NextIs
  <2> QED  BY <1>4, <2>3, LookKeeps DEF listRuns, UNCHANGEDBesides
<1>5. ASSUME NEW r \in Runs, takeRun(r) PROVE IInv'
  <2>1. run[r].born \in Ages
    BY <1>1, TypeIs
  <2>2. HeldOK'
    BY <1>1, <1>5, <2>1 DEF takeRun, HeldOK
  <2> QED  BY <1>5, <2>2, PassKeeps, StepsAre DEF takeRun, Step, UNCHANGEDBesides, Passing
<1>6. ASSUME NEW r \in Runs, Reading(r) PROVE IInv'
  BY <1>1, <1>6, ReadingIs, LookKeeps
<1>7. CASE workerUp
  <2>1. TakeNext(todo) \/ Goto("finish")
    BY <1>7 DEF workerUp
  <2>2. HeldOK' /\ pc' \in Steps /\ pc' # "crash" /\ UNCHANGED <<up, last, swept, since>>
    BY <1>1, <2>1, NextIs, ThereIs, StepsAre
  <2> QED  BY <1>7, <2>2, PassKeeps DEF workerUp, UNCHANGEDBesides, Passing
<1>8. CASE finish
  <2>1. TakeNext(todo) /\ OursNow /\ run' = Close(hand) /\ UNCHANGEDBesides
    BY <1>8 DEF finish
  <2>2. HeldOK' /\ pc' \in Steps /\ pc' # "crash" /\ UNCHANGED <<up, last, swept, since>>
    BY <1>1, <2>1, NextIs
  <2> QED  BY <1>1, <2>1, <2>2, SweepKeeps DEF UNCHANGEDBesides
<1> QED  BY <1>2, <1>3, <1>4, <1>5, <1>6, <1>7, <1>8 DEF weigh, Reading
-----------------------------------------------------------------------------
(* Time, and what it does to this process                                  *)

\* Of a run that lives and of its line all that is a time grows older.
LEMMA AgedIs ==
  ASSUME TypeOK, NEW n \in Nat, NEW awake \in BOOLEAN, Aged(n, awake),
         \A q \in Runs : awake /\ run[q].alive => run[q].sent + n <= Beat
  PROVE  /\ up' = Older(up, n) /\ last' = Older(last, n) /\ (pc = "crash" => since' = Older(since, n))
         /\ up' \in Ages /\ last' \in Ages /\ since' \in Ages
         /\ torn' \in BOOLEAN => HeldOK'
         /\ \A q \in Runs : found'[q] # Never => found[q] # Never
         /\ UNCHANGED <<todo, hand>>
         /\ run' \in [Runs -> RunOf] /\ gate' \in [Runs -> GateOf]
         /\ \A q \in Runs :
              /\ run'[q].state = run[q].state /\ run'[q].where = run[q].where /\ run'[q].alive = run[q].alive
              /\ Live(q) =>
                   /\ run'[q].born = Older(run[q].born, n)
                   /\ run'[q].sent = IF awake THEN run[q].sent + n ELSE run[q].sent
                   /\ run'[q].heard.beat = Older(run[q].heard.beat, n)
                   /\ run'[q].heard.runner = Older(run[q].heard.runner, n)
                   /\ run'[q].heard.said = Older(run[q].heard.said, n)
                   /\ run'[q].heard.newest = Older(run[q].heard.newest, n)
              /\ Waits(q)' = Waits(q)
              /\ gate'[q].asked = IF Waits(q) THEN Older(gate[q].asked, n) ELSE gate[q].asked
              /\ Len(gate'[q].events) = Len(gate[q].events) /\ DOMAIN gate'[q].events = DOMAIN gate[q].events
              /\ \A i \in DOMAIN gate[q].events :
                   /\ gate'[q].events[i].age = Older(gate[q].events[i].age, n)
                   /\ gate'[q].events[i].kind = gate[q].events[i].kind
<1> DEFINE grown(q) == IF run[q].state # "open" THEN run[q] ELSE Grown(run[q], n, awake)
           os(q) == [i \in DOMAIN gate[q].events |-> [gate[q].events[i] EXCEPT !.age = Older(@, n)]]
           aged(q) == IF gate[q].events = << >> THEN gate[q]
                      ELSE [asked |-> Older(gate[q].asked, n), events |-> os(q)]
<1>1. /\ up' = Older(up, n) /\ last' = Older(last, n)
      /\ since' = (IF pc = "crash" THEN Older(since, n) ELSE since)
      /\ gate' = [q \in Runs |-> aged(q)]
  BY DEF Aged
<1>2. run' = [q \in Runs |-> grown(q)]
  <2>1. run' = [r \in Runs |->
          IF run[r].state # "open" THEN run[r]
          ELSE [run[r] EXCEPT !.born = Older(@, n), !.sent = IF awake /\ run[r].alive THEN @ + n ELSE @,
                              !.heard = [reading \in DOMAIN @ |-> Older(@[reading], n)]]]
    BY DEF Aged
  <2> QED  BY <2>1 DEF Grown
<1>3. up' \in Ages /\ last' \in Ages /\ since' \in Ages
  BY <1>1, OlderIs, LoopIs
<1>8. /\ torn' \in BOOLEAN => HeldOK'
      /\ \A q \in Runs : found'[q] # Never => found[q] # Never
      /\ UNCHANGED <<todo, hand>>
  <2>1. HeldOK /\ found' = [q \in Runs |-> Older(found[q], n)] /\ UNCHANGED <<todo, hand, lived, listened>>
    BY TypeAll DEF Aged
  <2>2. \A q \in Runs : found[q] \in Ages \cup {Never}
    BY <2>1 DEF HeldOK
  <2>3. \A q \in Runs : Older(found[q], n) \in Ages \cup {Never} /\ (found[q] = Never => Older(found[q], n) = Never)
    BY <2>2, OlderIs
  <2>4. found' \in [Runs -> Ages \cup {Never}] /\ \A q \in Runs : found'[q] # Never => found[q] # Never
    BY <2>1, <2>3
  <2> QED  BY <2>1, <2>4 DEF HeldOK
<1>4. ASSUME NEW q \in Runs
      PROVE  /\ grown(q) \in RunOf /\ grown(q).state = run[q].state /\ grown(q).where = run[q].where
             /\ grown(q).alive = run[q].alive
             /\ Live(q) =>
                  /\ grown(q).born = Older(run[q].born, n)
                  /\ grown(q).sent = IF awake THEN run[q].sent + n ELSE run[q].sent
                  /\ grown(q).heard.beat = Older(run[q].heard.beat, n)
                  /\ grown(q).heard.runner = Older(run[q].heard.runner, n)
                  /\ grown(q).heard.said = Older(run[q].heard.said, n)
                  /\ grown(q).heard.newest = Older(run[q].heard.newest, n)
  <2>1. run[q] \in RunOf
    BY TypeIs
  <2>2. CASE run[q].state # "open"
    <3>1. grown(q) = run[q]
      BY <2>2
    <3> QED  BY <2>1, <2>2, <3>1 DEF Live
  <2>3. CASE run[q].state = "open"
    <3>1. grown(q) = Grown(run[q], n, awake)
      BY <2>3
    <3>2. LET y == Grown(run[q], n, awake)
          IN  /\ y \in RunOf /\ y.state = run[q].state /\ y.where = run[q].where /\ y.alive = run[q].alive
              /\ y.born = Older(run[q].born, n)
              /\ y.sent = (IF awake /\ run[q].alive THEN run[q].sent + n ELSE run[q].sent)
              /\ y.heard.beat = Older(run[q].heard.beat, n) /\ y.heard.runner = Older(run[q].heard.runner, n)
              /\ y.heard.said = Older(run[q].heard.said, n) /\ y.heard.newest = Older(run[q].heard.newest, n)
      BY <2>1, RunAges
    <3> HIDE DEF grown
    <3> QED  BY <3>1, <3>2 DEF Live
  <2> QED  BY <2>2, <2>3
<1>5. ASSUME NEW q \in Runs
      PROVE  /\ aged(q) \in GateOf /\ (aged(q).events # << >>) = (gate[q].events # << >>)
             /\ aged(q).asked = IF Waits(q) THEN Older(gate[q].asked, n) ELSE gate[q].asked
             /\ Len(aged(q).events) = Len(gate[q].events) /\ DOMAIN aged(q).events = DOMAIN gate[q].events
             /\ \A i \in DOMAIN gate[q].events :
                  /\ aged(q).events[i].age = Older(gate[q].events[i].age, n)
                  /\ aged(q).events[i].kind = gate[q].events[i].kind
  <2>1. gate[q] \in GateOf /\ gate[q].asked \in Ages /\ gate[q].events \in Seq(Event)
    BY TypeIs
  <2>2. CASE gate[q].events = << >>
    <3>1. aged(q) = gate[q] /\ DOMAIN gate[q].events = {}
      BY <2>2
    <3> HIDE DEF aged
    <3> QED  BY <2>1, <2>2, <3>1 DEF Waits
  <2>3. CASE gate[q].events # << >>
    <3>1. os(q) \in Seq(Event) /\ Len(os(q)) = Len(gate[q].events) /\ DOMAIN os(q) = DOMAIN gate[q].events
          /\ \A i \in DOMAIN gate[q].events : /\ os(q)[i].age = Older(gate[q].events[i].age, n)
                                              /\ os(q)[i].kind = gate[q].events[i].kind
      BY <2>1, GateAges
    <3>2. Older(gate[q].asked, n) \in Ages
      BY <2>1, OlderIs
    <3>3. aged(q) = [asked |-> Older(gate[q].asked, n), events |-> os(q)]
      BY <2>3
    <3> HIDE DEF os, aged
    <3>4. aged(q) \in GateOf /\ aged(q).asked = Older(gate[q].asked, n) /\ aged(q).events = os(q)
      BY <3>1, <3>2, <3>3 DEF GateOf
    <3>5. os(q) # << >>
      <4>1. Len(gate[q].events) # 0
        BY <2>1, <2>3
      <4> QED  BY <3>1, <4>1
    <3> QED  BY <2>3, <3>1, <3>4, <3>5 DEF Waits
  <2> QED  BY <2>2, <2>3
<1> HIDE DEF grown, os, aged
<1>6. run' \in [Runs -> RunOf] /\ gate' \in [Runs -> GateOf]
      /\ \A q \in Runs : run'[q] = grown(q) /\ gate'[q] = aged(q)
  BY <1>1, <1>2, <1>4, <1>5
<1>7. \A q \in Runs : Waits(q)' = Waits(q)
  BY <1>5, <1>6 DEF Waits
<1> QED  BY <1>1, <1>3, <1>4, <1>5, <1>6, <1>7, <1>8
\* What compares two times that grow alike goes on holding.
LEMMA AgedKeeps ==
  ASSUME TypeOK, NEW n \in Nat, n > 0, NEW awake \in BOOLEAN, Aged(n, awake),
         \A q \in Runs : awake /\ run[q].alive => run[q].sent + n <= Beat,
         NEW r \in Runs, Holds(r), UNCHANGED <<pc, worker>>
  PROVE  /\ Hears(r)' /\ Queued(r)' /\ Asks(r)' /\ Looked(r)'
         /\ Live(r)' = Live(r) /\ Waits(r)' = Waits(r)
         /\ Live(r) /\ Waits(r) => First(r) \in Ages /\ First(r)' = Older(First(r), n)
         /\ Live(r) => Latest(r) \in Ages /\ Latest(r)' = Older(Latest(r), n)
<1>1. /\ run'[r].state = run[r].state /\ run'[r].where = run[r].where /\ run'[r].alive = run[r].alive
      /\ Live(r) =>
           /\ run'[r].born = Older(run[r].born, n)
           /\ run'[r].heard.beat = Older(run[r].heard.beat, n)
           /\ run'[r].heard.runner = Older(run[r].heard.runner, n)
           /\ run'[r].heard.said = Older(run[r].heard.said, n)
           /\ run'[r].heard.newest = Older(run[r].heard.newest, n)
      /\ Waits(r)' = Waits(r)
      /\ gate'[r].asked = (IF Waits(r) THEN Older(gate[r].asked, n) ELSE gate[r].asked)
      /\ Len(gate'[r].events) = Len(gate[r].events) /\ DOMAIN gate'[r].events = DOMAIN gate[r].events
      /\ \A i \in DOMAIN gate[r].events :
           /\ gate'[r].events[i].age = Older(gate[r].events[i].age, n)
           /\ gate'[r].events[i].kind = gate[r].events[i].kind
  BY AgedIs
<1>2. up' = Older(up, n) /\ last' = Older(last, n) /\ (pc = "crash" => since' = Older(since, n))
  BY AgedIs
<1>3. Live(r)' = Live(r)
  BY <1>1 DEF Live
<1>4. /\ up \in Ages /\ last \in Ages /\ since \in Ages
      /\ run[r].heard.runner \in Ages /\ run[r].born \in Ages /\ run[r].heard.said \in Ages
      /\ run[r].heard.newest \in Ages /\ run[r].heard.beat \in Ages \cup {Never} /\ gate[r].asked \in Ages
      /\ \A i \in DOMAIN gate[r].events : gate[r].events[i].age \in Ages
      /\ DOMAIN gate[r].events = 1 .. Len(gate[r].events) /\ Len(gate[r].events) \in Nat
      /\ (Waits(r) <=> Len(gate[r].events) > 0)
  BY LoopIs, TypeIs, LineIs
<1>5. /\ \A a, b \in Ages : a <= b => Older(a, n) <= Older(b, n)
      /\ \A a \in Ages : Older(a, n) \in Ages
      /\ Older(Never, n) = Never
  BY OlderIs
<1>6. Live(r) => (run'[r].heard.beat = Never <=> run[r].heard.beat = Never)
  <2>1. \A a \in Ages : a # Never
    BY Limits DEF Ages, Never
  <2> QED  BY <1>1, <1>4, <1>5, <2>1
<1>7. Hears(r)'
  <2> SUFFICES ASSUME Live(r) PROVE Hears(r)'
    BY <1>3 DEF Hears
  <2>1. /\ worker
        /\ run[r].heard.beat = Never => run[r].heard.runner = run[r].born
        /\ run[r].where = "stack" /\ run[r].heard.beat # Never => run[r].heard.beat = run[r].heard.runner
        /\ run[r].heard.newest <= run[r].heard.runner /\ run[r].heard.said <= run[r].heard.runner
    BY DEF Hears, Holds
  <2> QED  BY <1>1, <1>4, <1>5, <1>6, <2>1 DEF Hears
<1>8. Queued(r)'
  <2> SUFFICES ASSUME Live(r) PROVE Queued(r)'
    BY <1>3 DEF Queued
  <2>1. \A i \in DOMAIN gate[r].events :
          /\ gate[r].events[i].age <= run[r].heard.runner
          /\ \A j \in DOMAIN gate[r].events : i <= j => gate[r].events[j].age <= gate[r].events[i].age
          /\ gate[r].events[i].kind = "work" => run[r].where = "host" /\ run[r].heard.beat # Never
    BY DEF Queued, Holds
  <2>2. \A i \in DOMAIN gate[r].events :
          /\ gate'[r].events[i].age <= run'[r].heard.runner
          /\ \A j \in DOMAIN gate[r].events : i <= j => gate'[r].events[j].age <= gate'[r].events[i].age
          /\ gate'[r].events[i].kind = "work" => run'[r].where = "host" /\ run'[r].heard.beat # Never
    <3> TAKE i \in DOMAIN gate[r].events
    <3>1. gate'[r].events[i].age <= run'[r].heard.runner
      BY <1>1, <1>4, <1>5, <2>1
    <3>2. ASSUME NEW j \in DOMAIN gate[r].events, i <= j PROVE gate'[r].events[j].age <= gate'[r].events[i].age
      BY <1>1, <1>4, <1>5, <2>1, <3>2
    <3>3. gate'[r].events[i].kind = "work" => run'[r].where = "host" /\ run'[r].heard.beat # Never
      BY <1>1, <1>6, <2>1
    <3> QED  BY <3>1, <3>2, <3>3
  <2> QED  BY <1>1, <2>2 DEF Queued
<1>9. Asks(r)'
  BY <1>1 DEF Asks, Holds
<1>10. Waits(r) => 1 \in DOMAIN gate[r].events /\ Len(gate[r].events) \in DOMAIN gate[r].events
  BY <1>4
<1>11. Live(r) /\ Waits(r) => First(r) \in Ages /\ First(r)' = Older(First(r), n)
  BY <1>1, <1>4, <1>10 DEF First
<1>12. Live(r) => Latest(r) \in Ages /\ Latest(r)' = Older(Latest(r), n)
  <2>1. CASE Waits(r)
    <3>1. Latest(r) = gate[r].events[Len(gate[r].events)].age
      BY <2>1 DEF Latest
    <3>2. Latest(r)' = gate'[r].events[Len(gate[r].events)].age
      BY <1>1, <2>1 DEF Latest
    <3> QED  BY <1>1, <1>4, <1>10, <2>1, <3>1, <3>2
  <2>2. CASE ~Waits(r)
    BY <1>1, <1>4, <2>2 DEF Latest
  <2> QED  BY <2>1, <2>2
<1>13. Looked(r)'
  <2> SUFFICES ASSUME Live(r), pc = "crash" PROVE Looked(r)'
    BY <1>3 DEF Looked
  <2>1. \/ run[r].heard.runner <= since \/ run[r].born <= since
        \/ Waits(r) /\ gate[r].asked > 0 /\ gate[r].asked >= last /\ First(r) <= since
    BY DEF Looked, Holds
  <2>2. CASE run[r].heard.runner <= since \/ run[r].born <= since
    <3>1. run'[r].heard.runner <= since' \/ run'[r].born <= since'
      BY <1>1, <1>2, <1>4, <1>5, <2>2
    <3> QED  BY <3>1 DEF Looked
  <2>3. CASE Waits(r) /\ gate[r].asked > 0 /\ gate[r].asked >= last /\ First(r) <= since
    <3>1. gate'[r].asked = Older(gate[r].asked, n) /\ last' = Older(last, n) /\ since' = Older(since, n)
          /\ First(r)' = Older(First(r), n) /\ First(r) \in Ages
      BY <1>1, <1>2, <1>11, <2>3
    <3>2. First(r)' <= since'
      BY <1>4, <1>5, <2>3, <3>1
    <3>3. Older(gate[r].asked, n) > 0
      BY <1>4, OlderIsNat
    <3>4. Older(last, n) <= Older(gate[r].asked, n) /\ Older(last, n) \in Nat /\ Older(gate[r].asked, n) \in Nat
      <4>1. last \in Nat /\ gate[r].asked \in Nat /\ Older(last, n) \in Nat /\ Older(gate[r].asked, n) \in Nat
        BY <1>4, OlderIsNat
      <4>2. last <= gate[r].asked
        BY <2>3, <4>1
      <4> QED  BY <1>4, <1>5, <4>1, <4>2
    <3> QED  BY <1>1, <2>3, <3>1, <3>2, <3>3, <3>4 DEF Looked
  <2> QED  BY <2>1, <2>2, <2>3
<1> QED  BY <1>1, <1>3, <1>7, <1>8, <1>9, <1>11, <1>12, <1>13
\* A unit of time passes when nothing is due.
LEMMA ElapseKeeps ==
  ASSUME IInv, Elapse
  PROVE  IInv'
<1>1. /\ \A q \in Runs : run[q].alive => run[q].sent < Beat
      /\ service = "up" => pc = "rest" /\ last < Tick /\ \A q \in Runs : gate[q].events = << >>
      /\ service = "deaf" => pc \in Waiting \/ (pc = "rest" /\ last < Tick)
      /\ service # "up" => away < MaxAway
      /\ away' = (IF service = "up" THEN 0 ELSE away + 1)
      /\ Aged(1, TRUE)
      /\ UNCHANGED <<swept, pc, torn, service, worker, breaks, slips>>
  BY DEF Elapse
<1>2. TypeOK /\ Rests /\ service \in {"up", "deaf", "down"}
  BY LoopIs DEF IInv
<1>3. \A q \in Runs : TRUE /\ run[q].alive => run[q].sent + 1 <= Beat
  <2> TAKE q \in Runs
  <2>1. run[q].sent \in 0 .. Beat
    BY <1>2, TypeIs
  <2> QED  BY <1>1, <2>1, Limits
<1>4. /\ up' = Older(up, 1) /\ last' = Older(last, 1)
      /\ up' \in Ages /\ last' \in Ages /\ since' \in Ages
      /\ run' \in [Runs -> RunOf] /\ gate' \in [Runs -> GateOf] /\ HeldOK'
  <2>1. torn' \in BOOLEAN
    BY <1>1, <1>2, TypeAll DEF HeldOK
  <2> QED  BY <1>1, <1>2, <1>3, <2>1, AgedIs
<1>5. away' \in Ages
  <2>1. away \in Nat
    BY <1>2, LoopIs, Limits DEF Ages
  <2> QED  BY <1>1, <2>1, ZeroAge, Limits DEF Ages
<1>6. TypeOK'
  BY <1>1, <1>2, <1>4, <1>5, TypeAll, TypeByRun, HeldStays, StepsAre
<1>7. last \in Nat /\ up \in Nat /\ Older(last, 1) \in Nat /\ Older(up, 1) \in Nat /\ away \in Nat
      /\ (Older(last, 1) = last + 1 \/ Older(last, 1) = Cap) /\ Older(up, 1) <= up + 1 /\ last <= Older(last, 1)
      /\ Older(last, 1) <= last + 1
  <2>1. last \in Ages /\ up \in Ages /\ away \in Ages
    BY <1>2, LoopIs
  <2> QED  BY <2>1, OlderIs, OlderIsNat
<1>8. Rests'
  <2> SUFFICES ASSUME service = "deaf", pc \in Between PROVE away' <= last' /\ last' <= Late
    BY <1>1 DEF Rests
  <2>1. pc = "rest" /\ last < Tick /\ away' = away + 1
    BY <1>1, BetweenAre
  <2>2. away <= last
    BY <1>2, <1>7, <2>1, BetweenAre DEF Rests
  <2>3. Older(last, 1) = last + 1
    BY <1>7, <2>1, Limits
  <2> QED  BY <1>4, <1>7, <2>1, <2>2, <2>3, Limits
<1>9. ASSUME NEW q \in Runs PROVE Holds(q)'
  <2>1. Holds(q) /\ Typed(q)
    BY <1>2, TypedIs DEF IInv
  <2>2. /\ Hears(q)' /\ Queued(q)' /\ Asks(q)' /\ Looked(q)'
        /\ Live(q)' = Live(q) /\ Waits(q)' = Waits(q)
        /\ Live(q) /\ Waits(q) => First(q) \in Ages /\ First(q)' = Older(First(q), 1)
        /\ Live(q) => Latest(q) \in Ages /\ Latest(q)' = Older(Latest(q), 1)
    <3>1. 1 \in Nat /\ 1 > 0 /\ TRUE \in BOOLEAN
      OBVIOUS
    <3>2. UNCHANGED <<pc, worker>> /\ Aged(1, TRUE)
      BY <1>1
    <3>3. TypeOK /\ Holds(q)
      BY <1>2, <2>1
    <3> QED  BY <1>3, <3>1, <3>2, <3>3, AgedKeeps
  <2>3. Live(q) => run'[q].sent = run[q].sent + 1 /\ run'[q].heard.runner = Older(run[q].heard.runner, 1)
    BY <1>1, <1>2, <1>3, AgedIs
  <2>4. gate'[q].asked = IF Waits(q) THEN Older(gate[q].asked, 1) ELSE gate[q].asked
    BY <1>1, <1>2, <1>3, AgedIs
  <2>5. Slack' = Slack /\ Slack \in Nat /\ Margin' = Margin /\ (Tardy => Tardy')
    BY <1>1, <1>4, <1>7, <2>1, Limits DEF Slack, Margin, Tardy, Typed
  <2>6. run[q].heard.runner \in Nat /\ Older(run[q].heard.runner, 1) \in Nat
        /\ Older(run[q].heard.runner, 1) <= run[q].heard.runner + 1
        /\ gate[q].asked \in Nat /\ Older(gate[q].asked, 1) \in Nat /\ Older(gate[q].asked, 1) > 0
        /\ (Older(gate[q].asked, 1) = gate[q].asked + 1 \/ Older(gate[q].asked, 1) = Cap)
        /\ gate[q].asked <= Older(gate[q].asked, 1)
        /\ run[q].sent \in Nat
    <3>1. run[q].heard.runner \in Ages /\ gate[q].asked \in Ages /\ run[q].sent \in 0 .. Beat
      BY <1>2, TypeIs
    <3>2. \A a \in Ages : /\ a \in Nat /\ Older(a, 1) \in Nat /\ Older(a, 1) > 0 /\ a <= Older(a, 1)
                          /\ Older(a, 1) <= a + 1 /\ (Older(a, 1) = a + 1 \/ Older(a, 1) = Cap)
      BY OlderIs, OlderIsNat
    <3>3. run[q].sent \in Nat
      BY <3>1, Limits
    <3> QED  BY <3>1, <3>2, <3>3
  <2>7. CASE ~Live(q)
    BY <2>2, <2>7, Quiet
  <2>8. CASE Live(q)
    <3>1. Spoke(q)'
      <4>1. Tardy \/ Latest(q) <= run[q].sent + Slack \/ up <= run[q].sent + Slack
        BY <2>1, <2>8 DEF Spoke, Holds
      <4>2. Older(Latest(q), 1) <= Latest(q) + 1 /\ Older(Latest(q), 1) \in Nat /\ Latest(q) \in Nat
        BY <2>2, <2>8, OlderIs, OlderIsNat
      <4>3. Tardy \/ Older(Latest(q), 1) <= run[q].sent + 1 + Slack \/ Older(up, 1) <= run[q].sent + 1 + Slack
        BY <1>7, <2>5, <2>6, <4>1, <4>2
      <4> QED  BY <1>4, <2>2, <2>3, <2>5, <2>8, <4>3 DEF Spoke
    <3>2. Heeded(q)' /\ Since(q)' /\ Fresh(q)'
      <4>1. CASE ~Waits(q)
        BY <2>2, <4>1 DEF Heeded, Since, Fresh
      <4>2. CASE Waits(q)
        <5>1. service # "up" /\ away' = away + 1 /\ gate'[q].asked = Older(gate[q].asked, 1)
          BY <1>1, <2>4, <4>2 DEF Waits
        <5>2. Fresh(q)'
          BY <2>6, <5>1 DEF Fresh
        <5>3. CASE service = "down"
          BY <1>1, <5>2, <5>3 DEF Heeded, Since
        <5>4. CASE service = "deaf"
          <6>1. away + 1 <= MaxAway /\ MaxAway <= Cap /\ Cap > Late /\ MaxAway \in Nat /\ Cap \in Nat /\ Late \in Nat /\ Beat \in Nat
            BY <1>1, <1>7, <5>4, Limits
          <6>2. gate[q].asked >= away => Older(gate[q].asked, 1) >= away + 1
            BY <1>7, <2>6, <6>1
          <6>3. gate[q].asked > Late => Older(gate[q].asked, 1) > Late
            BY <2>6, <6>1
          <6>4. \/ Tardy \/ gate[q].asked > Late
                \/ gate[q].asked >= away /\ Soon(q, Margin + away)
                \/ Soon(q, Beat + Slack + gate[q].asked)
            BY <2>1, <2>8, <4>2, <5>4 DEF Heeded, Holds
          <6>5. Margin \in Nat
            BY <2>5, <6>1 DEF Margin
          <6> DEFINE R == Older(run[q].heard.runner, 1)
                     U == Older(up, 1)
                     A == Older(gate[q].asked, 1)
          <6>6. R \in Nat /\ U \in Nat /\ A \in Nat /\ R <= run[q].heard.runner + 1 /\ U <= up + 1
                /\ (A = gate[q].asked + 1 \/ A = Cap) /\ run'[q].heard.runner = R /\ up' = U /\ gate'[q].asked = A
                /\ (gate[q].asked >= away => A >= away + 1) /\ (gate[q].asked > Late => A > Late)
            BY <1>4, <1>7, <2>3, <2>6, <2>8, <5>1, <6>2, <6>3
          <6> HIDE DEF R, U, A
          <6>7. \/ Tardy \/ A > Late
                \/ A >= away + 1 /\ (R <= Margin + (away + 1) \/ U <= Margin + (away + 1))
                \/ R <= Beat + Slack + A \/ U <= Beat + Slack + A
            <7>1. CASE Tardy \/ gate[q].asked > Late
              BY <6>6, <7>1
            <7>2. CASE gate[q].asked >= away /\ Soon(q, Margin + away)
              BY <1>7, <2>6, <6>5, <6>6, <7>2 DEF Soon
            <7>3. CASE Soon(q, Beat + Slack + gate[q].asked)
              <8>1. CASE A = Cap
                BY <6>1, <8>1
              <8>2. CASE A = gate[q].asked + 1
                BY <1>7, <2>5, <2>6, <6>1, <6>6, <7>3, <8>2 DEF Soon
              <8> QED  BY <6>6, <8>1, <8>2
            <7> QED  BY <6>4, <7>1, <7>2, <7>3
          <6>8. Heeded(q)'
            BY <1>1, <2>5, <5>1, <5>4, <6>6, <6>7 DEF Heeded, Soon
          <6>9. Since(q)'
            <7>1. \/ Tardy \/ First(q) <= up
                  \/ up <= Slack + away /\ (gate[q].asked >= away \/ gate[q].asked > Late)
                  \/ gate[q].asked > Late /\ pc \notin Between
              BY <2>1, <2>8, <4>2, <5>4 DEF Since, Holds
            <7>2. First(q) <= up => First(q)' <= U
              <8>1. up \in Ages /\ First(q) \in Ages /\ First(q)' = Older(First(q), 1)
                BY <1>2, <2>2, <2>8, <4>2, LoopIs
              <8> QED  BY <8>1, OlderIs DEF U
            <7>3. up <= Slack + away => U <= Slack + (away + 1)
              BY <1>7, <2>5, <6>6
            <7> QED  BY <1>1, <2>5, <5>1, <5>4, <6>6, <7>1, <7>2, <7>3 DEF Since
          <6> QED  BY <5>2, <6>8, <6>9
        <5> QED  BY <1>2, <5>1, <5>3, <5>4
      <4> QED  BY <4>1, <4>2
    <3> QED  BY <2>2, <3>1, <3>2 DEF Holds
  <2> QED  BY <2>7, <2>8
<1> QED  BY <1>6, <1>8, <1>9 DEF IInv
\* A sleep is short, and counted with the short ones, or the round is late after it.
LEMMA SleepKeeps ==
  ASSUME IInv, NEW n \in {Late, Cap}, Sleep(n)
  PROVE  IInv'
<1>1. /\ service = "up" /\ Spent(n) /\ Aged(n, FALSE) /\ Tear
      /\ UNCHANGED <<swept, pc, service, away, worker>>
  BY DEF Sleep
<1>2. TypeOK /\ n \in Nat /\ n > 0
  BY Limits DEF IInv
<1>3. \A q \in Runs : FALSE /\ run[q].alive => run[q].sent + n <= Beat
  OBVIOUS
<1>4. /\ up' = Older(up, n) /\ last' = Older(last, n)
      /\ up' \in Ages /\ last' \in Ages /\ since' \in Ages
      /\ run' \in [Runs -> RunOf] /\ gate' \in [Runs -> GateOf] /\ HeldOK'
  <2>1. torn' \in BOOLEAN
    BY <1>1, <1>2, TypeAll DEF HeldOK, Tear
  <2> QED  BY <1>1, <1>2, <1>3, <2>1, AgedIs
<1>5. breaks' \in 0 .. MaxBreaks /\ slips' \in 0 .. MaxSlips
  <2>1. breaks \in 0 .. MaxBreaks /\ slips \in 0 .. MaxSlips
    BY <1>2, TypeAll
  <2> QED  BY <1>1, <2>1, Limits DEF Spent
<1>6. TypeOK'
  BY <1>1, <1>2, <1>4, <1>5, TypeAll, TypeByRun, HeldStays, StepsAre
<1>7. Rests'
  BY <1>1 DEF Rests
<1>8. last \in Nat /\ up \in Nat /\ Older(last, n) \in Nat /\ Older(up, n) \in Nat
      /\ (Older(last, n) = last + n \/ Older(last, n) = Cap) /\ Older(up, n) <= up + n /\ last <= Older(last, n)
  <2>1. last \in Ages /\ up \in Ages
    BY <1>2, LoopIs
  <2> QED  BY <1>2, <2>1, OlderIs, OlderIsNat
<1>9. Tardy' \/ (n = Late /\ Slack' = Slack + Late)
  <2>1. CASE n = Late
    <3>1. slips' = slips + 1 /\ slips \in 0 .. MaxSlips
      BY <1>1, <1>2, <2>1, LoopIs, Limits DEF Spent
    <3> QED  BY <2>1, <3>1, SlackGrows
  <2>2. CASE n = Cap
    BY <1>4, <1>8, <2>2, Limits DEF Tardy
  <2> QED  BY <2>1, <2>2
<1>10. Tardy => Tardy'
  BY <1>4, <1>8, Limits DEF Tardy
<1>11. ASSUME NEW q \in Runs PROVE Holds(q)'
  <2>1. Holds(q) /\ Typed(q)
    BY <1>2, TypedIs DEF IInv
  <2>2. /\ Hears(q)' /\ Queued(q)' /\ Asks(q)' /\ Looked(q)'
        /\ Live(q)' = Live(q) /\ Waits(q)' = Waits(q)
        /\ Live(q) /\ Waits(q) => First(q) \in Ages /\ First(q)' = Older(First(q), n)
        /\ Live(q) => Latest(q) \in Ages /\ Latest(q)' = Older(Latest(q), n)
    <3>1. FALSE \in BOOLEAN
      OBVIOUS
    <3>2. UNCHANGED <<pc, worker>> /\ Aged(n, FALSE)
      BY <1>1
    <3> QED  BY <1>2, <1>3, <2>1, <3>1, <3>2, AgedKeeps
  <2>3. Live(q) => run'[q].sent = run[q].sent /\ run'[q].heard.runner = Older(run[q].heard.runner, n)
    BY <1>1, <1>2, <1>3, AgedIs
  <2>4. gate'[q].asked = IF Waits(q) THEN Older(gate[q].asked, n) ELSE gate[q].asked
    BY <1>1, <1>2, <1>3, AgedIs
  <2>5. CASE ~Live(q)
    BY <2>2, <2>5, Quiet
  <2>6. CASE Live(q) /\ Tardy'
    BY <2>2, <2>6 DEF Holds, Spoke, Heeded, Since, Fresh
  <2>7. CASE Live(q) /\ n = Late /\ Slack' = Slack + Late
    <3>1. /\ Slack \in Nat /\ Late \in Nat /\ Beat \in Nat /\ Late > 0 /\ Margin \in Nat /\ Margin' = Margin + Late
      <4>1. Slack \in Nat /\ Late \in Nat /\ Beat \in Nat /\ Late > 0
        BY <2>1, Limits DEF Typed
      <4>2. Margin' = Beat + Late + Slack'
        BY DEF Margin
      <4> QED  BY <2>7, <4>1, <4>2 DEF Margin
    <3>2. run[q].heard.runner \in Nat /\ Older(run[q].heard.runner, n) \in Nat
          /\ Older(run[q].heard.runner, n) <= run[q].heard.runner + n /\ run[q].sent \in Nat
          /\ gate[q].asked \in Nat /\ Older(gate[q].asked, n) \in Nat /\ Older(gate[q].asked, n) > 0
          /\ gate[q].asked <= Older(gate[q].asked, n)
      <4>1. run[q].heard.runner \in Ages /\ gate[q].asked \in Ages /\ run[q].sent \in 0 .. Beat
        BY <1>2, TypeIs
      <4>2. \A a \in Ages : /\ a \in Nat /\ Older(a, n) \in Nat /\ Older(a, n) > 0 /\ a <= Older(a, n)
                            /\ Older(a, n) <= a + n
        BY <1>2, OlderIs, OlderIsNat
      <4>3. run[q].sent \in Nat
        BY <4>1, Limits
      <4> QED  BY <4>1, <4>2, <4>3
    <3>3. Spoke(q)'
      <4>1. Tardy \/ Latest(q) <= run[q].sent + Slack \/ up <= run[q].sent + Slack
        BY <2>1, <2>7 DEF Spoke, Holds
      <4>2. Older(Latest(q), n) <= Latest(q) + n /\ Older(Latest(q), n) \in Nat /\ Latest(q) \in Nat
        BY <1>2, <2>2, <2>7, OlderIs, OlderIsNat
      <4>3. Tardy \/ Older(Latest(q), n) <= run[q].sent + (Slack + Late) \/ Older(up, n) <= run[q].sent + (Slack + Late)
        BY <1>8, <2>7, <3>1, <3>2, <4>1, <4>2
      <4> QED  BY <1>4, <1>10, <2>2, <2>3, <2>7, <4>3 DEF Spoke
    <3>4. CASE ~Waits(q)
      BY <2>2, <3>3, <3>4 DEF Holds, Heeded, Since, Fresh
    <3>5. CASE Waits(q)
      <4>1. gate'[q].asked = Older(gate[q].asked, n)
        BY <2>4, <3>5
      <4>2. Fresh(q)'
        BY <3>2, <4>1 DEF Fresh
      <4>3. Heeded(q)'
        <5>1. Tardy \/ gate[q].asked > Late \/ run[q].heard.runner <= Margin \/ up <= Margin
          BY <1>1, <2>1, <2>7, <3>5 DEF Heeded, Soon, Holds
        <5>2. \/ Tardy \/ Older(gate[q].asked, n) > Late
              \/ Older(run[q].heard.runner, n) <= Margin + Late \/ Older(up, n) <= Margin + Late
          BY <1>8, <2>7, <3>1, <3>2, <5>1
        <5> QED  BY <1>1, <1>4, <1>10, <2>3, <2>7, <3>1, <4>1, <5>2 DEF Heeded, Soon
      <4>4. Since(q)'
        <5>1. Tardy \/ First(q) <= up \/ up <= Slack \/ (gate[q].asked > Late /\ pc \notin Between)
          BY <1>1, <2>1, <2>7, <3>5 DEF Since, Holds
        <5>2. First(q) <= up => First(q)' <= Older(up, n)
          <6>1. up \in Ages /\ First(q) \in Ages /\ First(q)' = Older(First(q), n)
            BY <1>2, <2>2, <2>7, <3>5, LoopIs
          <6> QED  BY <1>2, <6>1, OlderIs
        <5>3. up <= Slack => Older(up, n) <= Slack + Late
          BY <1>8, <2>7, <3>1
        <5>4. gate[q].asked > Late => Older(gate[q].asked, n) > Late
          BY <3>1, <3>2
        <5> QED  BY <1>1, <1>4, <1>10, <2>7, <4>1, <5>1, <5>2, <5>3, <5>4 DEF Since
      <4> QED  BY <2>2, <3>3, <4>2, <4>3, <4>4 DEF Holds
    <3> QED  BY <3>4, <3>5
  <2> QED  BY <1>9, <2>5, <2>6, <2>7
<1> QED  BY <1>6, <1>7, <1>11 DEF IInv

\* Nothing of a run changes when the writer is taken, or let go, or the service ends.
LEMMA SameRun ==
  ASSUME NEW r \in Runs, Holds(r), UNCHANGED <<up, last, since, pc, worker, run, gate>>
  PROVE  /\ Live(r)' = Live(r) /\ Waits(r)' = Waits(r) /\ Latest(r)' = Latest(r) /\ First(r)' = First(r)
         /\ Tardy' = Tardy
         /\ Hears(r)' /\ Queued(r)' /\ Asks(r)' /\ Looked(r)'
BY DEF Live, Waits, Latest, First, Tardy, Holds, Hears, Queued, Asks, Looked

LEMMA DeafenKeeps ==
  ASSUME IInv, Deafen
  PROVE  IInv'
<1>1. service = "up" /\ service' = "deaf" /\ away' = 0 /\ Tear
      /\ UNCHANGED <<up, last, swept, pc, since, held, worker, run, gate, breaks, slips>>
  BY DEF Deafen
<1>2. TypeOK
  BY DEF IInv
<1>3. TypeOK'
  <2>1. HeldOK'
    BY <1>1, <1>2, TypeAll DEF HeldOK, held, Tear
  <2> QED  BY <1>1, <1>2, <2>1, ZeroAge, TypeAll, TypeByRun
<1>4. Rests'
  BY <1>1 DEF Rests
<1>5. ASSUME NEW q \in Runs PROVE Holds(q)'
  <2>1. Holds(q) /\ Typed(q)
    BY <1>2, TypedIs DEF IInv
  <2>2. /\ Live(q)' = Live(q) /\ Waits(q)' = Waits(q) /\ Latest(q)' = Latest(q) /\ First(q)' = First(q)
        /\ Tardy' = Tardy
        /\ Hears(q)' /\ Queued(q)' /\ Asks(q)' /\ Looked(q)'
    BY <1>1, <2>1, SameRun
  <2>3. Slack' = Slack /\ Slack \in Nat /\ Margin' = Margin /\ Margin + 0 = Margin /\ Slack + 0 = Slack
        /\ gate[q].asked >= 0
    <3>1. Slack \in Nat /\ Beat \in Nat /\ Late \in Nat /\ gate[q].asked \in Nat
      BY <2>1, Limits DEF Typed
    <3> QED  BY <1>1, <3>1 DEF Slack, Margin
  <2>4. Spoke(q)' /\ Fresh(q)'
    BY <1>1, <2>1, <2>2, <2>3 DEF Spoke, Fresh, Holds
  <2>5. Heeded(q)' /\ Since(q)'
    BY <1>1, <2>1, <2>2, <2>3 DEF Heeded, Since, Soon, Holds
  <2> QED  BY <2>2, <2>4, <2>5 DEF Holds
<1> QED  BY <1>3, <1>4, <1>5 DEF IInv

LEMMA StopKeeps ==
  ASSUME IInv, Stop
  PROVE  IInv'
<1>1. service' = "down" /\ away' = 0 /\ breaks < MaxBreaks /\ breaks' = breaks + 1
      /\ UNCHANGED <<loop, worker, run, gate, slips>>
  BY DEF Stop
<1>2. TypeOK
  BY DEF IInv
<1>3. TypeOK'
  <2>1. breaks' \in 0 .. MaxBreaks
    BY <1>1, <1>2, TypeAll, Limits
  <2> QED  BY <1>1, <1>2, <2>1, ZeroAge, TypeAll, TypeByRun, HeldStays, StepsAre DEF loop
<1>4. Rests'
  BY <1>1 DEF Rests
<1>5. ASSUME NEW q \in Runs PROVE Holds(q)'
  <2>1. Holds(q)
    BY DEF IInv
  <2>2. /\ Live(q)' = Live(q) /\ Waits(q)' = Waits(q) /\ Latest(q)' = Latest(q) /\ First(q)' = First(q)
        /\ Tardy' = Tardy
        /\ Hears(q)' /\ Queued(q)' /\ Asks(q)' /\ Looked(q)'
    BY <1>1, <2>1, SameRun DEF loop
  <2>3. Slack' = Slack
    BY <1>1 DEF Slack
  <2>4. Spoke(q)' /\ Fresh(q)' /\ Heeded(q)' /\ Since(q)'
    BY <1>1, <2>1, <2>2, <2>3 DEF Spoke, Fresh, Heeded, Since, Holds, loop
  <2> QED  BY <2>2, <2>4 DEF Holds
<1> QED  BY <1>3, <1>4, <1>5 DEF IInv

\* A deaf spell is short, and counted; or what waited for it will set the clock back.
LEMMA HearKeeps ==
  ASSUME IInv, Hear
  PROVE  IInv'
<1>1. service = "deaf" /\ Spent(away) /\ service' = "up" /\ away' = 0 /\ UNCHANGED <<loop, worker, run, gate>>
  BY DEF Hear
<1>2. TypeOK /\ Rests /\ slips \in 0 .. MaxSlips
  BY LoopIs DEF IInv
<1>3. TypeOK'
  <2>1. breaks' \in 0 .. MaxBreaks /\ slips' \in 0 .. MaxSlips
    <3>1. breaks \in 0 .. MaxBreaks /\ slips \in 0 .. MaxSlips
      BY <1>2, TypeAll
    <3> QED  BY <1>1, <3>1, Limits DEF Spent
  <2> QED  BY <1>1, <1>2, <2>1, ZeroAge, TypeAll, TypeByRun, HeldStays, StepsAre DEF loop
<1>4. Rests'
  BY <1>1 DEF Rests
<1>5. \/ away > Late /\ slips' = slips
      \/ ~(away > Late) /\ slips' = slips + 1
  BY <1>1 DEF Spent
<1>6. ASSUME NEW q \in Runs PROVE Holds(q)'
  <2>1. Holds(q) /\ Typed(q)
    BY <1>2, TypedIs DEF IInv
  <2>2. /\ Live(q)' = Live(q) /\ Waits(q)' = Waits(q) /\ Latest(q)' = Latest(q) /\ First(q)' = First(q)
        /\ Tardy' = Tardy
        /\ Hears(q)' /\ Queued(q)' /\ Asks(q)' /\ Looked(q)'
    BY <1>1, <2>1, SameRun DEF loop
  <2>3. up' = up /\ pc' = pc /\ run' = run /\ gate' = gate
    BY <1>1 DEF loop
  <2>4. /\ Slack \in Nat /\ Late \in Nat /\ Beat \in Nat /\ away \in Nat /\ last \in Nat /\ up \in Nat
        /\ run[q].heard.runner \in Nat /\ gate[q].asked \in Nat /\ run[q].sent \in Nat
    BY <2>1, Limits DEF Typed
  <2> DEFINE S == Slack'
  <2>5. S \in Nat /\ Slack <= S /\ (~(away > Late) => S = Slack + Late) /\ Margin' = Beat + Late + S
        /\ Margin = Beat + Late + Slack
    <3>1. CASE away > Late
      BY <1>5, <2>4, <3>1 DEF Slack, Margin
    <3>2. CASE ~(away > Late)
      <4>1. S = Slack + Late
        BY <1>2, <1>5, <3>2, SlackGrows
      <4> QED  BY <2>4, <3>2, <4>1 DEF Margin
    <3> QED  BY <3>1, <3>2
  <2> HIDE DEF S
  <2>6. Spoke(q)'
    <3>1. Live(q) => Tardy \/ Latest(q) <= run[q].sent + S \/ up <= run[q].sent + S
      <4>1. Live(q) => Tardy \/ Latest(q) <= run[q].sent + Slack \/ up <= run[q].sent + Slack
        BY <2>1 DEF Spoke, Holds
      <4>2. Latest(q) \in Nat
        BY <2>1 DEF Latest, Typed
      <4> QED  BY <2>4, <2>5, <4>1, <4>2
    <3> QED  BY <2>2, <2>3, <3>1 DEF Spoke, S
  <2>7. Fresh(q)'
    <3>1. Live(q) /\ Waits(q) /\ gate[q].asked = 0 =>
            Tardy \/ run[q].heard.runner <= up \/ up <= Beat + Slack
      BY <1>1, <2>1 DEF Fresh, Holds
    <3>2. up <= Beat + Slack => up <= Beat + S
      BY <2>4, <2>5
    <3> QED  BY <2>2, <2>3, <3>1, <3>2 DEF Fresh, S
  <2>8. Heeded(q)'
    <3> SUFFICES ASSUME Live(q), Waits(q)
                 PROVE  \/ Tardy \/ gate[q].asked > Late
                        \/ run[q].heard.runner <= Beat + Late + S \/ up <= Beat + Late + S
      BY <1>1, <2>2, <2>3, <2>5 DEF Heeded, Soon
    <3>1. \/ Tardy \/ gate[q].asked > Late
          \/ gate[q].asked >= away /\ (run[q].heard.runner <= Margin + away \/ up <= Margin + away)
          \/ run[q].heard.runner <= Beat + Slack + gate[q].asked \/ up <= Beat + Slack + gate[q].asked
      BY <1>1, <2>1 DEF Heeded, Soon, Holds
    <3> QED  BY <2>4, <2>5, <3>1
  <2>9. Since(q)'
    <3> SUFFICES ASSUME Live(q), Waits(q)
                 PROVE  \/ Tardy \/ First(q) <= up \/ up <= S
                        \/ gate[q].asked > Late /\ pc \notin Between
      BY <1>1, <2>2, <2>3 DEF Since, S
    <3>1. \/ Tardy \/ First(q) <= up
          \/ up <= Slack + away /\ (gate[q].asked >= away \/ gate[q].asked > Late)
          \/ gate[q].asked > Late /\ pc \notin Between
      BY <1>1, <2>1 DEF Since, Holds
    <3>2. away > Late => pc \notin Between
      BY <1>1, <1>2, <2>4 DEF Rests
    <3> QED  BY <2>4, <2>5, <3>1, <3>2
  <2> QED  BY <2>2, <2>6, <2>7, <2>8, <2>9 DEF Holds
<1> QED  BY <1>3, <1>4, <1>6 DEF IInv

\* A service that starts has listened to nobody yet.
LEMMA BootKeeps ==
  ASSUME IInv, Boot
  PROVE  IInv'
<1>1. /\ service' = "up" /\ away' = 0 /\ up' = 0 /\ last' = 0 /\ since' = 0 /\ swept' = FALSE /\ pc' = "boot"
      /\ found' = [r \in Runs |-> Never] /\ todo' = {} /\ hand' = {} /\ lived' = 0 /\ listened' = 0
      /\ torn' = FALSE
      /\ gate' = [q \in Runs |-> [gate[q] EXCEPT !.asked = 0]]
      /\ UNCHANGED <<worker, run, breaks, slips>>
  BY DEF Boot
<1>2. TypeOK
  BY DEF IInv
<1>3. \A g \in GateOf : LET b == [g EXCEPT !.asked = 0] IN b \in GateOf /\ b.asked = 0 /\ b.events = g.events
  BY ZeroAge DEF GateOf
<1>4. \A q \in Runs : gate'[q] \in GateOf /\ gate'[q].asked = 0 /\ gate'[q].events = gate[q].events
  BY <1>1, <1>2, <1>3, TypeIs
<1>5. TypeOK'
  <2>1. gate' \in [Runs -> GateOf]
    <3>1. gate' = [q \in Runs |-> gate'[q]]
      BY <1>1
    <3> QED  BY <1>4, <3>1
  <2>2. swept' \in BOOLEAN /\ HeldOK'
    BY <1>1, ZeroAge DEF HeldOK
  <2> QED  BY <1>1, <1>2, <2>1, <2>2, ZeroAge, TypeAll, TypeByRun, StepsAre
<1>6. Rests'
  BY <1>1 DEF Rests
<1>7. ASSUME NEW q \in Runs PROVE Holds(q)'
  <2>1. Holds(q) /\ Typed(q)
    BY <1>2, TypedIs DEF IInv
  <2>2. Live(q)' = Live(q) /\ Waits(q)' = Waits(q) /\ run' = run /\ worker' = worker
    BY <1>1, <1>4 DEF Live, Waits
  <2>3. Hears(q)' /\ Asks(q)' /\ Looked(q)'
    <3>1. Hears(q)'
      BY <2>1, <2>2 DEF Hears, Holds
    <3>2. Asks(q)'
      BY <1>4, <2>1, <2>2, Zenon DEF Asks, Holds
    <3>3. Looked(q)'
      BY <1>1 DEF Looked
    <3> QED  BY <3>1, <3>2, <3>3
  <2>4. Queued(q)'
    BY <1>4, <2>1, <2>2 DEF Queued, Holds
  <2>5. Slack' = Slack /\ Slack \in Nat /\ 0 <= Slack /\ 0 <= Margin /\ Margin' = Margin /\ 0 <= Beat + Slack
        /\ 0 <= run[q].sent + Slack
    <3>1. Slack \in Nat /\ run[q].sent \in Nat
      <4>1. Slack \in Nat /\ run[q].sent \in 0 .. Beat
        BY <2>1, Zenon DEF Typed
      <4> QED  BY <4>1, Limits
    <3>2. Beat \in Nat /\ Late \in Nat
      BY Limits
    <3>3. Slack' = Slack
      BY <1>1 DEF Slack
    <3> QED  BY <3>1, <3>2, <3>3 DEF Margin
  <2>6. Spoke(q)' /\ Heeded(q)' /\ Since(q)' /\ Fresh(q)'
    BY <1>1, <2>2, <2>5 DEF Spoke, Heeded, Soon, Since, Fresh
  <2> QED  BY <2>3, <2>4, <2>6 DEF Holds
<1> QED  BY <1>5, <1>6, <1>7 DEF IInv
-----------------------------------------------------------------------------
(* What the loop knows between a look at its wait and a close               *)

\* While no absence has cut into the round since that look: a run that lives was
\* heard of within the limit on beats, or we have not listened that long; what
\* the loop has read of it says so too; and it is none of those condemned.
Near(r) == pc \in {"snapshot", "sweep", "read"} => Soon(r, Heartbeat)
Known(r) ==
  /\ pc = "sweep" /\ found[r] # Never => found[r] <= Heartbeat \/ up <= Heartbeat
  /\ pc \in Unasked \ {"snapshot", "sweep", "close", "read"} =>
       run[r].heard.runner <= Heartbeat \/ listened <= Heartbeat
  /\ pc = "born" /\ r \in hand => lived <= run[r].born
Spared(r) == (pc = "close" => r \notin todo) /\ (pc = "finish" => r \notin hand)
Taken(r) == r \in todo \cup hand \/ found[r] # Never => run[r].state # "none"
Facts(r) ==
  /\ Taken(r)
  /\ pc = "host" => listened > Heartbeat
  /\ Live(r) /\ service = "up" /\ ~torn => Near(r) /\ Known(r) /\ Spared(r)
WInv ==
  /\ pc \in Unasked /\ service = "deaf" => torn
  /\ \A q, r \in hand : q = r
  /\ \A r \in Runs : Facts(r)

LEMMA UnaskedAre ==
  /\ Unasked = {"snapshot", "close", "open", "born", "pulse", "host", "heard", "finish", "sweep", "read", "next", "worker"}
  /\ \A s \in {"rest", "boot", "crash", "abandon", "weigh"} : s \notin Unasked
BY DEF Unasked, Waiting, Passing

\* A round that has not been asked, that an absence cut into, or whose service
\* is not there knows nothing.
LEMMA Vacant ==
  ASSUME NEW r \in Runs, Taken(r)', pc' = "host" => listened' > Heartbeat,
         pc' \notin Unasked \/ service' # "up" \/ torn'
  PROVE  Facts(r)'
BY UnaskedAre DEF Facts, Near, Known, Spared

\* What runners, events and the progress clock do while the loop stays.
Goes(r) ==
  /\ UNCHANGED <<pc, held, torn, service>> /\ (up' = up \/ up' = 0)
  /\ run[r].state # "none" => run'[r].state # "none"
  /\ run'[r].state = "closed" => run[r].state = "closed"
  /\ Live(r)' => \/ Live(r) /\ run'[r].heard.runner <= run[r].heard.runner /\ run'[r].born = run[r].born
                 \/ run[r].state = "none" /\ run'[r].heard.runner = 0
LEMMA FactsKept ==
  ASSUME TypeOK, TypeOK', NEW r \in Runs, Facts(r), Goes(r)
  PROVE  Facts(r)'
<1>1. /\ up \in Nat /\ up' \in Nat /\ run[r].heard.runner \in Nat /\ run'[r].heard.runner \in Nat
      /\ Heartbeat \in Nat /\ (up' <= up)
  <2>1. Typed(r)
    BY TypedIs
  <2>2. run'[r] \in RunOf
    BY DEF TypeOK, RunOf
  <2>3. run'[r].heard.runner \in Ages
    BY <2>2 DEF RunOf, Heard
  <2> QED  BY <2>1, <2>3, Limits DEF Typed, Goes, Ages
<1>2. UNCHANGED <<pc, found, todo, hand, lived, listened, torn, service>>
  BY DEF Goes, held
<1>3. Taken(r)'
  BY <1>2 DEF Facts, Taken, Goes
<1>4. pc' = "host" => listened' > Heartbeat
  BY <1>2 DEF Facts
<1>5. ASSUME Live(r)', service' = "up", ~torn' PROVE Near(r)' /\ Known(r)' /\ Spared(r)'
  <2>1. CASE Live(r) /\ run'[r].heard.runner <= run[r].heard.runner /\ run'[r].born = run[r].born
    <3>1. Near(r) /\ Known(r) /\ Spared(r)
      BY <1>2, <1>5, <2>1 DEF Facts
    <3> QED  BY <1>1, <1>2, <2>1, <3>1 DEF Near, Known, Spared, Soon
  <2>2. CASE run[r].state = "none" /\ run'[r].heard.runner = 0
    <3>1. r \notin todo /\ r \notin hand /\ found[r] = Never
      BY <2>2 DEF Facts, Taken
    <3> QED  BY <1>1, <1>2, <2>2, <3>1 DEF Near, Known, Spared, Soon
  <2> QED  BY <1>5, <2>1, <2>2 DEF Goes
<1> QED  BY <1>3, <1>4, <1>5 DEF Facts

\* They all go so.
LEMMA StartGoes ==
  ASSUME TypeOK, NEW r \in Runs, NEW where \in Places, Start(r, where), NEW q \in Runs
  PROVE  Goes(q)
<1> DEFINE x == [Unborn EXCEPT !.state = "open", !.where = where, !.alive = TRUE, !.sent = Beat]
<1>1. run' = [run EXCEPT ![r] = x] /\ UNCHANGED <<loop, service>> /\ run[r].state = "none" /\ run \in [Runs -> RunOf]
  BY TypeAll DEF Start
<1>2. x.state = "open" /\ x.heard.runner = 0
  BY DEF Unborn
<1> HIDE DEF x
<1>3. CASE q = r
  <2>1. run'[r] = x
    BY <1>1
  <2> QED  BY <1>1, <1>2, <1>3, <2>1 DEF Goes, loop
<1>4. CASE q # r
  <2>1. run'[q] = run[q] /\ run[q].heard.runner <= run[q].heard.runner
    <3>1. Typed(q)
      BY TypedIs
    <3> QED  BY <1>1, <1>4, <3>1 DEF Typed
  <2> QED  BY <1>1, <2>1 DEF Goes, loop, Live
<1> QED  BY <1>3, <1>4

LEMMA SendGoes ==
  ASSUME TypeOK, NEW r \in Runs, NEW kind \in {"heartbeat", "work"}, Send(r, kind), NEW q \in Runs
  PROVE  Goes(q)
<1> DEFINE h == Said(kind, 0, run[r].heard)
           x == Spoken(run[r], h)
           y == [run[r] EXCEPT !.sent = 0]
<1>1. UNCHANGED <<loop, service>> /\ run[r].state = "open" /\ run[r].alive /\ run \in [Runs -> RunOf]
      /\ (run' = [run EXCEPT ![r] = x] \/ run' = [run EXCEPT ![r] = y])
  BY TypeAll DEF Send, Spoken
<1>2. h \in Heard /\ h.runner = 0 /\ run[r] \in RunOf /\ run[r].heard.runner \in Nat
  <2>1. run[r] \in RunOf /\ run[r].heard \in Heard /\ Typed(r)
    BY TypeIs, TypedIs
  <2>2. h \in Heard /\ h.runner = 0
    BY <2>1, ZeroAge, SaidIs
  <2> QED  BY <2>1, <2>2 DEF Typed
<1>3. x.state = "open" /\ x.heard.runner = 0 /\ x.born = run[r].born
  <2> HIDE DEF h
  <2>1. x.state = run[r].state /\ x.heard = h /\ x.born = run[r].born
    BY <1>2, RowIs
  <2> QED  BY <1>1, <1>2, <2>1
<1>4. y.state = "open" /\ y.heard.runner = run[r].heard.runner /\ y.born = run[r].born
  BY <1>1, <1>2 DEF RunOf
<1> HIDE DEF x, y, h
<1>5. CASE q = r
  <2>1. run'[r] = x \/ run'[r] = y
    BY <1>1
  <2> QED  BY <1>1, <1>2, <1>3, <1>4, <1>5, <2>1 DEF Goes, loop, Live
<1>6. CASE q # r
  <2>1. run'[q] = run[q] /\ run[q].heard.runner <= run[q].heard.runner
    <3>1. Typed(q)
      BY TypedIs
    <3> QED  BY <1>1, <1>6, <3>1 DEF Typed
  <2> QED  BY <1>1, <2>1 DEF Goes, loop, Live
<1> QED  BY <1>5, <1>6

LEMMA StoreGoes ==
  ASSUME IInv, NEW r \in Runs, Store(r), NEW q \in Runs
  PROVE  Goes(q)
<1> DEFINE e == Head(gate[r].events)
           h == Said(e.kind, e.age, run[r].heard)
           x == Told(run[r], h)
<1>1. UNCHANGED <<pc, held, torn, service>> /\ (up' = up \/ up' = 0) /\ run \in [Runs -> RunOf] /\ TypeOK
      /\ (run' = IF run[r].state = "open" THEN [run EXCEPT ![r] = x] ELSE run) /\ Waits(r)
  BY TypeAll DEF Store, Told, IInv, Waits
<1>2. e = gate[r].events[1] /\ e \in Event /\ 1 \in DOMAIN gate[r].events
  <2>1. gate[r].events \in Seq(Event) /\ gate[r].events # << >>
    BY <1>1, TypeIs DEF Waits
  <2> QED  BY <2>1, LineMoves
<1>3. e.age \in Ages /\ e.kind \in {"heartbeat", "work"} /\ run[r] \in RunOf /\ run[r].heard \in Heard
  <2>1. \A v \in Event : v.age \in Ages /\ v.kind \in {"heartbeat", "work"}
    BY DEF Event
  <2> QED  BY <1>1, <1>2, <2>1, TypeIs
<1>4. h \in Heard /\ h.runner = e.age
  BY <1>3, SaidIs
<1>5. x.state = run[r].state /\ x.alive = run[r].alive /\ x.heard.runner = e.age /\ x.born = run[r].born
  <2> HIDE DEF h
  <2> QED  BY <1>3, <1>4, RowIs
<1>6. Live(r) => e.age <= run[r].heard.runner
  BY <1>2 DEF IInv, Holds, Queued
<1> HIDE DEF x, h, e
<1>7. run[q].heard.runner <= run[q].heard.runner
  <2>1. Typed(q)
    BY <1>1, TypedIs
  <2> QED  BY <2>1 DEF Typed
<1>8. CASE q = r /\ run[r].state = "open"
  <2>1. run'[r] = x
    BY <1>1, <1>8
  <2> QED  BY <1>1, <1>5, <1>6, <1>8, <2>1 DEF Goes, Live
<1>9. CASE ~(q = r /\ run[r].state = "open")
  <2>1. run'[q] = run[q]
    BY <1>1, <1>9
  <2> QED  BY <1>1, <1>7, <2>1 DEF Goes, Live
<1> QED  BY <1>8, <1>9

LEMMA LossGoes ==
  ASSUME TypeOK, (\E r \in Runs : Die(r)) \/ WorkerStops \/ WorkerStarts, NEW q \in Runs
  PROVE  Goes(q)
<1>1. UNCHANGED <<loop, service>>
  BY DEF Die, WorkerStops, WorkerStarts
<1>2. run'[q] = run[q] \/ run'[q] = Silent(run[q])
  <2>1. run \in [Runs -> RunOf]
    BY TypeAll
  <2> QED  BY <2>1 DEF Die, WorkerStops, WorkerStarts, Silent
<1>3. Silent(run[q]).state = run[q].state /\ Silent(run[q]).alive = FALSE
  BY TypeIs, ZeroAge, RowIs
<1>4. run[q].heard.runner <= run[q].heard.runner
  <2>1. Typed(q)
    BY TypedIs
  <2> QED  BY <2>1 DEF Typed
<1> QED  BY <1>1, <1>2, <1>3, <1>4 DEF Goes, Live, loop

LEMMA ProgressGoes ==
  ASSUME TypeOK, ProgressRound, NEW q \in Runs
  PROVE  Goes(q)
<1> DEFINE h == Said("progress", 0, run[q].heard)
           x == Told(run[q], h)
<1>1. UNCHANGED <<loop, service>> /\ (run'[q] = x \/ run'[q] = run[q])
  BY DEF ProgressRound, Told
<1>2. run[q] \in RunOf /\ run[q].heard \in Heard /\ Typed(q)
  BY TypeIs, TypedIs
<1>3. h \in Heard /\ h.runner = run[q].heard.runner
  BY <1>2, ZeroAge, SaidIs
<1>4. x.state = run[q].state /\ x.alive = run[q].alive /\ x.heard.runner = run[q].heard.runner /\ x.born = run[q].born
  <2> HIDE DEF h
  <2> QED  BY <1>2, <1>3, RowIs
<1>5. run[q].heard.runner <= run[q].heard.runner
  BY <1>2 DEF Typed
<1> HIDE DEF x, h
<1> QED  BY <1>1, <1>4, <1>5 DEF Goes, Live, loop

\* A look at the wait of the round finds every living run near.
LEMMA NearIs ==
  ASSUME IInv, OursNow, NEW q \in Runs, Live(q), up' = Rearmed, UNCHANGED run
  PROVE  Soon(q, Heartbeat)'
<1>1. run[q].heard.runner <= Heartbeat \/ Rearmed <= Heartbeat
  BY Recent
<1> QED  BY <1>1 DEF Soon

\* A run that is left alone, or closed, is not one that is yet to start.
LEMMA ClosedIs ==
  ASSUME TypeOK, NEW closed \in SUBSET Runs, run' = Close(closed), NEW q \in Runs
  PROVE  /\ q \notin closed => run'[q] = run[q]
         /\ q \in closed => run'[q].state = "closed" /\ ~Live(q)'
<1>1. run'[q] = IF q \in closed THEN Dropped(run[q]) ELSE run[q]
  BY DEF Close, Dropped
<1>2. Dropped(run[q]).state = "closed"
  BY DEF Dropped, Unborn
<1> QED  BY <1>1, <1>2 DEF Live

LEMMA AbandonedKnows ==
  ASSUME IInv, WInv, sweepAbandoned, NEW r \in Runs
  PROVE  Facts(r)'
<1>1. TypeOK /\ HeldOK /\ Typed(r) /\ Facts(r) /\ Holds(r)
  BY TypeAll, TypedIs DEF IInv, WInv
<1>2. CASE recordLimits
  <2>1. pc' = "snapshot" /\ OursNow /\ up' = Rearmed /\ UNCHANGED <<run, found, todo, hand, lived, listened, torn, service>>
    BY <1>2 DEF recordLimits, Step, UNCHANGEDBesides, held
  <2>2. Taken(r)'
    BY <1>1, <2>1 DEF Facts, Taken
  <2>3. Live(r) => Soon(r, Heartbeat)'
    BY <2>1, NearIs
  <2> QED  BY <2>1, <2>2, <2>3 DEF Facts, Near, Known, Spared, Live
<1>3. CASE readAbandoned
  <2>1. /\ pc = "snapshot" /\ pc' = "sweep"
        /\ found'[r] = (IF run[r].state = "open" THEN run[r].heard.newest ELSE Never)
        /\ UNCHANGED <<up, run, todo, hand, lived, listened, torn, service>>
    BY <1>3 DEF readAbandoned, Step, UNCHANGEDBesides
  <2>2. Taken(r)'
    BY <1>1, <2>1 DEF Facts, Taken
  <2>3. Live(r) /\ service = "up" /\ ~torn =>
          /\ Soon(r, Heartbeat) /\ run[r].heard.newest <= run[r].heard.runner
          /\ run[r].heard.newest \in Nat /\ run[r].heard.runner \in Nat
    BY <1>1, <2>1 DEF Facts, Near, Holds, Hears, Typed
  <2>4. Live(r) /\ service = "up" /\ ~torn => Near(r)' /\ Known(r)' /\ Spared(r)'
    BY <2>1, <2>3, Limits DEF Near, Known, Spared, Soon
  <2> QED  BY <2>1, <2>2, <2>4 DEF Facts, Live
<1>4. CASE judgeAbandoned
  <2> DEFINE left == {q \in Runs : found[q] # Never /\ Least(found[q], up) > RunLimit}
  <2>1. left \in SUBSET Runs /\ CloseNext(left) /\ torn \in BOOLEAN /\ found' = [q \in Runs |-> Never]
        /\ pc = "sweep" /\ UNCHANGED <<up, run, hand, lived, listened, service>>
    BY <1>1, <1>4 DEF judgeAbandoned, HeldOK, UNCHANGEDBesides
  <2>2. r \in left => found[r] # Never /\ Least(found[r], up) > RunLimit
    OBVIOUS
  <2> HIDE DEF left
  <2>3. todo' = left /\ pc' \in {"weigh", "close"} /\ (pc' = "close" => torn' = torn)
    BY <2>1, CloseNextIs
  <2>4. Taken(r)'
    BY <1>1, <2>1, <2>2, <2>3 DEF Facts, Taken
  <2>5. CASE pc' = "weigh"
    BY <2>4, <2>5, UnaskedAre, Vacant
  <2>6. CASE pc' = "close"
    <3>1. Live(r) /\ service = "up" /\ ~torn => r \notin left
      <4> SUFFICES ASSUME Live(r), service = "up", ~torn, r \in left PROVE FALSE
        OBVIOUS
      <4>1. (found[r] <= Heartbeat \/ up <= Heartbeat) /\ Least(found[r], up) > RunLimit /\ found[r] # Never
        BY <1>1, <2>1, <2>2 DEF Facts, Known
      <4>2. found[r] \in Nat /\ up \in Nat
        <5>1. found[r] \in Ages
          BY <1>1, <4>1 DEF HeldOK
        <5> QED  BY <1>1, <5>1, Limits DEF Ages, Typed
      <4>3. found[r] > RunLimit /\ up > RunLimit
        BY <4>1, <4>2, LeastIs, Limits
      <4> QED  BY <4>1, <4>2, <4>3, Limits
    <3> QED  BY <2>1, <2>3, <2>4, <2>6, <3>1, UnaskedAre DEF Facts, Near, Known, Spared, Live
  <2> QED  BY <2>3, <2>5, <2>6
<1>5. CASE closeAbandoned
  <2>1. PICK q \in todo : CloseNext(todo \ {q}) /\ run' = Close({q})
    BY <1>5 DEF closeAbandoned
  <2>2. todo \ {q} \in SUBSET Runs /\ {q} \in SUBSET Runs /\ torn \in BOOLEAN /\ pc = "close"
        /\ UNCHANGED <<up, found, hand, lived, listened, service>>
    BY <1>1, <1>5 DEF HeldOK, closeAbandoned, UNCHANGEDBesides
  <2>3. todo' = todo \ {q} /\ pc' \in {"weigh", "close"} /\ (pc' = "close" => torn' = torn)
    BY <2>1, <2>2, CloseNextIs
  <2>4. (r # q => run'[r] = run[r]) /\ (r = q => run'[r].state = "closed" /\ ~Live(r)')
    BY <1>1, <2>1, <2>2, ClosedIs
  <2>5. Taken(r)'
    BY <1>1, <2>2, <2>3, <2>4 DEF Facts, Taken
  <2>6. CASE pc' = "weigh"
    BY <2>5, <2>6, UnaskedAre, Vacant
  <2>7. CASE pc' = "close"
    <3>1. Live(r)' => Live(r)
      BY <2>4 DEF Live
    <3> QED  BY <1>1, <2>2, <2>3, <2>5, <2>7, <3>1, UnaskedAre DEF Facts, Near, Known, Spared
  <2> QED  BY <2>3, <2>6, <2>7
<1> QED  BY <1>2, <1>3, <1>4, <1>5 DEF sweepAbandoned

\* Going on to the next run, and to the next question about one.
LEMMA NextKnows ==
  ASSUME TypeOK, NEW r \in Runs, Facts(r), NEW left \in SUBSET Runs, TakeNext(left),
         r \in left => run[r].state # "none", run[r].state # "none" => run'[r].state # "none",
         Live(r)' => Live(r) /\ run'[r] = run[r], UNCHANGED service,
         Live(r) /\ service = "up" /\ ~torn => run[r].heard.runner <= Heartbeat \/ listened <= Heartbeat
  PROVE  Facts(r)'
<1>1. HeldOK
  BY TypeAll
<1>2. /\ UNCHANGED <<up, found>> /\ todo' = left /\ hand' = {} /\ pc' \in {"rest", "next"}
      /\ pc' = "next" => torn' = torn /\ listened' = listened
  BY <1>1, NextIs
<1>3. Taken(r)'
  BY <1>2 DEF Facts, Taken
<1>4. CASE pc' = "rest"
  BY <1>3, <1>4, UnaskedAre, Vacant
<1>5. CASE pc' = "next"
  BY <1>2, <1>3, <1>5, UnaskedAre DEF Facts, Near, Known, Spared
<1> QED  BY <1>2, <1>4, <1>5

\* No reading of a run that lives condemns it.
LEMMA NotCondemned ==
  ASSUME IInv, WInv, NEW r \in Runs, Live(r), service = "up", ~torn, r \in hand
  PROVE  /\ ~(weighBirth(r) /\ Stillborn(r))
         /\ ~(weighPulse(r) /\ PulseGone(r, Gone) /\ run[r].where = "stack")
         /\ ~(weighHost(r) /\ run[r].heard.runner > Heartbeat)
<1>1. TypeOK /\ Typed(r) /\ Facts(r) /\ Holds(r) /\ HeldOK
  BY TypeAll, TypedIs DEF IInv, WInv
<1>2. /\ run[r].heard.beat = Never => run[r].heard.runner = run[r].born
      /\ run[r].where = "stack" /\ run[r].heard.beat # Never => run[r].heard.beat = run[r].heard.runner
  BY <1>1 DEF Holds, Hears
<1>3. /\ lived \in Nat /\ listened \in Nat /\ run[r].born \in Nat /\ run[r].heard.runner \in Nat
      /\ run[r].heard.beat # Never => run[r].heard.beat \in Nat
  BY <1>1, Limits DEF HeldOK, Typed, Ages
<1>4. pc \in {"born", "pulse", "host"} => run[r].heard.runner <= Heartbeat \/ listened <= Heartbeat
  BY <1>1, UnaskedAre DEF Facts, Known
<1>5. ~(weighBirth(r) /\ Stillborn(r))
  <2> SUFFICES ASSUME weighBirth(r), Stillborn(r) PROVE FALSE
    OBVIOUS
  <2>1. pc = "born" /\ run[r].heard.beat = Never /\ Least(lived, listened) > Heartbeat
    BY DEF weighBirth, Stillborn
  <2>2. lived > Heartbeat /\ listened > Heartbeat
    BY <1>3, <2>1, LeastIs, Limits
  <2>3. lived <= run[r].born
    BY <1>1, <2>1 DEF Facts, Known
  <2> QED  BY <1>2, <1>3, <1>4, <2>1, <2>2, <2>3, Limits
<1>6. ~(weighPulse(r) /\ PulseGone(r, Gone) /\ run[r].where = "stack")
  <2> SUFFICES ASSUME weighPulse(r), PulseGone(r, Gone), run[r].where = "stack" PROVE FALSE
    OBVIOUS
  <2>1. pc = "pulse" /\ run[r].heard.beat # Never /\ Least(run[r].heard.beat, listened) > Gone
    BY DEF weighPulse, PulseGone
  <2>2. run[r].heard.beat > Gone /\ listened > Gone
    BY <1>3, <2>1, LeastIs, Limits
  <2> QED  BY <1>2, <1>3, <1>4, <2>1, <2>2, Limits
<1>7. ~(weighHost(r) /\ run[r].heard.runner > Heartbeat)
  <2> SUFFICES ASSUME weighHost(r), run[r].heard.runner > Heartbeat PROVE FALSE
    OBVIOUS
  <2>1. pc = "host"
    BY DEF weighHost
  <2>2. listened > Heartbeat
    BY <1>1, <2>1 DEF Facts
  <2> QED  BY <1>3, <1>4, <2>1, <2>2, Limits
<1> QED  BY <1>5, <1>6, <1>7

LEMMA WeighKnows ==
  ASSUME IInv, WInv, weigh, NEW r \in Runs, hand \in SUBSET Runs
  PROVE  Facts(r)'
<1>1. TypeOK /\ HeldOK /\ Typed(r) /\ Facts(r) /\ Holds(r) /\ todo \in SUBSET Runs
  BY TypeAll, TypedIs DEF IInv, WInv, HeldOK
<1>2. r \in todo \cup hand => run[r].state # "none"
  BY <1>1 DEF Facts, Taken
<1>3. pc \in {"open", "next", "born", "pulse", "host", "heard", "worker", "finish"} =>
        (Live(r) /\ service = "up" /\ ~torn => run[r].heard.runner <= Heartbeat \/ listened <= Heartbeat)
  BY <1>1, UnaskedAre DEF Facts, Known
<1>4. CASE sweepQueue
  <2>1. pc' = "read" /\ OursNow /\ up' = Rearmed /\ UNCHANGED <<run, found, todo, hand, lived, listened, torn, service>>
    BY <1>4 DEF sweepQueue, Step, UNCHANGEDBesides, held
  <2>2. Taken(r)'
    BY <1>1, <2>1 DEF Facts, Taken
  <2>3. Live(r) => Soon(r, Heartbeat)'
    BY <2>1, NearIs
  <2> QED  BY <2>1, <2>2, <2>3 DEF Facts, Near, Known, Spared, Live
<1>5. CASE listen
  <2>1. pc = "read" /\ pc' = "open" /\ listened' = up /\ UNCHANGED <<up, run, found, todo, hand, lived, torn, service>>
    BY <1>5 DEF listen, Step, UNCHANGEDBesides
  <2>2. Taken(r)'
    BY <1>1, <2>1 DEF Facts, Taken
  <2>3. Live(r) /\ service = "up" /\ ~torn => Soon(r, Heartbeat)
    BY <1>1, <2>1 DEF Facts, Near
  <2> QED  BY <2>1, <2>2, <2>3 DEF Facts, Near, Known, Spared, Live, Soon
<1>6. CASE listRuns
  <2>1. TakeNext(openRuns) /\ pc = "open" /\ UNCHANGED <<run, service>>
    BY <1>6 DEF listRuns, UNCHANGEDBesides
  <2>2. openRuns \in SUBSET Runs /\ (r \in openRuns => run[r].state # "none")
    BY DEF openRuns
  <2> QED  BY <1>1, <1>3, <2>1, <2>2, NextKnows DEF Live
<1>7. ASSUME NEW q \in Runs, takeRun(q) PROVE Facts(r)'
  <2>1. /\ pc = "next" /\ pc' = "born" /\ q \in todo /\ hand' = {q} /\ todo' = todo \ {q} /\ lived' = run[q].born
        /\ UNCHANGED <<up, run, found, listened, torn, service>>
    BY <1>7 DEF takeRun, Step, UNCHANGEDBesides
  <2>2. Taken(r)'
    BY <1>1, <2>1 DEF Facts, Taken
  <2>3. run[r].born <= run[r].born
    BY <1>1 DEF Typed
  <2> QED  BY <1>3, <2>1, <2>2, <2>3, UnaskedAre DEF Facts, Near, Known, Spared, Live
<1>8. ASSUME NEW q \in Runs, Reading(q) PROVE Facts(r)'
  <2>1. /\ OursNow /\ q \in hand /\ pc \in {"born", "pulse", "host", "heard"} /\ UNCHANGED <<up, run, service>>
        /\ \/ TakeNext(todo)
           \/ Goto("finish") /\ weighBirth(q) /\ Stillborn(q)
           \/ Goto("finish") /\ weighPulse(q) /\ PulseGone(q, Gone) /\ run[q].where = "stack"
           \/ Goto("finish") /\ weighHost(q) /\ run[q].heard.runner > Heartbeat
           \/ Goto("host") /\ PulseGone(q, Heartbeat)
           \/ \E to \in {"pulse", "heard", "worker"} : Goto(to)
    BY <1>1, <1>8, ReadingIs
  <2>2. CASE TakeNext(todo)
    BY <1>1, <1>2, <1>3, <2>1, <2>2, NextKnows DEF Live
  <2>3. ASSUME NEW to \in {"finish", "pulse", "host", "heard", "worker"}, Goto(to),
               to = "finish" => ~(Live(r) /\ service = "up" /\ ~torn) \/ r \notin hand,
               to = "host" => listened > Heartbeat
        PROVE  Facts(r)'
    <3>1. pc' = to /\ UNCHANGED <<up, run, service, found, todo, hand, lived, listened, torn>>
      BY <2>1, <2>3, ThereIs, <1>1 DEF held
    <3>2. Taken(r)'
      BY <1>1, <3>1 DEF Facts, Taken
    <3> QED  BY <1>3, <2>1, <2>3, <3>1, <3>2, UnaskedAre DEF Facts, Near, Known, Spared, Live
  <2>4. CASE Goto("finish") /\ (\/ weighBirth(q) /\ Stillborn(q)
                                \/ weighPulse(q) /\ PulseGone(q, Gone) /\ run[q].where = "stack"
                                \/ weighHost(q) /\ run[q].heard.runner > Heartbeat)
    <3>1. ~(Live(r) /\ service = "up" /\ ~torn) \/ r # q \/ r \notin hand
      BY <2>4, NotCondemned
    <3>2. r \in hand => r = q
      BY <2>1 DEF WInv
    <3> QED  BY <2>3, <2>4, <3>1, <3>2
  <2>5. CASE Goto("host") /\ PulseGone(q, Heartbeat)
    <3>1. run[q].heard.beat # Never /\ Least(run[q].heard.beat, listened) > Heartbeat
      BY <2>5 DEF PulseGone
    <3>2. run[q].heard.beat \in Nat /\ listened \in Nat
      <4>1. Typed(q)
        BY <1>1, TypedIs
      <4> QED  BY <1>1, <3>1, <4>1, Limits DEF Typed, HeldOK, Ages
    <3>3. listened > Heartbeat
      BY <3>1, <3>2, LeastIs, Limits
    <3> QED  BY <2>3, <2>5, <3>3
  <2> QED  BY <2>1, <2>2, <2>3, <2>4, <2>5
<1>9. CASE workerUp
  <2>1. pc = "worker" /\ UNCHANGED <<run, service>> /\ (TakeNext(todo) \/ (~worker /\ Goto("finish")))
    BY <1>9 DEF workerUp, UNCHANGEDBesides
  <2>2. CASE TakeNext(todo)
    BY <1>1, <1>2, <1>3, <2>1, <2>2, NextKnows DEF Live
  <2>3. CASE ~worker /\ Goto("finish")
    <3>1. pc' = "finish" /\ UNCHANGED <<up, run, service, found, todo, hand, lived, listened, torn>>
      BY <1>1, <2>1, <2>3, ThereIs DEF held
    <3>2. Taken(r)' /\ ~Live(r)'
      BY <1>1, <2>3, <3>1 DEF Facts, Taken, Holds, Hears, Live
    <3> QED  BY <3>1, <3>2 DEF Facts
  <2> QED  BY <2>1, <2>2, <2>3
<1>10. CASE finish
  <2>1. TakeNext(todo) /\ pc = "finish" /\ run' = Close(hand) /\ UNCHANGED service
    BY <1>10 DEF finish, UNCHANGEDBesides
  <2>2. (r \notin hand => run'[r] = run[r]) /\ (r \in hand => run'[r].state = "closed" /\ ~Live(r)')
    BY <1>1, <2>1, ClosedIs
  <2> QED  BY <1>1, <1>2, <1>3, <2>1, <2>2, NextKnows DEF Live
<1> QED  BY <1>4, <1>5, <1>6, <1>7, <1>8, <1>9, <1>10 DEF weigh, Reading

\* What begins, ends or tears a round, and time, leave nothing known that they change.
LEMMA RestKnows ==
  ASSUME IInv, WInv, NEW r \in Runs,
         LateRound \/ BeginRound \/ sweepCrashed \/ Elapse \/ (\E n \in {Late, Cap} : Sleep(n))
           \/ Deafen \/ Hear \/ Stop \/ Boot
  PROVE  Facts(r)'
<1>1. TypeOK /\ HeldOK /\ Typed(r) /\ Facts(r) /\ Taken(r) /\ (pc \in Unasked /\ service = "deaf" => torn)
      /\ torn \in BOOLEAN /\ service \in {"up", "deaf", "down"}
  BY TypeAll, TypedIs DEF IInv, WInv, Facts, HeldOK
<1>2. CASE LateRound \/ BeginRound \/ sweepCrashed
  <2>1. pc' \in {"rest", "crash", "abandon"} /\ UNCHANGED <<found, todo, hand>>
    BY <1>2 DEF LateRound, BeginRound, sweepCrashed, Step, held
  <2>2. run[r].state # "none" => run'[r].state # "none"
    <3>1. CASE LateRound \/ BeginRound
      BY <3>1 DEF LateRound, BeginRound
    <3>2. CASE sweepCrashed
      <4> DEFINE closed == {q \in openRuns : run[q].born > since /\ run[q].heard.said > since}
      <4>1. closed \in SUBSET Runs /\ run' = Close(closed)
        BY <3>2 DEF sweepCrashed, openRuns
      <4> HIDE DEF closed
      <4>2. run'[r] = run[r] \/ run'[r].state = "closed"
        BY <1>1, <4>1, ClosedIs
      <4> QED  BY <4>2
    <3> QED  BY <1>2, <3>1, <3>2
  <2>3. Taken(r)'
    BY <1>1, <2>1, <2>2 DEF Taken
  <2> QED  BY <2>1, <2>3, UnaskedAre, Vacant
<1>3. ASSUME NEW n \in Nat, NEW awake \in BOOLEAN, Aged(n, awake),
             \A q \in Runs : awake /\ run[q].alive => run[q].sent + n <= Beat
      PROVE  Taken(r)' /\ hand' = hand
  <2>1. UNCHANGED <<todo, hand>> /\ (found'[r] # Never => found[r] # Never) /\ run'[r].state = run[r].state
    BY <1>1, <1>3, AgedIs
  <2> QED  BY <1>1, <2>1 DEF Taken
<1>4. CASE Elapse
  <2>1. /\ Aged(1, TRUE) /\ UNCHANGED <<pc, torn, service>> /\ (service = "up" => pc = "rest")
        /\ \A q \in Runs : run[q].alive => run[q].sent < Beat
    BY <1>4 DEF Elapse
  <2>2. \A q \in Runs : TRUE /\ run[q].alive => run[q].sent + 1 <= Beat
    <3> TAKE q \in Runs
    <3>1. run[q].sent \in 0 .. Beat
      BY <1>1, TypeIs
    <3> QED  BY <2>1, <3>1, Limits
  <2>3. Taken(r)' /\ hand' = hand
    BY <1>3, <2>1, <2>2
  <2>4. listened' = listened
    BY <2>1 DEF Aged
  <2>5. pc' \notin Unasked \/ service' # "up" \/ torn'
    BY <2>1, UnaskedAre
  <2>6. pc' = "host" => listened' > Heartbeat
    BY <1>1, <2>1, <2>4 DEF Facts
  <2> QED  BY <1>1, <2>1, <2>3, <2>5, <2>6, Vacant
<1>5. ASSUME NEW n \in {Late, Cap}, Sleep(n) PROVE Facts(r)' /\ (pc' \in Unasked /\ service' = "deaf" => torn') /\ hand' = hand
  <2>1. Aged(n, FALSE) /\ Tear /\ UNCHANGED <<pc, service>> /\ service = "up" /\ n \in Nat
    BY <1>5, Limits DEF Sleep
  <2>2. Taken(r)' /\ hand' = hand
    BY <1>3, <2>1
  <2>3. listened' = listened
    BY <2>1 DEF Aged
  <2>4. pc' \notin Unasked \/ torn'
    BY <2>1 DEF Tear
  <2>5. pc' = "host" => listened' > Heartbeat
    BY <1>1, <2>1, <2>3 DEF Facts
  <2> QED  BY <2>1, <2>2, <2>4, <2>5, Vacant
<1>6. CASE Deafen \/ Hear \/ Stop
  <2>1. UNCHANGED <<run, pc, found, todo, hand, listened>>
    BY <1>6 DEF Deafen, Hear, Stop, loop, held
  <2>2. pc' \notin Unasked \/ service' # "up" \/ torn'
    <3>1. CASE Deafen \/ Stop
      BY <3>1 DEF Deafen, Stop
    <3>2. CASE Hear
      <4>1. service = "deaf" /\ torn' = torn
        BY <3>2 DEF Hear, loop
      <4> QED  BY <1>1, <2>1, <4>1
    <3> QED  BY <1>6, <3>1, <3>2
  <2>3. pc' \in Unasked /\ service' = "deaf" => torn'
    BY <1>6 DEF Deafen, Hear, Stop, Tear
  <2>4. Taken(r)' /\ (pc' = "host" => listened' > Heartbeat)
    BY <1>1, <2>1 DEF Taken, Facts
  <2> QED  BY <2>1, <2>2, <2>3, <2>4, Vacant
<1>7. CASE Boot
  <2>1. pc' = "boot" /\ found'[r] = Never /\ todo' = {} /\ hand' = {}
    BY <1>7 DEF Boot
  <2>2. Taken(r)'
    BY <2>1 DEF Taken
  <2> QED  BY <2>1, <2>2, UnaskedAre, Vacant
<1> QED  BY <1>2, <1>4, <1>5, <1>6, <1>7

\* One run is in hand at most, and a writer that is held tears.
LEMMA LoopKnows ==
  ASSUME IInv, WInv, sweepAbandoned \/ weigh
  PROVE  service' = service /\ (service = "deaf" /\ pc' \in Unasked => torn') /\ \A q, r \in hand' : q = r
<1>1. TypeOK /\ HeldOK /\ todo \in SUBSET Runs /\ torn \in BOOLEAN /\ (pc \in Unasked /\ service = "deaf" => torn)
      /\ \A q, r \in hand : q = r
  BY TypeAll DEF IInv, WInv, HeldOK
<1>2. ASSUME NEW left \in SUBSET Runs, TakeNext(left) PROVE hand' = {} /\ (pc' = "rest" \/ torn' = torn)
  BY <1>1, <1>2, NextIs
<1>3. CASE sweepAbandoned
  <2>1. UNCHANGED <<hand, service>>
    BY <1>3 DEF sweepAbandoned, recordLimits, readAbandoned, judgeAbandoned, closeAbandoned, UNCHANGEDBesides, held
  <2>2. OursNow \/ (pc = "sweep" /\ (pc' = "weigh" \/ torn' = torn))
    BY <1>3 DEF sweepAbandoned, recordLimits, readAbandoned, judgeAbandoned, closeAbandoned, CloseNext
  <2> QED  BY <1>1, <2>1, <2>2, UnaskedAre DEF OursNow
<1>4. CASE weigh
  <2>1. service' = service
    BY <1>4 DEF weigh, sweepQueue, listen, listRuns, takeRun, weighBirth, weighPulse, weighHost, weighSilence,
                workerUp, finish, UNCHANGEDBesides
  <2>2. \A q, r \in hand' : q = r
    <3>1. hand' = hand \/ hand' = {} \/ \E q \in Runs : hand' = {q}
      BY <1>4 DEF weigh, sweepQueue, listen, listRuns, takeRun, weighBirth, weighPulse, weighHost, weighSilence,
                  workerUp, finish, TakeNext, Goto, held
    <3> QED  BY <1>1, <3>1
  <2>3. OursNow \/ (pc \in {"read", "next", "worker"} /\ (pc' = "rest" \/ torn' = torn))
    BY <1>4 DEF weigh, sweepQueue, listen, listRuns, takeRun, weighBirth, weighPulse, weighHost, weighSilence,
                workerUp, finish, TakeNext, Goto, held, Step
  <2> QED  BY <1>1, <2>1, <2>2, <2>3, UnaskedAre DEF OursNow
<1> QED  BY <1>3, <1>4
-----------------------------------------------------------------------------
(* Theorems                                                                *)

LEMMA InitHolds == Init => IInv
<1> SUFFICES ASSUME Init PROVE IInv
  OBVIOUS
<1>1. /\ up = 0 /\ last = 0 /\ swept = FALSE /\ pc = "boot" /\ since = 0
      /\ service = "up" /\ away = 0 /\ worker = TRUE /\ breaks = 0 /\ slips = 0
      /\ found = [r \in Runs |-> Never] /\ todo = {} /\ hand = {} /\ lived = 0 /\ listened = 0 /\ torn = FALSE
      /\ run = [r \in Runs |-> Unborn] /\ gate = [r \in Runs |-> Nothing]
  BY DEF Init
<1>2. Nothing \in GateOf /\ Nothing.asked = 0 /\ Nothing.events = << >>
  BY ZeroAge DEF Nothing, GateOf
<1>3. run \in [Runs -> RunOf] /\ gate \in [Runs -> GateOf]
  BY <1>1, <1>2, ZeroAge
<1>4. 0 \in 0 .. MaxBreaks /\ 0 \in 0 .. MaxSlips
  BY Limits
<1>5. TypeOK
  <2>1. HeldOK /\ pc \in Steps
    BY <1>1, ZeroAge, StepsAre DEF HeldOK
  <2> QED  BY <1>1, <1>3, <1>4, <2>1, ZeroAge DEF TypeOK, RunOf, GateOf, Event, HeldOK, Steps, Between
<1>6. Rests
  BY <1>1 DEF Rests
<1>7. ASSUME NEW q \in Runs PROVE Holds(q)
  <2>1. run[q].state = "none" /\ gate[q] = Nothing
    BY <1>1 DEF Unborn
  <2>2. ~Live(q) /\ Asks(q) /\ ~(run[q].state = "closed")
    BY <1>2, <2>1 DEF Live, Asks, Waits
  <2> QED  BY <2>2 DEF Holds, Hears, Queued, Spoke, Heeded, Since, Fresh, Looked
<1> QED  BY <1>5, <1>6, <1>7 DEF IInv

LEMMA StepKeeps ==
  ASSUME IInv, ~HostAlone, [Next]_vars
  PROVE  IInv'
<1>1. ASSUME NEW r \in Runs, NEW where \in Places, Start(r, where) PROVE IInv'
  BY <1>1, StartKeeps
<1>2. ASSUME NEW r \in Runs, Die(r) PROVE IInv'
  BY <1>2, DieKeeps
<1>3. ASSUME NEW r \in Runs, Store(r) PROVE IInv'
  BY <1>3, StoreKeeps
<1>4. ASSUME NEW r \in Runs, NEW kind \in {"heartbeat", "work"}, Send(r, kind) PROVE IInv'
  BY <1>4, SendKeeps
<1>5. CASE WorkerStops \/ WorkerStarts \/ ProgressRound
  BY <1>5, WorkerStopsKeeps, WorkerStartsKeeps, ProgressKeeps
<1>6. CASE Loop
  BY <1>6, LateKeeps, BeginKeeps, CrashedKeeps, AbandonedKeeps, WeighKeeps DEF Loop
<1>7. CASE Elapse \/ Deafen \/ Hear \/ Stop \/ Boot
  BY <1>7, ElapseKeeps, DeafenKeeps, HearKeeps, StopKeeps, BootKeeps
<1>8. ASSUME NEW n \in {Late, Cap}, Sleep(n) PROVE IInv'
  BY <1>8, SleepKeeps
<1>9. CASE UNCHANGED vars
  <2>1. UNCHANGED <<up, last, swept, pc, since, held, torn, service, away, worker, run, gate, breaks, slips>>
    BY <1>9 DEF vars, loop
  <2>2. TypeOK'
    BY <2>1 DEF IInv, TypeOK, held
  <2>3. Rests'
    BY <2>1 DEF IInv, Rests
  <2>4. ASSUME NEW q \in Runs PROVE Holds(q)'
    BY <2>1, Kept DEF IInv, Untouched
  <2> QED  BY <2>2, <2>3, <2>4 DEF IInv
<1> QED  BY <1>1, <1>2, <1>3, <1>4, <1>5, <1>6, <1>7, <1>8, <1>9 DEF Next

LEMMA KnowsKeeps ==
  ASSUME IInv, IInv', WInv, [Next]_vars
  PROVE  WInv'
<1>1. TypeOK /\ TypeOK' /\ HeldOK
  BY TypeAll DEF IInv
<1> DEFINE Others == \/ \E r \in Runs : (\E where \in Places : Start(r, where)) \/ Die(r) \/ Store(r)
                     \/ \E r \in Runs, kind \in {"heartbeat", "work"} : Send(r, kind)
                     \/ WorkerStops \/ WorkerStarts \/ ProgressRound
           Rest == LateRound \/ BeginRound \/ sweepCrashed \/ Elapse \/ (\E n \in {Late, Cap} : Sleep(n))
                     \/ Deafen \/ Hear \/ Stop \/ Boot
<1>2. Others \/ Rest \/ sweepAbandoned \/ weigh \/ UNCHANGED vars
  BY DEF Next, Loop
<1>3. CASE Others
  <2>1. \A q \in Runs : Goes(q)
    BY <1>1, <1>3, StartGoes, SendGoes, StoreGoes, LossGoes, ProgressGoes
  <2>2. \A q \in Runs : Facts(q)'
    BY <1>1, <2>1, FactsKept DEF WInv
  <2>3. UNCHANGED <<pc, service, torn, hand>>
    BY <1>3 DEF Start, Die, Store, Send, WorkerStops, WorkerStarts, ProgressRound, loop, held
  <2> QED  BY <2>2, <2>3 DEF WInv
<1>4. CASE Rest
  <2>1. \A q \in Runs : Facts(q)'
    BY <1>4, RestKnows
  <2>2. (pc' \in Unasked /\ service' = "deaf" => torn') /\ hand' \in {hand, {}}
    <3>1. CASE \/ LateRound \/ BeginRound \/ sweepCrashed
               \/ Elapse \/ (\E n \in {Late, Cap} : Sleep(n)) \/ Hear \/ Stop
      <4>1. hand' = hand
        BY <3>1 DEF LateRound, BeginRound, sweepCrashed, Elapse, Sleep, Hear, Stop, Aged, loop, held
      <4>2. pc' \in {"rest", "crash", "abandon"} \/ service' # "deaf" \/ (UNCHANGED <<pc, service>> /\ torn' = torn)
        BY <3>1 DEF LateRound, BeginRound, sweepCrashed, Elapse, Sleep, Hear, Stop, Step, loop
      <4> QED  BY <4>1, <4>2, UnaskedAre DEF WInv
    <3>2. CASE Deafen
      BY <3>2 DEF Deafen, Tear, held
    <3>3. CASE Boot
      BY <3>3 DEF Boot
    <3> QED  BY <1>4, <3>1, <3>2, <3>3
  <2> QED  BY <2>1, <2>2 DEF WInv
<1>5. CASE sweepAbandoned \/ weigh
  <2>1. \A q \in Runs : Facts(q)'
    BY <1>1, <1>5, AbandonedKnows, WeighKnows DEF HeldOK
  <2> QED  BY <1>5, <2>1, LoopKnows DEF WInv
<1>6. CASE UNCHANGED vars
  BY <1>6 DEF vars, loop, held, WInv, Facts, Taken, Near, Known, Spared, Live, Soon
<1> QED  BY <1>2, <1>3, <1>4, <1>5, <1>6

\* No step of a round that nothing tears closes a run that lives.
Unharmed == torn \/ \A r \in Runs : run[r].state = "open" /\ run[r].alive => run'[r].state # "closed"
LEMMA NoneIsClosed ==
  ASSUME IInv, WInv, [Next]_vars
  PROVE  Unharmed
<1> SUFFICES ASSUME ~torn, NEW r \in Runs, Live(r) PROVE run'[r].state # "closed"
  BY DEF Unharmed, Live
<1>1. TypeOK /\ HeldOK /\ Facts(r) /\ run[r].state = "open" /\ todo \in SUBSET Runs /\ hand \in SUBSET Runs
  BY TypeAll DEF IInv, WInv, HeldOK, Live
<1>2. ASSUME Goes(r) PROVE run'[r].state # "closed"
  BY <1>1, <1>2 DEF Goes
<1>3. ASSUME run'[r] = run[r] PROVE run'[r].state # "closed"
  BY <1>1, <1>3
<1>4. CASE \/ \E q \in Runs : (\E where \in Places : Start(q, where)) \/ Die(q) \/ Store(q)
           \/ \E q \in Runs, kind \in {"heartbeat", "work"} : Send(q, kind)
           \/ WorkerStops \/ WorkerStarts \/ ProgressRound
  BY <1>1, <1>2, <1>4, StartGoes, SendGoes, StoreGoes, LossGoes, ProgressGoes
<1>5. CASE LateRound \/ BeginRound \/ Deafen \/ Hear \/ Stop \/ Boot \/ UNCHANGED vars
  BY <1>3, <1>5 DEF LateRound, BeginRound, Deafen, Hear, Stop, Boot, vars
<1>6. CASE sweepCrashed
  BY <1>3, <1>6, CrashedKeeps
<1>7. CASE Elapse \/ \E n \in {Late, Cap} : Sleep(n)
  <2>1. run'[r].state = run[r].state
    <3>1. PICK n \in Nat, awake \in BOOLEAN : Aged(n, awake)
      BY <1>7, Limits DEF Elapse, Sleep
    <3>2. run'[r] = IF run[r].state # "open" THEN run[r] ELSE Grown(run[r], n, awake)
      BY <3>1 DEF Aged, Grown
    <3> QED  BY <1>1, <3>2, TypeIs DEF Grown, RunOf
  <2> QED  BY <1>1, <2>1
<1>8. CASE sweepAbandoned
  <2>1. CASE recordLimits \/ readAbandoned \/ judgeAbandoned
    BY <1>3, <2>1 DEF recordLimits, readAbandoned, judgeAbandoned
  <2>2. CASE closeAbandoned
    <3>1. PICK q \in todo : run' = Close({q})
      BY <2>2 DEF closeAbandoned
    <3>2. r \notin todo
      BY <1>1, <2>2 DEF closeAbandoned, OursNow, Facts, Spared
    <3>3. {q} \in SUBSET Runs /\ r \notin {q}
      BY <1>1, <3>1, <3>2
    <3> QED  BY <1>1, <1>3, <3>1, <3>3, ClosedIs
  <2> QED  BY <1>8, <2>1, <2>2 DEF sweepAbandoned
<1>9. CASE weigh
  <2>1. CASE finish
    <3>1. run' = Close(hand) /\ r \notin hand
      BY <1>1, <2>1 DEF finish, OursNow, Facts, Spared
    <3> QED  BY <1>1, <1>3, <3>1, ClosedIs
  <2>2. CASE sweepQueue \/ listen \/ listRuns \/ workerUp \/ (\E q \in Runs : takeRun(q) \/ Reading(q))
    BY <1>3, <2>2 DEF sweepQueue, listen, listRuns, workerUp, takeRun, Reading, weighBirth, weighPulse, weighHost,
                      weighSilence
  <2> QED  BY <1>9, <2>1, <2>2 DEF weigh, Reading
<1> QED  BY <1>4, <1>5, <1>6, <1>7, <1>8, <1>9 DEF Next, Loop

LEMMA Inductive == ASSUME ~HostAlone PROVE Spec => [](IInv /\ WInv)
<1>1. IInv /\ WInv /\ [Next]_vars => IInv' /\ WInv'
  BY StepKeeps, KnowsKeeps
<1>2. Init => IInv /\ WInv
  <2>1. Init => WInv
    <3> SUFFICES ASSUME Init PROVE WInv
      OBVIOUS
    <3>1. pc = "boot" /\ service = "up" /\ todo = {} /\ hand = {} /\ found = [r \in Runs |-> Never]
      BY DEF Init
    <3>2. \A r \in Runs : Facts(r)
      BY <3>1, UnaskedAre DEF Facts, Taken, Near, Known, Spared
    <3> QED  BY <3>1, <3>2 DEF WInv
  <2> QED  BY <2>1, InitHolds
<1> QED  BY <1>1, <1>2, PTL DEF Spec

\* What every variable of silence holds: ages are ages, and no absence is
\* counted past its bound.
THEOREM SilenceIsTyped == ASSUME ~HostAlone PROVE Spec => []TypeOK
<1>1. IInv => TypeOK
  BY DEF IInv
<1> QED  BY <1>1, Inductive, PTL

\* No run whose runner lives and beats is closed for silence by a round that no
\* absence cuts into after it was asked for its wait, whatever the limits are
\* that leave a beat its margin, however long the host slept, and wherever in
\* the loop this service stopped or waited for its database, before that.
THEOREM OurSilenceIsNotTheirs == ASSUME ~HostAlone PROVE Spec => LiveRunKept
<1>1. IInv /\ WInv /\ [Next]_vars => [torn \/ \A r \in Runs : run[r].state = "open" /\ run[r].alive => run'[r].state # "closed"]_vars
  BY NoneIsClosed DEF Unharmed
<1> QED  BY <1>1, Inductive, PTL DEF Spec, LiveRunKept
=============================================================================
