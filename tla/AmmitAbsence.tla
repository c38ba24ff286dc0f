---------------------------- MODULE AmmitAbsence ----------------------------
(***************************************************************************)
(* Silence, and whose silence it is.  The judge closes a run it has not    *)
(* heard of for too long, and reads that from the age of the run's newest  *)
(* event: an age that also grows while the host sleeps, while this service *)
(* is down, and while it waits for the database and can hear nobody.  The  *)
(* absence clock upSince is there to tell the two silences apart.          *)
(*                                                                         *)
(* Every variable that is a time is the AGE of what it names, cut off at   *)
(* Cap, past every limit; Elapse makes all of them older at once.          *)
(***************************************************************************)
EXTENDS Integers, Sequences

CONSTANTS
  Runs,          \* runs that may start
  Places,        \* where they run: "stack" and "host"
  Tick,          \* the pause between two rounds of the loop
  Late,          \* three ticks: a round, or a record, later than this is our absence
  Beat,          \* how often a runner says something
  Heartbeat,     \* timeouts.heartbeat
  Gone,          \* timeouts.worker_gone
  RunLimit,      \* timeouts.run, as sweepAbandoned reads it
  Progress,      \* timeouts.progress: two progress events are no closer than this
  Window,        \* the 72 hours openRuns looks back
  Cap,           \* ages are counted up to here
  MaxAway,       \* bound: how long the service is deaf or down at a stretch
  MaxBreaks,     \* bound: sleeps, deaf spells and restarts past Late
  MaxSlips,      \* bound: sleeps and deaf spells of Late or less
  HostAlone      \* TRUE: the stack's worker may be down under a host run

ASSUME LimitsAssumption ==
  /\ {Tick, Late, Beat, Heartbeat, Gone, RunLimit, Progress, Window} \subseteq Nat \ {0}
  /\ Tick <= Late
  /\ Heartbeat < Gone
  /\ \A limit \in {Gone, RunLimit, Progress, Window} : limit < Cap
ASSUME BoundsAssumption ==
  /\ Cap \in Nat /\ MaxAway \in 0 .. Cap /\ MaxBreaks \in Nat /\ MaxSlips \in Nat
  /\ Places \subseteq {"stack", "host"}
\* Between a beat and the limit on beats there is room for all the absences
\* that are too short for the clock to notice, and for one more.  The defaults
\* leave room for that one: beats of 60 s, ticks of 20 s, a limit of 120 s.
ASSUME MarginAssumption == Beat + (MaxSlips + 1) * Late <= Heartbeat /\ Heartbeat <= RunLimit

VARIABLES
  up,       \* since upSince
  last,     \* since the round began
  swept,    \* sweepCrashed has had its one look
  pc,       \* the loop: the step it is about to take
  since,    \* upSince as sweepCrashed read it
  found,    \* run -> its newest event, as sweepAbandoned read it; Never: not read
  todo,     \* runs the loop has yet to close, or weigh to look at
  hand,     \* the run weigh looks at
  lived,    \* how old it was when weigh took it up
  listened, \* now - upSince, as weigh read it: this does not grow
  service,  \* "up"; "deaf", its writer held; "down"
  away,     \* how long it has been deaf or down
  worker,   \* the stack's runner container is running
  run,      \* run -> its row and what was heard of it
  gate,     \* run -> events on their way: those sent and not stored yet
  breaks, slips,
  torn      \* history: an absence has begun since the round was asked for its wait

held == <<found, todo, hand, lived, listened>>
loop == <<up, last, swept, pc, since, held, torn>>
vars == <<loop, service, away, worker, run, gate, breaks, slips>>

Ages  == 0 .. Cap
Never == -1                 \* heartbeatAge of a run that never beat
Older(age, n) == IF age = Never THEN Never ELSE IF age + n > Cap THEN Cap ELSE age + n
Least(a, b)   == IF a < b THEN a ELSE b

\* What one reading of the record hears: the age its newest event, by
\* arrival, carries.  beat: heartbeats; runner: anything of the runner;
\* work: anything but heartbeats; said: anything but samples; newest: the
\* youngest of all, whatever came last.
Heard == [beat : Ages \cup {Never}, runner : Ages, work : Ages, said : Ages, newest : Ages]
\* Mutant: the time a sender whose clock is ahead put on the event is believed.
MutSaid(kind, age, heard) ==
  [beat |-> IF kind = "heartbeat" THEN age ELSE heard.beat, runner |-> age - 1,
   work |-> age - 1, said |-> age - 1, newest |-> Least(age - 1, heard.newest)]
Said(kind, age, heard) ==
  [beat   |-> IF kind = "heartbeat" THEN age ELSE heard.beat,
   runner |-> IF kind = "progress" THEN heard.runner ELSE age,
   work   |-> IF kind = "heartbeat" THEN heard.work ELSE age,
   said   |-> age,
   newest |-> Least(age, heard.newest)]

Unborn  == [state |-> "none", where |-> "stack", alive |-> FALSE, born |-> 0, sent |-> 0,
            heard |-> [beat |-> Never, runner |-> 0, work |-> 0, said |-> 0, newest |-> 0]]
Nothing == [asked |-> 0, events |-> << >>]

\* The steps of the loop: those between two rounds, those that wait for the
\* writer, and those between two waits.  Both sweeps of a round come after a
\* look at how long the round has waited; what follows that look is not asked.
Waiting == {"crash", "abandon", "snapshot", "close", "weigh",
            "open", "born", "pulse", "host", "heard", "finish"}
Passing == {"sweep", "read", "next", "worker"}
Unasked == (Waiting \cup Passing) \ {"crash", "abandon", "weigh"}

TypeOK ==
  /\ {up, last, away, since, lived, listened} \subseteq Ages
  /\ {swept, worker, torn} \subseteq BOOLEAN
  /\ pc \in {"rest", "boot"} \cup Waiting \cup Passing
  /\ found \in [Runs -> Ages \cup {Never}] /\ todo \subseteq Runs /\ hand \subseteq Runs
  /\ service \in {"up", "deaf", "down"}
  /\ run \in [Runs -> [state : {"none", "open", "closed"}, where : {"stack", "host"},
                       alive : BOOLEAN, born : Ages, sent : 0 .. Beat, heard : Heard]]
  /\ gate \in [Runs -> [asked : Ages,
                        events : Seq([kind : {"heartbeat", "work"}, age : Ages])]]
  /\ breaks \in 0 .. MaxBreaks /\ slips \in 0 .. MaxSlips

Init ==
  /\ up = 0 /\ last = 0 /\ swept = FALSE /\ pc = "boot" /\ since = 0
  /\ found = [r \in Runs |-> Never] /\ todo = {} /\ hand = {} /\ lived = 0 /\ listened = 0
  /\ torn = FALSE
  /\ service = "up" /\ away = 0 /\ worker = TRUE
  /\ run = [r \in Runs |-> Unborn]
  /\ gate = [r \in Runs |-> Nothing]
  /\ breaks = 0 /\ slips = 0

-----------------------------------------------------------------------------
(* The runner and the way its events take                                  *)

Start(r, where) ==
  /\ run[r].state = "none" /\ service = "up"
  /\ worker \/ (where = "host" /\ HostAlone)
  /\ run' = [run EXCEPT ![r] = [Unborn EXCEPT !.state = "open", !.where = where,
                                              !.alive = TRUE, !.sent = Beat]]
  /\ UNCHANGED <<loop, service, away, worker, gate, breaks, slips>>

\* A live runner says something every Beat: a heartbeat, or, where the
\* network is out under a host run that has beaten, only what its work says.
Send(r, kind) ==
  /\ run[r].state = "open" /\ run[r].alive /\ run[r].sent = Beat
  /\ kind = "work" => run[r].where = "host" /\ run[r].heard.beat # Never
  /\ IF service = "up" /\ gate[r].events = << >>
       THEN run' = [run EXCEPT ![r].sent = 0, ![r].heard = Said(kind, 0, @)] /\ gate' = gate
       ELSE /\ run' = [run EXCEPT ![r].sent = 0]
            /\ gate' = [gate EXCEPT ![r].events = Append(@, [kind |-> kind, age |-> 0])]
  /\ UNCHANGED <<loop, service, away, worker, breaks, slips>>

Die(r) ==
  /\ run[r].alive
  /\ run' = [run EXCEPT ![r].alive = FALSE, ![r].sent = 0]
  /\ UNCHANGED <<loop, service, away, worker, gate, breaks, slips>>

WorkerStops ==
  /\ worker
  /\ HostAlone \/ \A r \in Runs : run[r].where = "host" => ~run[r].alive
  /\ worker' = FALSE
  /\ run' = [r \in Runs |-> IF run[r].where = "stack"
                              THEN [run[r] EXCEPT !.alive = FALSE, !.sent = 0] ELSE run[r]]
  /\ UNCHANGED <<loop, service, away, gate, breaks, slips>>

WorkerStarts ==
  /\ ~worker
  /\ worker' = TRUE
  /\ UNCHANGED <<loop, service, away, run, gate, breaks, slips>>

\* store: the next event of a run is kept, under the time it was sent at.
\* One that waited too long for the writer says that this service was deaf.
Store(r) ==
  /\ service = "up" /\ gate[r].events # << >>
  /\ LET e == Head(gate[r].events)
     IN /\ run' = IF run[r].state = "open" THEN [run EXCEPT ![r].heard = Said(e.kind, e.age, @)] ELSE run
        /\ up' = IF gate[r].asked > Late THEN 0 ELSE up
  /\ gate' = [gate EXCEPT ![r] = [asked |-> 0, events |-> Tail(@.events)]]
  /\ UNCHANGED <<last, swept, pc, since, held, torn, service, away, worker, breaks, slips>>

\* openRuns, and the progress event each of them is given on a clock of its own.
openRuns == {r \in Runs : run[r].state = "open" /\ run[r].born <= Window}
ProgressRound ==
  /\ service = "up" /\ \E r \in openRuns : run[r].heard.work >= Progress
  /\ run' = [r \in Runs |-> IF r \in openRuns
                              THEN [run[r] EXCEPT !.heard = Said("progress", 0, @)] ELSE run[r]]
  /\ UNCHANGED <<loop, service, away, worker, gate, breaks, slips>>

-----------------------------------------------------------------------------
(* The loop                                                                *)

\* The writer serves those who wait for it in turn: a record that asked for
\* it before the loop did is stored before the loop reads.
OursNow == service = "up" /\ \A r \in Runs : gate[r].asked = 0 \/ gate[r].asked < last
\* A closed run is not asked about again: its ages are dropped.
Close(closed) == [r \in Runs |-> IF r \in closed
                    THEN [Unborn EXCEPT !.state = "closed", !.alive = run[r].alive] ELSE run[r]]
\* Mutant: the stall guard inside the round is left out.
MutRearmed == up
Rearmed == IF last > Late THEN 0 ELSE up
Step(from, to) == pc = from /\ pc' = to
UNCHANGEDBesides == UNCHANGED <<service, away, worker, gate, breaks, slips>>

LateRound ==
  /\ service # "down" /\ pc \in {"rest", "boot"} /\ last > Late
  /\ up' = 0 /\ last' = 0 /\ pc' = "rest"
  /\ UNCHANGED <<swept, since, held, torn, run>> /\ UNCHANGEDBesides

\* sweepCrashed decides whether it has listened long enough before it waits
\* for the writer.
BeginRound ==
  /\ service # "down"
  /\ pc = "boot" \/ (pc = "rest" /\ Tick <= last)
  /\ last <= Late
  /\ last' = 0
  /\ IF ~swept /\ up >= Heartbeat THEN pc' = "crash" /\ since' = up
                                  ELSE pc' = "abandon" /\ since' = 0
  /\ UNCHANGED <<up, swept, held, torn, run>> /\ UNCHANGEDBesides

sweepCrashed ==
  /\ Step("crash", "abandon") /\ OursNow
  /\ swept' = TRUE /\ since' = 0
  /\ run' = Close({r \in openRuns : run[r].born > since /\ run[r].heard.said > since})
  /\ UNCHANGED <<up, last, held, torn>> /\ UNCHANGEDBesides

\* recordLimits has waited for the writer before the guard is asked, and
\* sweepQueue before it is asked again.
recordLimits ==
  /\ Step("abandon", "snapshot") /\ OursNow
  /\ up' = Rearmed
  /\ UNCHANGED <<last, swept, since, held, torn, run>> /\ UNCHANGEDBesides
sweepQueue ==
  /\ Step("weigh", "read") /\ OursNow
  /\ up' = Rearmed
  /\ UNCHANGED <<last, swept, since, held, torn, run>> /\ UNCHANGEDBesides

\* sweepAbandoned reads every open run under the lock, lets it go, asks how
\* long it has listened, and closes run by run, each close a wait of its own.
\* Mutant: it looks at the runs weigh looks at, and at no older one.
MutreadAbandoned ==
  /\ Step("snapshot", "sweep") /\ OursNow
  /\ found' = [r \in Runs |-> IF r \in openRuns THEN run[r].heard.newest ELSE Never]
  /\ UNCHANGED <<up, last, swept, since, todo, hand, lived, listened, torn, run>> /\ UNCHANGEDBesides
readAbandoned ==
  /\ Step("snapshot", "sweep") /\ OursNow
  /\ found' = [r \in Runs |-> IF run[r].state = "open" THEN run[r].heard.newest ELSE Never]
  /\ UNCHANGED <<up, last, swept, since, todo, hand, lived, listened, torn, run>> /\ UNCHANGEDBesides
CloseNext(left) ==
  /\ todo' = left
  /\ IF left = {} THEN pc' = "weigh" /\ torn' = FALSE ELSE pc' = "close" /\ torn' = torn
judgeAbandoned ==
  /\ pc = "sweep" /\ service # "down"
  /\ CloseNext({r \in Runs : found[r] # Never /\ Least(found[r], up) > RunLimit})
  /\ found' = [r \in Runs |-> Never]
  /\ UNCHANGED <<up, last, swept, since, hand, lived, listened, run>> /\ UNCHANGEDBesides
closeAbandoned ==
  /\ pc = "close" /\ OursNow
  /\ \E r \in todo : CloseNext(todo \ {r}) /\ run' = Close({r})
  /\ UNCHANGED <<up, last, swept, since, found, hand, lived, listened>> /\ UNCHANGEDBesides

\* weigh asks how long it has listened once, lists the open runs, and goes
\* from one to the next; every reading of a run waits for the writer.
TakeNext(left) ==
  /\ todo' = left /\ hand' = {} /\ lived' = 0
  /\ IF left = {} THEN pc' = "rest" /\ listened' = 0 /\ torn' = FALSE
                  ELSE pc' = "next" /\ UNCHANGED <<listened, torn>>
  /\ UNCHANGED <<up, last, swept, since, found>>
Goto(to) == pc' = to /\ UNCHANGED <<up, last, swept, since, held, torn>>
listen ==
  /\ Step("read", "open") /\ service # "down"
  /\ listened' = up
  /\ UNCHANGED <<up, last, swept, since, found, todo, hand, lived, torn, run>> /\ UNCHANGEDBesides
listRuns ==
  /\ pc = "open" /\ OursNow
  /\ TakeNext(openRuns)
  /\ UNCHANGED run /\ UNCHANGEDBesides
takeRun(r) ==
  /\ Step("next", "born") /\ service # "down" /\ r \in todo
  /\ hand' = {r} /\ todo' = todo \ {r} /\ lived' = run[r].born
  /\ UNCHANGED <<up, last, swept, since, found, listened, torn, run>> /\ UNCHANGEDBesides

\* The rules that close a row on silence, in the order they are asked: never
\* a beat; no beat of a host run, nor anything else from it; no beat past
\* worker_gone; and no word from a worker that is not there.
Stillborn(r) == run[r].heard.beat = Never /\ Least(lived, listened) > Heartbeat
PulseGone(r, limit) == run[r].heard.beat # Never /\ Least(run[r].heard.beat, listened) > limit
weighBirth(r) ==
  /\ pc = "born" /\ OursNow /\ r \in hand
  /\ IF Stillborn(r) THEN Goto("finish") ELSE Goto("pulse")
  /\ UNCHANGED run /\ UNCHANGEDBesides
weighPulse(r) ==
  /\ pc = "pulse" /\ OursNow /\ r \in hand
  /\ \/ PulseGone(r, Heartbeat) /\ run[r].where = "host" /\ Goto("host")
     \/ PulseGone(r, Gone) /\ run[r].where = "stack" /\ Goto("finish")
     \/ ~PulseGone(r, Heartbeat) /\ lived > Gone /\ Goto("heard")
     \/ /\ IF PulseGone(r, Heartbeat) THEN run[r].where = "stack" /\ ~PulseGone(r, Gone) ELSE lived <= Gone
        /\ TakeNext(todo)
  /\ UNCHANGED run /\ UNCHANGEDBesides
weighHost(r) ==
  /\ pc = "host" /\ OursNow /\ r \in hand
  /\ IF run[r].heard.runner > Heartbeat THEN Goto("finish") ELSE TakeNext(todo)
  /\ UNCHANGED run /\ UNCHANGEDBesides
weighSilence(r) ==
  /\ pc = "heard" /\ OursNow /\ r \in hand
  /\ IF run[r].heard.work > Gone THEN Goto("worker") ELSE TakeNext(todo)
  /\ UNCHANGED run /\ UNCHANGEDBesides
workerUp ==
  /\ pc = "worker" /\ service # "down"
  /\ IF worker THEN TakeNext(todo) ELSE Goto("finish")
  /\ UNCHANGED run /\ UNCHANGEDBesides
finish ==
  /\ pc = "finish" /\ OursNow
  /\ run' = Close(hand)
  /\ TakeNext(todo) /\ UNCHANGEDBesides

-----------------------------------------------------------------------------
(* Time, and what it may do to this process                                *)

Aged(n, awake) ==
  /\ up' = Older(up, n) /\ last' = Older(last, n)
  /\ found' = [r \in Runs |-> Older(found[r], n)] /\ UNCHANGED <<todo, hand, lived, listened>>
  /\ since' = IF pc = "crash" THEN Older(since, n) ELSE since
  /\ run' = [r \in Runs |->
       IF run[r].state # "open" THEN run[r]
       ELSE [run[r] EXCEPT
               !.born = Older(@, n),
               !.sent = IF awake /\ run[r].alive THEN @ + n ELSE @,
               !.heard = [reading \in DOMAIN @ |-> Older(@[reading], n)]]]
  /\ gate' = [r \in Runs |->
       IF gate[r].events = << >> THEN gate[r]
       ELSE [asked  |-> Older(gate[r].asked, n),
             events |-> [i \in DOMAIN gate[r].events |->
                           [gate[r].events[i] EXCEPT !.age = Older(@, n)]]]]

\* A unit of time passes when nothing is due: no beat, no record that could
\* be stored, no step of the loop.
Elapse ==
  /\ \A r \in Runs : run[r].alive => run[r].sent < Beat
  /\ service = "up" => /\ pc = "rest" /\ last < Tick
                       /\ \A r \in Runs : gate[r].events = << >>
  /\ service = "deaf" => /\ pc \in Waiting \/ (pc = "rest" /\ last < Tick)
                         /\ away < Late \/ breaks < MaxBreaks
  /\ service # "up" => away < MaxAway
  /\ away' = IF service = "up" THEN 0 ELSE away + 1
  /\ Aged(1, TRUE)
  /\ UNCHANGED <<swept, pc, torn, service, worker, breaks, slips>>

\* Absences are of interest while a run is open.
Watched == \E r \in Runs : run[r].state = "open"

\* An absence of n counts against the bound of its size.
Spent(n) == IF n > Late THEN breaks < MaxBreaks /\ breaks' = breaks + 1 /\ slips' = slips
                        ELSE slips < MaxSlips /\ slips' = slips + 1 /\ breaks' = breaks

\* It tears a round that has been asked for its wait already.
Tear == torn' = (torn \/ pc \in Unasked)

\* The host sleeps, and every process on it: nobody beats, and the wall
\* clock goes on.
Sleep(n) ==
  /\ service = "up" /\ Watched /\ Spent(n)
  /\ Aged(n, FALSE) /\ Tear
  /\ UNCHANGED <<swept, pc, service, away, worker>>

\* The writer is held by somebody else, and let go again.
Deafen ==
  /\ service = "up" /\ Watched
  /\ breaks < MaxBreaks \/ slips < MaxSlips
  /\ service' = "deaf" /\ away' = 0 /\ Tear
  /\ UNCHANGED <<up, last, swept, pc, since, held, worker, run, gate, breaks, slips>>
Hear ==
  /\ service = "deaf" /\ Spent(away)
  /\ service' = "up" /\ away' = 0
  /\ UNCHANGED <<loop, worker, run, gate>>

Stop ==
  /\ service = "up" /\ breaks < MaxBreaks /\ Watched
  /\ service' = "down" /\ away' = 0 /\ breaks' = breaks + 1
  /\ UNCHANGED <<loop, worker, run, gate, slips>>
Boot ==
  /\ service = "down"
  /\ service' = "up" /\ away' = 0
  /\ up' = 0 /\ last' = 0 /\ since' = 0 /\ swept' = FALSE /\ pc' = "boot"
  /\ found' = [r \in Runs |-> Never] /\ todo' = {} /\ hand' = {} /\ lived' = 0 /\ listened' = 0
  /\ torn' = FALSE
  /\ gate' = [r \in Runs |-> [gate[r] EXCEPT !.asked = 0]]
  /\ UNCHANGED <<worker, run, breaks, slips>>

sweepAbandoned == recordLimits \/ readAbandoned \/ judgeAbandoned \/ closeAbandoned
weigh ==
  \/ sweepQueue \/ listen \/ listRuns \/ workerUp \/ finish
  \/ \E r \in Runs : \/ takeRun(r) \/ weighBirth(r) \/ weighPulse(r)
                      \/ weighHost(r) \/ weighSilence(r)
Loop == LateRound \/ BeginRound \/ sweepCrashed \/ sweepAbandoned \/ weigh
Next ==
  \/ \E r \in Runs : (\E where \in Places : Start(r, where)) \/ Die(r) \/ Store(r)
  \/ \E r \in Runs, kind \in {"heartbeat", "work"} : Send(r, kind)
  \/ WorkerStops \/ WorkerStarts \/ ProgressRound \/ Loop
  \/ Elapse \/ (\E n \in {Late, Cap} : Sleep(n)) \/ Deafen \/ Hear \/ Stop \/ Boot

\* The loop, the progress loop and the handlers are goroutines that run when
\* they can; a runner that lives beats; time passes; and who holds the writer
\* lets go of it.
Fairness ==
  /\ WF_vars(Loop) /\ WF_vars(Elapse)
  /\ WF_vars(Hear) /\ WF_vars(Boot)
  /\ \A r \in Runs : WF_vars(Store(r)) /\ WF_vars(\E kind \in {"heartbeat", "work"} : Send(r, kind))
Spec == Init /\ [][Next]_vars /\ Fairness
-----------------------------------------------------------------------------
(* Properties                                                              *)

\* A run whose runner lives and beats is never closed for silence, neither
\* after a restart nor after any sleep of the host or wait of this service for
\* its own database that the round was asked about: only a round that such an
\* absence cut into later, between that question and the close, may do it.
LiveRunKept ==
  [][torn \/ \A r \in Runs : run[r].state = "open" /\ run[r].alive => run'[r].state # "closed"]_vars

\* What the comments of weigh and sweepAbandoned say, "only the silence
\* measured awake counts": no round at all closes a run whose runner lives.
OnlyAwakeCounts ==
  [][\A r \in Runs : run[r].state = "open" /\ run[r].alive => run'[r].state # "closed"]_vars

\* And the absence clock only delays: the row of a run that died is closed in
\* the end, also one older than openRuns looks back.
DeadRunClosed ==
  \A r \in Runs : (run[r].state = "open" /\ ~run[r].alive) ~> run[r].state = "closed"
=============================================================================
