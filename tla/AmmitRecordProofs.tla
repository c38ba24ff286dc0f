------------------------- MODULE AmmitRecordProofs -------------------------
(***************************************************************************)
(* Proofs about the readings of a run's record, for any branches, phases    *)
(* and bounds, and however many events are late or lost: what each reading  *)
(* hears, against what the runner did.                                      *)
(***************************************************************************)
EXTENDS AmmitRecord, FiniteSetTheorems, WellFoundedInduction, TLAPS

-----------------------------------------------------------------------------
(* The newest of a set of places                                           *)

\* A set of numbers that is not empty has a least.
LEMMA HasLeast ==
  ASSUME NEW S \in SUBSET Nat, S # {}
  PROVE  \E x \in S : \A y \in S : x <= y
<1> DEFINE R == OpToRel(<, Nat)
<1>1. IsWellFoundedOn(R, Nat)
  BY NatLessThanWellFounded
<1>2. PICK x \in S : \A y \in S : ~(<<y, x>> \in R)
  <2> HIDE DEF R
  <2> QED  BY <1>1, WFMin, Zenon
<1>3. \A y \in S : y < x => <<y, x>> \in R
  BY DEF OpToRel
<1>4. \A y \in S : ~(y < x)
  <2> HIDE DEF R
  <2> QED  BY <1>2, <1>3
<1>5. x \in Nat /\ \A y \in S : y \in Nat
  OBVIOUS
<1> QED  BY <1>4, <1>5

\* And one that is bounded has a greatest.
LEMMA HasGreatest ==
  ASSUME NEW n \in Nat, NEW S \in SUBSET (1 .. n), S # {}
  PROVE  \E x \in S : \A y \in S : x >= y
<1> DEFINE T == {m \in Nat : \A y \in S : y <= m}
<1>1. n \in T
  OBVIOUS
<1>2. PICK m \in T : \A k \in T : m <= k
  BY <1>1, HasLeast
<1>3. m \in S
  <2> SUFFICES ASSUME m \notin S  PROVE FALSE
    OBVIOUS
  <2>1. \A y \in S : y < m
    BY <1>2
  <2>2. m # 0
    <3>1. PICK y \in S : TRUE
      OBVIOUS
    <3> QED  BY <2>1, <3>1
  <2>3. m - 1 \in T
    BY <2>1, <2>2
  <2> QED  BY <2>3, <1>2
<1> QED  BY <1>2, <1>3

\* Newest is the greatest of its set, or nothing.
LEMMA NewestIs ==
  ASSUME NEW n \in Nat, NEW S \in SUBSET (1 .. n)
  PROVE  /\ S = {} => Newest(S) = 0
         /\ S # {} => Newest(S) \in S
         /\ \A y \in S : Newest(S) >= y
<1>1. CASE S = {}
  BY <1>1 DEF Newest
<1>2. CASE S # {}
  <2>1. \E x \in S : \A y \in S : x >= y
    BY <1>2, HasGreatest
  <2>2. Max(S) \in S /\ \A y \in S : Max(S) >= y
    BY <2>1 DEF Max
  <2> QED  BY <1>2, <2>2 DEF Newest
<1> QED  BY <1>1, <1>2

\* The newest of one is that one; so is the oldest.
LEMMA NewestOfOne == ASSUME NEW i \in Nat PROVE Newest({i}) = i /\ Min({i}) = i
<1>1. {i} # {} /\ Max({i}) = i
  BY DEF Max
<1> QED  BY <1>1 DEF Newest, Min

-----------------------------------------------------------------------------
(* What is invariant: what the record says of what a branch does           *)

\* The record is what was said, and each of it arrives once.
Kept ==
  /\ said \in Seq(RecordEvent) /\ Len(said) <= MaxAlone
  /\ log \in Seq(Nat) /\ (\A i \in DOMAIN log : log[i] \in DOMAIN said)
  /\ IsFiniteSet(Arrived) /\ Cardinality(Arrived) = Len(log)
\* A session is of a phase.
Doing == [phase : FlowPhases \cup {"none"}, session : BOOLEAN, wait : 0 .. MaxAlone]
Works == work \in [Branches -> Doing] /\ \A b \in Branches : work[b].session => work[b].phase # "none"

\* A request has a name of its own, everything else its branch's.
Named ==
  \A i \in DOMAIN said :
    /\ said[i].kind = "request_start" => said[i].name = i
    /\ said[i].kind = "request_end" => said[i].name \in DOMAIN said
    /\ said[i].kind \notin {"request_start", "request_end"} => said[i].name \in Branches

\* A wait is of its branch's session, and neither has ended.
Waiting ==
  \A b \in Branches : work[b].wait # 0 =>
    LET w == work[b].wait
    IN  /\ work[b].session
        /\ w \in DOMAIN said /\ said[w].kind = "request_start" /\ said[w].branch = b
        /\ \A e \in DOMAIN said : /\ said[e].kind = "request_end" => said[e].name # w
                                  /\ said[e].kind = "session_end" /\ said[e].branch = b => e < w

\* A phase that is going on began after its last end; one that is not has
\* ended since it began.
Of2(i, kind, b, p) == said[i].kind = kind /\ said[i].branch = b /\ said[i].phase = p
PhaseTold ==
  \A b \in Branches :
    /\ work[b].phase # "none" =>
         \E s \in DOMAIN said : /\ Of2(s, "phase_start", b, work[b].phase)
                                /\ \A e \in DOMAIN said : Of2(e, "phase_end", b, work[b].phase) => e < s
    /\ \A i \in DOMAIN said : \A p \in FlowPhases :
         Of2(i, "phase_start", b, p) /\ p # work[b].phase =>
           \E e \in DOMAIN said : e > i /\ Of2(e, "phase_end", b, p)

\* So is a session; and what was done in one that is over has its end after it.
SessionTold ==
  \A b \in Branches :
    /\ work[b].session =>
         \E s \in DOMAIN said : /\ said[s].kind = "session_start" /\ said[s].branch = b
                                /\ \A e \in DOMAIN said : said[e].kind = "session_end" /\ said[e].branch = b => e < s
    /\ ~work[b].session =>
         \A i \in DOMAIN said : said[i].kind \in {"session_start", "turn"} /\ said[i].branch = b =>
           \E e \in DOMAIN said : e > i /\ said[e].kind = "session_end" /\ said[e].branch = b

IInv == Kept /\ Works /\ Named /\ Waiting /\ PhaseTold /\ SessionTold

-----------------------------------------------------------------------------
(* A step says one thing more, or nothing                                  *)

\* What b says next is e.
Adds(b, e) ==
  /\ said' = Append(said, e) /\ e \in RecordEvent /\ e.branch = b /\ Len(said) < MaxAlone
  /\ \A c \in Branches \ {b} : work'[c] = work[c]
  /\ e.kind \notin {"request_start", "request_end"} => e.name = b
  /\ e.kind # "phase_start" => e.phase = work[b].phase

\* And what it goes on to.
Begins(b, e) ==
  \/ /\ e.kind = "phase_start" /\ work[b].phase = "none"
     /\ work'[b].phase = e.phase /\ work'[b].session = work[b].session /\ work'[b].wait = work[b].wait
  \/ /\ e.kind = "session_start" /\ ~work[b].session
     /\ work'[b].phase = work[b].phase /\ work'[b].session /\ work'[b].wait = work[b].wait
  \/ /\ e.kind = "request_start" /\ work[b].session /\ work[b].wait = 0 /\ e.name = Len(said) + 1
     /\ work'[b].phase = work[b].phase /\ work'[b].session = work[b].session /\ work'[b].wait = Len(said) + 1
  \/ /\ e.kind = "turn" /\ work[b].session /\ work'[b] = work[b]
Finishes(b, e) ==
  \/ /\ e.kind = "phase_end" /\ work[b].phase # "none"
     /\ work'[b].phase = "none" /\ work'[b].session = work[b].session /\ work'[b].wait = work[b].wait
  \/ /\ e.kind = "session_end" /\ work[b].session
     /\ work'[b].phase = work[b].phase /\ ~work'[b].session /\ work'[b].wait = 0
  \/ /\ e.kind = "request_end" /\ work[b].wait # 0 /\ e.name = work[b].wait
     /\ work'[b].phase = work[b].phase /\ work'[b].session = work[b].session /\ work'[b].wait = 0

\* The event that Says makes.
Made(kind, b, name, short) ==
  [kind |-> kind, branch |-> b, name |-> name, short |-> short,
   phase |-> IF kind = "phase_start" THEN work'[b].phase ELSE work[b].phase]

\* What arrives is one more of what has.
LEMMA OneMore ==
  ASSUME Kept, NEW x \in Nat, x \notin Arrived, log' = Append(log, x), x \in DOMAIN said'
  PROVE  log' \in Seq(Nat) /\ Arrived' = Arrived \cup {x}
         /\ IsFiniteSet(Arrived') /\ Cardinality(Arrived') = Len(log')
<1>1. log \in Seq(Nat) /\ IsFiniteSet(Arrived) /\ Cardinality(Arrived) = Len(log)
  BY DEF Kept
<1>2. log' \in Seq(Nat) /\ Len(log') = Len(log) + 1 /\ DOMAIN log' = 1 .. Len(log) + 1 /\ DOMAIN log = 1 .. Len(log)
      /\ log'[Len(log) + 1] = x /\ \A i \in 1 .. Len(log) : log'[i] = log[i]
  BY <1>1
<1>3. Len(log) \in Nat
  BY <1>1
<1>4. Arrived' = Arrived \cup {x}
  <2>1. \A y \in Arrived' : y \in Arrived \cup {x}
    <3> SUFFICES ASSUME NEW i \in 1 .. Len(log) + 1  PROVE log'[i] \in Arrived \cup {x}
      BY <1>2 DEF Arrived
    <3>1. i = Len(log) + 1 \/ i \in 1 .. Len(log)
      BY <1>3
    <3> QED  BY <3>1, <1>2 DEF Arrived
  <2>2. x \in Arrived'
    BY <1>2, <1>3 DEF Arrived
  <2>3. \A y \in Arrived : y \in Arrived'
    <3> SUFFICES ASSUME NEW i \in 1 .. Len(log)  PROVE log[i] \in Arrived'
      BY <1>2 DEF Arrived
    <3>1. i \in 1 .. Len(log) + 1
      BY <1>3
    <3> QED  BY <3>1, <1>2 DEF Arrived
  <2> QED  BY <2>1, <2>2, <2>3
<1>5. IsFiniteSet(Arrived \cup {x}) /\ Cardinality(Arrived \cup {x}) = Cardinality(Arrived) + 1
  BY <1>1, FS_AddElement
<1> QED  BY <1>1, <1>2, <1>4, <1>5

\* It is an event, and the next.
LEMMA SaysAdds ==
  ASSUME Kept, NEW kind \in Kinds, NEW b \in Branches, NEW name \in Branches \cup 1 .. MaxAlone,
         NEW short \in BOOLEAN, Says(kind, b, name, short),
         kind \notin {"request_start", "request_end"} => name = b,
         (IF kind = "phase_start" THEN work'[b].phase ELSE work[b].phase) \in FlowPhases,
         \A c \in Branches \ {b} : work'[c] = work[c]
  PROVE  Adds(b, Made(kind, b, name, short)) /\ Kept'
<1> DEFINE e == Made(kind, b, name, short)
<1>1. e \in RecordEvent /\ e.kind = kind /\ e.branch = b /\ e.name = name
      /\ e.phase = (IF kind = "phase_start" THEN work'[b].phase ELSE work[b].phase)
  BY DEF Made, RecordEvent
<1>2. said' = Append(said, e)
  BY DEF Says, Made
<1>3. Len(said) < MaxAlone /\ Len(said) \in Nat /\ MaxAlone \in Nat
  BY BoundAssumption DEF Says, Room, Kept
<1> HIDE DEF e
<1>4. Adds(b, e)
  BY <1>1, <1>2, <1>3 DEF Adds
<1>5. said' \in Seq(RecordEvent) /\ Len(said') = Len(said) + 1 /\ DOMAIN said \subseteq DOMAIN said'
      /\ Len(said) + 1 \in DOMAIN said' /\ Len(said) + 1 \notin DOMAIN said
  BY <1>1, <1>2, <1>3 DEF Kept
<1>6. log' = Append(log, Len(said) + 1) \/ log' = log
  BY DEF Says
<1>7. Arrived \subseteq DOMAIN said
  BY DEF Kept, Arrived
<1>10. said' \in Seq(RecordEvent) /\ Len(said') <= MaxAlone
  BY <1>3, <1>5
<1>8. CASE log' = log
  <2>1. Arrived' = Arrived
    BY <1>8 DEF Arrived
  <2>2. \A i \in DOMAIN log' : log'[i] \in DOMAIN said'
    BY <1>5, <1>8 DEF Kept
  <2>3. log' \in Seq(Nat) /\ IsFiniteSet(Arrived') /\ Cardinality(Arrived') = Len(log')
    BY <1>8, <2>1 DEF Kept
  <2> QED  BY <1>4, <1>10, <2>2, <2>3 DEF Kept, e
<1>9. CASE log' = Append(log, Len(said) + 1)
  <2>1. log' \in Seq(Nat) /\ Arrived' = Arrived \cup {Len(said) + 1}
        /\ IsFiniteSet(Arrived') /\ Cardinality(Arrived') = Len(log')
    <3>1. Len(said) + 1 \notin Arrived /\ Len(said) + 1 \in Nat
      BY <1>3, <1>5, <1>7
    <3> QED  BY <3>1, <1>5, <1>9, OneMore
  <2>2. \A y \in Arrived' : y \in DOMAIN said'
    BY <2>1, <1>5, <1>7
  <2>3. \A i \in DOMAIN log' : log'[i] \in DOMAIN said'
    BY <2>2 DEF Arrived
  <2> QED  BY <1>4, <1>10, <2>1, <2>3 DEF Kept, e
<1> QED  BY <1>4, <1>6, <1>8, <1>9 DEF e

\* Whatever it is that b says, and goes on to do.
LEMMA SaysIt ==
  ASSUME Kept, Works, NEW kind \in Kinds, NEW b \in Branches, NEW name \in Branches \cup 1 .. MaxAlone,
         NEW short \in BOOLEAN, NEW r \in Doing, work' = [work EXCEPT ![b] = r], Says(kind, b, name, short),
         r.session => r.phase # "none",
         kind \notin {"request_start", "request_end"} => name = b,
         (IF kind = "phase_start" THEN r.phase ELSE work[b].phase) # "none"
  PROVE  /\ Kept' /\ Works' /\ work'[b] = r
         /\ Adds(b, Made(kind, b, name, short))
<1>1. work' \in [Branches -> Doing] /\ work'[b] = r /\ \A c \in Branches \ {b} : work'[c] = work[c]
  BY DEF Works
<1>2. Works'
  BY <1>1 DEF Works
<1>3. work[b].phase \in FlowPhases \cup {"none"} /\ r.phase \in FlowPhases \cup {"none"}
  BY DEF Works, Doing
<1>4. (IF kind = "phase_start" THEN work'[b].phase ELSE work[b].phase) \in FlowPhases
  BY <1>1, <1>3
<1> DEFINE e == Made(kind, b, name, short)
<1>5. Adds(b, e) /\ Kept'
  BY <1>1, <1>4, SaysAdds
<1> QED  BY <1>1, <1>2, <1>5

\* A step says one thing more, or what was held arrives.
LEMMA Step ==
  ASSUME IInv, RecordNext
  PROVE  /\ Kept' /\ Works'
         /\ \/ UNCHANGED <<said, work>>
            \/ \E b \in Branches : \E e : Adds(b, e) /\ (Begins(b, e) \/ Finishes(b, e))
<1> USE DEF IInv
<1>1. ASSUME NEW i \in Held, Arrives(i)
      PROVE  Kept' /\ Works' /\ UNCHANGED <<said, work>>
  <2>1. said' = said /\ work' = work /\ log' = Append(log, i)
    BY <1>1 DEF Arrives
  <2>2. i \in DOMAIN said /\ i \notin Arrived /\ i \in Nat
    BY <1>1 DEF Held, Kept
  <2>3. log' \in Seq(Nat) /\ Arrived' = Arrived \cup {i}
        /\ IsFiniteSet(Arrived') /\ Cardinality(Arrived') = Len(log')
    BY <2>1, <2>2, OneMore
  <2>4. Arrived \subseteq DOMAIN said
    BY DEF Kept, Arrived
  <2>5. \A j \in DOMAIN log' : log'[j] \in DOMAIN said
    BY <2>2, <2>3, <2>4 DEF Arrived
  <2> QED  BY <2>1, <2>3, <2>5 DEF Kept, Works
<1>2. ASSUME NEW b \in Branches,
             \/ \E p \in FlowPhases : PhaseStarts(b, p)
             \/ \E short \in BOOLEAN : PhaseEnds(b, short)
             \/ SessionStarts(b) \/ SessionEnds(b) \/ RequestStarts(b) \/ RequestEnds(b) \/ Turn(b)
      PROVE  Kept' /\ Works' /\ \E e : Adds(b, e) /\ (Begins(b, e) \/ Finishes(b, e))
  <2>1. work \in [Branches -> Doing] /\ work[b] \in Doing
    BY DEF Works
  <2>2. work[b].phase \in FlowPhases \cup {"none"} /\ work[b].session \in BOOLEAN /\ work[b].wait \in 0 .. MaxAlone
        /\ (work[b].session => work[b].phase # "none") /\ (work[b].wait # 0 => work[b].session)
    BY <2>1 DEF Works, Waiting, Doing
  <2>11. \A kind \in Kinds, name \in Branches \cup 1 .. MaxAlone, short \in BOOLEAN, r \in Doing :
           /\ work' = [work EXCEPT ![b] = r] /\ Says(kind, b, name, short)
           /\ r.session => r.phase # "none"
           /\ kind \notin {"request_start", "request_end"} => name = b
           /\ (IF kind = "phase_start" THEN r.phase ELSE work[b].phase) # "none"
           => /\ Kept' /\ Works' /\ work'[b] = r
              /\ Adds(b, Made(kind, b, name, short))
    <3> SUFFICES ASSUME NEW kind \in Kinds, NEW name \in Branches \cup 1 .. MaxAlone, NEW short \in BOOLEAN, NEW r \in Doing,
                        work' = [work EXCEPT ![b] = r], Says(kind, b, name, short),
                        r.session => r.phase # "none",
                        kind \notin {"request_start", "request_end"} => name = b,
                        (IF kind = "phase_start" THEN r.phase ELSE work[b].phase) # "none"
                 PROVE  Kept' /\ Works' /\ work'[b] = r /\ Adds(b, Made(kind, b, name, short))
      BY ZenonT(60)
    <3> QED  BY SaysIt
  <2>3. "none" \notin FlowPhases /\ MaxAlone \in Nat /\ MaxSaid <= MaxAlone /\ MaxSaid \in Nat /\ Len(said) \in Nat
    BY PhasesAssumption, BoundAssumption DEF Kept
  <2>4. CASE \E p \in FlowPhases : PhaseStarts(b, p)
    <3>1. PICK p \in FlowPhases : PhaseStarts(b, p)
      BY <2>4
    <3> DEFINE r == [work[b] EXCEPT !.phase = p]
    <3>2. r \in Doing /\ r.phase = p /\ r.session = work[b].session /\ r.wait = work[b].wait
      BY <2>1, <2>2, <2>3 DEF Doing
    <3>3. work' = [work EXCEPT ![b] = r] /\ Says("phase_start", b, b, FALSE) /\ work[b].phase = "none"
      BY <3>1, <2>1, <2>2 DEF PhaseStarts
    <3> HIDE DEF r
    <3> DEFINE e == Made("phase_start", b, b, FALSE)
    <3>4. Kept' /\ Works' /\ work'[b] = r /\ Adds(b, e)
      BY <2>2, <2>3, <3>2, <3>3, <2>11 DEF Kinds
    <3>5. e.kind = "phase_start" /\ e.name = b /\ e.phase = r.phase
      BY <3>4 DEF Made
    <3> HIDE DEF e
    <3> QED  BY <3>2, <3>3, <3>4, <3>5 DEF Begins
  <2>5. CASE \E short \in BOOLEAN : PhaseEnds(b, short)
    <3>1. PICK short \in BOOLEAN : PhaseEnds(b, short)
      BY <2>5
    <3> DEFINE r == [work[b] EXCEPT !.phase = "none"]
    <3>2. r \in Doing /\ r.phase = "none" /\ r.session = work[b].session /\ r.wait = work[b].wait
      BY <2>1, <2>2, <2>3 DEF Doing
    <3>3. work' = [work EXCEPT ![b] = r] /\ Says("phase_end", b, b, short) /\ work[b].phase # "none" /\ ~work[b].session
      BY <3>1, <2>1, <2>2 DEF PhaseEnds
    <3> HIDE DEF r
    <3> DEFINE e == Made("phase_end", b, b, short)
    <3>4. Kept' /\ Works' /\ work'[b] = r /\ Adds(b, e)
      BY <2>2, <2>3, <3>2, <3>3, <2>11 DEF Kinds
    <3>5. e.kind = "phase_end" /\ e.name = b
      BY <3>4 DEF Made
    <3> HIDE DEF e
    <3> QED  BY <3>2, <3>3, <3>4, <3>5 DEF Finishes
  <2>6. CASE SessionStarts(b)
    <3>1. SessionStarts(b)
      BY <2>6
    <3> DEFINE r == [work[b] EXCEPT !.session = TRUE]
    <3>2. r \in Doing /\ r.phase = work[b].phase /\ r.session = TRUE /\ r.wait = work[b].wait
      BY <2>1, <2>2, <2>3 DEF Doing
    <3>3. work' = [work EXCEPT ![b] = r] /\ Says("session_start", b, b, FALSE) /\ work[b].phase # "none" /\ ~work[b].session
      BY <3>1, <2>1, <2>2 DEF SessionStarts
    <3> HIDE DEF r
    <3> DEFINE e == Made("session_start", b, b, FALSE)
    <3>4. Kept' /\ Works' /\ work'[b] = r /\ Adds(b, e)
      BY <2>2, <2>3, <3>2, <3>3, <2>11 DEF Kinds
    <3>5. e.kind = "session_start" /\ e.name = b
      BY <3>4 DEF Made
    <3> HIDE DEF e
    <3> QED  BY <3>2, <3>3, <3>4, <3>5 DEF Begins
  <2>7. CASE SessionEnds(b)
    <3>1. SessionEnds(b)
      BY <2>7
    <3> DEFINE q == [work[b] EXCEPT !.session = FALSE]
    <3>6. q \in Doing /\ q.phase = work[b].phase /\ q.session = FALSE
      BY <2>1, <2>2, <2>3 DEF Doing
    <3>7. \A x \in Doing : [x EXCEPT !.wait = 0] \in Doing /\ [x EXCEPT !.wait = 0].wait = 0
            /\ [x EXCEPT !.wait = 0].phase = x.phase /\ [x EXCEPT !.wait = 0].session = x.session
      BY <2>3 DEF Doing
    <3> DEFINE r == [q EXCEPT !.wait = 0]
    <3>2. r \in Doing /\ r.phase = work[b].phase /\ r.session = FALSE /\ r.wait = 0
      BY <3>6, <3>7, Zenon
    <3>3. work' = [work EXCEPT ![b] = r] /\ Says("session_end", b, b, FALSE) /\ work[b].session
      BY <3>1, <2>1, <2>2 DEF SessionEnds
    <3> HIDE DEF r
    <3> DEFINE e == Made("session_end", b, b, FALSE)
    <3>4. Kept' /\ Works' /\ work'[b] = r /\ Adds(b, e)
      BY <2>2, <2>3, <3>2, <3>3, <2>11 DEF Kinds
    <3>5. e.kind = "session_end" /\ e.name = b
      BY <3>4 DEF Made
    <3> HIDE DEF e
    <3> QED  BY <3>2, <3>3, <3>4, <3>5 DEF Finishes
  <2>8. CASE RequestStarts(b)
    <3>1. RequestStarts(b)
      BY <2>8
    <3>6. Len(said) + 1 \in 1 .. MaxAlone
      BY <2>3, <3>1 DEF RequestStarts, Says, Room
    <3> DEFINE r == [work[b] EXCEPT !.wait = Len(said) + 1]
    <3>2. r \in Doing /\ r.phase = work[b].phase /\ r.session = work[b].session /\ r.wait = Len(said) + 1
      BY <2>1, <2>2, <2>3, <3>6 DEF Doing
    <3>3. work' = [work EXCEPT ![b] = r] /\ Says("request_start", b, Len(said) + 1, FALSE) /\ work[b].session /\ work[b].wait = 0
      BY <3>1, <2>1, <2>2 DEF RequestStarts
    <3> HIDE DEF r
    <3> DEFINE e == Made("request_start", b, Len(said) + 1, FALSE)
    <3>4. Kept' /\ Works' /\ work'[b] = r /\ Adds(b, e)
      BY <2>2, <2>3, <3>2, <3>3, <3>6, <2>11 DEF Kinds
    <3>5. e.kind = "request_start" /\ e.name = Len(said) + 1
      BY <3>4 DEF Made
    <3> HIDE DEF e
    <3> QED  BY <3>2, <3>3, <3>4, <3>5 DEF Begins
  <2>9. CASE RequestEnds(b)
    <3>1. RequestEnds(b)
      BY <2>9
    <3>6. work[b].wait \in 1 .. MaxAlone
      BY <2>2, <2>3, <3>1 DEF RequestEnds
    <3> DEFINE r == [work[b] EXCEPT !.wait = 0]
    <3>2. r \in Doing /\ r.phase = work[b].phase /\ r.session = work[b].session /\ r.wait = 0
      BY <2>1, <2>2, <2>3 DEF Doing
    <3>3. work' = [work EXCEPT ![b] = r] /\ Says("request_end", b, work[b].wait, FALSE) /\ work[b].wait # 0
      BY <3>1, <2>1, <2>2 DEF RequestEnds
    <3> HIDE DEF r
    <3> DEFINE e == Made("request_end", b, work[b].wait, FALSE)
    <3>4. Kept' /\ Works' /\ work'[b] = r /\ Adds(b, e)
      BY <2>2, <2>3, <3>2, <3>3, <3>6, <2>11 DEF Kinds
    <3>5. e.kind = "request_end" /\ e.name = work[b].wait
      BY <3>4 DEF Made
    <3> HIDE DEF e
    <3> QED  BY <3>2, <3>3, <3>4, <3>5 DEF Finishes
  <2>10. CASE Turn(b)
    <3>1. Turn(b)
      BY <2>10
    <3> DEFINE r == work[b]
    <3>2. r \in Doing /\ r.phase = work[b].phase /\ r.session = work[b].session /\ r.wait = work[b].wait /\ r = work[b]
      BY <2>1, <2>2, <2>3 DEF Doing
    <3>3. work' = [work EXCEPT ![b] = r] /\ Says("turn", b, b, FALSE) /\ work[b].session
      BY <3>1, <2>1, <2>2 DEF Turn
    <3> HIDE DEF r
    <3> DEFINE e == Made("turn", b, b, FALSE)
    <3>4. Kept' /\ Works' /\ work'[b] = r /\ Adds(b, e)
      BY <2>2, <2>3, <3>2, <3>3, <2>11 DEF Kinds
    <3>5. e.kind = "turn" /\ e.name = b
      BY <3>4 DEF Made
    <3> HIDE DEF e
    <3> QED  BY <3>2, <3>3, <3>4, <3>5 DEF Begins
  <2> QED  BY <1>2, <2>4, <2>5, <2>6, <2>7, <2>8, <2>9, <2>10
<1> QED  BY <1>1, <1>2 DEF RecordNext

-----------------------------------------------------------------------------
(* What the record says stays true                                         *)

\* What was said stays, at its place, and one more comes after it.
LEMMA Grown ==
  ASSUME Kept, NEW b, NEW e, Adds(b, e)
  PROVE  /\ Len(said) + 1 \in Nat /\ DOMAIN said' = DOMAIN said \cup {Len(said) + 1}
         /\ said'[Len(said) + 1] = e /\ Len(said') = Len(said) + 1
         /\ \A i \in DOMAIN said : i \in Nat /\ i < Len(said) + 1 /\ i # 0 /\ said'[i] = said[i]
<1>1. said \in Seq(RecordEvent) /\ said' = Append(said, e) /\ e \in RecordEvent
  BY DEF Kept, Adds
<1> QED  BY <1>1

\* The names stay their events' own.
LEMMA NamedKept ==
  ASSUME IInv, NEW b \in Branches, NEW e, Adds(b, e), Begins(b, e) \/ Finishes(b, e)
  PROVE  Named'
<1> DEFINE n == Len(said) + 1
<1>1. n \in Nat /\ DOMAIN said' = DOMAIN said \cup {n} /\ said'[n] = e
      /\ \A i \in DOMAIN said : said'[i] = said[i]
  BY Grown DEF IInv
<1>2. e.kind = "request_start" => e.name = n
  BY DEF Begins, Finishes
<1>3. e.kind = "request_end" => e.name \in DOMAIN said
  BY DEF Begins, Finishes, IInv, Waiting
<1>4. e.kind \notin {"request_start", "request_end"} => e.name \in Branches
  BY DEF Adds
<1> HIDE DEF n
<1>5. ASSUME NEW i \in DOMAIN said'
      PROVE  /\ said'[i].kind = "request_start" => said'[i].name = i
             /\ said'[i].kind = "request_end" => said'[i].name \in DOMAIN said'
             /\ said'[i].kind \notin {"request_start", "request_end"} => said'[i].name \in Branches
  <2>1. CASE i = n
    BY <2>1, <1>1, <1>2, <1>3, <1>4
  <2>2. CASE i \in DOMAIN said
    BY <2>2, <1>1 DEF IInv, Named
  <2> QED  BY <1>1, <2>1, <2>2
<1> QED  BY <1>5 DEF Named

\* A wait stays its session's, and open.
LEMMA WaitingKept ==
  ASSUME IInv, NEW b \in Branches, NEW e, Adds(b, e), Begins(b, e) \/ Finishes(b, e)
  PROVE  Waiting'
<1> DEFINE n == Len(said) + 1
<1>1. n \in Nat /\ DOMAIN said' = DOMAIN said \cup {n} /\ said'[n] = e
      /\ \A i \in DOMAIN said : i \in Nat /\ i < n /\ said'[i] = said[i]
  BY Grown DEF IInv
<1>2. e.branch = b /\ \A c \in Branches \ {b} : work'[c] = work[c]
  BY DEF Adds
<1>3. e.kind = "request_start" => e.name = n
  BY DEF Begins, Finishes
<1> SUFFICES ASSUME NEW c \in Branches, NEW w, w = work'[c].wait, w # 0
             PROVE  /\ work'[c].session
                    /\ w \in DOMAIN said' /\ said'[w].kind = "request_start" /\ said'[w].branch = c
                    /\ \A k \in DOMAIN said' : /\ said'[k].kind = "request_end" => said'[k].name # w
                                               /\ said'[k].kind = "session_end" /\ said'[k].branch = c => k < w
  BY DEF Waiting
\* The wait goes on.
<1>4. CASE w = work[c].wait /\ (c = b => work'[b].session /\ e.kind \notin {"request_end", "session_end"})
  <2>1. /\ work[c].session /\ w \in DOMAIN said /\ said[w].kind = "request_start" /\ said[w].branch = c
        /\ \A k \in DOMAIN said : /\ said[k].kind = "request_end" => said[k].name # w
                                  /\ said[k].kind = "session_end" /\ said[k].branch = c => k < w
    BY <1>4 DEF IInv, Waiting
  <2>2. e.kind = "request_end" => e.name # w
    <3>1. CASE c = b
      BY <3>1, <1>4
    <3>2. CASE c # b
      <4>1. e.kind = "request_end" => e.name = work[b].wait /\ work[b].wait # 0
        BY DEF Begins, Finishes
      <4>2. work[b].wait # 0 => said[work[b].wait].branch = b
        BY DEF IInv, Waiting
      <4> QED  BY <3>2, <4>1, <4>2, <2>1
    <3> QED  BY <3>1, <3>2
  <2>3. e.kind = "session_end" => e.branch # c
    BY <1>2, <1>4
  <2>4. work'[c].session
    BY <1>2, <1>4, <2>1
  <2> HIDE DEF n
  <2> QED  BY <1>1, <2>1, <2>2, <2>3, <2>4
\* It begins.
<1>5. CASE c = b /\ w = n /\ e.kind = "request_start" /\ work'[b].session
  <2>1. \A k \in DOMAIN said : said[k].kind = "request_end" => said[k].name # n
    BY <1>1 DEF IInv, Named
  <2> HIDE DEF n
  <2> QED  BY <1>1, <1>2, <1>5, <2>1
<1>6. CASE c # b
  BY <1>2, <1>4, <1>6
<1>7. CASE c = b
  <2>1. work[b].wait # 0 => work[b].session
    BY DEF IInv, Waiting
  <2>2. CASE Begins(b, e)
    BY <1>4, <1>5, <1>7, <2>1, <2>2 DEF Begins
  <2>3. CASE Finishes(b, e)
    BY <1>4, <1>7, <2>1, <2>3 DEF Finishes
  <2> QED  BY <2>2, <2>3
<1> QED  BY <1>6, <1>7

\* The record goes on telling the phase of each branch.
LEMMA PhaseKept ==
  ASSUME IInv, NEW b \in Branches, NEW e, Adds(b, e), Begins(b, e) \/ Finishes(b, e)
  PROVE  PhaseTold'
<1> DEFINE n == Len(said) + 1
<1>1. n \in Nat /\ DOMAIN said' = DOMAIN said \cup {n} /\ said'[n] = e
      /\ \A i \in DOMAIN said : i \in Nat /\ i < n /\ said'[i] = said[i]
  BY Grown DEF IInv
<1>2. e.branch = b /\ (\A c \in Branches \ {b} : work'[c] = work[c])
      /\ (e.kind # "phase_start" => e.phase = work[b].phase)
  BY DEF Adds
<1>3. "none" \notin FlowPhases
  BY PhasesAssumption
<1>4. \/ e.kind \notin {"phase_start", "phase_end"} /\ work'[b].phase = work[b].phase
      \/ e.kind = "phase_start" /\ work[b].phase = "none" /\ work'[b].phase = e.phase
      \/ e.kind = "phase_end" /\ work'[b].phase = "none"
  BY DEF Begins, Finishes
<1>5. ASSUME NEW c \in Branches, work'[c].phase # "none"
      PROVE  \E s \in DOMAIN said' : /\ said'[s].kind = "phase_start" /\ said'[s].branch = c /\ said'[s].phase = work'[c].phase
                                     /\ \A k \in DOMAIN said' : said'[k].kind = "phase_end" /\ said'[k].branch = c
                                                                  /\ said'[k].phase = work'[c].phase => k < s
  <2> HIDE DEF n
  <2>1. CASE c = b /\ e.kind = "phase_start"
    BY <2>1, <1>1, <1>2, <1>4
  <2>2. CASE ~(c = b /\ e.kind = "phase_start")
    <3>1. work'[c].phase = work[c].phase /\ ~(c = b /\ e.kind = "phase_end")
      BY <1>2, <1>4, <1>5, <2>2
    <3>2. PICK s \in DOMAIN said :
            /\ said[s].kind = "phase_start" /\ said[s].branch = c /\ said[s].phase = work[c].phase
            /\ \A k \in DOMAIN said : said[k].kind = "phase_end" /\ said[k].branch = c /\ said[k].phase = work[c].phase => k < s
      BY <1>5, <3>1 DEF IInv, PhaseTold, Of2
    <3> QED  BY <1>1, <1>2, <3>1, <3>2
  <2> QED  BY <2>1, <2>2
<1>6. ASSUME NEW c \in Branches, NEW i \in DOMAIN said', NEW p \in FlowPhases,
             said'[i].kind = "phase_start", said'[i].branch = c, said'[i].phase = p, p # work'[c].phase
      PROVE  \E k \in DOMAIN said' : k > i /\ said'[k].kind = "phase_end" /\ said'[k].branch = c /\ said'[k].phase = p
  <2> HIDE DEF n
  <2>1. i \in DOMAIN said
    BY <1>1, <1>2, <1>4, <1>6
  <2>2. CASE p = work[c].phase
    <3>1. c = b /\ e.kind = "phase_end"
      BY <1>2, <1>3, <1>4, <1>6, <2>2
    <3> QED  BY <1>1, <1>2, <2>1, <2>2, <3>1
  <2>3. CASE p # work[c].phase
    <3>1. said[i].kind = "phase_start" /\ said[i].branch = c /\ said[i].phase = p
      BY <1>1, <1>6, <2>1
    <3>2. PICK k \in DOMAIN said : k > i /\ said[k].kind = "phase_end" /\ said[k].branch = c /\ said[k].phase = p
      BY <2>1, <2>3, <3>1 DEF IInv, PhaseTold, Of2
    <3> QED  BY <1>1, <3>2
  <2> QED  BY <2>2, <2>3
<1> QED  BY <1>5, <1>6 DEF PhaseTold, Of2

\* And the session.
LEMMA SessionKept ==
  ASSUME IInv, NEW b \in Branches, NEW e, Adds(b, e), Begins(b, e) \/ Finishes(b, e)
  PROVE  SessionTold'
<1> DEFINE n == Len(said) + 1
<1>1. n \in Nat /\ DOMAIN said' = DOMAIN said \cup {n} /\ said'[n] = e
      /\ \A i \in DOMAIN said : i \in Nat /\ i < n /\ said'[i] = said[i]
  BY Grown DEF IInv
<1>2. e.branch = b /\ (\A c \in Branches \ {b} : work'[c] = work[c])
  BY DEF Adds
<1>3. \/ e.kind \notin {"session_start", "session_end", "turn"} /\ work'[b].session = work[b].session
      \/ e.kind = "session_start" /\ work'[b].session
      \/ e.kind = "turn" /\ work'[b].session /\ work[b].session
      \/ e.kind = "session_end" /\ ~work'[b].session
  BY DEF Begins, Finishes
<1>4. ASSUME NEW c \in Branches, work'[c].session
      PROVE  \E s \in DOMAIN said' : /\ said'[s].kind = "session_start" /\ said'[s].branch = c
                                     /\ \A k \in DOMAIN said' : said'[k].kind = "session_end" /\ said'[k].branch = c => k < s
  <2> HIDE DEF n
  <2>1. CASE c = b /\ e.kind = "session_start"
    BY <2>1, <1>1, <1>2
  <2>2. CASE ~(c = b /\ e.kind = "session_start")
    <3>1. work[c].session /\ ~(c = b /\ e.kind = "session_end")
      BY <1>2, <1>3, <1>4, <2>2
    <3>2. PICK s \in DOMAIN said :
            /\ said[s].kind = "session_start" /\ said[s].branch = c
            /\ \A k \in DOMAIN said : said[k].kind = "session_end" /\ said[k].branch = c => k < s
      BY <3>1 DEF IInv, SessionTold
    <3> QED  BY <1>1, <1>2, <3>1, <3>2
  <2> QED  BY <2>1, <2>2
<1>5. ASSUME NEW c \in Branches, ~work'[c].session, NEW i \in DOMAIN said',
             said'[i].kind \in {"session_start", "turn"}, said'[i].branch = c
      PROVE  \E k \in DOMAIN said' : k > i /\ said'[k].kind = "session_end" /\ said'[k].branch = c
  <2> HIDE DEF n
  <2>1. i \in DOMAIN said
    BY <1>1, <1>2, <1>3, <1>5
  <2>2. CASE c = b /\ e.kind = "session_end"
    BY <1>1, <1>2, <2>1, <2>2
  <2>3. CASE ~(c = b /\ e.kind = "session_end")
    <3>1. ~work[c].session
      BY <1>2, <1>3, <1>5, <2>3
    <3>2. said[i].kind \in {"session_start", "turn"} /\ said[i].branch = c
      BY <1>1, <1>5, <2>1
    <3>3. PICK k \in DOMAIN said : k > i /\ said[k].kind = "session_end" /\ said[k].branch = c
      BY <2>1, <3>1, <3>2 DEF IInv, SessionTold
    <3> QED  BY <1>1, <3>3
  <2> QED  BY <2>2, <2>3
<1> QED  BY <1>4, <1>5 DEF SessionTold

\* Nothing is said, and nothing goes on, at first.
LEMMA InitHolds == ASSUME RecordInit PROVE IInv
<1>1. said = << >> /\ log = << >> /\ DOMAIN said = {} /\ DOMAIN log = {} /\ Len(said) = 0 /\ Len(log) = 0
  BY DEF RecordInit
<1>2. MaxAlone \in Nat
  BY BoundAssumption
<1>3. Kept
  <2>1. Arrived = {}
    BY <1>1 DEF Arrived
  <2> QED  BY <1>1, <1>2, <2>1, FS_EmptySet DEF Kept
<1>4. Idle \in Doing /\ Idle.phase = "none" /\ Idle.session = FALSE /\ Idle.wait = 0
  BY <1>2 DEF Idle, Doing
<1>5. work = [b \in Branches |-> Idle]
  BY DEF RecordInit
<1> HIDE DEF Idle
<1>6. Works /\ \A b \in Branches : work[b].phase = "none" /\ ~work[b].session /\ work[b].wait = 0
  BY <1>4, <1>5 DEF Works
<1>7. Named /\ Waiting /\ PhaseTold /\ SessionTold
  BY <1>1, <1>6 DEF Named, Waiting, PhaseTold, SessionTold
<1> QED  BY <1>3, <1>6, <1>7 DEF IInv

\* Every step keeps it.
LEMMA StepKeeps == ASSUME IInv, [RecordNext]_recordVars PROVE IInv'
<1>1. CASE RecordNext
  <2>1. Kept' /\ Works'
    BY <1>1, Step
  <2>2. CASE UNCHANGED <<said, work>>
    <3>1. Named' /\ Waiting' /\ PhaseTold' /\ SessionTold'
      BY <2>2 DEF IInv, Named, Waiting, PhaseTold, SessionTold, Of2
    <3> QED  BY <2>1, <3>1 DEF IInv
  <2>3. ASSUME NEW b \in Branches, NEW e, Adds(b, e), Begins(b, e) \/ Finishes(b, e)
        PROVE  IInv'
    BY <2>1, <2>3, NamedKept, WaitingKept, PhaseKept, SessionKept DEF IInv
  <2> QED  BY <1>1, <2>2, <2>3, Step
<1>2. CASE UNCHANGED recordVars
  <2>1. Arrived' = Arrived
    BY <1>2 DEF recordVars, Arrived
  <2> QED  BY <1>2, <2>1 DEF recordVars, IInv, Kept, Works, Named, Waiting, PhaseTold, SessionTold, Of2
<1> QED  BY <1>1, <1>2

\* It is so in every state.
LEMMA AlwaysTold == RecordSpec => []IInv
<1>1. RecordInit => IInv
  BY InitHolds
<1>2. IInv /\ [RecordNext]_recordVars => IInv'
  BY StepKeeps
<1> QED  BY <1>1, <1>2, PTL DEF RecordSpec

-----------------------------------------------------------------------------
(* What is read                                                            *)

\* The places that are read, and what is there.
LEMMA Places ==
  ASSUME Kept
  PROVE  /\ Len(said) \in Nat /\ DOMAIN said = 1 .. Len(said) /\ IsFiniteSet(DOMAIN said)
         /\ Arrived \subseteq DOMAIN said /\ DOMAIN said \subseteq Nat /\ 0 \notin DOMAIN said
         /\ \A i \in DOMAIN said : said[i] \in RecordEvent /\ said[i].branch \in Branches /\ said[i].phase \in FlowPhases
<1>1. said \in Seq(RecordEvent)
  BY DEF Kept
<1>2. Len(said) \in Nat /\ DOMAIN said = 1 .. Len(said) /\ \A i \in DOMAIN said : said[i] \in RecordEvent
  BY <1>1
<1>3. IsFiniteSet(1 .. Len(said))
  BY <1>2, FS_Interval
<1>4. \A i \in DOMAIN said : said[i].branch \in Branches /\ said[i].phase \in FlowPhases
  BY <1>2 DEF RecordEvent
<1>5. Arrived \subseteq DOMAIN said
  BY DEF Kept, Arrived
<1> QED  BY <1>2, <1>3, <1>4, <1>5

\* A request that hangs is among the waits.
LEMMA HeardOfIt == ASSUME IInv PROVE HangIsHeard
<1> SUFFICES ASSUME NEW b \in Branches, NEW w, w = work[b].wait, w \in Arrived
             PROVE  w \in OpenWaits
  BY DEF HangIsHeard
<1>1. Arrived \subseteq DOMAIN said /\ DOMAIN said \subseteq Nat /\ 0 \notin DOMAIN said
  BY Places DEF IInv
<1>2. /\ w \in Nat /\ said[w].kind = "request_start" /\ said[w].branch = b
      /\ \A e \in DOMAIN said : /\ said[e].kind = "request_end" => said[e].name # w
                                /\ said[e].kind = "session_end" /\ said[e].branch = b => e < w
  BY <1>1 DEF IInv, Waiting
<1>3. w \in Of("request_start")
  BY <1>2 DEF Of
<1>4. said[w].name = w /\ \A j \in Of("request_start") : said[j].name = j
  BY <1>1, <1>3 DEF IInv, Named, Of
<1>5. {j \in Of("request_start") : said[j].name = said[w].name} = {w}
  BY <1>3, <1>4
<1>6. w = Newest({j \in Of("request_start") : said[j].name = said[w].name})
  BY <1>2, <1>5, NewestOfOne
<1>7. said[w].name \notin {said[i].name : i \in Of("request_end")}
  BY <1>1, <1>2, <1>4 DEF Of
<1>8. ~spanIsOrphaned(w)
  BY <1>1, <1>2 DEF spanIsOrphaned, On, Of
<1> QED  BY <1>3, <1>6, <1>7, <1>8 DEF OpenWaits, openSpans

\* And one whose end is known is not.
LEMMA OverIsOver == ASSUME IInv PROVE OverIsNotJudged
<1> SUFFICES ASSUME NEW i \in OpenWaits, NEW e \in DOMAIN said, e > i, said[e].branch = said[i].branch,
                    said[e].name = i \/ said[e].kind = "session_end", e \notin Held
             PROVE  FALSE
  BY DEF OverIsNotJudged
<1>1. Arrived \subseteq DOMAIN said /\ DOMAIN said = 1 .. Len(said) /\ Len(said) \in Nat
  BY Places DEF IInv
<1>2. e \in Arrived
  BY DEF Held
<1>3. i \in Of("request_start") /\ said[i].name \notin {said[k].name : k \in Of("request_end")} /\ ~spanIsOrphaned(i)
  BY DEF OpenWaits, openSpans
<1>4. i \in DOMAIN said /\ said[i].name = i
  BY <1>1, <1>3 DEF Of, IInv, Named
<1>5. i \notin Branches
  BY <1>1, <1>4, BoundAssumption DEF IInv, Kept
<1>6. said[e].kind # "session_end"
  <2>1. said[e].kind = "session_end" => e \in On("session_end", said[i].branch)
    BY <1>2 DEF On, Of
  <2>2. e >= i
    BY <1>1, <1>4
  <2> QED  BY <1>3, <2>1, <2>2 DEF spanIsOrphaned
<1>7. said[e].name = i
  BY <1>6
<1>8. said[e].kind = "request_end"
  <2>1. e # i
    BY <1>1, <1>4
  <2> QED  BY <1>5, <1>7, <2>1 DEF IInv, Named
<1> QED  BY <1>2, <1>3, <1>4, <1>7, <1>8 DEF Of

\* A phase that is over is read as over, and a first lap as going on.
LEMMA LapsAreJudged == ASSUME IInv PROVE FirstLapIsJudged
<1>1. Arrived \subseteq DOMAIN said /\ DOMAIN said \subseteq Nat
      /\ \A i \in DOMAIN said : said[i].branch \in Branches /\ said[i].phase \in FlowPhases
  BY Places DEF IInv
<1>2. ASSUME NEW i \in Arrived, said[i].kind = "phase_start",
             \A j \in DOMAIN said : (said[j].branch = said[i].branch /\ said[j].phase = said[i].phase
                                       /\ said[j].kind \in {"phase_start", "phase_end"}) => j = i
      PROVE  i \in openPhases
  <2>1. In("phase_end", said[i].branch, said[i].phase) = {}
    BY <1>1, <1>2 DEF In, On, Of
  <2>2. In("phase_start", said[i].branch, said[i].phase) = {i}
    BY <1>1, <1>2 DEF In, On, Of
  <2>3. Min({i}) = i
    BY <1>1, NewestOfOne
  <2> QED  BY <1>2, <2>1, <2>2, <2>3 DEF openPhases, Of
<1>3. ASSUME NEW i \in openPhases, work[said[i].branch].phase # said[i].phase
      PROVE  \E e \in Held : e > i /\ said[e].kind = "phase_end"
  <2>1. i \in Arrived /\ said[i].kind = "phase_start" /\ In("phase_end", said[i].branch, said[i].phase) = {}
    BY DEF openPhases, Of
  <2>2. PICK e \in DOMAIN said : e > i /\ said[e].kind = "phase_end" /\ said[e].branch = said[i].branch /\ said[e].phase = said[i].phase
    BY <1>1, <1>3, <2>1 DEF IInv, PhaseTold, Of2
  <2>3. e \notin Arrived
    BY <2>1, <2>2 DEF In, On, Of
  <2> QED  BY <2>2, <2>3 DEF Held
<1> QED  BY <1>2, <1>3 DEF FirstLapIsJudged

\* No more turns, and no more laps, than there were.
LEMMA CountsAreUnder == ASSUME IInv PROVE NotOvercounted
<1>1. Arrived \subseteq DOMAIN said /\ DOMAIN said = 1 .. Len(said) /\ Len(said) \in Nat /\ IsFiniteSet(DOMAIN said)
  BY Places DEF IInv
<1>2. ASSUME NEW b \in Branches, \A i \in Held : said[i].kind \notin Marks
      PROVE  turnsPerSession(b) <= Cardinality({i \in DOMAIN said : said[i].branch = b /\ said[i].kind = "turn"
              /\ i > Newest({j \in DOMAIN said : said[j].branch = b /\ said[j].kind = "session_start"})})
  <2> DEFINE starts == {j \in DOMAIN said : said[j].branch = b /\ said[j].kind = "session_start"}
             new    == Newest(starts)
             read   == {i \in On("turn", b) : i >= new}
             taken  == {i \in DOMAIN said : said[i].branch = b /\ said[i].kind = "turn" /\ i > new}
  <2>1. \A j \in DOMAIN said : said[j].kind = "session_start" => j \in Arrived
    BY <1>2 DEF Held, Marks
  <2>2. On("session_start", b) = starts
    BY <1>1, <2>1 DEF On, Of
  <2>3. new \in Nat /\ (new # 0 => said[new].kind = "session_start")
    <3>1. starts \in SUBSET (1 .. Len(said))
      BY <1>1
    <3> HIDE DEF starts
    <3>2. starts = {} => new = 0
      BY <1>1, <3>1, NewestIs
    <3>3. starts # {} => new \in starts
      BY <1>1, <3>1, NewestIs
    <3> QED  BY <1>1, <3>1, <3>2, <3>3 DEF starts
  <2> HIDE DEF new
  <2>4. read \subseteq taken
    BY <1>1, <2>3 DEF On, Of
  <2>5. IsFiniteSet(taken)
    <3>1. taken \subseteq DOMAIN said
      OBVIOUS
    <3> HIDE DEF taken
    <3> QED  BY <1>1, <3>1, FS_Subset
  <2> HIDE DEF read, taken
  <2>6. Cardinality(read) <= Cardinality(taken) /\ Cardinality(taken) \in Nat
    BY <2>4, <2>5, FS_Subset, FS_CardinalityType
  <2>7. turnsPerSession(b) = 0 \/ turnsPerSession(b) = Cardinality(read)
    <3>1. Newest(On("session_start", b)) = new
      BY <2>2 DEF new
    <3> QED  BY <3>1 DEF turnsPerSession, read
  <2>8. turnsPerSession(b) <= Cardinality(taken)
    BY <2>6, <2>7
  <2> QED  BY <2>8 DEF taken, new
<1>3. ASSUME NEW b \in Branches, NEW p \in FlowPhases, \A i \in Held : said[i].phase # AttemptPhase
      PROVE  phaseStarts(b, p) <= Cardinality({i \in DOMAIN said :
              said[i].branch = b /\ said[i].kind = "phase_start" /\ said[i].phase = p
                /\ i > Newest({j \in DOMAIN said : said[j].branch = b /\ said[j].phase = AttemptPhase
                                                     /\ said[j].kind = "phase_start"})})
  <2> DEFINE starts == {j \in DOMAIN said : said[j].branch = b /\ said[j].phase = AttemptPhase
                                              /\ said[j].kind = "phase_start"}
             read   == {i \in In("phase_start", b, p) : i > Newest(starts)}
             begun  == {i \in DOMAIN said : said[i].branch = b /\ said[i].kind = "phase_start" /\ said[i].phase = p
                                              /\ i > Newest(starts)}
  <2>1. \A j \in DOMAIN said : said[j].phase = AttemptPhase => j \in Arrived
    BY <1>3 DEF Held
  <2>2. In("phase_start", b, AttemptPhase) = starts
    BY <1>1, <2>1 DEF In, On, Of
  <2> HIDE DEF starts
  <2>3. read \subseteq begun /\ begun \subseteq DOMAIN said
    BY <1>1 DEF In, On, Of
  <2>4. phaseStarts(b, p) = Cardinality(read)
    BY <2>2 DEF phaseStarts
  <2> HIDE DEF read, begun
  <2>5. IsFiniteSet(begun)
    BY <1>1, <2>3, FS_Subset
  <2>6. Cardinality(read) <= Cardinality(begun)
    BY <2>3, <2>5, FS_Subset
  <2> QED  BY <2>4, <2>6 DEF begun, starts
<1> QED  BY <1>2, <1>3 DEF NotOvercounted

\* With everything here and in its order, an id is a place.
LEMMA IdIsPlace ==
  ASSUME IInv, ArrivedInOrder, Held = {}
  PROVE  /\ Arrived = DOMAIN said
         /\ \A is \in SUBSET DOMAIN said : Latest(is) = Newest(is)
<1>1. Arrived \subseteq DOMAIN said
  BY Places DEF IInv
<1>2. Arrived = DOMAIN said
  BY <1>1 DEF Held
<1>3. DOMAIN log = Arrived
  BY DEF ArrivedInOrder, Arrived
<1>4. \A i \in DOMAIN said : IdOf(i) = i
  BY <1>2, <1>3 DEF IdOf, ArrivedInOrder
<1>5. ASSUME NEW is \in SUBSET DOMAIN said  PROVE Latest(is) = Newest(is)
  <2>1. {IdOf(i) : i \in is} = is
    BY <1>4
  <2> QED  BY <2>1 DEF Latest, Newest
<1> QED  BY <1>2, <1>5

\* The phases in the report are those that are going on.
LEMMA PhasesAreShown ==
  ASSUME IInv, ArrivedInOrder, Held = {}
  PROVE  {[branch |-> c.branch, phase |-> c.phase] : c \in currentPhases}
           = {[branch |-> b, phase |-> work[b].phase] : b \in {x \in Branches : work[x].phase # "none"}}
<1>1. Arrived = DOMAIN said /\ \A is \in SUBSET DOMAIN said : Latest(is) = Newest(is)
  BY IdIsPlace
<1>2. DOMAIN said = 1 .. Len(said) /\ Len(said) \in Nat
  BY Places DEF IInv
<1>3. "none" \notin FlowPhases
  BY PhasesAssumption
<1>4. ASSUME NEW b \in Branches, NEW p \in FlowPhases
      PROVE  Latest(In("phase_start", b, p)) > Latest(In("phase_end", b, p)) <=> work[b].phase = p
  <2> DEFINE S == In("phase_start", b, p)
             E == In("phase_end", b, p)
  <2>1. /\ S \in SUBSET DOMAIN said /\ \A i \in DOMAIN said : i \in S <=> Of2(i, "phase_start", b, p)
        /\ E \in SUBSET DOMAIN said /\ \A i \in DOMAIN said : i \in E <=> Of2(i, "phase_end", b, p)
    BY <1>1 DEF In, On, Of, Of2
  <2> HIDE DEF S, E
  <2>2. Latest(S) = Newest(S) /\ Latest(E) = Newest(E)
    BY <1>1, <2>1
  <2>3. (S = {} => Newest(S) = 0) /\ (S # {} => Newest(S) \in S) /\ \A y \in S : Newest(S) >= y
    BY <1>2, <2>1, NewestIs
  <2>4. (E = {} => Newest(E) = 0) /\ (E # {} => Newest(E) \in E) /\ \A y \in E : Newest(E) >= y
    BY <1>2, <2>1, NewestIs
  <2>5. Newest(S) \in 0 .. Len(said) /\ Newest(E) \in 0 .. Len(said)
    BY <1>2, <2>1, <2>3, <2>4
  <2>6. ASSUME work[b].phase = p  PROVE Newest(S) > Newest(E)
    <3>1. PICK s \in DOMAIN said : /\ Of2(s, "phase_start", b, p)
                                   /\ \A e \in DOMAIN said : Of2(e, "phase_end", b, p) => e < s
      BY <1>3, <2>6 DEF IInv, PhaseTold
    <3>2. Newest(S) >= s
      BY <2>1, <2>3, <3>1
    <3>3. Newest(E) < s
      BY <1>2, <2>1, <2>4, <3>1
    <3> QED  BY <1>2, <2>5, <3>2, <3>3
  <2>7. ASSUME work[b].phase # p  PROVE ~(Newest(S) > Newest(E))
    <3>1. CASE S = {}
      BY <2>3, <2>5, <3>1
    <3>2. CASE S # {}
      <4>1. Newest(S) \in DOMAIN said /\ Of2(Newest(S), "phase_start", b, p)
        BY <2>1, <2>3, <3>2
      <4>2. PICK e \in DOMAIN said : e > Newest(S) /\ Of2(e, "phase_end", b, p)
        BY <2>7, <4>1 DEF IInv, PhaseTold
      <4>3. Newest(E) >= e
        BY <2>1, <2>4, <4>2
      <4> QED  BY <1>2, <2>5, <4>2, <4>3
    <3> QED  BY <3>1, <3>2
  <2>8. Newest(S) > Newest(E) <=> work[b].phase = p
    BY <2>6, <2>7
  <2> QED  BY <2>2, <2>8 DEF S, E
<1> DEFINE shown == {x \in Branches \X FlowPhases :
                       Latest(In("phase_start", x[1], x[2])) > Latest(In("phase_end", x[1], x[2]))}
<1>5. \A b \in Branches : work[b].phase \in FlowPhases \cup {"none"}
  BY DEF IInv, Works, Doing
<1>6. ASSUME NEW c \in currentPhases
      PROVE  \E b \in Branches : work[b].phase # "none"
               /\ [branch |-> c.branch, phase |-> c.phase] = [branch |-> b, phase |-> work[b].phase]
  <2>1. PICK bp \in shown : c = [branch |-> bp[1], phase |-> bp[2], lap |-> Cardinality(In("phase_start", bp[1], bp[2]))]
    BY DEF currentPhases
  <2>2. c.branch = bp[1] /\ c.phase = bp[2] /\ bp[1] \in Branches /\ bp[2] \in FlowPhases
        /\ Latest(In("phase_start", bp[1], bp[2])) > Latest(In("phase_end", bp[1], bp[2]))
    BY <2>1
  <2>3. work[bp[1]].phase = bp[2]
    BY <1>4, <2>2
  <2> QED  BY <1>3, <2>2, <2>3
<1>7. ASSUME NEW b \in Branches, work[b].phase # "none"
      PROVE  \E c \in currentPhases :
               [branch |-> c.branch, phase |-> c.phase] = [branch |-> b, phase |-> work[b].phase]
  <2> DEFINE p == work[b].phase
             c == [branch |-> b, phase |-> p, lap |-> Cardinality(In("phase_start", b, p))]
  <2>1. p \in FlowPhases
    BY <1>5, <1>7
  <2>2. <<b, p>> \in shown
    BY <1>4, <2>1
  <2>3. c \in currentPhases
    BY <2>2 DEF currentPhases
  <2> QED  BY <2>3
<1> DEFINE read  == {[branch |-> c.branch, phase |-> c.phase] : c \in currentPhases}
           going == {[branch |-> b, phase |-> work[b].phase] : b \in {x \in Branches : work[x].phase # "none"}}
<1>8. \A x \in read : x \in going
  BY <1>6, Zenon
<1>9. \A x \in going : x \in read
  BY <1>7, Zenon
<1> HIDE DEF read, going
<1>10. read = going
  BY <1>8, <1>9
<1> QED  BY <1>10 DEF read, going

\* The turns in the report are those of the session that is open.
LEMMA TurnsAreShown ==
  ASSUME IInv, ArrivedInOrder, Held = {}, NEW b \in Branches
  PROVE  turnsPerSession(b) =
         IF work[b].session THEN Cardinality({i \in DOMAIN said :
              said[i].branch = b /\ said[i].kind = "turn"
                /\ \A j \in i .. Len(said) : ~(said[j].branch = b /\ said[j].kind = "session_start")})
         ELSE 0
<1> DEFINE S    == On("session_start", b)
           new  == Newest(S)
           read == {i \in On("turn", b) : i >= new}
<1>1. Arrived = DOMAIN said /\ DOMAIN said = 1 .. Len(said) /\ Len(said) \in Nat
  BY IdIsPlace, Places DEF IInv
<1>2. S \in SUBSET (1 .. Len(said)) /\ \A i \in DOMAIN said : i \in S <=> said[i].kind = "session_start" /\ said[i].branch = b
  BY <1>1 DEF On, Of
<1>3. \A i : i \in On("session_end", b) <=> i \in DOMAIN said /\ said[i].kind = "session_end" /\ said[i].branch = b
  BY <1>1 DEF On, Of
<1>4. turnsPerSession(b) = IF \E e \in On("session_end", b) : e >= new THEN 0 ELSE Cardinality(read)
  BY DEF turnsPerSession
<1> HIDE DEF S
<1>5. (S = {} => new = 0) /\ (S # {} => new \in S) /\ \A y \in S : new >= y
  BY <1>1, <1>2, NewestIs
<1> HIDE DEF new
<1>6. new \in 0 .. Len(said) /\ (new # 0 => new \in S)
  <2>1. new = 0 \/ new \in S
    BY <1>5
  <2>2. \A y \in S : y \in 1 .. Len(said)
    BY <1>2
  <2>3. new = 0 \/ new \in 1 .. Len(said)
    BY <2>1, <2>2
  <2> QED  BY <1>1, <2>1, <2>3
<1>7. CASE work[b].session
  <2> DEFINE taken == {i \in DOMAIN said : said[i].branch = b /\ said[i].kind = "turn"
                         /\ \A j \in i .. Len(said) : ~(said[j].branch = b /\ said[j].kind = "session_start")}
  <2>1. PICK s \in DOMAIN said : /\ said[s].kind = "session_start" /\ said[s].branch = b
                                 /\ \A e \in DOMAIN said : said[e].kind = "session_end" /\ said[e].branch = b => e < s
    BY <1>7 DEF IInv, SessionTold
  <2>2. new >= s
    BY <1>2, <1>5, <2>1
  <2>3. \A e \in On("session_end", b) : ~(e >= new)
    BY <1>1, <1>3, <1>6, <2>1, <2>2
  <2>4. \A i \in read : i \in taken
    <3> SUFFICES ASSUME NEW i \in read, NEW j \in i .. Len(said), said[j].branch = b, said[j].kind = "session_start"
                 PROVE  FALSE
      BY <1>1 DEF On, Of
    <3>1. i \in DOMAIN said /\ said[i].kind = "turn" /\ i >= new
      BY <1>1 DEF On, Of
    <3>2. j \in S
      BY <1>1, <1>2, <3>1
    <3> QED  BY <1>1, <1>5, <1>6, <3>1, <3>2
  <2>5. \A i \in taken : i \in read
    <3> SUFFICES ASSUME NEW i \in taken  PROVE i >= new
      BY <1>1 DEF On, Of
    <3>1. new \in i .. Len(said) => ~(said[new].branch = b /\ said[new].kind = "session_start")
      OBVIOUS
    <3>2. i \in 1 .. Len(said)
      BY <1>1
    <3> QED  BY <1>1, <1>2, <1>6, <3>1, <3>2
  <2> HIDE DEF read, taken
  <2>6. read = taken
    BY <2>4, <2>5
  <2> QED  BY <1>4, <1>7, <2>3, <2>6 DEF taken
<1>8. CASE ~work[b].session
  <2>1. \A i \in DOMAIN said : said[i].kind \in {"session_start", "turn"} /\ said[i].branch = b =>
           \E e \in DOMAIN said : e > i /\ said[e].kind = "session_end" /\ said[e].branch = b
    BY <1>8 DEF IInv, SessionTold
  <2>2. CASE \E e \in On("session_end", b) : e >= new
    BY <1>4, <1>8, <2>2
  <2>3. CASE ~\E e \in On("session_end", b) : e >= new
    <3>1. new = 0
      BY <1>1, <1>2, <1>3, <1>6, <2>1, <2>3
    <3>2. \A i \in DOMAIN said : said[i].kind = "turn" => said[i].branch # b
      BY <1>1, <1>3, <2>1, <2>3, <3>1
    <3>3. read = {}
      BY <1>1, <3>2 DEF On, Of
    <3>4. Cardinality(read) = 0
      BY <3>3, FS_EmptySet
    <3> QED  BY <1>4, <1>8, <2>3, <3>4
  <2> QED  BY <2>2, <2>3
<1> QED  BY <1>7, <1>8

\* What is in the record is of its kind.
LEMMA TypesHold == ASSUME IInv PROVE RecordTypeOK
<1>1. \A i \in DOMAIN said : said[i] \in RecordEvent
  BY Places DEF IInv
<1> QED  BY <1>1 DEF RecordTypeOK, IInv, Kept, Works, Doing, Arrived

-----------------------------------------------------------------------------
(* Theorems                                                                *)

\* Whatever arrives and in what order, no count is more than what happened,
\* and a first lap is judged from its beginning to its end (openPhases,
\* phaseStarts, turnsPerSession).
THEOREM RecordHolds == RecordSpec => []RecordInv
<1>1. IInv => RecordInv
  BY TypesHold, CountsAreUnder, LapsAreJudged DEF RecordInv
<1> QED  BY <1>1, AlwaysTold, PTL

\* A request that hangs is heard of (openSpans and spanIsOrphaned).
THEOREM HangIsAlwaysHeard == RecordSpec => []HangIsHeard
<1>1. IInv => HangIsHeard
  BY HeardOfIt
<1> QED  BY <1>1, AlwaysTold, PTL

\* A request that is over, and is known to be, is not under its limit
\* (openSpans and spanIsOrphaned).
THEOREM OverIsNeverJudged == RecordSpec => []OverIsNotJudged
<1>1. IInv => OverIsNotJudged
  BY OverIsOver
<1> QED  BY <1>1, AlwaysTold, PTL

\* With nothing on the wire the report shows what goes on (currentPhases,
\* turnsPerSession).
THEOREM ReportIsTrue == RecordSpec => []ReportedAsItIs
<1>1. IInv => ReportedAsItIs
  BY PhasesAreShown, TurnsAreShown DEF ReportedAsItIs
<1> QED  BY <1>1, AlwaysTold, PTL
=============================================================================
