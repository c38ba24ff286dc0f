------------------------ MODULE AmmitFrontierProofs ------------------------
(***************************************************************************)
(* Proofs about where a dropped run is resumed, for any flow that is       *)
(* written as flows are and any number of branches: wherever on their way  *)
(* the branches are, however often gates were red, what the events say of  *)
(* each phase is enough to find the phase to start again at.               *)
(***************************************************************************)
EXTENDS AmmitFrontier, FiniteSetTheorems, WellFoundedInduction, TLAPS

-----------------------------------------------------------------------------
(* What is invariant: what the events say of where the branches are        *)

\* A branch that is at a phase is at one the runner takes, and they are all at
\* one that is not fanned out.
Blank == ""
Ins(i) == {b \in Branches : doing[b] = "in" /\ at[b] = i}
Recs == [starts : 0 .. MaxStarts, ends : Nat, failed : BOOLEAN, verdicts : [Places -> Verdicts \cup {Blank}]]
Typed ==
  /\ flow \in Flows /\ replay \in {0} \cup Forward
  /\ rec \in [DOMAIN flow -> Recs]
  /\ at \in [Branches -> 1 .. Len(flow) + 1] /\ doing \in [Branches -> {"next", "in", "over"}]
  /\ red \in [Branches -> 0 .. Len(flow)]
Counted ==
  \A i \in DOMAIN flow :
    rec[i].starts - rec[i].ends = IF flow[i].fan THEN Cardinality(Ins(i)) ELSE IF Ins(i) = {} THEN 0 ELSE 1
Busy ==
  \A b \in Branches : doing[b] # "next" =>
    /\ at[b] \in Runnable
    /\ ~flow[at[b]].fan => \A c \in Branches : at[c] = at[b] /\ doing[c] = doing[b]

\* A branch that is in a repair was sent to it by its gate.
Repairs ==
  \A b \in Branches : doing[b] # "next" /\ flow[at[b]].only_if = "red" =>
    red[b] # 0 /\ flow[at[b]].loops_to = flow[red[b]].id

\* The gate that sent a branch to a repair is behind it, with its repair before
\* it, and is not green for as long; one for all has sent them all.
RedTold ==
  \A b \in Branches : red[b] # 0 =>
    /\ red[b] \in Runnable /\ flow[red[b]].only_if # "red" /\ red[b] < at[b]
    /\ rec[red[b]].verdicts[IF flow[red[b]].fan THEN b ELSE Trunk] \in {"red", "blocked"}
    /\ \E k \in Runnable : flow[k].loops_to = flow[red[b]].id /\ at[b] <= k
    /\ ~flow[red[b]].fan => \A c \in Branches : red[c] = red[b] /\ at[c] = at[b]

\* A phase for all that was judged green is behind them all, and stays so.
Green ==
  \A i \in DOMAIN flow : ~flow[i].fan =>
    /\ \A b \in Branches : rec[i].verdicts[b] = Blank
    /\ rec[i].verdicts[Trunk] = "green" /\ flow[i].only_if # "red" =>
         \A b \in Branches : i < at[b] /\ (red[b] # 0 => i < red[b])

\* Every phase that nobody has to ask for was begun by who is past it, or in
\* one that comes after it.
Own(j) == j \in Forward /\ replay <= j /\ flow[j].only_if = Blank
Begun ==
  \A b \in Branches : \A j \in DOMAIN flow :
    Own(j) /\ (j < at[b] \/ (j = at[b] /\ doing[b] # "next")) => rec[j].starts > 0
Reached ==
  \A i \in Forward : \A j \in DOMAIN flow : rec[i].starts > 0 /\ Own(j) /\ j < i => rec[j].starts > 0


\* Nobody is told of a phase that was not begun, or in one.
Untold ==
  /\ \A b \in Branches : doing[b] # "next" => rec[at[b]].starts > 0
  /\ \A i \in DOMAIN flow : rec[i].starts = 0 => \A w \in Places : rec[i].verdicts[w] = Blank

IInv == Typed /\ Counted /\ Busy /\ Repairs /\ RedTold /\ Green /\ Begun /\ Reached /\ Untold

-----------------------------------------------------------------------------
(* Sets of places                                                          *)

\* A set of numbers that is not empty has a least.
LEMMA HasLeast ==
  ASSUME NEW S \in SUBSET Nat, S # {}
  PROVE  \E x \in S : \A y \in S : x <= y
<1> DEFINE R == OpToRel(<, Nat)
<1>1. IsWellFoundedOn(R, Nat)
  BY NatLessThanWellFounded
<1>2. PICK x \in S : \A y \in S : ~(<<y, x>> \in R)
  <2> HIDE DEF R
  <2> QED  BY <1>1, WFMin, Zenon
<1>3. \A y \in S : y < x => <<y, x>> \in R
  BY DEF OpToRel
<1>4. \A y \in S : ~(y < x)
  <2> HIDE DEF R
  <2> QED  BY <1>2, <1>3
<1>5. x \in Nat /\ \A y \in S : y \in Nat
  OBVIOUS
<1> QED  BY <1>4, <1>5

\* And one that is bounded has a greatest.
LEMMA HasGreatest ==
  ASSUME NEW n \in Nat, NEW S \in SUBSET (1 .. n), S # {}
  PROVE  \E x \in S : \A y \in S : x >= y
<1> DEFINE T == {m \in Nat : \A y \in S : y <= m}
<1>1. n \in T
  OBVIOUS
<1>2. PICK m \in T : \A k \in T : m <= k
  BY <1>1, HasLeast
<1>3. m \in S
  <2> SUFFICES ASSUME m \notin S  PROVE FALSE
    OBVIOUS
  <2>1. \A y \in S : y < m
    BY <1>2
  <2>2. m # 0
    <3>1. PICK y \in S : TRUE
      OBVIOUS
    <3> QED  BY <2>1, <3>1
  <2>3. m - 1 \in T
    BY <2>1, <2>2
  <2> QED  BY <2>3, <1>2
<1> QED  BY <1>2, <1>3

\* Min and Max are what they are called.
LEMMA MinIs ==
  ASSUME NEW S \in SUBSET Nat, S # {}
  PROVE  Min(S) \in S /\ \A y \in S : Min(S) <= y
<1>1. \E x \in S : \A y \in S : x <= y
  BY HasLeast
<1> QED  BY <1>1 DEF Min
LEMMA MaxIs ==
  ASSUME NEW n \in Nat, NEW S \in SUBSET (0 .. n), 0 \in S
  PROVE  Max(S) \in S /\ \A y \in S : Max(S) >= y
<1>1. \E x \in S : \A y \in S : x >= y
  <2> DEFINE T == {x \in 1 .. n : x \in S}
  <2>1. \A y \in S : y = 0 \/ y \in T
    OBVIOUS
  <2>2. CASE T = {}
    BY <2>1, <2>2
  <2>3. CASE T # {}
    <3>1. T \in SUBSET (1 .. n)
      OBVIOUS
    <3>2. PICK x \in T : \A y \in T : x >= y
      BY <2>3, <3>1, HasGreatest
    <3>3. x \in S /\ x >= 0
      OBVIOUS
    <3> QED  BY <2>1, <3>2, <3>3
  <2> QED  BY <2>2, <2>3
<1> QED  BY <1>1 DEF Max

-----------------------------------------------------------------------------
(* Flows                                                                   *)

\* Places of a flow, and what is there.
LEMMA FlowIs ==
  ASSUME flow \in Flows
  PROVE  /\ Len(flow) \in Nat /\ DOMAIN flow = 1 .. Len(flow)
         /\ Runnable \subseteq DOMAIN flow /\ Runnable # {}
         /\ \A i \in DOMAIN flow : /\ flow[i] \in Phase /\ flow[i].fan \in BOOLEAN
                                   /\ flow[i].only_if \in {"", "red", "asked"}
<1>1. WellFormed(flow)
  BY FlowsAssumption
<1>2. flow \in Seq(Phase) /\ \E i \in DOMAIN flow : flow[i].agents
  BY <1>1 DEF WellFormed
<1>3. Len(flow) \in Nat /\ DOMAIN flow = 1 .. Len(flow) /\ \A i \in DOMAIN flow : flow[i] \in Phase
  BY <1>2
<1>4. \A i \in DOMAIN flow : flow[i].fan \in BOOLEAN /\ flow[i].only_if \in {"", "red", "asked"}
  BY <1>3 DEF Phase
<1>5. Runnable \subseteq DOMAIN flow /\ Runnable # {}
  BY <1>2 DEF Runnable
<1> QED  BY <1>3, <1>4, <1>5

\* What loops back is a repair; it follows its one gate, which is none.
LEMMA GateIs ==
  ASSUME flow \in Flows, NEW k \in DOMAIN flow, NEW g \in DOMAIN flow, flow[k].loops_to = flow[g].id
  PROVE  /\ flow[k].only_if = "red" /\ g < k /\ g \in Runnable /\ flow[g].only_if # "red"
         /\ \A j \in g .. k : flow[j].fan = flow[g].fan
<1>1. WellFormed(flow) /\ DOMAIN flow = 1 .. Len(flow) /\ Len(flow) \in Nat
  BY FlowsAssumption, FlowIs
<1>2. flow[k].only_if = "red"
  BY <1>1 DEF WellFormed
<1>3. PICK h \in 1 .. k - 1 :
        /\ flow[h].id = flow[k].loops_to /\ flow[h].agents /\ flow[h].only_if # "red"
        /\ \A j \in h .. k : flow[j].fan = flow[h].fan
  BY <1>1, <1>2 DEF WellFormed
<1>4. h \in DOMAIN flow /\ h < k
  BY <1>1
<1>5. h = g
  <2>1. \A i, j \in DOMAIN flow : flow[i].id = flow[j].id => i = j
    BY <1>1 DEF WellFormed
  <2>2. flow[h].id = flow[g].id
    BY <1>3
  <2> QED  BY <1>4, <2>1, <2>2
<1> QED  BY <1>2, <1>3, <1>4, <1>5 DEF Runnable

\* Every repair has one.
LEMMA HasGate ==
  ASSUME flow \in Flows, NEW k \in DOMAIN flow, flow[k].only_if = "red"
  PROVE  \E g \in DOMAIN flow : flow[k].loops_to = flow[g].id
<1>1. WellFormed(flow) /\ DOMAIN flow = 1 .. Len(flow) /\ Len(flow) \in Nat
  BY FlowsAssumption, FlowIs
<1>2. PICK g \in 1 .. k - 1 : flow[g].id = flow[k].loops_to
  BY <1>1 DEF WellFormed
<1>3. g \in DOMAIN flow
  BY <1>1
<1> QED  BY <1>2, <1>3

\* A phase is forward when it is no repair.
LEMMA ForwardIs ==
  ASSUME flow \in Flows
  PROVE  /\ \A i \in DOMAIN flow : forwardPhase(i) <=> flow[i].only_if # "red"
         /\ Forward = {i \in Runnable : flow[i].only_if # "red"} /\ Forward \subseteq DOMAIN flow
<1>1. DOMAIN flow = 1 .. Len(flow) /\ Len(flow) \in Nat /\ Runnable \subseteq DOMAIN flow
  BY FlowIs
<1>2. ASSUME NEW i \in DOMAIN flow, flow[i].only_if # "red"  PROVE forwardPhase(i)
  <2>1. \A j \in DOMAIN flow : flow[i].loops_to # flow[j].id
    BY <1>2, GateIs
  <2> QED  BY <1>1, <1>2, <2>1 DEF forwardPhase
<1>3. \A i \in DOMAIN flow : forwardPhase(i) <=> flow[i].only_if # "red"
  BY <1>2 DEF forwardPhase
<1> QED  BY <1>1, <1>3 DEF Forward

\* The first phase there is is forward.
LEMMA FirstIsForward == ASSUME flow \in Flows PROVE First(Runnable) \in Forward
<1>1. DOMAIN flow = 1 .. Len(flow) /\ Len(flow) \in Nat /\ Runnable \subseteq DOMAIN flow /\ Runnable # {}
  BY FlowIs
<1> DEFINE i == Min(Runnable)
<1>2. i \in Runnable /\ \A j \in Runnable : i <= j
  BY <1>1, MinIs
<1> HIDE DEF i
<1>3. flow[i].only_if # "red"
  <2> SUFFICES ASSUME flow[i].only_if = "red"  PROVE FALSE
    OBVIOUS
  <2>1. PICK g \in DOMAIN flow : flow[i].loops_to = flow[g].id
    BY <1>1, <1>2, HasGate
  <2>2. g < i /\ g \in Runnable
    BY <1>1, <1>2, <2>1, GateIs
  <2> QED  BY <1>1, <1>2, <2>2
<1>4. i \in Forward
  BY <1>2, <1>3, ForwardIs
<1> QED  BY <1>1, <1>4 DEF First, i

\* The gate of a repair is the one of its name.
LEMMA IndexIs ==
  ASSUME flow \in Flows, NEW g \in Runnable
  PROVE  IndexOf(flow[g].id) = g
<1>1. DOMAIN flow = 1 .. Len(flow) /\ Len(flow) \in Nat /\ Runnable \subseteq DOMAIN flow /\ WellFormed(flow)
  BY FlowIs, FlowsAssumption
<1>2. {i \in Runnable : flow[i].id = flow[g].id} = {g}
  BY <1>1 DEF WellFormed
<1>3. Min({g}) \in {g}
  <2>1. {g} \in SUBSET Nat /\ {g} # {}
    BY <1>1
  <2> QED  BY <2>1, MinIs
<1> QED  BY <1>2, <1>3 DEF IndexOf, First

-----------------------------------------------------------------------------
(* The readings                                                            *)

\* The furthest phase has begun, and none after it.
LEMMA FurthestIs ==
  ASSUME Typed
  PROVE  /\ Furthest \in Nat /\ (Furthest # 0 => Furthest \in Forward /\ rec[Furthest].starts > 0)
         /\ \A i \in Forward : rec[i].starts > 0 => i <= Furthest
<1>1. DOMAIN flow = 1 .. Len(flow) /\ Len(flow) \in Nat /\ Forward \subseteq DOMAIN flow
  BY FlowIs, ForwardIs DEF Typed
<1> DEFINE S == {0} \cup {i \in Forward : rec[i].starts > 0}
<1>2. S \in SUBSET (0 .. Len(flow)) /\ 0 \in S
  BY <1>1
<1>3. Max(S) \in S /\ \A y \in S : Max(S) >= y
  <2> HIDE DEF S
  <2> QED  BY <1>1, <1>2, MaxIs
<1>4. Furthest = Max(S)
  BY DEF Furthest
<1>5. Furthest \in S /\ \A y \in S : Furthest >= y
  BY <1>3, <1>4
<1> HIDE DEF Furthest
<1>6. \A i \in Forward : rec[i].starts > 0 => i <= Furthest
  BY <1>1, <1>5
<1> QED  BY <1>1, <1>5, <1>6

\* What is broken is started again at a phase that is forward, and no later.
LEMMA StartedIs ==
  ASSUME Typed, NEW k \in Broken
  PROVE  StartedAt(k) \in Forward /\ StartedAt(k) <= k
         /\ \/ StartedAt(k) = k
            \/ CutOff(k) /\ k \in Runnable /\ flow[k].only_if = "red" /\ flow[StartedAt(k)].id = flow[k].loops_to
<1>1. DOMAIN flow = 1 .. Len(flow) /\ Len(flow) \in Nat /\ Runnable \subseteq DOMAIN flow /\ WellFormed(flow) /\ flow \in Flows
  BY FlowIs, FlowsAssumption DEF Typed
<1>2. k \in Runnable /\ k \in DOMAIN flow /\ k \in Nat /\ (CutOff(k) \/ LeftOut(k))
  BY <1>1 DEF Broken
<1>3. forwardPhase(k) <=> flow[k].only_if # "red"
  BY <1>1, <1>2, ForwardIs
<1>4. CASE flow[k].only_if # "red"
  <2>1. k \in Forward /\ StartedAt(k) = k
    BY <1>2, <1>3, <1>4 DEF Forward, StartedAt
  <2> QED  BY <1>2, <2>1
<1>5. CASE flow[k].only_if = "red"
  <2>1. CutOff(k)
    BY <1>2, <1>5 DEF LeftOut
  <2>2. PICK g \in DOMAIN flow : flow[k].loops_to = flow[g].id
    BY <1>1, <1>2, <1>5, HasGate
  <2>3. g < k /\ g \in Runnable /\ flow[g].only_if # "red"
    BY <1>1, <1>2, <2>2, GateIs
  <2>4. flow[g].id # ""
    BY <1>1, <2>2 DEF WellFormed
  <2>5. StartedAt(k) = IndexOf(flow[g].id)
    BY <1>3, <1>5, <2>1, <2>2, <2>4 DEF StartedAt
  <2>6. StartedAt(k) = g
    BY <1>1, <2>3, <2>5, IndexIs
  <2>7. g \in Forward
    BY <1>1, <2>3, ForwardIs
  <2> QED  BY <1>1, <1>2, <1>5, <2>1, <2>2, <2>3, <2>6, <2>7
<1> QED  BY <1>4, <1>5

\* The frontier is a forward phase or none, and going again starts at one.
LEMMA FrontIs ==
  ASSUME Typed
  PROVE  /\ frontierFrom \in Forward \cup {0} /\ redoFrom \in Forward
         /\ Furthest # 0 /\ Broken # {} =>
              \E k \in Broken : frontierFrom = StartedAt(k) /\ \A i \in Broken : k <= i
         /\ Furthest # 0 /\ Broken = {} /\ succeeded(Furthest) =>
              \/ frontierFrom = 0 /\ \A i \in Forward : i <= Furthest
              \/ frontierFrom > Furthest
<1>1. /\ DOMAIN flow = 1 .. Len(flow) /\ Len(flow) \in Nat /\ Runnable \subseteq DOMAIN flow /\ Forward \subseteq DOMAIN flow
      /\ First(Runnable) \in Forward /\ replay \in {0} \cup Forward /\ 0 \notin Forward
  <2>1. flow \in Flows /\ replay \in {0} \cup Forward
    BY DEF Typed
  <2>2. DOMAIN flow = 1 .. Len(flow) /\ Len(flow) \in Nat /\ Runnable \subseteq DOMAIN flow
    BY <2>1, FlowIs
  <2>3. Forward \subseteq DOMAIN flow /\ First(Runnable) \in Forward
    BY <2>1, ForwardIs, FirstIsForward
  <2> QED  BY <2>1, <2>2, <2>3
<1>2. Furthest \in Nat /\ (Furthest # 0 => Furthest \in Forward)
  BY FurthestIs
<1>3. \A S \in SUBSET Forward : (S # {} => Min(S) \in S) /\ First(S) \in S \cup {0} /\ (First(S) = 0 => S = {})
  <2> SUFFICES ASSUME NEW S \in SUBSET Forward
               PROVE  (S # {} => Min(S) \in S) /\ First(S) \in S \cup {0} /\ (First(S) = 0 => S = {})
    OBVIOUS
  <2>1. S \in SUBSET Nat
    BY <1>1
  <2>2. S # {} => Min(S) \in S
    BY <2>1, MinIs
  <2> QED  BY <1>1, <2>2 DEF First
<1>4. Broken # {} => Min(Broken) \in Broken /\ \A i \in Broken : Min(Broken) <= i
  <2>1. Broken \in SUBSET Nat
    BY <1>1 DEF Broken
  <2> QED  BY <2>1, MinIs
<1>5. redoFrom \in Forward
  <2> DEFINE start == IF replay # 0 THEN replay ELSE First(Runnable)
             again == {i \in Forward : i >= start /\ rec[i].starts > 0 /\ rec[i].failed}
  <2>1. start \in Forward
    BY <1>1
  <2>2. again # {} => Min(again) \in Forward
    BY <1>3
  <2>3. redoFrom = IF again # {} THEN Min(again) ELSE start
    BY DEF redoFrom
  <2> QED  BY <2>1, <2>2, <2>3
<1>6. CASE Furthest = 0
  <2>1. frontierFrom = IF replay # 0 THEN replay ELSE First(Runnable)
    BY <1>6 DEF frontierFrom
  <2> QED  BY <1>1, <1>5, <1>6, <2>1
<1>7. CASE Furthest # 0 /\ Broken # {}
  <2>1. frontierFrom = StartedAt(Min(Broken))
    BY <1>7 DEF frontierFrom
  <2>2. StartedAt(Min(Broken)) \in Forward
    BY <1>4, <1>7, StartedIs
  <2> QED  BY <1>4, <1>5, <1>7, <2>1, <2>2
<1>8. CASE Furthest # 0 /\ Broken = {} /\ ~succeeded(Furthest)
  BY <1>2, <1>5, <1>8 DEF frontierFrom
<1>9. CASE Furthest # 0 /\ Broken = {} /\ succeeded(Furthest)
  <2> DEFINE S == {i \in Forward : i > Furthest}
  <2>1. frontierFrom = First(S)
    BY <1>9 DEF frontierFrom
  <2>2. First(S) \in S \cup {0} /\ (First(S) = 0 => S = {})
    BY <1>3
  <2>3. First(S) \in Forward \cup {0} /\ (First(S) # 0 => First(S) > Furthest)
    BY <2>2
  <2>4. First(S) = 0 => \A i \in Forward : i <= Furthest
    BY <1>1, <1>2, <2>2
  <2> QED  BY <1>5, <1>9, <2>1, <2>3, <2>4
<1> QED  BY <1>6, <1>7, <1>8, <1>9

\* A resume starts at the front, or before it at a gate that some branch was
\* dropped at.
Front == IF frontierFrom # 0 THEN frontierFrom ELSE redoFrom
LEMMA ResumeIs ==
  ASSUME Typed
  PROVE  /\ resumeFrom \in Forward /\ resumeFrom <= Front
         /\ \/ resumeFrom = Front
            \/ \E b \in Branches : rec[resumeFrom].verdicts[b] \in {"red", "blocked"}
<1>1. DOMAIN flow = 1 .. Len(flow) /\ Len(flow) \in Nat /\ Forward \subseteq DOMAIN flow
  BY FlowIs, ForwardIs DEF Typed
<1>2. Front \in Forward /\ Front \in Nat
  BY <1>1, FrontIs DEF Front
<1> DEFINE dropped == {i \in Forward : i < Front /\ \E b \in Branches : rec[i].verdicts[b] \in {"red", "blocked"}}
<1>3. resumeFrom = IF dropped # {} THEN Min(dropped) ELSE Front
  BY DEF resumeFrom, Front
<1>4. dropped # {} => Min(dropped) \in dropped
  <2>1. dropped \in SUBSET Nat
    BY <1>1
  <2> QED  BY <2>1, MinIs
<1>5. CASE dropped # {}
  <2>1. resumeFrom \in dropped
    BY <1>3, <1>4, <1>5
  <2> HIDE DEF resumeFrom
  <2>2. resumeFrom < Front
    BY <2>1
  <2> QED  BY <1>1, <1>2, <2>1, <2>2
<1>6. CASE dropped = {}
  BY <1>2, <1>3, <1>6
<1> QED  BY <1>5, <1>6

-----------------------------------------------------------------------------
(* What a resume is                                                        *)

\* A phase is cut off while a branch is in it, and only then.
LEMMA CutOffIs ==
  ASSUME Typed, Counted, NEW i \in DOMAIN flow
  PROVE  CutOff(i) <=> Ins(i) # {}
<1>1. rec[i].starts \in Nat /\ rec[i].ends \in Nat
  <2>1. rec[i] \in Recs
    BY DEF Typed
  <2>2. rec[i].starts \in 0 .. MaxStarts /\ rec[i].ends \in Nat
    BY <2>1 DEF Recs
  <2> QED  BY <2>2
<1>2. IsFiniteSet(Ins(i))
  <2>1. Ins(i) \subseteq Branches
    BY DEF Ins
  <2> QED  BY <2>1, BoundAssumption, FS_Subset
<1>3. Cardinality(Ins(i)) \in Nat /\ (Cardinality(Ins(i)) = 0 <=> Ins(i) = {})
  BY <1>2, FS_CardinalityType, FS_EmptySet
<1>4. rec[i].starts - rec[i].ends = IF flow[i].fan THEN Cardinality(Ins(i)) ELSE IF Ins(i) = {} THEN 0 ELSE 1
  BY DEF Counted
<1>5. rec[i].starts - rec[i].ends > 0 <=> Ins(i) # {}
  BY <1>3, <1>4
<1> QED  BY <1>1, <1>5 DEF CutOff

\* What a branch was told "red" or "blocked" of did not succeed.
LEMMA ToldIs ==
  ASSUME Typed, NEW i \in DOMAIN flow, NEW w \in Places, rec[i].verdicts[w] \in {"red", "blocked"}
  PROVE  ~succeeded(i)
<1> DEFINE said == {rec[i].verdicts[x] : x \in Places} \ {""}
<1>1. rec[i].verdicts[w] \in said
  OBVIOUS
<1>2. "red" \in said \/ "blocked" \in said
  BY <1>1
<1>3. verdict(i) = "red" \/ verdict(i) = "blocked"
  BY <1>1, <1>2 DEF verdict
<1> QED  BY <1>3 DEF succeeded

\* A phase of the run's own that a resume passes over is done.
LEMMA BehindIsDone == ASSUME IInv PROVE NothingLeftBehind
<1> SUFFICES ASSUME NEW i \in Forward, Own(i), i < Furthest, i < resumeFrom
             PROVE  rec[i].starts > 0 /\ \A b \in Branches : ~(at[b] = i /\ doing[b] = "in")
  BY Zenon DEF NothingLeftBehind, Own, Blank
<1>1. Typed /\ Counted /\ Reached
  BY DEF IInv
<1>2. DOMAIN flow = 1 .. Len(flow) /\ Len(flow) \in Nat /\ Runnable \subseteq DOMAIN flow /\ Forward \subseteq DOMAIN flow
      /\ Forward \subseteq Runnable
  <2>1. flow \in Flows
    BY <1>1 DEF Typed
  <2> QED  BY <2>1, FlowIs, ForwardIs
<1>3. Furthest \in Forward /\ rec[Furthest].starts > 0 /\ Furthest \in Nat
  <2>3. i \in Nat /\ i # 0
    BY <1>2
  <2>1. Furthest \in Nat
    BY <1>1, FurthestIs
  <2>2. Furthest # 0
    BY <2>1, <2>3
  <2> QED  BY <1>1, <2>1, <2>2, FurthestIs
<1>4. rec[i].starts > 0
  BY <1>1, <1>2, <1>3 DEF Reached
<1>5. ASSUME NEW b \in Branches, at[b] = i, doing[b] = "in"  PROVE FALSE
  <2>1. CutOff(i)
    BY <1>1, <1>2, <1>5, CutOffIs DEF Ins
  <2>2. i \in Broken
    <3>1. i \in Runnable /\ i < Furthest
      BY <1>2
    <3> QED  BY <2>1, <3>1 DEF Broken
  <2>3. PICK k \in Broken : frontierFrom = StartedAt(k) /\ \A j \in Broken : k <= j
    BY <1>1, <1>2, <1>3, <2>2, FrontIs
  <2>4. StartedAt(k) \in Forward /\ StartedAt(k) <= k /\ k \in Nat
    BY <1>1, <1>2, StartedIs DEF Broken
  <2>5. Front = StartedAt(k)
    BY <1>2, <2>3, <2>4 DEF Front
  <2>6. resumeFrom <= Front /\ resumeFrom \in Forward
    BY <1>1, ResumeIs
  <2> QED  BY <1>2, <2>2, <2>3, <2>4, <2>5, <2>6
<1> QED  BY <1>4, <1>5

\* What succeeded is resumed at only after everything.
LEMMA SucceededIsKept ==
  ASSUME IInv, succeeded(resumeFrom), ~CutOff(resumeFrom)
  PROVE  Furthest = Max(Forward) /\ \A i \in Forward : ~CutOff(i)
<1> DEFINE r == resumeFrom
<1>1. Typed /\ Counted /\ Busy /\ Repairs /\ RedTold /\ Green /\ flow \in Flows
  BY DEF IInv, Typed
<1>2. DOMAIN flow = 1 .. Len(flow) /\ Len(flow) \in Nat /\ Runnable \subseteq DOMAIN flow /\ Forward \subseteq DOMAIN flow
      /\ Forward \subseteq Runnable
  BY <1>1, FlowIs, ForwardIs
<1>3. r \in Forward /\ rec[r].starts > 0
  BY <1>1, ResumeIs DEF succeeded
<1>4. r = Front
  <2>1. ~\E b \in Branches : rec[r].verdicts[b] \in {"red", "blocked"}
    BY <1>1, <1>2, <1>3, ToldIs DEF Places
  <2> QED  BY <1>1, <2>1, ResumeIs
<1>5. Furthest # 0 /\ Furthest \in Forward /\ \A i \in Forward : rec[i].starts > 0 => i <= Furthest
  BY <1>1, <1>2, <1>3, FurthestIs
<1>6. Broken = {}
  <2> SUFFICES ASSUME Broken # {}  PROVE FALSE
    OBVIOUS
  <2>1. PICK k \in Broken : frontierFrom = StartedAt(k)
    BY <1>1, <1>5, FrontIs
  <2>2. StartedAt(k) \in Forward
        /\ \/ StartedAt(k) = k
           \/ CutOff(k) /\ k \in Runnable /\ flow[k].only_if = "red" /\ flow[StartedAt(k)].id = flow[k].loops_to
    BY <1>1, StartedIs
  <2>3. r = StartedAt(k)
    BY <1>2, <1>4, <2>1, <2>2 DEF Front
  <2>4. CASE r = k
    <3>1. CutOff(k) \/ LeftOut(k)
      BY DEF Broken
    <3>2. ~CutOff(k)
      BY <2>4 DEF CutOff
    <3>3. rec[k].starts > 0
      BY <1>3, <2>4
    <3>4. LeftOut(k) => rec[k].starts = 0
      BY Zenon DEF LeftOut
    <3> QED  BY <3>1, <3>2, <3>3, <3>4
  <2>5. CASE CutOff(k) /\ k \in Runnable /\ flow[k].only_if = "red" /\ flow[r].id = flow[k].loops_to
    <3>1. PICK b \in Branches : doing[b] = "in" /\ at[b] = k
      BY <1>1, <1>2, <2>5, CutOffIs DEF Ins
    <3>2. red[b] # 0 /\ flow[k].loops_to = flow[red[b]].id
      BY <1>1, <2>5, <3>1 DEF Repairs
    <3>3. red[b] \in Runnable /\ rec[red[b]].verdicts[IF flow[red[b]].fan THEN b ELSE Trunk] \in {"red", "blocked"}
      BY <1>1, <3>2 DEF RedTold
    <3>4. red[b] = r
      <4>1. \A i, j \in DOMAIN flow : flow[i].id = flow[j].id => i = j
        <5>1. WellFormed(flow)
          BY <1>1, FlowsAssumption
        <5> QED  BY <5>1 DEF WellFormed
      <4> QED  BY <1>2, <1>3, <2>5, <3>2, <3>3, <4>1
    <3>5. (IF flow[red[b]].fan THEN b ELSE Trunk) \in Places
      BY DEF Places
    <3> QED  BY <1>1, <1>2, <1>3, <3>3, <3>4, <3>5, ToldIs
  <2> QED  BY <2>2, <2>3, <2>4, <2>5
<1>7. succeeded(Furthest)
  <2> SUFFICES ASSUME ~succeeded(Furthest)  PROVE FALSE
    OBVIOUS
  <2>1. frontierFrom = Furthest
    BY <1>5, <1>6 DEF frontierFrom
  <2> QED  BY <1>4, <1>5, <2>1 DEF Front
<1>8. frontierFrom = 0 /\ \A i \in Forward : i <= Furthest
  <2>1. ~(frontierFrom > Furthest)
    <3> SUFFICES ASSUME frontierFrom > Furthest  PROVE FALSE
      OBVIOUS
    <3>1. frontierFrom \in Forward \cup {0} /\ Furthest \in Nat
      BY <1>1, FrontIs, FurthestIs
    <3>2. frontierFrom # 0
      BY <3>1
    <3>3. r = frontierFrom
      BY <1>4, <3>2 DEF Front
    <3> QED  BY <1>2, <1>3, <1>5, <3>1, <3>3
  <2> QED  BY <1>1, <1>5, <1>6, <1>7, <2>1, FrontIs
<1>9. Furthest = Max(Forward)
  <2>1. Max(Forward) \in Forward /\ \A i \in Forward : Max(Forward) >= i
    BY <1>5, <1>8, <1>2 DEF Max
  <2> QED  BY <1>2, <1>5, <1>8, <2>1
<1>10. ASSUME NEW i \in Forward, CutOff(i)  PROVE FALSE
  <2>1. i = Furthest
    <3>1. i <= Furthest /\ i \in Runnable /\ i \in Nat /\ Furthest \in Nat
      BY <1>2, <1>5, <1>8
    <3>2. ~(i < Furthest)
      BY <1>6, <1>10, <3>1 DEF Broken
    <3> QED  BY <3>1, <3>2
  <2>2. ~flow[i].fan
    <3> SUFFICES ASSUME flow[i].fan  PROVE FALSE
      OBVIOUS
    <3>1. flow[i].agents /\ flow[i].only_if # "red"
      BY <1>1, <1>2, ForwardIs DEF Runnable
    <3>2. PICK j \in DOMAIN flow : j > i /\ flow[j].agents /\ flow[j].only_if # "red"
      BY <1>1, <1>2, <3>1, JoinedAssumption
    <3>3. j \in Forward
      BY <1>1, <3>2, ForwardIs DEF Runnable
    <3> QED  BY <1>2, <1>8, <2>1, <3>2, <3>3
  <2>3. verdict(i) = "green"
    <3>1. rec[i].ends < rec[i].starts /\ rec[i].starts \in Nat /\ rec[i].ends \in Nat
      <4>1. rec[i] \in Recs
        BY <1>1, <1>2 DEF Typed
      <4>2. rec[i].starts \in 0 .. MaxStarts /\ rec[i].ends \in Nat
        BY <4>1 DEF Recs
      <4> QED  BY <1>10, <4>2 DEF CutOff
    <3>2. succeeded(i)
      BY <1>7, <2>1 DEF succeeded, verdict
    <3>3. ~(rec[i].ends >= rec[i].starts)
      BY <3>1
    <3> QED  BY <3>2, <3>3, Zenon DEF succeeded
  <2>4. rec[i].verdicts[Trunk] = "green"
    <3>1. \A b \in Branches : rec[i].verdicts[b] = Blank
      BY <1>1, <1>2, <2>2 DEF Green
    <3> DEFINE said == {rec[i].verdicts[w] : w \in Places} \ {Blank}
    <3>2. said # {} /\ "red" \notin said /\ "blocked" \notin said
      BY <2>3 DEF verdict, Blank
    <3>3. \A x \in said : x = rec[i].verdicts[Trunk]
      BY <3>1 DEF Places
    <3>4. \A x \in said : x \in Verdicts
      <4>1. rec[i] \in Recs
        BY <1>1, <1>2 DEF Typed
      <4>2. \A w \in Places : rec[i].verdicts[w] \in Verdicts \cup {Blank}
        BY <4>1 DEF Recs
      <4> QED  BY <4>2
    <3> QED  BY <3>2, <3>3, <3>4 DEF Verdicts
  <2>5. PICK b \in Branches : at[b] = i
    BY <1>1, <1>2, <1>10, CutOffIs DEF Ins
  <2>6. i < at[b]
    <3>1. flow[i].only_if # "red"
      BY <1>1, ForwardIs
    <3> QED  BY <1>1, <1>2, <2>2, <2>4, <3>1 DEF Green
  <2> QED  BY <1>2, <2>5, <2>6
<1> QED  BY <1>9, <1>10

\* What another run did is resumed at only when this one began it, or nothing
\* of its own.
LEMMA InheritedIsKept ==
  ASSUME IInv, resumeFrom < replay, rec[resumeFrom].starts = 0
  PROVE  Furthest < replay
<1> DEFINE r == resumeFrom
<1> SUFFICES ASSUME ~(Furthest < replay)  PROVE FALSE
  OBVIOUS
<1>1. Typed /\ Counted /\ Busy /\ Repairs /\ RedTold /\ flow \in Flows /\ replay \in {0} \cup Forward
  BY DEF IInv, Typed
<1>2. DOMAIN flow = 1 .. Len(flow) /\ Len(flow) \in Nat /\ Runnable \subseteq DOMAIN flow /\ Forward \subseteq DOMAIN flow
      /\ Forward \subseteq Runnable
  BY <1>1, FlowIs, ForwardIs
<1>3. r \in Forward /\ r \in Nat /\ r > 0 /\ replay \in Nat /\ Furthest \in Nat
  BY <1>1, <1>2, ResumeIs, FurthestIs
<1>4. Furthest >= replay /\ replay > r /\ replay # 0 /\ Furthest # 0
  BY <1>3
<1>5. r = Front
  <2>1. ASSUME NEW b \in Branches, rec[r].verdicts[b] \in {"red", "blocked"}  PROVE FALSE
    <3>1. rec[r].verdicts[b] = Blank
      BY <1>2, <1>3 DEF IInv, Untold, Places
    <3> QED  BY <2>1, <3>1 DEF Blank
  <2> QED  BY <1>1, <2>1, ResumeIs
<1> HIDE DEF r
<1>6. CASE Broken # {}
  <2>1. PICK k \in Broken : frontierFrom = StartedAt(k)
    BY <1>1, <1>4, <1>6, FrontIs
  <2>2. StartedAt(k) \in Forward
        /\ \/ StartedAt(k) = k
           \/ CutOff(k) /\ k \in Runnable /\ flow[k].only_if = "red" /\ flow[StartedAt(k)].id = flow[k].loops_to
    BY <1>1, StartedIs
  <2>3. r = StartedAt(k)
    BY <1>2, <1>5, <2>1, <2>2 DEF Front
  <2>4. CASE r = k
    <3>1. CutOff(k) \/ LeftOut(k)
      BY DEF Broken
    <3>2. ~CutOff(k)
      <4>1. ~(rec[k].starts > 0)
        BY <2>4 DEF r
      <4> QED  BY <4>1 DEF CutOff
    <3>3. ~LeftOut(k)
      <4>1. Inherited = replay
        BY <1>4 DEF Inherited
      <4>2. ~(k >= replay)
        BY <1>3, <1>4, <2>4
      <4> QED  BY <4>1, <4>2, Zenon DEF LeftOut
    <3> QED  BY <3>1, <3>2, <3>3
  <2>5. CASE CutOff(k) /\ k \in Runnable /\ flow[k].only_if = "red" /\ flow[r].id = flow[k].loops_to
    <3>1. PICK b \in Branches : doing[b] = "in" /\ at[b] = k
      BY <1>1, <1>2, <2>5, CutOffIs DEF Ins
    <3>2. red[b] # 0 /\ flow[k].loops_to = flow[red[b]].id
      BY <1>1, <2>5, <3>1 DEF Repairs
    <3>3. red[b] \in Runnable /\ rec[red[b]].verdicts[IF flow[red[b]].fan THEN b ELSE Trunk] \in {"red", "blocked"}
      BY <1>1, <3>2 DEF RedTold
    <3>4. red[b] = r
      <4>1. \A i, j \in DOMAIN flow : flow[i].id = flow[j].id => i = j
        <5>1. WellFormed(flow)
          BY <1>1, FlowsAssumption
        <5> QED  BY <5>1 DEF WellFormed
      <4> QED  BY <1>2, <1>3, <2>5, <3>2, <3>3, <4>1
    <3>5. (IF flow[red[b]].fan THEN b ELSE Trunk) \in Places
      BY DEF Places
    <3>6. rec[r].verdicts[IF flow[red[b]].fan THEN b ELSE Trunk] = Blank
      BY <1>2, <1>3, <3>5 DEF IInv, Untold, r
    <3> QED  BY <3>3, <3>4, <3>6 DEF Blank
  <2> QED  BY <2>2, <2>3, <2>4, <2>5
<1>7. CASE Broken = {} /\ ~succeeded(Furthest)
  <2>1. frontierFrom = Furthest
    BY <1>4, <1>7 DEF frontierFrom
  <2> QED  BY <1>3, <1>4, <1>5, <2>1 DEF Front
<1>8. CASE Broken = {} /\ succeeded(Furthest) /\ frontierFrom # 0
  <2>1. frontierFrom > Furthest
    BY <1>1, <1>4, <1>8, FrontIs
  <2>2. r = frontierFrom
    BY <1>5, <1>8 DEF Front
  <2> QED  BY <1>3, <1>4, <2>1, <2>2
<1>9. CASE frontierFrom = 0
  <2>1. r = redoFrom
    BY <1>5, <1>9 DEF Front
  <2>2. redoFrom >= replay
    <3> DEFINE again == {i \in Forward : i >= replay /\ rec[i].starts > 0 /\ rec[i].failed}
    <3>1. redoFrom = IF again # {} THEN Min(again) ELSE replay
      BY <1>4 DEF redoFrom
    <3>2. again # {} => Min(again) \in again
      <4>1. again \in SUBSET Nat
        BY <1>2
      <4> QED  BY <4>1, MinIs
    <3>3. again # {} => Min(again) >= replay
      BY <3>2
    <3> HIDE DEF again
    <3> QED  BY <1>3, <3>1, <3>3
  <2> QED  BY <1>3, <1>4, <2>1, <2>2
<1> QED  BY <1>6, <1>7, <1>8, <1>9

\* Finished work, its own and another's, is kept.
LEMMA FinishedIsKept == ASSUME IInv PROVE FinishedWorkKept
BY SucceededIsKept, InheritedIsKept DEF FinishedWorkKept

\* And everything is of its kind.
LEMMA TypesHold == ASSUME IInv PROVE TypeOK
<1>1. DOMAIN flow = 1 .. Len(flow) /\ Len(flow) \in Nat /\ Forward \subseteq DOMAIN flow
  BY FlowIs, ForwardIs DEF IInv, Typed
<1>2. DOMAIN rec = DOMAIN flow /\ \A i \in DOMAIN rec : rec[i] \in Recs
  BY DEF IInv, Typed
<1>3. \A i \in DOMAIN rec : /\ rec[i].starts \in 0 .. MaxStarts /\ rec[i].failed \in BOOLEAN
                            /\ rec[i].verdicts \in [Places -> Verdicts \cup {Blank}]
  BY <1>2 DEF Recs
<1>4. replay \in 0 .. Len(flow)
  BY <1>1 DEF IInv, Typed
<1> QED  BY <1>2, <1>3, <1>4 DEF TypeOK, IInv, Typed, Counted, Ins, Blank

-----------------------------------------------------------------------------
(* Steps                                                                   *)

\* The flow and the place of a replay stay, and what is said of them.
LEMMA FlowStays ==
  ASSUME flow' = flow, replay' = replay
  PROVE  Runnable' = Runnable /\ Forward' = Forward /\ \A j : (Own(j))' <=> Own(j)
<1>1. Runnable' = Runnable
  BY DEF Runnable
<1>2. Forward' = Forward
  BY <1>1 DEF Forward, forwardPhase
<1> QED  BY <1>2, <1>1 DEF Own

\* Who moves with b: b alone, or everybody, and all of them stand where b does.
LEMMA WithIs ==
  ASSUME Typed, NEW b \in Branches, At(b)
  PROVE  /\ at[b] \in DOMAIN flow /\ at[b] \in Nat /\ b \in With(b) /\ With(b) \subseteq Branches
         /\ \A c \in With(b) : at[c] = at[b]
         /\ flow[at[b]].fan => With(b) = {b}
         /\ ~flow[at[b]].fan => With(b) = Branches
<1>1. at[b] \in DOMAIN flow /\ (flow[at[b]].fan \/ \A c \in Branches : at[c] = at[b])
  BY DEF At
<1>2. DOMAIN flow = 1 .. Len(flow) /\ Len(flow) \in Nat /\ flow[at[b]].fan \in BOOLEAN
  BY <1>1, FlowIs DEF Typed
<1>3. With(b) = IF flow[at[b]].fan THEN {b} ELSE Branches
  BY DEF With
<1>4. CASE flow[at[b]].fan
  BY <1>1, <1>2, <1>3, <1>4
<1>5. CASE ~flow[at[b]].fan
  BY <1>1, <1>2, <1>3, <1>5
<1> QED  BY <1>4, <1>5

\* They are all doing what b does.
LEMMA WithBusy ==
  ASSUME Typed, Busy, NEW b \in Branches, At(b), NEW c \in With(b)
  PROVE  doing[c] = doing[b]
<1>1. /\ at[b] \in DOMAIN flow /\ b \in With(b) /\ With(b) \subseteq Branches
      /\ (\A d \in With(b) : at[d] = at[b]) /\ (flow[at[b]].fan => With(b) = {b})
  BY WithIs
<1>2. CASE flow[at[b]].fan
  BY <1>1, <1>2
<1>3. CASE ~flow[at[b]].fan
  <2>1. at[c] = at[b] /\ c \in Branches
    BY <1>1
  <2>2. CASE doing[b] # "next"
    BY <1>3, <2>1, <2>2 DEF Busy
  <2>3. CASE doing[c] # "next"
    BY <1>3, <2>1, <2>3 DEF Busy
  <2> QED  BY <2>2, <2>3
<1> QED  BY <1>2, <1>3

\* Who does not move with b is at a phase on the branches, or b is.
LEMMA NotWith ==
  ASSUME Typed, NEW b \in Branches, At(b), NEW c \in Branches, c \notin With(b), at[c] = at[b]
  PROVE  flow[at[c]].fan /\ c # b
BY WithIs

\* Between a gate and its repair a branch is at a phase like the gate.
LEMMA ZoneIs ==
  ASSUME Typed, RedTold, NEW b \in Branches, red[b] # 0
  PROVE  /\ at[b] \in DOMAIN flow /\ flow[at[b]].fan = flow[red[b]].fan
         /\ \A k \in DOMAIN flow : flow[k].loops_to = flow[red[b]].id => red[b] < k
<1>1. flow \in Flows /\ DOMAIN flow = 1 .. Len(flow) /\ Len(flow) \in Nat /\ Runnable \subseteq DOMAIN flow
  <2>1. flow \in Flows
    BY DEF Typed
  <2> QED  BY <2>1, FlowIs
<1>2. red[b] \in Runnable /\ red[b] < at[b] /\ \E k \in Runnable : flow[k].loops_to = flow[red[b]].id /\ at[b] <= k
  BY DEF RedTold
<1>3. PICK k \in Runnable : flow[k].loops_to = flow[red[b]].id /\ at[b] <= k
  BY <1>2
<1>4. red[b] \in DOMAIN flow /\ k \in DOMAIN flow
  BY <1>1, <1>2
<1>5. \A j \in red[b] .. k : flow[j].fan = flow[red[b]].fan
  BY <1>1, <1>3, <1>4, GateIs
<1>6. at[b] \in DOMAIN flow /\ at[b] \in red[b] .. k
  <2>1. at[b] \in 1 .. Len(flow) + 1
    BY DEF Typed
  <2> QED  BY <1>1, <1>2, <1>3, <1>4, <2>1
<1>7. \A m \in DOMAIN flow : flow[m].loops_to = flow[red[b]].id => red[b] < m
  BY <1>1, <1>4, GateIs
<1> QED  BY <1>5, <1>6, <1>7

\* Who is in a phase has moved from none to none.
LEMMA InsStay ==
  ASSUME \A c \in Branches : (doing'[c] = "in" <=> doing[c] = "in") /\ (doing[c] = "in" => at'[c] = at[c])
  PROVE  \A j : (Ins(j))' = Ins(j)
BY DEF Ins

-----------------------------------------------------------------------------
(* A phase is passed over                                                  *)

\* What it does.
LEMMA PassedIs ==
  ASSUME IInv, NEW b \in Branches, PhasePassed(b)
  PROVE  /\ flow' = flow /\ replay' = replay /\ rec' = rec /\ doing' = doing
         /\ \A c \in Branches : at'[c] = IF c \in With(b) THEN at[b] + 1 ELSE at[c]
         /\ \A c \in Branches : red'[c] = red[c] \/ (c \in With(b) /\ red'[c] = 0)
         /\ Due(b) => \A c \in With(b) : red'[c] = 0
         /\ doing[b] = "next" /\ ~Own(at[b]) /\ At(b) /\ Typed'
<1>1. Typed /\ flow \in Flows
  BY DEF IInv, Typed
<1>2. flow' = flow /\ replay' = replay /\ rec' = rec /\ doing' = doing /\ doing[b] = "next" /\ At(b)
  BY DEF PhasePassed
<1>3. at' = [c \in Branches |-> IF c \in With(b) THEN at[b] + 1 ELSE at[c]]
  BY DEF PhasePassed, Moved
<1>4. red' = IF Due(b) THEN [c \in Branches |-> IF c \in With(b) THEN 0 ELSE red[c]] ELSE red
  BY DEF PhasePassed, Moved
<1>5. ~Own(at[b])
  <2> SUFFICES ASSUME Own(at[b])  PROVE FALSE
    OBVIOUS
  <2>1. at[b] \in Runnable /\ flow[at[b]].only_if # "red"
    BY <1>1, ForwardIs DEF Own
  <2>2. Due(b)
    BY <2>1 DEF Due
  <2>3. ~Due(b) \/ flow[at[b]].only_if # Blank \/ at[b] < replay
    BY Zenon DEF PhasePassed, Blank
  <2>4. replay <= at[b] /\ replay \in Nat /\ at[b] \in Nat
    <3>1. DOMAIN flow = 1 .. Len(flow) /\ Len(flow) \in Nat /\ Forward \subseteq DOMAIN flow
      BY <1>1, FlowIs, ForwardIs
    <3> QED  BY <1>1, <3>1 DEF Own, Typed
  <2> QED  BY <2>2, <2>3, <2>4 DEF Own
<1>6. at[b] \in 1 .. Len(flow) /\ Len(flow) \in Nat /\ With(b) \subseteq Branches
  BY <1>1, <1>2, FlowIs, WithIs
<1>7. at' \in [Branches -> 1 .. Len(flow) + 1] /\ red' \in [Branches -> 0 .. Len(flow)]
  <2>1. at \in [Branches -> 1 .. Len(flow) + 1] /\ red \in [Branches -> 0 .. Len(flow)]
    BY <1>1 DEF Typed
  <2>2. at[b] + 1 \in 1 .. Len(flow) + 1 /\ 0 \in 0 .. Len(flow)
    BY <1>6
  <2> QED  BY <1>3, <1>4, <2>1, <2>2
<1>8. Forward' = Forward
  BY <1>2, FlowStays
<1>9. Typed'
  BY <1>1, <1>2, <1>7, <1>8 DEF Typed
<1>10. \A c \in Branches : /\ at'[c] = IF c \in With(b) THEN at[b] + 1 ELSE at[c]
                           /\ red'[c] = red[c] \/ (c \in With(b) /\ red'[c] = 0)
                           /\ Due(b) /\ c \in With(b) => red'[c] = 0
  BY <1>1, <1>3, <1>4 DEF Typed
<1> QED  BY <1>2, <1>5, <1>6, <1>9, <1>10

\* And nothing of the rest is lost by it.
LEMMA PassedKeeps ==
  ASSUME IInv, NEW b \in Branches, PhasePassed(b)
  PROVE  IInv'
<1> DEFINE i == at[b]
<1>1. Typed /\ Counted /\ Busy /\ Repairs /\ RedTold /\ Green /\ Begun /\ Reached /\ Untold /\ flow \in Flows
  BY DEF IInv, Typed
<1>2. /\ flow' = flow /\ replay' = replay /\ rec' = rec /\ doing' = doing
      /\ \A c \in Branches : at'[c] = IF c \in With(b) THEN i + 1 ELSE at[c]
      /\ \A c \in Branches : red'[c] = red[c] \/ (c \in With(b) /\ red'[c] = 0)
      /\ Due(b) => \A c \in With(b) : red'[c] = 0
      /\ doing[b] = "next" /\ ~Own(i) /\ At(b) /\ Typed'
  BY PassedIs
<1>3. /\ i \in DOMAIN flow /\ i \in Nat /\ b \in With(b) /\ With(b) \subseteq Branches
      /\ \A c \in With(b) : at[c] = i
      /\ flow[i].fan => With(b) = {b}
      /\ ~flow[i].fan => With(b) = Branches
  BY <1>1, <1>2, WithIs
<1>4. DOMAIN flow = 1 .. Len(flow) /\ Len(flow) \in Nat /\ Runnable \subseteq DOMAIN flow
  BY <1>1, FlowIs
<1>5. Runnable' = Runnable /\ Forward' = Forward /\ \A j : (Own(j))' <=> Own(j)
  BY <1>2, FlowStays
<1>6. \A c \in With(b) : doing[c] = "next"
  BY <1>1, <1>2, WithBusy
<1>7. \A c \in Branches : at[c] \in Nat
  BY <1>1, <1>4 DEF Typed
<1> HIDE DEF i
<1>8. Counted'
  <2>1. \A j : (Ins(j))' = Ins(j)
    <3>1. \A c \in Branches : (doing'[c] = "in" <=> doing[c] = "in") /\ (doing[c] = "in" => at'[c] = at[c])
      BY <1>2, <1>6
    <3> QED  BY <3>1, InsStay
  <2> QED  BY <1>1, <1>2, <2>1 DEF Counted
<1>9. Busy'
  <2> SUFFICES ASSUME NEW c \in Branches, doing[c] # "next"
               PROVE  /\ at'[c] \in Runnable
                      /\ ~flow[at'[c]].fan => \A d \in Branches : at'[d] = at'[c] /\ doing[d] = doing[c]
    BY <1>2, <1>5 DEF Busy
  <2>1. c \notin With(b) /\ at'[c] = at[c]
    BY <1>2, <1>6
  <2>2. at[c] \in Runnable /\ (~flow[at[c]].fan => \A d \in Branches : at[d] = at[c] /\ doing[d] = doing[c])
    BY <1>1 DEF Busy
  <2>3. flow[at[c]].fan
    BY <1>2, <2>2
  <2> QED  BY <2>1, <2>2, <2>3
<1>10. Repairs'
  <2> SUFFICES ASSUME NEW c \in Branches, doing[c] # "next", flow[at'[c]].only_if = "red"
               PROVE  red'[c] # 0 /\ flow[at'[c]].loops_to = flow[red'[c]].id
    BY <1>2 DEF Repairs
  <2>1. c \notin With(b)
    BY <1>6
  <2> QED  BY <1>1, <1>2, <2>1 DEF Repairs
<1>11. RedTold'
  <2> SUFFICES ASSUME NEW c \in Branches, NEW g, g = red'[c], g # 0
               PROVE  /\ g \in Runnable /\ flow[g].only_if # "red" /\ g < at'[c]
                      /\ rec[g].verdicts[IF flow[g].fan THEN c ELSE Trunk] \in {"red", "blocked"}
                      /\ \E k \in Runnable : flow[k].loops_to = flow[g].id /\ at'[c] <= k
                      /\ ~flow[g].fan => \A d \in Branches : red'[d] = g /\ at'[d] = at'[c]
    BY <1>2, <1>5 DEF RedTold
  <2>1. g = red[c] /\ (c \in With(b) => ~Due(b))
    BY <1>2
  <2>2. /\ g \in Runnable /\ flow[g].only_if # "red" /\ g < at[c]
        /\ rec[g].verdicts[IF flow[g].fan THEN c ELSE Trunk] \in {"red", "blocked"}
        /\ ~flow[g].fan => \A d \in Branches : red[d] = g /\ at[d] = at[c]
    BY <1>1, <2>1 DEF RedTold
  <2>3. PICK k \in Runnable : flow[k].loops_to = flow[g].id /\ at[c] <= k
    BY <1>1, <2>1 DEF RedTold
  <2>4. flow[at[c]].fan = flow[g].fan /\ g \in Nat /\ k \in Nat /\ at[c] \in Nat
    BY <1>1, <1>4, <1>7, <2>1, <2>2, ZoneIs
  <2>5. CASE c \notin With(b)
    <3>1. at'[c] = at[c]
      BY <1>2, <2>5
    <3>2. ASSUME ~flow[g].fan  PROVE FALSE
      <4>1. at[b] = at[c] /\ ~flow[i].fan
        BY <2>2, <2>4, <3>2 DEF i
      <4> QED  BY <1>3, <2>5, <4>1
    <3> QED  BY <2>2, <2>3, <3>1, <3>2
  <2>6. CASE c \in With(b)
    <3>1. at'[c] = i + 1 /\ at[c] = i
      BY <1>2, <1>3, <2>6
    <3>2. i # k
      <4> SUFFICES ASSUME i = k  PROVE FALSE
        OBVIOUS
      <4>1. red[b] = g
        <5>1. CASE flow[i].fan
          BY <1>3, <2>1, <2>6, <5>1
        <5>2. CASE ~flow[i].fan
          BY <2>2, <2>4, <3>1, <5>2
        <5> QED  BY <5>1, <5>2
      <4>2. Due(b)
        BY <2>1, <2>3, <4>1 DEF Due, i
      <4> QED  BY <2>1, <2>6, <4>2
    <3>3. at'[c] <= k
      BY <2>3, <2>4, <3>1, <3>2
    <3>4. g < at'[c]
      BY <2>2, <2>4, <3>1
    <3>5. ~flow[g].fan => \A d \in Branches : red'[d] = g /\ at'[d] = at'[c]
      <4> SUFFICES ASSUME ~flow[g].fan, NEW d \in Branches  PROVE red'[d] = g /\ at'[d] = at'[c]
        OBVIOUS
      <4>1. d \in With(b)
        BY <1>3, <2>4, <3>1
      <4>2. red[d] = g
        BY <2>2
      <4>3. red' = red
        BY <2>1, <2>6 DEF PhasePassed
      <4> QED  BY <1>2, <2>6, <4>1, <4>2, <4>3
    <3> QED  BY <2>2, <2>3, <3>3, <3>4, <3>5
  <2> QED  BY <2>5, <2>6
<1>12. Green'
  <2>1. \A c \in Branches : at'[c] >= at[c] /\ at'[c] \in Nat /\ red'[c] \in {red[c], 0}
    BY <1>2, <1>3, <1>7
  <2>2. ASSUME NEW j \in DOMAIN flow, ~flow[j].fan, rec[j].verdicts[Trunk] = "green", flow[j].only_if # "red", NEW c \in Branches
        PROVE  j < at'[c] /\ (red'[c] # 0 => j < red'[c])
    BY <1>1, <1>4, <1>7, <2>1, <2>2 DEF Green
  <2> QED  BY <1>1, <1>2, <2>2 DEF Green
<1>13. Begun'
  <2> SUFFICES ASSUME NEW c \in Branches, NEW j \in DOMAIN flow, Own(j), j < at'[c] \/ (j = at'[c] /\ doing[c] # "next")
               PROVE  rec[j].starts > 0
    BY <1>2, <1>5 DEF Begun
  <2>1. CASE c \in With(b)
    <3>1. at'[c] = i + 1 /\ doing[c] = "next" /\ at[c] = i
      BY <1>2, <1>3, <1>6, <2>1
    <3>2. j < i
      BY <1>2, <1>3, <1>4, <3>1
    <3> QED  BY <1>1, <3>1, <3>2 DEF Begun
  <2>2. CASE c \notin With(b)
    BY <1>1, <1>2, <2>2 DEF Begun
  <2> QED  BY <2>1, <2>2
<1>14. Reached'
  BY <1>1, <1>2, <1>5 DEF Reached
<1>15. Untold'
  <2>1. \A c \in Branches : doing[c] # "next" => at'[c] = at[c]
    BY <1>2, <1>6
  <2> QED  BY <1>1, <1>2, <2>1 DEF Untold
<1> QED  BY <1>2, <1>8, <1>9, <1>10, <1>11, <1>12, <1>13, <1>14, <1>15 DEF IInv

-----------------------------------------------------------------------------
(* A phase starts, and ends                                                *)

\* The record of a phase, counted on.
LEMMA RecIs ==
  ASSUME Typed, NEW i \in DOMAIN flow
  PROVE  /\ rec[i] \in Recs /\ rec[i].starts \in Nat /\ rec[i].ends \in Nat
         /\ rec[i].starts < MaxStarts =>
              /\ [rec[i] EXCEPT !.starts = @ + 1] \in Recs
              /\ [rec[i] EXCEPT !.starts = @ + 1].starts = rec[i].starts + 1
              /\ [rec[i] EXCEPT !.starts = @ + 1].ends = rec[i].ends
              /\ [rec[i] EXCEPT !.starts = @ + 1].verdicts = rec[i].verdicts
<1>1. rec[i] \in Recs
  BY DEF Typed
<1>2. rec[i].starts \in 0 .. MaxStarts /\ rec[i].ends \in Nat
  BY <1>1 DEF Recs
<1>3. MaxStarts \in Nat
  BY BoundAssumption
<1>4. \A r \in Recs : r.starts < MaxStarts =>
         /\ [r EXCEPT !.starts = r.starts + 1] \in Recs
         /\ [r EXCEPT !.starts = r.starts + 1].starts = r.starts + 1
         /\ [r EXCEPT !.starts = r.starts + 1].ends = r.ends
         /\ [r EXCEPT !.starts = r.starts + 1].verdicts = r.verdicts
  BY <1>3 DEF Recs
<1> QED  BY <1>1, <1>2, <1>4

\* Who is in a phase is one more of the branches, or all of them.
LEMMA InsGrow ==
  ASSUME IInv, NEW b \in Branches, At(b), doing[b] = "next", at' = at,
         \A c \in Branches : doing'[c] = IF c \in With(b) THEN "in" ELSE doing[c]
  PROVE  \A j \in DOMAIN flow :
           LET n(is) == IF flow[j].fan THEN Cardinality(is) ELSE IF is = {} THEN 0 ELSE 1
           IN  n((Ins(j))') = IF j = at[b] THEN n(Ins(j)) + 1 ELSE n(Ins(j))
<1>1. Typed /\ Busy
  BY DEF IInv
<1>2. /\ at[b] \in DOMAIN flow /\ b \in With(b) /\ With(b) \subseteq Branches
      /\ \A c \in With(b) : at[c] = at[b]
      /\ flow[at[b]].fan => With(b) = {b}
      /\ ~flow[at[b]].fan => With(b) = Branches
  BY <1>1, WithIs
<1>3. \A c \in With(b) : doing[c] = "next"
  BY <1>1, WithBusy
<1> SUFFICES ASSUME NEW j \in DOMAIN flow
             PROVE  LET n(is) == IF flow[j].fan THEN Cardinality(is) ELSE IF is = {} THEN 0 ELSE 1
                    IN  n((Ins(j))') = IF j = at[b] THEN n(Ins(j)) + 1 ELSE n(Ins(j))
  OBVIOUS
<1>4. CASE j # at[b]
  <2>1. (Ins(j))' = Ins(j)
    BY <1>2, <1>3, <1>4 DEF Ins
  <2> QED  BY <1>4, <2>1
<1>5. CASE j = at[b] /\ flow[j].fan
  <2>1. (Ins(j))' = Ins(j) \cup {b}
    BY <1>2, <1>5 DEF Ins
  <2>2. b \notin Ins(j)
    BY DEF Ins
  <2>3. IsFiniteSet(Ins(j))
    <3>1. Ins(j) \subseteq Branches
      BY DEF Ins
    <3> QED  BY <3>1, BoundAssumption, FS_Subset
  <2>4. Cardinality((Ins(j))') = Cardinality(Ins(j)) + 1
    BY <2>1, <2>2, <2>3, FS_AddElement
  <2> QED  BY <1>5, <2>4
<1>6. CASE j = at[b] /\ ~flow[j].fan
  <2>1. Ins(j) = {}
    BY <1>2, <1>3, <1>6 DEF Ins
  <2>2. b \in (Ins(j))'
    BY <1>2, <1>6 DEF Ins
  <2> QED  BY <1>6, <2>1, <2>2
<1> QED  BY <1>4, <1>5, <1>6

\* What a start does.
LEMMA StartsIs ==
  ASSUME IInv, NEW b \in Branches, PhaseStarts(b)
  PROVE  /\ flow' = flow /\ replay' = replay /\ at' = at /\ red' = red
         /\ \A c \in Branches : doing'[c] = IF c \in With(b) THEN "in" ELSE doing[c]
         /\ At(b) /\ doing[b] = "next" /\ Due(b) /\ Typed'
         /\ \A j \in DOMAIN flow : rec'[j].ends = rec[j].ends /\ rec'[j].verdicts = rec[j].verdicts
                                   /\ rec'[j].starts = IF j = at[b] THEN rec[j].starts + 1 ELSE rec[j].starts
<1>1. Typed
  BY DEF IInv
<1>2. flow' = flow /\ replay' = replay /\ at' = at /\ red' = red /\ At(b) /\ doing[b] = "next" /\ Due(b)
      /\ rec[at[b]].starts < MaxStarts
  BY DEF PhaseStarts
<1>3. doing' = [c \in Branches |-> IF c \in With(b) THEN "in" ELSE doing[c]]
  BY DEF PhaseStarts, Moved
<1>4. at[b] \in DOMAIN flow
  BY <1>1, <1>2, WithIs
<1> DEFINE r == [rec[at[b]] EXCEPT !.starts = @ + 1]
<1>5. r \in Recs /\ r.starts = rec[at[b]].starts + 1 /\ r.ends = rec[at[b]].ends /\ r.verdicts = rec[at[b]].verdicts
  BY <1>1, <1>2, <1>4, RecIs
<1>6. rec' = [rec EXCEPT ![at[b]] = r]
  BY DEF PhaseStarts
<1> HIDE DEF r
<1>7. rec \in [DOMAIN flow -> Recs] /\ rec' \in [DOMAIN flow -> Recs]
  BY <1>1, <1>4, <1>5, <1>6 DEF Typed
<1>8. Forward' = Forward
  BY <1>2, FlowStays
<1>9. doing' \in [Branches -> {"next", "in", "over"}]
  BY <1>1, <1>3 DEF Typed
<1>10. Typed'
  BY <1>1, <1>2, <1>7, <1>8, <1>9 DEF Typed
<1>11. \A j \in DOMAIN flow : rec'[j].ends = rec[j].ends /\ rec'[j].verdicts = rec[j].verdicts
                              /\ rec'[j].starts = IF j = at[b] THEN rec[j].starts + 1 ELSE rec[j].starts
  BY <1>4, <1>5, <1>6, <1>7
<1> QED  BY <1>2, <1>3, <1>10, <1>11

\* And what it keeps.
LEMMA StartsKeep ==
  ASSUME IInv, NEW b \in Branches, PhaseStarts(b)
  PROVE  IInv'
<1> DEFINE i == at[b]
<1>1. Typed /\ Counted /\ Busy /\ Repairs /\ RedTold /\ Green /\ Begun /\ Reached /\ Untold /\ flow \in Flows
  BY DEF IInv, Typed
<1>2. /\ flow' = flow /\ replay' = replay /\ at' = at /\ red' = red
      /\ \A c \in Branches : doing'[c] = IF c \in With(b) THEN "in" ELSE doing[c]
      /\ At(b) /\ doing[b] = "next" /\ Due(b) /\ Typed'
      /\ \A j \in DOMAIN flow : rec'[j].ends = rec[j].ends /\ rec'[j].verdicts = rec[j].verdicts
                                /\ rec'[j].starts = IF j = i THEN rec[j].starts + 1 ELSE rec[j].starts
  BY StartsIs
<1>3. /\ i \in DOMAIN flow /\ i \in Nat /\ b \in With(b) /\ With(b) \subseteq Branches
      /\ \A c \in With(b) : at[c] = i
      /\ flow[i].fan => With(b) = {b}
      /\ ~flow[i].fan => With(b) = Branches
  BY <1>1, <1>2, WithIs
<1>4. DOMAIN flow = 1 .. Len(flow) /\ Len(flow) \in Nat /\ Runnable \subseteq DOMAIN flow /\ Forward \subseteq Runnable
      /\ \A j \in DOMAIN flow : rec[j].starts \in Nat /\ rec[j].ends \in Nat
  BY <1>1, FlowIs, ForwardIs, RecIs
<1>5. Runnable' = Runnable /\ Forward' = Forward /\ \A j : (Own(j))' <=> Own(j)
  BY <1>2, FlowStays
<1>6. Counted'
  <2> DEFINE n(j, is) == IF flow[j].fan THEN Cardinality(is) ELSE IF is = {} THEN 0 ELSE 1
  <2>1. \A j \in DOMAIN flow : n(j, (Ins(j))') = IF j = i THEN n(j, Ins(j)) + 1 ELSE n(j, Ins(j))
    BY <1>2, InsGrow
  <2>2. \A j \in DOMAIN flow : rec[j].starts - rec[j].ends = n(j, Ins(j))
    BY <1>1 DEF Counted
  <2> HIDE DEF i
  <2>3. ASSUME NEW j \in DOMAIN flow  PROVE rec'[j].starts - rec'[j].ends = n(j, (Ins(j))')
    <3>1. rec[j].starts - rec[j].ends = n(j, Ins(j)) /\ n(j, (Ins(j))') = IF j = i THEN n(j, Ins(j)) + 1 ELSE n(j, Ins(j))
      BY <2>1, <2>2
    <3> HIDE DEF n
    <3>2. rec'[j].ends = rec[j].ends /\ rec'[j].starts = IF j = i THEN rec[j].starts + 1 ELSE rec[j].starts
      BY <1>2
    <3> QED  BY <1>4, <3>1, <3>2
  <2> QED  BY <1>2, <2>3 DEF Counted
<1>7. i \in Runnable
  BY <1>2 DEF Due
<1> HIDE DEF i
<1>8. Busy'
  <2> SUFFICES ASSUME NEW c \in Branches, doing'[c] # "next"
               PROVE  /\ at[c] \in Runnable
                      /\ ~flow[at[c]].fan => \A d \in Branches : at[d] = at[c] /\ doing'[d] = doing'[c]
    BY <1>2, <1>5 DEF Busy
  <2>1. CASE c \in With(b)
    BY <1>2, <1>3, <1>7, <2>1
  <2>2. CASE c \notin With(b)
    <3>1. at[c] \in Runnable /\ (~flow[at[c]].fan => \A d \in Branches : at[d] = at[c] /\ doing[d] = doing[c])
      BY <1>1, <1>2, <2>2 DEF Busy
    <3>2. flow[at[c]].fan
      BY <1>2, <2>2, <3>1
    <3> QED  BY <3>1, <3>2
  <2> QED  BY <2>1, <2>2
<1>9. Repairs'
  <2> SUFFICES ASSUME NEW c \in Branches, doing'[c] # "next", flow[at[c]].only_if = "red"
               PROVE  red[c] # 0 /\ flow[at[c]].loops_to = flow[red[c]].id
    BY <1>2 DEF Repairs
  <2>1. CASE c \in With(b)
    <3>1. at[c] = i
      BY <1>3, <2>1
    <3>4. flow[i].only_if = "red"
      BY <3>1
    <3>2. red[b] # 0 /\ flow[i].loops_to = flow[red[b]].id
      BY <1>2, <3>4 DEF Due, i
    <3>3. red[c] = red[b]
      <4>1. CASE flow[i].fan
        BY <1>3, <2>1, <4>1
      <4>2. CASE ~flow[i].fan
        <5>1. ~flow[red[b]].fan
          BY <1>1, <3>2, <4>2, ZoneIs DEF i
        <5> QED  BY <1>1, <3>2, <5>1 DEF RedTold
      <4> QED  BY <4>1, <4>2
    <3> QED  BY <3>1, <3>2, <3>3
  <2>2. CASE c \notin With(b)
    BY <1>1, <1>2, <2>2 DEF Repairs
  <2> QED  BY <2>1, <2>2
<1>10. RedTold'
  <2>1. \A c \in Branches : red[c] # 0 => red[c] \in DOMAIN flow
    BY <1>1, <1>4 DEF RedTold
  <2>2. \A c \in Branches : red[c] # 0 =>
          rec'[red[c]].verdicts[IF flow[red[c]].fan THEN c ELSE Trunk] = rec[red[c]].verdicts[IF flow[red[c]].fan THEN c ELSE Trunk]
    BY <1>2, <2>1
  <2> QED  BY <1>1, <1>2, <1>5, <2>2 DEF RedTold
<1>11. Green'
  BY <1>1, <1>2 DEF Green
<1>12. \A j \in DOMAIN flow : rec[j].starts > 0 => rec'[j].starts > 0
  BY <1>2, <1>4
<1>13. Begun'
  <2> SUFFICES ASSUME NEW c \in Branches, NEW j \in DOMAIN flow, Own(j), j < at[c] \/ (j = at[c] /\ doing'[c] # "next")
               PROVE  rec'[j].starts > 0
    BY <1>2, <1>5 DEF Begun
  <2>1. CASE j = i
    BY <1>2, <1>4, <2>1
  <2>2. CASE j # i
    <3>1. j < at[c] \/ (j = at[c] /\ doing[c] # "next")
      BY <1>2, <1>3, <2>2
    <3> QED  BY <1>1, <1>12, <3>1 DEF Begun
  <2> QED  BY <2>1, <2>2
<1>14. Reached'
  <2> SUFFICES ASSUME NEW k \in Forward, NEW j \in DOMAIN flow, rec'[k].starts > 0, Own(j), j < k
               PROVE  rec'[j].starts > 0
    BY <1>2, <1>5 DEF Reached
  <2>1. k \in DOMAIN flow
    BY <1>4
  <2>2. CASE k = i
    <3>1. rec[j].starts > 0
      BY <1>1, <2>2 DEF Begun, i
    <3> QED  BY <1>12, <3>1
  <2>3. CASE k # i
    <3>1. rec[k].starts > 0
      BY <1>2, <2>1, <2>3
    <3> QED  BY <1>1, <1>12, <3>1 DEF Reached
  <2> QED  BY <2>2, <2>3
<1>15. Untold'
  <2>1. ASSUME NEW c \in Branches, doing'[c] # "next"  PROVE rec'[at[c]].starts > 0
    <3>1. CASE c \in With(b)
      BY <1>2, <1>3, <1>4, <3>1
    <3>2. CASE c \notin With(b)
      <4>1. rec[at[c]].starts > 0 /\ at[c] \in DOMAIN flow
        BY <1>1, <1>2, <1>4, <2>1, <3>2 DEF Untold, Busy
      <4> QED  BY <1>12, <4>1
    <3> QED  BY <3>1, <3>2
  <2>2. ASSUME NEW j \in DOMAIN flow, rec'[j].starts = 0  PROVE rec[j].starts = 0
    BY <1>2, <1>4, <2>2
  <2> QED  BY <1>1, <1>2, <2>1, <2>2 DEF Untold
<1> QED  BY <1>2, <1>6, <1>8, <1>9, <1>10, <1>11, <1>13, <1>14, <1>15 DEF IInv

\* The record of a phase that ends.
LEMMA EndedIs ==
  ASSUME Typed, NEW i \in DOMAIN flow, NEW bad \in BOOLEAN
  PROVE  LET r == [[rec[i] EXCEPT !.ends = rec[i].ends + 1] EXCEPT !.failed = bad]
         IN  r \in Recs /\ r.starts = rec[i].starts /\ r.ends = rec[i].ends + 1 /\ r.verdicts = rec[i].verdicts
<1>1. rec[i] \in Recs
  BY DEF Typed
<1>2. \A r \in Recs : [r EXCEPT !.ends = r.ends + 1] \in Recs
                      /\ [r EXCEPT !.ends = r.ends + 1].starts = r.starts
                      /\ [r EXCEPT !.ends = r.ends + 1].ends = r.ends + 1
                      /\ [r EXCEPT !.ends = r.ends + 1].verdicts = r.verdicts
  BY DEF Recs
<1>3. \A r \in Recs : [r EXCEPT !.failed = bad] \in Recs
                      /\ [r EXCEPT !.failed = bad].starts = r.starts
                      /\ [r EXCEPT !.failed = bad].ends = r.ends
                      /\ [r EXCEPT !.failed = bad].verdicts = r.verdicts
  BY DEF Recs
<1> DEFINE q == [rec[i] EXCEPT !.ends = rec[i].ends + 1]
<1>4. q \in Recs /\ q.starts = rec[i].starts /\ q.ends = rec[i].ends + 1 /\ q.verdicts = rec[i].verdicts
  BY <1>1, <1>2
<1> HIDE DEF q
<1>5. LET r == [q EXCEPT !.failed = bad]
      IN  r \in Recs /\ r.starts = rec[i].starts /\ r.ends = rec[i].ends + 1 /\ r.verdicts = rec[i].verdicts
  BY <1>3, <1>4
<1> QED  BY <1>5 DEF q

\* Who is in a phase is one less of the branches, or none.
LEMMA InsShrink ==
  ASSUME IInv, NEW b \in Branches, At(b), doing[b] = "in", at' = at,
         \A c \in Branches : doing'[c] = IF c \in With(b) THEN "over" ELSE doing[c]
  PROVE  \A j \in DOMAIN flow :
           LET n(is) == IF flow[j].fan THEN Cardinality(is) ELSE IF is = {} THEN 0 ELSE 1
           IN  n((Ins(j))') = IF j = at[b] THEN n(Ins(j)) - 1 ELSE n(Ins(j))
<1>1. Typed /\ Busy
  BY DEF IInv
<1>2. /\ at[b] \in DOMAIN flow /\ b \in With(b) /\ With(b) \subseteq Branches
      /\ \A c \in With(b) : at[c] = at[b]
      /\ flow[at[b]].fan => With(b) = {b}
      /\ ~flow[at[b]].fan => With(b) = Branches
  BY <1>1, WithIs
<1>3. \A c \in With(b) : doing[c] = "in"
  BY <1>1, WithBusy
<1> SUFFICES ASSUME NEW j \in DOMAIN flow
             PROVE  LET n(is) == IF flow[j].fan THEN Cardinality(is) ELSE IF is = {} THEN 0 ELSE 1
                    IN  n((Ins(j))') = IF j = at[b] THEN n(Ins(j)) - 1 ELSE n(Ins(j))
  OBVIOUS
<1>4. CASE j # at[b]
  <2>1. (Ins(j))' = Ins(j)
    BY <1>2, <1>3, <1>4 DEF Ins
  <2> QED  BY <1>4, <2>1
<1>5. CASE j = at[b] /\ flow[j].fan
  <2>1. (Ins(j))' = Ins(j) \ {b}
    BY <1>2, <1>5 DEF Ins
  <2>2. b \in Ins(j)
    BY <1>5 DEF Ins
  <2>3. IsFiniteSet(Ins(j))
    <3>1. Ins(j) \subseteq Branches
      BY DEF Ins
    <3> QED  BY <3>1, BoundAssumption, FS_Subset
  <2>4. Cardinality((Ins(j))') = Cardinality(Ins(j)) - 1
    BY <2>1, <2>2, <2>3, FS_RemoveElement
  <2> QED  BY <1>5, <2>4
<1>6. CASE j = at[b] /\ ~flow[j].fan
  <2>1. b \in Ins(j)
    BY <1>6 DEF Ins
  <2>2. (Ins(j))' = {}
    BY <1>2, <1>6 DEF Ins
  <2> QED  BY <1>6, <2>1, <2>2
<1> QED  BY <1>4, <1>5, <1>6

\* What an end does.
LEMMA EndsIs ==
  ASSUME IInv, NEW b \in Branches, NEW bad \in BOOLEAN, PhaseEnds(b, bad)
  PROVE  /\ flow' = flow /\ replay' = replay /\ at' = at /\ red' = red
         /\ \A c \in Branches : doing'[c] = IF c \in With(b) THEN "over" ELSE doing[c]
         /\ At(b) /\ doing[b] = "in" /\ Typed'
         /\ \A j \in DOMAIN flow : rec'[j].starts = rec[j].starts /\ rec'[j].verdicts = rec[j].verdicts
                                   /\ rec'[j].ends = IF j = at[b] THEN rec[j].ends + 1 ELSE rec[j].ends
<1>1. Typed
  BY DEF IInv
<1>2. flow' = flow /\ replay' = replay /\ at' = at /\ red' = red /\ At(b) /\ doing[b] = "in"
  BY DEF PhaseEnds
<1>3. doing' = [c \in Branches |-> IF c \in With(b) THEN "over" ELSE doing[c]]
  BY DEF PhaseEnds, Moved
<1>4. at[b] \in DOMAIN flow
  BY <1>1, <1>2, WithIs
<1> DEFINE r == [[rec[at[b]] EXCEPT !.ends = rec[at[b]].ends + 1] EXCEPT !.failed = bad]
<1>5. r \in Recs /\ r.starts = rec[at[b]].starts /\ r.ends = rec[at[b]].ends + 1 /\ r.verdicts = rec[at[b]].verdicts
  BY <1>1, <1>4, EndedIs
<1>6. rec' = [rec EXCEPT ![at[b]] = r]
  <2>1. rec \in [DOMAIN flow -> Recs]
    BY <1>1 DEF Typed
  <2>2. rec' = [rec EXCEPT ![at[b]].ends = @ + 1, ![at[b]].failed = bad]
    BY DEF PhaseEnds
  <2> QED  BY <1>4, <2>1, <2>2
<1> HIDE DEF r
<1>7. rec \in [DOMAIN flow -> Recs] /\ rec' \in [DOMAIN flow -> Recs]
  BY <1>1, <1>4, <1>5, <1>6 DEF Typed
<1>8. Forward' = Forward
  BY <1>2, FlowStays
<1>9. doing' \in [Branches -> {"next", "in", "over"}]
  BY <1>1, <1>3 DEF Typed
<1>10. Typed'
  BY <1>1, <1>2, <1>7, <1>8, <1>9 DEF Typed
<1>11. \A j \in DOMAIN flow : rec'[j].starts = rec[j].starts /\ rec'[j].verdicts = rec[j].verdicts
                              /\ rec'[j].ends = IF j = at[b] THEN rec[j].ends + 1 ELSE rec[j].ends
  BY <1>4, <1>5, <1>6, <1>7
<1> QED  BY <1>2, <1>3, <1>10, <1>11

\* And what it keeps: it changes nothing but who is in the phase.
LEMMA EndsKeep ==
  ASSUME IInv, NEW b \in Branches, NEW bad \in BOOLEAN, PhaseEnds(b, bad)
  PROVE  IInv'
<1> DEFINE i == at[b]
<1>1. Typed /\ Counted /\ Busy /\ Repairs /\ RedTold /\ Green /\ Begun /\ Reached /\ Untold /\ flow \in Flows
  BY DEF IInv, Typed
<1>2. /\ flow' = flow /\ replay' = replay /\ at' = at /\ red' = red
      /\ \A c \in Branches : doing'[c] = IF c \in With(b) THEN "over" ELSE doing[c]
      /\ At(b) /\ doing[b] = "in" /\ Typed'
      /\ \A j \in DOMAIN flow : rec'[j].starts = rec[j].starts /\ rec'[j].verdicts = rec[j].verdicts
                                /\ rec'[j].ends = IF j = i THEN rec[j].ends + 1 ELSE rec[j].ends
  BY EndsIs
<1>3. /\ i \in DOMAIN flow /\ i \in Nat /\ b \in With(b) /\ With(b) \subseteq Branches
      /\ flow[i].fan => With(b) = {b}
      /\ ~flow[i].fan => With(b) = Branches
  BY <1>1, <1>2, WithIs
<1>4. DOMAIN flow = 1 .. Len(flow) /\ Len(flow) \in Nat /\ Runnable \subseteq DOMAIN flow /\ Forward \subseteq Runnable
      /\ \A j \in DOMAIN flow : rec[j].starts \in Nat /\ rec[j].ends \in Nat
  BY <1>1, FlowIs, ForwardIs, RecIs
<1>5. Runnable' = Runnable /\ Forward' = Forward /\ \A j : (Own(j))' <=> Own(j)
  BY <1>2, FlowStays
<1>6. Counted'
  <2> DEFINE n(j, is) == IF flow[j].fan THEN Cardinality(is) ELSE IF is = {} THEN 0 ELSE 1
  <2>1. \A j \in DOMAIN flow : n(j, (Ins(j))') = IF j = i THEN n(j, Ins(j)) - 1 ELSE n(j, Ins(j))
    BY <1>2, InsShrink
  <2>2. \A j \in DOMAIN flow : rec[j].starts - rec[j].ends = n(j, Ins(j))
    BY <1>1 DEF Counted
  <2> HIDE DEF i
  <2>3. ASSUME NEW j \in DOMAIN flow  PROVE rec'[j].starts - rec'[j].ends = n(j, (Ins(j))')
    <3>1. rec[j].starts - rec[j].ends = n(j, Ins(j)) /\ n(j, (Ins(j))') = IF j = i THEN n(j, Ins(j)) - 1 ELSE n(j, Ins(j))
      BY <2>1, <2>2
    <3> HIDE DEF n
    <3>2. rec'[j].starts = rec[j].starts /\ rec'[j].ends = IF j = i THEN rec[j].ends + 1 ELSE rec[j].ends
      BY <1>2
    <3> QED  BY <1>4, <3>1, <3>2
  <2> QED  BY <1>2, <2>3 DEF Counted
<1>7. \A c \in Branches : doing'[c] # "next" <=> doing[c] # "next"
  BY <1>1, <1>2, WithBusy
<1>8. Busy'
  <2> SUFFICES ASSUME NEW c \in Branches, doing'[c] # "next"
               PROVE  /\ at[c] \in Runnable
                      /\ ~flow[at[c]].fan => \A d \in Branches : at[d] = at[c] /\ doing'[d] = doing'[c]
    BY <1>2, <1>5 DEF Busy
  <2>1. at[c] \in Runnable /\ (~flow[at[c]].fan => \A d \in Branches : at[d] = at[c] /\ doing[d] = doing[c])
    BY <1>1, <1>7 DEF Busy
  <2>2. ASSUME ~flow[at[c]].fan  PROVE With(b) = Branches
    BY <1>3, <2>1, <2>2
  <2> QED  BY <1>2, <2>1, <2>2
<1> HIDE DEF i
<1>9. Repairs'
  BY <1>1, <1>2, <1>7 DEF Repairs
<1>10. RedTold'
  <2>1. \A c \in Branches : red[c] # 0 => red[c] \in DOMAIN flow
    BY <1>1, <1>4 DEF RedTold
  <2>2. \A c \in Branches : red[c] # 0 =>
          rec'[red[c]].verdicts[IF flow[red[c]].fan THEN c ELSE Trunk] = rec[red[c]].verdicts[IF flow[red[c]].fan THEN c ELSE Trunk]
    BY <1>2, <2>1
  <2> QED  BY <1>1, <1>2, <1>5, <2>2 DEF RedTold
<1>11. Green'
  BY <1>1, <1>2 DEF Green
<1>12. Begun'
  BY <1>1, <1>2, <1>5, <1>7 DEF Begun
<1>13. Reached'
  BY <1>1, <1>2, <1>4, <1>5 DEF Reached
<1>14. Untold'
  <2>1. \A c \in Branches : doing[c] # "next" => at[c] \in DOMAIN flow
    BY <1>1, <1>4 DEF Busy
  <2> QED  BY <1>1, <1>2, <1>7, <2>1 DEF Untold
<1> QED  BY <1>2, <1>6, <1>8, <1>9, <1>10, <1>11, <1>12, <1>13, <1>14 DEF IInv

-----------------------------------------------------------------------------
(* A phase that ended is judged, or not                                    *)

\* The record of a phase that somebody is told a verdict of.
Told(i, x, v) == [rec[i] EXCEPT !.verdicts = [rec[i].verdicts EXCEPT ![x] = v]]
LEMMA ToldNow ==
  ASSUME Typed, NEW i \in DOMAIN flow, NEW x \in Places, NEW v \in Verdicts
  PROVE  Told(i, x, v) \in Recs /\ Told(i, x, v).starts = rec[i].starts /\ Told(i, x, v).ends = rec[i].ends
         /\ \A w \in Places : Told(i, x, v).verdicts[w] = IF w = x THEN v ELSE rec[i].verdicts[w]
<1>1. rec[i] \in Recs
  BY DEF Typed
<1>2. rec[i].verdicts \in [Places -> Verdicts \cup {Blank}]
  BY <1>1 DEF Recs
<1> DEFINE q == [rec[i].verdicts EXCEPT ![x] = v]
<1>3. q \in [Places -> Verdicts \cup {Blank}] /\ \A w \in Places : q[w] = IF w = x THEN v ELSE rec[i].verdicts[w]
  BY <1>2
<1>4. \A r \in Recs, u \in [Places -> Verdicts \cup {Blank}] :
         LET t == [r EXCEPT !.verdicts = u]
         IN  t \in Recs /\ t.starts = r.starts /\ t.ends = r.ends /\ t.verdicts = u
  BY DEF Recs
<1> HIDE DEF q
<1>5. LET r == [rec[i] EXCEPT !.verdicts = q]
      IN  r \in Recs /\ r.starts = rec[i].starts /\ r.ends = rec[i].ends /\ r.verdicts = q
  BY <1>1, <1>3, <1>4
<1>6. LET r == [rec[i] EXCEPT !.verdicts = q]
      IN  r \in Recs /\ r.starts = rec[i].starts /\ r.ends = rec[i].ends
          /\ \A w \in Places : r.verdicts[w] = IF w = x THEN v ELSE rec[i].verdicts[w]
  BY <1>3, <1>5
<1> QED  BY <1>6 DEF q, Told

\* Where a branch goes from there: on, or from a repair back to its gate.
Onward(b) == IF forwardPhase(at[b]) THEN at[b] + 1 ELSE red[b]
LEMMA OnwardIs ==
  ASSUME IInv, NEW b \in Branches, At(b), doing[b] = "over"
  PROVE  /\ at[b] \in Runnable /\ Onward(b) \in 1 .. Len(flow) + 1
         /\ \/ flow[at[b]].only_if # "red" /\ Onward(b) = at[b] + 1
            \/ ~Answered(at[b]) /\ red[b] # 0 /\ Onward(b) = red[b] /\ red[b] < at[b]
<1>1. Typed /\ Busy /\ Repairs /\ RedTold /\ flow \in Flows
  BY DEF IInv, Typed
<1>2. at[b] \in Runnable
  BY <1>1 DEF Busy
<1>3. DOMAIN flow = 1 .. Len(flow) /\ Len(flow) \in Nat /\ Runnable \subseteq DOMAIN flow /\ at[b] \in DOMAIN flow
      /\ (forwardPhase(at[b]) <=> flow[at[b]].only_if # "red")
  BY <1>1, <1>2, FlowIs, ForwardIs
<1>4. CASE flow[at[b]].only_if # "red"
  <2>1. Onward(b) = at[b] + 1
    BY <1>3, <1>4 DEF Onward
  <2> QED  BY <1>2, <1>3, <1>4, <2>1
<1>5. CASE flow[at[b]].only_if = "red"
  <2>1. Onward(b) = red[b]
    BY <1>3, <1>5 DEF Onward
  <2>2. red[b] # 0
    BY <1>1, <1>5 DEF Repairs
  <2>3. red[b] \in Runnable /\ red[b] < at[b]
    BY <1>1, <2>2 DEF RedTold
  <2>4. ~Answered(at[b])
    BY <1>1, <1>3, <1>5, GateIs DEF Answered
  <2> QED  BY <1>2, <1>3, <2>1, <2>2, <2>3, <2>4
<1> QED  BY <1>4, <1>5

\* What it does.
LEMMA JudgedIs ==
  ASSUME IInv, NEW b \in Branches, NEW v \in Verdicts \cup {Blank}, Judged(b, v)
  PROVE  /\ flow' = flow /\ replay' = replay /\ At(b) /\ doing[b] = "over" /\ Typed'
         /\ \A c \in Branches : /\ doing'[c] = IF c \in With(b) THEN "next" ELSE doing[c]
                                /\ at'[c] = IF c \in With(b) THEN Onward(b) ELSE at[c]
                                /\ red'[c] = IF c \in With(b) THEN (IF v \in {"red", "blocked"} /\ Answered(at[b]) THEN at[b] ELSE 0) ELSE red[c]
         /\ \A j \in DOMAIN flow :
              /\ rec'[j].starts = rec[j].starts /\ rec'[j].ends = rec[j].ends
              /\ \A w \in Places : rec'[j].verdicts[w] =
                   IF j = at[b] /\ w = Name(b) /\ v # Blank THEN v ELSE rec[j].verdicts[w]
<1>1. Typed
  BY DEF IInv
<1>2. /\ flow' = flow /\ replay' = replay /\ At(b) /\ doing[b] = "over"
  BY Zenon DEF Judged, Blank
<1>3. /\ doing' = [c \in Branches |-> IF c \in With(b) THEN "next" ELSE doing[c]]
      /\ at' = [c \in Branches |-> IF c \in With(b) THEN Onward(b) ELSE at[c]]
      /\ red' = [c \in Branches |-> IF c \in With(b) THEN (IF v \in {"red", "blocked"} /\ Answered(at[b]) THEN at[b] ELSE 0) ELSE red[c]]
  BY Zenon DEF Judged, Moved, Onward
<1>4. rec' = IF v = Blank THEN rec ELSE [rec EXCEPT ![at[b]].verdicts[Name(b)] = v]
  BY Zenon DEF Judged, Blank
<1>5. at[b] \in DOMAIN flow /\ Onward(b) \in 1 .. Len(flow) + 1 /\ Len(flow) \in Nat /\ DOMAIN flow = 1 .. Len(flow)
  BY <1>1, <1>2, OnwardIs, WithIs, FlowIs DEF Typed
<1>6. Name(b) \in Places
  BY DEF Name, Places
<1> DEFINE r == Told(at[b], Name(b), v)
<1>7. rec \in [DOMAIN flow -> Recs]
  BY <1>1 DEF Typed
<1>8. /\ rec' \in [DOMAIN flow -> Recs]
      /\ \A j \in DOMAIN flow :
           /\ rec'[j].starts = rec[j].starts /\ rec'[j].ends = rec[j].ends
           /\ \A w \in Places : rec'[j].verdicts[w] =
                IF j = at[b] /\ w = Name(b) /\ v # Blank THEN v ELSE rec[j].verdicts[w]
  <2>1. CASE v = Blank
    BY <1>4, <1>7, <2>1
  <2>2. CASE v # Blank
    <3>1. v \in Verdicts
      BY <2>2
    <3>2. /\ r \in Recs /\ r.starts = rec[at[b]].starts /\ r.ends = rec[at[b]].ends
          /\ \A w \in Places : r.verdicts[w] = IF w = Name(b) THEN v ELSE rec[at[b]].verdicts[w]
      BY <1>1, <1>5, <1>6, <3>1, ToldNow
    <3>3. rec' = [rec EXCEPT ![at[b]] = r]
      BY <1>4, <2>2 DEF Told
    <3> HIDE DEF r
    <3> QED  BY <1>5, <1>7, <2>2, <3>2, <3>3
  <2> QED  BY <2>1, <2>2
<1>9. Forward' = Forward
  BY <1>2, FlowStays
<1>10. /\ doing' \in [Branches -> {"next", "in", "over"}]
       /\ at' \in [Branches -> 1 .. Len(flow) + 1] /\ red' \in [Branches -> 0 .. Len(flow)]
  <2>1. at[b] \in 0 .. Len(flow) /\ 0 \in 0 .. Len(flow)
    BY <1>5
  <2>2. /\ doing \in [Branches -> {"next", "in", "over"}]
        /\ at \in [Branches -> 1 .. Len(flow) + 1] /\ red \in [Branches -> 0 .. Len(flow)]
    BY <1>1 DEF Typed
  <2> QED  BY <1>3, <1>5, <2>1, <2>2
<1>11. Typed'
  BY <1>1, <1>2, <1>8, <1>9, <1>10 DEF Typed
<1> QED  BY <1>2, <1>3, <1>8, <1>11

\* And what it keeps: a gate that turns red has its repair before it, and one
\* that turns green was gone through by everybody.
LEMMA JudgedKeeps ==
  ASSUME IInv, NEW b \in Branches, NEW v \in Verdicts \cup {Blank}, Judged(b, v)
  PROVE  IInv'
<1> DEFINE i == at[b]
           to == Onward(b)
<1>1. Typed /\ Counted /\ Busy /\ Repairs /\ RedTold /\ Green /\ Begun /\ Reached /\ Untold /\ flow \in Flows
  BY DEF IInv, Typed
<1>2. /\ flow' = flow /\ replay' = replay /\ At(b) /\ doing[b] = "over" /\ Typed'
      /\ \A c \in Branches : /\ doing'[c] = IF c \in With(b) THEN "next" ELSE doing[c]
                             /\ at'[c] = IF c \in With(b) THEN to ELSE at[c]
                             /\ red'[c] = IF c \in With(b) THEN (IF v \in {"red", "blocked"} /\ Answered(i) THEN i ELSE 0) ELSE red[c]
      /\ \A j \in DOMAIN flow :
           /\ rec'[j].starts = rec[j].starts /\ rec'[j].ends = rec[j].ends
           /\ \A w \in Places : rec'[j].verdicts[w] =
                IF j = i /\ w = Name(b) /\ v # Blank THEN v ELSE rec[j].verdicts[w]
  BY JudgedIs
<1>3. /\ i \in DOMAIN flow /\ i \in Nat /\ b \in With(b) /\ With(b) \subseteq Branches
      /\ \A c \in With(b) : at[c] = i
      /\ flow[i].fan => With(b) = {b}
      /\ ~flow[i].fan => With(b) = Branches
  BY <1>1, <1>2, WithIs
<1>4. DOMAIN flow = 1 .. Len(flow) /\ Len(flow) \in Nat /\ Runnable \subseteq DOMAIN flow
  BY <1>1, FlowIs
<1>5. Runnable' = Runnable /\ Forward' = Forward /\ \A j : (Own(j))' <=> Own(j)
  BY <1>2, FlowStays
<1>6. \A c \in With(b) : doing[c] = "over"
  BY <1>1, <1>2, WithBusy
<1>7. \A c \in Branches : at[c] \in Nat
  BY <1>1, <1>4 DEF Typed
<1>8. /\ i \in Runnable /\ to \in Nat
      /\ \/ flow[i].only_if # "red" /\ to = i + 1
         \/ ~Answered(i) /\ red[b] # 0 /\ to = red[b] /\ red[b] < i
  BY <1>1, <1>2, <1>4, OnwardIs
<1>9. Name(b) = (IF flow[i].fan THEN b ELSE Trunk) /\ Trunk \notin Branches /\ Blank \notin {"red", "blocked"}
  BY FlowsAssumption, Zenon DEF Name, Blank
<1> HIDE DEF i, to
<1>10. Counted'
  <2>1. \A j : (Ins(j))' = Ins(j)
    <3>1. \A c \in Branches : (doing'[c] = "in" <=> doing[c] = "in") /\ (doing[c] = "in" => at'[c] = at[c])
      BY <1>2, <1>6
    <3> QED  BY <3>1, InsStay
  <2> QED  BY <1>1, <1>2, <2>1 DEF Counted
<1>11. Busy'
  <2> SUFFICES ASSUME NEW c \in Branches, doing'[c] # "next"
               PROVE  /\ at'[c] \in Runnable
                      /\ ~flow[at'[c]].fan => \A d \in Branches : at'[d] = at'[c] /\ doing'[d] = doing'[c]
    BY <1>2, <1>5 DEF Busy
  <2>1. c \notin With(b) /\ at'[c] = at[c] /\ doing'[c] = doing[c]
    BY <1>2
  <2>2. at[c] \in Runnable /\ (~flow[at[c]].fan => \A d \in Branches : at[d] = at[c] /\ doing[d] = doing[c])
    BY <1>1, <2>1 DEF Busy
  <2>3. flow[at[c]].fan
    BY <1>3, <2>1, <2>2 DEF i
  <2> QED  BY <2>1, <2>2, <2>3
<1>12. Repairs'
  <2> SUFFICES ASSUME NEW c \in Branches, doing'[c] # "next", flow[at'[c]].only_if = "red"
               PROVE  red'[c] # 0 /\ flow[at'[c]].loops_to = flow[red'[c]].id
    BY <1>2 DEF Repairs
  <2>1. c \notin With(b)
    BY <1>2
  <2> QED  BY <1>1, <1>2, <2>1 DEF Repairs
<1>13. RedTold'
  <2> SUFFICES ASSUME NEW c \in Branches, NEW g, g = red'[c], g # 0
               PROVE  /\ g \in Runnable /\ flow[g].only_if # "red" /\ g < at'[c]
                      /\ rec'[g].verdicts[IF flow[g].fan THEN c ELSE Trunk] \in {"red", "blocked"}
                      /\ \E k \in Runnable : flow[k].loops_to = flow[g].id /\ at'[c] <= k
                      /\ ~flow[g].fan => \A d \in Branches : red'[d] = g /\ at'[d] = at'[c]
    BY <1>2, <1>5 DEF RedTold
  <2>1. CASE c \in With(b)
    <3>1. g = i /\ v \in {"red", "blocked"} /\ Answered(i) /\ v # Blank
      BY <1>2, <1>9, <2>1
    <3>2. at'[c] = i + 1 /\ flow[i].only_if # "red" /\ to = i + 1
      BY <1>2, <1>8, <2>1, <3>1
    <3>3. PICK k \in Runnable : flow[k].loops_to = flow[i].id
      BY <3>1 DEF Answered
    <3>4. i < k /\ k \in Nat
      BY <1>1, <1>3, <1>4, <3>3, GateIs
    <3>5. (IF flow[i].fan THEN c ELSE Trunk) = Name(b) /\ Name(b) \in Places
      BY <1>3, <1>9, <2>1 DEF Places
    <3>6. rec'[i].verdicts[IF flow[i].fan THEN c ELSE Trunk] = v
      BY <1>2, <1>3, <3>1, <3>5
    <3>7. ~flow[i].fan => \A d \in Branches : red'[d] = i /\ at'[d] = at'[c]
      BY <1>2, <1>3, <2>1, <3>1
    <3>8. at'[c] <= k /\ i < at'[c]
      BY <1>3, <3>2, <3>4
    <3> QED  BY <1>8, <3>1, <3>2, <3>3, <3>6, <3>7, <3>8
  <2>2. CASE c \notin With(b)
    <3>1. g = red[c] /\ at'[c] = at[c]
      BY <1>2, <2>2
    <3>2. /\ g \in Runnable /\ flow[g].only_if # "red" /\ g < at[c]
          /\ rec[g].verdicts[IF flow[g].fan THEN c ELSE Trunk] \in {"red", "blocked"}
          /\ \E k \in Runnable : flow[k].loops_to = flow[g].id /\ at[c] <= k
          /\ ~flow[g].fan => \A d \in Branches : red[d] = g /\ at[d] = at[c]
      BY <1>1, <3>1 DEF RedTold
    <3>3. flow[at[c]].fan = flow[g].fan
      BY <1>1, <3>1, ZoneIs
    <3>4. flow[i].fan /\ c # b
      BY <1>3, <2>2
    <3>5. flow[g].fan
      BY <3>2, <3>3, <3>4 DEF i
    <3>6. rec'[g].verdicts[c] = rec[g].verdicts[c]
      BY <1>2, <1>4, <1>9, <3>2, <3>4 DEF Places
    <3> QED  BY <3>1, <3>2, <3>5, <3>6
  <2> QED  BY <2>1, <2>2
<1>14. Green'
  <2> SUFFICES ASSUME NEW j \in DOMAIN flow, ~flow[j].fan
               PROVE  /\ \A c \in Branches : rec'[j].verdicts[c] = Blank
                      /\ rec'[j].verdicts[Trunk] = "green" /\ flow[j].only_if # "red" =>
                           \A c \in Branches : j < at'[c] /\ (red'[c] # 0 => j < red'[c])
    BY <1>2 DEF Green
  <2>1. ASSUME NEW c \in Branches  PROVE rec'[j].verdicts[c] = Blank
    <3>1. rec[j].verdicts[c] = Blank
      BY <1>1 DEF Green
    <3>2. ~(j = i /\ c = Name(b))
      BY <1>9
    <3> QED  BY <1>2, <3>1, <3>2 DEF Places
  <2>2. ASSUME rec'[j].verdicts[Trunk] = "green", flow[j].only_if # "red", NEW c \in Branches
        PROVE  j < at'[c] /\ (red'[c] # 0 => j < red'[c])
    <3>1. rec'[j].verdicts[Trunk] = IF j = i /\ Trunk = Name(b) /\ v # Blank THEN v ELSE rec[j].verdicts[Trunk]
      BY <1>2 DEF Places
    <3>2. CASE rec[j].verdicts[Trunk] = "green" /\ ~(j = i /\ v # Blank)
      <4>1. j < at[c] /\ (red[c] # 0 => j < red[c]) /\ j < at[b] /\ (red[b] # 0 => j < red[b])
        BY <1>1, <2>2, <3>2 DEF Green
      <4>2. CASE c \notin With(b)
        BY <1>2, <4>1, <4>2
      <4>3. CASE c \in With(b)
        <5>1. at'[c] = to /\ (red'[c] = i \/ red'[c] = 0) /\ j \in Nat
          BY <1>2, <1>4, <4>3
        <5>2. j < i
          BY <4>1 DEF i
        <5>3. j < to
          BY <1>3, <1>4, <1>8, <4>1, <5>1, <5>2
        <5> QED  BY <5>1, <5>2, <5>3
      <4> QED  BY <4>2, <4>3
    <3>3. CASE j = i /\ v # Blank
      <4>1. With(b) = Branches /\ Trunk = Name(b)
        BY <1>3, <1>9, <3>3
      <4>2. v = "green"
        BY <2>2, <3>1, <3>3, <4>1
      <4>3. at'[c] = to /\ red'[c] = 0
        BY <1>2, <4>1, <4>2
      <4>4. to = i + 1
        BY <1>1, <1>2, <1>3, <2>2, <3>3, OnwardIs, ForwardIs DEF to, Onward, i
      <4> QED  BY <1>3, <3>3, <4>3, <4>4
    <3>4. ~(j = i /\ v # Blank) => rec[j].verdicts[Trunk] = "green"
      BY <2>2, <3>1
    <3> QED  BY <3>2, <3>3, <3>4
  <2> QED  BY <2>1, <2>2
<1>15. Begun'
  <2> SUFFICES ASSUME NEW c \in Branches, NEW j \in DOMAIN flow, Own(j), j < at'[c] \/ (j = at'[c] /\ doing'[c] # "next")
               PROVE  rec'[j].starts > 0
    BY <1>2, <1>5 DEF Begun
  <2>1. CASE c \in With(b)
    <3>1. j < to /\ j \in Nat
      BY <1>2, <1>4, <2>1
    <3>2. j < i \/ j = i
      BY <1>3, <1>4, <1>8, <3>1
    <3>3. doing[b] # "next"
      BY <1>2
    <3>4. rec[j].starts > 0
      BY <1>1, <3>2, <3>3 DEF Begun, i
    <3> QED  BY <1>2, <3>4
  <2>2. CASE c \notin With(b)
    <3>1. rec[j].starts > 0
      BY <1>1, <1>2, <2>2 DEF Begun
    <3> QED  BY <1>2, <3>1
  <2> QED  BY <2>1, <2>2
<1>16. Reached'
  <2>1. Forward \subseteq DOMAIN flow
    BY <1>1, ForwardIs
  <2> QED  BY <1>1, <1>2, <1>5, <2>1 DEF Reached
<1>17. Untold'
  <2>1. ASSUME NEW c \in Branches, doing'[c] # "next"  PROVE rec'[at'[c]].starts > 0
    <3>1. c \notin With(b) /\ at'[c] = at[c] /\ doing[c] # "next"
      BY <1>2, <2>1
    <3>2. rec[at[c]].starts > 0 /\ at[c] \in DOMAIN flow
      BY <1>1, <1>4, <3>1 DEF Untold, Busy
    <3> QED  BY <1>2, <3>1, <3>2
  <2>2. rec[i].starts > 0
    BY <1>1, <1>2 DEF Untold, i
  <2>3. ASSUME NEW j \in DOMAIN flow, rec'[j].starts = 0, NEW w \in Places  PROVE rec'[j].verdicts[w] = Blank
    <3>1. rec[j].starts = 0 /\ j # i
      BY <1>2, <2>2, <2>3
    <3>2. rec[j].verdicts[w] = Blank
      BY <1>1, <3>1 DEF Untold
    <3> QED  BY <1>2, <3>1, <3>2
  <2> QED  BY <1>2, <2>1, <2>3 DEF Untold
<1> QED  BY <1>2, <1>10, <1>11, <1>12, <1>13, <1>14, <1>15, <1>16, <1>17 DEF IInv

-----------------------------------------------------------------------------
(* Theorems                                                                *)

\* Where every run begins.
LEMMA InitHolds == Init => IInv
<1> SUFFICES ASSUME Init  PROVE IInv
  OBVIOUS
<1>1. /\ flow \in Flows /\ replay \in {0} \cup Forward
      /\ at = [b \in Branches |-> 1]
      /\ doing = [b \in Branches |-> "next"] /\ red = [b \in Branches |-> 0]
      /\ rec = [i \in DOMAIN flow |-> Unread]
  BY Zenon DEF Init
<1>2. DOMAIN flow = 1 .. Len(flow) /\ Len(flow) \in Nat /\ Forward \subseteq DOMAIN flow
      /\ \A i \in DOMAIN flow : flow[i].fan \in BOOLEAN
  BY <1>1, FlowIs, ForwardIs
<1>3. Unread = [starts |-> 0, ends |-> 0, failed |-> FALSE, verdicts |-> [w \in Places |-> Blank]]
  BY Zenon DEF Unread, Blank
<1>4. Unread \in Recs /\ Unread.starts = 0 /\ Unread.ends = 0 /\ \A w \in Places : Unread.verdicts[w] = Blank
  BY <1>3, BoundAssumption DEF Recs
<1>5. \A i \in DOMAIN flow : rec[i] = Unread
  BY <1>1
<1>6. \A b \in Branches : doing[b] = "next" /\ red[b] = 0 /\ at[b] = 1
  BY <1>1
<1>7. Typed
  <2>1. rec \in [DOMAIN flow -> Recs]
    BY <1>1, <1>4
  <2>2. 1 \in 1 .. Len(flow) + 1 /\ 0 \in 0 .. Len(flow)
    BY <1>2
  <2> QED  BY <1>1, <1>2, <2>1, <2>2 DEF Typed
<1>8. Counted
  <2>1. \A i : Ins(i) = {}
    BY <1>6 DEF Ins
  <2>2. Cardinality({}) = 0
    BY FS_EmptySet
  <2>3. \A i \in DOMAIN flow : rec[i].starts - rec[i].ends = 0
    BY <1>4, <1>5
  <2>4. ASSUME NEW i \in DOMAIN flow
        PROVE  0 = IF flow[i].fan THEN Cardinality(Ins(i)) ELSE IF Ins(i) = {} THEN 0 ELSE 1
    BY <2>1, <2>2
  <2> QED  BY <2>3, <2>4 DEF Counted
<1>9. Busy /\ Repairs /\ RedTold
  BY <1>6 DEF Busy, Repairs, RedTold
<1>10. Green
  <2>1. Blank # "green"
    BY Zenon DEF Blank
  <2>2. \A i \in DOMAIN flow : \A w \in Places : rec[i].verdicts[w] = Blank
    BY <1>4, <1>5
  <2> QED  BY <2>1, <2>2 DEF Green, Places
<1>11. Begun
  <2> SUFFICES ASSUME NEW b \in Branches, NEW j \in DOMAIN flow, Own(j), j < at[b]  PROVE FALSE
    BY <1>6 DEF Begun
  <2>1. j \in Nat /\ j > 0
    BY <1>2
  <2> QED  BY <1>6, <2>1
<1>12. Reached
  <2>1. \A i \in Forward : rec[i].starts = 0
    BY <1>2, <1>4, <1>5
  <2> QED  BY <2>1 DEF Reached
<1>13. Untold
  <2>1. \A i \in DOMAIN flow : \A w \in Places : rec[i].verdicts[w] = Blank
    BY <1>4, <1>5
  <2> QED  BY <1>6, <2>1 DEF Untold
<1> QED  BY <1>7, <1>8, <1>9, <1>10, <1>11, <1>12, <1>13 DEF IInv

\* Every step keeps it.
LEMMA StepKeeps == IInv /\ [Next]_vars => IInv'
<1> SUFFICES ASSUME IInv, [Next]_vars  PROVE IInv'
  OBVIOUS
<1>1. ASSUME NEW b \in Branches, PhaseStarts(b)  PROVE IInv'
  BY <1>1, StartsKeep
<1>2. ASSUME NEW b \in Branches, PhasePassed(b)  PROVE IInv'
  BY <1>2, PassedKeeps
<1>3. ASSUME NEW b \in Branches, NEW v \in Verdicts \cup {Blank}, Judged(b, v)  PROVE IInv'
  BY <1>3, JudgedKeeps
<1>4. ASSUME NEW b \in Branches, NEW bad \in BOOLEAN, PhaseEnds(b, bad)  PROVE IInv'
  BY <1>4, EndsKeep
<1>5. CASE UNCHANGED vars
  <2>1. /\ flow' = flow /\ replay' = replay /\ rec' = rec /\ at' = at /\ doing' = doing /\ red' = red
    BY <1>5 DEF vars
  <2>2. Runnable' = Runnable /\ Forward' = Forward /\ \A j : (Own(j))' <=> Own(j)
    BY <2>1, FlowStays
  <2>3. \A j : (Ins(j))' = Ins(j)
    BY <2>1 DEF Ins
  <2>4. Typed' /\ Counted' /\ Busy' /\ Repairs' /\ RedTold'
    BY <2>1, <2>2, <2>3 DEF IInv, Typed, Counted, Busy, Repairs, RedTold
  <2>5. Green' /\ Begun' /\ Reached' /\ Untold'
    BY <2>1, <2>2 DEF IInv, Green, Begun, Reached, Untold
  <2> QED  BY <2>4, <2>5 DEF IInv
<1> QED  BY <1>1, <1>2, <1>3, <1>4, <1>5, Zenon DEF Next, Blank

\* The invariant holds throughout.
LEMMA AlwaysHolds == Spec => []IInv
BY InitHolds, StepKeeps, PTL DEF Spec

\* Finished work is not redone: a phase that got through is resumed at only
\* when the run had got through everything, and one that another run did and
\* this one never began only before its own work (FrontierInv).
THEOREM FrontierHolds == Spec => []FrontierInv
<1>1. IInv => FrontierInv
  BY TypesHold, FinishedIsKept DEF FrontierInv
<1> QED  BY <1>1, AlwaysHolds, PTL

\* A resume always names a phase that the runner executes and gets to, whatever
\* the events say: there is always one to start again at (ResumeIsAccepted).
THEOREM ResumeAlwaysAccepted == Spec => []ResumeIsAccepted
<1>1. IInv => ResumeIsAccepted
  BY ResumeIs DEF IInv, ResumeIsAccepted
<1> QED  BY <1>1, AlwaysHolds, PTL

\* On the way to the furthest phase a resume passes over nothing of the run's
\* own work that everybody runs and that was not begun, or that a branch is
\* still in (NothingLeftBehind).
THEOREM NothingIsLeftBehind == Spec => []NothingLeftBehind
BY BehindIsDone, AlwaysHolds, PTL
=============================================================================
