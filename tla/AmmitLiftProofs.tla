-------------------------- MODULE AmmitLiftProofs --------------------------
(***************************************************************************)
(* Proofs about the lift of answers, for any number of phases, models,     *)
(* events and lives and any length of a slice.  However late events come   *)
(* and after whatever statement the process is killed, a wait is counted   *)
(* once and the totals are true, but for what a torn lift spoiled.         *)
(***************************************************************************)
EXTENDS AmmitLift, FiniteSetTheorems, SequenceTheorems, WellFoundedInduction, TLAPS

-----------------------------------------------------------------------------
(* What is invariant, whatever comes late and wherever a process is killed  *)

\* What was lifted is what the mark is past; the clocks that run are the
\* memory's, and those in the database before it was loaded.
Seen    == {i \in Ids : db.events[i].at <= db.read}
Loaded  == pc \in {"replay", "live"}
Kept    == [p \in Phases |-> db.clocks[p].of]
Running == IF Loaded THEN mem.clocks ELSE Kept

\* The phases no torn lift spoiled, and the turns whose lift was torn.
Clean  == {p \in Phases : ~Spoiled(p)}
Strays == {i \in torn : db.events[i].kind = "turn"}

Values(of) == {of[n] : n \in DOMAIN of}
Single(of) == \A m, n \in DOMAIN of : of[m] = of[n] => m = n
Apart(of, other) == Values(of) \cap Values(other) = {}
Of(rows, p) == {j \in DOMAIN rows : rows[j].phase = p}

\* A clock counts events of its phase, and so does a row.  E is the events.
Owned(rows, clocks, E) ==
  /\ \A p \in Phases : Values(clocks[p]) \subseteq {i \in DOMAIN E : E[i].phase = p}
  /\ \A j \in DOMAIN rows : Values(rows[j].of) \subseteq {i \in DOMAIN E : E[i].phase = rows[j].phase}

\* In a clean phase they count each once, and a wait is in no two of them.  of
\* is its clock, D the ids of what was lifted, C the clean phases.
Page(p, rows, of, D) ==
  /\ Of(rows, p) \subseteq D
  /\ Single(of) /\ Values(of) \subseteq D
  /\ \A j \in Of(rows, p) : Single(rows[j].of) /\ Values(rows[j].of) \subseteq D /\ Apart(rows[j].of, of)
  /\ \A j, k \in Of(rows, p) : j # k => Apart(rows[j].of, rows[k].of)
Book(rows, clocks, D, C) == \A p \in C : Page(p, rows, clocks[p], D)

AnyRow == [phase : Phases, model : Models \cup {0}, of : Seq(Nat)]
Placed(rows, E) ==
  /\ rows \in [DOMAIN rows -> AnyRow]
  /\ \A i \in DOMAIN rows : i \in DOMAIN E /\ E[i].kind \in {"idle", "answer"} /\ rows[i].phase = E[i].phase
Under(rows, b) == {i \in DOMAIN rows : <<rows[i].phase, rows[i].model>> = b}

\* What one lift leaves to the next: the memory, the model and the rows.  T is
\* the turns whose lift was torn.
Memories == [clocks : [Phases -> Seq(Nat)], model : Models \cup {0}, live : BOOLEAN]
Lifted(m, model, rows, D, E, C, T) ==
  /\ m \in Memories /\ model = m.model
  /\ Placed(rows, E) /\ (T = {} => \A i \in DOMAIN rows : rows[i].model = model)
  /\ Owned(rows, m.clocks, E) /\ Book(rows, m.clocks, D, C)

Bounds ==
  /\ now \in Nat /\ sent \in 0 .. MaxEvents /\ lives \in 1 .. MaxLives
  /\ wire \subseteq Event /\ IsFiniteSet(wire) /\ \A e \in wire : e.at <= now
  /\ db.events \in Seq(Event) /\ Len(db.events) + Cardinality(wire) <= sent
  /\ \A i \in Ids : db.events[i].at <= now
  /\ db.read \in -1 .. now /\ mark \in -1 .. now
  /\ pc \in {"boot", "load", "replay", "live"}
  /\ pc = "replay" => db.read <= mark
  /\ torn \subseteq Ids /\ passed \subseteq Event
Memory ==
  /\ mem \in Memories /\ mem.live = (pc = "live")
  /\ IF Loaded THEN mem.model = db.model ELSE mem = Fresh
Fields == {"events", "turns", "rows", "clocks", "model", "buckets", "read"}
Tables ==
  /\ db = [x \in Fields |-> db[x]]
  /\ Placed(db.rows, db.events) /\ db.clocks \in [Phases -> Clock] /\ db.model \in Models \cup {0}
  /\ Strays = {} => \A i \in DOMAIN db.rows : db.rows[i].model = db.model
  /\ db.buckets = [b \in Buckets |-> db.buckets[b]] /\ \A b \in Buckets : db.buckets[b] \subseteq DOMAIN db.rows
  /\ Strays = {} => \A b \in Buckets : b[1] \in Clean => db.buckets[b] = Under(db.rows, b)
TurnIds(E) == {i \in DOMAIN E : E[i].kind = "turn"}
Turns ==
  /\ db.turns \subseteq TurnIds(db.events)
  /\ \A i \in TurnIds(db.events) \ db.turns : pc = "boot" /\ i = Len(db.events)
Books ==
  /\ Owned(db.rows, Running, db.events) /\ Book(db.rows, Running, Seen, Clean)
  /\ \A p \in Phases : Kept[p] \in {Running[p], << >>}
IInv == Bounds /\ Memory /\ Tables /\ Turns /\ Books

-----------------------------------------------------------------------------
(* Numbers, and sets of them                                               *)

\* A set of numbers that is not empty has a least.
LEMMA LeastOf ==
  ASSUME NEW S \in SUBSET Nat, S # {}
  PROVE  \E x \in S : \A y \in S : x <= y
<1> DEFINE R == OpToRel(<, Nat)
<1>1. IsWellFoundedOn(R, Nat)
  BY NatLessThanWellFounded
<1>2. PICK x \in S : \A y \in S : ~(<<y, x>> \in R)
  <2> HIDE DEF R
  <2> QED  BY <1>1, WFMin, Zenon
<1>3. \A y \in S : y < x => <<y, x>> \in R
  BY DEF OpToRel
<1>4. \A y \in S : ~(y < x)
  <2> HIDE DEF R
  <2> QED  BY <1>2, <1>3
<1>5. x \in Nat /\ \A y \in S : y \in Nat
  OBVIOUS
<1> QED  BY <1>4, <1>5

\* And one that is bounded has a greatest.
LEMMA GreatestOf ==
  ASSUME NEW n \in Nat, NEW S \in SUBSET (0 .. n), S # {}
  PROVE  \E x \in S : \A y \in S : x >= y
<1> DEFINE T == {m \in Nat : \A y \in S : y <= m}
<1>1. n \in T
  OBVIOUS
<1>2. PICK m \in T : \A k \in T : m <= k
  BY <1>1, LeastOf
<1>3. m \in S
  <2> SUFFICES ASSUME m \notin S  PROVE FALSE
    OBVIOUS
  <2>1. \A y \in S : y < m
    BY <1>2
  <2>2. m # 0
    <3>1. PICK y \in S : TRUE
      OBVIOUS
    <3> QED  BY <2>1, <3>1
  <2>3. m - 1 \in T
    BY <2>1, <2>2
  <2> QED  BY <2>3, <1>2
<1> QED  BY <1>2, <1>3

\* What is so of no steps, and of one more than it is so of, is so of all:
\* otherwise take the least number it is not so of.
LEMMA StepByStep ==
  ASSUME NEW n \in Nat, NEW G, 0 \in G, \A k \in 0 .. n : k < n /\ k \in G => k + 1 \in G
  PROVE  \A k \in 0 .. n : k \in G
<1> DEFINE S == {k \in 0 .. n : k \notin G}
<1> SUFFICES ASSUME S # {}  PROVE FALSE
  OBVIOUS
<1>1. PICK x \in S : \A y \in S : x <= y
  <2>1. S \in SUBSET Nat
    OBVIOUS
  <2> HIDE DEF S
  <2> QED  BY <2>1, LeastOf
<1>2. x \in 0 .. n /\ x \notin G /\ x # 0
  OBVIOUS
<1>3. x - 1 \in 0 .. n /\ x - 1 < n
  BY <1>2
<1>4. x - 1 \in G
  BY <1>1, <1>3
<1> QED  BY <1>2, <1>3, <1>4

LEMMA MaxOf ==
  ASSUME NEW n \in Nat, NEW S \in SUBSET (-1 .. n), S # {}
  PROVE  Max(S) \in S /\ \A y \in S : y <= Max(S)
<1>1. \E x \in S : \A y \in S : x >= y
  <2> DEFINE T == {x \in 0 .. n : x \in S}
  <2>1. \A y \in S : y = -1 \/ y \in T
    OBVIOUS
  <2>2. CASE T = {}
    <3>1. PICK x \in S : TRUE
      OBVIOUS
    <3>2. \A y \in S : y = -1
      <4> HIDE DEF T
      <4> QED  BY <2>1, <2>2
    <3> QED  BY <3>1, <3>2
  <2>3. CASE T # {}
    <3>1. T \in SUBSET (0 .. n)
      OBVIOUS
    <3>2. PICK x \in T : \A y \in T : x >= y
      BY <2>3, <3>1, GreatestOf
    <3>3. x \in S /\ x >= 0
      OBVIOUS
    <3> QED  BY <2>1, <3>2, <3>3
  <2> QED  BY <2>2, <2>3
<1> QED  BY <1>1 DEF Max
LEMMA MinOf ==
  ASSUME NEW S \in SUBSET Nat, S # {}
  PROVE  Min(S) \in S /\ \A y \in S : Min(S) <= y
<1>1. \E x \in S : \A y \in S : x <= y
  BY LeastOf
<1> QED  BY <1>1 DEF Min

\* Sets that are counted.
LEMMA AtMostOne ==
  ASSUME NEW S, IsFiniteSet(S), \A x, y \in S : x = y
  PROVE  Cardinality(S) <= 1
<1>1. CASE S = {}
  BY <1>1, FS_EmptySet
<1>2. CASE S # {}
  <2>1. PICK x \in S : S = {x}
    BY <1>2
  <2> QED  BY <2>1, FS_Singleton
<1> QED  BY <1>1, <1>2

-----------------------------------------------------------------------------
(* The order of the replay                                                 *)

\* What is of the kinds of the database, whatever else holds.
Events == db.events \in Seq(Event) /\ now \in Nat /\ \A i \in Ids : db.events[i].at <= now
LEMMA EventsAre ==
  ASSUME Events
  PROVE  /\ Len(db.events) \in Nat /\ Ids = 1 .. Len(db.events) /\ IsFiniteSet(Ids)
         /\ \A i \in Ids : /\ db.events[i] \in Event /\ db.events[i].at \in 0 .. now /\ db.events[i].phase \in Phases
                           /\ db.events[i].kind \in Waits \cup {"turn"} /\ db.events[i].model \in Nat
                           /\ (db.events[i].kind = "turn" => db.events[i].model \in Models)
<1>1. Len(db.events) \in Nat /\ Ids = 1 .. Len(db.events) /\ \A i \in Ids : db.events[i] \in Event
  BY DEF Events, Ids
<1>2. IsFiniteSet(Ids)
  BY <1>1, FS_Interval
<1>3. \A e \in Event : /\ e.at \in Nat /\ e.phase \in Phases /\ e.kind \in Waits \cup {"turn"} /\ e.model \in Nat
                       /\ (e.kind = "turn" => e.model \in Models)
  <2> SUFFICES ASSUME NEW e \in Event
               PROVE  /\ e.at \in Nat /\ e.phase \in Phases /\ e.kind \in Waits \cup {"turn"} /\ e.model \in Nat
                      /\ (e.kind = "turn" => e.model \in Models)
    OBVIOUS
  <2>1. CASE e \in [at : Nat, kind : Waits, phase : Phases, model : {0}]
    BY <2>1 DEF Waits
  <2>2. CASE e \in [at : Nat, kind : {"turn"}, phase : Phases, model : Models]
    BY <2>2, LiftAssumption
  <2> QED  BY <2>1, <2>2 DEF Event
<1>4. \A i \in Ids : db.events[i].at <= now /\ now \in Nat
  BY DEF Events
<1> QED  BY <1>1, <1>2, <1>3, <1>4

Before(i, j) == db.events[i].at < db.events[j].at \/ (db.events[i].at = db.events[j].at /\ i < j)
Sorted(s) == \A j, k \in DOMAIN s : j < k => Before(s[j], s[k])

\* Of some events one is the last.
LEMMA LastOf ==
  ASSUME Events, NEW T \in SUBSET Ids, T # {}
  PROVE  \E g \in T : \A i \in T : i # g => Before(i, g)
<1> DEFINE Ats == {db.events[i].at : i \in T}
<1>1. Ats \in SUBSET (0 .. now) /\ Ats # {} /\ now \in Nat
  BY EventsAre DEF Events
<1>2. PICK a \in Ats : \A b \in Ats : a >= b
  BY <1>1, GreatestOf
<1> DEFINE U == {i \in T : db.events[i].at = a}
<1>3. U \in SUBSET (0 .. Len(db.events)) /\ U # {} /\ Len(db.events) \in Nat
  BY <1>2, EventsAre
<1>4. PICK g \in U : \A i \in U : g >= i
  BY <1>3, GreatestOf
<1>5. g \in T /\ db.events[g].at = a
  OBVIOUS
<1>6. ASSUME NEW i \in T, i # g  PROVE Before(i, g)
  <2>1. db.events[i].at \in Nat /\ db.events[g].at \in Nat /\ i \in Nat /\ g \in Nat
    BY <1>5, EventsAre
  <2>2. db.events[i].at <= a
    BY <1>2, <1>5, <2>1
  <2>3. db.events[i].at = a => i <= g
    BY <1>4
  <2> QED  BY <1>5, <1>6, <2>1, <2>2, <2>3 DEF Before
<1> QED  BY <1>5, <1>6

\* So there is an order to replay them in, and ByTime is one.
LEMMA OrderOf ==
  ASSUME Events, NEW is \in SUBSET Ids
  PROVE  /\ Cardinality(is) \in Nat /\ ByTime(is) \in [1 .. Cardinality(is) -> is] /\ Sorted(ByTime(is))
         /\ Len(ByTime(is)) = Cardinality(is)
<1>1. IsFiniteSet(is) /\ Cardinality(is) \in Nat
  BY EventsAre, FS_Subset, FS_CardinalityType
<1> DEFINE N == Cardinality(is)
           G == {n \in 0 .. N : \A T \in SUBSET is : Cardinality(T) = n => \E s \in [1 .. n -> T] : Sorted(s)}
<1>2. 0 \in G
  <2>1. ASSUME NEW T \in SUBSET is  PROVE \E s \in [1 .. 0 -> T] : Sorted(s)
    <3>1. [n \in 1 .. 0 |-> 0] \in [1 .. 0 -> T] /\ Sorted([n \in 1 .. 0 |-> 0])
      BY DEF Sorted
    <3> QED  BY <3>1
  <2> QED  BY <1>1, <2>1
<1>3. ASSUME NEW k \in 0 .. N, k < N, k \in G  PROVE k + 1 \in G
  <2>1. ASSUME NEW T \in SUBSET is, Cardinality(T) = k + 1  PROVE \E s \in [1 .. k + 1 -> T] : Sorted(s)
    <3>1. IsFiniteSet(T) /\ k \in Nat
      BY <1>1, FS_Subset
    <3>2. T # {}
      BY <2>1, <3>1, FS_EmptySet
    <3>3. PICK g \in T : \A i \in T : i # g => Before(i, g)
      BY <3>2, LastOf
    <3>4. Cardinality(T \ {g}) = k
      <4>1. g \in T
        BY <3>3
      <4>2. Cardinality(T \ {g}) = Cardinality(T) - 1
        BY <3>1, <4>1, FS_RemoveElement, Zenon
      <4> QED  BY <2>1, <3>1, <4>2
    <3>5. PICK s \in [1 .. k -> T \ {g}] : Sorted(s)
      BY <1>3, <3>4
    <3> DEFINE t == [n \in 1 .. k + 1 |-> IF n = k + 1 THEN g ELSE s[n]]
    <3>6. t \in [1 .. k + 1 -> T]
      BY <3>1
    <3>7. ASSUME NEW m \in 1 .. k + 1, NEW n \in 1 .. k + 1, m < n  PROVE Before(t[m], t[n])
      <4>1. m \in 1 .. k /\ t[m] = s[m] /\ s[m] \in T \ {g}
        BY <3>1, <3>7
      <4>2. CASE n = k + 1
        BY <3>3, <4>1, <4>2
      <4>3. CASE n # k + 1
        <5>1. n \in 1 .. k /\ t[n] = s[n]
          BY <3>1, <4>3
        <5> QED  BY <3>5, <3>7, <4>1, <5>1 DEF Sorted
      <4> QED  BY <4>2, <4>3
    <3>8. Sorted(t)
      BY <3>6, <3>7 DEF Sorted
    <3> QED  BY <3>6, <3>8
  <2> QED  BY <1>1, <1>3, <2>1
<1>4. N \in G
  <2> HIDE DEF G
  <2>1. N \in Nat /\ N \in 0 .. N
    BY <1>1
  <2> QED  BY <1>2, <1>3, <2>1, StepByStep
<1>5. \E s \in [1 .. N -> is] : Sorted(s)
  BY <1>4
<1>6. ByTime(is) \in [1 .. N -> is] /\ Sorted(ByTime(is))
  BY <1>5 DEF ByTime, Sorted, Before
<1>7. Len(ByTime(is)) = N
  BY <1>1, <1>6
<1> QED  BY <1>1, <1>6, <1>7
-----------------------------------------------------------------------------
(* What one event does                                                     *)

LEMMA AppendOf ==
  ASSUME NEW of \in Seq(Nat), NEW i \in Nat
  PROVE  /\ of \o <<i>> \in Seq(Nat) /\ Values(of \o <<i>>) = Values(of) \cup {i}
         /\ Single(of) /\ i \notin Values(of) => Single(of \o <<i>>)
         /\ of \o << >> = of
<1> DEFINE s == of \o <<i>>
           n == Len(of)
<1>1. /\ s \in Seq(Nat) /\ Len(s) = n + 1 /\ n \in Nat /\ DOMAIN of = 1 .. n /\ DOMAIN s = 1 .. n + 1
      /\ s[n + 1] = i /\ \A k \in 1 .. n : s[k] = of[k]
  OBVIOUS
<1>2. of \o << >> = of
  OBVIOUS
<1> HIDE DEF s, n
<1>3. Values(s) = Values(of) \cup {i}
  <2>1. ASSUME NEW x \in Values(s)  PROVE x \in Values(of) \cup {i}
    BY <1>1 DEF Values
  <2>2. ASSUME NEW x \in Values(of) \cup {i}  PROVE x \in Values(s)
    BY <1>1 DEF Values
  <2> QED  BY <2>1, <2>2
<1>4. ASSUME Single(of), i \notin Values(of)  PROVE Single(s)
  <2> SUFFICES ASSUME NEW a \in 1 .. n + 1, NEW b \in 1 .. n + 1, s[a] = s[b]  PROVE a = b
    BY <1>1 DEF Single
  <2>1. \A k \in 1 .. n : of[k] # i
    BY <1>1, <1>4 DEF Values
  <2>2. (a = n + 1 \/ a \in 1 .. n) /\ (b = n + 1 \/ b \in 1 .. n)
    BY <1>1
  <2> QED  BY <1>1, <1>4, <2>1, <2>2 DEF Single
<1> QED  BY <1>1, <1>2, <1>3, <1>4 DEF s

LEMMA EmptyOf == << >> \in Seq(Nat) /\ Single(<< >>) /\ Values(<< >>) = {}
BY DEF Single, Values

LEMMA SingleOf ==
  ASSUME NEW i \in Nat
  PROVE  <<i>> \in Seq(Nat) /\ Single(<<i>>) /\ Values(<<i>>) = {i}
<1>1. <<i>> \in Seq(Nat) /\ DOMAIN <<i>> = {1} /\ <<i>>[1] = i
  OBVIOUS
<1> QED  BY <1>1 DEF Single, Values

\* The page of p, when its clock becomes of and, if i has a row now, it is of other.
LEMMA PageTakes ==
  ASSUME NEW p, NEW rows, NEW old, NEW D, Page(p, rows, old, D), NEW i, i \notin D,
         NEW of, NEW other, Single(of), Single(other), Apart(of, other),
         Values(of) \subseteq Values(old) \cup {i}, Values(other) \subseteq Values(old) \cup {i},
         NEW new, Of(new, p) \subseteq Of(rows, p) \cup {i},
         \A j \in Of(new, p) : new[j].of = IF j \in Of(rows, p) THEN rows[j].of ELSE other
  PROVE  Page(p, new, of, D \cup {i})
<1> DEFINE R == Of(rows, p)
           S == Of(new, p)
<1>1. /\ R \subseteq D /\ Single(old) /\ Values(old) \subseteq D
      /\ \A j \in R : Single(rows[j].of) /\ Values(rows[j].of) \subseteq D /\ Apart(rows[j].of, old)
      /\ \A j, k \in R : j # k => Apart(rows[j].of, rows[k].of)
  BY DEF Page
<1>2. S \subseteq R \cup {i} /\ \A j \in S : new[j].of = IF j \in R THEN rows[j].of ELSE other
  OBVIOUS
<1> HIDE DEF R, S
<1>3. \A j \in R : Apart(rows[j].of, of) /\ Apart(rows[j].of, other)
  BY <1>1 DEF Apart
<1>4. ASSUME NEW j \in S
      PROVE  Single(new[j].of) /\ Values(new[j].of) \subseteq D \cup {i} /\ Apart(new[j].of, of)
  <2>1. CASE j \in R
    BY <1>1, <1>2, <1>3, <2>1
  <2>2. CASE j \notin R
    BY <1>1, <1>2, <2>2 DEF Apart
  <2> QED  BY <2>1, <2>2
<1>5. ASSUME NEW j \in S, NEW k \in S, j # k  PROVE Apart(new[j].of, new[k].of)
  <2>1. CASE j \in R /\ k \in R
    BY <1>1, <1>2, <1>5, <2>1
  <2>2. CASE j \in R /\ k \notin R
    BY <1>2, <1>3, <2>2
  <2>3. CASE j \notin R /\ k \in R
    BY <1>2, <1>3, <2>3 DEF Apart
  <2> QED  BY <1>2, <1>5, <2>1, <2>2, <2>3
<1>6. S \subseteq D \cup {i} /\ Values(of) \subseteq D \cup {i}
  BY <1>1, <1>2
<1> QED  BY <1>4, <1>5, <1>6 DEF Page, S

\* And when clocks are lost, more is lifted, and fewer phases are clean.
LEMMA BookLess ==
  ASSUME NEW rows, NEW clocks, NEW D, NEW C, Book(rows, clocks, D, C),
         NEW more, NEW new, NEW clocks2, NEW C2, D \subseteq more, C2 \subseteq C,
         \A p \in C2 : /\ Of(new, p) = Of(rows, p) /\ \A j \in Of(rows, p) : new[j].of = rows[j].of
                       /\ clocks2[p] = clocks[p] \/ clocks2[p] = << >>
  PROVE  Book(new, clocks2, more, C2)
<1> SUFFICES ASSUME NEW p \in C2  PROVE Page(p, new, clocks2[p], more)
  BY DEF Book
<1>1. Page(p, rows, clocks[p], D)
  BY DEF Book
<1>2. Single(clocks2[p]) /\ Values(clocks2[p]) \subseteq Values(clocks[p])
  BY <1>1, EmptyOf DEF Page
<1> DEFINE R == Of(rows, p)
<1>3. Of(new, p) = R /\ \A j \in R : new[j].of = rows[j].of
  OBVIOUS
<1>4. /\ R \subseteq D /\ Values(clocks[p]) \subseteq D
      /\ \A j \in R : Single(rows[j].of) /\ Values(rows[j].of) \subseteq D /\ Apart(rows[j].of, clocks[p])
      /\ \A j, k \in R : j # k => Apart(rows[j].of, rows[k].of)
  BY <1>1 DEF Page
<1> HIDE DEF R
<1>5. \A j \in R : Apart(rows[j].of, clocks2[p])
  BY <1>2, <1>4 DEF Apart
<1>6. R \subseteq more /\ Values(clocks2[p]) \subseteq more /\ \A j \in R : Values(rows[j].of) \subseteq more
  BY <1>2, <1>4
<1> QED  BY <1>2, <1>3, <1>4, <1>5, <1>6 DEF Page
LEMMA OwnedLess ==
  ASSUME NEW rows, NEW clocks, NEW E, Owned(rows, clocks, E),
         NEW new, NEW clocks2, NEW E2, \A i \in DOMAIN E : i \in DOMAIN E2 /\ E2[i] = E[i],
         DOMAIN new = DOMAIN rows, \A j \in DOMAIN rows : new[j].of = rows[j].of /\ new[j].phase = rows[j].phase,
         \A p \in Phases : clocks2[p] = clocks[p] \/ clocks2[p] = << >>
  PROVE  Owned(new, clocks2, E2)
<1>1. \A p \in Phases : Values(clocks2[p]) \subseteq {i \in DOMAIN E2 : E2[i].phase = p}
  BY EmptyOf DEF Owned
<1>2. \A j \in DOMAIN new : Values(new[j].of) \subseteq {i \in DOMAIN E2 : E2[i].phase = new[j].phase}
  BY DEF Owned
<1> QED  BY <1>1, <1>2 DEF Owned

\* What is so of a, once the turn e is added to what m and d held.
TurnAdded(a, m, d, e, D, i, E, C, T) ==
  /\ Lifted(a.mem, a.model, a.rows, D \cup {i}, E, C, T)
  /\ a.mem.live = m.live /\ a.mem.clocks = m.clocks /\ a.touched = {}
  /\ \A b \in Buckets : b \notin a.dirty => Under(a.rows, b) = Under(d.rows, b)
  /\ a.model = IF e.model <= m.model THEN m.model ELSE e.model
  /\ DOMAIN a.rows = DOMAIN d.rows
  /\ \A j \in DOMAIN d.rows : a.rows[j].of = d.rows[j].of /\ a.rows[j].phase = d.rows[j].phase
LEMMA AddTurnKeeps ==
  ASSUME NEW E, NEW D, NEW i, NEW C \in SUBSET Phases, NEW T, NEW m, NEW d,
         Lifted(m, d.model, d.rows, D, E, C, T), E[i] \in Event, E[i].kind = "turn",
         NEW e, e = E[i], NEW a, a = addTurn(m, d, e)
  PROVE  TurnAdded(a, m, d, e, D, i, E, C, T)
<1>1. e.model \in Models /\ e.model \in Nat
  BY LiftAssumption DEF Event, Waits
<1>2. m \in Memories /\ d.model = m.model /\ Placed(d.rows, E) /\ Owned(d.rows, m.clocks, E)
      /\ Book(d.rows, m.clocks, D, C)
  BY DEF Lifted
<1>3. CASE e.model <= m.model
  <2>1. /\ a.mem = m /\ a.model = d.model /\ a.rows = d.rows /\ a.touched = {}
    BY <1>3 DEF addTurn
  <2>2. Book(d.rows, m.clocks, D \cup {i}, C)
    BY <1>2, BookLess
  <2>3. Lifted(a.mem, a.model, a.rows, D \cup {i}, E, C, T)
    BY <2>1, <2>2 DEF Lifted
  <2> QED  BY <1>2, <1>3, <2>1, <2>3 DEF TurnAdded
<1>4. CASE ~(e.model <= m.model)
  <2> DEFINE rows == [j \in DOMAIN d.rows |-> [d.rows[j] EXCEPT !.model = e.model]]
  <2>1. /\ a.mem = [m EXCEPT !.model = e.model] /\ a.model = e.model /\ a.rows = rows /\ a.touched = {}
        /\ a.dirty = DueAgain(d.rows, e.model)
    BY <1>4 DEF addTurn
  <2>2. /\ a.mem \in Memories /\ a.mem.model = e.model /\ a.mem.clocks = m.clocks /\ a.mem.live = m.live
    BY <1>1, <1>2, <2>1 DEF Memories
  <2>3. \A j \in DOMAIN d.rows : d.rows[j] \in AnyRow
    BY <1>2 DEF Placed
  <2>4. \A j \in DOMAIN d.rows : /\ rows[j] \in AnyRow /\ rows[j].of = d.rows[j].of
                                 /\ rows[j].phase = d.rows[j].phase /\ rows[j].model = e.model
    BY <1>1, <2>3 DEF AnyRow
  <2>5. DOMAIN rows = DOMAIN d.rows /\ rows = [j \in DOMAIN rows |-> rows[j]]
    OBVIOUS
  <2>6. \A j \in DOMAIN d.rows : d.rows[j].model \in Models \cup {0}
    BY <2>3 DEF AnyRow
  <2> HIDE DEF rows
  <2>7. Placed(rows, E) /\ Owned(rows, m.clocks, E)
    BY <1>2, <2>4, <2>5 DEF Placed, Owned
  <2>8. Book(rows, m.clocks, D \cup {i}, C)
    <3>1. \A p \in C : Of(rows, p) = Of(d.rows, p) /\ \A j \in Of(d.rows, p) : rows[j].of = d.rows[j].of
      BY <2>4, <2>5 DEF Of
    <3> QED  BY <1>2, <3>1, BookLess
  <2>9. Lifted(a.mem, a.model, a.rows, D \cup {i}, E, C, T)
    BY <2>1, <2>2, <2>4, <2>5, <2>7, <2>8 DEF Lifted
  <2>10. ASSUME NEW b \in Buckets, b \notin a.dirty  PROVE Under(rows, b) = Under(d.rows, b)
    <3>1. ASSUME NEW j \in DOMAIN d.rows
          PROVE  <<d.rows[j].phase, e.model>> # b /\ <<d.rows[j].phase, d.rows[j].model>> # b
      <4>1. /\ <<d.rows[j].phase, e.model>> \in DueAgain(d.rows, e.model)
            /\ d.rows[j].model # 0 => <<d.rows[j].phase, d.rows[j].model>> \in DueAgain(d.rows, e.model)
        BY DEF DueAgain, Named
      <4>2. b[2] # 0
        BY LiftAssumption DEF Buckets
      <4> QED  BY <2>1, <2>10, <4>1, <4>2
    <3> QED  BY <2>4, <2>5, <3>1 DEF Under
  <2> QED  BY <1>2, <1>4, <2>1, <2>2, <2>4, <2>5, <2>9, <2>10 DEF TurnAdded
<1> QED  BY <1>3, <1>4

\* What a wait counts, and what its answer is made of.
Counts(m, e, i) == m.clocks[e.phase] \o (IF e.kind \in {"wait", "answer"} THEN <<i>> ELSE << >>)
WaitAdded(a, m, d, e, D, i, E, C, T) ==
  /\ Lifted(a.mem, a.model, a.rows, D \cup {i}, E, C, T)
  /\ a.mem.live = m.live /\ a.touched = {e.phase} /\ a.model = m.model
  /\ \A b \in Buckets : b \notin a.dirty => Under(a.rows, b) = Under(d.rows, b)
  /\ \A b \in Buckets : b \in a.dirty => b[1] = e.phase
  /\ \A p \in Phases : a.mem.clocks[p] = IF p # e.phase THEN m.clocks[p]
       ELSE IF e.kind \in {"tool", "answer"} THEN << >> ELSE Counts(m, e, i)
  /\ \A j \in DOMAIN d.rows : j \in DOMAIN a.rows /\ a.rows[j] = d.rows[j]
  /\ \A j \in DOMAIN a.rows \ DOMAIN d.rows : a.rows[j].phase = e.phase
  /\ e.kind = "answer" /\ e.phase \in C => i \in DOMAIN a.rows /\ a.rows[i].of = Counts(m, e, i)
  /\ Counts(m, e, i) \in Seq(Nat)
  /\ Values(Counts(m, e, i)) = IF e.kind \in {"wait", "answer"} THEN Values(m.clocks[e.phase]) \cup {i}
                                  ELSE Values(m.clocks[e.phase])
LEMMA AddWaitKeeps ==
  ASSUME NEW E, NEW D \in SUBSET Nat, NEW i \in DOMAIN E \ D, i \in Nat, NEW C \in SUBSET Phases, NEW T,
         NEW m, NEW d,
         Lifted(m, d.model, d.rows, D, E, C, T), E[i] \in Event, E[i].kind # "turn",
         NEW e, e = E[i], NEW a, a = addWait(m, d, e, i)
  PROVE  WaitAdded(a, m, d, e, D, i, E, C, T)
<1> DEFINE of == Counts(m, e, i)
           p == e.phase
           clock == IF e.kind \in {"tool", "answer"} THEN << >> ELSE of
<1>1. e.phase \in Phases /\ e.kind \in Waits
  <2>1. CASE e \in [at : Nat, kind : Waits, phase : Phases, model : {0}]
    BY <2>1
  <2>2. CASE e \in [at : Nat, kind : {"turn"}, phase : Phases, model : Models]
    BY <2>2
  <2> QED  BY <2>1, <2>2 DEF Event
<1>2. m \in Memories /\ d.model = m.model /\ Placed(d.rows, E) /\ Owned(d.rows, m.clocks, E)
      /\ Book(d.rows, m.clocks, D, C) /\ (T = {} => \A j \in DOMAIN d.rows : d.rows[j].model = d.model)
  BY DEF Lifted
<1>3. /\ m.clocks \in [Phases -> Seq(Nat)] /\ m.clocks[p] \in Seq(Nat) /\ m.model \in Models \cup {0}
  BY <1>1, <1>2 DEF Memories
<1>4. p \in C => /\ i \notin DOMAIN d.rows /\ i \notin Values(m.clocks[p]) /\ Single(m.clocks[p])
                 /\ Values(m.clocks[p]) \subseteq D
  BY <1>1, <1>2 DEF Book, Page, Of, Placed
<1>5. /\ of \in Seq(Nat) /\ (p \in C => Single(of))
      /\ Values(of) = IF e.kind \in {"wait", "answer"} THEN Values(m.clocks[p]) \cup {i} ELSE Values(m.clocks[p])
  <2>1. CASE e.kind \in {"wait", "answer"}
    <3>1. of = m.clocks[p] \o <<i>>
      BY <2>1 DEF Counts
    <3> HIDE DEF of
    <3> QED  BY <1>3, <1>4, <2>1, <3>1, AppendOf
  <2>2. CASE e.kind \notin {"wait", "answer"}
    <3>1. of = m.clocks[p] \o << >>
      BY <2>2 DEF Counts
    <3> HIDE DEF of
    <3> QED  BY <1>3, <1>4, <2>2, <3>1, AppendOf
  <2> QED  BY <2>1, <2>2
<1>6. /\ a.mem = [m EXCEPT !.clocks[p] = clock] /\ a.model = d.model /\ a.touched = {p}
      /\ a.dirty = IF e.kind \in {"idle", "answer"} THEN Named(p, m.model) ELSE {}
  BY DEF addWait, Counts
<1> DEFINE row == IF e.kind = "answer" THEN Row(e, m, of) ELSE Row(e, m, <<i>>)
<1>7. a.rows = IF e.kind \in {"idle", "answer"} THEN Insert(d.rows, i, row) ELSE d.rows
  BY DEF addWait, Counts
<1>8. /\ row.of = (IF e.kind = "answer" THEN of ELSE <<i>>) /\ row.phase = p /\ row.model = m.model
      /\ row \in AnyRow
  <2>1. <<i>> \in Seq(Nat)
    BY SingleOf
  <2> QED  BY <1>1, <1>3, <1>5, <2>1 DEF Row, AnyRow
<1> HIDE DEF of, row
<1>9. /\ clock \in Seq(Nat) /\ (p \in C => Single(clock))
      /\ Values(clock) = IF e.kind \in {"tool", "answer"} THEN {} ELSE Values(of)
  BY <1>5, EmptyOf
<1> HIDE DEF clock
<1>10. /\ a.mem \in Memories /\ a.mem.model = m.model /\ a.mem.live = m.live
       /\ \A q \in Phases : a.mem.clocks[q] = IF q = p THEN clock ELSE m.clocks[q]
  <2>1. [m.clocks EXCEPT ![p] = clock] \in [Phases -> Seq(Nat)]
    BY <1>1, <1>3, <1>9
  <2>2. /\ a.mem.clocks = [m.clocks EXCEPT ![p] = clock] /\ a.mem.model = m.model /\ a.mem.live = m.live
        /\ a.mem = [m EXCEPT !.clocks = [m.clocks EXCEPT ![p] = clock]]
    BY <1>2, <1>6 DEF Memories
  <2>3. a.mem \in Memories
    BY <1>2, <2>1, <2>2 DEF Memories
  <2> QED  BY <1>1, <1>3, <2>2, <2>3
<1> DEFINE other == IF e.kind = "answer" THEN of ELSE IF e.kind = "idle" THEN <<i>> ELSE << >>
<1>11. /\ p \in C => Single(other) /\ Apart(clock, other)
       /\ Values(other) \subseteq Values(m.clocks[p]) \cup {i}
       /\ Values(clock) \subseteq Values(m.clocks[p]) \cup {i}
  <2>1. CASE e.kind = "answer"
    BY <1>5, <1>9, <2>1 DEF Apart
  <2>2. CASE e.kind = "idle"
    BY <1>4, <1>5, <1>9, <2>2, SingleOf DEF Apart
  <2>3. CASE e.kind \notin {"answer", "idle"}
    BY <1>5, <1>9, <2>3, EmptyOf DEF Apart
  <2> QED  BY <2>1, <2>2, <2>3
<1>12. /\ DOMAIN a.rows = (IF e.kind \in {"idle", "answer"} THEN DOMAIN d.rows \cup {i} ELSE DOMAIN d.rows)
       /\ \A j \in DOMAIN d.rows : a.rows[j] = d.rows[j]
       /\ e.kind \in {"idle", "answer"} /\ i \notin DOMAIN d.rows => a.rows[i] = row
  <2>1. CASE e.kind \in {"idle", "answer"}
    <3>1. a.rows = Insert(d.rows, i, row)
      BY <1>7, <2>1
    <3>2. /\ DOMAIN Insert(d.rows, i, row) = DOMAIN d.rows \cup {i}
          /\ i \notin DOMAIN d.rows => Insert(d.rows, i, row)[i] = row
          /\ \A j \in DOMAIN d.rows : Insert(d.rows, i, row)[j] = d.rows[j]
      BY DEF Insert
    <3> QED  BY <2>1, <3>1, <3>2, Zenon
  <2>2. CASE e.kind \notin {"idle", "answer"}
    BY <1>7, <2>2
  <2> QED  BY <2>1, <2>2
<1>13. a.rows = [j \in DOMAIN a.rows |-> a.rows[j]]
  <2>1. d.rows = [j \in DOMAIN d.rows |-> d.rows[j]]
    BY <1>2 DEF Placed
  <2> QED  BY <1>7, <2>1 DEF Insert
<1>14. Placed(a.rows, E)
  <2>1. \A j \in DOMAIN d.rows : d.rows[j] \in AnyRow /\ j \in DOMAIN E /\ E[j].kind \in {"idle", "answer"}
                                 /\ d.rows[j].phase = E[j].phase
    BY <1>2 DEF Placed
  <2> QED  BY <1>8, <1>12, <1>13, <2>1 DEF Placed
<1>15. T = {} => \A j \in DOMAIN a.rows : a.rows[j].model = a.model
  BY <1>2, <1>6, <1>8, <1>12
<1>16. \A j \in DOMAIN a.rows \ DOMAIN d.rows : a.rows[j].of = other /\ a.rows[j].phase = p /\ j = i
  BY <1>8, <1>12
<1>17. Owned(a.rows, a.mem.clocks, E)
  <2>1. \A q \in Phases : Values(m.clocks[q]) \subseteq {j \in DOMAIN E : E[j].phase = q}
    BY <1>2 DEF Owned
  <2>2. Values(m.clocks[p]) \cup {i} \subseteq {j \in DOMAIN E : E[j].phase = p}
    BY <1>1, <2>1
  <2>3. \A q \in Phases : Values(a.mem.clocks[q]) \subseteq {j \in DOMAIN E : E[j].phase = q}
    BY <1>10, <1>11, <2>1, <2>2
  <2>4. \A j \in DOMAIN d.rows : Values(d.rows[j].of) \subseteq {k \in DOMAIN E : E[k].phase = d.rows[j].phase}
    BY <1>2 DEF Owned
  <2> HIDE DEF other
  <2>5. ASSUME NEW j \in DOMAIN a.rows
        PROVE  Values(a.rows[j].of) \subseteq {k \in DOMAIN E : E[k].phase = a.rows[j].phase}
    <3>1. CASE j \in DOMAIN d.rows
      BY <1>12, <2>4, <3>1
    <3>2. CASE j \notin DOMAIN d.rows
      BY <1>11, <1>16, <2>2, <3>2
    <3> QED  BY <3>1, <3>2
  <2> QED  BY <2>3, <2>5 DEF Owned
<1>18. Book(a.rows, a.mem.clocks, D \cup {i}, C)
  <2> SUFFICES ASSUME NEW q \in C  PROVE Page(q, a.rows, a.mem.clocks[q], D \cup {i})
    BY DEF Book
  <2>1. Page(q, d.rows, m.clocks[q], D)
    BY <1>2 DEF Book
  <2>2. CASE q = p
    <3>1. Of(a.rows, p) \subseteq Of(d.rows, p) \cup {i}
      BY <1>12, <1>16 DEF Of
    <3>2. \A j \in Of(a.rows, p) : a.rows[j].of = IF j \in Of(d.rows, p) THEN d.rows[j].of ELSE other
      BY <1>12, <1>16 DEF Of
    <3>3. a.mem.clocks[p] = clock /\ i \notin D
      BY <1>1, <1>10
    <3> HIDE DEF other
    <3> QED  BY <1>9, <1>11, <2>1, <2>2, <3>1, <3>2, <3>3, PageTakes
  <2>3. CASE q # p
    <3>1. Of(a.rows, q) = Of(d.rows, q) /\ \A j \in Of(d.rows, q) : a.rows[j].of = d.rows[j].of
      BY <1>12, <1>16, <2>3 DEF Of
    <3>2. a.mem.clocks[q] = m.clocks[q]
      BY <1>10, <2>3
    <3>3. Book(d.rows, m.clocks, D, {q})
      BY <2>1 DEF Book
    <3>4. Book(a.rows, a.mem.clocks, D \cup {i}, {q})
      BY <3>1, <3>2, <3>3, BookLess
    <3> QED  BY <3>4 DEF Book
  <2> QED  BY <2>2, <2>3
<1>19. Lifted(a.mem, a.model, a.rows, D \cup {i}, E, C, T)
  BY <1>2, <1>6, <1>10, <1>14, <1>15, <1>17, <1>18 DEF Lifted
<1>20. ASSUME NEW b \in Buckets, b \notin a.dirty  PROVE Under(a.rows, b) = Under(d.rows, b)
  <2>1. b[2] # 0
    BY LiftAssumption DEF Buckets
  <2>2. e.kind \in {"idle", "answer"} => <<p, m.model>> # b
    BY <1>6, <1>20, <2>1 DEF Named
  <2> QED  BY <1>8, <1>12, <2>2 DEF Under
<1>21. \A b \in Buckets : b \in a.dirty => b[1] = p
  BY <1>6 DEF Named
<1>22. e.kind = "answer" /\ p \in C => i \in DOMAIN a.rows /\ a.rows[i].of = of
  BY <1>4, <1>8, <1>12
<1> QED  BY <1>2, <1>5, <1>6, <1>10, <1>12, <1>16, <1>19, <1>20, <1>21, <1>22 DEF of, clock, WaitAdded

\* What one event does, one way or the other.
LEMMA AddKeeps ==
  ASSUME NEW E, NEW D \in SUBSET Nat, NEW i \in DOMAIN E \ D, i \in Nat, NEW C \in SUBSET Phases, NEW T,
         NEW m, NEW d,
         Lifted(m, d.model, d.rows, D, E, C, T), E[i] \in Event,
         NEW e, e = E[i], NEW a, a = add(m, d, e, i)
  PROVE  IF e.kind = "turn" THEN TurnAdded(a, m, d, e, D, i, E, C, T) ELSE WaitAdded(a, m, d, e, D, i, E, C, T)
<1>1. CASE e.kind = "turn"
  <2>1. a = addTurn(m, d, e)
    BY <1>1 DEF add
  <2>2. TurnAdded(a, m, d, e, D, i, E, C, T)
    BY <1>1, <2>1, AddTurnKeeps
  <2> QED  BY <1>1, <2>2
<1>2. CASE e.kind # "turn"
  <2>1. a = addWait(m, d, e, i)
    BY <1>2 DEF add
  <2>2. WaitAdded(a, m, d, e, D, i, E, C, T)
    BY <1>2, <2>1, AddWaitKeeps
  <2> QED  BY <1>2, <2>2
<1> QED  BY <1>1, <1>2

-----------------------------------------------------------------------------
(* A slice of the replay, event by event                                   *)

Adds(f, s, n) == f[0] = Begun /\ \A k \in 1 .. n : f[k] = AddNext(f[k - 1], s[k])
LEMMA ReplayedIs ==
  ASSUME Events, NEW is \in SUBSET Ids
  PROVE  \E f : Adds(f, ByTime(is), Cardinality(is)) /\ Replayed(is) = f[Cardinality(is)]
<1> DEFINE s == ByTime(is)
           N == Cardinality(is)
           G == {k \in 0 .. N : \E f : Adds(f, s, k)}
<1>1. N \in Nat /\ Len(s) = N
  BY OrderOf
<1> HIDE DEF s, N
<1>2. 0 \in G
  <2>1. Adds([k \in {0} |-> Begun], s, 0)
    BY DEF Adds
  <2> QED  BY <1>1, <2>1
<1>3. ASSUME NEW k \in 0 .. N, k < N, k \in G  PROVE k + 1 \in G
  <2>1. PICK f : Adds(f, s, k)
    BY <1>3
  <2> DEFINE g == [j \in 0 .. k + 1 |-> IF j = k + 1 THEN AddNext(f[k], s[k + 1]) ELSE f[j]]
  <2>2. g[0] = Begun
    BY <1>1, <2>1 DEF Adds
  <2>3. ASSUME NEW j \in 1 .. k + 1  PROVE g[j] = AddNext(g[j - 1], s[j])
    <3>1. j - 1 \in 0 .. k /\ k \in Nat
      BY <1>1
    <3>2. g[j - 1] = f[j - 1]
      BY <3>1
    <3>3. CASE j = k + 1
      <4>1. g[j] = AddNext(f[k], s[k + 1]) /\ j - 1 = k
        BY <3>1, <3>3
      <4> HIDE DEF g
      <4> QED  BY <3>2, <3>3, <4>1
    <3>4. CASE j # k + 1
      <4>1. j \in 1 .. k /\ g[j] = f[j]
        BY <3>1, <3>4
      <4> HIDE DEF g
      <4> QED  BY <2>1, <3>2, <4>1 DEF Adds
    <3> QED  BY <3>3, <3>4
  <2>4. Adds(g, s, k + 1)
    BY <2>2, <2>3 DEF Adds
  <2>5. k + 1 \in 0 .. N
    BY <1>1, <1>3
  <2> HIDE DEF g
  <2> QED  BY <2>4, <2>5
<1>4. N \in G
  <2> HIDE DEF G
  <2>1. N \in 0 .. N
    BY <1>1
  <2> QED  BY <1>1, <1>2, <1>3, <2>1, StepByStep
<1>5. PICK f : Adds(f, s, N)
  BY <1>4
<1> DEFINE after == CHOOSE h : h = [n \in 0 .. Len(s) |-> IF n = 0 THEN Begun ELSE AddNext(h[n - 1], s[n])]
           g == [n \in 0 .. N |-> f[n]]
<1>6. g = [n \in 0 .. Len(s) |-> IF n = 0 THEN Begun ELSE AddNext(g[n - 1], s[n])]
  <2>1. ASSUME NEW n \in 0 .. N  PROVE g[n] = IF n = 0 THEN Begun ELSE AddNext(g[n - 1], s[n])
    <3>1. CASE n = 0
      BY <1>1, <1>5, <3>1 DEF Adds
    <3>2. CASE n # 0
      <4>1. n \in 1 .. N /\ n - 1 \in 0 .. N
        BY <1>1, <3>2
      <4>2. g[n] = f[n] /\ g[n - 1] = f[n - 1]
        BY <4>1
      <4> HIDE DEF g
      <4> QED  BY <1>5, <3>2, <4>1, <4>2 DEF Adds
    <3> QED  BY <3>1, <3>2
  <2> DEFINE h == [n \in 0 .. N |-> IF n = 0 THEN Begun ELSE AddNext(g[n - 1], s[n])]
  <2>2. \A n \in 0 .. N : h[n] = IF n = 0 THEN Begun ELSE AddNext(g[n - 1], s[n])
    OBVIOUS
  <2>3. \A n \in 0 .. N : g[n] = h[n]
    <3> HIDE DEF g, h
    <3> QED  BY <2>1, <2>2
  <2>4. g = [n \in 0 .. N |-> g[n]] /\ h = [n \in 0 .. N |-> h[n]]
    OBVIOUS
  <2>5. g = h
    <3> HIDE DEF g, h
    <3> QED  BY <2>3, <2>4
  <2> QED  BY <1>1, <2>5
<1> HIDE DEF g
<1>7. after = [n \in 0 .. Len(s) |-> IF n = 0 THEN Begun ELSE AddNext(after[n - 1], s[n])]
  BY <1>6
<1>8. Replayed(is) = after[N]
  BY <1>1 DEF Replayed, s
<1> HIDE DEF after
<1>9. Adds(after, s, N)
  <2>1. after[0] = Begun
    BY <1>1, <1>7
  <2>2. ASSUME NEW k \in 1 .. N  PROVE after[k] = AddNext(after[k - 1], s[k])
    <3>1. k \in 0 .. Len(s) /\ k # 0
      BY <1>1
    <3> QED  BY <1>7, <3>1
  <2> QED  BY <2>1, <2>2 DEF Adds
<1> QED  BY <1>8, <1>9 DEF s, N

Folded(b, D) ==
  /\ Lifted(b.mem, b.db.model, b.db.rows, D, db.events, Clean, Strays) /\ b.mem.live = mem.live
  /\ b.db = [db EXCEPT !.rows = b.db.rows, !.model = b.db.model]
  /\ b.touched \subseteq Phases /\ b.at \in [Phases -> Nat \cup {-1}]
  /\ \A p \in Phases \ b.touched : b.mem.clocks[p] = mem.clocks[p]
  /\ \A x \in Buckets \ b.dirty : Under(b.db.rows, x) = Under(db.rows, x)
  /\ DOMAIN db.rows \subseteq DOMAIN b.db.rows

NextAdded(c, b, a, e) ==
  /\ c.mem = a.mem /\ c.db.rows = a.rows /\ c.db.model = a.model
  /\ c.db = [db EXCEPT !.rows = a.rows, !.model = a.model]
  /\ c.touched = b.touched \cup a.touched /\ c.dirty = b.dirty \cup a.dirty
  /\ c.at = IF a.touched = {} THEN b.at ELSE [b.at EXCEPT ![e.phase] = e.at]
LEMMA AddNextIs ==
  ASSUME DOMAIN db = Fields, NEW b, NEW i, b.db = [db EXCEPT !.rows = b.db.rows, !.model = b.db.model],
         NEW e, e = db.events[i],
         NEW a, a = add(b.mem, b.db, e, i), NEW c, c = AddNext(b, i)
  PROVE  NextAdded(c, b, a, e)
<1>1. /\ c.mem = a.mem /\ c.db = [b.db EXCEPT !.rows = a.rows, !.model = a.model]
      /\ c.touched = b.touched \cup a.touched /\ c.dirty = b.dirty \cup a.dirty
      /\ c.at = IF a.touched = {} THEN b.at ELSE [b.at EXCEPT ![db.events[i].phase] = db.events[i].at]
  BY DEF AddNext
<1>2. DOMAIN b.db = DOMAIN db
  OBVIOUS
<1>3. [b.db EXCEPT !.rows = a.rows, !.model = a.model] = [db EXCEPT !.rows = a.rows, !.model = a.model]
  BY <1>2 DEF Fields
<1>4. c.db.rows = a.rows /\ c.db.model = a.model
  BY <1>1, <1>2 DEF Fields
<1> QED  BY <1>1, <1>3, <1>4 DEF NextAdded

LEMMA FoldStep ==
  ASSUME Events, DOMAIN db = Fields, NEW D \in SUBSET Ids, NEW b, Folded(b, D), NEW i \in Ids \ D
  PROVE  Folded(AddNext(b, i), D \cup {i})
<1> DEFINE e == db.events[i]
           a == add(b.mem, b.db, e, i)
           c == AddNext(b, i)
<1>1. e \in Event /\ e.at \in Nat /\ e.phase \in Phases /\ i \in Nat /\ D \in SUBSET Nat /\ i \in DOMAIN db.events
  BY EventsAre DEF Ids
<1>2. Lifted(b.mem, b.db.model, b.db.rows, D, db.events, Clean, Strays) /\ Clean \in SUBSET Phases
  BY DEF Folded, Clean
<1>3. /\ Lifted(a.mem, a.model, a.rows, D \cup {i}, db.events, Clean, Strays) /\ a.mem.live = b.mem.live
      /\ a.touched \subseteq {e.phase} /\ \A p \in Phases \ a.touched : a.mem.clocks[p] = b.mem.clocks[p]
      /\ \A x \in Buckets : x \notin a.dirty => Under(a.rows, x) = Under(b.db.rows, x)
      /\ DOMAIN b.db.rows \subseteq DOMAIN a.rows
  <2> HIDE DEF a, e
  <2> DEFINE C == Clean
             T == Strays
  <2>1. IF e.kind = "turn" THEN TurnAdded(a, b.mem, b.db, e, D, i, db.events, C, T)
        ELSE WaitAdded(a, b.mem, b.db, e, D, i, db.events, C, T)
    <3>1. Lifted(b.mem, b.db.model, b.db.rows, D, db.events, C, T) /\ C \in SUBSET Phases
      BY <1>2
    <3> HIDE DEF C, T
    <3> QED  BY <1>1, <3>1, AddKeeps DEF a, e
  <2> QED  BY <2>1 DEF TurnAdded, WaitAdded
<1>4. /\ c.mem = a.mem /\ c.db.rows = a.rows /\ c.db.model = a.model
      /\ c.db = [db EXCEPT !.rows = a.rows, !.model = a.model]
      /\ c.touched = b.touched \cup a.touched /\ c.dirty = b.dirty \cup a.dirty
      /\ c.at = IF a.touched = {} THEN b.at ELSE [b.at EXCEPT ![e.phase] = e.at]
  <2>1. b.db = [db EXCEPT !.rows = b.db.rows, !.model = b.db.model]
    BY DEF Folded
  <2>2. NextAdded(c, b, a, e)
    <3> HIDE DEF a, c
    <3> QED  BY <2>1, AddNextIs DEF a, c
  <2> HIDE DEF a, c
  <2> QED  BY <2>2 DEF NextAdded
<1> HIDE DEF a, c, e
<1>5. c.at \in [Phases -> Nat \cup {-1}] /\ c.touched \subseteq Phases
  BY <1>1, <1>3, <1>4 DEF Folded
<1>6. \A p \in Phases \ c.touched : c.mem.clocks[p] = mem.clocks[p]
  BY <1>3, <1>4 DEF Folded
<1>7. \A x \in Buckets \ c.dirty : Under(c.db.rows, x) = Under(db.rows, x)
  BY <1>3, <1>4 DEF Folded
<1>8. c.mem.live = mem.live /\ Lifted(c.mem, c.db.model, c.db.rows, D \cup {i}, db.events, Clean, Strays)
  BY <1>3, <1>4 DEF Folded
<1>9. c.db = [db EXCEPT !.rows = c.db.rows, !.model = c.db.model]
  BY <1>4
<1>9a. DOMAIN db.rows \subseteq DOMAIN c.db.rows
  BY <1>3, <1>4 DEF Folded
<1>10. Folded(c, D \cup {i})
  BY <1>5, <1>6, <1>7, <1>8, <1>9, <1>9a DEF Folded
<1> QED  BY <1>10 DEF c

\* The ids of the first n.
First(s, n) == {s[k] : k \in 1 .. n}
LEMMA FirstOf ==
  ASSUME Events, NEW is \in SUBSET Ids, NEW n \in 0 .. Cardinality(is), n < Cardinality(is)
  PROVE  /\ ByTime(is)[n + 1] \in is \ First(ByTime(is), n)
         /\ First(ByTime(is), n + 1) = First(ByTime(is), n) \cup {ByTime(is)[n + 1]}
<1> DEFINE s == ByTime(is)
           N == Cardinality(is)
<1>1. N \in Nat /\ s \in [1 .. N -> is] /\ Sorted(s)
  BY OrderOf
<1> HIDE DEF s, N
<1>2. n \in 0 .. N /\ n < N
  BY DEF N
<1>3. n + 1 \in 1 .. N /\ s[n + 1] \in is
  BY <1>1, <1>2
<1>4. ASSUME NEW k \in 1 .. n  PROVE s[k] # s[n + 1]
  <2>1. k \in 1 .. N /\ k < n + 1
    BY <1>1, <1>2
  <2>2. Before(s[k], s[n + 1])
    BY <1>1, <1>3, <2>1 DEF Sorted
  <2>3. s[n + 1] \in Nat /\ db.events[s[n + 1]].at \in Nat
    BY <1>3, EventsAre
  <2> QED  BY <2>2, <2>3 DEF Before
<1>5. First(s, n + 1) = First(s, n) \cup {s[n + 1]}
  <2>1. \A k : k \in 1 .. n + 1 <=> k \in 1 .. n \/ k = n + 1
    BY <1>1, <1>2
  <2> QED  BY <2>1 DEF First
<1> QED  BY <1>3, <1>4, <1>5 DEF s, First

LEMMA FoldAll ==
  ASSUME Events, DOMAIN db = Fields, Folded(Begun, Seen), NEW is \in SUBSET Ids, is \cap Seen = {},
         NEW f, Adds(f, ByTime(is), Cardinality(is))
  PROVE  \A n \in 0 .. Cardinality(is) :
            Folded(f[n], Seen \cup First(ByTime(is), n)) /\ First(ByTime(is), n) \subseteq is
<1> DEFINE s == ByTime(is)
           N == Cardinality(is)
           G == {n \in 0 .. N : Folded(f[n], Seen \cup First(s, n)) /\ First(s, n) \subseteq is}
<1>1. N \in Nat
  BY OrderOf
<1>2. 0 \in G
  <2>1. First(s, 0) = {}
    BY DEF First
  <2>2. f[0] = Begun
    BY DEF Adds
  <2> HIDE DEF s, N
  <2> QED  BY <1>1, <2>1, <2>2
<1>3. ASSUME NEW k \in 0 .. N, k < N, k \in G  PROVE k + 1 \in G
  <2>1. s[k + 1] \in is \ First(s, k) /\ First(s, k + 1) = First(s, k) \cup {s[k + 1]}
    BY <1>3, FirstOf
  <2>2. f[k + 1] = AddNext(f[k], s[k + 1])
    <3>1. k + 1 \in 1 .. N /\ (k + 1) - 1 = k
      BY <1>1, <1>3
    <3> QED  BY <3>1 DEF Adds
  <2> DEFINE D == Seen \cup First(s, k)
             i == s[k + 1]
  <2>3. D \in SUBSET Ids /\ i \in Ids \ D /\ Folded(f[k], D) /\ First(s, k) \subseteq is
    BY <1>3, <2>1 DEF Seen
  <2> HIDE DEF D, i
  <2>4. Folded(AddNext(f[k], i), D \cup {i})
    BY <2>3, FoldStep
  <2>5. D \cup {i} = Seen \cup First(s, k + 1) /\ First(s, k + 1) \subseteq is
    BY <2>1, <2>3 DEF D, i
  <2>6. k + 1 \in 0 .. N
    BY <1>1, <1>3
  <2>7. f[k + 1] = AddNext(f[k], i)
    BY <2>2 DEF i
  <2> HIDE DEF s, N
  <2> QED  BY <2>4, <2>5, <2>6, <2>7
<1> HIDE DEF G
<1>4. \A n \in 0 .. N : n \in G
  <2> HIDE DEF N
  <2> QED  BY <1>1, <1>2, <1>3, StepByStep
<1> QED  BY <1>4 DEF G

\* What was replayed, and what was lifted before.
LEMMA SliceFolds ==
  ASSUME Events, DOMAIN db = Fields, Folded(Begun, Seen), NEW is \in SUBSET Ids, is \cap Seen = {}
  PROVE  \E D \in SUBSET (Seen \cup is) : Folded(Replayed(is), D)
<1>1. PICK f : Adds(f, ByTime(is), Cardinality(is)) /\ Replayed(is) = f[Cardinality(is)]
  BY ReplayedIs
<1>2. Cardinality(is) \in 0 .. Cardinality(is)
  BY OrderOf
<1>3. /\ Folded(f[Cardinality(is)], Seen \cup First(ByTime(is), Cardinality(is)))
      /\ First(ByTime(is), Cardinality(is)) \subseteq is
  BY <1>1, <1>2, FoldAll
<1> QED  BY <1>1, <1>3

\* Before its first event, the memory and the database are as they were.
LEMMA BegunIs ==
  ASSUME IInv, Loaded
  PROVE  Folded(Begun, Seen) /\ Events /\ DOMAIN db = Fields
<1>1. /\ Begun.mem = mem /\ Begun.db = db /\ Begun.touched = {} /\ Begun.dirty = {}
      /\ Begun.at = [p \in Phases |-> -1]
  BY DEF Begun
<1>2. Events /\ DOMAIN db = Fields /\ db = [x \in Fields |-> db[x]]
  BY DEF IInv, Bounds, Tables, Events
<1>3. db = [db EXCEPT !.rows = db.rows, !.model = db.model]
  BY <1>2
<1>4. Lifted(mem, db.model, db.rows, Seen, db.events, Clean, Strays)
  BY DEF IInv, Memory, Tables, Books, Running, Lifted
<1>5. Begun.at \in [Phases -> Nat \cup {-1}]
  BY <1>1
<1> QED  BY <1>1, <1>2, <1>3, <1>4, <1>5 DEF Folded

-----------------------------------------------------------------------------
(* Every step keeps the invariant                                          *)

\* What does not touch the tables, the memory or the place in the replay.
LEMMA RestStays ==
  ASSUME IInv, UNCHANGED <<db, mem, pc, torn>>
  PROVE  Memory' /\ Tables' /\ Turns' /\ Books'
<1>1. Memory'
  BY DEF IInv, Memory, Loaded
<1>2. Clean' = Clean /\ Strays' = Strays
  BY DEF Clean, Strays, Spoiled
<1>3. Tables'
  BY <1>2 DEF IInv, Tables
<1>4. Turns'
  BY DEF IInv, Turns
<1>5. Running' = Running /\ Seen' = Seen /\ Kept' = Kept
  BY DEF Running, Loaded, Kept, Seen, Ids
<1>6. Books'
  BY <1>2, <1>5 DEF IInv, Books
<1> QED  BY <1>1, <1>3, <1>4, <1>6

LEMMA SendKeeps ==
  ASSUME IInv, NEW kind, NEW p \in Phases, NEW model, NEW gap \in Gaps, Send(kind, p, model, gap),
         (kind \in Waits /\ model = 0) \/ (kind = "turn" /\ model \in Models)
  PROVE  IInv'
<1> DEFINE e == [at |-> now', kind |-> kind, phase |-> p, model |-> model]
<1>1. /\ now' = now + gap /\ sent' = sent + 1 /\ sent < MaxEvents /\ wire' = wire \cup {e}
      /\ UNCHANGED <<db, mem, pc, mark, lives, torn, passed>> /\ gap \in Nat
  BY LiftAssumption DEF Send
<1>2. now \in Nat /\ sent \in 0 .. MaxEvents /\ MaxEvents \in Nat
  BY LiftAssumption DEF IInv, Bounds
<1>3. now' \in Nat /\ now <= now' /\ sent' \in 0 .. MaxEvents /\ e \in Event /\ e.at = now'
  <2>1. now' \in Nat /\ now <= now' /\ sent' \in 0 .. MaxEvents
    BY <1>1, <1>2
  <2>2. CASE kind \in Waits /\ model = 0
    BY <2>1, <2>2 DEF Event
  <2>3. CASE kind = "turn" /\ model \in Models
    BY <2>1, <2>3 DEF Event
  <2> QED  BY <2>1, <2>2, <2>3
<1> HIDE DEF e
<1>4. /\ wire' \subseteq Event /\ IsFiniteSet(wire') /\ Cardinality(wire') <= Cardinality(wire) + 1
      /\ Cardinality(wire) \in Nat /\ Cardinality(wire') \in Nat
  <2>1. IsFiniteSet(wire) /\ wire \subseteq Event
    BY DEF IInv, Bounds
  <2>2. IsFiniteSet(wire') /\ Cardinality(wire') = IF e \in wire THEN Cardinality(wire) ELSE Cardinality(wire) + 1
    BY <1>1, <2>1, FS_AddElement
  <2>3. Cardinality(wire) \in Nat /\ Cardinality(wire') \in Nat
    BY <2>1, <2>2, FS_CardinalityType
  <2> QED  BY <1>1, <1>3, <2>1, <2>2, <2>3
<1>5. \A x \in Event : x.at \in Nat
  BY DEF Event
<1>6. \A x \in wire' : x.at <= now'
  <2> SUFFICES ASSUME NEW x \in wire'  PROVE x.at <= now'
    OBVIOUS
  <2>1. CASE x \in wire
    <3>1. x.at <= now /\ x.at \in Nat
      BY <1>4, <1>5, <2>1 DEF IInv, Bounds
    <3> QED  BY <1>2, <1>3, <3>1
  <2>2. CASE x = e
    BY <1>3, <2>2
  <2> QED  BY <1>1, <2>1, <2>2
<1>7. /\ db'.events \in Seq(Event) /\ Len(db'.events) + Cardinality(wire') <= sent'
      /\ db'.read \in -1 .. now' /\ mark' \in -1 .. now'
  <2>1. /\ db.events \in Seq(Event) /\ Len(db.events) + Cardinality(wire) <= sent
        /\ db.read \in -1 .. now /\ mark \in -1 .. now /\ Len(db.events) \in Nat
    BY DEF IInv, Bounds
  <2>2. db'.events = db.events /\ db'.read = db.read /\ mark' = mark
    BY <1>1
  <2>3. Len(db.events) + Cardinality(wire') <= sent'
    BY <1>1, <1>2, <1>4, <2>1
  <2>4. db.read \in -1 .. now' /\ mark \in -1 .. now'
    BY <1>1, <1>2, <2>1
  <2> QED  BY <2>1, <2>2, <2>3, <2>4
<1>8. \A i \in Ids' : db'.events[i].at <= now'
  <2>1. \A i \in Ids : db.events[i].at <= now /\ db.events[i].at \in Nat
    BY EventsAre DEF IInv, Bounds, Events
  <2> QED  BY <1>1, <1>2, <1>3, <2>1 DEF Ids
<1>9. Bounds'
  <2>1. torn' \subseteq Ids' /\ passed' \subseteq Event
    BY <1>1 DEF IInv, Bounds, Ids
  <2> QED  BY <1>1, <1>3, <1>4, <1>6, <1>7, <1>8, <2>1 DEF IInv, Bounds
<1> QED  BY <1>1, <1>9, RestStays DEF IInv

\* An event that arrives gets the next id.
Arrived(e, i) ==
  /\ now' \in Nat /\ sent' \in 0 .. MaxEvents
  /\ wire' \subseteq Event /\ IsFiniteSet(wire') /\ \A x \in wire' : x.at <= now'
  /\ db'.events \in Seq(Event) /\ Len(db'.events) + Cardinality(wire') <= sent'
  /\ \A j \in Ids' : db'.events[j].at <= now'
  /\ i \in Nat /\ Len(db'.events) = i /\ i \notin Ids /\ Ids' = Ids \cup {i} /\ DOMAIN db'.events = Ids'
  /\ db'.events[i] = e /\ \A j \in Ids : db'.events[j] = db.events[j]
  /\ e \in Event /\ e.at \in 0 .. now
LEMMA Arrives ==
  ASSUME IInv, NEW e \in wire, wire' = wire \ {e}, db'.events = Append(db.events, e), UNCHANGED <<now, sent>>
  PROVE  Arrived(e, Len(db.events) + 1)
<1> DEFINE i == Len(db.events) + 1
<1>1. /\ now \in Nat /\ sent \in 0 .. MaxEvents /\ wire \subseteq Event /\ IsFiniteSet(wire)
      /\ db.events \in Seq(Event) /\ Len(db.events) + Cardinality(wire) <= sent
      /\ \A x \in wire : x.at <= now
      /\ \A j \in Ids : db.events[j].at <= now
  BY DEF IInv, Bounds
<1>2. e \in Event /\ e.at \in 0 .. now
  <2>1. e \in Event /\ e.at <= now
    BY <1>1
  <2>2. e.at \in Nat
    BY <2>1 DEF Event
  <2> QED  BY <1>1, <2>1, <2>2
<1>3. /\ Len(db.events) \in Nat /\ Ids = 1 .. Len(db.events)
      /\ db'.events \in Seq(Event) /\ Len(db'.events) = i /\ DOMAIN db'.events = 1 .. i
      /\ db'.events[i] = e /\ \A j \in 1 .. Len(db.events) : db'.events[j] = db.events[j]
  BY <1>1, <1>2 DEF Ids
<1>4. i \in Nat /\ i \notin Ids /\ Ids' = Ids \cup {i} /\ DOMAIN db'.events = Ids'
  BY <1>3 DEF Ids
<1>5. /\ IsFiniteSet(wire') /\ Cardinality(wire') = Cardinality(wire) - 1
      /\ Cardinality(wire) \in Nat /\ Cardinality(wire') \in Nat
  <2>1. IsFiniteSet(wire \ {e}) /\ Cardinality(wire \ {e}) = Cardinality(wire) - 1
    BY <1>1, FS_RemoveElement, Zenon
  <2> QED  BY <1>1, <2>1, FS_CardinalityType
<1>6. Len(db'.events) + Cardinality(wire') <= sent'
  BY <1>1, <1>3, <1>5
<1>7. \A j \in Ids' : db'.events[j].at <= now'
  BY <1>1, <1>2, <1>3, <1>4
<1> QED  BY <1>1, <1>2, <1>3, <1>4, <1>5, <1>6, <1>7 DEF Arrived

\* A torn lift spoils its phase, or the names; what else was clean stays so.
LEMMA StaysClean ==
  ASSUME IInv, NEW e, NEW i, Arrived(e, i), torn \subseteq torn', torn' \subseteq torn \cup {i}
  PROVE  /\ torn' \subseteq Ids' /\ Clean' \subseteq Clean /\ Clean \subseteq Phases /\ Strays \subseteq Strays'
         /\ torn' = torn => Clean' = Clean /\ Strays' = Strays
         /\ torn' # torn /\ e.kind = "turn" => Strays' # {} /\ Clean' = Clean
         /\ torn' # torn /\ e.kind # "turn" => Strays' = Strays /\ e.phase \notin Clean'
<1>1. torn \subseteq Ids /\ i \notin Ids /\ Ids' = Ids \cup {i} /\ db'.events[i] = e
      /\ \A j \in Ids : db'.events[j] = db.events[j]
  BY DEF Arrived, IInv, Bounds
<1>2. \A j \in torn : j \in torn' /\ db'.events[j] = db.events[j]
  BY <1>1
<1>3. torn' # torn => i \in torn' /\ torn' = torn \cup {i}
  OBVIOUS
<1>4. Clean' \subseteq Clean /\ Clean \subseteq Phases /\ Strays \subseteq Strays'
  BY <1>2 DEF Clean, Strays, Spoiled
<1>5. ASSUME torn' = torn  PROVE Clean' = Clean /\ Strays' = Strays
  BY <1>2, <1>5 DEF Clean, Strays, Spoiled
<1>6. ASSUME torn' # torn, e.kind = "turn"  PROVE Strays' # {} /\ Clean' = Clean
  BY <1>1, <1>2, <1>3, <1>6 DEF Clean, Strays, Spoiled
<1>7. ASSUME torn' # torn, e.kind # "turn"  PROVE Strays' = Strays /\ e.phase \notin Clean'
  BY <1>1, <1>2, <1>3, <1>7 DEF Clean, Strays, Spoiled
<1> QED  BY <1>1, <1>4, <1>5, <1>6, <1>7

\* An event that is kept and not lifted, or not yet, leaves the tables as they
\* are.
LEMMA KeptOnly ==
  ASSUME IInv, NEW e \in wire, wire' = wire \ {e}, UNCHANGED <<now, sent, torn>>,
         db' = [x \in Fields |-> db'[x]], db'.events = Append(db.events, e),
         db'.rows = db.rows, db'.clocks = db.clocks, db'.model = db.model, db'.buckets = db.buckets,
         db'.read = db.read
  PROVE  /\ Tables' /\ Owned(db'.rows, Running, db'.events) /\ Book(db'.rows, Running, Seen', Clean')
         /\ Kept' = Kept
<1>1. Arrived(e, Len(db.events) + 1)
  BY Arrives
<1>2. /\ DOMAIN db'.events = Ids \cup {Len(db.events) + 1} /\ Ids' = Ids \cup {Len(db.events) + 1}
      /\ \A j \in Ids : db'.events[j] = db.events[j]
  BY <1>1 DEF Arrived
<1>3. Clean' = Clean /\ Strays' = Strays
  BY <1>1, StaysClean
<1>4. Placed(db.rows, db'.events)
  BY <1>2 DEF IInv, Tables, Placed, Ids
<1>5. Tables'
  BY <1>3, <1>4 DEF IInv, Tables
<1>6. Seen \subseteq Seen'
  BY <1>2 DEF Seen
<1>7. Book(db.rows, Running, Seen', Clean)
  <2>1. Book(db.rows, Running, Seen, Clean)
    BY DEF IInv, Books
  <2> QED  BY <1>6, <2>1, BookLess
<1>8. Owned(db.rows, Running, db'.events)
  <2> DEFINE E == db.events
             F == db'.events
             R == Running
             rows == db.rows
  <2>1. Owned(rows, R, E) /\ \A i \in DOMAIN E : i \in DOMAIN F /\ F[i] = E[i]
    BY <1>2 DEF IInv, Books, Ids
  <2> HIDE DEF E, F, R, rows
  <2>2. Owned(rows, R, F)
    BY <2>1, OwnedLess
  <2> QED  BY <2>2 DEF F, R, rows
<1>9. Kept' = Kept
  BY DEF Kept
<1> QED  BY <1>3, <1>5, <1>7, <1>8, <1>9

LEMMA MaxOfTwo ==
  ASSUME NEW n \in Nat, NEW a \in -1 .. n, NEW b \in -1 .. n
  PROVE  Max({a, b}) = IF a <= b THEN b ELSE a
<1>1. {a, b} \in SUBSET (-1 .. n) /\ {a, b} # {}
  OBVIOUS
<1>2. Max({a, b}) \in {a, b} /\ \A y \in {a, b} : y <= Max({a, b})
  BY <1>1, MaxOf
<1> QED  BY <1>2

\* What the writes of a lift come to.  a is what the event made of the memory
\* and the tables.
Lifts(d, a, e) ==
  /\ d = [x \in Fields |-> d[x]] /\ d.events = Append(db.events, e)
  /\ d.rows = a.rows /\ d.model = a.model
  /\ d.clocks = [p \in Phases |-> IF p \in a.touched THEN [of |-> a.mem.clocks[p], at |-> e.at] ELSE db.clocks[p]]
  /\ d.buckets = [b \in Buckets |-> IF b \notin a.dirty THEN db.buckets[b] ELSE Under(a.rows, b)]
  /\ d.read = Max({db.read, e.at})
Adds1(a, e, i) ==
  IF e.kind = "turn" THEN TurnAdded(a, mem, db, e, Seen, i, db'.events, Clean, Strays)
  ELSE WaitAdded(a, mem, db, e, Seen, i, db'.events, Clean, Strays)
LEMMA LiveAdds ==
  ASSUME IInv, pc = "live", NEW e \in wire, wire' = wire \ {e}, UNCHANGED <<now, sent>>,
         db'.events = Append(db.events, e),
         NEW a, a = add(mem, db, e, Len(db.events) + 1)
  PROVE  Adds1(a, e, Len(db.events) + 1)
<1> DEFINE i == Len(db.events) + 1
           E == db'.events
           D == Seen
           C == Clean
           T == Strays
<1>1. Arrived(e, i)
  BY Arrives
<1>2. /\ i \in Nat /\ i \notin Ids /\ DOMAIN E = Ids \cup {i} /\ E[i] = e
      /\ \A j \in Ids : j \in DOMAIN E /\ E[j] = db.events[j]
      /\ e \in Event
  BY <1>1 DEF Arrived
<1>3. D \in SUBSET Nat /\ i \in DOMAIN E \ D /\ C \in SUBSET Phases
  <2>1. Ids \in SUBSET Nat
    BY EventsAre DEF IInv, Bounds, Events
  <2> QED  BY <1>2, <2>1 DEF Seen, Clean
<1>4. Lifted(mem, db.model, db.rows, D, E, C, T)
  <2>1. Placed(db.rows, E)
    BY <1>2 DEF IInv, Tables, Placed, Ids
  <2>2. Owned(db.rows, mem.clocks, E)
    <3>1. Owned(db.rows, mem.clocks, db.events)
      BY DEF IInv, Books, Running, Loaded
    <3>2. \A j \in DOMAIN db.events : j \in DOMAIN E /\ E[j] = db.events[j]
      BY <1>2 DEF Ids
    <3> DEFINE F == db.events
    <3> HIDE DEF E, F
    <3>3. Owned(db.rows, mem.clocks, F) /\ \A j \in DOMAIN F : j \in DOMAIN E /\ E[j] = F[j]
      BY <3>1, <3>2 DEF F
    <3> QED  BY <3>3, OwnedLess
  <2>3. Book(db.rows, mem.clocks, D, C)
    BY DEF IInv, Books, Running, Loaded
  <2> QED  BY <2>1, <2>2, <2>3 DEF Lifted, IInv, Memory, Tables, Loaded
<1>5. a = add(mem, db, e, i)
  OBVIOUS
<1> HIDE DEF E, D, C, T, i
<1>6. IF e.kind = "turn" THEN TurnAdded(a, mem, db, e, D, i, E, C, T) ELSE WaitAdded(a, mem, db, e, D, i, E, C, T)
  BY <1>2, <1>3, <1>4, <1>5, AddKeeps
<1> QED  BY <1>6 DEF Adds1, E, D, C, T, i

\* A lift that was written as a whole.
LEMMA LiftedWhole ==
  ASSUME IInv, pc = "live", NEW e \in wire, wire' = wire \ {e}, UNCHANGED <<now, sent, torn>>,
         NEW a, a = add(mem, db, e, Len(db.events) + 1), Lifts(db', a, e)
  PROVE  /\ Tables' /\ db'.read \in -1 .. now /\ db.read <= db'.read /\ e.at <= db'.read
         /\ Lifted(a.mem, db'.model, db'.rows, Seen', db'.events, Clean', Strays') /\ a.mem.live = mem.live
         /\ \A p \in Phases : Kept'[p] \in {a.mem.clocks[p], << >>}
<1> DEFINE i == Len(db.events) + 1
           E == db'.events
<1>1. Arrived(e, i)
  BY Arrives DEF Lifts
<1>2. /\ i \in Nat /\ i \notin Ids /\ Ids' = Ids \cup {i} /\ DOMAIN E = Ids' /\ E[i] = e
      /\ \A j \in Ids : E[j] = db.events[j]
      /\ e \in Event /\ e.at \in 0 .. now /\ E \in Seq(Event) /\ now \in Nat
  BY <1>1 DEF Arrived, IInv, Bounds
<1>3. Adds1(a, e, i)
  BY LiveAdds DEF Lifts
<1>4. Clean' = Clean /\ Strays' = Strays
  BY <1>1, StaysClean
<1> HIDE DEF i
<1>5. e.phase \in Phases
  BY <1>2 DEF Event
<1>6. /\ Lifted(a.mem, a.model, a.rows, Seen \cup {i}, E, Clean, Strays) /\ a.mem.live = mem.live
      /\ \A p \in Phases \ a.touched : a.mem.clocks[p] = mem.clocks[p]
      /\ \A x \in Buckets : x \notin a.dirty => Under(a.rows, x) = Under(db.rows, x)
      /\ DOMAIN db.rows \subseteq DOMAIN a.rows
  <2> HIDE DEF E
  <2>1. CASE e.kind = "turn"
    BY <1>3, <2>1 DEF Adds1, TurnAdded, E
  <2>2. CASE e.kind # "turn"
    BY <1>3, <2>2 DEF Adds1, WaitAdded, E
  <2> QED  BY <2>1, <2>2
<1>7. /\ db'.rows = a.rows /\ db'.model = a.model /\ db'.read = Max({db.read, e.at})
      /\ db'.clocks = [p \in Phases |-> IF p \in a.touched THEN [of |-> a.mem.clocks[p], at |-> e.at] ELSE db.clocks[p]]
      /\ db'.buckets = [b \in Buckets |-> IF b \notin a.dirty THEN db.buckets[b] ELSE Under(a.rows, b)]
      /\ db' = [x \in Fields |-> db'[x]]
  BY DEF Lifts
<1>8. db'.read \in -1 .. now /\ db.read <= db'.read /\ e.at <= db'.read /\ db.read \in -1 .. now
  <2>1. db.read \in -1 .. now /\ e.at \in -1 .. now
    BY <1>2 DEF IInv, Bounds
  <2>2. db'.read = IF db.read <= e.at THEN e.at ELSE db.read
    BY <1>2, <1>7, <2>1, MaxOfTwo
  <2> QED  BY <1>2, <2>1, <2>2
<1>9. Seen \cup {i} \subseteq Seen'
  <2>1. \A j \in Seen : j \in Ids /\ db.events[j].at \in Nat /\ db.events[j].at <= db.read
    BY EventsAre DEF Seen, IInv, Bounds, Events
  <2>2. ASSUME NEW j \in Seen  PROVE j \in Ids' /\ E[j].at <= db'.read
    <3>1. j \in Ids /\ E[j] = db.events[j]
      BY <1>2, <2>1
    <3> QED  BY <1>2, <1>8, <2>1, <3>1
  <2>3. i \in Ids' /\ E[i].at <= db'.read
    BY <1>2, <1>8
  <2> QED  BY <2>2, <2>3 DEF Seen
<1>10. Lifted(a.mem, db'.model, db'.rows, Seen', E, Clean', Strays')
  <2>1. Book(a.rows, a.mem.clocks, Seen \cup {i}, Clean)
    BY <1>6 DEF Lifted
  <2>2. Book(a.rows, a.mem.clocks, Seen', Clean)
    BY <1>9, <2>1, BookLess
  <2> QED  BY <1>4, <1>6, <1>7, <2>2 DEF Lifted
<1>11. a.mem.clocks \in [Phases -> Seq(Nat)] /\ a.model \in Models \cup {0}
  BY <1>6 DEF Lifted, Memories
<1>12. db'.clocks \in [Phases -> Clock]
  <2>1. \A p \in Phases : [of |-> a.mem.clocks[p], at |-> e.at] \in Clock
    BY <1>2, <1>11 DEF Clock
  <2>2. db.clocks \in [Phases -> Clock]
    BY DEF IInv, Tables
  <2> QED  BY <1>7, <2>1, <2>2
<1>13. /\ db'.buckets = [b \in Buckets |-> db'.buckets[b]] /\ \A b \in Buckets : db'.buckets[b] \subseteq DOMAIN a.rows
       /\ Strays = {} => \A b \in Buckets : b[1] \in Clean => db'.buckets[b] = Under(a.rows, b)
  <2>1. /\ \A b \in Buckets : db.buckets[b] \subseteq DOMAIN db.rows
        /\ Strays = {} => \A b \in Buckets : b[1] \in Clean => db.buckets[b] = Under(db.rows, b)
    BY DEF IInv, Tables
  <2>2. \A b \in Buckets : db'.buckets[b] = IF b \notin a.dirty THEN db.buckets[b] ELSE Under(a.rows, b)
    BY <1>7
  <2>3. \A b : Under(a.rows, b) \subseteq DOMAIN a.rows
    BY DEF Under
  <2>4. db'.buckets = [b \in Buckets |-> db'.buckets[b]]
    BY <1>7
  <2> QED  BY <1>6, <2>1, <2>2, <2>3, <2>4
<1>14. Tables'
  BY <1>4, <1>6, <1>7, <1>11, <1>12, <1>13 DEF Tables, Lifted
<1>15. ASSUME NEW p \in Phases  PROVE Kept'[p] \in {a.mem.clocks[p], << >>}
  <2>1. Kept'[p] = IF p \in a.touched THEN a.mem.clocks[p] ELSE Kept[p]
    BY <1>7 DEF Kept
  <2>2. Kept[p] \in {mem.clocks[p], << >>}
    BY DEF IInv, Books, Running, Loaded
  <2> QED  BY <1>6, <2>1, <2>2
<1> QED  BY <1>6, <1>8, <1>10, <1>14, <1>15

\* And one that was torn before its mark: its phase is clean no longer, or the
\* names are not, and the rest is as it was.
Torn(d, a, e) ==
  /\ d = [x \in Fields |-> d[x]] /\ d.events = Append(db.events, e)
  /\ d.model = a.model /\ d.rows \in {db.rows, a.rows}
  /\ d.clocks \in {db.clocks,
       [p \in Phases |-> IF p \in a.touched THEN [of |-> a.mem.clocks[p], at |-> e.at] ELSE db.clocks[p]]}
  /\ \/ d.buckets = db.buckets
     \/ /\ d.rows = a.rows
        /\ d.buckets = [b \in Buckets |-> IF b \notin a.dirty THEN db.buckets[b] ELSE Under(a.rows, b)]
  /\ d.read = db.read /\ d.turns = db.turns
LEMMA LiftedInPart ==
  ASSUME IInv, pc = "live", NEW e \in wire, wire' = wire \ {e}, UNCHANGED <<now, sent>>,
         torn' = torn \cup {Len(db'.events)},
         NEW a, a = add(mem, db, e, Len(db.events) + 1), Torn(db', a, e)
  PROVE  Tables' /\ Owned(db'.rows, Kept', db'.events) /\ Book(db'.rows, Kept', Seen', Clean')
<1> DEFINE i == Len(db.events) + 1
           E == db'.events
<1>1. Arrived(e, i) /\ Adds1(a, e, i)
  BY Arrives, LiveAdds DEF Torn
<1>2. /\ i \in Nat /\ i \notin Ids /\ Ids' = Ids \cup {i} /\ DOMAIN E = Ids' /\ E[i] = e /\ Len(E) = i
      /\ \A j \in Ids : E[j] = db.events[j]
      /\ e \in Event /\ e.at \in 0 .. now /\ now \in Nat
  BY <1>1 DEF Arrived, IInv, Bounds
<1>3. torn \subseteq Ids /\ torn' = torn \cup {i} /\ torn' # torn
  BY <1>2 DEF IInv, Bounds
<1>4. /\ Clean' \subseteq Clean /\ Clean \subseteq Phases
      /\ e.kind = "turn" => Strays' # {}
      /\ e.kind # "turn" => Strays' = Strays /\ e.phase \notin Clean'
  BY <1>1, <1>3, StaysClean
<1> HIDE DEF i
<1>5. e.phase \in Phases
  BY <1>2 DEF Event
<1>6. /\ Lifted(a.mem, a.model, a.rows, Seen \cup {i}, E, Clean, Strays)
      /\ a.touched \subseteq {e.phase} /\ \A p \in Phases \ a.touched : a.mem.clocks[p] = mem.clocks[p]
      /\ e.kind = "turn" => a.touched = {}
      /\ DOMAIN db.rows \subseteq DOMAIN a.rows
      /\ \A p \in Clean' : Of(a.rows, p) = Of(db.rows, p) /\ \A j \in Of(db.rows, p) : a.rows[j].of = db.rows[j].of
  <2> HIDE DEF E
  <2>1. CASE e.kind = "turn"
    <3>1. TurnAdded(a, mem, db, e, Seen, i, E, Clean, Strays)
      BY <1>1, <2>1 DEF Adds1, E
    <3> QED  BY <2>1, <3>1 DEF TurnAdded, Of
  <2>2. CASE e.kind # "turn"
    <3>1. WaitAdded(a, mem, db, e, Seen, i, E, Clean, Strays)
      BY <1>1, <2>2 DEF Adds1, E
    <3>2. \A p \in Clean' : p # e.phase
      BY <1>4, <2>2
    <3> DEFINE C == Clean'
    <3> HIDE DEF C
    <3>3. \A p \in C : Of(a.rows, p) = Of(db.rows, p) /\ \A j \in Of(db.rows, p) : a.rows[j].of = db.rows[j].of
      BY <3>1, <3>2 DEF WaitAdded, Of, C
    <3> QED  BY <2>2, <3>1, <3>3 DEF WaitAdded, C
  <2> QED  BY <2>1, <2>2
<1>7. /\ db'.model = a.model /\ db'.rows \in {db.rows, a.rows} /\ db'.read = db.read
      /\ db'.clocks \in {db.clocks,
           [p \in Phases |-> IF p \in a.touched THEN [of |-> a.mem.clocks[p], at |-> e.at] ELSE db.clocks[p]]}
      /\ db' = [x \in Fields |-> db'[x]]
  BY DEF Torn
<1>8. Seen \subseteq Seen'
  BY <1>2, <1>7 DEF Seen
<1>9. a.mem.clocks \in [Phases -> Seq(Nat)] /\ a.model \in Models \cup {0} /\ Placed(a.rows, E)
      /\ Owned(a.rows, a.mem.clocks, E)
  BY <1>6 DEF Lifted, Memories
<1>10. db'.clocks \in [Phases -> Clock]
  <2>1. \A p \in Phases : [of |-> a.mem.clocks[p], at |-> e.at] \in Clock
    BY <1>2, <1>9 DEF Clock
  <2>2. db.clocks \in [Phases -> Clock]
    BY DEF IInv, Tables
  <2> QED  BY <1>7, <2>1, <2>2
<1>11. Placed(db'.rows, E)
  <2>1. Placed(db.rows, E)
    BY <1>2 DEF IInv, Tables, Placed, Ids
  <2> QED  BY <1>7, <1>9, <2>1
<1>12. Strays' = {} => \A j \in DOMAIN db'.rows : db'.rows[j].model = db'.model
  <2> SUFFICES ASSUME Strays' = {}  PROVE \A j \in DOMAIN db'.rows : db'.rows[j].model = db'.model
    OBVIOUS
  <2>1. e.kind # "turn" /\ Strays = {}
    BY <1>4
  <2>2. a.model = mem.model /\ mem.model = db.model
    BY <1>1, <2>1 DEF Adds1, WaitAdded, IInv, Memory, Loaded
  <2>3. \A j \in DOMAIN db.rows : db.rows[j].model = db.model
    BY <2>1 DEF IInv, Tables
  <2>4. \A j \in DOMAIN a.rows : a.rows[j].model = a.model
    BY <1>6, <2>1 DEF Lifted
  <2> QED  BY <1>7, <2>2, <2>3, <2>4
<1>13. /\ db'.buckets = [b \in Buckets |-> db'.buckets[b]]
       /\ \A b \in Buckets : db'.buckets[b] \subseteq DOMAIN db'.rows
       /\ Strays' = {} => \A b \in Buckets : b[1] \in Clean' => db'.buckets[b] = Under(db'.rows, b)
  <2>1. /\ \A b \in Buckets : db.buckets[b] \subseteq DOMAIN db.rows
        /\ Strays = {} => \A b \in Buckets : b[1] \in Clean => db.buckets[b] = Under(db.rows, b)
        /\ db.buckets = [b \in Buckets |-> db.buckets[b]]
    BY DEF IInv, Tables
  <2> DEFINE new == [b \in Buckets |-> IF b \notin a.dirty THEN db.buckets[b] ELSE Under(a.rows, b)]
  <2>2. db'.buckets = db.buckets \/ (db'.rows = a.rows /\ db'.buckets = new)
    BY DEF Torn
  <2>3. /\ new = [b \in Buckets |-> new[b]] /\ \A b \in Buckets : new[b] \subseteq DOMAIN a.rows
        /\ \A b \in Buckets : b \notin a.dirty => new[b] = db.buckets[b]
    <3>1. \A b : Under(a.rows, b) \subseteq DOMAIN a.rows
      BY DEF Under
    <3> QED  BY <1>6, <2>1, <3>1
  <2>4. ASSUME Strays' = {}, NEW b \in Buckets, b[1] \in Clean'
        PROVE  Under(a.rows, b) = Under(db.rows, b) /\ b \notin a.dirty
    <3>1. e.kind # "turn" /\ b[1] # e.phase
      BY <1>4, <2>4
    <3>2. b \notin a.dirty /\ \A x \in Buckets : x \notin a.dirty => Under(a.rows, x) = Under(db.rows, x)
      BY <1>1, <3>1 DEF Adds1, WaitAdded
    <3> QED  BY <3>2
  <2> HIDE DEF new
  <2>5. db'.buckets = [b \in Buckets |-> db'.buckets[b]]
    BY <2>1, <2>2, <2>3
  <2>6. \A b \in Buckets : db'.buckets[b] \subseteq DOMAIN db'.rows
    BY <1>6, <1>7, <2>1, <2>2, <2>3
  <2>7. ASSUME Strays' = {}, NEW b \in Buckets, b[1] \in Clean'  PROVE db'.buckets[b] = Under(db'.rows, b)
    <3>1. Strays = {} /\ b[1] \in Clean
      BY <1>4, <2>7
    <3>2. db'.buckets[b] = db.buckets[b] /\ db.buckets[b] = Under(db.rows, b)
      BY <2>1, <2>2, <2>3, <2>4, <2>7, <3>1
    <3> QED  BY <1>7, <2>4, <2>7, <3>2
  <2> QED  BY <2>5, <2>6, <2>7
<1>14. Tables'
  BY <1>7, <1>9, <1>10, <1>11, <1>12, <1>13 DEF Tables
<1>15. \A p \in Phases : Kept'[p] \in {a.mem.clocks[p], mem.clocks[p], << >>}
                         /\ (p \notin a.touched => Kept'[p] \in {mem.clocks[p], << >>})
  <2>1. \A p \in Phases : Kept'[p] = Kept[p] \/ (p \in a.touched /\ Kept'[p] = a.mem.clocks[p])
    BY <1>7 DEF Kept
  <2>2. \A p \in Phases : Kept[p] \in {mem.clocks[p], << >>}
    BY DEF IInv, Books, Running, Loaded
  <2> QED  BY <2>1, <2>2
<1>16. Owned(db'.rows, Kept', E)
  <2>1. Owned(db.rows, mem.clocks, db.events)
    BY DEF IInv, Books, Running, Loaded
  <2>2. \A p \in Phases : Values(mem.clocks[p]) \subseteq {j \in DOMAIN E : E[j].phase = p}
    BY <1>2, <2>1 DEF Owned, Ids
  <2>3. \A j \in DOMAIN db.rows : Values(db.rows[j].of) \subseteq {k \in DOMAIN E : E[k].phase = db.rows[j].phase}
    BY <1>2, <2>1 DEF Owned, Ids
  <2>4. /\ \A p \in Phases : Values(a.mem.clocks[p]) \subseteq {j \in DOMAIN E : E[j].phase = p}
        /\ \A j \in DOMAIN a.rows : Values(a.rows[j].of) \subseteq {k \in DOMAIN E : E[k].phase = a.rows[j].phase}
    BY <1>9 DEF Owned
  <2> DEFINE K == Kept'
             F == E
             rows == db'.rows
  <2>5. \A p \in Phases : Values(K[p]) \subseteq {j \in DOMAIN F : F[j].phase = p}
    <3> HIDE DEF K, E
    <3> QED  BY <1>15, <2>2, <2>4, EmptyOf DEF K
  <2>6. \A j \in DOMAIN rows : Values(rows[j].of) \subseteq {k \in DOMAIN F : F[k].phase = rows[j].phase}
    BY <1>7, <2>3, <2>4
  <2> HIDE DEF K, F, rows
  <2>7. Owned(rows, K, F)
    BY <2>5, <2>6 DEF Owned
  <2> QED  BY <2>7 DEF K, F, rows
<1>17. Book(db'.rows, Kept', Seen', Clean')
  <2> DEFINE K == Kept'
             C == Clean'
             D == Seen'
             rows == db'.rows
  <2>1. Book(db.rows, mem.clocks, Seen, Clean) /\ Seen \subseteq D /\ C \subseteq Clean
    BY <1>4, <1>8 DEF IInv, Books, Running, Loaded
  <2>2. \A p \in C : /\ Of(rows, p) = Of(db.rows, p) /\ \A j \in Of(db.rows, p) : rows[j].of = db.rows[j].of
    BY <1>6, <1>7
  <2>3. \A p \in C : p \notin a.touched /\ p \in Phases
    BY <1>4, <1>6
  <2>4. \A p \in C : K[p] = mem.clocks[p] \/ K[p] = << >>
    BY <1>15, <2>3
  <2> HIDE DEF K, C, D, rows
  <2>5. Book(rows, K, D, C)
    BY <2>1, <2>2, <2>4, BookLess
  <2> QED  BY <2>5 DEF K, C, D, rows
<1> QED  BY <1>14, <1>16, <1>17

\* The writes of store, one after another.
Writes(w, a, e) ==
  /\ Len(w) = (IF mem.live THEN 7 ELSE 2) /\ DOMAIN w = 1 .. Len(w)
  /\ store(e).mem = IF mem.live THEN a.mem ELSE mem
  /\ w[1] = [db EXCEPT !.events = Append(@, e)]
  /\ mem.live => /\ \A k \in 2 .. 5 : Torn(w[k], a, e)
                 /\ Lifts(w[6], a, e) /\ w[6].turns = db.turns
                 /\ Lifts(w[Len(w)], a, e)
  /\ ~mem.live => LET d == w[Len(w)]
                  IN  /\ d = [x \in Fields |-> d[x]] /\ d.events = Append(db.events, e)
                      /\ d.rows = db.rows /\ d.clocks = db.clocks /\ d.model = db.model
                      /\ d.buckets = db.buckets /\ d.read = db.read
  /\ w[Len(w)].turns = IF e.kind = "turn" THEN db.turns \cup {Len(db.events) + 1} ELSE db.turns
LEMMA WritesAre ==
  ASSUME IInv, NEW e, NEW a, a = add(mem, db, e, Len(db.events) + 1),
         NEW w, w = store(e).writes
  PROVE  Writes(w, a, e)
<1> DEFINE i == Len(db.events) + 1
           d1 == [db EXCEPT !.events = Append(@, e)]
           d2 == [d1 EXCEPT !.model = a.model]
           d3 == [d2 EXCEPT !.rows = a.rows]
           d4 == Clocked(d3, a.mem, a.touched, e.at)
           d5 == Counted(d4, a.dirty)
           d6 == Marked(d5, e.at)
           T(d) == IF e.kind = "turn" THEN [d EXCEPT !.turns = @ \cup {i}] ELSE d
<1>1. /\ w = IF mem.live THEN <<d1, d2, d3, d4, d5, d6, T(d6)>> ELSE <<d1, T(d1)>>
      /\ store(e).mem = IF mem.live THEN a.mem ELSE mem
  BY DEF store
<1>2. db = [x \in Fields |-> db[x]]
  BY DEF IInv, Tables
<1>3. /\ d1 = [x \in Fields |-> d1[x]] /\ d1.events = Append(db.events, e)
      /\ d1.rows = db.rows /\ d1.clocks = db.clocks /\ d1.model = db.model
      /\ d1.buckets = db.buckets /\ d1.read = db.read /\ d1.turns = db.turns
  BY <1>2 DEF Fields
<1>3a. /\ d2 = [x \in Fields |-> d2[x]] /\ d2.events = d1.events
       /\ d2.rows = db.rows /\ d2.clocks = db.clocks /\ d2.model = a.model
       /\ d2.buckets = db.buckets /\ d2.read = db.read /\ d2.turns = db.turns
  <2> HIDE DEF d1
  <2> QED  BY <1>3 DEF Fields
<1>4. /\ d3 = [x \in Fields |-> d3[x]] /\ d3.events = d1.events
      /\ d3.rows = a.rows /\ d3.clocks = db.clocks /\ d3.model = a.model
      /\ d3.buckets = db.buckets /\ d3.read = db.read /\ d3.turns = db.turns
  <2> HIDE DEF d1
  <2> QED  BY <1>3 DEF Fields
<1>5. /\ d4 = [x \in Fields |-> d4[x]] /\ d4.events = d1.events /\ d4.rows = a.rows /\ d4.model = a.model
      /\ d4.clocks = [p \in Phases |-> IF p \in a.touched THEN [of |-> a.mem.clocks[p], at |-> e.at] ELSE db.clocks[p]]
      /\ d4.buckets = db.buckets /\ d4.read = db.read /\ d4.turns = db.turns
  <2> HIDE DEF d3, d1
  <2> QED  BY <1>4 DEF Fields, Clocked
<1>6. /\ d5 = [x \in Fields |-> d5[x]] /\ d5.events = d1.events /\ d5.rows = a.rows /\ d5.model = a.model
      /\ d5.clocks = d4.clocks /\ d5.read = db.read /\ d5.turns = db.turns
      /\ d5.buckets = [b \in Buckets |-> IF b \notin a.dirty THEN db.buckets[b] ELSE
                         {j \in DOMAIN a.rows : a.rows[j].phase = b[1] /\ a.rows[j].model = b[2]}]
  <2> HIDE DEF d4, d1
  <2> DEFINE new == [b \in Buckets |-> IF b \notin a.dirty THEN d4.buckets[b] ELSE
                       {j \in DOMAIN d4.rows : d4.rows[j].phase = b[1] /\ d4.rows[j].model = b[2]}]
  <2>1. d5 = [d4 EXCEPT !.buckets = new]
    BY DEF Counted
  <2>2. new = [b \in Buckets |-> IF b \notin a.dirty THEN db.buckets[b] ELSE
                 {j \in DOMAIN a.rows : a.rows[j].phase = b[1] /\ a.rows[j].model = b[2]}]
    <3>1. d4.buckets = db.buckets /\ d4.rows = a.rows
      BY <1>5
    <3> QED  BY ONLY <3>1, Zenon
  <2> HIDE DEF new, d5
  <2>3. d5 = [x \in Fields |-> d5[x]] /\ d5.buckets = new /\ \A x \in Fields \ {"buckets"} : d5[x] = d4[x]
    BY <1>5, <2>1 DEF Fields
  <2> QED  BY <1>5, <2>2, <2>3 DEF Fields
<1>7. /\ d6 = [x \in Fields |-> d6[x]] /\ d6.events = d1.events /\ d6.rows = a.rows /\ d6.model = a.model
      /\ d6.clocks = d4.clocks /\ d6.read = Max({db.read, e.at}) /\ d6.turns = db.turns
      /\ d6.buckets = d5.buckets
  <2> HIDE DEF d5, d4, d1
  <2> QED  BY <1>6 DEF Fields, Marked
<1>8. ASSUME NEW b \in Buckets
      PROVE  {j \in DOMAIN a.rows : a.rows[j].phase = b[1] /\ a.rows[j].model = b[2]} = Under(a.rows, b)
  <2>1. PICK p \in Phases, m \in Models : b = <<p, m>>
    BY DEF Buckets
  <2> QED  BY <2>1 DEF Under
<1>9. d6.buckets = [b \in Buckets |-> IF b \notin a.dirty THEN db.buckets[b] ELSE Under(a.rows, b)]
  <2> HIDE DEF d6, d5
  <2> QED  BY <1>6, <1>7, <1>8
<1>10. Lifts(d6, a, e) /\ d6.turns = db.turns
  <2> HIDE DEF d6, d5, d4, d1
  <2> QED  BY <1>3, <1>5, <1>7, <1>9 DEF Lifts
<1>10a. Torn(d2, a, e) /\ Torn(d3, a, e) /\ Torn(d4, a, e) /\ Torn(d5, a, e)
  <2> DEFINE clocks == [p \in Phases |-> IF p \in a.touched THEN [of |-> a.mem.clocks[p], at |-> e.at] ELSE db.clocks[p]]
             buckets == [b \in Buckets |-> IF b \notin a.dirty THEN db.buckets[b] ELSE Under(a.rows, b)]
  <2>1. d4.clocks = clocks
    BY <1>5
  <2>2. d5.buckets = buckets
    <3> HIDE DEF d5
    <3> QED  BY <1>6, <1>8
  <2> HIDE DEF d5, d4, d3, d2, d1, clocks, buckets
  <2>3. Torn(d2, a, e) /\ Torn(d3, a, e)
    BY <1>3, <1>3a, <1>4 DEF Torn
  <2>4. Torn(d4, a, e)
    BY <1>3, <1>5, <2>1 DEF Torn, clocks
  <2>5. Torn(d5, a, e)
    BY <1>3, <1>6, <2>1, <2>2 DEF Torn, clocks, buckets
  <2> QED  BY <2>3, <2>4, <2>5
<1>11. ASSUME NEW d, d = [x \in Fields |-> d[x]]
       PROVE  /\ T(d) = [x \in Fields |-> T(d)[x]] /\ T(d).events = d.events /\ T(d).rows = d.rows
              /\ T(d).clocks = d.clocks /\ T(d).model = d.model /\ T(d).buckets = d.buckets /\ T(d).read = d.read
              /\ T(d).turns = IF e.kind = "turn" THEN d.turns \cup {i} ELSE d.turns
  BY <1>11 DEF Fields
<1> HIDE DEF d6, d5, d4, d3, d2, d1, T
<1>12. CASE mem.live
  <2>1. w = <<d1, d2, d3, d4, d5, d6, T(d6)>>
    BY <1>1, <1>12
  <2>2. /\ Len(w) = 7 /\ DOMAIN w = 1 .. 7 /\ w[1] = d1 /\ w[6] = d6 /\ w[7] = T(d6)
       /\ w[2] = d2 /\ w[3] = d3 /\ w[4] = d4 /\ w[5] = d5
    BY <2>1
  <2>2a. \A k \in 2 .. 5 : Torn(w[k], a, e)
    <3>1. \A k \in 2 .. 5 : k = 2 \/ k = 3 \/ k = 4 \/ k = 5
      OBVIOUS
    <3> QED  BY <1>10a, <2>2, <3>1
  <2>3. Lifts(T(d6), a, e) /\ T(d6).turns = IF e.kind = "turn" THEN db.turns \cup {i} ELSE db.turns
    <3> DEFINE t == T(d6)
    <3>1. /\ t = [x \in Fields |-> t[x]] /\ t.events = d6.events /\ t.rows = d6.rows
          /\ t.clocks = d6.clocks /\ t.model = d6.model /\ t.buckets = d6.buckets /\ t.read = d6.read
          /\ t.turns = IF e.kind = "turn" THEN d6.turns \cup {i} ELSE d6.turns
      BY <1>7, <1>11
    <3> HIDE DEF t
    <3>2. Lifts(t, a, e)
      BY <1>10, <3>1 DEF Lifts
    <3> QED  BY <1>10, <3>1, <3>2 DEF t
  <2> QED  BY <1>1, <1>10, <1>12, <2>2, <2>2a, <2>3 DEF d1, Writes
<1>13. CASE ~mem.live
  <2>1. w = <<d1, T(d1)>>
    BY <1>1, <1>13
  <2>2. Len(w) = 2 /\ DOMAIN w = 1 .. 2 /\ w[1] = d1 /\ w[2] = T(d1)
    BY <2>1
  <2>3. /\ T(d1) = [x \in Fields |-> T(d1)[x]] /\ T(d1).events = Append(db.events, e)
        /\ T(d1).rows = db.rows /\ T(d1).clocks = db.clocks /\ T(d1).model = db.model
        /\ T(d1).buckets = db.buckets /\ T(d1).read = db.read
        /\ T(d1).turns = IF e.kind = "turn" THEN db.turns \cup {i} ELSE db.turns
    BY <1>3, <1>11
  <2>4. w[1] = [db EXCEPT !.events = Append(@, e)]
    BY <2>2 DEF d1
  <2>5. Len(w) = 2 /\ w[Len(w)] = T(d1) /\ store(e).mem = mem
    BY <1>1, <1>13, <2>2
  <2> QED  BY <1>13, <2>2, <2>3, <2>4, <2>5 DEF Writes
<1> QED  BY <1>12, <1>13

\* A turn that arrives is the only one that may lack its row.
LEMMA TurnArrives ==
  ASSUME IInv, NEW e \in wire, wire' = wire \ {e}, db'.events = Append(db.events, e), UNCHANGED <<now, sent>>,
         pc # "boot",
         \/ db'.turns = db.turns /\ pc' = "boot"
         \/ db'.turns = IF e.kind = "turn" THEN db.turns \cup {Len(db.events) + 1} ELSE db.turns
  PROVE  Turns'
<1> DEFINE i == Len(db.events) + 1
<1>1. /\ Len(db'.events) = i /\ i \notin Ids /\ DOMAIN db'.events = Ids \cup {i}
      /\ db'.events[i] = e /\ \A j \in Ids : db'.events[j] = db.events[j]
  BY Arrives DEF Arrived
<1> HIDE DEF i
<1>2. TurnIds(db'.events) = TurnIds(db.events) \cup IF e.kind = "turn" THEN {i} ELSE {}
  BY <1>1 DEF TurnIds, Ids
<1>3. db.turns = TurnIds(db.events)
  BY DEF IInv, Turns
<1>4. CASE db'.turns = db.turns /\ pc' = "boot"
  BY <1>1, <1>2, <1>3, <1>4 DEF Turns
<1>5. CASE db'.turns = IF e.kind = "turn" THEN db.turns \cup {i} ELSE db.turns
  BY <1>2, <1>3, <1>5 DEF Turns
<1> QED  BY <1>4, <1>5 DEF i

\* Of the two kinds of writes: what is kept of the bounds.
LEMMA BoundsArrive ==
  ASSUME IInv, NEW e \in wire, wire' = wire \ {e}, db'.events = Append(db.events, e), UNCHANGED <<now, sent>>,
         db'.read \in -1 .. now, lives' \in 1 .. MaxLives,
         torn \subseteq torn', torn' \subseteq torn \cup {Len(db'.events)}, passed' = passed,
         \/ pc' = pc /\ mark' = mark /\ (pc = "replay" => db'.read = db.read)
         \/ pc' = "boot" /\ mark' = -1
  PROVE  Bounds'
<1>1. Arrived(e, Len(db.events) + 1)
  BY Arrives
<1>2. /\ mark' \in -1 .. now' /\ pc' \in {"boot", "load", "replay", "live"}
      /\ pc' = "replay" => db'.read <= mark'
  BY DEF IInv, Bounds
<1>3. torn' \subseteq Ids' /\ passed' \subseteq Event
  BY <1>1, StaysClean DEF Arrived, IInv, Bounds
<1> QED  BY <1>1, <1>2, <1>3 DEF Arrived, Bounds

LEMMA StoreKeeps ==
  ASSUME IInv, NEW e \in wire, Store(e)
  PROVE  IInv'
<1> DEFINE a == add(mem, db, e, Len(db.events) + 1)
           w == store(e).writes
<1>1. Writes(w, a, e)
  <2> HIDE DEF a, w
  <2> QED  BY WritesAre DEF a, w
<1>2. /\ pc # "boot" /\ wire' = wire \ {e} /\ db' = w[Len(w)] /\ mem' = store(e).mem
      /\ UNCHANGED <<now, pc, mark, sent, lives, torn, passed>>
  BY DEF Store
<1>3. (mem.live <=> pc = "live") /\ mem \in Memories /\ lives \in 1 .. MaxLives /\ db.read \in -1 .. now
      /\ Loaded' = Loaded /\ (mem.live \in BOOLEAN)
  BY <1>2 DEF IInv, Memory, Memories, Bounds, Loaded
<1> HIDE DEF a, w
<1>4. db'.turns = IF e.kind = "turn" THEN db.turns \cup {Len(db.events) + 1} ELSE db.turns
  BY <1>1, <1>2 DEF Writes
<1>5. CASE pc = "live"
  <2>1. Lifts(db', a, e) /\ mem' = a.mem
    BY <1>1, <1>2, <1>3, <1>5 DEF Writes
  <2>2. db'.events = Append(db.events, e)
    BY <2>1 DEF Lifts
  <2>3. /\ Tables' /\ db'.read \in -1 .. now
        /\ Lifted(a.mem, db'.model, db'.rows, Seen', db'.events, Clean', Strays') /\ a.mem.live = mem.live
        /\ \A p \in Phases : Kept'[p] \in {a.mem.clocks[p], << >>}
    BY <1>2, <1>5, <2>1, LiftedWhole DEF a
  <2>4. Bounds' /\ Turns'
    BY <1>2, <1>3, <1>4, <1>5, <2>2, <2>3, BoundsArrive, TurnArrives
  <2>5. Memory'
    BY <1>2, <1>3, <1>5, <2>1, <2>3 DEF Memory, Lifted, IInv, Loaded
  <2>6. Running' = a.mem.clocks
    BY <1>2, <1>5, <2>1 DEF Running, Loaded
  <2>7. Books'
    BY <2>3, <2>6 DEF Books, Lifted
  <2> QED  BY <2>3, <2>4, <2>5, <2>7 DEF IInv
<1>6. CASE pc # "live"
  <2>1. /\ db' = [x \in Fields |-> db'[x]] /\ db'.events = Append(db.events, e)
        /\ db'.rows = db.rows /\ db'.clocks = db.clocks /\ db'.model = db.model
        /\ db'.buckets = db.buckets /\ db'.read = db.read /\ mem' = mem
    BY <1>1, <1>2, <1>3, <1>6 DEF Writes
  <2>2. /\ Tables' /\ Owned(db'.rows, Running, db'.events) /\ Book(db'.rows, Running, Seen', Clean')
        /\ Kept' = Kept
    BY <1>2, <2>1, KeptOnly
  <2>3. Bounds' /\ Turns'
    BY <1>2, <1>3, <1>4, <2>1, BoundsArrive, TurnArrives
  <2>4. Memory'
    BY <1>2, <1>3, <2>1 DEF Memory, IInv
  <2>5. Running' = Running
    BY <1>3, <2>1, <2>2 DEF Running
  <2>6. Books'
    BY <2>2, <2>5 DEF Books, IInv
  <2> QED  BY <2>2, <2>3, <2>4, <2>6 DEF IInv
<1> QED  BY <1>5, <1>6

\* What a process that was killed left behind.
LEMMA KilledKeeps ==
  ASSUME IInv, Killed
  PROVE  Memory' /\ lives' \in 1 .. MaxLives /\ pc' = "boot" /\ mark' = -1 /\ ~Loaded' /\ Running' = Kept'
<1>1. mem' = Fresh /\ pc' = "boot" /\ mark' = -1 /\ lives' = lives + 1 /\ lives < MaxLives
  BY DEF Killed
<1>2. lives' \in 1 .. MaxLives
  BY <1>1, LiftAssumption DEF IInv, Bounds
<1>3. ~Loaded'
  BY <1>1 DEF Loaded
<1>4. Fresh \in Memories /\ Fresh.live = FALSE
  BY EmptyOf DEF Fresh, Memories
<1> QED  BY <1>1, <1>2, <1>3, <1>4 DEF Memory, Running

LEMMA StoreCutKeeps ==
  ASSUME IInv, NEW e \in wire, NEW k \in 1 .. 6, StoreCut(e, k)
  PROVE  IInv'
<1> DEFINE a == add(mem, db, e, Len(db.events) + 1)
           w == store(e).writes
<1>1. Writes(w, a, e)
  <2> HIDE DEF a, w
  <2> QED  BY WritesAre DEF a, w
<1>2. /\ pc # "boot" /\ wire' = wire \ {e} /\ k \in DOMAIN w /\ k < Len(w) /\ db' = w[k] /\ Killed
      /\ torn' = (IF db' # w[1] /\ k < 6 THEN torn \cup {Len(db'.events)} ELSE torn)
      /\ UNCHANGED <<now, sent, passed>>
  BY DEF StoreCut
<1>3. (mem.live <=> pc = "live") /\ (mem.live \in BOOLEAN) /\ db.read \in -1 .. now
      /\ db = [x \in Fields |-> db[x]]
  BY DEF IInv, Memory, Memories, Bounds, Tables
<1>4. Memory' /\ lives' \in 1 .. MaxLives /\ pc' = "boot" /\ mark' = -1 /\ Running' = Kept'
  BY <1>2, KilledKeeps
<1> HIDE DEF a, w
<1>5. CASE db' = w[1]
  <2>1. db' = [db EXCEPT !.events = Append(@, e)] /\ torn' = torn
    BY <1>1, <1>2, <1>5 DEF Writes
  <2>2. /\ db' = [x \in Fields |-> db'[x]] /\ db'.events = Append(db.events, e)
        /\ db'.rows = db.rows /\ db'.clocks = db.clocks /\ db'.model = db.model
        /\ db'.buckets = db.buckets /\ db'.read = db.read /\ db'.turns = db.turns
    BY <1>3, <2>1 DEF Fields
  <2>3. /\ Tables' /\ Owned(db'.rows, Running, db'.events) /\ Book(db'.rows, Running, Seen', Clean') /\ Kept' = Kept
    BY <1>2, <2>1, <2>2, KeptOnly
  <2>4. Bounds' /\ Turns'
    BY <1>2, <1>3, <1>4, <2>1, <2>2, BoundsArrive, TurnArrives
  <2>5. \A p \in Phases : Running'[p] = Running[p] \/ Running'[p] = << >>
    BY <1>4, <2>3 DEF IInv, Books
  <2> DEFINE K == Running'
             R == Running
             D == Seen'
             C == Clean'
             E == db'.events
             rows == db'.rows
  <2>6. Book(rows, R, D, C) /\ Owned(rows, R, E) /\ C \subseteq Phases /\ \A p \in Phases : K[p] = R[p] \/ K[p] = << >>
    BY <2>3, <2>5 DEF Clean
  <2> HIDE DEF K, R, D, C, E, rows
  <2>7. Book(rows, K, D, C) /\ Owned(rows, K, E)
    BY <2>6, BookLess, OwnedLess
  <2>8. Books'
    BY <1>4, <2>7 DEF Books, K, D, C, E, rows
  <2> QED  BY <1>4, <2>3, <2>4, <2>8 DEF IInv
<1>6. CASE db' # w[1] /\ k = 6
  <2>1. mem.live
    BY <1>1, <1>2, <1>3, <1>6 DEF Writes
  <2>2. Lifts(db', a, e) /\ db'.turns = db.turns /\ torn' = torn
    BY <1>1, <1>2, <1>6, <2>1 DEF Writes
  <2>3. db'.events = Append(db.events, e)
    BY <2>2 DEF Lifts
  <2>4. /\ Tables' /\ db'.read \in -1 .. now
        /\ Lifted(a.mem, db'.model, db'.rows, Seen', db'.events, Clean', Strays')
        /\ \A p \in Phases : Kept'[p] \in {a.mem.clocks[p], << >>}
    BY <1>2, <1>3, <2>1, <2>2, LiftedWhole DEF a
  <2>5. Bounds' /\ Turns'
    BY <1>2, <1>3, <1>4, <2>2, <2>3, <2>4, BoundsArrive, TurnArrives
  <2> DEFINE K == Running'
             R == a.mem.clocks
             D == Seen'
             C == Clean'
             E == db'.events
             rows == db'.rows
  <2>6. Book(rows, R, D, C) /\ Owned(rows, R, E) /\ C \subseteq Phases /\ \A p \in Phases : K[p] = R[p] \/ K[p] = << >>
    BY <1>4, <2>4 DEF Clean, Lifted
  <2> HIDE DEF K, R, D, C, E, rows
  <2>7. Book(rows, K, D, C) /\ Owned(rows, K, E)
    BY <2>6, BookLess, OwnedLess
  <2>8. Books'
    BY <1>4, <2>7 DEF Books, K, D, C, E, rows
  <2> QED  BY <1>4, <2>4, <2>5, <2>8 DEF IInv
<1>7. CASE db' # w[1] /\ k # 6
  <2>1. mem.live /\ k \in 2 .. 5
    <3>1. k # 1 /\ k \in 2 .. 5
      BY <1>2, <1>7
    <3> QED  BY <1>1, <1>2, <1>3, <3>1 DEF Writes
  <2>2. Torn(db', a, e) /\ torn' = torn \cup {Len(db'.events)}
    BY <1>1, <1>2, <1>7, <2>1 DEF Writes
  <2>3. db'.events = Append(db.events, e) /\ db'.turns = db.turns /\ db'.read = db.read
    BY <2>2 DEF Torn
  <2>4. Tables' /\ Owned(db'.rows, Kept', db'.events) /\ Book(db'.rows, Kept', Seen', Clean')
    BY <1>2, <1>3, <2>1, <2>2, LiftedInPart DEF a
  <2>5. Bounds' /\ Turns'
    BY <1>2, <1>3, <1>4, <2>2, <2>3, BoundsArrive, TurnArrives
  <2>6. Books'
    BY <1>4, <2>4 DEF Books
  <2> QED  BY <1>4, <2>4, <2>5, <2>6 DEF IInv
<1> QED  BY <1>5, <1>6, <1>7

LEMMA RestartKeeps ==
  ASSUME IInv, Restart
  PROVE  IInv'
<1>1. pc # "boot" /\ Killed /\ UNCHANGED <<now, wire, db, sent, torn, passed>>
  BY DEF Restart
<1>2. Memory' /\ lives' \in 1 .. MaxLives /\ pc' = "boot" /\ mark' = -1 /\ Running' = Kept'
  BY <1>1, KilledKeeps
<1>3. Bounds'
  BY <1>1, <1>2 DEF IInv, Bounds, Ids
<1>3a. Clean' = Clean /\ Strays' = Strays
  BY <1>1 DEF Clean, Strays, Spoiled
<1>4. Tables'
  BY <1>1, <1>3a DEF IInv, Tables
<1>5. Turns'
  BY <1>1, <1>2 DEF IInv, Turns
<1>6. Kept' = Kept /\ Seen' = Seen
  BY <1>1 DEF Kept, Seen, Ids
<1> DEFINE K == Running'
           R == Running
           E == db.events
<1>7. /\ Owned(db.rows, R, E) /\ Book(db.rows, R, Seen, Clean) /\ Clean \subseteq Phases
      /\ \A p \in Phases : K[p] = R[p] \/ K[p] = << >>
  BY <1>2, <1>6 DEF IInv, Books, Clean
<1> HIDE DEF K, R, E
<1>8. Owned(db.rows, K, E) /\ Book(db.rows, K, Seen, Clean)
  BY <1>7, BookLess, OwnedLess
<1>9. Books'
  BY <1>1, <1>2, <1>3a, <1>6, <1>8 DEF Books, K, E
<1> QED  BY <1>2, <1>3, <1>4, <1>5, <1>9 DEF IInv

LEMMA BootKeeps ==
  ASSUME IInv, Boot
  PROVE  IInv' /\ db'.turns = TurnIds(db.events)
<1>1. pc = "boot" /\ pc' = "load" /\ UNCHANGED <<now, wire, mem, mark, sent, lives, torn, passed>>
  BY DEF Boot
<1> DEFINE newest == Max({0} \cup db.turns)
           more == {i \in DOMAIN db.events : i > newest /\ db.events[i].kind = "turn"}
<1>2. db' = [db EXCEPT !.turns = db.turns \cup more]
  BY DEF Boot, liftHistory
<1>3. db.turns \cup more = TurnIds(db.events)
  <2>1. /\ TurnIds(db.events) \subseteq 1 .. Len(db.events) /\ Len(db.events) \in Nat
        /\ db.turns \subseteq TurnIds(db.events)
        /\ \A i \in TurnIds(db.events) \ db.turns : i = Len(db.events)
    BY EventsAre DEF IInv, Bounds, Events, Turns, TurnIds, Ids
  <2>2. newest \in {0} \cup db.turns
    <3>1. {0} \cup db.turns \in SUBSET (-1 .. Len(db.events)) /\ {0} \cup db.turns # {}
      BY <2>1
    <3> QED  BY <2>1, <3>1, MaxOf
  <2> HIDE DEF newest
  <2>3. ASSUME NEW i \in TurnIds(db.events) \ db.turns  PROVE i > newest
    <3>1. i = Len(db.events) /\ newest \in 0 .. Len(db.events) /\ i \in 1 .. Len(db.events)
      BY <2>1, <2>2
    <3>2. newest # i
      BY <2>1, <2>2, <3>1
    <3> QED  BY <2>1, <3>1, <3>2
  <2> QED  BY <2>1, <2>3 DEF TurnIds
<1> HIDE DEF more, newest
<1>4. /\ db' = [x \in Fields |-> db'[x]] /\ db'.events = db.events
      /\ db'.rows = db.rows /\ db'.clocks = db.clocks /\ db'.model = db.model
      /\ db'.buckets = db.buckets /\ db'.read = db.read /\ db'.turns = TurnIds(db.events)
  <2>1. db = [x \in Fields |-> db[x]]
    BY DEF IInv, Tables
  <2> QED  BY <1>2, <1>3, <2>1 DEF Fields
<1>5. ~Loaded /\ ~Loaded' /\ Kept' = Kept /\ Seen' = Seen
  BY <1>1, <1>4 DEF Loaded, Kept, Seen, Ids
<1>6. Bounds'
  BY <1>1, <1>4 DEF IInv, Bounds, Ids
<1>7. Memory'
  BY <1>1, <1>5 DEF IInv, Memory
<1>7a. Clean' = Clean /\ Strays' = Strays
  BY <1>1, <1>4 DEF Clean, Strays, Spoiled
<1>8. Tables'
  BY <1>4, <1>7a DEF IInv, Tables
<1>9. Turns'
  BY <1>4 DEF Turns
<1>10. Books'
  BY <1>4, <1>5, <1>7a DEF IInv, Books, Running
<1> QED  BY <1>4, <1>6, <1>7, <1>8, <1>9, <1>10 DEF IInv

LEMMA LoadKeeps ==
  ASSUME IInv, Load
  PROVE  IInv'
<1>1. /\ pc = "load" /\ pc' = "replay" /\ UNCHANGED <<now, wire, db, sent, lives, torn, passed>>
      /\ mem' = [mem EXCEPT !.clocks = Kept, !.model = db.model]
      /\ mark' = IF db.read >= 0 THEN db.read
                 ELSE IF db.events = << >> THEN 0 ELSE Min({db.events[i].at : i \in DOMAIN db.events}) - 1
  BY DEF Load, Kept
<1>2. Kept \in [Phases -> Seq(Nat)]
  <2>1. \A p \in Phases : db.clocks[p].of \in Seq(Nat)
    BY DEF IInv, Tables, Clock
  <2> QED  BY <2>1 DEF Kept
<1>3. ~Loaded /\ Loaded'
  BY <1>1 DEF Loaded
<1>4. mem \in Memories /\ mem.live = FALSE
  BY <1>1 DEF IInv, Memory
<1>5. mem' \in Memories /\ mem'.live = FALSE /\ mem'.clocks = Kept /\ mem'.model = db.model
  <2>1. db.model \in Models \cup {0}
    BY DEF IInv, Tables
  <2> QED  BY <1>1, <1>2, <1>4, <2>1 DEF Memories
<1>6. Memory'
  BY <1>1, <1>3, <1>5 DEF Memory
<1>7. mark' \in -1 .. now /\ db.read <= mark'
  <2>1. db.read \in -1 .. now /\ now \in Nat
    BY DEF IInv, Bounds
  <2>2. CASE db.read >= 0
    BY <1>1, <2>1, <2>2
  <2>3. CASE ~(db.read >= 0) /\ db.events = << >>
    BY <1>1, <2>1, <2>3
  <2>4. CASE ~(db.read >= 0) /\ db.events # << >>
    <3> DEFINE ats == {db.events[i].at : i \in DOMAIN db.events}
    <3>1. ats \in SUBSET (0 .. now) /\ ats # {}
      <4>1. \A i \in DOMAIN db.events : db.events[i].at \in 0 .. now
        BY EventsAre DEF IInv, Bounds, Events, Ids
      <4>2. DOMAIN db.events # {}
        <5>1. db.events \in Seq(Event)
          BY DEF IInv, Bounds
        <5>2. Len(db.events) \in Nat \ {0}
          BY <2>4, <5>1, EmptySeq, Zenon
        <5>3. 1 \in 1 .. Len(db.events)
          BY <5>2
        <5>4. DOMAIN db.events = 1 .. Len(db.events)
          BY <5>1
        <5> QED  BY <5>3, <5>4, Zenon
      <4> QED  BY <4>1, <4>2
    <3>2. mark' = Min(ats) - 1
      BY <1>1, <2>4
    <3> HIDE DEF ats
    <3>3. Min(ats) \in 0 .. now
      <4>1. ats \in SUBSET Nat
        BY <2>1, <3>1
      <4> QED  BY <3>1, <4>1, MinOf
    <3> QED  BY <2>1, <2>4, <3>2, <3>3
  <2> QED  BY <2>2, <2>3, <2>4
<1>8. Bounds'
  BY <1>1, <1>7 DEF IInv, Bounds, Ids
<1>8a. Clean' = Clean /\ Strays' = Strays
  BY <1>1 DEF Clean, Strays, Spoiled
<1>9. Tables'
  BY <1>1, <1>8a DEF IInv, Tables
<1>10. Turns'
  BY <1>1 DEF IInv, Turns
<1>11. Kept' = Kept /\ Seen' = Seen /\ Running' = Kept /\ Running = Kept
  BY <1>1, <1>3, <1>5 DEF Kept, Seen, Ids, Running
<1>12. Books'
  BY <1>1, <1>8a, <1>11 DEF IInv, Books
<1> QED  BY <1>6, <1>8, <1>9, <1>10, <1>12 DEF IInv

-----------------------------------------------------------------------------
(* A slice of the replay, as a step                                        *)

\* How far a slice read: not back, not past now, and past all of its events.
SliceEnd(to) ==
  Max({-1} \cup {db.events[i].at : i \in Later(to)} \cup (IF Later(to) = {} /\ ~(to >= now) THEN {to} ELSE {}))
LEMMA SliceReads ==
  ASSUME IInv, NEW to \in Nat \cup {-1}
  PROVE  /\ SliceEnd(to) \in -1 .. now
         /\ \A i \in Later(to) : db.events[i].at <= SliceEnd(to)
         /\ to < now => SliceEnd(to) <= to
         /\ Later(to) = {} /\ to < now => SliceEnd(to) = to
         /\ Later(to) # {} => \E i \in Later(to) : SliceEnd(to) = db.events[i].at
         /\ Later(to) = {} /\ to >= now => SliceEnd(to) = -1
<1> DEFINE ats == {db.events[i].at : i \in Later(to)}
           S == {-1} \cup ats \cup (IF Later(to) = {} /\ ~(to >= now) THEN {to} ELSE {})
<1>0. to \in Int /\ -1 <= to /\ now \in Nat
  BY DEF IInv, Bounds
<1>1. now \in Nat /\ \A i \in Later(to) : db.events[i].at \in 0 .. now /\ (to < now => db.events[i].at <= to)
  BY EventsAre DEF IInv, Bounds, Events, Later, Ids
<1>2. ats \in SUBSET (0 .. now) /\ \A x \in ats : to < now => x <= to
  BY <1>1
<1>3. \A i \in Later(to) : db.events[i].at \in ats
  OBVIOUS
<1>4. \A x \in ats : \E i \in Later(to) : x = db.events[i].at
  OBVIOUS
<1>5. SliceEnd(to) = Max(S)
  BY DEF SliceEnd
<1>6. S \in SUBSET (-1 .. now) /\ S # {} /\ ats \subseteq S /\ -1 \in S /\ \A x \in S : to < now => x <= to
  <2> HIDE DEF ats
  <2>1. to < now => to \in -1 .. now
    BY <1>0
  <2>2. -1 \in -1 .. now /\ \A x \in 0 .. now : x \in -1 .. now
    BY <1>0
  <2> QED  BY <1>0, <1>2, <2>1, <2>2
<1>7. Later(to) = {} /\ to < now => to \in S
  BY <1>0
<1>8. \A x \in S : x = -1 \/ x \in ats \/ (x = to /\ Later(to) = {} /\ to < now)
  BY <1>0
<1>9. Later(to) = {} => ats = {}
  OBVIOUS
<1> HIDE DEF S, ats
<1>10. Max(S) \in S /\ \A y \in S : y <= Max(S)
  BY <1>1, <1>6, MaxOf
<1>11. Max(S) \in -1 .. now /\ \A i \in Later(to) : db.events[i].at <= Max(S)
  BY <1>3, <1>6, <1>10
<1>12. ASSUME Later(to) = {}, to < now  PROVE Max(S) = to
  <2>1. to \in S /\ Max(S) \in S /\ to <= Max(S) /\ Max(S) <= to /\ Max(S) \in Int
    BY <1>6, <1>7, <1>10, <1>11, <1>12
  <2> QED  BY <1>0, <2>1
<1>13. ASSUME NEW i \in Later(to)  PROVE \E j \in Later(to) : Max(S) = db.events[j].at
  <2>1. db.events[i].at \in 0 .. now /\ db.events[i].at <= Max(S)
    BY <1>1, <1>11
  <2>2. Max(S) # -1
    BY <1>1, <1>11, <2>1
  <2> QED  BY <1>4, <1>8, <1>10, <2>2
<1>14. Later(to) = {} /\ to >= now => Max(S) = -1
  BY <1>0, <1>8, <1>9, <1>10
<1> QED  BY <1>5, <1>6, <1>10, <1>11, <1>12, <1>13, <1>14

\* What a slice writes.  b is what its events made of the memory and the tables.
SliceClocks(b) ==
  [p \in Phases |-> IF p \in b.touched THEN [of |-> b.mem.clocks[p], at |-> b.at[p]] ELSE db.clocks[p]]
Sliced(b, to) ==
  /\ db' = [x \in Fields |-> db'[x]] /\ db'.events = db.events /\ db'.turns = db.turns
  /\ db'.rows = b.db.rows /\ db'.model = b.db.model
  /\ db'.clocks = IF to >= now THEN [p \in Phases |-> IF SliceClocks(b)[p].at < now - Day THEN NoClock
                                                      ELSE SliceClocks(b)[p]]
                  ELSE SliceClocks(b)
  /\ db'.buckets = [x \in Buckets |-> IF x \notin b.dirty THEN db.buckets[x] ELSE Under(b.db.rows, x)]
  /\ db'.read = Max({db.read, SliceEnd(to)})
  /\ mem' = [b.mem EXCEPT !.live = (to >= now)]
  /\ pc' = (IF to >= now THEN "live" ELSE "replay") /\ mark' = (IF to >= now THEN mark ELSE to)
LEMMA SliceWrites ==
  ASSUME IInv, ReplaySlice,
         LET b == Replayed(Later(mark + Slice)) IN b.db = [db EXCEPT !.rows = b.db.rows, !.model = b.db.model]
  PROVE  Sliced(Replayed(Later(mark + Slice)), mark + Slice)
<1> DEFINE to == mark + Slice
           b == Replayed(Later(to))
           d1 == [b.db EXCEPT !.clocks = [p \in Phases |->
                   IF p \in b.touched THEN [of |-> b.mem.clocks[p], at |-> b.at[p]] ELSE @[p]]]
           d2 == Counted(d1, b.dirty)
           d3 == Marked(d2, SliceEnd(to))
<1>1. /\ mem' = [b.mem EXCEPT !.live = (to >= now)]
      /\ db' = IF to >= now THEN [d3 EXCEPT !.clocks = [p \in Phases |->
                                 IF @[p].at < now - Day THEN NoClock ELSE @[p]]] ELSE d3
      /\ pc' = (IF to >= now THEN "live" ELSE "replay") /\ mark' = (IF to >= now THEN mark ELSE to)
  BY DEF ReplaySlice, SliceEnd
<1>8. b.db = [db EXCEPT !.rows = b.db.rows, !.model = b.db.model]
  OBVIOUS
<1> SUFFICES Sliced(b, to)
  OBVIOUS
<1> HIDE DEF b
<1>2. /\ b.db = [x \in Fields |-> b.db[x]] /\ b.db.events = db.events /\ b.db.turns = db.turns
      /\ b.db.clocks = db.clocks /\ b.db.buckets = db.buckets /\ b.db.read = db.read
  <2>1. db = [x \in Fields |-> db[x]]
    BY DEF IInv, Tables
  <2>2. DOMAIN db = Fields
    BY <2>1
  <2>3. DOMAIN b.db = Fields /\ b.db = [x \in DOMAIN b.db |-> b.db[x]]
    BY <1>8, <2>2
  <2> QED  BY <1>8, <2>2, <2>3 DEF Fields
<1> HIDE DEF to
<1>3. /\ d1 = [x \in Fields |-> d1[x]] /\ d1.events = db.events /\ d1.turns = db.turns /\ d1.rows = b.db.rows
      /\ d1.model = b.db.model /\ d1.buckets = db.buckets /\ d1.read = db.read
      /\ d1.clocks = SliceClocks(b)
  <2> DEFINE new == [p \in Phases |->
                IF p \in b.touched THEN [of |-> b.mem.clocks[p], at |-> b.at[p]] ELSE b.db.clocks[p]]
  <2>1. d1 = [b.db EXCEPT !.clocks = new]
    OBVIOUS
  <2>2. new = SliceClocks(b)
    BY <1>2 DEF SliceClocks
  <2> HIDE DEF new, d1
  <2> QED  BY <1>2, <2>1, <2>2 DEF Fields
<1> HIDE DEF d1
<1>4. /\ d2 = [x \in Fields |-> d2[x]] /\ d2.events = db.events /\ d2.turns = db.turns /\ d2.rows = b.db.rows
      /\ d2.model = b.db.model /\ d2.read = db.read /\ d2.clocks = SliceClocks(b)
      /\ d2.buckets = [x \in Buckets |-> IF x \notin b.dirty THEN db.buckets[x] ELSE Under(b.db.rows, x)]
  <2> DEFINE new == [x \in Buckets |-> IF x \notin b.dirty THEN d1.buckets[x] ELSE
                       {j \in DOMAIN d1.rows : d1.rows[j].phase = x[1] /\ d1.rows[j].model = x[2]}]
  <2>1. d2 = [d1 EXCEPT !.buckets = new]
    BY DEF Counted
  <2>2. ASSUME NEW rows, NEW x \in Buckets
        PROVE  {j \in DOMAIN rows : rows[j].phase = x[1] /\ rows[j].model = x[2]} = Under(rows, x)
    <3>1. PICK p \in Phases, m \in Models : x = <<p, m>>
      BY DEF Buckets
    <3> QED  BY <3>1 DEF Under
  <2>3. new = [x \in Buckets |-> IF x \notin b.dirty THEN d1.buckets[x] ELSE Under(d1.rows, x)]
    BY <2>2
  <2>4. new = [x \in Buckets |-> IF x \notin b.dirty THEN db.buckets[x] ELSE Under(b.db.rows, x)]
    <3>1. d1.buckets = db.buckets /\ d1.rows = b.db.rows
      BY <1>3
    <3> HIDE DEF new
    <3> QED  BY ONLY <2>3, <3>1, Zenon
  <2> HIDE DEF new, d2
  <2>5. d2 = [x \in Fields |-> d2[x]] /\ d2.buckets = new /\ \A x \in Fields \ {"buckets"} : d2[x] = d1[x]
    BY <1>3, <2>1 DEF Fields
  <2> QED  BY <1>3, <2>4, <2>5 DEF Fields
<1> HIDE DEF d2
<1>5. /\ d3 = [x \in Fields |-> d3[x]] /\ d3.read = Max({db.read, SliceEnd(to)})
      /\ \A x \in Fields \ {"read"} : d3[x] = d2[x]
  BY <1>4 DEF Fields, Marked
<1> HIDE DEF d3
<1>6. CASE to >= now
  <2> DEFINE new == [p \in Phases |-> IF d3.clocks[p].at < now - Day THEN NoClock ELSE d3.clocks[p]]
  <2>1. db' = [d3 EXCEPT !.clocks = new]
    BY <1>1, <1>6
  <2>2. new = [p \in Phases |-> IF SliceClocks(b)[p].at < now - Day THEN NoClock ELSE SliceClocks(b)[p]]
    BY <1>4, <1>5 DEF Fields
  <2> HIDE DEF new
  <2>3. db' = [x \in Fields |-> db'[x]] /\ db'.clocks = new /\ \A x \in Fields \ {"clocks"} : db'[x] = d3[x]
    BY <1>5, <2>1 DEF Fields
  <2>4. /\ db'.events = d3.events /\ db'.turns = d3.turns /\ db'.rows = d3.rows /\ db'.model = d3.model
        /\ db'.buckets = d3.buckets /\ db'.read = d3.read
    BY <2>3 DEF Fields
  <2>5. /\ d3.events = d2.events /\ d3.turns = d2.turns /\ d3.rows = d2.rows /\ d3.model = d2.model
        /\ d3.buckets = d2.buckets
    BY <1>5 DEF Fields
  <2> QED  BY <1>1, <1>4, <1>5, <1>6, <2>2, <2>3, <2>4, <2>5 DEF Sliced
<1>7. CASE ~(to >= now)
  <2>1. db' = d3
    BY <1>1, <1>7
  <2>2. /\ d3.events = d2.events /\ d3.turns = d2.turns /\ d3.rows = d2.rows /\ d3.model = d2.model
        /\ d3.buckets = d2.buckets /\ d3.clocks = d2.clocks
    BY <1>5 DEF Fields
  <2> QED  BY <1>1, <1>4, <1>5, <1>7, <2>1, <2>2 DEF Sliced
<1> QED  BY <1>6, <1>7

\* What a slice replays was not lifted before.
LEMMA SliceIsNew ==
  ASSUME IInv, ReplaySlice
  PROVE  /\ Loaded /\ mark + Slice \in Nat \cup {-1} /\ mark + Slice \in Nat /\ now \in Nat
         /\ Later(mark + Slice) \in SUBSET Ids /\ Later(mark + Slice) \cap Seen = {}
<1>1. pc = "replay" /\ mark \in -1 .. now /\ now \in Nat /\ Slice \in Nat \ {0} /\ db.read <= mark
      /\ db.read \in -1 .. now
  BY LiftAssumption DEF ReplaySlice, IInv, Bounds
<1>2. mark + Slice \in Nat
  BY <1>1
<1>3. \A i \in Ids : db.events[i].at \in Nat
  BY EventsAre DEF IInv, Bounds, Events
<1>4. Later(mark + Slice) \in SUBSET Ids /\ \A i \in Later(mark + Slice) : db.events[i].at > mark
  BY DEF Later, Ids
<1>5. ASSUME NEW i \in Later(mark + Slice)  PROVE i \notin Seen
  <2>1. db.events[i].at \in Nat /\ db.events[i].at > mark
    BY <1>3, <1>4
  <2> QED  BY <1>1, <2>1 DEF Seen
<1> QED  BY <1>1, <1>2, <1>4, <1>5 DEF Loaded

LEMMA ReplaySliceKeeps ==
  ASSUME IInv, ReplaySlice
  PROVE  IInv'
<1> DEFINE to == mark + Slice
           is == Later(to)
           b  == Replayed(is)
<1>1. Loaded /\ to \in Nat \cup {-1} /\ to \in Nat /\ now \in Nat /\ is \in SUBSET Ids /\ is \cap Seen = {}
  BY SliceIsNew
<1>2. Events /\ DOMAIN db = Fields /\ Folded(Begun, Seen)
  BY <1>1, BegunIs
<1>3. PICK D \in SUBSET (Seen \cup is) : Folded(b, D)
  <2> HIDE DEF is
  <2> QED  BY <1>1, <1>2, SliceFolds
<1>4. b.db = [db EXCEPT !.rows = b.db.rows, !.model = b.db.model]
  BY <1>3 DEF Folded
<1>5. Sliced(b, to)
  BY <1>4, SliceWrites
<1>6. /\ SliceEnd(to) \in -1 .. now /\ (\A i \in is : db.events[i].at <= SliceEnd(to))
      /\ (to < now => SliceEnd(to) <= to)
  BY <1>1, SliceReads
<1>7. pc = "replay" /\ UNCHANGED <<now, wire, sent, lives, torn>> /\ passed' \subseteq passed \cup wire
  BY DEF ReplaySlice
<1> HIDE DEF to, is, b
<1>8. /\ db' = [x \in Fields |-> db'[x]] /\ db'.events = db.events /\ db'.turns = db.turns
      /\ db'.rows = b.db.rows /\ db'.model = b.db.model
      /\ db'.read = Max({db.read, SliceEnd(to)})
      /\ mem' = [b.mem EXCEPT !.live = (to >= now)]
      /\ pc' = (IF to >= now THEN "live" ELSE "replay") /\ mark' = (IF to >= now THEN mark ELSE to)
  BY <1>5 DEF Sliced
<1>9. /\ db.read \in -1 .. now /\ mark \in -1 .. now /\ db.read <= mark /\ mark <= to
  <2>1. Slice \in Nat
    BY LiftAssumption
  <2> QED  BY <1>7, <2>1 DEF IInv, Bounds, to
<1>10. db'.read = IF db.read <= SliceEnd(to) THEN SliceEnd(to) ELSE db.read
  BY <1>1, <1>6, <1>8, <1>9, MaxOfTwo
<1>11. /\ db'.read \in -1 .. now /\ db.read <= db'.read /\ SliceEnd(to) <= db'.read
       /\ (to < now => db'.read <= to)
  BY <1>1, <1>6, <1>9, <1>10
<1>12. mark' \in -1 .. now /\ (pc' = "replay" => db'.read <= mark')
  BY <1>1, <1>8, <1>9, <1>11
<1>13. Bounds'
  <2>1. passed' \subseteq Event /\ torn' \subseteq Ids'
    BY <1>7, <1>8 DEF IInv, Bounds, Ids
  <2> QED  BY <1>7, <1>8, <1>11, <1>12, <2>1 DEF IInv, Bounds, Ids
<1>13a. Clean' = Clean /\ Strays' = Strays
  BY <1>7, <1>8 DEF Clean, Strays, Spoiled
<1>14. Lifted(b.mem, b.db.model, b.db.rows, D, db.events, Clean, Strays)
  BY <1>3 DEF Folded
<1>15. /\ mem' \in Memories /\ mem'.live = (to >= now) /\ mem'.clocks = b.mem.clocks /\ mem'.model = b.mem.model
  <2>1. b.mem \in Memories
    BY <1>14 DEF Lifted
  <2>2. (to >= now) \in BOOLEAN
    OBVIOUS
  <2> QED  BY <1>8, <2>1, <2>2 DEF Memories
<1>16. Memory'
  <2>1. Loaded' /\ (to >= now <=> pc' = "live")
    BY <1>8 DEF Loaded
  <2>2. mem'.model = db'.model
    BY <1>8, <1>14, <1>15 DEF Lifted
  <2> QED  BY <1>15, <2>1, <2>2 DEF Memory
<1>17. b.mem.clocks \in [Phases -> Seq(Nat)] /\ b.db.model \in Models \cup {0}
       /\ b.at \in [Phases -> Nat \cup {-1}]
  BY <1>3, <1>14 DEF Lifted, Memories, Folded
<1>18. SliceClocks(b) \in [Phases -> Clock]
  <2>1. \A p \in Phases : [of |-> b.mem.clocks[p], at |-> b.at[p]] \in Clock
    BY <1>17 DEF Clock
  <2>2. db.clocks \in [Phases -> Clock]
    BY DEF IInv, Tables
  <2> QED  BY <2>1, <2>2 DEF SliceClocks
<1>19. \A p \in Phases : db'.clocks[p] \in {SliceClocks(b)[p], NoClock}
  BY <1>5 DEF Sliced, SliceClocks
<1>20. db'.clocks \in [Phases -> Clock]
  <2>1. NoClock \in Clock
    BY EmptyOf DEF NoClock, Clock
  <2>2. db'.clocks = [p \in Phases |-> db'.clocks[p]]
    <3>1. CASE to >= now
      <4> DEFINE c == [p \in Phases |-> IF SliceClocks(b)[p].at < now - Day THEN NoClock ELSE SliceClocks(b)[p]]
      <4>1. db'.clocks = c
        BY <1>5, <3>1 DEF Sliced
      <4>2. c = [p \in Phases |-> c[p]]
        OBVIOUS
      <4> HIDE DEF c
      <4> QED  BY <4>1, <4>2
    <3>2. CASE ~(to >= now)
      <4>1. db'.clocks = SliceClocks(b)
        BY <1>5, <3>2 DEF Sliced
      <4> QED  BY <1>18, <4>1
    <3> QED  BY <3>1, <3>2
  <2> QED  BY <1>18, <1>19, <2>1, <2>2
<1>21. /\ db'.buckets = [x \in Buckets |-> db'.buckets[x]]
       /\ \A x \in Buckets : db'.buckets[x] \subseteq DOMAIN db'.rows
       /\ Strays = {} => \A x \in Buckets : x[1] \in Clean => db'.buckets[x] = Under(db'.rows, x)
  <2>1. /\ \A x \in Buckets : db.buckets[x] \subseteq DOMAIN db.rows
        /\ Strays = {} => \A x \in Buckets : x[1] \in Clean => db.buckets[x] = Under(db.rows, x)
    BY DEF IInv, Tables
  <2>1a. DOMAIN db.rows \subseteq DOMAIN b.db.rows /\ \A x : Under(b.db.rows, x) \subseteq DOMAIN b.db.rows
    BY <1>3 DEF Folded, Under
  <2>2. \A x \in Buckets : x \notin b.dirty => Under(b.db.rows, x) = Under(db.rows, x)
    BY <1>3 DEF Folded
  <2>3. db'.buckets = [x \in Buckets |-> IF x \notin b.dirty THEN db.buckets[x] ELSE Under(b.db.rows, x)]
    BY <1>5 DEF Sliced
  <2> QED  BY <1>8, <2>1, <2>1a, <2>2, <2>3
<1>22. Tables'
  BY <1>8, <1>13a, <1>14, <1>17, <1>20, <1>21 DEF Tables, Lifted
<1>23. Turns'
  BY <1>7, <1>8 DEF IInv, Turns
<1>24. D \subseteq Seen'
  <2>1. ASSUME NEW i \in Seen  PROVE i \in Seen'
    <3>1. i \in Ids /\ db.events[i].at <= db.read /\ db.events[i].at \in Nat
      BY <1>2, EventsAre DEF Seen
    <3> QED  BY <1>8, <1>9, <1>11, <3>1 DEF Seen, Ids
  <2>2. ASSUME NEW i \in is  PROVE i \in Seen'
    <3>1. i \in Ids /\ db.events[i].at <= SliceEnd(to) /\ db.events[i].at \in Nat
      BY <1>1, <1>2, <1>6, EventsAre
    <3> QED  BY <1>6, <1>8, <1>11, <3>1 DEF Seen, Ids
  <2> QED  BY <2>1, <2>2
<1>25. Running' = b.mem.clocks
  BY <1>8, <1>15 DEF Running, Loaded
<1>26. Book(db'.rows, Running', Seen', Clean') /\ Owned(db'.rows, Running', db'.events)
  <2> DEFINE S == Seen'
  <2>1. Book(b.db.rows, b.mem.clocks, D, Clean) /\ D \subseteq S /\ Owned(b.db.rows, b.mem.clocks, db.events)
    BY <1>14, <1>24 DEF Lifted
  <2> HIDE DEF S
  <2>2. Book(b.db.rows, b.mem.clocks, S, Clean)
    BY <2>1, BookLess
  <2> QED  BY <1>8, <1>13a, <1>25, <2>1, <2>2 DEF S
<1>27. ASSUME NEW p \in Phases  PROVE Kept'[p] \in {Running'[p], << >>}
  <2>1. Kept'[p] = db'.clocks[p].of
    BY DEF Kept
  <2>2. SliceClocks(b)[p].of = IF p \in b.touched THEN b.mem.clocks[p] ELSE Kept[p]
    BY DEF SliceClocks, Kept
  <2>3. p \notin b.touched => b.mem.clocks[p] = mem.clocks[p]
    BY <1>3 DEF Folded
  <2>4. Kept[p] \in {mem.clocks[p], << >>}
    BY <1>1 DEF IInv, Books, Running
  <2>5. NoClock.of = << >>
    BY DEF NoClock
  <2> QED  BY <1>19, <1>25, <2>1, <2>2, <2>3, <2>4, <2>5
<1>28. Books'
  BY <1>26, <1>27 DEF Books
<1> QED  BY <1>13, <1>16, <1>22, <1>23, <1>28 DEF IInv

LEMMA InitIInv == LiftInit => IInv
<1> SUFFICES ASSUME LiftInit  PROVE IInv
  OBVIOUS
<1>1. /\ now = 0 /\ wire = {} /\ sent = 0 /\ lives = 1 /\ mem = Fresh /\ pc = "boot" /\ mark = -1
      /\ torn = {} /\ passed = {}
      /\ db = [events |-> << >>, turns |-> {}, rows |-> Empty, clocks |-> [p \in Phases |-> NoClock],
               model |-> 0, buckets |-> [b \in Buckets |-> {}], read |-> -1]
  BY DEF LiftInit
<1>2. /\ db.events = << >> /\ db.turns = {} /\ db.rows = << >> /\ db.clocks = [p \in Phases |-> NoClock]
      /\ db.model = 0 /\ db.buckets = [b \in Buckets |-> {}] /\ db.read = -1
      /\ db = [x \in Fields |-> db[x]]
  BY <1>1 DEF Empty, Fields
<1>3. << >> \in Seq(Event) /\ Len(<< >>) = 0 /\ DOMAIN << >> = {} /\ IsFiniteSet({}) /\ Cardinality({}) = 0
  BY FS_EmptySet
<1>4. Ids = {} /\ Seen = {} /\ Strays = {}
  BY <1>1, <1>2 DEF Ids, Seen, Strays
<1>5. Bounds
  BY <1>1, <1>2, <1>3, <1>4, LiftAssumption DEF Bounds
<1>6. ~Loaded
  BY <1>1 DEF Loaded
<1>7. Memory
  <2>1. Fresh \in Memories /\ Fresh.live = FALSE
    BY EmptyOf DEF Fresh, Memories
  <2> QED  BY <1>1, <1>6, <2>1 DEF Memory
<1>8. Tables
  <2>1. Placed(<< >>, << >>)
    BY DEF Placed
  <2>2. NoClock \in Clock
    BY EmptyOf DEF NoClock, Clock
  <2>3. \A b : Under(<< >>, b) = {}
    BY DEF Under
  <2> QED  BY <1>2, <1>4, <2>1, <2>2, <2>3 DEF Tables
<1>9. Turns
  BY <1>2 DEF Turns, TurnIds
<1>10. Books
  <2>1. \A p \in Phases : Kept[p] = << >>
    BY <1>2 DEF Kept, NoClock
  <2>2. Running = Kept
    BY <1>6 DEF Running
  <2> HIDE DEF Kept
  <2>3. \A p \in Phases : Running[p] = << >>
    BY <2>1, <2>2
  <2>4. DOMAIN db.rows = {}
    BY <1>2
  <2> HIDE DEF Running
  <2>5. Owned(db.rows, Running, db.events)
    BY <2>3, <2>4, EmptyOf DEF Owned
  <2>6. Book(db.rows, Running, Seen, Clean)
    BY <2>3, <2>4, EmptyOf DEF Book, Page, Of, Clean
  <2> QED  BY <2>1, <2>2, <2>5, <2>6 DEF Books
<1> QED  BY <1>5, <1>7, <1>8, <1>9, <1>10 DEF IInv

LEMMA NextKeeps ==
  ASSUME IInv, [LiftNext]_liftVars
  PROVE  IInv'
<1>1. CASE \E kind \in Waits, p \in Phases, gap \in Gaps : Send(kind, p, 0, gap)
  BY <1>1, SendKeeps
<1>2. CASE \E p \in Phases, model \in Models, gap \in Gaps : Send("turn", p, model, gap)
  BY <1>2, SendKeeps
<1>3. CASE \E e \in wire : Store(e) \/ \E k \in 1 .. 6 : StoreCut(e, k)
  BY <1>3, StoreKeeps, StoreCutKeeps
<1>4. CASE Restart
  BY <1>4, RestartKeeps
<1>5. CASE Boot
  BY <1>5, BootKeeps
<1>6. CASE Load
  BY <1>6, LoadKeeps
<1>7. CASE ReplaySlice
  BY <1>7, ReplaySliceKeeps
<1>8. CASE UNCHANGED liftVars
  <2>1. UNCHANGED <<now, wire, db, mem, pc, mark, sent, lives, torn, passed>>
    BY <1>8 DEF liftVars
  <2>2. Bounds'
    BY <2>1 DEF IInv, Bounds, Ids
  <2> QED  BY <2>1, <2>2, RestStays DEF IInv
<1> QED  BY <1>1, <1>2, <1>3, <1>4, <1>5, <1>6, <1>7, <1>8 DEF LiftNext

-----------------------------------------------------------------------------
(* What follows from the invariant                                         *)

\* The totals of a day are those of its answers, but for what a torn lift spoiled.
DaysAreTrue == ~Misnamed => \A b \in Buckets : ~Spoiled(b[1]) => db.buckets[b] = Under(db.rows, b)

LEMMA TypesHold == IInv => LiftTypeOK
<1> SUFFICES ASSUME IInv  PROVE LiftTypeOK
  OBVIOUS
<1>1. /\ Events /\ Ids = 1 .. Len(db.events) /\ Len(db.events) \in Nat /\ sent \in 0 .. MaxEvents /\ MaxEvents \in Nat
      /\ wire \subseteq Event /\ IsFiniteSet(wire) /\ Len(db.events) + Cardinality(wire) <= sent
  BY EventsAre, LiftAssumption DEF IInv, Bounds, Events
<1>2. Len(db.events) <= sent
  <2>1. Cardinality(wire) \in Nat
    BY <1>1, FS_CardinalityType
  <2> QED  BY <1>1, <2>1
<1>3. db.events \in Seq(Event) /\ db.turns \subseteq DOMAIN db.events
  BY DEF IInv, Bounds, Turns, TurnIds
<1>4. /\ DOMAIN db.rows \subseteq {i \in DOMAIN db.events : db.events[i].kind \in {"idle", "answer"}}
      /\ \A i \in DOMAIN db.rows : db.rows[i].phase = db.events[i].phase /\ db.rows[i].model \in Models \cup {0}
  <2>1. Placed(db.rows, db.events)
    BY DEF IInv, Tables
  <2>2. \A i \in DOMAIN db.rows : db.rows[i] \in AnyRow
    BY <2>1 DEF Placed
  <2> QED  BY <2>1, <2>2 DEF Placed, AnyRow
<1>5. db.clocks \in [Phases -> Clock] /\ db.model \in Models \cup {0} /\ mem.model \in Models \cup {0}
  BY DEF IInv, Tables, Memory, Memories
<1>6. db.buckets \in [Buckets -> SUBSET DOMAIN db.rows]
  BY DEF IInv, Tables
<1>7. mem.clocks \in [Phases -> Seq(1 .. MaxEvents)]
  <2>1. mem.clocks \in [Phases -> Seq(Nat)]
    BY DEF IInv, Memory, Memories
  <2>2. ASSUME NEW p \in Phases  PROVE mem.clocks[p] \in Seq(1 .. MaxEvents)
    <3>1. CASE Loaded
      <4> DEFINE c == mem.clocks[p]
      <4>1. Values(c) \subseteq Ids
        BY <3>1 DEF IInv, Books, Owned, Running, Ids
      <4>2. c \in Seq(Nat) /\ Len(c) \in Nat /\ DOMAIN c = 1 .. Len(c)
        BY <2>1
      <4> HIDE DEF c
      <4>3. \A n \in 1 .. Len(c) : c[n] \in 1 .. MaxEvents
        <5> SUFFICES ASSUME NEW n \in 1 .. Len(c)  PROVE c[n] \in 1 .. MaxEvents
          OBVIOUS
        <5>1. c[n] \in Values(c)
          BY <4>2 DEF Values
        <5>2. c[n] \in 1 .. Len(db.events)
          BY <1>1, <4>1, <5>1
        <5> QED  BY <1>1, <1>2, <5>2
      <4>4. c \in [1 .. Len(c) -> 1 .. MaxEvents]
        BY <4>2, <4>3
      <4>5. c \in Seq(1 .. MaxEvents)
        <5> DEFINE S == 1 .. MaxEvents
        <5>1. Len(c) \in Nat /\ c \in [1 .. Len(c) -> S]
          BY <4>2, <4>4
        <5> HIDE DEF S
        <5>2. c \in Seq(S)
          BY <5>1
        <5> QED  BY <5>2 DEF S
      <4> QED  BY <4>5 DEF c
    <3>2. CASE ~Loaded
      <4>1. mem.clocks[p] = << >>
        BY <3>2 DEF IInv, Memory, Fresh
      <4> QED  BY <4>1, EmptySeq
    <3> QED  BY <3>1, <3>2
  <2> QED  BY <2>1, <2>2
<1>8. db.read \in -1 .. now /\ mark \in -1 .. now + Slice
  <2>1. Slice \in Nat /\ now \in Nat /\ mark \in -1 .. now
    BY LiftAssumption DEF IInv, Bounds
  <2> QED  BY <2>1 DEF IInv, Bounds
<1>9. pc \in {"boot", "load", "replay", "live"} /\ mem.live = (pc = "live") /\ lives \in 1 .. MaxLives
  BY DEF IInv, Bounds, Memory
<1>10. torn \subseteq DOMAIN db.events /\ passed \subseteq Event
  BY DEF IInv, Bounds, Ids
<1> QED  BY <1>1, <1>2, <1>3, <1>4, <1>5, <1>6, <1>7, <1>8, <1>9, <1>10 DEF LiftTypeOK

LEMMA CountHolds == IInv => CountedOnce
<1> SUFFICES ASSUME IInv, NEW i \in Ids, ~Spoiled(db.events[i].phase)
             PROVE  Once(i)
  BY DEF CountedOnce
<1> DEFINE p == db.events[i].phase
           At(j) == {n \in DOMAIN db.rows[j].of : db.rows[j].of[n] = i}
<1>1. p \in Clean
  BY EventsAre DEF IInv, Bounds, Events, Clean
<1>2. Page(p, db.rows, Running[p], Seen)
  BY <1>1 DEF IInv, Books, Book
<1>3. ASSUME NEW j \in DOMAIN db.rows, i \in Values(db.rows[j].of)  PROVE j \in Of(db.rows, p)
  BY <1>3 DEF IInv, Books, Owned, Of
<1>4. ASSUME NEW j \in DOMAIN db.rows
      PROVE  /\ IsFiniteSet(At(j)) /\ Times(i, db.rows[j]) = Cardinality(At(j)) /\ Cardinality(At(j)) <= 1
             /\ At(j) # {} => i \in Values(db.rows[j].of)
  <2>1. db.rows[j].of \in Seq(Nat)
    BY DEF IInv, Tables, Placed, AnyRow
  <2>2. DOMAIN db.rows[j].of = 1 .. Len(db.rows[j].of) /\ Len(db.rows[j].of) \in Nat
    BY <2>1
  <2>3. IsFiniteSet(At(j))
    <3>1. At(j) \in SUBSET (1 .. Len(db.rows[j].of)) /\ IsFiniteSet(1 .. Len(db.rows[j].of))
      BY <2>2, FS_Interval
    <3> HIDE DEF At
    <3> QED  BY <3>1, FS_Subset
  <2>4. At(j) # {} => i \in Values(db.rows[j].of)
    BY DEF Values
  <2>5. \A m, n \in At(j) : m = n
    <3> SUFFICES ASSUME NEW m \in At(j), NEW n \in At(j)  PROVE m = n
      OBVIOUS
    <3>1. j \in Of(db.rows, p)
      BY <1>3, <2>4
    <3>2. Single(db.rows[j].of)
      BY <1>2, <3>1 DEF Page
    <3> QED  BY <3>2 DEF Single
  <2>6. Cardinality(At(j)) <= 1
    <3> HIDE DEF At
    <3> QED  BY <2>3, <2>5, AtMostOne
  <2> QED  BY <2>3, <2>4, <2>6 DEF Times
<1> DEFINE Js == {j \in DOMAIN db.rows : Times(i, db.rows[j]) > 0}
<1>5. ASSUME NEW j \in Js  PROVE i \in Values(db.rows[j].of)
  <2>1. At(j) # {}
    <3> HIDE DEF At
    <3> QED  BY <1>4, FS_EmptySet
  <2> QED  BY <1>4, <2>1
<1>6. \A j, k \in Js : j = k
  <2> SUFFICES ASSUME NEW j \in Js, NEW k \in Js  PROVE j = k
    OBVIOUS
  <2>1. i \in Values(db.rows[j].of) /\ i \in Values(db.rows[k].of)
    BY <1>5
  <2>2. j \in Of(db.rows, p) /\ k \in Of(db.rows, p)
    BY <1>3, <2>1
  <2> QED  BY <1>2, <2>1, <2>2 DEF Page, Apart
<1>7. IsFiniteSet(Js)
  <2>1. Js \subseteq Ids /\ IsFiniteSet(Ids)
    BY EventsAre DEF IInv, Tables, Placed, Ids, Bounds, Events
  <2> HIDE DEF Js
  <2> QED  BY <2>1, FS_Subset
<1>8. Cardinality(Js) <= 1
  <2> HIDE DEF Js
  <2> QED  BY <1>6, <1>7, AtMostOne
<1> QED  BY <1>4, <1>8 DEF Once

LEMMA DaysHold == IInv => DaysAreTrue
<1> SUFFICES ASSUME IInv, ~Misnamed, NEW b \in Buckets, ~Spoiled(b[1])
             PROVE  db.buckets[b] = Under(db.rows, b)
  BY DEF DaysAreTrue
<1>1. Strays = {}
  BY DEF Strays, Misnamed
<1>2. b[1] \in Clean
  BY DEF Clean, Buckets
<1> QED  BY <1>1, <1>2 DEF IInv, Tables

LEMMA TurnsHold == IInv => TurnsKept
<1> SUFFICES ASSUME IInv, pc # "boot"  PROVE db.turns = {i \in Ids : db.events[i].kind = "turn"}
  BY DEF TurnsKept
<1> QED  BY DEF IInv, Turns, TurnIds, Ids

\* Wherever the process is stopped, between two lifts or within one, and
\* whatever comes late and out of order: no wait of a phase is counted twice
\* and the totals of a day are its answers', but for what a lift that was torn
\* spoiled; and while anything is served no turn that was kept lacks its row.
THEOREM WaitsCountedOnce == LiftSpec => [](LiftTypeOK /\ CountedOnce /\ DaysAreTrue /\ TurnsKept)
<1>1. LiftInit => IInv
  BY InitIInv
<1>2. IInv /\ [LiftNext]_liftVars => IInv'
  BY NextKeeps
<1>3. IInv => LiftTypeOK /\ CountedOnce /\ DaysAreTrue /\ TurnsKept
  BY TypesHold, CountHolds, DaysHold, TurnsHold
<1> QED  BY <1>1, <1>2, <1>3, PTL DEF LiftSpec

=============================================================================
