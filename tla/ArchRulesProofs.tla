--------------------------- MODULE ArchRulesProofs ---------------------------
(***************************************************************************)
(* Theorems about ArchRules, for any items, conditions, predicates and     *)
(* ignore patterns, and sentences of any length: inverting an event twice  *)
(* gives back what it says, report, verdict and violation handlers agree,  *)
(* and a rule passes exactly when the sentence it was written as holds.    *)
(***************************************************************************)
EXTENDS ArchRules, InductionLemmas

-----------------------------------------------------------------------------
(***************************************************************************)
(* The levels of events.                                                   *)
(***************************************************************************)
LEMMA NestedIs ==
    /\ Nested[0] = SimpleEvents
    /\ \A n \in 1 .. Nesting : Nested[n] = SimpleEvents \cup Holding(Nested[n - 1])
<1> DEFINE Level(f, n) == SimpleEvents \cup (IF n = 0 THEN {} ELSE Holding(f[n - 1]))
           Solution(f, M) == f = [n \in 0 .. M |-> Level(f, n)]
           S == {M \in Nat : \E f : Solution(f, M)}
<1>1. 0 \in S
  <2> DEFINE f == [n \in 0 .. 0 |-> SimpleEvents]
  <2>1. \A n \in 0 .. 0 : Level(f, n) = SimpleEvents
    OBVIOUS
  <2>2. Solution(f, 0)
    BY <2>1
  <2> QED
    BY <2>2
<1>2. ASSUME NEW M \in 1 .. Nesting, M - 1 \in S PROVE M \in S
  <2>1. PICK f : Solution(f, M - 1)
    BY <1>2
  <2> DEFINE g == [n \in 0 .. M |-> IF n = M THEN Level(f, M) ELSE f[n]]
  <2>2. M \in Nat /\ M # 0 /\ M \in 0 .. M /\ \A n \in 0 .. M : n = M \/ n \in 0 .. M - 1
    BY NestingAssumption
  <2>3. DOMAIN g = 0 .. M /\ g[M] = Level(f, M) /\ \A n \in 0 .. M - 1 : g[n] = f[n]
    BY <2>2
  <2>4. \A n \in 0 .. M - 1 : f[n] = Level(f, n)
    BY <2>1
  <2>5. \A n \in 0 .. M : n # 0 => n - 1 \in 0 .. M - 1
    BY <2>2
  <2> HIDE DEF g
  <2>6. \A n \in 0 .. M : Level(g, n) = Level(f, n)
    BY <2>3, <2>5
  <2>7. \A n \in 0 .. M : g[n] = Level(g, n)
    BY <2>2, <2>3, <2>4, <2>6
  <2>8. g = [n \in 0 .. M |-> g[n]]
    <3>1. \A n \in 0 .. M : g[n] = g[n]
      OBVIOUS
    <3> QED
      BY <2>2, <2>3 DEF g
  <2>9. Solution(g, M)
    <3> HIDE DEF Level
    <3> QED
      BY <2>7, <2>8
  <2> QED
    BY <2>2, <2>9
<1>3. Nesting \in S
  <2>1. Nesting \in Nat /\ Nesting \in 0 .. Nesting
    BY NestingAssumption
  <2> HIDE DEF S
  <2> QED
    BY <1>1, <1>2, <2>1, OneAfterTheOther
<1>4. PICK f : Solution(f, Nesting)
  BY <1>3
<1>5. Nested = CHOOSE g : Solution(g, Nesting)
  BY DEF Nested
<1>6. Solution(Nested, Nesting)
  <2> HIDE DEF Solution
  <2> QED
    BY <1>4, <1>5
<1>7. \A n \in 0 .. Nesting : Nested[n] = Level(Nested, n)
  BY <1>6
<1>8. 0 \in 0 .. Nesting /\ \A n \in 1 .. Nesting : n \in 0 .. Nesting /\ n # 0
  BY NestingAssumption
<1> QED
  BY <1>7, <1>8

LEMMA HoldingGrows ==
    ASSUME NEW A, NEW B, A \subseteq B
    PROVE  Holding(A) \subseteq Holding(B)
<1>1. Seq(A) \subseteq Seq(B)
  OBVIOUS
<1>2. Found(A) \subseteq Found(B)
  BY <1>1 DEF Found
<1>3. Seq(Found(A)) \subseteq Seq(Found(B))
  BY <1>2
<1> QED
  BY <1>1, <1>3 DEF Holding

LEMMA LevelsGrow ==
    ASSUME NEW n \in 0 .. Nesting, NEW m \in n .. Nesting
    PROVE  Nested[n] \subseteq Nested[m]
<1> DEFINE T == {k \in 0 .. Nesting : k > 0 => Nested[k - 1] \subseteq Nested[k]}
<1>1. 0 \in T
  BY NestingAssumption
<1>2. ASSUME NEW k \in 1 .. Nesting, k - 1 \in T PROVE k \in T
  <2>1. k \in 0 .. Nesting /\ k > 0 /\ k - 1 \in 0 .. Nesting
    BY NestingAssumption
  <2>2. Nested[k] = SimpleEvents \cup Holding(Nested[k - 1])
    BY NestedIs
  <2>3. CASE k = 1
    BY <2>1, <2>2, <2>3, NestedIs
  <2>4. CASE k # 1
    <3>1. k - 1 \in 1 .. Nesting /\ k - 1 > 0
      BY <2>1, <2>4, NestingAssumption
    <3>2. Nested[k - 1] = SimpleEvents \cup Holding(Nested[(k - 1) - 1])
      BY <3>1, NestedIs
    <3>3. Nested[(k - 1) - 1] \subseteq Nested[k - 1]
      BY <1>2, <3>1
    <3>4. Holding(Nested[(k - 1) - 1]) \subseteq Holding(Nested[k - 1])
      BY <3>3, HoldingGrows
    <3> QED
      BY <2>1, <2>2, <3>2, <3>4
  <2> QED
    BY <2>3, <2>4
<1>3. \A k \in 0 .. Nesting : k \in T
  <2> HIDE DEF T
  <2> QED
    BY <1>1, <1>2, NestingAssumption, OneAfterTheOther
<1> DEFINE U == {j \in 0 .. Nesting - n : Nested[n] \subseteq Nested[n + j]}
<1>4. Nesting \in Nat /\ Nesting - n \in Nat /\ n + 0 = n /\ 0 \in 0 .. Nesting - n
  BY NestingAssumption
<1>5. 0 \in U
  BY <1>4
<1>6. ASSUME NEW j \in 1 .. Nesting - n, j - 1 \in U PROVE j \in U
  <2>1. n + j \in 0 .. Nesting /\ n + j > 0 /\ (n + j) - 1 = n + (j - 1) /\ j \in 0 .. Nesting - n
    BY <1>4
  <2>2. Nested[(n + j) - 1] \subseteq Nested[n + j]
    BY <1>3, <2>1
  <2>3. Nested[n] \subseteq Nested[n + (j - 1)]
    BY <1>6
  <2> QED
    BY <2>1, <2>2, <2>3
<1>7. \A j \in 0 .. Nesting - n : j \in U
  <2> HIDE DEF U
  <2> QED
    BY <1>4, <1>5, <1>6, OneAfterTheOther
<1>8. m - n \in 0 .. Nesting - n /\ n + (m - n) = m
  BY <1>4
<1> QED
  BY <1>7, <1>8

(***************************************************************************)
(* The events an event holds, and its level.                               *)
(***************************************************************************)
FoundIn(events) == ToSet(events.allowed) \cup ToSet(events.violating)

Parts(e) ==
    IF e.kind \in {"any", "only"} THEN FoundIn(e)
    ELSE IF e.kind \in {"and", "or"} THEN UNION {FoundIn(e.evaluated[i]) : i \in DOMAIN e.evaluated}
    ELSE IF e.kind = "filtered" THEN {e.delegate}
    ELSE {}

IsSimple(e) == /\ e.kind = "simple" /\ e.object \in Things /\ e.satisfied \in BOOLEAN /\ e.message \in Text
               /\ e = SimpleEvent(e.object, e.satisfied, e.message)
IsAttributes(e, A) ==
    /\ e.kind \in {"any", "only"} /\ e.objects \in Seq(Things) /\ e.allowed \in Seq(A) /\ e.violating \in Seq(A)
    /\ e = AttributesEvent(e.kind, e.objects, e.allowed, e.violating)
IsJoin(e, A) ==
    /\ e.kind \in {"and", "or"} /\ e.object \in Things /\ e.evaluated \in Seq(Found(A))
    /\ e = JoinEvent(e.kind, e.object, e.evaluated)
IsFiltered(e, A) ==
    /\ e.kind = "filtered" /\ e.delegate \in A /\ e.patterns \in SUBSET Pattern /\ e.lines \in Seq(Text)

LEMMA EventsAre ==
    ASSUME NEW n \in 0 .. Nesting, NEW e \in Nested[n]
    PROVE  \/ IsSimple(e)
           \/ n \in 1 .. Nesting /\ \/ IsAttributes(e, Nested[n - 1])
                                    \/ IsJoin(e, Nested[n - 1])
                                    \/ IsFiltered(e, Nested[n - 1])
<1>1. ASSUME e \in SimpleEvents PROVE IsSimple(e)
  BY <1>1 DEF SimpleEvents, IsSimple, SimpleEvent
<1>2. CASE n = 0
  BY <1>1, <1>2, NestedIs
<1>3. CASE n # 0
  <2>1. n \in 1 .. Nesting
    BY <1>3, NestingAssumption
  <2>2. e \in SimpleEvents \/ e \in Holding(Nested[n - 1])
    BY <2>1, NestedIs
  <2> DEFINE A == Nested[n - 1]
  <2> HIDE DEF A
  <2>3. ASSUME e \in Holding(A) PROVE IsAttributes(e, A) \/ IsJoin(e, A) \/ IsFiltered(e, A)
    <3>1. CASE e \in [kind : {"any", "only"}, objects : Seq(Things), allowed : Seq(A), violating : Seq(A)]
      BY <3>1 DEF IsAttributes, AttributesEvent
    <3>2. CASE e \in [kind : {"and", "or"}, object : Things, evaluated : Seq(Found(A))]
      BY <3>2 DEF IsJoin, JoinEvent
    <3>3. CASE e \in [kind : {"filtered"}, delegate : A, patterns : SUBSET Pattern, lines : Seq(Text)]
      BY <3>3 DEF IsFiltered
    <3> QED
      BY <2>3, <3>1, <3>2, <3>3 DEF Holding
  <2> QED
    BY <1>1, <2>1, <2>2, <2>3 DEF A
<1> QED
  BY <1>2, <1>3

LEMMA SetOfSeq ==
    ASSUME NEW S, NEW s \in Seq(S)
    PROVE  ToSet(s) \subseteq S /\ \A i \in DOMAIN s : s[i] \in ToSet(s) /\ s[i] \in S
BY DEF ToSet

LEMMA PartsOfHolding ==
    ASSUME NEW A, NEW e
    PROVE  /\ IsSimple(e) => Parts(e) = {}
           /\ IsAttributes(e, A) \/ IsJoin(e, A) \/ IsFiltered(e, A) => Parts(e) \subseteq A
<1>1. IsSimple(e) => Parts(e) = {}
  BY DEF IsSimple, Parts
<1>2. ASSUME IsAttributes(e, A) PROVE Parts(e) \subseteq A
  <2>1. ToSet(e.allowed) \subseteq A /\ ToSet(e.violating) \subseteq A
    BY <1>2, SetOfSeq DEF IsAttributes
  <2> QED
    BY <1>2, <2>1 DEF IsAttributes, Parts, FoundIn
<1>3. ASSUME IsJoin(e, A) PROVE Parts(e) \subseteq A
  <2>1. \A i \in DOMAIN e.evaluated : e.evaluated[i] \in Found(A)
    BY <1>3 DEF IsJoin
  <2>2. \A f \in Found(A) : FoundIn(f) \subseteq A
    <3> SUFFICES ASSUME NEW f \in Found(A) PROVE FoundIn(f) \subseteq A
      OBVIOUS
    <3>1. f.allowed \in Seq(A) /\ f.violating \in Seq(A)
      BY DEF Found
    <3>2. ToSet(f.allowed) \subseteq A /\ ToSet(f.violating) \subseteq A
      BY <3>1, SetOfSeq
    <3> QED
      BY <3>2 DEF FoundIn
  <2> QED
    BY <1>3, <2>1, <2>2 DEF IsJoin, Parts
<1>4. ASSUME IsFiltered(e, A) PROVE Parts(e) \subseteq A
  BY <1>4 DEF IsFiltered, Parts
<1> QED
  BY <1>1, <1>2, <1>3, <1>4

LevelOf == [e \in Event |-> CHOOSE n \in 0 .. Nesting : /\ e \in Nested[n]
                                                       /\ \A m \in 0 .. Nesting : e \in Nested[m] => n <= m]

LEMMA LevelsAre ==
    ASSUME NEW e \in Event
    PROVE  /\ LevelOf[e] \in 0 .. Nesting /\ e \in Nested[LevelOf[e]]
           /\ \A m \in 0 .. Nesting : e \in Nested[m] => LevelOf[e] <= m
<1> DEFINE S == {n \in 0 .. Nesting : e \in Nested[n]}
           P(n) == e \in Nested[n] /\ \A m \in 0 .. Nesting : e \in Nested[m] => n <= m
<1>1. Nesting \in S /\ S \in SUBSET Nat
  BY NestingAssumption DEF Event
<1>2. PICK n \in S : \A k \in S : n <= k
  <2> HIDE DEF S
  <2> QED
    BY <1>1, LeastExists
<1>3. n \in 0 .. Nesting /\ P(n)
  BY <1>2
<1>4. LevelOf[e] = CHOOSE k \in 0 .. Nesting : P(k)
  BY DEF LevelOf
<1> HIDE DEF P
<1>5. LevelOf[e] \in 0 .. Nesting /\ P(LevelOf[e])
  BY <1>3, <1>4
<1> QED
  BY <1>5 DEF P

LEMMA LevelOfType == LevelOf \in [Event -> 0 .. Nesting]
<1>1. \A e \in Event : LevelOf[e] \in 0 .. Nesting
  BY LevelsAre
<1> QED
  BY <1>1 DEF LevelOf

LEMMA PartsAreLower ==
    ASSUME NEW e \in Event
    PROVE  \A d \in Parts(e) : d \in Event /\ LevelOf[d] < LevelOf[e]
<1> DEFINE n == LevelOf[e]
<1>1. n \in 0 .. Nesting /\ e \in Nested[n]
  BY LevelsAre
<1> HIDE DEF n
<1> SUFFICES ASSUME NEW d \in Parts(e) PROVE d \in Event /\ LevelOf[d] < n
  BY DEF n
<1>2. n \in 1 .. Nesting /\ d \in Nested[n - 1]
  BY <1>1, EventsAre, PartsOfHolding
<1>3. n - 1 \in 0 .. Nesting /\ Nesting \in (n - 1) .. Nesting
  BY <1>2, NestingAssumption
<1>4. d \in Event
  BY <1>2, <1>3, LevelsGrow DEF Event
<1>5. LevelOf[d] <= n - 1 /\ LevelOf[d] \in 0 .. Nesting
  BY <1>2, <1>3, <1>4, LevelsAre
<1> QED
  BY <1>2, <1>4, <1>5, NestingAssumption

LEMMA TheEventsAre ==
    ASSUME NEW e \in Event
    PROVE  \/ IsSimple(e)
           \/ IsAttributes(e, Event) \/ IsJoin(e, Event) \/ IsFiltered(e, Event)
<1> DEFINE n == Nesting
<1>1. n \in 0 .. Nesting /\ e \in Nested[n]
  BY NestingAssumption DEF Event
<1>2. CASE IsSimple(e)
  BY <1>2
<1>3. CASE ~IsSimple(e)
  <2> DEFINE A == Nested[n - 1]
  <2>1. n \in 1 .. Nesting /\ (IsAttributes(e, A) \/ IsJoin(e, A) \/ IsFiltered(e, A))
    BY <1>1, <1>3, EventsAre
  <2>2. n - 1 \in 0 .. Nesting /\ n \in n - 1 .. Nesting
    BY <2>1, NestingAssumption
  <2>3. A \subseteq Event
    BY <2>2, LevelsGrow DEF Event
  <2> HIDE DEF A
  <2>4. Seq(A) \subseteq Seq(Event) /\ Found(A) \subseteq Found(Event) /\ Seq(Found(A)) \subseteq Seq(Found(Event))
    <3>1. Seq(A) \subseteq Seq(Event)
      BY <2>3
    <3>2. Found(A) \subseteq Found(Event)
      BY <3>1 DEF Found
    <3> QED
      BY <3>1, <3>2
  <2> QED
    BY <2>1, <2>3, <2>4 DEF IsAttributes, IsJoin, IsFiltered
<1> QED
  BY <1>2, <1>3

-----------------------------------------------------------------------------
(***************************************************************************)
(* Sequences built from others.                                            *)
(***************************************************************************)
LEMMA NothingInside ==
    ASSUME NEW A, NEW s \in Seq(A)
    PROVE  (s = <<>>) <=> (ToSet(s) = {})
<1>1. Len(s) \in Nat /\ DOMAIN s = 1 .. Len(s) /\ ((s = <<>>) <=> (Len(s) = 0))
  OBVIOUS
<1>2. (Len(s) = 0) <=> (DOMAIN s = {})
  <2>1. Len(s) # 0 => 1 \in 1 .. Len(s)
    BY <1>1
  <2>2. Len(s) = 0 => 1 .. Len(s) = {}
    OBVIOUS
  <2> QED
    BY <1>1, <2>1, <2>2
<1>3. (DOMAIN s = {}) <=> (ToSet(s) = {})
  BY DEF ToSet
<1> QED
  BY ONLY <1>1, <1>2, <1>3

Maps(f, S, B) == \A x \in S : f[x] \in B

LEMMA EachIs ==
    ASSUME NEW A, NEW s \in Seq(A), NEW B, NEW f, Maps(f, ToSet(s), B)
    PROVE  /\ Each(f, s) \in Seq(B) /\ DOMAIN Each(f, s) = DOMAIN s
           /\ \A i \in DOMAIN s : Each(f, s)[i] = f[s[i]]
           /\ ToSet(Each(f, s)) = {f[x] : x \in ToSet(s)}
<1>1. Len(s) \in Nat /\ DOMAIN s = 1 .. Len(s) /\ \A i \in DOMAIN s : f[s[i]] \in B
  BY DEF ToSet, Maps
<1>2. Each(f, s) \in Seq(B)
  BY <1>1 DEF Each
<1>3. DOMAIN Each(f, s) = DOMAIN s /\ \A i \in DOMAIN s : Each(f, s)[i] = f[s[i]]
  BY DEF Each
<1>4. ToSet(Each(f, s)) = {f[x] : x \in ToSet(s)}
  BY <1>3 DEF ToSet
<1> QED
  BY <1>2, <1>3, <1>4

LEMMA EachAgrees ==
    ASSUME NEW s, NEW f, NEW g, \A x \in ToSet(s) : f[x] = g[x]
    PROVE  Each(f, s) = Each(g, s)
<1>1. \A i \in DOMAIN s : f[s[i]] = g[s[i]]
  BY DEF ToSet
<1> QED
  BY <1>1 DEF Each

LEMMA AtIs ==
    ASSUME NEW A, NEW s \in Seq(A), NEW I
    PROVE  At(s, I) \in Seq(A) /\ ToSet(At(s, I)) = {s[i] : i \in DOMAIN s \cap I}
<1> DEFINE pieces == [i \in DOMAIN s |-> IF i \in I THEN <<s[i]>> ELSE <<>>]
<1>1. Len(s) \in Nat /\ DOMAIN s = 1 .. Len(s) /\ \A i \in DOMAIN s : s[i] \in A
  OBVIOUS
<1>2. \A i \in DOMAIN s : (IF i \in I THEN <<s[i]>> ELSE <<>>) \in Seq(A)
  BY <1>1
<1>3. pieces \in Seq(Seq(A)) /\ DOMAIN pieces = DOMAIN s
  BY <1>1, <1>2
<1>4. \A i \in DOMAIN s : ToSet(pieces[i]) = IF i \in I THEN {s[i]} ELSE {}
  <2> SUFFICES ASSUME NEW i \in DOMAIN s PROVE ToSet(pieces[i]) = IF i \in I THEN {s[i]} ELSE {}
    OBVIOUS
  <2>1. pieces[i] = IF i \in I THEN <<s[i]>> ELSE <<>>
    OBVIOUS
  <2> HIDE DEF pieces
  <2>2. DOMAIN <<s[i]>> = {1} /\ <<s[i]>>[1] = s[i] /\ DOMAIN <<>> = {}
    OBVIOUS
  <2>3. ToSet(<<s[i]>>) = {s[i]} /\ ToSet(<<>>) = {}
    BY <2>2 DEF ToSet
  <2> QED
    BY <2>1, <2>3
<1> HIDE DEF pieces
<1>5. /\ FlattenSeq(pieces) \in Seq(A)
      /\ ToSet(FlattenSeq(pieces)) = UNION {ToSet(pieces[i]) : i \in DOMAIN pieces}
  BY <1>3, FlattenedIs
<1>6. UNION {ToSet(pieces[i]) : i \in DOMAIN s} = {s[i] : i \in DOMAIN s \cap I}
  BY <1>4
<1>7. At(s, I) = FlattenSeq(pieces)
  BY DEF At, pieces
<1> QED
  BY <1>3, <1>5, <1>6, <1>7

LEMMA ToSetIsFinite ==
    ASSUME NEW A, NEW s \in Seq(A)
    PROVE  IsFiniteSet(ToSet(s))
<1>1. IsFiniteSet(1 .. Len(s)) /\ DOMAIN s = 1 .. Len(s)
  BY FS_Interval
<1>2. [i \in DOMAIN s |-> s[i]] \in Surjection(1 .. Len(s), ToSet(s))
  BY <1>1 DEF Surjection, ToSet
<1> QED
  BY <1>1, <1>2, FS_Surjection

LEMMA UniqueIs ==
    ASSUME NEW A, NEW s \in Seq(A)
    PROVE  Unique(s) \in Seq(A) /\ ToSet(Unique(s)) = ToSet(s)
<1> DEFINE X == ToSet(s)
           n == Cardinality(X)
           F == {f \in [1 .. n -> X] : IsInjective(f)}
           u == CHOOSE f \in [1 .. n -> X] : IsInjective(f)
<1>1. IsFiniteSet(X) /\ X \subseteq A
  BY ToSetIsFinite, SetOfSeq
<1>2. n \in Nat /\ IsFiniteSet(1 .. n) /\ Cardinality(1 .. n) = n
  BY <1>1, FS_CardinalityType, FS_Interval
<1> HIDE DEF X
<1>3. ExistsBijection(1 .. n, X)
  BY <1>1, <1>2, FS_SameCardinalityBij
<1>4. \E f \in [1 .. n -> X] : IsInjective(f)
  BY <1>3 DEF ExistsBijection, Bijection, Injection
<1>5. u \in [1 .. n -> X] /\ IsInjective(u)
  BY <1>4
<1>6. Unique(s) = u
  BY DEF Unique, SetToSeq, X
<1> HIDE DEF u
<1>7. u \in Surjection(1 .. n, X)
  <2>1. u \in Injection(1 .. n, X)
    BY <1>5 DEF Injection
  <2> QED
    BY <1>1, <1>2, <2>1, FS_Injection
<1>8. u \in Seq(A) /\ DOMAIN u = 1 .. n
  BY <1>1, <1>2, <1>5
<1>9. ToSet(u) = X
  BY <1>5, <1>7, <1>8 DEF ToSet, Surjection
<1> QED
  BY <1>6, <1>8, <1>9 DEF X

LEMMA JoinedIs ==
    ASSUME NEW texts \in Seq(Text), NEW separator \in Nat
    PROVE  Joined(separator, texts) \in Text
<1> DEFINE pieces == [i \in DOMAIN texts |-> IF i = 1 THEN texts[1] ELSE <<separator>> \o texts[i]]
<1>1. Len(texts) \in Nat /\ DOMAIN texts = 1 .. Len(texts) /\ \A i \in DOMAIN texts : texts[i] \in Seq(Nat)
  BY DEF Text
<1>2. \A i \in DOMAIN texts : (IF i = 1 THEN texts[1] ELSE <<separator>> \o texts[i]) \in Seq(Nat)
  BY <1>1
<1>3. pieces \in Seq(Seq(Nat))
  BY <1>1, <1>2
<1>4. Joined(separator, texts) = FlattenSeq(pieces)
  BY DEF Joined
<1> HIDE DEF pieces
<1> QED
  BY <1>3, <1>4, FlattenedIs DEF Text

-----------------------------------------------------------------------------
(***************************************************************************)
(* The recursive methods of events: each has the equation it is defined by, *)
(* because what it says of an event depends on the events in it alone.     *)
(***************************************************************************)
IsOfParts(G, V) ==
    \A e \in Event : \A f, g \in [Event -> V] :
        (\A d \in Parts(e) : f[d] = g[d]) => G[<<e, f>>] = G[<<e, g>>]

LEMMA MethodExists ==
    ASSUME NEW V, V # {}, NEW G \in [Event \X [Event -> V] -> V], IsOfParts(G, V)
    PROVE  \E f \in [Event -> V] : IsSolution(f, G, Event)
<1>1. IsDetermined(G, Event, V, LevelOf)
  <2> SUFFICES ASSUME NEW e \in Event, NEW f \in [Event -> V], NEW g \in [Event -> V],
                      \A d \in Event : LevelOf[d] < LevelOf[e] => f[d] = g[d]
               PROVE  G[<<e, f>>] = G[<<e, g>>]
    BY DEF IsDetermined
  <2>1. \A d \in Parts(e) : f[d] = g[d]
    BY PartsAreLower
  <2> QED
    BY <2>1 DEF IsOfParts
<1>2. LevelOf \in [Event -> 0 .. Nesting] /\ Nesting \in Nat
  BY LevelOfType, NestingAssumption
<1> QED
  BY ONLY V # {}, G \in [Event \X [Event -> V] -> V], <1>1, <1>2, RecursionBelowExists

LEMMA EventsInduct ==
    ASSUME NEW T, \A e \in Event : (\A d \in Parts(e) : d \in T) => e \in T
    PROVE  \A e \in Event : e \in T
<1>1. ASSUME NEW e \in Event, \A d \in Event : LevelOf[d] < LevelOf[e] => d \in T PROVE e \in T
  BY <1>1, PartsAreLower
<1>2. LevelOf \in [Event -> Nat]
  BY LevelOfType
<1> QED
  BY <1>1, <1>2, RanksInduct

LEMMA KindsAre ==
    ASSUME NEW e \in Event
    PROVE  /\ e.kind \in {"simple", "any", "only", "and", "or", "filtered"}
           /\ e.kind = "simple" => IsSimple(e)
           /\ e.kind \in {"any", "only"} => IsAttributes(e, Event)
           /\ e.kind \in {"and", "or"} => IsJoin(e, Event)
           /\ e.kind = "filtered" => IsFiltered(e, Event) /\ e.delegate \in Parts(e)
<1>1. /\ IsSimple(e) => e.kind = "simple"
      /\ IsAttributes(e, Event) => e.kind \in {"any", "only"}
      /\ IsJoin(e, Event) => e.kind \in {"and", "or"}
      /\ IsFiltered(e, Event) => e.kind = "filtered"
  BY DEF IsSimple, IsAttributes, IsJoin, IsFiltered
<1>2. e.kind = "filtered" => e.delegate \in Parts(e)
  BY DEF Parts
<1> QED
  BY <1>1, <1>2, TheEventsAre

LEMMA IsViolationIs ==
    /\ IsViolation \in [Event -> BOOLEAN]
    /\ \A e \in Event : IsViolation[e] = Violated(IsViolation, e)
<1>1. ASSUME NEW e \in Event, NEW f, NEW g, \A d \in Parts(e) : f[d] = g[d]
      PROVE  Violated(f, e) = Violated(g, e)
  BY <1>1, KindsAre DEF Violated
<1>2. ASSUME NEW e \in Event, NEW f, \A d \in Parts(e) : f[d] \in BOOLEAN
      PROVE  Violated(f, e) \in BOOLEAN
  <2>1. e.kind = "simple" => e.satisfied \in BOOLEAN
    BY KindsAre DEF IsSimple
  <2>2. e.kind = "filtered" => f[e.delegate] \in BOOLEAN
    BY <1>2, KindsAre
  <2> QED
    BY <2>1, <2>2, KindsAre
       DEF Violated, AnyViolated, OnlyViolated, AndViolated, OrViolated, FilteredViolated, ContainViolation
<1> DEFINE G == [p \in Event \X [Event -> BOOLEAN] |-> Violated(p[2], p[1])]
<1>3. \A e \in Event : \A f \in [Event -> BOOLEAN] : G[<<e, f>>] = Violated(f, e)
  OBVIOUS
<1>4. G \in [Event \X [Event -> BOOLEAN] -> BOOLEAN]
  <2> SUFFICES ASSUME NEW e \in Event, NEW g \in [Event -> BOOLEAN] PROVE Violated(g, e) \in BOOLEAN
    OBVIOUS
  <2>1. \A d \in Parts(e) : g[d] \in BOOLEAN
    BY PartsAreLower
  <2> QED
    BY <1>2, <2>1
<1> HIDE DEF G
<1>5. IsOfParts(G, BOOLEAN)
  BY <1>1, <1>3 DEF IsOfParts
<1>6. PICK f \in [Event -> BOOLEAN] : IsSolution(f, G, Event)
  BY <1>4, <1>5, MethodExists
<1> DEFINE Solution(g) == g = [e \in Event |-> Violated(g, e)]
<1>7. Solution(f)
  BY <1>3, <1>6 DEF IsSolution
<1>8. IsViolation = CHOOSE g : Solution(g)
  BY DEF IsViolation
<1> HIDE DEF Solution
<1>9. Solution(IsViolation)
  BY <1>7, <1>8
<1>10. /\ IsViolation = [e \in Event |-> IsViolation[e]]
       /\ \A e \in Event : IsViolation[e] = Violated(IsViolation, e)
  BY <1>9 DEF Solution
<1> DEFINE T == {e \in Event : IsViolation[e] \in BOOLEAN}
<1>11. \A e \in Event : e \in T
  <2>1. ASSUME NEW e \in Event, \A d \in Parts(e) : d \in T PROVE e \in T
    BY <1>2, <1>10, <2>1
  <2> HIDE DEF T
  <2> QED
    BY <2>1, EventsInduct
<1> QED
  BY <1>10, <1>11

LEMMA EventsDecide ==
    ASSUME NEW e \in Event
    PROVE  /\ e.kind = "simple" => IsViolation[e] = ~e.satisfied
           /\ e.kind = "any" => IsViolation[e] = AnyViolated(e)
           /\ e.kind = "only" => IsViolation[e] = OnlyViolated(e)
           /\ e.kind = "and" => IsViolation[e] = AndViolated(e)
           /\ e.kind = "or" => IsViolation[e] = OrViolated(e)
           /\ e.kind = "filtered" => IsViolation[e] = (IsViolation[e.delegate] /\ FilteredViolated(e))
<1>1. IsViolation[e] = Violated(IsViolation, e)
  BY IsViolationIs
<1> QED
  BY <1>1 DEF Violated

(***************************************************************************)
(* What is collected from the violating events an event holds.             *)
(***************************************************************************)
ViolatingIn(e) ==
    IF e.kind \in {"any", "only"} THEN ToSet(e.violating)
    ELSE UNION {ToSet(e.evaluated[i].violating) : i \in DOMAIN e.evaluated}

Collected(f, evaluated) ==
    FlattenSeq([i \in DOMAIN evaluated |-> FlattenSeq(Each(f, evaluated[i].violating))])

LEMMA FlattenEachIs ==
    ASSUME NEW A, NEW s \in Seq(A), NEW B, NEW f, \A x \in ToSet(s) : f[x] \in Seq(B)
    PROVE  /\ FlattenSeq(Each(f, s)) \in Seq(B)
           /\ ToSet(FlattenSeq(Each(f, s))) = UNION {ToSet(f[x]) : x \in ToSet(s)}
<1>1. /\ Each(f, s) \in Seq(Seq(B)) /\ DOMAIN Each(f, s) = DOMAIN s
      /\ \A i \in DOMAIN s : Each(f, s)[i] = f[s[i]]
  <2>1. Maps(f, ToSet(s), Seq(B))
    BY DEF Maps
  <2> QED
    BY <2>1, EachIs
<1>2. /\ FlattenSeq(Each(f, s)) \in Seq(B)
      /\ ToSet(FlattenSeq(Each(f, s))) = UNION {ToSet(Each(f, s)[i]) : i \in DOMAIN Each(f, s)}
  BY <1>1, FlattenedIs
<1>3. UNION {ToSet(Each(f, s)[i]) : i \in DOMAIN s} = UNION {ToSet(f[x]) : x \in ToSet(s)}
  <2>1. ToSet(s) = {s[i] : i \in DOMAIN s}
    BY DEF ToSet
  <2> QED
    BY <1>1, <2>1
<1> QED
  BY <1>1, <1>2, <1>3

LEMMA CollectedIs ==
    ASSUME NEW A, NEW evaluated \in Seq(Found(A)), NEW B, NEW f,
           \A x \in UNION {ToSet(evaluated[i].violating) : i \in DOMAIN evaluated} : f[x] \in Seq(B)
    PROVE  /\ Collected(f, evaluated) \in Seq(B)
           /\ ToSet(Collected(f, evaluated)) =
                UNION {ToSet(f[x]) : x \in UNION {ToSet(evaluated[i].violating) : i \in DOMAIN evaluated}}
<1> DEFINE pieces == [i \in DOMAIN evaluated |-> FlattenSeq(Each(f, evaluated[i].violating))]
<1>1. Len(evaluated) \in Nat /\ DOMAIN evaluated = 1 .. Len(evaluated)
  OBVIOUS
<1>2. \A i \in DOMAIN evaluated : evaluated[i].violating \in Seq(A)
  <2>1. \A i \in DOMAIN evaluated : evaluated[i] \in Found(A)
    OBVIOUS
  <2> QED
    BY <2>1 DEF Found
<1>3. \A i \in DOMAIN evaluated :
        /\ FlattenSeq(Each(f, evaluated[i].violating)) \in Seq(B)
        /\ ToSet(FlattenSeq(Each(f, evaluated[i].violating))) =
             UNION {ToSet(f[x]) : x \in ToSet(evaluated[i].violating)}
  BY <1>2, FlattenEachIs
<1>4. pieces \in Seq(Seq(B)) /\ DOMAIN pieces = DOMAIN evaluated
  BY <1>1, <1>3
<1>5. \A i \in DOMAIN evaluated : ToSet(pieces[i]) = UNION {ToSet(f[x]) : x \in ToSet(evaluated[i].violating)}
  BY <1>3
<1>6. Collected(f, evaluated) = FlattenSeq(pieces)
  BY DEF Collected
<1> HIDE DEF pieces
<1>7. FlattenSeq(pieces) \in Seq(B) /\ ToSet(FlattenSeq(pieces)) = UNION {ToSet(pieces[i]) : i \in DOMAIN pieces}
  BY <1>4, FlattenedIs
<1> DEFINE violating == UNION {ToSet(evaluated[i].violating) : i \in DOMAIN evaluated}
<1>8. UNION {ToSet(pieces[i]) : i \in DOMAIN evaluated} = UNION {ToSet(f[x]) : x \in violating}
  <2>1. UNION {ToSet(pieces[i]) : i \in DOMAIN evaluated} =
          UNION {UNION {ToSet(f[x]) : x \in ToSet(evaluated[i].violating)} : i \in DOMAIN evaluated}
    BY <1>5
  <2>2. ASSUME NEW t
        PROVE  (t \in UNION {UNION {ToSet(f[x]) : x \in ToSet(evaluated[i].violating)} : i \in DOMAIN evaluated})
                 <=> t \in UNION {ToSet(f[x]) : x \in violating}
    <3>1. (t \in UNION {UNION {ToSet(f[x]) : x \in ToSet(evaluated[i].violating)} : i \in DOMAIN evaluated})
            <=> \E i \in DOMAIN evaluated : \E x \in ToSet(evaluated[i].violating) : t \in ToSet(f[x])
      OBVIOUS
    <3>2. (t \in UNION {ToSet(f[x]) : x \in violating}) <=> \E x \in violating : t \in ToSet(f[x])
      OBVIOUS
    <3>3. \A x : x \in violating <=> \E i \in DOMAIN evaluated : x \in ToSet(evaluated[i].violating)
      OBVIOUS
    <3> HIDE DEF violating
    <3> QED
      BY <3>1, <3>2, <3>3
  <2> QED
    BY <2>1, <2>2
<1> QED
  BY <1>4, <1>6, <1>7, <1>8

LEMMA CollectedAgrees ==
    ASSUME NEW evaluated, NEW f, NEW g,
           \A x \in UNION {ToSet(evaluated[i].violating) : i \in DOMAIN evaluated} : f[x] = g[x]
    PROVE  Collected(f, evaluated) = Collected(g, evaluated)
<1>1. \A i \in DOMAIN evaluated : Each(f, evaluated[i].violating) = Each(g, evaluated[i].violating)
  BY EachAgrees
<1> QED
  BY <1>1 DEF Collected

LEMMA ViolatingAreParts ==
    ASSUME NEW e \in Event, e.kind \in {"any", "only", "and", "or"}
    PROVE  ViolatingIn(e) \subseteq Parts(e)
BY DEF ViolatingIn, Parts, FoundIn

(***************************************************************************)
(* description_lines of an event, from those of the events in it.          *)
(***************************************************************************)
LEMMA DescribedIs ==
    ASSUME NEW e \in Event, NEW f, \A d \in Parts(e) : f[d] \in Seq(Text)
    PROVE  /\ Described(f, e) \in Seq(Text)
           /\ e.kind = "simple" => Described(f, e) = <<e.message>>
           /\ e.kind \in {"any", "or"} => Len(Described(f, e)) = 1
           /\ e.kind \in {"only", "and"} =>
                ToSet(Described(f, e)) = UNION {ToSet(f[d]) : d \in ViolatingIn(e)}
           /\ e.kind = "filtered" => Described(f, e) = e.lines
<1>1. CASE e.kind = "simple"
  BY <1>1, KindsAre DEF IsSimple, Described
<1>2. CASE e.kind \in {"any", "only"}
  <2>1. e.violating \in Seq(Event) /\ ViolatingIn(e) = ToSet(e.violating)
    BY <1>2, KindsAre DEF IsAttributes, ViolatingIn
  <2>2. \A x \in ToSet(e.violating) : f[x] \in Seq(Text)
    BY <1>2, <2>1, ViolatingAreParts
  <2>3. LinesOf(f, e) \in Seq(Text) /\ ToSet(LinesOf(f, e)) = UNION {ToSet(f[d]) : d \in ViolatingIn(e)}
    BY <2>1, <2>2, FlattenEachIs DEF LinesOf
  <2>4. Joined(Newline, LinesOf(f, e)) \in Text
    BY <2>3, JoinedIs DEF Newline
  <2>5. e.kind = "any" => Described(f, e) = <<Joined(Newline, LinesOf(f, e))>>
    BY DEF Described
  <2>6. e.kind = "only" => Described(f, e) = LinesOf(f, e)
    BY DEF Described
  <2> QED
    BY <1>2, <2>3, <2>4, <2>5, <2>6
<1>3. CASE e.kind \in {"and", "or"}
  <2> DEFINE all == Collected(f, e.evaluated)
             violating == UNION {ToSet(e.evaluated[i].violating) : i \in DOMAIN e.evaluated}
  <2>1. e.evaluated \in Seq(Found(Event)) /\ ViolatingIn(e) = violating
    BY <1>3, KindsAre DEF IsJoin, ViolatingIn
  <2>2. \A x \in violating : f[x] \in Seq(Text)
    BY <1>3, <2>1, ViolatingAreParts
  <2>3. all \in Seq(Text) /\ ToSet(all) = UNION {ToSet(f[d]) : d \in violating}
    BY <2>1, <2>2, CollectedIs
  <2>4. UniqueLinesOfViolations(f, e.evaluated) = Unique(all)
    BY DEF UniqueLinesOfViolations, LinesOf, Collected
  <2> HIDE DEF all, violating
  <2>5. Unique(all) \in Seq(Text) /\ ToSet(Unique(all)) = ToSet(all)
    BY <2>3, UniqueIs
  <2>6. Joined(AndInfix, Unique(all)) \in Text
    BY <2>5, JoinedIs DEF AndInfix
  <2>7. e.kind = "and" => Described(f, e) = Unique(all)
    BY <2>4 DEF Described
  <2>8. e.kind = "or" => Described(f, e) = <<Joined(AndInfix, Unique(all))>>
    BY <2>4 DEF Described, OrLines
  <2>9. e.kind = "or" => Described(f, e) \in Seq(Text) /\ Len(Described(f, e)) = 1
    <3> DEFINE text == Joined(AndInfix, Unique(all))
    <3> HIDE DEF text
    <3>1. text \in Text => <<text>> \in Seq(Text) /\ Len(<<text>>) = 1
      OBVIOUS
    <3> QED
      BY <2>6, <2>8, <3>1 DEF text
  <2>10. e.kind = "and" => /\ Described(f, e) \in Seq(Text)
                           /\ ToSet(Described(f, e)) = UNION {ToSet(f[d]) : d \in ViolatingIn(e)}
    BY <2>1, <2>3, <2>5, <2>7
  <2> QED
    BY <1>3, <2>9, <2>10
<1>4. CASE e.kind = "filtered"
  BY <1>4, KindsAre DEF IsFiltered, Described
<1> QED
  BY <1>1, <1>2, <1>3, <1>4, KindsAre

LEMMA DescribedAgrees ==
    ASSUME NEW e \in Event, NEW f, NEW g, \A d \in Parts(e) : f[d] = g[d]
    PROVE  Described(f, e) = Described(g, e)
<1>1. CASE e.kind \in {"any", "only"}
  <2>1. \A x \in ToSet(e.violating) : f[x] = g[x]
    BY <1>1, ViolatingAreParts DEF ViolatingIn
  <2>2. LinesOf(f, e) = LinesOf(g, e)
    BY <2>1, EachAgrees DEF LinesOf
  <2> QED
    BY <1>1, <2>2 DEF Described
<1>2. CASE e.kind \in {"and", "or"}
  <2>1. \A x \in UNION {ToSet(e.evaluated[i].violating) : i \in DOMAIN e.evaluated} : f[x] = g[x]
    BY <1>2, ViolatingAreParts DEF ViolatingIn
  <2>2. Collected(f, e.evaluated) = Collected(g, e.evaluated)
    BY <2>1, CollectedAgrees
  <2>3. UniqueLinesOfViolations(f, e.evaluated) = UniqueLinesOfViolations(g, e.evaluated)
    BY <2>2 DEF UniqueLinesOfViolations, LinesOf, Collected
  <2> QED
    BY <1>2, <2>3 DEF Described
<1>3. CASE e.kind \in {"simple", "filtered"}
  BY <1>3 DEF Described
<1> QED
  BY <1>1, <1>2, <1>3, KindsAre

LEMMA DescriptionLinesAre ==
    /\ DescriptionLines \in [Event -> Seq(Text)]
    /\ \A e \in Event : DescriptionLines[e] = Described(DescriptionLines, e)
<1> DEFINE V == Seq(Text)
           G == [p \in Event \X [Event -> V] |-> Described(p[2], p[1])]
<1>1. V # {} /\ \A e \in Event : \A f \in [Event -> V] : G[<<e, f>>] = Described(f, e)
  <2>1. <<>> \in V
    OBVIOUS
  <2> QED
    BY <2>1
<1>2. G \in [Event \X [Event -> V] -> V]
  <2> SUFFICES ASSUME NEW e \in Event, NEW g \in [Event -> V] PROVE Described(g, e) \in V
    OBVIOUS
  <2>1. \A d \in Parts(e) : g[d] \in V
    BY PartsAreLower
  <2> QED
    BY <2>1, DescribedIs
<1> HIDE DEF G
<1>3. IsOfParts(G, V)
  BY <1>1, DescribedAgrees DEF IsOfParts
<1>4. PICK f \in [Event -> V] : IsSolution(f, G, Event)
  <2> HIDE DEF V
  <2> QED
    BY <1>1, <1>2, <1>3, MethodExists
<1> DEFINE Solution(g) == g = [e \in Event |-> Described(g, e)]
<1>5. Solution(f)
  BY <1>1, <1>4 DEF IsSolution
<1>6. DescriptionLines = CHOOSE g : Solution(g)
  BY DEF DescriptionLines
<1> HIDE DEF Solution
<1>7. Solution(DescriptionLines)
  BY <1>5, <1>6
<1>8. /\ DescriptionLines = [e \in Event |-> DescriptionLines[e]]
      /\ \A e \in Event : DescriptionLines[e] = Described(DescriptionLines, e)
  BY <1>7 DEF Solution
<1> DEFINE T == {e \in Event : DescriptionLines[e] \in V}
<1>9. \A e \in Event : e \in T
  <2>1. ASSUME NEW e \in Event, \A d \in Parts(e) : d \in T PROVE e \in T
    BY <1>8, <2>1, DescribedIs
  <2> HIDE DEF T
  <2> QED
    BY <2>1, EventsInduct
<1> QED
  BY <1>8, <1>9

LEMMA LinesAre ==
    ASSUME NEW e \in Event
    PROVE  /\ DescriptionLines[e] \in Seq(Text)
           /\ e.kind = "simple" => DescriptionLines[e] = <<e.message>>
           /\ e.kind \in {"any", "or"} => Len(DescriptionLines[e]) = 1
           /\ e.kind \in {"only", "and"} =>
                ToSet(DescriptionLines[e]) = UNION {ToSet(DescriptionLines[d]) : d \in ViolatingIn(e)}
           /\ e.kind = "filtered" => DescriptionLines[e] = e.lines
<1>1. DescriptionLines[e] = Described(DescriptionLines, e) /\ \A d \in Parts(e) : DescriptionLines[d] \in Seq(Text)
  BY DescriptionLinesAre, PartsAreLower
<1> QED
  BY <1>1, DescribedIs

(***************************************************************************)
(* handle_with of an event, from the calls for the events in it.           *)
(***************************************************************************)
Calls == [objects : Seq(Things), message : Text]

LEMMA CallsFilteredAre ==
    ASSUME NEW calls \in Seq(Calls), NEW ignored
    PROVE  /\ HandledFiltered(calls, ignored) \in Seq(Calls)
           /\ ToSet(HandledFiltered(calls, ignored)) = {call \in ToSet(calls) : ~Ignored(call.message, ignored)}
<1> DEFINE I == {i \in DOMAIN calls : ~Ignored(calls[i].message, ignored)}
<1>1. /\ At(calls, I) \in Seq(Calls)
      /\ ToSet(At(calls, I)) = {calls[i] : i \in DOMAIN calls \cap I}
  <2> HIDE DEF I
  <2> QED
    BY AtIs
<1>2. {calls[i] : i \in DOMAIN calls \cap I} = {call \in ToSet(calls) : ~Ignored(call.message, ignored)}
  BY DEF ToSet
<1> QED
  BY <1>1, <1>2 DEF HandledFiltered

LEMMA HandledWithIs ==
    ASSUME NEW e \in Event, NEW f, \A d \in Parts(e) : f[d] \in Seq(Calls)
    PROVE  /\ HandledWith(f, e) \in Seq(Calls)
           /\ e.kind = "simple" => HandledWith(f, e) = <<Call(<<e.object>>, e.message)>>
           /\ e.kind = "any" => HandledWith(f, e) = <<Call(e.objects, DescriptionLines[e][1])>>
           /\ e.kind = "or" => HandledWith(f, e) = <<Call(<<e.object>>, DescriptionLines[e][1])>>
           /\ e.kind \in {"only", "and"} =>
                ToSet(HandledWith(f, e)) = UNION {ToSet(f[d]) : d \in ViolatingIn(e)}
           /\ e.kind = "filtered" => 
                ToSet(HandledWith(f, e)) = {call \in ToSet(f[e.delegate]) : ~Ignored(call.message, e.patterns)}
<1>0. \A objects \in Seq(Things) : \A message \in Text : <<Call(objects, message)>> \in Seq(Calls)
  BY DEF Call, Calls
<1>1. CASE e.kind = "simple"
  <2>1. <<e.object>> \in Seq(Things) /\ e.message \in Text
    BY <1>1, KindsAre DEF IsSimple
  <2> QED
    BY <1>0, <1>1, <2>1 DEF HandledWith
<1>2. CASE e.kind = "any"
  <2>1. e.objects \in Seq(Things) /\ DescriptionLines[e][1] \in Text
    BY <1>2, KindsAre, LinesAre DEF IsAttributes
  <2> QED
    BY <1>0, <1>2, <2>1 DEF HandledWith
<1>3. CASE e.kind = "or"
  <2>1. <<e.object>> \in Seq(Things) /\ DescriptionLines[e][1] \in Text
    BY <1>3, KindsAre, LinesAre DEF IsJoin
  <2> QED
    BY <1>0, <1>3, <2>1 DEF HandledWith
<1>4. CASE e.kind = "only"
  <2>1. e.violating \in Seq(Event) /\ ViolatingIn(e) = ToSet(e.violating)
    BY <1>4, KindsAre DEF IsAttributes, ViolatingIn
  <2>2. \A x \in ToSet(e.violating) : f[x] \in Seq(Calls)
    BY <1>4, <2>1, ViolatingAreParts
  <2>3. HandledOf(f, e) \in Seq(Calls) /\ ToSet(HandledOf(f, e)) = UNION {ToSet(f[d]) : d \in ViolatingIn(e)}
    BY <2>1, <2>2, FlattenEachIs DEF HandledOf
  <2> QED
    BY <1>4, <2>3 DEF HandledWith
<1>5. CASE e.kind = "and"
  <2> DEFINE violating == UNION {ToSet(e.evaluated[i].violating) : i \in DOMAIN e.evaluated}
  <2>1. e.evaluated \in Seq(Found(Event)) /\ ViolatingIn(e) = violating
    BY <1>5, KindsAre DEF IsJoin, ViolatingIn
  <2>2. \A x \in violating : f[x] \in Seq(Calls)
    BY <1>5, <2>1, ViolatingAreParts
  <2>3. Collected(f, e.evaluated) \in Seq(Calls)
        /\ ToSet(Collected(f, e.evaluated)) = UNION {ToSet(f[d]) : d \in violating}
    BY <2>1, <2>2, CollectedIs
  <2>4. HandledWith(f, e) = Collected(f, e.evaluated)
    BY <1>5 DEF HandledWith, HandledOf, Collected
  <2> QED
    BY <1>5, <2>1, <2>3, <2>4
<1>6. CASE e.kind = "filtered"
  <2>1. f[e.delegate] \in Seq(Calls)
    BY <1>6, KindsAre
  <2> QED
    BY <1>6, <2>1, CallsFilteredAre DEF HandledWith
<1> QED
  BY <1>1, <1>2, <1>3, <1>4, <1>5, <1>6, KindsAre

LEMMA HandledWithAgrees ==
    ASSUME NEW e \in Event, NEW f, NEW g, \A d \in Parts(e) : f[d] = g[d]
    PROVE  HandledWith(f, e) = HandledWith(g, e)
<1>1. CASE e.kind = "only"
  <2>1. \A x \in ToSet(e.violating) : f[x] = g[x]
    BY <1>1, ViolatingAreParts DEF ViolatingIn
  <2>2. HandledOf(f, e) = HandledOf(g, e)
    BY <2>1, EachAgrees DEF HandledOf
  <2> QED
    BY <1>1, <2>2 DEF HandledWith
<1>2. CASE e.kind = "and"
  <2>1. \A x \in UNION {ToSet(e.evaluated[i].violating) : i \in DOMAIN e.evaluated} : f[x] = g[x]
    BY <1>2, ViolatingAreParts DEF ViolatingIn
  <2>2. Collected(f, e.evaluated) = Collected(g, e.evaluated)
    BY <2>1, CollectedAgrees
  <2>3. \A h : HandledWith(h, e) = Collected(h, e.evaluated)
    BY <1>2 DEF HandledWith, HandledOf, Collected
  <2> QED
    BY <2>2, <2>3
<1>3. CASE e.kind \in {"simple", "any", "or"}
  BY <1>3 DEF HandledWith
<1>4. CASE e.kind = "filtered"
  <2>1. f[e.delegate] = g[e.delegate]
    BY <1>4, KindsAre
  <2> QED
    BY <1>4, <2>1 DEF HandledWith
<1> QED
  BY <1>1, <1>2, <1>3, <1>4, KindsAre

LEMMA HandledAre ==
    /\ Handled \in [Event -> Seq(Calls)]
    /\ \A e \in Event : Handled[e] = HandledWith(Handled, e)
<1> DEFINE V == Seq(Calls)
           G == [p \in Event \X [Event -> V] |-> HandledWith(p[2], p[1])]
<1>1. V # {} /\ \A e \in Event : \A f \in [Event -> V] : G[<<e, f>>] = HandledWith(f, e)
  <2>1. <<>> \in V
    OBVIOUS
  <2> QED
    BY <2>1
<1>2. G \in [Event \X [Event -> V] -> V]
  <2> SUFFICES ASSUME NEW e \in Event, NEW g \in [Event -> V] PROVE HandledWith(g, e) \in V
    OBVIOUS
  <2>1. \A d \in Parts(e) : g[d] \in V
    BY PartsAreLower
  <2> QED
    BY <2>1, HandledWithIs
<1> HIDE DEF G
<1>3. IsOfParts(G, V)
  BY <1>1, HandledWithAgrees DEF IsOfParts
<1>4. PICK f \in [Event -> V] : IsSolution(f, G, Event)
  <2> HIDE DEF V
  <2> QED
    BY <1>1, <1>2, <1>3, MethodExists
<1> DEFINE Solution(g) == g = [e \in Event |-> HandledWith(g, e)]
<1>5. Solution(f)
  BY <1>1, <1>4 DEF IsSolution
<1>6. Handled = CHOOSE g : Solution(g)
  BY DEF Handled
<1> HIDE DEF Solution
<1>7. Solution(Handled)
  BY <1>5, <1>6
<1>8. /\ Handled = [e \in Event |-> Handled[e]]
      /\ \A e \in Event : Handled[e] = HandledWith(Handled, e)
  BY <1>7 DEF Solution
<1> DEFINE T == {e \in Event : Handled[e] \in V}
<1>9. \A e \in Event : e \in T
  <2>1. ASSUME NEW e \in Event, \A d \in Parts(e) : d \in T PROVE e \in T
    BY <1>8, <2>1, HandledWithIs
  <2> HIDE DEF T
  <2> QED
    BY <2>1, EventsInduct
<1> QED
  BY <1>8, <1>9

LEMMA CallsAre ==
    ASSUME NEW e \in Event
    PROVE  /\ Handled[e] \in Seq(Calls)
           /\ e.kind = "simple" => Handled[e] = <<Call(<<e.object>>, e.message)>>
           /\ e.kind = "any" => Handled[e] = <<Call(e.objects, DescriptionLines[e][1])>>
           /\ e.kind = "or" => Handled[e] = <<Call(<<e.object>>, DescriptionLines[e][1])>>
           /\ e.kind \in {"only", "and"} => ToSet(Handled[e]) = UNION {ToSet(Handled[d]) : d \in ViolatingIn(e)}
           /\ e.kind = "filtered" => 
                ToSet(Handled[e]) = {call \in ToSet(Handled[e.delegate]) : ~Ignored(call.message, e.patterns)}
<1>1. Handled[e] = HandledWith(Handled, e) /\ \A d \in Parts(e) : Handled[d] \in Seq(Calls)
  BY HandledAre, PartsAreLower
<1> QED
  BY <1>1, HandledWithIs

-----------------------------------------------------------------------------
(***************************************************************************)
(* Sorting events, and invert.                                             *)
(***************************************************************************)
Sorted(events) == /\ \A d \in ToSet(events.allowed) : ~IsViolation[d]
                  /\ \A d \in ToSet(events.violating) : IsViolation[d]

LEMMA FoundIs ==
    ASSUME NEW A, NEW events \in Found(A)
    PROVE  /\ events.allowed \in Seq(A) /\ events.violating \in Seq(A)
           /\ FoundIn(events) \subseteq A
           /\ AllEvents(events) \in Seq(A) /\ ToSet(AllEvents(events)) = FoundIn(events)
<1>1. events.allowed \in Seq(A) /\ events.violating \in Seq(A)
  BY DEF Found
<1> DEFINE s == events.allowed
           t == events.violating
<1> HIDE DEF s, t
<1>2. s \in Seq(A) /\ t \in Seq(A)
  BY <1>1 DEF s, t
<1>3. ToSet(s) \subseteq A /\ ToSet(t) \subseteq A
  BY <1>2, SetOfSeq
<1>4. s \o t \in Seq(A) /\ ToSet(s \o t) = ToSet(s) \cup ToSet(t)
  BY <1>2, ConcatenatedSet
<1>5. FoundIn(events) = ToSet(s) \cup ToSet(t) /\ AllEvents(events) = s \o t
  BY DEF FoundIn, AllEvents, s, t
<1> QED
  BY <1>1, <1>3, <1>4, <1>5

LEMMA AddEventsIs ==
    ASSUME NEW A, NEW events \in Found(A), NEW es \in Seq(A)
    PROVE  /\ AddEvents(events, es) \in Found(A)
           /\ ToSet(AddEvents(events, es).allowed) = ToSet(events.allowed) \cup {d \in ToSet(es) : ~IsViolation[d]}
           /\ ToSet(AddEvents(events, es).violating) = ToSet(events.violating) \cup {d \in ToSet(es) : IsViolation[d]}
<1> DEFINE I == {i \in DOMAIN es : IsViolation[es[i]]}
           J == DOMAIN es \ I
           s == At(es, J)
           t == At(es, I)
<1>1. /\ s \in Seq(A) /\ ToSet(s) = {es[i] : i \in DOMAIN es \cap J}
      /\ t \in Seq(A) /\ ToSet(t) = {es[i] : i \in DOMAIN es \cap I}
  <2> HIDE DEF I, J
  <2> QED
    BY AtIs
<1>2. AddEvents(events, es) = [allowed |-> events.allowed \o s, violating |-> events.violating \o t]
  BY DEF AddEvents
<1> HIDE DEF s, t
<1>3. ToSet(s) = {d \in ToSet(es) : ~IsViolation[d]} /\ ToSet(t) = {d \in ToSet(es) : IsViolation[d]}
  <2>1. ToSet(es) = {es[i] : i \in DOMAIN es}
    BY DEF ToSet
  <2>2. {es[i] : i \in DOMAIN es \cap J} = {d \in ToSet(es) : ~IsViolation[d]}
    BY <2>1
  <2>3. {es[i] : i \in DOMAIN es \cap I} = {d \in ToSet(es) : IsViolation[d]}
    BY <2>1
  <2> QED
    BY <1>1, <2>2, <2>3
<1> HIDE DEF I, J
<1>4. events.allowed \in Seq(A) /\ events.violating \in Seq(A)
  BY FoundIs
<1>5. /\ events.allowed \o s \in Seq(A) /\ events.violating \o t \in Seq(A)
      /\ ToSet(events.allowed \o s) = ToSet(events.allowed) \cup ToSet(s)
      /\ ToSet(events.violating \o t) = ToSet(events.violating) \cup ToSet(t)
  BY <1>1, <1>4, ConcatenatedSet
<1>6. AddEvents(events, es) \in Found(A)
  BY <1>2, <1>5 DEF Found
<1>7. AddEvents(events, es).allowed = events.allowed \o s /\ AddEvents(events, es).violating = events.violating \o t
  BY <1>2
<1> QED
  BY <1>3, <1>5, <1>6, <1>7

LEMMA SortedIs ==
    ASSUME NEW A, NEW es \in Seq(A)
    PROVE  /\ AddEvents(NoEvents, es) \in Found(A)
           /\ FoundIn(AddEvents(NoEvents, es)) = ToSet(es)
           /\ Sorted(AddEvents(NoEvents, es))
           /\ ToSet(AddEvents(NoEvents, es).allowed) = {d \in ToSet(es) : ~IsViolation[d]}
           /\ ToSet(AddEvents(NoEvents, es).violating) = {d \in ToSet(es) : IsViolation[d]}
<1>1. NoEvents \in Found(A) /\ ToSet(NoEvents.allowed) = {} /\ ToSet(NoEvents.violating) = {}
  <2>1. <<>> \in Seq(A) /\ ToSet(<<>>) = {}
    BY DEF ToSet
  <2> QED
    BY <2>1 DEF NoEvents, Found
<1>2. /\ AddEvents(NoEvents, es) \in Found(A)
      /\ ToSet(AddEvents(NoEvents, es).allowed) = {d \in ToSet(es) : ~IsViolation[d]}
      /\ ToSet(AddEvents(NoEvents, es).violating) = {d \in ToSet(es) : IsViolation[d]}
  BY <1>1, AddEventsIs
<1> QED
  BY <1>2 DEF FoundIn, Sorted

PartsOfAll(evaluated) == UNION {FoundIn(evaluated[i]) : i \in DOMAIN evaluated}

LEMMA InvertAllIs ==
    ASSUME NEW A, NEW evaluated \in Seq(Found(A)), NEW B, NEW f, Maps(f, PartsOfAll(evaluated), B)
    PROVE  /\ InvertAll(f, evaluated) \in Seq(Found(B)) /\ DOMAIN InvertAll(f, evaluated) = DOMAIN evaluated
           /\ \A i \in DOMAIN evaluated :
                /\ Sorted(InvertAll(f, evaluated)[i])
                /\ FoundIn(InvertAll(f, evaluated)[i]) = {f[d] : d \in FoundIn(evaluated[i])}
<1>1. Len(evaluated) \in Nat /\ DOMAIN evaluated = 1 .. Len(evaluated)
      /\ DOMAIN InvertAll(f, evaluated) = DOMAIN evaluated
  BY DEF InvertAll
<1>2. ASSUME NEW i \in DOMAIN evaluated
      PROVE  /\ InvertAll(f, evaluated)[i] \in Found(B)
             /\ Sorted(InvertAll(f, evaluated)[i])
             /\ FoundIn(InvertAll(f, evaluated)[i]) = {f[d] : d \in FoundIn(evaluated[i])}
  <2> DEFINE all == AllEvents(evaluated[i])
  <2>1. all \in Seq(A) /\ ToSet(all) = FoundIn(evaluated[i])
    <3>1. evaluated[i] \in Found(A)
      OBVIOUS
    <3> QED
      BY <3>1, FoundIs
  <2>2. InvertAll(f, evaluated)[i] = AddEvents(NoEvents, Each(f, all))
    BY DEF InvertAll
  <2> HIDE DEF all
  <2>3. Maps(f, ToSet(all), B)
    BY <2>1 DEF Maps, PartsOfAll
  <2>4. Each(f, all) \in Seq(B) /\ ToSet(Each(f, all)) = {f[d] : d \in ToSet(all)}
    BY <2>1, <2>3, EachIs
  <2> QED
    BY <2>1, <2>2, <2>4, SortedIs
<1> QED
  BY <1>1, <1>2 DEF InvertAll

LEMMA LinesNotIgnoredAre ==
    ASSUME NEW lines \in Seq(Text), NEW ignored
    PROVE  /\ LinesNotIgnored(lines, ignored) \in Seq(Text)
           /\ ToSet(LinesNotIgnored(lines, ignored)) = {line \in ToSet(lines) : ~Ignored(line, ignored)}
<1> DEFINE I == {i \in DOMAIN lines : ~Ignored(lines[i], ignored)}
<1>1. At(lines, I) \in Seq(Text) /\ ToSet(At(lines, I)) = {lines[i] : i \in DOMAIN lines \cap I}
  <2> HIDE DEF I
  <2> QED
    BY AtIs
<1>2. {lines[i] : i \in DOMAIN lines \cap I} = {line \in ToSet(lines) : ~Ignored(line, ignored)}
  BY DEF ToSet
<1> QED
  BY <1>1, <1>2 DEF LinesNotIgnored

LEMMA FilteredLevel ==
    ASSUME NEW n \in 1 .. Nesting, NEW e \in Nested[n - 1], NEW ignored \in SUBSET Pattern
    PROVE  FilteredEvent(e, ignored) \in Nested[n]
<1>1. n - 1 \in 0 .. Nesting /\ Nesting \in n - 1 .. Nesting
  BY NestingAssumption
<1>2. e \in Event
  BY <1>1, LevelsGrow DEF Event
<1>3. LinesNotIgnored(DescriptionLines[e], ignored) \in Seq(Text)
  BY <1>2, LinesAre, LinesNotIgnoredAre
<1>4. FilteredEvent(e, ignored) \in Holding(Nested[n - 1])
  BY <1>3 DEF FilteredEvent, Holding
<1> QED
  BY <1>4, NestedIs

LEMMA InvertedLevel ==
    ASSUME NEW n \in 0 .. Nesting, NEW e \in Nested[n], NEW f,
           \A m \in 0 .. Nesting : Maps(f, Parts(e) \cap Nested[m], Nested[m])
    PROVE  Inverted(f, e) \in Nested[n]
<1>1. CASE IsSimple(e)
  <2>1. Inverted(f, e) = [e EXCEPT !.satisfied = ~@]
    BY <1>1 DEF IsSimple, Inverted
  <2>2. [e EXCEPT !.satisfied = ~@] = SimpleEvent(e.object, ~e.satisfied, e.message)
    BY <1>1 DEF IsSimple, SimpleEvent
  <2>3. SimpleEvent(e.object, ~e.satisfied, e.message) \in SimpleEvents
    <3>1. e.object \in Things /\ (~e.satisfied) \in BOOLEAN /\ e.message \in Text
      BY <1>1 DEF IsSimple
    <3> QED
      BY <3>1 DEF SimpleEvent, SimpleEvents
  <2>4. SimpleEvents \subseteq Nested[n]
    BY NestedIs, NestingAssumption
  <2> QED
    BY <2>1, <2>2, <2>3, <2>4
<1>2. CASE ~IsSimple(e)
  <2> DEFINE A == Nested[n - 1]
  <2>1. n \in 1 .. Nesting /\ (IsAttributes(e, A) \/ IsJoin(e, A) \/ IsFiltered(e, A))
    BY <1>2, EventsAre
  <2>2. n - 1 \in 0 .. Nesting
    BY <2>1, NestingAssumption
  <2>3. Holding(A) \subseteq Nested[n]
    BY <2>1, NestedIs
  <2>4. Parts(e) \subseteq A
    BY <2>1, PartsOfHolding
  <2>5. Maps(f, Parts(e), A)
    BY <2>2, <2>4 DEF Maps
  <2>6. CASE IsFiltered(e, A)
    <3>1. e.delegate \in Parts(e) /\ e.patterns \in SUBSET Pattern
      BY <2>6 DEF IsFiltered, Parts
    <3>2. f[e.delegate] \in Nested[n - 1]
      BY <2>5, <3>1 DEF Maps
    <3>3. Inverted(f, e) = FilteredEvent(f[e.delegate], e.patterns)
      BY <2>6 DEF IsFiltered, Inverted
    <3> QED
      BY <2>1, <3>1, <3>2, <3>3, FilteredLevel
  <2> HIDE DEF A
  <2>7. CASE IsAttributes(e, A)
    <3>1. Inverted(f, e) \in {AttributesEvent(kind, e.objects, e.violating, e.allowed) : kind \in {"any", "only"}}
      BY <2>7 DEF IsAttributes, Inverted, AnyInverted, OnlyInverted
    <3>2. \A kind \in {"any", "only"} : AttributesEvent(kind, e.objects, e.violating, e.allowed) \in Holding(A)
      BY <2>7 DEF IsAttributes, AttributesEvent, Holding
    <3> QED
      BY <2>3, <3>1, <3>2
  <2>8. CASE IsJoin(e, A)
    <3>1. e.evaluated \in Seq(Found(A)) /\ PartsOfAll(e.evaluated) = Parts(e) /\ e.object \in Things
      BY <2>8 DEF IsJoin, Parts, PartsOfAll
    <3>2. InvertAll(f, e.evaluated) \in Seq(Found(A))
      BY <2>5, <3>1, InvertAllIs
    <3>3. Inverted(f, e) \in {JoinEvent(kind, e.object, InvertAll(f, e.evaluated)) : kind \in {"and", "or"}}
      BY <2>8 DEF IsJoin, Inverted, AndInverted, OrInverted
    <3>4. \A kind \in {"and", "or"} : JoinEvent(kind, e.object, InvertAll(f, e.evaluated)) \in Holding(A)
      BY <3>1, <3>2 DEF JoinEvent, Holding
    <3> QED
      BY <2>3, <3>3, <3>4
  <2> QED
    BY <2>1, <2>6, <2>7, <2>8
<1> QED
  BY <1>1, <1>2

LEMMA InvertedAgrees ==
    ASSUME NEW e \in Event, NEW f, NEW g, \A d \in Parts(e) : f[d] = g[d]
    PROVE  Inverted(f, e) = Inverted(g, e)
<1>1. CASE e.kind \in {"and", "or"}
  <2>1. e.evaluated \in Seq(Found(Event)) /\ PartsOfAll(e.evaluated) = Parts(e)
    BY <1>1, KindsAre DEF IsJoin, Parts, PartsOfAll
  <2>2. ASSUME NEW i \in DOMAIN e.evaluated
        PROVE  Each(f, AllEvents(e.evaluated[i])) = Each(g, AllEvents(e.evaluated[i]))
    <3>1. e.evaluated[i] \in Found(Event) /\ FoundIn(e.evaluated[i]) \subseteq Parts(e)
      BY <2>1 DEF PartsOfAll
    <3>2. \A x \in ToSet(AllEvents(e.evaluated[i])) : f[x] = g[x]
      BY <3>1, FoundIs
    <3> QED
      BY <3>2, EachAgrees
  <2>3. InvertAll(f, e.evaluated) = InvertAll(g, e.evaluated)
    BY <2>2 DEF InvertAll
  <2> QED
    BY <1>1, <2>3 DEF Inverted
<1>2. CASE e.kind \in {"simple", "any", "only"}
  BY <1>2 DEF Inverted
<1>3. CASE e.kind = "filtered"
  <2>1. f[e.delegate] = g[e.delegate]
    BY <1>3, KindsAre
  <2> QED
    BY <1>3, <2>1 DEF Inverted
<1> QED
  BY <1>1, <1>2, <1>3, KindsAre

LEMMA InvertIs ==
    /\ Invert \in [Event -> Event]
    /\ \A e \in Event : Invert[e] = Inverted(Invert, e)
    /\ \A n \in 0 .. Nesting : \A e \in Nested[n] : Invert[e] \in Nested[n]
<1> DEFINE Keeps(f, e) == \A m \in 0 .. Nesting : e \in Nested[m] => f[e] \in Nested[m]
           G == [p \in Event \X [Event -> Event] |->
                    IF Inverted(p[2], p[1]) \in Event THEN Inverted(p[2], p[1]) ELSE p[1]]
<1>1. \A e \in Event : \A f \in [Event -> Event] :
        G[<<e, f>>] = IF Inverted(f, e) \in Event THEN Inverted(f, e) ELSE e
  OBVIOUS
<1>2. G \in [Event \X [Event -> Event] -> Event]
  OBVIOUS
<1> HIDE DEF G
<1>3. IsOfParts(G, Event)
  BY <1>1, InvertedAgrees DEF IsOfParts
<1>4. Event # {}
  <2>1. SimpleEvent(0, TRUE, <<>>) \in SimpleEvents
    BY DEF SimpleEvent, SimpleEvents, Things, Text
  <2>2. SimpleEvents \subseteq Event
    BY NestedIs, NestingAssumption DEF Event
  <2> QED
    BY <2>1, <2>2
<1>5. PICK f \in [Event -> Event] : IsSolution(f, G, Event)
  BY <1>2, <1>3, <1>4, MethodExists
<1>6. ASSUME NEW e \in Event, NEW g, \A d \in Parts(e) : Keeps(g, d)
      PROVE  /\ Inverted(g, e) \in Event
             /\ \A m \in 0 .. Nesting : e \in Nested[m] => Inverted(g, e) \in Nested[m]
  <2>1. \A m \in 0 .. Nesting : Maps(g, Parts(e) \cap Nested[m], Nested[m])
    BY <1>6 DEF Maps
  <2>2. Nesting \in 0 .. Nesting
    BY NestingAssumption
  <2>3. \A m \in 0 .. Nesting : e \in Nested[m] => Inverted(g, e) \in Nested[m]
    BY <2>1, InvertedLevel
  <2> QED
    BY <2>2, <2>3 DEF Event
<1> DEFINE Solution(g) == g = [e \in Event |-> Inverted(g, e)]
<1>7. Solution(f)
  <2> DEFINE T == {e \in Event : f[e] = Inverted(f, e) /\ Keeps(f, e)}
  <2>1. ASSUME NEW e \in Event, \A d \in Parts(e) : d \in T PROVE e \in T
    <3>1. f[e] = G[<<e, f>>]
      BY <1>5 DEF IsSolution
    <3>2. f[e] = Inverted(f, e)
      BY <1>1, <1>6, <2>1, <3>1
    <3> QED
      BY <1>6, <2>1, <3>2
  <2>2. \A e \in Event : e \in T
    <3> HIDE DEF T
    <3> QED
      BY <2>1, EventsInduct
  <2>3. \A e \in Event : f[e] = Inverted(f, e)
    BY <2>2
  <2> QED
    BY <2>3
<1>8. Invert = CHOOSE g : Solution(g)
  BY DEF Invert
<1> HIDE DEF Solution
<1>9. Solution(Invert)
  BY <1>7, <1>8
<1>10. /\ Invert = [e \in Event |-> Invert[e]]
       /\ \A e \in Event : Invert[e] = Inverted(Invert, e)
  BY <1>9 DEF Solution
<1> DEFINE T == {e \in Event : Invert[e] \in Event /\ Keeps(Invert, e)}
<1>11. \A e \in Event : e \in T
  <2>1. ASSUME NEW e \in Event, \A d \in Parts(e) : d \in T PROVE e \in T
    <3>1. \A d \in Parts(e) : Keeps(Invert, d)
      BY <2>1
    <3>2. /\ Inverted(Invert, e) \in Event
          /\ \A m \in 0 .. Nesting : e \in Nested[m] => Inverted(Invert, e) \in Nested[m]
      BY <1>6, <3>1
    <3>3. Invert[e] = Inverted(Invert, e)
      BY <1>10
    <3> QED
      BY <3>2, <3>3
  <2> HIDE DEF T
  <2> QED
    BY <2>1, EventsInduct
<1>12. ASSUME NEW n \in 0 .. Nesting, NEW e \in Nested[n] PROVE Invert[e] \in Nested[n]
  <2>1. e \in Event
    <3>1. Nesting \in n .. Nesting
      BY NestingAssumption
    <3> QED
      BY <3>1, LevelsGrow DEF Event
  <2> QED
    BY <1>11, <2>1
<1> QED
  BY <1>10, <1>11, <1>12

-----------------------------------------------------------------------------
(***************************************************************************)
(* The events that conditions leave.  The attributes of `any` and `only`   *)
(* are simple events; joined conditions keep what they found sorted; a     *)
(* filtered event holds the lines of its delegate that are not ignored.    *)
(* The events that are so to the innermost are the largest set of events   *)
(* that are so and hold only events of the set.                            *)
(***************************************************************************)
IsBuilt(e) ==
    /\ e.kind \in {"any", "only"} => \A d \in Parts(e) : d.kind = "simple"
    /\ e.kind \in {"and", "or"} => \A i \in DOMAIN e.evaluated : Sorted(e.evaluated[i])
    /\ e.kind = "filtered" => e.lines = LinesNotIgnored(DescriptionLines[e.delegate], e.patterns)

AreBuilt(C) == \A e \in C : IsBuilt(e) /\ Parts(e) \subseteq C

Built == UNION {C \in SUBSET Event : AreBuilt(C)}

LEMMA BuiltIs ==
    /\ Built \subseteq Event
    /\ \A e \in Built : IsBuilt(e) /\ Parts(e) \subseteq Built
    /\ \A e \in Event : IsBuilt(e) /\ Parts(e) \subseteq Built => e \in Built
<1>1. Built \subseteq Event
  BY DEF Built
<1>2. \A e \in Built : IsBuilt(e) /\ Parts(e) \subseteq Built
  BY DEF Built, AreBuilt
<1>3. ASSUME NEW e \in Event, IsBuilt(e), Parts(e) \subseteq Built PROVE e \in Built
  <2> DEFINE C == Built \cup {e}
  <2>1. C \in SUBSET Event /\ AreBuilt(C)
    BY <1>1, <1>2, <1>3 DEF AreBuilt
  <2> QED
    BY <2>1 DEF Built
<1> QED
  BY <1>1, <1>2, <1>3

LEMMA BuiltInduct ==
    ASSUME NEW T, \A e \in Built : (\A d \in Parts(e) : d \in T) => e \in T
    PROVE  \A e \in Built : e \in T
<1> DEFINE U == {e \in Event : e \in Built => e \in T}
<1>1. ASSUME NEW e \in Event, \A d \in Parts(e) : d \in U PROVE e \in U
  BY <1>1, BuiltIs
<1>2. \A e \in Event : e \in U
  <2> HIDE DEF U
  <2> QED
    BY <1>1, EventsInduct
<1> QED
  BY <1>2, BuiltIs

\* What invert does to each kind of event.
LEMMA InvertOf ==
    ASSUME NEW e \in Event
    PROVE  /\ Invert[e] \in Event
           /\ e.kind = "simple" => Invert[e] = SimpleEvent(e.object, ~e.satisfied, e.message)
           /\ e.kind = "any" => Invert[e] = AttributesEvent("only", e.objects, e.violating, e.allowed)
           /\ e.kind = "only" => Invert[e] = AttributesEvent("any", e.objects, e.violating, e.allowed)
           /\ e.kind = "and" => Invert[e] = JoinEvent("or", e.object, InvertAll(Invert, e.evaluated))
           /\ e.kind = "or" => Invert[e] = JoinEvent("and", e.object, InvertAll(Invert, e.evaluated))
           /\ e.kind = "filtered" => Invert[e] = FilteredEvent(Invert[e.delegate], e.patterns)
<1>1. Invert[e] = Inverted(Invert, e) /\ Invert[e] \in Event
  BY InvertIs
<1>2. e.kind = "simple" => Inverted(Invert, e) = SimpleEvent(e.object, ~e.satisfied, e.message)
  <2>1. e.kind = "simple" => Inverted(Invert, e) = [e EXCEPT !.satisfied = ~@]
    BY DEF Inverted
  <2> QED
    BY <2>1, KindsAre DEF IsSimple, SimpleEvent
<1>3. /\ e.kind = "any" => Inverted(Invert, e) = AttributesEvent("only", e.objects, e.violating, e.allowed)
      /\ e.kind = "only" => Inverted(Invert, e) = AttributesEvent("any", e.objects, e.violating, e.allowed)
  BY DEF Inverted, AnyInverted, OnlyInverted
<1>4. /\ e.kind = "and" => Inverted(Invert, e) = JoinEvent("or", e.object, InvertAll(Invert, e.evaluated))
      /\ e.kind = "or" => Inverted(Invert, e) = JoinEvent("and", e.object, InvertAll(Invert, e.evaluated))
      /\ e.kind = "filtered" => Inverted(Invert, e) = FilteredEvent(Invert[e.delegate], e.patterns)
  BY DEF Inverted, AndInverted, OrInverted
<1> QED
  BY <1>1, <1>2, <1>3, <1>4

LEMMA InvertAllOf ==
    ASSUME NEW e \in Event, e.kind \in {"and", "or"}
    PROVE  /\ InvertAll(Invert, e.evaluated) \in Seq(Found(Event))
           /\ DOMAIN InvertAll(Invert, e.evaluated) = DOMAIN e.evaluated
           /\ \A i \in DOMAIN e.evaluated :
                /\ Sorted(InvertAll(Invert, e.evaluated)[i])
                /\ FoundIn(InvertAll(Invert, e.evaluated)[i]) = {Invert[d] : d \in FoundIn(e.evaluated[i])}
<1>1. e.evaluated \in Seq(Found(Event)) /\ PartsOfAll(e.evaluated) = Parts(e)
  BY KindsAre DEF IsJoin, Parts, PartsOfAll
<1>2. Maps(Invert, PartsOfAll(e.evaluated), Event)
  BY <1>1, PartsAreLower, InvertIs DEF Maps
<1>3. e.evaluated \in Seq(Found(Event))
  BY <1>1
<1> DEFINE s == e.evaluated
           f == Invert
<1>4. Maps(f, PartsOfAll(s), Event) /\ s \in Seq(Found(Event))
  BY <1>2, <1>3
<1> HIDE DEF s, f
<1>5. InvertAll(f, s) \in Seq(Found(Event))
  BY ONLY <1>4, InvertAllIs
<1>6. DOMAIN InvertAll(f, s) = DOMAIN s
  BY ONLY <1>4, InvertAllIs
<1>7. \A i \in DOMAIN s : Sorted(InvertAll(f, s)[i]) /\ FoundIn(InvertAll(f, s)[i]) = {f[d] : d \in FoundIn(s[i])}
  BY ONLY <1>4, InvertAllIs
<1> QED
  BY ONLY <1>5, <1>6, <1>7 DEF s, f

LEMMA InvertBuilds == \A e \in Built : Invert[e] \in Built
<1> DEFINE T == {e \in Built : Invert[e] \in Built}
<1>1. ASSUME NEW e \in Built, \A d \in Parts(e) : d \in T PROVE e \in T
  <2>0. e \in Event /\ Invert[e] \in Event /\ IsBuilt(e) /\ Parts(e) \subseteq Built
    BY BuiltIs, InvertOf
  <2>1. CASE e.kind = "simple"
    <3>0. Invert[e] = SimpleEvent(e.object, ~e.satisfied, e.message)
      BY <2>0, <2>1, InvertOf
    <3>1. Invert[e].kind = "simple"
      BY <3>0 DEF SimpleEvent
    <3>2. IsBuilt(Invert[e]) /\ Parts(Invert[e]) = {}
      BY <3>1 DEF IsBuilt, Parts
    <3> QED
      BY <2>0, <3>2, BuiltIs
  <2>2. CASE e.kind \in {"any", "only"}
    <3>0. \/ Invert[e] = AttributesEvent("only", e.objects, e.violating, e.allowed)
          \/ Invert[e] = AttributesEvent("any", e.objects, e.violating, e.allowed)
      BY <2>0, <2>2, InvertOf
    <3>1. /\ Invert[e].kind \in {"any", "only"}
          /\ Invert[e].allowed = e.violating /\ Invert[e].violating = e.allowed
      BY <3>0 DEF AttributesEvent
    <3>2. Parts(Invert[e]) = Parts(e)
      BY <2>2, <3>1 DEF Parts, FoundIn
    <3>3. IsBuilt(Invert[e])
      BY <2>0, <2>2, <3>1, <3>2 DEF IsBuilt
    <3> QED
      BY <2>0, <3>2, <3>3, BuiltIs
  <2>3. CASE e.kind \in {"and", "or"}
    <3>0. \/ Invert[e] = JoinEvent("or", e.object, InvertAll(Invert, e.evaluated))
          \/ Invert[e] = JoinEvent("and", e.object, InvertAll(Invert, e.evaluated))
      BY <2>0, <2>3, InvertOf
    <3>1. Invert[e].kind \in {"and", "or"} /\ Invert[e].evaluated = InvertAll(Invert, e.evaluated)
      BY <3>0 DEF JoinEvent
    <3>2. \A i \in DOMAIN e.evaluated : FoundIn(e.evaluated[i]) \subseteq Parts(e)
      BY <2>3 DEF Parts
    <3>3. ASSUME NEW x \in Parts(Invert[e]) PROVE x \in Built
      <4>1. PICK i \in DOMAIN e.evaluated : x \in FoundIn(InvertAll(Invert, e.evaluated)[i])
        BY <2>0, <2>3, <3>1, InvertAllOf DEF Parts
      <4>2. PICK d \in FoundIn(e.evaluated[i]) : x = Invert[d]
        <5>1. FoundIn(InvertAll(Invert, e.evaluated)[i]) = {Invert[d] : d \in FoundIn(e.evaluated[i])}
          BY <2>0, <2>3, InvertAllOf
        <5> QED
          BY <4>1, <5>1
      <4> QED
        BY <1>1, <3>2, <4>2
    <3>4. IsBuilt(Invert[e])
      BY <2>0, <2>3, <3>1, InvertAllOf DEF IsBuilt
    <3> QED
      BY <2>0, <3>3, <3>4, BuiltIs
  <2>4. CASE e.kind = "filtered"
    <3>0. Invert[e] = FilteredEvent(Invert[e.delegate], e.patterns)
      BY <2>0, <2>4, InvertOf
    <3>1. /\ Invert[e].kind = "filtered" /\ Invert[e].delegate = Invert[e.delegate]
          /\ Invert[e].patterns = e.patterns
          /\ Invert[e].lines = LinesNotIgnored(DescriptionLines[Invert[e.delegate]], e.patterns)
      BY <3>0 DEF FilteredEvent
    <3>2. e.delegate \in Parts(e) /\ Parts(Invert[e]) = {Invert[e.delegate]}
      BY <2>4, <3>1 DEF Parts
    <3>3. IsBuilt(Invert[e])
      BY <3>1 DEF IsBuilt
    <3> QED
      BY <1>1, <2>0, <3>2, <3>3, BuiltIs
  <2> QED
    BY <2>0, <2>1, <2>2, <2>3, <2>4, KindsAre
<1>2. \A e \in Built : e \in T
  <2> HIDE DEF T
  <2> QED
    BY <1>1, BuiltInduct
<1> QED
  BY <1>2

-----------------------------------------------------------------------------
(***************************************************************************)
(* A violation has a line, and what is handled is what is reported.        *)
(***************************************************************************)
LEMMA SingleIs ==
    ASSUME NEW A, NEW s \in Seq(A), Len(s) = 1
    PROVE  ToSet(s) = {s[1]} /\ s[1] \in A /\ s # <<>>
<1>1. DOMAIN s = {1} /\ s[1] \in A /\ s # <<>>
  OBVIOUS
<1> QED
  BY <1>1 DEF ToSet

LEMMA ViolationsAreReported == \A e \in Built : IsViolation[e] => DescriptionLines[e] # <<>>
<1> DEFINE T == {e \in Built : IsViolation[e] => DescriptionLines[e] # <<>>}
<1>1. ASSUME NEW e \in Built, \A d \in Parts(e) : d \in T, IsViolation[e] PROVE DescriptionLines[e] # <<>>
  <2>0. e \in Event /\ IsBuilt(e) /\ Parts(e) \subseteq Built /\ Parts(e) \subseteq Event
    BY BuiltIs
  <2>1. CASE e.kind = "simple"
    BY <2>0, <2>1, LinesAre
  <2>2. CASE e.kind \in {"any", "or"}
    BY <2>0, <2>2, LinesAre, SingleIs
  <2>3. ASSUME e.kind \in {"only", "and"}, NEW d \in ViolatingIn(e), DescriptionLines[d] # <<>>
        PROVE  DescriptionLines[e] # <<>>
    <3>1. d \in Event
      BY <2>0, <2>3, ViolatingAreParts
    <3>2. ToSet(DescriptionLines[d]) # {}
      BY <2>3, <3>1, LinesAre, NothingInside
    <3>3. ToSet(DescriptionLines[e]) = UNION {ToSet(DescriptionLines[x]) : x \in ViolatingIn(e)}
      BY <2>0, <2>3, LinesAre
    <3>4. ToSet(DescriptionLines[e]) # {}
      BY <2>3, <3>2, <3>3
    <3> QED
      BY <2>0, <3>4, LinesAre, NothingInside
  <2>4. CASE e.kind = "only"
    <3>1. e.violating \in Seq(Event) /\ e.violating # <<>> /\ ViolatingIn(e) = ToSet(e.violating)
      BY <1>1, <2>0, <2>4, EventsDecide, KindsAre DEF IsAttributes, OnlyViolated, ViolatingIn
    <3>2. PICK d \in ViolatingIn(e) : TRUE
      BY <3>1, NothingInside
    <3>3. d \in Event /\ d.kind = "simple"
      BY <2>0, <2>4, ViolatingAreParts DEF IsBuilt
    <3>4. DescriptionLines[d] # <<>>
      BY <3>3, LinesAre
    <3> QED
      BY <2>3, <2>4, <3>2, <3>4
  <2>5. CASE e.kind = "and"
    <3>1. e.evaluated \in Seq(Found(Event))
      BY <2>0, <2>5, KindsAre DEF IsJoin
    <3>2. PICK i \in DOMAIN e.evaluated : e.evaluated[i].violating # <<>>
      BY <1>1, <2>0, <2>5, EventsDecide DEF AndViolated, ContainViolation
    <3>3. e.evaluated[i] \in Found(Event)
      BY <3>1
    <3>4. PICK d \in ToSet(e.evaluated[i].violating) : TRUE
      BY <3>2, <3>3, FoundIs, NothingInside
    <3>5. IsViolation[d] /\ d \in ViolatingIn(e)
      BY <2>0, <2>5, <3>4 DEF IsBuilt, Sorted, ViolatingIn
    <3>6. DescriptionLines[d] # <<>>
      BY <1>1, <2>0, <2>5, <3>5, ViolatingAreParts
    <3> QED
      BY <2>3, <2>5, <3>5, <3>6
  <2>6. CASE e.kind = "filtered"
    BY <1>1, <2>0, <2>6, EventsDecide, LinesAre DEF FilteredViolated
  <2> QED
    BY <2>0, <2>1, <2>2, <2>4, <2>5, <2>6, KindsAre
<1>2. \A e \in Built : e \in T
  <2>1. \A e \in Built : (\A d \in Parts(e) : d \in T) => e \in T
    BY <1>1
  <2> HIDE DEF T
  <2> QED
    BY <2>1, BuiltInduct
<1> QED
  BY <1>2

Messages(calls) == {call.message : call \in ToSet(calls)}

LEMMA CallsAreReported == \A e \in Built : Messages(Handled[e]) = ToSet(DescriptionLines[e])
<1> DEFINE T == {e \in Built : Messages(Handled[e]) = ToSet(DescriptionLines[e])}
<1>1. ASSUME NEW objects, NEW message PROVE Messages(<<Call(objects, message)>>) = {message}
  <2>1. ToSet(<<Call(objects, message)>>) = {Call(objects, message)}
    BY DEF ToSet
  <2> QED
    BY <2>1 DEF Messages, Call
<1>2. ASSUME NEW e \in Built, \A d \in Parts(e) : d \in T
      PROVE  Messages(Handled[e]) = ToSet(DescriptionLines[e])
  <2>0. e \in Event /\ IsBuilt(e) /\ Parts(e) \subseteq Built /\ Parts(e) \subseteq Event
    BY BuiltIs
  <2>1. CASE e.kind = "simple"
    <3>1. Handled[e] = <<Call(<<e.object>>, e.message)>> /\ DescriptionLines[e] = <<e.message>>
      BY <2>0, <2>1, CallsAre, LinesAre
    <3>2. ToSet(<<e.message>>) = {e.message}
      BY DEF ToSet
    <3> QED
      BY <1>1, <3>1, <3>2
  <2>2. CASE e.kind \in {"any", "or"}
    <3>1. PICK objects : Handled[e] = <<Call(objects, DescriptionLines[e][1])>>
      BY <2>0, <2>2, CallsAre
    <3>2. ToSet(DescriptionLines[e]) = {DescriptionLines[e][1]}
      BY <2>0, <2>2, LinesAre, SingleIs
    <3> QED
      BY <1>1, <3>1, <3>2
  <2>3. CASE e.kind \in {"only", "and"}
    <3>1. \A d \in ViolatingIn(e) : Messages(Handled[d]) = ToSet(DescriptionLines[d])
      BY <1>2, <2>0, <2>3, ViolatingAreParts
    <3>2. ToSet(Handled[e]) = UNION {ToSet(Handled[d]) : d \in ViolatingIn(e)}
      BY <2>0, <2>3, CallsAre
    <3>3. Messages(Handled[e]) = UNION {Messages(Handled[d]) : d \in ViolatingIn(e)}
      BY <3>2 DEF Messages
    <3>4. ToSet(DescriptionLines[e]) = UNION {ToSet(DescriptionLines[d]) : d \in ViolatingIn(e)}
      BY <2>0, <2>3, LinesAre
    <3> QED
      BY <3>1, <3>3, <3>4
  <2>4. CASE e.kind = "filtered"
    <3>1. e.delegate \in Event /\ Messages(Handled[e.delegate]) = ToSet(DescriptionLines[e.delegate])
      BY <1>2, <2>0, <2>4, KindsAre
    <3>2. ToSet(Handled[e]) = {call \in ToSet(Handled[e.delegate]) : ~Ignored(call.message, e.patterns)}
      BY <2>0, <2>4, CallsAre
    <3>3. Messages(Handled[e]) = {line \in Messages(Handled[e.delegate]) : ~Ignored(line, e.patterns)}
      BY <3>2 DEF Messages
    <3>4. DescriptionLines[e] = LinesNotIgnored(DescriptionLines[e.delegate], e.patterns)
      BY <2>0, <2>4, LinesAre DEF IsBuilt
    <3>5. ToSet(DescriptionLines[e]) = {line \in ToSet(DescriptionLines[e.delegate]) : ~Ignored(line, e.patterns)}
      BY <3>1, <3>4, LinesAre, LinesNotIgnoredAre
    <3> QED
      BY <3>1, <3>3, <3>5
  <2> QED
    BY <2>0, <2>1, <2>2, <2>3, <2>4, KindsAre
<1>3. \A e \in Built : e \in T
  <2>1. \A e \in Built : (\A d \in Parts(e) : d \in T) => e \in T
    BY <1>2
  <2> HIDE DEF T
  <2> QED
    BY <2>1, BuiltInduct
<1> QED
  BY <1>3

-----------------------------------------------------------------------------
(***************************************************************************)
(* Inverting twice.                                                        *)
(***************************************************************************)
LEMMA OrLinesAre ==
    ASSUME NEW e \in Event, NEW x \in Event, e.kind = "or", x.kind = "or",
           UNION {ToSet(DescriptionLines[d]) : d \in ViolatingIn(x)} =
             UNION {ToSet(DescriptionLines[d]) : d \in ViolatingIn(e)}
    PROVE  DescriptionLines[x] = DescriptionLines[e]
<1> DEFINE linesIn(y) == UNION {ToSet(DescriptionLines[d]) : d \in ViolatingIn(y)}
<1>1. ASSUME NEW y \in Event, y.kind = "or"
      PROVE  DescriptionLines[y] = <<Joined(AndInfix, SetToSeq(linesIn(y)))>>
  <2> DEFINE all == Collected(DescriptionLines, y.evaluated)
             violating == UNION {ToSet(y.evaluated[i].violating) : i \in DOMAIN y.evaluated}
  <2>1. y.evaluated \in Seq(Found(Event)) /\ ViolatingIn(y) = violating
    BY <1>1, KindsAre DEF IsJoin, ViolatingIn
  <2>2. \A d \in violating : DescriptionLines[d] \in Seq(Text)
    BY <1>1, <2>1, ViolatingAreParts, PartsAreLower, DescriptionLinesAre
  <2>3. ToSet(all) = UNION {ToSet(DescriptionLines[d]) : d \in violating}
    BY <2>1, <2>2, CollectedIs
  <2>4. UniqueLinesOfViolations(DescriptionLines, y.evaluated) = Unique(all)
    BY DEF UniqueLinesOfViolations, LinesOf, Collected
  <2>5. DescriptionLines[y] = <<Joined(AndInfix, Unique(all))>>
    <3>1. DescriptionLines[y] = Described(DescriptionLines, y)
      BY DescriptionLinesAre
    <3> QED
      BY <1>1, <2>4, <3>1 DEF Described, OrLines
  <2> QED
    BY <2>1, <2>3, <2>5 DEF Unique
<1> QED
  BY <1>1

LEMMA ViolatingTwice ==
    ASSUME NEW e \in Built, e.kind \in {"and", "or"}, NEW E \in Seq(Found(Event)), DOMAIN E = DOMAIN e.evaluated,
           \A i \in DOMAIN E : Sorted(E[i]) /\ FoundIn(E[i]) = {Invert[Invert[d]] : d \in FoundIn(e.evaluated[i])},
           \A d \in Parts(e) : IsViolation[Invert[Invert[d]]] = IsViolation[d]
    PROVE  \A i \in DOMAIN E : ToSet(E[i].violating) = {Invert[Invert[d]] : d \in ToSet(e.evaluated[i].violating)}
<1> SUFFICES ASSUME NEW i \in DOMAIN E
             PROVE  ToSet(E[i].violating) = {Invert[Invert[d]] : d \in ToSet(e.evaluated[i].violating)}
  OBVIOUS
<1> DEFINE found == e.evaluated[i]
<1>1. Sorted(found) /\ FoundIn(found) \subseteq Parts(e)
  BY BuiltIs DEF IsBuilt, Parts
<1>2. FoundIn(found) = ToSet(found.allowed) \cup ToSet(found.violating)
      /\ FoundIn(E[i]) = ToSet(E[i].allowed) \cup ToSet(E[i].violating)
  BY DEF FoundIn
<1>3. \A d \in FoundIn(found) : d \in ToSet(found.violating) <=> IsViolation[d]
  BY <1>1, <1>2 DEF Sorted
<1>4. \A x \in FoundIn(E[i]) : x \in ToSet(E[i].violating) <=> IsViolation[x]
  BY <1>2 DEF Sorted
<1>5. FoundIn(E[i]) = {Invert[Invert[d]] : d \in FoundIn(found)}
  OBVIOUS
<1>6. \A d \in FoundIn(found) : IsViolation[Invert[Invert[d]]] = IsViolation[d]
  BY <1>1
<1>7. ToSet(found.violating) \subseteq FoundIn(found) /\ ToSet(E[i].violating) \subseteq FoundIn(E[i])
  BY <1>2
<1> HIDE DEF found
<1>8. ToSet(E[i].violating) = {Invert[Invert[d]] : d \in ToSet(found.violating)}
  BY ONLY <1>3, <1>4, <1>5, <1>6, <1>7
<1> QED
  BY <1>8 DEF found

LEMMA TwiceIs == \A e \in Built : NegatedTwice(e)
<1> DEFINE twice(e) == Invert[Invert[e]]
           Same(e) == /\ IsViolation[twice(e)] = IsViolation[e]
                      /\ ToSet(DescriptionLines[twice(e)]) = ToSet(DescriptionLines[e])
                      /\ ToSet(Handled[twice(e)]) = ToSet(Handled[e])
           T == {e \in Built : Same(e)}
<1>1. ASSUME NEW e \in Built, \A d \in Parts(e) : d \in T PROVE Same(e)
  <2>0. /\ e \in Event /\ IsBuilt(e) /\ Parts(e) \subseteq Event
        /\ Invert[e] \in Event /\ twice(e) \in Event
        /\ \A d \in Parts(e) : twice(d) \in Event
    BY BuiltIs, InvertIs
  <2>1. CASE e.kind = "simple"
    <3> DEFINE x == SimpleEvent(e.object, ~e.satisfied, e.message)
    <3>1. Invert[e] = x
      BY <2>0, <2>1, InvertOf
    <3>2. x.kind = "simple" /\ x.object = e.object /\ x.satisfied = ~e.satisfied /\ x.message = e.message
      BY DEF SimpleEvent
    <3> HIDE DEF x
    <3>3. twice(e) = SimpleEvent(x.object, ~x.satisfied, x.message)
      BY <2>0, <3>1, <3>2, InvertOf
    <3>4. e.satisfied \in BOOLEAN /\ e = SimpleEvent(e.object, e.satisfied, e.message)
      BY <2>0, <2>1, KindsAre DEF IsSimple
    <3>5. (~x.satisfied) = e.satisfied
      BY <3>2, <3>4
    <3>6. twice(e) = e
      BY <3>2, <3>3, <3>4, <3>5
    <3> QED
      BY <3>6
  <2>2. CASE e.kind \in {"any", "only"}
    <3>1. PICK kind \in {"any", "only"} : /\ Invert[e] = AttributesEvent(kind, e.objects, e.violating, e.allowed)
                                          /\ kind # e.kind
      BY <2>0, <2>2, InvertOf
    <3>2. /\ Invert[e].kind = kind /\ Invert[e].objects = e.objects
          /\ Invert[e].violating = e.allowed /\ Invert[e].allowed = e.violating
      BY <3>1 DEF AttributesEvent
    <3>3. twice(e) = AttributesEvent(e.kind, Invert[e].objects, Invert[e].violating, Invert[e].allowed)
      <4> DEFINE x == Invert[e]
      <4> HIDE DEF x
      <4>1. x \in Event /\ x.kind = kind
        BY <2>0, <3>2 DEF x
      <4>2. /\ x.kind = "any" => Invert[x] = AttributesEvent("only", x.objects, x.violating, x.allowed)
            /\ x.kind = "only" => Invert[x] = AttributesEvent("any", x.objects, x.violating, x.allowed)
        BY <4>1, InvertOf
      <4>3. Invert[x] = AttributesEvent(e.kind, x.objects, x.violating, x.allowed)
        BY <2>2, <3>1, <4>1, <4>2
      <4> QED
        BY <4>3 DEF x
    <3>4. e = AttributesEvent(e.kind, e.objects, e.allowed, e.violating)
      BY <2>0, <2>2, KindsAre DEF IsAttributes
    <3>5. twice(e) = e
      BY <3>2, <3>3, <3>4
    <3> QED
      BY <3>5
  <2>3. CASE e.kind \in {"and", "or"}
    <3> DEFINE x == Invert[e]
               y == Invert[x]
               E == InvertAll(Invert, e.evaluated)
               F == InvertAll(Invert, E)
    <3>1. PICK kind \in {"and", "or"} : x = JoinEvent(kind, e.object, E) /\ kind # e.kind
      BY <2>0, <2>3, InvertOf
    <3>2. x.kind = kind /\ x.object = e.object /\ x.evaluated = E /\ x \in Event
      BY <2>0, <3>1 DEF JoinEvent
    <3>3. /\ DOMAIN E = DOMAIN e.evaluated
          /\ \A i \in DOMAIN E : FoundIn(E[i]) = {Invert[d] : d \in FoundIn(e.evaluated[i])}
      BY <2>0, <2>3, InvertAllOf
    <3> HIDE DEF x, E
    <3>4. /\ F \in Seq(Found(Event)) /\ DOMAIN F = DOMAIN E
          /\ \A i \in DOMAIN E : Sorted(F[i]) /\ FoundIn(F[i]) = {Invert[d] : d \in FoundIn(E[i])}
      BY <3>2, InvertAllOf
    <3>5. y \in Event /\ y = JoinEvent(e.kind, e.object, F)
      <4>1. /\ kind = "and" => y = JoinEvent("or", x.object, InvertAll(Invert, x.evaluated))
            /\ kind = "or" => y = JoinEvent("and", x.object, InvertAll(Invert, x.evaluated))
            /\ y \in Event
        BY <3>2, InvertOf
      <4> QED
        BY <2>3, <3>1, <3>2, <4>1
    <3> HIDE DEF F, y
    <3>6. y.kind = e.kind /\ y.object = e.object /\ y.evaluated = F
      BY <3>5 DEF JoinEvent
    <3>7. \A i \in DOMAIN F : Sorted(F[i]) /\ FoundIn(F[i]) = {twice(d) : d \in FoundIn(e.evaluated[i])}
      <4> SUFFICES ASSUME NEW i \in DOMAIN F
                   PROVE  Sorted(F[i]) /\ FoundIn(F[i]) = {twice(d) : d \in FoundIn(e.evaluated[i])}
        OBVIOUS
      <4> DEFINE S == FoundIn(e.evaluated[i])
                 U == FoundIn(E[i])
      <4>1. U = {Invert[d] : d \in S}
        BY <3>3, <3>4
      <4>2. Sorted(F[i]) /\ FoundIn(F[i]) = {Invert[d] : d \in U}
        BY <3>4
      <4> HIDE DEF S, U
      <4>3. {Invert[d] : d \in U} = {twice(d) : d \in S}
        BY <4>1
      <4> QED
        BY <4>2, <4>3 DEF S
    <3>8. \A i \in DOMAIN F : ToSet(F[i].violating) = {twice(d) : d \in ToSet(e.evaluated[i].violating)}
      <4>1. \A d \in Parts(e) : IsViolation[twice(d)] = IsViolation[d]
        BY <1>1
      <4> QED
        BY <2>3, <3>3, <3>4, <3>7, <4>1, ViolatingTwice
    <3>9. DOMAIN F = DOMAIN e.evaluated
      BY <3>3, <3>4
    <3>10. ViolatingIn(y) = {twice(d) : d \in ViolatingIn(e)}
      <4>1. ViolatingIn(y) = UNION {ToSet(F[i].violating) : i \in DOMAIN e.evaluated}
        BY <2>3, <3>6, <3>9 DEF ViolatingIn
      <4>2. ViolatingIn(e) = UNION {ToSet(e.evaluated[i].violating) : i \in DOMAIN e.evaluated}
        BY <2>3 DEF ViolatingIn
      <4>3. UNION {ToSet(F[i].violating) : i \in DOMAIN e.evaluated} =
              UNION {{twice(d) : d \in ToSet(e.evaluated[i].violating)} : i \in DOMAIN e.evaluated}
        BY <3>8, <3>9
      <4>4. UNION {{twice(d) : d \in ToSet(e.evaluated[i].violating)} : i \in DOMAIN e.evaluated} =
              {twice(d) : d \in UNION {ToSet(e.evaluated[i].violating) : i \in DOMAIN e.evaluated}}
        BY ONLY TRUE
      <4> QED
        BY <4>1, <4>2, <4>3, <4>4
    <3>11. IsViolation[y] = IsViolation[e]
      <4>1. ASSUME NEW i \in DOMAIN F PROVE (F[i].violating = <<>>) <=> (e.evaluated[i].violating = <<>>)
        <5>1. F[i] \in Found(Event) /\ e.evaluated[i] \in Found(Event)
          BY <2>0, <2>3, <3>4, <3>9, KindsAre DEF IsJoin
        <5>2. F[i].violating \in Seq(Event) /\ e.evaluated[i].violating \in Seq(Event)
          BY <5>1, FoundIs
        <5>3. (ToSet(F[i].violating) = {}) <=> (ToSet(e.evaluated[i].violating) = {})
          BY <3>8
        <5> QED
          BY <5>2, <5>3, NothingInside
      <4>2. AndViolated(y) = AndViolated(e) /\ OrViolated(y) = OrViolated(e)
        BY <3>6, <3>9, <4>1 DEF AndViolated, OrViolated, ContainViolation
      <4> QED
        BY <2>0, <2>3, <3>5, <3>6, <4>2, EventsDecide
    <3>12. /\ UNION {ToSet(DescriptionLines[d]) : d \in ViolatingIn(y)} =
                UNION {ToSet(DescriptionLines[d]) : d \in ViolatingIn(e)}
           /\ UNION {ToSet(Handled[d]) : d \in ViolatingIn(y)} = UNION {ToSet(Handled[d]) : d \in ViolatingIn(e)}
      <4>1. \A d \in ViolatingIn(e) : /\ ToSet(DescriptionLines[twice(d)]) = ToSet(DescriptionLines[d])
                                      /\ ToSet(Handled[twice(d)]) = ToSet(Handled[d])
        BY <1>1, <2>0, <2>3, ViolatingAreParts
      <4> QED
        BY <3>10, <4>1
    <3>13. CASE e.kind = "and"
      BY <2>0, <3>5, <3>6, <3>11, <3>12, <3>13, LinesAre, CallsAre DEF y, x
    <3>14. CASE e.kind = "or"
      <4>1. DescriptionLines[y] = DescriptionLines[e]
        BY <2>0, <3>5, <3>6, <3>12, <3>14, OrLinesAre
      <4>2. Handled[y] = Handled[e]
        BY <2>0, <3>5, <3>6, <3>14, <4>1, CallsAre
      <4> QED
        BY <3>11, <4>1, <4>2 DEF y, x
    <3> QED
      BY <2>3, <3>13, <3>14
  <2>4. CASE e.kind = "filtered"
    <3> DEFINE d == e.delegate
               x == Invert[e]
               y == Invert[x]
    <3>1. d \in Parts(e) /\ d \in Event
      BY <2>0, <2>4, KindsAre
    <3>2. x = FilteredEvent(Invert[d], e.patterns) /\ x \in Event
      BY <2>0, <2>4, InvertOf
    <3>3. x.kind = "filtered" /\ x.delegate = Invert[d] /\ x.patterns = e.patterns
      BY <3>2 DEF FilteredEvent
    <3> HIDE DEF x
    <3>4. y = FilteredEvent(twice(d), e.patterns) /\ y \in Event
      BY <3>2, <3>3, InvertOf
    <3> HIDE DEF y
    <3>5. /\ y.kind = "filtered" /\ y.delegate = twice(d) /\ y.patterns = e.patterns
          /\ y.lines = LinesNotIgnored(DescriptionLines[twice(d)], e.patterns)
      BY <3>4 DEF FilteredEvent
    <3>6. e.lines = LinesNotIgnored(DescriptionLines[d], e.patterns)
      BY <2>0, <2>4 DEF IsBuilt
    <3>7. Same(d) /\ twice(d) \in Event
      BY <1>1, <2>0, <3>1
    <3>8. /\ DescriptionLines[d] \in Seq(Text) /\ DescriptionLines[twice(d)] \in Seq(Text)
      BY <3>1, <3>7, LinesAre
    <3>9. y.lines \in Seq(Text) /\ e.lines \in Seq(Text) /\ ToSet(y.lines) = ToSet(e.lines)
      <4>1. \A t \in {d, twice(d)} :
               /\ LinesNotIgnored(DescriptionLines[t], e.patterns) \in Seq(Text)
               /\ ToSet(LinesNotIgnored(DescriptionLines[t], e.patterns)) =
                    {line \in ToSet(DescriptionLines[t]) : ~Ignored(line, e.patterns)}
        BY <3>8, LinesNotIgnoredAre
      <4> QED
        BY <3>5, <3>6, <3>7, <4>1
    <3>10. DescriptionLines[y] = y.lines /\ DescriptionLines[e] = e.lines
      BY <2>0, <2>4, <3>4, <3>5, LinesAre
    <3>11. IsViolation[y] = IsViolation[e]
      <4>1. (y.lines = <<>>) <=> (e.lines = <<>>)
        BY <3>9, NothingInside
      <4>2. /\ IsViolation[y] = (IsViolation[twice(d)] /\ FilteredViolated(y))
            /\ IsViolation[e] = (IsViolation[d] /\ FilteredViolated(e))
        BY <2>0, <2>4, <3>4, <3>5, EventsDecide
      <4> QED
        BY <3>7, <4>1, <4>2 DEF FilteredViolated
    <3>12. ToSet(Handled[y]) = ToSet(Handled[e])
      <4>1. /\ ToSet(Handled[y]) = {call \in ToSet(Handled[twice(d)]) : ~Ignored(call.message, e.patterns)}
            /\ ToSet(Handled[e]) = {call \in ToSet(Handled[d]) : ~Ignored(call.message, e.patterns)}
        BY <2>0, <2>4, <3>4, <3>5, CallsAre
      <4> QED
        BY <3>7, <4>1
    <3> QED
      BY <3>9, <3>10, <3>11, <3>12 DEF y, x
  <2> QED
    BY <2>0, <2>1, <2>2, <2>3, <2>4, KindsAre
<1>2. \A e \in Built : e \in T
  <2>1. \A e \in Built : (\A d \in Parts(e) : d \in T) => e \in T
    <3> HIDE DEF Same
    <3> QED
      BY <1>1
  <2> HIDE DEF T
  <2> QED
    BY <2>1, BuiltInduct
<1> QED
  BY <1>2 DEF NegatedTwice

-----------------------------------------------------------------------------
(***************************************************************************)
(* Conditions by their levels.                                             *)
(***************************************************************************)
LeafTerms == [kind : {"leaf"}, leaf : Leaves]

Combining(terms) ==
    [kind : {"never"}, of : terms] \cup [kind : {"join"}, isAnd : BOOLEAN, conditions : Seq(terms)]

LEMMA TermsIs ==
    /\ Terms[0] = LeafTerms
    /\ \A n \in 1 .. Nesting : Terms[n] = LeafTerms \cup Combining(Terms[n - 1])
<1> DEFINE Level(f, n) == [kind : {"leaf"}, leaf : Leaves]
                            \cup (IF n = 0 THEN {}
                                  ELSE [kind : {"never"}, of : f[n - 1]]
                                           \cup [kind : {"join"}, isAnd : BOOLEAN, conditions : Seq(f[n - 1])])
           Solution(f, M) == f = [n \in 0 .. M |-> Level(f, n)]
           S == {M \in Nat : \E f : Solution(f, M)}
<1>0. \A f, g, n : (n # 0 => f[n - 1] = g[n - 1]) => Level(f, n) = Level(g, n)
  OBVIOUS
<1>1. 0 \in S
  <2> DEFINE f == [n \in 0 .. 0 |-> LeafTerms]
  <2>1. \A n \in 0 .. 0 : Level(f, n) = LeafTerms
    <3>1. \A n \in 0 .. 0 : n = 0
      OBVIOUS
    <3>2. \A g : Level(g, 0) = LeafTerms
      BY DEF LeafTerms
    <3> HIDE DEF f, Level
    <3> QED
      BY <3>1, <3>2
  <2>2. Solution(f, 0)
    BY <2>1
  <2> QED
    BY <2>2
<1> HIDE DEF Level
<1>2. ASSUME NEW M \in 1 .. Nesting, M - 1 \in S PROVE M \in S
  <2>1. PICK f : Solution(f, M - 1)
    BY <1>2
  <2> DEFINE g == [n \in 0 .. M |-> IF n = M THEN Level(f, M) ELSE f[n]]
  <2>2. M \in Nat /\ M # 0 /\ M \in 0 .. M /\ \A n \in 0 .. M : n = M \/ n \in 0 .. M - 1
    BY NestingAssumption
  <2>3. DOMAIN g = 0 .. M /\ g[M] = Level(f, M) /\ \A n \in 0 .. M - 1 : g[n] = f[n]
    BY <2>2
  <2>4. \A n \in 0 .. M - 1 : f[n] = Level(f, n)
    BY <2>1
  <2>5. \A n \in 0 .. M : n # 0 => n - 1 \in 0 .. M - 1
    BY <2>2
  <2>6. g = [n \in 0 .. M |-> g[n]]
    OBVIOUS
  <2> HIDE DEF g
  <2>7. \A n \in 0 .. M : Level(g, n) = Level(f, n)
    BY <1>0, <2>3, <2>5
  <2>8. \A n \in 0 .. M : g[n] = Level(g, n)
    BY <2>2, <2>3, <2>4, <2>7
  <2>9. Solution(g, M)
    BY <2>6, <2>8
  <2> QED
    BY <2>2, <2>9
<1>3. Nesting \in S
  <2>1. Nesting \in Nat /\ Nesting \in 0 .. Nesting
    BY NestingAssumption
  <2> HIDE DEF S
  <2> QED
    BY <1>1, <1>2, <2>1, OneAfterTheOther
<1>4. PICK f : Solution(f, Nesting)
  BY <1>3
<1>5. Terms = CHOOSE g : Solution(g, Nesting)
  BY DEF Terms, Level
<1>6. Solution(Terms, Nesting)
  <2> HIDE DEF Solution
  <2> QED
    BY <1>4, <1>5
<1>7. \A n \in 0 .. Nesting : Terms[n] = Level(Terms, n)
  BY <1>6
<1>8. 0 \in 0 .. Nesting /\ \A n \in 1 .. Nesting : n \in 0 .. Nesting /\ n # 0
  BY NestingAssumption
<1> QED
  BY <1>7, <1>8 DEF Level, LeafTerms, Combining

LEMMA TermsAre ==
    ASSUME NEW n \in 0 .. Nesting, NEW c \in Terms[n]
    PROVE  /\ c.kind \in {"leaf", "never", "join"}
           /\ c.kind = "leaf" => c.leaf \in Leaves /\ c = Leaf(c.leaf)
           /\ c.kind # "leaf" => n \in 1 .. Nesting
           /\ c.kind = "never" => c.of \in Terms[n - 1]
           /\ c.kind = "join" => c.isAnd \in BOOLEAN /\ c.conditions \in Seq(Terms[n - 1])
<1>1. ASSUME c \in LeafTerms PROVE c.kind = "leaf" /\ c.leaf \in Leaves /\ c = Leaf(c.leaf)
  BY <1>1 DEF LeafTerms, Leaf
<1>2. CASE n = 0
  BY <1>1, <1>2, TermsIs
<1>3. CASE n # 0
  <2> DEFINE A == Terms[n - 1]
  <2>1. n \in 1 .. Nesting /\ (c \in LeafTerms \/ c \in Combining(A))
    BY <1>3, NestingAssumption, TermsIs
  <2> HIDE DEF A
  <2>2. CASE c \in LeafTerms
    BY <1>1, <2>1, <2>2
  <2>3. CASE c \in [kind : {"never"}, of : A]
    BY <2>1, <2>3 DEF A
  <2>4. CASE c \in [kind : {"join"}, isAnd : BOOLEAN, conditions : Seq(A)]
    BY <2>1, <2>4 DEF A
  <2> QED
    BY <2>1, <2>2, <2>3, <2>4 DEF Combining
<1> QED
  BY <1>2, <1>3

LEMMA TermsGrow ==
    /\ \A n \in 1 .. Nesting : Terms[n - 1] \subseteq Terms[n]
    /\ \A n \in 0 .. Nesting : Terms[n] \subseteq Condition
<1> DEFINE T == {k \in 0 .. Nesting : k > 0 => Terms[k - 1] \subseteq Terms[k]}
<1>1. 0 \in T
  BY NestingAssumption
<1>2. ASSUME NEW k \in 1 .. Nesting, k - 1 \in T PROVE k \in T
  <2>1. k \in 0 .. Nesting /\ k > 0 /\ k - 1 \in 0 .. Nesting
    BY NestingAssumption
  <2>2. Terms[k] = LeafTerms \cup Combining(Terms[k - 1])
    BY TermsIs
  <2>3. CASE k = 1
    BY <2>1, <2>2, <2>3, TermsIs
  <2>4. CASE k # 1
    <3>1. k - 1 \in 1 .. Nesting /\ k - 1 > 0
      BY <2>1, <2>4, NestingAssumption
    <3>2. Terms[k - 1] = LeafTerms \cup Combining(Terms[(k - 1) - 1])
      BY <3>1, TermsIs
    <3>3. Terms[(k - 1) - 1] \subseteq Terms[k - 1]
      BY <1>2, <3>1
    <3>4. \A A, B : A \subseteq B => Combining(A) \subseteq Combining(B)
      <4> SUFFICES ASSUME NEW A, NEW B, A \subseteq B PROVE Combining(A) \subseteq Combining(B)
        OBVIOUS
      <4>1. Seq(A) \subseteq Seq(B)
        OBVIOUS
      <4> QED
        BY <4>1 DEF Combining
    <3> QED
      BY <2>1, <2>2, <3>2, <3>3, <3>4
  <2> QED
    BY <2>3, <2>4
<1>3. \A k \in 0 .. Nesting : k \in T
  <2> HIDE DEF T
  <2> QED
    BY <1>1, <1>2, NestingAssumption, OneAfterTheOther
<1>4. \A n \in 1 .. Nesting : Terms[n - 1] \subseteq Terms[n]
  BY <1>3, NestingAssumption
<1> DEFINE U == {j \in 0 .. Nesting : Terms[Nesting - j] \subseteq Condition}
<1>5. 0 \in U
  BY NestingAssumption DEF Condition
<1>6. ASSUME NEW j \in 1 .. Nesting, j - 1 \in U PROVE j \in U
  <2>1. Nesting - (j - 1) \in 1 .. Nesting /\ (Nesting - (j - 1)) - 1 = Nesting - j /\ j \in 0 .. Nesting
    BY NestingAssumption
  <2>2. Terms[Nesting - j] \subseteq Terms[Nesting - (j - 1)]
    BY <1>4, <2>1
  <2> QED
    BY <1>6, <2>1, <2>2
<1>7. \A j \in 0 .. Nesting : j \in U
  <2> HIDE DEF U
  <2> QED
    BY <1>5, <1>6, NestingAssumption, OneAfterTheOther
<1>8. ASSUME NEW n \in 0 .. Nesting PROVE Terms[n] \subseteq Condition
  <2>1. Nesting - n \in 0 .. Nesting /\ Nesting - (Nesting - n) = n
    BY NestingAssumption
  <2> QED
    BY <1>7, <2>1
<1> QED
  BY <1>4, <1>8

LEMMA TermsUpTo ==
    ASSUME NEW n \in 0 .. Nesting, NEW m \in n .. Nesting
    PROVE  Terms[n] \subseteq Terms[m]
<1> DEFINE U == {j \in 0 .. Nesting - n : Terms[n] \subseteq Terms[n + j]}
<1>1. Nesting \in Nat /\ Nesting - n \in Nat /\ n + 0 = n /\ 0 \in 0 .. Nesting - n
  BY NestingAssumption
<1>2. 0 \in U
  BY <1>1
<1>3. ASSUME NEW j \in 1 .. Nesting - n, j - 1 \in U PROVE j \in U
  <2>1. n + j \in 1 .. Nesting /\ (n + j) - 1 = n + (j - 1) /\ j \in 0 .. Nesting - n
    BY <1>1
  <2>2. Terms[(n + j) - 1] \subseteq Terms[n + j]
    BY <2>1, TermsGrow
  <2> QED
    BY <1>3, <2>1, <2>2
<1>4. \A j \in 0 .. Nesting - n : j \in U
  <2> HIDE DEF U
  <2> QED
    BY <1>1, <1>2, <1>3, OneAfterTheOther
<1>5. m - n \in 0 .. Nesting - n /\ n + (m - n) = m
  BY <1>1
<1> QED
  BY <1>4, <1>5

(***************************************************************************)
(* check and finish of a condition, from those of the conditions in it.    *)
(***************************************************************************)
SubTerms(c) ==
    IF c.kind = "never" THEN {c.of} ELSE IF c.kind = "join" THEN ToSet(c.conditions) ELSE {}

LEMMA SubTermsAre ==
    ASSUME NEW n \in 0 .. Nesting, NEW c \in Terms[n]
    PROVE  /\ n = 0 => SubTerms(c) = {}
           /\ n \in 1 .. Nesting => SubTerms(c) \subseteq Terms[n - 1]
<1>1. c.kind = "join" => ToSet(c.conditions) \subseteq Terms[n - 1]
  BY TermsAre, SetOfSeq
<1>2. n = 0 => ~(n \in 1 .. Nesting)
  OBVIOUS
<1> QED
  BY <1>1, <1>2, TermsAre DEF SubTerms

LEMMA CheckedByAgrees ==
    ASSUME NEW c \in Condition, NEW o, NEW f, NEW g, \A x \in SubTerms(c) : f[x] = g[x]
    PROVE  CheckedBy(f, c, o) = CheckedBy(g, c, o)
<1>0. c.kind \in {"leaf", "never", "join"}
  <2>1. Nesting \in 0 .. Nesting
    BY NestingAssumption
  <2> QED
    BY <2>1, TermsAre DEF Condition
<1>1. CASE c.kind = "leaf"
  BY <1>1 DEF CheckedBy
<1>2. CASE c.kind = "never"
  <2>1. f[c.of] = g[c.of]
    BY <1>2 DEF SubTerms
  <2> QED
    BY <1>2, <2>1 DEF CheckedBy
<1>3. CASE c.kind = "join"
  <2>1. Each(f, c.conditions) = Each(g, c.conditions)
    BY <1>3, EachAgrees DEF SubTerms
  <2> QED
    BY <1>3, <2>1 DEF CheckedBy
<1> QED
  BY <1>0, <1>1, <1>2, <1>3

LEMMA CheckIs ==
    ASSUME NEW o
    PROVE  \E h : \A c \in Condition : Check(c, o) = h[c] /\ h[c] = CheckedBy(h, c, o)
<1> DEFINE Good(n, f) == \A c \in Terms[n] : f[c] = CheckedBy(f, c, o)
           S == {n \in 0 .. Nesting : \E f : Good(n, f)}
<1>1. 0 \in S
  <2> DEFINE f == [c \in Condition |-> CheckedBy(<<>>, c, o)]
  <2>1. 0 \in 0 .. Nesting
    BY NestingAssumption
  <2>2. ASSUME NEW c \in Terms[0] PROVE f[c] = CheckedBy(f, c, o)
    <3>1. c \in Condition /\ SubTerms(c) = {}
      BY <2>1, TermsGrow, SubTermsAre
    <3>2. f[c] = CheckedBy(<<>>, c, o)
      BY <3>1
    <3> HIDE DEF f
    <3> QED
      BY <3>1, <3>2, CheckedByAgrees
  <2> QED
    BY <2>1, <2>2
<1>2. ASSUME NEW n \in 1 .. Nesting, n - 1 \in S PROVE n \in S
  <2>1. PICK f : Good(n - 1, f)
    BY <1>2
  <2> DEFINE g == [c \in Condition |-> CheckedBy(f, c, o)]
  <2>2. n \in 0 .. Nesting /\ n - 1 \in 0 .. Nesting
    BY NestingAssumption
  <2>3. Terms[n] \subseteq Condition /\ Terms[n - 1] \subseteq Condition
    BY <2>2, TermsGrow
  <2>4. \A c \in Condition : g[c] = CheckedBy(f, c, o)
    OBVIOUS
  <2> HIDE DEF g
  <2>5. \A c \in Terms[n - 1] : g[c] = f[c]
    BY <2>1, <2>3, <2>4
  <2>6. ASSUME NEW c \in Terms[n] PROVE g[c] = CheckedBy(g, c, o)
    <3>1. \A x \in SubTerms(c) : g[x] = f[x]
      BY <2>2, <2>5, SubTermsAre
    <3>2. CheckedBy(g, c, o) = CheckedBy(f, c, o)
      BY <2>3, <3>1, CheckedByAgrees
    <3> QED
      BY <2>3, <2>4, <3>2
  <2> QED
    BY <2>2, <2>6
<1>3. Nesting \in S
  <2>1. Nesting \in Nat /\ Nesting \in 0 .. Nesting
    BY NestingAssumption
  <2> HIDE DEF S
  <2> QED
    BY <1>1, <1>2, <2>1, OneAfterTheOther
<1>4. PICK f : \A c \in Condition : f[c] = CheckedBy(f, c, o)
  BY <1>3 DEF Condition
<1> DEFINE Solution(g) == g = [c \in Condition |-> CheckedBy(g, c, o)]
           h == [c \in Condition |-> f[c]]
<1>5. Solution(h)
  <2>1. \A c \in Condition : h[c] = f[c]
    OBVIOUS
  <2>2. h = [c \in Condition |-> h[c]]
    OBVIOUS
  <2> HIDE DEF h
  <2>3. ASSUME NEW c \in Condition PROVE h[c] = CheckedBy(h, c, o)
    <3>1. \A x \in SubTerms(c) : x \in Condition
      <4>1. Nesting \in 0 .. Nesting /\ (Nesting # 0 => Nesting \in 1 .. Nesting /\ Nesting - 1 \in 0 .. Nesting)
        BY NestingAssumption
      <4> QED
        BY <4>1, SubTermsAre, TermsGrow DEF Condition
    <3>2. CheckedBy(h, c, o) = CheckedBy(f, c, o)
      BY <2>1, <3>1, CheckedByAgrees
    <3> QED
      BY <1>4, <2>1, <3>2
  <2> QED
    BY <2>2, <2>3
<1> DEFINE k == CHOOSE g : Solution(g)
<1>6. \A c : Check(c, o) = k[c]
  BY DEF Check
<1> HIDE DEF Solution, h
<1>7. Solution(k)
  BY <1>5
<1> HIDE DEF k
<1>8. \A c \in Condition : k[c] = CheckedBy(k, c, o)
  BY <1>7 DEF Solution
<1> QED
  BY <1>6, <1>8


LEMMA FinishedByAgrees ==
    ASSUME NEW c \in Condition, NEW o, NEW f, NEW g, \A x \in SubTerms(c) : f[x] = g[x]
    PROVE  FinishedBy(f, c, o) = FinishedBy(g, c, o)
<1>0. c.kind \in {"leaf", "never", "join"}
  <2>1. Nesting \in 0 .. Nesting
    BY NestingAssumption
  <2> QED
    BY <2>1, TermsAre DEF Condition
<1>1. CASE c.kind = "leaf"
  BY <1>1 DEF FinishedBy
<1>2. CASE c.kind = "never"
  <2>1. f[c.of] = g[c.of]
    BY <1>2 DEF SubTerms
  <2> QED
    BY <1>2, <2>1 DEF FinishedBy
<1>3. CASE c.kind = "join"
  <2>1. Each(f, c.conditions) = Each(g, c.conditions)
    BY <1>3, EachAgrees DEF SubTerms
  <2> QED
    BY <1>3, <2>1 DEF FinishedBy
<1> QED
  BY <1>0, <1>1, <1>2, <1>3

LEMMA FinishAllIs ==
    ASSUME NEW o
    PROVE  \E h : \A c \in Condition : FinishAll(c, o) = h[c] /\ h[c] = FinishedBy(h, c, o)
<1> DEFINE Good(n, f) == \A c \in Terms[n] : f[c] = FinishedBy(f, c, o)
           S == {n \in 0 .. Nesting : \E f : Good(n, f)}
<1>1. 0 \in S
  <2> DEFINE f == [c \in Condition |-> FinishedBy(<<>>, c, o)]
  <2>1. 0 \in 0 .. Nesting
    BY NestingAssumption
  <2>2. ASSUME NEW c \in Terms[0] PROVE f[c] = FinishedBy(f, c, o)
    <3>1. c \in Condition /\ SubTerms(c) = {}
      BY <2>1, TermsGrow, SubTermsAre
    <3>2. f[c] = FinishedBy(<<>>, c, o)
      BY <3>1
    <3> HIDE DEF f
    <3> QED
      BY <3>1, <3>2, FinishedByAgrees
  <2> QED
    BY <2>1, <2>2
<1>2. ASSUME NEW n \in 1 .. Nesting, n - 1 \in S PROVE n \in S
  <2>1. PICK f : Good(n - 1, f)
    BY <1>2
  <2> DEFINE g == [c \in Condition |-> FinishedBy(f, c, o)]
  <2>2. n \in 0 .. Nesting /\ n - 1 \in 0 .. Nesting
    BY NestingAssumption
  <2>3. Terms[n] \subseteq Condition /\ Terms[n - 1] \subseteq Condition
    BY <2>2, TermsGrow
  <2>4. \A c \in Condition : g[c] = FinishedBy(f, c, o)
    OBVIOUS
  <2> HIDE DEF g
  <2>5. \A c \in Terms[n - 1] : g[c] = f[c]
    BY <2>1, <2>3, <2>4
  <2>6. ASSUME NEW c \in Terms[n] PROVE g[c] = FinishedBy(g, c, o)
    <3>1. \A x \in SubTerms(c) : g[x] = f[x]
      BY <2>2, <2>5, SubTermsAre
    <3>2. FinishedBy(g, c, o) = FinishedBy(f, c, o)
      BY <2>3, <3>1, FinishedByAgrees
    <3> QED
      BY <2>3, <2>4, <3>2
  <2> QED
    BY <2>2, <2>6
<1>3. Nesting \in S
  <2>1. Nesting \in Nat /\ Nesting \in 0 .. Nesting
    BY NestingAssumption
  <2> HIDE DEF S
  <2> QED
    BY <1>1, <1>2, <2>1, OneAfterTheOther
<1>4. PICK f : \A c \in Condition : f[c] = FinishedBy(f, c, o)
  BY <1>3 DEF Condition
<1> DEFINE Solution(g) == g = [c \in Condition |-> FinishedBy(g, c, o)]
           h == [c \in Condition |-> f[c]]
<1>5. Solution(h)
  <2>1. \A c \in Condition : h[c] = f[c]
    OBVIOUS
  <2>2. h = [c \in Condition |-> h[c]]
    OBVIOUS
  <2> HIDE DEF h
  <2>3. ASSUME NEW c \in Condition PROVE h[c] = FinishedBy(h, c, o)
    <3>1. \A x \in SubTerms(c) : x \in Condition
      <4>1. Nesting \in 0 .. Nesting /\ (Nesting # 0 => Nesting \in 1 .. Nesting /\ Nesting - 1 \in 0 .. Nesting)
        BY NestingAssumption
      <4> QED
        BY <4>1, SubTermsAre, TermsGrow DEF Condition
    <3>2. FinishedBy(h, c, o) = FinishedBy(f, c, o)
      BY <2>1, <3>1, FinishedByAgrees
    <3> QED
      BY <1>4, <2>1, <3>2
  <2> QED
    BY <2>2, <2>3
<1> DEFINE k == CHOOSE g : Solution(g)
<1>6. \A c : FinishAll(c, o) = k[c]
  BY DEF FinishAll
<1> HIDE DEF Solution, h
<1>7. Solution(k)
  BY <1>5
<1> HIDE DEF k
<1>8. \A c \in Condition : k[c] = FinishedBy(k, c, o)
  BY <1>7 DEF Solution
<1> QED
  BY <1>6, <1>8

-----------------------------------------------------------------------------
(***************************************************************************)
(* What the checks of conditions leave: sorted events of as many levels as *)
(* the condition has, well built.                                          *)
(***************************************************************************)
WellFound(events, n) == events \in Found(Nested[n]) /\ Sorted(events) /\ FoundIn(events) \subseteq Built

LEMMA SimpleIsBuilt ==
    ASSUME NEW e \in SimpleEvents
    PROVE  e \in Built /\ e \in Event /\ e \in Nested[0] /\ IsSimple(e) /\ e.kind = "simple"
<1>1. e \in Nested[0] /\ e \in Event
  <2>1. 0 \in 0 .. Nesting /\ Nesting \in 0 .. Nesting
    BY NestingAssumption
  <2> QED
    BY <2>1, NestedIs, LevelsGrow DEF Event
<1>2. e.kind = "simple" /\ IsSimple(e)
  BY DEF SimpleEvents, IsSimple, SimpleEvent
<1>3. Parts(e) = {} /\ IsBuilt(e)
  BY <1>2 DEF Parts, IsBuilt
<1> QED
  BY <1>1, <1>2, <1>3, BuiltIs

LEMMA FoundGrows ==
    ASSUME NEW n \in 0 .. Nesting, NEW m \in n .. Nesting, NEW events, WellFound(events, n)
    PROVE  WellFound(events, m)
<1>1. Nested[n] \subseteq Nested[m]
  BY LevelsGrow
<1>2. Seq(Nested[n]) \subseteq Seq(Nested[m])
  BY <1>1
<1>3. Found(Nested[n]) \subseteq Found(Nested[m])
  BY <1>2 DEF Found
<1> QED
  BY <1>3 DEF WellFound

LEMMA WellAdded ==
    ASSUME NEW n \in 0 .. Nesting, NEW es \in Seq(Nested[n]), ToSet(es) \subseteq Built
    PROVE  WellFound(AddEvents(NoEvents, es), n)
BY SortedIs DEF WellFound

LEMMA NoneIsWellFound == \A n \in 0 .. Nesting : WellFound(NoEvents, n)
<1>1. \A A : NoEvents \in Found(A)
  BY DEF NoEvents, Found
<1>2. ToSet(<<>>) = {}
  BY DEF ToSet
<1> QED
  BY <1>1, <1>2 DEF WellFound, Sorted, FoundIn, NoEvents

LEMMA OneIs ==
    ASSUME NEW A, NEW x \in A
    PROVE  <<x>> \in Seq(A) /\ ToSet(<<x>>) = {x}
BY DEF ToSet

AttributeEvent(l, a) == SimpleEvent(a, a \in Satisfying[l], <<a>>)

LEMMA AttributeEventsAre ==
    ASSUME NEW l \in Leaves, NEW o \in Items
    PROVE  /\ WellFound(AttributeEvents(l, o), 0)
           /\ FoundIn(AttributeEvents(l, o)) = {AttributeEvent(l, a) : a \in ToSet(Attributes[l][o])}
           /\ \A a \in ToSet(Attributes[l][o]) :
                /\ AttributeEvent(l, a) \in SimpleEvents
                /\ IsViolation[AttributeEvent(l, a)] = (a \notin Satisfying[l])
<1> DEFINE A == Attributes[l][o]
           es == [i \in DOMAIN A |-> AttributeEvent(l, A[i])]
<1>1. A \in Seq(Nat) /\ Len(A) \in Nat /\ DOMAIN A = 1 .. Len(A)
  BY ConditionsAssumption
<1>2. \A a \in Nat : AttributeEvent(l, a) \in SimpleEvents
  <2>1. \A a \in Nat : <<a>> \in Text /\ a \in Things
    BY DEF Text, Things
  <2>2. \A a : (a \in Satisfying[l]) \in BOOLEAN
    OBVIOUS
  <2>3. \A object \in Things : \A satisfied \in BOOLEAN : \A message \in Text :
          SimpleEvent(object, satisfied, message) \in SimpleEvents
    BY DEF SimpleEvent, SimpleEvents
  <2> QED
    BY <2>1, <2>2, <2>3 DEF AttributeEvent
<1>3. AttributeEvents(l, o) = AddEvents(NoEvents, es)
  BY DEF AttributeEvents, AttributeEvent
<1>4. ToSet(A) \subseteq Nat /\ ToSet(A) = {A[i] : i \in DOMAIN A}
  BY <1>1, SetOfSeq DEF ToSet
<1> HIDE DEF A
<1>5. es \in Seq(SimpleEvents) /\ ToSet(es) = {AttributeEvent(l, a) : a \in ToSet(A)}
  <2>1. \A i \in DOMAIN A : AttributeEvent(l, A[i]) \in SimpleEvents
    BY <1>1, <1>2
  <2>2. es \in Seq(SimpleEvents)
    BY <1>1, <2>1
  <2>3. ToSet(es) = {es[i] : i \in DOMAIN A}
    BY DEF ToSet
  <2>4. {es[i] : i \in DOMAIN A} = {AttributeEvent(l, a) : a \in ToSet(A)}
    BY <1>4
  <2> QED
    BY <2>2, <2>3, <2>4
<1> HIDE DEF es
<1>6. es \in Seq(Nested[0]) /\ ToSet(es) \subseteq Built
  BY <1>5, NestedIs, SetOfSeq, SimpleIsBuilt
<1>7. 0 \in 0 .. Nesting
  BY NestingAssumption
<1>8. WellFound(AddEvents(NoEvents, es), 0)
  BY <1>6, <1>7, WellAdded
<1>9. FoundIn(AddEvents(NoEvents, es)) = ToSet(es)
  BY <1>5, SortedIs
<1>10. ASSUME NEW a \in ToSet(A)
       PROVE  /\ AttributeEvent(l, a) \in SimpleEvents
              /\ IsViolation[AttributeEvent(l, a)] = (a \notin Satisfying[l])
  <2>1. AttributeEvent(l, a) \in SimpleEvents
    BY <1>2, <1>4
  <2>2. AttributeEvent(l, a) \in Event /\ AttributeEvent(l, a).kind = "simple"
    BY <2>1, SimpleIsBuilt
  <2>3. IsViolation[AttributeEvent(l, a)] = ~AttributeEvent(l, a).satisfied
    BY <2>2, EventsDecide
  <2>4. AttributeEvent(l, a).satisfied = (a \in Satisfying[l])
    BY DEF AttributeEvent, SimpleEvent
  <2> QED
    BY <2>1, <2>3, <2>4
<1> QED
  BY <1>3, <1>5, <1>8, <1>9, <1>10 DEF A

LEMMA AttributesEventIs ==
    ASSUME NEW l \in Leaves, NEW o \in Items, LeafKind[l] \in {"any", "only"},
           NEW sub, sub = AttributeEvents(l, o),
           NEW e, e = AttributesEvent(LeafKind[l], Attributes[l][o], sub.allowed, sub.violating)
    PROVE  /\ e \in Nested[1] /\ e \in Event /\ e \in Built
           /\ e.kind = LeafKind[l] /\ e.allowed = sub.allowed /\ e.violating = sub.violating
<1>1. 0 \in 0 .. Nesting /\ 1 \in 0 .. Nesting /\ 1 \in 1 .. Nesting /\ Nesting \in 1 .. Nesting
  BY RulesAssumption, NestingAssumption
<1>2. WellFound(sub, 0)
  BY AttributeEventsAre
<1>3. sub.allowed \in Seq(Nested[0]) /\ sub.violating \in Seq(Nested[0]) /\ FoundIn(sub) \subseteq Nested[0]
  BY <1>2, FoundIs DEF WellFound
<1>4. Attributes[l][o] \in Seq(Things)
  <2>1. Attributes[l][o] \in Seq(Nat)
    BY ConditionsAssumption
  <2> QED
    BY <2>1 DEF Things
<1>5. e.kind = LeafKind[l] /\ e.allowed = sub.allowed /\ e.violating = sub.violating
  BY DEF AttributesEvent
<1>6. e \in Holding(Nested[0])
  BY <1>3, <1>4 DEF AttributesEvent, Holding
<1>7. Holding(Nested[0]) \subseteq Nested[1]
  <2>1. Nested[1] = SimpleEvents \cup Holding(Nested[1 - 1]) /\ 1 - 1 = 0
    BY <1>1, NestedIs
  <2> QED
    BY <2>1
<1>8. e \in Nested[1] /\ e \in Event
  BY <1>1, <1>6, <1>7, LevelsGrow DEF Event
<1>9. Parts(e) = FoundIn(sub)
  BY <1>5 DEF Parts, FoundIn
<1>10. \A d \in Parts(e) : d.kind = "simple" /\ d \in Built
  BY <1>3, <1>9, NestedIs, SimpleIsBuilt
<1>11. IsBuilt(e)
  BY <1>5, <1>10 DEF IsBuilt
<1> QED
  BY <1>5, <1>8, <1>10, <1>11, BuiltIs

LEMMA CheckLeafIs ==
    ASSUME NEW l \in Leaves, NEW o \in Items
    PROVE  WellFound(CheckLeaf(l, o), 1)
<1>1. 0 \in 0 .. Nesting /\ 1 \in 0 .. Nesting
  BY RulesAssumption, NestingAssumption
<1>2. LeafKind[l] \in {"predicate", "events", "any", "only", "count"}
  BY ConditionsAssumption
<1>3. CASE LeafKind[l] \in {"predicate", "events"}
  <2>1. WellFound(AttributeEvents(l, o), 0)
    BY AttributeEventsAre
  <2>2. WellFound(AttributeEvents(l, o), 1)
    BY <1>1, <2>1, FoundGrows
  <2> QED
    BY <1>3, <2>2 DEF CheckLeaf
<1>4. CASE LeafKind[l] \in {"any", "only"}
  <2> DEFINE sub == AttributeEvents(l, o)
             e == AttributesEvent(LeafKind[l], Attributes[l][o], sub.allowed, sub.violating)
  <2>1. CheckLeaf(l, o) = IF sub = NoEvents THEN NoEvents ELSE AddEvents(NoEvents, <<e>>)
    BY <1>4 DEF CheckLeaf, CheckAttributes
  <2>2. e \in Nested[1] /\ e \in Built
    BY <1>4, AttributesEventIs
  <2> HIDE DEF e, sub
  <2>3. <<e>> \in Seq(Nested[1]) /\ ToSet(<<e>>) \subseteq Built
    <3>1. <<e>> \in Seq(Nested[1]) /\ ToSet(<<e>>) = {e}
      BY ONLY <2>2, OneIs
    <3> QED
      BY <2>2, <3>1
  <2>4. WellFound(AddEvents(NoEvents, <<e>>), 1)
    BY <1>1, <2>3, WellAdded
  <2> QED
    BY <1>1, <2>1, <2>4, NoneIsWellFound
<1>5. CASE LeafKind[l] = "count"
  BY <1>1, <1>5, NoneIsWellFound DEF CheckLeaf
<1> QED
  BY <1>2, <1>3, <1>4, <1>5

LEMMA InvertedAreWellFound ==
    ASSUME NEW n \in 0 .. Nesting, NEW events, WellFound(events, n)
    PROVE  /\ WellFound(AddAllInverted(NoEvents, events), n)
           /\ FoundIn(AddAllInverted(NoEvents, events)) = {Invert[d] : d \in FoundIn(events)}
<1> DEFINE all == AllEvents(events)
           es == Each(Invert, all)
<1>1. all \in Seq(Nested[n]) /\ ToSet(all) = FoundIn(events) /\ FoundIn(events) \subseteq Nested[n]
  BY FoundIs DEF WellFound
<1>2. Maps(Invert, ToSet(all), Nested[n])
  BY <1>1, InvertIs DEF Maps
<1>3. AddAllInverted(NoEvents, events) = AddEvents(NoEvents, es)
  BY DEF AddAllInverted
<1> HIDE DEF all
<1>4. es \in Seq(Nested[n]) /\ ToSet(es) = {Invert[x] : x \in ToSet(all)}
  BY <1>1, <1>2, EachIs
<1> HIDE DEF es
<1>5. ToSet(es) \subseteq Built
  BY <1>1, <1>4, InvertBuilds DEF WellFound
<1>6. WellFound(AddEvents(NoEvents, es), n)
  BY <1>4, <1>5, WellAdded
<1>7. FoundIn(AddEvents(NoEvents, es)) = ToSet(es)
  BY <1>4, SortedIs
<1> QED
  BY <1>1, <1>3, <1>4, <1>6, <1>7

LEMMA JoinEventIs ==
    ASSUME NEW n \in 1 .. Nesting, NEW kind \in {"and", "or"}, NEW o \in Items,
           NEW evaluated \in Seq(Found(Nested[n - 1])),
           \A i \in DOMAIN evaluated : WellFound(evaluated[i], n - 1),
           NEW e, e = JoinEvent(kind, o, evaluated)
    PROVE  e \in Nested[n] /\ e \in Event /\ e \in Built /\ e.kind = kind /\ e.evaluated = evaluated
<1>1. e.kind = kind /\ e.evaluated = evaluated
  BY DEF JoinEvent
<1>2. e \in Holding(Nested[n - 1])
  BY DEF JoinEvent, Holding, Things
<1>3. n \in 0 .. Nesting /\ Nesting \in n .. Nesting
  BY NestingAssumption
<1>4. e \in Nested[n] /\ e \in Event
  BY <1>2, <1>3, NestedIs, LevelsGrow DEF Event
<1>5. IsBuilt(e) /\ Parts(e) \subseteq Built
  BY <1>1 DEF IsBuilt, Parts, WellFound
<1> QED
  BY <1>1, <1>4, <1>5, BuiltIs

LEMMA ChecksAre ==
    ASSUME NEW n \in 0 .. Nesting, n + 1 <= Nesting, NEW c \in Terms[n], NEW o \in Items
    PROVE  WellFound(Check(c, o), n + 1)
<1> PICK h : \A d \in Condition : Check(d, o) = h[d] /\ h[d] = CheckedBy(h, d, o)
  BY CheckIs
<1> DEFINE T == {k \in 0 .. Nesting - 1 : \A d \in Terms[k] : WellFound(h[d], k + 1)}
<1>0. /\ Nesting \in Nat /\ Nesting - 1 \in Nat /\ n \in 0 .. Nesting - 1
      /\ \A k \in 0 .. Nesting - 1 : k \in 0 .. Nesting /\ k + 1 \in 1 .. Nesting /\ k + 1 \in 0 .. Nesting
  BY NestingAssumption
<1>1. ASSUME NEW k \in 0 .. Nesting - 1, NEW d \in Terms[k], d.kind = "leaf" PROVE WellFound(h[d], k + 1)
  <2>1. d.leaf \in Leaves /\ d \in Condition
    BY <1>0, <1>1, TermsAre, TermsGrow
  <2>2. h[d] = CheckLeaf(d.leaf, o)
    BY <1>1, <2>1 DEF CheckedBy
  <2>3. WellFound(h[d], 1)
    BY <2>1, <2>2, CheckLeafIs
  <2>4. 1 \in 0 .. Nesting /\ k + 1 \in 1 .. Nesting
    BY <1>0
  <2> QED
    BY <2>3, <2>4, FoundGrows
<1>2. 0 \in T
  <2>1. \A d \in Terms[0] : d.kind = "leaf"
    BY <1>0, TermsAre
  <2> QED
    BY <1>0, <1>1, <2>1
<1>3. ASSUME NEW k \in 1 .. Nesting - 1, k - 1 \in T PROVE k \in T
  <2>0. k \in 0 .. Nesting - 1 /\ k \in 1 .. Nesting /\ k \in 0 .. Nesting /\ (k - 1) + 1 = k /\ k \in k .. Nesting
        /\ (k + 1) - 1 = k /\ k + 1 \in 1 .. Nesting /\ k + 1 \in k .. Nesting
    BY <1>0
  <2>1. \A d \in Terms[k - 1] : WellFound(h[d], k)
    BY <1>3, <2>0
  <2> SUFFICES ASSUME NEW d \in Terms[k] PROVE WellFound(h[d], k + 1)
    BY <2>0
  <2>2. d \in Condition /\ h[d] = CheckedBy(h, d, o)
    BY <2>0, TermsGrow
  <2>3. CASE d.kind = "leaf"
    BY <1>1, <2>0, <2>3
  <2>4. CASE d.kind = "never"
    <3>1. WellFound(h[d.of], k)
      BY <2>0, <2>1, <2>4, TermsAre
    <3>2. h[d] = AddAllInverted(NoEvents, h[d.of])
      BY <2>2, <2>4 DEF CheckedBy
    <3>3. WellFound(h[d], k)
      BY <2>0, <3>1, <3>2, InvertedAreWellFound
    <3> QED
      BY <2>0, <3>3, FoundGrows
  <2>5. CASE d.kind = "join"
    <3> DEFINE s == d.conditions
               kind == IF d.isAnd THEN "and" ELSE "or"
               e == JoinEvent(kind, o, Each(h, s))
    <3>1. s \in Seq(Terms[k - 1])
      BY <2>0, <2>5, TermsAre
    <3>2. \A x \in ToSet(s) : WellFound(h[x], k)
      BY <2>1, <3>1, SetOfSeq
    <3>3. Maps(h, ToSet(s), Found(Nested[k]))
      BY <3>2 DEF Maps, WellFound
    <3>4. Each(h, s) \in Seq(Found(Nested[k])) /\ DOMAIN Each(h, s) = DOMAIN s
          /\ \A i \in DOMAIN s : Each(h, s)[i] = h[s[i]]
      BY <3>1, <3>3, EachIs
    <3>5. \A i \in DOMAIN Each(h, s) : WellFound(Each(h, s)[i], k)
      BY <3>1, <3>2, <3>4, SetOfSeq
    <3>6. h[d] = AddEvents(NoEvents, <<e>>)
      BY <2>2, <2>5 DEF CheckedBy
    <3>7. kind \in {"and", "or"}
      OBVIOUS
    <3> HIDE DEF kind, s
    <3>8. e \in Nested[k + 1] /\ e \in Built
      BY <2>0, <3>4, <3>5, <3>7, JoinEventIs
    <3> HIDE DEF e
    <3>9. <<e>> \in Seq(Nested[k + 1]) /\ ToSet(<<e>>) \subseteq Built
      <4>1. <<e>> \in Seq(Nested[k + 1]) /\ ToSet(<<e>>) = {e}
        BY ONLY <3>8, OneIs
      <4> QED
        BY <3>8, <4>1
    <3>10. k + 1 \in 0 .. Nesting
      BY <1>0, <2>0
    <3> QED
      BY <3>6, <3>9, <3>10, WellAdded
  <2> QED
    BY <2>0, <2>3, <2>4, <2>5, TermsAre
<1>4. \A k \in 0 .. Nesting - 1 : k \in T
  <2> HIDE DEF T
  <2> QED
    BY <1>0, <1>2, <1>3, OneAfterTheOther
<1>5. WellFound(h[c], n + 1) /\ c \in Condition
  BY <1>0, <1>4, TermsGrow
<1> QED
  BY <1>5

LEMMA FinishesAre ==
    ASSUME NEW n \in 0 .. Nesting, NEW c \in Terms[n], NEW objects \in Seq(Items)
    PROVE  /\ FinishAll(c, objects) \in Seq(SimpleEvents)
           /\ c.kind = "leaf" => FinishAll(c, objects) =
                IF LeafKind[c.leaf] = "count" THEN CountEvents(c.leaf, objects) ELSE <<>>
<1> PICK h : \A d \in Condition : FinishAll(d, objects) = h[d] /\ h[d] = FinishedBy(h, d, objects)
  BY FinishAllIs
<1> DEFINE T == {k \in 0 .. Nesting : \A d \in Terms[k] : h[d] \in Seq(SimpleEvents)}
<1>0. Nesting \in Nat /\ 0 \in 0 .. Nesting
  BY NestingAssumption
<1>1. ASSUME NEW k \in 0 .. Nesting, NEW d \in Terms[k], d.kind = "leaf"
      PROVE  /\ h[d] = IF LeafKind[d.leaf] = "count" THEN CountEvents(d.leaf, objects) ELSE <<>>
             /\ h[d] \in Seq(SimpleEvents)
  <2>1. d.leaf \in Leaves /\ d \in Condition
    BY <1>1, TermsAre, TermsGrow
  <2>2. h[d] = IF LeafKind[d.leaf] = "count" THEN CountEvents(d.leaf, objects) ELSE <<>>
    BY <1>1, <2>1 DEF FinishedBy
  <2>3. CountEvents(d.leaf, objects) \in Seq(SimpleEvents)
    <3> DEFINE size == Cardinality(ToSet(objects))
    <3>1. size \in Nat
      BY ToSetIsFinite, FS_CardinalityType
    <3> HIDE DEF size
    <3>2. <<d.leaf>> \in Text /\ size \in Things /\ (size <= MostElements) \in BOOLEAN
      <4>1. d.leaf \in Nat
        BY <2>1, ConditionsAssumption
      <4>2. (size <= MostElements) \in BOOLEAN
        OBVIOUS
      <4> QED
        BY <3>1, <4>1, <4>2 DEF Text, Things
    <3>3. SimpleEvent(size, size <= MostElements, <<d.leaf>>) \in SimpleEvents
      BY <3>2 DEF SimpleEvent, SimpleEvents
    <3> QED
      BY <3>3, OneIs DEF CountEvents, size
  <2> QED
    BY <2>2, <2>3
<1>2. 0 \in T
  <2>1. \A d \in Terms[0] : d.kind = "leaf"
    BY <1>0, TermsAre
  <2> QED
    BY <1>0, <1>1, <2>1
<1>3. ASSUME NEW k \in 1 .. Nesting, k - 1 \in T PROVE k \in T
  <2>0. k \in 0 .. Nesting /\ k - 1 \in 0 .. Nesting
    BY <1>0
  <2>1. \A d \in Terms[k - 1] : h[d] \in Seq(SimpleEvents)
    BY <1>3
  <2> SUFFICES ASSUME NEW d \in Terms[k] PROVE h[d] \in Seq(SimpleEvents)
    BY <2>0
  <2>2. d \in Condition /\ h[d] = FinishedBy(h, d, objects)
    BY <2>0, TermsGrow
  <2>3. CASE d.kind = "leaf"
    BY <1>1, <2>0, <2>3
  <2>4. CASE d.kind = "never"
    <3> DEFINE events == AddEvents(NoEvents, h[d.of])
    <3>1. h[d.of] \in Seq(SimpleEvents)
      BY <2>0, <2>1, <2>4, TermsAre
    <3>2. h[d] = Each(Invert, AllEvents(events))
      BY <2>2, <2>4 DEF FinishedBy
    <3>3. events \in Found(SimpleEvents)
      BY <3>1, SortedIs
    <3> HIDE DEF events
    <3>4. AllEvents(events) \in Seq(SimpleEvents) /\ ToSet(AllEvents(events)) \subseteq SimpleEvents
      BY <3>3, FoundIs
    <3>5. Maps(Invert, ToSet(AllEvents(events)), SimpleEvents)
      <4>1. \A e \in SimpleEvents : Invert[e] \in SimpleEvents
        BY <1>0, NestedIs, InvertIs
      <4> QED
        BY <3>4, <4>1 DEF Maps
    <3> QED
      BY <3>2, <3>4, <3>5, EachIs
  <2>5. CASE d.kind = "join"
    <3>1. d.conditions \in Seq(Terms[k - 1])
      BY <2>0, <2>5, TermsAre
    <3>2. \A x \in ToSet(d.conditions) : h[x] \in Seq(SimpleEvents)
      BY <2>1, <3>1, SetOfSeq
    <3>3. h[d] = FlattenSeq(Each(h, d.conditions))
      BY <2>2, <2>5 DEF FinishedBy
    <3> QED
      BY <3>1, <3>2, <3>3, FlattenEachIs
  <2> QED
    BY <2>0, <2>3, <2>4, <2>5, TermsAre
<1>4. \A k \in 0 .. Nesting : k \in T
  <2> HIDE DEF T
  <2> QED
    BY <1>0, <1>2, <1>3, OneAfterTheOther
<1>5. h[c] \in Seq(SimpleEvents) /\ c \in Condition
  BY <1>4, TermsGrow
<1> QED
  BY <1>1, <1>5

LEMMA CheckedIs ==
    ASSUME NEW n \in 0 .. Nesting, n + 1 <= Nesting, NEW c \in Terms[n], NEW objects \in Seq(Items)
    PROVE  /\ WellFound(Checked(c, objects), n + 1)
           /\ ToSet(Checked(c, objects).violating) = UNION {ToSet(Check(c, o).violating) : o \in ToSet(objects)}
<1> DEFINE A == Nested[n + 1]
           s == [i \in DOMAIN objects |-> Check(c, objects[i]).allowed]
           t == [i \in DOMAIN objects |-> Check(c, objects[i]).violating]
<1>1. Len(objects) \in Nat /\ DOMAIN objects = 1 .. Len(objects) /\ \A i \in DOMAIN objects : objects[i] \in Items
  OBVIOUS
<1>2. \A o \in Items : WellFound(Check(c, o), n + 1)
  BY ChecksAre
<1>3. \A i \in DOMAIN objects : /\ Check(c, objects[i]).allowed \in Seq(A) /\ Check(c, objects[i]).violating \in Seq(A)
  BY <1>1, <1>2, FoundIs DEF WellFound
<1> HIDE DEF A
<1>4. s \in Seq(Seq(A)) /\ t \in Seq(Seq(A)) /\ DOMAIN s = DOMAIN objects /\ DOMAIN t = DOMAIN objects
  BY <1>1, <1>3
<1>5. /\ \A i \in DOMAIN objects : s[i] = Check(c, objects[i]).allowed
      /\ \A i \in DOMAIN objects : t[i] = Check(c, objects[i]).violating
  OBVIOUS
<1>6. Checked(c, objects) = [allowed |-> FlattenSeq(s), violating |-> FlattenSeq(t)]
  BY DEF Checked
<1> HIDE DEF s, t
<1>7. /\ FlattenSeq(s) \in Seq(A) /\ ToSet(FlattenSeq(s)) = UNION {ToSet(s[i]) : i \in DOMAIN objects}
      /\ FlattenSeq(t) \in Seq(A) /\ ToSet(FlattenSeq(t)) = UNION {ToSet(t[i]) : i \in DOMAIN objects}
  BY <1>4, FlattenedIs
<1> DEFINE events == Checked(c, objects)
<1>8. events \in Found(A)
  BY <1>6, <1>7 DEF Found
<1>9. /\ ToSet(events.allowed) = UNION {ToSet(s[i]) : i \in DOMAIN objects}
      /\ ToSet(events.violating) = UNION {ToSet(t[i]) : i \in DOMAIN objects}
  BY <1>6, <1>7
<1> HIDE DEF events
<1>10. \A i \in DOMAIN objects : /\ \A d \in ToSet(s[i]) : ~IsViolation[d] /\ d \in Built
                                 /\ \A d \in ToSet(t[i]) : IsViolation[d] /\ d \in Built
  BY <1>1, <1>2, <1>5 DEF WellFound, Sorted, FoundIn
<1>11. Sorted(events)
  BY <1>9, <1>10 DEF Sorted
<1>12. FoundIn(events) \subseteq Built
  BY <1>9, <1>10 DEF FoundIn
<1>13. UNION {ToSet(t[i]) : i \in DOMAIN objects} = UNION {ToSet(Check(c, o).violating) : o \in ToSet(objects)}
  BY <1>5 DEF ToSet
<1> QED
  BY <1>8, <1>9, <1>11, <1>12, <1>13 DEF WellFound, events, A

LEMMA EvaluationIs ==
    ASSUME NEW n \in 0 .. Nesting, n + 1 <= Nesting, NEW c \in Terms[n], NEW objects \in Seq(Items)
    PROVE  /\ WellFound(EvaluateAll(c, objects), n + 1)
           /\ ToSet(EvaluateAll(c, objects).violating) =
                (UNION {ToSet(Check(c, o).violating) : o \in ToSet(objects)})
                    \cup {d \in ToSet(FinishAll(c, objects)) : IsViolation[d]}
<1> DEFINE events == Checked(c, objects)
           es == FinishAll(c, objects)
           all == EvaluateAll(c, objects)
<1>1. /\ WellFound(events, n + 1)
      /\ ToSet(events.violating) = UNION {ToSet(Check(c, o).violating) : o \in ToSet(objects)}
  BY CheckedIs
<1>2. es \in Seq(SimpleEvents)
  BY FinishesAre
<1>3. all = AddEvents(events, es)
  BY DEF EvaluateAll
<1> HIDE DEF events, es, all
<1>4. SimpleEvents \subseteq Nested[n + 1] /\ SimpleEvents \subseteq Built /\ n + 1 \in 0 .. Nesting
  <2>1. n + 1 \in 0 .. Nesting /\ 0 \in 0 .. Nesting /\ n + 1 \in 0 .. Nesting
    BY NestingAssumption
  <2> QED
    BY <2>1, SimpleIsBuilt, NestedIs, LevelsGrow
<1>5. es \in Seq(Nested[n + 1])
  BY <1>2, <1>4
<1>6. ToSet(es) \subseteq Built
  BY <1>2, <1>4, SetOfSeq
<1>7. /\ all \in Found(Nested[n + 1])
      /\ ToSet(all.allowed) = ToSet(events.allowed) \cup {d \in ToSet(es) : ~IsViolation[d]}
      /\ ToSet(all.violating) = ToSet(events.violating) \cup {d \in ToSet(es) : IsViolation[d]}
  BY <1>1, <1>3, <1>5, AddEventsIs DEF WellFound
<1>8. WellFound(all, n + 1)
  BY <1>1, <1>6, <1>7 DEF WellFound, Sorted, FoundIn
<1>9. ToSet(EvaluateAll(c, objects).violating) =
        (UNION {ToSet(Check(c, o).violating) : o \in ToSet(objects)})
            \cup {d \in ToSet(FinishAll(c, objects)) : IsViolation[d]}
  BY <1>1, <1>7 DEF all, es
<1> QED
  BY <1>8, <1>9 DEF all

AreViolations(es, n) ==
    es \in Seq(Nested[n]) /\ \A e \in ToSet(es) : e \in Built /\ IsViolation[e]

LEMMA FilteredAre ==
    ASSUME NEW n \in 1 .. Nesting, NEW violations, AreViolations(violations, n - 1), NEW ignored \in SUBSET Pattern
    PROVE  AreViolations(FilterEvents(violations, ignored), n)
<1> DEFINE events == [i \in DOMAIN violations |-> FilteredEvent(violations[i], ignored)]
           I == {i \in DOMAIN events : IsViolation[events[i]]}
<1>0. n - 1 \in 0 .. Nesting /\ n \in 0 .. Nesting /\ Nesting \in n .. Nesting
  BY NestingAssumption
<1>1. /\ violations \in Seq(Nested[n - 1]) /\ Len(violations) \in Nat /\ DOMAIN violations = 1 .. Len(violations)
      /\ \A i \in DOMAIN violations : violations[i] \in Nested[n - 1] /\ violations[i] \in Built
  BY SetOfSeq DEF AreViolations
<1>2. \A i \in DOMAIN violations : FilteredEvent(violations[i], ignored) \in Nested[n]
  BY <1>1, FilteredLevel
<1>3. events \in Seq(Nested[n]) /\ DOMAIN events = DOMAIN violations
  BY <1>1, <1>2
<1>4. ASSUME NEW i \in DOMAIN events PROVE events[i] \in Built
  <2>1. events[i] = FilteredEvent(violations[i], ignored) /\ i \in DOMAIN violations
    OBVIOUS
  <2> HIDE DEF events
  <2>2. events[i] \in Event
    BY <1>0, <1>2, <2>1, LevelsGrow DEF Event
  <2>3. /\ events[i].kind = "filtered" /\ events[i].delegate = violations[i]
        /\ events[i].patterns = ignored
        /\ events[i].lines = LinesNotIgnored(DescriptionLines[violations[i]], ignored)
    BY <2>1 DEF FilteredEvent
  <2>4. IsBuilt(events[i]) /\ Parts(events[i]) = {violations[i]}
    BY <2>3 DEF IsBuilt, Parts
  <2>5. violations[i] \in Built
    BY <1>1, <2>1
  <2> QED
    BY <2>2, <2>4, <2>5, BuiltIs
<1>5. FilterEvents(violations, ignored) = At(events, I)
  BY DEF FilterEvents
<1>6. At(events, I) \in Seq(Nested[n]) /\ ToSet(At(events, I)) = {events[i] : i \in DOMAIN events \cap I}
  <2> HIDE DEF events, I
  <2> QED
    BY <1>3, AtIs
<1>7. \A e \in ToSet(At(events, I)) : e \in Built /\ IsViolation[e]
  <2> HIDE DEF events
  <2> QED
    BY <1>4, <1>6
<1> QED
  BY <1>5, <1>6, <1>7 DEF AreViolations

LEMMA EvaluatedAre ==
    ASSUME NEW n \in 0 .. Nesting, n + 2 <= Nesting, NEW c \in Terms[n], NEW objects \in Seq(Items),
           NEW ignored \in SUBSET Pattern
    PROVE  AreViolations(ApplyIgnorePatterns(EvaluateAll(c, objects).violating, ignored), n + 2)
<1> DEFINE violations == EvaluateAll(c, objects).violating
<1>0. n + 1 \in 0 .. Nesting /\ n + 2 \in 1 .. Nesting /\ (n + 2) - 1 = n + 1 /\ n + 2 \in n + 1 .. Nesting
      /\ n + 1 <= Nesting
  BY NestingAssumption
<1>1. WellFound(EvaluateAll(c, objects), n + 1)
  BY <1>0, EvaluationIs
<1>2. AreViolations(violations, n + 1)
  <2>1. violations \in Seq(Nested[n + 1])
    BY <1>1, FoundIs DEF WellFound
  <2> QED
    BY <1>1, <2>1 DEF AreViolations, WellFound, Sorted, FoundIn
<1> HIDE DEF violations
<1>3. AreViolations(violations, n + 2)
  <2>1. Nested[n + 1] \subseteq Nested[n + 2]
    BY <1>0, LevelsGrow
  <2> QED
    BY <1>2, <2>1 DEF AreViolations
<1>4. AreViolations(FilterEvents(violations, ignored), n + 2)
  BY <1>0, <1>2, FilteredAre
<1> QED
  BY <1>3, <1>4 DEF ApplyIgnorePatterns, violations

-----------------------------------------------------------------------------
(***************************************************************************)
(* What is said, and what it has become: a condition has as many levels as *)
(* it has words, so that Nesting bounds no event; the violations of the    *)
(* evaluated rules are well-built events that are violations.              *)
(***************************************************************************)
Connectives == {"and", "or"}
Sentences == [that : Seq([connective : Connectives, of : Predicates]),
              should : Seq([connective : Connectives, of : Conditions])]
Rules == [objects : Seq(Items), condition : Terms[MaxWords + 1], vacuous : BOOLEAN,
          said : Sentences, negated : BOOLEAN]

Speaking ==
    /\ said \in Sentences /\ negated \in BOOLEAN
    /\ words \in 0 .. MaxWords /\ Len(said.should) <= words
    /\ condition = None => said.should = <<>>
    /\ condition # None => said.should # <<>> /\ condition \in Terms[Len(said.should)]
    /\ rules \in Seq(Rules)

Reporting ==
    /\ outcome \in {"open", "panicked", "evaluated", "filtered", "passed", "failed"}
    /\ patterns \in SUBSET Pattern /\ filtered \in SUBSET Pattern
    /\ outcome \in {"open", "panicked"} => result = <<>>
    /\ AreViolations(result, MaxWords + 4)
    /\ outcome = "evaluated" => AreViolations(result, MaxWords + 3)
    /\ ReportMatchesVerdict

WellSpoken == Speaking /\ Reporting

LEMMA Bounds ==
    /\ MaxWords \in Nat /\ Nesting \in Nat
    /\ \A n \in Nat : n <= MaxWords + 4 => n \in 0 .. Nesting
    /\ \A n \in Nat : 1 <= n /\ n <= MaxWords + 4 => n \in 1 .. Nesting
BY NestingAssumption, RulesAssumption

LEMMA SaidTerms ==
    ASSUME NEW n \in 1 .. MaxWords, NEW c \in Conditions
    PROVE  c \in Terms[n]
<1>1. 0 \in 0 .. Nesting /\ 1 \in 1 .. Nesting /\ 1 \in 0 .. Nesting /\ n \in 1 .. Nesting /\ 1 - 1 = 0
  BY Bounds
<1>2. ASSUME NEW l \in Leaves PROVE Leaf(l) \in Terms[0] /\ Never(Leaf(l)) \in Terms[1]
  <2>1. Leaf(l) \in Terms[0]
    BY TermsIs DEF Leaf, LeafTerms
  <2>2. Never(Leaf(l)) \in Combining(Terms[0])
    BY <2>1 DEF Never, Combining
  <2>3. Terms[1] = LeafTerms \cup Combining(Terms[1 - 1])
    BY <1>1, TermsIs
  <2> QED
    BY <1>1, <2>1, <2>2, <2>3
<1>3. \/ \E l \in Leaves : c = Leaf(l)
      \/ \E l \in Leaves : c = Never(Leaf(l))
  BY RulesAssumption
<1>4. Terms[0] \subseteq Terms[n] /\ Terms[1] \subseteq Terms[n]
  BY <1>1, TermsUpTo
<1> QED
  BY <1>2, <1>3, <1>4

LEMMA JoinedTerms ==
    ASSUME NEW n \in 1 .. Nesting, NEW c \in Terms[n - 1], NEW d \in Terms[n - 1]
    PROVE  (\A isAnd \in BOOLEAN : Join(isAnd, c, d) \in Terms[n]) /\ Never(c) \in Terms[n]
<1>1. <<c, d>> \in Seq(Terms[n - 1])
  <2>1. \A A : \A x, y \in A : <<x, y>> \in Seq(A)
    OBVIOUS
  <2> QED
    BY <2>1
<1>2. \A isAnd \in BOOLEAN : Join(isAnd, c, d) \in Combining(Terms[n - 1])
  BY <1>1 DEF Join, Combining
<1>3. Never(c) \in Combining(Terms[n - 1])
  BY DEF Never, Combining
<1> QED
  BY <1>2, <1>3, TermsIs

LEMMA AppendedIs ==
    ASSUME NEW A, NEW s \in Seq(A), NEW x \in A
    PROVE  /\ Append(s, x) \in Seq(A) /\ Len(Append(s, x)) = Len(s) + 1 /\ Append(s, x) # <<>>
           /\ \A i \in 1 .. Len(s) : Append(s, x)[i] = s[i]
           /\ Append(s, x)[Len(s) + 1] = x
OBVIOUS

LEMMA ReportIs ==
    ASSUME NEW n \in 0 .. Nesting, NEW es, AreViolations(es, n)
    PROVE  /\ FlattenSeq(Each(DescriptionLines, es)) \in Seq(Text)
           /\ (FlattenSeq(Each(DescriptionLines, es)) = <<>>) <=> (es = <<>>)
           /\ Messages(FlattenSeq(Each(Handled, es))) = ToSet(FlattenSeq(Each(DescriptionLines, es)))
<1>1. es \in Seq(Nested[n]) /\ \A e \in ToSet(es) : e \in Built /\ IsViolation[e] /\ e \in Event
  BY BuiltIs DEF AreViolations
<1>2. \A e \in ToSet(es) : DescriptionLines[e] \in Seq(Text) /\ Handled[e] \in Seq(Calls)
  BY <1>1, LinesAre, CallsAre
<1> DEFINE report == FlattenSeq(Each(DescriptionLines, es))
           calls == FlattenSeq(Each(Handled, es))
<1>3. report \in Seq(Text) /\ ToSet(report) = UNION {ToSet(DescriptionLines[e]) : e \in ToSet(es)}
  BY <1>1, <1>2, FlattenEachIs
<1>4. ToSet(calls) = UNION {ToSet(Handled[e]) : e \in ToSet(es)}
  BY <1>1, <1>2, FlattenEachIs
<1> HIDE DEF report, calls
<1>5. \A e \in ToSet(es) : ToSet(DescriptionLines[e]) # {}
  <2> SUFFICES ASSUME NEW e \in ToSet(es) PROVE ToSet(DescriptionLines[e]) # {}
    OBVIOUS
  <2>1. DescriptionLines[e] # <<>> /\ DescriptionLines[e] \in Seq(Text)
    BY <1>1, <1>2, ViolationsAreReported
  <2> QED
    BY <2>1, NothingInside
<1>6. (ToSet(report) = {}) <=> (ToSet(es) = {})
  <2>1. ASSUME NEW e \in ToSet(es) PROVE ToSet(report) # {}
    <3>1. PICK line : line \in ToSet(DescriptionLines[e])
      BY <1>5
    <3>2. line \in ToSet(report)
      BY <1>3, <3>1
    <3> QED
      BY <3>2
  <2>2. ToSet(es) = {} => ToSet(report) = {}
    BY <1>3
  <2> QED
    BY <2>1, <2>2
<1>7. (report = <<>>) <=> (es = <<>>)
  BY <1>1, <1>3, <1>6, NothingInside
<1>8. Messages(calls) = UNION {Messages(Handled[e]) : e \in ToSet(es)}
  BY <1>4 DEF Messages
<1>9. \A e \in ToSet(es) : Messages(Handled[e]) = ToSet(DescriptionLines[e])
  BY <1>1, CallsAreReported
<1>10. Messages(calls) = ToSet(report)
  BY <1>3, <1>8, <1>9
<1> QED
  BY <1>3, <1>7, <1>10 DEF report, calls

LEMMA NothingIsViolated == \A n : AreViolations(<<>>, n)
<1>1. ToSet(<<>>) = {}
  BY DEF ToSet
<1> QED
  BY <1>1 DEF AreViolations

LEMMA InitSpeaks == Init => WellSpoken
<1> SUFFICES ASSUME Init PROVE WellSpoken
  OBVIOUS
<1>1. said \in Sentences /\ said.should = <<>> /\ Len(said.should) = 0
  BY DEF Init, NothingSaid, Sentences
<1>2. words \in 0 .. MaxWords /\ Len(said.should) <= words
  BY <1>1, Bounds DEF Init
<1>3. rules \in Seq(Rules)
  BY DEF Init
<1>4. Speaking
  BY <1>1, <1>2, <1>3 DEF Init, Speaking
<1>5. Reporting
  BY NothingIsViolated DEF Init, Reporting, ReportMatchesVerdict, Asserted
<1> QED
  BY <1>4, <1>5 DEF WellSpoken

LEMMA SaysMore ==
    ASSUME Speaking, NEW connective \in Connectives
    PROVE  /\ \A p \in Predicates : [said EXCEPT !.that = Append(@, Word(connective, p))] \in Sentences
           /\ \A c \in Conditions : [said EXCEPT !.should = Append(@, Word(connective, c))] \in Sentences
<1>1. /\ said.that \in Seq([connective : Connectives, of : Predicates])
      /\ said.should \in Seq([connective : Connectives, of : Conditions])
      /\ said = [that |-> said.that, should |-> said.should]
  BY DEF Speaking, Sentences
<1>2. /\ \A p \in Predicates : Word(connective, p) \in [connective : Connectives, of : Predicates]
      /\ \A c \in Conditions : Word(connective, c) \in [connective : Connectives, of : Conditions]
  BY DEF Word
<1>3. /\ \A p \in Predicates : Append(said.that, Word(connective, p)) \in Seq([connective : Connectives, of : Predicates])
      /\ \A c \in Conditions : Append(said.should, Word(connective, c)) \in Seq([connective : Connectives, of : Conditions])
  BY <1>1, <1>2, AppendedIs
<1> QED
  BY <1>1, <1>3 DEF Sentences

LEMMA NextSpeaks == WellSpoken /\ [Next]_vars => WellSpoken'
<1> SUFFICES ASSUME Speaking, Reporting, [Next]_vars PROVE Speaking' /\ Reporting'
  BY DEF WellSpoken
<1>1. ASSUME NEW p \in Predicates, NEW connective \in Connectives, NEW aggregator,
             RestrictObjects(aggregator, connective, p)
      PROVE  Speaking' /\ Reporting'
  <2>1. said' = [said EXCEPT !.that = Append(@, Word(connective, p))] /\ said' \in Sentences
    BY <1>1, SaysMore DEF RestrictObjects
  <2>2. said'.should = said.should
    BY <2>1 DEF Speaking, Sentences
  <2>3. words' \in 0 .. MaxWords /\ Len(said'.should) <= words'
    <3>1. words < MaxWords /\ words' = words + 1
      BY <1>1 DEF RestrictObjects, MaySay
    <3>2. Len(said.should) \in Nat
      BY DEF Speaking, Sentences
    <3> QED
      BY <2>2, <3>1, <3>2, Bounds DEF Speaking
  <2>4. Speaking'
    BY <1>1, <2>1, <2>2, <2>3 DEF RestrictObjects, Speaking
  <2> QED
    BY <1>1, <2>4 DEF RestrictObjects, Reporting, ReportMatchesVerdict, Asserted
<1>2. ASSUME NEW c \in Conditions, NEW connective \in Connectives, NEW d,
             MaySay, condition' = d,
             d \in Terms[Len(said.should) + 1], d # None,
             said' = [said EXCEPT !.should = Append(@, Word(connective, c))],
             words' = words + 1,
             UNCHANGED <<patterns, negated, given, rules, outcome, result, filtered>>
      PROVE  Speaking' /\ Reporting'
  <2>1. said' \in Sentences
    BY <1>2, SaysMore
  <2>2. said'.should = Append(said.should, Word(connective, c))
    BY <1>2 DEF Speaking, Sentences
  <2>3. /\ said.should \in Seq([connective : Connectives, of : Conditions])
        /\ Word(connective, c) \in [connective : Connectives, of : Conditions]
    BY DEF Speaking, Sentences, Word
  <2>4. Len(said'.should) = Len(said.should) + 1 /\ said'.should # <<>> /\ Len(said.should) \in Nat
    BY <2>2, <2>3, AppendedIs
  <2>5. words' \in 0 .. MaxWords /\ Len(said'.should) <= words'
    BY <1>2, <2>4, Bounds DEF MaySay, Speaking
  <2>6. Speaking'
    BY <1>2, <2>1, <2>4, <2>5 DEF Speaking
  <2> QED
    BY <1>2, <2>6 DEF Reporting, ReportMatchesVerdict, Asserted
<1>3. \A n \in 0 .. Nesting : None \notin Terms[n]
  BY RulesAssumption, TermsGrow
<1>4. ASSUME NEW c \in Conditions, Should(c) PROVE Speaking' /\ Reporting'
  <2>1. Len(said.should) = 0
    BY <1>4 DEF Should, Speaking
  <2>2. 0 + 1 \in 1 .. MaxWords /\ 0 + 1 \in 0 .. Nesting
    BY <1>4, Bounds DEF Should, MaySay, Speaking
  <2>3. c \in Terms[Len(said.should) + 1] /\ c # None
    BY <1>3, <2>1, <2>2, SaidTerms
  <2>4. "and" \in Connectives
    BY DEF Connectives
  <2> QED
    BY <1>2, <1>4, <2>3, <2>4 DEF Should
<1>5. ASSUME NEW c \in Conditions, NEW connective \in Connectives, ShouldAlso(connective, c)
      PROVE  Speaking' /\ Reporting'
  <2> DEFINE n == Len(said.should)
             d == Join(connective = "and", condition, c)
  <2>1. said.should # <<>> /\ condition \in Terms[n] /\ words < MaxWords
    BY <1>5 DEF ShouldAlso, MaySay, Speaking
  <2>2. n \in Nat /\ n # 0 /\ n <= words
    BY <2>1 DEF Speaking, Sentences
  <2> HIDE DEF n
  <2>3. n \in 1 .. MaxWords /\ n + 1 \in 1 .. Nesting /\ n + 1 \in 0 .. Nesting /\ (n + 1) - 1 = n
    BY <2>1, <2>2, Bounds DEF Speaking
  <2>4. c \in Terms[n]
    BY <2>3, SaidTerms
  <2>5. (connective = "and") \in BOOLEAN
    OBVIOUS
  <2>6. d \in Terms[n + 1]
    BY <2>1, <2>3, <2>4, <2>5, JoinedTerms
  <2>7. d # None
    BY <1>3, <2>3, <2>6
  <2>8. MaySay /\ condition' = d /\ said' = [said EXCEPT !.should = Append(@, Word(connective, c))]
        /\ words' = words + 1 /\ UNCHANGED <<patterns, negated, given, rules, outcome, result, filtered>>
    BY <1>5 DEF ShouldAlso, AddCondition
  <2> HIDE DEF d
  <2> QED
    BY <1>2, <2>6, <2>7, <2>8 DEF n
<1>6. ASSUME NEW allowed \in BOOLEAN, Finish(allowed) PROVE Speaking' /\ Reporting'
  <2> DEFINE n == Len(said.should)
             r == [objects |-> Selected, condition |-> Prepare(condition),
                   vacuous |-> Selected = <<>> /\ ~allowed, said |-> said, negated |-> negated]
  <2>1. condition \in Terms[n] /\ n \in Nat /\ n <= MaxWords
    BY <1>6, Bounds DEF Finish, Speaking, Sentences
  <2> HIDE DEF n
  <2>2. /\ n \in 0 .. Nesting /\ n + 1 \in 1 .. Nesting /\ n + 1 \in 0 .. Nesting /\ (n + 1) - 1 = n
        /\ MaxWords + 1 \in n .. Nesting /\ MaxWords + 1 \in n + 1 .. Nesting
    BY <2>1, Bounds
  <2>3. condition \in Terms[MaxWords + 1]
    BY <2>1, <2>2, TermsUpTo
  <2>4. Never(condition) \in Terms[MaxWords + 1]
    <3>1. Never(condition) \in Terms[n + 1]
      BY <2>1, <2>2, JoinedTerms
    <3> QED
      BY <2>2, <3>1, TermsUpTo
  <2>5. Prepare(condition) \in Terms[MaxWords + 1]
    BY <2>3, <2>4 DEF Prepare
  <2>6. Selected \in Seq(Items)
    BY RulesAssumption, AtIs DEF Selected
  <2>7. (Selected = <<>> /\ ~allowed) \in BOOLEAN /\ said \in Sentences /\ negated \in BOOLEAN
    BY DEF Speaking
  <2>8. r \in Rules
    BY <2>5, <2>6, <2>7 DEF Rules
  <2> HIDE DEF r
  <2>9. rules' = Append(rules, r)
    BY <1>6 DEF Finish, r
  <2>10. rules' \in Seq(Rules)
    BY <2>8, <2>9, AppendedIs DEF Speaking
  <2>11. said' \in Sentences /\ said'.should = <<>> /\ Len(said'.should) = 0 /\ negated' \in BOOLEAN
    <3>1. said' = NothingSaid /\ negated' \in IF Len(rules) + 1 < MaxRules THEN BOOLEAN ELSE {FALSE}
      BY <1>6 DEF Finish
    <3>2. negated' \in BOOLEAN
      BY <3>1
    <3>3. NothingSaid \in Sentences /\ NothingSaid.should = <<>> /\ Len(NothingSaid.should) = 0
      BY DEF NothingSaid, Sentences
    <3> QED
      BY <3>1, <3>2, <3>3
  <2>12. Speaking'
    BY <1>6, <2>10, <2>11 DEF Finish, Speaking
  <2> QED
    BY <1>6, <2>12 DEF Finish, Reporting, ReportMatchesVerdict, Asserted
<1>7. ASSUME Evaluate PROVE Speaking' /\ Reporting'
  <2>1. Speaking'
    BY <1>7 DEF Evaluate, Speaking
  <2>2. CASE outcome' = "panicked" /\ UNCHANGED <<patterns, result>>
    BY <1>7, <2>1, <2>2 DEF Evaluate, Reporting, ReportMatchesVerdict, Asserted
  <2>3. ASSUME NEW ignored \in PatternSets, outcome' = "evaluated", patterns' = ignored,
               result' = FlattenSeq([i \in DOMAIN rules |-> Evaluated(rules[i], ignored)])
        PROVE  Reporting'
    <3> DEFINE A == Nested[MaxWords + 3]
               parts == [i \in DOMAIN rules |-> Evaluated(rules[i], ignored)]
    <3>1. ignored \in SUBSET Pattern
      BY RulesAssumption
    <3>2. MaxWords + 1 \in 0 .. Nesting /\ (MaxWords + 1) + 2 <= Nesting /\ (MaxWords + 1) + 2 = MaxWords + 3
      BY Bounds, RulesAssumption
    <3>3. ASSUME NEW i \in DOMAIN rules PROVE AreViolations(Evaluated(rules[i], ignored), MaxWords + 3)
      <4>1. rules[i].condition \in Terms[MaxWords + 1] /\ rules[i].objects \in Seq(Items)
        <5>1. rules \in Seq(Rules)
          BY DEF Speaking
        <5>2. rules[i] \in Rules
          BY <5>1
        <5> QED
          BY <5>2 DEF Rules
      <4> DEFINE n == MaxWords + 1
                 c == rules[i].condition
                 objects == rules[i].objects
      <4>2. n \in 0 .. Nesting /\ n + 2 <= Nesting /\ n + 2 = MaxWords + 3
        BY <3>2
      <4>3. c \in Terms[n] /\ objects \in Seq(Items)
        BY <4>1
      <4>4. Evaluated(rules[i], ignored) = ApplyIgnorePatterns(EvaluateAll(c, objects).violating, ignored)
        BY DEF Evaluated
      <4> HIDE DEF n, c, objects
      <4>5. AreViolations(ApplyIgnorePatterns(EvaluateAll(c, objects).violating, ignored), n + 2)
        BY <3>1, <4>2, <4>3, EvaluatedAre
      <4> QED
        BY <4>2, <4>4, <4>5
    <3>4. Len(rules) \in Nat /\ DOMAIN rules = 1 .. Len(rules)
      BY DEF Speaking
    <3>5. \A i \in DOMAIN rules : Evaluated(rules[i], ignored) \in Seq(A)
      BY <3>3 DEF AreViolations
    <3> HIDE DEF A
    <3>6. parts \in Seq(Seq(A)) /\ DOMAIN parts = DOMAIN rules
      BY <3>4, <3>5
    <3>7. \A i \in DOMAIN rules : AreViolations(parts[i], MaxWords + 3)
      BY <3>3
    <3> HIDE DEF parts
    <3>8. FlattenSeq(parts) \in Seq(A) /\ ToSet(FlattenSeq(parts)) = UNION {ToSet(parts[i]) : i \in DOMAIN parts}
      BY <3>6, FlattenedIs
    <3>9. AreViolations(FlattenSeq(parts), MaxWords + 3)
      BY <3>6, <3>7, <3>8 DEF AreViolations, A
    <3>10. A \subseteq Nested[MaxWords + 4]
      <4>1. MaxWords + 3 \in 0 .. Nesting /\ MaxWords + 4 \in MaxWords + 3 .. Nesting
        BY Bounds, RulesAssumption
      <4> QED
        BY <4>1, LevelsGrow DEF A
    <3>11. AreViolations(FlattenSeq(parts), MaxWords + 4)
      BY <3>8, <3>9, <3>10 DEF AreViolations
    <3>12. result' = FlattenSeq(parts) /\ filtered' = filtered
      BY <1>7, <2>3 DEF parts, Evaluate
    <3> QED
      BY <2>3, <3>1, <3>9, <3>11, <3>12 DEF Reporting, ReportMatchesVerdict, Asserted
  <2>4. \/ outcome' = "panicked" /\ UNCHANGED <<patterns, result>>
        \/ /\ outcome' = "evaluated"
           /\ \E ignored \in PatternSets :
                 /\ patterns' = ignored
                 /\ result' = FlattenSeq([i \in DOMAIN rules |-> Evaluated(rules[i], ignored)])
    BY <1>7 DEF Evaluate
  <2> QED
    BY <2>1, <2>2, <2>3, <2>4
<1>8. ASSUME NEW dropped \in FilterSets, Filter(dropped) PROVE Speaking' /\ Reporting'
  <2>1. Speaking'
    BY <1>8 DEF Filter, Speaking
  <2>2. AreViolations(result, MaxWords + 3) /\ dropped \in SUBSET Pattern
    BY <1>8, RulesAssumption DEF Filter, Reporting
  <2>3. MaxWords + 4 \in 1 .. Nesting /\ (MaxWords + 4) - 1 = MaxWords + 3
    BY Bounds
  <2>4. AreViolations(FilterEvents(result, dropped), MaxWords + 4)
    BY <2>2, <2>3, FilteredAre
  <2> QED
    BY <1>8, <2>1, <2>2, <2>4 DEF Filter, Reporting, ReportMatchesVerdict, Asserted
<1>9. ASSUME AssertNoViolation PROVE Speaking' /\ Reporting'
  <2>1. Speaking'
    BY <1>9 DEF AssertNoViolation, Speaking
  <2>2. (FailureReport = <<>>) <=> (result = <<>>)
    <3>1. MaxWords + 4 \in 0 .. Nesting
      BY Bounds
    <3> QED
      BY <3>1, ReportIs DEF FailureReport, Reporting
  <2> QED
    BY <1>9, <2>1, <2>2 DEF AssertNoViolation, Reporting, ReportMatchesVerdict, Asserted
<1>10. CASE UNCHANGED vars
  BY <1>10 DEF vars, Speaking, Reporting, ReportMatchesVerdict, Asserted
<1>11. ASSUME NEW p \in Predicates, That(p) \/ And(p) \/ Or(p) PROVE Speaking' /\ Reporting'
  <2>1. \E aggregator : \E connective \in Connectives : RestrictObjects(aggregator, connective, p)
    BY <1>11 DEF That, And, Or, Connectives
  <2> QED
    BY <1>1, <2>1
<1>12. ASSUME NEW c \in Conditions, AndShould(c) \/ OrShould(c) PROVE Speaking' /\ Reporting'
  BY <1>5, <1>12 DEF AndShould, OrShould, Connectives
<1> QED
  BY <1>4, <1>6, <1>7, <1>8, <1>9, <1>10, <1>11, <1>12 DEF Next

LEMMA AlwaysSpeaks == Spec => []WellSpoken
<1> QED
  BY InitSpeaks, NextSpeaks, PTL DEF Spec

(***************************************************************************)
(* check() panics exactly when has_violation() says so: an event that is a *)
(* violation always has a line, however it was joined, negated, filtered.  *)
(***************************************************************************)
THEOREM VerdictIsReported == Spec => []ReportMatchesVerdict
<1>1. WellSpoken => ReportMatchesVerdict
  BY DEF WellSpoken, Reporting
<1> QED
  BY <1>1, AlwaysSpeaks, PTL

(***************************************************************************)
(* A violation handler is told what the report says, after any filtering.  *)
(***************************************************************************)
THEOREM ReportIsHandled == Spec => []HandledIsReported
<1>1. WellSpoken => HandledIsReported
  <2> SUFFICES ASSUME WellSpoken PROVE HandledIsReported
    OBVIOUS
  <2>1. AreViolations(result, MaxWords + 4) /\ MaxWords + 4 \in 0 .. Nesting
    BY Bounds DEF WellSpoken, Reporting
  <2>2. Messages(FlattenSeq(Each(Handled, result))) = ToSet(FlattenSeq(Each(DescriptionLines, result)))
    BY <2>1, ReportIs
  <2> QED
    BY <2>2 DEF HandledIsReported, FailureReport, Messages
<1> QED
  BY <1>1, AlwaysSpeaks, PTL

(***************************************************************************)
(* Negating twice changes nothing of the events that the condition being   *)
(* written leaves: not the verdict, not the lines, not what is handled.    *)
(***************************************************************************)
THEOREM NegatingTwice == Spec => []DoubleNegation
<1>1. WellSpoken => DoubleNegation
  <2> SUFFICES ASSUME WellSpoken, condition # None, NEW o \in ToSet(Objects),
                      NEW e \in ToSet(AllEvents(Check(condition, o)))
               PROVE  NegatedTwice(e)
    BY DEF DoubleNegation
  <2> DEFINE n == Len(said.should)
  <2>1. condition \in Terms[n] /\ n \in Nat /\ n <= MaxWords
    BY Bounds DEF WellSpoken, Speaking, Sentences
  <2> HIDE DEF n
  <2>2. n \in 0 .. Nesting /\ n + 1 <= Nesting
    BY <2>1, Bounds, RulesAssumption
  <2>3. o \in Items
    BY RulesAssumption, SetOfSeq
  <2>4. WellFound(Check(condition, o), n + 1)
    BY <2>1, <2>2, <2>3, ChecksAre
  <2>5. e \in Built
    BY <2>4, FoundIs DEF WellFound
  <2> QED
    BY <2>5, TwiceIs
<1> QED
  BY <1>1, AlwaysSpeaks, PTL

-----------------------------------------------------------------------------
(***************************************************************************)
(* Events that tell whether something holds, as they are and inverted: it  *)
(* is what `never` needs to be right, which sees no condition again.       *)
(***************************************************************************)
Tells(e, holds) == e \in Built /\ IsViolation[e] = ~holds /\ IsViolation[Invert[e]] = holds

Telling(events, holds) == FoundIn(events) # {} /\ \A d \in FoundIn(events) : Tells(d, holds)

LEMMA InvertTells ==
    ASSUME NEW e, NEW holds \in BOOLEAN, Tells(e, holds)
    PROVE  Tells(Invert[e], ~holds)
<1>1. Invert[e] \in Built
  BY InvertBuilds DEF Tells
<1>2. IsViolation[Invert[Invert[e]]] = IsViolation[e]
  BY TwiceIs DEF Tells, NegatedTwice
<1> QED
  BY <1>1, <1>2 DEF Tells

LEMMA ToldByViolations ==
    ASSUME NEW A, NEW events \in Found(A), Sorted(events), NEW holds \in BOOLEAN, Telling(events, holds)
    PROVE  ContainViolation(events) = ~holds
<1>1. events.violating \in Seq(A) /\ events.allowed \in Seq(A)
  BY FoundIs
<1>2. (events.violating = <<>>) <=> (ToSet(events.violating) = {})
  BY <1>1, NothingInside
<1>3. \A d \in FoundIn(events) : IsViolation[d] = ~holds
  BY DEF Telling, Tells
<1>4. CASE holds
  <2>1. ToSet(events.violating) = {}
    BY <1>3, <1>4 DEF Sorted, FoundIn
  <2> QED
    BY <1>2, <1>4, <2>1 DEF ContainViolation
<1>5. CASE ~holds
  <2>1. ToSet(events.allowed) = {}
    BY <1>3, <1>5 DEF Sorted, FoundIn
  <2>2. ToSet(events.violating) # {}
    BY <2>1 DEF Telling, FoundIn
  <2> QED
    BY <1>2, <1>5, <2>2 DEF ContainViolation
<1> QED
  BY <1>4, <1>5

LEMMA NeverTells ==
    ASSUME NEW n \in 0 .. Nesting, NEW events, WellFound(events, n),
           NEW holds \in BOOLEAN, Telling(events, holds)
    PROVE  Telling(AddAllInverted(NoEvents, events), ~holds)
<1>1. FoundIn(AddAllInverted(NoEvents, events)) = {Invert[d] : d \in FoundIn(events)}
  BY InvertedAreWellFound
<1>2. \A d \in FoundIn(events) : Tells(Invert[d], ~holds)
  BY InvertTells DEF Telling
<1> QED
  BY <1>1, <1>2 DEF Telling

LEMMA JoinTells ==
    ASSUME NEW n \in 1 .. Nesting, NEW kind \in {"and", "or"}, NEW o \in Items,
           NEW evaluated \in Seq(Found(Nested[n - 1])), DOMAIN evaluated = {1, 2},
           \A i \in DOMAIN evaluated : WellFound(evaluated[i], n - 1),
           NEW first \in BOOLEAN, NEW second \in BOOLEAN,
           Telling(evaluated[1], first), Telling(evaluated[2], second)
    PROVE  Tells(JoinEvent(kind, o, evaluated), IF kind = "and" THEN first /\ second ELSE first \/ second)
<1> DEFINE e == JoinEvent(kind, o, evaluated)
           E == InvertAll(Invert, evaluated)
<1>1. e \in Event /\ e \in Built /\ e.kind = kind /\ e.evaluated = evaluated
  BY JoinEventIs
<1> HIDE DEF e
<1>2. ContainViolation(evaluated[1]) = ~first /\ ContainViolation(evaluated[2]) = ~second
  <2>1. \A i \in {1, 2} : evaluated[i] \in Found(Nested[n - 1]) /\ Sorted(evaluated[i])
    BY DEF WellFound
  <2> QED
    BY <2>1, ToldByViolations
<1>3. e.kind = "and" => IsViolation[e] = AndViolated(e)
  BY <1>1, EventsDecide
<1>4. e.kind = "or" => IsViolation[e] = OrViolated(e)
  BY <1>1, EventsDecide
<1>5. E \in Seq(Found(Event)) /\ DOMAIN E = {1, 2}
      /\ \A i \in {1, 2} : Sorted(E[i]) /\ FoundIn(E[i]) = {Invert[d] : d \in FoundIn(evaluated[i])}
  BY <1>1, InvertAllOf
<1> HIDE DEF E
<1>6. Telling(E[1], ~first) /\ Telling(E[2], ~second)
  <2>1. \A d \in FoundIn(evaluated[1]) : Tells(Invert[d], ~first)
    BY InvertTells DEF Telling
  <2>2. \A d \in FoundIn(evaluated[2]) : Tells(Invert[d], ~second)
    BY InvertTells DEF Telling
  <2>3. FoundIn(E[1]) = {Invert[d] : d \in FoundIn(evaluated[1])}
        /\ FoundIn(E[2]) = {Invert[d] : d \in FoundIn(evaluated[2])}
    BY <1>5
  <2> QED
    BY <2>1, <2>2, <2>3 DEF Telling
<1>7. ContainViolation(E[1]) = first /\ ContainViolation(E[2]) = second
  <2>1. E[1] \in Found(Event) /\ E[2] \in Found(Event) /\ Sorted(E[1]) /\ Sorted(E[2])
    <3> DEFINE B == Found(Event)
    <3>1. E \in Seq(B)
      BY <1>5
    <3> HIDE DEF B
    <3>2. \A i \in DOMAIN E : E[i] \in B
      BY <3>1
    <3>3. DOMAIN E = {1, 2} /\ \A i \in {1, 2} : Sorted(E[i])
      BY <1>5
    <3> QED
      BY <3>2, <3>3 DEF B
  <2>2. ContainViolation(E[1]) = ~(~first)
    BY <1>6, <2>1, ToldByViolations
  <2>3. ContainViolation(E[2]) = ~(~second)
    BY <1>6, <2>1, ToldByViolations
  <2> QED
    BY <2>2, <2>3
<1>8. CASE kind = "and"
  <2>1. IsViolation[e] = (~first \/ ~second)
    BY <1>1, <1>2, <1>3, <1>8 DEF AndViolated
  <2>2. Invert[e] = JoinEvent("or", e.object, E) /\ Invert[e] \in Event
    BY <1>1, <1>8, InvertOf DEF E
  <2>3. Invert[e].kind = "or" /\ Invert[e].evaluated = E
    BY <2>2 DEF JoinEvent
  <2>4. IsViolation[Invert[e]] = OrViolated(Invert[e])
    BY <2>2, <2>3, EventsDecide
  <2>5. OrViolated(Invert[e]) = (first /\ second)
    BY <1>5, <1>7, <2>3 DEF OrViolated
  <2> QED
    BY <1>1, <1>8, <2>1, <2>4, <2>5 DEF Tells, e
<1>9. CASE kind = "or"
  <2>1. IsViolation[e] = (~first /\ ~second)
    BY <1>1, <1>2, <1>4, <1>9 DEF OrViolated
  <2>2. Invert[e] = JoinEvent("and", e.object, E) /\ Invert[e] \in Event
    BY <1>1, <1>9, InvertOf DEF E
  <2>3. Invert[e].kind = "and" /\ Invert[e].evaluated = E
    BY <2>2 DEF JoinEvent
  <2>4. IsViolation[Invert[e]] = AndViolated(Invert[e])
    BY <2>2, <2>3, EventsDecide
  <2>5. AndViolated(Invert[e]) = (first \/ second)
    BY <1>5, <1>7, <2>3 DEF AndViolated
  <2> QED
    BY <1>1, <1>9, <2>1, <2>4, <2>5 DEF Tells, e
<1> QED
  BY <1>8, <1>9

(***************************************************************************)
(* A predefined condition that decides an object tells whether it holds.   *)
(***************************************************************************)
LEMMA AttributeTells ==
    ASSUME NEW l \in Leaves, NEW o \in Items, NEW a \in ToSet(Attributes[l][o])
    PROVE  Tells(AttributeEvent(l, a), a \in Satisfying[l])
<1> DEFINE e == AttributeEvent(l, a)
<1>1. e \in SimpleEvents /\ IsViolation[e] = (a \notin Satisfying[l])
  BY AttributeEventsAre
<1>2. e.satisfied = (a \in Satisfying[l])
  BY DEF AttributeEvent, SimpleEvent
<1> HIDE DEF e
<1>3. e \in Built /\ e \in Event /\ e.kind = "simple"
  BY <1>1, SimpleIsBuilt
<1>4. Invert[e] = SimpleEvent(e.object, ~e.satisfied, e.message) /\ Invert[e] \in Event
  BY <1>3, InvertOf
<1>5. Invert[e].kind = "simple" /\ Invert[e].satisfied = ~e.satisfied
  BY <1>4 DEF SimpleEvent
<1>6. IsViolation[Invert[e]] = ~Invert[e].satisfied
  BY <1>4, <1>5, EventsDecide
<1>7. IsViolation[Invert[e]] = (a \in Satisfying[l])
  <2>1. IsViolation[Invert[e]] = ~(~(a \in Satisfying[l]))
    BY <1>2, <1>5, <1>6, Zenon
  <2> QED
    BY <2>1
<1> QED
  BY <1>1, <1>3, <1>7 DEF Tells, e

LEMMA AttributesTell ==
    ASSUME NEW l \in Leaves, NEW o \in Items, LeafKind[l] \in {"any", "only"},
           NEW sub, sub = AttributeEvents(l, o),
           NEW e, e = AttributesEvent(LeafKind[l], Attributes[l][o], sub.allowed, sub.violating)
    PROVE  Tells(e, LeafHolds(l, o))
<1> DEFINE A == ToSet(Attributes[l][o])
           S == Satisfying[l]
<1>1. e \in Event /\ e \in Built /\ e.kind = LeafKind[l] /\ e.allowed = sub.allowed /\ e.violating = sub.violating
  BY AttributesEventIs
<1>2. sub \in Found(Nested[0]) /\ Sorted(sub) /\ FoundIn(sub) = {AttributeEvent(l, a) : a \in A}
  BY AttributeEventsAre DEF WellFound
<1>3. \A a \in A : IsViolation[AttributeEvent(l, a)] = (a \notin S)
  BY AttributeEventsAre
<1>4. sub.allowed \in Seq(Nested[0]) /\ sub.violating \in Seq(Nested[0])
  BY <1>2, FoundIs
<1> HIDE DEF A, S
<1>5. (sub.allowed = <<>>) <=> (A \cap S = {})
  <2>1. (sub.allowed = <<>>) <=> (ToSet(sub.allowed) = {})
    BY <1>4, NothingInside
  <2>2. ToSet(sub.allowed) = {AttributeEvent(l, a) : a \in A \cap S}
    BY <1>2, <1>3 DEF Sorted, FoundIn
  <2> QED
    BY <2>1, <2>2
<1>6. (sub.violating = <<>>) <=> (A \subseteq S)
  <2>1. (sub.violating = <<>>) <=> (ToSet(sub.violating) = {})
    BY <1>4, NothingInside
  <2>2. ToSet(sub.violating) = {AttributeEvent(l, a) : a \in A \ S}
    BY <1>2, <1>3 DEF Sorted, FoundIn
  <2> QED
    BY <2>1, <2>2
<1>7. CASE LeafKind[l] = "any"
  <2>1. LeafHolds(l, o) = (A \cap S # {})
    BY <1>7 DEF LeafHolds, A, S
  <2>2. IsViolation[e] = AnyViolated(e)
    BY <1>1, <1>7, EventsDecide
  <2>3. Invert[e] = AttributesEvent("only", e.objects, e.violating, e.allowed) /\ Invert[e] \in Event
    BY <1>1, <1>7, InvertOf
  <2>4. Invert[e].kind = "only" /\ Invert[e].violating = e.allowed
    BY <2>3 DEF AttributesEvent
  <2>5. IsViolation[Invert[e]] = OnlyViolated(Invert[e])
    BY <2>3, <2>4, EventsDecide
  <2> QED
    BY <1>1, <1>5, <2>1, <2>2, <2>4, <2>5 DEF Tells, AnyViolated, OnlyViolated
<1>8. CASE LeafKind[l] = "only"
  <2>1. LeafHolds(l, o) = (A \subseteq S)
    BY <1>8 DEF LeafHolds, A, S
  <2>2. IsViolation[e] = OnlyViolated(e)
    BY <1>1, <1>8, EventsDecide
  <2>3. Invert[e] = AttributesEvent("any", e.objects, e.violating, e.allowed) /\ Invert[e] \in Event
    BY <1>1, <1>8, InvertOf
  <2>4. Invert[e].kind = "any" /\ Invert[e].allowed = e.violating
    BY <2>3 DEF AttributesEvent
  <2>5. IsViolation[Invert[e]] = AnyViolated(Invert[e])
    BY <2>3, <2>4, EventsDecide
  <2> QED
    BY <1>1, <1>6, <2>1, <2>2, <2>4, <2>5 DEF Tells, AnyViolated, OnlyViolated
<1> QED
  BY <1>7, <1>8

LEMMA LeafTells ==
    ASSUME NEW l \in Leaves, NEW o \in ToSet(Objects), Decides(l)
    PROVE  Telling(CheckLeaf(l, o), LeafHolds(l, o))
<1> DEFINE A == Attributes[l][o]
           sub == AttributeEvents(l, o)
<1>1. o \in Items
  BY RulesAssumption, SetOfSeq
<1>2. LeafKind[l] \in {"predicate", "events", "any", "only"}
  BY ConditionsAssumption DEF Decides
<1>3. A \in Seq(Nat)
  BY <1>1, ConditionsAssumption
<1>4. FoundIn(sub) = {AttributeEvent(l, a) : a \in ToSet(A)}
  BY <1>1, AttributeEventsAre
<1>5. CASE LeafKind[l] \in {"predicate", "events"}
  <2>1. Len(A) = 1
    BY <1>1, <1>5, ConditionsAssumption DEF Decides
  <2>2. ToSet(A) = {A[1]}
    BY <1>3, <2>1, SingleIs
  <2>3. CheckLeaf(l, o) = sub
    BY <1>5 DEF CheckLeaf
  <2>4. LeafHolds(l, o) = (A[1] \in Satisfying[l])
    BY <1>5, <2>2 DEF LeafHolds
  <2>5. Tells(AttributeEvent(l, A[1]), A[1] \in Satisfying[l])
    BY <1>1, <2>2, AttributeTells
  <2> QED
    BY <1>4, <2>2, <2>3, <2>4, <2>5 DEF Telling
<1>6. CASE LeafKind[l] \in {"any", "only"}
  <2> DEFINE e == AttributesEvent(LeafKind[l], A, sub.allowed, sub.violating)
  <2>1. A # <<>>
    BY <1>6 DEF Decides
  <2>2. ToSet(A) # {}
    BY <1>3, <2>1, NothingInside
  <2>3. FoundIn(sub) # {}
    BY <1>4, <2>2
  <2>4. sub # NoEvents
    <3>1. FoundIn(NoEvents) = {}
      BY DEF FoundIn, NoEvents, ToSet
    <3> QED
      BY <2>3, <3>1
  <2>5. CheckLeaf(l, o) = AddEvents(NoEvents, <<e>>)
    BY <1>6, <2>4 DEF CheckLeaf, CheckAttributes
  <2>6. Tells(e, LeafHolds(l, o)) /\ e \in Event
    BY <1>1, <1>6, AttributesTell, AttributesEventIs
  <2> HIDE DEF e, sub, A
  <2>7. <<e>> \in Seq(Event) /\ ToSet(<<e>>) = {e}
    BY ONLY <2>6, OneIs
  <2>8. FoundIn(AddEvents(NoEvents, <<e>>)) = {e}
    BY <2>7, SortedIs
  <2> QED
    BY <2>5, <2>6, <2>8 DEF Telling
<1> QED
  BY <1>2, <1>5, <1>6

-----------------------------------------------------------------------------
(***************************************************************************)
(* A sentence is read word by word.                                        *)
(***************************************************************************)
Readings == [connective : Connectives, of : SUBSET ToSet(Objects)]

Read(S, w) == IF w.connective = "and" THEN S \cap w.of ELSE S \cup w.of

Reading(f, s) == f[0] = ToSet(Objects) /\ \A n \in 1 .. Len(s) : f[n] = Read(f[n - 1], s[n])

LEMMA MeaningReads ==
    ASSUME NEW s \in Seq(Readings)
    PROVE  \E f : Reading(f, s) /\ Meaning(s) = f[Len(s)] /\ \A n \in 0 .. Len(s) : f[n] \subseteq ToSet(Objects)
<1> DEFINE N == Len(s)
           D == SUBSET ToSet(Objects)
           Is(f) == f = [i \in 0 .. N |->
                            IF i = 0 THEN ToSet(Objects)
                            ELSE IF s[i].connective = "and" THEN f[i - 1] \cap s[i].of
                            ELSE f[i - 1] \cup s[i].of]
           after == CHOOSE f : Is(f)
           F == [q \in Nat \X D |-> IF q[1] \in 1 .. N THEN Read(q[2], s[q[1]]) ELSE q[2]]
<1>1. N \in Nat /\ \A n \in 1 .. N : s[n] \in Readings
  OBVIOUS
<1>2. Meaning(s) = after[N]
  BY DEF Meaning
<1>3. \A f : Is(f) <=> f = [i \in 0 .. N |-> IF i = 0 THEN ToSet(Objects) ELSE Read(f[i - 1], s[i])]
  BY DEF Read
<1>4. \A S \in D, n \in 1 .. N : Read(S, s[n]) \in D
  BY <1>1 DEF Readings, Read
<1>5. ToSet(Objects) \in D
  OBVIOUS
<1> HIDE DEF N, D, Is
<1>6. F \in [Nat \X D -> D]
  BY <1>4
<1>7. \A n \in 1 .. N : \A S \in D : F[<<n, S>>] = Read(S, s[n])
  BY <1>1
<1> HIDE DEF F
<1>8. PICK f \in [0 .. N -> D] : Solves(f, F, ToSet(Objects), N)
  BY <1>1, <1>5, <1>6, RecursionExists
<1>9. \A n \in 0 .. N : f[n] = IF n = 0 THEN ToSet(Objects) ELSE Read(f[n - 1], s[n])
  <2> SUFFICES ASSUME NEW n \in 0 .. N, n # 0 PROVE f[n] = Read(f[n - 1], s[n])
    BY <1>8 DEF Solves
  <2>1. n \in 1 .. N /\ n - 1 \in 0 .. N
    BY <1>1
  <2>2. f[n - 1] \in D
    BY <1>8, <2>1
  <2> QED
    BY <1>7, <1>8, <2>1, <2>2 DEF Solves
<1>10. Is(f)
  BY <1>3, <1>9
<1>11. Is(after)
  BY <1>10
<1> HIDE DEF after
<1>12. after[0] = ToSet(Objects) /\ \A n \in 0 .. N : n # 0 => after[n] = Read(after[n - 1], s[n])
  BY <1>1, <1>3, <1>11
<1>13. Reading(after, s)
  BY <1>1, <1>12 DEF Reading, N
<1> DEFINE T == {n \in 0 .. N : after[n] \in D}
<1>14. 0 \in T
  BY <1>1, <1>5, <1>12
<1>15. ASSUME NEW n \in 1 .. N, n - 1 \in T PROVE n \in T
  BY <1>1, <1>4, <1>12, <1>15
<1>16. \A n \in 0 .. N : n \in T
  <2> HIDE DEF T
  <2> QED
    BY <1>1, <1>14, <1>15, OneAfterTheOther
<1>17. \A n \in 0 .. N : after[n] \subseteq ToSet(Objects)
  BY <1>16 DEF D
<1> QED
  BY <1>2, <1>13, <1>17 DEF N

LEMMA MeaningIs ==
    ASSUME NEW s \in Seq(Readings), NEW w \in Readings
    PROVE  /\ Meaning(<<>>) = ToSet(Objects)
           /\ Meaning(s) \subseteq ToSet(Objects)
           /\ Meaning(Append(s, w)) = Read(Meaning(s), w)
<1> DEFINE N == Len(s)
           t == Append(s, w)
<1>1. N \in Nat /\ t \in Seq(Readings) /\ Len(t) = N + 1 /\ t[N + 1] = w /\ \A n \in 1 .. N : t[n] = s[n]
  OBVIOUS
<1> HIDE DEF t
<1>2. Meaning(<<>>) = ToSet(Objects)
  <2>1. <<>> \in Seq(Readings) /\ Len(<<>>) = 0
    OBVIOUS
  <2>2. PICK f : Reading(f, <<>>) /\ Meaning(<<>>) = f[Len(<<>>)]
    BY <2>1, MeaningReads
  <2> QED
    BY <2>1, <2>2 DEF Reading
<1>3. PICK f : Reading(f, s) /\ Meaning(s) = f[N] /\ \A n \in 0 .. N : f[n] \subseteq ToSet(Objects)
  BY MeaningReads
<1>4. PICK g : Reading(g, t) /\ Meaning(t) = g[N + 1]
  BY <1>1, MeaningReads
<1>5. Meaning(s) \subseteq ToSet(Objects)
  BY <1>1, <1>3
<1> HIDE DEF N
<1>6. f[0] = ToSet(Objects) /\ \A n \in 1 .. N : f[n] = Read(f[n - 1], s[n])
  BY <1>3 DEF Reading, N
<1>7. g[0] = ToSet(Objects) /\ \A n \in 1 .. N + 1 : g[n] = Read(g[n - 1], t[n])
  BY <1>1, <1>4 DEF Reading
<1> DEFINE T == {n \in 0 .. N : g[n] = f[n]}
<1>8. 0 \in T
  BY <1>1, <1>6, <1>7
<1>9. ASSUME NEW n \in 1 .. N, n - 1 \in T PROVE n \in T
  BY <1>1, <1>6, <1>7, <1>9
<1>10. \A n \in 0 .. N : n \in T
  <2> HIDE DEF T
  <2> QED
    BY <1>1, <1>8, <1>9, OneAfterTheOther
<1>11. g[N] = Meaning(s)
  BY <1>1, <1>3, <1>10
<1>12. N + 1 \in 1 .. N + 1 /\ (N + 1) - 1 = N
  BY <1>1
<1>13. Meaning(t) = Read(Meaning(s), w)
  BY <1>1, <1>4, <1>7, <1>11, <1>12
<1> QED
  BY <1>2, <1>5, <1>13 DEF t

LEMMA HoldsForIs == \A c : HoldsFor(c) \in SUBSET ToSet(Objects)
BY DEF HoldsFor

LEMMA WordsHeld ==
    ASSUME NEW s \in Seq([connective : Connectives, of : Conditions])
    PROVE  [i \in DOMAIN s |-> Word(s[i].connective, HoldsFor(s[i].of))] \in Seq(Readings)
<1>1. Len(s) \in Nat /\ DOMAIN s = 1 .. Len(s)
  OBVIOUS
<1>2. ASSUME NEW i \in DOMAIN s PROVE Word(s[i].connective, HoldsFor(s[i].of)) \in Readings
  <2> DEFINE W == [connective : Connectives, of : Conditions]
  <2>1. s[i] \in [connective : Connectives, of : Conditions]
    <3>1. s \in Seq(W)
      OBVIOUS
    <3> HIDE DEF W
    <3>2. s[i] \in W
      BY <3>1
    <3> QED
      BY <3>2 DEF W
  <2> HIDE DEF W
  <2>2. s[i].connective \in Connectives /\ HoldsFor(s[i].of) \in SUBSET ToSet(Objects)
    BY <2>1, HoldsForIs
  <2> QED
    BY <2>2 DEF Word, Readings
<1> QED
  BY <1>1, <1>2

LEMMA DemandedIs ==
    ASSUME NEW s \in Seq([connective : Connectives, of : Conditions]), NEW connective \in Connectives,
           NEW c \in Conditions
    PROVE  /\ Demanded(<<>>) = ToSet(Objects)
           /\ Demanded(Append(s, Word(connective, c))) = Read(Demanded(s), Word(connective, HoldsFor(c)))
<1> DEFINE Held(x) == [i \in DOMAIN x |-> Word(x[i].connective, HoldsFor(x[i].of))]
           t == Append(s, Word(connective, c))
           v == Word(connective, HoldsFor(c))
<1>1. Word(connective, c) \in [connective : Connectives, of : Conditions] /\ v \in Readings
  BY HoldsForIs DEF Word, Readings
<1>2. \A x : Demanded(x) = Meaning(Held(x))
  BY DEF Demanded
<1>3. Held(s) \in Seq(Readings) /\ Len(Held(s)) = Len(s) /\ Len(s) \in Nat
  <2>1. Held(s) \in Seq(Readings)
    BY WordsHeld
  <2> QED
    BY <2>1
<1>4. t \in Seq([connective : Connectives, of : Conditions]) /\ Len(t) = Len(s) + 1
      /\ t[Len(s) + 1] = Word(connective, c) /\ \A i \in 1 .. Len(s) : t[i] = s[i]
  BY <1>1
<1>5. Held(t) = Append(Held(s), v)
  <2>1. DOMAIN Held(t) = 1 .. Len(s) + 1 /\ DOMAIN Append(Held(s), v) = 1 .. Len(s) + 1
        /\ DOMAIN t = 1 .. Len(s) + 1 /\ DOMAIN s = 1 .. Len(s)
    BY <1>1, <1>3, <1>4
  <2>2. \A i \in 1 .. Len(s) : Held(t)[i] = Held(s)[i] /\ Append(Held(s), v)[i] = Held(s)[i]
    BY <1>1, <1>3, <1>4, <2>1
  <2>3. Held(t)[Len(s) + 1] = v /\ Append(Held(s), v)[Len(s) + 1] = v
    <3>1. Held(t)[Len(s) + 1] = Word(t[Len(s) + 1].connective, HoldsFor(t[Len(s) + 1].of))
      BY <1>3, <2>1
    <3>2. Word(connective, c).connective = connective /\ Word(connective, c).of = c
      BY DEF Word
    <3>3. Append(Held(s), v)[Len(s) + 1] = v
      BY <1>1, <1>3
    <3> QED
      BY <1>4, <3>1, <3>2, <3>3
  <2>4. Held(t) \in Seq(Readings) /\ Append(Held(s), v) \in Seq(Readings)
    <3>1. Held(t) \in Seq(Readings)
      BY <1>4, WordsHeld
    <3> QED
      BY <1>1, <1>3, <3>1
  <2> HIDE DEF Held, v, t
  <2>5. \A i \in 1 .. Len(s) + 1 : i \in 1 .. Len(s) \/ i = Len(s) + 1
    BY <1>3
  <2>6. \A i \in 1 .. Len(s) + 1 : Held(t)[i] = Append(Held(s), v)[i]
    BY <2>2, <2>3, <2>5
  <2> QED
    BY <2>1, <2>4, <2>6
<1>6. Held(<<>>) = <<>>
  OBVIOUS
<1> HIDE DEF Held, v, t
<1>7. Demanded(t) = Read(Demanded(s), v)
  BY <1>1, <1>2, <1>3, <1>5, MeaningIs
<1>8. Demanded(<<>>) = ToSet(Objects)
  BY <1>1, <1>2, <1>3, <1>6, MeaningIs
<1> QED
  BY <1>7, <1>8 DEF t, v

-----------------------------------------------------------------------------
(***************************************************************************)
(* What checking the condition of a sentence leaves tells of each object   *)
(* whether the sentence demands it, and finishing it leaves nothing, if    *)
(* its words decide every object.                                          *)
(***************************************************************************)
LEMMA ChecksOf ==
    ASSUME NEW o
    PROVE  /\ \A l : Leaf(l) \in Condition => Check(Leaf(l), o) = CheckLeaf(l, o)
           /\ \A c \in Condition : Never(c) \in Condition =>
                Check(Never(c), o) = AddAllInverted(NoEvents, Check(c, o))
           /\ \A isAnd \in BOOLEAN : \A c, d \in Condition : Join(isAnd, c, d) \in Condition =>
                Check(Join(isAnd, c, d), o) =
                    AddEvents(NoEvents, <<JoinEvent(IF isAnd THEN "and" ELSE "or", o,
                                                    <<Check(c, o), Check(d, o)>>)>>)
<1> PICK h : \A c \in Condition : Check(c, o) = h[c] /\ h[c] = CheckedBy(h, c, o)
  BY CheckIs
<1>1. ASSUME NEW l, Leaf(l) \in Condition PROVE Check(Leaf(l), o) = CheckLeaf(l, o)
  <2>1. CheckedBy(h, Leaf(l), o) = CheckLeaf(l, o)
    BY DEF CheckedBy, Leaf
  <2> QED
    BY <1>1, <2>1
<1>2. ASSUME NEW c \in Condition, Never(c) \in Condition
      PROVE  Check(Never(c), o) = AddAllInverted(NoEvents, Check(c, o))
  <2>1. CheckedBy(h, Never(c), o) = AddAllInverted(NoEvents, h[c])
    BY DEF CheckedBy, Never
  <2> QED
    BY <1>2, <2>1
<1>3. ASSUME NEW isAnd \in BOOLEAN, NEW c \in Condition, NEW d \in Condition, Join(isAnd, c, d) \in Condition
      PROVE  Check(Join(isAnd, c, d), o) =
                    AddEvents(NoEvents, <<JoinEvent(IF isAnd THEN "and" ELSE "or", o,
                                                    <<Check(c, o), Check(d, o)>>)>>)
  <2> DEFINE x == Join(isAnd, c, d)
  <2>1. x.kind = "join" /\ x.isAnd = isAnd /\ x.conditions = <<c, d>>
    BY DEF Join
  <2> HIDE DEF x
  <2>2. CheckedBy(h, x, o) = AddEvents(NoEvents, <<JoinEvent(IF isAnd THEN "and" ELSE "or", o, Each(h, <<c, d>>))>>)
    BY <2>1 DEF CheckedBy
  <2>3. Each(h, <<c, d>>) = <<h[c], h[d]>>
    BY DEF Each
  <2>4. h[c] = Check(c, o) /\ h[d] = Check(d, o) /\ Check(x, o) = CheckedBy(h, x, o)
    BY <1>3 DEF x
  <2> QED
    BY <2>2, <2>3, <2>4 DEF x
<1> QED
  BY <1>1, <1>2, <1>3

LEMMA NothingIsLeft ==
    ASSUME NEW objects
    PROVE  /\ \A l : Leaf(l) \in Condition /\ LeafKind[l] # "count" => FinishAll(Leaf(l), objects) = <<>>
           /\ \A c \in Condition : Never(c) \in Condition /\ FinishAll(c, objects) = <<>> =>
                FinishAll(Never(c), objects) = <<>>
           /\ \A isAnd \in BOOLEAN : \A c, d \in Condition :
                Join(isAnd, c, d) \in Condition /\ FinishAll(c, objects) = <<>> /\ FinishAll(d, objects) = <<>> =>
                    FinishAll(Join(isAnd, c, d), objects) = <<>>
<1> PICK h : \A c \in Condition : FinishAll(c, objects) = h[c] /\ h[c] = FinishedBy(h, c, objects)
  BY FinishAllIs
<1>1. ASSUME NEW l, Leaf(l) \in Condition, LeafKind[l] # "count" PROVE FinishAll(Leaf(l), objects) = <<>>
  <2>1. FinishedBy(h, Leaf(l), objects) = <<>>
    BY <1>1 DEF FinishedBy, Leaf
  <2> QED
    BY <1>1, <2>1
<1>2. ASSUME NEW c \in Condition, Never(c) \in Condition, FinishAll(c, objects) = <<>>
      PROVE  FinishAll(Never(c), objects) = <<>>
  <2> DEFINE all == AllEvents(AddEvents(NoEvents, <<>>))
  <2>1. h[c] = <<>>
    BY <1>2
  <2>2. FinishedBy(h, Never(c), objects) = Each(Invert, all)
    BY <2>1 DEF FinishedBy, Never
  <2>3. all \in Seq({}) /\ ToSet(all) = {}
    <3>1. <<>> \in Seq({}) /\ ToSet(<<>>) = {}
      BY DEF ToSet
    <3>2. AddEvents(NoEvents, <<>>) \in Found({}) /\ FoundIn(AddEvents(NoEvents, <<>>)) = {}
      BY <3>1, SortedIs
    <3> QED
      BY <3>2, FoundIs
  <2> HIDE DEF all
  <2>4. all = <<>>
    BY <2>3, NothingInside
  <2>5. Each(Invert, all) = <<>>
    BY <2>4 DEF Each
  <2> QED
    BY <1>2, <2>2, <2>5
<1>3. ASSUME NEW isAnd \in BOOLEAN, NEW c \in Condition, NEW d \in Condition, Join(isAnd, c, d) \in Condition,
             FinishAll(c, objects) = <<>>, FinishAll(d, objects) = <<>>
      PROVE  FinishAll(Join(isAnd, c, d), objects) = <<>>
  <2> DEFINE x == Join(isAnd, c, d)
             parts == Each(h, <<c, d>>)
  <2>1. x.kind = "join" /\ x.conditions = <<c, d>>
    BY DEF Join
  <2>2. FinishAll(x, objects) = FlattenSeq(parts)
    BY <1>3, <2>1 DEF FinishedBy
  <2>3. parts = <<<<>>, <<>>>>
    <3>1. h[c] = <<>> /\ h[d] = <<>>
      BY <1>3
    <3> QED
      BY <3>1 DEF Each
  <2> HIDE DEF parts, x
  <2>4. parts \in Seq(Seq({})) /\ DOMAIN parts = {1, 2} /\ \A i \in {1, 2} : parts[i] = <<>>
    BY <2>3
  <2>5. FlattenSeq(parts) \in Seq({}) /\ ToSet(FlattenSeq(parts)) = UNION {ToSet(parts[i]) : i \in DOMAIN parts}
    BY <2>4, FlattenedIs
  <2>6. ToSet(FlattenSeq(parts)) = {}
    BY <2>4, <2>5 DEF ToSet
  <2>7. FlattenSeq(parts) = <<>>
    BY <2>5, <2>6, NothingInside
  <2> QED
    BY <2>2, <2>7 DEF x
<1> QED
  BY <1>1, <1>2, <1>3

ConditionWords == [connective : Connectives, of : Conditions]

Meant(c, s) ==
    (\A i \in DOMAIN s : Decides(LeafOf(s[i].of))) =>
        /\ \A o \in ToSet(Objects) : Telling(Check(c, o), o \in Demanded(s))
        /\ \A objects \in Seq(Items) : FinishAll(c, objects) = <<>>

LEMMA LeafHoldsType == \A l, o : LeafHolds(l, o) \in BOOLEAN
BY DEF LeafHolds

LEMMA WordsTell ==
    ASSUME NEW c \in Conditions, Decides(LeafOf(c))
    PROVE  /\ \A o \in ToSet(Objects) : Telling(Check(c, o), o \in HoldsFor(c))
           /\ \A objects \in Seq(Items) : FinishAll(c, objects) = <<>>
<1>1. PICK l \in Leaves : c = Leaf(l) \/ c = Never(Leaf(l))
  BY RulesAssumption
<1>2. Leaf(l) \in Terms[0] /\ Leaf(l) \in Condition /\ Never(Leaf(l)) \in Condition
  <2>1. 0 \in 0 .. Nesting /\ 1 \in 1 .. Nesting /\ 1 \in 0 .. Nesting /\ 1 - 1 = 0
    BY Bounds
  <2>2. Leaf(l) \in Terms[0]
    BY TermsIs DEF Leaf, LeafTerms
  <2>3. Never(Leaf(l)) \in Terms[1]
    BY <2>1, <2>2, JoinedTerms
  <2> QED
    BY <2>1, <2>2, <2>3, TermsGrow
<1>3. LeafOf(c) = l /\ (c.kind # "never") = (c = Leaf(l))
  BY <1>1 DEF LeafOf, Leaf, Never
<1>4. Decides(l) /\ LeafKind[l] # "count"
  BY <1>3 DEF Decides
<1>5. ASSUME NEW o \in ToSet(Objects)
      PROVE  /\ Telling(Check(Leaf(l), o), LeafHolds(l, o))
             /\ Telling(Check(Never(Leaf(l)), o), ~LeafHolds(l, o))
             /\ (o \in HoldsFor(c)) = (LeafHolds(l, o) = (c = Leaf(l)))
  <2>1. o \in Items
    BY RulesAssumption, SetOfSeq
  <2>2. Check(Leaf(l), o) = CheckLeaf(l, o)
    BY <1>2, ChecksOf
  <2>3. Telling(Check(Leaf(l), o), LeafHolds(l, o))
    BY <1>4, <2>2, LeafTells
  <2>4. Check(Never(Leaf(l)), o) = AddAllInverted(NoEvents, Check(Leaf(l), o))
    BY <1>2, ChecksOf
  <2>5. WellFound(Check(Leaf(l), o), 1) /\ 1 \in 0 .. Nesting
    BY <2>1, <2>2, CheckLeafIs, Bounds
  <2>6. Telling(Check(Never(Leaf(l)), o), ~LeafHolds(l, o))
    BY <2>3, <2>4, <2>5, NeverTells, LeafHoldsType
  <2>7. (o \in HoldsFor(c)) = (LeafHolds(l, o) = (c = Leaf(l)))
    BY <1>3 DEF HoldsFor
  <2> QED
    BY <2>3, <2>6, <2>7
<1>6. ASSUME NEW o \in ToSet(Objects) PROVE Telling(Check(c, o), o \in HoldsFor(c))
  <2>1. CASE c = Leaf(l)
    <3>1. (o \in HoldsFor(c)) = LeafHolds(l, o)
      BY <1>5, <2>1, LeafHoldsType
    <3> QED
      BY <1>5, <2>1, <3>1
  <2>2. CASE c # Leaf(l)
    <3>1. (o \in HoldsFor(c)) = ~LeafHolds(l, o)
      BY <1>5, <2>2, LeafHoldsType
    <3>2. c = Never(Leaf(l))
      BY <1>1, <2>2
    <3> QED
      BY <1>5, <3>1, <3>2
  <2> QED
    BY <2>1, <2>2
<1>7. ASSUME NEW objects \in Seq(Items) PROVE FinishAll(c, objects) = <<>>
  <2>1. FinishAll(Leaf(l), objects) = <<>>
    BY <1>2, <1>4, NothingIsLeft
  <2>2. FinishAll(Never(Leaf(l)), objects) = <<>>
    BY <1>2, <2>1, NothingIsLeft
  <2> QED
    BY <1>1, <2>1, <2>2
<1> QED
  BY <1>6, <1>7

LEMMA FirstIsMeant ==
    ASSUME NEW c \in Conditions
    PROVE  Meant(c, Append(<<>>, Word("and", c)))
<1> DEFINE s == Append(<<>>, Word("and", c))
<1>1. DOMAIN s = {1} /\ s[1] = Word("and", c) /\ Word("and", c).of = c
  BY DEF Word
<1>2. Demanded(s) = HoldsFor(c)
  <2>1. <<>> \in Seq([connective : Connectives, of : Conditions]) /\ "and" \in Connectives
    BY DEF Connectives
  <2>2. Demanded(<<>>) = ToSet(Objects) /\ Demanded(s) = Read(Demanded(<<>>), Word("and", HoldsFor(c)))
    BY <2>1, DemandedIs
  <2>3. Read(ToSet(Objects), Word("and", HoldsFor(c))) = ToSet(Objects) \cap HoldsFor(c)
    BY DEF Read, Word
  <2> QED
    BY <2>2, <2>3, HoldsForIs
<1> HIDE DEF s
<1>3. (\A i \in DOMAIN s : Decides(LeafOf(s[i].of))) => Decides(LeafOf(c))
  BY <1>1
<1>4. Meant(c, s)
  BY <1>2, <1>3, WordsTell DEF Meant
<1> QED
  BY <1>4 DEF s

LEMMA JoinIsMeant ==
    ASSUME NEW n \in 1 .. MaxWords, NEW c \in Terms[n], NEW d \in Conditions, NEW connective \in Connectives,
           NEW s \in Seq(ConditionWords), Meant(c, s)
    PROVE  Meant(Join(connective = "and", c, d), Append(s, Word(connective, d)))
<1> DEFINE t == Append(s, Word(connective, d))
           x == Join(connective = "and", c, d)
<1> SUFFICES ASSUME \A i \in DOMAIN t : Decides(LeafOf(t[i].of))
             PROVE  /\ \A o \in ToSet(Objects) : Telling(Check(x, o), o \in Demanded(t))
                    /\ \A objects \in Seq(Items) : FinishAll(x, objects) = <<>>
  BY DEF Meant
<1>1. Len(s) \in Nat /\ DOMAIN s = 1 .. Len(s) /\ DOMAIN t = 1 .. Len(s) + 1
      /\ (\A i \in 1 .. Len(s) : t[i] = s[i]) /\ t[Len(s) + 1] = Word(connective, d)
  OBVIOUS
<1> HIDE DEF t
<1>2. Decides(LeafOf(d)) /\ \A i \in DOMAIN s : Decides(LeafOf(s[i].of))
  <2>1. \A i \in DOMAIN s : Decides(LeafOf(s[i].of))
    BY <1>1
  <2>2. Len(s) + 1 \in DOMAIN t /\ t[Len(s) + 1].of = d
    BY <1>1 DEF Word
  <2> QED
    BY <2>1, <2>2
<1>3. /\ \A o \in ToSet(Objects) : Telling(Check(c, o), o \in Demanded(s))
      /\ \A objects \in Seq(Items) : FinishAll(c, objects) = <<>>
  BY <1>2 DEF Meant
<1>4. /\ \A o \in ToSet(Objects) : Telling(Check(d, o), o \in HoldsFor(d))
      /\ \A objects \in Seq(Items) : FinishAll(d, objects) = <<>>
  BY <1>2, WordsTell
<1>5. Demanded(t) = IF connective = "and" THEN Demanded(s) \cap HoldsFor(d) ELSE Demanded(s) \cup HoldsFor(d)
  <2>1. Demanded(t) = Read(Demanded(s), Word(connective, HoldsFor(d)))
    BY DemandedIs DEF t, ConditionWords
  <2> QED
    BY <2>1 DEF Read, Word
<1>6. /\ n \in 0 .. Nesting /\ n + 1 \in 0 .. Nesting /\ n + 1 \in 1 .. Nesting /\ n + 1 <= Nesting
      /\ (n + 1) - 1 = n /\ n + 2 \in 1 .. Nesting /\ (n + 2) - 1 = n + 1
  BY Bounds
<1>7. d \in Terms[n]
  BY SaidTerms
<1>8. (connective = "and") \in BOOLEAN
  OBVIOUS
<1>9. c \in Condition /\ d \in Condition /\ x \in Condition
  <2>1. x \in Terms[n + 1]
    BY <1>6, <1>7, <1>8, JoinedTerms
  <2> QED
    BY <1>6, <1>7, <2>1, TermsGrow
<1>10. ASSUME NEW o \in ToSet(Objects) PROVE Telling(Check(x, o), o \in Demanded(t))
  <2> DEFINE kind == IF connective = "and" THEN "and" ELSE "or"
             evaluated == <<Check(c, o), Check(d, o)>>
             e == JoinEvent(kind, o, evaluated)
             first == o \in Demanded(s)
             second == o \in HoldsFor(d)
             holds == IF kind = "and" THEN first /\ second ELSE first \/ second
  <2>1. o \in Items
    BY RulesAssumption, SetOfSeq
  <2>2. Check(x, o) = AddEvents(NoEvents, <<e>>)
    BY <1>8, <1>9, ChecksOf
  <2>3. WellFound(Check(c, o), n + 1) /\ WellFound(Check(d, o), n + 1)
    BY <1>6, <1>7, <2>1, ChecksAre
  <2>4. evaluated \in Seq(Found(Nested[n + 1])) /\ DOMAIN evaluated = {1, 2}
        /\ (\A i \in {1, 2} : WellFound(evaluated[i], n + 1))
        /\ evaluated[1] = Check(c, o) /\ evaluated[2] = Check(d, o)
    <3> DEFINE B == Found(Nested[n + 1])
    <3>1. Check(c, o) \in B /\ Check(d, o) \in B
      BY <2>3 DEF WellFound
    <3> HIDE DEF B
    <3>2. evaluated \in Seq(B)
      BY <3>1
    <3> QED
      BY <2>3, <3>2 DEF B
  <2>5. first \in BOOLEAN /\ second \in BOOLEAN /\ holds \in BOOLEAN /\ kind \in {"and", "or"}
    <3>1. kind \in {"and", "or"}
      OBVIOUS
    <3>2. first \in BOOLEAN /\ second \in BOOLEAN
      OBVIOUS
    <3> HIDE DEF kind, first, second
    <3>3. (first /\ second) \in BOOLEAN /\ (first \/ second) \in BOOLEAN
      OBVIOUS
    <3> QED
      BY <3>1, <3>2, <3>3
  <2>6. Telling(Check(c, o), first) /\ Telling(Check(d, o), second)
    BY <1>3, <1>4
  <2>7. holds = (o \in Demanded(t))
    BY <1>5 DEF Connectives
  <2>8. Tells(e, holds)
    <3> HIDE DEF evaluated, kind, first, second
    <3>1. n + 2 \in 1 .. Nesting /\ (n + 2) - 1 = n + 1
      BY <1>6
    <3>2. evaluated \in Seq(Found(Nested[(n + 2) - 1])) /\ \A i \in DOMAIN evaluated : WellFound(evaluated[i], (n + 2) - 1)
      BY <2>4, <3>1
    <3>3. Telling(evaluated[1], first) /\ Telling(evaluated[2], second)
      BY <2>4, <2>6
    <3> QED
      BY <2>1, <2>4, <2>5, <3>1, <3>2, <3>3, JoinTells
  <2> HIDE DEF e, holds
  <2>9. e \in Event
    BY <2>8, BuiltIs DEF Tells
  <2>10. <<e>> \in Seq(Event) /\ ToSet(<<e>>) = {e}
    BY ONLY <2>9, OneIs
  <2>11. FoundIn(AddEvents(NoEvents, <<e>>)) = {e}
    BY <2>10, SortedIs
  <2>12. Telling(AddEvents(NoEvents, <<e>>), holds)
    BY <2>8, <2>11 DEF Telling
  <2> QED
    BY <2>2, <2>7, <2>12
<1>11. ASSUME NEW objects \in Seq(Items) PROVE FinishAll(x, objects) = <<>>
  BY <1>3, <1>4, <1>8, <1>9, NothingIsLeft
<1> QED
  BY <1>10, <1>11

(***************************************************************************)
(* A filter without patterns drops nothing.                                *)
(***************************************************************************)
LEMMA NothingIsDropped ==
    ASSUME NEW n \in 1 .. Nesting, NEW violations, AreViolations(violations, n - 1)
    PROVE  (FilterEvents(violations, {}) = <<>>) <=> (violations = <<>>)
<1> DEFINE events == [i \in DOMAIN violations |-> FilteredEvent(violations[i], {})]
           I == {i \in DOMAIN events : IsViolation[events[i]]}
<1>0. n - 1 \in 0 .. Nesting /\ n \in 0 .. Nesting /\ Nesting \in n .. Nesting /\ {} \in SUBSET Pattern
  BY NestingAssumption
<1>1. /\ violations \in Seq(Nested[n - 1]) /\ Len(violations) \in Nat /\ DOMAIN violations = 1 .. Len(violations)
      /\ \A i \in DOMAIN violations : /\ violations[i] \in Nested[n - 1] /\ violations[i] \in Built
                                      /\ IsViolation[violations[i]]
  BY SetOfSeq DEF AreViolations
<1>2. \A i \in DOMAIN violations : FilteredEvent(violations[i], {}) \in Nested[n]
  BY <1>0, <1>1, FilteredLevel
<1>3. events \in Seq(Nested[n]) /\ DOMAIN events = DOMAIN violations
  BY <1>1, <1>2
<1>4. ASSUME NEW i \in DOMAIN violations PROVE IsViolation[FilteredEvent(violations[i], {})]
  <2> DEFINE d == violations[i]
             e == FilteredEvent(d, {})
  <2>1. d \in Built /\ d \in Event /\ IsViolation[d]
    BY <1>1, BuiltIs
  <2>2. e \in Event
    BY <1>0, <1>2, LevelsGrow DEF Event
  <2>3. e.kind = "filtered" /\ e.delegate = d /\ e.lines = LinesNotIgnored(DescriptionLines[d], {})
    BY DEF FilteredEvent
  <2> HIDE DEF e, d
  <2>4. DescriptionLines[d] \in Seq(Text) /\ ToSet(DescriptionLines[d]) # {}
    <3>1. DescriptionLines[d] \in Seq(Text) /\ DescriptionLines[d] # <<>>
      BY <2>1, LinesAre, ViolationsAreReported
    <3> QED
      BY <3>1, NothingInside
  <2>5. e.lines \in Seq(Text) /\ ToSet(e.lines) = ToSet(DescriptionLines[d])
    <3>1. \A line : ~Ignored(line, {})
      BY DEF Ignored
    <3>2. /\ LinesNotIgnored(DescriptionLines[d], {}) \in Seq(Text)
          /\ ToSet(LinesNotIgnored(DescriptionLines[d], {})) =
               {line \in ToSet(DescriptionLines[d]) : ~Ignored(line, {})}
      BY <2>4, LinesNotIgnoredAre
    <3> QED
      BY <2>3, <3>1, <3>2
  <2>6. FilteredViolated(e)
    BY <2>4, <2>5, NothingInside DEF FilteredViolated
  <2>7. IsViolation[e] = (IsViolation[e.delegate] /\ FilteredViolated(e))
    BY <2>2, <2>3, EventsDecide
  <2> QED
    BY <2>1, <2>3, <2>6, <2>7 DEF e, d
<1>5. I = DOMAIN events
  BY <1>3, <1>4
<1>6. FilterEvents(violations, {}) = At(events, I)
  BY DEF FilterEvents
<1> HIDE DEF events, I
<1>7. At(events, I) \in Seq(Nested[n]) /\ ToSet(At(events, I)) = {events[i] : i \in DOMAIN events \cap I}
  BY <1>3, AtIs
<1>8. (At(events, I) = <<>>) <=> (DOMAIN events = {})
  <2>1. (At(events, I) = <<>>) <=> (ToSet(At(events, I)) = {})
    BY <1>7, NothingInside
  <2> QED
    BY <1>5, <1>7, <2>1
<1>9. (violations = <<>>) <=> (DOMAIN violations = {})
  BY <1>1
<1> QED
  BY <1>3, <1>6, <1>8, <1>9

(***************************************************************************)
(* A rule as it was meant: it checks the objects that its first words mean *)
(* with a condition that demands what the others say.                      *)
(***************************************************************************)
IsMeant(r) ==
    /\ ToSet(r.objects) = Meaning(r.said.that)
    /\ \E c \in Terms[MaxWords] : r.condition = (IF r.negated THEN Never(c) ELSE c) /\ Meant(c, r.said.should)

Accepts(r) == EvaluateAll(r.condition, r.objects).violating = <<>>

LEMMA RuleIsTheSentence ==
    ASSUME NEW r \in Rules, IsMeant(r), Decided(r)
    PROVE  Accepts(r) <=> \A o \in ToSet(Objects) : Says(r, o)
<1> DEFINE n == MaxWords + 1
           d == r.condition
           objects == r.objects
           Holds(o) == (o \in Demanded(r.said.should)) # r.negated
<1>1. d \in Terms[n] /\ objects \in Seq(Items) /\ r.negated \in BOOLEAN
      /\ r.said.that \in Seq([connective : Connectives, of : Predicates])
  BY DEF Rules, Sentences
<1>2. /\ MaxWords \in 0 .. Nesting /\ MaxWords + 1 <= Nesting /\ n \in 0 .. Nesting /\ n \in 1 .. Nesting
      /\ n - 1 = MaxWords /\ n + 1 <= Nesting /\ n + 1 \in 0 .. Nesting /\ MaxWords + 1 \in 0 .. Nesting
  BY Bounds
<1>3. PICK c \in Terms[MaxWords] : d = (IF r.negated THEN Never(c) ELSE c) /\ Meant(c, r.said.should)
  BY DEF IsMeant
<1>4. \A o \in ToSet(Objects) : Telling(Check(c, o), o \in Demanded(r.said.should))
  BY <1>3 DEF Meant, Decided
<1>5. \A x \in Seq(Items) : FinishAll(c, x) = <<>>
  BY <1>3 DEF Meant, Decided
<1>6. c \in Condition /\ Never(c) \in Condition
  <2>1. Never(c) \in Terms[n]
    BY <1>2, JoinedTerms
  <2> QED
    BY <1>2, <2>1, TermsGrow
<1> HIDE DEF d, objects
<1>7. ASSUME NEW o \in ToSet(Objects) PROVE Telling(Check(d, o), Holds(o))
  <2>1. o \in Items
    BY RulesAssumption, SetOfSeq
  <2>2. CASE r.negated
    <3>1. WellFound(Check(c, o), n)
      BY <1>2, <2>1, ChecksAre
    <3>2. Check(Never(c), o) = AddAllInverted(NoEvents, Check(c, o))
      BY <1>6, ChecksOf
    <3>3. (o \in Demanded(r.said.should)) \in BOOLEAN
      OBVIOUS
    <3>4. Telling(Check(Never(c), o), ~(o \in Demanded(r.said.should)))
      BY <1>2, <1>4, <3>1, <3>2, <3>3, NeverTells
    <3>5. Holds(o) = ~(o \in Demanded(r.said.should))
      BY <2>2
    <3>6. d = Never(c)
      BY <1>3, <2>2
    <3> QED
      BY <3>4, <3>5, <3>6
  <2>3. CASE ~r.negated
    <3>1. Holds(o) = (o \in Demanded(r.said.should))
      BY <1>1, <2>3
    <3>2. d = c
      BY <1>3, <2>3
    <3> QED
      BY <1>4, <3>1, <3>2
  <2> QED
    BY <2>2, <2>3
<1>8. FinishAll(d, objects) = <<>>
  <2>1. FinishAll(c, objects) = <<>>
    BY <1>1, <1>5
  <2>2. FinishAll(Never(c), objects) = <<>>
    BY <1>6, <2>1, NothingIsLeft
  <2> QED
    BY <1>3, <2>1, <2>2
<1>9. ASSUME NEW o \in ToSet(Objects) PROVE (ToSet(Check(d, o).violating) = {}) <=> Holds(o)
  <2>1. o \in Items
    BY RulesAssumption, SetOfSeq
  <2>2. WellFound(Check(d, o), n + 1)
    BY <1>1, <1>2, <2>1, ChecksAre
  <2>3. Check(d, o) \in Found(Nested[n + 1]) /\ Sorted(Check(d, o))
    BY <2>2 DEF WellFound
  <2>4. Holds(o) \in BOOLEAN
    OBVIOUS
  <2>5. Telling(Check(d, o), Holds(o))
    BY <1>7
  <2> HIDE DEF Holds
  <2>6. ContainViolation(Check(d, o)) = ~Holds(o)
    BY <2>3, <2>4, <2>5, ToldByViolations
  <2>7. (Check(d, o).violating = <<>>) <=> (ToSet(Check(d, o).violating) = {})
    <3>1. Check(d, o).violating \in Seq(Nested[n + 1])
      BY <2>3, FoundIs
    <3> QED
      BY <3>1, NothingInside
  <2> QED
    BY <2>4, <2>6, <2>7 DEF ContainViolation
<1> DEFINE all == EvaluateAll(d, objects)
<1>10. /\ WellFound(all, n + 1)
       /\ ToSet(all.violating) = (UNION {ToSet(Check(d, o).violating) : o \in ToSet(objects)})
                                     \cup {x \in ToSet(FinishAll(d, objects)) : IsViolation[x]}
  BY <1>1, <1>2, EvaluationIs
<1> HIDE DEF all
<1>11. (all.violating = <<>>) <=> (ToSet(all.violating) = {})
  <2>1. all.violating \in Seq(Nested[n + 1])
    BY <1>10, FoundIs DEF WellFound
  <2> QED
    BY <2>1, NothingInside
<1>12. ToSet(all.violating) = UNION {ToSet(Check(d, o).violating) : o \in ToSet(objects)}
  <2>1. ToSet(<<>>) = {}
    BY DEF ToSet
  <2> QED
    BY <1>8, <1>10, <2>1
<1>13. ToSet(objects) = Meaning(r.said.that) /\ ToSet(objects) \subseteq ToSet(Objects)
  <2>1. ToSet(objects) = Meaning(r.said.that)
    BY DEF IsMeant, objects
  <2>2. r.said.that \in Seq(Readings)
    <3> DEFINE W == [connective : Connectives, of : Predicates]
    <3>1. W \subseteq Readings
      BY RulesAssumption DEF Readings
    <3>2. r.said.that \in Seq(W)
      BY <1>1
    <3> HIDE DEF W
    <3> QED
      BY <3>1, <3>2
  <2>3. PICK f : Meaning(r.said.that) = f[Len(r.said.that)]
                 /\ \A k \in 0 .. Len(r.said.that) : f[k] \subseteq ToSet(Objects)
    BY <2>2, MeaningReads
  <2>4. Len(r.said.that) \in 0 .. Len(r.said.that)
    BY <2>2
  <2> QED
    BY <2>1, <2>3, <2>4
<1>14. (ToSet(all.violating) = {}) <=> \A o \in ToSet(objects) : Holds(o)
  <2> DEFINE V(o) == ToSet(Check(d, o).violating)
             found == ToSet(all.violating)
             O == ToSet(objects)
  <2>1. found = UNION {V(o) : o \in O}
    BY <1>12
  <2>2. \A o \in O : (V(o) = {}) <=> Holds(o)
    BY <1>9, <1>13
  <2> HIDE DEF V, found, O, Holds
  <2>3. (found = {}) <=> \A o \in O : V(o) = {}
    BY <2>1
  <2> QED
    BY <2>2, <2>3 DEF found, O
<1>15. (\A o \in ToSet(objects) : Holds(o)) <=> \A o \in ToSet(Objects) : Says(r, o)
  BY <1>13 DEF Says
<1>16. Accepts(r) <=> (all.violating = <<>>)
  BY DEF Accepts, all, d, objects
<1> QED
  BY <1>11, <1>14, <1>15, <1>16

-----------------------------------------------------------------------------
(***************************************************************************)
(* The rule being written, the finished rules and the result are what the  *)
(* sentences mean.                                                         *)
(***************************************************************************)
Aggregators == [predicate : {None} \cup (SUBSET ToSet(Objects)), mode : Connectives]

Selecting ==
    /\ given \in Aggregators
    /\ given.predicate = None => said.that = <<>>
    /\ given.predicate # None => given.predicate = Meaning(said.that)

Asking == condition # None => Meant(condition, said.should)

Judging ==
    /\ outcome \in {"open", "panicked", "evaluated"} => filtered = {}
    /\ outcome \in {"evaluated", "filtered", "passed", "failed"} /\ patterns = {} /\ filtered = {} =>
          ((result = <<>>) <=> \A i \in DOMAIN rules : Accepts(rules[i]))

Understood == Selecting /\ Asking /\ (\A i \in DOMAIN rules : IsMeant(rules[i])) /\ Judging

LEMMA NoneIsNoSet == \A S \in SUBSET ToSet(Objects) : S # None
BY RulesAssumption

LEMMA ThatIsReadings ==
    ASSUME Speaking
    PROVE  said.that \in Seq(Readings) /\ \A p \in Predicates, connective \in Connectives : Word(connective, p) \in Readings
<1> DEFINE W == [connective : Connectives, of : Predicates]
<1>1. W \subseteq Readings
  BY RulesAssumption DEF Readings
<1>2. said.that \in Seq(W)
  BY DEF Speaking, Sentences
<1>3. \A p \in Predicates, connective \in Connectives : Word(connective, p) \in W
  BY DEF Word
<1> HIDE DEF W
<1> QED
  BY <1>1, <1>2, <1>3

(***************************************************************************)
(* One more predicate: in the mode that its connective has set.            *)
(***************************************************************************)
LEMMA SelectsOn ==
    ASSUME Speaking, Selecting, NEW p \in Predicates, NEW connective \in Connectives, NEW aggregator \in Aggregators,
           aggregator.predicate = given.predicate,
           given.predicate = None => connective = "and",
           given.predicate # None => aggregator.mode = connective,
           RestrictObjects(aggregator, connective, p)
    PROVE  Selecting'
<1> DEFINE S == IF aggregator.predicate = None THEN p
                ELSE IF aggregator.mode = "and" THEN aggregator.predicate \cap p
                ELSE aggregator.predicate \cup p
<1>1. p \in SUBSET ToSet(Objects)
  BY RulesAssumption
<1>2. given' = [aggregator EXCEPT !.predicate = S]
  BY DEF RestrictObjects, AddPredicate
<1>3. said'.that = Append(said.that, Word(connective, p))
  BY DEF RestrictObjects, Speaking, Sentences
<1>4. Word(connective, p) \in Readings /\ said.that \in Seq(Readings)
  BY ThatIsReadings
<1>5. /\ Meaning(<<>>) = ToSet(Objects)
      /\ Meaning(said.that) \subseteq ToSet(Objects)
      /\ Meaning(said'.that) = Read(Meaning(said.that), Word(connective, p))
  BY <1>3, <1>4, MeaningIs
<1>6. Read(Meaning(said.that), Word(connective, p)) =
        IF connective = "and" THEN Meaning(said.that) \cap p ELSE Meaning(said.that) \cup p
  BY DEF Read, Word
<1>7. S = Meaning(said'.that)
  <2>1. CASE given.predicate = None
    <3>1. said.that = <<>> /\ S = p
      BY <2>1 DEF Selecting
    <3> QED
      BY <1>1, <1>5, <1>6, <2>1, <3>1
  <2>2. CASE given.predicate # None
    <3>1. given.predicate = Meaning(said.that)
      BY <2>2 DEF Selecting
    <3> QED
      BY <1>5, <1>6, <2>2, <3>1
  <2> QED
    BY <2>1, <2>2
<1>8. S \in SUBSET ToSet(Objects)
  BY <1>1, <1>5, <1>6, <1>7
<1> HIDE DEF S
<1>9. given' \in Aggregators /\ given'.predicate = S
  BY <1>2, <1>8 DEF Aggregators
<1> QED
  BY <1>7, <1>8, <1>9, NoneIsNoSet DEF Selecting

(***************************************************************************)
(* The objects a rule is finished with.                                    *)
(***************************************************************************)
LEMMA SelectedIs ==
    ASSUME Speaking, Selecting
    PROVE  ToSet(Selected) = Meaning(said.that)
<1> DEFINE I == {i \in DOMAIN Objects : given.predicate = None \/ Objects[i] \in given.predicate}
<1>1. Objects \in Seq(Items)
  BY RulesAssumption
<1>2. ToSet(Selected) = {Objects[i] : i \in DOMAIN Objects \cap I}
  <2>1. Selected = At(Objects, I)
    BY DEF Selected
  <2> HIDE DEF I
  <2> QED
    BY <1>1, <2>1, AtIs
<1>3. ToSet(Selected) = {o \in ToSet(Objects) : given.predicate = None \/ o \in given.predicate}
  BY <1>2 DEF ToSet
<1>4. said.that \in Seq(Readings)
  BY ThatIsReadings
<1>5. Meaning(said.that) \subseteq ToSet(Objects) /\ Meaning(<<>>) = ToSet(Objects)
  <2>1. ToSet(Objects) \in SUBSET ToSet(Objects) /\ "and" \in Connectives
    BY DEF Connectives
  <2>2. Word("and", ToSet(Objects)) \in Readings
    BY <2>1 DEF Word, Readings
  <2> QED
    BY <1>4, <2>2, MeaningIs
<1>6. CASE given.predicate = None
  BY <1>3, <1>5, <1>6 DEF Selecting
<1>7. CASE given.predicate # None
  <2>1. given.predicate = Meaning(said.that)
    BY <1>7 DEF Selecting
  <2> QED
    BY <1>3, <1>5, <1>7, <2>1
<1> QED
  BY <1>6, <1>7

LEMMA InitIsUnderstood == Init => Understood
<1> SUFFICES ASSUME Init PROVE Understood
  OBVIOUS
<1>1. Selecting
  BY DEF Init, Selecting, NoPredicate, NothingSaid, Aggregators, Connectives
<1>2. Asking /\ (\A i \in DOMAIN rules : IsMeant(rules[i])) /\ Judging
  BY DEF Init, Asking, Judging
<1> QED
  BY <1>1, <1>2 DEF Understood

(***************************************************************************)
(* What an evaluation without patterns leaves.                             *)
(***************************************************************************)
LEMMA EvaluationAccepts ==
    ASSUME Speaking
    PROVE  (FlattenSeq([i \in DOMAIN rules |-> Evaluated(rules[i], {})]) = <<>>)
                <=> \A i \in DOMAIN rules : Accepts(rules[i])
<1> DEFINE A == Nested[MaxWords + 2]
           parts == [i \in DOMAIN rules |-> Evaluated(rules[i], {})]
<1>1. Len(rules) \in Nat /\ DOMAIN rules = 1 .. Len(rules)
  BY DEF Speaking
<1>2. ASSUME NEW i \in DOMAIN rules
      PROVE  Evaluated(rules[i], {}) \in Seq(A) /\ (Evaluated(rules[i], {}) = <<>> <=> Accepts(rules[i]))
  <2> DEFINE n == MaxWords + 1
             c == rules[i].condition
             objects == rules[i].objects
  <2>1. c \in Terms[n] /\ objects \in Seq(Items)
    <3>1. rules \in Seq(Rules)
      BY DEF Speaking
    <3>2. rules[i] \in Rules
      BY <3>1
    <3> QED
      BY <3>2 DEF Rules
  <2>2. n \in 0 .. Nesting /\ n + 1 <= Nesting /\ n + 1 = MaxWords + 2
    BY Bounds, RulesAssumption
  <2>3. Evaluated(rules[i], {}) = EvaluateAll(c, objects).violating
    BY DEF Evaluated, ApplyIgnorePatterns
  <2>4. Accepts(rules[i]) <=> EvaluateAll(c, objects).violating = <<>>
    BY DEF Accepts
  <2> HIDE DEF n, c, objects
  <2>5. WellFound(EvaluateAll(c, objects), n + 1)
    BY <2>1, <2>2, EvaluationIs
  <2>6. EvaluateAll(c, objects).violating \in Seq(A)
    BY <2>2, <2>5, FoundIs DEF WellFound
  <2> QED
    BY <2>3, <2>4, <2>6
<1> HIDE DEF A
<1>3. parts \in Seq(Seq(A)) /\ DOMAIN parts = DOMAIN rules
  BY <1>1, <1>2
<1>4. \A i \in DOMAIN rules : (parts[i] = <<>>) <=> Accepts(rules[i])
  BY <1>2
<1> HIDE DEF parts
<1>5. FlattenSeq(parts) \in Seq(A) /\ ToSet(FlattenSeq(parts)) = UNION {ToSet(parts[i]) : i \in DOMAIN parts}
  BY <1>3, FlattenedIs
<1>6. (FlattenSeq(parts) = <<>>) <=> (ToSet(FlattenSeq(parts)) = {})
  BY <1>5, NothingInside
<1>7. \A i \in DOMAIN parts : (parts[i] = <<>>) <=> (ToSet(parts[i]) = {})
  <2> SUFFICES ASSUME NEW i \in DOMAIN parts PROVE (parts[i] = <<>>) <=> (ToSet(parts[i]) = {})
    OBVIOUS
  <2>1. parts[i] \in Seq(A)
    BY <1>3
  <2> QED
    BY <2>1, NothingInside
<1>8. (ToSet(FlattenSeq(parts)) = {}) <=> \A i \in DOMAIN parts : ToSet(parts[i]) = {}
  BY <1>5
<1>9. (FlattenSeq(parts) = <<>>) <=> \A i \in DOMAIN rules : Accepts(rules[i])
  BY <1>3, <1>4, <1>6, <1>7, <1>8
<1> QED
  BY <1>9 DEF parts

(***************************************************************************)
(* A finished rule is the rule that was written.                           *)
(***************************************************************************)
LEMMA FinishedIsMeant ==
    ASSUME Speaking, Selecting, Asking, condition # None, NEW vacuous
    PROVE  IsMeant([objects |-> Selected, condition |-> Prepare(condition), vacuous |-> vacuous,
                    said |-> said, negated |-> negated])
<1>1. ToSet(Selected) = Meaning(said.that)
  BY SelectedIs
<1>2. condition \in Terms[MaxWords]
  <2> DEFINE n == Len(said.should)
  <2>1. condition \in Terms[n] /\ n \in Nat /\ n <= MaxWords
    BY Bounds DEF Speaking, Sentences
  <2> HIDE DEF n
  <2>2. n \in 0 .. Nesting /\ MaxWords \in n .. Nesting
    BY <2>1, Bounds, RulesAssumption
  <2> QED
    BY <2>1, <2>2, TermsUpTo
<1>3. Prepare(condition) = (IF negated THEN Never(condition) ELSE condition) /\ Meant(condition, said.should)
  BY DEF Prepare, Asking
<1> QED
  BY <1>1, <1>2, <1>3 DEF IsMeant

LEMMA NextIsUnderstood == WellSpoken /\ Understood /\ [Next]_vars => Understood'
<1> SUFFICES ASSUME Speaking, Reporting, Selecting, Asking, \A i \in DOMAIN rules : IsMeant(rules[i]), Judging,
                    [Next]_vars
             PROVE  Selecting' /\ Asking' /\ (\A i \in DOMAIN rules' : IsMeant(rules'[i])) /\ Judging'
  BY DEF WellSpoken, Understood
<1> DEFINE Done == Selecting' /\ Asking' /\ (\A i \in DOMAIN rules' : IsMeant(rules'[i])) /\ Judging'
<1>1. ASSUME outcome = "open", outcome' = outcome, filtered' = filtered PROVE Judging'
  BY <1>1 DEF Judging
<1>2. ASSUME NEW p \in Predicates, NEW connective \in Connectives, NEW aggregator \in Aggregators,
             aggregator.predicate = given.predicate,
             given.predicate = None => connective = "and",
             given.predicate # None => aggregator.mode = connective,
             RestrictObjects(aggregator, connective, p)
      PROVE  Done
  <2>1. Selecting'
    BY <1>2, SelectsOn
  <2>2. Asking'
    BY <1>2 DEF RestrictObjects, Asking
  <2>3. Judging'
    BY <1>1, <1>2 DEF RestrictObjects, MaySay
  <2>4. \A i \in DOMAIN rules' : IsMeant(rules'[i])
    BY <1>2 DEF RestrictObjects
  <2> QED
    BY <2>1, <2>2, <2>3, <2>4
<1>3. ASSUME NEW p \in Predicates, That(p) \/ And(p) \/ Or(p) PROVE Done
  <2>1. given \in Aggregators
    BY DEF Selecting
  <2>2. CASE That(p)
    <3>1. given.predicate = None /\ RestrictObjects(given, "and", p) /\ "and" \in Connectives
      BY <2>2 DEF That, Connectives
    <3> HIDE DEF Done
    <3> QED
      BY <1>2, <2>1, <3>1
  <2>3. ASSUME NEW connective \in Connectives, given.predicate # None,
               RestrictObjects([given EXCEPT !.mode = connective], connective, p)
        PROVE  Done
    <3> DEFINE aggregator == [given EXCEPT !.mode = connective]
    <3>1. aggregator \in Aggregators /\ aggregator.predicate = given.predicate /\ aggregator.mode = connective
      BY <2>1 DEF Aggregators
    <3>2. RestrictObjects(aggregator, connective, p)
      BY <2>3
    <3> HIDE DEF aggregator, Done
    <3> QED
      BY <1>2, <2>3, <3>1, <3>2
  <2>4. "and" \in Connectives /\ "or" \in Connectives
    BY DEF Connectives
  <2> HIDE DEF Done
  <2> QED
    BY <1>3, <2>2, <2>3, <2>4 DEF And, Or
<1>4. ASSUME NEW c \in Conditions, NEW connective \in Connectives, MaySay,
             Meant(condition', Append(said.should, Word(connective, c))),
             said' = [said EXCEPT !.should = Append(@, Word(connective, c))],
             UNCHANGED <<patterns, negated, given, rules, outcome, result, filtered>>
      PROVE  Done
  <2>1. said'.that = said.that /\ said'.should = Append(said.should, Word(connective, c))
    BY <1>4 DEF Speaking, Sentences
  <2>2. Selecting'
    BY <1>4, <2>1 DEF Selecting
  <2>3. Asking'
    BY <1>4, <2>1 DEF Asking
  <2>4. Judging'
    BY <1>1, <1>4 DEF MaySay
  <2>5. \A i \in DOMAIN rules' : IsMeant(rules'[i])
    BY <1>4
  <2> QED
    BY <2>2, <2>3, <2>4, <2>5
<1>5. ASSUME NEW c \in Conditions, Should(c) PROVE Done
  <2>1. said.should = <<>> /\ "and" \in Connectives
    BY <1>5 DEF Should, Speaking, Connectives
  <2>2. Meant(c, Append(said.should, Word("and", c)))
    BY <2>1, FirstIsMeant
  <2>3. /\ MaySay /\ condition' = c /\ said' = [said EXCEPT !.should = Append(@, Word("and", c))]
        /\ UNCHANGED <<patterns, negated, given, rules, outcome, result, filtered>>
    BY <1>5 DEF Should
  <2> HIDE DEF Done
  <2> QED
    BY <1>4, <2>1, <2>2, <2>3
<1>6. ASSUME NEW c \in Conditions, NEW connective \in Connectives, ShouldAlso(connective, c) PROVE Done
  <2> DEFINE n == Len(said.should)
             d == Join(connective = "and", condition, c)
  <2>1. said.should # <<>> /\ condition \in Terms[n] /\ words < MaxWords /\ Meant(condition, said.should)
    BY <1>6 DEF ShouldAlso, MaySay, Speaking, Asking
  <2>2. n \in Nat /\ n # 0 /\ n <= words /\ said.should \in Seq(ConditionWords)
    BY <2>1 DEF Speaking, Sentences, ConditionWords
  <2>3. n \in 1 .. MaxWords
    BY <2>1, <2>2, Bounds DEF Speaking
  <2> HIDE DEF n
  <2>4. Meant(d, Append(said.should, Word(connective, c)))
    BY <2>1, <2>2, <2>3, JoinIsMeant
  <2>5. /\ MaySay /\ condition' = d /\ said' = [said EXCEPT !.should = Append(@, Word(connective, c))]
        /\ UNCHANGED <<patterns, negated, given, rules, outcome, result, filtered>>
    BY <1>6 DEF ShouldAlso, AddCondition
  <2> HIDE DEF Done, d
  <2> QED
    BY <1>4, <2>4, <2>5
<1>7. ASSUME NEW allowed \in BOOLEAN, Finish(allowed) PROVE Done
  <2> DEFINE r == [objects |-> Selected, condition |-> Prepare(condition),
                   vacuous |-> Selected = <<>> /\ ~allowed, said |-> said, negated |-> negated]
  <2>1. condition # None /\ rules' = Append(rules, r) /\ outcome = "open" /\ UNCHANGED <<outcome, filtered>>
        /\ given' = NoPredicate /\ condition' = None /\ said' = NothingSaid
    BY <1>7 DEF Finish
  <2>2. IsMeant(r)
    BY <2>1, FinishedIsMeant
  <2> HIDE DEF r
  <2>3. \A i \in DOMAIN rules' : IsMeant(rules'[i])
    <3>1. /\ Len(rules) \in Nat /\ DOMAIN rules = 1 .. Len(rules) /\ DOMAIN rules' = 1 .. Len(rules) + 1
          /\ (\A i \in 1 .. Len(rules) : rules'[i] = rules[i]) /\ rules'[Len(rules) + 1] = r
      BY <2>1 DEF Speaking
    <3>2. \A i \in DOMAIN rules' : i \in DOMAIN rules \/ i = Len(rules) + 1
      BY <3>1
    <3> QED
      BY <2>2, <3>1, <3>2
  <2>4. Selecting'
    BY <2>1 DEF Selecting, NoPredicate, NothingSaid, Aggregators, Connectives
  <2>5. Asking'
    BY <2>1 DEF Asking
  <2>6. Judging'
    BY <1>1, <2>1
  <2> QED
    BY <2>3, <2>4, <2>5, <2>6
<1>8. ASSUME rules' = rules, given' = given, said' = said, condition' = condition, Judging' PROVE Done
  <2>1. Selecting' /\ Asking'
    BY <1>8 DEF Selecting, Asking
  <2>2. \A i \in DOMAIN rules' : IsMeant(rules'[i])
    BY <1>8
  <2> QED
    BY <1>8, <2>1, <2>2
<1>9. ASSUME Evaluate PROVE Done
  <2>1. outcome = "open" /\ rules' = rules /\ given' = given /\ said' = said /\ condition' = condition
        /\ filtered' = filtered /\ filtered = {}
    BY <1>9 DEF Evaluate, Judging
  <2>2. ASSUME outcome' = "panicked" PROVE Judging'
    BY <2>1, <2>2 DEF Judging
  <2>3. ASSUME outcome' = "evaluated",
               result' = FlattenSeq([i \in DOMAIN rules |-> Evaluated(rules[i], patterns')])
        PROVE  Judging'
    <3>1. patterns' = {} => ((result' = <<>>) <=> \A i \in DOMAIN rules : Accepts(rules[i]))
      BY <2>3, EvaluationAccepts
    <3> QED
      BY <2>1, <2>3, <3>1 DEF Judging
  <2>4. outcome' = "panicked" \/ (outcome' = "evaluated" /\
            result' = FlattenSeq([i \in DOMAIN rules |-> Evaluated(rules[i], patterns')]))
    BY <1>9 DEF Evaluate
  <2>5. Judging'
    BY <2>2, <2>3, <2>4
  <2> HIDE DEF Done
  <2> QED
    BY <1>8, <2>1, <2>5
<1>10. ASSUME NEW dropped \in FilterSets, Filter(dropped) PROVE Done
  <2>1. /\ outcome = "evaluated" /\ outcome' = "filtered" /\ filtered = {} /\ filtered' = dropped
        /\ result' = FilterEvents(result, dropped)
        /\ rules' = rules /\ given' = given /\ said' = said /\ condition' = condition /\ patterns' = patterns
    BY <1>10 DEF Filter, Judging
  <2>2. dropped = {} => ((result' = <<>>) <=> (result = <<>>))
    <3>1. AreViolations(result, MaxWords + 3)
      BY <2>1 DEF Reporting
    <3>2. MaxWords + 4 \in 1 .. Nesting /\ (MaxWords + 4) - 1 = MaxWords + 3
      BY Bounds
    <3>3. (FilterEvents(result, {}) = <<>>) <=> (result = <<>>)
      BY <3>1, <3>2, NothingIsDropped
    <3> QED
      BY <2>1, <3>3
  <2>3. Judging'
    BY <2>1, <2>2 DEF Judging
  <2> HIDE DEF Done
  <2> QED
    BY <1>8, <2>1, <2>3
<1>11. ASSUME AssertNoViolation PROVE Done
  <2>1. /\ outcome \in {"evaluated", "filtered"} /\ outcome' \in {"passed", "failed"}
        /\ rules' = rules /\ given' = given /\ said' = said /\ condition' = condition
        /\ patterns' = patterns /\ filtered' = filtered /\ result' = result
    BY <1>11 DEF AssertNoViolation
  <2>2. Judging'
    BY <2>1 DEF Judging
  <2> HIDE DEF Done
  <2> QED
    BY <1>8, <2>1, <2>2
<1>12. ASSUME UNCHANGED vars PROVE Done
  <2>1. rules' = rules /\ given' = given /\ said' = said /\ condition' = condition
    BY <1>12 DEF vars
  <2>2. Judging'
    BY <1>12 DEF vars, Judging
  <2> HIDE DEF Done
  <2> QED
    BY <1>8, <2>1, <2>2
<1> QED
  <2> HIDE DEF Done
  <2>1. "and" \in Connectives /\ "or" \in Connectives
    BY DEF Connectives
  <2>2. ASSUME NEW c \in Conditions, AndShould(c) \/ OrShould(c) PROVE Done
    BY <1>6, <2>1, <2>2 DEF AndShould, OrShould
  <2>3. ASSUME UNCHANGED vars PROVE Done
    BY <1>12, <2>3
  <2>4. ASSUME Next PROVE Done
    BY <1>3, <1>5, <1>7, <1>9, <1>10, <1>11, <2>2, <2>4 DEF Next
  <2>5. Done
    BY <2>3, <2>4
  <2> QED
    BY <2>5 DEF Done

LEMMA AlwaysUnderstood == Spec => []Understood
<1> QED
  BY InitIsUnderstood, NextIsUnderstood, AlwaysSpeaks, PTL DEF Spec

(***************************************************************************)
(* A rule passes exactly when the sentence it was written as holds for     *)
(* every object: read from left to right, or of `or` and `and`, with       *)
(* no_..() negating all of it, although `never` only ever sees events.     *)
(***************************************************************************)
THEOREM VerdictsAreTheSentences == Spec => []VerdictIsTheSentence
<1>1. WellSpoken /\ Understood => VerdictIsTheSentence
  <2> SUFFICES ASSUME Speaking, Reporting, Understood, Asserted, patterns = {}, filtered = {},
                      \A i \in DOMAIN rules : Decided(rules[i])
               PROVE  (outcome = "passed") =
                        \A i \in DOMAIN rules : \A o \in ToSet(Objects) : Says(rules[i], o)
    BY DEF WellSpoken, VerdictIsTheSentence
  <2> DEFINE Sound(i) == \A o \in ToSet(Objects) : Says(rules[i], o)
  <2>1. (outcome = "passed") <=> (result = <<>>)
    BY DEF Reporting, ReportMatchesVerdict, Asserted
  <2>2. (result = <<>>) <=> \A i \in DOMAIN rules : Accepts(rules[i])
    BY DEF Understood, Judging, Asserted
  <2>3. ASSUME NEW i \in DOMAIN rules PROVE Accepts(rules[i]) <=> Sound(i)
    <3>1. rules \in Seq(Rules)
      BY DEF Speaking
    <3>2. rules[i] \in Rules /\ IsMeant(rules[i]) /\ Decided(rules[i])
      BY <3>1 DEF Understood
    <3> QED
      BY <3>2, RuleIsTheSentence
  <2> HIDE DEF Sound
  <2>4. (outcome = "passed") <=> \A i \in DOMAIN rules : Sound(i)
    BY <2>1, <2>2, <2>3
  <2> QED
    BY <2>4 DEF Sound
<1> QED
  BY <1>1, AlwaysSpeaks, AlwaysUnderstood, PTL
=============================================================================
