----------------------- MODULE ArchitectureRulesProofs -----------------------
(***************************************************************************)
(* Theorems about ArchitectureRules: what the calls that write a rule add  *)
(* up to, and what its evaluation reports, for every rule that can be      *)
(* written and every import.                                               *)
(***************************************************************************)
EXTENDS ArchitectureRules, InductionLemmas, TLAPS

-----------------------------------------------------------------------------
(***************************************************************************)
(* What was judged.  A rule is evaluated once, so what its evaluation      *)
(* reports is what the rule means.                                         *)
(***************************************************************************)
Judgement == EvaluateRule(kind, rule, checked, dependencies)

Judged ==
    /\ kind \in Kinds
    /\ outcome = "evaluated" =>
        /\ checked \in SUBSET Items
        /\ dependencies \in SUBSET AllDependencies
        /\ ~Judgement.panicked
        /\ violations = Judgement.violations

(***************************************************************************)
(* A call that is part of the rule: nothing has been evaluated before.     *)
(***************************************************************************)
Writes ==
    /\ outcome = "open" /\ outcome' # "evaluated"
    /\ kind' = kind

LEMMA NextWritesOrJudges ==
    ASSUME [Next]_vars
    PROVE  Writes \/ Evaluate \/ UNCHANGED vars
BY DEF Next, vars, Writes, Writing, Say, Panic, DefinedBy, WhereLayer, DefineOnion, DefineModuleBy,
       ModulesDefinedByPackages, NamingModules, WhereModule, ThroughItemsThat,
       ModulesShouldBeFreeOfCycles, RestrictSlices, SlicesShould, AllowEmptyShould, WriteLine,
       IgnoreDependencyWhere, WithOptional, EnsureAllItemsAreContained

LEMMA InitJudged == Init => Judged
BY DEF Init, Judged

LEMMA NextJudged == Judged /\ [Next]_vars => Judged'
<1> SUFFICES ASSUME Judged, [Next]_vars PROVE Judged'
  OBVIOUS
<1>1. CASE Writes
  BY <1>1 DEF Writes, Judged
<1>2. CASE Evaluate
  <2> DEFINE e == EvaluateRule(kind, rule, checked', dependencies')
  <2>1. Judgement' = e
    BY <1>2 DEF Evaluate, Judgement
  <2>2. /\ kind' = kind
        /\ checked' \in CheckedSets[kind] /\ dependencies' \in Programs[kind]
        /\ outcome' = IF e.panicked THEN "panicked" ELSE "evaluated"
        /\ violations' = e.violations
    BY <1>2 DEF Evaluate
  <2> HIDE DEF e
  <2>3. checked' \in SUBSET Items /\ dependencies' \in SUBSET AllDependencies
    BY <2>2, RulesAssumption DEF Judged
  <2> QED
    BY <2>1, <2>2, <2>3 DEF Judged
<1>3. CASE UNCHANGED vars
  BY <1>3 DEF vars, Judged, Judgement
<1> QED
  BY <1>1, <1>2, <1>3, NextWritesOrJudges

-----------------------------------------------------------------------------
(***************************************************************************)
(* find(..) and replace, or push: the part is there, in the place of the   *)
(* one that was found; the others stay.                                    *)
(***************************************************************************)
Replaces(new, p, parts, found, part) ==
    /\ p \in DOMAIN new /\ new[p] = part
    /\ DOMAIN new = DOMAIN parts \cup {p}
    /\ p \in DOMAIN parts => p \in found
    /\ \A k \in DOMAIN parts : k # p => k \notin found /\ new[k] = parts[k]

LEMMA ReplaceOrPushed ==
    ASSUME NEW R, NEW parts \in Seq(R), NEW part \in R,
           NEW found \in SUBSET (DOMAIN parts), \A j, k \in found : j = k
    PROVE  LET new == ReplaceOrPush(parts, found, part) IN
           new \in Seq(R) /\ \E p \in Nat : Replaces(new, p, parts, found, part)
<1> DEFINE new == ReplaceOrPush(parts, found, part)
<1>1. CASE found = {}
  <2>1. new = Append(parts, part)
    BY <1>1 DEF ReplaceOrPush
  <2>2. /\ new \in Seq(R) /\ Len(parts) + 1 \in Nat /\ DOMAIN new = 1..(Len(parts) + 1)
        /\ new[Len(parts) + 1] = part
        /\ \A k \in DOMAIN parts : new[k] = parts[k]
        /\ DOMAIN parts = 1..Len(parts)
    BY <2>1
  <2> HIDE DEF new
  <2>3. Replaces(new, Len(parts) + 1, parts, found, part)
    BY <1>1, <2>2 DEF Replaces
  <2> QED
    BY <2>2, <2>3 DEF new
<1>2. CASE found # {}
  <2>1. PICK p \in found : found = {p}
    BY <1>2
  <2>2. p \in Nat /\ p \in DOMAIN parts
    OBVIOUS
  <2>3. (CHOOSE k \in found : \A j \in found : k <= j) = p
    BY <2>1, <2>2
  <2>4. new = [parts EXCEPT ![p] = part]
    BY <1>2, <2>3 DEF ReplaceOrPush
  <2>5. new \in Seq(R) /\ DOMAIN new = DOMAIN parts /\ new[p] = part
        /\ \A k \in DOMAIN parts : k # p => new[k] = parts[k]
    BY <2>2, <2>4
  <2> HIDE DEF new
  <2>6. Replaces(new, p, parts, found, part)
    BY <2>1, <2>2, <2>5 DEF Replaces
  <2> QED
    BY <2>2, <2>5, <2>6 DEF new
<1> QED
  BY <1>1, <1>2

(***************************************************************************)
(* Parts found by name: no two have one name.                              *)
(***************************************************************************)
UniquelyNamed(parts) == \A j, k \in DOMAIN parts : parts[j].name = parts[k].name => j = k

LEMMA PutByName ==
    ASSUME NEW R, NEW parts \in Seq(R), NEW part \in R, UniquelyNamed(parts),
           NEW new, new = ReplaceOrPush(parts, {k \in DOMAIN parts : parts[k].name = part.name}, part)
    PROVE  /\ new \in Seq(R)
           /\ UniquelyNamed(new)
           /\ Elements(new) = {q \in Elements(parts) : q.name # part.name} \cup {part}
<1> DEFINE found == {k \in DOMAIN parts : parts[k].name = part.name}
<1>1. \A j, k \in found : j = k
  BY DEF UniquelyNamed
<1>2. found \in SUBSET (DOMAIN parts)
  OBVIOUS
<1> HIDE DEF found
<1>3. new \in Seq(R) /\ \E p \in Nat : Replaces(new, p, parts, found, part)
  BY <1>1, <1>2, ReplaceOrPushed, Zenon DEF found
<1>4. PICK p \in Nat : Replaces(new, p, parts, found, part)
  BY <1>3
<1>5. \A k \in DOMAIN parts : (k \in found) = (parts[k].name = part.name)
  BY DEF found
<1>6. /\ p \in DOMAIN new /\ new[p] = part
      /\ \A k \in DOMAIN new : k # p => /\ k \in DOMAIN parts /\ new[k] = parts[k]
                                       /\ parts[k].name # part.name
      /\ \A k \in DOMAIN parts : parts[k].name # part.name => k \in DOMAIN new /\ k # p
  BY <1>4, <1>5 DEF Replaces
<1>7. UniquelyNamed(new)
  BY <1>6 DEF UniquelyNamed
<1>8. ASSUME NEW q \in Elements(new), q # part
      PROVE  q \in Elements(parts) /\ q.name # part.name
  BY <1>6, <1>8 DEF Elements
<1>9. ASSUME NEW q \in Elements(parts), q.name # part.name
      PROVE  q \in Elements(new)
  BY <1>6, <1>9 DEF Elements
<1>10. part \in Elements(new)
  BY <1>6 DEF Elements
<1> QED
  BY <1>3, <1>7, <1>8, <1>9, <1>10

(***************************************************************************)
(* Constraints are found by name and direction.                            *)
(***************************************************************************)
UniquelyDirected(specifications) ==
    \A j, k \in DOMAIN specifications :
        /\ specifications[j].name = specifications[k].name
        /\ specifications[j].constraint = specifications[k].constraint
        => j = k

LEMMA PutByDirection ==
    ASSUME NEW R, NEW parts \in Seq(R), NEW part \in R, UniquelyDirected(parts),
           NEW new,
           new = ReplaceOrPush(parts, {k \in DOMAIN parts : /\ parts[k].name = part.name
                                                            /\ parts[k].constraint = part.constraint},
                               part)
    PROVE  /\ new \in Seq(R)
           /\ UniquelyDirected(new)
           /\ Elements(new) = {q \in Elements(parts) : \/ q.name # part.name
                                                       \/ q.constraint # part.constraint} \cup {part}
<1> DEFINE found == {k \in DOMAIN parts : /\ parts[k].name = part.name
                                          /\ parts[k].constraint = part.constraint}
<1>1. \A j, k \in found : j = k
  BY DEF UniquelyDirected
<1>2. found \in SUBSET (DOMAIN parts)
  OBVIOUS
<1> HIDE DEF found
<1>3. new \in Seq(R) /\ \E p \in Nat : Replaces(new, p, parts, found, part)
  BY <1>1, <1>2, ReplaceOrPushed, Zenon DEF found
<1>4. PICK p \in Nat : Replaces(new, p, parts, found, part)
  BY <1>3
<1>5. \A k \in DOMAIN parts :
        (k \in found) = (parts[k].name = part.name /\ parts[k].constraint = part.constraint)
  BY DEF found
<1>6. /\ p \in DOMAIN new /\ new[p] = part
      /\ \A k \in DOMAIN new : k # p => /\ k \in DOMAIN parts /\ new[k] = parts[k]
                                       /\ (parts[k].name # part.name \/ parts[k].constraint # part.constraint)
      /\ \A k \in DOMAIN parts : (parts[k].name # part.name \/ parts[k].constraint # part.constraint) => k \in DOMAIN new /\ k # p
  BY <1>4, <1>5 DEF Replaces
<1>7. UniquelyDirected(new)
  BY <1>6 DEF UniquelyDirected
<1>8. ASSUME NEW q \in Elements(new), q # part
      PROVE  q \in Elements(parts) /\ (q.name # part.name \/ q.constraint # part.constraint)
  BY <1>6, <1>8 DEF Elements
<1>9. ASSUME NEW q \in Elements(parts), (q.name # part.name \/ q.constraint # part.constraint)
      PROVE  q \in Elements(new)
  BY <1>6, <1>9 DEF Elements
<1>10. part \in Elements(new)
  BY <1>6 DEF Elements
<1> QED
  BY <1>3, <1>7, <1>8, <1>9, <1>10

-----------------------------------------------------------------------------
(***************************************************************************)
(* What evaluating a layered architecture reports.                         *)
(***************************************************************************)
LEMMA ViolationsDiffer ==
    \A w, n, d, v, m, e : Violation(w, n, d) = Violation(v, m, e) => w = v /\ n = m /\ d = e
BY DEF Violation

LEMMA OnlyHave ==
    ASSUME NEW S, NEW P, NEW deps
    PROVE  /\ \A d : d \in OnlyHaveDependentsWhere(S, P, deps) <=>
                       d \in deps /\ d[2] \in S /\ d \notin P
           /\ \A d : d \in OnlyHaveDependenciesWhere(S, P, deps) <=>
                       d \in deps /\ d[1] \in S /\ d \notin P
<1>1. \A d : d \in UNION {DependenciesToSelf(deps, i) : i \in S} <=> d \in deps /\ d[2] \in S
  <2> SUFFICES ASSUME NEW d \in deps, d[2] \in S
               PROVE  d \in UNION {DependenciesToSelf(deps, i) : i \in S}
    BY DEF DependenciesToSelf
  <2>1. d \in DependenciesToSelf(deps, d[2])
    BY DEF DependenciesToSelf
  <2> QED
    BY <2>1
<1>2. \A d : d \in UNION {DependenciesFromSelf(deps, i) : i \in S} <=> d \in deps /\ d[1] \in S
  <2> SUFFICES ASSUME NEW d \in deps, d[1] \in S
               PROVE  d \in UNION {DependenciesFromSelf(deps, i) : i \in S}
    BY DEF DependenciesFromSelf
  <2>1. d \in DependenciesFromSelf(deps, d[1])
    BY DEF DependenciesFromSelf
  <2> QED
    BY <2>1
<1> QED
  BY <1>1, <1>2 DEF OnlyHaveDependentsWhere, OnlyHaveDependenciesWhere

Matters(architecture, d) ==
    d \notin ExcludedDependencies(architecture) \cup architecture.irrelevant

Directions == {"Origin", "Target"}

(***************************************************************************)
(* A dependency breaks the constraint s.                                   *)
(***************************************************************************)
Breaks(architecture, checkedItems, d, s) ==
    LET near == IF s.constraint = "Origin" THEN d[2] ELSE d[1]
        far == IF s.constraint = "Origin" THEN d[1] ELSE d[2]
    IN  /\ near \in checkedItems \cap ContainsPredicateFor(architecture, {s.name})
        /\ far \notin ContainsPredicateFor(architecture, s.allowed \cup {s.name})
        /\ Matters(architecture, d)

LEMMA ConstraintReports ==
    ASSUME NEW A, NEW C, NEW deps \in SUBSET AllDependencies,
           NEW s, s.constraint \in Directions
    PROVE  EvaluateDependenciesShouldBeSatisfied(A, C, deps, s) =
             {Violation(s.constraint, s.name, d) : d \in {e \in deps : Breaks(A, C, e, s)}}
<1> DEFINE in == ContainsPredicateFor(A, {s.name})
           allowed == ContainsPredicateFor(A, s.allowed \cup {s.name})
           P == IF s.constraint = "Origin" THEN DependencyOrigin(allowed) ELSE DependencyTarget(allowed)
           broken == IF s.constraint = "Origin"
                     THEN OnlyHaveDependentsWhere(C \cap in, IfDependencyIsRelevant(A, P), deps)
                     ELSE OnlyHaveDependenciesWhere(C \cap in, IfDependencyIsRelevant(A, P), deps)
<1>1. EvaluateDependenciesShouldBeSatisfied(A, C, deps, s) =
        {Violation(s.constraint, s.name, d) : d \in broken}
  BY DEF EvaluateDependenciesShouldBeSatisfied, EvaluateConstraint
<1>2. \A d : d \in IfDependencyIsRelevant(A, P) <=> d \in P \/ ~Matters(A, d)
  BY DEF IfDependencyIsRelevant, Matters
<1>3. broken = {e \in deps : Breaks(A, C, e, s)}
  <2>1. \A d \in deps : /\ d \in DependencyOrigin(allowed) <=> d[1] \in allowed
                        /\ d \in DependencyTarget(allowed) <=> d[2] \in allowed
    BY DEF DependencyOrigin, DependencyTarget
  <2> DEFINE relevant == IfDependencyIsRelevant(A, P)
  <2> HIDE DEF in, allowed, relevant
  <2>2. CASE s.constraint = "Origin"
    <3>1. \A d : d \in broken <=> d \in deps /\ d[2] \in C \cap in /\ d \notin relevant
      BY <2>2, OnlyHave DEF relevant
    <3>2. \A d \in deps : d \notin relevant <=> d[1] \notin allowed /\ Matters(A, d)
      <4>1. P = DependencyOrigin(allowed)
        BY <2>2
      <4> HIDE DEF P
      <4>2. \A d \in deps : d \in P <=> d[1] \in allowed
        BY <2>1, <4>1
      <4>3. \A d : d \in relevant <=> d \in P \/ ~Matters(A, d)
        BY <1>2 DEF relevant
      <4> QED
        BY <4>2, <4>3, Zenon
    <3>3. \A d \in deps : Breaks(A, C, d, s) <=>
            d[2] \in C \cap in /\ d[1] \notin allowed /\ Matters(A, d)
      BY <2>2 DEF Breaks, in, allowed
    <3> HIDE DEF broken
    <3> QED
      BY <3>1, <3>2, <3>3
  <2>3. CASE s.constraint = "Target"
    <3>1. \A d : d \in broken <=> d \in deps /\ d[1] \in C \cap in /\ d \notin relevant
      BY <2>3, OnlyHave DEF relevant
    <3>2. \A d \in deps : d \notin relevant <=> d[2] \notin allowed /\ Matters(A, d)
      <4>1. P = DependencyTarget(allowed)
        BY <2>3
      <4> HIDE DEF P
      <4>2. \A d \in deps : d \in P <=> d[2] \in allowed
        BY <2>1, <4>1
      <4>3. \A d : d \in relevant <=> d \in P \/ ~Matters(A, d)
        BY <1>2 DEF relevant
      <4> QED
        BY <4>2, <4>3, Zenon
    <3>3. \A d \in deps : Breaks(A, C, d, s) <=>
            d[1] \in C \cap in /\ d[2] \notin allowed /\ Matters(A, d)
      BY <2>3 DEF Breaks, in, allowed
    <3> HIDE DEF broken
    <3> QED
      BY <3>1, <3>2, <3>3
  <2> QED
    BY <2>2, <2>3 DEF Directions
<1> QED
  BY <1>1, <1>3

Reports(A, C, deps, V) ==
    /\ \A c \in Directions : \A n, d :
          Violation(c, n, d) \in V <=>
              /\ d \in deps
              /\ \E s \in Elements(A.specifications) :
                    s.name = n /\ s.constraint = c /\ Breaks(A, C, d, s)
    /\ \A n :
          Violation("empty", n, None) \in V <=>
              /\ ~A.optional
              /\ C \cap ContainsPredicateFor(A, {n}) = {}
              /\ \E l \in Elements(A.layers) : l.name = n /\ ~l.optional
    /\ \A i :
          Violation("not contained", i, None) \in V <=>
              /\ A.containedUnless # None
              /\ i \in C \ (A.containedUnless \cup ContainsPredicateForAll(A))

LEMMA LayeredReports ==
    ASSUME NEW A, NEW C, NEW deps \in SUBSET AllDependencies,
           \A s \in Elements(A.specifications) : s.constraint \in Directions,
           ~EvaluateLayered(A, C, deps).panicked
    PROVE  Reports(A, C, deps, EvaluateLayered(A, C, deps).violations)
<1> DEFINE V == EvaluateLayered(A, C, deps).violations
           empty == IF A.optional THEN {}
                    ELSE UNION {EvaluateShouldNotBeEmpty(C, l.name, ContainsPredicateFor(A, {l.name})) :
                                l \in {m \in Elements(A.layers) : ~m.optional}}
           outside == IF A.containedUnless = None THEN {}
                      ELSE EvaluateAllItemsAreContained(C, A.containedUnless, ContainsPredicateForAll(A))
           Broken(s) == {Violation(s.constraint, s.name, d) : d \in {e \in deps : Breaks(A, C, e, s)}}
           broken == UNION {Broken(s) : s \in Elements(A.specifications)}
<1>1. V = empty \cup outside \cup broken
  <2>1. UNION {EvaluateDependenciesShouldBeSatisfied(A, C, deps, s) : s \in Elements(A.specifications)}
          = broken
    BY ConstraintReports
  <2> QED
    BY <2>1 DEF EvaluateLayered, Evaluation
<1>2. \A v : v \in empty <=>
          /\ ~A.optional
          /\ \E l \in Elements(A.layers) : /\ ~l.optional
                                           /\ C \cap ContainsPredicateFor(A, {l.name}) = {}
                                           /\ v = Violation("empty", l.name, None)
  BY DEF EvaluateShouldNotBeEmpty
<1>3. \A v : v \in outside <=>
          /\ A.containedUnless # None
          /\ \E i \in C \ (A.containedUnless \cup ContainsPredicateForAll(A)) :
                v = Violation("not contained", i, None)
  BY DEF EvaluateAllItemsAreContained
<1>4. \A v : v \in broken <=>
          \E s \in Elements(A.specifications), d \in deps :
              Breaks(A, C, d, s) /\ v = Violation(s.constraint, s.name, d)
  OBVIOUS
<1> HIDE DEF V, empty, outside, broken
<1>5. \A n, d : \A c \in Directions :
          /\ Violation(c, n, d) \notin empty /\ Violation(c, n, d) \notin outside
          /\ Violation("empty", n, d) \notin broken /\ Violation("empty", n, d) \notin outside
          /\ Violation("not contained", n, d) \notin broken /\ Violation("not contained", n, d) \notin empty
  <2> SUFFICES ASSUME NEW n, NEW d, NEW c \in Directions
               PROVE  /\ Violation(c, n, d) \notin empty /\ Violation(c, n, d) \notin outside
                      /\ Violation("empty", n, d) \notin broken /\ Violation("empty", n, d) \notin outside
                      /\ Violation("not contained", n, d) \notin broken
                      /\ Violation("not contained", n, d) \notin empty
    OBVIOUS
  <2>1. c # "empty" /\ c # "not contained" /\ "empty" # "not contained"
    BY DEF Directions
  <2>2. \A v \in empty : v.what = "empty"
    <3>1. \A v \in empty : \E l \in Elements(A.layers) : v = Violation("empty", l.name, None)
      BY <1>2, Zenon
    <3> QED
      BY <3>1 DEF Violation
  <2>3. \A v \in outside : v.what = "not contained"
    <3>1. \A v \in outside : \E i : v = Violation("not contained", i, None)
      BY <1>3, Zenon
    <3> SUFFICES ASSUME NEW v \in outside PROVE v.what = "not contained"
      OBVIOUS
    <3>2. PICK i : v = Violation("not contained", i, None)
      BY <3>1
    <3> QED
      BY <3>2 DEF Violation
  <2>4. \A v \in broken : v.what \in Directions
    BY <1>4 DEF Violation
  <2>5. "empty" \notin Directions /\ "not contained" \notin Directions
    BY DEF Directions
  <2>6. \A w : Violation(w, n, d).what = w
    BY DEF Violation
  <2> QED
    BY <2>1, <2>2, <2>3, <2>4, <2>5, <2>6, Zenon
<1>6. ASSUME NEW c \in Directions, NEW n, NEW d
      PROVE  Violation(c, n, d) \in V <=>
               /\ d \in deps
               /\ \E s \in Elements(A.specifications) :
                     s.name = n /\ s.constraint = c /\ Breaks(A, C, d, s)
  <2>1. Violation(c, n, d) \in V <=> Violation(c, n, d) \in broken
    BY <1>1, <1>5
  <2>2. ASSUME Violation(c, n, d) \in broken
        PROVE  /\ d \in deps
               /\ \E s \in Elements(A.specifications) :
                     s.name = n /\ s.constraint = c /\ Breaks(A, C, d, s)
    <3>1. PICK s \in Elements(A.specifications), e \in deps :
            Breaks(A, C, e, s) /\ Violation(c, n, d) = Violation(s.constraint, s.name, e)
      BY <1>4, <2>2, Zenon
    <3>2. s.constraint = c /\ s.name = n /\ e = d
      BY <3>1 DEF Violation
    <3> QED
      BY <3>1, <3>2
  <2>3. ASSUME d \in deps,
               NEW s \in Elements(A.specifications), s.name = n, s.constraint = c, Breaks(A, C, d, s)
        PROVE  Violation(c, n, d) \in broken
    BY <1>4, <2>3, Zenon
  <2> QED
    BY <2>1, <2>2, <2>3
<1>7. ASSUME NEW n
      PROVE  Violation("empty", n, None) \in V <=>
               /\ ~A.optional
               /\ C \cap ContainsPredicateFor(A, {n}) = {}
               /\ \E l \in Elements(A.layers) : l.name = n /\ ~l.optional
  <2>1. Violation("empty", n, None) \in V <=> Violation("empty", n, None) \in empty
    <3>1. "Origin" \in Directions
      BY DEF Directions
    <3> QED
      BY <1>1, <1>5, <3>1
  <2>2. \A w, m, e : Violation("empty", n, None) = Violation(w, m, e) => m = n
    BY ViolationsDiffer
  <2> QED
    BY <1>2, <2>1, <2>2, Zenon
<1>8. ASSUME NEW i
      PROVE  Violation("not contained", i, None) \in V <=>
               /\ A.containedUnless # None
               /\ i \in C \ (A.containedUnless \cup ContainsPredicateForAll(A))
  <2>1. Violation("not contained", i, None) \in V <=> Violation("not contained", i, None) \in outside
    <3>1. "Origin" \in Directions
      BY DEF Directions
    <3> QED
      BY <1>1, <1>5, <3>1
  <2>2. \A w, m, e : Violation("not contained", i, None) = Violation(w, m, e) => m = i
    BY DEF Violation
  <2> QED
    BY <1>3, <2>1, <2>2, Zenon
<1> QED
  BY <1>6, <1>7, <1>8 DEF Reports, V

-----------------------------------------------------------------------------
(***************************************************************************)
(* The layers and constraints an onion stands for.                         *)
(***************************************************************************)
LEMMA ElementsOfBoth ==
    ASSUME NEW S, NEW s \in Seq(S), NEW t \in Seq(S)
    PROVE  Elements(s \o t) = Elements(s) \cup Elements(t)
<1> DEFINE u == s \o t
<1>1. /\ u \in Seq(S) /\ Len(u) = Len(s) + Len(t)
      /\ Len(s) \in Nat /\ Len(t) \in Nat
      /\ DOMAIN u = 1..Len(u) /\ DOMAIN s = 1..Len(s) /\ DOMAIN t = 1..Len(t)
      /\ \A k \in 1..Len(u) : u[k] = IF k <= Len(s) THEN s[k] ELSE t[k - Len(s)]
  OBVIOUS
<1> HIDE DEF u
<1>2. ASSUME NEW x \in Elements(u)
      PROVE  x \in Elements(s) \cup Elements(t)
  <2>1. PICK k \in 1..Len(u) : x = u[k]
    BY <1>1 DEF Elements
  <2>2. CASE k <= Len(s)
    BY <1>1, <2>1, <2>2 DEF Elements
  <2>3. CASE ~(k <= Len(s))
    <3>1. k - Len(s) \in DOMAIN t /\ x = t[k - Len(s)]
      BY <1>1, <2>1, <2>3
    <3> QED
      BY <3>1 DEF Elements
  <2> QED
    BY <2>2, <2>3
<1>3. ASSUME NEW x \in Elements(s)
      PROVE  x \in Elements(u)
  <2>1. PICK k \in 1..Len(s) : x = s[k]
    BY <1>1 DEF Elements
  <2>2. k \in DOMAIN u /\ u[k] = x
    BY <1>1, <2>1
  <2> QED
    BY <2>2 DEF Elements
<1>4. ASSUME NEW x \in Elements(t)
      PROVE  x \in Elements(u)
  <2>1. PICK k \in 1..Len(t) : x = t[k]
    BY <1>1 DEF Elements
  <2>2. k + Len(s) \in DOMAIN u /\ u[k + Len(s)] = x
    BY <1>1, <2>1
  <2> QED
    BY <2>2 DEF Elements
<1> QED
  BY <1>2, <1>3, <1>4 DEF u

Rings == {DomainModel, DomainService, ApplicationService}

Adapters == [name : Names("onion"), contains : SUBSET Universe]

OnionRules ==
    [rings : [Rings -> SUBSET Universe], adapters : Seq(Adapters),
     irrelevant : SUBSET AllDependencies, optional : BOOLEAN,
     containedUnless : IgnoredItems \cup {None}]

AllAdapters(onion) == UNION {a.contains : a \in Elements(onion.adapters)}

LEMMA OnionLayers ==
    ASSUME NEW onion \in OnionRules
    PROVE  Elements(LayeredArchitectureDelegate(onion).layers) =
             {Layer(r, onion.rings[r]) : r \in Rings} \cup {Layer(AnyAdapter, AllAdapters(onion))}
             \cup {Layer(AdapterLayer(a), a.contains) : a \in Elements(onion.adapters)}
<1> DEFINE fixed == <<Layer(DomainModel, onion.rings[DomainModel]),
                      Layer(DomainService, onion.rings[DomainService]),
                      Layer(ApplicationService, onion.rings[ApplicationService]),
                      Layer(AnyAdapter, AllAdapters(onion))>>
           F(a) == Layer(AdapterLayer(a), a.contains)
           single == [k \in 1 .. Len(onion.adapters) |-> F(onion.adapters[k])]
           S == {Layer(r, onion.rings[r]) : r \in Rings} \cup {Layer(AnyAdapter, AllAdapters(onion))}
                \cup {F(a) : a \in Elements(onion.adapters)}
<1>1. LayeredArchitectureDelegate(onion).layers = fixed \o single
  BY DEF LayeredArchitectureDelegate, AllAdapters
<1>2. onion.adapters \in Seq(Adapters) /\ Len(onion.adapters) \in Nat
      /\ DOMAIN onion.adapters = 1 .. Len(onion.adapters)
  BY DEF OnionRules
<1>3. Elements(fixed) = {Layer(r, onion.rings[r]) : r \in Rings} \cup {Layer(AnyAdapter, AllAdapters(onion))}
  <2> HIDE DEF fixed
  <2>1. DOMAIN fixed = 1..4
    BY DEF fixed
  <2>2. /\ fixed[1] = Layer(DomainModel, onion.rings[DomainModel])
        /\ fixed[2] = Layer(DomainService, onion.rings[DomainService])
        /\ fixed[3] = Layer(ApplicationService, onion.rings[ApplicationService])
        /\ fixed[4] = Layer(AnyAdapter, AllAdapters(onion))
    BY DEF fixed
  <2>3. Elements(fixed) = {fixed[1], fixed[2], fixed[3], fixed[4]}
    BY <2>1 DEF Elements
  <2> QED
    BY <2>2, <2>3 DEF Rings
<1>4. Elements(single) = {F(a) : a \in Elements(onion.adapters)}
  BY <1>2 DEF Elements
<1>5. fixed \in Seq(S) /\ single \in Seq(S)
  <2>1. \A k \in 1 .. Len(onion.adapters) : F(onion.adapters[k]) \in S
    BY <1>2 DEF Elements
  <2>2. fixed \in Seq(S)
    BY DEF Rings
  <2> HIDE DEF S, F
  <2> QED
    BY <1>2, <2>1, <2>2
<1> HIDE DEF fixed, single, S
<1>6. Elements(fixed \o single) = Elements(fixed) \cup Elements(single)
  BY <1>5, ElementsOfBoth
<1> QED
  BY <1>1, <1>3, <1>4, <1>6

OnionAllows(r) ==
    IF r = DomainModel THEN {DomainService, ApplicationService, AnyAdapter}
    ELSE IF r = DomainService THEN {ApplicationService, AnyAdapter}
    ELSE {AnyAdapter}

LEMMA LayersDiffer ==
    /\ DomainModel # DomainService /\ DomainModel # ApplicationService /\ DomainModel # AnyAdapter
    /\ DomainService # ApplicationService /\ DomainService # AnyAdapter
    /\ ApplicationService # AnyAdapter
    /\ \A a : AdapterLayer(a) \notin Rings \cup {AnyAdapter}
    /\ \A a, b : AdapterLayer(a) = AdapterLayer(b) => a.name = b.name
<1>1. /\ DomainModel # DomainService /\ DomainModel # ApplicationService /\ DomainModel # AnyAdapter
      /\ DomainService # ApplicationService /\ DomainService # AnyAdapter
      /\ ApplicationService # AnyAdapter
  BY DEF DomainModel, DomainService, ApplicationService, AnyAdapter
<1>2. ASSUME NEW a PROVE AdapterLayer(a) \notin Rings \cup {AnyAdapter}
  <2>1. Len(AdapterLayer(a)) = 2
    BY DEF AdapterLayer
  <2>2. \A r \in Rings \cup {AnyAdapter} : Len(r) = 1
    <3>1. Len(DomainModel) = 1 /\ Len(DomainService) = 1 /\ Len(ApplicationService) = 1 /\ Len(AnyAdapter) = 1
      BY DEF DomainModel, DomainService, ApplicationService, AnyAdapter
    <3> QED
      BY <3>1 DEF Rings
  <2> QED
    BY <2>1, <2>2
<1>3. \A a, b : AdapterLayer(a) = AdapterLayer(b) => a.name = b.name
  BY DEF AdapterLayer
<1> QED
  BY <1>1, <1>2, <1>3

LEMMA OnionConstraints ==
    ASSUME NEW onion \in OnionRules
    PROVE  Elements(LayeredArchitectureDelegate(onion).specifications) =
             {MayOnlyBeAccessedBy(r, OnionAllows(r)) : r \in Rings}
             \cup {MayOnlyBeAccessedBy(AdapterLayer(a), {}) : a \in Elements(onion.adapters)}
<1> DEFINE fixed == <<MayOnlyBeAccessedBy(DomainModel, {DomainService, ApplicationService, AnyAdapter}),
                      MayOnlyBeAccessedBy(DomainService, {ApplicationService, AnyAdapter}),
                      MayOnlyBeAccessedBy(ApplicationService, {AnyAdapter})>>
           F(a) == MayOnlyBeAccessedBy(AdapterLayer(a), {})
           single == [k \in 1 .. Len(onion.adapters) |-> F(onion.adapters[k])]
           S == {MayOnlyBeAccessedBy(r, OnionAllows(r)) : r \in Rings}
                \cup {F(a) : a \in Elements(onion.adapters)}
<1>1. LayeredArchitectureDelegate(onion).specifications = fixed \o single
  BY DEF LayeredArchitectureDelegate
<1>2. onion.adapters \in Seq(Adapters) /\ Len(onion.adapters) \in Nat
      /\ DOMAIN onion.adapters = 1 .. Len(onion.adapters)
  BY DEF OnionRules
<1>3. Elements(fixed) = {MayOnlyBeAccessedBy(r, OnionAllows(r)) : r \in Rings}
  <2> HIDE DEF fixed
  <2>1. DOMAIN fixed = 1..3
    BY DEF fixed
  <2>2. /\ fixed[1] = MayOnlyBeAccessedBy(DomainModel, OnionAllows(DomainModel))
        /\ fixed[2] = MayOnlyBeAccessedBy(DomainService, OnionAllows(DomainService))
        /\ fixed[3] = MayOnlyBeAccessedBy(ApplicationService, OnionAllows(ApplicationService))
    BY LayersDiffer DEF fixed, OnionAllows
  <2>3. Elements(fixed) = {fixed[1], fixed[2], fixed[3]}
    BY <2>1 DEF Elements
  <2> QED
    BY <2>2, <2>3 DEF Rings
<1>4. Elements(single) = {F(a) : a \in Elements(onion.adapters)}
  BY <1>2 DEF Elements
<1>5. fixed \in Seq(S) /\ single \in Seq(S)
  <2>1. \A k \in 1 .. Len(onion.adapters) : F(onion.adapters[k]) \in S
    BY <1>2 DEF Elements
  <2>2. fixed \in Seq(S)
    BY LayersDiffer DEF Rings, OnionAllows
  <2> HIDE DEF S, F
  <2> QED
    BY <1>2, <2>1, <2>2
<1> HIDE DEF fixed, single, S
<1>6. Elements(fixed \o single) = Elements(fixed) \cup Elements(single)
  BY <1>5, ElementsOfBoth
<1> QED
  BY <1>1, <1>3, <1>4, <1>6

(***************************************************************************)
(* What a layer of the onion contains: a ring, all adapters, or one.       *)
(***************************************************************************)
LEMMA OnionContains ==
    ASSUME NEW onion \in OnionRules, NEW names
    PROVE  LET A == LayeredArchitectureDelegate(onion) IN
           /\ \A r \in Rings : r \in names => onion.rings[r] \subseteq ContainsPredicateFor(A, names)
           /\ \A i \in ContainsPredicateFor(A, names) :
                 \/ \E r \in Rings : r \in names /\ i \in onion.rings[r]
                 \/ AnyAdapter \in names /\ i \in AllAdapters(onion)
                 \/ \E a \in Elements(onion.adapters) : AdapterLayer(a) \in names /\ i \in a.contains
           /\ \A a \in Elements(onion.adapters) :
                 AdapterLayer(a) \in names => a.contains \subseteq ContainsPredicateFor(A, names)
<1> DEFINE A == LayeredArchitectureDelegate(onion)
<1>1. Elements(A.layers) =
        {Layer(r, onion.rings[r]) : r \in Rings} \cup {Layer(AnyAdapter, AllAdapters(onion))}
        \cup {Layer(AdapterLayer(a), a.contains) : a \in Elements(onion.adapters)}
  BY OnionLayers
<1> HIDE DEF A
<1>2. \A n, c : Layer(n, c).name = n /\ Layer(n, c).contains = c
  BY DEF Layer
<1>3. ASSUME NEW l \in Elements(A.layers), l.name \in names
      PROVE  l.contains \subseteq ContainsPredicateFor(A, names)
  BY <1>3 DEF ContainsPredicateFor
<1>4. ASSUME NEW r \in Rings, r \in names
      PROVE  onion.rings[r] \subseteq ContainsPredicateFor(A, names)
  <2>1. Layer(r, onion.rings[r]) \in Elements(A.layers)
    BY <1>1
  <2> QED
    BY <1>2, <1>3, <1>4, <2>1
<1>5. ASSUME NEW a \in Elements(onion.adapters), AdapterLayer(a) \in names
      PROVE  a.contains \subseteq ContainsPredicateFor(A, names)
  <2>1. Layer(AdapterLayer(a), a.contains) \in Elements(A.layers)
    BY <1>1
  <2> QED
    BY <1>2, <1>3, <1>5, <2>1
<1>6. ASSUME NEW i \in ContainsPredicateFor(A, names)
      PROVE  \/ \E r \in Rings : r \in names /\ i \in onion.rings[r]
             \/ AnyAdapter \in names /\ i \in AllAdapters(onion)
             \/ \E a \in Elements(onion.adapters) : AdapterLayer(a) \in names /\ i \in a.contains
  <2>1. PICK l \in Elements(A.layers) : l.name \in names /\ i \in l.contains
    BY DEF ContainsPredicateFor
  <2>2. CASE \E r \in Rings : l = Layer(r, onion.rings[r])
    BY <1>2, <2>1, <2>2
  <2>3. CASE l = Layer(AnyAdapter, AllAdapters(onion))
    BY <1>2, <2>1, <2>3
  <2>4. CASE \E a \in Elements(onion.adapters) : l = Layer(AdapterLayer(a), a.contains)
    BY <1>2, <2>1, <2>4
  <2> QED
    BY <1>1, <2>1, <2>2, <2>3, <2>4
<1> QED
  BY <1>4, <1>5, <1>6 DEF A

(***************************************************************************)
(* Every item whose dependency goes into a layer that may be accessed only *)
(* by some is in one of those, if the evaluation reports no dependency.    *)
(***************************************************************************)
LEMMA OnionHolds ==
    ASSUME NEW onion \in OnionRules, onion.irrelevant = {},
           NEW deps \in SUBSET AllDependencies,
           ~EvaluateOnion(onion, Items, deps).panicked,
           \A n, d : Violation("Origin", n, d) \notin EvaluateOnion(onion, Items, deps).violations
    PROVE  \A s \in Elements(LayeredArchitectureDelegate(onion).specifications) : \A d \in deps :
              d[2] \in Items /\ d[2] \in ContainsPredicateFor(LayeredArchitectureDelegate(onion), {s.name}) =>
                d[1] \in ContainsPredicateFor(LayeredArchitectureDelegate(onion), s.allowed \cup {s.name})
<1> DEFINE A == LayeredArchitectureDelegate(onion)
           V == EvaluateLayered(A, Items, deps).violations
<1>1. V = EvaluateOnion(onion, Items, deps).violations /\ ~EvaluateLayered(A, Items, deps).panicked
  BY DEF EvaluateOnion
<1>2. \A s \in Elements(A.specifications) : s.constraint = "Origin"
  BY OnionConstraints DEF MayOnlyBeAccessedBy
<1>3. Reports(A, Items, deps, V)
  BY <1>1, <1>2, LayeredReports DEF Directions
<1>4. \A d : Matters(A, d)
  BY DEF Matters, ExcludedDependencies, LayeredArchitectureDelegate
<1> HIDE DEF A, V
<1> SUFFICES ASSUME NEW s \in Elements(A.specifications), NEW d \in deps,
                    d[2] \in Items, d[2] \in ContainsPredicateFor(A, {s.name}),
                    d[1] \notin ContainsPredicateFor(A, s.allowed \cup {s.name})
             PROVE  FALSE
  BY DEF A
<1>5. Breaks(A, Items, d, s)
  BY <1>2, <1>4 DEF Breaks
<1>6. Violation("Origin", s.name, d) \in V
  BY <1>2, <1>3, <1>5 DEF Reports, Directions
<1> QED
  BY <1>1, <1>6

(***************************************************************************)
(* What reaches a set is in every closed set around it.                    *)
(***************************************************************************)
LEMMA ReachingInClosed ==
    ASSUME NEW deps, NEW T, NEW S \in SUBSET Universe, T \subseteq S, ClosedBackwards(S, deps)
    PROVE  Reaching(T, deps) \subseteq S
BY DEF Reaching

(***************************************************************************)
(* A ring and what is outside of it.                                       *)
(***************************************************************************)
OnionFrom(onion, r) ==
    CASE r = DomainModel -> (UNION {onion.rings[q] : q \in DOMAIN onion.rings}) \cup AllAdapters(onion)
      [] r = DomainService -> onion.rings[DomainService] \cup onion.rings[ApplicationService]
                              \cup AllAdapters(onion)
      [] r = ApplicationService -> onion.rings[ApplicationService] \cup AllAdapters(onion)

LEMMA OnionClosed ==
    ASSUME NEW onion \in OnionRules, onion.irrelevant = {},
           NEW deps \in SUBSET AllDependencies,
           ~EvaluateOnion(onion, Items, deps).panicked,
           \A n, d : Violation("Origin", n, d) \notin EvaluateOnion(onion, Items, deps).violations,
           UniquelyNamed(onion.adapters)
    PROVE  /\ \A r \in Rings : Reaching(onion.rings[r] \cap Items, deps) \subseteq OnionFrom(onion, r)
           /\ \A a \in Elements(onion.adapters) : Reaching(a.contains \cap Items, deps) \subseteq a.contains
<1> DEFINE A == LayeredArchitectureDelegate(onion)
           ring(r) == onion.rings[r]
           one == AllAdapters(onion)
<1>1. \A d \in deps : d[1] \in Items /\ d[1] \in Universe
  BY DEF AllDependencies, Universe
<1>2. \A r \in Rings : \A d \in deps :
        d[2] \in Items /\ d[2] \in ring(r) =>
          \/ \E q \in Rings : q \in OnionAllows(r) \cup {r} /\ d[1] \in ring(q)
          \/ d[1] \in one
  <2> SUFFICES ASSUME NEW r \in Rings, NEW d \in deps, d[2] \in Items, d[2] \in ring(r)
               PROVE  \/ \E q \in Rings : q \in OnionAllows(r) \cup {r} /\ d[1] \in ring(q)
                      \/ d[1] \in one
    OBVIOUS
  <2> DEFINE s == MayOnlyBeAccessedBy(r, OnionAllows(r))
  <2>1. s \in Elements(A.specifications)
    BY OnionConstraints
  <2>2. s.name = r /\ s.allowed = OnionAllows(r)
    BY DEF MayOnlyBeAccessedBy
  <2> HIDE DEF s, A
  <2>3. d[2] \in ContainsPredicateFor(A, {r})
    BY OnionContains DEF A
  <2>4. d[1] \in ContainsPredicateFor(A, OnionAllows(r) \cup {r})
    BY <2>1, <2>2, <2>3, OnionHolds DEF A
  <2>5. \A a : AdapterLayer(a) \notin OnionAllows(r) \cup {r}
    BY LayersDiffer DEF OnionAllows, Rings
  <2> QED
    BY <2>4, <2>5, OnionContains DEF A
<1>3. \A a \in Elements(onion.adapters) : \A d \in deps :
        d[2] \in Items /\ d[2] \in a.contains => d[1] \in a.contains
  <2> SUFFICES ASSUME NEW a \in Elements(onion.adapters), NEW d \in deps,
                      d[2] \in Items, d[2] \in a.contains
               PROVE  d[1] \in a.contains
    OBVIOUS
  <2> DEFINE s == MayOnlyBeAccessedBy(AdapterLayer(a), {})
  <2>1. s \in Elements(A.specifications)
    BY OnionConstraints
  <2>2. s.name = AdapterLayer(a) /\ s.allowed = {}
    BY DEF MayOnlyBeAccessedBy
  <2> HIDE DEF s, A
  <2>3. d[2] \in ContainsPredicateFor(A, {AdapterLayer(a)})
    BY OnionContains DEF A
  <2>4. d[1] \in ContainsPredicateFor(A, {AdapterLayer(a)})
    BY <2>1, <2>2, <2>3, OnionHolds DEF A
  <2>5. AdapterLayer(a) \notin Rings /\ AdapterLayer(a) # AnyAdapter
    BY LayersDiffer
  <2>6. PICK b \in Elements(onion.adapters) : AdapterLayer(b) = AdapterLayer(a) /\ d[1] \in b.contains
    BY <2>4, <2>5, OnionContains DEF A
  <2>7. a = b
    BY <2>6, LayersDiffer DEF UniquelyNamed, Elements
  <2> QED
    BY <2>6, <2>7
<1>4. \A d \in deps : d[2] \in Items /\ d[2] \in one => d[1] \in one
  BY <1>3 DEF AllAdapters
<1>5. ASSUME NEW r \in Rings
      PROVE  Reaching(ring(r) \cap Items, deps) \subseteq OnionFrom(onion, r)
  <2> DEFINE S == OnionFrom(onion, r) \cap Items
  <2>1. DOMAIN onion.rings = Rings
    BY DEF OnionRules
  <2>2. ring(r) \cap Items \subseteq S
    BY <2>1, LayersDiffer DEF OnionFrom, Rings
  <2>3. ClosedBackwards(S, deps)
    <3> SUFFICES ASSUME NEW d \in deps, d[2] \in Items, d[2] \in OnionFrom(onion, r)
                 PROVE  d[1] \in OnionFrom(onion, r)
      BY <1>1 DEF ClosedBackwards
    <3> HIDE DEF ring, one
    <3>1. CASE d[2] \in one
      <4>1. d[1] \in one
        BY <1>4, <3>1
      <4> QED
        BY <4>1, LayersDiffer DEF OnionFrom, Rings, one
    <3>2. CASE d[2] \notin one
      <4>1. OnionFrom(onion, r) =
              IF r = DomainModel THEN ring(DomainModel) \cup ring(DomainService) \cup ring(ApplicationService) \cup one
              ELSE IF r = DomainService THEN ring(DomainService) \cup ring(ApplicationService) \cup one
              ELSE ring(ApplicationService) \cup one
        BY <2>1, LayersDiffer DEF OnionFrom, Rings, one, ring
      <4> QED
        BY <1>2, <3>2, <4>1, LayersDiffer DEF Rings, OnionAllows
    <3> QED
      BY <3>1, <3>2
  <2>4. S \in SUBSET Universe
    BY DEF Universe
  <2> HIDE DEF S
  <2>5. Reaching(ring(r) \cap Items, deps) \subseteq S
    BY <2>2, <2>3, <2>4, ReachingInClosed
  <2> QED
    BY <2>5 DEF S
<1>6. ASSUME NEW a \in Elements(onion.adapters)
      PROVE  Reaching(a.contains \cap Items, deps) \subseteq a.contains
  <2> DEFINE S == a.contains \cap Items
  <2>1. ClosedBackwards(S, deps)
    BY <1>1, <1>3 DEF ClosedBackwards
  <2>2. S \in SUBSET Universe
    BY DEF Universe
  <2>3. Reaching(S, deps) \subseteq S
    BY <2>1, <2>2, ReachingInClosed
  <2> QED
    BY <2>3
<1> QED
  BY <1>5, <1>6

-----------------------------------------------------------------------------
(***************************************************************************)
(* The rule of an onion: its rings, and adapters of different names.       *)
(***************************************************************************)
OnionWritten ==
    kind = "onion" => rule \in OnionRules /\ UniquelyNamed(rule.adapters)

LEMMA InitOnion == Init => OnionWritten
<1> SUFFICES ASSUME Init, kind = "onion" PROVE rule \in OnionRules /\ UniquelyNamed(rule.adapters)
  BY DEF OnionWritten
<1>1. rule = NewOnionArchitecture
  BY DEF Init, NewRules
<1>2. <<>> \in Seq(Adapters)
  OBVIOUS
<1> QED
  BY <1>1, <1>2 DEF NewOnionArchitecture, OnionRules, Rings, UniquelyNamed

LEMMA OnionCalls ==
    ASSUME kind = "onion", [Next]_vars
    PROVE  /\ kind' = kind
           /\ \/ rule' = rule
              \/ \E w \in Definitions["onion"] :
                    /\ w.name \in DOMAIN rule.rings
                    /\ rule' = [rule EXCEPT !.rings[w.name] = w.contains]
              \/ \E w \in Definitions["onion"] : rule' = AddAdapter(rule, w.name, w.contains)
              \/ \E P \in IgnoredSets : rule' = [rule EXCEPT !.irrelevant = @ \cup P]
              \/ \E b \in BOOLEAN : rule' = [rule EXCEPT !.optional = b]
              \/ \E P \in IgnoredItems : rule' = [rule EXCEPT !.containedUnless = P]
<1>1. CASE DefineOnion
  BY <1>1 DEF DefineOnion, Say, DefineRing
<1>2. CASE IgnoreDependencyWhere
  BY <1>2 DEF IgnoreDependencyWhere, Say
<1>3. CASE WithOptional
  BY <1>3 DEF WithOptional, Say
<1>4. CASE EnsureAllItemsAreContained
  BY <1>4 DEF EnsureAllItemsAreContained, Say
<1>5. CASE Evaluate
  BY <1>5 DEF Evaluate
<1>6. CASE UNCHANGED vars
  BY <1>6 DEF vars
<1>7. \/ DefineOnion \/ IgnoreDependencyWhere \/ WithOptional \/ EnsureAllItemsAreContained
      \/ Evaluate \/ UNCHANGED vars
  BY DEF Next, Writing, DefinedBy, WhereLayer, DefineModuleBy, ModulesDefinedByPackages, NamingModules,
         WhereModule, ThroughItemsThat, ModulesShouldBeFreeOfCycles, RestrictSlices, SlicesShould,
         AllowEmptyShould, WriteLine
<1> QED
  BY <1>1, <1>2, <1>3, <1>4, <1>5, <1>6, <1>7

LEMMA NextOnion == Judged /\ OnionWritten /\ [Next]_vars => OnionWritten'
<1> SUFFICES ASSUME Judged, OnionWritten, [Next]_vars, kind' = "onion"
             PROVE  rule' \in OnionRules /\ UniquelyNamed(rule'.adapters)
  BY DEF OnionWritten
<1>1. kind = "onion" /\ "onion" \in Kinds
  <2>1. kind' = kind
    BY NextWritesOrJudges DEF Writes, Evaluate, vars
  <2> QED
    BY <2>1 DEF Judged
<1>2. rule \in OnionRules /\ UniquelyNamed(rule.adapters)
  BY <1>1 DEF OnionWritten
<1>3. \A w \in Definitions["onion"] : w.name \in Names("onion") /\ w.contains \in SUBSET Universe
  BY <1>1, RulesAssumption DEF Names
<1>4. ASSUME NEW w \in Definitions["onion"], w.name \in DOMAIN rule.rings,
             rule' = [rule EXCEPT !.rings[w.name] = w.contains]
      PROVE  rule' \in OnionRules /\ UniquelyNamed(rule'.adapters)
  BY <1>2, <1>3, <1>4 DEF OnionRules
<1>5. ASSUME NEW w \in Definitions["onion"], rule' = AddAdapter(rule, w.name, w.contains)
      PROVE  rule' \in OnionRules /\ UniquelyNamed(rule'.adapters)
  <2> DEFINE part == [name |-> w.name, contains |-> w.contains]
             parts == rule.adapters
             new == ReplaceOrPush(parts, {k \in DOMAIN parts : parts[k].name = part.name}, part)
  <2>1. part \in Adapters /\ parts \in Seq(Adapters) /\ UniquelyNamed(parts)
    BY <1>2, <1>3 DEF Adapters, OnionRules
  <2>2. rule' = [rule EXCEPT !.adapters = new]
    BY <1>5 DEF AddAdapter
  <2> HIDE DEF part, parts
  <2>3. new \in Seq(Adapters) /\ UniquelyNamed(new)
    BY <2>1, PutByName
  <2> HIDE DEF new
  <2> QED
    BY <1>2, <2>2, <2>3 DEF OnionRules
<1>6. ASSUME NEW P \in IgnoredSets, rule' = [rule EXCEPT !.irrelevant = @ \cup P]
      PROVE  rule' \in OnionRules /\ UniquelyNamed(rule'.adapters)
  <2>1. P \in SUBSET AllDependencies
    BY RulesAssumption
  <2> QED
    BY <1>2, <1>6, <2>1 DEF OnionRules
<1>7. ASSUME NEW b \in BOOLEAN, rule' = [rule EXCEPT !.optional = b]
      PROVE  rule' \in OnionRules /\ UniquelyNamed(rule'.adapters)
  BY <1>2, <1>7 DEF OnionRules
<1>8. ASSUME NEW P \in IgnoredItems, rule' = [rule EXCEPT !.containedUnless = P]
      PROVE  rule' \in OnionRules /\ UniquelyNamed(rule'.adapters)
  BY <1>2, <1>8 DEF OnionRules
<1> QED
  BY <1>1, <1>2, <1>4, <1>5, <1>6, <1>7, <1>8, OnionCalls

LEMMA WrittenOnionIsolates == Judged /\ OnionWritten => OnionIsolates
<1> SUFFICES ASSUME Judged, OnionWritten, Evaluated("onion"), Dependencies("Origin") = {},
                    rule.irrelevant = {}, checked = Items
             PROVE  /\ \A r \in DOMAIN rule.rings :
                          Reaching(rule.rings[r] \cap Items, dependencies) \subseteq RingsFrom(r)
                    /\ \A a \in Elements(rule.adapters) :
                          Reaching(a.contains \cap Items, dependencies) \subseteq a.contains
  BY DEF OnionIsolates
<1>1. kind = "onion" /\ outcome = "evaluated"
  BY DEF Evaluated
<1>2. rule \in OnionRules /\ UniquelyNamed(rule.adapters) /\ DOMAIN rule.rings = Rings
  BY <1>1 DEF OnionWritten, OnionRules
<1>3. Judgement = EvaluateOnion(rule, Items, dependencies)
  BY <1>1 DEF Judgement, EvaluateRule
<1>4. /\ dependencies \in SUBSET AllDependencies
      /\ ~EvaluateOnion(rule, Items, dependencies).panicked
      /\ violations = EvaluateOnion(rule, Items, dependencies).violations
  BY <1>1, <1>3 DEF Judged
<1>5. \A n, d : Violation("Origin", n, d) \notin violations
  <2> SUFFICES ASSUME NEW n, NEW d, Violation("Origin", n, d) \in violations PROVE FALSE
    OBVIOUS
  <2>1. Violation("Origin", n, d).what = "Origin"
    BY DEF Violation
  <2>2. Violation("Origin", n, d) \in {w \in violations : w.what = "Origin"}
    BY <2>1
  <2>3. Violation("Origin", n, d).dependency \in Dependencies("Origin")
    BY <2>2 DEF Dependencies
  <2> QED
    BY <2>3
<1>6. /\ \A r \in Rings : Reaching(rule.rings[r] \cap Items, dependencies) \subseteq OnionFrom(rule, r)
      /\ \A a \in Elements(rule.adapters) :
            Reaching(a.contains \cap Items, dependencies) \subseteq a.contains
  BY <1>2, <1>4, <1>5, OnionClosed
<1>7. \A r \in Rings : RingsFrom(r) = OnionFrom(rule, r)
  BY DEF RingsFrom, OnionFrom, AllAdapters
<1> QED
  BY <1>2, <1>6, <1>7

(***************************************************************************)
(* An onion that passes keeps its rings apart, whatever its definitions,   *)
(* in whatever order they were given, and whatever was imported.           *)
(***************************************************************************)
THEOREM PassedOnionsIsolate == Spec => []OnionIsolates
<1>1. Init => Judged /\ OnionWritten
  BY InitJudged, InitOnion
<1>2. (Judged /\ OnionWritten) /\ [Next]_vars => (Judged /\ OnionWritten)'
  BY NextJudged, NextOnion
<1>3. Judged /\ OnionWritten => OnionIsolates
  BY WrittenOnionIsolates
<1> QED
  BY <1>1, <1>2, <1>3, PTL DEF Spec

-----------------------------------------------------------------------------
(***************************************************************************)
(* The words of the calls.  Spoken are the words after one more of them.   *)
(***************************************************************************)
Spoken(words, topic, w) == [t \in {topic} \cup DOMAIN words |-> IF t = topic THEN w ELSE words[t]]

LEMMA SpokenWords ==
    ASSUME NEW words, NEW topic, NEW w
    PROVE  /\ topic \in DOMAIN Spoken(words, topic, w)
           /\ Spoken(words, topic, w)[topic] = w
           /\ \A t : t # topic =>
                /\ t \in DOMAIN Spoken(words, topic, w) <=> t \in DOMAIN words
                /\ t \in DOMAIN words => Spoken(words, topic, w)[t] = words[t]
BY DEF Spoken

LEMMA TopicsDiffer ==
    /\ \A n, m, c : <<"define", n>> # <<"where", m, c>>
    /\ \A n, m : <<"define", n>> = <<"define", m>> => n = m
    /\ \A n, m, c, e : <<"where", n, c>> = <<"where", m, e>> => n = m /\ c = e
    /\ \A n, c, t : <<"define", n>> # <<t>> /\ <<"where", n, c>> # <<t>>
    /\ \A t, u : <<t>> = <<u>> => t = u
<1>1. \A n, m, c : <<"define", n>> # <<"where", m, c>>
  <2> SUFFICES ASSUME NEW n, NEW m, NEW c PROVE <<"define", n>> # <<"where", m, c>>
    OBVIOUS
  <2>1. Len(<<"define", n>>) = 2 /\ Len(<<"where", m, c>>) = 3
    OBVIOUS
  <2> QED
    BY <2>1
<1>2. \A n, m : <<"define", n>> = <<"define", m>> => n = m
  OBVIOUS
<1>3. \A n, m, c, e : <<"where", n, c>> = <<"where", m, e>> => n = m /\ c = e
  OBVIOUS
<1>4. \A n, c, t : <<"define", n>> # <<t>> /\ <<"where", n, c>> # <<t>>
  <2> SUFFICES ASSUME NEW n, NEW t, NEW c PROVE <<"define", n>> # <<t>> /\ <<"where", n, c>> # <<t>>
    OBVIOUS
  <2>1. Len(<<"define", n>>) = 2 /\ Len(<<"where", n, c>>) = 3 /\ Len(<<t>>) = 1
    OBVIOUS
  <2> QED
    BY <2>1
<1>5. \A t, u : <<t>> = <<u>> => t = u
  OBVIOUS
<1> QED
  BY <1>1, <1>2, <1>3, <1>4, <1>5

(***************************************************************************)
(* The parts are what was said last about each name, and a name has a part *)
(* as soon as something was said; so are the constraints, the dependencies *)
(* and the items to ignore and the optional flag.                          *)
(***************************************************************************)
SameDefinition(l, w) == l.contains = w.contains /\ l.optional = w.optional

DefinitionsSay(words, names, parts) ==
    \A n \in names :
        /\ <<"define", n>> \in DOMAIN words => \E l \in Elements(parts) : l.name = n
        /\ \A l \in Elements(parts) : l.name = n =>
                /\ <<"define", n>> \in DOMAIN words
                /\ SameDefinition(l, words[<<"define", n>>])

ConstraintsSay(words, names, specifications) ==
    \A n \in names, c \in Directions :
        /\ <<"where", n, c>> \in DOMAIN words =>
              \E s \in Elements(specifications) : s.name = n /\ s.constraint = c
        /\ \A s \in Elements(specifications) : s.name = n /\ s.constraint = c =>
                <<"where", n, c>> \in DOMAIN words /\ words[<<"where", n, c>>] = s.allowed

IgnoredSay(words, irrelevant) ==
    irrelevant = IF <<"ignore">> \in DOMAIN words THEN words[<<"ignore">>] ELSE {}

OptionalSay(words, optional) ==
    optional <=> <<"optional">> \in DOMAIN words /\ words[<<"optional">>]

ChosenSay(words, topic, chosen) ==
    /\ chosen = IF topic \in DOMAIN words THEN words[topic] ELSE None
    /\ topic \in DOMAIN words => chosen # None

LEMMA SayDefinition ==
    ASSUME NEW words, NEW names, NEW parts, NEW new, NEW part, NEW w,
           DefinitionsSay(words, names, parts),
           Elements(new) = {q \in Elements(parts) : q.name # part.name} \cup {part},
           SameDefinition(part, w)
    PROVE  DefinitionsSay(Spoken(words, <<"define", part.name>>, w), names, new)
<1> DEFINE after == Spoken(words, <<"define", part.name>>, w)
<1> SUFFICES ASSUME NEW n \in names
             PROVE  /\ <<"define", n>> \in DOMAIN after => \E l \in Elements(new) : l.name = n
                    /\ \A l \in Elements(new) : l.name = n =>
                            /\ <<"define", n>> \in DOMAIN after
                            /\ SameDefinition(l, after[<<"define", n>>])
  BY DEF DefinitionsSay
<1>1. CASE n = part.name
  <2>1. <<"define", n>> \in DOMAIN after /\ after[<<"define", n>>] = w
    BY <1>1, SpokenWords
  <2>2. part \in Elements(new) /\ \A l \in Elements(new) : l.name = n => l = part
    BY <1>1
  <2> HIDE DEF after
  <2> QED
    BY <1>1, <2>1, <2>2
<1>2. CASE n # part.name
  <2>1. <<"define", n>> # <<"define", part.name>>
    BY <1>2, TopicsDiffer
  <2>2. /\ <<"define", n>> \in DOMAIN after <=> <<"define", n>> \in DOMAIN words
        /\ <<"define", n>> \in DOMAIN words => after[<<"define", n>>] = words[<<"define", n>>]
    BY <2>1, SpokenWords
  <2>3. \A l : l.name = n => (l \in Elements(new) <=> l \in Elements(parts))
    BY <1>2
  <2> HIDE DEF after
  <2>4. /\ <<"define", n>> \in DOMAIN words => \E l \in Elements(parts) : l.name = n
        /\ \A l \in Elements(parts) : l.name = n =>
                /\ <<"define", n>> \in DOMAIN words
                /\ SameDefinition(l, words[<<"define", n>>])
    BY DEF DefinitionsSay
  <2> QED
    BY <2>2, <2>3, <2>4
<1> QED
  BY <1>1, <1>2

LEMMA SayConstraint ==
    ASSUME NEW words, NEW names, NEW specifications, NEW new, NEW part,
           ConstraintsSay(words, names, specifications),
           Elements(new) = {q \in Elements(specifications) : \/ q.name # part.name
                                                            \/ q.constraint # part.constraint}
                           \cup {part}
    PROVE  ConstraintsSay(Spoken(words, <<"where", part.name, part.constraint>>, part.allowed), names, new)
<1> DEFINE after == Spoken(words, <<"where", part.name, part.constraint>>, part.allowed)
<1> SUFFICES ASSUME NEW n \in names, NEW c \in Directions
             PROVE  /\ <<"where", n, c>> \in DOMAIN after =>
                          \E s \in Elements(new) : s.name = n /\ s.constraint = c
                    /\ \A s \in Elements(new) : s.name = n /\ s.constraint = c =>
                            <<"where", n, c>> \in DOMAIN after /\ after[<<"where", n, c>>] = s.allowed
  BY DEF ConstraintsSay
<1>1. CASE n = part.name /\ c = part.constraint
  <2>1. <<"where", n, c>> \in DOMAIN after /\ after[<<"where", n, c>>] = part.allowed
    BY <1>1, SpokenWords
  <2>2. /\ part \in Elements(new)
        /\ \A s \in Elements(new) : s.name = n /\ s.constraint = c => s = part
    BY <1>1
  <2> HIDE DEF after
  <2> QED
    BY <1>1, <2>1, <2>2
<1>2. CASE ~(n = part.name /\ c = part.constraint)
  <2>1. <<"where", n, c>> # <<"where", part.name, part.constraint>>
    BY <1>2, TopicsDiffer
  <2>2. /\ <<"where", n, c>> \in DOMAIN after <=> <<"where", n, c>> \in DOMAIN words
        /\ <<"where", n, c>> \in DOMAIN words => after[<<"where", n, c>>] = words[<<"where", n, c>>]
    BY <2>1, SpokenWords
  <2>3. \A s : s.name = n /\ s.constraint = c => (s \in Elements(new) <=> s \in Elements(specifications))
    BY <1>2
  <2> HIDE DEF after
  <2>4. /\ <<"where", n, c>> \in DOMAIN words =>
              \E s \in Elements(specifications) : s.name = n /\ s.constraint = c
        /\ \A s \in Elements(specifications) : s.name = n /\ s.constraint = c =>
                <<"where", n, c>> \in DOMAIN words /\ words[<<"where", n, c>>] = s.allowed
    BY DEF ConstraintsSay
  <2> QED
    BY <2>2, <2>3, <2>4
<1> QED
  BY <1>1, <1>2

(***************************************************************************)
(* Words about something else change nothing of this.                      *)
(***************************************************************************)
LEMMA SayOther ==
    ASSUME NEW words, NEW topic, NEW w
    PROVE  /\ \A names, parts : DefinitionsSay(words, names, parts) /\ (\A n : topic # <<"define", n>>) =>
                DefinitionsSay(Spoken(words, topic, w), names, parts)
           /\ \A names, parts : ConstraintsSay(words, names, parts) /\ (\A n, c : topic # <<"where", n, c>>) =>
                ConstraintsSay(Spoken(words, topic, w), names, parts)
           /\ \A x : IgnoredSay(words, x) /\ topic # <<"ignore">> =>
                IgnoredSay(Spoken(words, topic, w), x)
           /\ \A x : OptionalSay(words, x) /\ topic # <<"optional">> =>
                OptionalSay(Spoken(words, topic, w), x)
           /\ \A t, x : ChosenSay(words, t, x) /\ topic # t =>
                ChosenSay(Spoken(words, topic, w), t, x)
<1> DEFINE after == Spoken(words, topic, w)
<1>1. \A t : topic # t =>
        /\ t \in DOMAIN after <=> t \in DOMAIN words
        /\ t \in DOMAIN words => after[t] = words[t]
  BY SpokenWords
<1> HIDE DEF after
<1>2. ASSUME NEW names, NEW parts, DefinitionsSay(words, names, parts), \A n : topic # <<"define", n>>
      PROVE  DefinitionsSay(after, names, parts)
  BY <1>1, <1>2 DEF DefinitionsSay
<1>3. ASSUME NEW names, NEW parts, ConstraintsSay(words, names, parts), \A n, c : topic # <<"where", n, c>>
      PROVE  ConstraintsSay(after, names, parts)
  <2> SUFFICES ASSUME NEW n \in names, NEW c \in Directions
               PROVE  /\ <<"where", n, c>> \in DOMAIN after =>
                            \E s \in Elements(parts) : s.name = n /\ s.constraint = c
                      /\ \A s \in Elements(parts) : s.name = n /\ s.constraint = c =>
                              <<"where", n, c>> \in DOMAIN after /\ after[<<"where", n, c>>] = s.allowed
    BY DEF ConstraintsSay
  <2> DEFINE t == <<"where", n, c>>
  <2>1. /\ t \in DOMAIN after <=> t \in DOMAIN words
        /\ t \in DOMAIN words => after[t] = words[t]
    BY <1>1, <1>3
  <2>2. /\ t \in DOMAIN words => \E s \in Elements(parts) : s.name = n /\ s.constraint = c
        /\ \A s \in Elements(parts) : s.name = n /\ s.constraint = c =>
              t \in DOMAIN words /\ words[t] = s.allowed
    BY <1>3 DEF ConstraintsSay
  <2> HIDE DEF t
  <2>3. /\ t \in DOMAIN after => \E s \in Elements(parts) : s.name = n /\ s.constraint = c
        /\ \A s \in Elements(parts) : s.name = n /\ s.constraint = c =>
              t \in DOMAIN after /\ after[t] = s.allowed
    BY <2>1, <2>2
  <2> QED
    BY <2>3 DEF t
<1>4. ASSUME NEW x, IgnoredSay(words, x), topic # <<"ignore">>
      PROVE  IgnoredSay(after, x)
  BY <1>1, <1>4 DEF IgnoredSay
<1>5. ASSUME NEW x, OptionalSay(words, x), topic # <<"optional">>
      PROVE  OptionalSay(after, x)
  BY <1>1, <1>5 DEF OptionalSay
<1>6. ASSUME NEW t, NEW x, ChosenSay(words, t, x), topic # t
      PROVE  ChosenSay(after, t, x)
  BY <1>1, <1>6 DEF ChosenSay
<1> QED
  BY <1>2, <1>3, <1>4, <1>5, <1>6 DEF after

-----------------------------------------------------------------------------
(***************************************************************************)
(* The rule of a layered architecture: layers of different names, one      *)
(* constraint for a name and a direction, on layers that are there; and    *)
(* all of it is what was said last.                                        *)
(***************************************************************************)
LayerDefinitions == [name : Names("layered"), optional : BOOLEAN, contains : SUBSET Universe]

LayerConstraints == [name : Names("layered"), constraint : Directions, allowed : SUBSET Names("layered")]

LayeredRules ==
    [layers : Seq(LayerDefinitions), specifications : Seq(LayerConstraints), settings : Settings,
     irrelevant : SUBSET AllDependencies, optional : BOOLEAN,
     containedUnless : IgnoredItems \cup {None}]

LayeredBuilt(r, words) ==
    /\ r \in LayeredRules
    /\ UniquelyNamed(r.layers)
    /\ UniquelyDirected(r.specifications)
    /\ DefinitionsSay(words, Names("layered"), r.layers)
    /\ ConstraintsSay(words, Names("layered"), r.specifications)
    /\ IgnoredSay(words, r.irrelevant)
    /\ OptionalSay(words, r.optional)
    /\ ChosenSay(words, <<"contained">>, r.containedUnless)

LayeredWritten == kind = "layered" => LayeredBuilt(rule, said)

LEMMA NothingSaid ==
    ASSUME NEW words, words = <<>>, NEW names
    PROVE  /\ UniquelyNamed(<<>>) /\ UniquelyDirected(<<>>)
           /\ DefinitionsSay(words, names, <<>>) /\ ConstraintsSay(words, names, <<>>)
           /\ IgnoredSay(words, {}) /\ OptionalSay(words, FALSE) /\ \A t : ChosenSay(words, t, None)
<1>1. DOMAIN words = {} /\ Elements(<<>>) = {} /\ DOMAIN <<>> = {}
  BY DEF Elements
<1> QED
  BY <1>1 DEF UniquelyNamed, UniquelyDirected, DefinitionsSay, ConstraintsSay, IgnoredSay, OptionalSay,
              ChosenSay

LEMMA InitLayered == Init => LayeredWritten
<1> SUFFICES ASSUME Init, kind = "layered" PROVE LayeredBuilt(rule, said)
  BY DEF LayeredWritten
<1>1. PICK s \in Settings : rule = NewLayeredArchitecture(s)
  BY DEF Init, NewRules
<1>2. <<>> \in Seq(LayerDefinitions) /\ <<>> \in Seq(LayerConstraints)
  OBVIOUS
<1>3. rule \in LayeredRules
  BY <1>1, <1>2 DEF NewLayeredArchitecture, LayeredRules
<1>4. said = <<>>
  BY DEF Init
<1>5. /\ rule.layers = <<>> /\ rule.specifications = <<>> /\ rule.irrelevant = {}
      /\ rule.optional = FALSE /\ rule.containedUnless = None
  BY <1>1 DEF NewLayeredArchitecture
<1> QED
  BY <1>3, <1>4, <1>5, NothingSaid DEF LayeredBuilt

LEMMA LayeredCalls ==
    ASSUME kind = "layered", [Next]_vars
    PROVE  \/ rule' = rule /\ said' = said
           \/ \E w \in Definitions["layered"] :
                /\ rule' = AddLayerDefinition(rule, w.name, w.optional, w.contains)
                /\ said' = Spoken(said, <<"define", w.name>>, w)
           \/ \E n \in Names("layered"), c \in Directions, allowed \in Allowed["layered"] :
                /\ CheckLayerNamesExist(rule, {n} \cup allowed)
                /\ rule' = AddDependencySpecification(rule, n, c, allowed)
                /\ said' = Spoken(said, <<"where", n, c>>, allowed)
           \/ \E P \in IgnoredSets :
                /\ rule' = [rule EXCEPT !.irrelevant = rule.irrelevant \cup P]
                /\ said' = Spoken(said, <<"ignore">>, rule.irrelevant \cup P)
           \/ \E b \in BOOLEAN :
                /\ rule' = [rule EXCEPT !.optional = b]
                /\ said' = Spoken(said, <<"optional">>, b)
           \/ \E P \in IgnoredItems :
                /\ rule' = [rule EXCEPT !.containedUnless = P]
                /\ said' = Spoken(said, <<"contained">>, P)
<1>1. CASE DefinedBy
  BY <1>1 DEF DefinedBy, Say, Spoken
<1>2. CASE WhereLayer
  BY <1>2 DEF WhereLayer, Say, Spoken, Panic, Directions
<1>3. CASE IgnoreDependencyWhere
  BY <1>3 DEF IgnoreDependencyWhere, Say, Spoken
<1>4. CASE WithOptional
  BY <1>4 DEF WithOptional, Say, Spoken
<1>5. CASE EnsureAllItemsAreContained
  BY <1>5 DEF EnsureAllItemsAreContained, Say, Spoken
<1>6. CASE Evaluate
  BY <1>6 DEF Evaluate
<1>7. CASE UNCHANGED vars
  BY <1>7 DEF vars
<1>8. \/ DefinedBy \/ WhereLayer \/ IgnoreDependencyWhere \/ WithOptional \/ EnsureAllItemsAreContained
      \/ Evaluate \/ UNCHANGED vars
  BY DEF Next, Writing, DefineOnion, DefineModuleBy, ModulesDefinedByPackages, NamingModules,
         WhereModule, ThroughItemsThat, ModulesShouldBeFreeOfCycles, RestrictSlices, SlicesShould,
         AllowEmptyShould, WriteLine
<1> QED
  BY <1>1, <1>2, <1>3, <1>4, <1>5, <1>6, <1>7, <1>8

LEMMA NextLayered == Judged /\ LayeredWritten /\ [Next]_vars => LayeredWritten'
<1> SUFFICES ASSUME Judged, LayeredWritten, [Next]_vars, kind' = "layered"
             PROVE  LayeredBuilt(rule', said')
  BY DEF LayeredWritten
<1>1. kind = "layered" /\ "layered" \in Kinds
  <2>1. kind' = kind
    BY NextWritesOrJudges DEF Writes, Evaluate, vars
  <2> QED
    BY <2>1 DEF Judged
<1>2. LayeredBuilt(rule, said)
  BY <1>1 DEF LayeredWritten
<1>3. \A w \in Definitions["layered"] :
        w.name \in Names("layered") /\ w.contains \in SUBSET Universe /\ w.optional \in BOOLEAN
  BY <1>1, RulesAssumption DEF Names
<1>4. ASSUME NEW w \in Definitions["layered"],
             rule' = AddLayerDefinition(rule, w.name, w.optional, w.contains),
             said' = Spoken(said, <<"define", w.name>>, w)
      PROVE  LayeredBuilt(rule', said')
  <2> DEFINE part == [name |-> w.name, optional |-> w.optional, contains |-> w.contains]
             parts == rule.layers
             new == ReplaceOrPush(parts, {k \in DOMAIN parts : parts[k].name = part.name}, part)
  <2>1. part \in LayerDefinitions /\ parts \in Seq(LayerDefinitions) /\ UniquelyNamed(parts)
    BY <1>2, <1>3 DEF LayerDefinitions, LayeredBuilt, LayeredRules
  <2>2. rule' = [rule EXCEPT !.layers = new]
    BY <1>4 DEF AddLayerDefinition
  <2>3. part.name = w.name /\ SameDefinition(part, w)
    BY DEF SameDefinition
  <2> HIDE DEF part
  <2>4. /\ new \in Seq(LayerDefinitions) /\ UniquelyNamed(new)
        /\ Elements(new) = {q \in Elements(parts) : q.name # part.name} \cup {part}
    BY <2>1, PutByName
  <2> HIDE DEF new, parts
  <2>5. DefinitionsSay(said', Names("layered"), new)
    <3>1. DefinitionsSay(said, Names("layered"), parts)
      BY <1>2 DEF LayeredBuilt, parts
    <3> QED
      BY <1>4, <2>3, <2>4, <3>1, SayDefinition
  <2>6. /\ rule' \in LayeredRules /\ rule'.layers = new /\ rule'.specifications = rule.specifications
        /\ rule'.irrelevant = rule.irrelevant /\ rule'.optional = rule.optional
        /\ rule'.containedUnless = rule.containedUnless
    BY <1>2, <2>2, <2>4 DEF LayeredBuilt, LayeredRules
  <2> QED
    BY <1>2, <1>4, <2>4, <2>5, <2>6, SayOther, TopicsDiffer DEF LayeredBuilt
<1>5. ASSUME NEW n \in Names("layered"), NEW c \in Directions, NEW allowed \in Allowed["layered"],
             CheckLayerNamesExist(rule, {n} \cup allowed),
             rule' = AddDependencySpecification(rule, n, c, allowed),
             said' = Spoken(said, <<"where", n, c>>, allowed)
      PROVE  LayeredBuilt(rule', said')
  <2> DEFINE part == [name |-> n, constraint |-> c, allowed |-> allowed]
             parts == rule.specifications
             new == ReplaceOrPush(parts, {k \in DOMAIN parts : /\ parts[k].name = part.name
                                                               /\ parts[k].constraint = part.constraint},
                                  part)
  <2>1. allowed \subseteq Names("layered")
    <3>1. \A l \in Elements(rule.layers) : l.name \in Names("layered")
      <4>1. rule.layers \in Seq(LayerDefinitions)
        BY <1>2 DEF LayeredBuilt, LayeredRules
      <4>2. \A l \in Elements(rule.layers) : l \in LayerDefinitions
        BY <4>1 DEF Elements
      <4> QED
        BY <4>2 DEF LayerDefinitions
    <3> QED
      BY <1>5, <3>1 DEF CheckLayerNamesExist, ContainLayer
  <2>2. part \in LayerConstraints /\ parts \in Seq(LayerConstraints) /\ UniquelyDirected(parts)
    BY <1>2, <2>1 DEF LayerConstraints, LayeredBuilt, LayeredRules
  <2>3. rule' = [rule EXCEPT !.specifications = new]
    BY <1>5 DEF AddDependencySpecification
  <2>4. part.name = n /\ part.constraint = c /\ part.allowed = allowed
    OBVIOUS
  <2> HIDE DEF part
  <2>5. /\ new \in Seq(LayerConstraints) /\ UniquelyDirected(new)
        /\ Elements(new) = {q \in Elements(parts) : \/ q.name # part.name
                                                    \/ q.constraint # part.constraint} \cup {part}
    BY <2>2, PutByDirection
  <2> HIDE DEF new, parts
  <2>6. ConstraintsSay(said', Names("layered"), new)
    <3>1. ConstraintsSay(said, Names("layered"), parts)
      BY <1>2 DEF LayeredBuilt, parts
    <3>2. ConstraintsSay(Spoken(said, <<"where", part.name, part.constraint>>, part.allowed),
                         Names("layered"), new)
      BY <2>5, <3>1, SayConstraint
    <3> QED
      BY <1>5, <2>4, <3>2
  <2>7. /\ rule' \in LayeredRules /\ rule'.specifications = new /\ rule'.layers = rule.layers
        /\ rule'.irrelevant = rule.irrelevant /\ rule'.optional = rule.optional
        /\ rule'.containedUnless = rule.containedUnless
    BY <1>2, <2>3, <2>5 DEF LayeredBuilt, LayeredRules
  <2> QED
    BY <1>2, <1>5, <2>5, <2>6, <2>7, SayOther, TopicsDiffer DEF LayeredBuilt
<1>6. ASSUME NEW P \in IgnoredSets,
             rule' = [rule EXCEPT !.irrelevant = rule.irrelevant \cup P],
             said' = Spoken(said, <<"ignore">>, rule.irrelevant \cup P)
      PROVE  LayeredBuilt(rule', said')
  <2>1. P \in SUBSET AllDependencies
    BY RulesAssumption
  <2>2. /\ rule' \in LayeredRules /\ rule'.specifications = rule.specifications
        /\ rule'.layers = rule.layers /\ rule'.irrelevant = rule.irrelevant \cup P
        /\ rule'.optional = rule.optional /\ rule'.containedUnless = rule.containedUnless
    BY <1>2, <1>6, <2>1 DEF LayeredBuilt, LayeredRules
  <2>3. IgnoredSay(said', rule.irrelevant \cup P)
    BY <1>6, SpokenWords DEF IgnoredSay
  <2>4. <<"ignore">> # <<"optional">> /\ <<"ignore">> # <<"contained">>
    BY TopicsDiffer
  <2> QED
    BY <1>2, <1>6, <2>2, <2>3, <2>4, SayOther, TopicsDiffer DEF LayeredBuilt
<1>7. ASSUME NEW b \in BOOLEAN,
             rule' = [rule EXCEPT !.optional = b], said' = Spoken(said, <<"optional">>, b)
      PROVE  LayeredBuilt(rule', said')
  <2>1. /\ rule' \in LayeredRules /\ rule'.specifications = rule.specifications
        /\ rule'.layers = rule.layers /\ rule'.irrelevant = rule.irrelevant
        /\ rule'.optional = b /\ rule'.containedUnless = rule.containedUnless
    BY <1>2, <1>7 DEF LayeredBuilt, LayeredRules
  <2>2. OptionalSay(said', b)
    BY <1>7, SpokenWords DEF OptionalSay
  <2>3. <<"optional">> # <<"ignore">> /\ <<"optional">> # <<"contained">>
    BY TopicsDiffer
  <2> QED
    BY <1>2, <1>7, <2>1, <2>2, <2>3, SayOther, TopicsDiffer DEF LayeredBuilt
<1>8. ASSUME NEW P \in IgnoredItems,
             rule' = [rule EXCEPT !.containedUnless = P], said' = Spoken(said, <<"contained">>, P)
      PROVE  LayeredBuilt(rule', said')
  <2>1. /\ rule' \in LayeredRules /\ rule'.specifications = rule.specifications
        /\ rule'.layers = rule.layers /\ rule'.irrelevant = rule.irrelevant
        /\ rule'.optional = rule.optional /\ rule'.containedUnless = P
    BY <1>2, <1>8 DEF LayeredBuilt, LayeredRules
  <2>2. ChosenSay(said', <<"contained">>, P)
    BY <1>8, SpokenWords, RulesAssumption DEF ChosenSay
  <2>3. <<"contained">> # <<"ignore">> /\ <<"contained">> # <<"optional">>
    BY TopicsDiffer
  <2> QED
    BY <1>2, <1>8, <2>1, <2>2, <2>3, SayOther, TopicsDiffer DEF LayeredBuilt
<1> QED
  BY <1>1, <1>2, <1>4, <1>5, <1>6, <1>7, <1>8, LayeredCalls

-----------------------------------------------------------------------------
(***************************************************************************)
(* What a layered architecture means by what was said.                     *)
(***************************************************************************)
LEMMA SaidLayers ==
    ASSUME kind = "layered", LayeredBuilt(rule, said)
    PROVE  /\ \A n \in Names("layered") : ContainsPredicateFor(rule, {n}) = SaidIn(n)
           /\ \A names \in SUBSET Names("layered") :
                ContainsPredicateFor(rule, names) = UNION {SaidIn(m) : m \in names}
           /\ ContainsPredicateForAll(rule) = SaidInAny
<1>1. \A n : SaidIn(n) = SaidMembers(n)
  BY DEF SaidIn
<1>2. SaidInAny = UNION {SaidMembers(n) : n \in Names("layered")}
  BY DEF SaidInAny
<1>3. \A l \in Elements(rule.layers) : l.name \in Names("layered")
  <2>1. rule.layers \in Seq(LayerDefinitions)
    BY DEF LayeredBuilt, LayeredRules
  <2>2. \A l \in Elements(rule.layers) : l \in LayerDefinitions
    BY <2>1 DEF Elements
  <2> QED
    BY <2>2 DEF LayerDefinitions
<1>4. ASSUME NEW l \in Elements(rule.layers)
      PROVE  l.contains = SaidMembers(l.name)
  <2>1. l.name \in Names("layered")
    BY <1>3
  <2>2. <<"define", l.name>> \in DOMAIN said /\ l.contains = said[<<"define", l.name>>].contains
    BY <2>1 DEF LayeredBuilt, DefinitionsSay, SameDefinition
  <2> QED
    BY <2>2 DEF SaidMembers, Said
<1>5. ASSUME NEW n \in Names("layered"), NEW i \in SaidMembers(n)
      PROVE  \E l \in Elements(rule.layers) : l.name = n /\ l.contains = SaidMembers(n)
  <2>1. <<"define", n>> \in DOMAIN said
    BY <1>5 DEF SaidMembers, Said
  <2>2. PICK l \in Elements(rule.layers) : l.name = n
    BY <2>1 DEF LayeredBuilt, DefinitionsSay
  <2> QED
    BY <1>4, <2>2
<1>6. ASSUME NEW names \in SUBSET Names("layered")
      PROVE  ContainsPredicateFor(rule, names) = UNION {SaidMembers(m) : m \in names}
  <2>1. ASSUME NEW i \in ContainsPredicateFor(rule, names)
        PROVE  i \in UNION {SaidMembers(m) : m \in names}
    <3>1. PICK l \in Elements(rule.layers) : l.name \in names /\ i \in l.contains
      BY <2>1 DEF ContainsPredicateFor
    <3> QED
      BY <1>4, <3>1
  <2>2. ASSUME NEW m \in names, NEW i \in SaidMembers(m)
        PROVE  i \in ContainsPredicateFor(rule, names)
    <3>1. PICK l \in Elements(rule.layers) : l.name = m /\ l.contains = SaidMembers(m)
      BY <1>5
    <3> QED
      BY <3>1 DEF ContainsPredicateFor
  <2> QED
    BY <2>1, <2>2
<1>7. \A n \in Names("layered") : ContainsPredicateFor(rule, {n}) = SaidMembers(n)
  BY <1>6
<1>8. ContainsPredicateForAll(rule) = ContainsPredicateFor(rule, Names("layered"))
  BY <1>3 DEF ContainsPredicateForAll, ContainsPredicateFor
<1> QED
  BY <1>1, <1>2, <1>6, <1>7, <1>8

LEMMA OutsideDependencies ==
    \A P : \A d \in AllDependencies : d \in Outside(P) <=> d[1] \notin P \/ d[2] \notin P
BY DEF Outside, DependencyOrigin, DependencyTarget, AllDependencies, Universe

LEMMA SaidLayeredMatters ==
    ASSUME kind = "layered", LayeredBuilt(rule, said), NEW d \in AllDependencies
    PROVE  Matters(rule, d) <=> SaidRelevant(d)
<1>1. rule.settings.only \in {"all", "packages", "layers"}
  <2>1. rule.settings \in Settings
    BY DEF LayeredBuilt, LayeredRules
  <2> QED
    BY <2>1, RulesAssumption
<1>2. d[1] \in Universe /\ d[2] \in Universe
  BY DEF AllDependencies, Universe
<1>3. d \notin rule.irrelevant <=> (Said(<<"ignore">>) => d \notin said[<<"ignore">>])
  BY DEF LayeredBuilt, IgnoredSay, Said
<1> DEFINE considered == IF rule.settings.only = "layers" THEN SaidInAny
                         ELSE IF rule.settings.only = "packages" THEN rule.settings.packages
                         ELSE Universe
<1>4. SaidRelevant(d) <=> /\ Said(<<"ignore">>) => d \notin said[<<"ignore">>]
                         /\ d[1] \in considered /\ d[2] \in considered
  BY DEF SaidRelevant
<1>5. d \notin ExcludedDependencies(rule) <=> d[1] \in considered /\ d[2] \in considered
  <2>1. CASE rule.settings.only = "layers"
    <3>1. considered = SaidInAny /\ ExcludedDependencies(rule) = Outside(SaidInAny)
      BY <2>1, SaidLayers DEF ExcludedDependencies
    <3> QED
      BY <3>1, OutsideDependencies
  <2>2. CASE rule.settings.only = "packages"
    <3>1. considered = rule.settings.packages /\ ExcludedDependencies(rule) = Outside(rule.settings.packages)
      BY <2>2 DEF ExcludedDependencies
    <3> QED
      BY <3>1, OutsideDependencies
  <2>3. CASE rule.settings.only = "all"
    <3>1. considered = Universe /\ ExcludedDependencies(rule) = {}
      BY <2>3 DEF ExcludedDependencies
    <3> QED
      BY <1>2, <3>1
  <2> QED
    BY <1>1, <2>1, <2>2, <2>3
<1> HIDE DEF considered
<1> QED
  BY <1>3, <1>4, <1>5 DEF Matters

LEMMA LayeredJudgement ==
    ASSUME kind = "layered", outcome = "evaluated", Judged, LayeredBuilt(rule, said)
    PROVE  /\ dependencies \in SUBSET AllDependencies
           /\ ~EvaluateLayered(rule, checked, dependencies).panicked
           /\ violations = EvaluateLayered(rule, checked, dependencies).violations
           /\ \A s \in Elements(rule.specifications) : s \in LayerConstraints
           /\ Reports(rule, checked, dependencies, violations)
<1>1. Judgement = EvaluateLayered(rule, checked, dependencies)
  BY DEF Judgement, EvaluateRule
<1>2. /\ dependencies \in SUBSET AllDependencies
      /\ ~EvaluateLayered(rule, checked, dependencies).panicked
      /\ violations = EvaluateLayered(rule, checked, dependencies).violations
  BY <1>1 DEF Judged
<1>3. rule.specifications \in Seq(LayerConstraints)
  BY DEF LayeredBuilt, LayeredRules
<1>4. \A s \in Elements(rule.specifications) : s \in LayerConstraints
  BY <1>3 DEF Elements
<1>5. \A s \in Elements(rule.specifications) : s.constraint \in Directions
  BY <1>4 DEF LayerConstraints
<1> QED
  BY <1>2, <1>4, <1>5, LayeredReports

(***************************************************************************)
(* The verdict by the calls, of one kind of rule.                          *)
(***************************************************************************)
SaidConstraint(n, c, d) ==
    LET near == IF c = "Origin" THEN d[2] ELSE d[1]
        far == IF c = "Origin" THEN d[1] ELSE d[2]
    IN  /\ Said(<<"where", n, c>>)
        /\ near \in SaidIn(n) \cap checked
        /\ far \notin UNION {SaidIn(m) : m \in said[<<"where", n, c>>] \cup {n}}
        /\ SaidRelevant(d)

LayeredVerdict ==
    /\ \A n \in Names("layered"), c \in Directions, d \in dependencies :
          Violation(c, n, d) \in violations <=> SaidConstraint(n, c, d)
    /\ \A n \in Names("layered") :
          Violation("empty", n, None) \in violations <=>
              /\ Said(<<"define", n>>) /\ ~said[<<"define", n>>].optional
              /\ Said(<<"optional">>) => ~said[<<"optional">>]
              /\ SaidIn(n) \cap checked = {}
    /\ \A i \in Items :
          Violation("not contained", i, None) \in violations <=>
              /\ Said(<<"contained">>)
              /\ i \in checked \ (said[<<"contained">>] \cup SaidInAny)

LEMMA LayeredAsSaid ==
    ASSUME kind = "layered", outcome = "evaluated", Judged, LayeredBuilt(rule, said)
    PROVE  LayeredVerdict
<1>1. /\ dependencies \in SUBSET AllDependencies
      /\ \A s \in Elements(rule.specifications) : s \in LayerConstraints
      /\ Reports(rule, checked, dependencies, violations)
  BY LayeredJudgement
<1>2. ASSUME NEW n \in Names("layered"), NEW c \in Directions, NEW d \in dependencies
      PROVE  Violation(c, n, d) \in violations <=> SaidConstraint(n, c, d)
  <2> DEFINE near == IF c = "Origin" THEN d[2] ELSE d[1]
             far == IF c = "Origin" THEN d[1] ELSE d[2]
  <2>1. Violation(c, n, d) \in violations <=>
          \E s \in Elements(rule.specifications) :
              s.name = n /\ s.constraint = c /\ Breaks(rule, checked, d, s)
    BY <1>1 DEF Reports
  <2>2. Matters(rule, d) <=> SaidRelevant(d)
    BY <1>1, SaidLayeredMatters
  <2>3. ASSUME NEW s \in Elements(rule.specifications), s.name = n, s.constraint = c
        PROVE  Breaks(rule, checked, d, s) <=> SaidConstraint(n, c, d)
    <3>1. s.allowed \cup {n} \in SUBSET Names("layered")
      BY <1>1 DEF LayerConstraints
    <3>2. <<"where", n, c>> \in DOMAIN said /\ said[<<"where", n, c>>] = s.allowed
      BY <2>3 DEF LayeredBuilt, ConstraintsSay
    <3>3. /\ ContainsPredicateFor(rule, {n}) = SaidIn(n)
          /\ ContainsPredicateFor(rule, s.allowed \cup {n}) = UNION {SaidIn(m) : m \in s.allowed \cup {n}}
      BY <3>1, SaidLayers
    <3>4. Breaks(rule, checked, d, s) <=>
            /\ near \in checked \cap ContainsPredicateFor(rule, {n})
            /\ far \notin ContainsPredicateFor(rule, s.allowed \cup {n})
            /\ Matters(rule, d)
      BY <2>3 DEF Breaks
    <3>5. SaidConstraint(n, c, d) <=>
            /\ <<"where", n, c>> \in DOMAIN said
            /\ near \in SaidIn(n) \cap checked
            /\ far \notin UNION {SaidIn(m) : m \in said[<<"where", n, c>>] \cup {n}}
            /\ SaidRelevant(d)
      BY DEF SaidConstraint, Said
    <3> HIDE DEF near, far
    <3> QED
      BY <2>2, <3>2, <3>3, <3>4, <3>5
  <2>4. SaidConstraint(n, c, d) =>
          \E s \in Elements(rule.specifications) : s.name = n /\ s.constraint = c
    BY DEF SaidConstraint, Said, LayeredBuilt, ConstraintsSay
  <2> QED
    BY <2>1, <2>3, <2>4
<1>3. ASSUME NEW n \in Names("layered")
      PROVE  Violation("empty", n, None) \in violations <=>
              /\ Said(<<"define", n>>) /\ ~said[<<"define", n>>].optional
              /\ Said(<<"optional">>) => ~said[<<"optional">>]
              /\ SaidIn(n) \cap checked = {}
  <2>1. Violation("empty", n, None) \in violations <=>
          /\ ~rule.optional
          /\ checked \cap ContainsPredicateFor(rule, {n}) = {}
          /\ \E l \in Elements(rule.layers) : l.name = n /\ ~l.optional
    BY <1>1 DEF Reports
  <2>2. ~rule.optional <=> (Said(<<"optional">>) => ~said[<<"optional">>])
    BY DEF LayeredBuilt, OptionalSay, Said
  <2>3. ContainsPredicateFor(rule, {n}) = SaidIn(n)
    BY SaidLayers
  <2>4. (\E l \in Elements(rule.layers) : l.name = n /\ ~l.optional)
          <=> Said(<<"define", n>>) /\ ~said[<<"define", n>>].optional
    BY DEF LayeredBuilt, DefinitionsSay, SameDefinition, Said
  <2> QED
    BY <2>1, <2>2, <2>3, <2>4
<1>4. ASSUME NEW i \in Items
      PROVE  Violation("not contained", i, None) \in violations <=>
              /\ Said(<<"contained">>)
              /\ i \in checked \ (said[<<"contained">>] \cup SaidInAny)
  <2>1. Violation("not contained", i, None) \in violations <=>
          /\ rule.containedUnless # None
          /\ i \in checked \ (rule.containedUnless \cup ContainsPredicateForAll(rule))
    BY <1>1 DEF Reports
  <2>2. ContainsPredicateForAll(rule) = SaidInAny
    BY SaidLayers
  <2>3. /\ Said(<<"contained">>) <=> rule.containedUnless # None
        /\ Said(<<"contained">>) => said[<<"contained">>] = rule.containedUnless
    BY DEF LayeredBuilt, ChosenSay, Said
  <2> QED
    BY <2>1, <2>2, <2>3
<1> QED
  BY <1>2, <1>3, <1>4 DEF LayeredVerdict

-----------------------------------------------------------------------------
(***************************************************************************)
(* The two directions of a constraint.                                     *)
(***************************************************************************)
Reported(V, what) == {v.dependency : v \in {w \in V : w.what = what}}

LEMMA ReportedDependencies ==
    ASSUME NEW A, NEW C, NEW deps \in SUBSET AllDependencies, NEW c \in Directions,
           \A s \in Elements(A.specifications) : s.constraint \in Directions,
           ~EvaluateLayered(A, C, deps).panicked
    PROVE  \A d : d \in Reported(EvaluateLayered(A, C, deps).violations, c) <=>
              /\ d \in deps
              /\ \E s \in Elements(A.specifications) : s.constraint = c /\ Breaks(A, C, d, s)
<1> DEFINE V == EvaluateLayered(A, C, deps).violations
           empty == IF A.optional THEN {}
                    ELSE UNION {EvaluateShouldNotBeEmpty(C, l.name, ContainsPredicateFor(A, {l.name})) :
                                l \in {m \in Elements(A.layers) : ~m.optional}}
           outside == IF A.containedUnless = None THEN {}
                      ELSE EvaluateAllItemsAreContained(C, A.containedUnless, ContainsPredicateForAll(A))
           broken == UNION {EvaluateDependenciesShouldBeSatisfied(A, C, deps, s) :
                              s \in Elements(A.specifications)}
<1>1. V = empty \cup outside \cup broken
  BY DEF EvaluateLayered, Evaluation
<1>2. \A v \in empty : v.what = "empty"
  <2> SUFFICES ASSUME NEW v \in empty PROVE v.what = "empty"
    OBVIOUS
  <2>1. PICK n : v = Violation("empty", n, None)
    BY DEF EvaluateShouldNotBeEmpty
  <2> QED
    BY <2>1 DEF Violation
<1>3. \A v \in outside : v.what = "not contained"
  <2> SUFFICES ASSUME NEW v \in outside PROVE v.what = "not contained"
    OBVIOUS
  <2>1. PICK n : v = Violation("not contained", n, None)
    BY DEF EvaluateAllItemsAreContained
  <2> QED
    BY <2>1 DEF Violation
<1>4. \A v \in broken : \E n, d : v = Violation(v.what, n, d)
  <2> SUFFICES ASSUME NEW v \in broken PROVE \E n, d : v = Violation(v.what, n, d)
    OBVIOUS
  <2>1. PICK s \in Elements(A.specifications) : v \in EvaluateDependenciesShouldBeSatisfied(A, C, deps, s)
    OBVIOUS
  <2>2. EvaluateDependenciesShouldBeSatisfied(A, C, deps, s) =
          {Violation(s.constraint, s.name, d) : d \in {e \in deps : Breaks(A, C, e, s)}}
    BY ConstraintReports
  <2>3. PICK d : v = Violation(s.constraint, s.name, d)
    BY <2>1, <2>2
  <2>4. v.what = s.constraint
    BY <2>3 DEF Violation
  <2> QED
    BY <2>3, <2>4
<1> HIDE DEF V, empty, outside, broken
<1>5. c # "empty" /\ c # "not contained"
  BY DEF Directions
<1>6. \A d : d \in Reported(V, c) <=> \E n : Violation(c, n, d) \in V
  <2>1. ASSUME NEW d \in Reported(V, c) PROVE \E n : Violation(c, n, d) \in V
    <3>1. PICK v \in V : v.what = c /\ v.dependency = d
      BY <2>1 DEF Reported
    <3>2. v \in broken
      BY <1>1, <1>2, <1>3, <1>5, <3>1
    <3>3. PICK n, e : v = Violation(c, n, e)
      BY <1>4, <3>1, <3>2
    <3>4. e = d
      BY <3>1, <3>3 DEF Violation
    <3> QED
      BY <3>1, <3>3, <3>4
  <2>2. ASSUME NEW d, NEW n, Violation(c, n, d) \in V PROVE d \in Reported(V, c)
    <3>1. Violation(c, n, d).what = c /\ Violation(c, n, d).dependency = d
      BY DEF Violation
    <3>2. Violation(c, n, d) \in {w \in V : w.what = c}
      BY <2>2, <3>1
    <3> QED
      BY <3>1, <3>2 DEF Reported
  <2> QED
    BY <2>1, <2>2
<1>7. Reports(A, C, deps, V)
  BY LayeredReports DEF V
<1>8. \A n, d : Violation(c, n, d) \in V <=>
        /\ d \in deps
        /\ \E s \in Elements(A.specifications) : s.name = n /\ s.constraint = c /\ Breaks(A, C, d, s)
  BY <1>7 DEF Reports
<1>9. ASSUME NEW d
      PROVE  d \in Reported(V, c) <=>
              /\ d \in deps
              /\ \E s \in Elements(A.specifications) : s.constraint = c /\ Breaks(A, C, d, s)
  <2>1. d \in Reported(V, c) <=> \E n : Violation(c, n, d) \in V
    BY <1>6
  <2>2. ASSUME NEW s \in Elements(A.specifications), s.constraint = c, Breaks(A, C, d, s), d \in deps
        PROVE  Violation(c, s.name, d) \in V
    BY <1>8, <2>2
  <2>3. ASSUME NEW n, Violation(c, n, d) \in V
        PROVE  d \in deps /\ \E s \in Elements(A.specifications) : s.constraint = c /\ Breaks(A, C, d, s)
    BY <1>8, <2>3
  <2> QED
    BY <2>1, <2>2, <2>3
<1> QED
  BY <1>9 DEF V

LEMMA MirroredRule ==
    ASSUME rule \in LayeredRules
    PROVE  /\ Mirrored.layers = rule.layers /\ Mirrored.settings = rule.settings
           /\ Mirrored.irrelevant = rule.irrelevant /\ Mirrored.containedUnless = rule.containedUnless
           /\ \A s \in Elements(Mirrored.specifications) : \E l \in Elements(rule.layers) :
                s.name = l.name /\ s.constraint = "Target" /\ s.allowed = MayAccess(l.name)
           /\ \A l \in Elements(rule.layers) : \E s \in Elements(Mirrored.specifications) :
                s.name = l.name /\ s.constraint = "Target" /\ s.allowed = MayAccess(l.name)
<1> DEFINE F(l) == [name |-> l.name, constraint |-> "Target", allowed |-> MayAccess(l.name)]
           specifications == [k \in DOMAIN rule.layers |-> F(rule.layers[k])]
<1>1. Mirrored = [rule EXCEPT !.specifications = specifications]
  BY DEF Mirrored
<1>2. \A l : (F(l)).name = l.name /\ (F(l)).constraint = "Target" /\ (F(l)).allowed = MayAccess(l.name)
  OBVIOUS
<1> HIDE DEF F
<1>3. Elements(specifications) = {F(l) : l \in Elements(rule.layers)}
  BY DEF Elements
<1> HIDE DEF specifications
<1>4. /\ Mirrored.layers = rule.layers /\ Mirrored.settings = rule.settings
      /\ Mirrored.irrelevant = rule.irrelevant /\ Mirrored.containedUnless = rule.containedUnless
      /\ Mirrored.specifications = specifications
  BY <1>1 DEF LayeredRules
<1> QED
  BY <1>2, <1>3, <1>4

LEMMA MirroredMatters ==
    ASSUME rule \in LayeredRules, rule.settings.only = "layers", NEW d \in AllDependencies
    PROVE  /\ Matters(Mirrored, d) <=> Matters(rule, d)
           /\ Matters(rule, d) =>
                \A i \in {d[1], d[2]} : \E l \in Elements(rule.layers) : i \in l.contains
<1>1. \A A : A.settings.only = "layers" => ExcludedDependencies(A) = Outside(ContainsPredicateForAll(A))
  BY DEF ExcludedDependencies
<1>2. ContainsPredicateForAll(Mirrored) = ContainsPredicateForAll(rule)
  BY MirroredRule DEF ContainsPredicateForAll
<1>3. ExcludedDependencies(Mirrored) = ExcludedDependencies(rule)
  BY <1>1, <1>2, MirroredRule
<1>4. Matters(rule, d) => d[1] \in ContainsPredicateForAll(rule) /\ d[2] \in ContainsPredicateForAll(rule)
  BY <1>1, OutsideDependencies DEF Matters
<1>5. Matters(Mirrored, d) <=> Matters(rule, d)
  BY <1>3, MirroredRule DEF Matters
<1> QED
  BY <1>4, <1>5 DEF ContainsPredicateForAll

(***************************************************************************)
(* Among disjoint layers of checked items an item is in a layer of some    *)
(* names iff its own layer has one of them.                                *)
(***************************************************************************)
LEMMA InOneLayer ==
    ASSUME NEW l \in Elements(rule.layers), NEW i \in l.contains, NEW names,
           \A k, m \in Elements(rule.layers) : k # m => k.contains \cap m.contains = {}
    PROVE  i \in ContainsPredicateFor(rule, names) <=> l.name \in names
BY DEF ContainsPredicateFor

LEMMA MirroredConstraintsAgree ==
    ASSUME LayeredBuilt(rule, said), rule.settings.only = "layers",
           NEW d \in AllDependencies,
           \A l \in Elements(rule.layers) : l.contains \subseteq checked,
           \A k, m \in Elements(rule.layers) : k # m => k.contains \cap m.contains = {}
    PROVE  (\E s \in Elements(rule.specifications) : s.constraint = "Origin" /\ Breaks(rule, checked, d, s))
             <=> (\E s \in Elements(Mirrored.specifications) :
                      s.constraint = "Target" /\ Breaks(Mirrored, checked, d, s))
<1>1. rule \in LayeredRules
  BY DEF LayeredBuilt
<1>2. \A names : ContainsPredicateFor(Mirrored, names) = ContainsPredicateFor(rule, names)
  BY <1>1, MirroredRule DEF ContainsPredicateFor
<1>3. CASE ~Matters(rule, d)
  <2>1. ~Matters(Mirrored, d)
    BY <1>1, <1>3, MirroredMatters
  <2> QED
    BY <1>3, <2>1 DEF Breaks
<1>4. CASE Matters(rule, d)
  <2>1. Matters(Mirrored, d)
    BY <1>1, <1>4, MirroredMatters
  <2>2. PICK l \in Elements(rule.layers) : d[1] \in l.contains
    BY <1>1, <1>4, MirroredMatters
  <2>3. PICK m \in Elements(rule.layers) : d[2] \in m.contains
    BY <1>1, <1>4, MirroredMatters
  <2>4. /\ d[1] \in checked /\ d[2] \in checked
        /\ \A names : d[1] \in ContainsPredicateFor(rule, names) <=> l.name \in names
        /\ \A names : d[2] \in ContainsPredicateFor(rule, names) <=> m.name \in names
    BY <2>2, <2>3, InOneLayer
  <2>5. \A s : s.constraint = "Origin" =>
          (Breaks(rule, checked, d, s) <=> m.name = s.name /\ l.name \notin s.allowed \cup {s.name})
    BY <1>4, <2>4 DEF Breaks
  <2>6. \A s : s.constraint = "Target" =>
          (Breaks(Mirrored, checked, d, s) <=> l.name = s.name /\ m.name \notin s.allowed \cup {s.name})
    <3>1. "Target" # "Origin"
      OBVIOUS
    <3> QED
      BY <1>2, <2>1, <2>4, <3>1 DEF Breaks
  <2>7. (\E s \in Elements(rule.specifications) : s.constraint = "Origin" /\ Breaks(rule, checked, d, s))
          <=> l.name # m.name /\ m.name \notin MayAccess(l.name)
    <3>1. m.name \in Names("layered")
      <4>1. rule.layers \in Seq(LayerDefinitions)
        BY <1>1 DEF LayeredRules
      <4>2. m \in LayerDefinitions
        BY <4>1 DEF Elements
      <4> QED
        BY <4>2 DEF LayerDefinitions
    <3>2. m.name \in MayAccess(l.name) <=>
            \A s \in Elements(rule.specifications) :
                s.name = m.name /\ s.constraint = "Origin" => l.name \in s.allowed
      BY <3>1 DEF MayAccess
    <3> QED
      BY <2>5, <3>2
  <2>8. (\E s \in Elements(Mirrored.specifications) :
              s.constraint = "Target" /\ Breaks(Mirrored, checked, d, s))
          <=> l.name # m.name /\ m.name \notin MayAccess(l.name)
    BY <1>1, <2>6, MirroredRule
  <2> QED
    BY <2>7, <2>8
<1> QED
  BY <1>3, <1>4

LEMMA LayeredDual == Judged /\ LayeredWritten => ConstraintsAreDual
<1> SUFFICES ASSUME Judged, LayeredWritten, Evaluated("layered"), rule.settings.only = "layers",
                    \A l \in Elements(rule.layers) :
                        /\ l.contains \subseteq checked
                        /\ \A m \in Elements(rule.layers) : l # m => l.contains \cap m.contains = {}
             PROVE  Dependencies("Origin") =
                      Reported(EvaluateLayered(Mirrored, checked, dependencies).violations, "Target")
  BY DEF ConstraintsAreDual, Reported
<1>1. LayeredBuilt(rule, said) /\ rule \in LayeredRules
  BY DEF Evaluated, LayeredWritten, LayeredBuilt
<1>2. /\ dependencies \in SUBSET AllDependencies
      /\ ~EvaluateLayered(rule, checked, dependencies).panicked
      /\ violations = EvaluateLayered(rule, checked, dependencies).violations
      /\ \A s \in Elements(rule.specifications) : s.constraint \in Directions
  BY <1>1, LayeredJudgement DEF Evaluated, LayerConstraints
<1>3. Dependencies("Origin") = Reported(EvaluateLayered(rule, checked, dependencies).violations, "Origin")
  BY <1>2 DEF Dependencies, Reported
<1>4. \A d : d \in Dependencies("Origin") <=>
        /\ d \in dependencies
        /\ \E s \in Elements(rule.specifications) : s.constraint = "Origin" /\ Breaks(rule, checked, d, s)
  BY <1>2, <1>3, ReportedDependencies DEF Directions
<1>5. ~EvaluateLayered(Mirrored, checked, dependencies).panicked
  <2>1. Mirrored.containedUnless = rule.containedUnless
    BY <1>1, MirroredRule
  <2> QED
    BY <1>2, <2>1 DEF EvaluateLayered, Evaluation
<1>6. \A s \in Elements(Mirrored.specifications) : s.constraint \in Directions
  BY <1>1, MirroredRule DEF Directions
<1>7. \A d : d \in Reported(EvaluateLayered(Mirrored, checked, dependencies).violations, "Target") <=>
        /\ d \in dependencies
        /\ \E s \in Elements(Mirrored.specifications) :
              s.constraint = "Target" /\ Breaks(Mirrored, checked, d, s)
  BY <1>2, <1>5, <1>6, ReportedDependencies DEF Directions
<1>8. \A d \in dependencies :
        (\E s \in Elements(rule.specifications) : s.constraint = "Origin" /\ Breaks(rule, checked, d, s))
          <=> (\E s \in Elements(Mirrored.specifications) :
                  s.constraint = "Target" /\ Breaks(Mirrored, checked, d, s))
  BY <1>1, <1>2, MirroredConstraintsAgree
<1>9. \A d : d \in Dependencies("Origin") <=>
             d \in Reported(EvaluateLayered(Mirrored, checked, dependencies).violations, "Target")
  BY <1>4, <1>7, <1>8, Zenon
<1> QED
  BY <1>9 DEF Dependencies, Reported

(***************************************************************************)
(* Who may access each layer and what each layer may access are the same   *)
(* rule, however the layers and their constraints were given.              *)
(***************************************************************************)
THEOREM DirectionsAreDual == Spec => []ConstraintsAreDual
<1>1. Init => Judged /\ LayeredWritten
  BY InitJudged, InitLayered
<1>2. (Judged /\ LayeredWritten) /\ [Next]_vars => (Judged /\ LayeredWritten)'
  BY NextJudged, NextLayered
<1>3. Judged /\ LayeredWritten => ConstraintsAreDual
  BY LayeredDual
<1> QED
  BY <1>1, <1>2, <1>3, PTL DEF Spec

-----------------------------------------------------------------------------
(***************************************************************************)
(* The rule of a modular monolith, and what was said.                      *)
(***************************************************************************)
ModuleDefinitions == [name : Names("monolith"), optional : BOOLEAN, contains : SUBSET Universe]

ModuleConstraints == [name : Names("monolith"), constraint : Directions, allowed : Allowed["monolith"]]

MonolithRules ==
    [definitions : Seq(ModuleDefinitions), pattern : Patterns \cup {None}, naming : Namings \cup {None},
     specifications : Seq(ModuleConstraints), through : ThroughItems \cup {None}, freeOfCycles : BOOLEAN,
     irrelevant : SUBSET AllDependencies, optional : BOOLEAN, containedUnless : IgnoredItems \cup {None}]

MonolithBuilt(r, words) ==
    /\ r \in MonolithRules
    /\ UniquelyNamed(r.definitions)
    /\ UniquelyDirected(r.specifications)
    /\ DefinitionsSay(words, Names("monolith"), r.definitions)
    /\ ConstraintsSay(words, Names("monolith"), r.specifications)
    /\ IgnoredSay(words, r.irrelevant)
    /\ OptionalSay(words, r.optional)
    /\ ChosenSay(words, <<"contained">>, r.containedUnless)
    /\ ChosenSay(words, <<"packages">>, r.pattern)
    /\ ChosenSay(words, <<"naming">>, r.naming)

MonolithWritten == kind = "monolith" => MonolithBuilt(rule, said)

LEMMA InitMonolith == Init => MonolithWritten
<1> SUFFICES ASSUME Init, kind = "monolith" PROVE MonolithBuilt(rule, said)
  BY DEF MonolithWritten
<1>1. rule = NewModularMonolith
  BY DEF Init, NewRules
<1>2. <<>> \in Seq(ModuleDefinitions) /\ <<>> \in Seq(ModuleConstraints)
  OBVIOUS
<1>3. rule \in MonolithRules
  BY <1>1, <1>2 DEF NewModularMonolith, MonolithRules
<1>4. said = <<>>
  BY DEF Init
<1>5. /\ rule.definitions = <<>> /\ rule.specifications = <<>> /\ rule.irrelevant = {}
      /\ rule.optional = FALSE /\ rule.containedUnless = None
      /\ rule.pattern = None /\ rule.naming = None
  BY <1>1 DEF NewModularMonolith
<1> QED
  BY <1>3, <1>4, <1>5, NothingSaid DEF MonolithBuilt

LEMMA MonolithCalls ==
    ASSUME kind = "monolith", [Next]_vars
    PROVE  \/ rule' = rule /\ said' = said
           \/ \E w \in Definitions["monolith"] :
                /\ rule' = DefineModule(rule, w.name, w.optional, w.contains)
                /\ said' = Spoken(said, <<"define", w.name>>, w)
           \/ \E p \in Patterns :
                rule' = [rule EXCEPT !.pattern = p] /\ said' = Spoken(said, <<"packages">>, p)
           \/ \E n \in Namings :
                rule' = [rule EXCEPT !.naming = n] /\ said' = Spoken(said, <<"naming">>, n)
           \/ \E n \in Names("monolith"), c \in Directions, allowed \in Allowed["monolith"] :
                /\ rule' = AddSpecification(rule, n, c, allowed)
                /\ said' = Spoken(said, <<"where", n, c>>, allowed)
           \/ \E P \in ThroughItems :
                rule' = [rule EXCEPT !.through = P] /\ said' = Spoken(said, <<"through">>, P)
           \/ rule' = [rule EXCEPT !.freeOfCycles = TRUE] /\ said' = Spoken(said, <<"cycles">>, TRUE)
           \/ \E P \in IgnoredSets :
                /\ rule' = [rule EXCEPT !.irrelevant = rule.irrelevant \cup P]
                /\ said' = Spoken(said, <<"ignore">>, rule.irrelevant \cup P)
           \/ \E b \in BOOLEAN :
                rule' = [rule EXCEPT !.optional = b] /\ said' = Spoken(said, <<"optional">>, b)
           \/ \E P \in IgnoredItems :
                rule' = [rule EXCEPT !.containedUnless = P] /\ said' = Spoken(said, <<"contained">>, P)
<1>1. CASE DefineModuleBy
  BY <1>1 DEF DefineModuleBy, Say, Spoken
<1>2. CASE WhereModule
  BY <1>2 DEF WhereModule, Say, Spoken, Panic, Directions
<1>3. CASE IgnoreDependencyWhere
  BY <1>3 DEF IgnoreDependencyWhere, Say, Spoken
<1>4. CASE WithOptional
  BY <1>4 DEF WithOptional, Say, Spoken
<1>5. CASE EnsureAllItemsAreContained
  BY <1>5 DEF EnsureAllItemsAreContained, Say, Spoken
<1>6. CASE Evaluate
  BY <1>6 DEF Evaluate
<1>7. CASE UNCHANGED vars
  BY <1>7 DEF vars
<1>8. CASE ModulesDefinedByPackages \/ NamingModules
  BY <1>8 DEF ModulesDefinedByPackages, NamingModules, Say, Spoken
<1>9. CASE ThroughItemsThat \/ ModulesShouldBeFreeOfCycles
  BY <1>9 DEF ThroughItemsThat, ModulesShouldBeFreeOfCycles, Say, Spoken
<1>10. \/ DefineModuleBy \/ ModulesDefinedByPackages \/ NamingModules \/ WhereModule
       \/ ThroughItemsThat \/ ModulesShouldBeFreeOfCycles
       \/ IgnoreDependencyWhere \/ WithOptional \/ EnsureAllItemsAreContained
       \/ Evaluate \/ UNCHANGED vars
  BY DEF Next, Writing, DefineOnion, DefinedBy, WhereLayer, RestrictSlices, SlicesShould,
         AllowEmptyShould, WriteLine
<1> QED
  BY <1>1, <1>2, <1>3, <1>4, <1>5, <1>6, <1>7, <1>8, <1>9, <1>10

LEMMA NextMonolith == Judged /\ MonolithWritten /\ [Next]_vars => MonolithWritten'
<1> SUFFICES ASSUME Judged, MonolithWritten, [Next]_vars, kind' = "monolith"
             PROVE  MonolithBuilt(rule', said')
  BY DEF MonolithWritten
<1>1. kind = "monolith" /\ "monolith" \in Kinds
  <2>1. kind' = kind
    BY NextWritesOrJudges DEF Writes, Evaluate, vars
  <2> QED
    BY <2>1 DEF Judged
<1>2. MonolithBuilt(rule, said) /\ rule \in MonolithRules
  BY <1>1 DEF MonolithWritten, MonolithBuilt
<1>3. \A w \in Definitions["monolith"] :
        w.name \in Names("monolith") /\ w.contains \in SUBSET Universe /\ w.optional \in BOOLEAN
  BY <1>1, RulesAssumption DEF Names
<1>4. ASSUME NEW w \in Definitions["monolith"],
             rule' = DefineModule(rule, w.name, w.optional, w.contains),
             said' = Spoken(said, <<"define", w.name>>, w)
      PROVE  MonolithBuilt(rule', said')
  <2> DEFINE part == [name |-> w.name, optional |-> w.optional, contains |-> w.contains]
             parts == rule.definitions
             new == ReplaceOrPush(parts, {k \in DOMAIN parts : parts[k].name = part.name}, part)
  <2>1. part \in ModuleDefinitions /\ parts \in Seq(ModuleDefinitions) /\ UniquelyNamed(parts)
    BY <1>2, <1>3 DEF ModuleDefinitions, MonolithBuilt, MonolithRules
  <2>2. rule' = [rule EXCEPT !.definitions = new]
    BY <1>4 DEF DefineModule
  <2>3. part.name = w.name /\ SameDefinition(part, w)
    BY DEF SameDefinition
  <2> HIDE DEF part
  <2>4. /\ new \in Seq(ModuleDefinitions) /\ UniquelyNamed(new)
        /\ Elements(new) = {q \in Elements(parts) : q.name # part.name} \cup {part}
    BY <2>1, PutByName
  <2> HIDE DEF new, parts
  <2>5. DefinitionsSay(said', Names("monolith"), new)
    <3>1. DefinitionsSay(said, Names("monolith"), parts)
      BY <1>2 DEF MonolithBuilt, parts
    <3> QED
      BY <1>4, <2>3, <2>4, <3>1, SayDefinition
  <2>6. /\ rule' \in MonolithRules /\ rule'.definitions = new /\ rule'.specifications = rule.specifications
        /\ rule'.irrelevant = rule.irrelevant /\ rule'.optional = rule.optional
        /\ rule'.containedUnless = rule.containedUnless
        /\ rule'.pattern = rule.pattern /\ rule'.naming = rule.naming
    BY <1>2, <2>2, <2>4 DEF MonolithRules
  <2> QED
    BY <1>2, <1>4, <2>4, <2>5, <2>6, SayOther, TopicsDiffer DEF MonolithBuilt
<1>5. ASSUME NEW n \in Names("monolith"), NEW c \in Directions, NEW allowed \in Allowed["monolith"],
             rule' = AddSpecification(rule, n, c, allowed),
             said' = Spoken(said, <<"where", n, c>>, allowed)
      PROVE  MonolithBuilt(rule', said')
  <2> DEFINE part == [name |-> n, constraint |-> c, allowed |-> allowed]
             parts == rule.specifications
             new == ReplaceOrPush(parts, {k \in DOMAIN parts : /\ parts[k].name = part.name
                                                               /\ parts[k].constraint = part.constraint},
                                  part)
  <2>1. part \in ModuleConstraints /\ parts \in Seq(ModuleConstraints) /\ UniquelyDirected(parts)
    BY <1>2 DEF ModuleConstraints, MonolithBuilt, MonolithRules
  <2>2. rule' = [rule EXCEPT !.specifications = new]
    BY <1>5 DEF AddSpecification
  <2>3. part.name = n /\ part.constraint = c /\ part.allowed = allowed
    OBVIOUS
  <2> HIDE DEF part
  <2>4. /\ new \in Seq(ModuleConstraints) /\ UniquelyDirected(new)
        /\ Elements(new) = {q \in Elements(parts) : \/ q.name # part.name
                                                    \/ q.constraint # part.constraint} \cup {part}
    BY <2>1, PutByDirection
  <2> HIDE DEF new, parts
  <2>5. ConstraintsSay(said', Names("monolith"), new)
    <3>1. ConstraintsSay(said, Names("monolith"), parts)
      BY <1>2 DEF MonolithBuilt, parts
    <3>2. ConstraintsSay(Spoken(said, <<"where", part.name, part.constraint>>, part.allowed),
                         Names("monolith"), new)
      BY <2>4, <3>1, SayConstraint
    <3> QED
      BY <1>5, <2>3, <3>2
  <2>6. /\ rule' \in MonolithRules /\ rule'.specifications = new /\ rule'.definitions = rule.definitions
        /\ rule'.irrelevant = rule.irrelevant /\ rule'.optional = rule.optional
        /\ rule'.containedUnless = rule.containedUnless
        /\ rule'.pattern = rule.pattern /\ rule'.naming = rule.naming
    BY <1>2, <2>2, <2>4 DEF MonolithRules
  <2> QED
    BY <1>2, <1>5, <2>4, <2>5, <2>6, SayOther, TopicsDiffer DEF MonolithBuilt
<1>6. ASSUME NEW topic \in {"packages", "naming", "through", "cycles", "ignore", "optional", "contained"},
             NEW w, said' = Spoken(said, <<topic>>, w),
             rule' \in MonolithRules,
             rule'.definitions = rule.definitions, rule'.specifications = rule.specifications,
             IF topic = "packages" THEN rule'.pattern = w /\ w # None ELSE rule'.pattern = rule.pattern,
             IF topic = "naming" THEN rule'.naming = w /\ w # None ELSE rule'.naming = rule.naming,
             IF topic = "ignore" THEN rule'.irrelevant = w ELSE rule'.irrelevant = rule.irrelevant,
             IF topic = "optional" THEN w \in BOOLEAN /\ rule'.optional = w ELSE rule'.optional = rule.optional,
             IF topic = "contained" THEN rule'.containedUnless = w /\ w # None
             ELSE rule'.containedUnless = rule.containedUnless
      PROVE  MonolithBuilt(rule', said')
  <2>1. /\ DefinitionsSay(said', Names("monolith"), rule'.definitions)
        /\ ConstraintsSay(said', Names("monolith"), rule'.specifications)
    BY <1>2, <1>6, SayOther, TopicsDiffer DEF MonolithBuilt
  <2>2. <<topic>> \in DOMAIN said' /\ said'[<<topic>>] = w
    BY <1>6, SpokenWords
  <2>3. \A t : t # topic => <<t>> # <<topic>>
    BY TopicsDiffer
  <2>4. IgnoredSay(said', rule'.irrelevant)
    <3>1. CASE topic = "ignore"
      BY <1>6, <2>2, <3>1 DEF IgnoredSay
    <3>2. CASE topic # "ignore"
      <4>1. <<topic>> # <<"ignore">> /\ rule'.irrelevant = rule.irrelevant
        BY <1>6, <2>3, <3>2
      <4>2. IgnoredSay(said, rule.irrelevant)
        BY <1>2 DEF MonolithBuilt
      <4> QED
        BY <1>6, <4>1, <4>2, SayOther
    <3> QED
      BY <3>1, <3>2
  <2>5. OptionalSay(said', rule'.optional)
    BY <1>2, <1>6, <2>2, <2>3, SayOther DEF MonolithBuilt, OptionalSay
  <2>6. ChosenSay(said', <<"contained">>, rule'.containedUnless)
    BY <1>2, <1>6, <2>2, <2>3, SayOther DEF MonolithBuilt, ChosenSay
  <2>7. ChosenSay(said', <<"packages">>, rule'.pattern)
    BY <1>2, <1>6, <2>2, <2>3, SayOther DEF MonolithBuilt, ChosenSay
  <2>8. ChosenSay(said', <<"naming">>, rule'.naming)
    BY <1>2, <1>6, <2>2, <2>3, SayOther DEF MonolithBuilt, ChosenSay
  <2> QED
    BY <1>2, <1>6, <2>1, <2>4, <2>5, <2>6, <2>7, <2>8 DEF MonolithBuilt
<1>7. ASSUME NEW p \in Patterns, rule' = [rule EXCEPT !.pattern = p], said' = Spoken(said, <<"packages">>, p)
      PROVE  MonolithBuilt(rule', said')
  BY <1>2, <1>6, <1>7, RulesAssumption DEF MonolithRules
<1>8. ASSUME NEW n \in Namings, rule' = [rule EXCEPT !.naming = n], said' = Spoken(said, <<"naming">>, n)
      PROVE  MonolithBuilt(rule', said')
  BY <1>2, <1>6, <1>8, RulesAssumption DEF MonolithRules
<1>9. ASSUME NEW P \in ThroughItems, rule' = [rule EXCEPT !.through = P],
             said' = Spoken(said, <<"through">>, P)
      PROVE  MonolithBuilt(rule', said')
  BY <1>2, <1>6, <1>9 DEF MonolithRules
<1>10. ASSUME rule' = [rule EXCEPT !.freeOfCycles = TRUE], said' = Spoken(said, <<"cycles">>, TRUE)
       PROVE  MonolithBuilt(rule', said')
  BY <1>2, <1>6, <1>10 DEF MonolithRules
<1>11. ASSUME NEW P \in IgnoredSets,
              rule' = [rule EXCEPT !.irrelevant = rule.irrelevant \cup P],
              said' = Spoken(said, <<"ignore">>, rule.irrelevant \cup P)
       PROVE  MonolithBuilt(rule', said')
  <2>1. P \in SUBSET AllDependencies
    BY RulesAssumption
  <2> QED
    BY <1>2, <1>6, <1>11, <2>1 DEF MonolithRules
<1>12. ASSUME NEW b \in BOOLEAN, rule' = [rule EXCEPT !.optional = b], said' = Spoken(said, <<"optional">>, b)
       PROVE  MonolithBuilt(rule', said')
  BY <1>2, <1>6, <1>12 DEF MonolithRules
<1>13. ASSUME NEW P \in IgnoredItems, rule' = [rule EXCEPT !.containedUnless = P],
              said' = Spoken(said, <<"contained">>, P)
       PROVE  MonolithBuilt(rule', said')
  BY <1>2, <1>6, <1>13, RulesAssumption DEF MonolithRules
<1>14. CASE rule' = rule /\ said' = said
  BY <1>2, <1>14
<1> QED
  BY <1>1, <1>4, <1>5, <1>7, <1>8, <1>9, <1>10, <1>11, <1>12, <1>13, <1>14, MonolithCalls

(***************************************************************************)
(* The module of an item is the first of those that contain it.            *)
(***************************************************************************)
LEMMA SaidModules ==
    ASSUME kind = "monolith", MonolithBuilt(rule, said), NEW i \in Universe
    PROVE  ModuleOf(rule, i) = SaidModuleOf(i)
<1> DEFINE parts == rule.definitions
           defining == {k \in DOMAIN parts : i \in parts[k].contains}
           explicit == {n \in Names("monolith") : i \in SaidMembers(n)}
           Position(n) == CHOOSE k \in DOMAIN parts : parts[k].name = n
           first == CHOOSE k \in defining : \A j \in defining : k <= j
           groups == IF rule.pattern = None THEN None ELSE rule.pattern[i]
           saidGroups == IF Said(<<"packages">>) THEN said[<<"packages">>][i] ELSE None
<1>1. parts \in Seq(ModuleDefinitions) /\ DOMAIN parts \in SUBSET Nat
      /\ \A k \in DOMAIN parts : parts[k].name \in Names("monolith")
  <2>1. parts \in Seq(ModuleDefinitions)
    BY DEF MonolithBuilt, MonolithRules
  <2> HIDE DEF parts
  <2>2. \A k \in DOMAIN parts : parts[k] \in ModuleDefinitions
    BY <2>1
  <2> QED
    BY <2>1, <2>2 DEF ModuleDefinitions
<1>2. \A k, j \in DOMAIN parts : parts[k].name = parts[j].name => k = j
  BY DEF MonolithBuilt, UniquelyNamed
<1>3. /\ \A n \in Names("monolith") : <<"define", n>> \in DOMAIN said => \E k \in DOMAIN parts : parts[k].name = n
      /\ \A k \in DOMAIN parts : /\ <<"define", parts[k].name>> \in DOMAIN said
                                 /\ parts[k].contains = said[<<"define", parts[k].name>>].contains
  BY <1>1 DEF MonolithBuilt, DefinitionsSay, SameDefinition, Elements
<1>4. \A k \in DOMAIN parts : parts[k].contains = SaidMembers(parts[k].name)
  BY <1>3 DEF SaidMembers, Said
<1>5. \A n \in explicit : \E k \in defining : parts[k].name = n
  <2> SUFFICES ASSUME NEW n \in explicit PROVE \E k \in defining : parts[k].name = n
    OBVIOUS
  <2>1. <<"define", n>> \in DOMAIN said
    BY DEF SaidMembers, Said
  <2>2. PICK k \in DOMAIN parts : parts[k].name = n
    BY <1>3, <2>1
  <2>3. i \in parts[k].contains
    BY <1>4, <2>2
  <2> QED
    BY <2>2, <2>3
<1>6. \A k \in defining : parts[k].name \in explicit
  BY <1>1, <1>4
<1>7. ModuleOf(rule, i) = IF defining # {} THEN parts[first].name
                          ELSE IF groups \in {None, <<>>} THEN None
                          ELSE IF rule.naming = None THEN groups
                          ELSE rule.naming[groups]
  BY DEF ModuleOf
<1>8. SaidModuleOf(i) = IF explicit # {} THEN CHOOSE n \in explicit : \A m \in explicit : Position(n) <= Position(m)
                        ELSE IF saidGroups \in {None, <<>>} THEN None
                        ELSE IF Said(<<"naming">>) THEN said[<<"naming">>][saidGroups] ELSE saidGroups
  BY DEF SaidModuleOf
<1>9. groups = saidGroups
  BY DEF MonolithBuilt, ChosenSay, Said
<1>10. /\ Said(<<"naming">>) <=> rule.naming # None
       /\ Said(<<"naming">>) => rule.naming = said[<<"naming">>]
  BY DEF MonolithBuilt, ChosenSay, Said
<1>11. CASE defining = {}
  <2>1. explicit = {}
    BY <1>5, <1>11
  <2> HIDE DEF groups, saidGroups, defining, explicit, Position, first
  <2> QED
    BY <1>7, <1>8, <1>9, <1>10, <1>11, <2>1
<1>12. CASE defining # {}
  <2>1. defining \in SUBSET Nat
    BY <1>1
  <2>2. first \in defining /\ \A j \in defining : first <= j
    <3>1. \E k \in defining : \A j \in defining : k <= j
      BY <1>12, <2>1, LeastExists
    <3> QED
      BY <3>1
  <2>3. \A k \in defining : k \in DOMAIN parts
    OBVIOUS
  <2>4. \A k \in DOMAIN parts : Position(parts[k].name) = k
    <3> HIDE DEF parts
    <3> QED
      BY <1>2
  <2>5. parts[first].name \in explicit
    BY <1>6, <2>2
  <2>6. explicit # {}
    BY <2>5
  <2> HIDE DEF parts, defining, explicit, Position, first, groups, saidGroups
  <2>7. \A n \in explicit : Position(n) \in defining /\ parts[Position(n)].name = n
    BY <1>5, <2>3, <2>4
  <2>8. \A m \in explicit : Position(parts[first].name) <= Position(m)
    BY <2>2, <2>3, <2>4, <2>7
  <2>9. \A n \in explicit : (\A m \in explicit : Position(n) <= Position(m)) => n = parts[first].name
    <3> SUFFICES ASSUME NEW n \in explicit, \A m \in explicit : Position(n) <= Position(m)
                 PROVE  n = parts[first].name
      OBVIOUS
    <3>1. Position(n) <= first /\ first <= Position(n)
      BY <2>2, <2>3, <2>4, <2>5, <2>7
    <3>2. Position(n) \in Nat /\ first \in Nat
      BY <2>1, <2>2, <2>7
    <3>3. Position(n) = first
      BY <3>1, <3>2
    <3> QED
      BY <2>7, <3>3
  <2>10. (CHOOSE n \in explicit : \A m \in explicit : Position(n) <= Position(m)) = parts[first].name
    BY <2>5, <2>8, <2>9
  <2> QED
    BY <1>7, <1>8, <1>12, <2>6, <2>10
<1> QED
  BY <1>11, <1>12

LEMMA SaidModuleSets ==
    ASSUME kind = "monolith", MonolithBuilt(rule, said)
    PROVE  /\ \A n : InModules(rule, {n}) = SaidIn(n)
           /\ \A names : InModules(rule, names) = UNION {SaidIn(m) : m \in names}
           /\ InAnyModule(rule) = SaidInAny
<1>1. \A i \in Universe : ModuleOf(rule, i) = SaidModuleOf(i)
  BY SaidModules
<1>2. \A n : SaidIn(n) = {i \in Universe : SaidModuleOf(i) = n}
  BY DEF SaidIn
<1>3. SaidInAny = {i \in Universe : SaidModuleOf(i) # None}
  BY DEF SaidInAny
<1>4. \A names : InModules(rule, names) = {i \in Universe : SaidModuleOf(i) \in names}
  BY <1>1 DEF InModules
<1>5. InAnyModule(rule) = SaidInAny
  BY <1>1, <1>3 DEF InAnyModule
<1>6. ASSUME NEW n
      PROVE  InModules(rule, {n}) = SaidIn(n)
  <2>1. InModules(rule, {n}) = {i \in Universe : SaidModuleOf(i) \in {n}}
    BY <1>4
  <2> QED
    BY <1>2, <2>1
<1>7. ASSUME NEW names
      PROVE  InModules(rule, names) = UNION {SaidIn(m) : m \in names}
  <2>1. ASSUME NEW i \in InModules(rule, names) PROVE i \in UNION {SaidIn(m) : m \in names}
    <3>1. i \in SaidIn(SaidModuleOf(i)) /\ SaidModuleOf(i) \in names
      BY <1>2, <1>4, <2>1
    <3> QED
      BY <3>1
  <2>2. ASSUME NEW m \in names, NEW i \in SaidIn(m) PROVE i \in InModules(rule, names)
    BY <1>2, <1>4, <2>2
  <2> QED
    BY <2>1, <2>2
<1> QED
  BY <1>5, <1>6, <1>7

MattersToModules(monolith, d) ==
    d \notin Outside(InAnyModule(monolith)) \cup monolith.irrelevant

BreaksModules(monolith, checkedItems, d, s) ==
    LET near == IF s.constraint = "Origin" THEN d[2] ELSE d[1]
        far == IF s.constraint = "Origin" THEN d[1] ELSE d[2]
    IN  /\ near \in checkedItems \cap InModules(monolith, {s.name})
        /\ far \notin InModules(monolith, s.allowed \cup {s.name})
        /\ MattersToModules(monolith, d)

LEMMA SpecificationReports ==
    ASSUME NEW M, NEW C, NEW deps \in SUBSET AllDependencies,
           NEW s, s.constraint \in Directions
    PROVE  EvaluateSpecification(M, C, deps, s) =
             {Violation(s.constraint, s.name, d) : d \in {e \in deps : BreaksModules(M, C, e, s)}}
<1> DEFINE in == InModules(M, {s.name})
           allowed == InModules(M, s.allowed \cup {s.name})
           P == IF s.constraint = "Target" THEN DependencyTarget(allowed) ELSE DependencyOrigin(allowed)
           relevant == IsRelevant(M, P)
           broken == IF s.constraint = "Origin"
                     THEN OnlyHaveDependentsWhere(C \cap in, relevant, deps)
                     ELSE OnlyHaveDependenciesWhere(C \cap in, relevant, deps)
<1>1. EvaluateSpecification(M, C, deps, s) = {Violation(s.constraint, s.name, d) : d \in broken}
  BY DEF EvaluateSpecification, EvaluateConstraint
<1>2. \A d : d \in relevant <=> d \in P \/ ~MattersToModules(M, d)
  BY DEF IsRelevant, MattersToModules
<1>3. \A d \in deps :
        /\ d \in DependencyOrigin(allowed) <=> d[1] \in allowed
        /\ d \in DependencyTarget(allowed) <=> d[2] \in allowed
  BY DEF DependencyOrigin, DependencyTarget
<1>4. broken = {e \in deps : BreaksModules(M, C, e, s)}
  <2> HIDE DEF in, allowed, relevant
  <2>1. CASE s.constraint = "Origin"
    <3>1. \A d : d \in broken <=> d \in deps /\ d[2] \in C \cap in /\ d \notin relevant
      BY <2>1, OnlyHave
    <3>2. P = DependencyOrigin(allowed)
      BY <2>1
    <3> HIDE DEF P, broken
    <3>3. \A d \in deps : d \in relevant <=> d[1] \in allowed \/ ~MattersToModules(M, d)
      BY <1>2, <1>3, <3>2, Zenon
    <3>4. \A d \in deps : BreaksModules(M, C, d, s) <=>
            d[2] \in C \cap in /\ d[1] \notin allowed /\ MattersToModules(M, d)
      BY <2>1 DEF BreaksModules, in, allowed
    <3> QED
      BY <3>1, <3>3, <3>4
  <2>2. CASE s.constraint = "Target"
    <3>1. \A d : d \in broken <=> d \in deps /\ d[1] \in C \cap in /\ d \notin relevant
      BY <2>2, OnlyHave
    <3>2. P = DependencyTarget(allowed)
      BY <2>2
    <3> HIDE DEF P, broken
    <3>3. \A d \in deps : d \in relevant <=> d[2] \in allowed \/ ~MattersToModules(M, d)
      BY <1>2, <1>3, <3>2, Zenon
    <3>4. \A d \in deps : BreaksModules(M, C, d, s) <=>
            d[1] \in C \cap in /\ d[2] \notin allowed /\ MattersToModules(M, d)
      BY <2>2 DEF BreaksModules, in, allowed
    <3> QED
      BY <3>1, <3>3, <3>4
  <2> QED
    BY <2>1, <2>2 DEF Directions
<1> HIDE DEF broken
<1> QED
  BY <1>1, <1>4

ReportsModules(M, C, deps, V) ==
    /\ \A c \in Directions : \A n, d :
          Violation(c, n, d) \in V <=>
              /\ d \in deps
              /\ \E s \in Elements(M.specifications) :
                    s.name = n /\ s.constraint = c /\ BreaksModules(M, C, d, s)
    /\ \A n :
          Violation("empty", n, None) \in V <=>
              /\ ~M.optional
              /\ C \cap InModules(M, {n}) = {}
              /\ \E m \in Elements(M.definitions) : m.name = n /\ ~m.optional
    /\ \A i :
          Violation("not contained", i, None) \in V <=>
              /\ M.containedUnless # None
              /\ i \in C \ (M.containedUnless \cup InAnyModule(M))

LEMMA CyclesReport ==
    ASSUME NEW M, NEW C, NEW deps, NEW v \in EvaluateFreeOfCycles(M, C, deps)
    PROVE  v = Violation("cycle", None, None)
<1> DEFINE new == NewSliceRule(NewTransformer(ModuleAssignment(M)), "free of cycles", TRUE)
           r == [new EXCEPT !.irrelevant = M.irrelevant]
<1>1. r.condition = "free of cycles"
  BY DEF NewSliceRule
<1>2. v \in EvaluateSlices(r, C, deps).violations
  BY DEF EvaluateFreeOfCycles
<1> HIDE DEF r
<1>3. r.condition # "not depend on each other"
  BY <1>1
<1> QED
  BY <1>2, <1>3 DEF EvaluateSlices

LEMMA MonolithReports ==
    ASSUME NEW M, NEW C, NEW deps \in SUBSET AllDependencies,
           \A s \in Elements(M.specifications) : s.constraint \in Directions,
           ~EvaluateMonolith(M, C, deps).panicked
    PROVE  ReportsModules(M, C, deps, EvaluateMonolith(M, C, deps).violations)
<1> DEFINE V == EvaluateMonolith(M, C, deps).violations
           empty == IF M.optional THEN {}
                    ELSE UNION {EvaluateShouldNotBeEmpty(C, m.name, InModules(M, {m.name})) :
                                m \in {n \in Elements(M.definitions) : ~n.optional}}
           outside == IF M.containedUnless = None THEN {}
                      ELSE EvaluateAllItemsAreContained(C, M.containedUnless, InAnyModule(M))
           Broken(s) == {Violation(s.constraint, s.name, d) : d \in {e \in deps : BreaksModules(M, C, e, s)}}
           broken == UNION {Broken(s) : s \in Elements(M.specifications)}
           through == IF M.through = None THEN {} ELSE EvaluateThroughItems(M, C, deps)
           cycles == IF M.freeOfCycles THEN EvaluateFreeOfCycles(M, C, deps) ELSE {}
<1>1. V = empty \cup outside \cup broken \cup through \cup cycles
  <2>1. UNION {EvaluateSpecification(M, C, deps, s) : s \in Elements(M.specifications)} = broken
    BY SpecificationReports
  <2> DEFINE all == empty \cup outside
                    \cup (UNION {EvaluateSpecification(M, C, deps, s) : s \in Elements(M.specifications)})
                    \cup through \cup cycles
  <2>2. EvaluateMonolith(M, C, deps) = Evaluation(C, M.containedUnless, all)
    BY DEF EvaluateMonolith
  <2> HIDE DEF all
  <2>3. V = all
    BY <2>2 DEF Evaluation
  <2> HIDE DEF V, empty, outside, broken, through, cycles
  <2>4. all = empty \cup outside
              \cup (UNION {EvaluateSpecification(M, C, deps, s) : s \in Elements(M.specifications)})
              \cup through \cup cycles
    BY DEF all
  <2> QED
    BY <2>1, <2>3, <2>4
<1>2. \A v : v \in empty <=>
          /\ ~M.optional
          /\ \E m \in Elements(M.definitions) : /\ ~m.optional
                                                /\ C \cap InModules(M, {m.name}) = {}
                                                /\ v = Violation("empty", m.name, None)
  BY DEF EvaluateShouldNotBeEmpty
<1>3. \A v : v \in outside <=>
          /\ M.containedUnless # None
          /\ \E i \in C \ (M.containedUnless \cup InAnyModule(M)) : v = Violation("not contained", i, None)
  BY DEF EvaluateAllItemsAreContained
<1>4. \A v : v \in broken <=>
          \E s \in Elements(M.specifications), d \in deps :
              BreaksModules(M, C, d, s) /\ v = Violation(s.constraint, s.name, d)
  OBVIOUS
<1>5. \A v \in empty : v.what = "empty"
  <2> SUFFICES ASSUME NEW v \in empty PROVE v.what = "empty"
    OBVIOUS
  <2>1. PICK n : v = Violation("empty", n, None)
    BY DEF EvaluateShouldNotBeEmpty
  <2> QED
    BY <2>1 DEF Violation
<1>6. \A v \in outside : v.what = "not contained"
  <2> SUFFICES ASSUME NEW v \in outside PROVE v.what = "not contained"
    OBVIOUS
  <2>1. PICK n : v = Violation("not contained", n, None)
    BY DEF EvaluateAllItemsAreContained
  <2> QED
    BY <2>1 DEF Violation
<1>7. \A v \in broken : v.what \in Directions
  BY <1>4 DEF Violation
<1>8. \A v \in through \cup cycles : v.what \in {"Through", "cycle"}
  <2>1. ASSUME NEW v \in through PROVE v.what = "Through"
    <3>1. PICK d : v = Violation("Through", None, d)
      BY DEF EvaluateThroughItems, EvaluateConstraint
    <3> QED
      BY <3>1 DEF Violation
  <2>2. ASSUME NEW v \in cycles PROVE v.what = "cycle"
    <3>1. v = Violation("cycle", None, None)
      BY CyclesReport
    <3> QED
      BY <3>1 DEF Violation
  <2> QED
    BY <2>1, <2>2
<1> HIDE DEF V, empty, outside, broken, through, cycles
<1>9. \A w, n, d : Violation(w, n, d).what = w
  BY DEF Violation
<1>10. ASSUME NEW v
       PROVE  /\ v.what \in Directions => v \notin empty \cup outside \cup through \cup cycles
              /\ v.what = "empty" => v \notin outside \cup broken \cup through \cup cycles
              /\ v.what = "not contained" => v \notin empty \cup broken \cup through \cup cycles
  <2>1. /\ v \in empty => v.what = "empty"
        /\ v \in outside => v.what = "not contained"
        /\ v \in broken => v.what \in Directions
        /\ v \in through \cup cycles => v.what \in {"Through", "cycle"}
    BY <1>5, <1>6, <1>7, <1>8
  <2> QED
    BY <2>1 DEF Directions
<1>11. ASSUME NEW c \in Directions, NEW n, NEW d
       PROVE  Violation(c, n, d) \in V <=>
               /\ d \in deps
               /\ \E s \in Elements(M.specifications) :
                     s.name = n /\ s.constraint = c /\ BreaksModules(M, C, d, s)
  <2>1. Violation(c, n, d) \in V <=> Violation(c, n, d) \in broken
    <3>1. Violation(c, n, d) \notin empty \cup outside \cup through \cup cycles
      <4>1. Violation(c, n, d).what = c
        BY <1>9
      <4>2. Violation(c, n, d).what \in Directions
        BY <4>1
      <4> QED
        BY <1>10, <4>2
    <3> QED
      BY <1>1, <3>1
  <2>2. ASSUME Violation(c, n, d) \in broken
        PROVE  /\ d \in deps
               /\ \E s \in Elements(M.specifications) :
                     s.name = n /\ s.constraint = c /\ BreaksModules(M, C, d, s)
    <3>1. PICK s \in Elements(M.specifications), e \in deps :
            BreaksModules(M, C, e, s) /\ Violation(c, n, d) = Violation(s.constraint, s.name, e)
      BY <1>4, <2>2, Zenon
    <3>2. s.constraint = c /\ s.name = n /\ e = d
      BY <3>1 DEF Violation
    <3> QED
      BY <3>1, <3>2
  <2>3. ASSUME d \in deps,
               NEW s \in Elements(M.specifications), s.name = n, s.constraint = c, BreaksModules(M, C, d, s)
        PROVE  Violation(c, n, d) \in broken
    BY <1>4, <2>3, Zenon
  <2> QED
    BY <2>1, <2>2, <2>3
<1>12. ASSUME NEW n
       PROVE  Violation("empty", n, None) \in V <=>
               /\ ~M.optional
               /\ C \cap InModules(M, {n}) = {}
               /\ \E m \in Elements(M.definitions) : m.name = n /\ ~m.optional
  <2>1. Violation("empty", n, None) \in V <=> Violation("empty", n, None) \in empty
    <3>1. Violation("empty", n, None) \notin outside \cup broken \cup through \cup cycles
      BY <1>9, <1>10
    <3> QED
      BY <1>1, <3>1
  <2>2. \A w, m, e : Violation("empty", n, None) = Violation(w, m, e) => m = n
    BY ViolationsDiffer
  <2> QED
    BY <1>2, <2>1, <2>2, Zenon
<1>13. ASSUME NEW i
       PROVE  Violation("not contained", i, None) \in V <=>
               /\ M.containedUnless # None
               /\ i \in C \ (M.containedUnless \cup InAnyModule(M))
  <2>1. Violation("not contained", i, None) \in V <=> Violation("not contained", i, None) \in outside
    <3>1. Violation("not contained", i, None) \notin empty \cup broken \cup through \cup cycles
      BY <1>9, <1>10
    <3> QED
      BY <1>1, <3>1
  <2>2. \A w, m, e : Violation("not contained", i, None) = Violation(w, m, e) => m = i
    BY DEF Violation
  <2> QED
    BY <1>3, <2>1, <2>2, Zenon
<1> QED
  BY <1>11, <1>12, <1>13 DEF ReportsModules, V

LEMMA SaidMonolithMatters ==
    ASSUME kind = "monolith", MonolithBuilt(rule, said), NEW d \in AllDependencies
    PROVE  MattersToModules(rule, d) <=> SaidRelevant(d)
<1>1. d \notin rule.irrelevant <=> (Said(<<"ignore">>) => d \notin said[<<"ignore">>])
  BY DEF MonolithBuilt, IgnoredSay, Said
<1>2. d \notin Outside(InAnyModule(rule)) <=> d[1] \in SaidInAny /\ d[2] \in SaidInAny
  BY SaidModuleSets, OutsideDependencies
<1>3. SaidRelevant(d) <=> /\ Said(<<"ignore">>) => d \notin said[<<"ignore">>]
                         /\ d[1] \in SaidInAny /\ d[2] \in SaidInAny
  BY DEF SaidRelevant
<1> QED
  BY <1>1, <1>2, <1>3 DEF MattersToModules

LEMMA MonolithJudgement ==
    ASSUME kind = "monolith", outcome = "evaluated", Judged, MonolithBuilt(rule, said)
    PROVE  /\ dependencies \in SUBSET AllDependencies
           /\ \A s \in Elements(rule.specifications) : s \in ModuleConstraints
           /\ ReportsModules(rule, checked, dependencies, violations)
<1>1. Judgement = EvaluateMonolith(rule, checked, dependencies)
  BY DEF Judgement, EvaluateRule
<1>2. /\ dependencies \in SUBSET AllDependencies
      /\ ~EvaluateMonolith(rule, checked, dependencies).panicked
      /\ violations = EvaluateMonolith(rule, checked, dependencies).violations
  BY <1>1 DEF Judged
<1>3. rule.specifications \in Seq(ModuleConstraints)
  BY DEF MonolithBuilt, MonolithRules
<1>4. \A s \in Elements(rule.specifications) : s \in ModuleConstraints
  BY <1>3 DEF Elements
<1>5. \A s \in Elements(rule.specifications) : s.constraint \in Directions
  BY <1>4 DEF ModuleConstraints
<1> QED
  BY <1>2, <1>4, <1>5, MonolithReports

MonolithVerdict ==
    /\ \A n \in Names("monolith"), c \in Directions, d \in dependencies :
          Violation(c, n, d) \in violations <=> SaidConstraint(n, c, d)
    /\ \A n \in Names("monolith") :
          Violation("empty", n, None) \in violations <=>
              /\ Said(<<"define", n>>) /\ ~said[<<"define", n>>].optional
              /\ Said(<<"optional">>) => ~said[<<"optional">>]
              /\ SaidIn(n) \cap checked = {}
    /\ \A i \in Items :
          Violation("not contained", i, None) \in violations <=>
              /\ Said(<<"contained">>)
              /\ i \in checked \ (said[<<"contained">>] \cup SaidInAny)

LEMMA MonolithAsSaid ==
    ASSUME kind = "monolith", outcome = "evaluated", Judged, MonolithBuilt(rule, said)
    PROVE  MonolithVerdict
<1>1. /\ dependencies \in SUBSET AllDependencies
      /\ ReportsModules(rule, checked, dependencies, violations)
  BY MonolithJudgement
<1>2. ASSUME NEW n \in Names("monolith"), NEW c \in Directions, NEW d \in dependencies
      PROVE  Violation(c, n, d) \in violations <=> SaidConstraint(n, c, d)
  <2> DEFINE near == IF c = "Origin" THEN d[2] ELSE d[1]
             far == IF c = "Origin" THEN d[1] ELSE d[2]
  <2>1. Violation(c, n, d) \in violations <=>
          \E s \in Elements(rule.specifications) :
              s.name = n /\ s.constraint = c /\ BreaksModules(rule, checked, d, s)
    BY <1>1 DEF ReportsModules
  <2>2. MattersToModules(rule, d) <=> SaidRelevant(d)
    BY <1>1, SaidMonolithMatters
  <2>3. ASSUME NEW s \in Elements(rule.specifications), s.name = n, s.constraint = c
        PROVE  BreaksModules(rule, checked, d, s) <=> SaidConstraint(n, c, d)
    <3>1. <<"where", n, c>> \in DOMAIN said /\ said[<<"where", n, c>>] = s.allowed
      BY <2>3 DEF MonolithBuilt, ConstraintsSay
    <3>2. /\ InModules(rule, {n}) = SaidIn(n)
          /\ InModules(rule, s.allowed \cup {n}) = UNION {SaidIn(m) : m \in s.allowed \cup {n}}
      BY SaidModuleSets
    <3>3. BreaksModules(rule, checked, d, s) <=>
            /\ near \in checked \cap InModules(rule, {n})
            /\ far \notin InModules(rule, s.allowed \cup {n})
            /\ MattersToModules(rule, d)
      BY <2>3 DEF BreaksModules
    <3>4. SaidConstraint(n, c, d) <=>
            /\ <<"where", n, c>> \in DOMAIN said
            /\ near \in SaidIn(n) \cap checked
            /\ far \notin UNION {SaidIn(m) : m \in said[<<"where", n, c>>] \cup {n}}
            /\ SaidRelevant(d)
      BY DEF SaidConstraint, Said
    <3> HIDE DEF near, far
    <3> QED
      BY <2>2, <3>1, <3>2, <3>3, <3>4
  <2>4. SaidConstraint(n, c, d) =>
          \E s \in Elements(rule.specifications) : s.name = n /\ s.constraint = c
    BY DEF SaidConstraint, Said, MonolithBuilt, ConstraintsSay
  <2> QED
    BY <2>1, <2>3, <2>4
<1>3. ASSUME NEW n \in Names("monolith")
      PROVE  Violation("empty", n, None) \in violations <=>
              /\ Said(<<"define", n>>) /\ ~said[<<"define", n>>].optional
              /\ Said(<<"optional">>) => ~said[<<"optional">>]
              /\ SaidIn(n) \cap checked = {}
  <2>1. Violation("empty", n, None) \in violations <=>
          /\ ~rule.optional
          /\ checked \cap InModules(rule, {n}) = {}
          /\ \E m \in Elements(rule.definitions) : m.name = n /\ ~m.optional
    BY <1>1 DEF ReportsModules
  <2>2. ~rule.optional <=> (Said(<<"optional">>) => ~said[<<"optional">>])
    BY DEF MonolithBuilt, OptionalSay, Said
  <2>3. InModules(rule, {n}) = SaidIn(n)
    BY SaidModuleSets
  <2>4. (\E m \in Elements(rule.definitions) : m.name = n /\ ~m.optional)
          <=> Said(<<"define", n>>) /\ ~said[<<"define", n>>].optional
    BY DEF MonolithBuilt, DefinitionsSay, SameDefinition, Said
  <2> QED
    BY <2>1, <2>2, <2>3, <2>4
<1>4. ASSUME NEW i \in Items
      PROVE  Violation("not contained", i, None) \in violations <=>
              /\ Said(<<"contained">>)
              /\ i \in checked \ (said[<<"contained">>] \cup SaidInAny)
  <2>1. Violation("not contained", i, None) \in violations <=>
          /\ rule.containedUnless # None
          /\ i \in checked \ (rule.containedUnless \cup InAnyModule(rule))
    BY <1>1 DEF ReportsModules
  <2>2. InAnyModule(rule) = SaidInAny
    BY SaidModuleSets
  <2>3. /\ Said(<<"contained">>) <=> rule.containedUnless # None
        /\ Said(<<"contained">>) => said[<<"contained">>] = rule.containedUnless
    BY DEF MonolithBuilt, ChosenSay, Said
  <2> QED
    BY <2>1, <2>2, <2>3
<1> QED
  BY <1>2, <1>3, <1>4 DEF MonolithVerdict

LEMMA AsSaid == Judged /\ LayeredWritten /\ MonolithWritten => VerdictIsWhatWasSaid
<1> SUFFICES ASSUME Judged, LayeredWritten, MonolithWritten, outcome = "evaluated",
                    kind \in {"layered", "monolith"}
             PROVE  VerdictIsWhatWasSaid
  BY DEF VerdictIsWhatWasSaid
<1>1. /\ \A n \in Names(kind), c \in Directions, d \in dependencies :
            Violation(c, n, d) \in violations <=> SaidConstraint(n, c, d)
      /\ \A n \in Names(kind) :
            Violation("empty", n, None) \in violations <=>
                /\ Said(<<"define", n>>) /\ ~said[<<"define", n>>].optional
                /\ Said(<<"optional">>) => ~said[<<"optional">>]
                /\ SaidIn(n) \cap checked = {}
      /\ \A i \in Items :
            Violation("not contained", i, None) \in violations <=>
                /\ Said(<<"contained">>)
                /\ i \in checked \ (said[<<"contained">>] \cup SaidInAny)
  <2>1. CASE kind = "layered"
    <3>1. LayeredVerdict
      BY <2>1, LayeredAsSaid DEF LayeredWritten
    <3> QED
      BY <2>1, <3>1 DEF LayeredVerdict
  <2>2. CASE kind = "monolith"
    <3>1. MonolithVerdict
      BY <2>2, MonolithAsSaid DEF MonolithWritten
    <3> QED
      BY <2>2, <3>1 DEF MonolithVerdict
  <2> QED
    BY <2>1, <2>2
<1> QED
  BY <1>1 DEF VerdictIsWhatWasSaid, SaidConstraint, Directions

(***************************************************************************)
(* What is reported of layers and modules is what the calls say, in        *)
(* whatever order and however often they were made.                        *)
(***************************************************************************)
THEOREM VerdictsAreWhatWasSaid == Spec => []VerdictIsWhatWasSaid
<1>1. Init => Judged /\ LayeredWritten /\ MonolithWritten
  BY InitJudged, InitLayered, InitMonolith
<1>2. (Judged /\ LayeredWritten /\ MonolithWritten) /\ [Next]_vars
        => (Judged /\ LayeredWritten /\ MonolithWritten)'
  BY NextJudged, NextLayered, NextMonolith
<1>3. Judged /\ LayeredWritten /\ MonolithWritten => VerdictIsWhatWasSaid
  BY AsSaid
<1> QED
  BY <1>1, <1>2, <1>3, PTL DEF Spec

-----------------------------------------------------------------------------
(***************************************************************************)
(* Slices.  A predicate over slices that looks at identifiers only holds   *)
(* for all slices of an identifier or for none.                            *)
(***************************************************************************)
Slice(s) == s \in [identifier : {s.identifier}, items : SUBSET Universe]

LEMMA SlicePredicatesCombine ==
    ASSUME NEW P, NEW Q, ByIdentifier(P), ByIdentifier(Q)
    PROVE  ByIdentifier(P \cap Q) /\ ByIdentifier(P \cup Q)
<1> DEFINE Ids(R) == {s.identifier : s \in R}
           Of(R) == [identifier : Ids(R), items : SUBSET Universe]
<1>1. ASSUME NEW s \in Of(P \cap Q), NEW t \in Of(P \cap Q), s.identifier = t.identifier
      PROVE  s \in P \cap Q <=> t \in P \cap Q
  <2>1. s \in Of(P) /\ t \in Of(P) /\ s \in Of(Q) /\ t \in Of(Q)
    OBVIOUS
  <2>2. (s \in P <=> t \in P) /\ (s \in Q <=> t \in Q)
    BY <1>1, <2>1 DEF ByIdentifier
  <2> QED
    BY <2>2
<1>2. ASSUME NEW s \in Of(P \cup Q), NEW t \in Of(P \cup Q), s.identifier = t.identifier
      PROVE  s \in P \cup Q <=> t \in P \cup Q
  <2>1. s \in P <=> t \in P
    <3>1. CASE s.identifier \in Ids(P)
      <4>1. s \in Of(P) /\ t \in Of(P)
        BY <1>2, <3>1
      <4> QED
        BY <1>2, <4>1 DEF ByIdentifier
    <3>2. CASE s.identifier \notin Ids(P)
      BY <1>2, <3>2
    <3> QED
      BY <3>1, <3>2
  <2>2. s \in Q <=> t \in Q
    <3>1. CASE s.identifier \in Ids(Q)
      <4>1. s \in Of(Q) /\ t \in Of(Q)
        BY <1>2, <3>1
      <4> QED
        BY <1>2, <4>1 DEF ByIdentifier
    <3>2. CASE s.identifier \notin Ids(Q)
      BY <1>2, <3>2
    <3> QED
      BY <3>1, <3>2
  <2> QED
    BY <2>1, <2>2
<1> QED
  BY <1>1, <1>2 DEF ByIdentifier

(***************************************************************************)
(* The rule about slices, and its predicate when all that were said look   *)
(* at identifiers only.                                                    *)
(***************************************************************************)
Conditions == {None, "free of cycles", "not depend on each other"}

Transformers ==
    [assignment : {PackageMatchingSliceIdentifier(p) : p \in Patterns},
     predicate : (SUBSET UNION SlicePredicates) \cup {None}]

AllSliceRules ==
    [transformer : Transformers, condition : Conditions,
     irrelevant : SUBSET AllDependencies, allowEmptyShould : BOOLEAN]

SaidByIdentifier(words) ==
    \A P \in SlicePredicates : <<"and", P>> \in DOMAIN words \/ <<"or", P>> \in DOMAIN words => ByIdentifier(P)

SlicesBuilt(r, words) ==
    /\ r \in AllSliceRules
    /\ SaidByIdentifier(words) =>
          r.transformer.predicate = None \/ ByIdentifier(r.transformer.predicate)

SlicesWritten == kind = "slices" => SlicesBuilt(rule, said)

LEMMA InitSlices == Init => SlicesWritten
<1> SUFFICES ASSUME Init, kind = "slices" PROVE SlicesBuilt(rule, said)
  BY DEF SlicesWritten
<1>1. PICK p \in Patterns :
        rule = NewSliceRule(NewTransformer(PackageMatchingSliceIdentifier(p)), None, FALSE)
  BY DEF Init, NewRules
<1> DEFINE assignment == PackageMatchingSliceIdentifier(p)
<1>2. rule = [transformer |-> [assignment |-> assignment, predicate |-> None], condition |-> None,
              irrelevant |-> {}, allowEmptyShould |-> FALSE]
  BY <1>1 DEF NewSliceRule, NewTransformer
<1>3. assignment \in {PackageMatchingSliceIdentifier(q) : q \in Patterns}
  OBVIOUS
<1> HIDE DEF assignment
<1>4. [assignment |-> assignment, predicate |-> None] \in Transformers
  BY <1>3 DEF Transformers
<1> QED
  BY <1>2, <1>4 DEF SlicesBuilt, AllSliceRules, Conditions

LEMMA SlicesCalls ==
    ASSUME kind = "slices", [Next]_vars
    PROVE  \/ rule' = rule /\ said' = said
           \/ \E P \in SlicePredicates :
                \/ /\ rule' = [rule EXCEPT !.transformer = That(rule.transformer, P)]
                   /\ said' = Spoken(said, <<"and", P>>, P)
                \/ /\ rule' = [rule EXCEPT !.transformer = ThatOrs(rule.transformer, P)]
                   /\ said' = Spoken(said, <<"or", P>>, P)
           \/ \E c \in Conditions :
                rule' = [rule EXCEPT !.condition = c] /\ said' = Spoken(said, <<"should">>, c)
           \/ rule' = [rule EXCEPT !.allowEmptyShould = TRUE] /\ said' = Spoken(said, <<"allow">>, TRUE)
           \/ \E P \in IgnoredSets :
                /\ rule' = [rule EXCEPT !.irrelevant = rule.irrelevant \cup P]
                /\ said' = Spoken(said, <<"ignore">>, rule.irrelevant \cup P)
<1>1. CASE RestrictSlices
  BY <1>1 DEF RestrictSlices, Say, Spoken
<1>2. CASE SlicesShould
  BY <1>2 DEF SlicesShould, Say, Spoken, Conditions
<1>3. CASE AllowEmptyShould
  BY <1>3 DEF AllowEmptyShould, Say, Spoken
<1>4. CASE IgnoreDependencyWhere
  BY <1>4 DEF IgnoreDependencyWhere, Say, Spoken
<1>5. CASE Evaluate
  BY <1>5 DEF Evaluate
<1>6. CASE UNCHANGED vars
  BY <1>6 DEF vars
<1>7. \/ RestrictSlices \/ SlicesShould \/ AllowEmptyShould \/ IgnoreDependencyWhere
      \/ Evaluate \/ UNCHANGED vars
  BY DEF Next, Writing, DefinedBy, WhereLayer, DefineOnion, DefineModuleBy, ModulesDefinedByPackages,
         NamingModules, WhereModule, ThroughItemsThat, ModulesShouldBeFreeOfCycles, WithOptional,
         EnsureAllItemsAreContained, WriteLine
<1> QED
  BY <1>1, <1>2, <1>3, <1>4, <1>5, <1>6, <1>7

LEMMA NextSlices == Judged /\ SlicesWritten /\ [Next]_vars => SlicesWritten'
<1> SUFFICES ASSUME Judged, SlicesWritten, [Next]_vars, kind' = "slices"
             PROVE  SlicesBuilt(rule', said')
  BY DEF SlicesWritten
<1>1. kind = "slices"
  BY NextWritesOrJudges DEF Writes, Evaluate, vars
<1>2. SlicesBuilt(rule, said) /\ rule \in AllSliceRules /\ rule.transformer \in Transformers
  BY <1>1 DEF SlicesWritten, SlicesBuilt, AllSliceRules
<1>3. \A topic, w : SaidByIdentifier(Spoken(said, topic, w)) => SaidByIdentifier(said)
  BY DEF SaidByIdentifier, Spoken
<1>4. ASSUME NEW P \in SlicePredicates, NEW topic \in {<<"and", P>>, <<"or", P>>}, NEW new,
             said' = Spoken(said, topic, P),
             new = P \/ (rule.transformer.predicate # None /\
                            (new = rule.transformer.predicate \cap P \/ new = rule.transformer.predicate \cup P)),
             rule' = [rule EXCEPT !.transformer = [rule.transformer EXCEPT !.predicate = new]]
      PROVE  SlicesBuilt(rule', said')
  <2> DEFINE old == rule.transformer.predicate
  <2>1. new \in SUBSET UNION SlicePredicates
    <3>1. P \in SUBSET UNION SlicePredicates
      OBVIOUS
    <3>2. old # None => old \in SUBSET UNION SlicePredicates
      BY <1>2 DEF Transformers
    <3> QED
      BY <1>4, <3>1, <3>2
  <2>2. rule' \in AllSliceRules /\ rule'.transformer.predicate = new
    <3>1. [rule.transformer EXCEPT !.predicate = new] \in Transformers
          /\ [rule.transformer EXCEPT !.predicate = new].predicate = new
      BY <1>2, <2>1 DEF Transformers
    <3> QED
      BY <1>2, <1>4, <3>1 DEF AllSliceRules
  <2>3. ASSUME SaidByIdentifier(said') PROVE ByIdentifier(new)
    <3>1. topic \in DOMAIN said'
      BY <1>4, SpokenWords
    <3>2. ByIdentifier(P)
      BY <2>3, <3>1 DEF SaidByIdentifier
    <3>3. SaidByIdentifier(said)
      BY <1>3, <1>4, <2>3
    <3>4. old # None => ByIdentifier(old)
      BY <1>2, <3>3 DEF SlicesBuilt
    <3> QED
      BY <1>4, <3>2, <3>4, SlicePredicatesCombine
  <2> QED
    BY <2>2, <2>3 DEF SlicesBuilt
<1>5. ASSUME NEW P \in SlicePredicates,
             rule' = [rule EXCEPT !.transformer = That(rule.transformer, P)],
             said' = Spoken(said, <<"and", P>>, P)
      PROVE  SlicesBuilt(rule', said')
  <2> DEFINE new == IF rule.transformer.predicate = None THEN P ELSE rule.transformer.predicate \cap P
  <2>1. That(rule.transformer, P) = [rule.transformer EXCEPT !.predicate = new]
    BY DEF That
  <2> QED
    BY <1>4, <1>5, <2>1
<1>6. ASSUME NEW P \in SlicePredicates,
             rule' = [rule EXCEPT !.transformer = ThatOrs(rule.transformer, P)],
             said' = Spoken(said, <<"or", P>>, P)
      PROVE  SlicesBuilt(rule', said')
  <2> DEFINE new == IF rule.transformer.predicate = None THEN P ELSE rule.transformer.predicate \cup P
  <2>1. ThatOrs(rule.transformer, P) = [rule.transformer EXCEPT !.predicate = new]
    BY DEF ThatOrs
  <2> QED
    BY <1>4, <1>6, <2>1
<1>7. ASSUME rule' \in AllSliceRules, rule'.transformer = rule.transformer,
             NEW topic, NEW w, said' = Spoken(said, topic, w)
      PROVE  SlicesBuilt(rule', said')
  BY <1>2, <1>3, <1>7 DEF SlicesBuilt
<1>8. ASSUME NEW c \in Conditions, rule' = [rule EXCEPT !.condition = c], said' = Spoken(said, <<"should">>, c)
      PROVE  SlicesBuilt(rule', said')
  <2>1. rule' \in AllSliceRules /\ rule'.transformer = rule.transformer
    BY <1>2, <1>8 DEF AllSliceRules
  <2> QED
    BY <1>7, <1>8, <2>1
<1>9. ASSUME rule' = [rule EXCEPT !.allowEmptyShould = TRUE], said' = Spoken(said, <<"allow">>, TRUE)
      PROVE  SlicesBuilt(rule', said')
  <2>1. rule' \in AllSliceRules /\ rule'.transformer = rule.transformer
    BY <1>2, <1>9 DEF AllSliceRules
  <2> QED
    BY <1>7, <1>9, <2>1
<1>10. ASSUME NEW P \in IgnoredSets, rule' = [rule EXCEPT !.irrelevant = rule.irrelevant \cup P],
              said' = Spoken(said, <<"ignore">>, rule.irrelevant \cup P)
       PROVE  SlicesBuilt(rule', said')
  <2>1. P \in SUBSET AllDependencies
    BY RulesAssumption
  <2>2. rule' \in AllSliceRules /\ rule'.transformer = rule.transformer
    BY <1>2, <1>10, <2>1 DEF AllSliceRules
  <2> QED
    BY <1>7, <1>10, <2>2
<1>11. CASE rule' = rule /\ said' = said
  BY <1>2, <1>11
<1> QED
  BY <1>1, <1>5, <1>6, <1>8, <1>9, <1>10, <1>11, SlicesCalls

(***************************************************************************)
(* The slices of a set of items are those of its retained identifiers.     *)
(***************************************************************************)
RetainedBy(predicate, id) == predicate = None \/ \E s \in predicate : s.identifier = id

LEMMA TransformSlices ==
    ASSUME NEW transformer,
           \/ transformer.predicate = None
           \/ ByIdentifier(transformer.predicate) /\ \A s \in transformer.predicate : Slice(s),
           NEW X \in SUBSET Universe
    PROVE  \A t : t \in Transform(transformer, X) <=>
              \E j \in X : /\ transformer.assignment[j] # Ignore
                           /\ RetainedBy(transformer.predicate, transformer.assignment[j])
                           /\ t = SliceOf(transformer.assignment, transformer.assignment[j], X)
<1> DEFINE A == transformer.assignment
           predicate == transformer.predicate
           all == {SliceOf(A, id, X) : id \in {A[j] : j \in X} \ {Ignore}}
<1>1. \A t : t \in all <=> \E j \in X : A[j] # Ignore /\ t = SliceOf(A, A[j], X)
  OBVIOUS
<1>2. Transform(transformer, X) = IF predicate = None THEN all ELSE all \cap predicate
  BY DEF Transform
<1>3. \A id : (SliceOf(A, id, X)).identifier = id /\ Slice(SliceOf(A, id, X))
  BY DEF SliceOf, Slice
<1> HIDE DEF A, predicate, all
<1>4. CASE predicate = None
  BY <1>1, <1>2, <1>4 DEF RetainedBy, A, predicate
<1>5. CASE predicate # None
  <2>1. ByIdentifier(predicate) /\ \A s \in predicate : Slice(s)
    BY <1>5 DEF predicate
  <2>2. ASSUME NEW id
        PROVE  SliceOf(A, id, X) \in predicate <=> RetainedBy(predicate, id)
    <3>1. ASSUME SliceOf(A, id, X) \in predicate
          PROVE  RetainedBy(predicate, id)
      BY <1>3, <3>1 DEF RetainedBy
    <3>2. ASSUME RetainedBy(predicate, id)
          PROVE  SliceOf(A, id, X) \in predicate
      <4>1. PICK s \in predicate : s.identifier = id
        BY <1>5, <3>2 DEF RetainedBy
      <4> DEFINE slices == [identifier : {u.identifier : u \in predicate}, items : SUBSET Universe]
      <4>2. s \in slices
        BY <2>1, <4>1 DEF Slice
      <4>3. SliceOf(A, id, X) \in slices
        BY <1>3, <4>1 DEF Slice
      <4>4. (SliceOf(A, id, X)).identifier = s.identifier
        BY <1>3, <4>1
      <4> QED
        BY <2>1, <4>1, <4>2, <4>3, <4>4 DEF ByIdentifier
    <3> QED
      BY <3>1, <3>2
  <2>3. \A t : t \in Transform(transformer, X) <=> t \in all /\ t \in predicate
    BY <1>2, <1>5
  <2>4. \A t : t \in Transform(transformer, X) <=>
          \E j \in X : A[j] # Ignore /\ RetainedBy(predicate, A[j]) /\ t = SliceOf(A, A[j], X)
    BY <1>1, <2>2, <2>3, Zenon
  <2> QED
    BY <2>4 DEF A, predicate
<1> QED
  BY <1>4, <1>5

(***************************************************************************)
(* The pairs of retained slices with a dependency that counts.             *)
(***************************************************************************)
Counts(r, C, d) ==
    LET Id(i) == r.transformer.assignment[i] IN
    /\ d \notin r.irrelevant
    /\ d[1] \in C
    /\ Id(d[1]) # Id(d[2])
    /\ \A i \in {d[1], d[2]} : Id(i) # Ignore /\ RetainedBy(r.transformer.predicate, Id(i))

SlicePairs(r, C, deps) ==
    {<<r.transformer.assignment[d[1]], r.transformer.assignment[d[2]]>> :
        d \in {e \in deps : Counts(r, C, e)}}

LEMMA Relevant ==
    ASSUME NEW r, NEW slice, NEW deps
    PROVE  \A d : d \in RelevantDependencies(r, slice, deps) <=>
              /\ d \in deps /\ d \notin r.irrelevant
              /\ d[1] \in slice.items
              /\ r.transformer.assignment[d[2]] # slice.identifier
<1>1. \A d : d \in UNION {DependenciesFromSelf(deps, i) : i \in slice.items} <=> d \in deps /\ d[1] \in slice.items
  <2> SUFFICES ASSUME NEW d \in deps, d[1] \in slice.items
               PROVE  d \in UNION {DependenciesFromSelf(deps, i) : i \in slice.items}
    BY DEF DependenciesFromSelf
  <2>1. d \in DependenciesFromSelf(deps, d[1])
    BY DEF DependenciesFromSelf
  <2> QED
    BY <2>1
<1> QED
  BY <1>1 DEF RelevantDependencies, SliceDependenciesFromSelf

LEMMA SlicesReport ==
    ASSUME NEW r,
           \/ r.transformer.predicate = None
           \/ ByIdentifier(r.transformer.predicate) /\ \A s \in r.transformer.predicate : Slice(s),
           NEW C \in SUBSET Items, NEW deps \in SUBSET AllDependencies,
           ~EvaluateSlices(r, C, deps).panicked
    PROVE  IF r.condition = "not depend on each other"
           THEN {v.about : v \in EvaluateSlices(r, C, deps).violations} = SlicePairs(r, C, deps)
           ELSE EvaluateSlices(r, C, deps).violations # {} =>
                  \E p, q \in SlicePairs(r, C, deps) : p[1] = q[2]
<1> DEFINE T == r.transformer
           A == T.assignment
           Kept(i) == A[i] # Ignore /\ RetainedBy(T.predicate, A[i])
           objects == Transform(T, C)
           V == EvaluateSlices(r, C, deps).violations
           Of(i) == SliceOf(A, A[i], C)
<1>1. C \in SUBSET Universe
  BY DEF Universe
<1>2. \A d \in deps : d[1] \in Universe /\ d[2] \in Universe
  BY DEF AllDependencies, Universe
<1>3. \A s : s \in objects <=> \E i \in C : Kept(i) /\ s = Of(i)
  BY <1>1, TransformSlices
<1>4. V = IF r.condition = "not depend on each other"
          THEN UNION {NotDependOnEachOther(r, s, deps) : s \in objects}
          ELSE IF HasCycle(objects, SliceEdges(r, objects, deps))
               THEN {Violation("cycle", None, None)} ELSE {}
  BY DEF EvaluateSlices
<1>5. \A i : (Of(i)).identifier = A[i] /\ (Of(i)).items = {j \in C : A[j] = A[i]}
  BY DEF SliceOf
<1>6. \A d : d \in deps /\ Counts(r, C, d) <=>
             /\ d \in deps /\ d \notin r.irrelevant /\ d[1] \in C /\ A[d[1]] # A[d[2]]
             /\ Kept(d[1]) /\ Kept(d[2])
  BY DEF Counts
<1> HIDE DEF objects, V, Of, Kept
<1>7. \A i \in C : \A d : d \in RelevantDependencies(r, Of(i), deps) <=>
        d \in deps /\ d \notin r.irrelevant /\ d[1] \in C /\ A[d[1]] = A[i] /\ A[d[2]] # A[i]
  <2> SUFFICES ASSUME NEW i \in C, NEW d
               PROVE  d \in RelevantDependencies(r, Of(i), deps) <=>
                        d \in deps /\ d \notin r.irrelevant /\ d[1] \in C /\ A[d[1]] = A[i] /\ A[d[2]] # A[i]
    OBVIOUS
  <2> QED
    BY <1>5, Relevant
<1>8. \A i, j : A[i] = A[j] => (Kept(i) <=> Kept(j))
  BY DEF Kept
<1>9. CASE r.condition = "not depend on each other"
  <2>1. V = UNION {NotDependOnEachOther(r, s, deps) : s \in objects}
    BY <1>4, <1>9
  <2>2. ASSUME NEW v \in V
        PROVE  v.about \in SlicePairs(r, C, deps)
    <3>1. PICK s \in objects : v \in NotDependOnEachOther(r, s, deps)
      BY <2>1
    <3>2. PICK i \in C : Kept(i) /\ s = Of(i)
      BY <1>3
    <3> DEFINE relevant == RelevantDependencies(r, s, deps)
               X == {d[2] : d \in relevant}
    <3>3. X \in SUBSET Universe
      BY <1>2, <1>7, <3>2
    <3>4. PICK t \in Transform(T, X) : v.about = <<s.identifier, t.identifier>>
      <4>1. OfDependencies(T, relevant) = Transform(T, X)
        BY DEF OfDependencies
      <4>2. PICK t \in Transform(T, X) : \E e : v = Violation("depends", <<s.identifier, t.identifier>>, e)
        BY <3>1, <4>1 DEF NotDependOnEachOther
      <4>3. PICK e : v = Violation("depends", <<s.identifier, t.identifier>>, e)
        BY <4>2
      <4> QED
        BY <4>3 DEF Violation
    <3>5. PICK j \in X : A[j] # Ignore /\ RetainedBy(T.predicate, A[j]) /\ t = SliceOf(A, A[j], X)
      <4> HIDE DEF X
      <4> QED
        BY <3>3, TransformSlices
    <3>6. PICK d \in relevant : j = d[2]
      OBVIOUS
    <3>7. /\ d \in deps /\ d \notin r.irrelevant /\ d[1] \in C /\ A[d[1]] = A[i] /\ A[d[2]] # A[i]
      BY <1>7, <3>2
    <3>8. Kept(d[1]) /\ Kept(d[2])
      BY <1>8, <3>2, <3>5, <3>6, <3>7 DEF Kept
    <3>9. t.identifier = A[d[2]] /\ s.identifier = A[d[1]]
      BY <1>5, <3>2, <3>5, <3>6, <3>7 DEF SliceOf
    <3>10. Counts(r, C, d)
      BY <1>6, <3>7, <3>8
    <3> QED
      BY <3>4, <3>7, <3>9, <3>10 DEF SlicePairs
  <2>3. ASSUME NEW p \in SlicePairs(r, C, deps)
        PROVE  \E v \in V : v.about = p
    <3>1. PICK d \in deps : Counts(r, C, d) /\ p = <<A[d[1]], A[d[2]]>>
      BY DEF SlicePairs
    <3>2. /\ d \notin r.irrelevant /\ d[1] \in C /\ A[d[1]] # A[d[2]]
          /\ Kept(d[1]) /\ Kept(d[2])
      BY <1>6, <3>1
    <3> DEFINE s == Of(d[1])
               relevant == RelevantDependencies(r, s, deps)
               X == {e[2] : e \in relevant}
               t == SliceOf(A, A[d[2]], X)
    <3>3. s \in objects
      BY <1>3, <3>2
    <3>4. d \in relevant
      BY <1>7, <3>2
    <3>5. X \in SUBSET Universe
      BY <1>2, <1>7, <3>2
    <3>6. d[2] \in X
      BY <3>4
    <3>7. OfDependencies(T, relevant) = Transform(T, X)
      BY DEF OfDependencies
    <3>8. s.identifier = A[d[1]] /\ t.identifier = A[d[2]]
      BY <1>5 DEF SliceOf
    <3> HIDE DEF s, X
    <3>9. t \in Transform(T, X)
      BY <3>2, <3>5, <3>6, TransformSlices DEF Kept
    <3> HIDE DEF t
    <3> DEFINE v == Violation("depends", <<s.identifier, t.identifier>>, {e \in relevant : e[2] \in t.items})
    <3>10. v \in NotDependOnEachOther(r, s, deps)
      BY <3>7, <3>9 DEF NotDependOnEachOther
    <3>11. v.about = p
      BY <3>1, <3>8 DEF Violation
    <3> HIDE DEF v
    <3> QED
      BY <2>1, <3>3, <3>10, <3>11
  <2>4. {v.about : v \in V} = SlicePairs(r, C, deps)
    BY <2>2, <2>3
  <2> QED
    BY <1>9, <2>4 DEF V
<1>10. CASE r.condition # "not depend on each other"
  <2> SUFFICES ASSUME V # {} PROVE \E p, q \in SlicePairs(r, C, deps) : p[1] = q[2]
    BY <1>10 DEF V
  <2>1. HasCycle(objects, SliceEdges(r, objects, deps))
    BY <1>4, <1>10
  <2>2. PICK S \in (SUBSET objects) \ {{}} : \A s \in S : \E t \in S : <<s, t>> \in SliceEdges(r, objects, deps)
    BY <2>1 DEF HasCycle
  <2>3. ASSUME NEW s \in objects, NEW t \in objects, <<s, t>> \in SliceEdges(r, objects, deps)
        PROVE  <<s.identifier, t.identifier>> \in SlicePairs(r, C, deps)
    <3>1. PICK d \in RelevantDependencies(r, s, deps) : d[2] \in t.items
      BY <2>3 DEF SliceEdges
    <3>2. PICK i \in C : Kept(i) /\ s = Of(i)
      BY <1>3
    <3>3. PICK j \in C : Kept(j) /\ t = Of(j)
      BY <1>3
    <3>4. d \in deps /\ d \notin r.irrelevant /\ d[1] \in C /\ A[d[1]] = A[i] /\ A[d[2]] # A[i]
      BY <1>7, <3>1, <3>2
    <3>5. A[d[2]] = A[j]
      BY <1>5, <3>1, <3>3
    <3>6. Kept(d[1]) /\ Kept(d[2])
      BY <1>8, <3>2, <3>3, <3>4, <3>5
    <3>7. Counts(r, C, d)
      BY <1>6, <3>4, <3>6
    <3>8. s.identifier = A[d[1]] /\ t.identifier = A[d[2]]
      BY <1>5, <3>2, <3>3, <3>4, <3>5
    <3> QED
      BY <3>4, <3>7, <3>8 DEF SlicePairs
  <2>4. PICK s \in S : TRUE
    BY <2>2
  <2>5. PICK t \in S : <<s, t>> \in SliceEdges(r, objects, deps)
    BY <2>2
  <2>6. PICK u \in S : <<t, u>> \in SliceEdges(r, objects, deps)
    BY <2>2
  <2>7. /\ <<s.identifier, t.identifier>> \in SlicePairs(r, C, deps)
        /\ <<t.identifier, u.identifier>> \in SlicePairs(r, C, deps)
    BY <2>2, <2>3, <2>4, <2>5, <2>6
  <2> DEFINE p == <<t.identifier, u.identifier>>
             q == <<s.identifier, t.identifier>>
  <2>8. p[1] = q[2]
    OBVIOUS
  <2> HIDE DEF p, q
  <2> QED
    BY <2>7, <2>8 DEF p, q
<1> QED
  BY <1>9, <1>10

LEMMA SlicesAsSaid == Judged /\ SlicesWritten => SlicesAgree
<1> SUFFICES ASSUME Judged, SlicesWritten, outcome = "evaluated", kind = "slices", SaidByIdentifier(said)
             PROVE  IF rule.condition = "not depend on each other"
                    THEN {v.about : v \in violations} = SlicePairs(rule, checked, dependencies)
                    ELSE violations # {} =>
                            \E p, q \in SlicePairs(rule, checked, dependencies) : p[1] = q[2]
  <2> DEFINE Id(i) == rule.transformer.assignment[i]
             pairs == {<<Id(d[1]), Id(d[2])>> :
                        d \in {e \in dependencies \ rule.irrelevant :
                                  /\ e[1] \in checked
                                  /\ Id(e[1]) # Id(e[2])
                                  /\ \A i \in {e[1], e[2]} : Id(i) # Ignore /\ Retained(Id(i))}}
  <2>1. pairs = SlicePairs(rule, checked, dependencies)
    BY DEF SlicePairs, Counts, Retained, RetainedBy
  <2> QED
    BY <2>1 DEF SlicesAgree, Evaluated, Said, SaidByIdentifier
<1>1. rule \in AllSliceRules /\ rule.transformer \in Transformers
  BY DEF SlicesWritten, SlicesBuilt, AllSliceRules
<1>2. \/ rule.transformer.predicate = None
      \/ ByIdentifier(rule.transformer.predicate) /\ \A s \in rule.transformer.predicate : Slice(s)
  <2> SUFFICES ASSUME rule.transformer.predicate # None
               PROVE  /\ ByIdentifier(rule.transformer.predicate)
                      /\ \A s \in rule.transformer.predicate : Slice(s)
    OBVIOUS
  <2>1. ByIdentifier(rule.transformer.predicate)
    BY DEF SlicesWritten, SlicesBuilt
  <2>2. rule.transformer.predicate \in SUBSET UNION SlicePredicates
    BY <1>1 DEF Transformers
  <2>3. \A P \in SlicePredicates : \A s \in P : Slice(s)
    BY RulesAssumption DEF Slice
  <2> QED
    BY <2>1, <2>2, <2>3
<1>3. /\ checked \in SUBSET Items /\ dependencies \in SUBSET AllDependencies
      /\ Judgement = EvaluateSlices(rule, checked, dependencies)
      /\ ~Judgement.panicked /\ violations = Judgement.violations
  BY DEF Judged, Judgement, EvaluateRule
<1> QED
  BY <1>2, <1>3, SlicesReport

(***************************************************************************)
(* Whatever predicates were combined, in whatever order: slices that may   *)
(* not depend on each other are reported by just the pairs that do, and a  *)
(* cycle is reported only where such a pair follows another.               *)
(***************************************************************************)
THEOREM SlicesReportTheirPairs == Spec => []SlicesAgree
<1>1. Init => Judged /\ SlicesWritten
  BY InitJudged, InitSlices
<1>2. (Judged /\ SlicesWritten) /\ [Next]_vars => (Judged /\ SlicesWritten)'
  BY NextJudged, NextSlices
<1>3. Judged /\ SlicesWritten => SlicesAgree
  BY SlicesAsSaid
<1> QED
  BY <1>1, <1>2, <1>3, PTL DEF Spec

(***************************************************************************)
(* transitive_dependencies_from_self: the dependencies of what is found.   *)
(***************************************************************************)
LEMMA SeenIsFound ==
    ASSUME NEW deps \in SUBSET AllDependencies, NEW i \in Universe
    PROVE  \E seen \in SUBSET Universe :
              /\ TransitiveDependenciesFromSelf(deps, i) = {d \in deps : d[1] \in seen}
              /\ i \in seen
              /\ \A d \in deps : d[1] \in seen => d[2] \in seen
              /\ \A W : i \in W /\ (\A d \in deps : d[1] \in W => d[2] \in W) => seen \subseteq W
<1> DEFINE N == Cardinality(Universe)
           Is(f) == f = [n \in 0 .. N |->
                            IF n = 0 THEN {i}
                            ELSE f[n - 1] \cup {d[2] : d \in {e \in deps : e[1] \in f[n - 1]}}]
           Seen == CHOOSE f : Is(f)
<1>1. deps \in SUBSET (Universe \X Universe)
  BY DEF AllDependencies, Universe
<1>2. IsFiniteSet(Universe) /\ N \in Nat
  BY GraphAssumption, FS_Union, FS_CardinalityType DEF Universe
<1>3. TransitiveDependenciesFromSelf(deps, i) = {d \in deps : d[1] \in Seen[N]}
  BY DEF TransitiveDependenciesFromSelf
<1>4. \A f : Is(f) <=> AreRounds(f, N, deps, {i})
  BY DEF AreRounds, Follow
<1>5. \E f : Is(f)
  <2> HIDE DEF Is
  <2> QED
    BY <1>1, <1>2, <1>4, RoundsExist
<1>6. Is(Seen)
  <2> HIDE DEF Is
  <2> QED
    BY <1>5
<1>7. AreRounds(Seen, N, deps, {i})
  <2> HIDE DEF Is, Seen
  <2> QED
    BY <1>4, <1>6
<1> HIDE DEF Is, Seen
<1>8. LET found == Seen[N] IN
      /\ {i} \subseteq found /\ found \subseteq Universe
      /\ \A e \in deps : e[1] \in found => e[2] \in found
      /\ \A W : {i} \subseteq W /\ (\A e \in deps : e[1] \in W => e[2] \in W) => found \subseteq W
  <2> DEFINE A == {i}
  <2>1. A \in SUBSET Universe /\ A # {}
    OBVIOUS
  <2>2. AreRounds(Seen, N, deps, A)
    BY <1>7
  <2> HIDE DEF A
  <2>3. LET found == Seen[N] IN
        /\ A \subseteq found /\ found \subseteq Universe
        /\ \A e \in deps : e[1] \in found => e[2] \in found
        /\ \A W : A \subseteq W /\ (\A e \in deps : e[1] \in W => e[2] \in W) => found \subseteq W
    BY <1>1, <1>2, <2>1, <2>2, RoundsFindAll
  <2> QED
    BY <2>3 DEF A
<1>9. \A W : i \in W <=> {i} \subseteq W
  OBVIOUS
<1> DEFINE seen == Seen[N]
<1>10. /\ i \in seen /\ seen \subseteq Universe
       /\ \A d \in deps : d[1] \in seen => d[2] \in seen
       /\ \A W : i \in W /\ (\A d \in deps : d[1] \in W => d[2] \in W) => seen \subseteq W
  BY <1>8, <1>9
<1>11. TransitiveDependenciesFromSelf(deps, i) = {d \in deps : d[1] \in seen}
  BY <1>3
<1> HIDE DEF seen
<1> QED
  BY <1>10, <1>11

(***************************************************************************)
(* The search from a target outside of the items a rule checks: it goes    *)
(* through items outside that do not match.                                *)
(***************************************************************************)
Passable(deps, objects, P) == {d \in deps : d[1] \notin P /\ d[2] \notin objects}

SearchedFrom(deps, objects, P, start, visited) ==
    /\ PathFound(deps, objects, P, start) <=> visited \cap P # {}
    /\ start \in visited
    /\ \A d \in Passable(deps, objects, P) : d[1] \in visited => d[2] \in visited
    /\ \A W : /\ start \in W
              /\ \A d \in Passable(deps, objects, P) : d[1] \in W => d[2] \in W
              => visited \subseteq W

LEMMA VisitedIsFound ==
    ASSUME NEW deps \in SUBSET AllDependencies, NEW objects, NEW P, NEW start \in Universe
    PROVE  \E visited \in SUBSET Universe : SearchedFrom(deps, objects, P, start, visited)
<1> DEFINE N == Cardinality(Universe)
           G == Passable(deps, objects, P)
           Is(f) == f = [n \in 0 .. N |->
                            IF n = 0 THEN {start}
                            ELSE f[n - 1] \cup
                                 UNION {TargetsOutside(deps, objects, i) : i \in f[n - 1] \ P}]
           Visited == CHOOSE f : Is(f)
<1>1. G \in SUBSET (Universe \X Universe)
  BY DEF AllDependencies, Universe, Passable
<1>2. IsFiniteSet(Universe) /\ N \in Nat
  BY GraphAssumption, FS_Union, FS_CardinalityType DEF Universe
<1>3. PathFound(deps, objects, P, start) <=> Visited[N] \cap P # {}
  BY DEF PathFound
<1>4. \A X : X \cup UNION {TargetsOutside(deps, objects, i) : i \in X \ P} = Follow(G, X)
  <2> TAKE X
  <2>1. ASSUME NEW t \in UNION {TargetsOutside(deps, objects, i) : i \in X \ P}
        PROVE  t \in Follow(G, X)
    BY DEF TargetsOutside, DependenciesFromSelf, Follow, Passable
  <2>2. ASSUME NEW t \in Follow(G, X), t \notin X
        PROVE  t \in UNION {TargetsOutside(deps, objects, i) : i \in X \ P}
    <3>1. PICK e \in G : e[1] \in X /\ t = e[2]
      BY <2>2 DEF Follow
    <3>2. e \in DependenciesFromSelf(deps, e[1]) /\ e[1] \in X \ P /\ t \notin objects
      BY <3>1 DEF Passable, DependenciesFromSelf
    <3>3. t \in TargetsOutside(deps, objects, e[1])
      BY <3>1, <3>2 DEF TargetsOutside
    <3> QED
      BY <3>2, <3>3
  <2> QED
    BY <2>1, <2>2 DEF Follow
<1>5. \A f : Is(f) <=> AreRounds(f, N, G, {start})
  <2> HIDE DEF G
  <2> QED
    BY <1>4 DEF AreRounds
<1>6. \E f : Is(f)
  <2> HIDE DEF Is, G
  <2> QED
    BY <1>1, <1>2, <1>5, RoundsExist
<1>7. Is(Visited)
  <2> HIDE DEF Is
  <2> QED
    BY <1>6
<1>8. AreRounds(Visited, N, G, {start})
  <2> HIDE DEF Is, Visited, G
  <2> QED
    BY <1>5, <1>7
<1> HIDE DEF Is, Visited, G
<1>9. LET found == Visited[N] IN
      /\ {start} \subseteq found /\ found \subseteq Universe
      /\ \A e \in G : e[1] \in found => e[2] \in found
      /\ \A W : {start} \subseteq W /\ (\A e \in G : e[1] \in W => e[2] \in W) => found \subseteq W
  BY <1>1, <1>2, <1>8, RoundsFindAll
<1>10. \A W : start \in W <=> {start} \subseteq W
  OBVIOUS
<1> DEFINE visited == Visited[N]
<1>11. /\ start \in visited /\ visited \subseteq Universe
       /\ \A d \in G : d[1] \in visited => d[2] \in visited
       /\ \A W : start \in W /\ (\A d \in G : d[1] \in W => d[2] \in W) => visited \subseteq W
  BY <1>9, <1>10
<1>12. PathFound(deps, objects, P, start) <=> visited \cap P # {}
  BY <1>3
<1> HIDE DEF visited
<1> QED
  BY <1>11, <1>12 DEF G, SearchedFrom

(***************************************************************************)
(* A search that leaves out the items a rule checks misses nothing.        *)
(***************************************************************************)
LEMMA SearchMissesNothing ==
    ASSUME NEW deps \in SUBSET AllDependencies,
           NEW objects \in SUBSET Items, NEW P, objects \cap P = {}
    PROVE  (\A i \in objects : TransitivelyDependOn(deps, objects, P, i) = {}) <=>
           (\A i \in objects : {d[2] : d \in TransitiveDependenciesFromSelf(deps, i)} \cap P = {})
<1>1. \A d \in deps : d[1] \in Universe /\ d[2] \in Universe
  BY DEF AllDependencies, Universe
<1>2. \A i \in objects : i \in Universe
  BY DEF Universe
<1>3. \A i : \A t : t \in TargetsOutside(deps, objects, i) <=>
                    t \notin objects /\ \E d \in deps : d[1] = i /\ t = d[2]
  BY DEF TargetsOutside, DependenciesFromSelf
<1>4. \A t \in Universe : \E visited \in SUBSET Universe : SearchedFrom(deps, objects, P, t, visited)
  BY VisitedIsFound
<1>5. ASSUME NEW i \in objects, NEW t \in TransitivelyDependOn(deps, objects, P, i)
      PROVE  {d[2] : d \in TransitiveDependenciesFromSelf(deps, i)} \cap P # {}
  <2>1. t \in TargetsOutside(deps, objects, i) /\ PathFound(deps, objects, P, t)
    BY DEF TransitivelyDependOn
  <2>2. PICK d \in deps : d[1] = i /\ t = d[2]
    BY <1>3, <2>1
  <2>3. t \in Universe
    BY <1>1, <2>2
  <2>4. PICK visited \in SUBSET Universe : SearchedFrom(deps, objects, P, t, visited)
    BY <1>4, <2>3
  <2>5. PICK seen \in SUBSET Universe :
            /\ TransitiveDependenciesFromSelf(deps, i) = {e \in deps : e[1] \in seen}
            /\ i \in seen
            /\ \A e \in deps : e[1] \in seen => e[2] \in seen
    BY <1>2, SeenIsFound
  <2> DEFINE targets == {e[2] : e \in TransitiveDependenciesFromSelf(deps, i)}
  <2>6. \A e \in deps : e[1] \in seen => e[2] \in targets
    BY <2>5
  <2>7. targets \subseteq seen
    BY <2>5
  <2> HIDE DEF targets
  <2>8. t \in targets
    BY <2>2, <2>5, <2>6
  <2>9. \A e \in Passable(deps, objects, P) : e[1] \in targets => e[2] \in targets
    BY <2>6, <2>7 DEF Passable
  <2>10. visited \subseteq targets
    BY <2>4, <2>8, <2>9 DEF SearchedFrom
  <2>11. visited \cap P # {}
    BY <2>1, <2>4 DEF SearchedFrom
  <2> QED
    BY <2>10, <2>11 DEF targets
<1>6. ASSUME \A i \in objects : TransitivelyDependOn(deps, objects, P, i) = {},
             NEW i \in objects
      PROVE  {d[2] : d \in TransitiveDependenciesFromSelf(deps, i)} \cap P = {}
  <2> DEFINE Holds(t, V) == /\ t \in V
                            /\ V \cap P = {}
                            /\ \A e \in Passable(deps, objects, P) : e[1] \in V => e[2] \in V
             Vs == {V \in SUBSET Universe :
                        \E j \in objects : \E t \in TargetsOutside(deps, objects, j) : Holds(t, V)}
             W == objects \cup UNION Vs
  <2>1. ASSUME NEW j \in objects, NEW t \in TargetsOutside(deps, objects, j)
        PROVE  t \in W
    <3>1. ~PathFound(deps, objects, P, t)
      BY <1>6 DEF TransitivelyDependOn
    <3>2. t \in Universe
      BY <1>1, <1>3
    <3>3. PICK V \in SUBSET Universe : Holds(t, V)
      BY <1>4, <3>1, <3>2 DEF SearchedFrom
    <3>4. V \in Vs
      BY <3>1, <3>3
    <3> HIDE DEF Vs
    <3> QED
      BY <3>3, <3>4
  <2>2. W \cap P = {}
    OBVIOUS
  <2>3. ASSUME NEW e \in deps, e[1] \in W
        PROVE  e[2] \in W
    <3>1. CASE e[2] \in objects
      BY <3>1
    <3>2. CASE e[1] \in objects /\ e[2] \notin objects
      <4>1. e[2] \in TargetsOutside(deps, objects, e[1])
        BY <1>3, <3>2
      <4> HIDE DEF W
      <4> QED
        BY <2>1, <3>2, <4>1
    <3>3. CASE e[1] \notin objects /\ e[2] \notin objects
      <4>1. PICK V \in Vs : e[1] \in V
        <5> HIDE DEF Vs
        <5> QED
          BY <2>3, <3>3
      <4>2. e \in Passable(deps, objects, P)
        BY <3>3, <4>1 DEF Passable
      <4>3. e[2] \in V
        BY <4>1, <4>2
      <4> HIDE DEF Vs
      <4> QED
        BY <4>3
    <3> QED
      BY <3>1, <3>2, <3>3
  <2> HIDE DEF W
  <2>4. PICK seen \in SUBSET Universe :
            /\ TransitiveDependenciesFromSelf(deps, i) = {e \in deps : e[1] \in seen}
            /\ \A X : i \in X /\ (\A e \in deps : e[1] \in X => e[2] \in X) => seen \subseteq X
    BY <1>2, SeenIsFound
  <2>5. i \in W
    BY DEF W
  <2>6. seen \subseteq W
    BY <2>3, <2>4, <2>5
  <2> QED
    BY <2>2, <2>3, <2>4, <2>6
<1> QED
  BY <1>5, <1>6

LEMMA TransitiveJudged == Judged => ForbiddenPathIsReported
<1> SUFFICES ASSUME Judged, outcome = "evaluated", kind = "transitive", rule.negated,
                    checked \cap rule.that \cap rule.on = {}
             PROVE  violations = {} <=>
                      \A i \in checked \cap rule.that : TransitiveTargets(i) \cap rule.on = {}
  BY DEF ForbiddenPathIsReported, Evaluated
<1> DEFINE objects == checked \cap rule.that
           Found(i) == TransitivelyDependOn(dependencies, objects, rule.on, i)
<1>1. checked \in SUBSET Items /\ dependencies \in SUBSET AllDependencies
  BY DEF Judged
<1>2. violations = UNION {{Violation("depends", i, t) : t \in Found(i)} : i \in objects}
  <2>1. Judgement = EvaluateTransitive(rule, checked, dependencies)
    BY DEF Judgement, EvaluateRule
  <2>2. ~Judgement.panicked /\ violations = Judgement.violations
    BY DEF Judged
  <2> QED
    BY <2>1, <2>2 DEF EvaluateTransitive
<1> HIDE DEF objects, Found
<1>3. violations = {} <=> \A i \in objects : Found(i) = {}
  <2>1. ASSUME NEW i \in objects, NEW t \in Found(i) PROVE violations # {}
    <3>1. Violation("depends", i, t) \in {Violation("depends", i, u) : u \in Found(i)}
      OBVIOUS
    <3> QED
      BY <1>2, <3>1
  <2> QED
    BY <1>2, <2>1
<1>4. (\A i \in objects : Found(i) = {}) <=>
      (\A i \in objects : {d[2] : d \in TransitiveDependenciesFromSelf(dependencies, i)} \cap rule.on = {})
  <2>1. objects \in SUBSET Items /\ objects \cap rule.on = {}
    BY <1>1 DEF objects
  <2> QED
    BY <1>1, <2>1, SearchMissesNothing DEF Found
<1> QED
  BY <1>3, <1>4 DEF objects, TransitiveTargets

(***************************************************************************)
(* Leaving the checked items out of the search, however large the program  *)
(* and in whatever order it goes, loses no verdict of a no_classes() rule. *)
(***************************************************************************)
THEOREM ForbiddenPathsAreReported == Spec => []ForbiddenPathIsReported
<1>1. Init => Judged
  BY InitJudged
<1>2. Judged /\ [Next]_vars => Judged'
  BY NextJudged
<1>3. Judged => ForbiddenPathIsReported
  BY TransitiveJudged
<1> QED
  BY <1>1, <1>2, <1>3, PTL DEF Spec

-----------------------------------------------------------------------------
(***************************************************************************)
(* Diagrams.  The components of the lines are a sequence of them.          *)
(***************************************************************************)
Components == {Component(l) : l \in Lines}

Adds(components, line) ==
    IF \/ line.kind # "component"
       \/ \E c \in Elements(components) : c.name = line.name
    THEN components ELSE Append(components, Component(line))

LEMMA ComponentsAreParsed ==
    ASSUME NEW lines \in Seq(Lines)
    PROVE  ParsedComponents(lines) \in Seq(Components)
<1> DEFINE N == Len(lines)
           D == Seq(Components)
           Is(f) == f = [n \in 0 .. N |->
                            IF n = 0 THEN <<>>
                            ELSE IF \/ lines[n].kind # "component"
                                    \/ \E c \in Elements(f[n - 1]) : c.name = lines[n].name
                                 THEN f[n - 1]
                                 ELSE Append(f[n - 1], Component(lines[n]))]
           step == CHOOSE f : Is(f)
           F == [q \in Nat \X D |-> IF q[1] \in 1 .. N THEN Adds(q[2], lines[q[1]]) ELSE q[2]]
<1>1. N \in Nat /\ \A n \in 1 .. N : lines[n] \in Lines
  OBVIOUS
<1>2. ParsedComponents(lines) = step[N]
  BY DEF ParsedComponents
<1>3. \A f : Is(f) <=> f = [n \in 0 .. N |-> IF n = 0 THEN <<>> ELSE Adds(f[n - 1], lines[n])]
  BY DEF Adds
<1>4. \A x \in D, n \in 1 .. N : Adds(x, lines[n]) \in D
  <2> TAKE x \in D, n \in 1 .. N
  <2>1. Component(lines[n]) \in Components
    BY <1>1 DEF Components
  <2>2. Append(x, Component(lines[n])) \in D
    BY <2>1
  <2> QED
    BY <2>2 DEF Adds
<1> HIDE DEF N, D, Is
<1>5. F \in [Nat \X D -> D]
  BY <1>4
<1>6. \A n \in 1 .. N : \A x \in D : F[<<n, x>>] = Adds(x, lines[n])
  BY <1>1
<1>7. <<>> \in D
  BY DEF D
<1> HIDE DEF F
<1>8. PICK f \in [0 .. N -> D] : Solves(f, F, <<>>, N)
  BY <1>1, <1>5, <1>7, RecursionExists
<1>9. \A n \in 0 .. N : f[n] = IF n = 0 THEN <<>> ELSE Adds(f[n - 1], lines[n])
  <2> SUFFICES ASSUME NEW n \in 0 .. N, n # 0 PROVE f[n] = Adds(f[n - 1], lines[n])
    BY <1>8 DEF Solves
  <2>1. n \in 1 .. N /\ n - 1 \in 0 .. N
    BY <1>1
  <2>2. f[n - 1] \in D
    BY <1>8, <2>1
  <2> QED
    BY <1>6, <1>8, <2>1, <2>2 DEF Solves
<1>10. Is(f)
  BY <1>3, <1>9
<1>11. Is(step)
  BY <1>10
<1> HIDE DEF step
<1>12. /\ step[0] = <<>>
       /\ \A n \in 0 .. N : n # 0 => step[n] = Adds(step[n - 1], lines[n])
  BY <1>1, <1>3, <1>11
<1>13. \A n \in 0 .. N : step[n] \in D
  <2> DEFINE S == {n \in 0 .. N : step[n] \notin D}
  <2> SUFFICES ASSUME S # {} PROVE FALSE
    OBVIOUS
  <2>1. PICK n \in S : \A k \in S : n <= k
    <3> HIDE DEF S
    <3>1. S \subseteq Nat
      BY DEF S
    <3> QED
      BY <3>1, LeastExists
  <2>2. n # 0
    BY <1>7, <1>12
  <2>3. n - 1 \in 0 .. N /\ n - 1 \notin S /\ n \in 1 .. N
    BY <1>1, <2>1, <2>2
  <2>4. step[n] = Adds(step[n - 1], lines[n]) /\ step[n - 1] \in D
    BY <1>12, <2>2, <2>3
  <2> QED
    BY <1>4, <2>3, <2>4
<1> QED
  BY <1>1, <1>2, <1>13 DEF D

(***************************************************************************)
(* A word on a line names the component it is the name or the alias of.    *)
(***************************************************************************)
LEMMA WordsNameComponents ==
    ASSUME NEW components \in Seq(Components), AliasesAreNoNames(components),
           NEW word, word # None, NEW j \in DOMAIN components
    PROVE  FindComponent(components, word) = j <=> word \in Called(components[j])
<1> DEFINE aliased == {k \in DOMAIN components : components[k].alias = word}
           named == {k \in DOMAIN components : components[k].name = word}
<1>1. DOMAIN components \subseteq Nat /\ \A k \in DOMAIN components : k # None
  BY RulesAssumption
<1>2. \A k \in DOMAIN components : word \in Called(components[k]) <=> k \in aliased \cup named
  BY DEF Called
<1>3. \A k, l \in aliased \cup named : k = l
  BY <1>2 DEF AliasesAreNoNames
<1>4. aliased \subseteq DOMAIN components /\ named \subseteq DOMAIN components
  OBVIOUS
<1>5. FindComponent(components, word) =
        IF FirstPosition(aliased) # None THEN FirstPosition(aliased) ELSE FirstPosition(named)
  BY DEF FindComponent
<1> HIDE DEF aliased, named
<1>6. ASSUME NEW found, found \subseteq DOMAIN components, \A k, l \in found : k = l, found # {}
      PROVE  FirstPosition(found) \in found
  <2>1. PICK k \in found : TRUE
    BY <1>6
  <2>2. k <= k
    BY <1>1, <1>6
  <2>3. \A l \in found : k <= l
    BY <1>6, <2>2
  <2> QED
    BY <1>6, <2>3 DEF FirstPosition
<1>7. FirstPosition({}) = None
  BY DEF FirstPosition
<1>8. CASE aliased # {}
  <2>1. FirstPosition(aliased) \in aliased /\ FirstPosition(aliased) # None
    BY <1>1, <1>3, <1>4, <1>6, <1>8
  <2> QED
    BY <1>2, <1>3, <1>5, <2>1
<1>9. CASE aliased = {} /\ named # {}
  <2>1. FirstPosition(named) \in named
    BY <1>3, <1>4, <1>6, <1>9
  <2> QED
    BY <1>2, <1>3, <1>5, <1>7, <1>9, <2>1
<1>10. CASE aliased = {} /\ named = {}
  BY <1>1, <1>2, <1>5, <1>7, <1>10
<1> QED
  BY <1>8, <1>9, <1>10

(***************************************************************************)
(* The diagram has a dependency of two components iff an arrow is drawn.   *)
(***************************************************************************)
ArrowDrawn(lines, components, j, k) ==
    \E l \in Elements(lines) :
        /\ l.kind = "arrow"
        /\ \E w \in l.arrows : w[1] \in Called(components[j]) /\ w[2] \in Called(components[k])

LEMMA ArrowsAreParsed ==
    ASSUME NEW lines \in Seq(Lines), NEW components \in Seq(Components), AliasesAreNoNames(components),
           NEW j \in DOMAIN components, NEW k \in DOMAIN components
    PROVE  <<j, k>> \in ParsedDependencies(lines, components) <=> ArrowDrawn(lines, components, j, k)
<1> DEFINE Find(word) == FindComponent(components, word)
           arrows == UNION {line.arrows : line \in {l \in Elements(lines) : l.kind = "arrow"}}
<1>1. \A w : w \in arrows <=> \E l \in Elements(lines) : l.kind = "arrow" /\ w \in l.arrows
  OBVIOUS
<1>2. \A l \in Elements(lines) : l \in Lines
  BY DEF Elements
<1>3. \A w \in arrows : w[1] # None /\ w[2] # None
  BY <1>1, <1>2, RulesAssumption
<1>4. \A w \in arrows : /\ Find(w[1]) = j <=> w[1] \in Called(components[j])
                        /\ Find(w[2]) = k <=> w[2] \in Called(components[k])
  BY <1>3, WordsNameComponents
<1>5. j # None /\ k # None
  BY RulesAssumption
<1>6. <<j, k>> \in ParsedDependencies(lines, components) <=>
        \E w \in arrows : Find(w[1]) = j /\ Find(w[2]) = k
  BY <1>5 DEF ParsedDependencies
<1> HIDE DEF Find, arrows
<1>7. ArrowDrawn(lines, components, j, k) <=>
        \E w \in arrows : w[1] \in Called(components[j]) /\ w[2] \in Called(components[k])
  BY <1>1 DEF ArrowDrawn
<1> QED
  BY <1>4, <1>6, <1>7

(***************************************************************************)
(* What is reported for the items of one component.                        *)
(***************************************************************************)
ReportsAsNotDrawn(result, d) == \E v \in result : v.what = "not drawn" /\ v.dependency = d

NoArrowFor(lines, components, d) ==
    \A j \in AssociatedComponents(components, d[1]), k \in AssociatedComponents(components, d[2]) :
        j # k /\ ~ArrowDrawn(lines, components, j, k)

LEMMA DiagramReports ==
    ASSUME NEW diagram, diagram.lines \in Seq(Lines), diagram.considering.only = "all",
           NEW C \in SUBSET Items, NEW deps \in SUBSET AllDependencies,
           ~EvaluateDiagram(diagram, C, deps).panicked,
           NEW components, components = ParsedComponents(diagram.lines), AliasesAreNoNames(components),
           NEW d \in deps \ diagram.irrelevant, d[1] \in C,
           Cardinality(AssociatedComponents(components, d[1])) = 1
    PROVE  ReportsAsNotDrawn(EvaluateDiagram(diagram, C, deps).violations, d) <=>
           NoArrowFor(diagram.lines, components, d)
<1> DEFINE lines == diagram.lines
           Of(i) == AssociatedComponents(components, i)
           ignored == diagram.irrelevant \cup IgnoredByConfiguration(diagram.considering, components)
           V == EvaluateDiagram(diagram, C, deps).violations
           Checked(i) == CheckDiagram(lines, components, ignored, i, deps)
           Allowed2(j) == AllowedPackageIdentifiers(lines, components, j)
<1>1. V = UNION {Checked(i) : i \in C}
  BY DEF EvaluateDiagram
<1>2. ignored = diagram.irrelevant
  BY DEF IgnoredByConfiguration
<1>3. components \in Seq(Components)
  BY ComponentsAreParsed
<1>4. PICK j : Of(d[1]) = {j}
  <2>1. Of(d[1]) \subseteq DOMAIN components
    BY DEF AssociatedComponents
  <2>2. DOMAIN components = 1 .. Len(components) /\ Len(components) \in Nat
    BY <1>3
  <2>3. IsFiniteSet(DOMAIN components)
    BY <2>2, FS_Interval
  <2>4. IsFiniteSet(Of(d[1]))
    BY <2>1, <2>3, FS_Subset
  <2> HIDE DEF Of
  <2> QED
    BY <2>4, FS_Singleton DEF Of
<1>5. j \in DOMAIN components
  BY <1>4 DEF AssociatedComponents
<1>6. \A k : k \in Of(d[2]) <=> k \in DOMAIN components /\ d[2] \in ResideIn(components[k].stereotypes)
  BY DEF AssociatedComponents
<1>7. d[2] \in ResideIn(Allowed2(j)) <=>
        \E k \in Of(d[2]) : j = k \/ <<j, k>> \in ParsedDependencies(lines, components)
  <2>1. \A s : s \in Allowed2(j) <=>
            \E k \in DOMAIN components :
                /\ s \in components[k].stereotypes
                /\ j = k \/ <<j, k>> \in ParsedDependencies(lines, components)
    BY <1>5 DEF AllowedPackageIdentifiers
  <2>2. \A P : d[2] \in ResideIn(P) <=> \E s \in P : d[2] \in Resides[s]
    BY DEF ResideIn
  <2> HIDE DEF Allowed2, Of
  <2> QED
    BY <1>6, <2>1, <2>2
<1>8. \A k \in Of(d[2]) : <<j, k>> \in ParsedDependencies(lines, components) <=> ArrowDrawn(lines, components, j, k)
  BY <1>3, <1>5, <1>6, ArrowsAreParsed
<1> DEFINE R == OnlyHaveDependenciesWhere({d[1]}, DependencyTarget(ResideIn(Allowed2(j))) \cup ignored, deps)
<1>9. Checked(d[1]) = {Violation("not drawn", d[1], e) : e \in R}
  <2>1. d \in DependenciesFromSelf(deps, d[1]) /\ d \notin ignored
    BY <1>2 DEF DependenciesFromSelf
  <2>2. ~(DependenciesFromSelf(deps, d[1]) \subseteq ignored)
    BY <2>1
  <2>3. (CHOOSE k \in Of(d[1]) : TRUE) = j
    BY <1>4
  <2>4. Of(d[1]) # {} /\ ~(Cardinality(Of(d[1])) > 1)
    BY <1>4
  <2> HIDE DEF ignored
  <2> QED
    BY <2>2, <2>3, <2>4 DEF CheckDiagram
<1>10. d \in R <=> d[2] \notin ResideIn(Allowed2(j))
  BY <1>2 DEF OnlyHaveDependenciesWhere, DependenciesFromSelf, DependencyTarget
<1> HIDE DEF V, Checked, ignored, Allowed2, Of, lines, R
<1>11. (\E v \in V : v.what = "not drawn" /\ v.dependency = d) <=> d[2] \notin ResideIn(Allowed2(j))
  <2>1. ASSUME NEW v \in V, v.what = "not drawn", v.dependency = d
        PROVE  d[2] \notin ResideIn(Allowed2(j))
    <3>1. PICK i \in C : v \in Checked(i)
      BY <1>1
    <3> DEFINE P == DependencyTarget(ResideIn(AllowedPackageIdentifiers(lines, components,
                        CHOOSE k \in AssociatedComponents(components, i) : TRUE))) \cup ignored
    <3>2. PICK e \in OnlyHaveDependenciesWhere({i}, P, deps) : v = Violation("not drawn", i, e)
      <4>1. \/ v = Violation("in no component", i, None)
            \/ v = Violation("in several components", i, None)
            \/ \E e \in OnlyHaveDependenciesWhere({i}, P, deps) : v = Violation("not drawn", i, e)
        BY <3>1 DEF CheckDiagram, Checked
      <4>2. \A what : (Violation(what, i, None)).what = what
        BY DEF Violation
      <4>3. v # Violation("in no component", i, None)
        BY <2>1, <4>2
      <4>4. v # Violation("in several components", i, None)
        BY <2>1, <4>2
      <4> QED
        BY <4>1, <4>3, <4>4
    <3>3. e = d /\ i = d[1]
      BY <2>1, <3>2 DEF Violation, OnlyHaveDependenciesWhere, DependenciesFromSelf
    <3>4. PICK f \in R : v = Violation("not drawn", d[1], f)
      <4>1. v \in Checked(d[1])
        BY <3>1, <3>3
      <4> QED
        BY <1>9, <4>1
    <3>5. f = d
      <4>1. (Violation("not drawn", d[1], f)).dependency = f
        BY DEF Violation
      <4> QED
        BY <2>1, <3>4, <4>1
    <3> QED
      BY <1>10, <3>4, <3>5
  <2>2. ASSUME d[2] \notin ResideIn(Allowed2(j))
        PROVE  \E v \in V : v.what = "not drawn" /\ v.dependency = d
    <3>1. Violation("not drawn", d[1], d) \in Checked(d[1])
      BY <1>9, <1>10, <2>2
    <3>2. Violation("not drawn", d[1], d) \in V
      BY <1>1, <3>1
    <3> QED
      BY <3>2 DEF Violation
  <2> QED
    BY <2>1, <2>2
<1>12. d[2] \notin ResideIn(Allowed2(j)) <=>
        \A k \in Of(d[2]) : j # k /\ ~ArrowDrawn(lines, components, j, k)
  BY <1>7, <1>8
<1> QED
  BY <1>4, <1>11, <1>12 DEF V, Of, lines, ReportsAsNotDrawn, NoArrowFor

(***************************************************************************)
(* The rule about a diagram: its lines are written one by one.             *)
(***************************************************************************)
AllDiagrams ==
    [lines : Seq(Lines), considering : Considering, irrelevant : SUBSET AllDependencies]

DiagramWritten == kind = "diagram" => rule \in AllDiagrams

LEMMA InitDiagram == Init => DiagramWritten
<1> SUFFICES ASSUME Init, kind = "diagram" PROVE rule \in AllDiagrams
  BY DEF DiagramWritten
<1>1. PICK c \in Considering : rule = [lines |-> <<>>, considering |-> c, irrelevant |-> {}]
  BY DEF Init, NewRules
<1>2. <<>> \in Seq(Lines)
  OBVIOUS
<1> QED
  BY <1>1, <1>2 DEF AllDiagrams

LEMMA NextDiagram == Judged /\ DiagramWritten /\ [Next]_vars => DiagramWritten'
<1> SUFFICES ASSUME Judged, DiagramWritten, [Next]_vars, kind' = "diagram"
             PROVE  rule' \in AllDiagrams
  BY DEF DiagramWritten
<1>1. kind = "diagram"
  BY NextWritesOrJudges DEF Writes, Evaluate, vars
<1>2. rule \in AllDiagrams
  BY <1>1 DEF DiagramWritten
<1>3. CASE WriteLine
  <2>1. PICK l \in Lines : rule' = [rule EXCEPT !.lines = Append(rule.lines, l)]
    BY <1>3 DEF WriteLine
  <2>2. rule.lines \in Seq(Lines)
    BY <1>2 DEF AllDiagrams
  <2>3. Append(rule.lines, l) \in Seq(Lines)
    BY <2>2
  <2> QED
    BY <1>2, <2>1, <2>3 DEF AllDiagrams
<1>4. CASE IgnoreDependencyWhere
  <2>1. PICK P \in IgnoredSets : rule' = [rule EXCEPT !.irrelevant = rule.irrelevant \cup P]
    BY <1>4 DEF IgnoreDependencyWhere, Say
  <2>2. P \in SUBSET AllDependencies
    BY RulesAssumption
  <2> QED
    BY <1>2, <2>1, <2>2 DEF AllDiagrams
<1>5. CASE Evaluate
  BY <1>2, <1>5 DEF Evaluate
<1>6. CASE UNCHANGED vars
  BY <1>2, <1>6 DEF vars
<1>7. WriteLine \/ IgnoreDependencyWhere \/ Evaluate \/ UNCHANGED vars
  BY <1>1 DEF Next, Writing, DefinedBy, WhereLayer, DefineOnion, DefineModuleBy, ModulesDefinedByPackages,
              NamingModules, WhereModule, ThroughItemsThat, ModulesShouldBeFreeOfCycles, RestrictSlices,
              SlicesShould, AllowEmptyShould, WithOptional, EnsureAllItemsAreContained
<1> QED
  BY <1>3, <1>4, <1>5, <1>6, <1>7

LEMMA DiagramAsDrawn == Judged /\ DiagramWritten => DiagramIsDrawn
<1> DEFINE components == ParsedComponents(rule.lines)
           Of(i) == AssociatedComponents(components, i)
<1> SUFFICES ASSUME Judged, DiagramWritten, outcome = "evaluated", kind = "diagram",
                    rule.considering.only = "all", AliasesAreNoNames(components),
                    NEW d \in dependencies \ rule.irrelevant, d[1] \in checked, Cardinality(Of(d[1])) = 1
             PROVE  d \in Dependencies("not drawn") <=>
                      \A j \in Of(d[1]), k \in Of(d[2]) : j # k /\ ~ArrowDrawn(rule.lines, components, j, k)
  BY DEF DiagramIsDrawn, Evaluated, ArrowDrawn
<1>1. rule.lines \in Seq(Lines)
  BY DEF DiagramWritten, AllDiagrams
<1>2. /\ checked \in SUBSET Items /\ dependencies \in SUBSET AllDependencies
      /\ ~Judgement.panicked /\ violations = Judgement.violations
      /\ Judgement = EvaluateDiagram(rule, checked, dependencies)
  BY DEF Judged, Judgement, EvaluateRule
<1>3. d \in Dependencies("not drawn") <=> \E v \in violations : v.what = "not drawn" /\ v.dependency = d
  BY DEF Dependencies
<1> HIDE DEF components
<1>4. components = ParsedComponents(rule.lines)
  BY DEF components
<1>5. ~EvaluateDiagram(rule, checked, dependencies).panicked
  BY <1>2
<1>6. ReportsAsNotDrawn(EvaluateDiagram(rule, checked, dependencies).violations, d) <=>
      NoArrowFor(rule.lines, components, d)
  BY <1>1, <1>2, <1>4, <1>5, DiagramReports
<1> QED
  BY <1>2, <1>3, <1>6 DEF ReportsAsNotDrawn, NoArrowFor

(***************************************************************************)
(* A dependency of an item in one component is reported iff no arrow of    *)
(* the diagram stands for it, whatever lines the diagram is made of.       *)
(***************************************************************************)
THEOREM DiagramsAreAsDrawn == Spec => []DiagramIsDrawn
<1>1. Init => Judged /\ DiagramWritten
  BY InitJudged, InitDiagram
<1>2. (Judged /\ DiagramWritten) /\ [Next]_vars => (Judged /\ DiagramWritten)'
  BY NextJudged, NextDiagram
<1>3. Judged /\ DiagramWritten => DiagramIsDrawn
  BY DiagramAsDrawn
<1> QED
  BY <1>1, <1>2, <1>3, PTL DEF Spec
=============================================================================
