------------------------------ MODULE ArchRules ------------------------------
(***************************************************************************)
(* A rule is written with the fluent syntax, evaluated, filtered and       *)
(* asserted: src/src/lang/syntax, src/src/lang/rule.rs and                 *)
(* src/src/lang/evaluation.rs.                                             *)
(*                                                                         *)
(* `said` records the words of the rules as they are written; it is what   *)
(* the properties read, no action depends on it but for the bounds.        *)
(***************************************************************************)
EXTENDS ArchConditions

CONSTANTS
    Objects,        \* the imported items that rules select from, as a sequence
    Predicates,     \* predicates: the sets of objects they hold for
    Conditions,     \* the conditions as they may be said: predefined or never(..) of one
    PatternSets,    \* what archunit_ignore_patterns.txt may hold
    FilterSets,     \* what filter_descriptions_matching may be asked to drop
    MaxWords,       \* bound: words (predicates and conditions) of all the rules
    MaxRules,       \* bound: rules of a composite rule
    None

ASSUME RulesAssumption ==
    /\ Objects \in Seq(Items)
    /\ Predicates \subseteq SUBSET ToSet(Objects)
    /\ Conditions \subseteq {Leaf(l) : l \in Leaves} \cup {Never(Leaf(l)) : l \in Leaves}
    /\ \A ignored \in PatternSets \cup FilterSets : ignored \subseteq Pattern
    /\ MaxWords \in Nat /\ MaxRules \in Nat \ {0}
    /\ Nesting >= MaxWords + 4
    /\ (\A S \in SUBSET ToSet(Objects) : None # S) /\ None \notin Condition

VARIABLES
    patterns,   \* the ignore patterns in force when the rules were evaluated
    negated,    \* whether the rule being written started with no_..()
    given,      \* its PredicateAggregator: predicate and mode
    condition,  \* its ConditionAggregator, None before should()
    said,       \* the words of the rule being written
    words,      \* the number of words of all rules
    rules,      \* the finished rules
    outcome,    \* "open", "panicked" or "evaluated", then "filtered", "passed" or "failed"
    result,     \* the violations of the EvaluationResult
    filtered    \* what filter_descriptions_matching dropped

vars == <<patterns, negated, given, condition, said, words, rules, outcome, result, filtered>>

NoPredicate == [predicate |-> None, mode |-> "and"]

Word(connective, c) == [connective |-> connective, of |-> c]
NothingSaid == [that |-> <<>>, should |-> <<>>]

Init ==
    /\ patterns = {}
    /\ negated \in BOOLEAN
    /\ given = NoPredicate
    /\ condition = None
    /\ said = NothingSaid
    /\ words = 0
    /\ rules = <<>>
    /\ outcome = "open"
    /\ result = <<>>
    /\ filtered = {}

-----------------------------------------------------------------------------
(***************************************************************************)
(* that(), and(), or(): PredicateAggregator::add, in the mode that the     *)
(* last and() or or() set.                                                 *)
(***************************************************************************)
AddPredicate(aggregator, p) ==
    [aggregator EXCEPT !.predicate =
        IF @ = None THEN p
        ELSE IF aggregator.mode = "and" THEN @ \cap p
        ELSE @ \cup p]

(***************************************************************************)
(* One more word may be said (the bounds MaxRules and MaxWords).           *)
(***************************************************************************)
MaySay ==
    /\ outcome = "open"
    /\ Len(rules) < MaxRules
    /\ words < MaxWords

RestrictObjects(aggregator, connective, p) ==
    /\ MaySay
    /\ condition = None
    /\ given' = AddPredicate(aggregator, p)
    /\ said' = [said EXCEPT !.that = Append(@, Word(connective, p))]
    /\ words' = words + 1
    /\ UNCHANGED <<patterns, negated, condition, rules, outcome, result, filtered>>

That(p) == given.predicate = None /\ RestrictObjects(given, "and", p)
And(p) == given.predicate # None /\ RestrictObjects([given EXCEPT !.mode = "and"], "and", p)
Or(p) == given.predicate # None /\ RestrictObjects([given EXCEPT !.mode = "or"], "or", p)

(***************************************************************************)
(* ConditionAggregator::add.                                               *)
(***************************************************************************)
AddCondition(first, connective, second) == Join(connective = "and", first, second)

Should(c) ==
    /\ MaySay
    /\ condition = None
    /\ condition' = c
    /\ said' = [said EXCEPT !.should = Append(@, Word("and", c))]
    /\ words' = words + 1
    /\ UNCHANGED <<patterns, negated, given, rules, outcome, result, filtered>>

ShouldAlso(connective, c) ==
    /\ MaySay
    /\ condition # None
    /\ condition' = AddCondition(condition, connective, c)
    /\ said' = [said EXCEPT !.should = Append(@, Word(connective, c))]
    /\ words' = words + 1
    /\ UNCHANGED <<patterns, negated, given, rules, outcome, result, filtered>>

AndShould(c) == ShouldAlso("and", c)
OrShould(c) == ShouldAlso("or", c)

(***************************************************************************)
(* negate(): no_..() wraps the whole condition once it is complete.        *)
(***************************************************************************)
Prepare(c) == IF negated THEN Never(c) ELSE c

\* finished_transformer: all objects without a predicate.
Selected ==
    At(Objects, {i \in DOMAIN Objects : given.predicate = None \/ Objects[i] \in given.predicate})

(***************************************************************************)
(* finished_rule.  The rule may check nothing when `allowed`: allow_empty_ *)
(* should(..), else the configuration.  A composite rule may follow with   *)
(* another rule (CompositeArchRule::and).                                  *)
(***************************************************************************)
Finish(allowed) ==
    /\ outcome = "open"
    /\ condition # None
    /\ rules' = Append(rules, [objects |-> Selected, condition |-> Prepare(condition),
                               vacuous |-> Selected = <<>> /\ ~allowed,
                               said |-> said, negated |-> negated])
    /\ negated' \in IF Len(rules) + 1 < MaxRules THEN BOOLEAN ELSE {FALSE}
    /\ given' = NoPredicate
    /\ condition' = None
    /\ said' = NothingSaid
    /\ UNCHANGED <<patterns, words, outcome, result, filtered>>

-----------------------------------------------------------------------------
FilterEvents(violations, ignored) ==
    LET events == [i \in DOMAIN violations |-> FilteredEvent(violations[i], ignored)] IN
    At(events, {i \in DOMAIN events : IsViolation[events[i]]})

(***************************************************************************)
(* EvaluationResult::new: nothing is filtered without patterns.            *)
(***************************************************************************)
ApplyIgnorePatterns(violations, ignored) ==
    IF ignored = {} THEN violations ELSE FilterEvents(violations, ignored)

Evaluated(r, ignored) ==
    ApplyIgnorePatterns(EvaluateAll(r.condition, r.objects).violating, ignored)

(***************************************************************************)
(* evaluate: the rules of a composite rule one by one, their violations    *)
(* collected.  A rule that checks nothing panics unless it may.            *)
(***************************************************************************)
Evaluate ==
    /\ outcome = "open"
    /\ said = NothingSaid /\ rules # <<>>
    /\ \/ /\ \E i \in DOMAIN rules : rules[i].vacuous
          /\ outcome' = "panicked"
          /\ UNCHANGED <<patterns, result>>
       \/ /\ \A i \in DOMAIN rules : ~rules[i].vacuous
          /\ outcome' = "evaluated"
          /\ \E ignored \in PatternSets :
                /\ patterns' = ignored
                /\ result' = FlattenSeq([i \in DOMAIN rules |-> Evaluated(rules[i], ignored)])
    /\ UNCHANGED <<negated, given, condition, said, words, rules, filtered>>

(***************************************************************************)
(* filter_descriptions_matching, as a frozen rule uses it to keep its new  *)
(* violations.                                                             *)
(***************************************************************************)
Filter(dropped) ==
    /\ outcome = "evaluated"
    /\ result' = FilterEvents(result, dropped)
    /\ filtered' = dropped
    /\ outcome' = "filtered"
    /\ UNCHANGED <<patterns, negated, given, condition, said, words, rules>>

\* The lines of failure_report, which sorts them.
FailureReport == FlattenSeq(Each(DescriptionLines, result))

(***************************************************************************)
(* assert_no_violation panics with the report unless the report is empty.  *)
(***************************************************************************)
AssertNoViolation ==
    /\ outcome \in {"evaluated", "filtered"}
    /\ outcome' = IF FailureReport = <<>> THEN "passed" ELSE "failed"
    /\ UNCHANGED <<patterns, negated, given, condition, said, words, rules, result, filtered>>

Next ==
    \/ \E p \in Predicates : That(p) \/ And(p) \/ Or(p)
    \/ \E c \in Conditions : Should(c) \/ AndShould(c) \/ OrShould(c)
    \/ \E allowed \in BOOLEAN : Finish(allowed)
    \/ Evaluate
    \/ \E dropped \in FilterSets : Filter(dropped)
    \/ AssertNoViolation

Spec == Init /\ [][Next]_vars

-----------------------------------------------------------------------------
(***************************************************************************)
(* The objects for which the words hold, read from left to right, and the  *)
(* objects a condition holds for.                                          *)
(***************************************************************************)
Meaning(sentence) ==
    LET after[i \in 0..Len(sentence)] ==
            IF i = 0 THEN ToSet(Objects)
            ELSE IF sentence[i].connective = "and" THEN after[i - 1] \cap sentence[i].of
            ELSE after[i - 1] \cup sentence[i].of
    IN after[Len(sentence)]

LeafOf(c) == IF c.kind = "never" THEN c.of.leaf ELSE c.leaf

LeafHolds(l, o) ==
    IF LeafKind[l] = "any" THEN ToSet(Attributes[l][o]) \cap Satisfying[l] # {}
    ELSE ToSet(Attributes[l][o]) \subseteq Satisfying[l]

HoldsFor(c) == {o \in ToSet(Objects) : LeafHolds(LeafOf(c), o) = (c.kind # "never")}

Demanded(sentence) ==
    Meaning([i \in DOMAIN sentence |-> Word(sentence[i].connective, HoldsFor(sentence[i].of))])

Says(r, o) == o \in Meaning(r.said.that) => (o \in Demanded(r.said.should)) # r.negated

(***************************************************************************)
(* A leaf that decides every object: it leaves an event for each.          *)
(***************************************************************************)
Decides(l) ==
    /\ LeafKind[l] # "count"
    /\ \A o \in ToSet(Objects) :
          IF LeafKind[l] = "events" THEN Len(Attributes[l][o]) = 1 ELSE Attributes[l][o] # <<>>

Decided(r) == \A i \in DOMAIN r.said.should : Decides(LeafOf(r.said.should[i].of))

Asserted == outcome \in {"passed", "failed"}

(***************************************************************************)
(* The verdict is what the sentence says: read from left to right, or of   *)
(* `or` and `and`, with no_..() negating all of it, `assert_no_violation`  *)
(* accepts the objects exactly when the sentence holds for each, if every  *)
(* condition decides every object and nothing is ignored.  De Morgan has   *)
(* to work out in the events: `never` never sees the conditions again.     *)
(***************************************************************************)
VerdictIsTheSentence ==
    Asserted /\ patterns = {} /\ filtered = {}
             /\ (\A i \in DOMAIN rules : Decided(rules[i])) =>
        (outcome = "passed") =
            \A i \in DOMAIN rules : \A o \in ToSet(Objects) : Says(rules[i], o)

(***************************************************************************)
(* check() panics exactly when has_violation() says so: the one looks at   *)
(* the lines of the report, the other at the events, and events are        *)
(* filtered by their lines on the way.                                     *)
(***************************************************************************)
ReportMatchesVerdict == Asserted => (outcome = "failed") = (result # <<>>)

(***************************************************************************)
(* A violation handler is told what the report says, after any filtering:  *)
(* the messages of handle_all_violations are the lines of the report.      *)
(***************************************************************************)
HandledIsReported ==
    outcome \in {"evaluated", "filtered"} =>
        {call.message : call \in ToSet(FlattenSeq(Each(Handled, result)))} = ToSet(FailureReport)

(***************************************************************************)
(* Negating twice changes nothing: the event keeps its verdict, its lines  *)
(* and what it hands to handlers (the order of the events aside).          *)
(***************************************************************************)
NegatedTwice(e) ==
    LET twice == Invert[Invert[e]] IN
    /\ IsViolation[twice] = IsViolation[e]
    /\ ToSet(DescriptionLines[twice]) = ToSet(DescriptionLines[e])
    /\ ToSet(Handled[twice]) = ToSet(Handled[e])

DoubleNegation ==
    condition # None =>
        \A o \in ToSet(Objects) :
            \A e \in ToSet(AllEvents(Check(condition, o))) : NegatedTwice(e)
=============================================================================
