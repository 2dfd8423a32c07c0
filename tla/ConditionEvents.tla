--------------------------- MODULE ConditionEvents ---------------------------
(***************************************************************************)
(* The events a condition leaves when it checks an object, and their       *)
(* algebra: src/src/lang/events.rs and the filtered events of              *)
(* src/src/lang/evaluation.rs.                                             *)
(*                                                                         *)
(* A text is the sequence of its pieces: the words of a message, the line  *)
(* break "\n" and the infix " and ", which the code puts between texts.    *)
(* The methods of the trait ConditionEvent that call each other through    *)
(* the events an event holds are functions on the set of all events.       *)
(***************************************************************************)
EXTENDS Naturals, SequencesExt

CONSTANTS
    Items,   \* what is imported and checked
    Nesting  \* bound: how deep events hold events

ASSUME NestingAssumption == Nesting \in Nat

Newline == 0
AndInfix == 1
Text == Seq(Nat)

\* The texts with a separator between them.
Joined(separator, texts) ==
    FlattenSeq([i \in DOMAIN texts |-> IF i = 1 THEN texts[1] ELSE <<separator>> \o texts[i]])

\* The function f for each member of s; the members of s at the positions in I.
Each(f, s) == [i \in DOMAIN s |-> f[s[i]]]
At(s, I) == FlattenSeq([i \in DOMAIN s |-> IF i \in I THEN <<s[i]>> ELSE <<>>])

-----------------------------------------------------------------------------
(***************************************************************************)
(* The events.  An event of `any` or `only` is about the attributes of one *)
(* object (its accesses, its dependencies), an event of `and` or `or`      *)
(* keeps what each of the joined conditions found for the object; a        *)
(* filtered event keeps the lines of another that no pattern ignores.  An  *)
(* attribute or a number is the word it is described by.                   *)
(***************************************************************************)
Things == Items \cup Nat
Pattern == [word : Nat, whole : BOOLEAN]

SimpleEvents == [kind : {"simple"}, object : Things, satisfied : BOOLEAN, message : Text]

\* ConditionEvents: what was found, satisfied and violated apart.
Found(inner) == [allowed : Seq(inner), violating : Seq(inner)]

Holding(inner) ==
    [kind : {"any", "only"}, objects : Seq(Things), allowed : Seq(inner), violating : Seq(inner)]
        \cup [kind : {"and", "or"}, object : Things, evaluated : Seq(Found(inner))]
        \cup [kind : {"filtered"}, delegate : inner, patterns : SUBSET Pattern, lines : Seq(Text)]

\* The events of at most n levels.
Nested[n \in 0..Nesting] == SimpleEvents \cup (IF n = 0 THEN {} ELSE Holding(Nested[n - 1]))

Event == Nested[Nesting]

SimpleEvent(object, satisfied, message) ==
    [kind |-> "simple", object |-> object, satisfied |-> satisfied, message |-> message]

AttributesEvent(kind, objects, allowed, violating) ==
    [kind |-> kind, objects |-> objects, allowed |-> allowed, violating |-> violating]

JoinEvent(kind, object, evaluated) == [kind |-> kind, object |-> object, evaluated |-> evaluated]

ContainViolation(events) == events.violating # <<>>

\* Mutant of FilteredViolated: a filtered event stays a violation without any line.
FilteredStays(e) == TRUE

AnyViolated(e) == e.allowed = <<>>
OnlyViolated(e) == e.violating # <<>>
AndViolated(e) == \E i \in DOMAIN e.evaluated : ContainViolation(e.evaluated[i])
OrViolated(e) == \A i \in DOMAIN e.evaluated : ContainViolation(e.evaluated[i])
FilteredViolated(e) == e.lines # <<>>

(***************************************************************************)
(* ConditionEvent::is_violation, a method that asks the event it filters.  *)
(* The body of such a method is an operator of the method and the event.   *)
(***************************************************************************)
Violated(isViolation, e) ==
    CASE e.kind = "simple" -> ~e.satisfied
      [] e.kind = "any" -> AnyViolated(e)
      [] e.kind = "only" -> OnlyViolated(e)
      [] e.kind = "and" -> AndViolated(e)
      [] e.kind = "or" -> OrViolated(e)
      [] e.kind = "filtered" -> isViolation[e.delegate] /\ FilteredViolated(e)

IsViolation[e \in Event] == Violated(IsViolation, e)

NoEvents == [allowed |-> <<>>, violating |-> <<>>]

\* ConditionEvents::add for each of the events es.
AddEvents(events, es) ==
    LET violated == {i \in DOMAIN es : IsViolation[es[i]]} IN
    [allowed |-> events.allowed \o At(es, DOMAIN es \ violated),
     violating |-> events.violating \o At(es, violated)]

\* into_all_events, and the order in which add_all_inverted takes them.
AllEvents(events) == events.allowed \o events.violating

-----------------------------------------------------------------------------
(***************************************************************************)
(* description_lines: the lines reported for an event.  One line of `any`  *)
(* holds all its attributes, with line breaks; one line of `or` holds what *)
(* each of its conditions complains about.  Which order the lines of joined *)
(* conditions are sorted into is left open.                                *)
(***************************************************************************)
Unique(texts) == SetToSeq(ToSet(texts))

OrLines(lines) == <<Joined(AndInfix, lines)>>

LinesOf(lines, events) == FlattenSeq(Each(lines, events.violating))

UniqueLinesOfViolations(lines, evaluated) ==
    Unique(FlattenSeq([i \in DOMAIN evaluated |-> LinesOf(lines, evaluated[i])]))

Described(lines, e) ==
    CASE e.kind = "simple" -> <<e.message>>
      [] e.kind = "any" -> <<Joined(Newline, LinesOf(lines, e))>>
      [] e.kind = "only" -> LinesOf(lines, e)
      [] e.kind = "and" -> UniqueLinesOfViolations(lines, e.evaluated)
      [] e.kind = "or" -> OrLines(UniqueLinesOfViolations(lines, e.evaluated))
      [] e.kind = "filtered" -> e.lines

DescriptionLines[e \in Event] == Described(DescriptionLines, e)

(***************************************************************************)
(* Ignore patterns.  A pattern matches a whole line; `.` does not match a  *)
(* line break, so the breaks of a line are replaced by spaces first.  A    *)
(* pattern .*w.* is modelled by [word |-> w, whole |-> FALSE], the pattern *)
(* w by [word |-> w, whole |-> TRUE].                                      *)
(***************************************************************************)
Ignored(text, patterns) ==
    \E p \in patterns : IF p.whole THEN text = <<p.word>> ELSE Contains(text, p.word)

LinesNotIgnored(lines, patterns) ==
    At(lines, {i \in DOMAIN lines : ~Ignored(lines[i], patterns)})

FilteredEvent(e, patterns) ==
    [kind |-> "filtered", delegate |-> e, patterns |-> patterns,
     lines |-> LinesNotIgnored(DescriptionLines[e], patterns)]

(***************************************************************************)
(* handle_with: the corresponding objects and the message handed to a      *)
(* violation handler.  A filtered event passes on what its patterns do not *)
(* match.                                                                  *)
(***************************************************************************)
Call(objects, message) == [objects |-> objects, message |-> message]

\* Mutant of HandledFiltered: the lines are filtered, what is handled is not.
HandledUnfiltered(calls, patterns) == calls

HandledFiltered(calls, patterns) ==
    At(calls, {i \in DOMAIN calls : ~Ignored(calls[i].message, patterns)})

HandledOf(handled, events) == FlattenSeq(Each(handled, events.violating))

HandledWith(handled, e) ==
    CASE e.kind = "simple" -> <<Call(<<e.object>>, e.message)>>
      [] e.kind = "any" -> <<Call(e.objects, DescriptionLines[e][1])>>
      [] e.kind = "only" -> HandledOf(handled, e)
      [] e.kind = "and" ->
            FlattenSeq([i \in DOMAIN e.evaluated |-> HandledOf(handled, e.evaluated[i])])
      [] e.kind = "or" -> <<Call(<<e.object>>, DescriptionLines[e][1])>>
      [] e.kind = "filtered" -> HandledFiltered(handled[e.delegate], e.patterns)

Handled[e \in Event] == HandledWith(Handled, e)

-----------------------------------------------------------------------------
\* Mutants: an inverted `and` stays an `and`; `any` keeps its attributes as they are.
AndInvertedToAnd(object, evaluated) == JoinEvent("and", object, evaluated)
AnyInvertedUnswapped(e) == AttributesEvent("only", e.objects, e.allowed, e.violating)

AnyInverted(e) == AttributesEvent("only", e.objects, e.violating, e.allowed)
OnlyInverted(e) == AttributesEvent("any", e.objects, e.violating, e.allowed)
AndInverted(object, evaluated) == JoinEvent("or", object, evaluated)
OrInverted(object, evaluated) == JoinEvent("and", object, evaluated)

(***************************************************************************)
(* ConditionEvent::invert.  `any` and `only` swap what they found without  *)
(* inverting it; the joined events invert each event found and sort it     *)
(* into satisfied and violated again.                                      *)
(***************************************************************************)
InvertAll(invert, evaluated) ==
    [i \in DOMAIN evaluated |-> AddEvents(NoEvents, Each(invert, AllEvents(evaluated[i])))]

Inverted(invert, e) ==
    CASE e.kind = "simple" -> [e EXCEPT !.satisfied = ~@]
      [] e.kind = "any" -> AnyInverted(e)
      [] e.kind = "only" -> OnlyInverted(e)
      [] e.kind = "and" -> AndInverted(e.object, InvertAll(invert, e.evaluated))
      [] e.kind = "or" -> OrInverted(e.object, InvertAll(invert, e.evaluated))
      [] e.kind = "filtered" -> FilteredEvent(invert[e.delegate], e.patterns)

Invert[e \in Event] == Inverted(Invert, e)

(***************************************************************************)
(* add_all_inverted: what `never` does with the events of its condition.   *)
(***************************************************************************)
AddAllInverted(events, other) == AddEvents(events, Each(Invert, AllEvents(other)))
=============================================================================
