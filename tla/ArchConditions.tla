---------------------------- MODULE ArchConditions ----------------------------
(***************************************************************************)
(* Conditions and how they are checked: ArchCondition, NeverLogic and      *)
(* JoinCondition of src/src/lang/condition.rs and the building blocks of   *)
(* src/src/lang/conditions/mod.rs.                                         *)
(*                                                                         *)
(* The predefined conditions differ in what they look at; they are built   *)
(* in five ways, the kinds of a leaf:                                      *)
(*   "predicate"  one event per object (be, have, does)                    *)
(*   "events"     an event per attribute of the object, possibly none      *)
(*   "any"        one event about all the attributes, none without one     *)
(*   "only"       the same, satisfied when all attributes are              *)
(*   "count"      one event about the number of objects, when finishing.   *)
(* An attribute (an access, a dependency, a constructor) is modelled by    *)
(* the word its description consists of.                                   *)
(***************************************************************************)
EXTENDS ConditionEvents, FiniteSets

CONSTANTS
    Leaves,      \* the predefined conditions in use
    LeafKind,    \* [Leaves -> kind]
    Attributes,  \* [Leaves -> [items -> sequence of attributes]]
    Satisfying,  \* [Leaves -> the attributes that satisfy the condition]
    MostElements \* the number of objects a "count" allows

ASSUME ConditionsAssumption ==
    /\ Leaves \subseteq Nat
    /\ LeafKind \in [Leaves -> {"predicate", "events", "any", "only", "count"}]
    /\ Attributes \in [Leaves -> [Items -> Seq(Nat)]]
    /\ Satisfying \in [Leaves -> SUBSET Nat]
    /\ MostElements \in Nat
    /\ \A l \in Leaves : LeafKind[l] = "predicate" => \A o \in Items : Len(Attributes[l][o]) = 1

(***************************************************************************)
(* Conditions: those of at most n levels.  `join` is built from two.       *)
(***************************************************************************)
Terms[n \in 0..Nesting] ==
    [kind : {"leaf"}, leaf : Leaves]
        \cup (IF n = 0 THEN {}
              ELSE [kind : {"never"}, of : Terms[n - 1]]
                       \cup [kind : {"join"}, isAnd : BOOLEAN, conditions : Seq(Terms[n - 1])])

Condition == Terms[Nesting]

Leaf(l) == [kind |-> "leaf", leaf |-> l]
Never(c) == [kind |-> "never", of |-> c]
Join(isAnd, first, second) == [kind |-> "join", isAnd |-> isAnd, conditions |-> <<first, second>>]

AttributeEvents(l, o) ==
    AddEvents(NoEvents,
              [i \in DOMAIN Attributes[l][o] |->
                  LET a == Attributes[l][o][i] IN SimpleEvent(a, a \in Satisfying[l], <<a>>)])

(***************************************************************************)
(* any_attribute_matches and all_attributes_match: no event without an     *)
(* attribute.                                                              *)
(***************************************************************************)
CheckAttributes(l, o) ==
    LET sub == AttributeEvents(l, o) IN
    IF sub = NoEvents THEN NoEvents
    ELSE AddEvents(NoEvents,
                   <<AttributesEvent(LeafKind[l], Attributes[l][o], sub.allowed, sub.violating)>>)

CheckLeaf(l, o) ==
    CASE LeafKind[l] \in {"predicate", "events"} -> AttributeEvents(l, o)
      [] LeafKind[l] \in {"any", "only"} -> CheckAttributes(l, o)
      [] LeafKind[l] = "count" -> NoEvents

(***************************************************************************)
(* check: the events of a condition for one object.                        *)
(***************************************************************************)
CheckedBy(check, c, o) ==
    CASE c.kind = "leaf" -> CheckLeaf(c.leaf, o)
      [] c.kind = "never" -> AddAllInverted(NoEvents, check[c.of])
      [] c.kind = "join" ->
            AddEvents(NoEvents, <<JoinEvent(IF c.isAnd THEN "and" ELSE "or", o,
                                            Each(check, c.conditions))>>)

Check(c, o) == LET check[d \in Condition] == CheckedBy(check, d, o) IN check[c]

(***************************************************************************)
(* contain_number_of_elements counts the names it was given in the checks. *)
(***************************************************************************)
CountEvents(l, objects) ==
    LET size == Cardinality(ToSet(objects)) IN
    <<SimpleEvent(size, size <= MostElements, <<l>>)>>

(***************************************************************************)
(* finish: `join` hands the events of all its conditions on as they are,   *)
(* whether it is an `and` or an `or`.                                      *)
(***************************************************************************)
FinishedBy(finish, c, objects) ==
    CASE c.kind = "leaf" ->
            IF LeafKind[c.leaf] = "count" THEN CountEvents(c.leaf, objects) ELSE <<>>
      [] c.kind = "never" -> Each(Invert, AllEvents(AddEvents(NoEvents, finish[c.of])))
      [] c.kind = "join" -> FlattenSeq(Each(finish, c.conditions))

FinishAll(c, objects) == LET finish[d \in Condition] == FinishedBy(finish, d, objects) IN finish[c]

(***************************************************************************)
(* evaluate_all: init, check every object, finish.                         *)
(***************************************************************************)
Checked(c, objects) ==
    [allowed |-> FlattenSeq([i \in DOMAIN objects |-> Check(c, objects[i]).allowed]),
     violating |-> FlattenSeq([i \in DOMAIN objects |-> Check(c, objects[i]).violating])]

EvaluateAll(c, objects) == AddEvents(Checked(c, objects), FinishAll(c, objects))
=============================================================================
