------------------------- MODULE MCArchitectureRules -------------------------
(***************************************************************************)
(* Three imported items and one that is only referenced.                   *)
(***************************************************************************)
EXTENDS ArchitectureRules

CONSTANTS a, b, c, x

MCItems == {a, b, c}
MCStubs == {x}

Defined(name, optional, contains) == [name |-> name, optional |-> optional, contains |-> contains]
In(name, contains) == [name |-> name, contains |-> contains]

MCDefinitions ==
    [k \in Kinds |->
        CASE k = "layered" -> {Defined("A", FALSE, {a}), Defined("A", FALSE, {a, b}),
                               Defined("B", FALSE, {b, c}), Defined("B", TRUE, {c, x})}
          [] k = "onion" -> {In(DomainModel, {a}), In(DomainModel, {a, b}), In(DomainService, {b}),
                             In(ApplicationService, {c}), In(<<"web">>, {c}), In(<<"web">>, {b, x}),
                             In(<<"db">>, {c, x})}
          [] k = "monolith" -> {Defined(<<"A">>, FALSE, {a}), Defined(<<"A">>, TRUE, {a, b}),
                                Defined(<<"B">>, FALSE, {b, x})}
          [] OTHER -> {}]

MCAllowed ==
    [k \in Kinds |-> IF k = "monolith" THEN {{}, {<<"A">>}, {<<"B">>}} ELSE {{}, {"A"}, {"B"}}]

MCSettings == {[only |-> "all"], [only |-> "layers"], [only |-> "packages", packages |-> {a, b, x}]}

MCConsidering == {[only |-> "all"], [only |-> "diagram"], [only |-> "packages", packages |-> {b, x}]}

MCIgnoredSets == {Between({a}, {b}), DependencyTarget({c})}

MCIgnoredItems == {{}, {c}}

MCThroughItems == {{b}}

(***************************************************************************)
(* A pattern of one group that leaves `c` outside, and one of two groups.   *)
(***************************************************************************)
MCPatterns ==
    {[i \in Universe |-> CASE i = a -> <<"A">> [] i \in {b, x} -> <<"B">> [] OTHER -> None],
     [i \in Universe |-> CASE i = a -> <<"A", "1">> [] i = b -> <<"A", "2">> [] OTHER -> <<"C", "1">>]}

MCNamings == {[g \in {<<"A">>, <<"B">>, <<"A", "1">>, <<"A", "2">>, <<"C", "1">>} |-> <<g[1]>>]}

AllSlices == [identifier : {<<"A">>, <<"B">>, <<"A", "1">>, <<"A", "2">>, <<"C", "1">>},
              items : SUBSET Universe]

MCSlicePredicates ==
    {{s \in AllSlices : s.identifier[1] = "A"}, {s \in AllSlices : s.identifier # <<"A", "1">>},
     {s \in AllSlices : Cardinality(s.items) > 1}}

MCLines ==
    {ComponentLine("one", {"s"}, None), ComponentLine("two", {"t"}, "2"), ComponentLine("one", {}, None),
     ComponentLine("three", {"t", "u"}, "one"), ArrowLine({<<"one", "2">>}),
     ArrowLine({<<"two", "one">>, <<"one", "three">>})}

MCResides == [s \in {"s", "t", "u"} |-> CASE s = "s" -> {a} [] s = "t" -> {b, x} [] s = "u" -> {c}]

MCTransitiveRules ==
    {[that |-> P, negated |-> n, on |-> Q] : P \in {{a}, {a, b}, {a, b, c}}, n \in BOOLEAN,
                                             Q \in {{c}, {b, c}, {x}}}

Small(n) == {g \in SUBSET AllDependencies : Cardinality(g) <= n}

MCPrograms ==
    [k \in Kinds |->
        CASE k = "layered" -> {AllDependencies, {}}
          [] k = "monolith" -> {AllDependencies, {<<a, b>>, <<b, c>>}, {<<a, b>>, <<c, a>>, <<b, x>>}}
          [] k = "diagram" -> {AllDependencies, {<<a, x>>, <<b, c>>}}
          [] k = "slices" -> Small(1) \cup {{<<a, b>>, <<b, a>>}, {<<a, b>>, <<b, c>>, <<c, a>>},
                                          {<<a, b>>, <<b, x>>}, {<<a, x>>, <<c, a>>, <<a, c>>}, AllDependencies}
          [] OTHER -> Small(3)]

MCCheckedSets ==
    [k \in Kinds |-> CASE k = "onion" -> {{a, b, c}} [] OTHER -> {{a, b, c}, {a, b}, {}}]
=============================================================================
