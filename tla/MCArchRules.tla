----------------------------- MODULE MCArchRules -----------------------------
(***************************************************************************)
(* Two objects and one condition of each kind.  `access` finds nothing for *)
(* o2, `construct` finds one attribute that satisfies it and one that does *)
(* not for o1; `depend` and `access` share an attribute, so that two       *)
(* conditions complain in the same words.                                  *)
(***************************************************************************)
EXTENDS ArchRules

CONSTANTS o1, o2

public == 2
access == 3
depend == 4
only == 5
construct == 6
count == 7

MCItems == {o1, o2}
MCObjects == <<o1, o2>>
MCLeaves == {public, access, depend, only, construct, count}
MCConditions == {Leaf(public), Leaf(access), Never(Leaf(depend)), Leaf(depend),
                 Never(Leaf(only)), Leaf(construct), Leaf(count)}

MCLeafKind == [l \in MCLeaves |->
    CASE l = public -> "predicate" [] l \in {access, depend} -> "any" [] l = only -> "only"
      [] l = construct -> "events" [] l = count -> "count"]

MCAttributes == [l \in MCLeaves |->
    CASE l = public -> (o1 :> <<10>> @@ o2 :> <<11>>)
      [] l = access -> (o1 :> <<13, 12>> @@ o2 :> <<>>)
      [] l = depend -> (o1 :> <<12>> @@ o2 :> <<14, 15>>)
      [] l = only -> (o1 :> <<12, 13>> @@ o2 :> <<14>>)
      [] l = construct -> (o1 :> <<16, 17>> @@ o2 :> <<>>)
      [] l = count -> (o1 :> <<>> @@ o2 :> <<>>)]

MCSatisfying == [l \in MCLeaves |->
    CASE l = public -> {10} [] l = access -> {} [] l = depend -> {14}
      [] l = only -> {12} [] l = construct -> {16} [] l = count -> {}]

MCPredicates == {{o1}, {o2}}
MCPatternSets == {{}, {[word |-> 12, whole |-> FALSE], [word |-> 15, whole |-> TRUE]}}
MCFilterSets == {{[word |-> 11, whole |-> TRUE]}}
=============================================================================
