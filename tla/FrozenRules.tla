---------------------------- MODULE FrozenRules ----------------------------
(***************************************************************************)
(* What freezing promises ("record the current violations of a rule and    *)
(* fail only on new ones, so an architecture can be tightened over time",  *)
(* src/src/library/freeze/mod.rs): the lines tolerated for a rule are      *)
(* recorded once and from then on only shrink.                             *)
(***************************************************************************)
EXTENDS ViolationLines

CONSTANTS Rules, NotFrozen

VARIABLE tolerated   \* per rule, the lines that do not fail it

Init == tolerated = [r \in Rules |-> NotFrozen]

(***************************************************************************)
(* The first evaluation records what it found.                             *)
(***************************************************************************)
Freeze(r) ==
    /\ tolerated[r] = NotFrozen
    /\ tolerated' = [tolerated EXCEPT ![r] = tolerated'[r]]
    /\ tolerated'[r] \in Seq(Lines)

(***************************************************************************)
(* An evaluation that no longer finds some stored line forgets it.         *)
(***************************************************************************)
Tighten(r) ==
    /\ tolerated[r] # NotFrozen
    /\ tolerated' = [tolerated EXCEPT ![r] = tolerated'[r]]
    /\ PartOf(tolerated'[r], tolerated[r])
    /\ Len(tolerated'[r]) < Len(tolerated[r])

Next == \E r \in Rules : Freeze(r) \/ Tighten(r)

Spec == Init /\ [][Next]_tolerated
=============================================================================
