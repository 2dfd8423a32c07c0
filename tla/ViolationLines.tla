--------------------------- MODULE ViolationLines ---------------------------
(***************************************************************************)
(* How a frozen rule compares the violation lines of an evaluation with    *)
(* the lines it stored: CategorizedViolations::new of                      *)
(* src/src/library/freeze/mod.rs.                                          *)
(*                                                                         *)
(* A line is a member of Lines; a report or a stored file is a sequence of *)
(* lines (a line may occur more than once).  Matches is the line matcher:  *)
(* <<a, s>> \in Matches when the matcher takes the current line a for the  *)
(* stored line s.  It need not be symmetric or transitive: a user may      *)
(* install any closure (associate_violation_lines_via).                    *)
(*                                                                         *)
(* The greedy loop of the code is stated by what it computes: the one      *)
(* matching in which every current line, in order, takes the first stored  *)
(* line that it matches and that no earlier current line took.             *)
(***************************************************************************)
EXTENDS Naturals, Sequences, FiniteSets

CONSTANTS Lines,    \* the violation lines
          Matches   \* the line matcher, a relation on Lines

\* Mutant of StoredLeft: a stored line is not used up.
StoredMatching(m, i, actual, stored) ==
    {j \in DOMAIN stored : <<actual[i], stored[j]>> \in Matches}

(***************************************************************************)
(* The stored positions the current line at position i could still take    *)
(* when earlier lines took what m says (0: took nothing).                  *)
(***************************************************************************)
StoredLeft(m, i, actual, stored) ==
    {j \in DOMAIN stored : /\ <<actual[i], stored[j]>> \in Matches
                           /\ \A k \in 1..(i - 1) : m[k] # j}

(***************************************************************************)
(* m is the greedy matching of actual with stored: m[i] is the first       *)
(* position left for actual[i], 0 when there is none.                      *)
(***************************************************************************)
IsGreedyMatching(m, actual, stored) ==
    \A i \in DOMAIN actual :
        LET left == StoredLeft(m, i, actual, stored) IN
        \/ /\ left = {}
           /\ m[i] = 0
        \/ /\ m[i] \in left
           /\ \A j \in left : m[i] <= j

Matched(m) == {i \in DOMAIN m : m[i] # 0}

(***************************************************************************)
(* The matched positions of the current lines in increasing order, as the  *)
(* loop visits them.                                                       *)
(***************************************************************************)
IsVisitOrder(e, m) ==
    /\ \A a, b \in DOMAIN e : a < b => e[a] < e[b]
    /\ Matched(m) = {e[a] : a \in DOMAIN e}

(***************************************************************************)
(* The fields of a CategorizedViolations, from the matching m whose        *)
(* matched positions e lists:                                              *)
(*   knownActual     the current lines that were matched, as a set         *)
(*   storedUnsolved  the stored lines that were matched, in the order of   *)
(*                   the current lines                                     *)
(*   storedSolved    the positions of the stored lines equal to no matched *)
(*                   stored line                                           *)
(***************************************************************************)
Unsolved(e, m, actual, stored) == [a \in DOMAIN e |-> stored[m[e[a]]]]

\* Mutants of Categories: the current line is kept in the place of the stored
\* one, a solved line leaves a gap.
CategoriesKeepingCurrent(e, m, actual, stored) ==
    [ knownActual    |-> {actual[i] : i \in Matched(m)},
      storedUnsolved |-> [a \in DOMAIN e |-> actual[e[a]]],
      storedSolved   |-> {j \in DOMAIN stored :
                            \A a \in DOMAIN e : stored[m[e[a]]] # stored[j]} ]

CategoriesWithGaps(e, m, actual, stored) ==
    [ knownActual    |-> {actual[i] : i \in Matched(m)},
      storedUnsolved |-> [j \in DOMAIN stored |->
                            IF \E i \in Matched(m) : m[i] = j THEN stored[j] ELSE 0],
      storedSolved   |-> {j \in DOMAIN stored :
                            \A a \in DOMAIN e : stored[m[e[a]]] # stored[j]} ]

Categories(e, m, actual, stored) ==
    [ knownActual    |-> {actual[i] : i \in Matched(m)},
      storedUnsolved |-> Unsolved(e, m, actual, stored),
      storedSolved   |-> {j \in DOMAIN stored :
                            \A a \in DOMAIN e : stored[m[e[a]]] # stored[j]} ]

(***************************************************************************)
(* CategorizedViolations::new(matcher, actual, stored), as the set of its  *)
(* results (exactly one).                                                  *)
(***************************************************************************)
CategorizedViolations(actual, stored) ==
    UNION { { Categories(e, m, actual, stored)
              : e \in {e \in [1..Cardinality(Matched(m)) -> Matched(m)] : IsVisitOrder(e, m)} }
          : m \in {m \in [DOMAIN actual -> 0..Len(stored)] : IsGreedyMatching(m, actual, stored)} }

(***************************************************************************)
(* The lines of the report that the frozen rule still reports: the closure *)
(* passed to filter_descriptions_matching keeps a line unless it is EQUAL  *)
(* to a matched line.                                                      *)
(***************************************************************************)
NewLines(actual, knownActual) ==
    {i \in DOMAIN actual : actual[i] \notin knownActual}

(***************************************************************************)
(* new holds a part of the lines of old, each at most as often.            *)
(***************************************************************************)
PartOf(new, old) ==
    \E m \in [DOMAIN new -> DOMAIN old] :
        /\ \A a, b \in DOMAIN new : m[a] = m[b] => a = b
        /\ \A a \in DOMAIN new : new[a] = old[m[a]]
=============================================================================
