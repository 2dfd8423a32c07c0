---------------------------- MODULE FrozenLines ----------------------------
(***************************************************************************)
(* The lines of one frozen rule from evaluation to evaluation: the code    *)
(* under test changes between two evaluations, each of which compares what *)
(* it finds with the lines read back from the violation file, tightens the *)
(* file and reports the rest (FreezingArchRule::try_evaluate,              *)
(* src/src/library/freeze/mod.rs).  What several threads and processes do  *)
(* to the store is the matter of FreezeStore.                              *)
(***************************************************************************)
EXTENDS ViolationLines, ViolationFile

CONSTANTS MaxLines,    \* bound: lines of a report
          NotFrozen

ASSUME LinesAssumption ==
    /\ Lines \subseteq Seq(Chars)
    /\ MaxLines \in Nat

VARIABLES actual,     \* what the delegate finds in the code as it is
          file,       \* the text of the violation file
          reported,   \* the positions of actual that were reported
          fresh       \* the code was evaluated since it changed

vars == <<actual, file, reported, fresh>>

Init ==
    /\ actual = <<>>
    /\ file = NotFrozen
    /\ reported = {}
    /\ fresh = FALSE

(***************************************************************************)
(* The code under test changes: a violation comes, goes, or moves.         *)
(***************************************************************************)
Introduce(line) ==
    /\ Len(actual) < MaxLines
    /\ \E i \in 1..(Len(actual) + 1) : actual' = InsertAt(actual, i, line)
    /\ reported' = {} /\ fresh' = FALSE
    /\ UNCHANGED file

Fix(i) ==
    /\ actual' = RemoveAt(actual, i)
    /\ reported' = {} /\ fresh' = FALSE
    /\ UNCHANGED file

FirstEvaluation ==
    /\ file = NotFrozen
    /\ file' = Saved(actual)
    /\ reported' = {} /\ fresh' = TRUE
    /\ UNCHANGED actual

(***************************************************************************)
(* The lines violations(rule) returns.                                     *)
(***************************************************************************)
Known == SplitUnescapedLines(UnixLineBreaks(file))

\* Mutant of Evaluation: the file is overwritten with every current line.
EvaluationSavingAll ==
    /\ file # NotFrozen
    /\ \E c \in CategorizedViolations(actual, Known) :
          /\ file' = IF c.storedSolved # {} THEN Saved(actual) ELSE file
          /\ reported' = NewLines(actual, c.knownActual)
    /\ fresh' = TRUE
    /\ UNCHANGED actual

Evaluation ==
    /\ file # NotFrozen
    /\ \E c \in CategorizedViolations(actual, Known) :
          /\ file' = IF c.storedSolved # {} THEN Saved(c.storedUnsolved) ELSE file
          /\ reported' = NewLines(actual, c.knownActual)
    /\ fresh' = TRUE
    /\ UNCHANGED actual

Next ==
    \/ \E line \in Lines : Introduce(line)
    \/ \E i \in DOMAIN actual : Fix(i)
    \/ FirstEvaluation
    \/ Evaluation

Spec == Init /\ [][Next]_vars

-----------------------------------------------------------------------------
(***************************************************************************)
(* One round of the loop of CategorizedViolations::new: a current line     *)
(* takes the first line it matches out of stored_left.                     *)
(***************************************************************************)
Round(line, loop) ==
    LET hits == {j \in DOMAIN loop.left : <<line, loop.left[j]>> \in Matches}
        first == CHOOSE j \in hits : \A k \in hits : j <= k IN
    IF hits = {} THEN loop
    ELSE [ left     |-> RemoveAt(loop.left, first),
           known    |-> loop.known \cup {line},
           unsolved |-> Append(loop.unsolved, loop.left[first]) ]

Loop(lines, stored) ==
    LET After[i \in 0..Len(lines)] ==
            IF i = 0 THEN [left |-> stored, known |-> {}, unsolved |-> <<>>]
            ELSE Round(lines[i], After[i - 1])
    IN After[Len(lines)]

(***************************************************************************)
(* What an evaluation compares by has one result, and it is the one the    *)
(* loop of the code computes, which removes lines while it searches them.  *)
(***************************************************************************)
GreedyIsTheLoop ==
    file # NotFrozen =>
        LET stored == Known
            loop == Loop(actual, stored) IN
        CategorizedViolations(actual, stored) =
            {[ knownActual    |-> loop.known,
               storedUnsolved |-> loop.unsolved,
               storedSolved   |-> {j \in DOMAIN stored :
                                     \A a \in DOMAIN loop.unsolved :
                                         loop.unsolved[a] # stored[j]} ]}

(***************************************************************************)
(* Evaluating unchanged code again reports the same lines and leaves the   *)
(* violation file as it is: what an evaluation wrote (embedded line breaks *)
(* included) reads back as what it tolerated.                              *)
(***************************************************************************)
Settled ==
    fresh => \A c \in CategorizedViolations(actual, Known) :
                /\ NewLines(actual, c.knownActual) = reported
                /\ c.storedSolved # {} => Saved(c.storedUnsolved) = file

(***************************************************************************)
(* Once a rule is frozen, its file only ever loses lines.                  *)
(***************************************************************************)
OnlyTightens ==
    [][file # NotFrozen /\ file' # file =>
         \A new \in {Known'}, old \in {Known} : PartOf(new, old)]_vars

(***************************************************************************)
(* Of equivalent violations exactly those beyond the stored number are     *)
(* reported, provided no two of them have the same text (the loop takes a  *)
(* stored line once, fails_on_an_increased_count_of_the_same_violation of  *)
(* src/tests/freeze.rs).                                                   *)
(***************************************************************************)
Like(line, lines) == {i \in DOMAIN lines : <<line, lines[i]>> \in Matches}

ExcessReported ==
    fresh /\ (\A i, j \in DOMAIN actual : actual[i] = actual[j] => i = j) =>
        LET stored == Known IN
        \A line \in Lines :
            LET found == Cardinality(Like(line, actual))
                known == Cardinality(Like(line, stored)) IN
            Cardinality(Like(line, actual) \cap reported) =
                IF found > known THEN found - known ELSE 0

(***************************************************************************)
(* The same without the proviso: what the test's name says.                *)
(***************************************************************************)
IncreaseReported ==
    fresh =>
        LET stored == Known IN
        \A line \in Lines :
            Cardinality(Like(line, actual)) > Cardinality(Like(line, stored)) =>
                Like(line, actual) \cap reported # {}
=============================================================================
