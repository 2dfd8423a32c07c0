# A verification of ArchUnitRust

ArchUnitRust checks architecture rules as ordinary Rust tests: a test imports
the items of a crate, evaluates a rule on them and fails with the violations.
This directory holds TLA+ specifications of it, configurations that check them
with TLC on small instances, and proofs that hold for every instance. Paths are
relative to the directory that holds the repository (`src/`), so
`src/src/config.rs` is the repository's `src/config.rs`.

## The system

| component | state | operations | what is hard | what makes it correct |
|---|---|---|---|---|
| **Frozen rules** `src/src/library/freeze/mod.rs` | the index file `stored.rules`, one violation file per rule, the in-memory index of each folder (`STORED_RULES_BY_PATH`), the mutex of each store | `try_evaluate`: initialize, contains, violations, save; `put_if_absent`; the comparison of lines | several tests, processes and frozen objects share the files; a write is not atomic; a crash or an I/O error anywhere; repeated lines; a matcher that need not be an equivalence | a rule keeps its file and no two share one; disk never contradicts memory, and has all of it in a folder that was created before; a rule that passes is covered by what is stored; what is tolerated only shrinks; evaluations end |
| **Cycle detection** `src/src/library/cycle_detection/mod.rs` | the frames of Johnson's recursion, blocked and dependently blocked nodes, the cycles so far | find a component, follow an edge, record, unblock, return | the unblocking discipline; the limit; the order in which components are taken | each elementary cycle exactly once, up to the limit, and an end |
| **Rules and stateful conditions** `src/src/lang/rule.rs`, `src/src/lang/condition.rs`, `src/src/library/cycle_detection/rules/mod.rs` | a `ConditionLogic` behind a mutex that all clones of a condition share | init, a check per object, finish | clones evaluated by several tests at once; a panic poisons the mutex | an undisturbed evaluation is right; an interleaved one never invents a violation; nothing is left behind |
| **The rule language** `src/src/lang/syntax/*.rs`, `events.rs`, `evaluation.rs`, `rule.rs`, `conditions/mod.rs` | the predicates and conditions collected so far and the modes they are joined in; the events of one evaluation; the violations of a result | that/and/or, should/and_should/or_should, no_..(); check, finish; invert, join, filter by ignore patterns; add, report, handle | negation works on events that were already sorted into satisfied and violated; joined events that are mixed or empty; filters that take some lines of an event | the verdict is what the sentence says; the report, the verdict and the handlers agree; a filter takes the matching lines only |
| **Harness** `src/src/harness/mod.rs`, `src/archunit-macros/src/lib.rs` | the cache of imports, a static behind a mutex; the `OnceLock` of each test module | import, clear, count; run the cases | read, import, insert are separate steps; the key leaves things out | the tests of a module share one import of their key; a case that panics leaves nothing to the next |
| **Configuration** `src/src/config.rs` | the global configuration behind a lock, a copy per thread in a scope | get, update, scope, reset, lazy ignore patterns | snapshots that are stale; scopes that end by a panic | a scope leaks nothing; a set value is not lost |
| **Importer** `src/src/core/importer/*.rs` | the item graph, the scopes with their bindings and pending uses, the items whose signatures wait, the bodies to visit, the locals of a body | declare every module, resolve `use` declarations to a fixpoint, resolve signatures, visit bodies, build dependencies | globs, re-exports and renames in circles; fallbacks to crates, prelude and stubs; impls of types of other modules; shadowed locals; types that can only be guessed | names are bound to what the declarations mean, in whatever order; the dependencies are what the text mentions |
| **Domain model** `src/src/core/domain/*.rs` | immutable after the import | queries: dependencies, super types, package patterns | transitive closures with cycles; `..` in patterns | a query equals its definition |
| **Slices** `src/src/library/dependencies/mod.rs` | the assignment, predicates and condition of a rule | `that`, `and`, `or`, `should`, evaluation | an assignment that ignores items; a slice keeps the assignment that made it | two rules about the same slices agree |
| **Layered and onion architectures** `src/src/library/architectures.rs`, **modular monolith** `modular_monolith.rs` | the layers, rings or modules, the constraints, what is ignored | define, constrain, ignore, ensure, evaluate | redefinitions; items in no or several layers; optional layers; three choices of what counts | what is reported is what was said; an onion isolates its rings; both directions of a constraint agree |
| **PlantUML diagrams** `src/src/library/plantuml/mod.rs` | the components and arrows of a text | parse, associate items, check | aliases and names of one component space; arrows of both directions | an item depends only on what the diagram draws |
| **Coding, dependency and proxy rules, predicates, fluent syntax, conditions** | none | builders and per-object closures | | |

A test calls the harness, which imports once per configuration of the import
and caches the items; it evaluates rules, whose conditions emit events; the
result is filtered by the ignore patterns of the configuration. A frozen rule
wraps a rule: it evaluates it and compares the result with its store. Cargo runs
the tests of a binary as threads of one process, and the binaries as processes,
so everything that is `static` is shared by threads, and every file by
processes.

`PROJECT.json` lists under "hazards" what is hard to test in this code, at its
line, with the properties that watch it.

## Plan

1. The frozen rules: store, files, locks (`FreezeStore`), the comparison of
   lines (`ViolationLines`, `FrozenLines`, `ViolationFile`), the promise
   (`FrozenRules`). *Done.*
2. Cycle detection (`CycleDetector`, `TarjanComponents`). *Done.*
3. Conditions shared by threads (`SharedCondition`). *Done.*
4. Condition events, their inversion and conjunction, evaluation results,
   ignore patterns; composed with the fluent syntax and the evaluation of a rule
   (`ConditionEvents`, `ArchConditions`, `ArchRules`). *Done.*
5. The harness cache and the configuration, with threads (`ImportCache`,
   `Configuration`, `ArchTestRuns`). *Done.*
6. The text format of the index (`properties.rs`).
7. The importer: names, signatures, bodies and dependencies (`NameResolution`,
   `ItemSignatures`, `BodyVisitor`, `CrateImport`), against their meaning
   (`ImportMeaning`). *Done.*
8. Slices, layered and onion architectures, the modular monolith, diagrams, the
   transitive dependency condition: builders and evaluations over a dependency
   graph (`DependencyGraph`, `SliceRules`, `LayeredArchitecture`,
   `ModularMonolith`, `PlantUmlDiagram`, `ArchitectureRules`). *Done.*

Theorems, in this order: type correctness and the file names of `FreezeStore`
(*done*), disk against memory (*done*), the shared conditions (*done*); the
scopes of the configuration (*done*); that the recorded cycles are elementary and
blocked nodes hopeless (*done*); `PassedIsCovered` and the refinement `Ratchet`
(*done*); files that are read as they were written, and the matching of lines
(*done*); imports and evaluations in scopes (*done*); the rules of the library
(*done*); that the search for cycles is complete and its limit exact (*done*); that
the greedy loop computes the matching (*done*); report, verdict and negation in the
rule language, and that a verdict is what the sentence says (*done*). Left: the
resolution of `use` declarations (`UsesFindTheirItems`), and the text of the index.

## Modules

`FreezeStore` — threads that evaluate frozen rules over the default store. A
step is one access to something shared: the index file, a violation file, the
in-memory index (and its lock), the mutex of the store. `std::fs::write` is a
truncation and a write, as a crash or another process sees the state in
between. `pc[t]` is where `try_evaluate` stands, `task[t]` its locals. The
evaluation of the delegate is a choice among `Reports`, or a panic. A crash
keeps only the files. `Advance(t)` is the evaluation itself, `IOError` and
`Crash` the environment.

`ViolationLines` — `CategorizedViolations::new` and the filter of the report.
The greedy loop is stated by the matching it computes; `FrozenLines` has the
loop itself (`Loop`, a `Round` for each current line), and `GreedyIsTheLoop` compares
the two. Lines are abstract; `Matches` is the matcher.

`FrozenRules` — the abstract specification of freezing: lines are recorded
once, and then shrink.

`ViolationFile`, `FrozenLines` — the text of a violation file (escaping on save,
splitting on load) and one frozen rule whose code changes from evaluation to
evaluation.

`CycleDetector` — `find_cycles`: one action per round of the outer loop, edge
and return of `find_cycles_from`; `adjacent_in_component` is the guard of the
actions for an edge; `unblock`'s recursion is the least set closed under it; the
component finder is stated by reachability. `TarjanComponents` has the finder's algorithm,
a step per node to start from, edge and return of `find_components`, its recursion unfolded
as in `CycleDetector` (`calls`, `left`); an invariant says that both agree.

`SharedCondition` — `evaluate_all` and its conditions: begin, init, check,
finish as separate steps of each thread, `CycleLogic` as the logic. The history
variable `alone` says that nobody else used the condition meanwhile.

`ConditionEvents` — the events as records and the methods of the trait
`ConditionEvent`: `IsViolation`, `Invert`, `DescriptionLines`, `Handled` are
recursive functions on the set of all events, as events hold events; the body of a
method is an operator of the method and the event (`Violated`, `Inverted`,
`Described`, `HandledWith`). `Event` is the set of events of up to `Nesting` levels,
a bound on the depth only. A text is a sequence of words; the
line breaks and the infix that the code puts between words are members of it,
as ignore patterns meet them. `ArchConditions` — a condition is a term (a
predefined one, `never`, a join; `Terms[n]` has those of up to n levels); `Check`
and `FinishAll` give the events it leaves. A predefined condition is known by how it is built (`LeafKind`) and by
what it looks at (`Attributes`, `Satisfying`). `ArchRules` — writing a rule word
by word, finishing it, evaluating a composite of such rules, filtering and
asserting. `said` keeps the words for the properties; no action reads it but for
its bound. The actions speak of rules about classes; those about members keep
the same state.

`Configuration` — the global configuration and the copies of threads in scopes;
the guards that `with_thread_local_scope` leaves on the call stack are a stack
per thread, and a panic unwinds it. `update` is one action (it holds the lock),
`get` copies; loading the ignore patterns is a read, and later an update that
looks again. `ImportCache` — the cache behind `import` (look up, import without
the lock, insert) and the `OnceLock` of a module with `#[analyze_classes]`; an
import is a number. `ArchTestRuns` composes the two: threads that run tests, the
cases of `ArchTests` with `catch_unwind`, and what cases do. `used` counts what
the bounds limit and is no state of the program.

`DependencyGraph` — dependencies as pairs of items, the queries and conditions on
them, the search of `transitively_depend_on_classes_that`. `LayeredArchitecture`,
`ModularMonolith`, `SliceRules`, `PlantUmlDiagram` — the builders of these rules
as records, each call an operator on the record, and their evaluation as the set
of violations; a predicate is the set of its items. `ArchitectureRules` composes
them: a rule of one kind is written call by call, in any order, and evaluated for
a set of items and a program. `said` keeps the last words on each topic for the
properties, and its size bounds the calls.

`NameResolution` — `resolve.rs`: scopes, `lookup_name` with its fallbacks,
`resolve_path`, `bind`, and one entry of `resolve_uses`. `ItemSignatures` —
`resolve_signatures`: types, members, generics, annotations, impls and the jobs
for bodies. `BodyVisitor` — `collect_bodies`: a body is a tree of expressions
(what `syn` parses); the visitor, the inference of types and the accesses it
records are functions of the tree and the builder. `CrateImport` — the phases of
`build` as actions: a module declared, a use entry resolved or postponed, a round
of `resolve_uses`, stubs for what is left, a signature, a body, the dependencies.
`ImportMeaning` — the same without an order: the least meaning of the use
declarations, and the mentions of a text.

`FreezeStoreProofs` (types, names, the index, coverage, the promise), `FrozenLinesProofs`, `SharedConditionProofs`, `ArchTestRunsProofs` (scopes,
imports and evaluations in scopes), `CycleDetectorProofs`, `ArchitectureRulesProofs`, `ArchRulesProofs` — the theorems.
`InductionLemmas` — the facts they share: induction over `0 .. N`, that a recursive
function exists and unfolds, and that a search in rounds finds all that can be
reached. `MC...` — values for the constants.

## Runs

| run | shows |
|---|---|
| `freeze_faults` | Two tests, two rules, every configuration (create, update, refreeze), a crash and an I/O error at any step, starting without a folder: files are not shared, the index on disk is never ahead of memory, a rule that passes is covered by its file. |
| `freeze_ratchet` | Two tests, two rules, no faults and no refreeze, with more reports and refused updates, in a folder that has an (empty) index, under fairness: `FreezeStore` implements `FrozenRules`; when nobody writes the index, what memory holds as stored is on disk; the violation file of a stored rule exists; every evaluation ends. |
| `frozen_lines` | One rule, every change of up to three violations (equal, equivalent, with embedded line breaks): evaluating again changes nothing, the file only loses lines, what exceeds the stored number is reported if the lines differ. |
| `frozen_lines_count` | Violated: an additional violation with the same text is not reported. |
| `cycles` | Every graph of four nodes: elementary cycles, each once, blocked nodes are hopeless, the limit is exact, the component finder finds what it should, the search ends. |
| `cycles_all` | Violated with five nodes: a component is skipped. |
| `conditions` | Two tests, clones of one condition, every dependency graph of three objects: alone it is right, together it invents nothing, and it forgets. |
| `conditions_clones` | Violated: checks before their own init. |
| `language` | Every rule of three words and every two rules of three words together: joined and negated conditions give the verdict of the sentence, the panic, the report and the handlers agree after ignore patterns and filters, negating twice changes nothing. |
| `harness` | Two threads, three modules (with `#[analyze_classes]`, without, `PerClass`), an `ArchTests` of two cases and an ignored one, three changes or nested scopes, an evaluation, a failed import, a cleared cache: scopes nest and leak nothing, an evaluation in a scope uses one configuration, late loading overwrites no patterns, tests of a module share an import of their key, waiting is for an import. |
| `architectures` | Rules of the six kinds of the library in up to three or four calls, evaluated on dependency graphs of a few items: what is reported is what the calls say, an onion that passes isolates its rings along paths of any length, constraints said from either end agree, rules about the same slices agree, a diagram allows what it draws, a forbidden path is reported. |
| `imports` | Three modules with every combination of use declarations in circles, and a shop of four modules and a library with traits, impls, renames, globs, closures and shadowed locals, its modules in several orders: names are bound to what the declarations mean, and the dependencies are what the texts mention. |

Findings (`PROJECT.json`): an increased count of the very same line is not
reported although a test's name says so; the component search skips a component
whose lowest node is in a later tree, so not all cycles are found; the checks of
one evaluation run after the init of another.

Where the code and its documents differ without a run of their own: with two
frozen objects of one description, `contains` answers before the violations are
stored (`freeze/mod.rs:308`); a name that no scope has falls to the first glob of
a stub crate (`resolve.rs:202`), where `docs/PLAN.md:129` asks for exactly one
such glob; aliases of `Result` are followed up to four times (`build.rs:985`),
where `docs/PLAN.md:245` says one level; `where_module` accepts any name once
modules are defined by a package pattern (`modular_monolith.rs:229`); the
transitive condition does not enter items the rule checks itself
(`conditions/mod.rs:843`), which its doc does not say; and
`ensure_all_classes_are_contained_in_architecture` fails for an import without
items, being a rule about all classes (`architectures.rs:432`). The models have
what the code does.

**The first evaluation in a new folder.** `freeze_ratchet` starts with an index,
as `StoredIsIndexed` does not hold without one. With `IndexExists = FALSE`, and no
fault, TLC refutes it in eleven steps: two threads find no index
(`freeze/mod.rs:284`), one creates it, stores its rule and is past the index's
lock; the other then creates it once more (`:285`) and so empties it. Memory has
the rule, the disk has not, until the next new rule writes the whole index again
(`:161`). A process started in between does not find the rule and freezes it anew,
with the violations it has by then. No doc or test speaks of two tests that create
a store together, so this is no finding but a limit of the claim, and the theorem
`StoredRulesAreIndexed` has the same condition. What holds in a new folder too, with
a crash and an I/O error added, is `DiskNeverAhead` (run `freeze_faults`): entries may
be missing on disk, none is another than in memory.

**Bounds.** Two threads suffice for the freeze store: every conflict in it is
between two accesses, and the invariants relate two rules or memory and disk.
`freeze_faults` is symmetric in threads, in file names and in the two
rules (their reports are swapped with them); `freeze_ratchet` has a liveness
property and no symmetry. Four file names are enough for two rules that each draw a name, crash and draw
again; with the names used up, an evaluation waits (`CHECK_DEADLOCK` is off only
where the search finishes). Lines `a1`, `a2` (equivalent, not equal) and `b`
with reports of at most two lines show every case of the comparison: equal,
equivalent, solved, new. `frozen_lines` has reports of three lines, for two
equal lines and an equivalent one. Four nodes have all nested, overlapping and
disjoint cycles (two components of two); the skipped component needs five. Three
objects have cycles of two and three in every position, and two inputs that
order them differently.

Rules of three words have every pair of
connectives among conditions (`a and b or c`), and predicates with one or two
conditions; the seven conditions have each of the five kinds, two of them
negated, and two that complain in the same words; one object has no attribute
of some of them. `VerdictIsTheSentence` is claimed for conditions that leave an
event for every object: a condition that finds nothing to look at leaves none,
and a joined event counts it as satisfied both as it is and inverted, so that
`no_classes().should(a).or_should(b)` passes an object that `b` says nothing
about whenever `a` is violated.

`harness` has one test per thread: the cache and the `OnceLock` meet in two
tests of one module, of two modules with one key, and of modules of either cache
mode; a scope in a scope with a change inside needs three changes, which the
other thread may use instead. It is symmetric in the threads.

`architectures` gives each kind of rule the calls it has a choice in: two
definitions of one layer (one of them optional), layers that overlap and items in
none, one and two constraints; every set of up to three dependencies among three
items and a referenced one where the way through the graph matters (onion,
transitive rules), the full graph and a few others elsewhere. A redefinition needs
three calls to matter (define, constrain, define again); the bound is four.
`OnionIsolates` holds along ways through any item, so it asks for a rule that
ignores nothing and is evaluated for everything that was imported. `imports` has, for
names, every use of three modules by one another (names, globs, renames), where a
chain of re-exports needs three rounds; for bodies, one crate that uses each
construct, as constructs meet only through the locals and the scope.

**Fairness.** `FairSpec` assumes that a thread that has begun an evaluation is
scheduled (`WF` of `Advance(t)`): the operating system runs every thread. Nothing
is assumed of beginning evaluations, crashes or I/O errors. `Mutex` is not fair
in general; weak fairness is enough, since a lock is held for finitely many
steps and the other thread takes it at most as often as it has evaluations
in progress. `harness` states no liveness. `CycleDetector` is sequential: it takes steps as long as it can.

## Proofs

Each theorem holds for every value of the constants that satisfies the named
assumption of its module (`FreezeAssumption`, `ConditionAssumption`,
`ConfigurationAssumption`, `CacheAssumption`, `RunsAssumption`,
`CycleAssumption`, `RulesAssumption`, `LinesAssumption`, `NestingAssumption`,
`ConditionsAssumption`), and the further conditions a theorem names.

* `TypeCorrect` — `TypeOK` of `FreezeStore`. The inductive invariant adds
  `TaskOK`: after the folder is initialized the index exists and is loaded, a
  rule whose violations are read is in the index. It is needed because
  `violations[storedRules[p][r]]` has a value only then.
* `NoSharedFiles` — two rules never share a violation file, for any number of
  processes, threads, crashes and errors. `Keeps(r, f)` collects every place a
  pair of rule and file can be (disk, memory, the locals of a save). Every
  step but one only copies pairs (`StepCopies`), and the step that draws a name
  takes one not in use (`NamesOK`: every kept name was drawn). The assumption
  is that a UUID is never drawn twice.
* `DiskFollowsMemory` — with one process, the index on disk never names a file
  the loaded index does not; by induction with `TypeCorrect`'s invariant. With
  two processes it is false (hazard at `mod.rs:296`).
* `PassedRulesAreCovered` — when a frozen rule passes, a line of its violation file
  accounts for every violation it found; for any processes, threads, crashes and
  I/O errors. `StoresAreHeld` (a thread inside an evaluation holds the mutex of its
  object) and `OneObjectPerRule` keep two evaluations of a rule apart; `CoveredOK`
  says at each step which lines account for the report: those about to be saved,
  then those in the file. A matcher that does not take a line for itself
  (`MatcherIsReflexive`) would not account for a line with itself.
* `ContainedRulesAreStored` — a rule the index contains has violations to read: an
  entry has its file, or the thread that entered it is about to write it
  (`EntriesAreStored`). That nothing fails (`NothingFails`: no crash, no I/O
  error) is needed: the index is written before the file.
* `StoredRulesAreIndexed` — in one process over a folder with an index and without
  I/O errors, what memory holds as stored is on disk whenever nobody writes the
  index: whoever writes it holds the lock (`WritersHoldTheLock`), and memory and
  disk differ only meanwhile (`IndexInSync`).
* `StoreImplementsPromise` — `FreezeStore` implements `FrozenRules`, step by step
  (`StepImplementsPromise`), whatever evaluations overlap and whichever access
  fails: a thread about to save holds a part of what is tolerated (`RatchetOK`),
  and `Explains` ties what the promise calls tolerated to memory, disk and the
  thread in between. It is a theorem about one process that does not crash, one
  object per rule and no refreeze. These are no conveniences: with a crash, a
  refreeze or two objects on one rule TLC finds a behaviour of the store that
  breaks the promise, and `Tolerated` looks through one process's memory.
* `SavedReadsBack` — what `save` writes, `violations(rule)` reads, whatever line
  breaks, backslashes and carriage returns the lines hold. The condition is that
  they are `Readable`: not empty, and not ending with a backslash or a carriage
  return, which the escaping does not cover (an empty line disappears, the other
  two join with the line break behind them). The code does not check it; none of
  the descriptions the library writes is empty or ends that way. Recursive
  functions are unfolded once (`FlattenIsRecursive`, `ReadIsRecursive`); the rest
  is about positions: where a line starts (`WrittenAt`), where its k-th character
  went (`EscapedAs`), and that after it the reader holds the first k
  (`LineIsRead`).
* `FilesOnlyTighten`, `EvaluatingAgainChangesNothing`, `ExcessIsReported` — the
  three properties of `FrozenLines`, for readable lines and respectively any
  matcher, a reflexive one, and one that is an equivalence (as
  `FuzzyViolationLineMatcher`, which compares lists of parts). The inductive
  invariant says that the file is one `save` wrote (`Saves`) and that after an
  evaluation no stored line is left over and just the unmatched lines are
  reported (`FreshIsSettled`). It is kept because the kept lines are taken again
  by those that took them (`KeptAreTakenAgain`) and there is only one greedy
  matching (`GreedyIsUnique`); of lines alike, either all take a stored line or
  as many do as are stored (`AsManyAsStored`).
* `LoopIsGreedy` — for any matcher, an equivalence or not: `ViolationLines` states
  the comparison of lines by the matching it computes, and the loop of the code, which
  removes stored lines while it searches them, computes it. After k rounds the lines
  it has left are the stored ones in their order, but for those that the first k
  current lines take in the one greedy matching; the next round removes the first of
  them that matches.

* `SharedEdgesAreReal` — every edge a condition holds is a dependency between
  the components it points to: init replaces the components and drops the edges
  in one locked call.
* `SharingInventsNoCycle` — from it: a rule is violated only if the objects of
  some evaluation have a cycle, as a cycle of a part is one of the whole.
* `QuietConditionIsEmpty` — a condition without users is empty: whatever it
  holds, some thread is in "check" and will clear it (`Held`).
* `AloneEvaluationIsRight` — an evaluation that had its condition to itself is
  violated exactly when its objects have a cycle, whatever earlier or panicked
  evaluations did with the condition. While it is alone, the logic holds its
  objects and the edges of those it has checked (`AloneAt`), what is left to check
  is the end of the objects (`LeftOK`), and as no object comes twice, a check adds
  just the edges from one position (`CheckAddsOwnEdges`).

* `ScopesAreClosed` — a thread has a configuration of its own exactly while a
  scope is open. The inductive invariant `ScopesInv` adds what the guards
  restore (`GuardsOK`): the outermost one nothing, every other one a
  configuration; without it, leaving a scope could leave an open scope without
  a copy.
* `ScopesStayPrivate` — from it, for every step (`StepsArePrivate`): nothing
  done in a scope reaches the global configuration or another thread.
* `ItemsAreTheModules`, `ModulesAreImportedOnce`, `NobodyWaitsForNobody` — the
  three properties of imports, from one invariant (`ImportInv`). It relates where
  a thread stands to what the module keeps: no items are set as long as a thread
  imports for a provided module, and they are those of every test that goes on;
  what the cache and the modules keep was imported with their key. A step touches
  the module of its own thread only (`NewForOwn`, `Registered`), so `OthersKeep`
  settles the other threads once for all steps. That `NoThread` is no thread is
  the assumption it adds.
* `ScopedEvaluationsAreOne`, `LoadedPatternsOverwriteNone` — what evaluations read
  of a scope is the same at each step, and patterns are loaded only into a copy
  that has none (`EvaluationOK`), from the two invariants above.

* `RecordedCyclesAreReal` — on every graph and under every limit, what
  `record_cycle` records are elementary cycles, none twice. That the path is a
  walk without repetitions needs that its nodes are blocked (`PathOK`), and so
  that `unblock` never frees one of them: a node that would be unblocked with a
  node of the path is on the path before it, or *stuck*, in a set of blocked nodes
  that leads nowhere but to the path before (`StuckOK`). When a node is entered,
  the blocked nodes off the path are such a set, and it stays one until the call
  returns: a set of all blocked nodes but the stuck ones and the path is closed
  under what `unblock` follows (`ReturnKeeps`). That no cycle is found twice is
  `LeftBehind`: a cycle found in this search begins like the path and has left it
  over an edge the path has already taken; cycles of other searches start at lower
  nodes. Adjacency lists without repetitions are assumed, self-loops are not
  excluded.
* `BlockedNodesAreHopeless` — from `WaitOK`: until the limit is reached a blocked
  node off the path waits for all its targets, and these are blocked and not the
  start; so the blocked nodes off the path are closed under edges that avoid the
  path. It is what makes skipping sound.
* `EverySearchIsComplete` — on every graph and under every limit, a search that
  ended below the limit has recorded every elementary cycle whose lowest node it
  started from. The invariant (`NoneIsLost`) says where a cycle is while the
  search runs: recorded, or `StillAhead` — it begins with a part of the path, and
  its next edge from there is among those the frame has yet to take. Closing
  records it (`ClosingLosesNone`), following an edge makes the part longer, and
  skipping a blocked node or returning loses none, as the rest of the cycle would
  lead from a blocked node to the start without meeting the path
  (`NoCycleThroughBlocked`). Such a cycle stays in the component searched
  (`CyclesStayInside`), as the component is what its lowest node reaches and is
  reached from (`ReachIsLeast`).
* `TheLimitIsReal` — on every graph, never more cycles than the limit are recorded,
  and if the result says it was cut, exactly as many are and there are more. The
  cut is made in `record_cycle` with a cycle in hand that is new (`Cut`).
* `ResultIsExact` — from both, `LimitExact`: the result has all elementary cycles
  or as many as the limit allows, and tells which. Two conditions come from the code
  around the search. `FindsTheLowest`: whatever node the search is at, the
  component the finder hands over is the one with the lowest node. The finder hands over
  the lowest of the first tree that holds any (`FinderIsRight`): that is the lowest of all
  on every graph of up to four nodes and not on every graph of five, where cycles
  are missed (run `cycles_all`). `HasNoLoops`: no node has an edge to itself, as the
  callers make none; a component of one node is left out by the finder. Components
  taken so far lie below the next (`AllBelow`), so a cycle's search has been or is
  to come, until none is left (`Ended`).
* `FinderIsRight` — Tarjan's search, on every graph and from every lower bound, returns
  what `CycleDetector` states by reachability (`FinderFindsComponents`). The invariant
  `FinderInv` is about the states the steps go through (`FinderStates`). Its core,
  `DepthFirst`, is stated for any graph, numbers and low links: no edge leads out of what
  has left the stack (`Sealed`); a node whose call is under way reaches what has been
  stacked since (`Reaching`); its low link is the number of a node on the stack that it
  reaches, not after itself (`Linked`), and not after any target on the stack of an edge
  taken from the nodes it accounts for, those stacked since and before the next call
  (`Accounted`); a node that has returned and is still on the stack reaches one stacked
  before it (`Returning`). Entering a node, passing an edge and returning keep it
  (`NodeEntered`, `EdgePassed`, `NodeLeft`, `NodeClosed`). When the low link of a node is
  its own number, what lies above it on the stack is sealed, and each node there reaches
  down to it: it is the component (`AboveIsComponent`). `Found` and `Trees` say that
  just the components off the stack have been collected, and none before the tree under
  way. The run ends, as every step leaves fewer jobs (`LessToDo`, `LessIsTodo`): edges to
  take, nodes to start from, calls to return; `FinderSteps` is their number.

* The rules of the library: `VerdictsAreWhatWasSaid`, `DirectionsAreDual`,
  `PassedOnionsIsolate`, `SlicesReportTheirPairs`, `ForbiddenPathsAreReported`,
  `DiagramsAreAsDrawn` — the six invariants of the run `architectures`, for any items, programs,
  predicates and order of calls. What a rule has become is related to the words
  by one invariant per kind (`LayeredWritten`, `MonolithWritten`, `OnionWritten`,
  `SlicesWritten`, `DiagramWritten`): layers are named uniquely and are those
  defined last, a constraint per name and direction, the last one said. `Judged`
  says that an evaluated rule was evaluated once, as it was written. The rest are
  lemmas about the operators: what each check reports (`Reports`,
  `ReportsModules`), that a search of as many rounds as there are items finds all
  that can be reached (`RoundsFindAll`) and that leaving out checked items loses no
  verdict (`SearchMissesNothing`), and which arrow a line stands for (`ArrowDrawn`).
  `RulesAssumption` asks of the constants what the types of the code give: rings
  and layers are sets of items, predicates of slices hold slices, `None` is no
  value of another kind.

* The rule language: `VerdictIsReported`, `ReportIsHandled`, `NegatingTwice`,
  `VerdictsAreTheSentences`. The events of the code are finite trees; those the
  theorems are about are `Built`: put together as the code does, and so is all they
  hold. A fact about them follows from the same fact about those they hold
  (`BuiltInduct`, by the level of an event). That the four methods satisfy
  their equations on every event is proved, not assumed (`MethodExists`, `InvertOf`,
  `EventsDecide`, ...). The inductive invariant `WellSpoken` says that a condition has
  at most as many levels as words were said, so that the bound `Nesting` (at least
  `MaxWords + 4`) cuts off no event, and that the result holds well-built violations.
  A violation always has a line, and what it hands to handlers are its lines
  (`ViolationsAreReported`, `CallsAreReported`): the first two theorems. Inverting
  twice gives back verdict, lines and calls (`TwiceIs`) although an `any` becomes an
  `only` and an `and` an `or` on the way: the third.
* `VerdictsAreTheSentences` — the last one needs what an event says both as it is and
  inverted. `Tells(e, holds)` says that an event is a violation just when `holds` is
  false, and inverted just when it is true; joining two telling events gives one that
  tells their conjunction or disjunction (`JoinTells`), `never` one that tells the
  contrary (`NeverTells`), and the predefined conditions tell, if they decide every
  object (`LeafTells`). The invariant `Understood` relates the rule being written to
  its words: the predicate is their `Meaning` (`Selecting`), the condition tells what
  they demand (`Asking`), finished rules are what was said (`IsMeant`), and the
  result of an evaluation is empty just when each rule accepts (`Judging`).

Only model-checked:

* The importer (`UsesFindTheirItems`, `DependenciesAreTheMentions` in `ImportMeaning`):
  its bodies and types are trees that RECURSIVE operators walk.
* All liveness, and the runs that expect a violation.

## Not modelled

The parser (`syn`), the attribute macros (but for the `OnceLock` they generate), the text of messages, file system
paths, regular expressions and the descriptions of rules are left out: they
have no state that steps of others can meet, or are another library's. In `FreezeStore`
a file is its lines; the text of the index is step 6 of the plan. An I/O error in
the test whether the index exists ends the evaluation there, where `Path::exists`
reports the file as missing and the next access fails or creates it; no run with
I/O errors claims that the index keeps its entries.
`SharedCondition` takes `cycles.max_number_to_detect` to be at least 1 (0 makes
every cycle rule pass) and the graphs of the `cycles` runs have no self-loops, as
the callers in the library make none.

Of the importer: `use` declarations and items inside bodies, arguments of macros
`syn` cannot read as expressions, generic arguments of calls beyond their items,
documentation links, locations and cargo's metadata. Of the domain model: queries
about super types, members and modifiers, and package patterns; a package
identifier in a slice, a layer or a diagram is the set of items it matches. Of
slices: naming and `as_`, custom priorities. The general coding, dependency and
proxy rules are constants of kinds `ArchConditions` models. The members of the
fluent syntax other than classes keep the same state as `ArchRules` has.
