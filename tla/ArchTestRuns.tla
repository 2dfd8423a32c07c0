----------------------------- MODULE ArchTestRuns -----------------------------
(***************************************************************************)
(* The tests of a process: the threads of the test runner, each of which   *)
(* runs tests of the test modules one after the other.  A test gets the    *)
(* items of its module and checks the cases of an ArchTests on them        *)
(* (src/src/harness/mod.rs), and the cases use the configuration.          *)
(*                                                                         *)
(* What a case does besides evaluating rules is up to the program: it      *)
(* changes the configuration, in scopes or not, and may panic.             *)
(***************************************************************************)
EXTENDS Configuration, ImportCache

CONSTANTS
    Cases,          \* the cases of an ArchTests, a sequence
    Ignored,        \* the ignored ones
    FailOnEmpty,    \* the property arch_rule.fail_on_empty_should
    MaxTests,       \* bound: tests of a thread
    MaxUpdates,     \* bound: changes of the configuration, scopes included
    MaxScopes,      \* bound: nested scopes
    MaxEvaluations, \* bound: evaluations
    MaxFailures,    \* bound: imports that fail
    MaxClears       \* bound: calls of clear_cache

ASSUME RunsAssumption ==
    /\ Ignored \subseteq ToSet(Cases)
    /\ FailOnEmpty \in Properties
    /\ NoThread \notin Threads
    /\ {MaxTests, MaxUpdates, MaxScopes, MaxEvaluations, MaxFailures, MaxClears} \subseteq Nat

VARIABLES
    pc,         \* of each thread, its next step
    test,       \* of each thread, the test it runs
    tests,      \* of each thread, the tests it has begun
    used        \* what is used up of each of the other bounds

vars == <<configVars, cacheVars, pc, test, tests, used>>

Steps == {"idle", "items", "lookup", "import", "insert", "next", "running",
          "patterns", "load", "judge"}

InCase == {"running", "patterns", "load", "judge"}

NothingSeen == [empty |-> None, patterns |-> None]

NoTest == [module |-> None, items |-> 0, case |-> 0, failures |-> <<>>,
           seen |-> NothingSeen]

Init ==
    /\ ConfigInit
    /\ CacheInit
    /\ pc = [t \in Threads |-> "idle"]
    /\ test = [t \in Threads |-> NoTest]
    /\ tests = [t \in Threads |-> 0]
    /\ used = [updates |-> 0, evaluations |-> 0, failures |-> 0, clears |-> 0]

At(t, step) == pc[t] = step
GoTo(t, step) == pc' = [pc EXCEPT ![t] = step]
Outside == UNCHANGED <<configVars, tests, used>>

-----------------------------------------------------------------------------
(***************************************************************************)
(* A test begins: the items of its module, imported by the first test, or  *)
(* an import of its own.                                                   *)
(***************************************************************************)
Begin(t, m) ==
    /\ At(t, "idle")
    /\ tests[t] < MaxTests
    /\ tests' = [tests EXCEPT ![t] = @ + 1]
    /\ test' = [test EXCEPT ![t] = [NoTest EXCEPT !.module = m]]
    /\ GoTo(t, "items")
    /\ UNCHANGED <<configVars, cacheVars, used>>

Holds(t, i) ==
    /\ test' = [test EXCEPT ![t].items = i]
    /\ GoTo(t, "next")

GetItems(t) ==
    /\ At(t, "items")
    /\ LET m == test[t].module IN
       \/ /\ items[m] # 0
          /\ Holds(t, items[m])
          /\ UNCHANGED cacheVars
       \/ /\ IF m \in Provided THEN ClaimItems(t, m) ELSE UNCHANGED cacheVars
          /\ GoTo(t, "lookup")
          /\ UNCHANGED test
    /\ Outside

Lookup(t) ==
    /\ At(t, "lookup")
    /\ LET m == test[t].module IN
       \/ /\ UseCached(m)
          /\ Holds(t, Cached(m))
       \/ /\ Cached(m) = 0
          /\ GoTo(t, "import")
          /\ UNCHANGED <<cacheVars, test>>
    /\ Outside

Import(t) ==
    /\ At(t, "import")
    /\ ImportUncached(test[t].module)
    /\ test' = [test EXCEPT ![t].items = Len(imports) + 1]
    /\ GoTo(t, "insert")
    /\ Outside

InsertItems(t) ==
    /\ At(t, "insert")
    /\ Insert(test[t].module, test[t].items)
    /\ Holds(t, test[t].items)
    /\ Outside

\* import panics if it fails; the test ends there.
ImportFails(t) ==
    /\ At(t, "import")
    /\ used.failures < MaxFailures
    /\ used' = [used EXCEPT !.failures = @ + 1]
    /\ GiveUp(test[t].module)
    /\ test' = [test EXCEPT ![t] = NoTest]
    /\ GoTo(t, "idle")
    /\ UNCHANGED <<configVars, tests>>

Clear ==
    /\ used.clears < MaxClears
    /\ used' = [used EXCEPT !.clears = @ + 1]
    /\ ClearCache
    /\ UNCHANGED <<configVars, pc, test, tests>>

-----------------------------------------------------------------------------
(***************************************************************************)
(* ArchTests::evaluate: the cases in order, but for the ignored ones.      *)
(***************************************************************************)
Following(t) == {c \in (test[t].case + 1)..Len(Cases) : Cases[c] \notin Ignored}

StartCase(t) ==
    /\ At(t, "next")
    /\ Following(t) # {}
    /\ \E c \in Following(t) :
          /\ \A d \in Following(t) : c <= d
          /\ test' = [test EXCEPT ![t].case = c]
    /\ GoTo(t, "running")
    /\ UNCHANGED cacheVars
    /\ Outside

EndCase(t) ==
    /\ At(t, "running")
    /\ guards[t] = <<>>
    /\ test' = [test EXCEPT ![t].seen = NothingSeen]
    /\ GoTo(t, "next")
    /\ UNCHANGED cacheVars
    /\ Outside

(***************************************************************************)
(* A case panics, on its own, in the check of a condition or since its     *)
(* rule is violated: catch_unwind in ArchTestCase::run makes it a failure, *)
(* the next case follows.                                                  *)
(***************************************************************************)
CasePanics(t) ==
    /\ pc[t] \in {"running", "patterns", "judge"}
    /\ Unwind(t)
    /\ test' = [test EXCEPT ![t].failures = Append(@, test[t].case),
                            ![t].seen = NothingSeen]
    /\ GoTo(t, "next")
    /\ UNCHANGED <<cacheVars, tests, used>>

\* ArchTests::check: the test fails if a case did.
Report(t) ==
    /\ At(t, "next")
    /\ Following(t) = {}
    /\ test' = [test EXCEPT ![t] = NoTest]
    /\ GoTo(t, "idle")
    /\ UNCHANGED cacheVars
    /\ Outside

-----------------------------------------------------------------------------
(***************************************************************************)
(* What a case does with the configuration.                                *)
(***************************************************************************)
Changes(t) ==
    /\ At(t, "running")
    /\ used.updates < MaxUpdates
    /\ used' = [used EXCEPT !.updates = @ + 1]
    /\ \/ \E k \in Properties : RemoveProperty(t, k) \/ \E v \in Values : SetProperty(t, k, v)
       \/ \E p \in OtherPatterns : SetIgnorePatterns(t, p)
       \/ Reset(t)
    /\ UNCHANGED <<cacheVars, pc, test, tests>>

Enters(t) ==
    /\ At(t, "running")
    /\ Len(guards[t]) < MaxScopes
    /\ used.updates < MaxUpdates
    /\ used' = [used EXCEPT !.updates = @ + 1]
    /\ EnterScope(t)
    /\ UNCHANGED <<cacheVars, pc, test, tests>>

Leaves(t) ==
    /\ At(t, "running")
    /\ LeaveScope(t)
    /\ UNCHANGED <<cacheVars, pc, test, tests, used>>

(***************************************************************************)
(* A rule is evaluated: it reads fail_on_empty_should before and the       *)
(* ignore patterns after checking the condition, each in a copy of its     *)
(* own.                                                                    *)
(***************************************************************************)
BeginEvaluation(t) ==
    /\ At(t, "running")
    /\ used.evaluations < MaxEvaluations
    /\ used' = [used EXCEPT !.evaluations = @ + 1]
    /\ test' = [test EXCEPT ![t].seen.empty = Property(Get(t), FailOnEmpty)]
    /\ GoTo(t, "patterns")
    /\ UNCHANGED <<configVars, cacheVars, tests>>

ReadPatterns(t) ==
    /\ At(t, "patterns")
    /\ \/ /\ Get(t).patterns = None
          /\ GoTo(t, "load")
          /\ UNCHANGED test
       \/ /\ Get(t).patterns # None
          /\ test' = [test EXCEPT ![t].seen.patterns = Get(t).patterns]
          /\ GoTo(t, "judge")
    /\ UNCHANGED cacheVars
    /\ Outside

LoadPatterns(t) ==
    /\ At(t, "load")
    /\ KeepLoaded(t)
    /\ test' = [test EXCEPT ![t].seen.patterns = FilePatterns]
    /\ GoTo(t, "judge")
    /\ UNCHANGED <<cacheVars, tests, used>>

\* check: no violation is left (a violated rule: CasePanics).
Passes(t) ==
    /\ At(t, "judge")
    /\ test' = [test EXCEPT ![t].seen = NothingSeen]
    /\ GoTo(t, "running")
    /\ UNCHANGED cacheVars
    /\ Outside

-----------------------------------------------------------------------------
Advance(t) ==
    \/ GetItems(t) \/ Lookup(t) \/ Import(t) \/ InsertItems(t) \/ ImportFails(t)
    \/ StartCase(t) \/ EndCase(t) \/ CasePanics(t) \/ Report(t)
    \/ Changes(t) \/ Enters(t) \/ Leaves(t)
    \/ BeginEvaluation(t) \/ ReadPatterns(t) \/ LoadPatterns(t) \/ Passes(t)

Next ==
    \/ \E t \in Threads : Advance(t) \/ \E m \in Modules : Begin(t, m)
    \/ Clear

Spec == Init /\ [][Next]_vars

-----------------------------------------------------------------------------
(***************************************************************************)
(* A thread has a copy of its own exactly while a scope is open, and none  *)
(* is open outside a case, whatever panicked (with_thread_local_scope:     *)
(* "changes made inside do not leak out").                                 *)
(***************************************************************************)
ScopesNest ==
    \A t \in Threads :
        /\ (local[t] = None) = (guards[t] = <<>>)
        /\ pc[t] \notin InCase => guards[t] = <<>>

(***************************************************************************)
(* A step changes the configuration of one thread in its scope, or the     *)
(* global one while no thread's own changes (then a thread outside of any  *)
(* scope took it), never both: nothing done in a scope leaks out of it.    *)
(***************************************************************************)
ScopesArePrivate ==
    [][/\ global' # global => local' = local /\ \E t \in Threads : local[t] = None
       /\ \A t, u \in Threads : local'[t] # local[t] /\ local'[u] # local[u] => t = u]_vars

(***************************************************************************)
(* An evaluation in a scope uses one configuration, although it copies it  *)
(* more than once and others change theirs meanwhile.                      *)
(***************************************************************************)
ScopedEvaluationIsOne ==
    \A t \in Threads :
        At(t, "judge") /\ local[t] # None =>
            /\ test[t].seen.empty = Property(local[t], FailOnEmpty)
            /\ test[t].seen.patterns = InForce(local[t])

(***************************************************************************)
(* Patterns in force for a thread are not overwritten by those that        *)
(* another (or it) loads late.                                             *)
(***************************************************************************)
LoadingKeepsPatterns ==
    [][\A t, u \in Threads :
          At(t, "load") /\ pc'[t] = "judge" /\ Get(u).patterns # None =>
              Get(u)'.patterns = Get(u).patterns]_vars

(***************************************************************************)
(* The tests of a module with #[analyze_classes] all work on the same      *)
(* items, also if the cache is cleared between them or they start together *)
(* (tests without it may import the same key twice when they do).          *)
(***************************************************************************)
OneSnapshotPerModule ==
    \A t, u \in Threads :
        pc[t] \in InCase \cup {"next"} /\ pc[u] \in InCase \cup {"next"}
            /\ test[t].module = test[u].module /\ test[t].module \in Provided =>
                test[t].items = test[u].items

(***************************************************************************)
(* What is imported for a module with CacheMode::PerClass is its own; what *)
(* others get, from the cache or not, was imported with their key          *)
(* ("the same configuration was imported before").                         *)
(***************************************************************************)
ImportsAreWhoseTheyWere ==
    \A t \in Threads :
        test[t].items # 0 =>
            LET m == test[t].module
                owner == imports[test[t].items] IN
            owner = m \/ (owner \notin PerClass /\ m \notin PerClass /\ KeyOf[owner] = KeyOf[m])

(***************************************************************************)
(* No test waits for nobody: the items of a module that are being set are  *)
(* being set by a thread at work on them, also after an import that        *)
(* panicked, and a thread imports for one module at a time.                *)
(***************************************************************************)
WaitingIsForAnImport ==
    \A m \in Provided, t \in Threads :
        (initializing[m] = t) =
            (pc[t] \in {"lookup", "import", "insert"} /\ test[t].module = m)
=============================================================================
