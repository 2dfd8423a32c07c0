----------------------------- MODULE FreezeStore -----------------------------
(***************************************************************************)
(* Frozen rules over the default violation store: FreezingArchRule and     *)
(* TextFileBasedViolationStore of src/src/library/freeze/mod.rs.           *)
(*                                                                         *)
(* Threads (tests) evaluate FreezingArchRule objects.  Each object owns a  *)
(* store behind a mutex that its clones share; the stores of one process   *)
(* share the in-memory index of the store folder, behind a mutex of its    *)
(* own (STORED_RULES_BY_PATH); the processes share the files: the index    *)
(* stored.rules and one file of violation lines per rule.  A step is one   *)
(* access to something shared.  std::fs::write is two steps, the           *)
(* truncation and the writing, as other processes and a crash can see the  *)
(* state between them.                                                     *)
(***************************************************************************)
EXTENDS ViolationLines

CONSTANTS
    Rules,          \* rule descriptions
    Files,          \* names for the violation files (random UUIDs)
    Procs,          \* operating system processes
    Threads,        \* test threads
    ProcOf,         \* the process of a thread
    Frozen,         \* FreezingArchRule objects (an object and its clones)
    HomeOf,         \* the process a frozen rule object lives in
    RuleOf,         \* the description of the rule a frozen rule object delegates to
    Reports,        \* what evaluating a delegate can yield: sorted violation lines
    Configs,        \* the configurations in use: create, update, refreeze
    IndexExists,    \* whether the store folder starts with an (empty) index
    MaxCrashes,     \* bound: crashes of processes
    MaxFaults,      \* bound: I/O errors
    NoFile, NoThread, NoFrozen, Missing

Config == [create : BOOLEAN, update : BOOLEAN, refreeze : BOOLEAN]

(***************************************************************************)
(* An index maps every stored rule to its violation file.                  *)
(***************************************************************************)
Index == [Rules -> Files \cup {NoFile}]
EmptyIndex == [r \in Rules |-> NoFile]

ASSUME FreezeAssumption ==
    /\ ProcOf \in [Threads -> Procs]
    /\ HomeOf \in [Frozen -> Procs]
    /\ RuleOf \in [Frozen -> Rules]
    /\ Reports \subseteq Seq(Lines)
    /\ Configs \subseteq Config
    /\ IndexExists \in BOOLEAN
    /\ MaxCrashes \in Nat /\ MaxFaults \in Nat
    /\ NoFile \notin Files
    /\ NoThread \notin Threads
    /\ NoFrozen \notin Frozen
    /\ Missing \notin Index
    /\ Missing \notin Seq(Lines)

VARIABLES
    index,        \* the file stored.rules
    violations,   \* the violation files
    storedRules,  \* per process, the entry of STORED_RULES_BY_PATH
    indexLock,    \* per process, the holder of the mutex of that entry
    storeLock,    \* per frozen rule object, the holder of its store's mutex
    poisoned,     \* the frozen rule objects whose store mutex is poisoned
    pc,           \* per thread, the next step of try_evaluate
    task,         \* per thread, the locals of try_evaluate
    usedFiles,    \* the random names drawn so far: none is drawn twice
    crashes, faults

vars == <<index, violations, storedRules, indexLock, storeLock, poisoned,
          pc, task, usedFiles, crashes, faults>>

Steps == {"idle", "checkIndex", "createIndex", "load", "evaluate", "putIfAbsent",
          "truncateIndex", "writeIndex", "truncateViolations", "writeViolations",
          "readViolations", "done"}

Verdicts == {"none", "passed", "violated", "error"}

Task == [frozen  : Frozen \cup {NoFrozen},
         config  : Config,
         report  : Seq(Lines),              \* the lines of the delegate's result
         saving  : Seq(Lines),              \* the lines handed to save
         file    : Files \cup {NoFile},     \* the rule's violation file in save
         verdict : Verdicts]                \* what the evaluation will return

NoTask == [frozen |-> NoFrozen, config |-> [create |-> FALSE, update |-> FALSE, refreeze |-> FALSE],
           report |-> <<>>, saving |-> <<>>, file |-> NoFile, verdict |-> "none"]

RuleIn(t) == RuleOf[task[t].frozen]

TypeOK ==
    /\ index \in Index \cup {Missing}
    /\ violations \in [Files -> Seq(Lines) \cup {Missing}]
    /\ storedRules \in [Procs -> Index \cup {Missing}]
    /\ indexLock \in [Procs -> Threads \cup {NoThread}]
    /\ storeLock \in [Frozen -> Threads \cup {NoThread}]
    /\ poisoned \subseteq Frozen
    /\ pc \in [Threads -> Steps]
    /\ task \in [Threads -> Task]
    /\ usedFiles \subseteq Files
    /\ crashes \in 0..MaxCrashes /\ faults \in 0..MaxFaults

Init ==
    /\ index = IF IndexExists THEN EmptyIndex ELSE Missing
    /\ violations = [f \in Files |-> Missing]
    /\ storedRules = [p \in Procs |-> Missing]
    /\ indexLock = [p \in Procs |-> NoThread]
    /\ storeLock = [z \in Frozen |-> NoThread]
    /\ poisoned = {}
    /\ pc = [t \in Threads |-> "idle"]
    /\ task = [t \in Threads |-> NoTask]
    /\ usedFiles = {}
    /\ crashes = 0 /\ faults = 0

\* Mutant of Begin: the store is used without its mutex.
BeginUnlocked(t, z, c) ==
    /\ pc[t] = "idle"
    /\ HomeOf[z] = ProcOf[t]
    /\ storeLock' = [storeLock EXCEPT ![z] = t]
    /\ task' = [task EXCEPT ![t] = [NoTask EXCEPT !.frozen = z, !.config = c]]
    /\ pc' = [pc EXCEPT ![t] = "checkIndex"]
    /\ UNCHANGED <<index, violations, storedRules, indexLock, poisoned, usedFiles, crashes, faults>>

-----------------------------------------------------------------------------
(***************************************************************************)
(* try_evaluate, from its start: the configuration is read once, then the  *)
(* store is locked for the whole evaluation.  A poisoned lock panics.      *)
(***************************************************************************)
Begin(t, z, c) ==
    /\ pc[t] = "idle"
    /\ HomeOf[z] = ProcOf[t]
    /\ storeLock[z] = NoThread
    /\ z \notin poisoned
    /\ storeLock' = [storeLock EXCEPT ![z] = t]
    /\ task' = [task EXCEPT ![t] = [NoTask EXCEPT !.frozen = z, !.config = c]]
    /\ pc' = [pc EXCEPT ![t] = "checkIndex"]
    /\ UNCHANGED <<index, violations, storedRules, indexLock, poisoned, usedFiles, crashes, faults>>

BeginPoisoned(t, z) ==
    /\ pc[t] = "idle"
    /\ HomeOf[z] = ProcOf[t]
    /\ storeLock[z] = NoThread
    /\ z \in poisoned
    /\ task' = [task EXCEPT ![t] = [NoTask EXCEPT !.verdict = "error"]]
    /\ UNCHANGED <<index, violations, storedRules, indexLock, storeLock, poisoned, pc,
                   usedFiles, crashes, faults>>

(***************************************************************************)
(* The evaluation returns Err: the remaining steps are skipped.            *)
(***************************************************************************)
Fail(t) ==
    /\ task' = [task EXCEPT ![t].verdict = "error"]
    /\ pc' = [pc EXCEPT ![t] = "done"]

(***************************************************************************)
(* initialize: without an index, creation must be allowed; the folder and  *)
(* the empty index are then created.  Checking and creating are not one    *)
(* step: another thread may have created and filled the index in between.  *)
(***************************************************************************)
CheckIndex(t) ==
    /\ pc[t] = "checkIndex"
    /\ \/ /\ index # Missing
          /\ pc' = [pc EXCEPT ![t] = "load"]
          /\ UNCHANGED task
       \/ /\ index = Missing
          /\ task[t].config.create
          /\ pc' = [pc EXCEPT ![t] = "createIndex"]
          /\ UNCHANGED task
       \/ /\ index = Missing
          /\ ~task[t].config.create
          /\ Fail(t)
    /\ UNCHANGED <<index, violations, storedRules, indexLock, storeLock, poisoned,
                   usedFiles, crashes, faults>>

CreateIndex(t) ==
    /\ pc[t] = "createIndex"
    /\ index' = EmptyIndex
    /\ pc' = [pc EXCEPT ![t] = "load"]
    /\ UNCHANGED <<violations, storedRules, indexLock, storeLock, poisoned, task,
                   usedFiles, crashes, faults>>

(***************************************************************************)
(* initialize, the end: the first store of the process loads the index,    *)
(* the others share what it loaded.                                        *)
(***************************************************************************)
Load(t) ==
    LET p == ProcOf[t] IN
    /\ pc[t] = "load"
    /\ storedRules' = [storedRules EXCEPT ![p] = IF @ = Missing THEN index ELSE @]
    /\ pc' = [pc EXCEPT ![t] = "evaluate"]
    /\ UNCHANGED <<index, violations, indexLock, storeLock, poisoned, task,
                   usedFiles, crashes, faults>>

\* Mutant of Save: a refused update is taken for a success.
SaveSilentlyRefused(t, lines, changes) ==
    IF task[t].config.update
    THEN /\ task' = [task EXCEPT ![t] = [changes EXCEPT !.saving = lines]]
         /\ pc' = [pc EXCEPT ![t] = "putIfAbsent"]
    ELSE /\ task' = [task EXCEPT ![t] = changes]
         /\ pc' = [pc EXCEPT ![t] = "done"]

(***************************************************************************)
(* save starts with the check that updating is allowed.                    *)
(***************************************************************************)
Save(t, lines, changes) ==
    IF task[t].config.update
    THEN /\ task' = [task EXCEPT ![t] = [changes EXCEPT !.saving = lines]]
         /\ pc' = [pc EXCEPT ![t] = "putIfAbsent"]
    ELSE Fail(t)

(***************************************************************************)
(* The delegate is evaluated; then contains looks into the index under its *)
(* lock.  A rule not stored yet, or any rule when refreezing, is saved     *)
(* with the lines just found and passes.                                   *)
(***************************************************************************)
Evaluate(t, report) ==
    LET p == ProcOf[t]
        found == [task[t] EXCEPT !.report = report] IN
    /\ pc[t] = "evaluate"
    /\ indexLock[p] = NoThread
    /\ \/ /\ storedRules[p][RuleIn(t)] = NoFile \/ task[t].config.refreeze
          /\ Save(t, report, [found EXCEPT !.verdict = "passed"])
       \/ /\ storedRules[p][RuleIn(t)] # NoFile /\ ~task[t].config.refreeze
          /\ task' = [task EXCEPT ![t] = found]
          /\ pc' = [pc EXCEPT ![t] = "readViolations"]
    /\ UNCHANGED <<index, violations, storedRules, indexLock, storeLock, poisoned,
                   usedFiles, crashes, faults>>

(***************************************************************************)
(* The delegate panics (a rule that checks nothing does): unwinding        *)
(* releases the store's mutex and poisons it.                              *)
(***************************************************************************)
DelegatePanics(t) ==
    LET z == task[t].frozen IN
    /\ pc[t] = "evaluate"
    /\ storeLock' = [storeLock EXCEPT ![z] = NoThread]
    /\ poisoned' = poisoned \cup {z}
    /\ task' = [task EXCEPT ![t] = [NoTask EXCEPT !.verdict = "error"]]
    /\ pc' = [pc EXCEPT ![t] = "idle"]
    /\ UNCHANGED <<index, violations, storedRules, indexLock, usedFiles, crashes, faults>>

(***************************************************************************)
(* violations(rule): the file name is looked up under the index lock (an   *)
(* entry never changes) and the file is read; then the lines are           *)
(* categorized.  Stored lines that no current line accounts for shrink the *)
(* store.                                                                  *)
(***************************************************************************)
ReadViolations(t) ==
    LET p == ProcOf[t]
        stored == violations[storedRules[p][RuleIn(t)]] IN
    /\ pc[t] = "readViolations"
    /\ indexLock[p] = NoThread
    /\ \/ /\ stored = Missing
          /\ Fail(t)
       \/ /\ stored # Missing
          /\ \E c \in CategorizedViolations(task[t].report, stored) :
                LET judged == [task[t] EXCEPT !.verdict =
                                 IF NewLines(task[t].report, c.knownActual) = {}
                                 THEN "passed" ELSE "violated"] IN
                \/ /\ c.storedSolved = {}
                   /\ task' = [task EXCEPT ![t] = judged]
                   /\ pc' = [pc EXCEPT ![t] = "done"]
                \/ /\ c.storedSolved # {}
                   /\ Save(t, c.storedUnsolved, judged)
    /\ UNCHANGED <<index, violations, storedRules, indexLock, storeLock, poisoned,
                   usedFiles, crashes, faults>>

\* Mutants of PutIfAbsent: names may repeat; an existing entry is replaced.
PutAnyName(t) ==
    LET p == ProcOf[t]
        existing == storedRules[p][RuleIn(t)] IN
    /\ pc[t] = "putIfAbsent"
    /\ indexLock[p] = NoThread
    /\ existing = NoFile
    /\ \E f \in Files :
          /\ storedRules' = [storedRules EXCEPT ![p][RuleIn(t)] = f]
          /\ task' = [task EXCEPT ![t].file = f]
          /\ usedFiles' = usedFiles \cup {f}
    /\ indexLock' = [indexLock EXCEPT ![p] = t]
    /\ pc' = [pc EXCEPT ![t] = "truncateIndex"]
    /\ UNCHANGED <<index, violations, storeLock, poisoned, crashes, faults>>

PutAlways(t) ==
    LET p == ProcOf[t] IN
    /\ pc[t] = "putIfAbsent"
    /\ indexLock[p] = NoThread
    /\ \E f \in Files \ usedFiles :
          /\ storedRules' = [storedRules EXCEPT ![p][RuleIn(t)] = f]
          /\ task' = [task EXCEPT ![t].file = f]
          /\ usedFiles' = usedFiles \cup {f}
    /\ indexLock' = [indexLock EXCEPT ![p] = t]
    /\ pc' = [pc EXCEPT ![t] = "truncateIndex"]
    /\ UNCHANGED <<index, violations, storeLock, poisoned, crashes, faults>>

(***************************************************************************)
(* ensure_rule_file_name: put_if_absent under the index lock.  A new rule  *)
(* is entered in memory first, the index is written while the lock is      *)
(* held.  The random name is drawn here, where it is used.                 *)
(***************************************************************************)
PutIfAbsent(t) ==
    LET p == ProcOf[t]
        existing == storedRules[p][RuleIn(t)] IN
    /\ pc[t] = "putIfAbsent"
    /\ indexLock[p] = NoThread
    /\ \/ /\ existing # NoFile
          /\ task' = [task EXCEPT ![t].file = existing]
          /\ pc' = [pc EXCEPT ![t] = "truncateViolations"]
          /\ UNCHANGED <<storedRules, indexLock, usedFiles>>
       \/ /\ existing = NoFile
          /\ \E f \in Files \ usedFiles :
                /\ storedRules' = [storedRules EXCEPT ![p][RuleIn(t)] = f]
                /\ task' = [task EXCEPT ![t].file = f]
                /\ usedFiles' = usedFiles \cup {f}
          /\ indexLock' = [indexLock EXCEPT ![p] = t]
          /\ pc' = [pc EXCEPT ![t] = "truncateIndex"]
    /\ UNCHANGED <<index, violations, storeLock, poisoned, crashes, faults>>

TruncateIndex(t) ==
    /\ pc[t] = "truncateIndex"
    /\ index' = EmptyIndex
    /\ pc' = [pc EXCEPT ![t] = "writeIndex"]
    /\ UNCHANGED <<violations, storedRules, indexLock, storeLock, poisoned, task,
                   usedFiles, crashes, faults>>

\* Mutants of WriteIndex: only the new entry is written; the lock is kept.
WriteNewEntryOnly(t) ==
    LET p == ProcOf[t] IN
    /\ pc[t] = "writeIndex"
    /\ index' = [EmptyIndex EXCEPT ![RuleIn(t)] = task[t].file]
    /\ indexLock' = [indexLock EXCEPT ![p] = NoThread]
    /\ pc' = [pc EXCEPT ![t] = "truncateViolations"]
    /\ UNCHANGED <<violations, storedRules, storeLock, poisoned, task, usedFiles, crashes, faults>>

WriteIndexKeepingLock(t) ==
    LET p == ProcOf[t] IN
    /\ pc[t] = "writeIndex"
    /\ index' = storedRules[p]
    /\ pc' = [pc EXCEPT ![t] = "truncateViolations"]
    /\ UNCHANGED <<violations, storedRules, indexLock, storeLock, poisoned, task,
                   usedFiles, crashes, faults>>

WriteIndex(t) ==
    LET p == ProcOf[t] IN
    /\ pc[t] = "writeIndex"
    /\ index' = storedRules[p]
    /\ indexLock' = [indexLock EXCEPT ![p] = NoThread]
    /\ pc' = [pc EXCEPT ![t] = "truncateViolations"]
    /\ UNCHANGED <<violations, storedRules, storeLock, poisoned, task, usedFiles, crashes, faults>>

(***************************************************************************)
(* save, the end: the violation file is overwritten.                       *)
(***************************************************************************)
TruncateViolations(t) ==
    /\ pc[t] = "truncateViolations"
    /\ violations' = [violations EXCEPT ![task[t].file] = <<>>]
    /\ pc' = [pc EXCEPT ![t] = "writeViolations"]
    /\ UNCHANGED <<index, storedRules, indexLock, storeLock, poisoned, task,
                   usedFiles, crashes, faults>>

WriteViolations(t) ==
    /\ pc[t] = "writeViolations"
    /\ violations' = [violations EXCEPT ![task[t].file] = task[t].saving]
    /\ pc' = [pc EXCEPT ![t] = "done"]
    /\ UNCHANGED <<index, storedRules, indexLock, storeLock, poisoned, task,
                   usedFiles, crashes, faults>>

(***************************************************************************)
(* try_evaluate returns: the store is unlocked.  evaluate panics with an   *)
(* error only now, so an error does not poison the mutex.                  *)
(***************************************************************************)
Finish(t) ==
    LET z == task[t].frozen IN
    /\ pc[t] = "done"
    /\ storeLock' = [storeLock EXCEPT ![z] = NoThread]
    /\ pc' = [pc EXCEPT ![t] = "idle"]
    /\ task' = [task EXCEPT ![t] = [NoTask EXCEPT !.verdict = task[t].verdict]]
    /\ UNCHANGED <<index, violations, storedRules, indexLock, poisoned, usedFiles, crashes, faults>>

-----------------------------------------------------------------------------
(***************************************************************************)
(* The environment.  An I/O error at any file access ends the evaluation   *)
(* with an error; between truncating and writing it leaves the file empty. *)
(* The guard of the index mutex is dropped, the in-memory entry stays.     *)
(***************************************************************************)
FileSteps == {"checkIndex", "createIndex", "load", "truncateIndex", "writeIndex",
              "truncateViolations", "writeViolations", "readViolations"}

IOError(t) ==
    LET p == ProcOf[t] IN
    /\ pc[t] \in FileSteps
    /\ faults < MaxFaults
    /\ faults' = faults + 1
    /\ indexLock' = [indexLock EXCEPT ![p] = IF @ = t THEN NoThread ELSE @]
    /\ Fail(t)
    /\ UNCHANGED <<index, violations, storedRules, storeLock, poisoned, usedFiles, crashes>>

(***************************************************************************)
(* A process dies and is started again: only the files survive.            *)
(***************************************************************************)
Crash(p) ==
    /\ crashes < MaxCrashes
    /\ crashes' = crashes + 1
    /\ storedRules' = [storedRules EXCEPT ![p] = Missing]
    /\ indexLock' = [indexLock EXCEPT ![p] = NoThread]
    /\ storeLock' = [z \in Frozen |-> IF HomeOf[z] = p THEN NoThread ELSE storeLock[z]]
    /\ poisoned' = {z \in poisoned : HomeOf[z] # p}
    /\ pc' = [t \in Threads |-> IF ProcOf[t] = p THEN "idle" ELSE pc[t]]
    /\ task' = [t \in Threads |-> IF ProcOf[t] = p THEN NoTask ELSE task[t]]
    /\ UNCHANGED <<index, violations, usedFiles, faults>>

-----------------------------------------------------------------------------
Advance(t) ==
    \/ CheckIndex(t) \/ CreateIndex(t) \/ Load(t)
    \/ \E report \in Reports : Evaluate(t, report)
    \/ DelegatePanics(t)
    \/ ReadViolations(t) \/ PutIfAbsent(t)
    \/ TruncateIndex(t) \/ WriteIndex(t)
    \/ TruncateViolations(t) \/ WriteViolations(t)
    \/ Finish(t)

Next ==
    \/ \E t \in Threads :
         \/ \E z \in Frozen, c \in Configs : Begin(t, z, c)
         \/ \E z \in Frozen : BeginPoisoned(t, z)
         \/ Advance(t)
         \/ IOError(t)
    \/ \E p \in Procs : Crash(p)

Spec == Init /\ [][Next]_vars

(***************************************************************************)
(* A started evaluation keeps running: the operating system schedules the  *)
(* thread.  Nothing makes a test start an evaluation.                      *)
(***************************************************************************)
FairSpec == Spec /\ \A t \in Threads : WF_vars(Advance(t))

-----------------------------------------------------------------------------
(***************************************************************************)
(* Safety.                                                                 *)
(***************************************************************************)
Loaded(p) == storedRules[p] # Missing

(***************************************************************************)
(* Somewhere the rule r is mapped to the file f: on disk, in the memory of *)
(* a process, in a save under way.                                         *)
(***************************************************************************)
Keeps(r, f) ==
    \/ index # Missing /\ index[r] = f
    \/ \E p \in Procs : Loaded(p) /\ storedRules[p][r] = f
    \/ \E t \in Threads : task[t].file = f /\ RuleIn(t) = r

(***************************************************************************)
(* Two rules never share a violation file, whatever processes crash, lose  *)
(* each other's index entries or fail half-way (put_if_absent keeps the    *)
(* first name of a rule, a candidate is never used twice).                 *)
(***************************************************************************)
FilesNotShared ==
    \A f \in Files, r, s \in Rules : Keeps(r, f) /\ Keeps(s, f) => r = s

(***************************************************************************)
(* With one process, the index on disk never names a file for a rule that  *)
(* the loaded index does not: memory is changed first (put_if_absent), so  *)
(* neither a crash, an I/O error nor the creation race can make disk and   *)
(* memory disagree other than by a missing entry.                          *)
(***************************************************************************)
DiskNeverAhead ==
    \A p \in Procs : Loaded(p) =>
        /\ index # Missing
        /\ \A r \in Rules : index[r] \in {NoFile, storedRules[p][r]}

(***************************************************************************)
(* When nobody is writing the index, what a process holds as stored is on  *)
(* disk, so that the next process finds the rule frozen.  It holds for one *)
(* process, without I/O errors, in a folder that starts with an index.     *)
(* Each condition is needed: processes overwrite each other's entries      *)
(* (mod.rs:161); an error leaves an entry in memory only; and without an   *)
(* index two threads that both pass the check of initialize (mod.rs:284)   *)
(* both create it, the later one emptying what the other has written since *)
(* (mod.rs:285), until the next new rule writes the index again.           *)
(***************************************************************************)
StoredIsIndexed ==
    (\A p \in Procs : indexLock[p] = NoThread) =>
        \A p \in Procs : Loaded(p) =>
            /\ index # Missing
            /\ \A r \in Rules : storedRules[p][r] # NoFile => index[r] = storedRules[p][r]

(***************************************************************************)
(* A rule that contains finds in the index has stored violations           *)
(* (ViolationStore::contains: "Whether violations of `rule` were stored    *)
(* before"): violations(rule) does not fail with StoreRead.                *)
(***************************************************************************)
ContainsMeansStored ==
    \A t \in Threads : pc[t] = "readViolations" =>
        violations[storedRules[ProcOf[t]][RuleIn(t)]] # Missing

(***************************************************************************)
(* When a frozen rule passes, every violation it found is accounted for by *)
(* a line of its violation file as that evaluation leaves it: after a      *)
(* freeze, a refreeze, a tightening, or none of them.                      *)
(***************************************************************************)
Covers(stored, report) ==
    \A i \in DOMAIN report : \E j \in DOMAIN stored : <<report[i], stored[j]>> \in Matches

PassedIsCovered ==
    \A t \in Threads : pc[t] = "done" /\ task[t].verdict = "passed" =>
        LET file == storedRules[ProcOf[t]][RuleIn(t)] IN
        /\ file # NoFile
        /\ violations[file] # Missing
        /\ Covers(violations[file], task[t].report)

(***************************************************************************)
(* The ratchet.  What is tolerated for a rule is its violation file, or    *)
(* the lines a thread is about to write to it once it is truncated.  The   *)
(* file is found through the loaded index, before that through the disk.   *)
(***************************************************************************)
FileOf(r) ==
    LET p == CHOOSE p \in Procs : TRUE IN
    IF Loaded(p) THEN storedRules[p][r]
    ELSE IF index = Missing THEN NoFile ELSE index[r]

Writers(f) == {t \in Threads : pc[t] = "writeViolations" /\ task[t].file = f}

Tolerated(r) ==
    IF FileOf(r) = NoFile THEN Missing
    ELSE IF Writers(FileOf(r)) # {} THEN task[CHOOSE t \in Writers(FileOf(r)) : TRUE].saving
    ELSE violations[FileOf(r)]

Promise == INSTANCE FrozenRules
             WITH tolerated <- [r \in Rules |-> Tolerated(r)], NotFrozen <- Missing

(***************************************************************************)
(* The store implements the promise: no interleaving of evaluations (of    *)
(* clones, of other rules of the folder) ever makes a frozen rule tolerate *)
(* a line it did not tolerate before.                                      *)
(***************************************************************************)
Ratchet == Promise!Spec

(***************************************************************************)
(* Every evaluation that locked its store comes to an end and unlocks it,  *)
(* although it needs the index lock while it holds the store's.            *)
(***************************************************************************)
EvaluationEnds ==
    \A t \in Threads : pc[t] # "idle" ~> pc[t] = "idle"
=============================================================================
