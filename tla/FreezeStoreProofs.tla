------------------------- MODULE FreezeStoreProofs -------------------------
(***************************************************************************)
(* Theorems about FreezeStore: its type invariant, that two rules never    *)
(* share a violation file (any number of processes, threads, crashes and   *)
(* I/O errors), and that with one process the disk is never ahead of the   *)
(* memory; what an evaluation relies on while it holds the mutex of its    *)
(* store, that a rule that passes is covered by its violation file, that   *)
(* the index and the violation files are there when they are looked for,   *)
(* and that the store implements FrozenRules.                              *)
(***************************************************************************)
EXTENDS FreezeStore, FiniteSetTheorems, SequenceTheorems, TLAPS

(***************************************************************************)
(* What the steps of an evaluation rely on.                                *)
(***************************************************************************)
AfterCheck == Steps \ {"idle", "checkIndex", "createIndex", "done"}
AfterLoad == AfterCheck \ {"load"}
WritingSteps == {"truncateIndex", "writeIndex", "truncateViolations", "writeViolations"}

TaskOK ==
    \A t \in Threads :
        /\ pc[t] # "idle" => task[t].frozen \in Frozen
        /\ pc[t] \in AfterCheck => index # Missing
        /\ pc[t] \in AfterLoad => Loaded(ProcOf[t])
        /\ pc[t] = "readViolations" => storedRules[ProcOf[t]][RuleIn(t)] # NoFile
        /\ task[t].file # NoFile => task[t].frozen \in Frozen

TInv == TypeOK /\ TaskOK

(***************************************************************************)
(* A function on 1..n is a sequence.                                       *)
(***************************************************************************)
LEMMA FunctionIsSeq ==
    ASSUME NEW S, NEW n \in Nat, NEW f \in [1..n -> S]
    PROVE  f \in Seq(S)
<1>1. f \in UNION {[1..k -> S] : k \in Nat}
  BY Zenon
<1> QED
  BY <1>1, SeqDef, Zenon

(***************************************************************************)
(* The lines to save computed by CategorizedViolations are stored lines.   *)
(***************************************************************************)
LEMMA UnsolvedAreLines ==
    ASSUME NEW actual \in Seq(Lines), NEW stored \in Seq(Lines),
           NEW c \in CategorizedViolations(actual, stored)
    PROVE  c.storedUnsolved \in Seq(Lines)
<1>1. PICK m \in [DOMAIN actual -> 0..Len(stored)] :
        c \in { Categories(e, m, actual, stored)
                : e \in {e \in [1..Cardinality(Matched(m)) -> Matched(m)] : IsVisitOrder(e, m)} }
  BY DEF CategorizedViolations
<1>2. PICK e \in [1..Cardinality(Matched(m)) -> Matched(m)] : c = Categories(e, m, actual, stored)
  BY <1>1
<1>3. c.storedUnsolved = [a \in DOMAIN e |-> stored[m[e[a]]]]
  BY <1>2 DEF Categories, Unsolved
<1>4. \A a \in DOMAIN e : stored[m[e[a]]] \in Lines
  <2> SUFFICES ASSUME NEW a \in DOMAIN e PROVE stored[m[e[a]]] \in Lines
    OBVIOUS
  <2>1. e[a] \in Matched(m)
    BY <1>2
  <2>2. m[e[a]] \in 1..Len(stored)
    BY <2>1 DEF Matched
  <2> QED
    BY <2>2
<1>5. Cardinality(Matched(m)) \in Nat
  <2>1. Matched(m) \subseteq 1..Len(actual)
    BY DEF Matched
  <2>2. IsFiniteSet(1..Len(actual))
    <3>1. 1 \in Int /\ Len(actual) \in Int
      OBVIOUS
    <3> QED
      BY <3>1, FS_Interval
  <2>3. IsFiniteSet(Matched(m))
    BY <2>1, <2>2, FS_Subset
  <2> QED
    BY <2>3, FS_CardinalityType
<1>6. c.storedUnsolved \in [1..Cardinality(Matched(m)) -> Lines]
  <2>1. DOMAIN e = 1..Cardinality(Matched(m))
    BY <1>2
  <2> QED
    BY <1>3, <1>4, <2>1
<1> QED
  BY <1>5, <1>6, FunctionIsSeq

-----------------------------------------------------------------------------
(***************************************************************************)
(* The empty index is an index; no task is a task.                         *)
(***************************************************************************)
LEMMA InitialValues ==
    /\ EmptyIndex \in Index
    /\ NoTask \in Task
    /\ NoTask.file = NoFile
BY DEF EmptyIndex, Index, NoTask, Task, Config, Verdicts

(***************************************************************************)
(* The initial states are well-typed.                                      *)
(***************************************************************************)
LEMMA InitTInv == Init => TInv
BY FreezeAssumption, InitialValues
   DEF Init, TInv, TypeOK, TaskOK, Steps, AfterCheck, AfterLoad, Index, Loaded

(***************************************************************************)
(* Ending with an error keeps the locals well-formed.                      *)
(***************************************************************************)
LEMMA FailTInv ==
    ASSUME TInv, NEW t \in Threads, Fail(t)
    PROVE  /\ pc' \in [Threads -> Steps]
           /\ task' \in [Threads -> Task]
           /\ \A u \in Threads : /\ pc'[u] = IF u = t THEN "done" ELSE pc[u]
                                 /\ task'[u].frozen = task[u].frozen
                                 /\ task'[u].file = task[u].file
<1>1. pc \in [Threads -> Steps] /\ task \in [Threads -> Task]
  BY DEF TInv, TypeOK
<1>2. pc' \in [Threads -> Steps] /\ \A u \in Threads : pc'[u] = IF u = t THEN "done" ELSE pc[u]
  BY <1>1 DEF Fail, Steps
<1>3. [task[t] EXCEPT !.verdict = "error"] \in Task
  BY <1>1 DEF Task, Verdicts
<1>4. task' = [task EXCEPT ![t] = [task[t] EXCEPT !.verdict = "error"]]
  BY <1>1 DEF Fail
<1>5. task' \in [Threads -> Task]
  BY <1>1, <1>3, <1>4
<1>6. \A u \in Threads : task'[u].frozen = task[u].frozen /\ task'[u].file = task[u].file
  BY <1>1, <1>4 DEF Task
<1> QED
  BY <1>2, <1>5, <1>6

(***************************************************************************)
(* So does starting to save lines, or being refused to.                    *)
(***************************************************************************)
LEMMA SaveTInv ==
    ASSUME TInv, NEW t \in Threads, NEW lines \in Seq(Lines), NEW changes \in Task,
           changes.frozen = task[t].frozen, changes.file = task[t].file,
           Save(t, lines, changes)
    PROVE  /\ pc' \in [Threads -> Steps]
           /\ task' \in [Threads -> Task]
           /\ \A u \in Threads : /\ u # t => pc'[u] = pc[u]
                                 /\ pc'[t] \in {"putIfAbsent", "done"}
                                 /\ task'[u].frozen = task[u].frozen
                                 /\ task'[u].file = task[u].file
<1>1. pc \in [Threads -> Steps] /\ task \in [Threads -> Task]
  BY DEF TInv, TypeOK
<1>2. CASE task[t].config.update
  <2> DEFINE saved == [changes EXCEPT !.saving = lines]
  <2>1. saved \in Task /\ saved.frozen = task[t].frozen /\ saved.file = task[t].file
    BY DEF Task
  <2>2. task' = [task EXCEPT ![t] = saved] /\ pc' = [pc EXCEPT ![t] = "putIfAbsent"]
    BY <1>2 DEF Save
  <2> HIDE DEF saved
  <2> QED
    BY <1>1, <2>1, <2>2 DEF Steps
<1>3. CASE ~task[t].config.update
  BY <1>3, FailTInv DEF Save
<1> QED
  BY <1>2, <1>3

(***************************************************************************)
(* One step of Next preserves TInv.                                        *)
(***************************************************************************)
LEMMA NextTInv == TInv /\ [Next]_vars => TInv'
<1> SUFFICES ASSUME TInv, [Next]_vars PROVE TInv'
  OBVIOUS
<1> USE FreezeAssumption, InitialValues DEF TInv
<1>1. ASSUME NEW t \in Threads, NEW z \in Frozen, NEW c \in Configs, Begin(t, z, c)
      PROVE  TInv'
  <2> DEFINE started == [NoTask EXCEPT !.frozen = z, !.config = c]
  <2>1. started \in Task /\ started.frozen = z /\ started.file = NoFile
    BY DEF Task, NoTask, Config, Verdicts
  <2>2. /\ task' = [task EXCEPT ![t] = started]
        /\ pc' = [pc EXCEPT ![t] = "checkIndex"]
        /\ storeLock' = [storeLock EXCEPT ![z] = t]
        /\ UNCHANGED <<index, violations, storedRules, indexLock, poisoned, usedFiles,
                       crashes, faults>>
    BY <1>1 DEF Begin
  <2> HIDE DEF started
  <2>3. TypeOK'
    BY <2>1, <2>2 DEF TypeOK, Steps
  <2>4. TaskOK'
    BY <2>1, <2>2 DEF TypeOK, TaskOK, Steps, AfterCheck, AfterLoad, Loaded, RuleIn
  <2> QED
    BY <2>3, <2>4
<1>2. ASSUME NEW t \in Threads, NEW z \in Frozen, BeginPoisoned(t, z)
      PROVE  TInv'
  BY <1>2 DEF BeginPoisoned, TypeOK, TaskOK, Task, Config, NoTask, Steps, AfterCheck, AfterLoad, Loaded, RuleIn, Verdicts
<1>3. ASSUME NEW t \in Threads, CheckIndex(t)
      PROVE  TInv'
  <2>1. CASE Fail(t)
    BY <1>3, <2>1, FailTInv DEF CheckIndex, TypeOK, TaskOK, AfterCheck, AfterLoad, Loaded, RuleIn
  <2>2. CASE UNCHANGED task /\ pc' = [pc EXCEPT ![t] = "load"] /\ index # Missing
    BY <1>3, <2>2 DEF CheckIndex, TypeOK, TaskOK, Steps, AfterCheck, AfterLoad, Loaded, RuleIn
  <2>3. CASE UNCHANGED task /\ pc' = [pc EXCEPT ![t] = "createIndex"]
    BY <1>3, <2>3 DEF CheckIndex, TypeOK, TaskOK, Steps, AfterCheck, AfterLoad, Loaded, RuleIn
  <2> QED
    BY <1>3, <2>1, <2>2, <2>3 DEF CheckIndex
<1>4. ASSUME NEW t \in Threads, CreateIndex(t)
      PROVE  TInv'
  <2>1. TypeOK'
    BY <1>4 DEF CreateIndex, TypeOK, TaskOK, Task, Config, Steps, AfterCheck, AfterLoad, Loaded, Index, Verdicts, RuleIn, NoTask
  <2>2. TaskOK'
    BY <1>4 DEF CreateIndex, TypeOK, TaskOK, Task, Config, Steps, AfterCheck, AfterLoad, Loaded, Index, RuleIn, NoTask
  <2> QED
    BY <2>1, <2>2
<1>5. ASSUME NEW t \in Threads, Load(t)
      PROVE  TInv'
  <2>1. TypeOK'
    BY <1>5 DEF Load, TypeOK, TaskOK, Task, Config, Steps, AfterCheck, AfterLoad, Loaded, Index, Verdicts, RuleIn, NoTask
  <2>2. TaskOK'
    BY <1>5 DEF Load, TypeOK, TaskOK, Task, Config, Steps, AfterCheck, AfterLoad, Loaded, Index, RuleIn, NoTask
  <2> QED
    BY <2>1, <2>2
<1>6. ASSUME NEW t \in Threads, NEW report \in Reports, Evaluate(t, report)
      PROVE  TInv'
  <2> DEFINE found == [task[t] EXCEPT !.report = report]
  <2>1. report \in Seq(Lines) /\ task[t] \in Task /\ pc[t] = "evaluate"
    BY <1>6 DEF Evaluate, TypeOK
  <2>2. found \in Task /\ found.frozen = task[t].frozen /\ found.file = task[t].file
    BY <2>1 DEF Task
  <2>3. [found EXCEPT !.verdict = "passed"] \in Task
    BY <2>2 DEF Task, Verdicts
  <2>4. CASE Save(t, report, [found EXCEPT !.verdict = "passed"])
    <3>1. /\ [found EXCEPT !.verdict = "passed"].frozen = task[t].frozen
          /\ [found EXCEPT !.verdict = "passed"].file = task[t].file
      BY <2>1 DEF Task
    <3>2. /\ pc' \in [Threads -> Steps]
          /\ task' \in [Threads -> Task]
          /\ \A u \in Threads : /\ u # t => pc'[u] = pc[u]
                                /\ pc'[t] \in {"putIfAbsent", "done"}
                                /\ task'[u].frozen = task[u].frozen
                                /\ task'[u].file = task[u].file
      BY <2>1, <2>3, <2>4, <3>1, SaveTInv
    <3>3. UNCHANGED <<index, violations, storedRules, indexLock, storeLock, poisoned,
                      usedFiles, crashes, faults>>
      BY <1>6 DEF Evaluate
    <3> HIDE DEF found
    <3>4. TypeOK'
      BY <3>2, <3>3 DEF TypeOK
    <3>5. TaskOK'
      BY <2>1, <3>2, <3>3 DEF TaskOK, Steps, AfterCheck, AfterLoad, Loaded, RuleIn
    <3> QED
      BY <3>4, <3>5
  <2>5. CASE /\ storedRules[ProcOf[t]][RuleIn(t)] # NoFile
             /\ task' = [task EXCEPT ![t] = found]
             /\ pc' = [pc EXCEPT ![t] = "readViolations"]
    <3>1. UNCHANGED <<index, violations, storedRules, indexLock, storeLock, poisoned,
                      usedFiles, crashes, faults>>
      BY <1>6 DEF Evaluate
    <3> HIDE DEF found
    <3>2. TypeOK'
      BY <2>2, <2>5, <3>1 DEF TypeOK, Steps
    <3>3. TaskOK'
      BY <2>1, <2>2, <2>5, <3>1 DEF TypeOK, TaskOK, Steps, AfterCheck, AfterLoad, Loaded, RuleIn
    <3> QED
      BY <3>2, <3>3
  <2> QED
    BY <1>6, <2>4, <2>5 DEF Evaluate
<1>7. ASSUME NEW t \in Threads, DelegatePanics(t)
      PROVE  TInv'
  <2>1. TypeOK'
    BY <1>7 DEF DelegatePanics, TypeOK, TaskOK, Task, Config, Steps, AfterCheck, AfterLoad, Loaded, Index, Verdicts, RuleIn, NoTask
  <2>2. TaskOK'
    BY <1>7 DEF DelegatePanics, TypeOK, TaskOK, Task, Config, Steps, AfterCheck, AfterLoad, Loaded, Index, RuleIn, NoTask
  <2> QED
    BY <2>1, <2>2
<1>8. ASSUME NEW t \in Threads, ReadViolations(t)
      PROVE  TInv'
  <2> DEFINE stored == violations[storedRules[ProcOf[t]][RuleIn(t)]]
             judged(c) == [task[t] EXCEPT !.verdict =
                             IF NewLines(task[t].report, c.knownActual) = {}
                             THEN "passed" ELSE "violated"]
  <2>1. task[t] \in Task /\ pc[t] = "readViolations"
    BY <1>8 DEF ReadViolations, TypeOK
  <2>2. \A c : /\ judged(c) \in Task
               /\ judged(c).frozen = task[t].frozen
               /\ judged(c).file = task[t].file
    BY <2>1 DEF Task, Verdicts
  <2>3. CASE Fail(t)
    BY <1>8, <2>3, FailTInv DEF ReadViolations, TypeOK, TaskOK, AfterCheck, AfterLoad, Loaded, RuleIn
  <2>4. ASSUME stored # Missing, NEW c \in CategorizedViolations(task[t].report, stored),
               \/ task' = [task EXCEPT ![t] = judged(c)] /\ pc' = [pc EXCEPT ![t] = "done"]
               \/ Save(t, c.storedUnsolved, judged(c))
        PROVE  TInv'
    <3>1. stored \in Seq(Lines)
      <4>1. storedRules[ProcOf[t]] \in Index /\ RuleIn(t) \in Rules
        BY <2>1 DEF TypeOK, TaskOK, Loaded, RuleIn, AfterLoad, AfterCheck, Steps
      <4>2. storedRules[ProcOf[t]][RuleIn(t)] \in Files
        BY <2>1, <4>1 DEF TaskOK, Index
      <4> QED
        BY <2>4, <4>2 DEF TypeOK
    <3>2. c.storedUnsolved \in Seq(Lines)
      BY <2>1, <2>4, <3>1, UnsolvedAreLines DEF Task
    <3>3. /\ pc' \in [Threads -> Steps]
          /\ task' \in [Threads -> Task]
          /\ \A u \in Threads : /\ u # t => pc'[u] = pc[u]
                                /\ pc'[t] \in {"putIfAbsent", "done"}
                                /\ task'[u].frozen = task[u].frozen
                                /\ task'[u].file = task[u].file
      <4>1. CASE Save(t, c.storedUnsolved, judged(c))
        BY <2>2, <3>2, <4>1, SaveTInv
      <4>2. CASE task' = [task EXCEPT ![t] = judged(c)] /\ pc' = [pc EXCEPT ![t] = "done"]
        <5> HIDE DEF judged
        <5> QED
          BY <2>1, <2>2, <4>2 DEF TypeOK, Steps
      <4> QED
        BY <2>4, <4>1, <4>2
    <3> HIDE DEF stored, judged
    <3> QED
      BY <1>8, <2>1, <3>3 DEF ReadViolations, TypeOK, TaskOK, Steps, AfterCheck, AfterLoad, Loaded, RuleIn
  <2> QED
    BY <1>8, <2>3, <2>4 DEF ReadViolations
<1>9. ASSUME NEW t \in Threads, PutIfAbsent(t)
      PROVE  TInv'
  <2> DEFINE p == ProcOf[t]
             r == RuleIn(t)
  <2>1. /\ pc[t] = "putIfAbsent" /\ task[t] \in Task /\ task[t].frozen \in Frozen
        /\ p \in Procs /\ storedRules[p] \in Index /\ r \in Rules
    BY <1>9 DEF PutIfAbsent, TypeOK, TaskOK, Loaded, RuleIn, AfterLoad, AfterCheck, Steps
  <2>2. \A f \in Files \cup {NoFile} : [task[t] EXCEPT !.file = f] \in Task
    BY <2>1 DEF Task
  <2>3. CASE /\ storedRules[p][r] # NoFile
             /\ task' = [task EXCEPT ![t].file = storedRules[p][r]]
             /\ pc' = [pc EXCEPT ![t] = "truncateViolations"]
             /\ UNCHANGED <<storedRules, indexLock, usedFiles>>
    <3>1. task' = [task EXCEPT ![t] = [task[t] EXCEPT !.file = storedRules[p][r]]]
      BY <2>1, <2>3 DEF TypeOK
    <3>2. storedRules[p][r] \in Files \cup {NoFile}
      BY <2>1 DEF Index
    <3>3. task' \in [Threads -> Task]
      BY <2>2, <3>1, <3>2 DEF TypeOK
    <3>4. \A u \in Threads : /\ task'[u].frozen = task[u].frozen
                             /\ u # t => task'[u].file = task[u].file
      BY <3>1 DEF TypeOK, Task
    <3> QED
      BY <1>9, <2>1, <2>3, <3>3, <3>4
      DEF PutIfAbsent, TypeOK, TaskOK, Steps, AfterCheck, AfterLoad, Loaded, RuleIn
  <2>4. ASSUME NEW f \in Files \ usedFiles,
               /\ storedRules' = [storedRules EXCEPT ![p][r] = f]
               /\ task' = [task EXCEPT ![t].file = f]
               /\ usedFiles' = usedFiles \cup {f},
               indexLock' = [indexLock EXCEPT ![p] = t],
               pc' = [pc EXCEPT ![t] = "truncateIndex"]
        PROVE  TInv'
    <3>1. storedRules' = [storedRules EXCEPT ![p] = [storedRules[p] EXCEPT ![r] = f]]
      BY <2>1, <2>4 DEF TypeOK
    <3>2. [storedRules[p] EXCEPT ![r] = f] \in Index
      BY <2>1 DEF Index
    <3>3. /\ storedRules' \in [Procs -> Index \cup {Missing}]
          /\ \A q \in Procs : Loaded(q) => Loaded(q)'
      BY <2>1, <3>1, <3>2 DEF TypeOK, Loaded
    <3>4. \A q \in Procs, s \in Rules :
              Loaded(q) /\ storedRules[q][s] # NoFile => storedRules'[q][s] # NoFile
      BY <2>1, <3>1 DEF TypeOK, Index, Loaded
    <3>5. task' = [task EXCEPT ![t] = [task[t] EXCEPT !.file = f]]
      BY <2>1, <2>4 DEF TypeOK
    <3>6. task' \in [Threads -> Task]
      BY <2>2, <3>5 DEF TypeOK
    <3>7. \A u \in Threads : /\ task'[u].frozen = task[u].frozen
                             /\ u # t => task'[u].file = task[u].file
      BY <3>5 DEF TypeOK, Task
    <3>8. TypeOK'
      BY <1>9, <2>1, <2>4, <3>3, <3>6 DEF PutIfAbsent, TypeOK, Steps
    <3>9. TaskOK'
      <4> SUFFICES ASSUME NEW u \in Threads
                   PROVE  /\ pc'[u] # "idle" => task'[u].frozen \in Frozen
                          /\ pc'[u] \in AfterCheck => index' # Missing
                          /\ pc'[u] \in AfterLoad => Loaded(ProcOf[u])'
                          /\ pc'[u] = "readViolations" =>
                                storedRules'[ProcOf[u]][RuleIn(u)'] # NoFile
                          /\ task'[u].file # NoFile => task'[u].frozen \in Frozen
        BY DEF TaskOK
      <4>1. CASE u = t
        BY <1>9, <2>1, <2>4, <3>3, <3>7, <4>1
        DEF PutIfAbsent, TypeOK, TaskOK, AfterCheck, AfterLoad, Steps
      <4>2. CASE u # t
        <5>1. pc'[u] = pc[u] /\ index' = index
          BY <1>9, <2>4, <4>2 DEF PutIfAbsent, TypeOK
        <5>2. RuleIn(u)' = RuleIn(u)
          BY <3>7 DEF RuleIn
        <5>3. pc[u] = "readViolations" => RuleIn(u) \in Rules /\ Loaded(ProcOf[u])
          BY DEF TaskOK, RuleIn, AfterLoad, AfterCheck, Steps
        <5> QED
          BY <3>3, <3>4, <3>7, <4>2, <5>1, <5>2, <5>3 DEF TaskOK
      <4> QED
        BY <4>1, <4>2
    <3> QED
      BY <3>8, <3>9
  <2> QED
    BY <1>9, <2>3, <2>4 DEF PutIfAbsent
<1>10. ASSUME NEW t \in Threads, TruncateIndex(t)
      PROVE  TInv'
  <2>1. TypeOK'
    BY <1>10 DEF TruncateIndex, TypeOK, TaskOK, Task, Config, Steps, AfterCheck, AfterLoad, Loaded, Index, Verdicts, RuleIn, NoTask
  <2>2. TaskOK'
    BY <1>10 DEF TruncateIndex, TypeOK, TaskOK, Task, Config, Steps, AfterCheck, AfterLoad, Loaded, Index, RuleIn, NoTask
  <2> QED
    BY <2>1, <2>2
<1>11. ASSUME NEW t \in Threads, WriteIndex(t)
      PROVE  TInv'
  <2>1. TypeOK'
    BY <1>11 DEF WriteIndex, TypeOK, TaskOK, Task, Config, Steps, AfterCheck, AfterLoad, Loaded, Index, Verdicts, RuleIn, NoTask
  <2>2. TaskOK'
    BY <1>11 DEF WriteIndex, TypeOK, TaskOK, Task, Config, Steps, AfterCheck, AfterLoad, Loaded, Index, RuleIn, NoTask
  <2> QED
    BY <2>1, <2>2
<1>12. ASSUME NEW t \in Threads, TruncateViolations(t)
      PROVE  TInv'
  <2>1. TypeOK'
    BY <1>12 DEF TruncateViolations, TypeOK, TaskOK, Task, Config, Steps, AfterCheck, AfterLoad, Loaded, Index, Verdicts, RuleIn, NoTask
  <2>2. TaskOK'
    BY <1>12 DEF TruncateViolations, TypeOK, TaskOK, Task, Config, Steps, AfterCheck, AfterLoad, Loaded, Index, RuleIn, NoTask
  <2> QED
    BY <2>1, <2>2
<1>13. ASSUME NEW t \in Threads, WriteViolations(t)
      PROVE  TInv'
  <2>1. TypeOK'
    BY <1>13 DEF WriteViolations, TypeOK, TaskOK, Task, Config, Steps, AfterCheck, AfterLoad, Loaded, Index, Verdicts, RuleIn, NoTask
  <2>2. TaskOK'
    BY <1>13 DEF WriteViolations, TypeOK, TaskOK, Task, Config, Steps, AfterCheck, AfterLoad, Loaded, Index, RuleIn, NoTask
  <2> QED
    BY <2>1, <2>2
<1>14. ASSUME NEW t \in Threads, Finish(t)
      PROVE  TInv'
  <2>1. TypeOK'
    BY <1>14 DEF Finish, TypeOK, TaskOK, Task, Config, Steps, AfterCheck, AfterLoad, Loaded, Index, Verdicts, RuleIn, NoTask
  <2>2. TaskOK'
    BY <1>14 DEF Finish, TypeOK, TaskOK, Task, Config, Steps, AfterCheck, AfterLoad, Loaded, Index, RuleIn, NoTask
  <2> QED
    BY <2>1, <2>2
<1>15. ASSUME NEW t \in Threads, IOError(t)
      PROVE  TInv'
  <2>1. Fail(t) /\ pc[t] \in FileSteps
    BY <1>15 DEF IOError
  <2>2. /\ indexLock' \in [Procs -> Threads \cup {NoThread}]
        /\ faults' \in 0..MaxFaults
    BY <1>15 DEF IOError, TypeOK
  <2> QED
    BY <1>15, <2>1, <2>2, FailTInv
    DEF IOError, TypeOK, TaskOK, FileSteps, AfterCheck, AfterLoad, Loaded, RuleIn
<1>16. ASSUME NEW p \in Procs, Crash(p)
      PROVE  TInv'
  BY <1>16 DEF Crash, TypeOK, TaskOK, Task, Config, Steps, AfterCheck, AfterLoad, Loaded, Index, RuleIn, NoTask
<1>17. CASE UNCHANGED vars
  BY <1>17 DEF vars, TypeOK, TaskOK, AfterCheck, AfterLoad, Loaded, RuleIn
<1> QED
  BY <1>1, <1>2, <1>3, <1>4, <1>5, <1>6, <1>7, <1>8, <1>9, <1>10, <1>11, <1>12, <1>13, <1>14, <1>15, <1>16, <1>17 DEF Next, Advance

(***************************************************************************)
(* Type correctness: the locals of every evaluation, the index and the     *)
(* violation files stay well-formed through crashes and I/O errors.        *)
(***************************************************************************)
THEOREM TypeCorrect == Spec => []TypeOK
<1>1. TInv => TypeOK
  BY DEF TInv
<1> QED
  BY InitTInv, NextTInv, <1>1, PTL DEF Spec

-----------------------------------------------------------------------------
(***************************************************************************)
(* File names are not shared.  A step enters no new pair of a rule and a   *)
(* file when it copies an index from where one already is, and locals that *)
(* already agree with the index of the process.                            *)
(***************************************************************************)
CopiesOnly ==
    /\ \/ index' \in {index, EmptyIndex}
       \/ \E p \in Procs : Loaded(p) /\ index' = storedRules[p]
    /\ \A p \in Procs : storedRules'[p] \in {storedRules[p], Missing, index}
    /\ \A t \in Threads :
          \/ task'[t].file = NoFile
          \/ /\ task'[t].frozen = task[t].frozen
             /\ \/ task'[t].file = task[t].file
                \/ /\ Loaded(ProcOf[t])
                   /\ task'[t].file = storedRules[ProcOf[t]][RuleIn(t)]
    /\ usedFiles' = usedFiles

(***************************************************************************)
(* A step that only copies connects no rule with a further file.           *)
(***************************************************************************)
LEMMA CopiesKeep ==
    ASSUME TInv, CopiesOnly, NEW r \in Rules, NEW f \in Files, Keeps(r, f)'
    PROVE  Keeps(r, f)
<1> USE FreezeAssumption
<1>1. CASE index' # Missing /\ index'[r] = f
  BY <1>1 DEF CopiesOnly, Keeps, EmptyIndex
<1>2. ASSUME NEW p \in Procs, Loaded(p)', storedRules'[p][r] = f
      PROVE  Keeps(r, f)
  BY <1>2 DEF CopiesOnly, Keeps, Loaded
<1>3. ASSUME NEW t \in Threads, task'[t].file = f, RuleIn(t)' = r
      PROVE  Keeps(r, f)
  <2>1. task'[t].file # NoFile
    BY <1>3
  <2>2. RuleIn(t) = r
    BY <1>3, <2>1 DEF CopiesOnly, RuleIn
  <2>3. CASE task'[t].file = task[t].file
    BY <1>3, <2>2, <2>3 DEF Keeps
  <2>4. CASE Loaded(ProcOf[t]) /\ task'[t].file = storedRules[ProcOf[t]][RuleIn(t)]
    BY <1>3, <2>2, <2>4 DEF Keeps
  <2> QED
    BY <2>1, <2>3, <2>4 DEF CopiesOnly
<1> QED
  BY <1>1, <1>2, <1>3 DEF Keeps

(***************************************************************************)
(* Every step but the one that draws a name only copies.                   *)
(***************************************************************************)
Draws(t, f) ==
    /\ PutIfAbsent(t)
    /\ f \in Files \ usedFiles
    /\ storedRules' = [storedRules EXCEPT ![ProcOf[t]][RuleIn(t)] = f]
    /\ task' = [task EXCEPT ![t].file = f]
    /\ usedFiles' = usedFiles \cup {f}

(***************************************************************************)
(* save changes neither the rule nor the file an evaluation works on.      *)
(***************************************************************************)
LEMMA SaveKeeps ==
    ASSUME TInv, NEW t \in Threads, NEW lines, NEW changes \in Task,
           changes.frozen = task[t].frozen, changes.file = task[t].file,
           Save(t, lines, changes)
    PROVE  \A u \in Threads : task'[u].frozen = task[u].frozen /\ task'[u].file = task[u].file
<1>1. task \in [Threads -> Task]
  BY DEF TInv, TypeOK
<1>2. CASE task[t].config.update
  <2> DEFINE saved == [changes EXCEPT !.saving = lines]
  <2>1. saved.frozen = task[t].frozen /\ saved.file = task[t].file
    BY DEF Task
  <2>2. task' = [task EXCEPT ![t] = saved]
    BY <1>2 DEF Save
  <2> HIDE DEF saved
  <2> QED
    BY <1>1, <2>1, <2>2
<1>3. CASE ~task[t].config.update
  BY <1>3, FailTInv DEF Save
<1> QED
  BY <1>2, <1>3

(***************************************************************************)
(* put_if_absent is the only step that gives a rule a further file; every  *)
(* other step only copies.                                                 *)
(***************************************************************************)
LEMMA StepCopies ==
    ASSUME TInv, [Next]_vars
    PROVE  CopiesOnly \/ \E t \in Threads, f \in Files : Draws(t, f)
<1> USE FreezeAssumption DEF TInv
<1>0. /\ task \in [Threads -> Task] /\ storedRules \in [Procs -> Index \cup {Missing}]
      /\ ProcOf \in [Threads -> Procs]
      /\ NoTask.file = NoFile
  BY InitialValues DEF TypeOK
<1>1. ASSUME NEW t \in Threads, NEW z \in Frozen, NEW c \in Configs, Begin(t, z, c)
      PROVE  CopiesOnly
  BY <1>0, <1>1 DEF Begin, CopiesOnly, NoTask, Task
<1>2. ASSUME NEW t \in Threads, NEW z \in Frozen, BeginPoisoned(t, z)
      PROVE  CopiesOnly
  BY <1>0, <1>2 DEF BeginPoisoned, CopiesOnly, NoTask, Task
<1>3. ASSUME NEW t \in Threads, CheckIndex(t)
      PROVE  CopiesOnly
  <2>1. \A u \in Threads : task'[u].frozen = task[u].frozen /\ task'[u].file = task[u].file
    <3>1. CASE Fail(t)
      BY <3>1, FailTInv
    <3>2. CASE UNCHANGED task
      BY <3>2
    <3> QED
      BY <1>3, <3>1, <3>2 DEF CheckIndex
  <2> QED
    BY <1>3, <2>1 DEF CheckIndex, CopiesOnly
<1>4. ASSUME NEW t \in Threads, CreateIndex(t)
      PROVE  CopiesOnly
  BY <1>0, <1>4 DEF CreateIndex, CopiesOnly, Task, RuleIn
<1>5. ASSUME NEW t \in Threads, Load(t)
      PROVE  CopiesOnly
  BY <1>0, <1>5 DEF Load, CopiesOnly, Task, RuleIn
<1>6. ASSUME NEW t \in Threads, NEW report \in Reports, Evaluate(t, report)
      PROVE  CopiesOnly
  <2> DEFINE found == [task[t] EXCEPT !.report = report]
  <2>1. \A u \in Threads : task'[u].frozen = task[u].frozen /\ task'[u].file = task[u].file
    <3>1. CASE task' = [task EXCEPT ![t] = found]
      BY <1>0, <3>1 DEF Task
    <3>2. CASE Save(t, report, [found EXCEPT !.verdict = "passed"])
      <4> DEFINE passed == [found EXCEPT !.verdict = "passed"]
      <4>1. passed \in Task /\ passed.frozen = task[t].frozen /\ passed.file = task[t].file
        <5>1. report \in Seq(Lines) /\ task[t] \in Task
          BY <1>0
        <5>2. found \in Task /\ found.frozen = task[t].frozen /\ found.file = task[t].file
          BY <5>1 DEF Task
        <5> HIDE DEF found
        <5> QED
          BY <5>2 DEF Task, Verdicts
      <4> HIDE DEF passed, found
      <4> QED
        BY <3>2, <4>1, SaveKeeps DEF passed
    <3> QED
      BY <1>6, <3>1, <3>2 DEF Evaluate
  <2> QED
    BY <1>6, <2>1 DEF Evaluate, CopiesOnly
<1>7. ASSUME NEW t \in Threads, DelegatePanics(t)
      PROVE  CopiesOnly
  BY <1>0, <1>7 DEF DelegatePanics, CopiesOnly, Task, RuleIn, NoTask
<1>8. ASSUME NEW t \in Threads, ReadViolations(t)
      PROVE  CopiesOnly
  <2> DEFINE judged(c) == [task[t] EXCEPT !.verdict =
                             IF NewLines(task[t].report, c.knownActual) = {}
                             THEN "passed" ELSE "violated"]
  <2>1. \A u \in Threads : task'[u].frozen = task[u].frozen /\ task'[u].file = task[u].file
    <3>1. CASE Fail(t)
      BY <3>1, FailTInv
    <3>2. ASSUME NEW c, task' = [task EXCEPT ![t] = judged(c)]
          PROVE  \A u \in Threads : task'[u].frozen = task[u].frozen /\ task'[u].file = task[u].file
      BY <1>0, <3>2 DEF Task
    <3>3. ASSUME NEW c, Save(t, c.storedUnsolved, judged(c))
          PROVE  \A u \in Threads : task'[u].frozen = task[u].frozen /\ task'[u].file = task[u].file
      <4>1. /\ judged(c) \in Task
            /\ judged(c).frozen = task[t].frozen /\ judged(c).file = task[t].file
        <5>1. task[t] \in Task
          BY <1>0
        <5> QED
          BY <5>1 DEF Task, Verdicts
      <4> HIDE DEF judged
      <4> QED
        BY <3>3, <4>1, SaveKeeps
    <3> QED
      BY <1>8, <3>1, <3>2, <3>3 DEF ReadViolations
  <2> QED
    BY <1>8, <2>1 DEF ReadViolations, CopiesOnly
<1>9. ASSUME NEW t \in Threads, TruncateIndex(t)
      PROVE  CopiesOnly
  BY <1>0, <1>9 DEF TruncateIndex, CopiesOnly, Task, RuleIn
<1>10. ASSUME NEW t \in Threads, TruncateViolations(t)
      PROVE  CopiesOnly
  BY <1>0, <1>10 DEF TruncateViolations, CopiesOnly, Task, RuleIn
<1>11. ASSUME NEW t \in Threads, WriteViolations(t)
      PROVE  CopiesOnly
  BY <1>0, <1>11 DEF WriteViolations, CopiesOnly, Task, RuleIn
<1>12. ASSUME NEW t \in Threads, Finish(t)
      PROVE  CopiesOnly
  BY <1>0, <1>12 DEF Finish, CopiesOnly, Task, RuleIn, NoTask
<1>13. ASSUME NEW t \in Threads, IOError(t)
      PROVE  CopiesOnly
  BY <1>0, <1>13 DEF IOError, CopiesOnly, Task, RuleIn, Fail
<1>14. ASSUME NEW t \in Threads, WriteIndex(t)
      PROVE  CopiesOnly
  <2>1. Loaded(ProcOf[t])
    BY <1>14 DEF WriteIndex, TaskOK, AfterLoad, AfterCheck, Steps
  <2> QED
    BY <1>0, <1>14, <2>1 DEF WriteIndex, CopiesOnly
<1>15. ASSUME NEW t \in Threads, PutIfAbsent(t)
      PROVE  CopiesOnly \/ \E f \in Files : Draws(t, f)
  <2>1. Loaded(ProcOf[t])
    BY <1>15 DEF PutIfAbsent, TaskOK, AfterLoad, AfterCheck, Steps
  <2>2. CASE /\ task' = [task EXCEPT ![t].file = storedRules[ProcOf[t]][RuleIn(t)]]
             /\ UNCHANGED <<storedRules, indexLock, usedFiles>>
    <3>1. /\ \A u \in Threads : /\ task'[u].frozen = task[u].frozen
                                /\ u # t => task'[u].file = task[u].file
          /\ task'[t].file = storedRules[ProcOf[t]][RuleIn(t)]
      BY <1>0, <2>2 DEF Task
    <3>2. UNCHANGED <<index, storedRules, usedFiles>>
      BY <1>15, <2>2 DEF PutIfAbsent
    <3> QED
      BY <2>1, <3>1, <3>2, FreezeAssumption DEF CopiesOnly, RuleIn
  <2>3. ASSUME NEW f \in Files \ usedFiles,
               /\ storedRules' = [storedRules EXCEPT ![ProcOf[t]][RuleIn(t)] = f]
               /\ task' = [task EXCEPT ![t].file = f]
               /\ usedFiles' = usedFiles \cup {f}
        PROVE  Draws(t, f)
    BY <1>15, <2>3 DEF Draws
  <2>4. CASE storedRules[ProcOf[t]][RuleIn(t)] # NoFile
    BY <1>15, <2>2, <2>4 DEF PutIfAbsent
  <2>5. CASE storedRules[ProcOf[t]][RuleIn(t)] = NoFile
    <3>1. PICK f \in Files \ usedFiles :
             /\ storedRules' = [storedRules EXCEPT ![ProcOf[t]][RuleIn(t)] = f]
             /\ task' = [task EXCEPT ![t].file = f]
             /\ usedFiles' = usedFiles \cup {f}
      BY <1>15, <2>5 DEF PutIfAbsent
    <3>2. Draws(t, f)
      BY <2>3, <3>1
    <3> QED
      BY <3>1, <3>2
  <2> QED
    BY <2>4, <2>5
<1>16. ASSUME NEW p \in Procs, Crash(p)
      PROVE  CopiesOnly
  BY <1>0, <1>16 DEF Crash, CopiesOnly
<1>17. CASE UNCHANGED vars
  BY <1>17 DEF vars, CopiesOnly
<1> QED
  BY <1>1, <1>2, <1>3, <1>4, <1>5, <1>6, <1>7, <1>8, <1>9, <1>10, <1>11, <1>12, <1>13, <1>14, <1>15, <1>16, <1>17 DEF Next, Advance

(***************************************************************************)
(* The inductive invariant: a name in use was drawn, and is not shared.    *)
(***************************************************************************)
NamesOK ==
    /\ \A r \in Rules, f \in Files : Keeps(r, f) => f \in usedFiles
    /\ FilesNotShared

(***************************************************************************)
(* Drawing a name connects it with the rule it is drawn for, nothing else. *)
(***************************************************************************)
LEMMA DrawKeeps ==
    ASSUME TInv, NEW t \in Threads, NEW n \in Files, Draws(t, n),
           NEW r \in Rules, NEW f \in Files, Keeps(r, f)'
    PROVE  Keeps(r, f) \/ (f = n /\ r = RuleIn(t))
<1> USE FreezeAssumption DEF TInv
<1> DEFINE p == ProcOf[t]
<1>1. /\ task[t] \in Task /\ task[t].frozen \in Frozen
      /\ p \in Procs /\ storedRules[p] \in Index /\ RuleIn(t) \in Rules /\ Loaded(p)
  BY DEF Draws, PutIfAbsent, TypeOK, TaskOK, Loaded, RuleIn, AfterLoad, AfterCheck, Steps
<1>2. index' = index
  BY DEF Draws, PutIfAbsent
<1>3. \A q \in Procs, s \in Rules :
          storedRules'[q][s] = IF q = p /\ s = RuleIn(t) THEN n ELSE storedRules[q][s]
  BY <1>1 DEF Draws, TypeOK, Index, Loaded
<1>4. \A q \in Procs : Loaded(q)' => Loaded(q)
  BY <1>1 DEF Draws, TypeOK, Loaded
<1>5. \A u \in Threads : /\ task'[u].frozen = task[u].frozen
                         /\ task'[u].file = IF u = t THEN n ELSE task[u].file
  BY <1>1 DEF Draws, TypeOK, Task
<1> QED
  BY <1>2, <1>3, <1>4, <1>5 DEF Keeps, RuleIn

(***************************************************************************)
(* At the start no rule has a file.                                        *)
(***************************************************************************)
LEMMA InitNames == Init => NamesOK
BY FreezeAssumption
   DEF Init, NamesOK, FilesNotShared, Keeps, Loaded, EmptyIndex, NoTask

(***************************************************************************)
(* One step of Next keeps names apart: a copied name was already its       *)
(* rule's, a drawn one was nobody's.                                       *)
(***************************************************************************)
LEMMA NextNames == TInv /\ NamesOK /\ [Next]_vars => NamesOK'
<1> SUFFICES ASSUME TInv, NamesOK, [Next]_vars PROVE NamesOK'
  OBVIOUS
<1>1. CASE CopiesOnly
  <2>1. usedFiles' = usedFiles
    BY <1>1 DEF CopiesOnly
  <2>2. \A r \in Rules, f \in Files : Keeps(r, f)' => Keeps(r, f)
    BY <1>1, CopiesKeep
  <2> QED
    BY <2>1, <2>2 DEF NamesOK, FilesNotShared
<1>2. ASSUME NEW t \in Threads, NEW n \in Files, Draws(t, n) PROVE NamesOK'
  <2>1. n \notin usedFiles /\ usedFiles' = usedFiles \cup {n}
    BY <1>2 DEF Draws
  <2>2. \A r \in Rules, f \in Files : Keeps(r, f)' => Keeps(r, f) \/ (f = n /\ r = RuleIn(t))
    BY <1>2, DrawKeeps
  <2> QED
    BY <2>1, <2>2 DEF NamesOK, FilesNotShared
<1> QED
  BY <1>1, <1>2, StepCopies

(***************************************************************************)
(* Two rules never share a violation file, whatever the number of          *)
(* processes that lose or overwrite each other's index entries.            *)
(***************************************************************************)
THEOREM NoSharedFiles == Spec => []FilesNotShared
<1>1. Init => TInv /\ NamesOK
  BY InitTInv, InitNames
<1>2. (TInv /\ NamesOK) /\ [Next]_vars => (TInv /\ NamesOK)'
  BY NextTInv, NextNames
<1>3. NamesOK => FilesNotShared
  BY DEF NamesOK
<1> QED
  BY <1>1, <1>2, <1>3, PTL DEF Spec

-----------------------------------------------------------------------------
(***************************************************************************)
(* One process: what is on disk is in memory.                              *)
(***************************************************************************)
LEMMA NextDisk ==
    ASSUME \A p, q \in Procs : p = q,
           TInv, DiskNeverAhead, [Next]_vars
    PROVE  DiskNeverAhead'
<1> USE FreezeAssumption DEF TInv
<1>0. /\ storedRules \in [Procs -> Index \cup {Missing}]
      /\ ProcOf \in [Threads -> Procs]
      /\ EmptyIndex # Missing
  BY InitialValues DEF TypeOK
<1>1. CASE UNCHANGED <<index, storedRules>>
  BY <1>1 DEF DiskNeverAhead, Loaded
<1>2. CASE index' = EmptyIndex /\ UNCHANGED storedRules
  BY <1>0, <1>2 DEF DiskNeverAhead, Loaded, EmptyIndex
<1>3. ASSUME NEW t \in Threads, Load(t) PROVE DiskNeverAhead'
  <2>1. index # Missing /\ index \in Index
    BY <1>3 DEF Load, TypeOK, TaskOK, AfterCheck, Steps
  <2> QED
    BY <1>0, <1>3, <2>1 DEF Load, DiskNeverAhead, Loaded, Index
<1>4. ASSUME NEW t \in Threads, WriteIndex(t) PROVE DiskNeverAhead'
  <2>1. Loaded(ProcOf[t])
    BY <1>4 DEF WriteIndex, TaskOK, AfterLoad, AfterCheck, Steps
  <2>2. \A p \in Procs : p = ProcOf[t]
    BY <1>0
  <2> QED
    BY <1>4, <2>1, <2>2 DEF WriteIndex, DiskNeverAhead, Loaded
<1>5. ASSUME NEW t \in Threads, PutIfAbsent(t) PROVE DiskNeverAhead'
  <2>1. CASE UNCHANGED storedRules
    BY <1>5, <2>1, <1>1 DEF PutIfAbsent
  <2>2. ASSUME NEW f \in Files,
               storedRules[ProcOf[t]][RuleIn(t)] = NoFile,
               storedRules' = [storedRules EXCEPT ![ProcOf[t]][RuleIn(t)] = f]
        PROVE  DiskNeverAhead'
    <3>1. /\ Loaded(ProcOf[t]) /\ storedRules[ProcOf[t]] \in Index /\ RuleIn(t) \in Rules
      BY <1>5 DEF PutIfAbsent, TypeOK, TaskOK, Loaded, RuleIn, AfterLoad, AfterCheck, Steps
    <3>2. \A r \in Rules : storedRules'[ProcOf[t]][r] =
                             IF r = RuleIn(t) THEN f ELSE storedRules[ProcOf[t]][r]
      BY <1>0, <2>2, <3>1 DEF Index
    <3>3. index' = index
      BY <1>5 DEF PutIfAbsent
    <3>4. \A p \in Procs : p = ProcOf[t]
      BY <1>0
    <3> QED
      BY <2>2, <3>1, <3>2, <3>3, <3>4 DEF DiskNeverAhead, Loaded
  <2> QED
    BY <1>5, <2>1, <2>2 DEF PutIfAbsent
<1>6. ASSUME NEW p \in Procs, Crash(p) PROVE DiskNeverAhead'
  BY <1>0, <1>6 DEF Crash, DiskNeverAhead, Loaded
<1>7. ASSUME NEW t \in Threads,
             \/ \E z \in Frozen, c \in Configs : Begin(t, z, c)
             \/ \E z \in Frozen : BeginPoisoned(t, z)
             \/ \E report \in Reports : Evaluate(t, report)
             \/ CheckIndex(t) \/ DelegatePanics(t) \/ ReadViolations(t)
             \/ TruncateViolations(t) \/ WriteViolations(t)
             \/ Finish(t) \/ IOError(t)
      PROVE  UNCHANGED <<index, storedRules>>
  BY <1>7 DEF Begin, BeginPoisoned, Evaluate, CheckIndex, DelegatePanics, ReadViolations,
     TruncateViolations, WriteViolations, Finish, IOError
<1>8. ASSUME NEW t \in Threads, CreateIndex(t) \/ TruncateIndex(t)
      PROVE  index' = EmptyIndex /\ UNCHANGED storedRules
  BY <1>8 DEF CreateIndex, TruncateIndex
<1> QED
  BY <1>1, <1>2, <1>3, <1>4, <1>5, <1>6, <1>7, <1>8 DEF Next, Advance, vars

(***************************************************************************)
(* In a single process, through crashes, I/O errors and the creation race, *)
(* the index on disk never knows a name the loaded index does not.         *)
(***************************************************************************)
THEOREM DiskFollowsMemory ==
    ASSUME \A p, q \in Procs : p = q
    PROVE  Spec => []DiskNeverAhead
<1>1. Init => TInv /\ DiskNeverAhead
  BY InitTInv DEF Init, DiskNeverAhead, Loaded
<1>2. (TInv /\ DiskNeverAhead) /\ [Next]_vars => (TInv /\ DiskNeverAhead)'
  BY NextTInv, NextDisk
<1> QED
  BY <1>1, <1>2, PTL DEF Spec

-----------------------------------------------------------------------------

(***************************************************************************)
(* A step of one thread.                                                   *)
(***************************************************************************)
ThreadStep(t) ==
    \/ \E z \in Frozen, c \in Configs : Begin(t, z, c)
    \/ \E z \in Frozen : BeginPoisoned(t, z)
    \/ Advance(t)
    \/ IOError(t)

(***************************************************************************)
(* What it leaves alone: the other threads, the entries of an index in     *)
(* memory, and every violation file but the one it saves to.               *)
(***************************************************************************)
Rewriting == {"truncateViolations", "writeViolations"}

EntriesStay ==
    \A p \in Procs : Loaded(p) =>
        /\ Loaded(p)'
        /\ \A r \in Rules : storedRules[p][r] # NoFile => storedRules'[p][r] = storedRules[p][r]

LeavesAlone(t) ==
    /\ \A u \in Threads \ {t} : pc'[u] = pc[u] /\ task'[u] = task[u]
    /\ EntriesStay
    /\ \A f \in Files : violations'[f] # violations[f] =>
          pc[t] \in Rewriting /\ task[t].file = f

(***************************************************************************)
(* Saving, or being refused to, moves only the thread itself.              *)
(***************************************************************************)
LEMMA SaveMoves ==
    ASSUME TInv, NEW t \in Threads, NEW lines, NEW changes, Save(t, lines, changes)
    PROVE  /\ \A u \in Threads \ {t} : pc'[u] = pc[u] /\ task'[u] = task[u]
           /\ \/ /\ pc'[t] = "putIfAbsent"
                 /\ task'[t] = [changes EXCEPT !.saving = lines]
              \/ /\ pc'[t] = "done"
                 /\ task'[t] = [task[t] EXCEPT !.verdict = "error"]
<1>1. task \in [Threads -> Task] /\ pc \in [Threads -> Steps]
  BY DEF TInv, TypeOK
<1>2. CASE task[t].config.update
  <2> DEFINE saved == [changes EXCEPT !.saving = lines]
  <2>1. task' = [task EXCEPT ![t] = saved] /\ pc' = [pc EXCEPT ![t] = "putIfAbsent"]
    BY <1>2 DEF Save
  <2> HIDE DEF saved
  <2>2. /\ \A u \in Threads \ {t} : pc'[u] = pc[u] /\ task'[u] = task[u]
        /\ pc'[t] = "putIfAbsent" /\ task'[t] = saved
    BY <1>1, <2>1
  <2> QED
    BY <2>2 DEF saved
<1>3. CASE ~task[t].config.update
  BY <1>1, <1>3 DEF Save, Fail
<1> QED
  BY <1>2, <1>3

(***************************************************************************)
(* Entering a rule that has no file yet changes no other entry.            *)
(***************************************************************************)
LEMMA PutKeepsEntries ==
    ASSUME TInv, NEW t \in Threads, PutIfAbsent(t)
    PROVE  EntriesStay
<1>1. /\ storedRules \in [Procs -> Index \cup {Missing}] /\ Missing \notin Index
      /\ ProcOf[t] \in Procs /\ RuleIn(t) \in Rules /\ storedRules[ProcOf[t]] \in Index
  BY FreezeAssumption
  DEF PutIfAbsent, TInv, TypeOK, TaskOK, Loaded, RuleIn, AfterLoad, AfterCheck, Steps
<1>2. CASE UNCHANGED storedRules
  BY <1>2 DEF EntriesStay, Loaded
<1>3. ASSUME NEW f \in Files, storedRules[ProcOf[t]][RuleIn(t)] = NoFile,
             storedRules' = [storedRules EXCEPT ![ProcOf[t]][RuleIn(t)] = f]
      PROVE  EntriesStay
  <2>1. storedRules' = [storedRules EXCEPT ![ProcOf[t]] =
                          [storedRules[ProcOf[t]] EXCEPT ![RuleIn(t)] = f]]
    BY <1>1, <1>3
  <2>2. [storedRules[ProcOf[t]] EXCEPT ![RuleIn(t)] = f] \in Index
    BY <1>1 DEF Index
  <2> QED
    BY <1>1, <1>3, <2>1, <2>2 DEF EntriesStay, Loaded, Index
<1> QED
  BY <1>2, <1>3 DEF PutIfAbsent

(***************************************************************************)
(* A step of a thread leaves these alone, whatever it is.                  *)
(***************************************************************************)
LEMMA ThreadStepShape ==
    ASSUME TInv, NEW t \in Threads, ThreadStep(t)
    PROVE  LeavesAlone(t)
<1>1. /\ task \in [Threads -> Task] /\ pc \in [Threads -> Steps]
      /\ violations \in [Files -> Seq(Lines) \cup {Missing}]
      /\ storedRules \in [Procs -> Index \cup {Missing}]
      /\ ProcOf[t] \in Procs
  BY FreezeAssumption DEF TInv, TypeOK
<1>2. \A u \in Threads \ {t} : pc'[u] = pc[u] /\ task'[u] = task[u]
  <2>1. CASE \E report \in Reports : Evaluate(t, report)
    BY <1>1, <2>1, SaveMoves DEF Evaluate
  <2>2. CASE ReadViolations(t)
    BY <1>1, <2>2, SaveMoves DEF ReadViolations, Fail
  <2> QED
    BY <1>1, <2>1, <2>2
    DEF ThreadStep, Advance, Begin, BeginPoisoned, CheckIndex, CreateIndex, Load, DelegatePanics,
        PutIfAbsent, TruncateIndex, WriteIndex, TruncateViolations, WriteViolations, Finish,
        IOError, Fail
<1>3. EntriesStay
  <2>1. CASE UNCHANGED storedRules
    BY <2>1 DEF EntriesStay, Loaded
  <2>2. CASE Load(t)
    BY <1>1, <2>2 DEF Load, EntriesStay, Loaded
  <2>3. CASE PutIfAbsent(t)
    BY <2>3, PutKeepsEntries
  <2> QED
    BY <2>1, <2>2, <2>3
    DEF ThreadStep, Advance, Begin, BeginPoisoned, CheckIndex, CreateIndex, Evaluate,
        DelegatePanics, ReadViolations, TruncateIndex, WriteIndex, TruncateViolations,
        WriteViolations, Finish, IOError
<1>4. \A f \in Files : violations'[f] # violations[f] => pc[t] \in Rewriting /\ task[t].file = f
  BY <1>1
  DEF ThreadStep, Advance, Begin, BeginPoisoned, CheckIndex, CreateIndex, Load, Evaluate,
      DelegatePanics, ReadViolations, PutIfAbsent, TruncateIndex, WriteIndex, TruncateViolations,
      WriteViolations, Finish, IOError, Rewriting
<1> QED
  BY <1>2, <1>3, <1>4 DEF LeavesAlone

(***************************************************************************)
(* Every step is one of a thread, or a crash, or none.                     *)
(***************************************************************************)
LEMMA StepCases ==
    ASSUME [Next]_vars
    PROVE  \/ \E t \in Threads : ThreadStep(t)
           \/ \E p \in Procs : Crash(p)
           \/ UNCHANGED vars
BY DEF Next, ThreadStep

-----------------------------------------------------------------------------
(***************************************************************************)
(* From its start to its return, a thread holds the mutex of the object it *)
(* evaluates, which is an object of its process.                           *)
(***************************************************************************)
StoresAreHeld ==
    \A t \in Threads : pc[t] # "idle" =>
        /\ task[t].frozen \in Frozen
        /\ storeLock[task[t].frozen] = t
        /\ HomeOf[task[t].frozen] = ProcOf[t]

(***************************************************************************)
(* The steps in which an evaluation is under way and stays so keep its     *)
(* object and its mutex.                                                   *)
(***************************************************************************)
GoesOn(t) ==
    /\ UNCHANGED storeLock
    /\ pc[t] # "idle"
    /\ task'[t].frozen = task[t].frozen
    /\ task'[t].config = task[t].config

LEMMA InnerSteps ==
    ASSUME TInv, NEW t \in Threads,
           \/ CheckIndex(t) \/ CreateIndex(t) \/ Load(t)
           \/ \E report \in Reports : Evaluate(t, report)
           \/ ReadViolations(t) \/ PutIfAbsent(t)
           \/ TruncateIndex(t) \/ WriteIndex(t)
           \/ TruncateViolations(t) \/ WriteViolations(t)
           \/ IOError(t)
    PROVE  GoesOn(t)
<1>1. task \in [Threads -> Task] /\ pc \in [Threads -> Steps] /\ task[t] \in Task
  BY DEF TInv, TypeOK
<1>2. ASSUME Fail(t) PROVE task'[t].frozen = task[t].frozen /\ task'[t].config = task[t].config
  BY <1>1, <1>2 DEF Fail, Task
<1>3. ASSUME NEW report \in Reports, Evaluate(t, report) PROVE GoesOn(t)
  <2> DEFINE found == [task[t] EXCEPT !.report = report]
             passed == [found EXCEPT !.verdict = "passed"]
  <2>1. /\ found.frozen = task[t].frozen /\ found.config = task[t].config
        /\ passed.frozen = task[t].frozen /\ passed.config = task[t].config
        /\ [passed EXCEPT !.saving = report].frozen = task[t].frozen
        /\ [passed EXCEPT !.saving = report].config = task[t].config
        /\ [task[t] EXCEPT !.verdict = "error"].frozen = task[t].frozen
        /\ [task[t] EXCEPT !.verdict = "error"].config = task[t].config
    BY <1>1 DEF Task
  <2>2. Save(t, report, passed) \/ task' = [task EXCEPT ![t] = found]
    BY <1>3 DEF Evaluate
  <2>3. UNCHANGED storeLock /\ pc[t] # "idle"
    BY <1>3 DEF Evaluate
  <2> HIDE DEF found, passed
  <2>4. CASE Save(t, report, passed)
    <3>1. \/ task'[t] = [passed EXCEPT !.saving = report]
          \/ task'[t] = [task[t] EXCEPT !.verdict = "error"]
      BY <2>4, SaveMoves, Zenon
    <3> QED
      BY <2>1, <2>3, <3>1 DEF GoesOn
  <2>5. CASE task' = [task EXCEPT ![t] = found]
    BY <1>1, <2>1, <2>3, <2>5 DEF GoesOn
  <2> QED
    BY <2>2, <2>4, <2>5
<1>4. ASSUME ReadViolations(t) PROVE GoesOn(t)
  <2> DEFINE judged(c) == [task[t] EXCEPT !.verdict =
                             IF NewLines(task[t].report, c.knownActual) = {}
                             THEN "passed" ELSE "violated"]
  <2>1. \A c : /\ judged(c).frozen = task[t].frozen /\ judged(c).config = task[t].config
               /\ [judged(c) EXCEPT !.saving = c.storedUnsolved].frozen = task[t].frozen
               /\ [judged(c) EXCEPT !.saving = c.storedUnsolved].config = task[t].config
    BY <1>1 DEF Task
  <2>2. /\ [task[t] EXCEPT !.verdict = "error"].frozen = task[t].frozen
        /\ [task[t] EXCEPT !.verdict = "error"].config = task[t].config
    BY <1>1 DEF Task
  <2>3. \/ Fail(t)
        \/ \E c : Save(t, c.storedUnsolved, judged(c)) \/ task' = [task EXCEPT ![t] = judged(c)]
    BY <1>4 DEF ReadViolations
  <2>4. UNCHANGED storeLock /\ pc[t] # "idle"
    BY <1>4 DEF ReadViolations
  <2> HIDE DEF judged
  <2>5. ASSUME NEW c, Save(t, c.storedUnsolved, judged(c))
        PROVE  task'[t].frozen = task[t].frozen /\ task'[t].config = task[t].config
    <3>1. PICK lines, changes : lines = c.storedUnsolved /\ changes = judged(c)
      OBVIOUS
    <3>2. Save(t, lines, changes)
      BY <2>5, <3>1
    <3>3. \/ task'[t] = [changes EXCEPT !.saving = lines]
          \/ task'[t] = [task[t] EXCEPT !.verdict = "error"]
      BY <3>2, SaveMoves, Zenon
    <3> QED
      BY <2>1, <2>2, <3>1, <3>3
  <2>6. ASSUME NEW c, task' = [task EXCEPT ![t] = judged(c)]
        PROVE  task'[t].frozen = task[t].frozen /\ task'[t].config = task[t].config
    BY <1>1, <2>1, <2>6
  <2> QED
    BY <1>2, <2>3, <2>4, <2>5, <2>6 DEF GoesOn
<1>5. ASSUME CheckIndex(t) \/ IOError(t) PROVE GoesOn(t)
  BY <1>1, <1>2, <1>5 DEF CheckIndex, IOError, FileSteps, GoesOn
<1>6. ASSUME PutIfAbsent(t) PROVE GoesOn(t)
  <2>1. ASSUME NEW f PROVE /\ [task[t] EXCEPT !.file = f].frozen = task[t].frozen
                           /\ [task[t] EXCEPT !.file = f].config = task[t].config
    BY <1>1 DEF Task
  <2>2. \E f : task' = [task EXCEPT ![t] = [task[t] EXCEPT !.file = f]]
    BY <1>1, <1>6 DEF PutIfAbsent
  <2>3. UNCHANGED storeLock /\ pc[t] # "idle"
    BY <1>6 DEF PutIfAbsent
  <2> QED
    BY <1>1, <2>1, <2>2, <2>3 DEF GoesOn
<1>7. ASSUME \/ CreateIndex(t) \/ Load(t) \/ TruncateIndex(t) \/ WriteIndex(t)
             \/ TruncateViolations(t) \/ WriteViolations(t)
      PROVE GoesOn(t)
  BY <1>1, <1>7
  DEF CreateIndex, Load, TruncateIndex, WriteIndex, TruncateViolations, WriteViolations, GoesOn
<1> QED
  BY <1>3, <1>4, <1>5, <1>6, <1>7

LEMMA NextHeld == TInv /\ StoresAreHeld /\ [Next]_vars => StoresAreHeld'
<1> SUFFICES ASSUME TInv, StoresAreHeld, [Next]_vars PROVE StoresAreHeld'
  OBVIOUS
<1>1. /\ task \in [Threads -> Task] /\ pc \in [Threads -> Steps]
      /\ storeLock \in [Frozen -> Threads \cup {NoThread}] /\ NoThread \notin Threads
  BY FreezeAssumption DEF TInv, TypeOK
<1>2. ASSUME NEW t \in Threads, NEW z \in Frozen, NEW c \in Configs, Begin(t, z, c)
      PROVE  StoresAreHeld'
  <2> DEFINE started == [NoTask EXCEPT !.frozen = z, !.config = c]
  <2>1. started.frozen = z
    BY DEF NoTask
  <2>2. /\ task' = [task EXCEPT ![t] = started]
        /\ pc' = [pc EXCEPT ![t] = "checkIndex"]
        /\ storeLock' = [storeLock EXCEPT ![z] = t]
        /\ storeLock[z] = NoThread
        /\ HomeOf[z] = ProcOf[t]
    BY <1>2 DEF Begin
  <2> HIDE DEF started
  <2> QED
    BY <1>1, <2>1, <2>2 DEF StoresAreHeld
<1>3. ASSUME NEW t \in Threads, NEW z \in Frozen, BeginPoisoned(t, z)
      PROVE  StoresAreHeld'
  BY <1>1, <1>3 DEF BeginPoisoned, StoresAreHeld
<1>4. ASSUME NEW t \in Threads, DelegatePanics(t) \/ Finish(t)
      PROVE  StoresAreHeld'
  <2>1. /\ storeLock' = [storeLock EXCEPT ![task[t].frozen] = NoThread]
        /\ pc[t] # "idle"
        /\ pc' = [pc EXCEPT ![t] = "idle"]
        /\ \A u \in Threads \ {t} : task'[u] = task[u]
    BY <1>1, <1>4 DEF DelegatePanics, Finish
  <2> QED
    BY <1>1, <2>1 DEF StoresAreHeld
<1>5. ASSUME NEW t \in Threads, GoesOn(t), LeavesAlone(t) PROVE StoresAreHeld'
  BY <1>5 DEF StoresAreHeld, GoesOn, LeavesAlone
<1>6. ASSUME NEW p \in Procs, Crash(p) PROVE StoresAreHeld'
  BY <1>1, <1>6 DEF Crash, StoresAreHeld
<1>7. CASE UNCHANGED vars
  BY <1>7 DEF vars, StoresAreHeld
<1>8. ASSUME NEW t \in Threads, ThreadStep(t) PROVE StoresAreHeld'
  <2>1. LeavesAlone(t)
    BY <1>8, ThreadStepShape
  <2> QED
    BY <1>2, <1>3, <1>4, <1>5, <1>8, <2>1, InnerSteps DEF ThreadStep, Advance
<1> QED
  BY <1>6, <1>7, <1>8, StepCases

LEMMA InitHeld == Init => StoresAreHeld
BY DEF Init, StoresAreHeld

(***************************************************************************)
(* Two threads never evaluate one object at a time.  With one object per   *)
(* rule, this is what keeps its index entry and its violation file to one  *)
(* evaluation.                                                             *)
(***************************************************************************)
OneObjectPerRule == \A y, z \in Frozen : RuleOf[y] = RuleOf[z] => y = z

LEMMA AloneWithItsRule ==
    ASSUME TInv, StoresAreHeld, OneObjectPerRule,
           NEW t \in Threads, NEW u \in Threads, pc[t] # "idle", pc[u] # "idle",
           RuleIn(t) = RuleIn(u)
    PROVE  t = u
BY DEF StoresAreHeld, OneObjectPerRule, RuleIn

THEOREM StoresStayHeld == Spec => []StoresAreHeld
<1>1. Init => TInv /\ StoresAreHeld
  BY InitTInv, InitHeld
<1>2. (TInv /\ StoresAreHeld) /\ [Next]_vars => (TInv /\ StoresAreHeld)'
  BY NextTInv, NextHeld
<1> QED
  BY <1>1, <1>2, PTL DEF Spec

-----------------------------------------------------------------------------
(***************************************************************************)
(* The greedy matching behind a categorization: matched lines match, and   *)
(* no stored line is taken twice.                                          *)
(***************************************************************************)
Categorizes(c, m, e, actual, stored) ==
    /\ m \in [DOMAIN actual -> 0..Len(stored)]
    /\ e \in [1..Cardinality(Matched(m)) -> Matched(m)]
    /\ c = Categories(e, m, actual, stored)
    /\ \A a, b \in DOMAIN e : a < b => e[a] < e[b]
    /\ \A i \in Matched(m) : \E a \in DOMAIN e : i = e[a]
    /\ \A i \in Matched(m) : /\ i \in DOMAIN actual
                             /\ m[i] \in DOMAIN stored
                             /\ <<actual[i], stored[m[i]]>> \in Matches
    /\ \A i, k \in Matched(m) : i < k => m[i] # m[k]

LEMMA Categorization ==
    ASSUME NEW actual \in Seq(Lines), NEW stored \in Seq(Lines),
           NEW c \in CategorizedViolations(actual, stored)
    PROVE  \E m, e : Categorizes(c, m, e, actual, stored)
<1>1. PICK m \in [DOMAIN actual -> 0..Len(stored)] :
         /\ IsGreedyMatching(m, actual, stored)
         /\ c \in { Categories(e, m, actual, stored)
                    : e \in {e \in [1..Cardinality(Matched(m)) -> Matched(m)] : IsVisitOrder(e, m)} }
  BY DEF CategorizedViolations
<1>2. PICK e \in [1..Cardinality(Matched(m)) -> Matched(m)] :
         IsVisitOrder(e, m) /\ c = Categories(e, m, actual, stored)
  BY <1>1
<1>3. \A i \in Matched(m) : i \in DOMAIN actual /\ m[i] \in StoredLeft(m, i, actual, stored)
  BY <1>1 DEF IsGreedyMatching, Matched
<1>4. \A i \in Matched(m) : /\ i \in DOMAIN actual
                            /\ m[i] \in DOMAIN stored
                            /\ <<actual[i], stored[m[i]]>> \in Matches
  BY <1>3 DEF StoredLeft
<1>5. \A i, k \in Matched(m) : i < k => m[i] # m[k]
  <2> SUFFICES ASSUME NEW i \in Matched(m), NEW k \in Matched(m), i < k PROVE m[i] # m[k]
    OBVIOUS
  <2>1. \A j \in 1..(k - 1) : m[j] # m[k]
    BY <1>3 DEF StoredLeft
  <2>2. i \in 1..(k - 1)
    BY <1>3
  <2> QED
    BY <2>1, <2>2
<1>6. \A i \in Matched(m) : \E a \in DOMAIN e : i = e[a]
  BY <1>2 DEF IsVisitOrder
<1>7. \A a, b \in DOMAIN e : a < b => e[a] < e[b]
  BY <1>2 DEF IsVisitOrder
<1> QED
  BY <1>2, <1>4, <1>5, <1>6, <1>7 DEF Categorizes

(***************************************************************************)
(* When no line of the report is new, the stored lines cover it, and so do *)
(* the stored lines that are kept.                                         *)
(***************************************************************************)
LEMMA KnownIsCovered ==
    ASSUME NEW actual \in Seq(Lines), NEW stored \in Seq(Lines),
           NEW c \in CategorizedViolations(actual, stored),
           NewLines(actual, c.knownActual) = {}
    PROVE  Covers(stored, actual) /\ Covers(c.storedUnsolved, actual)
<1>1. PICK m, e : Categorizes(c, m, e, actual, stored)
  BY Categorization
<1>2. c.knownActual = {actual[i] : i \in Matched(m)}
  BY <1>1 DEF Categorizes, Categories
<1>3. c.storedUnsolved = [a \in DOMAIN e |-> stored[m[e[a]]]]
  BY <1>1 DEF Categorizes, Categories, Unsolved
<1>4. ASSUME NEW i \in DOMAIN actual
      PROVE  /\ \E j \in DOMAIN stored : <<actual[i], stored[j]>> \in Matches
             /\ \E a \in DOMAIN c.storedUnsolved : <<actual[i], c.storedUnsolved[a]>> \in Matches
  <2>1. PICK k \in Matched(m) : actual[k] = actual[i]
    BY <1>2, <1>4 DEF NewLines
  <2>2. PICK a \in DOMAIN e : k = e[a]
    BY <1>1 DEF Categorizes
  <2>3. a \in DOMAIN c.storedUnsolved /\ c.storedUnsolved[a] = stored[m[k]]
    BY <1>3, <2>2
  <2> QED
    BY <1>1, <2>1, <2>3 DEF Categorizes
<1> QED
  BY <1>4 DEF Covers

-----------------------------------------------------------------------------
(***************************************************************************)
(* From put_if_absent on, an evaluation saves to the file that the index   *)
(* in memory names for its rule.                                           *)
(***************************************************************************)
SavesToItsFile(t) ==
    pc[t] \in WritingSteps =>
        /\ task[t].file \in Files
        /\ task[t].file = storedRules[ProcOf[t]][RuleIn(t)]

FilesAreIndexed == \A t \in Threads : SavesToItsFile(t)

(***************************************************************************)
(* How a thread gets to the steps that write.                              *)
(***************************************************************************)
LEMMA WaysToWrite ==
    ASSUME TInv, NEW t \in Threads, ThreadStep(t), pc'[t] \in WritingSteps
    PROVE  \/ PutIfAbsent(t)
           \/ /\ TruncateIndex(t) \/ WriteIndex(t) \/ TruncateViolations(t)
              /\ pc[t] \in WritingSteps
              /\ UNCHANGED <<task, storedRules>>
<1>1. task \in [Threads -> Task] /\ pc \in [Threads -> Steps]
  BY DEF TInv, TypeOK
<1>2. CASE \E report \in Reports : Evaluate(t, report)
  BY <1>1, <1>2, SaveMoves DEF Evaluate, WritingSteps
<1>3. CASE ReadViolations(t)
  BY <1>1, <1>3, SaveMoves DEF ReadViolations, Fail, WritingSteps
<1> QED
  BY <1>1, <1>2, <1>3
  DEF ThreadStep, Advance, Begin, BeginPoisoned, CheckIndex, CreateIndex, Load, DelegatePanics,
      TruncateIndex, WriteIndex, TruncateViolations, WriteViolations, Finish, IOError, Fail,
      WritingSteps

LEMMA PutSaves ==
    ASSUME TInv, NEW t \in Threads, PutIfAbsent(t)
    PROVE  /\ pc'[t] \in {"truncateIndex", "truncateViolations"}
           /\ task'[t].file \in Files
           /\ task'[t].file = storedRules'[ProcOf[t]][RuleIn(t)]
           /\ task'[t] = [task[t] EXCEPT !.file = task'[t].file]
<1>1. /\ task \in [Threads -> Task] /\ pc \in [Threads -> Steps] /\ task[t] \in Task
      /\ storedRules \in [Procs -> Index \cup {Missing}]
      /\ ProcOf[t] \in Procs /\ RuleIn(t) \in Rules /\ storedRules[ProcOf[t]] \in Index
  BY FreezeAssumption
  DEF PutIfAbsent, TInv, TypeOK, TaskOK, Loaded, RuleIn, AfterLoad, AfterCheck, Steps
<1>2. ASSUME NEW f \in Files, task' = [task EXCEPT ![t].file = f]
      PROVE  task'[t] = [task[t] EXCEPT !.file = f] /\ task'[t].file = f
  BY <1>1, <1>2 DEF Task
<1>3. CASE /\ storedRules[ProcOf[t]][RuleIn(t)] # NoFile
           /\ task' = [task EXCEPT ![t].file = storedRules[ProcOf[t]][RuleIn(t)]]
           /\ pc' = [pc EXCEPT ![t] = "truncateViolations"]
           /\ UNCHANGED storedRules
  <2>1. storedRules[ProcOf[t]][RuleIn(t)] \in Files
    BY <1>1, <1>3 DEF Index
  <2> QED
    BY <1>1, <1>2, <1>3, <2>1
<1>4. ASSUME NEW f \in Files,
             storedRules' = [storedRules EXCEPT ![ProcOf[t]][RuleIn(t)] = f],
             task' = [task EXCEPT ![t].file = f],
             pc' = [pc EXCEPT ![t] = "truncateIndex"]
      PROVE  /\ pc'[t] \in {"truncateIndex", "truncateViolations"}
             /\ task'[t].file \in Files
             /\ task'[t].file = storedRules'[ProcOf[t]][RuleIn(t)]
             /\ task'[t] = [task[t] EXCEPT !.file = task'[t].file]
  <2>1. storedRules'[ProcOf[t]][RuleIn(t)] = f
    BY <1>1, <1>4 DEF Index
  <2> QED
    BY <1>1, <1>2, <1>4, <2>1
<1> QED
  BY <1>3, <1>4 DEF PutIfAbsent

LEMMA NextSaves == TInv /\ FilesAreIndexed /\ [Next]_vars => FilesAreIndexed'
<1> SUFFICES ASSUME TInv, FilesAreIndexed, [Next]_vars PROVE FilesAreIndexed'
  OBVIOUS
<1>1. ASSUME NEW t \in Threads, ThreadStep(t) PROVE FilesAreIndexed'
  <2> SUFFICES ASSUME NEW u \in Threads, pc'[u] \in WritingSteps
               PROVE  /\ task'[u].file \in Files
                      /\ task'[u].file = storedRules'[ProcOf[u]][RuleIn(u)']
    BY DEF FilesAreIndexed, SavesToItsFile
  <2>1. LeavesAlone(t)
    BY <1>1, ThreadStepShape
  <2>2. CASE u # t
    <3>1. pc'[u] = pc[u] /\ task'[u] = task[u] /\ RuleIn(u)' = RuleIn(u)
      BY <2>1, <2>2 DEF LeavesAlone, RuleIn
    <3>2. /\ task[u].file \in Files
          /\ task[u].file = storedRules[ProcOf[u]][RuleIn(u)]
      BY <3>1 DEF FilesAreIndexed, SavesToItsFile
    <3>3. Loaded(ProcOf[u]) /\ ProcOf[u] \in Procs /\ RuleIn(u) \in Rules
      BY <3>1, FreezeAssumption
      DEF TInv, TaskOK, RuleIn, WritingSteps, AfterLoad, AfterCheck, Steps
    <3>4. NoFile \notin Files
      BY FreezeAssumption
    <3> QED
      BY <2>1, <3>1, <3>2, <3>3, <3>4 DEF LeavesAlone, EntriesStay
  <2>3. CASE u = t
    <3>1. CASE PutIfAbsent(t)
      <4>1. RuleIn(t)' = RuleIn(t)
        BY <3>1, InnerSteps DEF GoesOn, RuleIn
      <4> QED
        BY <2>3, <3>1, <4>1, PutSaves
    <3>2. CASE pc[t] \in WritingSteps /\ UNCHANGED <<task, storedRules>>
      BY <2>3, <3>2 DEF FilesAreIndexed, SavesToItsFile, RuleIn
    <3> QED
      BY <1>1, <2>3, <3>1, <3>2, WaysToWrite
  <2> QED
    BY <2>2, <2>3
<1>2. ASSUME NEW p \in Procs, Crash(p) PROVE FilesAreIndexed'
  BY <1>2, FreezeAssumption DEF Crash, FilesAreIndexed, SavesToItsFile, RuleIn, WritingSteps, TInv, TypeOK
<1>3. CASE UNCHANGED vars
  BY <1>3 DEF vars, FilesAreIndexed, SavesToItsFile, RuleIn
<1> QED
  BY <1>1, <1>2, <1>3, StepCases

LEMMA InitSaves == Init => FilesAreIndexed
BY DEF Init, FilesAreIndexed, SavesToItsFile, WritingSteps

(***************************************************************************)
(* A violation file is rewritten only by the evaluation that found it, if  *)
(* no other object freezes the same rule.                                  *)
(***************************************************************************)
LEMMA FileIsAlone ==
    ASSUME TInv, StoresAreHeld, FilesNotShared, FilesAreIndexed, OneObjectPerRule,
           NEW t \in Threads, pc[t] # "idle", Loaded(ProcOf[t]),
           NEW u \in Threads, ThreadStep(u), NEW f \in Files,
           storedRules[ProcOf[t]][RuleIn(t)] = f,
           violations'[f] # violations[f]
    PROVE  u = t
<1>1. pc[u] \in Rewriting /\ task[u].file = f
  BY ThreadStepShape DEF LeavesAlone
<1>2. Keeps(RuleIn(u), f)
  BY <1>1 DEF Keeps
<1>3. Keeps(RuleIn(t), f)
  BY FreezeAssumption DEF Keeps
<1>4. RuleIn(t) \in Rules /\ RuleIn(u) \in Rules /\ pc[u] # "idle"
  BY <1>1, FreezeAssumption DEF TInv, TaskOK, RuleIn, Rewriting
<1>5. RuleIn(t) = RuleIn(u)
  BY <1>2, <1>3, <1>4 DEF FilesNotShared
<1> QED
  BY <1>4, <1>5, AloneWithItsRule

-----------------------------------------------------------------------------
(***************************************************************************)
(* A frozen rule that passes.  On the way to `done` what is saved covers   *)
(* the report; there, the file does.                                       *)
(***************************************************************************)
SavingSteps == {"putIfAbsent"} \cup WritingSteps

FileCovers(t) ==
    LET file == storedRules[ProcOf[t]][RuleIn(t)] IN
    /\ file \in Files
    /\ violations[file] # Missing
    /\ Covers(violations[file], task[t].report)

PassesCovered(t) ==
    task[t].verdict = "passed" =>
        /\ pc[t] \in SavingSteps => Covers(task[t].saving, task[t].report)
        /\ pc[t] = "done" => Loaded(ProcOf[t]) /\ FileCovers(t)

CoveredOK == \A t \in Threads : PassesCovered(t)

(***************************************************************************)
(* The steps of other threads change nothing of it.                        *)
(***************************************************************************)
LEMMA OthersKeepCover ==
    ASSUME TInv, StoresAreHeld, FilesNotShared, FilesAreIndexed, OneObjectPerRule,
           NEW t \in Threads, PassesCovered(t),
           NEW u \in Threads, u # t, ThreadStep(u)
    PROVE  PassesCovered(t)'
<1>1. LeavesAlone(u)
  BY ThreadStepShape
<1>2. pc'[t] = pc[t] /\ task'[t] = task[t] /\ RuleIn(t)' = RuleIn(t)
  BY <1>1 DEF LeavesAlone, RuleIn
<1>3. CASE task[t].verdict = "passed" /\ pc[t] = "done"
  <2> DEFINE f == storedRules[ProcOf[t]][RuleIn(t)]
  <2>1. /\ Loaded(ProcOf[t]) /\ f \in Files /\ violations[f] # Missing
        /\ Covers(violations[f], task[t].report)
    BY <1>3 DEF PassesCovered, FileCovers
  <2>2. ProcOf[t] \in Procs /\ RuleIn(t) \in Rules /\ f # NoFile
    BY <1>3, <2>1, FreezeAssumption DEF TInv, TaskOK, RuleIn
  <2>3. storedRules'[ProcOf[t]][RuleIn(t)'] = f /\ Loaded(ProcOf[t])'
    BY <1>1, <1>2, <2>1, <2>2 DEF LeavesAlone, EntriesStay
  <2>4. PICK g \in Files : g = f
    BY <2>1
  <2>5. violations'[g] = violations[g]
    BY <1>3, <2>1, <2>4, FileIsAlone
  <2> HIDE DEF f
  <2>6. /\ storedRules'[ProcOf[t]][RuleIn(t)'] = g
        /\ violations'[g] # Missing
        /\ Covers(violations'[g], task'[t].report)
    BY <1>2, <2>1, <2>3, <2>4, <2>5
  <2> QED
    BY <1>2, <1>3, <2>3, <2>6 DEF PassesCovered, FileCovers, SavingSteps, WritingSteps
<1>4. CASE ~(task[t].verdict = "passed" /\ pc[t] = "done")
  BY <1>2, <1>4 DEF PassesCovered
<1> QED
  BY <1>3, <1>4

(***************************************************************************)
(* The matcher takes every line for itself, as the one of the crate does   *)
(* (FuzzyViolationLineMatcher compares the lines but for some numbers).    *)
(***************************************************************************)
MatcherIsReflexive == \A line \in Lines : <<line, line>> \in Matches

(***************************************************************************)
(* A rule that is frozen anew saves what it found.                         *)
(***************************************************************************)
LEMMA FreezingCovers ==
    ASSUME TInv, MatcherIsReflexive, NEW t \in Threads, NEW report \in Reports,
           Evaluate(t, report)
    PROVE  PassesCovered(t)'
<1>1. task \in [Threads -> Task] /\ pc \in [Threads -> Steps] /\ task[t] \in Task
  BY DEF TInv, TypeOK
<1>2. Covers(report, report)
  <2>1. report \in Seq(Lines)
    BY FreezeAssumption
  <2> QED
    BY <2>1 DEF Covers, MatcherIsReflexive
<1> DEFINE passed == [[task[t] EXCEPT !.report = report] EXCEPT !.verdict = "passed"]
           saved == [passed EXCEPT !.saving = report]
<1>3. saved.saving = report /\ saved.report = report
  BY <1>1 DEF Task
<1>4. [task[t] EXCEPT !.verdict = "error"].verdict = "error"
  BY <1>1 DEF Task
<1>5. CASE Save(t, report, passed)
  <2> HIDE DEF passed
  <2>1. \/ pc'[t] = "putIfAbsent" /\ task'[t] = saved
        \/ pc'[t] = "done" /\ task'[t] = [task[t] EXCEPT !.verdict = "error"]
    BY <1>5, SaveMoves, Zenon
  <2> HIDE DEF saved
  <2> QED
    BY <1>2, <1>3, <1>4, <2>1 DEF PassesCovered
<1>6. CASE pc' = [pc EXCEPT ![t] = "readViolations"]
  BY <1>1, <1>6 DEF PassesCovered, SavingSteps, WritingSteps
<1> QED
  BY <1>5, <1>6 DEF Evaluate

(***************************************************************************)
(* A rule that passes against its file, tightened or not.                  *)
(***************************************************************************)
LEMMA ComparingCovers ==
    ASSUME TInv, NEW t \in Threads, ReadViolations(t)
    PROVE  PassesCovered(t)'
<1>1. /\ task \in [Threads -> Task] /\ pc \in [Threads -> Steps] /\ task[t] \in Task
      /\ ProcOf[t] \in Procs /\ RuleIn(t) \in Rules /\ Loaded(ProcOf[t])
      /\ storedRules[ProcOf[t]] \in Index
      /\ storedRules[ProcOf[t]][RuleIn(t)] # NoFile
      /\ UNCHANGED <<violations, storedRules>>
  BY FreezeAssumption
  DEF ReadViolations, TInv, TypeOK, TaskOK, Loaded, RuleIn, AfterLoad, AfterCheck, Steps
<1>2. storedRules[ProcOf[t]][RuleIn(t)] \in Files
  BY <1>1 DEF Index
<1> DEFINE stored == violations[storedRules[ProcOf[t]][RuleIn(t)]]
           judged(c) == [task[t] EXCEPT !.verdict =
                           IF NewLines(task[t].report, c.knownActual) = {}
                           THEN "passed" ELSE "violated"]
<1>3. [task[t] EXCEPT !.verdict = "error"].verdict = "error"
  BY <1>1 DEF Task
<1>4. CASE Fail(t)
  BY <1>1, <1>3, <1>4 DEF Fail, PassesCovered
<1>5. ASSUME stored # Missing, NEW c \in CategorizedViolations(task[t].report, stored)
      PROVE  /\ judged(c).report = task[t].report
             /\ judged(c).frozen = task[t].frozen
             /\ judged(c).verdict = "passed" =>
                   Covers(stored, task[t].report) /\ Covers(c.storedUnsolved, task[t].report)
  <2>1. judged(c).report = task[t].report /\ judged(c).frozen = task[t].frozen
    BY <1>1 DEF Task
  <2>2. judged(c).verdict = "passed" => NewLines(task[t].report, c.knownActual) = {}
    BY <1>1 DEF Task
  <2>3. stored \in Seq(Lines) /\ task[t].report \in Seq(Lines)
    BY <1>1, <1>2, <1>5 DEF TInv, TypeOK, Task
  <2> HIDE DEF stored, judged
  <2> QED
    BY <1>5, <2>1, <2>2, <2>3, KnownIsCovered
<1>6. ASSUME stored # Missing, NEW c \in CategorizedViolations(task[t].report, stored),
             task' = [task EXCEPT ![t] = judged(c)], pc' = [pc EXCEPT ![t] = "done"]
      PROVE  PassesCovered(t)'
  <2>1. PICK done : done = judged(c)
    OBVIOUS
  <2>2. /\ done.report = task[t].report /\ done.frozen = task[t].frozen
        /\ done.verdict = "passed" => Covers(stored, task[t].report)
    BY <1>5, <1>6, <2>1
  <2>3. task'[t] = done /\ pc'[t] = "done"
    BY <1>1, <1>6, <2>1
  <2>4. RuleIn(t)' = RuleIn(t)
    BY <2>2, <2>3 DEF RuleIn
  <2> HIDE DEF judged
  <2> QED
    BY <1>1, <1>2, <1>6, <2>2, <2>3, <2>4
    DEF PassesCovered, FileCovers, Loaded, SavingSteps, WritingSteps
<1>7. ASSUME stored # Missing, NEW c \in CategorizedViolations(task[t].report, stored),
             Save(t, c.storedUnsolved, judged(c))
      PROVE  PassesCovered(t)'
  <2>1. PICK lines, changes : lines = c.storedUnsolved /\ changes = judged(c)
    OBVIOUS
  <2>2. \/ pc'[t] = "putIfAbsent" /\ task'[t] = [changes EXCEPT !.saving = lines]
        \/ pc'[t] = "done" /\ task'[t] = [task[t] EXCEPT !.verdict = "error"]
    <3>1. Save(t, lines, changes)
      BY <1>7, <2>1
    <3> QED
      BY <3>1, SaveMoves, Zenon
  <2>3. /\ changes.report = task[t].report
        /\ changes.verdict = "passed" => Covers(lines, task[t].report)
    BY <1>5, <1>7, <2>1
  <2>4. /\ [changes EXCEPT !.saving = lines].saving = lines
        /\ [changes EXCEPT !.saving = lines].report = changes.report
        /\ [changes EXCEPT !.saving = lines].verdict = changes.verdict
    BY <1>1, <2>1 DEF Task
  <2> HIDE DEF judged
  <2> QED
    BY <1>3, <2>2, <2>3, <2>4 DEF PassesCovered
<1> QED
  BY <1>4, <1>6, <1>7 DEF ReadViolations

LEMMA OwnStepCovers ==
    ASSUME TInv, FilesAreIndexed, MatcherIsReflexive,
           NEW t \in Threads, PassesCovered(t), ThreadStep(t)
    PROVE  PassesCovered(t)'
<1>1. task \in [Threads -> Task] /\ pc \in [Threads -> Steps] /\ task[t] \in Task
  BY DEF TInv, TypeOK
<1>2. ASSUME task'[t].verdict # "passed" PROVE PassesCovered(t)'
  BY <1>2 DEF PassesCovered
<1>3. ASSUME pc'[t] \notin SavingSteps \cup {"done"} PROVE PassesCovered(t)'
  BY <1>3 DEF PassesCovered
<1>4. ASSUME NEW z, NEW c, Begin(t, z, c) PROVE task'[t].verdict # "passed"
  <2> DEFINE started == [NoTask EXCEPT !.frozen = z, !.config = c]
  <2>1. started.verdict = "none"
    BY DEF NoTask
  <2>2. task' = [task EXCEPT ![t] = started]
    BY <1>4 DEF Begin
  <2> HIDE DEF started
  <2> QED
    BY <1>1, <2>1, <2>2
<1>5. CASE (\E z \in Frozen : BeginPoisoned(t, z)) \/ DelegatePanics(t)
  <2>1. [NoTask EXCEPT !.verdict = "error"].verdict = "error"
    BY DEF NoTask
  <2>2. task'[t].verdict = "error"
    BY <1>1, <1>5, <2>1 DEF BeginPoisoned, DelegatePanics
  <2> QED
    BY <1>2, <2>2
<1>6. CASE CheckIndex(t) \/ IOError(t)
  <2>1. CASE Fail(t)
    <3>1. [task[t] EXCEPT !.verdict = "error"].verdict = "error"
      BY <1>1 DEF Task
    <3>2. task'[t].verdict = "error"
      BY <1>1, <2>1, <3>1 DEF Fail
    <3> QED
      BY <1>2, <3>2
  <2>2. CASE pc'[t] \in {"load", "createIndex"}
    BY <1>3, <2>2 DEF SavingSteps, WritingSteps
  <2> QED
    BY <1>1, <1>6, <2>1, <2>2 DEF CheckIndex, IOError
<1>7. CASE CreateIndex(t) \/ Load(t) \/ Finish(t)
  <2>1. pc'[t] \in {"load", "evaluate", "idle"}
    BY <1>1, <1>7 DEF CreateIndex, Load, Finish
  <2> QED
    BY <1>3, <2>1 DEF SavingSteps, WritingSteps
<1>8. CASE PutIfAbsent(t)
  <2>1. pc'[t] # "done" /\ pc[t] = "putIfAbsent"
    BY <1>8, PutSaves DEF PutIfAbsent
  <2>2. PICK f : task'[t] = [task[t] EXCEPT !.file = f]
    BY <1>8, PutSaves
  <2>3. /\ [task[t] EXCEPT !.file = f].verdict = task[t].verdict
        /\ [task[t] EXCEPT !.file = f].saving = task[t].saving
        /\ [task[t] EXCEPT !.file = f].report = task[t].report
    BY <1>1 DEF Task
  <2> QED
    BY <2>1, <2>2, <2>3 DEF PassesCovered, SavingSteps
<1>9. CASE TruncateIndex(t) \/ WriteIndex(t) \/ TruncateViolations(t)
  <2>1. pc[t] \in SavingSteps /\ pc'[t] # "done" /\ task'[t] = task[t]
    BY <1>1, <1>9 DEF TruncateIndex, WriteIndex, TruncateViolations, SavingSteps, WritingSteps
  <2> QED
    BY <2>1 DEF PassesCovered
<1>10. CASE WriteViolations(t)
  <2>1. pc[t] \in SavingSteps /\ pc[t] \in WritingSteps /\ pc[t] \in AfterLoad
    BY <1>10 DEF WriteViolations, SavingSteps, WritingSteps, AfterLoad, AfterCheck, Steps
  <2>2. Loaded(ProcOf[t])
    BY <2>1 DEF TInv, TaskOK
  <2>3. PICK f \in Files : f = task[t].file /\ f = storedRules[ProcOf[t]][RuleIn(t)]
    BY <2>1 DEF FilesAreIndexed, SavesToItsFile
  <2>4. violations' = [violations EXCEPT ![f] = task[t].saving]
    BY <1>10, <2>3 DEF WriteViolations
  <2>5. violations'[f] = task[t].saving /\ task[t].saving \in Seq(Lines)
    BY <1>1, <2>4 DEF TInv, TypeOK, Task
  <2>6. /\ pc'[t] = "done" /\ task' = task /\ storedRules' = storedRules
    BY <1>1, <1>10 DEF WriteViolations
  <2>7. RuleIn(t)' = RuleIn(t) /\ Loaded(ProcOf[t])'
    BY <2>2, <2>6 DEF RuleIn, Loaded
  <2>8. task[t].saving # Missing
    BY <2>5, FreezeAssumption
  <2> QED
    BY <2>1, <2>3, <2>5, <2>6, <2>7, <2>8
    DEF PassesCovered, FileCovers, SavingSteps, WritingSteps
<1>11. CASE \E report \in Reports : Evaluate(t, report)
  BY <1>11, FreezingCovers
<1>12. CASE ReadViolations(t)
  BY <1>12, ComparingCovers
<1> QED
  BY <1>2, <1>4, <1>5, <1>6, <1>7, <1>8, <1>9, <1>10, <1>11, <1>12 DEF ThreadStep, Advance

LEMMA NextCovered ==
    ASSUME MatcherIsReflexive, OneObjectPerRule,
           TInv, StoresAreHeld, FilesNotShared, FilesAreIndexed, CoveredOK, [Next]_vars
    PROVE  CoveredOK'
<1>1. ASSUME NEW u \in Threads, ThreadStep(u) PROVE CoveredOK'
  BY <1>1, OthersKeepCover, OwnStepCovers DEF CoveredOK
<1>2. ASSUME NEW p \in Procs, Crash(p) PROVE CoveredOK'
  <2> SUFFICES ASSUME NEW t \in Threads PROVE PassesCovered(t)'
    BY DEF CoveredOK
  <2>1. CASE ProcOf[t] = p
    BY <1>2, <2>1 DEF Crash, PassesCovered, SavingSteps, WritingSteps
  <2>2. CASE ProcOf[t] # p
    <3>1. /\ pc'[t] = pc[t] /\ task'[t] = task[t] /\ violations' = violations
          /\ storedRules'[ProcOf[t]] = storedRules[ProcOf[t]]
      BY <1>2, <2>2, FreezeAssumption DEF Crash, TInv, TypeOK
    <3>2. PassesCovered(t)
      BY DEF CoveredOK
    <3> QED
      BY <3>1, <3>2 DEF PassesCovered, FileCovers, Loaded, RuleIn
  <2> QED
    BY <2>1, <2>2
<1>3. CASE UNCHANGED vars
  BY <1>3 DEF vars, CoveredOK, PassesCovered, FileCovers, Loaded, RuleIn
<1> QED
  BY <1>1, <1>2, <1>3, StepCases

(***************************************************************************)
(* Whoever crashes, fails half-way or loses index entries in other         *)
(* processes: a frozen rule passes only when a line of its violation file, *)
(* as the evaluation leaves it, accounts for every violation it found.     *)
(***************************************************************************)
THEOREM PassedRulesAreCovered ==
    ASSUME MatcherIsReflexive, OneObjectPerRule
    PROVE  Spec => []PassedIsCovered
<1> DEFINE IInv == TInv /\ StoresAreHeld /\ NamesOK /\ FilesAreIndexed /\ CoveredOK
<1>1. Init => IInv
  <2>1. Init => CoveredOK
    BY DEF Init, CoveredOK, PassesCovered, SavingSteps, WritingSteps
  <2> QED
    BY <2>1, InitTInv, InitHeld, InitNames, InitSaves
<1>2. IInv /\ [Next]_vars => IInv'
  BY NextTInv, NextHeld, NextNames, NextSaves, NextCovered DEF NamesOK
<1>3. IInv => PassedIsCovered
  BY FreezeAssumption DEF CoveredOK, PassesCovered, FileCovers, PassedIsCovered
<1> QED
  BY <1>1, <1>2, <1>3, PTL DEF Spec

-----------------------------------------------------------------------------
(***************************************************************************)
(* An entry of an index has its violations, or the thread that entered it  *)
(* is about to write them.  This needs that nothing fails: no process      *)
(* crashes and no file access ends in an error.                            *)
(***************************************************************************)
NothingFails == MaxCrashes = 0 /\ MaxFaults = 0

Entered(r, f) ==
    \/ index # Missing /\ index[r] = f
    \/ \E p \in Procs : Loaded(p) /\ storedRules[p][r] = f

BeingSaved(t, r, f) ==
    /\ pc[t] \in {"truncateIndex", "writeIndex", "truncateViolations"}
    /\ task[t].file = f /\ RuleIn(t) = r

EntriesAreStored ==
    \A r \in Rules, f \in Files :
        Entered(r, f) => violations[f] # Missing \/ \E t \in Threads : BeingSaved(t, r, f)

LEMMA CopiesEnterNothing ==
    ASSUME TInv, CopiesOnly, NEW r \in Rules, NEW f \in Files, Entered(r, f)'
    PROVE  Entered(r, f)
<1> USE FreezeAssumption
<1>1. CASE index' # Missing /\ index'[r] = f
  BY <1>1 DEF CopiesOnly, Entered, EmptyIndex
<1>2. ASSUME NEW p \in Procs, Loaded(p)', storedRules'[p][r] = f
      PROVE  Entered(r, f)
  BY <1>2 DEF CopiesOnly, Entered, Loaded
<1> QED
  BY <1>1, <1>2 DEF Entered

LEMMA DrawsEnterOne ==
    ASSUME TInv, NEW t \in Threads, NEW n \in Files, Draws(t, n),
           NEW r \in Rules, NEW f \in Files, Entered(r, f)'
    PROVE  Entered(r, f) \/ (f = n /\ BeingSaved(t, r, f)')
<1> DEFINE p == ProcOf[t]
<1>1. /\ task \in [Threads -> Task] /\ pc \in [Threads -> Steps]
      /\ p \in Procs /\ storedRules[p] \in Index /\ RuleIn(t) \in Rules /\ Loaded(p)
      /\ storedRules \in [Procs -> Index \cup {Missing}]
  BY FreezeAssumption
  DEF Draws, PutIfAbsent, TInv, TypeOK, TaskOK, Loaded, RuleIn, AfterLoad, AfterCheck, Steps
<1>2. \A q \in Procs, s \in Rules :
          storedRules'[q][s] = IF q = p /\ s = RuleIn(t) THEN n ELSE storedRules[q][s]
  BY <1>1 DEF Draws, Index
<1>3. \A q \in Procs : Loaded(q)' => Loaded(q)
  BY <1>1 DEF Draws, Loaded
<1>4. storedRules[p][RuleIn(t)] = NoFile
  <2>1. storedRules'[p][RuleIn(t)] = n /\ n \notin usedFiles
    BY <1>1, <1>2 DEF Draws
  <2>2. CASE storedRules[p][RuleIn(t)] # NoFile
    <3>1. UNCHANGED usedFiles
      BY <2>2 DEF Draws, PutIfAbsent
    <3> QED
      BY <2>1, <3>1 DEF Draws
  <2> QED
    BY <2>2
<1>5. pc'[t] = "truncateIndex" /\ index' = index
  BY <1>1, <1>4 DEF Draws, PutIfAbsent
<1>6. task'[t].file = n /\ RuleIn(t)' = RuleIn(t)
  <2>1. task[t] \in Task /\ [task[t] EXCEPT !.file = n].file = n
        /\ [task[t] EXCEPT !.file = n].frozen = task[t].frozen
    BY <1>1 DEF Task
  <2>2. task' = [task EXCEPT ![t] = [task[t] EXCEPT !.file = n]]
    BY <1>1 DEF Draws
  <2> QED
    BY <1>1, <2>1, <2>2 DEF RuleIn
<1>7. CASE index' # Missing /\ index'[r] = f
  BY <1>5, <1>7 DEF Entered
<1>8. ASSUME NEW q \in Procs, Loaded(q)', storedRules'[q][r] = f
      PROVE  Entered(r, f) \/ (f = n /\ BeingSaved(t, r, f)')
  <2>1. CASE q = p /\ r = RuleIn(t)
    BY <1>2, <1>5, <1>6, <1>8, <2>1 DEF BeingSaved
  <2>2. CASE ~(q = p /\ r = RuleIn(t))
    BY <1>2, <1>3, <1>8, <2>2 DEF Entered
  <2> QED
    BY <2>1, <2>2
<1> QED
  BY <1>7, <1>8 DEF Entered

(***************************************************************************)
(* A violation file is never removed.                                      *)
(***************************************************************************)
LEMMA FilesRemain ==
    ASSUME TInv, [Next]_vars, NEW f \in Files, violations[f] # Missing
    PROVE  violations'[f] # Missing
<1>1. /\ violations \in [Files -> Seq(Lines) \cup {Missing}] /\ <<>> # Missing
      /\ \A t \in Threads : task[t].saving # Missing
  <2>1. \A t \in Threads : task[t].saving \in Seq(Lines)
    BY DEF TInv, TypeOK, Task
  <2>2. <<>> \in Seq(Lines)
    OBVIOUS
  <2>3. Missing \notin Seq(Lines)
    BY FreezeAssumption
  <2> QED
    BY <2>1, <2>2, <2>3 DEF TInv, TypeOK
<1>2. ASSUME NEW t \in Threads, TruncateViolations(t) PROVE violations'[f] # Missing
  BY <1>1, <1>2 DEF TruncateViolations
<1>3. ASSUME NEW t \in Threads, WriteViolations(t) PROVE violations'[f] # Missing
  BY <1>1, <1>3 DEF WriteViolations
<1>4. CASE UNCHANGED violations
  BY <1>4
<1> QED
  BY <1>2, <1>3, <1>4
  DEF Next, Advance, Begin, BeginPoisoned, CheckIndex, CreateIndex, Load, Evaluate,
      DelegatePanics, ReadViolations, PutIfAbsent, TruncateIndex, WriteIndex, Finish,
      IOError, Crash, vars

(***************************************************************************)
(* The first save of a file goes on until the file is there.               *)
(***************************************************************************)
LEMMA SavingGoesOn ==
    ASSUME NothingFails, TInv, [Next]_vars,
           NEW t \in Threads, NEW r \in Rules, NEW f \in Files, BeingSaved(t, r, f)
    PROVE  violations'[f] # Missing \/ BeingSaved(t, r, f)'
<1>1. /\ task \in [Threads -> Task] /\ pc \in [Threads -> Steps]
      /\ violations \in [Files -> Seq(Lines) \cup {Missing}] /\ <<>> # Missing
      /\ crashes \in 0..MaxCrashes /\ faults \in 0..MaxFaults
  <2>1. <<>> \in Seq(Lines)
    OBVIOUS
  <2> QED
    BY <2>1, FreezeAssumption DEF TInv, TypeOK
<1>2. ASSUME NEW u \in Threads, ThreadStep(u), u # t
      PROVE  BeingSaved(t, r, f)'
  <2>1. LeavesAlone(u)
    BY <1>2, ThreadStepShape
  <2> QED
    BY <1>2, <2>1 DEF LeavesAlone, BeingSaved, RuleIn
<1>3. ASSUME ThreadStep(t)
      PROVE  violations'[f] # Missing \/ BeingSaved(t, r, f)'
  <2>1. ~IOError(t)
    BY <1>1 DEF IOError, NothingFails
  <2>2. CASE TruncateIndex(t) \/ WriteIndex(t)
    BY <1>1, <2>2 DEF TruncateIndex, WriteIndex, BeingSaved, RuleIn
  <2>3. CASE TruncateViolations(t)
    BY <1>1, <2>3 DEF TruncateViolations, BeingSaved
  <2> QED
    BY <1>3, <2>1, <2>2, <2>3
    DEF ThreadStep, Advance, Begin, BeginPoisoned, CheckIndex, CreateIndex, Load, Evaluate,
        DelegatePanics, ReadViolations, PutIfAbsent, WriteViolations, Finish, BeingSaved
<1>4. ASSUME NEW p \in Procs PROVE ~Crash(p)
  BY <1>1 DEF Crash, NothingFails
<1>5. CASE UNCHANGED vars
  BY <1>5 DEF vars, BeingSaved, RuleIn
<1> QED
  BY <1>2, <1>3, <1>4, <1>5, StepCases

LEMMA NextEntries ==
    ASSUME NothingFails, TInv, EntriesAreStored, [Next]_vars
    PROVE  EntriesAreStored'
<1> SUFFICES ASSUME NEW r \in Rules, NEW f \in Files, Entered(r, f)'
             PROVE  violations'[f] # Missing \/ \E t \in Threads : BeingSaved(t, r, f)'
  BY DEF EntriesAreStored
<1>1. CASE Entered(r, f)
  <2>1. CASE violations[f] # Missing
    BY <2>1, FilesRemain
  <2>2. ASSUME NEW t \in Threads, BeingSaved(t, r, f)
        PROVE  violations'[f] # Missing \/ \E u \in Threads : BeingSaved(u, r, f)'
    BY <2>2, SavingGoesOn
  <2> QED
    BY <1>1, <2>1, <2>2 DEF EntriesAreStored
<1>2. CASE ~Entered(r, f)
  <2>1. ~CopiesOnly
    BY <1>2, CopiesEnterNothing
  <2>2. PICK t \in Threads, n \in Files : Draws(t, n)
    BY <2>1, StepCopies
  <2> QED
    BY <1>2, <2>2, DrawsEnterOne
<1> QED
  BY <1>1, <1>2

(***************************************************************************)
(* Across any number of processes that do not crash and disks that do not  *)
(* fail: a rule that contains finds has its violations to be read.         *)
(***************************************************************************)
THEOREM ContainedRulesAreStored ==
    ASSUME NothingFails, OneObjectPerRule
    PROVE  Spec => []ContainsMeansStored
<1> DEFINE IInv == TInv /\ StoresAreHeld /\ EntriesAreStored
<1>1. Init => IInv
  <2>1. Init => EntriesAreStored
    BY FreezeAssumption DEF Init, EntriesAreStored, Entered, EmptyIndex, Loaded
  <2> QED
    BY <2>1, InitTInv, InitHeld
<1>2. IInv /\ [Next]_vars => IInv'
  BY NextTInv, NextHeld, NextEntries
<1>3. IInv => ContainsMeansStored
  <2> SUFFICES ASSUME IInv, NEW t \in Threads, pc[t] = "readViolations"
               PROVE  violations[storedRules[ProcOf[t]][RuleIn(t)]] # Missing
    BY DEF ContainsMeansStored
  <2>1. /\ ProcOf[t] \in Procs /\ RuleIn(t) \in Rules /\ Loaded(ProcOf[t])
        /\ storedRules[ProcOf[t]] \in Index
        /\ storedRules[ProcOf[t]][RuleIn(t)] # NoFile
    BY FreezeAssumption DEF TInv, TypeOK, TaskOK, Loaded, RuleIn, AfterLoad, AfterCheck, Steps
  <2>2. PICK f \in Files : f = storedRules[ProcOf[t]][RuleIn(t)]
    BY <2>1 DEF Index
  <2>3. Entered(RuleIn(t), f)
    BY <2>1, <2>2 DEF Entered
  <2>4. ASSUME NEW u \in Threads, BeingSaved(u, RuleIn(t), f) PROVE FALSE
    <3>1. pc[u] # "idle" /\ RuleIn(u) = RuleIn(t) /\ u # t
      BY <2>4 DEF BeingSaved
    <3> QED
      BY <3>1, AloneWithItsRule
  <2> QED
    BY <2>1, <2>2, <2>3, <2>4 DEF EntriesAreStored
<1> QED
  BY <1>1, <1>2, <1>3, PTL DEF Spec

-----------------------------------------------------------------------------
(***************************************************************************)
(* The index on disk.  Who writes it holds the lock of the index; while    *)
(* nobody writes it, it holds every entry in memory.                       *)
(***************************************************************************)
IndexSteps == {"truncateIndex", "writeIndex"}

OneProcessOnly == \A p, q \in Procs : p = q

WritersHoldTheLock ==
    \A t \in Threads : pc[t] \in IndexSteps => indexLock[ProcOf[t]] = t

IndexInSync ==
    /\ index # Missing
    /\ \A t \in Threads : pc[t] # "createIndex"
    /\ (\A t \in Threads : pc[t] \notin IndexSteps) =>
          \A p \in Procs : Loaded(p) =>
              \A r \in Rules : storedRules[p][r] # NoFile => index[r] = storedRules[p][r]

(***************************************************************************)
(* The lock is taken in put_if_absent and given back once the index is     *)
(* written, or when that fails.                                            *)
(***************************************************************************)
LEMMA NextLock == TInv /\ WritersHoldTheLock /\ [Next]_vars => WritersHoldTheLock'
<1> SUFFICES ASSUME TInv, WritersHoldTheLock, [Next]_vars PROVE WritersHoldTheLock'
  OBVIOUS
<1>1. /\ task \in [Threads -> Task] /\ pc \in [Threads -> Steps]
      /\ indexLock \in [Procs -> Threads \cup {NoThread}] /\ NoThread \notin Threads
      /\ ProcOf \in [Threads -> Procs]
  BY FreezeAssumption DEF TInv, TypeOK
<1>2. ASSUME NEW t \in Threads, ThreadStep(t) PROVE WritersHoldTheLock'
  <2>1. \A u \in Threads \ {t} : pc'[u] = pc[u]
    BY <1>2, ThreadStepShape DEF LeavesAlone
  <2>2. CASE PutIfAbsent(t)
    <3>1. CASE indexLock' = [indexLock EXCEPT ![ProcOf[t]] = t] /\ indexLock[ProcOf[t]] = NoThread
      BY <1>1, <2>1, <3>1 DEF WritersHoldTheLock
    <3>2. CASE UNCHANGED indexLock /\ pc' = [pc EXCEPT ![t] = "truncateViolations"]
      BY <1>1, <3>2 DEF WritersHoldTheLock, IndexSteps
    <3> QED
      BY <2>2, <3>1, <3>2 DEF PutIfAbsent
  <2>3. CASE TruncateIndex(t)
    BY <1>1, <2>3 DEF TruncateIndex, WritersHoldTheLock, IndexSteps
  <2>4. CASE WriteIndex(t)
    BY <1>1, <2>4 DEF WriteIndex, WritersHoldTheLock, IndexSteps
  <2>5. CASE IOError(t)
    <3>1. pc' = [pc EXCEPT ![t] = "done"]
          /\ indexLock' = [indexLock EXCEPT ![ProcOf[t]] = IF @ = t THEN NoThread ELSE @]
      BY <2>5 DEF IOError, Fail
    <3> QED
      BY <1>1, <3>1 DEF WritersHoldTheLock, IndexSteps
  <2>6. CASE UNCHANGED indexLock /\ pc'[t] \notin IndexSteps
    BY <2>1, <2>6 DEF WritersHoldTheLock
  <2>7. CASE \E report \in Reports : Evaluate(t, report)
    <3>1. pc'[t] \notin IndexSteps
      BY <1>1, <2>7, SaveMoves DEF Evaluate, IndexSteps
    <3> QED
      BY <2>6, <2>7, <3>1 DEF Evaluate
  <2>8. CASE ReadViolations(t)
    <3>1. pc'[t] \notin IndexSteps
      BY <1>1, <2>8, SaveMoves DEF ReadViolations, Fail, IndexSteps
    <3> QED
      BY <2>6, <2>8, <3>1 DEF ReadViolations
  <2>9. CASE \/ \E z \in Frozen, c \in Configs : Begin(t, z, c)
             \/ \E z \in Frozen : BeginPoisoned(t, z)
             \/ CheckIndex(t) \/ CreateIndex(t) \/ Load(t) \/ DelegatePanics(t)
             \/ TruncateViolations(t) \/ WriteViolations(t) \/ Finish(t)
    BY <1>1, <2>6, <2>9
    DEF Begin, BeginPoisoned, CheckIndex, CreateIndex, Load, DelegatePanics,
        TruncateViolations, WriteViolations, Finish, Fail, IndexSteps
  <2> QED
    BY <1>2, <2>2, <2>3, <2>4, <2>5, <2>7, <2>8, <2>9 DEF ThreadStep, Advance
<1>3. ASSUME NEW p \in Procs, Crash(p) PROVE WritersHoldTheLock'
  BY <1>1, <1>3 DEF Crash, WritersHoldTheLock, IndexSteps
<1>4. CASE UNCHANGED vars
  BY <1>4 DEF vars, WritersHoldTheLock
<1> QED
  BY <1>2, <1>3, <1>4, StepCases

(***************************************************************************)
(* One process whose folder has an index, and no failing disk.             *)
(***************************************************************************)
LEMMA NextInSync ==
    ASSUME OneProcessOnly, MaxFaults = 0, TInv, IndexInSync, [Next]_vars
    PROVE  IndexInSync'
<1>1. /\ task \in [Threads -> Task] /\ pc \in [Threads -> Steps]
      /\ ProcOf \in [Threads -> Procs] /\ faults \in 0..0
      /\ index \in Index /\ EmptyIndex # Missing
      /\ storedRules \in [Procs -> Index \cup {Missing}] /\ Missing \notin Index
  BY FreezeAssumption, InitialValues DEF TInv, TypeOK, IndexInSync
<1>2. ASSUME NEW t \in Threads, ThreadStep(t) PROVE IndexInSync'
  <2>1. \A u \in Threads \ {t} : pc'[u] = pc[u]
    BY <1>2, ThreadStepShape DEF LeavesAlone
  <2>2. ASSUME UNCHANGED <<index, storedRules>>, pc[t] \notin IndexSteps, pc'[t] # "createIndex"
        PROVE  IndexInSync'
    BY <2>1, <2>2 DEF IndexInSync, Loaded
  <2>3. CASE PutIfAbsent(t)
    <3>1. CASE pc' = [pc EXCEPT ![t] = "truncateIndex"]
      BY <1>1, <2>3, <3>1 DEF PutIfAbsent, IndexInSync, IndexSteps
    <3>2. CASE UNCHANGED storedRules /\ pc' = [pc EXCEPT ![t] = "truncateViolations"]
      BY <1>1, <2>2, <2>3, <3>2 DEF PutIfAbsent, IndexSteps
    <3> QED
      BY <2>3, <3>1, <3>2 DEF PutIfAbsent
  <2>4. CASE TruncateIndex(t)
    BY <1>1, <2>4 DEF TruncateIndex, IndexInSync, IndexSteps
  <2>5. CASE WriteIndex(t)
    <3>1. Loaded(ProcOf[t])
      BY <2>5 DEF WriteIndex, TInv, TaskOK, AfterLoad, AfterCheck, Steps
    <3>2. \A p \in Procs : p = ProcOf[t]
      BY <1>1 DEF OneProcessOnly
    <3> QED
      BY <1>1, <2>1, <2>5, <3>1, <3>2 DEF WriteIndex, IndexInSync, Loaded
  <2>6. CASE Load(t)
    <3>1. pc'[t] = "evaluate" /\ pc[t] = "load" /\ index' = index
      BY <1>1, <2>6 DEF Load
    <3>2. \A p \in Procs : storedRules'[p] \in {storedRules[p], index}
      BY <1>1, <2>6 DEF Load
    <3> QED
      BY <1>1, <2>1, <3>1, <3>2 DEF IndexInSync, IndexSteps, Loaded
  <2>7. CASE \E report \in Reports : Evaluate(t, report)
    <3>1. pc'[t] # "createIndex"
      BY <1>1, <2>7, SaveMoves DEF Evaluate
    <3> QED
      BY <2>2, <2>7, <3>1 DEF Evaluate, IndexSteps
  <2>8. CASE ReadViolations(t)
    <3>1. pc'[t] # "createIndex"
      BY <1>1, <2>8, SaveMoves DEF ReadViolations, Fail
    <3> QED
      BY <2>2, <2>8, <3>1 DEF ReadViolations, IndexSteps
  <2>9. CASE CheckIndex(t)
    <3>1. index # Missing
      BY DEF IndexInSync
    <3>2. pc'[t] = "load"
      BY <1>1, <2>9, <3>1 DEF CheckIndex
    <3> QED
      BY <2>2, <2>9, <3>2 DEF CheckIndex, IndexSteps
  <2>10. CASE \/ \E z \in Frozen, c \in Configs : Begin(t, z, c)
              \/ \E z \in Frozen : BeginPoisoned(t, z)
              \/ DelegatePanics(t)
              \/ TruncateViolations(t) \/ WriteViolations(t) \/ Finish(t)
    BY <1>1, <2>2, <2>10
    DEF Begin, BeginPoisoned, DelegatePanics, TruncateViolations, WriteViolations, Finish,
        IndexSteps
  <2>11. ~IOError(t) /\ ~CreateIndex(t)
    BY <1>1 DEF IOError, CreateIndex, IndexInSync
  <2> QED
    BY <1>2, <2>3, <2>4, <2>5, <2>6, <2>7, <2>8, <2>9, <2>10, <2>11 DEF ThreadStep, Advance
<1>3. ASSUME NEW p \in Procs, Crash(p) PROVE IndexInSync'
  <2>1. \A q \in Procs : storedRules'[q] = Missing
    BY <1>1, <1>3 DEF Crash, OneProcessOnly
  <2>2. \A t \in Threads : pc'[t] # "createIndex"
    BY <1>1, <1>3 DEF Crash, IndexInSync
  <2> QED
    BY <1>3, <2>1, <2>2 DEF Crash, IndexInSync, Loaded
<1>4. CASE UNCHANGED vars
  BY <1>4 DEF vars, IndexInSync, Loaded
<1> QED
  BY <1>2, <1>3, <1>4, StepCases

(***************************************************************************)
(* In a single process whose store folder has an index, on a disk that     *)
(* does not fail: when nobody writes the index, the next process will find *)
(* what this one holds as stored, whenever it is killed.                   *)
(***************************************************************************)
THEOREM StoredRulesAreIndexed ==
    ASSUME OneProcessOnly, IndexExists, MaxFaults = 0
    PROVE  Spec => []StoredIsIndexed
<1> DEFINE IInv == TInv /\ WritersHoldTheLock /\ IndexInSync
<1>1. Init => IInv
  <2>1. Init => WritersHoldTheLock
    BY DEF Init, WritersHoldTheLock, IndexSteps
  <2>2. Init => IndexInSync
    BY FreezeAssumption, InitialValues DEF Init, IndexInSync, Loaded
  <2> QED
    BY <2>1, <2>2, InitTInv
<1>2. IInv /\ [Next]_vars => IInv'
  BY NextTInv, NextLock, NextInSync
<1>3. IInv => StoredIsIndexed
  <2> SUFFICES ASSUME IInv, \A p \in Procs : indexLock[p] = NoThread PROVE StoredIsIndexed
    BY DEF StoredIsIndexed
  <2>1. \A t \in Threads : pc[t] \notin IndexSteps
    BY FreezeAssumption DEF WritersHoldTheLock
  <2> QED
    BY <2>1 DEF IndexInSync, StoredIsIndexed
<1> QED
  BY <1>1, <1>2, <1>3, PTL DEF Spec

-----------------------------------------------------------------------------
(***************************************************************************)
(* The ratchet.  An evaluation that finds fewer lines than are stored      *)
(* keeps a proper part of them.                                            *)
(***************************************************************************)
Shrinks(new, old) == PartOf(new, old) /\ Len(new) < Len(old)

LEMMA UnsolvedShrink ==
    ASSUME NEW actual \in Seq(Lines), NEW stored \in Seq(Lines),
           NEW c \in CategorizedViolations(actual, stored),
           c.storedSolved # {}
    PROVE  Shrinks(c.storedUnsolved, stored)
<1>1. PICK m, e : Categorizes(c, m, e, actual, stored)
  BY Categorization
<1> DEFINE n == Cardinality(Matched(m))
           new == c.storedUnsolved
<1>2. new = [a \in DOMAIN e |-> stored[m[e[a]]]]
  BY <1>1 DEF Categorizes, Categories, Unsolved
<1>3. PICK j \in DOMAIN stored : \A a \in DOMAIN e : stored[m[e[a]]] # stored[j]
  BY <1>1 DEF Categorizes, Categories
<1>4. n \in Nat /\ DOMAIN e = 1..n
  <2>1. IsFiniteSet(1..Len(actual))
    <3>1. 1 \in Int /\ Len(actual) \in Int
      OBVIOUS
    <3> QED
      BY <3>1, FS_Interval
  <2>2. Matched(m) \subseteq 1..Len(actual)
    BY <1>1 DEF Categorizes, Matched
  <2> QED
    BY <1>1, <2>1, <2>2, FS_Subset, FS_CardinalityType DEF Categorizes
<1> DEFINE taken == [a \in 1..n |-> m[e[a]]]
           rest == (1..Len(stored)) \ {j}
<1>5. \A a \in 1..n : e[a] \in Matched(m) /\ e[a] \in Nat
  BY <1>1, <1>4 DEF Categorizes, Matched
<1>6. \A a \in 1..n : taken[a] \in DOMAIN stored /\ taken[a] # j /\ new[a] = stored[taken[a]]
  BY <1>1, <1>2, <1>3, <1>4, <1>5 DEF Categorizes
<1>7. \A a, b \in 1..n : a < b => taken[a] # taken[b]
  BY <1>1, <1>4, <1>5 DEF Categorizes
<1>8. \A a, b \in 1..n : taken[a] = taken[b] => a = b
  <2> SUFFICES ASSUME NEW a \in 1..n, NEW b \in 1..n, taken[a] = taken[b] PROVE a = b
    OBVIOUS
  <2>1. ~(a < b) /\ ~(b < a)
    BY <1>7
  <2> HIDE DEF taken
  <2> QED
    BY <1>4, <2>1
<1>9. PartOf(new, stored)
  <2>1. DOMAIN new = 1..n
    BY <1>2, <1>4
  <2>2. taken \in [DOMAIN new -> DOMAIN stored]
    BY <1>6, <2>1
  <2> HIDE DEF taken, new
  <2>3. /\ \A a, b \in DOMAIN new : taken[a] = taken[b] => a = b
        /\ \A a \in DOMAIN new : new[a] = stored[taken[a]]
    BY <1>6, <1>8, <2>1
  <2> QED
    BY <2>2, <2>3, Zenon DEF PartOf
<1>10. Len(new) < Len(stored)
  <2>1. Len(new) = n
    <3>1. new \in [1..n -> Lines]
      BY <1>2, <1>4, <1>6
    <3> QED
      BY <1>4, <3>1, FunctionIsSeq
  <2>2. taken \in Injection(1..n, rest)
    <3>1. taken \in [1..n -> rest]
      BY <1>6
    <3> HIDE DEF taken, rest
    <3> QED
      BY <1>8, <3>1 DEF Injection, IsInjective
  <2>3. Len(stored) \in Nat /\ j \in 1..Len(stored)
    OBVIOUS
  <2>4. IsFiniteSet(1..Len(stored)) /\ Cardinality(1..Len(stored)) = Len(stored)
    <3>1. PICK k \in Nat : k = Len(stored)
      BY <2>3
    <3>2. IsFiniteSet(1..k) /\ Cardinality(1..k) = IF 1 > k THEN 0 ELSE k - 1 + 1
      BY FS_Interval
    <3>3. Cardinality(1..k) = k
      BY <3>2
    <3> QED
      BY <3>1, <3>2, <3>3
  <2>5. IsFiniteSet(rest) /\ Cardinality(rest) = Len(stored) - 1
    BY <2>3, <2>4, FS_RemoveElement
  <2> HIDE DEF taken, rest
  <2>6. Cardinality(1..n) <= Cardinality(rest)
    BY <2>2, <2>5, FS_Injection
  <2>7. Cardinality(1..n) = n
    <3>1. 1 \in Int /\ n \in Int
      BY <1>4
    <3>2. Cardinality(1..n) = IF 1 > n THEN 0 ELSE n - 1 + 1
      BY <3>1, FS_Interval
    <3> QED
      BY <1>4, <3>2
  <2> QED
    BY <1>4, <2>1, <2>3, <2>5, <2>6, <2>7
<1> QED
  BY <1>9, <1>10 DEF Shrinks

(***************************************************************************)
(* What the ratchet rests on, when no process crashes and no configuration *)
(* refreezes: an unloaded index is empty, a file nobody drew is not there, *)
(* what is about to be saved where lines are stored is a proper part of    *)
(* them, and a file that is being rewritten is empty.                      *)
(***************************************************************************)
NoRefreezing == \A c \in Configs : ~c.refreeze

FirstSteps == {"putIfAbsent", "truncateIndex", "writeIndex", "truncateViolations"}

NeverRefreezes(t) == pc[t] # "idle" => ~task[t].config.refreeze

SaveShrinks(t) ==
    pc[t] \in FirstSteps =>
        \A f \in Files : storedRules[ProcOf[t]][RuleIn(t)] = f =>
            violations[f] = Missing \/ Shrinks(task[t].saving, violations[f])

EmptyWhileWriting(t) == pc[t] = "writeViolations" => violations[task[t].file] = <<>>

UnloadedIsEmpty == \A p \in Procs : ~Loaded(p) => index \in {Missing, EmptyIndex}

UnusedAreMissing == \A f \in Files : violations[f] # Missing => f \in usedFiles

RatchetOK ==
    /\ UnloadedIsEmpty /\ UnusedAreMissing
    /\ \A t \in Threads : NeverRefreezes(t) /\ SaveShrinks(t) /\ EmptyWhileWriting(t)

(***************************************************************************)
(* An index is filled only from memory.                                    *)
(***************************************************************************)
LEMMA NextUnloaded ==
    ASSUME OneProcessOnly, TInv, UnloadedIsEmpty, NEW t \in Threads, ThreadStep(t)
    PROVE  UnloadedIsEmpty'
<1>1. ASSUME NEW p \in Procs, Loaded(p) PROVE Loaded(p)'
  BY <1>1, ThreadStepShape DEF LeavesAlone, EntriesStay
<1>2. CASE WriteIndex(t)
  <2>1. Loaded(ProcOf[t])
    BY <1>2 DEF WriteIndex, TInv, TaskOK, AfterLoad, AfterCheck, Steps
  <2>2. \A p \in Procs : p = ProcOf[t]
    BY FreezeAssumption DEF OneProcessOnly
  <2> QED
    BY <1>1, <2>1, <2>2 DEF UnloadedIsEmpty
<1>3. CASE index' \in {index, EmptyIndex}
  BY <1>1, <1>3 DEF UnloadedIsEmpty
<1> QED
  BY <1>2, <1>3
  DEF ThreadStep, Advance, Begin, BeginPoisoned, CheckIndex, CreateIndex, Load, Evaluate,
      DelegatePanics, ReadViolations, PutIfAbsent, TruncateIndex, TruncateViolations,
      WriteViolations, Finish, IOError

(***************************************************************************)
(* A file that is written was drawn.                                       *)
(***************************************************************************)
LEMMA NextUnused ==
    ASSUME TInv, NamesOK, UnusedAreMissing, NEW t \in Threads, ThreadStep(t)
    PROVE  UnusedAreMissing'
<1>1. usedFiles \subseteq usedFiles'
  BY DEF ThreadStep, Advance, Begin, BeginPoisoned, CheckIndex, CreateIndex, Load, Evaluate,
      DelegatePanics, ReadViolations, PutIfAbsent, TruncateIndex, WriteIndex,
      TruncateViolations, WriteViolations, Finish, IOError
<1>2. ASSUME NEW f \in Files, violations'[f] # violations[f] PROVE f \in usedFiles
  <2>1. pc[t] \in Rewriting /\ task[t].file = f
    BY <1>2, ThreadStepShape DEF LeavesAlone
  <2>2. RuleIn(t) \in Rules
    BY <2>1, FreezeAssumption DEF TInv, TaskOK, RuleIn, Rewriting
  <2>3. Keeps(RuleIn(t), f)
    BY <2>1 DEF Keeps
  <2> QED
    BY <2>2, <2>3 DEF NamesOK
<1> QED
  BY <1>1, <1>2 DEF UnusedAreMissing

(***************************************************************************)
(* The configuration is the one the evaluation began with.                 *)
(***************************************************************************)
LEMMA NextConfig ==
    ASSUME NoRefreezing, TInv, NEW t \in Threads, NeverRefreezes(t), ThreadStep(t)
    PROVE  NeverRefreezes(t)'
<1>1. /\ task \in [Threads -> Task] /\ pc \in [Threads -> Steps]
  BY DEF TInv, TypeOK
<1>2. ASSUME NEW z \in Frozen, NEW c \in Configs, Begin(t, z, c) PROVE NeverRefreezes(t)'
  <2> DEFINE started == [NoTask EXCEPT !.frozen = z, !.config = c]
  <2>1. started.config = c
    BY DEF NoTask
  <2>2. task' = [task EXCEPT ![t] = started]
    BY <1>2 DEF Begin
  <2> HIDE DEF started
  <2> QED
    BY <1>1, <2>1, <2>2 DEF NoRefreezing, NeverRefreezes
<1>3. CASE pc'[t] = "idle"
  BY <1>3 DEF NeverRefreezes
<1>4. CASE GoesOn(t)
  BY <1>4 DEF GoesOn, NeverRefreezes
<1>5. CASE (\E z \in Frozen : BeginPoisoned(t, z)) \/ DelegatePanics(t) \/ Finish(t)
  BY <1>1, <1>3, <1>5 DEF BeginPoisoned, DelegatePanics, Finish
<1> QED
  BY <1>2, <1>4, <1>5, InnerSteps DEF ThreadStep, Advance

(***************************************************************************)
(* Nobody else touches the entry, the file or the locals of an evaluation. *)
(***************************************************************************)
LEMMA OthersKeepEntry ==
    ASSUME TInv, StoresAreHeld, OneObjectPerRule,
           NEW t \in Threads, pc[t] # "idle", Loaded(ProcOf[t]),
           NEW u \in Threads, u # t, ThreadStep(u)
    PROVE  storedRules'[ProcOf[t]][RuleIn(t)] = storedRules[ProcOf[t]][RuleIn(t)]
<1>1. ProcOf[t] \in Procs /\ RuleIn(t) \in Rules /\ ProcOf[u] \in Procs
  BY FreezeAssumption DEF TInv, TaskOK, RuleIn
<1>2. storedRules \in [Procs -> Index \cup {Missing}] /\ Missing \notin Index
  BY FreezeAssumption DEF TInv, TypeOK
<1>3. CASE storedRules'[ProcOf[t]] = storedRules[ProcOf[t]]
  BY <1>3
<1>4. CASE Load(u)
  BY <1>1, <1>2, <1>4 DEF Load, Loaded
<1>5. CASE PutIfAbsent(u)
  <2>1. pc[u] # "idle"
    BY <1>5 DEF PutIfAbsent
  <2>2. RuleIn(u) # RuleIn(t)
    BY <2>1, AloneWithItsRule
  <2>3. \/ UNCHANGED storedRules
        \/ \E f : storedRules' = [storedRules EXCEPT ![ProcOf[u]][RuleIn(u)] = f]
    BY <1>5 DEF PutIfAbsent
  <2>4. storedRules[ProcOf[t]] \in Index
    BY <1>1, <1>2 DEF Loaded
  <2>5. ASSUME NEW f, storedRules' = [storedRules EXCEPT ![ProcOf[u]][RuleIn(u)] = f],
               ProcOf[u] = ProcOf[t]
        PROVE  storedRules'[ProcOf[t]] = [storedRules[ProcOf[t]] EXCEPT ![RuleIn(u)] = f]
    BY <1>1, <1>2, <2>5
  <2>6. ASSUME NEW f, storedRules' = [storedRules EXCEPT ![ProcOf[u]][RuleIn(u)] = f],
               ProcOf[u] # ProcOf[t]
        PROVE  storedRules'[ProcOf[t]] = storedRules[ProcOf[t]]
    BY <1>1, <1>2, <2>6
  <2> QED
    BY <1>1, <1>3, <2>2, <2>3, <2>4, <2>5, <2>6 DEF Index
<1> QED
  BY <1>3, <1>4, <1>5
  DEF ThreadStep, Advance, Begin, BeginPoisoned, CheckIndex, CreateIndex, Evaluate,
      DelegatePanics, ReadViolations, TruncateIndex, WriteIndex, TruncateViolations,
      WriteViolations, Finish, IOError

LEMMA OthersKeepSaving ==
    ASSUME TInv, StoresAreHeld, FilesNotShared, FilesAreIndexed, OneObjectPerRule,
           NEW t \in Threads, NEW u \in Threads, u # t, ThreadStep(u),
           SaveShrinks(t), EmptyWhileWriting(t), NeverRefreezes(t)
    PROVE  SaveShrinks(t)' /\ EmptyWhileWriting(t)' /\ NeverRefreezes(t)'
<1>1. pc'[t] = pc[t] /\ task'[t] = task[t] /\ RuleIn(t)' = RuleIn(t)
  BY ThreadStepShape DEF LeavesAlone, RuleIn
<1>2. pc[t] \in FirstSteps \cup WritingSteps => pc[t] # "idle" /\ Loaded(ProcOf[t])
  BY DEF FirstSteps, WritingSteps, TInv, TaskOK, AfterLoad, AfterCheck, Steps
<1>3. SaveShrinks(t)'
  <2> SUFFICES ASSUME pc[t] \in FirstSteps, NEW f \in Files,
                      storedRules'[ProcOf[t]][RuleIn(t)] = f
               PROVE  violations'[f] = Missing \/ Shrinks(task[t].saving, violations'[f])
    BY <1>1 DEF SaveShrinks
  <2>1. storedRules[ProcOf[t]][RuleIn(t)] = f
    BY <1>2, OthersKeepEntry
  <2>2. violations'[f] = violations[f]
    BY <1>2, <2>1, FileIsAlone
  <2> QED
    BY <2>1, <2>2 DEF SaveShrinks
<1>4. EmptyWhileWriting(t)'
  <2> SUFFICES ASSUME pc[t] = "writeViolations" PROVE violations'[task[t].file] = <<>>
    BY <1>1 DEF EmptyWhileWriting
  <2>1. PICK f \in Files : f = task[t].file /\ f = storedRules[ProcOf[t]][RuleIn(t)]
    BY DEF FilesAreIndexed, SavesToItsFile, WritingSteps
  <2>2. violations'[f] = violations[f]
    BY <1>2, <2>1, FileIsAlone DEF WritingSteps
  <2> QED
    BY <2>1, <2>2 DEF EmptyWhileWriting
<1>5. NeverRefreezes(t)'
  BY <1>1 DEF NeverRefreezes
<1> QED
  BY <1>3, <1>4, <1>5

(***************************************************************************)
(* The steps of the evaluation itself.                                     *)
(***************************************************************************)
LEMMA OwnStepShrinks ==
    ASSUME TInv, NamesOK, FilesAreIndexed, NoRefreezing, UnusedAreMissing,
           NEW t \in Threads, ThreadStep(t),
           SaveShrinks(t), NeverRefreezes(t)
    PROVE  SaveShrinks(t)'
<1>1. task \in [Threads -> Task] /\ pc \in [Threads -> Steps] /\ task[t] \in Task
  BY DEF TInv, TypeOK
<1>2. ASSUME pc'[t] \notin FirstSteps PROVE SaveShrinks(t)'
  BY <1>2 DEF SaveShrinks
<1>3. ASSUME NEW report \in Reports, Evaluate(t, report) PROVE SaveShrinks(t)'
  <2>1. CASE storedRules[ProcOf[t]][RuleIn(t)] = NoFile
    <3>1. UNCHANGED storedRules /\ RuleIn(t)' = RuleIn(t)
      BY <1>3, InnerSteps DEF Evaluate, GoesOn, RuleIn
    <3> QED
      BY <2>1, <3>1, FreezeAssumption DEF SaveShrinks
  <2>2. CASE pc' = [pc EXCEPT ![t] = "readViolations"]
    BY <1>1, <1>2, <2>2 DEF FirstSteps
  <2> QED
    BY <1>3, <2>1, <2>2 DEF Evaluate, NeverRefreezes
<1>4. CASE ReadViolations(t)
  <2>1. /\ storedRules[ProcOf[t]] \in Index /\ RuleIn(t) \in Rules
        /\ storedRules[ProcOf[t]][RuleIn(t)] # NoFile
    BY <1>4, FreezeAssumption
    DEF ReadViolations, TInv, TypeOK, TaskOK, Loaded, RuleIn, AfterLoad, AfterCheck, Steps
  <2>2. PICK f \in Files : storedRules[ProcOf[t]][RuleIn(t)] = f
    BY <2>1 DEF Index
  <2>3. UNCHANGED <<storedRules, violations>> /\ RuleIn(t)' = RuleIn(t)
    BY <1>4, InnerSteps DEF ReadViolations, GoesOn, RuleIn
  <2> DEFINE judged(c) == [task[t] EXCEPT !.verdict =
                             IF NewLines(task[t].report, c.knownActual) = {}
                             THEN "passed" ELSE "violated"]
  <2>4. CASE pc' = [pc EXCEPT ![t] = "done"]
    BY <1>1, <1>2, <2>4 DEF FirstSteps
  <2>5. ASSUME violations[f] # Missing,
               NEW c \in CategorizedViolations(task[t].report, violations[f]),
               c.storedSolved # {}, Save(t, c.storedUnsolved, judged(c))
        PROVE  SaveShrinks(t)'
    <3>1. violations[f] \in Seq(Lines) /\ task[t].report \in Seq(Lines)
      BY <1>1, <2>5 DEF TInv, TypeOK, Task
    <3>2. Shrinks(c.storedUnsolved, violations[f])
      BY <2>5, <3>1, UnsolvedShrink
    <3>3. PICK lines, changes : lines = c.storedUnsolved /\ changes = judged(c)
      OBVIOUS
    <3>4. \/ task'[t] = [changes EXCEPT !.saving = lines]
          \/ pc'[t] = "done"
      <4>1. Save(t, lines, changes)
        BY <2>5, <3>3
      <4> QED
        BY <4>1, SaveMoves, Zenon
    <3>5. [changes EXCEPT !.saving = lines].saving = lines
      BY <1>1, <3>3 DEF Task
    <3>6. task'[t].saving = c.storedUnsolved \/ pc'[t] = "done"
      BY <3>3, <3>4, <3>5
    <3> HIDE DEF judged
    <3> QED
      BY <1>2, <2>2, <2>3, <3>2, <3>6 DEF SaveShrinks, FirstSteps
  <2> QED
    BY <1>4, <2>2, <2>4, <2>5 DEF ReadViolations, Fail
<1>5. CASE PutIfAbsent(t)
  <2>1. RuleIn(t)' = RuleIn(t) /\ violations' = violations /\ pc[t] = "putIfAbsent"
    BY <1>5, InnerSteps DEF PutIfAbsent, GoesOn, RuleIn
  <2>2. PICK g : task'[t] = [task[t] EXCEPT !.file = g]
    BY <1>5, PutSaves
  <2>3. task'[t].saving = task[t].saving
    <3>1. [task[t] EXCEPT !.file = g].saving = task[t].saving
      BY <1>1 DEF Task
    <3> QED
      BY <2>2, <3>1
  <2>4. CASE UNCHANGED storedRules
    BY <2>1, <2>3, <2>4 DEF SaveShrinks, FirstSteps
  <2>5. ASSUME NEW f \in Files \ usedFiles,
               storedRules' = [storedRules EXCEPT ![ProcOf[t]][RuleIn(t)] = f]
        PROVE  SaveShrinks(t)'
    <3>1. /\ storedRules[ProcOf[t]] \in Index /\ RuleIn(t) \in Rules /\ ProcOf[t] \in Procs
          /\ storedRules \in [Procs -> Index \cup {Missing}]
      BY <1>5, FreezeAssumption
      DEF PutIfAbsent, TInv, TypeOK, TaskOK, Loaded, RuleIn, AfterLoad, AfterCheck, Steps
    <3>2. storedRules'[ProcOf[t]][RuleIn(t)] = f
      BY <2>5, <3>1 DEF Index
    <3>3. violations[f] = Missing
      BY <2>5 DEF UnusedAreMissing
    <3> QED
      BY <2>1, <3>2, <3>3 DEF SaveShrinks
  <2> QED
    BY <1>5, <2>4, <2>5 DEF PutIfAbsent
<1>6. CASE TruncateIndex(t) \/ WriteIndex(t)
  <2>1. /\ pc[t] \in FirstSteps /\ task'[t] = task[t] /\ RuleIn(t)' = RuleIn(t)
        /\ UNCHANGED <<storedRules, violations>>
    BY <1>6 DEF TruncateIndex, WriteIndex, FirstSteps, RuleIn
  <2> QED
    BY <2>1 DEF SaveShrinks
<1>7. CASE \/ \E z \in Frozen, c \in Configs : Begin(t, z, c)
           \/ \E z \in Frozen : BeginPoisoned(t, z)
           \/ CheckIndex(t) \/ CreateIndex(t) \/ Load(t) \/ DelegatePanics(t)
           \/ TruncateViolations(t) \/ WriteViolations(t) \/ Finish(t) \/ IOError(t)
  BY <1>1, <1>2, <1>7
  DEF Begin, BeginPoisoned, CheckIndex, CreateIndex, Load, DelegatePanics, TruncateViolations,
      WriteViolations, Finish, IOError, Fail, FirstSteps
<1> QED
  BY <1>3, <1>4, <1>5, <1>6, <1>7 DEF ThreadStep, Advance

LEMMA OwnStepEmpties ==
    ASSUME TInv, FilesAreIndexed, NEW t \in Threads, ThreadStep(t)
    PROVE  EmptyWhileWriting(t)'
<1>1. /\ task \in [Threads -> Task] /\ pc \in [Threads -> Steps]
      /\ violations \in [Files -> Seq(Lines) \cup {Missing}]
  BY DEF TInv, TypeOK
<1> SUFFICES ASSUME pc'[t] = "writeViolations" PROVE violations'[task'[t].file] = <<>>
  BY DEF EmptyWhileWriting
<1>2. pc'[t] \in WritingSteps
  BY DEF WritingSteps
<1>3. ~PutIfAbsent(t)
  BY PutSaves
<1>4. TruncateViolations(t)
  BY <1>1, <1>2, <1>3, WaysToWrite DEF TruncateIndex, WriteIndex
<1>5. task[t].file \in Files
  BY <1>4 DEF TruncateViolations, FilesAreIndexed, SavesToItsFile, WritingSteps
<1> QED
  BY <1>1, <1>4, <1>5 DEF TruncateViolations

LEMMA NextRatchet ==
    ASSUME OneProcessOnly, OneObjectPerRule, NoRefreezing, MaxCrashes = 0,
           TInv, StoresAreHeld, NamesOK, FilesAreIndexed, RatchetOK, [Next]_vars
    PROVE  RatchetOK'
<1>1. ASSUME NEW u \in Threads, ThreadStep(u) PROVE RatchetOK'
  <2>1. UnloadedIsEmpty' /\ UnusedAreMissing'
    BY <1>1, NextUnloaded, NextUnused DEF RatchetOK
  <2>2. SaveShrinks(u)' /\ EmptyWhileWriting(u)' /\ NeverRefreezes(u)'
    BY <1>1, OwnStepShrinks, OwnStepEmpties, NextConfig DEF RatchetOK
  <2>3. ASSUME NEW t \in Threads, t # u
        PROVE  SaveShrinks(t)' /\ EmptyWhileWriting(t)' /\ NeverRefreezes(t)'
    BY <1>1, <2>3, OthersKeepSaving DEF RatchetOK, NamesOK
  <2> QED
    BY <2>1, <2>2, <2>3 DEF RatchetOK
<1>2. ASSUME NEW p \in Procs PROVE ~Crash(p)
  BY FreezeAssumption DEF Crash, TInv, TypeOK
<1>3. CASE UNCHANGED vars
  BY <1>3
  DEF vars, RatchetOK, UnloadedIsEmpty, UnusedAreMissing, SaveShrinks, EmptyWhileWriting,
      NeverRefreezes, Loaded, RuleIn
<1> QED
  BY <1>1, <1>2, <1>3, StepCases

LEMMA InitRatchet == Init => RatchetOK
BY FreezeAssumption
DEF Init, RatchetOK, UnloadedIsEmpty, UnusedAreMissing, NeverRefreezes, SaveShrinks,
    EmptyWhileWriting, FirstSteps

-----------------------------------------------------------------------------
(***************************************************************************)
(* Tolerated, spelled out: what the thread that has truncated the file of  *)
(* the rule is about to write, or what the file holds.                     *)
(***************************************************************************)
Writes(t, r) == pc[t] = "writeViolations" /\ RuleIn(t) = r

Explains(r, p) ==
    /\ FileOf(r) = IF Loaded(p) THEN storedRules[p][r] ELSE NoFile
    /\ FileOf(r) \in Files \cup {NoFile}
    /\ FileOf(r) = NoFile => Tolerated(r) = Missing
    /\ \A t \in Threads : Writes(t, r) => /\ FileOf(r) = task[t].file
                                          /\ Tolerated(r) = task[t].saving
    /\ FileOf(r) # NoFile /\ (\A t \in Threads : ~Writes(t, r)) =>
          Tolerated(r) = violations[FileOf(r)]

Explained == \A r \in Rules, p \in Procs : Explains(r, p)

RatchetInv ==
    /\ TInv /\ StoresAreHeld /\ NamesOK /\ FilesAreIndexed /\ RatchetOK

LEMMA InvExplains ==
    ASSUME OneProcessOnly, OneObjectPerRule
    PROVE  RatchetInv => Explained
<1> SUFFICES ASSUME RatchetInv, NEW r \in Rules, NEW p \in Procs PROVE Explains(r, p)
  BY DEF Explained
<1> USE FreezeAssumption DEF RatchetInv
<1> DEFINE f == FileOf(r)
<1>1. f = IF Loaded(p) THEN storedRules[p][r] ELSE NoFile
  <2>1. (CHOOSE q \in Procs : TRUE) = p
    BY DEF OneProcessOnly
  <2>2. ~Loaded(p) => index \in {Missing, EmptyIndex}
    BY DEF RatchetOK, UnloadedIsEmpty
  <2> QED
    BY <2>1, <2>2 DEF FileOf, EmptyIndex, Loaded
<1>2. f \in Files \cup {NoFile}
  BY <1>1 DEF TInv, TypeOK, Loaded, Index
<1>3. ASSUME NEW t \in Threads, pc[t] = "writeViolations"
      PROVE  /\ task[t].file \in Files /\ RuleIn(t) \in Rules
             /\ RuleIn(t) = r => task[t].file = f
             /\ task[t].file = f => RuleIn(t) = r
  <2>1. /\ task[t].file \in Files
        /\ task[t].file = storedRules[ProcOf[t]][RuleIn(t)]
    BY <1>3 DEF FilesAreIndexed, SavesToItsFile, WritingSteps
  <2>2. RuleIn(t) \in Rules /\ Loaded(ProcOf[t]) /\ ProcOf[t] = p
    BY <1>3 DEF TInv, TaskOK, RuleIn, AfterLoad, AfterCheck, Steps, OneProcessOnly
  <2>3. Keeps(RuleIn(t), task[t].file)
    BY DEF Keeps
  <2>4. task[t].file = f => Keeps(r, f)
    BY <1>1, <2>1, <2>2 DEF Keeps
  <2>5. task[t].file = f => RuleIn(t) = r
    BY <2>1, <2>2, <2>3, <2>4 DEF NamesOK, FilesNotShared
  <2> QED
    BY <1>1, <2>1, <2>2, <2>5
<1> HIDE DEF f
<1>4. f = NoFile => Tolerated(r) = Missing
  BY DEF Tolerated, f
<1>5. ASSUME NEW t \in Threads, Writes(t, r)
      PROVE  f = task[t].file /\ Tolerated(r) = task[t].saving
  <2>1. f = task[t].file /\ f \in Files /\ t \in Writers(f)
    BY <1>3, <1>5 DEF Writes, Writers
  <2>2. ASSUME NEW u \in Writers(f) PROVE u = t
    <3>1. u \in Threads /\ RuleIn(u) = r /\ pc[u] # "idle" /\ pc[t] # "idle"
      BY <1>3, <1>5, <2>2 DEF Writers, Writes
    <3> QED
      BY <1>5, <3>1, AloneWithItsRule DEF Writes
  <2>3. (CHOOSE u \in Writers(f) : TRUE) = t
    BY <2>1, <2>2
  <2>4. Writers(f) # {} /\ f # NoFile
    BY <2>1
  <2> QED
    BY <2>1, <2>3, <2>4 DEF Tolerated, f
<1>6. ASSUME f # NoFile, \A t \in Threads : ~Writes(t, r)
      PROVE  Tolerated(r) = violations[f]
  <2>1. Writers(f) = {}
    BY <1>3, <1>6 DEF Writers, Writes
  <2> QED
    BY <1>6, <2>1 DEF Tolerated, f
<1> QED
  BY <1>1, <1>2, <1>4, <1>5, <1>6 DEF Explains, f

LEMMA InvExplainsNext ==
    ASSUME OneProcessOnly, OneObjectPerRule
    PROVE  RatchetInv' => Explained'
<1>1. RatchetInv => Explained
  BY InvExplains
<1> QED
  BY <1>1, PTL

(***************************************************************************)
(* The file of a rule is found once and for all, or drawn just now.        *)
(***************************************************************************)
LEMMA FileOfStays ==
    ASSUME TInv, UnloadedIsEmpty, Explained, Explained',
           NEW t \in Threads, ThreadStep(t), NEW r \in Rules
    PROVE  \/ FileOf(r)' = FileOf(r)
           \/ /\ PutIfAbsent(t)
              /\ r = RuleIn(t)
              /\ FileOf(r) = NoFile
              /\ FileOf(r)' \in Files \ usedFiles
<1> DEFINE p == ProcOf[t]
<1>1. /\ p \in Procs /\ Missing \notin Index /\ NoFile \notin Files
      /\ storedRules \in [Procs -> Index \cup {Missing}]
  BY FreezeAssumption DEF TInv, TypeOK
<1>2. FileOf(r) = IF Loaded(p) THEN storedRules[p][r] ELSE NoFile
  BY <1>1 DEF Explained, Explains
<1>3. FileOf(r)' = IF Loaded(p)' THEN storedRules'[p][r] ELSE NoFile
  BY <1>1 DEF Explained, Explains
<1> HIDE DEF p
<1>4. CASE storedRules' = storedRules
  BY <1>2, <1>3, <1>4 DEF Loaded
<1>5. CASE Load(t)
  <2>1. storedRules'[p] = IF storedRules[p] = Missing THEN index ELSE storedRules[p]
    BY <1>1, <1>5 DEF Load, p
  <2>2. ~Loaded(p) => index = EmptyIndex
    BY <1>1, <1>5 DEF Load, TInv, TaskOK, AfterCheck, Steps, UnloadedIsEmpty
  <2> QED
    BY <1>2, <1>3, <2>1, <2>2 DEF Loaded, EmptyIndex
<1>6. CASE PutIfAbsent(t)
  <2>1. Loaded(p) /\ storedRules[p] \in Index /\ RuleIn(t) \in Rules
    BY <1>1, <1>6, FreezeAssumption
    DEF PutIfAbsent, TInv, TaskOK, RuleIn, AfterLoad, AfterCheck, Steps, Loaded, p
  <2>2. ASSUME NEW f \in Files \ usedFiles, storedRules[p][RuleIn(t)] = NoFile,
               storedRules' = [storedRules EXCEPT ![p] = [storedRules[p] EXCEPT ![RuleIn(t)] = f]]
        PROVE  \/ FileOf(r)' = FileOf(r)
               \/ r = RuleIn(t) /\ FileOf(r) = NoFile /\ FileOf(r)' = f
    <3>1. storedRules'[p] = [storedRules[p] EXCEPT ![RuleIn(t)] = f]
      BY <1>1, <2>2
    <3>2. storedRules'[p] \in Index
      BY <2>1, <3>1 DEF Index
    <3>3. Loaded(p)'
      BY <1>1, <3>2 DEF Loaded
    <3> QED
      BY <1>2, <1>3, <2>1, <2>2, <3>1, <3>3 DEF Index
  <2> QED
    BY <1>4, <1>6, <2>2 DEF PutIfAbsent, p
<1> QED
  BY <1>4, <1>5, <1>6
  DEF ThreadStep, Advance, Begin, BeginPoisoned, CheckIndex, CreateIndex, Evaluate,
      DelegatePanics, ReadViolations, TruncateIndex, WriteIndex, TruncateViolations,
      WriteViolations, Finish, IOError

(***************************************************************************)
(* A thread gets to the writing of lines by the truncation of the file.    *)
(***************************************************************************)
LEMMA TruncatesFirst ==
    ASSUME TInv, NEW t \in Threads, ThreadStep(t), pc'[t] = "writeViolations"
    PROVE  TruncateViolations(t)
<1>1. pc'[t] \in WritingSteps
  BY DEF WritingSteps
<1>2. pc \in [Threads -> Steps] /\ ~PutIfAbsent(t)
  BY PutSaves DEF TInv, TypeOK
<1> QED
  BY <1>1, <1>2, WaysToWrite DEF TruncateIndex, WriteIndex

(***************************************************************************)
(* What is tolerated for a rule changes only in a step of the evaluation   *)
(* that rewrites its file.                                                 *)
(***************************************************************************)
LEMMA UntouchedRules ==
    ASSUME OneObjectPerRule, RatchetInv, Explained, Explained',
           NEW t \in Threads, ThreadStep(t), NEW r \in Rules,
           pc[t] \notin Rewriting \/ r # RuleIn(t)
    PROVE  Tolerated(r)' = Tolerated(r)
<1> DEFINE f == FileOf(r)
<1>1. PICK p \in Procs : p = ProcOf[t]
  BY FreezeAssumption
<1>2. Explains(r, p) /\ Explains(r, p)' /\ LeavesAlone(t) /\ NoFile \notin Files
  BY ThreadStepShape, FreezeAssumption DEF Explained, RatchetInv
<1>3. ~Writes(t, r) /\ ~Writes(t, r)'
  <2>1. ~Writes(t, r)
    BY DEF Writes, Rewriting
  <2>2. ASSUME Writes(t, r)' PROVE FALSE
    <3>1. TruncateViolations(t)
      BY <2>2, TruncatesFirst DEF Writes, RatchetInv
    <3> QED
      BY <2>2, <3>1 DEF TruncateViolations, Writes, RuleIn, Rewriting
  <2> QED
    BY <2>1, <2>2
<1>4. ASSUME NEW u \in Threads, u # t
      PROVE  (Writes(u, r)' <=> Writes(u, r)) /\ task'[u] = task[u]
  BY <1>2, <1>4 DEF LeavesAlone, Writes, RuleIn
<1>5. CASE f' = f
  <2>1. CASE f = NoFile
    BY <1>2, <1>5, <2>1 DEF Explains
  <2>2. ASSUME NEW u \in Threads, Writes(u, r) PROVE Tolerated(r)' = Tolerated(r)
    BY <1>2, <1>3, <1>4, <2>2 DEF Explains
  <2>3. CASE f # NoFile /\ \A u \in Threads : ~Writes(u, r)
    <3>1. \A u \in Threads : ~Writes(u, r)'
      BY <1>3, <1>4, <2>3
    <3>2. violations'[f] = violations[f]
      <4> SUFFICES ASSUME violations'[f] # violations[f] PROVE FALSE
        OBVIOUS
      <4>1. pc[t] \in Rewriting /\ task[t].file = f /\ f \in Files
        BY <1>2, <2>3 DEF LeavesAlone, Explains
      <4>2. Keeps(RuleIn(t), f) /\ RuleIn(t) \in Rules
        BY <4>1, FreezeAssumption DEF Keeps, RatchetInv, TInv, TaskOK, RuleIn, Rewriting
      <4>3. Keeps(r, f)
        BY <1>2, <2>3 DEF Keeps, Explains
      <4> QED
        BY <4>1, <4>2, <4>3 DEF RatchetInv, NamesOK, FilesNotShared
    <3> QED
      BY <1>2, <1>5, <2>3, <3>1, <3>2 DEF Explains
  <2> QED
    BY <2>1, <2>2, <2>3
<1>6. CASE PutIfAbsent(t) /\ r = RuleIn(t) /\ f = NoFile /\ f' \in Files \ usedFiles
  <2>1. pc[t] # "idle"
    BY <1>6 DEF PutIfAbsent
  <2>2. ASSUME NEW u \in Threads, Writes(u, r) PROVE FALSE
    <3>1. u = t
      BY <1>6, <2>1, <2>2, AloneWithItsRule DEF Writes, RatchetInv
    <3> QED
      BY <1>3, <2>2, <3>1
  <2>3. \A u \in Threads : ~Writes(u, r)'
    BY <1>3, <1>4, <2>2
  <2>4. violations'[f'] = Missing
    BY <1>6 DEF PutIfAbsent, RatchetInv, RatchetOK, UnusedAreMissing
  <2> QED
    BY <1>2, <1>6, <2>3, <2>4 DEF Explains
<1> QED
  BY <1>5, <1>6, FileOfStays DEF RatchetInv, RatchetOK

(***************************************************************************)
(* The evaluation that rewrites the file of its rule.                      *)
(***************************************************************************)
RecordsOrTightens(r) ==
    LET old == Tolerated(r)
        new == Tolerated(r)' IN
    \/ new = old
    \/ old = Missing /\ new \in Seq(Lines)
    \/ old # Missing /\ Shrinks(new, old)

LEMMA NothingIsPart ==
    ASSUME NEW old \in Seq(Lines), old # <<>>
    PROVE  Shrinks(<<>>, old)
<1> DEFINE new == <<>>
<1>1. new \in Seq(Lines) /\ Len(new) = 0 /\ Len(old) \in Nat /\ Len(old) # 0
  BY EmptySeq
<1>2. DOMAIN new = {}
  OBVIOUS
<1> HIDE DEF new
<1>3. PartOf(new, old)
  <2> DEFINE m == [a \in DOMAIN new |-> 1]
  <2>1. /\ m \in [DOMAIN new -> DOMAIN old]
        /\ \A a, b \in DOMAIN new : m[a] = m[b] => a = b
        /\ \A a \in DOMAIN new : new[a] = old[m[a]]
    BY <1>2
  <2> HIDE DEF m
  <2> QED
    BY <2>1, Zenon DEF PartOf
<1> QED
  BY <1>1, <1>3 DEF Shrinks, new

LEMMA RewritingTightens ==
    ASSUME OneObjectPerRule, RatchetInv, Explained, Explained',
           NEW t \in Threads, ThreadStep(t), pc[t] \in Rewriting,
           NEW r \in Rules, r = RuleIn(t)
    PROVE  RecordsOrTightens(r)
<1>1. TruncateViolations(t) \/ WriteViolations(t) \/ IOError(t)
  BY DEF ThreadStep, Advance, Begin, BeginPoisoned, CheckIndex, CreateIndex, Load, Evaluate,
         DelegatePanics, ReadViolations, PutIfAbsent, TruncateIndex, WriteIndex, Finish, Rewriting
<1>2. PICK p \in Procs, f \in Files :
         p = ProcOf[t] /\ f = task[t].file /\ f = storedRules[p][r]
  <2>1. ProcOf[t] \in Procs
    BY FreezeAssumption
  <2>2. task[t].file \in Files /\ task[t].file = storedRules[ProcOf[t]][RuleIn(t)]
    BY DEF RatchetInv, FilesAreIndexed, SavesToItsFile, Rewriting, WritingSteps
  <2> QED
    BY <2>1, <2>2
<1>3. /\ task \in [Threads -> Task] /\ pc \in [Threads -> Steps]
      /\ violations \in [Files -> Seq(Lines) \cup {Missing}]
      /\ task[t].saving \in Seq(Lines)
      /\ Missing \notin Seq(Lines) /\ NoFile \notin Files
  BY FreezeAssumption DEF RatchetInv, TInv, TypeOK, Task
<1>4. Explains(r, p) /\ Explains(r, p)' /\ LeavesAlone(t)
  BY ThreadStepShape DEF Explained, RatchetInv
<1>5. /\ task'[t].saving = task[t].saving /\ RuleIn(t)' = r /\ UNCHANGED storedRules
  <2>1. [task[t] EXCEPT !.verdict = "error"].saving = task[t].saving
    BY <1>3 DEF Task
  <2>2. task'[t].saving = task[t].saving
    BY <1>1, <1>3, <2>1 DEF TruncateViolations, WriteViolations, IOError, Fail
  <2> QED
    BY <1>1, <1>2, <2>2, InnerSteps
    DEF TruncateViolations, WriteViolations, IOError, GoesOn, RuleIn, RatchetInv
<1>6. FileOf(r) = f /\ FileOf(r)' = f
  <2>1. Loaded(p)
    BY <1>2 DEF RatchetInv, TInv, TaskOK, Rewriting, AfterLoad, AfterCheck, Steps
  <2> QED
    BY <1>2, <1>4, <1>5, <2>1 DEF Explains, Loaded
<1>7. ASSUME NEW u \in Threads, u # t PROVE ~Writes(u, r) /\ ~Writes(u, r)'
  <2>1. ~Writes(u, r)
    BY <1>2, <1>7, AloneWithItsRule DEF Writes, RatchetInv, Rewriting
  <2> QED
    BY <1>4, <1>7, <2>1 DEF LeavesAlone, Writes, RuleIn
<1>8. CASE TruncateViolations(t)
  <2>1. pc[t] = "truncateViolations" /\ pc'[t] = "writeViolations"
    BY <1>3, <1>8 DEF TruncateViolations
  <2>2. Tolerated(r) = violations[f] /\ Tolerated(r)' = task[t].saving
    BY <1>2, <1>3, <1>4, <1>5, <1>6, <1>7, <2>1 DEF Explains, Writes
  <2>3. violations[f] = Missing \/ Shrinks(task[t].saving, violations[f])
    BY <1>2, <2>1 DEF RatchetInv, RatchetOK, SaveShrinks, FirstSteps
  <2> QED
    BY <1>2, <1>3, <2>2, <2>3 DEF RecordsOrTightens
<1>9. CASE WriteViolations(t)
  <2>1. pc[t] = "writeViolations" /\ pc'[t] = "done" /\ violations'[f] = task[t].saving
    BY <1>2, <1>3, <1>9 DEF WriteViolations
  <2>2. Tolerated(r) = task[t].saving /\ Tolerated(r)' = violations'[f]
    BY <1>2, <1>3, <1>4, <1>5, <1>6, <1>7, <2>1 DEF Explains, Writes
  <2> QED
    BY <1>2, <2>1, <2>2 DEF RecordsOrTightens
<1>10. CASE IOError(t)
  <2>1. pc'[t] = "done" /\ violations' = violations
    BY <1>3, <1>10 DEF IOError, Fail
  <2>2. Tolerated(r)' = violations[f]
    BY <1>3, <1>4, <1>6, <1>7, <2>1 DEF Explains, Writes
  <2>3. CASE pc[t] = "truncateViolations"
    <3>1. Tolerated(r) = violations[f]
      BY <1>2, <1>3, <1>4, <1>6, <1>7, <2>3 DEF Explains, Writes
    <3> QED
      BY <1>2, <2>2, <3>1 DEF RecordsOrTightens
  <2>4. CASE pc[t] = "writeViolations"
    <3>1. Tolerated(r) = task[t].saving
      BY <1>2, <1>4, <2>4 DEF Explains, Writes
    <3>2. Tolerated(r)' = <<>>
      BY <1>2, <2>2, <2>4 DEF RatchetInv, RatchetOK, EmptyWhileWriting
    <3>3. task[t].saving = <<>> \/ Shrinks(<<>>, task[t].saving)
      BY <1>3, NothingIsPart
    <3> QED
      BY <1>2, <1>3, <3>1, <3>2, <3>3 DEF RecordsOrTightens
  <2> QED
    BY <2>3, <2>4 DEF Rewriting
<1> QED
  BY <1>1, <1>8, <1>9, <1>10

(***************************************************************************)
(* Every step is one of the promise, or leaves what is tolerated.          *)
(***************************************************************************)
tolerated == [r \in Rules |-> Tolerated(r)]

LEMMA StepImplementsPromise ==
    ASSUME OneProcessOnly, OneObjectPerRule, MaxCrashes = 0,
           RatchetInv, RatchetInv', [Next]_vars
    PROVE  [Promise!Next]_tolerated
<1> USE DEF tolerated
<1>1. Explained /\ Explained'
  BY InvExplains, InvExplainsNext
<1>2. ASSUME NEW t \in Threads, ThreadStep(t) PROVE [Promise!Next]_tolerated
  <2>1. \A r \in Rules : pc[t] \notin Rewriting \/ r # RuleIn(t) => Tolerated(r)' = Tolerated(r)
    BY <1>1, <1>2, UntouchedRules
  <2>2. CASE \A r \in Rules : Tolerated(r)' = Tolerated(r)
    BY <2>2
  <2>3. CASE pc[t] \in Rewriting
    <3>1. PICK r \in Rules : r = RuleIn(t)
      BY <2>3, FreezeAssumption DEF RatchetInv, TInv, TaskOK, RuleIn, Rewriting
    <3>2. RecordsOrTightens(r)
      BY <1>1, <1>2, <2>3, <3>1, RewritingTightens
    <3>3. tolerated' = [tolerated EXCEPT ![r] = tolerated'[r]]
      BY <2>1, <3>1
    <3>4. CASE Tolerated(r)' = Tolerated(r)
      BY <2>1, <2>2, <3>1, <3>4
    <3>5. CASE Tolerated(r) = Missing /\ Tolerated(r)' \in Seq(Lines)
      <4>1. Promise!Freeze(r)
        BY <3>3, <3>5 DEF Promise!Freeze
      <4> QED
        BY <4>1 DEF Promise!Next
    <3>6. CASE Tolerated(r) # Missing /\ Shrinks(Tolerated(r)', Tolerated(r))
      <4>1. Promise!Tighten(r)
        BY <3>3, <3>6 DEF Promise!Tighten, Shrinks, Promise!PartOf, PartOf
      <4> QED
        BY <4>1 DEF Promise!Next
    <3> QED
      BY <3>1, <3>2, <3>4, <3>5, <3>6 DEF RecordsOrTightens
  <2> QED
    BY <2>1, <2>2, <2>3
<1>3. ASSUME NEW p \in Procs PROVE ~Crash(p)
  BY FreezeAssumption DEF Crash, RatchetInv, TInv, TypeOK
<1>4. CASE UNCHANGED vars
  BY <1>4 DEF vars, Tolerated, FileOf, Writers, Loaded
<1> QED
  BY <1>2, <1>3, <1>4, StepCases

(***************************************************************************)
(* The store implements the promise: what a frozen rule tolerates is       *)
(* recorded once and from then on only shrinks, whatever evaluations       *)
(* overlap and whichever file access fails.  One process uses the folder   *)
(* (Tolerated looks through its memory).  It does not crash, no two        *)
(* objects freeze one rule, and nobody refreezes: without any of these the *)
(* store breaks the promise.                                               *)
(***************************************************************************)
THEOREM StoreImplementsPromise ==
    ASSUME OneProcessOnly, Procs # {}, OneObjectPerRule, NoRefreezing, MaxCrashes = 0
    PROVE  Spec => Ratchet
<1>1. Init => RatchetInv
  BY InitTInv, InitHeld, InitNames, InitSaves, InitRatchet DEF RatchetInv
<1>2. RatchetInv /\ [Next]_vars => RatchetInv'
  BY NextTInv, NextHeld, NextNames, NextSaves, NextRatchet DEF RatchetInv
<1>3. Init => Promise!Init
  <2> SUFFICES ASSUME Init, NEW r \in Rules PROVE Tolerated(r) = Missing
    BY DEF Promise!Init
  <2>1. PICK p \in Procs : TRUE
    OBVIOUS
  <2>2. FileOf(r) = NoFile
    <3>1. Explains(r, p)
      BY <1>1, <2>1, InvExplains DEF Explained
    <3> QED
      BY <2>1, <3>1 DEF Init, Explains, Loaded
  <2> QED
    BY <2>2 DEF Tolerated
<1>4. RatchetInv /\ RatchetInv' /\ [Next]_vars => [Promise!Next]_tolerated
  BY StepImplementsPromise
<1> QED
  BY <1>1, <1>2, <1>3, <1>4, PTL DEF Spec, Ratchet, Promise!Spec, tolerated
=============================================================================
