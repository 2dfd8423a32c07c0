-------------------------- MODULE ArchTestRunsProofs --------------------------
(***************************************************************************)
(* Theorems about ArchTestRuns, for any number of threads, modules, keys,  *)
(* cases, properties and nested scopes: the imports that tests get (from   *)
(* the cache, from the OnceLock of their module, or by importing), the     *)
(* scopes of the configuration, and what evaluations read in them.         *)
(***************************************************************************)
EXTENDS ArchTestRuns, SequenceTheorems, TLAPS

Importing == {"lookup", "import", "insert"}

Working == InCase \cup {"next"}

IsTest(r) ==
    r = [module |-> r.module, items |-> r.items, case |-> r.case,
         failures |-> r.failures, seen |-> r.seen]

(***************************************************************************)
(* The import i may be given to the module m.                              *)
(***************************************************************************)
Owned(i, m) ==
    /\ i \in 1 .. Len(imports)
    /\ \/ imports[i] = m
       \/ imports[i] \notin PerClass /\ m \notin PerClass /\ KeyOf[imports[i]] = KeyOf[m]

ImportTypes ==
    /\ pc \in [Threads -> Steps]
    /\ imports \in Seq(Modules)
    /\ cache \in [Keys -> Nat]
    /\ items \in [Modules -> Nat]
    /\ initializing \in [Modules -> Threads \cup {NoThread}]

(***************************************************************************)
(* What is kept for a key or a module may be given to it.                  *)
(***************************************************************************)
KeptOK ==
    /\ \A k \in Keys : cache[k] # 0 =>
          cache[k] \in 1 .. Len(imports) /\ imports[cache[k]] \notin PerClass
              /\ KeyOf[imports[cache[k]]] = k
    /\ \A m \in Modules : items[m] # 0 => Owned(items[m], m)

(***************************************************************************)
(* The test of a thread: it has items once it has got them, those of its   *)
(* module if that keeps any; until it has them nobody has set them.        *)
(***************************************************************************)
TestOK(t) ==
    LET m == test[t].module IN
    /\ IsTest(test[t])
    /\ pc[t] # "idle" => m \in Modules
    /\ pc[t] \in {"idle", "items", "lookup", "import"} => test[t].items = 0
    /\ test[t].items # 0 => Owned(test[t].items, m)
    /\ pc[t] = "insert" => test[t].items # 0
    /\ pc[t] \in Working /\ m \in Provided => items[m] # 0 /\ test[t].items = items[m]
    /\ pc[t] \in Importing /\ m \in Provided => items[m] = 0

ImportInv ==
    /\ ImportTypes
    /\ KeptOK
    /\ test = [t \in Threads |-> test[t]]
    /\ \A t \in Threads : TestOK(t)
    /\ WaitingIsForAnImport

-----------------------------------------------------------------------------
(***************************************************************************)
(* A new test has no items; an import that is added is the last one.       *)
(***************************************************************************)
LEMMA NewTest ==
    /\ IsTest(NoTest) /\ NoTest.items = 0
    /\ \A m : LET q == [NoTest EXCEPT !.module = m] IN IsTest(q) /\ q.module = m /\ q.items = 0
BY DEF NoTest, IsTest

LEMMA AppendedImport ==
    ASSUME ImportTypes, NEW m \in Modules, imports' = Append(imports, m)
    PROVE  /\ imports' \in Seq(Modules)
           /\ Len(imports) + 1 \in 1 .. Len(imports') /\ imports'[Len(imports) + 1] = m
           /\ \A i \in 1 .. Len(imports) : i \in 1 .. Len(imports') /\ imports'[i] = imports[i]
<1>1. imports \in Seq(Modules) /\ Len(imports) \in Nat
  BY DEF ImportTypes
<1>2. Len(imports') = Len(imports) + 1
  BY <1>1
<1>3. \A n \in Nat : n + 1 \in 1 .. n + 1 /\ \A i \in 1 .. n : i \in 1 .. n + 1
  OBVIOUS
<1>4. imports' \in Seq(Modules) /\ imports'[Len(imports) + 1] = m
  BY <1>1
<1>5. \A i \in 1 .. Len(imports) : imports'[i] = imports[i]
  BY <1>1
<1> QED
  BY <1>1, <1>2, <1>3, <1>4, <1>5

-----------------------------------------------------------------------------
(***************************************************************************)
(* A step of a case: the thread keeps its module and its items.            *)
(***************************************************************************)
LEMMA CaseKeeps ==
    ASSUME ImportInv, UNCHANGED cacheVars, NEW t \in Threads, NEW s \in Working,
           pc[t] \in Working, pc' = [pc EXCEPT ![t] = s],
           NEW r, IsTest(r), r.module = test[t].module, r.items = test[t].items,
           test' = [test EXCEPT ![t] = r]
    PROVE  ImportInv'
<1>1. ImportTypes'
  BY DEF ImportInv, ImportTypes, cacheVars, Working, InCase, Steps
<1>2. KeptOK'
  BY DEF ImportInv, KeptOK, Owned, cacheVars
<1>3. test' = [u \in Threads |-> test'[u]]
  BY DEF ImportInv
<1>4. ASSUME NEW u \in Threads
      PROVE  /\ IsTest(test'[u])
             /\ test'[u].module = test[u].module /\ test'[u].items = test[u].items
             /\ pc'[u] = pc[u] \/ (pc[u] \in Working /\ pc'[u] \in Working)
  <2>1. IsTest(test[u])
    BY DEF ImportInv, TestOK
  <2>2. test'[u] = IF u = t THEN r ELSE test[u]
    BY DEF ImportInv
  <2>3. pc'[u] = IF u = t THEN s ELSE pc[u]
    BY DEF ImportInv, ImportTypes
  <2>4. CASE u = t
    BY <2>2, <2>3, <2>4
  <2>5. CASE u # t
    BY <2>1, <2>2, <2>3, <2>5
  <2> QED
    BY <2>4, <2>5
<1>5. ASSUME NEW u \in Threads PROVE TestOK(u)'
  <2>1. TestOK(u)
    BY DEF ImportInv
  <2> QED
    BY <1>4, <2>1 DEF TestOK, Owned, cacheVars, Working, InCase, Importing
<1>6. WaitingIsForAnImport'
  <2> SUFFICES ASSUME NEW m \in Provided, NEW u \in Threads
               PROVE  (initializing'[m] = u) <=> (pc'[u] \in Importing /\ test'[u].module = m)
    BY DEF WaitingIsForAnImport, Importing
  <2>1. (initializing[m] = u) <=> (pc[u] \in Importing /\ test[u].module = m)
    BY DEF ImportInv, WaitingIsForAnImport, Importing
  <2> QED
    BY <1>4, <2>1 DEF cacheVars, Working, InCase, Importing
<1> QED
  BY <1>1, <1>2, <1>3, <1>5, <1>6 DEF ImportInv

-----------------------------------------------------------------------------
(***************************************************************************)
(* A step of the thread t gives items to its own module only, while it     *)
(* imports for it; imports are only added; and the thread registers or     *)
(* unregisters nobody but itself, so that it imports for `own` afterwards, *)
(* or for nobody.                                                          *)
(***************************************************************************)
NewForOwn(t) ==
    /\ \A m \in Modules : items'[m] = items[m] \/ (m = test[t].module /\ items[m] = 0)
    /\ test[t].module \in Provided => pc[t] \in Importing \/ items' = items

ImportsStay == \A i \in 1 .. Len(imports) : i \in 1 .. Len(imports') /\ imports'[i] = imports[i]

Registered(t, importing, own) ==
    \A m \in Provided :
        /\ (initializing'[m] = t) <=> (importing /\ own = m)
        /\ \/ initializing'[m] = initializing[m]
           \/ initializing[m] \in {t, NoThread} /\ initializing'[m] \in {t, NoThread}

(***************************************************************************)
(* Such a step leaves the tests of other threads right.                    *)
(***************************************************************************)
LEMMA OthersKeep ==
    ASSUME ImportInv, NEW t \in Threads, NEW s, pc' = [pc EXCEPT ![t] = s],
           NEW r, test' = [test EXCEPT ![t] = r],
           NewForOwn(t), ImportsStay,
           NEW u \in Threads, u # t
    PROVE  /\ pc'[u] = pc[u] /\ test'[u] = test[u]
           /\ TestOK(u)'
<1>1. pc'[u] = pc[u] /\ test'[u] = test[u]
  BY DEF ImportInv, ImportTypes
<1>2. TestOK(u)
  BY DEF ImportInv
<1>3. \A i : \A m : Owned(i, m) => Owned(i, m)'
  BY DEF Owned, ImportsStay
<1>4. test'[u].items # 0 => Owned(test[u].items, test[u].module)'
  BY <1>1, <1>2, <1>3 DEF TestOK
<1>5. ASSUME test[u].module \in Provided, pc[u] \in Importing
      PROVE  items'[test[u].module] = 0
  <2>1. initializing[test[u].module] = u
    BY <1>5 DEF ImportInv, WaitingIsForAnImport, Importing
  <2>2. test[t].module = test[u].module => pc[t] \notin Importing
    BY <1>5, <2>1 DEF ImportInv, WaitingIsForAnImport, Importing
  <2>3. test[u].module \in Modules /\ items[test[u].module] = 0
    BY <1>2, <1>5 DEF TestOK, Importing
  <2> QED
    BY <1>5, <2>2, <2>3 DEF NewForOwn
<1>6. ASSUME test[u].module \in Provided, pc[u] \in Working
      PROVE  items'[test[u].module] = items[test[u].module]
  <2>1. test[u].module \in Modules /\ items[test[u].module] # 0
    BY <1>2, <1>6 DEF TestOK, Working, InCase
  <2> QED
    BY <2>1 DEF NewForOwn
<1> QED
  BY <1>1, <1>2, <1>4, <1>5, <1>6 DEF TestOK

-----------------------------------------------------------------------------
(***************************************************************************)
(* A step of the thread t keeps the invariant if what is kept is right,    *)
(* the test of t is, and t imports for whom it is registered.              *)
(***************************************************************************)
LEMMA StepKeeps ==
    ASSUME ImportInv, NEW t \in Threads, NEW s \in Steps, pc' = [pc EXCEPT ![t] = s],
           NEW r, test' = [test EXCEPT ![t] = r],
           NewForOwn(t), ImportsStay,
           ImportTypes', KeptOK', TestOK(t)', Registered(t, s \in Importing, r.module)
    PROVE  ImportInv'
<1>1. \A u \in Threads : TestOK(u)'
  <2> SUFFICES ASSUME NEW u \in Threads, u # t PROVE TestOK(u)'
    OBVIOUS
  <2> QED
    BY OthersKeep
<1>2. test' = [u \in Threads |-> test'[u]]
  BY DEF ImportInv
<1>3. WaitingIsForAnImport'
  <2> SUFFICES ASSUME NEW m \in Provided, NEW u \in Threads
               PROVE  (initializing'[m] = u) <=> (pc'[u] \in Importing /\ test'[u].module = m)
    BY DEF WaitingIsForAnImport, Importing
  <2>1. CASE u = t
    <3>1. pc'[t] = s /\ test'[t] = r
      BY DEF ImportInv, ImportTypes
    <3> QED
      BY <2>1, <3>1 DEF Registered
  <2>2. CASE u # t
    <3>1. pc'[u] = pc[u] /\ test'[u] = test[u]
      BY <2>2, OthersKeep
    <3>2. (initializing[m] = u) <=> (pc[u] \in Importing /\ test[u].module = m)
      BY DEF ImportInv, WaitingIsForAnImport, Importing
    <3>3. (initializing'[m] = u) <=> (initializing[m] = u)
      BY <2>2, RunsAssumption DEF Registered
    <3> QED
      BY <3>1, <3>2, <3>3
  <2> QED
    BY <2>1, <2>2
<1> QED
  BY <1>1, <1>2, <1>3 DEF ImportInv

(***************************************************************************)
(* What one knows of the thread that makes a step.                         *)
(***************************************************************************)
LEMMA Known ==
    ASSUME ImportInv, NEW t \in Threads, NEW s, pc' = [pc EXCEPT ![t] = s],
           NEW r, test' = [test EXCEPT ![t] = r]
    PROVE  /\ pc'[t] = s /\ test'[t] = r
           /\ TestOK(t) /\ ImportTypes /\ KeptOK
           /\ \A m \in Provided :
                 (initializing[m] = t) <=> (pc[t] \in Importing /\ test[t].module = m)
BY DEF ImportInv, ImportTypes, WaitingIsForAnImport, Importing

(***************************************************************************)
(* A test begins, and a test ends with or without a panic.                 *)
(***************************************************************************)
LEMMA BeginKeeps ==
    ASSUME ImportInv, NEW t \in Threads, NEW own \in Modules, Begin(t, own)
    PROVE  ImportInv'
<1> DEFINE r == [NoTest EXCEPT !.module = own]
<1>1. /\ pc' = [pc EXCEPT ![t] = "items"] /\ test' = [test EXCEPT ![t] = r]
      /\ UNCHANGED <<cache, items, initializing, imports>> /\ pc[t] = "idle"
  BY DEF Begin, GoTo, At, cacheVars
<1>2. IsTest(r) /\ r.module = own /\ r.items = 0
  BY NewTest
<1> HIDE DEF r
<1>3. /\ pc'[t] = "items" /\ test'[t] = r /\ ImportTypes /\ KeptOK
      /\ \A n \in Provided : initializing[n] # t
  <2>1. /\ pc'[t] = "items" /\ test'[t] = r /\ ImportTypes /\ KeptOK
        /\ \A n \in Provided :
              (initializing[n] = t) <=> (pc[t] \in Importing /\ test[t].module = n)
    BY <1>1, Known
  <2> QED
    BY <1>1, <2>1 DEF Importing
<1>4. TestOK(t)'
  <2>1. IsTest(test'[t]) /\ test'[t].module = own /\ test'[t].items = 0
    BY <1>2, <1>3
  <2> QED
    BY <1>3, <2>1 DEF TestOK, Working, InCase, Importing
<1>5. ImportTypes' /\ KeptOK'
  BY <1>1, <1>3 DEF ImportTypes, KeptOK, Owned, Steps
<1>6. NewForOwn(t) /\ ImportsStay /\ Registered(t, "items" \in Importing, r.module)
  BY <1>1, <1>3 DEF NewForOwn, ImportsStay, Registered, Importing
<1> QED
  BY <1>1, <1>4, <1>5, <1>6, StepKeeps DEF Steps

LEMMA EndKeeps ==
    ASSUME ImportInv, NEW t \in Threads,
           pc' = [pc EXCEPT ![t] = "idle"], test' = [test EXCEPT ![t] = NoTest],
           UNCHANGED <<cache, items, imports>>,
           \/ pc[t] = "next" /\ UNCHANGED initializing
           \/ pc[t] \in Importing /\ GiveUp(test[t].module)
    PROVE  ImportInv'
<1>2. IsTest(NoTest) /\ NoTest.items = 0
  BY NewTest
<1>3. /\ pc'[t] = "idle" /\ test'[t] = NoTest /\ TestOK(t) /\ ImportTypes /\ KeptOK
      /\ \A m \in Provided : (initializing[m] = t) <=> (pc[t] \in Importing /\ test[t].module = m)
  BY Known
<1>4. TestOK(t)'
  BY <1>2, <1>3 DEF TestOK, Working, InCase, Importing
<1>7. NewForOwn(t) /\ ImportsStay
  BY DEF NewForOwn, ImportsStay
<1>5. CASE pc[t] = "next" /\ UNCHANGED initializing
  <2>1. ImportTypes' /\ KeptOK'
    BY <1>3, <1>5 DEF ImportTypes, KeptOK, Owned, Steps
  <2>2. Registered(t, "idle" \in Importing, NoTest.module)
    BY <1>3, <1>5 DEF Registered, Importing
  <2> QED
    BY <1>4, <1>7, <2>1, <2>2, StepKeeps DEF Steps
<1>6. CASE pc[t] \in Importing /\ GiveUp(test[t].module)
  <2>1. /\ test[t].module \in Modules
        /\ initializing' = [initializing EXCEPT ![test[t].module] = NoThread]
    BY <1>3, <1>6 DEF TestOK, Importing, GiveUp
  <2>2. ImportTypes' /\ KeptOK'
    BY <1>3, <2>1 DEF ImportTypes, KeptOK, Owned, Steps
  <2>3. \A m \in Provided : /\ initializing'[m] # t
                            /\ \/ initializing'[m] = initializing[m]
                               \/ initializing[m] = t /\ initializing'[m] = NoThread
    BY <1>3, <1>6, <2>1, CacheAssumption, RunsAssumption DEF ImportTypes
  <2>4. Registered(t, "idle" \in Importing, NoTest.module)
    BY <2>3 DEF Registered, Importing
  <2> QED
    BY <1>4, <1>7, <2>2, <2>4, StepKeeps DEF Steps
<1> QED
  BY <1>5, <1>6

(***************************************************************************)
(* A test that imported, or found an import in the cache, gets the items   *)
(* and gives them to its module.                                           *)
(***************************************************************************)
LEMMA GivingKeeps ==
    ASSUME ImportInv, NEW t \in Threads, NEW i,
           NEW own, test[t].module = own,
           NEW r, r = [test[t] EXCEPT !.items = i],
           pc' = [pc EXCEPT ![t] = "next"], test' = [test EXCEPT ![t] = r],
           pc[t] \in Importing, Owned(i, own), ItemsAre(own, i),
           UNCHANGED imports,
           cache' \in [Keys -> Nat],
           \A k \in Keys : cache'[k] = cache[k] \/
               (cache'[k] = i /\ imports[i] \notin PerClass /\ KeyOf[imports[i]] = k)
    PROVE  ImportInv'
<1>1. /\ pc'[t] = "next" /\ test'[t] = r /\ TestOK(t) /\ ImportTypes /\ KeptOK
      /\ \A m \in Provided : (initializing[m] = t) <=> (pc[t] \in Importing /\ own = m)
  <2>1. pc'[t] = "next" /\ test'[t] = r
    BY DEF ImportInv, ImportTypes
  <2>2. TestOK(t) /\ ImportTypes /\ KeptOK
    BY DEF ImportInv
  <2>3. \A m \in Provided : (initializing[m] = t) <=> (pc[t] \in Importing /\ own = m)
    BY DEF ImportInv, WaitingIsForAnImport, Importing
  <2> QED
    BY <2>1, <2>2, <2>3
<1>2. own \in Modules /\ IsTest(test[t])
  BY <1>1 DEF TestOK, Importing
<1>3. IsTest(r) /\ r.module = own /\ r.items = i
  BY <1>2 DEF IsTest
<1>4. i \in 1 .. Len(imports) /\ i \in Nat /\ i # 0
  <2>1. i \in 1 .. Len(imports)
    BY DEF Owned
  <2> QED
    BY <2>1
<1>5. /\ initializing' = [initializing EXCEPT ![own] = NoThread]
      /\ items' = IF own \in Provided THEN [items EXCEPT ![own] = i] ELSE items
  BY DEF ItemsAre
<1>6. /\ \A m \in Modules : items'[m] = IF own \in Provided /\ m = own THEN i ELSE items[m]
      /\ \A m \in Modules : initializing'[m] = IF m = own THEN NoThread ELSE initializing[m]
  BY <1>1, <1>2, <1>5 DEF ImportTypes
<1>7. ImportTypes'
  <2>1. items' \in [Modules -> Nat] /\ initializing' \in [Modules -> Threads \cup {NoThread}]
    BY <1>1, <1>2, <1>4, <1>5 DEF ImportTypes
  <2>2. pc' \in [Threads -> Steps]
    BY <1>1 DEF ImportTypes, Steps
  <2> QED
    BY <1>1, <2>1, <2>2 DEF ImportTypes
<1>8. \A n, m : Owned(n, m)' <=> Owned(n, m)
  BY DEF Owned
<1>9. KeptOK'
  <2>1. ASSUME NEW k \in Keys, cache'[k] # 0
        PROVE  cache'[k] \in 1 .. Len(imports') /\ imports'[cache'[k]] \notin PerClass
                  /\ KeyOf[imports'[cache'[k]]] = k
    BY <1>1, <1>4, <2>1 DEF KeptOK
  <2>2. ASSUME NEW m \in Modules, items'[m] # 0 PROVE Owned(items[m], m)'
    <3>1. CASE own \in Provided /\ m = own
      BY <1>6, <3>1 DEF Owned
    <3>2. CASE ~(own \in Provided /\ m = own)
      BY <1>1, <1>6, <2>2, <3>2 DEF KeptOK, Owned
    <3> QED
      BY <3>1, <3>2
  <2> QED
    BY <2>1, <2>2 DEF KeptOK
<1>10. own \in Provided => items[own] = 0
  BY <1>1 DEF TestOK
<1>11. TestOK(t)'
  <2>1. IsTest(test'[t]) /\ test'[t].module = own /\ test'[t].items = i
    BY <1>1, <1>3
  <2>2. Owned(i, own)'
    BY <1>8
  <2>3. own \in Provided => items'[own] = i
    BY <1>2, <1>6
  <2> QED
    BY <1>1, <1>2, <1>4, <2>1, <2>2, <2>3 DEF TestOK, Working, InCase, Importing
<1>12. \A m \in Modules : items'[m] = items[m] \/ (m = own /\ items[m] = 0)
  BY <1>6, <1>10
<1>13. ASSUME NEW m \in Provided
       PROVE  /\ (initializing'[m] = t) <=> ("next" \in Importing /\ r.module = m)
              /\ \/ initializing'[m] = initializing[m]
                 \/ initializing[m] \in {t, NoThread} /\ initializing'[m] \in {t, NoThread}
  <2>1. m \in Modules /\ NoThread # t /\ "next" \notin Importing
    BY CacheAssumption, RunsAssumption DEF Importing
  <2>2. CASE m = own
    BY <1>1, <1>6, <2>1, <2>2
  <2>3. CASE m # own
    BY <1>1, <1>6, <2>1, <2>3
  <2> QED
    BY <2>2, <2>3
<1>14. NewForOwn(t) /\ ImportsStay
  BY <1>12 DEF NewForOwn, ImportsStay
<1>15. Registered(t, "next" \in Importing, r.module)
  BY <1>13 DEF Registered
<1> QED
  BY <1>7, <1>9, <1>11, <1>14, <1>15, StepKeeps DEF Steps

(***************************************************************************)
(* The items of the module are there, or the test goes to import them.     *)
(***************************************************************************)
LEMMA GetItemsKeeps ==
    ASSUME ImportInv, NEW t \in Threads, GetItems(t)
    PROVE  ImportInv'
<1> PICK own : own = test[t].module
  OBVIOUS
<1>1. /\ TestOK(t) /\ ImportTypes /\ KeptOK /\ pc[t] = "items"
      /\ own \in Modules /\ IsTest(test[t]) /\ test[t].items = 0
      /\ \A m \in Provided : initializing[m] # t
  <2>1. TestOK(t) /\ ImportTypes /\ KeptOK /\ pc[t] = "items"
    BY DEF ImportInv, GetItems, At
  <2>2. \A m \in Provided : (initializing[m] = t) <=> (pc[t] \in Importing /\ own = m)
    BY DEF ImportInv, WaitingIsForAnImport, Importing
  <2> QED
    BY <2>1, <2>2 DEF TestOK, Importing
<1>2. CASE items[own] # 0 /\ Holds(t, items[own]) /\ UNCHANGED cacheVars
  <2> PICK r : r = [test[t] EXCEPT !.items = items[own]]
    OBVIOUS
  <2>1. /\ pc' = [pc EXCEPT ![t] = "next"] /\ test' = [test EXCEPT ![t] = r]
        /\ UNCHANGED <<cache, items, initializing, imports>>
    BY <1>2 DEF Holds, GoTo, cacheVars
  <2>2. IsTest(r) /\ r.module = own /\ r.items = items[own]
    BY <1>1 DEF IsTest
  <2>3. pc'[t] = "next" /\ test'[t] = r
    BY <2>1 DEF ImportInv, ImportTypes
  <2>4. ImportTypes' /\ KeptOK'
    BY <1>1, <2>1 DEF ImportTypes, KeptOK, Owned, Steps
  <2>5. TestOK(t)'
    <3>1. IsTest(test'[t]) /\ test'[t].module = own /\ test'[t].items = items[own]
      BY <2>2, <2>3
    <3>2. Owned(items[own], own)'
      BY <1>1, <1>2, <2>1 DEF KeptOK, Owned
    <3> QED
      BY <1>1, <1>2, <2>1, <2>3, <3>1, <3>2 DEF TestOK, Working, InCase, Importing
  <2>6. NewForOwn(t) /\ ImportsStay /\ Registered(t, "next" \in Importing, r.module)
    BY <1>1, <2>1 DEF NewForOwn, ImportsStay, Registered, Importing
  <2> QED
    BY <2>1, <2>4, <2>5, <2>6, StepKeeps DEF Steps
<1>3. CASE /\ IF own \in Provided THEN ClaimItems(t, own) ELSE UNCHANGED cacheVars
           /\ GoTo(t, "lookup") /\ UNCHANGED test
  <2> PICK r : r = test[t]
    OBVIOUS
  <2>1. /\ pc' = [pc EXCEPT ![t] = "lookup"] /\ test' = [test EXCEPT ![t] = r]
        /\ UNCHANGED <<cache, items, imports>>
        /\ own \in Provided => items[own] = 0
    BY <1>3 DEF GoTo, ImportInv, ClaimItems, cacheVars
  <2>2. pc'[t] = "lookup" /\ test'[t] = r
    BY <2>1 DEF ImportInv, ImportTypes
  <2>3. \/ own \in Provided /\ initializing[own] = NoThread
              /\ initializing' = [initializing EXCEPT ![own] = t]
        \/ own \notin Provided /\ initializing' = initializing
    BY <1>3 DEF ClaimItems, cacheVars
  <2>4. ImportTypes' /\ KeptOK'
    <3>1. pc' \in [Threads -> Steps]
      BY <1>1, <2>1 DEF ImportTypes, Steps
    <3>2. initializing' \in [Modules -> Threads \cup {NoThread}]
      BY <1>1, <2>3 DEF ImportTypes
    <3> QED
      BY <1>1, <2>1, <3>1, <3>2 DEF ImportTypes, KeptOK, Owned
  <2>5. TestOK(t)'
    <3>1. IsTest(test'[t]) /\ test'[t].module = own /\ test'[t].items = 0
      BY <1>1, <2>2
    <3> QED
      BY <1>1, <2>1, <2>2, <3>1 DEF TestOK, Working, InCase, Importing
  <2>6. NewForOwn(t) /\ ImportsStay
    BY <2>1 DEF NewForOwn, ImportsStay
  <2>7. Registered(t, "lookup" \in Importing, r.module)
    <3> SUFFICES ASSUME NEW m \in Provided
                 PROVE  /\ (initializing'[m] = t) <=> own = m
                        /\ \/ initializing'[m] = initializing[m]
                           \/ initializing[m] \in {t, NoThread} /\ initializing'[m] \in {t, NoThread}
      BY DEF Registered, Importing
    <3>1. m \in Modules /\ initializing[m] # t
      BY <1>1, CacheAssumption
    <3>2. CASE m = own
      BY <1>1, <2>3, <3>1, <3>2 DEF ImportTypes
    <3>3. CASE m # own
      BY <1>1, <2>3, <3>1, <3>3 DEF ImportTypes
    <3> QED
      BY <3>2, <3>3
  <2> QED
    BY <2>1, <2>4, <2>5, <2>6, <2>7, StepKeeps DEF Steps
<1> QED
  BY <1>2, <1>3 DEF GetItems

(***************************************************************************)
(* The import is looked up, made, and inserted.                            *)
(***************************************************************************)
LEMMA LookupKeeps ==
    ASSUME ImportInv, NEW t \in Threads, Lookup(t)
    PROVE  ImportInv'
<1> PICK own : own = test[t].module
  OBVIOUS
<1>1. /\ TestOK(t) /\ ImportTypes /\ KeptOK /\ pc[t] = "lookup" /\ own \in Modules
      /\ \A m \in Provided : (initializing[m] = t) <=> own = m
  <2>1. TestOK(t) /\ ImportTypes /\ KeptOK /\ pc[t] = "lookup"
    BY DEF ImportInv, Lookup, At
  <2>2. \A m \in Provided : (initializing[m] = t) <=> (pc[t] \in Importing /\ own = m)
    BY DEF ImportInv, WaitingIsForAnImport, Importing
  <2> QED
    BY <2>1, <2>2 DEF TestOK, Importing
<1>2. CASE UseCached(own) /\ Holds(t, Cached(own))
  <2> PICK i, r : i = Cached(own) /\ r = [test[t] EXCEPT !.items = i]
    OBVIOUS
  <2>1. /\ pc' = [pc EXCEPT ![t] = "next"] /\ test' = [test EXCEPT ![t] = r]
        /\ UNCHANGED <<cache, imports>> /\ ItemsAre(own, i) /\ i # 0
    BY <1>2 DEF Holds, GoTo, UseCached
  <2>2. own \notin PerClass /\ i = cache[KeyOf[own]] /\ KeyOf[own] \in Keys
    BY <1>1, <2>1, CacheAssumption DEF Cached
  <2>3. Owned(i, own)
    BY <1>1, <2>1, <2>2 DEF KeptOK, Owned
  <2>4. cache' \in [Keys -> Nat]
    BY <1>1, <2>1 DEF ImportTypes
  <2>5. \A k \in Keys : cache'[k] = cache[k]
    BY <2>1
  <2>6. pc[t] \in Importing
    BY <1>1 DEF Importing
  <2> QED
    BY <2>1, <2>3, <2>4, <2>5, <2>6, GivingKeeps
<1>3. CASE GoTo(t, "import") /\ UNCHANGED <<cacheVars, test>>
  <2> PICK r : r = test[t]
    OBVIOUS
  <2>1. /\ pc' = [pc EXCEPT ![t] = "import"] /\ test' = [test EXCEPT ![t] = r]
        /\ UNCHANGED <<cache, items, initializing, imports>>
    BY <1>3 DEF GoTo, ImportInv, cacheVars
  <2>2. pc'[t] = "import" /\ test'[t] = r
    BY <2>1 DEF ImportInv, ImportTypes
  <2>3. ImportTypes' /\ KeptOK'
    BY <1>1, <2>1 DEF ImportTypes, KeptOK, Owned, Steps
  <2>4. TestOK(t)'
    BY <1>1, <2>1, <2>2 DEF TestOK, Working, InCase, Importing
  <2>5. NewForOwn(t) /\ ImportsStay /\ Registered(t, "import" \in Importing, r.module)
    BY <1>1, <2>1 DEF NewForOwn, ImportsStay, Registered, Importing
  <2> QED
    BY <2>1, <2>3, <2>4, <2>5, StepKeeps DEF Steps
<1> QED
  BY <1>2, <1>3 DEF Lookup

LEMMA ImportKeeps ==
    ASSUME ImportInv, NEW t \in Threads, Import(t)
    PROVE  ImportInv'
<1> PICK own, i, r : own = test[t].module /\ i = Len(imports) + 1 /\ r = [test[t] EXCEPT !.items = i]
  OBVIOUS
<1>1. /\ TestOK(t) /\ ImportTypes /\ KeptOK /\ pc[t] = "import" /\ own \in Modules /\ IsTest(test[t])
      /\ \A m \in Provided : (initializing[m] = t) <=> own = m
  <2>1. TestOK(t) /\ ImportTypes /\ KeptOK /\ pc[t] = "import"
    BY DEF ImportInv, Import, At
  <2>2. \A m \in Provided : (initializing[m] = t) <=> (pc[t] \in Importing /\ own = m)
    BY DEF ImportInv, WaitingIsForAnImport, Importing
  <2> QED
    BY <2>1, <2>2 DEF TestOK, Importing
<1>2. /\ pc' = [pc EXCEPT ![t] = "insert"] /\ test' = [test EXCEPT ![t] = r]
      /\ imports' = Append(imports, own) /\ UNCHANGED <<cache, items, initializing>>
  BY DEF Import, ImportUncached, GoTo
<1>3. /\ imports' \in Seq(Modules) /\ i \in 1 .. Len(imports') /\ imports'[i] = own
      /\ \A j \in 1 .. Len(imports) : j \in 1 .. Len(imports') /\ imports'[j] = imports[j]
  BY <1>1, <1>2, AppendedImport
<1>4. IsTest(r) /\ r.module = own /\ r.items = i
  BY <1>1 DEF IsTest
<1>5. pc'[t] = "insert" /\ test'[t] = r
  BY <1>2 DEF ImportInv, ImportTypes
<1>6. ImportTypes'
  <2>1. pc' \in [Threads -> Steps]
    BY <1>1, <1>2 DEF ImportTypes, Steps
  <2> QED
    BY <1>1, <1>2, <1>3, <2>1 DEF ImportTypes
<1>7. KeptOK'
  <2>1. ASSUME NEW k \in Keys, cache'[k] # 0
        PROVE  cache'[k] \in 1 .. Len(imports') /\ imports'[cache'[k]] \notin PerClass
                  /\ KeyOf[imports'[cache'[k]]] = k
    BY <1>1, <1>2, <1>3, <2>1 DEF KeptOK
  <2>2. ASSUME NEW m \in Modules, items'[m] # 0 PROVE Owned(items[m], m)'
    BY <1>1, <1>2, <1>3, <2>2 DEF KeptOK, Owned
  <2> QED
    BY <2>1, <2>2 DEF KeptOK
<1>8. TestOK(t)'
  <2>1. IsTest(test'[t]) /\ test'[t].module = own /\ test'[t].items = i
    BY <1>4, <1>5
  <2>2. Owned(i, own)'
    BY <1>3 DEF Owned
  <2>3. i # 0
    BY <1>1 DEF ImportTypes
  <2> QED
    BY <1>1, <1>2, <1>5, <2>1, <2>2, <2>3 DEF TestOK, Working, InCase, Importing
<1>9. NewForOwn(t) /\ ImportsStay
  BY <1>2, <1>3 DEF NewForOwn, ImportsStay
<1>10. Registered(t, "insert" \in Importing, r.module)
  BY <1>1, <1>2, <1>4 DEF Registered, Importing
<1> QED
  BY <1>2, <1>6, <1>7, <1>8, <1>9, <1>10, StepKeeps DEF Steps

LEMMA InsertKeeps ==
    ASSUME ImportInv, NEW t \in Threads, InsertItems(t)
    PROVE  ImportInv'
<1> PICK own, i, r : own = test[t].module /\ i = test[t].items /\ r = [test[t] EXCEPT !.items = i]
  OBVIOUS
<1>1. /\ TestOK(t) /\ ImportTypes /\ pc[t] = "insert" /\ own \in Modules
  BY DEF ImportInv, InsertItems, At, TestOK
<1>2. /\ pc' = [pc EXCEPT ![t] = "next"] /\ test' = [test EXCEPT ![t] = r]
      /\ ItemsAre(own, i) /\ UNCHANGED imports
      /\ cache' = IF own \in PerClass THEN cache ELSE [cache EXCEPT ![KeyOf[own]] = i]
  BY DEF InsertItems, Insert, Holds, GoTo
<1>3. Owned(i, own)
  BY <1>1 DEF TestOK
<1>4. i \in Nat
  BY <1>3 DEF Owned
<1>5. cache' \in [Keys -> Nat]
  BY <1>1, <1>2, <1>4 DEF ImportTypes
<1>6. \A k \in Keys : cache'[k] = cache[k] \/
          (cache'[k] = i /\ imports[i] \notin PerClass /\ KeyOf[imports[i]] = k)
  BY <1>1, <1>2, <1>3 DEF ImportTypes, Owned
<1>7. pc[t] \in Importing
  BY <1>1 DEF Importing
<1> QED
  BY <1>2, <1>3, <1>5, <1>6, <1>7, GivingKeeps

(***************************************************************************)
(* Forgetting what is cached takes nothing from a test or a module.        *)
(***************************************************************************)
LEMMA ClearKeeps == ASSUME ImportInv, Clear PROVE ImportInv'
<1>1. /\ UNCHANGED <<pc, test, items, initializing, imports>>
      /\ cache' = [k \in Keys |-> 0]
  BY DEF Clear, ClearCache
<1>2. ImportTypes' /\ KeptOK'
  BY <1>1 DEF ImportInv, ImportTypes, KeptOK, Owned
<1>3. \A t \in Threads : TestOK(t)'
  BY <1>1 DEF ImportInv, TestOK, Owned
<1> QED
  BY <1>1, <1>2, <1>3 DEF ImportInv, WaitingIsForAnImport

-----------------------------------------------------------------------------
(***************************************************************************)
(* What cases do has nothing to do with imports.                           *)
(***************************************************************************)
LEMMA StayKeeps ==
    ASSUME ImportInv, UNCHANGED <<cacheVars, pc, test>> PROVE ImportInv'
<1>1. ImportTypes' /\ KeptOK'
  BY DEF ImportInv, ImportTypes, KeptOK, Owned, cacheVars
<1>2. \A t \in Threads : TestOK(t)'
  BY DEF ImportInv, TestOK, Owned, cacheVars
<1> QED
  BY <1>1, <1>2 DEF ImportInv, WaitingIsForAnImport, cacheVars

LEMMA CaseStepKeeps ==
    ASSUME ImportInv, NEW t \in Threads,
           \/ StartCase(t) \/ EndCase(t) \/ CasePanics(t)
           \/ BeginEvaluation(t) \/ ReadPatterns(t) \/ LoadPatterns(t) \/ Passes(t)
    PROVE  ImportInv'
<1> DEFINE Moves ==
       /\ UNCHANGED cacheVars
       /\ pc[t] \in Working
       /\ \E s \in Working : pc' = [pc EXCEPT ![t] = s]
       /\ \E r : /\ IsTest(r) /\ r.module = test[t].module /\ r.items = test[t].items
                 /\ test' = [test EXCEPT ![t] = r]
<1>0. IsTest(test[t]) /\ test = [u \in Threads |-> test[u]]
  BY DEF ImportInv, TestOK
<1>1. ASSUME StartCase(t) PROVE Moves
  <2>1. PICK c : test' = [test EXCEPT ![t] = [test[t] EXCEPT !.case = c]]
    BY <1>1 DEF StartCase
  <2>2. PICK r : r = [test[t] EXCEPT !.case = c]
    OBVIOUS
  <2>3. IsTest(r) /\ r.module = test[t].module /\ r.items = test[t].items
    BY <1>0, <2>2 DEF IsTest
  <2> QED
    BY <1>1, <2>1, <2>2, <2>3 DEF StartCase, GoTo, At, Working, InCase
<1>2. ASSUME EndCase(t) PROVE Moves
  <2>2. PICK r : r = [test[t] EXCEPT !.seen = NothingSeen]
    OBVIOUS
  <2>3. IsTest(r) /\ r.module = test[t].module /\ r.items = test[t].items
    BY <1>0, <2>2 DEF IsTest
  <2> QED
    BY <1>2, <2>2, <2>3 DEF EndCase, GoTo, At, Working, InCase
<1>3. ASSUME CasePanics(t) PROVE Moves
  <2>1. PICK q, r : /\ q = [test[t] EXCEPT !.failures = Append(test[t].failures, test[t].case)]
                    /\ r = [q EXCEPT !.seen = NothingSeen]
    OBVIOUS
  <2>2. IsTest(q) /\ q.module = test[t].module /\ q.items = test[t].items
    BY <1>0, <2>1 DEF IsTest
  <2>3. IsTest(r) /\ r.module = q.module /\ r.items = q.items
    BY <2>1, <2>2 DEF IsTest
  <2>4. test' = [test EXCEPT ![t] = r]
    BY <1>0, <1>3, <2>1 DEF CasePanics
  <2> QED
    BY <1>3, <2>2, <2>3, <2>4 DEF CasePanics, GoTo, Working, InCase
<1>4. ASSUME BeginEvaluation(t) PROVE Moves
  <2>1. PICK n, r : /\ n = [test[t].seen EXCEPT !.empty = Property(Get(t), FailOnEmpty)]
                    /\ r = [test[t] EXCEPT !.seen = n]
    OBVIOUS
  <2>3. IsTest(r) /\ r.module = test[t].module /\ r.items = test[t].items
    BY <1>0, <2>1 DEF IsTest
  <2>4. test' = [test EXCEPT ![t] = r]
    BY <1>4, <2>1 DEF BeginEvaluation
  <2> QED
    BY <1>4, <2>3, <2>4 DEF BeginEvaluation, GoTo, At, Working, InCase
<1>5. ASSUME ReadPatterns(t) PROVE Moves
  <2>1. PICK n, r : /\ n = [test[t].seen EXCEPT !.patterns = Get(t).patterns]
                    /\ r = [test[t] EXCEPT !.seen = n]
    OBVIOUS
  <2>3. IsTest(r) /\ r.module = test[t].module /\ r.items = test[t].items
    BY <1>0, <2>1 DEF IsTest
  <2>4. \/ test' = [test EXCEPT ![t] = r]
        \/ test' = [test EXCEPT ![t] = test[t]]
    BY <1>0, <1>5, <2>1 DEF ReadPatterns
  <2> QED
    BY <1>0, <1>5, <2>3, <2>4 DEF ReadPatterns, GoTo, At, Working, InCase
<1>6. ASSUME LoadPatterns(t) PROVE Moves
  <2>1. PICK n, r : /\ n = [test[t].seen EXCEPT !.patterns = FilePatterns]
                    /\ r = [test[t] EXCEPT !.seen = n]
    OBVIOUS
  <2>3. IsTest(r) /\ r.module = test[t].module /\ r.items = test[t].items
    BY <1>0, <2>1 DEF IsTest
  <2>4. test' = [test EXCEPT ![t] = r]
    BY <1>6, <2>1 DEF LoadPatterns
  <2> QED
    BY <1>6, <2>3, <2>4 DEF LoadPatterns, GoTo, At, Working, InCase
<1>7. ASSUME Passes(t) PROVE Moves
  <2>2. PICK r : r = [test[t] EXCEPT !.seen = NothingSeen]
    OBVIOUS
  <2>3. IsTest(r) /\ r.module = test[t].module /\ r.items = test[t].items
    BY <1>0, <2>2 DEF IsTest
  <2> QED
    BY <1>7, <2>2, <2>3 DEF Passes, GoTo, At, Working, InCase
<1>8. Moves
  BY <1>1, <1>2, <1>3, <1>4, <1>5, <1>6, <1>7
<1>9. PICK s, r :
         /\ s \in Working /\ pc' = [pc EXCEPT ![t] = s]
         /\ IsTest(r) /\ r.module = test[t].module /\ r.items = test[t].items
         /\ test' = [test EXCEPT ![t] = r]
  BY <1>8
<1> QED
  BY <1>8, <1>9, CaseKeeps

(***************************************************************************)
(* Every step keeps the invariant.                                         *)
(***************************************************************************)
LEMMA ImportStep == ImportInv /\ [Next]_vars => ImportInv'
<1> SUFFICES ASSUME ImportInv, [Next]_vars PROVE ImportInv'
  OBVIOUS
<1>1. ASSUME NEW t \in Threads, NEW own \in Modules, Begin(t, own) PROVE ImportInv'
  BY <1>1, BeginKeeps
<1>2. ASSUME NEW t \in Threads, GetItems(t) \/ Lookup(t) \/ Import(t) \/ InsertItems(t)
      PROVE  ImportInv'
  BY <1>2, GetItemsKeeps, LookupKeeps, ImportKeeps, InsertKeeps
<1>3. ASSUME NEW t \in Threads, ImportFails(t) PROVE ImportInv'
  BY <1>3, EndKeeps DEF ImportFails, GoTo, At, GiveUp, Importing
<1>4. ASSUME NEW t \in Threads, Report(t) PROVE ImportInv'
  BY <1>4, EndKeeps DEF Report, GoTo, At, cacheVars
<1>5. ASSUME NEW t \in Threads,
             \/ StartCase(t) \/ EndCase(t) \/ CasePanics(t)
             \/ BeginEvaluation(t) \/ ReadPatterns(t) \/ LoadPatterns(t) \/ Passes(t)
      PROVE  ImportInv'
  BY <1>5, CaseStepKeeps
<1>6. ASSUME NEW t \in Threads, Changes(t) \/ Enters(t) \/ Leaves(t) PROVE ImportInv'
  BY <1>6, StayKeeps DEF Changes, Enters, Leaves
<1>7. CASE Clear
  BY <1>7, ClearKeeps
<1>8. CASE UNCHANGED vars
  BY <1>8, StayKeeps DEF vars
<1> QED
  BY <1>1, <1>2, <1>3, <1>4, <1>5, <1>6, <1>7, <1>8 DEF Next, Advance

LEMMA ImportInit == Init => ImportInv
<1> SUFFICES ASSUME Init PROVE ImportInv
  OBVIOUS
<1>1. /\ pc = [t \in Threads |-> "idle"] /\ test = [t \in Threads |-> NoTest]
      /\ cache = [k \in Keys |-> 0] /\ items = [m \in Modules |-> 0]
      /\ initializing = [m \in Modules |-> NoThread] /\ imports = <<>>
  BY DEF Init, CacheInit
<1>2. ImportTypes /\ KeptOK
  BY <1>1 DEF ImportTypes, KeptOK, Steps
<1>3. \A t \in Threads : TestOK(t)
  BY <1>1, NewTest DEF TestOK, Working, InCase, Importing
<1>4. WaitingIsForAnImport
  BY <1>1, CacheAssumption, RunsAssumption DEF WaitingIsForAnImport
<1> QED
  BY <1>1, <1>2, <1>3, <1>4 DEF ImportInv

-----------------------------------------------------------------------------
(***************************************************************************)
(* A test works on items imported for its module or, unless either asked   *)
(* for an import of its own, with the key of its module, whatever is       *)
(* imported and forgotten at the same time.                                *)
(***************************************************************************)
THEOREM ItemsAreTheModules == Spec => []ImportsAreWhoseTheyWere
<1>1. ImportInv => ImportsAreWhoseTheyWere
  BY DEF ImportInv, TestOK, Owned, ImportsAreWhoseTheyWere
<1> QED
  BY <1>1, ImportInit, ImportStep, PTL DEF Spec

(***************************************************************************)
(* Tests of a module with #[analyze_classes] work on the same items,       *)
(* however many start together and however often imports fail or the cache *)
(* is cleared in between.                                                  *)
(***************************************************************************)
THEOREM ModulesAreImportedOnce == Spec => []OneSnapshotPerModule
<1>1. ImportInv => OneSnapshotPerModule
  BY DEF ImportInv, TestOK, Working, OneSnapshotPerModule
<1> QED
  BY <1>1, ImportInit, ImportStep, PTL DEF Spec

(***************************************************************************)
(* Whoever waits for the items of a module waits for a thread at work on   *)
(* them, also after imports that panicked.                                 *)
(***************************************************************************)
THEOREM NobodyWaitsForNobody == Spec => []WaitingIsForAnImport
<1>1. ImportInv => WaitingIsForAnImport
  BY DEF ImportInv
<1> QED
  BY <1>1, ImportInit, ImportStep, PTL DEF Spec

-----------------------------------------------------------------------------
(***************************************************************************)
(* The scopes of the configuration.                                        *)
(***************************************************************************)
Locals == Configurations \cup {None}

ConfigTypes ==
    /\ global \in Configurations
    /\ local \in [Threads -> Locals]
    /\ guards \in [Threads -> Seq(Locals)]
    /\ pc \in [Threads -> Steps]

(***************************************************************************)
(* The guards of the open scopes of a thread: only the outermost one       *)
(* restores that there is no scope.                                        *)
(***************************************************************************)
GuardsOK(l, g) ==
    /\ (l = None) <=> (Len(g) = 0)
    /\ \A i \in 1..Len(g) : (g[i] = None) <=> (i = 1)

ScopesInv ==
    /\ ConfigTypes
    /\ \A t \in Threads : GuardsOK(local[t], guards[t])
    /\ \A t \in Threads : pc[t] \notin InCase => guards[t] = <<>>

-----------------------------------------------------------------------------
(***************************************************************************)
(* What the guards of a thread are when a scope is left or entered.        *)
(***************************************************************************)
LEMMA PoppedGuards ==
    ASSUME NEW g \in Seq(Locals), NEW l \in Locals, g # <<>>, GuardsOK(l, g)
    PROVE  /\ Front(g) \in Seq(Locals)
           /\ Last(g) \in Locals
           /\ Head(g) = None
           /\ GuardsOK(Last(g), Front(g))
<1>1. Len(g) \in Nat /\ Len(g) >= 1
  OBVIOUS
<1>2. Last(g) = g[Len(g)] /\ Last(g) \in Locals
  BY <1>1 DEF Last
<1>3. /\ Front(g) \in Seq(Locals)
      /\ Len(Front(g)) = Len(g) - 1
      /\ \A i \in 1..(Len(g) - 1) : Front(g)[i] = g[i]
  <2>1. \A i \in 1..(Len(g) - 1) : g[i] \in Locals
    BY <1>1
  <2>2. /\ SubSeq(g, 1, Len(g) - 1) \in Seq(Locals)
        /\ Len(SubSeq(g, 1, Len(g) - 1)) =
              IF 1 <= Len(g) - 1 THEN Len(g) - 1 - 1 + 1 ELSE 0
        /\ \A i \in 1..(Len(g) - 1 - 1 + 1) : SubSeq(g, 1, Len(g) - 1)[i] = g[1 + i - 1]
    BY <1>1, <2>1, SubSeqProperties
  <2>3. \A i \in 1..(Len(g) - 1) :
           i \in 1..(Len(g) - 1 - 1 + 1) /\ 1 + i - 1 = i
    BY <1>1
  <2>4. Front(g) = SubSeq(g, 1, Len(g) - 1)
    BY DEF Front
  <2>5. Len(Front(g)) = Len(g) - 1
    <3>1. \A n \in Nat : n >= 1 => (IF 1 <= n - 1 THEN n - 1 - 1 + 1 ELSE 0) = n - 1
      OBVIOUS
    <3>2. (IF 1 <= Len(g) - 1 THEN Len(g) - 1 - 1 + 1 ELSE 0) = Len(g) - 1
      BY <1>1, <3>1, Zenon
    <3> QED
      BY <2>2, <2>4, <3>2, Zenon
  <2>6. \A i \in 1..(Len(g) - 1) : Front(g)[i] = g[i]
    BY <2>2, <2>3, <2>4
  <2> QED
    BY <2>2, <2>4, <2>5, <2>6
<1>5. Head(g) = None
  BY <1>1 DEF GuardsOK
<1>6. GuardsOK(Last(g), Front(g))
  BY <1>1, <1>2, <1>3 DEF GuardsOK
<1> QED
  BY <1>2, <1>3, <1>5, <1>6

LEMMA PushedGuards ==
    ASSUME NEW g \in Seq(Locals), NEW l \in Locals, NEW c \in Configurations, GuardsOK(l, g)
    PROVE  Append(g, l) \in Seq(Locals) /\ GuardsOK(c, Append(g, l))
<1>1. Len(g) \in Nat /\ Len(Append(g, l)) = Len(g) + 1
  OBVIOUS
<1>2. c # None
  BY ConfigurationAssumption
<1>3. \A i \in 1..(Len(g) + 1) : Append(g, l)[i] = IF i <= Len(g) THEN g[i] ELSE l
  OBVIOUS
<1> QED
  BY <1>1, <1>2, <1>3 DEF GuardsOK

(***************************************************************************)
(* What a thread reads is a configuration.                                 *)
(***************************************************************************)
LEMMA GetIsConfiguration ==
    ASSUME ConfigTypes, NEW t \in Threads
    PROVE  Get(t) \in Configurations
BY DEF ConfigTypes, Get, Locals

LEMMA DefaultIsConfiguration == Default \in Configurations
BY ConfigurationAssumption DEF Default, Configurations

(***************************************************************************)
(* An update puts a configuration into the scope of the thread or the      *)
(* global place and touches no other.                                      *)
(***************************************************************************)
LEMMA UpdateKeeps ==
    ASSUME ConfigTypes, NEW t \in Threads, NEW c \in Configurations, Update(t, c)
    PROVE  /\ guards' = guards
           /\ global' \in Configurations
           /\ local' \in [Threads -> Locals]
           /\ \A u \in Threads : (local'[u] = None) <=> (local[u] = None)
           /\ \A u \in Threads : u # t => local'[u] = local[u]
           /\ global' # global => local' = local /\ local[t] = None
<1>1. c # None /\ c \in Locals
  BY ConfigurationAssumption DEF Locals
<1> QED
  BY <1>1 DEF Update, ConfigTypes

-----------------------------------------------------------------------------
(***************************************************************************)
(* Where a thread may stand: a thread with open scopes is in a case.       *)
(***************************************************************************)
PcOK ==
    /\ pc' \in [Threads -> Steps]
    /\ \A t \in Threads : pc'[t] \notin InCase => guards[t] = <<>>

LEMMA StayingIsOK ==
    ASSUME ScopesInv, UNCHANGED pc
    PROVE  PcOK
BY DEF ScopesInv, ConfigTypes, PcOK

LEMMA GoingIsOK ==
    ASSUME ScopesInv, NEW t \in Threads, NEW s \in Steps, GoTo(t, s),
           s \in InCase \/ guards[t] = <<>>
    PROVE  PcOK
BY DEF ScopesInv, ConfigTypes, PcOK, GoTo

LEMMA OutsideKeeps ==
    ASSUME ScopesInv, UNCHANGED configVars, PcOK
    PROVE  ScopesInv'
BY DEF ScopesInv, ConfigTypes, configVars, PcOK, GuardsOK

LEMMA UpdatesKeep ==
    ASSUME ScopesInv, PcOK, NEW t \in Threads, NEW c \in Configurations, Update(t, c)
    PROVE  ScopesInv'
<1>1. ConfigTypes
  BY DEF ScopesInv
<1>2. /\ guards' = guards
      /\ global' \in Configurations
      /\ local' \in [Threads -> Locals]
      /\ \A u \in Threads : (local'[u] = None) <=> (local[u] = None)
  BY <1>1, UpdateKeeps
<1>3. ConfigTypes'
  BY <1>1, <1>2 DEF ConfigTypes, PcOK
<1>4. \A u \in Threads : GuardsOK(local'[u], guards'[u])
  BY <1>2 DEF ScopesInv, GuardsOK
<1>5. \A u \in Threads : pc'[u] \notin InCase => guards'[u] = <<>>
  BY <1>2 DEF PcOK
<1> QED
  BY <1>3, <1>4, <1>5 DEF ScopesInv

LEMMA EnteringKeeps ==
    ASSUME ScopesInv, NEW t \in Threads, EnterScope(t), At(t, "running"), UNCHANGED pc
    PROVE  ScopesInv'
<1>1. ConfigTypes /\ GuardsOK(local[t], guards[t])
  BY DEF ScopesInv
<1>2. Get(t) \in Configurations /\ Get(t) \in Locals
  BY <1>1, GetIsConfiguration DEF Locals
<1>3. Append(guards[t], local[t]) \in Seq(Locals) /\ GuardsOK(Get(t), Append(guards[t], local[t]))
  BY <1>1, <1>2, PushedGuards DEF ConfigTypes
<1>4. guards' = [guards EXCEPT ![t] = Append(guards[t], local[t])]
      /\ local' = [local EXCEPT ![t] = Get(t)] /\ global' = global
  BY DEF EnterScope
<1>5. ConfigTypes'
  BY <1>1, <1>2, <1>3, <1>4 DEF ConfigTypes
<1>6. \A u \in Threads : GuardsOK(local'[u], guards'[u])
  BY <1>1, <1>3, <1>4 DEF ScopesInv, ConfigTypes
<1>7. \A u \in Threads : pc'[u] \notin InCase => guards'[u] = <<>>
  BY <1>1, <1>4 DEF ScopesInv, ConfigTypes, At, InCase
<1> QED
  BY <1>5, <1>6, <1>7 DEF ScopesInv

LEMMA LeavingKeeps ==
    ASSUME ScopesInv, NEW t \in Threads, LeaveScope(t), At(t, "running"), UNCHANGED pc
    PROVE  ScopesInv'
<1>1. ConfigTypes /\ GuardsOK(local[t], guards[t])
  BY DEF ScopesInv
<1>2. guards[t] # <<>>
  BY DEF LeaveScope
<1>3. /\ Front(guards[t]) \in Seq(Locals) /\ Last(guards[t]) \in Locals
      /\ GuardsOK(Last(guards[t]), Front(guards[t]))
  BY <1>1, <1>2, PoppedGuards DEF ConfigTypes
<1>4. guards' = [guards EXCEPT ![t] = Front(guards[t])]
      /\ local' = [local EXCEPT ![t] = Last(guards[t])] /\ global' = global
  BY DEF LeaveScope
<1>5. ConfigTypes'
  BY <1>1, <1>3, <1>4 DEF ConfigTypes
<1>6. \A u \in Threads : GuardsOK(local'[u], guards'[u])
  BY <1>1, <1>3, <1>4 DEF ScopesInv, ConfigTypes
<1>7. \A u \in Threads : pc'[u] \notin InCase => guards'[u] = <<>>
  BY <1>1, <1>4 DEF ScopesInv, ConfigTypes, At, InCase
<1> QED
  BY <1>5, <1>6, <1>7 DEF ScopesInv

(***************************************************************************)
(* After a panic no scope is open and none is in force.                    *)
(***************************************************************************)
LEMMA UnwindingKeeps ==
    ASSUME ScopesInv, NEW t \in Threads, Unwind(t), GoTo(t, "next")
    PROVE  ScopesInv'
<1>1. ConfigTypes /\ GuardsOK(local[t], guards[t])
  BY DEF ScopesInv
<1>2. local' = [local EXCEPT ![t] = None]
  <2>1. CASE guards[t] = <<>>
    <3>1. local[t] = None
      BY <1>1, <2>1 DEF GuardsOK
    <3> QED
      BY <1>1, <2>1, <3>1 DEF Unwind, ConfigTypes
  <2>2. CASE guards[t] # <<>>
    <3>1. Head(guards[t]) = None
      BY <1>1, <2>2, PoppedGuards DEF ConfigTypes
    <3> QED
      BY <2>2, <3>1 DEF Unwind
  <2> QED
    BY <2>1, <2>2
<1>3. guards' = [guards EXCEPT ![t] = <<>>] /\ global' = global
      /\ pc' = [pc EXCEPT ![t] = "next"]
  BY DEF Unwind, GoTo
<1>4. None \in Locals /\ <<>> \in Seq(Locals) /\ GuardsOK(None, <<>>)
  BY DEF Locals, GuardsOK
<1>5. ConfigTypes'
  <2>1. local' \in [Threads -> Locals]
    BY <1>1, <1>2, <1>4 DEF ConfigTypes
  <2>2. guards' \in [Threads -> Seq(Locals)]
    BY <1>1, <1>3, <1>4 DEF ConfigTypes
  <2>3. pc' \in [Threads -> Steps]
    BY <1>1, <1>3 DEF ConfigTypes, Steps
  <2>4. global' \in Configurations
    BY <1>1, <1>3 DEF ConfigTypes
  <2> QED
    BY <2>1, <2>2, <2>3, <2>4 DEF ConfigTypes
<1>6. \A u \in Threads : GuardsOK(local'[u], guards'[u])
  <2>1. guards'[t] = <<>>
    BY <1>1, <1>3 DEF ConfigTypes
  <2>3. local'[t] = None
    BY <1>1, <1>2 DEF ConfigTypes
  <2>2. \A u \in Threads : u # t => guards'[u] = guards[u] /\ local'[u] = local[u]
    BY <1>1, <1>2, <1>3 DEF ConfigTypes
  <2> QED
    BY <1>4, <2>1, <2>2, <2>3 DEF ScopesInv
<1>7. \A u \in Threads : pc'[u] \notin InCase => guards'[u] = <<>>
  BY <1>1, <1>3 DEF ScopesInv, ConfigTypes
<1> QED
  BY <1>5, <1>6, <1>7 DEF ScopesInv

-----------------------------------------------------------------------------
LEMMA ScopesInit == Init => ScopesInv
<1> SUFFICES ASSUME Init PROVE ScopesInv
  OBVIOUS
<1>1. Default \in Configurations
  BY DefaultIsConfiguration
<1>2. None \in Locals /\ <<>> \in Seq(Locals) /\ GuardsOK(None, <<>>)
  BY DEF Locals, GuardsOK
<1> QED
  BY <1>1, <1>2 DEF Init, ConfigInit, ScopesInv, ConfigTypes, Steps

(***************************************************************************)
(* Each change that a case makes is an update with a configuration.        *)
(***************************************************************************)
LEMMA ChangesUpdate ==
    ASSUME ScopesInv, NEW t \in Threads, Changes(t)
    PROVE  \E c \in Configurations : Update(t, c)
<1>1. ConfigTypes /\ Get(t) \in Configurations
  BY GetIsConfiguration DEF ScopesInv
<1>2. ASSUME NEW k \in Properties, NEW v \in Values \cup {None}
      PROVE  [Get(t) EXCEPT !.properties[k] = v] \in Configurations
  BY <1>1, <1>2 DEF Configurations, Settings
<1>3. ASSUME NEW p \in Patterns
      PROVE  [Get(t) EXCEPT !.patterns = p] \in Configurations
  BY <1>1, <1>3 DEF Configurations
<1>4. CASE \E k \in Properties : RemoveProperty(t, k)
  BY <1>2, <1>4 DEF RemoveProperty
<1>5. CASE \E k \in Properties : \E v \in Values : SetProperty(t, k, v)
  BY <1>2, <1>5 DEF SetProperty
<1>6. CASE \E p \in OtherPatterns : SetIgnorePatterns(t, p)
  BY <1>3, <1>6 DEF SetIgnorePatterns, Patterns
<1>7. CASE Reset(t)
  BY <1>7, DefaultIsConfiguration DEF Reset
<1> QED
  BY <1>4, <1>5, <1>6, <1>7 DEF Changes

LEMMA KeepLoadedUpdates ==
    ASSUME ScopesInv, NEW t \in Threads, KeepLoaded(t)
    PROVE  \E c \in Configurations : Update(t, c)
<1>1. Get(t) \in Configurations
  BY GetIsConfiguration DEF ScopesInv
<1>2. [Get(t) EXCEPT !.patterns = FilePatterns] \in Configurations
  BY <1>1 DEF Configurations, Patterns
<1> QED
  BY <1>1, <1>2 DEF KeepLoaded

-----------------------------------------------------------------------------
(***************************************************************************)
(* A step of a test that leaves the configuration alone.                   *)
(***************************************************************************)
LEMMA MovingKeeps ==
    ASSUME ScopesInv, NEW t \in Threads, NEW s \in Steps, UNCHANGED configVars, GoTo(t, s),
           s \in InCase \/ pc[t] \notin InCase \/ guards[t] = <<>>
    PROVE  ScopesInv'
<1>1. s \in InCase \/ guards[t] = <<>>
  BY DEF ScopesInv
<1>2. PcOK
  BY <1>1, GoingIsOK
<1> QED
  BY <1>2, OutsideKeeps

LEMMA ScopesStep ==
    ASSUME ScopesInv, [Next]_vars
    PROVE  ScopesInv'
<1> USE DEF Steps, InCase, At
<1>1. ASSUME NEW t \in Threads, NEW m \in Modules, Begin(t, m) PROVE ScopesInv'
  BY <1>1, MovingKeeps DEF Begin
<1>2. ASSUME NEW t \in Threads, GetItems(t) PROVE ScopesInv'
  <2>1. GoTo(t, "next") \/ GoTo(t, "lookup")
    BY <1>2 DEF GetItems, Holds
  <2> QED
    BY <1>2, <2>1, MovingKeeps DEF GetItems, Outside
<1>3. ASSUME NEW t \in Threads, Lookup(t) PROVE ScopesInv'
  <2>1. GoTo(t, "next") \/ GoTo(t, "import")
    BY <1>3 DEF Lookup, Holds
  <2> QED
    BY <1>3, <2>1, MovingKeeps DEF Lookup, Outside
<1>4. ASSUME NEW t \in Threads, Import(t) PROVE ScopesInv'
  BY <1>4, MovingKeeps DEF Import, Outside
<1>5. ASSUME NEW t \in Threads, InsertItems(t) PROVE ScopesInv'
  BY <1>5, MovingKeeps DEF InsertItems, Holds, Outside
<1>6. ASSUME NEW t \in Threads, ImportFails(t) PROVE ScopesInv'
  BY <1>6, MovingKeeps DEF ImportFails
<1>7. ASSUME Clear PROVE ScopesInv'
  BY <1>7, StayingIsOK, OutsideKeeps DEF Clear
<1>8. ASSUME NEW t \in Threads, StartCase(t) PROVE ScopesInv'
  BY <1>8, MovingKeeps DEF StartCase, Outside
<1>9. ASSUME NEW t \in Threads, EndCase(t) PROVE ScopesInv'
  BY <1>9, MovingKeeps DEF EndCase, Outside
<1>10. ASSUME NEW t \in Threads, CasePanics(t) PROVE ScopesInv'
  BY <1>10, UnwindingKeeps DEF CasePanics
<1>11. ASSUME NEW t \in Threads, Report(t) PROVE ScopesInv'
  BY <1>11, MovingKeeps DEF Report, Outside
<1>12. ASSUME NEW t \in Threads, Changes(t) PROVE ScopesInv'
  <2>1. PICK c \in Configurations : Update(t, c)
    BY <1>12, ChangesUpdate
  <2>2. PcOK
    BY <1>12, StayingIsOK DEF Changes
  <2> QED
    BY <2>1, <2>2, UpdatesKeep
<1>13. ASSUME NEW t \in Threads, Enters(t) PROVE ScopesInv'
  BY <1>13, EnteringKeeps DEF Enters
<1>14. ASSUME NEW t \in Threads, Leaves(t) PROVE ScopesInv'
  BY <1>14, LeavingKeeps DEF Leaves
<1>15. ASSUME NEW t \in Threads, BeginEvaluation(t) PROVE ScopesInv'
  BY <1>15, MovingKeeps DEF BeginEvaluation
<1>16. ASSUME NEW t \in Threads, ReadPatterns(t) PROVE ScopesInv'
  <2>1. GoTo(t, "load") \/ GoTo(t, "judge")
    BY <1>16 DEF ReadPatterns
  <2> QED
    BY <1>16, <2>1, MovingKeeps DEF ReadPatterns, Outside
<1>17. ASSUME NEW t \in Threads, LoadPatterns(t) PROVE ScopesInv'
  <2>1. PICK c \in Configurations : Update(t, c)
    BY <1>17, KeepLoadedUpdates DEF LoadPatterns
  <2>2. PcOK
    BY <1>17, GoingIsOK DEF LoadPatterns
  <2> QED
    BY <2>1, <2>2, UpdatesKeep
<1>18. ASSUME NEW t \in Threads, Passes(t) PROVE ScopesInv'
  BY <1>18, MovingKeeps DEF Passes, Outside
<1>19. CASE UNCHANGED vars
  BY <1>19, StayingIsOK, OutsideKeeps DEF vars
<1> QED
  BY <1>1, <1>2, <1>3, <1>4, <1>5, <1>6, <1>7, <1>8, <1>9, <1>10, <1>11, <1>12, <1>13,
     <1>14, <1>15, <1>16, <1>17, <1>18, <1>19 DEF Next, Advance

(***************************************************************************)
(* with_thread_local_scope: a thread has a copy of its own exactly while a *)
(* scope is open, and between cases none is, however scopes nest and       *)
(* wherever a case panics.                                                 *)
(***************************************************************************)
THEOREM ScopesAreClosed == Spec => []ScopesNest
<1>1. ScopesInv => ScopesNest
  <2> SUFFICES ASSUME ScopesInv, NEW t \in Threads
               PROVE  (local[t] = None) <=> (guards[t] = <<>>)
    BY DEF ScopesInv, ScopesNest
  <2>1. GuardsOK(local[t], guards[t]) /\ guards[t] \in Seq(Locals)
    BY DEF ScopesInv, ConfigTypes
  <2> QED
    BY <2>1, EmptySeq DEF GuardsOK
<1>2. ScopesInv /\ [Next]_vars => ScopesInv'
  BY ScopesStep
<1> QED
  BY <1>1, <1>2, ScopesInit, PTL DEF Spec

-----------------------------------------------------------------------------
(***************************************************************************)
(* What ScopesArePrivate says of a step.                                   *)
(***************************************************************************)
PrivateStep ==
    /\ global' # global => local' = local /\ \E t \in Threads : local[t] = None
    /\ \A t, u \in Threads : local'[t] # local[t] /\ local'[u] # local[u] => t = u

LEMMA UntouchedIsPrivate ==
    ASSUME UNCHANGED configVars PROVE PrivateStep
BY DEF configVars, PrivateStep

LEMMA UpdateIsPrivate ==
    ASSUME ScopesInv, NEW t \in Threads, NEW c \in Configurations, Update(t, c)
    PROVE  PrivateStep
<1>1. /\ \A u \in Threads : u # t => local'[u] = local[u]
      /\ global' # global => local' = local /\ local[t] = None
  BY UpdateKeeps DEF ScopesInv
<1> QED
  BY <1>1 DEF PrivateStep

LEMMA ScopeIsPrivate ==
    ASSUME ScopesInv, NEW t \in Threads, EnterScope(t) \/ LeaveScope(t) \/ Unwind(t)
    PROVE  PrivateStep
<1>1. global' = global
  BY DEF EnterScope, LeaveScope, Unwind
<1>2. \A u \in Threads : u # t => local'[u] = local[u]
  BY DEF EnterScope, LeaveScope, Unwind, ScopesInv, ConfigTypes
<1> QED
  BY <1>1, <1>2 DEF PrivateStep

LEMMA StepsArePrivate ==
    ASSUME ScopesInv, [Next]_vars
    PROVE  PrivateStep
<1>1. ASSUME NEW t \in Threads, NEW m \in Modules, Begin(t, m) PROVE PrivateStep
  BY <1>1, UntouchedIsPrivate DEF Begin
<1>2. ASSUME NEW t \in Threads,
             \/ GetItems(t) \/ Lookup(t) \/ Import(t) \/ InsertItems(t)
             \/ StartCase(t) \/ EndCase(t) \/ Report(t) \/ ReadPatterns(t) \/ Passes(t)
      PROVE  PrivateStep
  <2>1. UNCHANGED configVars
    BY <1>2 DEF GetItems, Lookup, Import, InsertItems, StartCase, EndCase, Report,
                ReadPatterns, Passes, Outside
  <2> QED
    BY <2>1, UntouchedIsPrivate
<1>3. ASSUME NEW t \in Threads, ImportFails(t) \/ BeginEvaluation(t) PROVE PrivateStep
  BY <1>3, UntouchedIsPrivate DEF ImportFails, BeginEvaluation
<1>4. ASSUME NEW t \in Threads, Changes(t) PROVE PrivateStep
  BY <1>4, ChangesUpdate, UpdateIsPrivate
<1>5. ASSUME NEW t \in Threads, LoadPatterns(t) PROVE PrivateStep
  BY <1>5, KeepLoadedUpdates, UpdateIsPrivate DEF LoadPatterns
<1>6. ASSUME NEW t \in Threads, Enters(t) \/ Leaves(t) \/ CasePanics(t) PROVE PrivateStep
  BY <1>6, ScopeIsPrivate DEF Enters, Leaves, CasePanics
<1>7. CASE Clear \/ UNCHANGED vars
  BY <1>7, UntouchedIsPrivate DEF Clear, vars
<1> QED
  BY <1>1, <1>2, <1>3, <1>4, <1>5, <1>6, <1>7 DEF Next, Advance

(***************************************************************************)
(* Whatever cases do in scopes and outside, a step changes what one thread *)
(* has in its scope or the global configuration, never both, and the       *)
(* latter only while a thread is outside of scopes ("changes made inside   *)
(* do not leak out").                                                      *)
(***************************************************************************)
THEOREM ScopesStayPrivate == Spec => ScopesArePrivate
<1>1. ScopesInv /\ [Next]_vars => ScopesInv'
  BY ScopesStep
<1>2. ScopesInv /\ [Next]_vars => [PrivateStep]_vars
  BY StepsArePrivate
<1>3. Spec => [][PrivateStep]_vars
  BY <1>1, <1>2, ScopesInit, PTL DEF Spec
<1> QED
  BY <1>3, PTL DEF ScopesArePrivate, PrivateStep

-----------------------------------------------------------------------------
(***************************************************************************)
(* What evaluations read of the configuration and leave in it, for any     *)
(* number of threads and any changes by others: one in a scope reads it    *)
(* several times and gets the same, and patterns that one loads overwrite  *)
(* nobody's.                                                               *)
(***************************************************************************)
IsSeen(seen) == seen = [empty |-> seen.empty, patterns |-> seen.patterns]

(***************************************************************************)
(* What an evaluation in a scope has seen so far is what the scope has;    *)
(* patterns are loaded only where there still are none.                    *)
(***************************************************************************)
EvaluationOK(t) ==
    /\ IsSeen(test[t].seen)
    /\ local[t] # None =>
          /\ pc[t] \in {"patterns", "load", "judge"} =>
                test[t].seen.empty = Property(local[t], FailOnEmpty)
          /\ pc[t] = "load" => local[t].patterns = None
          /\ pc[t] = "judge" => test[t].seen.patterns = InForce(local[t])

EvaluationInv == ImportInv /\ ScopesInv /\ \A t \in Threads : EvaluationOK(t)

-----------------------------------------------------------------------------
(***************************************************************************)
(* A step of one thread leaves the test and the scope of another alone.    *)
(***************************************************************************)
LEMMA UpdateIsOwn ==
    ASSUME ConfigTypes, NEW t \in Threads, NEW c, Update(t, c), NEW u \in Threads, u # t
    PROVE  local'[u] = local[u]
BY DEF Update, ConfigTypes

LEMMA ScopeIsOwn ==
    ASSUME ConfigTypes, NEW t \in Threads, EnterScope(t) \/ LeaveScope(t) \/ Unwind(t),
           NEW u \in Threads, u # t
    PROVE  local'[u] = local[u]
BY DEF EnterScope, LeaveScope, Unwind, ConfigTypes

LEMMA StepIsOwn ==
    ASSUME EvaluationInv, NEW t \in Threads,
           Advance(t) \/ \E m \in Modules : Begin(t, m), NEW u \in Threads, u # t
    PROVE  pc'[u] = pc[u] /\ test'[u] = test[u] /\ local'[u] = local[u]
<1>0. /\ ConfigTypes /\ ScopesInv /\ pc \in [Threads -> Steps]
      /\ test = [s \in Threads |-> test[s]]
  BY DEF EvaluationInv, ScopesInv, ImportInv, ConfigTypes
<1>1. ASSUME NEW m \in Modules, Begin(t, m)
      PROVE  pc'[u] = pc[u] /\ test'[u] = test[u] /\ local'[u] = local[u]
  BY <1>0, <1>1 DEF Begin, GoTo, configVars
<1>2. ASSUME \/ GetItems(t) \/ Lookup(t) \/ Import(t) \/ InsertItems(t) \/ ImportFails(t)
             \/ StartCase(t) \/ EndCase(t) \/ Report(t)
             \/ BeginEvaluation(t) \/ ReadPatterns(t) \/ Passes(t)
      PROVE  pc'[u] = pc[u] /\ test'[u] = test[u] /\ local'[u] = local[u]
  <2>1. local' = local
    BY <1>2 DEF GetItems, Lookup, Import, InsertItems, ImportFails, StartCase, EndCase, Report,
                BeginEvaluation, ReadPatterns, Passes, Outside, configVars
  <2>2. pc'[u] = pc[u]
    BY <1>0, <1>2 DEF GetItems, Lookup, Import, InsertItems, ImportFails, StartCase, EndCase,
                      Report, BeginEvaluation, ReadPatterns, Passes, GoTo, Holds
  <2>3. test'[u] = test[u]
    BY <1>0, <1>2 DEF GetItems, Lookup, Import, InsertItems, ImportFails, StartCase, EndCase,
                      Report, BeginEvaluation, ReadPatterns, Passes, Holds
  <2> QED
    BY <2>1, <2>2, <2>3
<1>3. ASSUME CasePanics(t)
      PROVE  pc'[u] = pc[u] /\ test'[u] = test[u] /\ local'[u] = local[u]
  BY <1>0, <1>3, ScopeIsOwn DEF CasePanics, GoTo
<1>4. ASSUME Changes(t)
      PROVE  pc'[u] = pc[u] /\ test'[u] = test[u] /\ local'[u] = local[u]
  <2>1. PICK c \in Configurations : Update(t, c)
    BY <1>0, <1>4, ChangesUpdate
  <2> QED
    BY <1>0, <1>4, <2>1, UpdateIsOwn DEF Changes
<1>5. ASSUME Enters(t) \/ Leaves(t)
      PROVE  pc'[u] = pc[u] /\ test'[u] = test[u] /\ local'[u] = local[u]
  BY <1>0, <1>5, ScopeIsOwn DEF Enters, Leaves
<1>6. ASSUME LoadPatterns(t)
      PROVE  pc'[u] = pc[u] /\ test'[u] = test[u] /\ local'[u] = local[u]
  <2>1. local'[u] = local[u]
    BY <1>0, <1>6, UpdateIsOwn DEF LoadPatterns, KeepLoaded
  <2> QED
    BY <1>0, <1>6, <2>1 DEF LoadPatterns, GoTo
<1> QED
  BY <1>1, <1>2, <1>3, <1>4, <1>5, <1>6 DEF Advance

-----------------------------------------------------------------------------
(***************************************************************************)
(* A step that ends outside of an evaluation has only to leave a `seen`.   *)
(***************************************************************************)
LEMMA OutsideIsOK ==
    ASSUME NEW t, pc'[t] \notin {"patterns", "load", "judge"}, IsSeen(test[t].seen)'
    PROVE  EvaluationOK(t)'
BY DEF EvaluationOK

LEMMA OwnStepIsOK ==
    ASSUME EvaluationInv, NEW t \in Threads, Advance(t) \/ \E m \in Modules : Begin(t, m)
    PROVE  EvaluationOK(t)'
<1>0. /\ ConfigTypes /\ ScopesInv /\ pc \in [Threads -> Steps]
      /\ test = [s \in Threads |-> test[s]] /\ IsTest(test[t])
      /\ EvaluationOK(t) /\ IsSeen(test[t].seen)
  BY DEF EvaluationInv, ScopesInv, ImportInv, ConfigTypes, TestOK, EvaluationOK
<1>1. IsSeen(NothingSeen) /\ NoTest.seen = NothingSeen
  BY DEF IsSeen, NothingSeen, NoTest
<1>2. ASSUME NEW m \in Modules, Begin(t, m) PROVE EvaluationOK(t)'
  <2>1. test'[t] = [NoTest EXCEPT !.module = m] /\ pc'[t] = "items"
    BY <1>0, <1>2 DEF Begin, GoTo
  <2>2. test'[t].seen = NothingSeen
    BY <2>1 DEF NoTest
  <2> QED
    BY <1>1, <2>1, <2>2, OutsideIsOK DEF IsSeen
<1>3. ASSUME ImportFails(t) \/ Report(t) PROVE EvaluationOK(t)'
  <2>1. test'[t] = NoTest /\ pc'[t] = "idle"
    BY <1>0, <1>3 DEF ImportFails, Report, GoTo
  <2> QED
    BY <1>1, <2>1, OutsideIsOK DEF IsSeen
<1>4. ASSUME GetItems(t) \/ Lookup(t) \/ Import(t) \/ InsertItems(t) \/ StartCase(t)
      PROVE  EvaluationOK(t)'
  <2>1. pc'[t] \in {"next", "lookup", "import", "insert", "running"}
    BY <1>0, <1>4 DEF GetItems, Lookup, Import, InsertItems, StartCase, GoTo, Holds
  <2>2. \/ test'[t] = test[t]
        \/ \E i : test'[t] = [test[t] EXCEPT !.items = i]
        \/ \E c : test'[t] = [test[t] EXCEPT !.case = c]
    BY <1>0, <1>4 DEF GetItems, Lookup, Import, InsertItems, StartCase, Holds
  <2>3. test'[t].seen = test[t].seen
    BY <1>0, <2>2 DEF IsTest
  <2> QED
    BY <1>0, <2>1, <2>3, OutsideIsOK DEF IsSeen
<1>5. ASSUME EndCase(t) \/ CasePanics(t) \/ Passes(t) PROVE EvaluationOK(t)'
  <2>1. pc'[t] \in {"next", "running"}
    BY <1>0, <1>5 DEF EndCase, CasePanics, Passes, GoTo
  <2>2. test'[t].seen = NothingSeen
    <3>1. PICK q : q = [test[t] EXCEPT !.failures = Append(test[t].failures, test[t].case)]
      OBVIOUS
    <3>2. IsTest(q)
      BY <1>0, <3>1 DEF IsTest
    <3>3. test'[t] = [q EXCEPT !.seen = NothingSeen] \/ test'[t] = [test[t] EXCEPT !.seen = NothingSeen]
      BY <1>0, <1>5, <3>1 DEF EndCase, CasePanics, Passes
    <3> QED
      BY <1>0, <3>2, <3>3 DEF IsTest
  <2> QED
    BY <1>1, <2>1, <2>2, OutsideIsOK DEF IsSeen
<1>6. ASSUME Changes(t) \/ Enters(t) \/ Leaves(t) PROVE EvaluationOK(t)'
  <2>1. pc'[t] = "running" /\ test'[t] = test[t]
    BY <1>6 DEF Changes, Enters, Leaves, At
  <2> QED
    BY <1>0, <2>1, OutsideIsOK DEF IsSeen
<1>7. ASSUME BeginEvaluation(t) PROVE EvaluationOK(t)'
  <2>1. PICK n : n = [test[t].seen EXCEPT !.empty = Property(Get(t), FailOnEmpty)]
    OBVIOUS
  <2>2. IsSeen(n) /\ n.empty = Property(Get(t), FailOnEmpty)
    BY <1>0, <2>1 DEF IsSeen
  <2>3. test'[t] = [test[t] EXCEPT !.seen = n] /\ pc'[t] = "patterns" /\ local' = local
    BY <1>0, <1>7, <2>1 DEF BeginEvaluation, GoTo, configVars
  <2>4. test'[t].seen = n
    BY <1>0, <2>3 DEF IsTest
  <2> QED
    BY <2>2, <2>3, <2>4 DEF EvaluationOK, IsSeen, Property, Get
<1>8. ASSUME ReadPatterns(t) PROVE EvaluationOK(t)'
  <2>0. local' = local /\ pc[t] = "patterns"
    BY <1>8 DEF ReadPatterns, At, Outside, configVars
  <2>1. CASE Get(t).patterns = None /\ GoTo(t, "load") /\ UNCHANGED test
    <3>1. pc'[t] = "load" /\ test'[t] = test[t]
      BY <1>0, <2>1 DEF GoTo
    <3> QED
      BY <1>0, <2>0, <2>1, <3>1 DEF EvaluationOK, IsSeen, Property, Get
  <2>2. CASE /\ Get(t).patterns # None /\ GoTo(t, "judge")
             /\ test' = [test EXCEPT ![t].seen.patterns = Get(t).patterns]
    <3>1. PICK n : n = [test[t].seen EXCEPT !.patterns = Get(t).patterns]
      OBVIOUS
    <3>2. IsSeen(n) /\ n.empty = test[t].seen.empty /\ n.patterns = Get(t).patterns
      BY <1>0, <3>1 DEF IsSeen
    <3>3. test'[t] = [test[t] EXCEPT !.seen = n] /\ pc'[t] = "judge"
      BY <1>0, <2>2, <3>1 DEF GoTo
    <3>4. test'[t].seen = n
      BY <1>0, <3>3 DEF IsTest
    <3> QED
      BY <1>0, <2>0, <2>2, <3>2, <3>3, <3>4 DEF EvaluationOK, IsSeen, Property, Get, InForce
  <2> QED
    BY <1>8, <2>1, <2>2 DEF ReadPatterns
<1>9. ASSUME LoadPatterns(t) PROVE EvaluationOK(t)'
  <2>1. PICK n : n = [test[t].seen EXCEPT !.patterns = FilePatterns]
    OBVIOUS
  <2>2. IsSeen(n) /\ n.empty = test[t].seen.empty /\ n.patterns = FilePatterns
    BY <1>0, <2>1 DEF IsSeen
  <2>3. test'[t] = [test[t] EXCEPT !.seen = n] /\ pc'[t] = "judge" /\ pc[t] = "load"
    BY <1>0, <1>9, <2>1 DEF LoadPatterns, GoTo, At
  <2>4. test'[t].seen = n
    BY <1>0, <2>3 DEF IsTest
  <2>5. CASE local[t] = None
    <3>1. local'[t] = None
      BY <1>9, <2>5 DEF LoadPatterns, KeepLoaded, Update
    <3> QED
      BY <2>2, <2>4, <3>1 DEF EvaluationOK, IsSeen
  <2>6. CASE local[t] # None
    <3>1. local[t] \in Configurations /\ local[t].patterns = None
      BY <1>0, <2>3, <2>6 DEF ConfigTypes, Locals, EvaluationOK
    <3>2. local'[t] = [local[t] EXCEPT !.patterns = FilePatterns]
      BY <1>0, <1>9, <2>6, <3>1 DEF LoadPatterns, KeepLoaded, Update, Get, ConfigTypes
    <3>3. local'[t].patterns = FilePatterns /\ local'[t].properties = local[t].properties
      BY <3>1, <3>2 DEF Configurations
    <3>4. FilePatterns # None
      BY ConfigurationAssumption DEF Patterns
    <3> QED
      BY <1>0, <2>2, <2>3, <2>4, <2>6, <3>3, <3>4
      DEF EvaluationOK, IsSeen, Property, InForce
  <2> QED
    BY <2>5, <2>6
<1> QED
  BY <1>2, <1>3, <1>4, <1>5, <1>6, <1>7, <1>8, <1>9 DEF Advance

LEMMA EvaluationStep == EvaluationInv /\ [Next]_vars => EvaluationInv'
<1> SUFFICES ASSUME EvaluationInv, [Next]_vars PROVE EvaluationInv'
  OBVIOUS
<1>1. ImportInv' /\ ScopesInv'
  BY ImportStep, ScopesStep DEF EvaluationInv
<1>2. ASSUME UNCHANGED <<pc, test, local>>, NEW t \in Threads PROVE EvaluationOK(t)'
  BY <1>2 DEF EvaluationInv, EvaluationOK, IsSeen, Property, InForce
<1>3. ASSUME NEW t \in Threads, Advance(t) \/ \E m \in Modules : Begin(t, m), NEW u \in Threads
      PROVE  EvaluationOK(u)'
  <2>1. CASE u = t
    BY <1>3, <2>1, OwnStepIsOK
  <2>2. CASE u # t
    <3>1. pc'[u] = pc[u] /\ test'[u] = test[u] /\ local'[u] = local[u]
      BY <1>3, <2>2, StepIsOwn
    <3> QED
      BY <3>1 DEF EvaluationInv, EvaluationOK, IsSeen, Property, InForce
  <2> QED
    BY <2>1, <2>2
<1>4. CASE Clear \/ UNCHANGED vars
  <2>1. UNCHANGED <<pc, test, local>>
    BY <1>4 DEF Clear, vars, configVars
  <2> QED
    BY <1>1, <1>2, <2>1 DEF EvaluationInv
<1> QED
  BY <1>1, <1>3, <1>4 DEF EvaluationInv, Next

LEMMA EvaluationInit == Init => EvaluationInv
<1> SUFFICES ASSUME Init PROVE \A t \in Threads : EvaluationOK(t)
  BY ImportInit, ScopesInit DEF EvaluationInv
<1> QED
  BY DEF Init, ConfigInit, EvaluationOK, IsSeen, NoTest, NothingSeen

(***************************************************************************)
(* An evaluation in a scope uses one configuration: the property it read   *)
(* first and the patterns it read or loaded last are those of the scope.   *)
(***************************************************************************)
THEOREM ScopedEvaluationsAreOne == Spec => []ScopedEvaluationIsOne
<1>1. EvaluationInv => ScopedEvaluationIsOne
  BY DEF EvaluationInv, EvaluationOK, ScopedEvaluationIsOne, At
<1> QED
  BY <1>1, EvaluationInit, EvaluationStep, PTL DEF Spec

-----------------------------------------------------------------------------
(***************************************************************************)
(* Keeping what was loaded changes no configuration that has patterns.     *)
(***************************************************************************)
LEMMA LoadedIsKeptForOwn ==
    ASSUME ConfigTypes, NEW t \in Threads, KeepLoaded(t),
           NEW u \in Threads, Get(u).patterns # None
    PROVE  Get(u)'.patterns = Get(u).patterns
<1>1. CASE Get(t).patterns # None
  <2>1. Update(t, Get(t))
    BY <1>1 DEF KeepLoaded
  <2>2. Get(u)' = Get(u)
    BY <2>1 DEF Update, Get, ConfigTypes
  <2> QED
    BY <2>2
<1>2. CASE Get(t).patterns = None
  <2>1. PICK c : Update(t, c)
    BY DEF KeepLoaded
  <2>2. CASE local[t] # None
    <3>1. u # t
      BY <1>2
    <3>2. Get(u)' = Get(u)
      BY <2>1, <2>2, <3>1 DEF Update, Get, ConfigTypes
    <3> QED
      BY <3>2
  <2>3. CASE local[t] = None
    <3>1. local[u] # None
      BY <1>2, <2>3 DEF Get
    <3>2. local' = local
      BY <2>1, <2>3 DEF Update
    <3> QED
      BY <3>1, <3>2 DEF Get
  <2> QED
    BY <2>2, <2>3
<1> QED
  BY <1>1, <1>2

(***************************************************************************)
(* What LoadingKeepsPatterns says of a step.                               *)
(***************************************************************************)
KeepingStep ==
    \A t, u \in Threads :
        At(t, "load") /\ pc'[t] = "judge" /\ Get(u).patterns # None =>
            Get(u)'.patterns = Get(u).patterns

LEMMA StepsKeepPatterns == EvaluationInv /\ [Next]_vars => KeepingStep
<1> SUFFICES ASSUME EvaluationInv, [Next]_vars, NEW t \in Threads, NEW u \in Threads,
                    pc[t] = "load", pc'[t] = "judge", Get(u).patterns # None
             PROVE  Get(u)'.patterns = Get(u).patterns
  BY DEF KeepingStep, At
<1>1. ConfigTypes /\ pc \in [Threads -> Steps]
  BY DEF EvaluationInv, ScopesInv, ConfigTypes
<1>2. PICK s \in Threads : Advance(s) \/ \E m \in Modules : Begin(s, m)
  BY DEF Next, vars, Clear
<1>3. s = t
  BY <1>2, StepIsOwn
<1>4. LoadPatterns(t)
  BY <1>1, <1>2, <1>3
  DEF Advance, Begin, GetItems, Lookup, Import, InsertItems, ImportFails, StartCase, EndCase,
      CasePanics, Report, Changes, Enters, Leaves, BeginEvaluation, ReadPatterns, Passes, At
<1> QED
  BY <1>1, <1>4, LoadedIsKeptForOwn DEF LoadPatterns

(***************************************************************************)
(* Patterns in force for a thread are never overwritten by what another,   *)
(* or it, loads late.                                                      *)
(***************************************************************************)
THEOREM LoadedPatternsOverwriteNone == Spec => LoadingKeepsPatterns
<1>1. EvaluationInv /\ [Next]_vars => [KeepingStep]_vars
  BY StepsKeepPatterns
<1>2. Spec => [][KeepingStep]_vars
  BY <1>1, EvaluationInit, EvaluationStep, PTL DEF Spec
<1> QED
  BY <1>2, PTL DEF LoadingKeepsPatterns, KeepingStep
=============================================================================
