----------------------------- MODULE ImportCache -----------------------------
(***************************************************************************)
(* The imports of a test process: the CACHE of src/src/harness/mod.rs and  *)
(* the OnceLock that #[analyze_classes] gives each test module             *)
(* (src/archunit-macros/src/lib.rs).  Tests of a module without the        *)
(* attribute import for themselves, each time through the cache.           *)
(*                                                                         *)
(* An import is known by its number; `imports` records whose it was.       *)
(***************************************************************************)
EXTENDS Naturals, SequencesExt

CONSTANTS
    Modules,        \* the test modules
    Keys,           \* import configurations (CacheKey)
    KeyOf,          \* [Modules -> Keys]
    Provided,       \* the modules with #[analyze_classes]
    PerClass,       \* the modules with CacheMode::PerClass, others have Forever
    NoThread

ASSUME CacheAssumption ==
    /\ KeyOf \in [Modules -> Keys]
    /\ Provided \subseteq Modules
    /\ PerClass \subseteq Provided

VARIABLES
    cache,          \* CACHE: a key's import, 0 without one
    items,          \* ITEMS of each module: its import, 0 before one
    initializing,   \* the thread that runs get_or_init of the module
    imports         \* the imports so far: the module that asked for each

cacheVars == <<cache, items, initializing, imports>>

CacheInit ==
    /\ cache = [k \in Keys |-> 0]
    /\ items = [m \in Modules |-> 0]
    /\ initializing = [m \in Modules |-> NoThread]
    /\ imports = <<>>

Cached(m) == IF m \in PerClass THEN 0 ELSE cache[KeyOf[m]]

\* Mutant of ClaimItems: a module is initialized by several threads at once.
ClaimItemsUnlocked(t, m) ==
    /\ items[m] = 0
    /\ initializing' = [initializing EXCEPT ![m] = t]
    /\ UNCHANGED <<cache, items, imports>>

(***************************************************************************)
(* get_or_init runs the import in one thread; others wait for it.          *)
(***************************************************************************)
ClaimItems(t, m) ==
    /\ items[m] = 0
    /\ initializing[m] = NoThread
    /\ initializing' = [initializing EXCEPT ![m] = t]
    /\ UNCHANGED <<cache, items, imports>>

\* The import is over: it becomes the items of a module that has ITEMS.
ItemsAre(m, i) ==
    /\ items' = IF m \in Provided THEN [items EXCEPT ![m] = i] ELSE items
    /\ initializing' = [initializing EXCEPT ![m] = NoThread]

(***************************************************************************)
(* import: look up, import without the lock, insert.                       *)
(***************************************************************************)
UseCached(m) ==
    /\ Cached(m) # 0
    /\ ItemsAre(m, Cached(m))
    /\ UNCHANGED <<cache, imports>>

ImportUncached(m) ==
    /\ imports' = Append(imports, m)
    /\ UNCHANGED <<cache, items, initializing>>

\* Mutant of Insert: the cache mode is forgotten on the way.
InsertAlways(m, i) ==
    /\ cache' = [cache EXCEPT ![KeyOf[m]] = i]
    /\ ItemsAre(m, i)
    /\ UNCHANGED imports

Insert(m, i) ==
    /\ cache' = IF m \in PerClass THEN cache ELSE [cache EXCEPT ![KeyOf[m]] = i]
    /\ ItemsAre(m, i)
    /\ UNCHANGED imports

\* Mutant of GiveUp: the module stays claimed by the thread that panicked.
KeepClaim(m) == UNCHANGED cacheVars

\* A panic in get_or_init leaves the OnceLock as it was; another thread may try.
GiveUp(m) ==
    /\ initializing' = [initializing EXCEPT ![m] = NoThread]
    /\ UNCHANGED <<cache, items, imports>>

ClearCache ==
    /\ cache' = [k \in Keys |-> 0]
    /\ UNCHANGED <<items, initializing, imports>>
=============================================================================
