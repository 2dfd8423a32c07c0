---------------------------- MODULE Configuration ----------------------------
(***************************************************************************)
(* ArchConfiguration (src/src/config.rs): one global configuration behind  *)
(* a lock and, in a scope, a copy of it for the thread.                    *)
(*                                                                         *)
(* with_thread_local_scope runs a closure; the guard that restores what    *)
(* was there before it lives on the call stack, so `guards[t]` is the part *)
(* of the call stack of t that matters here.                               *)
(***************************************************************************)
EXTENDS SequencesExt

CONSTANTS
    Threads,
    Properties,     \* names of properties
    Values,         \* their values
    FileProperties, \* [Properties -> Values \cup {None}]: archunit.toml
    Environment,    \* [Properties -> Values \cup {None}]: ARCHUNIT_...
    FilePatterns,   \* the patterns in archunit_ignore_patterns.txt
    OtherPatterns,  \* patterns a program may set
    None

Settings == [Properties -> Values \cup {None}]
Patterns == {FilePatterns} \cup OtherPatterns
Configurations == [properties : Settings, patterns : Patterns \cup {None}]

ASSUME ConfigurationAssumption ==
    /\ FileProperties \in Settings
    /\ Environment \in Settings
    /\ None \notin Values \cup Patterns \cup Configurations

VARIABLES
    global,     \* GLOBAL
    local,      \* THREAD_LOCAL of each thread: a configuration or None
    guards      \* of each thread, what the guards of its open scopes restore

configVars == <<global, local, guards>>

Default == [properties |-> FileProperties, patterns |-> None]

ConfigInit ==
    /\ global = Default
    /\ local = [t \in Threads |-> None]
    /\ guards = [t \in Threads |-> <<>>]

\* Mutant of Get: the global configuration goes before that of the scope.
GetGlobal(t) == global

(***************************************************************************)
(* get: a copy of what is in force for the thread.                         *)
(***************************************************************************)
Get(t) == IF local[t] # None THEN local[t] ELSE global

\* property: the environment takes precedence.
Property(config, k) ==
    IF Environment[k] # None THEN Environment[k] ELSE config.properties[k]

\* Mutant of Update: the global configuration is changed in a scope as well.
UpdateEverywhere(t, config) ==
    /\ local' = IF local[t] # None THEN [local EXCEPT ![t] = config] ELSE local
    /\ global' = config
    /\ UNCHANGED guards

(***************************************************************************)
(* update(f), for config = f(Get(t)): it changes the copy of the thread or *)
(* else the global one, in one step (under the lock).                      *)
(***************************************************************************)
Update(t, config) ==
    /\ \/ /\ local[t] # None
          /\ local' = [local EXCEPT ![t] = config]
          /\ UNCHANGED global
       \/ /\ local[t] = None
          /\ global' = config
          /\ UNCHANGED local
    /\ UNCHANGED guards

SetProperty(t, k, v) == Update(t, [Get(t) EXCEPT !.properties[k] = v])
RemoveProperty(t, k) == Update(t, [Get(t) EXCEPT !.properties[k] = None])
SetIgnorePatterns(t, p) == Update(t, [Get(t) EXCEPT !.patterns = p])
Reset(t) == Update(t, Default)

EnterScope(t) ==
    /\ guards' = [guards EXCEPT ![t] = Append(@, local[t])]
    /\ local' = [local EXCEPT ![t] = Get(t)]
    /\ UNCHANGED global

\* Mutant of LeaveScope: the end of an inner scope ends the outer one.
LeaveAllScopes(t) ==
    /\ guards[t] # <<>>
    /\ local' = [local EXCEPT ![t] = None]
    /\ guards' = [guards EXCEPT ![t] = Front(@)]
    /\ UNCHANGED global

(***************************************************************************)
(* The guard of the innermost scope is dropped.                            *)
(***************************************************************************)
LeaveScope(t) ==
    /\ guards[t] # <<>>
    /\ local' = [local EXCEPT ![t] = Last(guards[t])]
    /\ guards' = [guards EXCEPT ![t] = Front(@)]
    /\ UNCHANGED global

(***************************************************************************)
(* A panic drops the guards of all open scopes, innermost first.           *)
(***************************************************************************)
Unwind(t) ==
    /\ local' = [local EXCEPT ![t] = IF guards[t] = <<>> THEN @ ELSE Head(guards[t])]
    /\ guards' = [guards EXCEPT ![t] = <<>>]
    /\ UNCHANGED global

\* Mutant of KeepLoaded: patterns that were set meanwhile are overwritten.
KeepLoadedAlways(t) == Update(t, [Get(t) EXCEPT !.patterns = FilePatterns])

(***************************************************************************)
(* The end of ignore_patterns on a copy without patterns: what was loaded  *)
(* is kept unless there are patterns by now.                               *)
(***************************************************************************)
KeepLoaded(t) ==
    Update(t, IF Get(t).patterns = None THEN [Get(t) EXCEPT !.patterns = FilePatterns]
              ELSE Get(t))

\* The patterns a copy stands for.
InForce(config) == IF config.patterns = None THEN FilePatterns ELSE config.patterns
=============================================================================
