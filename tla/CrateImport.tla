----------------------------- MODULE CrateImport -----------------------------
(***************************************************************************)
(* The import of a crate, src/src/core/importer/parse.rs and build.rs: the *)
(* declarations, the use declarations to a fixpoint, the signatures, the   *)
(* bodies, and the dependencies of all of it.                              *)
(*                                                                         *)
(* A program has at least [roots, tests]: the keys of its crates, and      *)
(* whether test code is imported.  Text(p, key) is what a key of program p *)
(* declares; the items of a module come in the order of its text.  Reading *)
(* files is left out: a module says whether it has a file of its own.      *)
(***************************************************************************)
EXTENDS BodyVisitor

CONSTANTS Programs, Text(_, _)

VARIABLES
    program,
    phase,      \* "declare", "uses", "signatures", "bodies", "dependencies", "done"
    agenda,     \* what is still to be declared, in order
    at,         \* the next of the list at hand: [scope, entry] for uses
    progress,   \* a use declaration was resolved in this round
    b           \* the builder

vars == <<program, phase, agenda, at, progress, b>>

Decl(key) == Text(program, key)

NewBuilder ==
    [items |-> <<>>, scopes |-> <<>>, scopeOrder |-> <<>>, variants |-> {}, imports |-> {},
     pending |-> <<>>, traits |-> <<>>, supers |-> <<>>, bounds |-> <<>>, alias |-> <<>>,
     type |-> <<>>, impl |-> <<>>, members |-> <<>>, bodies |-> <<>>, annotated |-> {},
     invocations |-> {}, accesses |-> {}, references |-> {}, dependencies |-> {}]

Start == [scope |-> 1, entry |-> 1]

(***************************************************************************)
(* Work to declare: a key, and where it is met.                            *)
(***************************************************************************)
Work(key, module, root, scope, test) ==
    [key |-> key, module |-> module, root |-> root, scope |-> scope, test |-> test]

Init ==
    /\ program \in Programs
    /\ phase = "declare"
    /\ agenda = [k \in DOMAIN program.roots |-> Work(program.roots[k], None, None, None, FALSE)]
    /\ at = Start
    /\ progress = FALSE
    /\ b = NewBuilder

-----------------------------------------------------------------------------
(***************************************************************************)
(* walk_file and walk_items: is a module test code, and is it left out?  A *)
(* file is asked about before it is read, and again for its inner          *)
(* attributes.                                                             *)
(***************************************************************************)
Included(test) == test => program.tests

ModuleIsTest(d, parent) == parent \/ d.test \/ (d.file /\ (d.testFile \/ d.inner))

ModuleIncluded(d, parent) == Included(ModuleIsTest(d, parent))

(***************************************************************************)
(* declare_item: an item of a module that is not test code is left out     *)
(* when it is test code itself.                                            *)
(***************************************************************************)
ItemIncluded(d, parent) == parent \/ Included(d.test)

(***************************************************************************)
(* The next piece of work `w`, with its declaration `d`.                   *)
(***************************************************************************)
Left(d, parent) ==
    IF d.kind = "module" THEN ~ModuleIncluded(d, parent) ELSE ~ItemIncluded(d, parent)

Meet == /\ phase = "declare"
        /\ agenda # <<>>
        /\ UNCHANGED <<program, phase, at, progress>>

Upcoming == Head(agenda)
Met == {Decl(Upcoming.key)}

SkipTestCode ==
    /\ Meet
    /\ \E d \in Met : Left(d, Upcoming.test)
    /\ agenda' = Tail(agenda)
    /\ UNCHANGED b

AddScope(builder, s, scope) ==
    [builder EXCEPT !.scopes = Said(@, s, scope), !.scopeOrder = Append(@, s)]

AddItem(builder, i, d, module, root, home, scope) ==
    [builder EXCEPT !.items = Said(@, i, [kind |-> d.kind, name |-> d.name, package |-> module,
                                          root |-> root, tuple |-> d.tuple, home |-> home]),
                    !.pending = Append(@, [item |-> i, scope |-> scope])]

(***************************************************************************)
(* declare_crate, declare_module_contents: the items of a module, then its *)
(* child modules.                                                          *)
(***************************************************************************)
DeclareModule ==
    /\ Meet
    /\ \E d \in Met, w \in {Upcoming} :
       /\ d.kind = "module" /\ ~Left(d, w.test)
       /\ LET i == <<w.key>>
              root == IF w.root = None THEN i ELSE w.root
              IsModule(key) == Decl(key).kind = "module"
              Contents(modules) == SelectSeq(d.items, LAMBDA k : IsModule(k) = modules)
              added == AddScope(AddItem(b, i, d, w.module, root, w.scope, i), i, NewScope(i, root, None))
          IN  /\ b' = IF w.scope = None THEN added ELSE Bind(added, w.scope, d.name, Item(i))
              /\ agenda' = [k \in DOMAIN d.items |->
                               Work((Contents(FALSE) \o Contents(TRUE))[k], i, root, i, ModuleIsTest(d, w.test))]
                           \o Tail(agenda)

DeclareUse ==
    /\ Meet
    /\ \E d \in Met :
        /\ d.kind = "use" /\ ~Left(d, Upcoming.test)
        /\ b' = [b EXCEPT !.scopes[Upcoming.scope].uses = @ \o UseEntries(d.tree, d.prefix)]
    /\ agenda' = Tail(agenda)

DeclareInvocation ==
    /\ Meet
    /\ \E d \in Met, w \in {Upcoming} :
        /\ d.kind = "invoke" /\ ~Left(d, w.test)
        /\ b' = [b EXCEPT !.invocations = @ \cup
                    {[module |-> w.module, path |-> d.path, scope |-> w.scope]}]
    /\ agenda' = Tail(agenda)

(***************************************************************************)
(* Items in the bodies of an item get a block scope; `use` declarations    *)
(* there are not collected.                                                *)
(***************************************************************************)
DeclareItem ==
    /\ Meet
    /\ \E d \in Met, w \in {Upcoming} :
       /\ d.kind \notin {"module", "use", "invoke"} /\ ~Left(d, w.test)
       /\ LET i == <<w.key>>
              IsUse(key) == Decl(key).kind = "use"
              locals == SelectSeq(d.locals, LAMBDA k : ~IsUse(k))
              scoped == locals # <<>>
              added == AddItem(b, i, d, w.module, w.root, w.scope, IF scoped THEN i ELSE w.scope)
              bound == IF d.kind = "impl" THEN added ELSE Bind(added, w.scope, d.name, Item(i))
          IN  /\ b' = IF scoped THEN AddScope(bound, i, NewScope(w.module, w.root, w.scope)) ELSE bound
              /\ agenda' = [k \in DOMAIN locals |-> Work(locals[k], w.module, w.root, i, w.test \/ d.test)]
                           \o Tail(agenda)

AllDeclared ==
    /\ phase = "declare" /\ agenda = <<>>
    /\ phase' = "uses"
    /\ UNCHANGED <<program, agenda, at, progress, b>>

-----------------------------------------------------------------------------
(***************************************************************************)
(* resolve_uses: round after round over the scopes until a round resolves  *)
(* nothing.                                                                *)
(***************************************************************************)
Scope == b.scopeOrder[at.scope]

AtEntry == /\ phase = "uses"
           /\ at.scope <= Len(b.scopeOrder)
           /\ at.entry <= Len(b.scopes[Scope].uses)

ResolveUse ==
    /\ AtEntry
    /\ \E resolved \in {TryResolveUse(b, Scope, b.scopes[Scope].uses[at.entry])} :
          /\ resolved # None
          /\ b' = [resolved EXCEPT !.scopes[Scope].uses = RemoveAt(@, at.entry)]
    /\ progress' = TRUE
    /\ UNCHANGED <<program, phase, agenda, at>>

PostponeUse ==
    /\ AtEntry
    /\ TryResolveUse(b, Scope, b.scopes[Scope].uses[at.entry]) = None
    /\ at' = [at EXCEPT !.entry = @ + 1]
    /\ UNCHANGED <<program, phase, agenda, progress, b>>

NextScope ==
    /\ phase = "uses" /\ ~AtEntry /\ at.scope <= Len(b.scopeOrder)
    /\ at' = [scope |-> at.scope + 1, entry |-> 1]
    /\ UNCHANGED <<program, phase, agenda, progress, b>>

NextRound ==
    /\ phase = "uses" /\ at.scope > Len(b.scopeOrder) /\ progress
    /\ at' = Start
    /\ progress' = FALSE
    /\ UNCHANGED <<program, phase, agenda, b>>

StubLeftovers ==
    /\ phase = "uses" /\ at.scope > Len(b.scopeOrder) /\ ~progress
    /\ b' = FoldLeft(LAMBDA acc, s :
                        [FoldLeft(LAMBDA inner, entry : StubUse(inner, s, entry),
                                  acc, acc.scopes[s].uses) EXCEPT !.scopes[s].uses = <<>>],
                     b, b.scopeOrder)
    /\ phase' = "signatures"
    /\ at' = Start
    /\ UNCHANGED <<program, agenda, progress>>

-----------------------------------------------------------------------------
(***************************************************************************)
(* resolve_signatures and collect_bodies, one item and one body at a time. *)
(***************************************************************************)
ResolvePending ==
    /\ phase = "signatures" /\ at.entry <= Len(b.pending)
    /\ \E p \in {b.pending[at.entry]} : b' = ResolveSignature(b, p.scope, p.item, Decl(p.item[1]))
    /\ at' = [at EXCEPT !.entry = @ + 1]
    /\ UNCHANGED <<program, phase, agenda, progress>>

SignaturesResolved ==
    /\ phase = "signatures" /\ at.entry > Len(b.pending)
    /\ phase' = "bodies"
    /\ at' = Start
    /\ UNCHANGED <<program, agenda, progress, b>>

CollectBody ==
    /\ phase = "bodies" /\ at.entry <= Len(b.bodies)
    /\ b' = VisitBody(b, b.bodies[at.entry])
    /\ at' = [at EXCEPT !.entry = @ + 1]
    /\ UNCHANGED <<program, phase, agenda, progress>>

(***************************************************************************)
(* A macro invoked in a module is a dependency whatever it leads to.       *)
(***************************************************************************)
CollectInvocations ==
    /\ phase = "bodies" /\ at.entry > Len(b.bodies)
    /\ b' = [b EXCEPT !.dependencies =
                {<<u.module, MacroTarget(b, u.scope, u.path), "macro">> : u \in b.invocations}]
    /\ phase' = "dependencies"
    /\ UNCHANGED <<program, agenda, at, progress>>

-----------------------------------------------------------------------------
(***************************************************************************)
(* build_dependencies, by what they come from: <<origin, target, kind>>.   *)
(***************************************************************************)
TypeDependencies(origin, t, kind) ==
    {<<origin, i, IF i = RawItem(t) THEN kind ELSE "generic">> : i \in AllItems(t)}

BoundDependencies(origin, bounds) ==
    {<<origin, i, "generic">> : i \in UNION {AllItems(t) : t \in bounds}}

(***************************************************************************)
(* A folded impl block contributes to its self type.                       *)
(***************************************************************************)
FoldedInto(i) == IF i \in DOMAIN b.impl THEN ImplOwner(b, i, RawItem(b.impl[i].type)) ELSE i

ImplDependencies(i) ==
    IF i \notin DOMAIN b.impl \/ FoldedInto(i) # i THEN {}
    ELSE TypeDependencies(i, b.impl[i].type, "field")
         \cup {<<i, trait, "implements">> : trait \in {b.impl[i].trait} \ {None}}

ItemDependencies(i) ==
    {<<i, t, "extends">> : t \in ToSet(FactsAbout(b.supers, i))}
    \cup {<<i, t, "implements">> : t \in ToSet(FactsAbout(b.traits, i))}
    \cup (IF i \in DOMAIN b.bounds THEN BoundDependencies(FoldedInto(i), b.bounds[i]) ELSE {})
    \cup (IF i \in DOMAIN b.alias THEN TypeDependencies(i, b.alias[i], "alias") ELSE {})
    \cup (IF i \in DOMAIN b.type THEN TypeDependencies(i, b.type[i], "field") ELSE {})
    \cup ImplDependencies(i)

MemberDependencies(m) ==
    (IF m.kind = "method" \/ m.type = None THEN {} ELSE TypeDependencies(m.owner, m.type, "field"))
    \cup UNION {TypeDependencies(m.owner, m.params[k], "parameter") : k \in DOMAIN m.params}
    \cup (IF m.ret = None THEN {} ELSE TypeDependencies(m.owner, m.ret, "return"))
    \cup (IF m.error = None THEN {}
          ELSE {<<m.owner, i, "error">> : i \in {RawItem(m.error)} \ {None}})
    \cup BoundDependencies(m.owner, m.bounds)

BodyDependencies ==
    {<<b.members[a.member].owner, a.owner, "access">> : a \in b.accesses}
    \cup {<<b.members[r[1]].owner, r[2], r[3]>> : r \in b.references}

(***************************************************************************)
(* add_dependency keeps what leads to another item that is not primitive.  *)
(***************************************************************************)
Kept(dependency) == dependency[1] # dependency[2] /\ Kind(b, dependency[2]) # "primitive"

BuildDependencies ==
    /\ phase = "dependencies"
    /\ LET all == {<<p[1], p[2], "import">> : p \in b.imports}
                  \cup {<<p[1], p[2], "annotation">> : p \in b.annotated}
                  \cup UNION {ItemDependencies(i) : i \in DOMAIN b.items}
                  \cup UNION {MemberDependencies(m) : m \in ToSet(b.members)}
                  \cup BodyDependencies
       IN  b' = [b EXCEPT !.dependencies = @ \cup {d \in all : Kept(d)}]
    /\ phase' = "done"
    /\ UNCHANGED <<program, agenda, at, progress>>

Next ==
    \/ SkipTestCode \/ DeclareModule \/ DeclareUse \/ DeclareInvocation \/ DeclareItem \/ AllDeclared
    \/ ResolveUse \/ PostponeUse \/ NextScope \/ NextRound \/ StubLeftovers
    \/ ResolvePending \/ SignaturesResolved \/ CollectBody \/ CollectInvocations
    \/ BuildDependencies

Spec == Init /\ [][Next]_vars
=============================================================================
