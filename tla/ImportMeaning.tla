---------------------------- MODULE ImportMeaning ----------------------------
(***************************************************************************)
(* What an import should find, said without an order: the meaning of the   *)
(* use declarations is the least one that is closed under them, and the    *)
(* dependencies of an item are what its text mentions.                     *)
(***************************************************************************)
EXTENDS CrateImport

-----------------------------------------------------------------------------
(***************************************************************************)
(* A meaning X has the names and globs it found, <<scope, namespace, name, *)
(* resolved>> and <<scope, glob>>, the use declarations it starts from,    *)
(* <<scope, entry>>, and what every scope introduces itself, <<scope,      *)
(* name>>.                                                                 *)
(***************************************************************************)
EntriesOf(m) ==
    LET uses == {d \in {Decl(k) : k \in ToSet(Decl(m[1]).items)} : d.kind = "use" /\ Included(d.test)}
    IN  UNION {ToSet(UseEntries(d.tree, d.prefix)) : d \in uses}

ModuleScopes == {i \in DOMAIN b.items : b.items[i].kind = "module"}

Uses == UNION {{<<m, e>> : e \in EntriesOf(m)} : m \in ModuleScopes}

InNamespaces(names) == {t \in names : t[2] \in NamespacesOf(b, t[4])}

Declarations ==
    InNamespaces({<<b.items[i].home, ns, b.items[i].name, Item(i)>> :
                     i \in {j \in DOMAIN b.items : b.items[j].kind # "impl" /\ b.items[j].home # None},
                     ns \in Namespaces})

(***************************************************************************)
(* The scopes whose `name` shows in `scopes`: what a scope introduces      *)
(* itself hides what its globs lead to.                                    *)
(***************************************************************************)
LedTo(X, scopes, name) ==
    {g[2].of : g \in {h \in X.globs : /\ h[1] \in scopes /\ <<h[1], name>> \notin X.own
                                      /\ h[2].is = "scope"}}

RECURSIVE ShownIn(_, _, _)
ShownIn(X, scopes, name) ==
    IF LedTo(X, scopes, name) \subseteq scopes THEN scopes
    ELSE ShownIn(X, scopes \cup LedTo(X, scopes, name), name)

ShownFrom(X, scopes, ns, name) ==
    LET enums == {g[2].of : g \in {h \in X.globs : h[1] \in scopes /\ h[2].is = "enum"}} IN
    {t[4] : t \in {u \in X.names : u[1] \in scopes /\ ns \in {u[2], "any"} /\ u[3] = name}}
    \cup {Variant(v[1], name) : v \in {w \in b.variants : ns # "macro" /\ w[1] \in enums /\ w[2] = name}}

Shown(X, s, ns, name) == ShownFrom(X, ShownIn(X, {s}, name), ns, name)

(***************************************************************************)
(* A name that nothing in the program introduces is one from outside.      *)
(***************************************************************************)
Introduced(X, name) == (\E o \in X.own : o[2] = name) \/ \E v \in b.variants : v[2] = name

Outside(s, ns, name) ==
    LET root == b.scopes[s].root IN
    IF name \in DOMAIN ExternPrelude[root] THEN {Item(ExternPrelude[root][name])}
    ELSE IF InStdPrelude(name, ns) # None THEN {InStdPrelude(name, ns)}
    ELSE IF ns \in {"type", "any"} /\ name \in Primitives THEN {Item(<<name>>)} ELSE {}

FirstMeans(X, s, ns, name) ==
    CASE name = "crate" -> {Item(b.scopes[s].root)}
      [] name = "self" -> {Item(b.scopes[s].module)}
      [] name = "super" -> {Item(Package(b, b.scopes[s].module))} \ {Item(None)}
      [] OTHER -> IF Introduced(X, name)
                  THEN UNION {Shown(X, t, ns, name) : t \in ToSet(Enclosing(b, s))}
                  ELSE Outside(s, ns, name)

NextMeans(X, r, ns, name) ==
    IF r.is # "item" THEN {}
    ELSE IF ~FullyImported(b, r.item) THEN {Item(Append(r.item, name))}
    ELSE CASE Kind(b, r.item) = "module" ->
                IF name = "super" THEN {Item(Package(b, r.item))} ELSE Shown(X, r.item, ns, name)
           [] Kind(b, r.item) = "enum" -> IF <<r.item, name>> \in b.variants THEN {Variant(r.item, name)}
                                          ELSE {Assoc(r.item, name)}
           [] Kind(b, r.item) \in {"struct", "trait", "alias"} -> {Assoc(r.item, name)}
           [] OTHER -> {}

PathMeans(X, s, path, ns) ==
    LET M[k \in DOMAIN path] == IF k = 1 THEN FirstMeans(X, s, Wanted(path, ns, 1), path[1])
                                ELSE UNION {NextMeans(X, r, Wanted(path, ns, k), path[k]) : r \in M[k - 1]}
    IN  M[Len(path)]

(***************************************************************************)
(* A use declaration adds what its path means.                             *)
(***************************************************************************)
EntryMeans(X, u) == PathMeans(X, u[1], u[2].path, IF u[2].glob THEN "type" ELSE "any")

With(X, meant) ==
    [X EXCEPT !.names = @ \cup InNamespaces({<<t[1], ns, t[2].local, t[3]>> :
                                    t \in {u \in meant : ~u[2].glob}, ns \in Namespaces}),
              !.globs = @ \cup {g \in {<<t[1], GlobSource(b, t[3])>> : t \in {u \in meant : u[2].glob}} :
                                    g[2] # None}]

Grow(X) == With(X, UNION {{<<u[1], u[2], r>> : r \in EntryMeans(X, u)} : u \in X.uses})

RECURSIVE Closed(_, _)
Closed(X, grown) == IF grown = X THEN X ELSE Closed(grown, Grow(grown))

Meaning ==
    LET Least(uses, names) ==
            [names |-> names, globs |-> {}, uses |-> uses,
             own |-> {<<t[1], t[3]>> : t \in names} \cup {<<u[1], u[2].local>> : u \in uses}]
    IN  Closed(None, Least(Uses, Declarations))

-----------------------------------------------------------------------------
BoundTo(s, ns, name) ==
    IF name \in DOMAIN b.scopes[s].names[ns] THEN {b.scopes[s].names[ns][name]} ELSE {}

IsLeftover(r) == r.is = "item" /\ r.item[1] = "<unresolved>"

NamesOf(X, s) ==
    {t[3] : t \in {u \in X.names : u[1] = s}} \cup UNION {DOMAIN b.scopes[s].names[ns] : ns \in Namespaces}

RightlyBound(means, bound) ==
    IF means = {} THEN \A r \in bound : IsLeftover(r) ELSE bound # {} /\ bound \subseteq means

(***************************************************************************)
(* A name of a module is bound to what the use declarations mean, however  *)
(* they are ordered among the modules and whatever chains of re-exports    *)
(* and globs, cycles included, lead there; a name is left to a stub only   *)
(* when it means nothing.                                                  *)
(* resolve.rs:424-470, the rounds of resolve_uses.                         *)
(***************************************************************************)
UsesFindTheirItems ==
    phase = "signatures" /\ at = Start =>
        \E X \in {Meaning} :
            \A s \in ModuleScopes, ns \in Namespaces :
                \A name \in NamesOf(X, s) :
                    RightlyBound({t[4] : t \in {u \in X.names : u[1] = s /\ u[2] = ns /\ u[3] = name}},
                                 BoundTo(s, ns, name))

-----------------------------------------------------------------------------
(***************************************************************************)
(* What a place in a text means: it has a scope, a self type and generic   *)
(* parameters.                                                             *)
(***************************************************************************)
Place(s, self, generics) == [scope |-> s, self |-> self, generics |-> generics]

Means(X, c, path, ns) ==
    IF path[1] \in c.generics THEN {}
    ELSE IF path[1] # "Self" THEN PathMeans(X, c.scope, path, ns)
    ELSE IF Len(path) = 1 THEN {Item(c.self)} ELSE NextMeans(X, Item(c.self), ns, path[2])

RECURSIVE Read(_, _, _)
Read(X, c, t) ==
    LET Each(ts) == [k \in DOMAIN ts |-> Read(X, c, ts[k])]
        Meant(means, args) == IF means = {} THEN Parameter
                              ELSE Resolved((CHOOSE r \in means : TRUE).item, args)
    IN  CASE t.is = "path" -> Meant(Means(X, c, t.path, "type"), Each(t.args))
          [] t.is \in {"wrapped", "qself"} -> Read(X, c, t.of)
          [] t.is = "several" -> Several(Each(t.of))
          [] t.is = "bounds" -> Bounded(Each(t.of))

(***************************************************************************)
(* The types of a declaration and of a signature.                          *)
(***************************************************************************)
BoundsOf(generics) ==
    UNION {ToSet(clause.bounds) : clause \in ToSet(generics.params \o generics.where)}

Fields(d) == ToSet(d.fields \o d.consts \o d.types) \cup UNION {ToSet(v.fields) : v \in ToSet(d.variants)}

TypesOf(d) ==
    ({f.type : f \in Fields(d)} \cup ToSet(d.supers) \cup BoundsOf(d.generics)
     \cup {d.type, d.trait, d.self}) \ {None}

SignatureTypes(sig) ==
    ({p.type : p \in ToSet(sig.params)} \cup BoundsOf(sig.generics) \cup {sig.ret}) \ {None}

Signatures(d) == ToSet(d.methods) \cup ({d.sig} \ {None})

(***************************************************************************)
(* The type of an expression under the locals around it, by what the       *)
(* members declare.                                                        *)
(***************************************************************************)
WithTraits(i) == {i} \cup ToSet(FactsAbout(b.traits, i)) \cup ToSet(FactsAbout(b.supers, i))

MembersNamed(i, name) ==
    {m \in ToSet(b.members) : m.name = name /\ m.owner \in WithTraits(i)}

TypeFrom(members) ==
    IF members = {} THEN Parameter
    ELSE LET m == CHOOSE n \in members : TRUE IN
         IF m.kind = "method" THEN (IF m.ret = None THEN Parameter ELSE m.ret)
         ELSE IF m.type = None THEN Parameter ELSE m.type

RECURSIVE Peeled(_)
Peeled(t) == IF t.is = "wrapped" THEN Peeled(t.of) ELSE t

RECURSIVE TypeIn(_, _, _, _)

After(X, c, env, e) ==
    IF e.is # "let" THEN env
    ELSE Said(env, e.name, IF e.type # None THEN Read(X, c, e.type) ELSE TypeIn(X, c, env, e.init))

IsLocal(env, path) == Len(path) = 1 /\ path[1] \in DOMAIN env

ValueType(r) ==
    CASE r.is = "variant" -> Resolved(r.item, <<>>)
      [] r.is = "assoc" -> TypeFrom(MembersNamed(r.item, r.name))
      [] r.is = "item" -> CASE Kind(b, r.item) = "fn" -> TypeFrom({m \in ToSet(b.members) : m.owner = r.item})
                            [] Kind(b, r.item) = "struct" -> Resolved(r.item, <<>>)
                            [] r.item \in DOMAIN b.type -> b.type[r.item]
                            [] OTHER -> Parameter

TypeMeant(means) == IF means = {} THEN Parameter ELSE ValueType(CHOOSE r \in means : TRUE)

TypeOfPath(X, c, env, path) ==
    IF IsLocal(env, path) THEN env[path[1]] ELSE TypeMeant(Means(X, c, path, "value"))

ArgumentOf(t) == IF TypeArguments(t) = <<>> THEN Parameter ELSE TypeArguments(t)[1]

TypeAround(e, inner) ==
    CASE e.is \in {"method", "field"} ->
            IF RawItem(inner) = None THEN Parameter
            ELSE IF e.is = "method" /\ e.name \in Unwrapping THEN ArgumentOf(inner)
            ELSE TypeFrom(MembersNamed(RawItem(inner), e.name))
      [] e.is = "try" -> ArgumentOf(inner)
      [] e.is \in {"borrow", "deref", "await"} -> inner

TypeIn(X, c, env, e) ==
    CASE e.is = "path" -> TypeOfPath(X, c, env, e.path)
      [] e.is = "call" -> TypeOfPath(X, c, env, e.of.path)
      [] e.is = "struct" -> Read(X, c, Path(e.path, <<>>))
      [] e.is = "cast" -> Read(X, c, e.type)
      [] e.is \in {"method", "field", "try", "borrow", "deref", "await"} ->
            TypeAround(e, Peeled(TypeIn(X, c, env, e.of)))
      [] OTHER -> Parameter

(***************************************************************************)
(* What an expression mentions.  Locals end with their block.              *)
(***************************************************************************)
PathItems(X, c, env, path) ==
    IF IsLocal(env, path) THEN {} ELSE {r.item : r \in Means(X, c, path, "value")}

TypeItems(X, c, types) == UNION {AllItems(Read(X, c, t)) : t \in types}

ReceiverItems(X, c, env, e) == {RawItem(TypeIn(X, c, env, e))} \ {None}

RECURSIVE Mentioned(_, _, _, _)
RECURSIVE MentionedInTurn(_, _, _, _)
MentionedInTurn(X, c, env, es) ==
    IF es = <<>> THEN {}
    ELSE Mentioned(X, c, env, Head(es)) \cup MentionedInTurn(X, c, After(X, c, env, Head(es)), Tail(es))

Mentioned(X, c, env, e) ==
    LET Each(es) == UNION {Mentioned(X, c, env, x) : x \in ToSet(es)}
        Items(path, ns) == {r.item : r \in Means(X, c, path, ns)}
    IN  CASE e.is = "path" -> PathItems(X, c, env, e.path) \cup TypeItems(X, c, ToSet(e.types))
          [] e.is = "call" -> Mentioned(X, c, env, e.of) \cup Each(e.args)
          [] e.is = "method" -> ReceiverItems(X, c, env, e.of) \cup Mentioned(X, c, env, e.of)
                                \cup Each(e.args) \cup TypeItems(X, c, ToSet(e.types))
          [] e.is = "field" -> ReceiverItems(X, c, env, e.of) \cup Mentioned(X, c, env, e.of)
          [] e.is = "assign" -> Each(<<e.left, e.right>>)
          [] e.is = "struct" -> Items(e.path, "type") \cup Each(e.args)
          [] e.is = "macro" -> Items(e.path, "macro") \cup Each(e.args)
          [] e.is = "cast" -> Mentioned(X, c, env, e.of) \cup TypeItems(X, c, {e.type})
          [] e.is = "block" -> MentionedInTurn(X, c, env, e.stmts)
          [] e.is = "let" -> (IF e.init = None THEN {} ELSE Mentioned(X, c, env, e.init))
                             \cup TypeItems(X, c, {e.type} \ {None})
          [] e.is = "closure" ->
                Mentioned(X, c, [n \in DOMAIN env \cup {p.name : p \in ToSet(e.params)} |->
                                    IF n \in DOMAIN env /\ \A p \in ToSet(e.params) : p.name # n THEN env[n]
                                    ELSE Read(X, c, (CHOOSE p \in ToSet(e.params) : p.name = n).type)], e.of)
          [] e.is = "match" -> Mentioned(X, c, env, e.of)
                               \cup UNION {Items(arm.path, "any") : arm \in {a \in ToSet(e.arms) : ~a.binding}}
                               \cup Each([k \in DOMAIN e.arms |-> e.arms[k].of])
          [] e.is \in {"borrow", "deref", "try", "await"} -> Mentioned(X, c, env, e.of)
          [] e.is = "literal" -> {}

(***************************************************************************)
(* What a declared item mentions, and the item it counts for.              *)
(***************************************************************************)
ScopeOf(i) == (CHOOSE p \in ToSet(b.pending) : p.item = i).scope

SelfOf(X, i, d) ==
    IF d.kind # "impl" THEN i
    ELSE LET self == RawItem(Read(X, Place(ScopeOf(i), None, GenericNames(d.generics)), d.self)) IN
         IF self # None /\ FullyImported(b, self) THEN self ELSE i

SignatureMentions(X, c, sig) ==
    LET inner == [c EXCEPT !.generics = @ \cup GenericNames(sig.generics)]
        names == {p.name : p \in ToSet(sig.params)}
        env == [n \in names \cup (IF sig.receiver THEN {"self"} ELSE {}) |->
                   IF n = "self" THEN Resolved(c.self, <<>>)
                   ELSE Read(X, inner, (CHOOSE p \in ToSet(sig.params) : p.name = n).type)]
    IN  TypeItems(X, inner, SignatureTypes(sig))
        \cup (IF sig.body = None THEN {} ELSE Mentioned(X, inner, env, sig.body))

AttributeMentions(X, c, d) ==
    UNION {{r.item : r \in Means(X, c, a.path, "macro")} : a \in ToSet(d.attrs)}

MentionedBy(X, i) ==
    LET d == Decl(i[1])
        c == Place(ScopeOf(i), SelfOf(X, i, d), GenericNames(d.generics))
    IN  TypeItems(X, c, TypesOf(d)) \cup UNION {SignatureMentions(X, c, sig) : sig \in Signatures(d)}
        \cup AttributeMentions(X, c, d)

ImportMentions(X) ==
    UNION {{<<m, r.item>> : r \in UNION {PathMeans(X, m, e.path, IF e.glob THEN "type" ELSE "any") :
                                           e \in EntriesOf(m)}} : m \in ModuleScopes}

InvocationMentions(X) ==
    UNION {{<<u.module, r.item>> : r \in PathMeans(X, u.scope, u.path, "macro")} : u \in b.invocations}

(***************************************************************************)
(* The dependencies among the imported items are what they mention: none   *)
(* is missed because a name is re-exported, an impl stands in another      *)
(* module or a type is known by a local or a call only, and none is made   *)
(* up because a name means something else in another scope or a local has  *)
(* ended.  Impl blocks of imported types count for the type.  The error    *)
(* type behind an alias is left aside: it is found when the alias comes    *)
(* first only.                                                             *)
(* build.rs:1844-2125.                                                     *)
(***************************************************************************)
DependenciesAreTheMentions ==
    phase = "done" =>
        \E X \in {Meaning} :
            {<<d[1], d[2]>> : d \in {e \in b.dependencies : FullyImported(b, e[2]) /\ e[3] # "error"}} =
            {p \in ImportMentions(X) \cup InvocationMentions(X)
                    \cup UNION {{<<SelfOf(X, i, Decl(i[1])), j>> : j \in MentionedBy(X, i)} :
                                   i \in DOMAIN b.items \ ModuleScopes} :
                p[1] # p[2] /\ FullyImported(b, p[2])}
=============================================================================
