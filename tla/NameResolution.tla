--------------------------- MODULE NameResolution ---------------------------
(***************************************************************************)
(* Scopes and the resolution of paths, src/src/core/importer/resolve.rs.   *)
(*                                                                         *)
(* An item is a sequence of strings: the key of a declared item (one       *)
(* string), or the path of a stub, an item that is only referenced.  A     *)
(* builder `b` is a record; this module reads its fields                   *)
(*     items     declared item -> [kind, name, package, root, tuple]       *)
(*     scopes    module, or function with local items -> scope             *)
(*     variants  the enum variants that are members so far: <<enum, name>> *)
(* intern_stub finds a stub by its path, so interning leaves no trace here.*)
(***************************************************************************)
EXTENDS Naturals, Sequences, FiniteSets

CONSTANTS
    ExternPrelude,  \* [crate roots -> [names -> lib]]: extern_prelude and lib_roots
    StdPrelude,     \* {"type", "value", "macro"} -> [names -> Resolved]
    Primitives,     \* names of primitive types
    None

Namespaces == {"type", "value", "macro"}

Item(i) == [is |-> "item", item |-> i, name |-> None]
Variant(enum, name) == [is |-> "variant", item |-> enum, name |-> name]
Assoc(base, name) == [is |-> "assoc", item |-> base, name |-> name]
Generic(name) == [is |-> "generic", item |-> None, name |-> name]

Unresolved(path) == <<"<unresolved>">> \o SelectSeq(path, LAMBDA s : s # "")

FullyImported(b, i) == i \in DOMAIN b.items

Kind(b, i) ==
    IF FullyImported(b, i) THEN b.items[i].kind
    ELSE IF Len(i) > 1 THEN "unknown"
    ELSE IF i[1] \in Primitives THEN "primitive" ELSE "module"

SimpleName(b, i) == IF FullyImported(b, i) THEN b.items[i].name ELSE i[Len(i)]

Package(b, i) ==
    IF FullyImported(b, i) THEN b.items[i].package
    ELSE IF Len(i) = 1 THEN None ELSE SubSeq(i, 1, Len(i) - 1)

(***************************************************************************)
(* A scope maps names to what they resolve to, one map per namespace, and  *)
(* lists its glob imports and the use declarations to resolve.             *)
(***************************************************************************)
NewScope(module, root, parent) ==
    [module |-> module, root |-> root, parent |-> parent,
     names |-> [ns \in Namespaces |-> <<>>], globs |-> <<>>, uses |-> <<>>]

Glob(is, of) == [is |-> is, of |-> of]

-----------------------------------------------------------------------------
(***************************************************************************)
(* lookup_declared.  `visited` are the scopes on the way here; the code    *)
(* also skips those it left without a result, which find nothing again.    *)
(***************************************************************************)
FirstNonNone(results) ==
    LET found == {k \in DOMAIN results : results[k] # None} IN
    IF found = {} THEN None ELSE results[CHOOSE k \in found : \A j \in found : k <= j]

Direct(scope, name, ns) ==
    LET In(n) == IF name \in DOMAIN scope.names[n] THEN scope.names[n][name] ELSE None IN
    IF ns = "any" THEN FirstNonNone(<<In("type"), In("value"), In("macro")>>) ELSE In(ns)

(***************************************************************************)
(* Mutant: glob imports are followed one step only.                        *)
(***************************************************************************)
LookupDeclaredShallow(b, s, name, ns, visited) ==
    LET Via(g) == IF g.is = "scope" THEN Direct(b.scopes[g.of], name, ns) ELSE None IN
    FirstNonNone(<<Direct(b.scopes[s], name, ns)>>
                 \o [k \in DOMAIN b.scopes[s].globs |-> Via(b.scopes[s].globs[k])])

RECURSIVE LookupDeclared(_, _, _, _, _)
LookupDeclared(b, s, name, ns, visited) ==
    LET scope == b.scopes[s]
        direct == Direct(scope, name, ns)
        Via(g) == CASE g.is = "scope" -> LookupDeclared(b, g.of, name, ns, visited \cup {s})
                    [] g.is = "enum" -> IF ns # "macro" /\ <<g.of, name>> \in b.variants
                                        THEN Variant(g.of, name) ELSE None
                    [] g.is = "stub" -> None
    IN  IF s \in visited THEN None
        ELSE IF direct # None THEN direct
        ELSE FirstNonNone([k \in DOMAIN scope.globs |-> Via(scope.globs[k])])

LookupIn(b, s, name, ns) == LookupDeclared(b, s, name, ns, {})

(***************************************************************************)
(* A scope and those around it, from the inside out.                       *)
(***************************************************************************)
RECURSIVE Enclosing(_, _)
Enclosing(b, s) == IF s = None THEN <<>> ELSE <<s>> \o Enclosing(b, b.scopes[s].parent)

ExternCrate(b, s, name) ==
    LET root == b.scopes[s].root IN
    IF name \in DOMAIN ExternPrelude[root] THEN Item(ExternPrelude[root][name])
    ELSE IF b.items[root].name = name THEN Item(root) ELSE None

InStdPrelude(name, ns) ==
    LET In(n) == IF name \in DOMAIN StdPrelude[n] THEN StdPrelude[n][name] ELSE None IN
    IF ns = "any" THEN FirstNonNone(<<In("type"), In("value"), In("macro")>>) ELSE In(ns)

StubGlobs(b, s) ==
    LET stubs == SelectSeq(b.scopes[s].globs, LAMBDA g : g.is = "stub") IN
    IF stubs = <<>> THEN None ELSE stubs[1].of

(***************************************************************************)
(* lookup_name: what the scopes declare, then the fallbacks.               *)
(***************************************************************************)
LookupName(b, s, name, ns) ==
    LET scopes == Enclosing(b, s)
        glob == FirstNonNone([k \in DOMAIN scopes |-> StubGlobs(b, scopes[k])])
    IN  FirstNonNone(
            [k \in DOMAIN scopes |-> LookupIn(b, scopes[k], name, ns)]
            \o <<ExternCrate(b, s, name), InStdPrelude(name, ns),
                 IF ns \in {"type", "any"} /\ name \in Primitives THEN Item(<<name>>) ELSE None,
                 IF glob # None THEN Item(Append(glob, name)) ELSE None>>)

(***************************************************************************)
(* step: one more segment.                                                 *)
(***************************************************************************)
Step(b, current, segment, ns) ==
    LET i == current.item IN
    IF current.is # "item" THEN None
    ELSE IF ~FullyImported(b, i) THEN Item(Append(i, segment))
    ELSE CASE Kind(b, i) = "module" -> LookupIn(b, i, segment, ns)
           [] Kind(b, i) = "enum" -> IF <<i, segment>> \in b.variants THEN Variant(i, segment)
                                     ELSE Assoc(i, segment)
           [] Kind(b, i) \in {"struct", "trait", "alias"} -> Assoc(i, segment)
           [] OTHER -> None

RECURSIVE Ancestor(_, _, _)
Ancestor(b, i, n) == IF n = 0 \/ i = None THEN i ELSE Ancestor(b, Package(b, i), n - 1)

(***************************************************************************)
(* resolve_path.  ctx has the self type and the generic parameters.  The   *)
(* first segments, up to `at`, lead to `found`.                            *)
(***************************************************************************)
Wanted(path, ns, k) == IF k = Len(path) THEN ns ELSE "type"

Supers(path) == CHOOSE n \in 0 .. Len(path) : /\ \A k \in 1 .. n : path[k] = "super"
                                              /\ n < Len(path) => path[n + 1] # "super"

StartOf(b, s, path, ns, ctx) ==
    LET Found(i) == IF i = None THEN None ELSE Item(i) IN
    CASE path[1] = "crate" -> [at |-> 1, found |-> Item(b.scopes[s].root)]
      [] path[1] = "self" -> [at |-> 1, found |-> Item(b.scopes[s].module)]
      [] path[1] = "super" -> [at |-> Supers(path),
                               found |-> Found(Ancestor(b, b.scopes[s].module, Supers(path)))]
      [] path[1] = "Self" -> [at |-> 1, found |-> Found(ctx.self)]
      [] path[1] = "" -> [at |-> 2, found |-> ExternCrate(b, s, path[2])]
      [] OTHER -> [at |-> 1,
                   found |-> IF Wanted(path, ns, 1) \in {"type", "any"} /\ path[1] \in ctx.generics
                             THEN Generic(path[1]) ELSE LookupName(b, s, path[1], Wanted(path, ns, 1))]

Follow(b, path, ns, start) ==
    LET Along[k \in start.at .. Len(path)] ==
            IF k = start.at THEN start.found
            ELSE IF Along[k - 1] = None THEN None
            ELSE Step(b, Along[k - 1], path[k], Wanted(path, ns, k))
    IN  Along[Len(path)]

ResolvePath(b, s, path, ns, ctx) == Follow(b, path, ns, StartOf(b, s, path, ns, ctx))

-----------------------------------------------------------------------------
(***************************************************************************)
(* bind: a name enters the namespaces of what it stands for; a stub might  *)
(* be anything.                                                            *)
(***************************************************************************)
NamespacesOf(b, resolved) ==
    LET kind == Kind(b, resolved.item) IN
    CASE resolved.is \in {"variant", "assoc"} -> {"type", "value"}
      [] resolved.is = "generic" -> {}
      [] resolved.is = "item" ->
            CASE kind \in {"module", "enum", "trait", "alias", "primitive"} -> {"type"}
              [] kind = "struct" -> IF b.items[resolved.item].tuple THEN {"type", "value"} ELSE {"type"}
              [] kind \in {"fn", "const"} -> {"value"}
              [] kind = "macro" -> {"macro"}
              [] kind = "impl" -> {}
              [] kind = "unknown" -> Namespaces

Bound(names, name, resolved) ==
    [n \in DOMAIN names \cup {name} |-> IF n = name THEN resolved ELSE names[n]]

Bind(b, s, name, resolved) ==
    [b EXCEPT !.scopes[s].names = [ns \in Namespaces |->
        IF ns \in NamespacesOf(b, resolved) THEN Bound(@[ns], name, resolved) ELSE @[ns]]]

(***************************************************************************)
(* record_import.                                                          *)
(***************************************************************************)
RecordImport(b, s, target) ==
    [b EXCEPT !.imports = @ \cup {<<b.scopes[s].module, target>>}]

(***************************************************************************)
(* try_resolve_use: None while the path is not found.                      *)
(***************************************************************************)
NoContext == [self |-> None, generics |-> {}]

GlobSource(b, resolved) ==
    IF resolved.is # "item" THEN None
    ELSE IF ~FullyImported(b, resolved.item) THEN Glob("stub", resolved.item)
    ELSE IF Kind(b, resolved.item) = "enum" THEN Glob("enum", resolved.item)
    ELSE IF Kind(b, resolved.item) = "module" THEN Glob("scope", resolved.item)
    ELSE None

Entered(b, s, entry, resolved, source) ==
    IF ~entry.glob THEN RecordImport(Bind(b, s, entry.local, resolved), s, resolved.item)
    ELSE IF source = None THEN b
    ELSE RecordImport([b EXCEPT !.scopes[s].globs = Append(@, source)], s, resolved.item)

Using(b, s, entry, resolved) ==
    IF resolved = None THEN None ELSE Entered(b, s, entry, resolved, GlobSource(b, resolved))

TryResolveUse(b, s, entry) ==
    Using(b, s, entry, ResolvePath(b, s, entry.path, IF entry.glob THEN "type" ELSE "any", NoContext))

(***************************************************************************)
(* What is left after the fixpoint becomes a stub.                         *)
(***************************************************************************)
StubUse(b, s, entry) ==
    LET stub == Unresolved(entry.path) IN
    IF entry.glob THEN [b EXCEPT !.scopes[s].globs = Append(@, Glob("stub", stub))]
    ELSE RecordImport(Bind(b, s, entry.local, Item(stub)), s, stub)

(***************************************************************************)
(* collect_use_entries: a use tree is a node with the names of its prefix, *)
(* or one of the leaves name, rename, glob.                                *)
(***************************************************************************)
UseEntry(local, path, glob) == [local |-> local, path |-> path, glob |-> glob]

RECURSIVE UseEntries(_, _)
UseEntries(tree, prefix) ==
    CASE tree.is = "path" -> UseEntries(tree.of, Append(prefix, tree.name))
      [] tree.is = "name" /\ tree.name = "self" ->
            IF prefix = <<>> THEN <<>> ELSE <<UseEntry(prefix[Len(prefix)], prefix, FALSE)>>
      [] tree.is = "name" /\ tree.name # "self" ->
            <<UseEntry(tree.name, Append(prefix, tree.name), FALSE)>>
      [] tree.is = "rename" ->
            <<UseEntry(tree.local, IF tree.name = "self" THEN prefix ELSE Append(prefix, tree.name), FALSE)>>
      [] tree.is = "glob" -> <<UseEntry("*", prefix, TRUE)>>
      [] tree.is = "group" ->
            LET Of[k \in 0 .. Len(tree.of)] ==
                    IF k = 0 THEN <<>> ELSE Of[k - 1] \o UseEntries(tree.of[k], prefix)
            IN  Of[Len(tree.of)]
=============================================================================
