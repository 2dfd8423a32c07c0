----------------------------- MODULE BodyVisitor -----------------------------
(***************************************************************************)
(* What the body of a function accesses and mentions: the visitor of       *)
(* src/src/core/importer/build.rs and its guesses at types.                *)
(*                                                                         *)
(* `j` is a job [member, scope, ctx, locals, body], `v` the visitor:       *)
(*     locals       the names in scope, innermost map last                 *)
(*     assigning    the next field met is assigned to                      *)
(*     accesses     {[member, kind, owner, target]}                        *)
(*     references   {<<member, item, kind>>}                               *)
(* An expression is a record with the fields of its kind.                  *)
(***************************************************************************)
EXTENDS ItemSignatures

CONSTANT StdTraitMethodNames

Wrappers == {"Option", "Result", "Box", "Rc", "Arc"}
Unwrapping == {"unwrap", "expect", "unwrap_or", "unwrap_or_default", "unwrap_or_else"}
Keeping == {"clone", "to_owned", "as_ref", "as_mut", "borrow", "borrow_mut"}
Constructing == {"new", "default", "from", "with_capacity"}

-----------------------------------------------------------------------------
(***************************************************************************)
(* find_method, find_field and unique_member_by_name: members by their     *)
(* index, None when there is none.                                         *)
(***************************************************************************)
MembersOf(b, i, kinds) == {m \in DOMAIN b.members : b.members[m].owner = i /\ b.members[m].kind \in kinds}

Named(b, members, name) == {m \in members : b.members[m].name = name}

FirstMember(found) ==
    IF found = {} THEN None ELSE CHOOSE m \in found : \A n \in found : m <= n

RECURSIVE FindMethodIn(_, _, _, _)
FindMethodIn(b, name, pending, visited) ==
    LET i == Head(pending)
        Else(own) ==
            IF own # None THEN own
            ELSE FindMethodIn(b, name, FactsAbout(b.traits, i) \o FactsAbout(b.supers, i) \o Tail(pending),
                              visited \cup {i})
    IN  IF pending = <<>> THEN None
        ELSE IF i \in visited THEN FindMethodIn(b, name, Tail(pending), visited)
        ELSE Else(FirstMember(Named(b, MembersOf(b, i, {"method"}), name)))

FindMethod(b, i, name) == FindMethodIn(b, name, <<i>>, {})

FindField(b, i, name) ==
    FirstMember(Named(b, MembersOf(b, i, {"field", "const"}), name))

UniqueMember(b, name, kind) ==
    LET named == {m \in DOMAIN b.members : /\ b.members[m].kind = kind
                                           /\ b.members[m].name = name
                                           /\ kind = "method" => b.members[m].receiver}
    IN  IF kind = "method" /\ name \in StdTraitMethodNames THEN None
        ELSE IF Cardinality(named) = 1 THEN CHOOSE m \in named : TRUE ELSE None

FunctionMember(b, i) == FirstMember({m \in DOMAIN b.members : b.members[m].owner = i})

-----------------------------------------------------------------------------
(***************************************************************************)
(* Mutant: leaving a block keeps its locals.                               *)
(***************************************************************************)
KeepLocals(v) == v

(***************************************************************************)
(* Locals.  A name without a known type is not bound, and leaves the one   *)
(* it shadows in place.                                                    *)
(***************************************************************************)
LocalType(v, name) ==
    LET maps == {k \in DOMAIN v.locals : name \in DOMAIN v.locals[k]} IN
    IF maps = {} THEN None ELSE v.locals[CHOOSE k \in maps : \A n \in maps : n <= k][name]

BindLocal(v, name, type) ==
    IF type = None THEN v ELSE [v EXCEPT !.locals[Len(v.locals)] = Said(@, name, type)]

PushLocals(v) == [v EXCEPT !.locals = Append(@, <<>>)]
PopLocals(v) == [v EXCEPT !.locals = Front(@)]

(***************************************************************************)
(* resolve_value_path: what a path in an expression stands for.  An        *)
(* unknown path of several segments is taken for an associated function.   *)
(***************************************************************************)
Callee(is, item, name) == [is |-> is, item |-> item, name |-> name]
NoCallee == Callee("none", None, None)

StubCallee(b, i, alone) ==
    IF ~alone /\ Package(b, i) # None THEN Callee("assoc", Package(b, i), SimpleName(b, i))
    ELSE Callee("fn", i, None)

ItemCallee(b, i, kind, alone) ==
    CASE kind \in {"fn", "struct", "const"} -> Callee(kind, i, None)
      [] kind = "unknown" -> StubCallee(b, i, alone)
      [] OTHER -> NoCallee

CalleeOf(b, found, alone) ==
    IF found = None THEN NoCallee
    ELSE CASE found.is \in {"variant", "assoc"} -> Callee(found.is, found.item, found.name)
           [] found.is = "generic" -> NoCallee
           [] found.is = "item" -> ItemCallee(b, found.item, Kind(b, found.item), alone)

ResolveValuePath(b, j, v, path) ==
    IF Len(path) = 1 /\ (LocalType(v, path[1]) # None \/ path[1] = "self") THEN NoCallee
    ELSE CalleeOf(b, ResolvePath(b, j.scope, path, "value", j.ctx), Len(path) = 1)

(***************************************************************************)
(* infer_type: a guess at the type of an expression, None when there is    *)
(* none.  The tail of a block is looked at after the block is left.        *)
(***************************************************************************)
TypeOfMember(b, m) == IF m = None THEN None ELSE b.members[m].type
ReturnOf(b, m) == IF m = None THEN None ELSE b.members[m].ret

ConstType(b, i) == IF i \in DOMAIN b.type THEN b.type[i] ELSE None

FirstArgument(type) ==
    IF type = None \/ TypeArguments(type) = <<>> THEN None ELSE TypeArguments(type)[1]

TypeOfItem(b, i, kind) ==
    CASE kind = "struct" -> Resolved(i, <<>>)
      [] kind = "const" -> ConstType(b, i)
      [] OTHER -> None

TypeOfFound(b, found) ==
    IF found = None THEN None
    ELSE CASE found.is = "variant" -> Resolved(found.item, <<>>)
           [] found.is = "assoc" -> TypeOfMember(b, FindField(b, found.item, found.name))
           [] found.is = "generic" -> None
           [] found.is = "item" -> TypeOfItem(b, found.item, Kind(b, found.item))

InferPath(b, j, v, path) ==
    IF Len(path) = 1 /\ LocalType(v, path[1]) # None THEN LocalType(v, path[1])
    ELSE TypeOfFound(b, ResolvePath(b, j.scope, path, "value", j.ctx))

AssociatedReturn(b, callee, method) ==
    IF method # None THEN ReturnOf(b, method)
    ELSE IF callee.name \in Constructing THEN Resolved(callee.item, <<>>) ELSE None

TypeOfCall(b, callee) ==
    CASE callee.is = "fn" -> ReturnOf(b, FunctionMember(b, callee.item))
      [] callee.is \in {"struct", "variant"} -> Resolved(callee.item, <<>>)
      [] callee.is = "assoc" -> AssociatedReturn(b, callee, FindMethod(b, callee.item, callee.name))
      [] OTHER -> None

InferCall(b, j, v, path) == TypeOfCall(b, ResolveValuePath(b, j, v, path))

TypeOfMethod(b, receiver, i, name) ==
    IF i = None THEN None
    ELSE IF SimpleName(b, i) \in Wrappers /\ name \in Unwrapping THEN FirstArgument(receiver)
    ELSE IF name \in Keeping THEN receiver
    ELSE ReturnOf(b, FindMethod(b, i, name))

TypeOfStruct(found) ==
    IF found = None THEN None
    ELSE IF found.is \in {"item", "variant"} THEN Resolved(found.item, <<>>) ELSE None

TypeOfField(b, i, name) == IF i = None THEN None ELSE TypeOfMember(b, FindField(b, i, name))

(***************************************************************************)
(* Expressions whose type comes from that of one inside.                   *)
(***************************************************************************)
InferFrom(b, e, inner) ==
    IF inner = None THEN None
    ELSE CASE e.is = "method" -> TypeOfMethod(b, inner, RawItem(inner), e.name)
           [] e.is = "field" -> TypeOfField(b, RawItem(inner), e.name)
           [] e.is = "borrow" -> Wrapped(inner)
           [] e.is = "deref" -> IF inner.is = "wrapped" THEN inner.of ELSE inner
           [] e.is = "try" -> FirstArgument(inner)
           [] e.is = "await" -> inner

RECURSIVE InferType(_, _, _, _)
InferType(b, j, v, e) ==
    CASE e.is = "path" -> InferPath(b, j, v, e.path)
      [] e.is = "call" -> IF e.of.is = "path" THEN InferCall(b, j, v, e.of.path) ELSE None
      [] e.is = "struct" -> TypeOfStruct(ResolvePath(b, j.scope, e.path, "type", j.ctx))
      [] e.is = "cast" -> ConvertType(b, j.scope, e.type, j.ctx)
      [] e.is = "block" -> IF e.stmts = <<>> \/ Last(e.stmts).is = "let" THEN None
                           ELSE InferType(b, j, v, Last(e.stmts))
      [] e.is \in {"method", "field", "borrow", "deref", "try", "await"} ->
            InferFrom(b, e, InferType(b, j, v, e.of))
      [] OTHER -> None

-----------------------------------------------------------------------------
(***************************************************************************)
(* Recording.  An access to a constructor method is a constructor call.    *)
(***************************************************************************)
Access(j, v, kind, owner, target) ==
    [v EXCEPT !.accesses = @ \cup {[member |-> j.member, kind |-> kind, owner |-> owner,
                                    target |-> target]}]

MemberAccess(b, j, v, kind, owner, target) ==
    Access(j, v, IF kind = "call" /\ target # None /\ b.members[target].constructor
                 THEN "construct" ELSE kind,
           owner, target)

Reference(j, v, items, kind) ==
    [v EXCEPT !.references = @ \cup {<<j.member, i, kind>> : i \in items}]

VisitType(b, j, v, t) == Reference(j, v, AllItems(ConvertType(b, j.scope, t, j.ctx)), "reference")

VisitTypes(b, j, v, ts) == FoldLeft(LAMBDA acc, t : VisitType(b, j, acc, t), v, ts)

UnresolvedOwner == <<"<unresolved>">>

(***************************************************************************)
(* A path that is called (handle_call), and one that is not                *)
(* (visit_expr_path).  Looking at a constant records it.                   *)
(***************************************************************************)
CallAssociated(b, j, v, callee, method) ==
    MemberAccess(b, j, v, IF method = None /\ callee.name \in {"new", "default"}
                          THEN "construct" ELSE "call", callee.item, method)

CallTo(b, j, v, callee) ==
    CASE callee.is = "fn" -> MemberAccess(b, j, v, "call", callee.item, FunctionMember(b, callee.item))
      [] callee.is = "struct" -> Access(j, v, "construct", callee.item, None)
      [] callee.is = "variant" ->
            Access(j, v, "construct", callee.item,
                   FirstMember(Named(b, MembersOf(b, callee.item, {"variant"}), callee.name)))
      [] callee.is = "assoc" ->
            CallAssociated(b, j, v, callee, FindMethod(b, callee.item, callee.name))
      [] callee.is = "const" -> Reference(j, v, {callee.item}, "reference")
      [] callee.is = "none" -> v

HandleCall(b, j, v, path) == CallTo(b, j, v, ResolveValuePath(b, j, v, path))

ReferToMember(b, j, v, callee, field) ==
    IF field # None THEN MemberAccess(b, j, v, "get", callee.item, field)
    ELSE MemberAccess(b, j, v, "refer", callee.item, FindMethod(b, callee.item, callee.name))

PathTo(b, j, v, callee) ==
    CASE callee.is = "fn" -> MemberAccess(b, j, v, "refer", callee.item, FunctionMember(b, callee.item))
      [] callee.is = "struct" -> IF b.items[callee.item].tuple
                                 THEN Access(j, v, "construct", callee.item, None) ELSE v
      [] callee.is = "variant" -> Access(j, v, "construct", callee.item, None)
      [] callee.is = "assoc" ->
            ReferToMember(b, j, v, callee, FindField(b, callee.item, callee.name))
      [] callee.is = "const" -> Reference(j, v, {callee.item}, "reference")
      [] callee.is = "none" -> v

HandlePath(b, j, v, path) == PathTo(b, j, v, ResolveValuePath(b, j, v, path))

(***************************************************************************)
(* A method call and a field access: on the type of the receiver, or on    *)
(* the only member of that name.                                           *)
(***************************************************************************)
ReceiverOf(type) == IF type = None THEN None ELSE RawItem(type)

CallMethod(b, j, v, owner, found, unique) ==
    IF found # None \/ (owner # None /\ (unique = None \/ ~FullyImported(b, owner)))
    THEN MemberAccess(b, j, v, "call", owner, found)
    ELSE IF unique # None THEN MemberAccess(b, j, v, "call", b.members[unique].owner, unique)
    ELSE MemberAccess(b, j, v, "call", UnresolvedOwner, None)

CallMethodOn(b, j, v, owner, name) ==
    CallMethod(b, j, v, owner, IF owner = None THEN None ELSE FindMethod(b, owner, name),
               UniqueMember(b, name, "method"))

HandleMethodCall(b, j, v, e) ==
    CallMethodOn(b, j, v, ReceiverOf(InferType(b, j, v, e.of)), e.name)

UseField(b, j, v, kind, owner, name, unique) ==
    IF owner # None THEN MemberAccess(b, j, v, kind, owner, FindField(b, owner, name))
    ELSE IF unique # None THEN MemberAccess(b, j, v, kind, b.members[unique].owner, unique)
    ELSE IF name \in {"0", "1"} THEN v
    ELSE MemberAccess(b, j, v, kind, UnresolvedOwner, None)

HandleField(b, j, v, e, kind) ==
    UseField(b, j, v, kind, ReceiverOf(InferType(b, j, v, e.of)), e.name,
             UniqueMember(b, e.name, "field"))

ConstructFound(j, v, found) ==
    IF found = None THEN v
    ELSE IF found.is \in {"item", "variant"} THEN Access(j, v, "construct", found.item, None)
    ELSE v

HandleStruct(b, j, v, path) == ConstructFound(j, v, ResolvePath(b, j.scope, path, "type", j.ctx))

(***************************************************************************)
(* resolve_macro_target.                                                   *)
(***************************************************************************)
MacroTarget(b, s, path) ==
    LET Else(found) == IF found = None THEN Unresolved(path) ELSE found.item IN
    Else(ResolvePath(b, s, path, "macro", NoContext))

(***************************************************************************)
(* handle_pattern_path.  `binding` says that the name is a lower case one. *)
(***************************************************************************)
ReferToFound(j, v, found) ==
    IF found = None THEN v
    ELSE IF found.item = None THEN v ELSE Reference(j, v, {found.item}, "reference")

HandlePattern(b, j, v, pattern) ==
    IF Len(pattern.path) = 1 /\ (LocalType(v, pattern.path[1]) # None \/ pattern.binding) THEN v
    ELSE ReferToFound(j, v, ResolvePath(b, j.scope, pattern.path, "any", j.ctx))

-----------------------------------------------------------------------------
(***************************************************************************)
(* The visitor, by the kind of the expression.                             *)
(***************************************************************************)
RECURSIVE Visit(_, _, _, _)

VisitEach(b, j, v, es) == FoldLeft(LAMBDA acc, e : Visit(b, j, acc, e), v, es)

Assigning(v, flag) == [v EXCEPT !.assigning = flag]

VisitMethodCall(b, j, v, e) ==
    LET called == VisitTypes(b, j, HandleMethodCall(b, j, v, e), e.types) IN
    VisitEach(b, j, Visit(b, j, called, e.of), e.args)

VisitField(b, j, v, e) ==
    Visit(b, j, HandleField(b, j, Assigning(v, FALSE), e, IF v.assigning THEN "set" ELSE "get"), e.of)

VisitAssign(b, j, v, e) ==
    Visit(b, j, Assigning(Visit(b, j, Assigning(v, e.assigns), e.left), FALSE), e.right)

VisitBorrow(b, j, v, e) ==
    Assigning(Visit(b, j, IF e.mutable /\ e.of.is = "field" THEN Assigning(v, TRUE) ELSE v, e.of), FALSE)

VisitMacro(b, j, v, e) ==
    VisitEach(b, j, Reference(j, v, {MacroTarget(b, j.scope, e.path)}, "macro"), e.args)

(***************************************************************************)
(* A `let` with or without a type, and a closure with typed parameters.    *)
(***************************************************************************)
BindTyped(j, v, e, type) ==
    BindLocal(Reference(j, v, AllItems(type), "reference"), e.name, type)

Letting(b, j, v, e) ==
    IF e.type # None THEN BindTyped(j, v, e, ConvertType(b, j.scope, e.type, j.ctx))
    ELSE BindLocal(v, e.name, IF e.init = None THEN None ELSE InferType(b, j, v, e.init))

VisitLet(b, j, v, e) == Letting(b, j, IF e.init = None THEN v ELSE Visit(b, j, v, e.init), e)

VisitClosure(b, j, v, e) ==
    LET bound == FoldLeft(LAMBDA acc, p : BindLocal(acc, p.name, ConvertType(b, j.scope, p.type, j.ctx)),
                          PushLocals(v), e.params)
    IN  PopLocals(Visit(b, j, bound, e.of))

VisitMatch(b, j, v, e) ==
    FoldLeft(LAMBDA acc, arm : Visit(b, j, HandlePattern(b, j, acc, arm), arm.of),
             Visit(b, j, v, e.of), e.arms)

Visit(b, j, v, e) ==
    CASE e.is = "path" -> VisitTypes(b, j, HandlePath(b, j, v, e.path), e.types)
      [] e.is = "call" ->
            VisitEach(b, j, IF e.of.is = "path"
                            THEN VisitTypes(b, j, HandleCall(b, j, v, e.of.path), e.of.types)
                            ELSE Visit(b, j, v, e.of), e.args)
      [] e.is = "method" -> VisitMethodCall(b, j, v, e)
      [] e.is = "field" -> VisitField(b, j, v, e)
      [] e.is = "assign" -> VisitAssign(b, j, v, e)
      [] e.is = "borrow" -> VisitBorrow(b, j, v, e)
      [] e.is = "struct" -> VisitEach(b, j, HandleStruct(b, j, v, e.path), e.args)
      [] e.is = "macro" -> VisitMacro(b, j, v, e)
      [] e.is = "closure" -> VisitClosure(b, j, v, e)
      [] e.is = "cast" -> VisitType(b, j, Visit(b, j, v, e.of), e.type)
      [] e.is = "block" -> PopLocals(VisitEach(b, j, PushLocals(v), e.stmts))
      [] e.is = "let" -> VisitLet(b, j, v, e)
      [] e.is = "match" -> VisitMatch(b, j, v, e)
      [] e.is \in {"deref", "try", "await"} -> Visit(b, j, v, e.of)
      [] e.is = "literal" -> v

(***************************************************************************)
(* The visitor starts with the parameters, and with `self`.                *)
(***************************************************************************)
Visited(b, v) == [b EXCEPT !.accesses = v.accesses, !.references = v.references]

VisitBody(b, j) ==
    Visited(b, Visit(b, j, [locals |-> <<j.locals>>, assigning |-> FALSE, accesses |-> b.accesses,
                            references |-> b.references], j.body))
=============================================================================
