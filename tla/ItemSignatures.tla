--------------------------- MODULE ItemSignatures ---------------------------
(***************************************************************************)
(* From the declarations to types and members: the signature pass of       *)
(* src/src/core/importer/build.rs.                                         *)
(*                                                                         *)
(* A declaration is a record with the fields of its kind; the builder `b`  *)
(* gains here, besides what NameResolution reads,                          *)
(*     traits, supers, bounds, alias, type, impl    facts about an item    *)
(*     members, bodies, annotated      what the items declare and contain  *)
(* Lines, visibilities, modifiers and descriptions are left out, and the   *)
(* attributes of fields, variants and parameters.                          *)
(***************************************************************************)
EXTENDS NameResolution, SequencesExt

CONSTANTS
    StdDerives,         \* [names -> trait paths]
    BuiltinAttributes,
    StdErrors           \* [paths of Result aliases -> paths of their error types]

(***************************************************************************)
(* Types as they are written, and as they are resolved: a path with its    *)
(* arguments, what is wrapped once (&T, *T, [T]), several types (a tuple,  *)
(* a function pointer), bounds (dyn, impl), or a qualified self type.      *)
(***************************************************************************)
Path(path, args) == [is |-> "path", path |-> path, args |-> args]
Wrapped(of) == [is |-> "wrapped", of |-> of]
Several(of) == [is |-> "several", of |-> of]
Bounded(of) == [is |-> "bounds", of |-> of]
QSelf(of) == [is |-> "qself", of |-> of]

Resolved(item, args) == [is |-> "item", item |-> item, args |-> args]
Parameter == [is |-> "param"]

RECURSIVE RawItem(_)
RawItem(t) ==
    CASE t.is = "item" -> t.item
      [] t.is = "wrapped" -> RawItem(t.of)
      [] t.is = "bounds" -> IF t.of = <<>> THEN None ELSE RawItem(t.of[1])
      [] OTHER -> None

RECURSIVE AllItems(_)
AllItems(t) ==
    CASE t.is = "item" -> {t.item} \cup UNION {AllItems(t.args[k]) : k \in DOMAIN t.args}
      [] t.is = "wrapped" -> AllItems(t.of)
      [] t.is \in {"several", "bounds"} -> UNION {AllItems(t.of[k]) : k \in DOMAIN t.of}
      [] t.is = "param" -> {}

TypeArguments(t) == IF t.is = "item" THEN t.args ELSE <<>>

(***************************************************************************)
(* convert_type and path_to_type.                                          *)
(***************************************************************************)
TypeFound(found, path, args) ==
    IF found = None THEN Resolved(Unresolved(path), args)
    ELSE IF found.is = "generic" THEN Parameter
    ELSE Resolved(found.item, args)

PathToType(b, s, path, args, ctx) ==
    IF Len(path) = 1 /\ path[1] \in ctx.generics THEN Parameter
    ELSE TypeFound(ResolvePath(b, s, path, "type", ctx), path, args)

RECURSIVE ConvertType(_, _, _, _)
ConvertType(b, s, t, ctx) ==
    LET Each(ts) == [k \in DOMAIN ts |-> ConvertType(b, s, ts[k], ctx)]
        Base(of) == IF of.is = "item" THEN Resolved(of.item, <<>>) ELSE of
    IN
    CASE t.is = "path" -> PathToType(b, s, t.path, Each(t.args), ctx)
      [] t.is = "wrapped" -> Wrapped(ConvertType(b, s, t.of, ctx))
      [] t.is = "several" -> Several(Each(t.of))
      [] t.is = "bounds" -> Bounded(Each(t.of))
      [] t.is = "qself" -> Base(ConvertType(b, s, t.of, ctx))

(***************************************************************************)
(* Facts about items are functions that only hold what was said.           *)
(***************************************************************************)
FactsAbout(facts, i) == IF i \in DOMAIN facts THEN facts[i] ELSE <<>>

Said(facts, i, value) == [j \in DOMAIN facts \cup {i} |-> IF j = i THEN value ELSE facts[j]]

WithTrait(b, i, trait) ==
    LET traits == FactsAbout(b.traits, i) IN
    IF Contains(traits, trait) THEN b ELSE [b EXCEPT !.traits = Said(@, i, Append(traits, trait))]

(***************************************************************************)
(* resolved_annotations and apply_item_annotations.  An attribute is       *)
(* [derive, path]; what a derive names is an implemented trait too.        *)
(***************************************************************************)
AttributeTarget(b, s, attr) ==
    LET alone == Len(attr.path) = 1
        Else(found, default) == IF found = None THEN default ELSE found.item
    IN  IF attr.derive /\ alone /\ attr.path[1] \in DOMAIN StdDerives THEN StdDerives[attr.path[1]]
        ELSE IF ~attr.derive /\ alone /\ attr.path[1] \in BuiltinAttributes THEN None
        ELSE Else(ResolvePath(b, s, attr.path, "macro", NoContext),
                  IF attr.derive THEN Unresolved(attr.path) ELSE None)

AnnotateWith(b, i, attr, target) ==
    LET noted == [b EXCEPT !.annotated = @ \cup {<<i, target>>}] IN
    IF target = None THEN b
    ELSE IF attr.derive /\ Kind(b, target) # "macro" THEN WithTrait(noted, i, target)
    ELSE noted

Annotate(b, s, i, attrs) ==
    FoldLeft(LAMBDA acc, attr : AnnotateWith(acc, i, attr, AttributeTarget(acc, s, attr)), b, attrs)

(***************************************************************************)
(* generics_of: [params, where], both of entries [name, bounds].  A where  *)
(* clause on anything but a parameter goes to the first parameter, and     *)
(* nowhere where there is none.                                            *)
(***************************************************************************)
NoGenerics == [params |-> <<>>, where |-> <<>>]

GenericNames(generics) == {p.name : p \in ToSet(generics.params)}

WithGenerics(ctx, generics) == [ctx EXCEPT !.generics = @ \cup GenericNames(generics)]

GenericBounds(b, s, generics, ctx) ==
    LET clauses == IF generics.params = <<>> THEN <<>> ELSE generics.params \o generics.where
        Types(clause) == {ConvertType(b, s, clause.bounds[k], WithGenerics(ctx, generics)) :
                            k \in DOMAIN clause.bounds}
    IN  UNION {Types(clauses[k]) : k \in DOMAIN clauses}

(***************************************************************************)
(* error_type_of: at most three aliases deep, and only through aliases     *)
(* whose target is already known.                                          *)
(***************************************************************************)
RECURSIVE ErrorTypeOf(_, _, _)
ErrorTypeOf(b, t, depth) ==
    IF t.is # "item" \/ depth > 3 THEN None
    ELSE IF t.item \in DOMAIN b.alias THEN ErrorTypeOf(b, b.alias[t.item], depth + 1)
    ELSE IF SimpleName(b, t.item) # "Result" THEN None
    ELSE IF Len(t.args) >= 2 THEN t.args[2]
    ELSE IF t.item \in DOMAIN StdErrors THEN Resolved(StdErrors[t.item], <<>>)
    ELSE None

IsConstructor(b, owner, sig, ret) ==
    /\ ~sig.receiver
    /\ ret # None
    /\ \/ RawItem(ret) = owner
       \/ /\ ret.is = "item"
          /\ SimpleName(b, ret.item) \in {"Option", "Result", "Box", "Rc", "Arc"}
          /\ ret.args # <<>>
          /\ RawItem(ret.args[1]) = owner

-----------------------------------------------------------------------------
(***************************************************************************)
(* Members.                                                                *)
(***************************************************************************)
Member(owner, kind, name, type) ==
    [owner |-> owner, kind |-> kind, name |-> name, type |-> type, params |-> <<>>, ret |-> None,
     error |-> None, receiver |-> FALSE, constructor |-> FALSE, bounds |-> {}]

AddMember(b, member) == [b EXCEPT !.members = Append(@, member)]

AddField(b, s, owner, kind, field, ctx) ==
    AddMember(b, Member(owner, kind, field.name, ConvertType(b, s, field.type, ctx)))

AddFields(b, s, owner, kind, fields, ctx) ==
    FoldLeft(LAMBDA acc, field : AddField(acc, s, owner, kind, field, ctx), b, fields)

(***************************************************************************)
(* add_code_unit: a signature [name, generics, receiver, params, ret, body *)
(* and attrs].  A function with a body leaves a job for the visitor.       *)
(***************************************************************************)
SignatureTypesOf(b, s, sig, ctx, inner) ==
    [params |-> [k \in DOMAIN sig.params |-> ConvertType(b, s, sig.params[k].type, inner)],
     ret |-> IF sig.ret = None THEN None ELSE ConvertType(b, s, sig.ret, inner),
     bounds |-> GenericBounds(b, s, sig.generics, ctx)]

CodeUnit(b, owner, sig, types) ==
    [Member(owner, "method", sig.name, None)
     EXCEPT !.params = types.params, !.ret = types.ret,
            !.error = IF types.ret = None THEN None ELSE ErrorTypeOf(b, types.ret, 0),
            !.receiver = sig.receiver,
            !.constructor = IsConstructor(b, owner, sig, types.ret),
            !.bounds = types.bounds]

LocalsOf(sig, types, self) ==
    LET Named[k \in 0 .. Len(sig.params)] ==
            IF k = 0 THEN <<>> ELSE Said(Named[k - 1], sig.params[k].name, types.params[k])
    IN  IF sig.receiver /\ self # None THEN Said(Named[Len(sig.params)], "self", Resolved(self, <<>>))
        ELSE Named[Len(sig.params)]

Job(member, s, ctx, locals, body) ==
    [member |-> member, scope |-> s, ctx |-> ctx, locals |-> locals, body |-> body]

AddTypedUnit(b, s, owner, sig, inner, types) ==
    [b EXCEPT !.members = Append(@, CodeUnit(b, owner, sig, types)),
              !.bodies = IF sig.body = None THEN @
                         ELSE Append(@, Job(Len(b.members) + 1, s, inner,
                                            LocalsOf(sig, types, inner.self), sig.body)),
              !.annotated = @ \cup {p \in {<<owner, AttributeTarget(b, s, a)>> : a \in ToSet(sig.attrs)} :
                                       p[2] # None}]

AddCodeUnit(b, s, owner, sig, ctx) ==
    LET inner == WithGenerics(ctx, sig.generics) IN
    AddTypedUnit(b, s, owner, sig, inner, SignatureTypesOf(b, s, sig, ctx, inner))

AddCodeUnits(b, s, owner, sigs, ctx) ==
    FoldLeft(LAMBDA acc, sig : AddCodeUnit(acc, s, owner, sig, ctx), b, sigs)

-----------------------------------------------------------------------------
(***************************************************************************)
(* resolve_signature, by the kind of the item.                             *)
(***************************************************************************)
Of(i, generics) == [self |-> i, generics |-> GenericNames(generics)]

WithBounds(b, s, i, d, ctx) ==
    [b EXCEPT !.bounds = Said(@, i, GenericBounds(b, s, d.generics, ctx))]

StructSignature(b, s, i, d) ==
    AddFields(WithBounds(b, s, i, d, Of(i, NoGenerics)), s, i, "field", d.fields, Of(i, d.generics))

(***************************************************************************)
(* The fields of a variant are members named after it: no access by name   *)
(* finds them.                                                             *)
(***************************************************************************)
EnumSignature(b, s, i, d) ==
    FoldLeft(LAMBDA acc, v :
                AddFields([AddMember(acc, Member(i, "variant", v.name, None))
                           EXCEPT !.variants = @ \cup {<<i, v.name>>}],
                          s, i, "variant field", v.fields, Of(i, d.generics)),
             WithBounds(b, s, i, d, Of(i, NoGenerics)), d.variants)

TraitSignature(b, s, i, d) ==
    LET ctx == Of(i, d.generics)
        supers == SelectSeq([k \in DOMAIN d.supers |-> RawItem(ConvertType(b, s, d.supers[k], ctx))],
                            LAMBDA t : t # None)
        known == [WithBounds(b, s, i, d, Of(i, NoGenerics)) EXCEPT !.supers = Said(@, i, supers)]
    IN  AddFields(AddCodeUnits(known, s, i, d.methods, ctx), s, i, "const", d.consts, ctx)

AliasSignature(b, s, i, d) ==
    LET known == WithBounds(b, s, i, d, Of(i, NoGenerics)) IN
    [known EXCEPT !.alias = Said(@, i, ConvertType(b, s, d.type, Of(None, d.generics)))]

ConstSignature(b, s, i, d) ==
    [b EXCEPT !.type = Said(@, i, ConvertType(b, s, d.type, Of(i, NoGenerics)))]

SameBounds(b, i) == [b EXCEPT !.bounds = Said(@, i, Last(b.members).bounds)]

FnSignature(b, s, i, d) == SameBounds(AddCodeUnit(b, s, i, d.sig, Of(None, NoGenerics)), i)

(***************************************************************************)
(* The members of an impl belong to its self type when that is imported,   *)
(* and to the impl otherwise.                                              *)
(***************************************************************************)
ImplOwner(b, i, self) == IF self # None /\ FullyImported(b, self) THEN self ELSE i

ImplMembers(b, s, owner, d, ctx) ==
    AddFields(AddFields(AddCodeUnits(b, s, owner, d.methods, ctx), s, owner, "const", d.consts, ctx),
              s, owner, "type", d.types, ctx)

ImplOf(b, s, i, d, type, trait, self) ==
    LET owner == ImplOwner(b, i, self)
        known == [WithBounds(b, s, i, d, NoContext)
                  EXCEPT !.impl = Said(@, i, [type |-> type, trait |-> trait])]
        implementing == IF trait = None \/ self = None THEN known
                        ELSE WithTrait(WithTrait(known, self, trait), owner, trait)
    IN  ImplMembers(implementing, s, owner, d, Of(IF self = None THEN i ELSE self, d.generics))

TraitOf(b, s, d, ctx) ==
    LET Written(trait) == IF trait = None THEN Unresolved(d.trait.path) ELSE trait IN
    IF d.trait = None THEN None ELSE Written(RawItem(ConvertType(b, s, d.trait, ctx)))

ImplTyped(b, s, i, d, type, trait) == ImplOf(b, s, i, d, type, trait, RawItem(type))

ImplSignature(b, s, i, d) ==
    LET ctx == Of(None, d.generics) IN
    ImplTyped(b, s, i, d, ConvertType(b, s, d.self, ctx), TraitOf(b, s, d, ctx))

SignatureOfKind(b, s, i, d) ==
    CASE d.kind = "struct" -> StructSignature(b, s, i, d)
      [] d.kind = "enum" -> EnumSignature(b, s, i, d)
      [] d.kind = "trait" -> TraitSignature(b, s, i, d)
      [] d.kind = "alias" -> AliasSignature(b, s, i, d)
      [] d.kind = "const" -> ConstSignature(b, s, i, d)
      [] d.kind = "fn" -> FnSignature(b, s, i, d)
      [] d.kind = "macro" -> b
      [] d.kind = "impl" -> ImplSignature(b, s, i, d)

ResolveSignature(b, s, i, d) ==
    IF d.kind = "module" THEN b ELSE SignatureOfKind(Annotate(b, s, i, d.attrs), s, i, d)
=============================================================================
