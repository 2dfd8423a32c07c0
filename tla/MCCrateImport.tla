--------------------------- MODULE MCCrateImport ---------------------------
(***************************************************************************)
(* Small programs.  The first ones are all combinations of use             *)
(* declarations in three modules; the others use most of the language the  *)
(* import knows, with the items of their modules in several orders.        *)
(***************************************************************************)
EXTENDS ImportMeaning

MCExternPrelude == [r \in {<<"app">>, <<"lib">>} |->
                       IF r = <<"app">> THEN [n \in {"lib", "serde"} |-> <<n>>] ELSE [n \in {"serde"} |-> <<n>>]]

MCStdPrelude ==
    [ns \in Namespaces |->
        CASE ns = "type" -> [n \in {"Option", "Result", "Vec", "Clone"} |-> Item(<<"std", n>>)]
          [] ns = "value" -> [n \in {"Some", "Ok", "drop"} |-> Item(<<"std", n>>)]
          [] ns = "macro" -> [n \in {"println"} |-> Item(<<"std", n>>)]]

MCPrimitives == {"u32", "str"}
MCStdDerives == [n \in {"Clone", "Debug"} |-> <<"std", n>>]
MCBuiltinAttributes == {"inline", "must_use"}
MCStdErrors == [p \in {<<"std", "io", "Result">>} |-> <<"std", "io", "Error">>]
MCStdTraitMethodNames == {"clone", "len", "next"}

-----------------------------------------------------------------------------
(***************************************************************************)
(* Texts.                                                                  *)
(***************************************************************************)
T(path) == Path(path, <<>>)
Name(n) == T(<<n>>)
Of1(n, t) == Path(<<n>>, <<t>>)

P(path) == [is |-> "path", path |-> path, types |-> <<>>]
X(n) == P(<<n>>)
Call(path, args) == [is |-> "call", of |-> P(path), args |-> args]
Method(of, name) == [is |-> "method", of |-> of, name |-> name, args |-> <<>>, types |-> <<>>]
Field(of, name) == [is |-> "field", of |-> of, name |-> name]
Let(name, init) == [is |-> "let", name |-> name, type |-> None, init |-> init]
LetTyped(name, type, init) == [is |-> "let", name |-> name, type |-> type, init |-> init]
Block(stmts) == [is |-> "block", stmts |-> stmts]
Closure(params, of) == [is |-> "closure", params |-> params, of |-> of]
Struct(path, args) == [is |-> "struct", path |-> path, args |-> args]
Macro(path, args) == [is |-> "macro", path |-> path, args |-> args]
Assign(left, right) == [is |-> "assign", assigns |-> TRUE, left |-> left, right |-> right]
Add(left, right) == [is |-> "assign", assigns |-> FALSE, left |-> left, right |-> right]
Borrow(of) == [is |-> "borrow", mutable |-> TRUE, of |-> of]
Deref(of) == [is |-> "deref", of |-> of]
Try(of) == [is |-> "try", of |-> of]
Await(of) == [is |-> "await", of |-> of]
Cast(of, type) == [is |-> "cast", of |-> of, type |-> type]
Match(of, arms) == [is |-> "match", of |-> of, arms |-> arms]
Arm(path, of) == [path |-> path, binding |-> FALSE, of |-> of]
Otherwise(n, of) == [path |-> <<n>>, binding |-> TRUE, of |-> of]
Literal == [is |-> "literal"]

Typed(name, type) == [name |-> name, type |-> type]
Params(names) == [params |-> names, where |-> <<>>]
WithBound(name, bounds) == [name |-> name, bounds |-> bounds]

Fn(name, params, ret, body) ==
    [name |-> name, generics |-> NoGenerics, receiver |-> FALSE, params |-> params, ret |-> ret,
     body |-> body, attrs |-> <<>>]
OnSelf(name, params, ret, body) == [Fn(name, params, ret, body) EXCEPT !.receiver = TRUE]

Nothing ==
    [kind |-> "struct", name |-> None, test |-> FALSE, file |-> FALSE, testFile |-> FALSE,
     inner |-> FALSE, items |-> <<>>, tree |-> None, prefix |-> <<>>, attrs |-> <<>>,
     generics |-> NoGenerics, fields |-> <<>>, tuple |-> FALSE, variants |-> <<>>, supers |-> <<>>,
     methods |-> <<>>, consts |-> <<>>, types |-> <<>>, self |-> None, trait |-> None, type |-> None,
     path |-> <<>>, sig |-> None, locals |-> <<>>]

Is(kind, name) == [Nothing EXCEPT !.kind = kind, !.name = name]
Mod(name, items) == [Is("module", name) EXCEPT !.items = items]
Use(tree) == [Is("use", None) EXCEPT !.tree = tree]
Func(name, params, ret, body) == [Is("fn", name) EXCEPT !.sig = Fn(name, params, ret, body)]
StructOf(name, fields) == [Is("struct", name) EXCEPT !.fields = fields]
Impl(self, methods) == [Is("impl", None) EXCEPT !.self = self, !.methods = methods]
ImplFor(trait, self, methods) == [Impl(self, methods) EXCEPT !.trait = trait]

Leaf(name) == [is |-> "name", name |-> name]
As(name, local) == [is |-> "rename", name |-> name, local |-> local]
All == [is |-> "glob"]
Group(of) == [is |-> "group", of |-> of]
At(path, leaf) ==
    LET Under[k \in 1 .. Len(path) + 1] ==
            IF k > Len(path) THEN leaf ELSE [is |-> "path", name |-> path[k], of |-> Under[k + 1]]
    IN  Under[1]

-----------------------------------------------------------------------------
(***************************************************************************)
(* m declares A and B; m, n and o use each other, by name, by glob, by     *)
(* re-export and in circles, before and after what they need is known.     *)
(***************************************************************************)
UsesInM == {Leaf("self"), At(<<"crate", "n">>, All), At(<<"super", "o">>, As("B", "C"))}

UsesInN ==
    {At(<<"crate", "m">>, Leaf("A")), At(<<"super", "m">>, All), At(<<"crate", "o">>, All),
     At(<<"crate", "o">>, Leaf("A")), At(<<"crate", "o">>, Group(<<Leaf("self"), Leaf("A"), Leaf("B")>>)),
     At(<<"o">>, All), At(<<"serde">>, All)}

UsesInO ==
    {At(<<"crate", "n">>, All), At(<<"crate", "n">>, Leaf("A")), At(<<"super", "m">>, Leaf("B")),
     At(<<"crate", "m">>, All), At(<<"crate", "n">>, Leaf("missing")),
     At(<<"crate", "n", "o">>, Leaf("B")), At(<<"serde", "de">>, Leaf("A"))}

UseConstants ==
  [k \in {"A", "B", "g", "h", "ua"} |->
        CASE k = "A" -> [StructOf("A", <<>>) EXCEPT !.tuple = TRUE]
          [] k = "B" -> StructOf("B", <<Typed("a", Name("A"))>>)
          [] k = "g" -> Func("g", <<Typed("x", Name("B"))>>, None, Field(X("x"), "a"))
          [] k = "h" -> Func("h", <<>>, Name("A"), X("A"))
          [] k = "ua" -> Use(At(<<"m">>, Leaf("A")))]

UseText(u, k) ==
        CASE k = "app" -> Mod("app", u.order)
          [] k = "m" -> Mod("m", <<"um", "A", "B">>)
          [] k = "n" -> Mod("n", <<"un1", "un2", "g">>)
          [] k = "o" -> Mod("o", <<"h", "uo1", "uo2">>)
          [] k = "um" -> Use(u.m)
          [] k = "un1" -> Use(u.n1)
          [] k = "un2" -> Use(u.n2)
          [] k = "uo1" -> Use(u.o1)
          [] k = "uo2" -> Use(u.o2)
          [] OTHER -> UseConstants[k]

UseProgram(order, m, n1, n2, o1, o2) ==
    [roots |-> <<"app">>, tests |-> FALSE,
     order |-> order, m |-> m, n1 |-> n1, n2 |-> n2, o1 |-> o1, o2 |-> o2]

UsePrograms ==
    {UseProgram(order, m, n, At(<<"super">>, As("o", "other")), o, At(<<"self">>, As("h", "k"))) :
        order \in {<<"n", "o", "m">>, <<"ua", "o", "m", "n">>}, m \in UsesInM, n \in UsesInN, o \in UsesInO}
    \cup
    {UseProgram(<<"o", "n", "m">>, Leaf("self"), n1, n2, o1, o2) :
        n1, n2 \in {At(<<"crate", "o">>, Leaf("A")), At(<<"crate", "m">>, As("B", "B")), At(<<"o">>, All)},
        o1, o2 \in {At(<<"crate", "n">>, Leaf("B")), At(<<"crate", "m">>, Leaf("A")), At(<<"crate", "n">>, All)}}

-----------------------------------------------------------------------------
(***************************************************************************)
(* A shop in three modules and a library crate: orders, their storage, and *)
(* an API that re-exports and renames.                                     *)
(*                                                                         *)
(*   mod domain {                                                          *)
(*       pub struct Order { line: Line, total: Option<Money> }             *)
(*       pub struct Line(u32);                                             *)
(*       pub enum Money { Euro, Coins { of: Line } }                       *)
(*       pub trait Store: Sized { const MAX: Line; fn save(&self, o: Order) -> Result<Order, Lost>; } *)
(*       impl Order { fn new() -> Self { Order { .. } }                    *)
(*                    fn line(&self) -> Line { self.line }                 *)
(*                    fn pay(&mut self, m: Money) -> Money { self.total = m; *self.total.unwrap() } } *)
(*   }                                                                     *)
(***************************************************************************)
DomainItems == <<"Order", "Line", "Money", "Store", "Lost", "impl Order">>

DomainText ==
  [k \in ToSet(DomainItems) |->
    CASE k = "Order" -> [StructOf("Order", <<Typed("line", Name("Line")), Typed("total", Of1("Option", Name("Money")))>>)
                         EXCEPT !.attrs = <<[derive |-> TRUE, path |-> <<"Clone">>],
                                            [derive |-> FALSE, path |-> <<"must_use">>]>>]
      [] k = "Line" -> [StructOf("Line", <<Typed("0", Name("u32"))>>) EXCEPT !.tuple = TRUE]
      [] k = "Money" -> [Is("enum", "Money") EXCEPT !.variants =
                            <<[name |-> "Euro", fields |-> <<>>],
                              [name |-> "Coins", fields |-> <<Typed("of", Name("Line"))>>]>>]
      [] k = "Store" -> [Is("trait", "Store") EXCEPT
                            !.supers = <<Name("Sized")>>,
                            !.consts = <<Typed("MAX", Name("Line"))>>,
                            !.methods = <<OnSelf("save", <<Typed("o", Name("Order"))>>,
                                                 Path(<<"Result">>, <<Name("Order"), Name("Lost")>>), None)>>]
      [] k = "Lost" -> StructOf("Lost", <<>>)
      [] k = "impl Order" ->
            Impl(Name("Order"),
                 <<Fn("new", <<>>, Name("Self"), Struct(<<"Self">>, <<Call(<<"Line">>, <<Literal>>), P(<<"Money", "Euro">>)>>)),
                   OnSelf("line", <<>>, Name("Line"), Block(<<Field(X("self"), "line")>>)),
                   OnSelf("pay", <<Typed("m", Name("Money"))>>, Name("Money"),
                          Block(<<Assign(Field(X("self"), "total"), X("m")),
                                  Deref(Method(Field(X("self"), "total"), "unwrap"))>>))>>)]

(***************************************************************************)
(*   mod infra {                                                           *)
(*       use super::domain::{self, Order, Store as Keep, Lost};            *)
(*       use lib::*;                                                       *)
(*       pub struct Db<T: Keep>(T);                                        *)
(*       pub type Saved = Result<Order, Lost>;                             *)
(*       const LIMIT: domain::Line = ..;                                   *)
(*       macro_rules! log { .. }                                           *)
(*       impl<T: Keep> Keep for Db<T> {                                    *)
(*           fn save(&self, o: Order) -> Saved {                           *)
(*               let o = o.line(); log!(o.0, LIMIT); fn helper() { Pool::open(); } helper(); audit } } *)
(*       fn audit(p: &Pool) { p.clone().size() }                           *)
(*       fn take() -> Pool { .. }                                          *)
(*       impl Keep for u32 { fn save(..) .. }                              *)
(*       #[cfg(test)] fn probe(d: domain::Money) { .. }                    *)
(*       log!();                                                           *)
(*   }                                                                     *)
(***************************************************************************)
InfraItems == <<"use domain", "use lib", "Db", "Saved", "LIMIT", "log", "impl Keep", "audit", "take", "impl for u32", "probe", "log!()">>

InfraText ==
  [k \in ToSet(InfraItems \o <<"helper", "use in body">>) |->
    CASE k = "use domain" -> Use(At(<<"super", "domain">>,
                                    Group(<<Leaf("self"), Leaf("Order"), As("Store", "Keep"), Leaf("Lost")>>)))
      [] k = "use lib" -> Use(At(<<"lib">>, All))
      [] k = "Db" -> [StructOf("Db", <<Typed("0", Name("T"))>>) EXCEPT
                         !.tuple = TRUE, !.generics = Params(<<WithBound("T", <<Name("Keep")>>)>>)]
      [] k = "Saved" -> [Is("alias", "Saved") EXCEPT !.type = Path(<<"Result">>, <<Name("Order"), Name("Lost")>>)]
      [] k = "LIMIT" -> [Is("const", "LIMIT") EXCEPT !.type = T(<<"domain", "Line">>)]
      [] k = "log" -> Is("macro", "log")
      [] k = "impl Keep" ->
            [ImplFor(Name("Keep"), Of1("Db", Name("T")),
                     <<OnSelf("save", <<Typed("o", Name("Order"))>>, Name("Saved"),
                              Block(<<Let("o", Method(X("o"), "line")),
                                      Macro(<<"log">>, <<Field(X("o"), "0"), X("LIMIT")>>),
                                      Call(<<"helper">>, <<P(<<"audit">>)>>)>>))>>)
             EXCEPT !.generics = Params(<<WithBound("T", <<Name("Keep")>>)>>), !.locals = <<"helper", "use in body">>]
      [] k = "helper" -> Func("helper", <<>>, None, Call(<<"Pool", "open">>, <<>>))
      [] k = "use in body" -> Use(At(<<"crate", "domain">>, Leaf("Money")))
      [] k = "audit" -> Func("audit", <<Typed("p", Wrapped(Name("Pool")))>>, None, Method(Method(X("p"), "clone"), "size"))
      [] k = "take" -> Func("take", <<>>, Name("Pool"), Literal)
      [] k = "impl for u32" -> ImplFor(Name("Keep"), Name("u32"),
                                       <<OnSelf("save", <<Typed("o", Name("Order"))>>, Name("Saved"), Literal)>>)
      [] k = "probe" -> [Func("probe", <<Typed("m", T(<<"domain", "Money">>))>>, None, Literal) EXCEPT !.test = TRUE]
      [] k = "log!()" -> [Is("invoke", None) EXCEPT !.path = <<"log">>]]

(***************************************************************************)
(*   mod api {                                                             *)
(*       pub use crate::domain::*;                                         *)
(*       use crate::infra::Db as Shop;                                     *)
(*       use crate::domain::Money::*;                                      *)
(*       fn handle<S: Store>(s: Shop<S>, line: Line) -> Result<Money, Lost> { *)
(*           let x = Order::new();                                         *)
(*           { let x: Shop<S> = s; x.save(Order::new()); }                 *)
(*           let paid = x.pay(Money::Euro);                                *)
(*           let f = |line: Order| line.line();                            *)
(*           match paid { Money::Coins => &mut x.line, other => line as Line, } *)
(*       }                                                                 *)
(*       fn first(orders: Option<Order>) -> Option<Line> {                 *)
(*           let order = orders?; order.total + Store::MAX; order.line().await } *)
(*       fn count() { let x = crate::infra::take(); { let x: u32 = 1; } x.size() } *)
(*       fn pair(p: (Order, <Line as Sized>::T)) -> Money {                *)
(*           *&mut p; Money::Coins { of: LIMIT }; Euro }                   *)
(*   }                                                                     *)
(*   #[cfg(test)] mod tests { use super::api::handle; }                    *)
(***************************************************************************)
ApiItems == <<"use all", "use Shop", "use Money", "handle", "first", "count", "pair">>

ApiText ==
  [k \in ToSet(ApiItems) |->
    CASE k = "use all" -> Use(At(<<"crate", "domain">>, All))
      [] k = "use Money" -> Use(At(<<"crate", "domain", "Money">>, All))
      [] k = "use Shop" -> Use(At(<<"crate", "infra">>, As("Db", "Shop")))
      [] k = "handle" ->
            [Is("fn", "handle") EXCEPT !.sig =
                [Fn("handle", <<Typed("s", Of1("Shop", Name("S"))), Typed("line", Name("Line"))>>,
                    Path(<<"Result">>, <<Name("Money"), Name("Lost")>>),
                    Block(<<Let("x", Call(<<"Order", "new">>, <<>>)),
                            Block(<<LetTyped("x", Of1("Shop", Name("S")), X("s")), Method(X("x"), "save")>>),
                            Let("paid", Method(X("x"), "pay")),
                            Let("f", Closure(<<Typed("line", Name("Order"))>>, Method(X("line"), "line"))),
                            Match(X("paid"), <<Arm(<<"Money", "Coins">>, Borrow(Field(X("x"), "line"))),
                                               Otherwise("other", Cast(X("line"), Name("Line")))>>)>>))
                 EXCEPT !.generics = Params(<<WithBound("S", <<Name("Store")>>)>>)]]
      [] k = "first" ->
            Func("first", <<Typed("orders", Of1("Option", Name("Order")))>>, Of1("Option", Name("Line")),
                 Block(<<Let("order", Try(X("orders"))),
                         Add(Field(X("order"), "total"), P(<<"Store", "MAX">>)),
                         Await(Method(X("order"), "line"))>>))
      [] k = "count" ->
            Func("count", <<>>, None,
                 Block(<<Let("x", Call(<<"crate", "infra", "take">>, <<>>)),
                         Block(<<LetTyped("x", Name("u32"), Literal)>>),
                         Method(X("x"), "size")>>))
      [] k = "pair" ->
            Func("pair", <<Typed("p", Several(<<Name("Order"), QSelf(Name("Line"))>>))>>, Name("Money"),
                 Block(<<Deref(Borrow(X("p"))), Struct(<<"Money", "Coins">>, <<X("LIMIT")>>), X("Euro")>>))]

LibItems == <<"Pool", "Source", "impl Pool">>

LibText ==
  [k \in ToSet(LibItems) |->
    CASE k = "Pool" -> [StructOf("Pool", <<Typed("next", Bounded(<<Name("Source")>>))>>) EXCEPT
                           !.attrs = <<[derive |-> TRUE, path |-> <<"Debug">>], [derive |-> TRUE, path |-> <<"serde", "Ser">>]>>]
      [] k = "Source" -> Is("trait", "Source")
      [] k = "impl Pool" -> Impl(Name("Pool"), <<Fn("open", <<>>, Of1("Option", Name("Self")), Literal),
                                                 OnSelf("size", <<>>, Name("u32"), Literal)>>)]


OtherText ==
    DomainText @@ InfraText @@ ApiText @@ LibText
    @@ ("lib" :> [Mod("lib", LibItems) EXCEPT !.file = TRUE])
    @@ ("tests" :> [Mod("tests", <<"in tests">>) EXCEPT !.file = TRUE, !.inner = TRUE])
    @@ ("in tests" :> Use(At(<<"super", "api">>, Leaf("handle"))))

Orders(items) == {items, Reverse(items)}
                 \cup {SubSeq(items, k, Len(items)) \o SubSeq(items, 1, k - 1) : k \in {Len(items) \div 2}}

ShopText(s, k) ==
    CASE k = "app" -> [Mod("app", s.app) EXCEPT !.file = TRUE]
      [] k = "domain" -> [Mod("domain", s.domain) EXCEPT !.file = TRUE]
      [] k = "infra" -> Mod("infra", s.infra)
      [] k = "api" -> Mod("api", s.api)
      [] OTHER -> OtherText[k]

ShopPrograms ==
    [roots : {<<"lib", "app">>, <<"app">>}, tests : BOOLEAN,
     app : Orders(<<"infra", "api", "domain", "tests">>),
     domain : Orders(DomainItems), infra : Orders(InfraItems), api : Orders(ApiItems)]

MCPrograms == UsePrograms \cup ShopPrograms

MCText(p, key) == IF "order" \in DOMAIN p THEN UseText(p, key) ELSE ShopText(p, key)
=============================================================================
