--------------------------- MODULE MCScanPipeline ---------------------------
(* Four files of one language: a library, a second library that may define *)
(* the same names, a package that re-exports, and a test that uses them.   *)
(* A file of another language may join them and defines such names too.    *)
EXTENDS ScanPipeline

MCFiles  == {"lib", "alt", "pkg", "app", "geo"}
MCTypes  == {"C", "D"}
MCAttrs  == {"x"}
MCNames  == {"f", "run", "main", "get"}
MCFamily == [f \in MCFiles |-> IF f = "geo" THEN "rs" ELSE "py"]
MCStem   == [f \in MCFiles |-> f]
MCNear   == [f \in MCFiles |-> [g \in MCFiles |-> IF {f, g} = {"lib", "pkg"} THEN 1 ELSE 0]]

Callable(name, in, returns) ==
  [name |-> name, kind |-> "function", in |-> in, impl |-> None, bases |-> {}, returns |-> returns]
Class(name, bases) ==
  [name |-> name, kind |-> "class", in |-> None, impl |-> None, bases |-> bases, returns |-> {}]
Use(by, form, name, recv) ==
  [by |-> by, form |-> form, name |-> name, recv |-> recv, qual |-> <<{}, {}>>]
Source(defs, imports, uses, snap) ==
  [defs |-> defs, imports |-> imports, aliases |-> {}, impls |-> {}, uses |-> uses, snap |-> snap]

Ret(m)   == <<"return", m, "f">>
FieldX(t) == <<"field", t, "x">>
Snap(facts, needs, parents, reexports) ==
  [facts |-> facts, needs |-> needs, parents |-> parents, reexports |-> reexports]

\* class C with a method and a field; f returns a C, or a D that it does not define.
Lib1 == Source({Class("C", {}), Callable("run", "C", {}), Callable("f", None, {"C"})}, {}, {},
             Snap({<<Ret("lib"), "C">>, <<FieldX("C"), "D">>}, {}, {}, {}))
Lib2 == Source({Class("C", {"D"}), Callable("f", None, {"D"})}, {}, {},
             Snap({<<Ret("lib"), "D">>}, {}, {<<"C", "D">>}, {}))
\* class D with a method, and perhaps a field.
Alt(facts) == Source({Class("D", {}), Callable("run", "D", {})}, {}, {}, Snap(facts, {}, {}, {}))
\* The package takes f from the library, or has its own.
Pkg1 == Source({}, {[name |-> "f", module |-> "lib", stem |-> "lib"]}, {},
             Snap({}, {Ret("lib"), <<"global", "lib", "f">>}, {}, {<<Ret("lib"), Ret("pkg")>>}))
Pkg2 == Source({Callable("f", None, {"D"})}, {}, {}, Snap({<<Ret("pkg"), "D">>}, {}, {}, {}))
\* The application calls f, runs what f returns and what its field x holds, and
\* calls a package outside the project.
App1 == [Source({Callable("main", None, {})}, {[name |-> "f", module |-> "pkg", stem |-> "pkg"]},
             {Use(<<None, "main">>, "bare", "f", <<None>>),
              Use(<<None, "main">>, "member", "run", <<"key", Ret("pkg")>>),
              Use(<<None, "main">>, "member", "run", <<"path", Ret("pkg"), "x">>),
              Use(<<None, "main">>, "member", "get", <<"external", "http">>),
              Use(<<None, "main">>, "attribute", "run", <<"key", Ret("lib")>>),
              Use(<<None, "main">>, "member", "f", <<"module", "lib">>),
              Use(<<None, "main">>, "callback", "f", <<None>>)},
             Snap({}, {Ret("pkg"), Ret("lib"), <<"global", "pkg", "f">>, AnyOwner("x")}, {}, {}))
         EXCEPT !.aliases = {<<"lib", "lib">>}]

\* In Rust: impl C for D { fn run { self.get(); geo::main() }  fn get }, fn main.
Method(name, type) == [Callable(name, None, {}) EXCEPT !.impl = type]
Geo1 == [Source({[Class("C", {}) EXCEPT !.kind = "trait"], [Class("D", {}) EXCEPT !.kind = "struct"],
               Method("run", "D"), Method("get", "D"), Callable("main", None, {})}, {},
              {Use(<<"D", "run">>, "member", "get", <<"this">>),
               [Use(<<"D", "run">>, "path", "main", <<None>>) EXCEPT !.qual = <<{"geo"}, {}>>]},
              Snap({}, {}, {}, {})) EXCEPT !.impls = {<<"C", "D">>}]

MCTextIds == {"L1", "L2", "A1", "A2", "P1", "P2", "M1", "G1"}
MCContent == [t \in MCTextIds |->
  CASE t = "L1" -> Lib1 [] t = "L2" -> Lib2 [] t = "A1" -> Alt({}) [] t = "A2" -> Alt({<<FieldX("D"), "C">>})
    [] t = "P1" -> Pkg1 [] t = "P2" -> Pkg2 [] t = "M1" -> App1 [] t = "G1" -> Geo1]
MCTextsOf == [f \in MCFiles |-> CASE f = "lib" -> {"L1", "L2", Absent} [] f = "alt" -> {"A1", "A2"}
                                  [] f = "pkg" -> {"P1", "P2"} [] f = "app" -> {"M1"}
                                  [] f = "geo" -> {"G1"}]
MCTrees   == {[f \in MCFiles |-> CASE f = "lib" -> "L1" [] f = "alt" -> "A1" [] f = "pkg" -> "P1"
                               [] f = "app" -> "M1" [] f = "geo" -> Absent]}
MCBatches == {{"lib"}, {"alt"}, {"pkg"}, {"lib", "geo"}}
MCRequests == (MCBatches \X {{}}) \union ({{}} \X MCBatches)
                \union {<<{}, {}>>, <<{"lib"}, {"alt"}>>, <<{"alt"}, {"lib"}>>, <<{"lib"}, {"pkg"}>>}
=============================================================================
