-------------------------------- MODULE MCTexts --------------------------------
(* The texts of small repositories.                                        *)
(*                                                                         *)
(* Programs in which imports go round: a package p with a module p.b and a *)
(* module a, and two flat modules a and c.                                 *)
EXTENDS ImportSyntax, TLC

pkg == <<"p">>
pkgB == <<"p", "b">>
modA == <<"a">>
modC == <<"c">>

PackageSources == {
    <<Import(modA, ""), Binding("x")>>,
    <<Binding("x"), Import(<<"os">>, "")>>,
    <<Binding("x"), Import(modA, "")>>,
    <<FromImport(pkg, OneName("b", "b"))>>,
    <<FromImport(modA, OneName("y", "y")), Binding("x")>>,
    <<Binding("x"), FromImport(pkg, TwoNames("b", "x"))>>,
    <<Binding("b")>>,
    <<Binding("b"), Import(modA, "")>>,
    <<Binding("x"), Import(modA, "b")>>,
    <<Function("f", <<FromImport(modA, OneName("y", "y"))>>), CallOf("f"), Binding("x")>>,
    <<Function("f", <<Import(modA, "")>>), Binding("x"), CallOf("f"), CallOf("f")>>,
    <<ClassOf("k", <<FromImport(modA, OneName("y", "x"))>>)>>,
    <<IfOf("main", <<OtherStatement>>, <<Import(pkgB, "m")>>), AliasOf("x", "m")>>,
    <<>>,
    <<FromImport(pkg, TwoNames("x","b")), OtherStatement>>}

ChildSources == {
    <<>>,
    <<FromImport(pkg, OneName("x", "z"))>>,
    <<Import(modA, ""), AttributeOf("z", "a", "y")>>,
    <<Import(pkg, ""), AttributeOf("z", "p", "x")>>,
    <<FromImport(pkg, TwoNames("b", "x"))>>,
    <<Binding("w"), FromImport(modA, OneName("y", "z"))>>}

ModuleSources == {
    <<FromImport(pkg, OneName("b", "b")), Binding("y")>>,
    <<Binding("y"), FromImport(pkg, OneName("x", "x"))>>,
    <<Import(pkgB, ""), Binding("y")>>,
    <<Binding("y"), Import(pkgB, "m"), AttributeOf("v", "m", "w")>>,
    <<FromImport(pkg, TwoNames("x", "b")), Binding("y")>>,
    <<Binding("y"), Import(pkgB, ""), AttributeOf("v", "p", "b")>>,
    <<Binding("y"), FromImport(pkg, OneName("b", "m")), AttributeOf("v", "m", "w")>>,
    <<FromImport(pkgB, OneName("w", "y"))>>,
    <<ClassOf("y", <<Import(pkg, "q"), Binding("r")>>)>>}

FlatSources == {
    <<Import(modC, ""), Binding("y")>>,
    <<Binding("y"), Import(modC, ""), AttributeOf("v", "c", "y")>>,
    <<FromImport(modC, OneName("y", "y"))>>,
    <<Binding("y"), FromImport(modC, TwoNames("c", "y")), AttributeOf("v", "y", "z")>>,
    <<Import(modC, "y")>>,
    <<Binding("y"), FromImport(modC, OneName("y", "w")), AttributeOf("v", "w", "y")>>,
    <<Import(modA,"y"), AliasOf("v","y")>>}

OtherFlatSources == {
    <<Import(modA, ""), Binding("y")>>,
    <<Binding("y"), Import(modA, ""), AttributeOf("v", "a", "y")>>,
    <<FromImport(modA, OneName("y", "y"))>>,
    <<Binding("y"), FromImport(modA, TwoNames("y", "v"))>>,
    <<Import(modA, "y")>>,
    <<Binding("y"), FromImport(modA, OneName("y", "w")), AttributeOf("v", "w", "y")>>}

OrderPrograms ==
    {(pkg :> x) @@ (pkgB :> y) @@ (modA :> z) :
        x \in PackageSources, y \in ChildSources, z \in ModuleSources}
    \cup {(modA :> x) @@ (modC :> y) : x \in FlatSources, y \in OtherFlatSources}

OrderPackages == {pkg}
OrderMembers(prog) == IF modC \in DOMAIN prog THEN <<modA, modC>> ELSE <<modA, pkg, pkgB>>

-------------------------------------------------------------------------------
(* For lineage, three modules in three texts each.  The first defines a    *)
(* function f, then gives it another parameter, then is too large.  The    *)
(* second exports names of the others, then has an f of its own that       *)
(* calls theirs, then does not parse.  The third calls the first, then     *)
(* both, and at last defines a function twice and a class beside it.       *)

LineageFunction(signature) == [name |-> "f", kind |-> "function", signature |-> signature]
LineageClass == [name |-> "g", kind |-> "class", signature |-> {}]
Reexport(name, m, target) == [name |-> name, target |-> <<m, target>>]
PlainText == [defs |-> {}, calls |-> {}, reexports |-> {}, parses |-> TRUE, limited |-> FALSE]

LibraryText(v) ==
    [PlainText EXCEPT !.defs = {LineageFunction(IF v = 2 THEN {"p", "q"} ELSE {"p"})}, !.limited = (v = 3)]

FacadeText(v) ==
    IF v = 1 THEN [PlainText EXCEPT !.reexports = {Reexport("f", 3, "g"), Reexport("g", 1, "f")}]
    ELSE IF v = 2 THEN [PlainText EXCEPT !.defs = {LineageFunction({})}, !.calls = {<<1, "f">>, <<3, "f">>},
                                         !.reexports = {Reexport("g", 3, "h")}]
    ELSE [PlainText EXCEPT !.parses = FALSE]

ApplicationText(v) ==
    IF v = 1 THEN [PlainText EXCEPT !.calls = {<<1, "f">>}, !.reexports = {Reexport("h", 2, "g")}]
    ELSE IF v = 2 THEN [PlainText EXCEPT !.calls = {<<2, "f">>, <<1, "f">>}]
    ELSE [PlainText EXCEPT !.defs = {LineageFunction({"p"}), LineageFunction({"q"}), LineageClass}]

LineageText(m, v) ==
    IF m = 1 THEN LibraryText(v) ELSE IF m = 2 THEN FacadeText(v) ELSE ApplicationText(v)
===============================================================================
