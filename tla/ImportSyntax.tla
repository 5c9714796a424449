------------------------------ MODULE ImportSyntax ------------------------------
(* The statements of a Python source that the order of imports depends on: *)
(* imports, bindings, reads of an attribute, definitions and their calls.  *)
(* Every other statement is "other", one without effect on names "pass".   *)
EXTENDS Sequences

Blank == [op |-> "pass", target |-> <<>>, members |-> <<>>, name |-> "", of |-> "",
          symbol |-> "", body |-> <<>>, orelse |-> <<>>, local |-> FALSE]
Import(target, name) == [Blank EXCEPT !.op = "import", !.target = target, !.name = name]
FromImport(target, members) == [Blank EXCEPT !.op = "from", !.target = target, !.members = members]

OneName(s, n) == <<[symbol |-> s, name |-> n]>>
TwoNames(s, t) == <<[symbol |-> s, name |-> s], [symbol |-> t, name |-> t]>>
Binding(n) == [Blank EXCEPT !.op = "bind", !.name = n]
AliasOf(n, of) == [Blank EXCEPT !.op = "alias", !.name = n, !.of = of]
AttributeOf(n, of, s) == [Blank EXCEPT !.op = "attr", !.name = n, !.of = of, !.symbol = s]
Function(n, body) == [Blank EXCEPT !.op = "def", !.name = n, !.body = body]
ClassOf(n, body) == [Blank EXCEPT !.op = "class", !.name = n, !.body = body]
CallOf(n) == [Blank EXCEPT !.op = "call", !.of = n]
IfOf(t, x, y) == [Blank EXCEPT !.op = "if", !.symbol = t, !.body = x, !.orelse = y]
OtherStatement == [Blank EXCEPT !.op = "other"]
================================================================================
