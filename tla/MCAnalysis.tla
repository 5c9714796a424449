------------------------------ MODULE MCAnalysis ------------------------------
(* Small repositories for the incremental engine: a module c, a package p  *)
(* that may hand on what c defines, and a user u of either.                *)
EXTENDS IncrementalEngine

C == <<"c">>
D == <<"d">>
P == <<"p", "__init__">>
U == <<"u">>

From(module, names) ==
  [module |-> module, level |-> 0, names |-> names, isFrom |-> TRUE, typeOnly |-> FALSE]

Source(imports, defs, uses, layout) ==
  [imports |-> imports, defs |-> defs, all |-> NoAll, uses |-> uses, layout |-> layout]

Leaf(defs, layout) == Source(<<>>, defs, {}, layout)

UserOfP == Source(<<From(<<"p">>, {"f"})>>, {}, {<<"f">>}, 1)
UserOfC == Source(<<Named(<<"c">>)>>, {}, {<<"c", "f">>}, 1)
HandsOn == Source(<<From(<<"c">>, {"f"})>>, {}, {}, 1)
HandsOnAll == Source(<<From(<<"c">>, {"*"})>>, {}, {}, 1)
HandsOnBoth == Source(<<From(<<"c">>, {"*"}), From(<<"d">>, {"*"})>>, {}, {}, 1)
HandsOnD == Source(<<From(<<"d">>, {"*"})>>, {}, {}, 1)

OneStar ==
  C :> {Leaf({"f"}, 1), Leaf({"f"}, 2), Leaf({"f", "g"}, 1)} @@
  P :> {HandsOn, HandsOnAll} @@
  U :> {UserOfP}
OneStarEdited == {C, P}
OneStarOrder == <<C, P, U>>
OneStarStart == C :> Leaf({"f"}, 1) @@ P :> HandsOn @@ U :> UserOfP

TwoStars ==
  C :> {Leaf({"f"}, 1)} @@ D :> {Leaf({"g"}, 1)} @@
  P :> {HandsOnBoth, HandsOnD} @@ U :> {UserOfP}
TwoStarsEdited == {P}
TwoStarsOrder == <<C, D, P, U>>
TwoStarsStart == C :> Leaf({"f"}, 1) @@ D :> Leaf({"g"}, 1) @@ P :> HandsOnBoth @@ U :> UserOfP

(* Whatever is edited, an update leaves what a fresh full analysis makes:  *)
(* tests/test_incremental_multi_mutation_full_parity.py states it of its   *)
(* cases, test_case_e_reexport_retarget_matches_fresh_full among them.     *)
UpdatedEqualsAnalysed == MatchesFull
===============================================================================
