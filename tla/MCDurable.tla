------------------------------ MODULE MCDurable ------------------------------
(* What the runtime keeps on disk and what is read back from it, one       *)
(* component at a time: the identity registry, the snapshot store, the     *)
(* authority trace, the event feed, the cache of the source index, the     *)
(* generations of the analysis, its model of import cycles and its lineage *)
(* facts share no state: one moves, the others rest.                       *)
EXTENDS RegistryTransaction, CanonicalStore, EventFeed, AuthorityTrace, SourceIndex, FullAnalysis,
        LineageFacts, MCTexts

CONSTANTS
    a, b, x, bad

(* The lineage of two sources, and the same without that of the second.    *)
TwoOrOne == {[s \in Source |-> x], [s \in Source |-> IF s = a THEN x ELSE Missing]}

Sources ==
    {[id |-> "guarded", parses |-> TRUE, guarded |-> TRUE, opaque |-> FALSE, bytes |-> 1],
     [id |-> "opaque", parses |-> TRUE, guarded |-> FALSE, opaque |-> TRUE, bytes |-> 2],
     [id |-> "broken", parses |-> FALSE, guarded |-> FALSE, opaque |-> FALSE, bytes |-> 1]}
TypeOnlyOf(v) == IF v = 3 THEN 2 ELSE 1
SchemaOf(v, k) == IF k = "collisions" /\ v = 2 THEN 2 ELSE 1

(* Modules 1 and 2 import each other until the second text of 2; 1 names   *)
(* the submodule 3, whose file the third text takes away, as that of 1 is  *)
(* not evaluated and that of 2 does not parse.                             *)
HardImports(m, v) == IF m = 1 THEN {2} ELSE IF m = 2 /\ v # 2 THEN {1} ELSE {}
PackagesAbove(m) == {}
NamedChildren(m, v) == IF m = 1 THEN {3} ELSE {}
WithinLimits(m, v) == ~(m = 1 /\ v = 3)
Modelled(m, v) == ~(m = 3 /\ v = 2)
Exists(m, v) == ~(m = 3 /\ v = 3)
Compiles(m, v) == ~(m = 2 /\ v = 3)
AllFirst == [m \in Module |-> 1]

UserSymmetry == Permutations(User)

VARIABLES
    focus       \* the component that moves

VARIABLES program, entry, todo, compiled, model, python, verdicts

Order == INSTANCE ImportOrder WITH
    ImportProgram <- OrderPrograms, Package <- OrderPackages, Cyclic <- OrderMembers

orderVars == <<program, entry, todo, compiled, model, python, verdicts>>
durableVars ==
    <<focus, swallowed, vars, storeVars, feedVars, traceVars, indexVars, analysisVars, orderVars,
      lineageVars>>

OrderAtRest ==
    /\ program = 0 /\ entry = 0 /\ todo = 0 /\ compiled = 0
    /\ model = 0 /\ python = 0 /\ verdicts = 0

DurableInit ==
    /\ focus \in {"registry", "store", "feed", "trace", "index", "analysis", "order",
                 "names"}
    /\ RegistryInit /\ StoreInit /\ FeedInit /\ TraceInit /\ IndexInit /\ FullInit
    /\ LineageInit
    /\ IF focus = "order" THEN Order!OrderInit ELSE OrderAtRest
    \* one file is edited, from the first of the texts
    /\ text[a].id = "guarded" /\ (focus # "index" => text[b].id = "guarded")

DurableNext ==
    /\ UNCHANGED focus
    /\ \/ focus = "registry" /\ RegistryNext
          /\ UNCHANGED <<storeVars, feedVars, traceVars, indexVars, analysisVars, orderVars, lineageVars>>
       \/ focus = "store" /\ StoreNext
          /\ UNCHANGED <<swallowed, vars, feedVars, traceVars, indexVars, analysisVars, orderVars, lineageVars>>
       \/ focus = "feed" /\ FeedNext
          /\ UNCHANGED <<swallowed, vars, storeVars, traceVars, indexVars, analysisVars, orderVars, lineageVars>>
       \/ focus = "trace" /\ TraceNext
          /\ UNCHANGED <<swallowed, vars, storeVars, feedVars, indexVars, analysisVars, orderVars, lineageVars>>
       \/ focus = "index" /\ IndexNext /\ text'[b] = text[b]
          /\ UNCHANGED <<swallowed, vars, storeVars, feedVars, traceVars, analysisVars, orderVars, lineageVars>>
       \/ focus = "analysis" /\ FullNext
          /\ UNCHANGED <<swallowed, vars, storeVars, feedVars, traceVars, indexVars, orderVars, lineageVars>>
       \/ focus = "order" /\ Order!OrderNext
          /\ UNCHANGED <<swallowed, vars, storeVars, feedVars, traceVars, indexVars, analysisVars,
                         lineageVars>>
       \/ focus = "names" /\ LineageNext
          /\ UNCHANGED <<swallowed, vars, storeVars, feedVars, traceVars, indexVars, analysisVars,
                         orderVars>>

DurableSpec == DurableInit /\ [][DurableNext]_durableVars

(* What the import model says of a program is what Python does with it     *)
(* (package_model.py, evaluate_package_import_order).                      *)
ModelIsPython == focus = "order" => Order!ModelIsPython
=============================================================================
