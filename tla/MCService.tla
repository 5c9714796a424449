------------------------------- MODULE MCService -------------------------------
(* The LIVE service with the fairness of its scheduling, and what is       *)
(* computed of the generations it serves: the service and the graph        *)
(* analytics share no state here - their generations are facts or only     *)
(* numbers - so one of them moves and the other rests.                     *)
EXTENDS CanonicalServer, TLC

(* Facts for the graph analytics: four modules, of which the first defines *)
(* two artifacts and the second one; every graph of some edges, and every  *)
(* use of the artifacts by some modules - the definer itself among them,   *)
(* which a module that imports itself is.                                  *)
GraphModules == 1 .. 4
GraphArtifacts == 1 .. 3
GraphDefiner(k) == IF k = 3 THEN 2 ELSE 1
GraphLayer(m) == m \div 3
OneHalf == <<1, 2>>

Uses(calls, imports) == [direct_calls |-> calls, api_imports |-> imports]
NoUse == [k \in GraphArtifacts |-> Uses({}, {})]
FirstOnSecond == [m \in GraphModules |-> IF m = 1 THEN {2} ELSE {}]

GraphFacts ==
    {[usage |-> NoUse, edges |-> (1 :> w @@ 2 :> x @@ 3 :> y @@ 4 :> z), scope |-> GraphModules] :
        w \in SUBSET {2, 3, 4}, x \in SUBSET {1, 3, 4}, y \in SUBSET {2, 4}, z \in {{}, {1, 4}}}
    \cup {[usage |-> [k \in GraphArtifacts |->
                        IF k = 1 THEN Uses(x, {}) ELSE IF k = 2 THEN Uses({}, y) ELSE Uses(z, {1})],
           edges |-> FirstOnSecond, scope |-> {1, 3}] :
             x, y \in SUBSET GraphModules, z \in {{}, {2, 3}, {2, 3, 4}}}

VARIABLES focus, facts, report, measured

Graph == INSTANCE GraphAnalytics WITH
    AnalysedModule <- GraphModules, Artifact <- GraphArtifacts, Definer <- GraphDefiner,
    LayerOf <- GraphLayer, FactSets <- GraphFacts, MinJaccard <- OneHalf, MaxCluster <- 3,
    MaxShared <- 1, SampleLimit <- 3, RankIterations <- 2, state <- measured

graphVars == <<facts, report, measured>>
allVars == <<focus, vars, graphVars>>

GraphAtRest == facts = 0 /\ report = 0 /\ measured = 0

ServingInit ==
    /\ focus \in {"server", "graph"}
    /\ Init
    /\ IF focus = "graph" THEN Graph!GraphInit ELSE GraphAtRest

ServerOnly == focus = "server" /\ UNCHANGED <<focus, graphVars>>
GraphOnly == focus = "graph" /\ UNCHANGED <<focus, vars>>

ServingNext ==
    \/ ServerOnly /\ Next
    \/ GraphOnly /\ Graph!GraphNext

(* The fairness of FairSpec, for the service that moves.                   *)
ServingSpec ==
    /\ ServingInit /\ [][ServingNext]_allVars
    /\ WF_allVars(ServerOnly /\ WorkerStep)
    /\ SF_allVars(ServerOnly /\ WorkerLine) /\ SF_allVars(ServerOnly /\ WorkerPublish)
    /\ WF_allVars(ServerOnly /\ (ThreadStep(Service) \/ VerifyAdmit \/ VerifyRefused \/ VerifyCompare))
    /\ WF_allVars(ServerOnly /\ Finalize)
    /\ \A a \in Analysis :
        /\ WF_allVars(ServerOnly /\ AnalysisEnter(a))
        /\ WF_allVars(ServerOnly /\ (CommitAnalysis(a) \/ AnalysisFails(a)))
        /\ WF_allVars(ServerOnly /\ Connect(a)) /\ WF_allVars(ServerOnly /\ Settling(a))
    /\ WF_allVars(ServerOnly /\ (DesktopCompare \/ DesktopEnter \/ DesktopSkips
                                   \/ DesktopPublish \/ DesktopRelease))

(* The measures of the reports are what they are called, and those of the  *)
(* canonical state are the same (graph_analytics.py).                      *)
AnalyticsAreTrue == focus = "graph" => Graph!AnalyticsAreTrue
================================================================================
