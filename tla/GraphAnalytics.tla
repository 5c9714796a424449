---------------------------- MODULE GraphAnalytics ----------------------------
(***************************************************************************)
(* The measures of graph_analytics.py: the dependency matrix, the clusters *)
(* of modules that use the same artifacts, and the centralities. They are  *)
(* computed twice: for the reports from the artifact index, and for the    *)
(* canonical state from its consumption facts, with the clusters handed    *)
(* over from the reports when they are valid.                              *)
(*                                                                         *)
(* Modules are numbered in the order of their names, and no name is that   *)
(* of another and a dot: the state finds the artifacts of a module by that *)
(* prefix, and would count those of p.a as those of a file p.py beside p/. *)
(* Exact fractions stand for the rounded and normalised numbers of the     *)
(* code.                                                                   *)
(***************************************************************************)
EXTENDS Integers, FiniteSets, Sequences, SequencesExt, FiniteSetsExt

CONSTANTS
    AnalysedModule,  \* the modules, 1 .. n
    Artifact,        \* the artifacts they define
    Definer(_),      \* the module that defines an artifact
    LayerOf(_),      \* the layer of a module
    FactSets,        \* the facts: [usage, edges, scope]
    MinJaccard,      \* a fraction <<p, q>>
    MaxCluster,      \* modules in a cluster at most
    MaxShared,       \* shared artifacts a cluster lists
    SampleLimit,     \* sources betweenness starts from
    RankIterations   \* rounds of PageRank

VARIABLES
    facts,   \* usage of artifacts by channel, hard edges, a layer
    report,  \* the graph analytics of the reports, or nothing yet
    state    \* those of the canonical state, with their freshness

graphVars == <<facts, report, state>>

ConfirmedChannel == {"direct_calls", "api_imports"}
TypeOf(channel) == IF channel = "direct_calls" THEN "call" ELSE "import"

Using(u) == UNION {u[c] : c \in ConfirmedChannel}
Ordered(S) == SetToSortSeq(S, <)

-----------------------------------------------------------------------------
(* The two views of who uses what.                                         *)
ArtifactIndex(usage) ==
    [k \in {k \in Artifact : Using(usage[k]) \ {Definer(k)} # {}} |->
        [consumers |-> Using(usage[k]) \ {Definer(k)}, usage |-> usage[k]]]

Consumption(usage) ==
    [k \in Artifact |->
        [consumers |-> Using(usage[k]),
         channels |-> [m \in Using(usage[k]) |-> {c \in ConfirmedChannel : m \in usage[k][c]}]]]

Projection(consumption) ==
    LET of(k) == consumption[k]
    IN  [k \in {k \in Artifact : of(k).consumers \ {Definer(k)} # {}} |->
            [consumers |-> of(k).consumers,
             usage |-> [c \in ConfirmedChannel |->
                           {m \in of(k).consumers : c \in of(k).channels[m]}]]]

FilterScope(index, scope) ==
    [k \in {k \in DOMAIN index : Definer(k) \in scope} |->
        [index[k] EXCEPT !.consumers = @ \cap scope]]
EdgesIn(edges, scope) ==
    [m \in AnalysedModule |-> IF m \in scope THEN edges[m] \cap scope ELSE {}]

-----------------------------------------------------------------------------
(* Types come from every channel an artifact is used through.              *)
DependencyTypes(entry) ==
    {TypeOf(c) : c \in {c \in ConfirmedChannel : entry.usage[c] # {}}}

Dependency(index, edges, m, n) ==
    LET used == {k \in DOMAIN index : Definer(k) = n /\ m \in index[k].consumers}
    IN  [weight |-> IF m = n THEN 0 ELSE Cardinality(used),
         types |-> IF m = n THEN {}
                   ELSE UNION {DependencyTypes(index[k]) : k \in used}
                          \cup (IF n \in edges[m] THEN {"import"} ELSE {})]

Matrix(index, edges) ==
    [m \in AnalysedModule |-> [n \in AnalysedModule |-> Dependency(index, edges, m, n)]]

Visibility(m, consumers) ==
    IF consumers = {} THEN "private"
    ELSE IF \E n \in consumers : LayerOf(n) # LayerOf(m) THEN "public"
    ELSE "internal"

ConsumersOf(index, m) ==
    UNION {index[k].consumers : k \in {k \in DOMAIN index : Definer(k) = m}} \ {m}

-----------------------------------------------------------------------------
(* Clusters with complete linkage (build_jaccard_clusters).                *)
UsedBy(index, m) == {k \in DOMAIN index : m \in index[k].consumers}

Similar(index, m, n) ==
    LET both == UsedBy(index, m) \cap UsedBy(index, n)
        either == UsedBy(index, m) \cup UsedBy(index, n)
    IN  either # {} /\ Cardinality(both) * MinJaccard[2] >= MinJaccard[1] * Cardinality(either)

Neighbours(index, m) == {n \in AnalysedModule \ {m} : Similar(index, m, n)}

(* Mutant of Joins: when it is similar to one of them.                     *)
JoinsAny(index, m, cluster) == \E n \in cluster : Similar(index, m, n)

(* A candidate joins when it is similar to every member so far.            *)
Joins(index, m, cluster) == \A n \in cluster : Similar(index, m, n)

Grown(index, seed, candidates) ==
    FoldLeft(LAMBDA cluster, m : IF Joins(index, m, cluster) THEN cluster \cup {m} ELSE cluster,
             {seed}, Ordered(candidates))

(* Only the members with most neighbours are kept of a cluster too large.  *)
Truncated(index, cluster) ==
    LET before(m, n) ==
            LET degree(x) == Cardinality(Neighbours(index, x))
            IN  degree(m) > degree(n) \/ (degree(m) = degree(n) /\ m < n)
    IN  IF Cardinality(cluster) <= MaxCluster THEN cluster
        ELSE ToSet(SubSeq(SetToSortSeq(cluster, before), 1, MaxCluster))

ClusterRecord(index, members) ==
    [modules |-> members,
     shared |-> {k \in DOMAIN index : members \subseteq index[k].consumers}]

Clusters(index) ==
    LET users == {m \in AnalysedModule : UsedBy(index, m) # {}}
        Assemble(made, seed) ==
            IF seed \in made.taken \/ Neighbours(index, seed) = {} THEN made
            ELSE LET grown == Grown(index, seed, {m \in users \ made.taken : m > seed})
                 IN  [taken |-> made.taken \cup grown,
                      clusters |-> IF Cardinality(grown) < 2 THEN made.clusters
                                   ELSE made.clusters
                                          \cup {ClusterRecord(index, Truncated(index, grown))}]
    IN  FoldLeft(Assemble, [taken |-> {}, clusters |-> {}], Ordered(users)).clusters

(* Modules connected by artifacts they share (build_shared_usage_clusters).*)
Components(index) ==
    LET linked(S) == S \cup UNION {index[k].consumers :
                            k \in {k \in DOMAIN index : index[k].consumers \cap S # {}}}
        reached[n \in Nat] == [m \in AnalysedModule |->
                                 IF n = 0 THEN {m} ELSE linked(reached[n - 1][m])]
    IN  {reached[Cardinality(AnalysedModule)][m] : m \in AnalysedModule}

(* Listed artifacts are cut off, their number is not.                      *)
ValidHandoff(clusters) ==
    /\ \A c \in clusters : /\ Cardinality(c.modules) \in 2 .. MaxCluster
                           /\ Cardinality(c.shared) <= MaxShared
    /\ \A c, d \in clusters : c # d => c.modules \cap d.modules = {}

-----------------------------------------------------------------------------
(* Centralities of the hard edges.                                         *)
Targets(edges, m) == edges[m] \ {m}
Size == Cardinality(AnalysedModule)

(* The breadth-first search of Brandes' algorithm.                         *)
Visit(edges, search) ==
    LET current == Head(search.queue)
        Reach(s, target) ==
            LET seen == IF target \in DOMAIN s.distance THEN s
                        ELSE [s EXCEPT !.queue = Append(@, target),
                                       !.distance = (target :> s.distance[current] + 1) @@ @,
                                       !.sigma = (target :> 0) @@ @,
                                       !.predecessors = (target :> {}) @@ @]
            IN  IF seen.distance[target] # seen.distance[current] + 1 THEN seen
                ELSE [seen EXCEPT !.sigma[target] = @ + seen.sigma[current],
                                  !.predecessors[target] = @ \cup {current}]
    IN  FoldLeft(Reach,
                 [search EXCEPT !.queue = Tail(@), !.order = Append(@, current)],
                 Ordered(Targets(edges, current)))

Search(edges, source) ==
    LET start == [queue |-> <<source>>, order |-> <<>>, distance |-> (source :> 0),
                  sigma |-> (source :> 1), predecessors |-> (source :> {})]
        Next(s, i) == IF s.queue = <<>> THEN s ELSE Visit(edges, s)
    IN  FoldLeft(Next, start, [i \in 1 .. Size |-> i])

(* What Exact divides is a whole number: no more paths than that join two  *)
(* modules of the instances.                                               *)
Exact == 24
Dependencies(edges, source) ==
    LET search == Search(edges, source)
        Back(depends, current) ==
            [m \in AnalysedModule |->
                depends[m] + IF m \notin search.predecessors[current] THEN 0
                             ELSE (search.sigma[m] * (Exact + depends[current]))
                                    \div search.sigma[current]]
    IN  FoldLeft(Back, [m \in AnalysedModule |-> 0], Reverse(search.order))

Sources == {m \in AnalysedModule : m <= SampleLimit}

Betweenness(edges) ==
    FoldLeft(LAMBDA total, source :
                LET depends == Dependencies(edges, source)
                IN  [m \in AnalysedModule |->
                        total[m] + IF m = source THEN 0 ELSE depends[m]],
             [m \in AnalysedModule |-> 0], Ordered(Sources))

(* A rank is a whole number of 1 / (Size * Unit^k) after k rounds.         *)
Damping == <<17, 20>>
Shares == 6
Unit == Damping[2] * Size * Shares

Rank(edges, rank, k) ==
    LET idle == {m \in AnalysedModule : Targets(edges, m) = {}}
        mass == MapThenSumSet(LAMBDA m : rank[m], idle)
        from(n) == {m \in AnalysedModule : n \in Targets(edges, m)}
    IN  [n \in AnalysedModule |->
            (Damping[2] - Damping[1]) * Shares * Size * Unit ^ k
            + Damping[1] * Shares * mass
            + MapThenSumSet(LAMBDA m : (Damping[1] * Size * Shares * rank[m])
                                         \div Cardinality(Targets(edges, m)), from(n))]

PageRank(edges) ==
    FoldLeft(LAMBDA rank, k : Rank(edges, rank, k - 1),
             [m \in AnalysedModule |-> 1], [k \in 1 .. RankIterations |-> k])

(* Hubs import authorities, authorities are imported by hubs.              *)
Importers(edges, n) == {m \in AnalysedModule : n \in Targets(edges, m)}

HubAuthority(edges) ==
    LET Round(score, k) ==
            LET authority == [n \in AnalysedModule |->
                                MapThenSumSet(LAMBDA m : score.hub[m], Importers(edges, n))]
            IN  [authority |-> authority,
                 hub |-> [m \in AnalysedModule |->
                            MapThenSumSet(LAMBDA n : authority[n], Targets(edges, m))]]
        ones == [m \in AnalysedModule |-> 1]
    IN  FoldLeft(Round, [authority |-> ones, hub |-> ones], [k \in 1 .. RankIterations |-> k])

(* Betweenness, less the more the targets import each other: a fraction.   *)
Bridge(edges, between, m) ==
    LET near == Targets(edges, m)
        possible == Cardinality(near) * (Cardinality(near) - 1)
        actual == MapThenSumSet(LAMBDA n : Cardinality(Targets(edges, n) \cap near), near)
    IN  IF Cardinality(near) < 2 THEN <<between[m], 1>>
        ELSE <<between[m] * (possible - actual), possible>>

ExportDegree(index, m) == Cardinality({k \in DOMAIN index : Definer(k) = m})

-----------------------------------------------------------------------------
(* generate_graph_analytics_report, of everything and of one layer.        *)
Topology(edges) ==
    LET between == Betweenness(edges)
    IN  [betweenness |-> between,
         rank |-> PageRank(edges),
         hits |-> HubAuthority(edges),
         bridge |-> [m \in AnalysedModule |-> Bridge(edges, between, m)]]

ReportOf(index, edges, whole) ==
    [matrix |-> Matrix(index, edges),
     topology |-> Topology(edges),
     exports |-> [m \in AnalysedModule |-> ExportDegree(index, m)],
     visibility |-> [m \in AnalysedModule |-> Visibility(m, ConsumersOf(whole, m))],
     clusters |-> Clusters(index)]

NoReport == <<>>
NoState == <<>>

GraphInit == facts \in FactSets /\ report = NoReport /\ state = NoState

GenerateReport ==
    /\ report = NoReport
    /\ \E index \in {ArtifactIndex(facts.usage)} :
          report' = [whole |-> ReportOf(index, facts.edges, index),
                     layer |-> ReportOf(FilterScope(index, facts.scope),
                                        EdgesIn(facts.edges, facts.scope), index),
                     components |-> Components(index)]
    /\ UNCHANGED <<facts, state>>

(* Each of the two families stays what it was when its computation raises. *)
Family(value, empty, raised) ==
    IF raised THEN [value |-> empty, freshness |-> "stale"]
    ELSE [value |-> value, freshness |-> "fresh"]

CachedVisibility(projection) ==
    [m \in AnalysedModule |-> Visibility(m, ConsumersOf(projection, m))]

Materialize ==
    /\ report # NoReport /\ state = NoState
    /\ \E projection \in {Projection(Consumption(facts.usage))}, raised \in BOOLEAN :
          state' = [matrix |-> Family(Matrix(projection, facts.edges), <<>>, raised),
                    clusters |-> IF ValidHandoff(report.whole.clusters)
                                 THEN Family(report.whole.clusters, {}, FALSE)
                                 ELSE Family(Clusters(projection), {}, raised),
                    visibility |-> CachedVisibility(projection)]
    /\ UNCHANGED <<facts, report>>

GraphNext == GenerateReport \/ Materialize
GraphSpec == GraphInit /\ [][GraphNext]_graphVars

-----------------------------------------------------------------------------
(* What the measures are, in other words: shortest paths are the walks of  *)
(* the least length.                                                       *)
Walks(edges) ==
    LET walks[k \in 0 .. Size - 1] ==
            IF k = 0 THEN [m \in AnalysedModule |-> [n \in AnalysedModule |-> IF m = n THEN 1 ELSE 0]]
            ELSE [m \in AnalysedModule |-> [n \in AnalysedModule |->
                    MapThenSumSet(LAMBDA x : walks[k - 1][m][x],
                                  {x \in AnalysedModule : n \in Targets(edges, x)})]]
    IN  walks

Paths(walks, m, n) ==
    LET lengths == {k \in 0 .. Size - 1 : walks[k][m][n] > 0}
    IN  IF lengths = {} THEN [length |-> Size, count |-> 0]
        ELSE [length |-> Min(lengths), count |-> walks[Min(lengths)][m][n]]

PathsThrough(paths, m) ==
    MapThenSumSet(
        LAMBDA ends :
            IF paths[ends[1]][m].length + paths[m][ends[2]].length # paths[ends[1]][ends[2]].length
            THEN 0
            ELSE (Exact * paths[ends[1]][m].count * paths[m][ends[2]].count)
                    \div paths[ends[1]][ends[2]].count,
        {ends \in Sources \X AnalysedModule :
            /\ m \notin {ends[1], ends[2]} /\ ends[1] # ends[2]
            /\ paths[ends[1]][ends[2]].count > 0})

(* Betweenness counts the shortest paths through a module, no rank is lost *)
(* to modules that import nothing, a module that all importers of another  *)
(* import has at least its authority, and the bridge score is betweenness  *)
(* times the share of pairs of targets of which one does not import the    *)
(* other.                                                                  *)
CentralityIsTrue(topology) ==
    LET walks == Walks(facts.edges)
        paths == [m \in AnalysedModule |-> [n \in AnalysedModule |-> Paths(walks, m, n)]]
    IN  /\ \A m \in AnalysedModule : topology.betweenness[m] = PathsThrough(paths, m)
        /\ MapThenSumSet(LAMBDA m : topology.rank[m], AnalysedModule) = Size * Unit ^ RankIterations
        /\ \A m, n \in AnalysedModule :
              Importers(facts.edges, m) \subseteq Importers(facts.edges, n)
                => topology.hits.authority[m] <= topology.hits.authority[n]
        /\ \A m \in AnalysedModule :
              LET near == Targets(facts.edges, m)
                  pairs == {p \in near \X near : p[1] # p[2]}
              IN  pairs # {} =>
                    topology.bridge[m][1] * Cardinality(pairs) =
                      topology.bridge[m][2] * topology.betweenness[m]
                        * Cardinality({p \in pairs : p[2] \notin facts.edges[p[1]]})

(* The members of a cluster are similar to each other and connected by     *)
(* artifacts they share, no module is in two clusters, and none is left    *)
(* out of one that has room for it.                                        *)
ClustersAreTrue(clusters, index) ==
    /\ \A c \in clusters :
          /\ \A m, n \in c.modules : Similar(index, m, n)
          /\ \E component \in Components(index) : c.modules \subseteq component
    /\ \A c, d \in clusters : c # d => c.modules \cap d.modules = {}
    /\ (\A c \in clusters : Cardinality(c.modules) < MaxCluster) =>
          \A m \in AnalysedModule \ UNION {c.modules : c \in clusters} :
             \A c \in clusters : ~Joins(index, m, c.modules)

(* The measures are what they are called; a report of a layer is the whole *)
(* one seen from inside it, except that a module stays as visible as it    *)
(* is; a module is private when it exports nothing that another uses; and  *)
(* the canonical state has what the reports say - the clusters too, unless *)
(* a module uses an artifact of its own by its full name, as the report    *)
(* does not count that use and the state does                              *)
(* (generate_graph_analytics_report, build_artifact_data_projection,       *)
(* is_valid_shared_usage_clusters_handoff).                                *)
AnalyticsAreTrue ==
    /\ report # NoReport =>
          /\ CentralityIsTrue(report.whole.topology)
          /\ ClustersAreTrue(report.whole.clusters, ArtifactIndex(facts.usage))
          /\ report.layer.visibility = report.whole.visibility
          /\ \A m \in AnalysedModule :
                (report.whole.exports[m] = 0) <=> (report.whole.visibility[m] = "private")
          /\ \A m, n \in facts.scope : report.layer.matrix[m][n] = report.whole.matrix[m][n]
    /\ state # NoState =>
          /\ state.matrix.freshness = "fresh" => state.matrix.value = report.whole.matrix
          /\ state.visibility = report.whole.visibility
          /\ state.clusters.freshness = "fresh" =>
                \/ state.clusters.value = Clusters(Projection(Consumption(facts.usage)))
                \/ \E k \in Artifact : Definer(k) \in Using(facts.usage[k])
=============================================================================
