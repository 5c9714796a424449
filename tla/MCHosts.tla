-------------------------------- MODULE MCHosts --------------------------------
(* What runs in the processes that serve and analyse, one component at a   *)
(* time: the threads of the writer lease, the process pools, the analysis  *)
(* jobs and the engine caches of the MCP servers, and what LIVE says of    *)
(* the diagnostics of its generations, share no state, so one of them      *)
(* moves and the others rest.                                              *)
EXTENDS MCWriterLease, ProcessPools, AnalysisJobs, EngineCache, LiveDiagnostics

CONSTANTS c1, c2, i1, server1, server2

VARIABLE focus

(* Generations for the diagnostics: two import cycles, each a component of *)
(* its own, and one other error.                                           *)
ComponentOf(c) == IF c = c1 THEN 1 ELSE 2
Diagnosed(cycles, issues) == [cycles |-> cycles, issues |-> issues]
DiagnosedSources ==
    {Diagnosed({}, {}), Diagnosed({c1}, {i1}), Diagnosed({c2}, {i1}), Diagnosed({c1, c2}, {})}
FirstGenerations == {Generation({c1}, {}, TRUE, [rev |-> 1, passing |-> {1}])}

(* The two threads of one process do the same, and so do two MCP servers. *)
Alike == Permutations({desktop, watcher}) \cup Permutations({server1, server2})

ASSUME DiagnosticsChosen == DiagAssumption

hostVars == <<focus, vars, poolVars, jobVars, cacheVars, diagVars>>

HostsInit ==
    /\ focus \in {"writer", "pools", "jobs", "cache", "diagnostics"}
    /\ Init /\ PoolInit /\ JobInit /\ CacheInit /\ DiagInit
    /\ focus = "pools" \/ scope = CHOOSE any \in Scope : TRUE

WriterOnly == focus = "writer" /\ UNCHANGED <<focus, poolVars, jobVars, cacheVars, diagVars>>
PoolsOnly == focus = "pools" /\ UNCHANGED <<focus, vars, jobVars, cacheVars, diagVars>>
JobsOnly == focus = "jobs" /\ UNCHANGED <<focus, vars, poolVars, cacheVars, diagVars>>
CacheOnly == focus = "cache" /\ UNCHANGED <<focus, vars, poolVars, jobVars, diagVars>>
DiagnosticsOnly ==
    focus = "diagnostics" /\ UNCHANGED <<focus, vars, poolVars, jobVars, cacheVars>>

HostsNext ==
    \/ Next /\ WriterOnly
    \/ PoolNext /\ PoolsOnly
    \/ JobNext /\ JobsOnly
    \/ CacheNext /\ CacheOnly
    \/ DiagNext /\ DiagnosticsOnly

HostsSpec == HostsInit /\ [][HostsNext]_hostVars
=============================================================================
