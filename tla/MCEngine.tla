-------------------------------- MODULE MCEngine --------------------------------
(* The incremental engine on small repositories, the bootstrap of a LIVE   *)
(* service and the persistent backend, one component at a time: they share *)
(* no state, so one of them moves and the others rest.                     *)
EXTENDS MCAnalysis, BackendOwner

CONSTANTS Service, LocalWriter, NoOne

VARIABLES focus,
    authority, live, endpoint, desktopClaim, domain, step, gen, seen, verdict, client

(* Every LIVE process has a pid of its own and no durable write fails.     *)
Authority == INSTANCE AuthorityLease WITH
    Pid <- [p \in Service |-> p], WritesFail <- FALSE,
    record <- authority, claim <- desktopClaim, lock <- domain, pc <- step

authorityVars ==
    <<authority, live, endpoint, desktopClaim, domain, step, gen, seen, verdict, client>>
analysisVars == <<focus, engineVars, backendVars, authorityVars>>

(* A component at rest has no state worth telling apart.                   *)
EngineAtRest ==
    /\ job = [at |-> "rest"]
    /\ disk = 0 /\ stat = 0 /\ canon = 0 /\ ids = 0 /\ resync = 0
    /\ known = 0 /\ raced = 0 /\ faults = 0

AnalysisInit ==
    /\ focus \in {"engine", "backend", "authority"}
    /\ BackendInit /\ Authority!Init
    /\ IF focus = "engine" THEN EngineInit ELSE EngineAtRest

EngineOnly == focus = "engine" /\ UNCHANGED <<focus, backendVars, authorityVars>>
BackendOnly == focus = "backend" /\ UNCHANGED <<focus, engineVars, authorityVars>>
AuthorityOnly == focus = "authority" /\ UNCHANGED <<focus, engineVars, backendVars>>

AnalysisNext ==
    \/ EngineOnly /\ EngineNext
    \/ BackendOnly /\ BackendNext
    \/ AuthorityOnly /\ Authority!Next

(* The fairness of BackendFairness and of AuthorityLease's FairSpec.       *)
AnalysisSpec ==
    /\ AnalysisInit /\ [][AnalysisNext]_analysisVars
    /\ \A p \in Service : WF_analysisVars(AuthorityOnly /\ Authority!Progress(p))
    /\ \A i \in 1..MaxBackends :
         WF_analysisVars(BackendOnly /\ i \in Instance /\ BackendSteps(i))

(* Every service process that starts gets ready or gives up, however the   *)
(* lease changes under it (runtime_lease.py, acquire; runtime.py,          *)
(* run_service), and a backend whose desktop died ends (mcp_server.py,     *)
(* _watch_persistent_backend_owner).                                       *)
ServicesSettle == Authority!BootstrapEnds /\ OrphansEnd
================================================================================
