------------------------------ MODULE MCClients ------------------------------
(* What the clients of the LIVE service, and the service, owe each other,  *)
(* one component at a time: the writer lease, the desktop's watcher and    *)
(* the starts of services share no state, so one of them moves and the     *)
(* others rest.                                                            *)
EXTENDS MCWriterLease, DesktopWatcher, DesktopSession

VARIABLE focus

clientVars == <<focus, vars, watchVars, sessionVars>>

ClientsInit ==
    /\ focus \in {"writer", "watcher", "session"}
    /\ Init /\ WatchInit /\ SessionInit
    /\ focus = "watcher" \/ (trusted /\ \A p \in Path : source[p] = 0)

WriterOnly == focus = "writer" /\ UNCHANGED <<focus, watchVars, sessionVars>>
WatcherOnly == focus = "watcher" /\ UNCHANGED <<focus, vars, sessionVars>>
SessionOnly == focus = "session" /\ UNCHANGED <<focus, vars, watchVars>>

ClientsNext ==
    \/ WriterOnly /\ Next
    \/ WatcherOnly /\ WatchNext
    \/ SessionOnly /\ SessionNext

(* The fairness of FairSpec, WatchFairness and SessionFairness, for the    *)
(* one that moves.                                                         *)
ClientsSpec ==
    /\ ClientsInit /\ [][ClientsNext]_clientVars
    /\ \A t \in Writer : WF_clientVars(WriterOnly /\ Proceed(t))
    /\ WF_clientVars(WatcherOnly /\ PollStep)
    /\ WF_clientVars(WatcherOnly /\ ServiceStarts)
    /\ WF_clientVars(WatcherOnly /\ EndAnalysis)
    /\ WF_clientVars(WatcherOnly /\ StartObserver)
    /\ WF_clientVars(WatcherOnly /\ (SwitchToPolling \/ SwitchFails))
    /\ \A p \in Path : WF_clientVars(WatcherOnly /\ Deliver(p))
    /\ \A k \in Key : WF_clientVars(WatcherOnly /\ (RunJob(k) \/ CommitJob(k) \/ FinishJob(k)))
    /\ \A t \in Caller : WF_clientVars(SessionOnly /\ CallStep(t))
    /\ \A r \in Runtime : WF_clientVars(SessionOnly /\ ServiceRuns(r))
    /\ \A w \in Desktop :
         /\ WF_clientVars(SessionOnly /\ StarterGoesOn(w))
         /\ WF_clientVars(SessionOnly /\ WindowCloses(w))

(* Services and starts of LIVE end when they should (runtime.py,           *)
(* _owner_watchdog, connect_or_start).                                     *)
NothingLingers == ServicesFollowOwners /\ StartsEnd
=============================================================================
