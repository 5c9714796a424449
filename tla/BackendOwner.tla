------------------------------ MODULE BackendOwner -----------------------------
(***************************************************************************)
(* The persistent MCP backend process and the desktops that start, own,    *)
(* restart and outlive it: mcp_backend_control, mcp_backend_state, the     *)
(* owner watchdog and main of mcp_server, and the desktop's use of them.   *)
(*                                                                         *)
(* A backend holds a lifetime lock and has a record on disk while it       *)
(* serves.  Desktops work under the control lock; the backends do not.  A  *)
(* desktop that dies leaves its claim behind, and the watchdog of the      *)
(* backend it names ends that backend.                                     *)
(***************************************************************************)
EXTENDS Integers, FiniteSets, Sequences

CONSTANTS
    Desktop,      \* processes of the desktop application, each with an identity
    MaxBackends,  \* bound: backend processes spawned
    MaxAttempts,  \* BACKEND_OWNER_CLAIM_MAX_ATTEMPTS
    MaxBackendFaults  \* bound: crashes, time-outs and cleanups that are not confirmed

NoHost == "nohost"

ASSUME BackendAssumption ==
    /\ MaxBackends \in Nat /\ MaxAttempts \in Nat \ {0} /\ MaxBackendFaults \in Nat
    /\ NoHost \notin Desktop

VARIABLES
    backends,   \* the processes spawned: [at, pin, child]
    named,      \* the instance that the record on disk names, or NoInstance
    claim,      \* the owner claim on disk: [inst, host]
    control,    \* the desktop that has the control lock
    desk,       \* what each desktop does: [at, attempt, goal, inst, before, asked]
    granted,    \* the desktops that each instance was ever claimed by
    misfortunes

backendVars == <<backends, named, claim, control, desk, granted, misfortunes>>

NoInstance == 0
NoClaim == [inst |-> NoInstance, host |-> NoHost]
Spawned == [at |-> "spawned", pin |-> NoHost, child |-> FALSE]
Instance == DOMAIN backends

BackendInit ==
    /\ backends = <<>> /\ named = NoInstance /\ claim = NoClaim /\ control = NoHost
    /\ desk = [d \in Desktop |->
                 [at |-> "startup", attempt |-> 1, goal |-> "own", inst |-> NoInstance,
                  before |-> NoInstance, asked |-> NoInstance]]
    /\ granted = [i \in 1..MaxBackends |-> {}]
    /\ misfortunes = 0

Misfortune == misfortunes < MaxBackendFaults /\ misfortunes' = misfortunes + 1
HostLives(d) == desk[d].at # "dead"
Lives(i) == backends[i].at # "gone"
Locking(i) == backends[i].at \notin {"spawned", "gone"}
To(i, step) == backends' = [backends EXCEPT ![i].at = step]
DeskTo(d, step) == desk' = [desk EXCEPT ![d].at = step]
RecordGone(seen) == named' = IF named = seen THEN NoInstance ELSE named

(* The states a status request can answer: a backend that is shutting down *)
(* still answers the probe, or no longer.                                  *)
StatusOf(i) ==
    IF i = NoInstance THEN {"stopped"}
    ELSE IF ~Lives(i) THEN {"stale"}
    ELSE IF backends[i].at = "serving" THEN {"running"}
    ELSE IF backends[i].at = "leaving" THEN {"running", "unready"} ELSE {"unready"}

-----------------------------------------------------------------------------
(* The backend process *)

(* The lifetime lock is taken without waiting: a second process raises and *)
(* ends.                                                                   *)
TakeLifetime(i) ==
    /\ backends[i].at = "spawned"
    /\ To(i, IF \E j \in Instance : Locking(j) THEN "gone" ELSE "locked")
    /\ UNCHANGED <<named, claim, control, desk, granted, misfortunes>>

WriteRecord(i) ==
    /\ backends[i].at = "locked"
    /\ To(i, "recorded") /\ named' = i
    /\ UNCHANGED <<claim, control, desk, granted, misfortunes>>

(* Registered children whose parent is gone are ended before the server    *)
(* listens; when one cannot be confirmed main raises, and releases.        *)
Swept == [j \in Instance |-> [backends[j] EXCEPT !.child = @ /\ Lives(j)]]

SweepOrphans(i) ==
    /\ backends[i].at = "recorded"
    /\ backends' = [Swept EXCEPT ![i].at = "serving"]
    /\ UNCHANGED <<named, claim, control, desk, granted, misfortunes>>

SweepFails(i) ==
    /\ backends[i].at = "recorded" /\ (\E j \in Instance : backends[j].child)
    /\ Misfortune /\ To(i, "cleaned")
    /\ UNCHANGED <<named, claim, control, desk, granted>>

ChildBegins(i) ==
    /\ backends[i].at = "serving" /\ ~backends[i].child
    /\ backends' = [backends EXCEPT ![i].child = TRUE]
    /\ UNCHANGED <<named, claim, control, desk, granted, misfortunes>>

(* The watchdog pins the first living owner of its instance, and ends the  *)
(* server when that owner is gone or the claim is no longer the pinned one.*)
\* Mutant of Watch: an owner that died before it was pinned is not noticed.
WatchPinnedOnly(i) ==
    /\ backends[i].at = "serving"
    /\ LET pin == backends[i].pin IN
       IF pin = NoHost
       THEN /\ claim.inst = i /\ HostLives(claim.host)
            /\ backends' = [backends EXCEPT ![i].pin = claim.host]
       ELSE (claim # [inst |-> i, host |-> pin] \/ ~HostLives(pin)) /\ To(i, "leaving")
    /\ UNCHANGED <<named, claim, control, desk, granted, misfortunes>>

Watch(i) ==
    /\ backends[i].at = "serving"
    /\ LET pin == backends[i].pin
           pinned == [inst |-> i, host |-> pin] IN
       IF pin = NoHost
       THEN /\ claim.inst = i
            /\ backends' = [backends EXCEPT ![i] =
                 IF HostLives(claim.host) THEN [@ EXCEPT !.pin = claim.host]
                                          ELSE [@ EXCEPT !.at = "leaving"]]
       ELSE (claim # pinned \/ ~HostLives(pin)) /\ To(i, "leaving")
    /\ UNCHANGED <<named, claim, control, desk, granted, misfortunes>>

CleanOwn(i) ==
    /\ backends[i].at = "leaving"
    /\ backends' = [backends EXCEPT ![i].at = "cleaned", ![i].child = FALSE]
    /\ UNCHANGED <<named, claim, control, desk, granted, misfortunes>>

ReleaseRecord(i) ==
    /\ backends[i].at = "cleaned"
    /\ To(i, "unrecorded") /\ RecordGone(i)
    /\ UNCHANGED <<claim, control, desk, granted, misfortunes>>

ReleaseLifetime(i) ==
    /\ backends[i].at = "unrecorded" /\ To(i, "gone")
    /\ UNCHANGED <<named, claim, control, desk, granted, misfortunes>>

BackendDies(i) ==
    /\ Lives(i) /\ Misfortune /\ To(i, "gone")
    /\ UNCHANGED <<named, claim, control, desk, granted>>

BackendSteps(i) ==
    TakeLifetime(i) \/ WriteRecord(i) \/ SweepOrphans(i) \/ Watch(i) \/ CleanOwn(i)
        \/ ReleaseRecord(i) \/ ReleaseLifetime(i)

-----------------------------------------------------------------------------
(* The desktop *)

(* An operation raised: a claim on startup is tried again, a bounded number *)
(* of times; a restart is reported.                                        *)
Raised(d) ==
    /\ control' = IF control = d THEN NoHost ELSE control
    /\ desk' = [desk EXCEPT ![d] =
         IF @.goal = "restart" \/ @.attempt = MaxAttempts
         THEN [@ EXCEPT !.at = "idle"]
         ELSE [@ EXCEPT !.at = "startup", !.attempt = desk[d].attempt + 1, !.goal = "own"]]

Claimed(d, i) ==
    /\ claim' = [inst |-> i, host |-> d]
    /\ granted' = [granted EXCEPT ![i] = @ \cup {d}]

BeginStart(d) ==
    /\ desk[d].at = "startup" /\ control = NoHost
    /\ control' = d /\ DeskTo(d, "look")
    /\ UNCHANGED <<backends, named, claim, granted, misfortunes>>

(* start_backend: a ready backend is used, one that is not ready is waited *)
(* for until the time is up, and a stale record is taken away.             *)
LookFirst(d) ==
    /\ desk[d].at = "look"
    /\ \E status \in StatusOf(named) :
         \/ /\ status = "running"
            /\ desk' = [desk EXCEPT ![d].at = "claim", ![d].inst = named]
            /\ control' = NoHost /\ UNCHANGED misfortunes
         \/ status = "unready" /\ Misfortune /\ Raised(d)
         \/ /\ status \in {"stale", "stopped"}
            /\ desk' = [desk EXCEPT ![d].at = "spawn", ![d].inst = named]
            /\ UNCHANGED <<control, misfortunes>>
    /\ UNCHANGED <<backends, named, claim, granted>>

SpawnBackend(d) ==
    /\ desk[d].at = "spawn" /\ Len(backends) < MaxBackends
    /\ RecordGone(desk[d].inst)
    /\ backends' = Append(backends, Spawned)
    /\ desk' = [desk EXCEPT ![d].at = "wait", ![d].inst = Len(backends) + 1]
    /\ UNCHANGED <<claim, control, granted, misfortunes>>

(* Any ready backend will do; a process that ended, or is not ready in     *)
(* time and is then terminated, makes the start raise.                     *)
BackendReady(d) ==
    /\ desk[d].at = "wait" /\ "running" \in StatusOf(named)
    /\ desk' = [desk EXCEPT ![d].at = "claim", ![d].inst = named]
    /\ control' = NoHost
    /\ UNCHANGED <<backends, named, claim, granted, misfortunes>>

BackendFails(d) ==
    /\ desk[d].at = "wait" /\ StatusOf(named) # {"running"}
    /\ IF Lives(desk[d].inst) THEN Misfortune ELSE UNCHANGED misfortunes
    /\ To(desk[d].inst, "gone") /\ Raised(d)
    /\ UNCHANGED <<named, claim, granted>>

(* claim_backend_owner first asks for a ready backend ...                  *)
BeginClaim(d) ==
    /\ desk[d].at = "claim" /\ control = NoHost
    /\ \E status \in StatusOf(named) :
         IF status = "running"
         THEN control' = d /\ desk' = [desk EXCEPT ![d].at = "claiming", ![d].asked = named]
         ELSE Raised(d)
    /\ UNCHANGED <<backends, named, claim, granted, misfortunes>>

(* ... and then reads the claim, of the instance that was ready.           *)
LivingClaim(i) == claim.inst = i /\ HostLives(claim.host)
\* Mutant of RevokedClaim: the claim of a dead desktop counts as none.
RevokedForgiven(i) == FALSE

RevokedClaim(i) == claim.inst = i /\ ~HostLives(claim.host)

(* The claim, written all the same, must be of the instance started.       *)
Owns(d) ==
    IF desk[d].asked = desk[d].inst /\ desk[d].asked # desk[d].before
    THEN control' = NoHost /\ DeskTo(d, "idle") ELSE Raised(d)

WriteClaim(d) ==
    /\ desk[d].at = "claiming"
    /\ \E i \in {desk[d].asked} :
         IF LivingClaim(i)
         THEN /\ UNCHANGED <<claim, granted>>
              /\ IF claim.host = d THEN Owns(d)
                 ELSE control' = NoHost /\ DeskTo(d, "idle")
         ELSE IF RevokedClaim(i)
         THEN /\ UNCHANGED <<claim, granted>>
              /\ IF desk[d].goal = "own"
                 THEN control' = NoHost /\ DeskTo(d, "revoked") ELSE Raised(d)
         ELSE Claimed(d, i) /\ Owns(d)
    /\ UNCHANGED <<backends, named, misfortunes>>

(* The desktop waits for the revoked backend to stop, and starts another.  *)
RevokedStopped(d) ==
    /\ desk[d].at = "revoked" /\ named = NoInstance
    /\ desk' = [desk EXCEPT ![d].at = "startup", ![d].goal = "replace"]
    /\ UNCHANGED <<backends, named, claim, control, granted, misfortunes>>

RevokedStays(d) ==
    /\ desk[d].at = "revoked" /\ named # NoInstance /\ Misfortune /\ Raised(d)
    /\ UNCHANGED <<backends, named, claim, granted>>

BeginRestart(d) ==
    /\ desk[d].at = "idle" /\ control = NoHost /\ Len(backends) < MaxBackends
    /\ control' = d
    /\ desk' = [desk EXCEPT ![d].at = "stop", ![d].goal = "restart", ![d].before = named]
    /\ UNCHANGED <<backends, named, claim, granted, misfortunes>>

(* stop_backend terminates the process the record names, if it is still    *)
(* that process, and then its registered children.                         *)
StopBackend(d) ==
    /\ desk[d].at = "stop"
    /\ backends' = [i \in Instance |-> IF i = named THEN [backends[i] EXCEPT !.at = "gone"]
                                                     ELSE backends[i]]
    /\ desk' = [desk EXCEPT ![d].at = "stopped", ![d].inst = named]
    /\ UNCHANGED <<named, claim, control, granted, misfortunes>>

StopChildren(d) ==
    /\ desk[d].at = "stopped"
    /\ backends' = [i \in Instance |->
         IF i = desk[d].inst THEN [backends[i] EXCEPT !.child = FALSE] ELSE backends[i]]
    /\ RecordGone(desk[d].inst)
    /\ control' = NoHost /\ DeskTo(d, "restart")
    /\ UNCHANGED <<claim, granted, misfortunes>>

StopUnconfirmed(d) ==
    /\ desk[d].at = "stopped" /\ Misfortune /\ Raised(d)
    /\ \E i \in Instance : i = desk[d].inst /\ backends[i].child
    /\ UNCHANGED <<backends, named, claim, granted>>

(* Nobody may have started another one meanwhile.                          *)
RestartAfterStop(d) ==
    /\ desk[d].at = "restart"
    /\ IF named = NoInstance THEN DeskTo(d, "startup") /\ UNCHANGED control ELSE Raised(d)
    /\ UNCHANGED <<backends, named, claim, granted, misfortunes>>

DesktopDies(d) ==
    /\ HostLives(d) /\ DeskTo(d, "dead")
    /\ control' = IF control = d THEN NoHost ELSE control
    /\ UNCHANGED <<backends, named, claim, granted, misfortunes>>

BackendNext ==
    \/ \E i \in Instance :
         \/ TakeLifetime(i) \/ WriteRecord(i) \/ SweepOrphans(i) \/ SweepFails(i)
         \/ ChildBegins(i) \/ Watch(i) \/ CleanOwn(i) \/ ReleaseRecord(i)
         \/ ReleaseLifetime(i) \/ BackendDies(i)
    \/ \E d \in Desktop :
         \/ BeginStart(d) \/ LookFirst(d) \/ SpawnBackend(d) \/ BackendReady(d)
         \/ BackendFails(d) \/ BeginClaim(d) \/ WriteClaim(d) \/ RevokedStopped(d)
         \/ RevokedStays(d) \/ BeginRestart(d) \/ StopBackend(d) \/ StopChildren(d)
         \/ StopUnconfirmed(d) \/ RestartAfterStop(d) \/ DesktopDies(d)

BackendSpec == BackendInit /\ [][BackendNext]_backendVars

(* A running server process polls and runs on; nothing is owed to desktops.*)
BackendFairness == \A i \in 1..MaxBackends : WF_backendVars(i \in Instance /\ BackendSteps(i))

-----------------------------------------------------------------------------
(* A backend belongs to one desktop for good: one whose owner died is      *)
(* replaced, never handed to the next desktop, whatever claims, restarts   *)
(* and crashes meet (mcp_backend_control.py, claim_backend_owner).         *)
OneOwnerEver == \A i \in DOMAIN granted : Cardinality(granted[i]) <= 1

(* A backend that serves can be found by its record, and no registered     *)
(* child of an earlier one is left running beside it, though it wrote the  *)
(* record without the control lock (main of mcp_server.py, start_backend). *)
ServesAlone ==
    \A i \in Instance : backends[i].at = "serving" =>
        named = i /\ \A j \in Instance \ {i} : ~backends[j].child

(* So one desktop has one backend, and a backend one desktop.              *)
OneOwnerServed == OneOwnerEver /\ ServesAlone

(* The backend that a dead desktop owned ends                              *)
(* (mcp_server.py, _watch_persistent_backend_owner).                       *)
OrphansEnd ==
    \A i \in 1..MaxBackends :
        (i \in Instance /\ RevokedClaim(i)) ~> (i \in Instance /\ ~Lives(i))
=============================================================================
