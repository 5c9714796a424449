--------------------------- MODULE DesktopSession ---------------------------
(***************************************************************************)
(* The Desktops of one repository and the LIVE services they start:        *)
(* connect_or_start in live_state/runtime.py, the claim of the one Desktop *)
(* a service admits (live_state/runtime_lease.py and ipc.py), and the      *)
(* thread that attaches a window to the service and the closing of the     *)
(* window in ui/gui.py.                                                    *)
(*                                                                         *)
(* AuthorityLease has the lease of a service in detail: here a service     *)
(* acquires it in one step, is refused by a process that lives, takes over *)
(* from one that died and gives it back when it closes.                    *)
(***************************************************************************)
EXTENDS Naturals, FiniteSets

CONSTANTS
    Desktop,        \* Desktop processes, each run once
    Runtime,        \* service processes, each run once
    NoOneYet,
    MaxAttempts,    \* LIVE_START_MAX_ATTEMPTS
    MaxEvents       \* starts asked for, crashes and calls that raise, a bound

ASSUME DesktopAssumption ==
    NoOneYet \notin Desktop \cup Runtime /\ MaxAttempts \in Nat \ {0}

\* connect_or_start runs in the thread that starts LIVE and, when the service is
\* lost, in the thread of the watcher.
Caller == Desktop \X {"starter", "watcher"}

VARIABLES
    window,    \* open, closing, releasing, stopping, waiting, exited
    call,       \* where each connect_or_start is, and what it holds
    startLock,  \* live_service_start.lock: the caller that made the file
    life,       \* new, booting, leased, claimed, ready, closing, gone
    owner,      \* the Desktop a service was spawned for
    authority,  \* the service that has the live lease
    claim,      \* the desktop claim file
    attached,   \* live_clients: the service a Desktop was admitted to
    leaving,    \* the one it had when its closing window looked
    observing,   \* the watcher of a Desktop: none, made, running, stopped
    retry,      \* failed attempts so far, and whether the timer is set
    occurred      \* starts asked for, crashes and calls that raised so far

sessionVars == <<window, call, startLock, life, owner, authority, claim,
                 attached, leaving, observing, retry, occurred>>

NoCall == [at |-> "idle"]
NoClaim == [by |-> NoOneYet, of |-> NoOneYet]
Rested == [count |-> 0, timer |-> FALSE]

SessionInit ==
    /\ window = [d \in Desktop |-> "open"]
    /\ call = [t \in Caller |-> NoCall]
    /\ startLock = NoOneYet
    /\ life = [r \in Runtime |-> "new"]
    /\ owner = [r \in Runtime |-> NoOneYet]
    /\ authority = NoOneYet
    /\ claim = NoClaim
    /\ attached = [d \in Desktop |-> NoOneYet]
    /\ leaving = [d \in Desktop |-> NoOneYet]
    /\ observing = [d \in Desktop |-> "none"]
    /\ retry = [d \in Desktop |-> Rested]
    /\ occurred = 0

ServiceAlive(r) == life[r] \notin {"new", "gone"}
DesktopAlive(d) == window[d] # "exited"
Closing(d) == window[d] # "open"

\* _verified_existing_client: its endpoint, its lease and its answer agree.
Verified(r) == life[r] = "ready" /\ authority = r

\* A claim of a service that does not have the live lease is no claim.
ClaimOf(r) == IF claim.of = r /\ authority = r THEN claim ELSE NoClaim

Event == occurred < MaxEvents /\ occurred' = occurred + 1
Calm == UNCHANGED occurred

InCall(t, point) == call[t].at = point
Move(t, point) == call' = [call EXCEPT ![t].at = point]

-----------------------------------------------------------------------------
(* The end of connect_or_start, and what its caller makes of it  *)

\* The finally clause: the lock file is removed, whoever made it last.
GiveLockBack(t) == startLock' = IF call[t].locked THEN NoOneYet ELSE startLock

\* client.is_owner: the client is kept even when the window is closing.
Admitted(t) ==
    LET desk == t[1] IN
    /\ GiveLockBack(t)
    /\ IF DesktopAlive(desk) THEN attached' = [attached EXCEPT ![desk] = call[t].to]
                          ELSE UNCHANGED attached
    /\ IF t[2] = "watcher" \/ Closing(desk)
         THEN call' = [call EXCEPT ![t] = NoCall] /\ UNCHANGED retry
         ELSE call' = [call EXCEPT ![t].at = "attach"] /\ retry' = [retry EXCEPT ![desk] = Rested]

SecondDesktop(t) ==
    /\ GiveLockBack(t) /\ UNCHANGED attached
    /\ call' = [call EXCEPT ![t] = NoCall]
    /\ retry' = IF t[2] = "starter" THEN [retry EXCEPT ![t[1]] = Rested] ELSE retry

\* An OSError, a RuntimeError or a timeout: tried again after a while, a few times.
Failed(t) ==
    LET desk == t[1]
        count == retry[desk].count + 1
    IN
    /\ GiveLockBack(t) /\ UNCHANGED attached
    /\ call' = [call EXCEPT ![t] = NoCall]
    /\ retry' = IF t[2] = "watcher" \/ Closing(desk) THEN retry
                ELSE IF count < MaxAttempts
                  THEN [retry EXCEPT ![desk] = [count |-> count, timer |-> TRUE]]
                  ELSE [retry EXCEPT ![desk] = Rested]

\* A RuntimeLeaseError, such as LeaseRecoveryRequired, is a ValueError: the thread
\* that starts LIVE ends with it.
Raised(t) ==
    /\ GiveLockBack(t) /\ UNCHANGED <<attached, retry>>
    /\ call' = [call EXCEPT ![t] = NoCall]

-----------------------------------------------------------------------------
(* connect_or_start  *)

Calling(service, locked, mine) ==
    [at |-> "admit", to |-> service, locked |-> locked, mine |-> mine, tries |-> 0,
     saw |-> NoClaim]

Begin(t) ==
    call' = [call EXCEPT ![t] = [Calling(NoOneYet, FALSE, NoOneYet) EXCEPT !.at = "look"]]

Look(t) ==
    /\ InCall(t, "look") /\ Calm
    /\ \/ \E r \in Runtime : Verified(r) /\ call' = [call EXCEPT ![t] = Calling(r, FALSE, NoOneYet)]
       \/ ~(\E r \in Runtime : Verified(r)) /\ Move(t, "lock")
    /\ UNCHANGED <<window, startLock, life, owner, authority, claim, attached, leaving, observing, retry>>

\* The lease files cannot be read, or say that a recovery is required.
LookRaises(t) ==
    /\ InCall(t, "look") /\ Event
    /\ Raised(t)
    /\ UNCHANGED <<window, life, owner, authority, claim, leaving, observing>>

TakeStartLock(t) ==
    /\ InCall(t, "lock") /\ Calm
    /\ \/ /\ \E r \in Runtime : Verified(r) /\ call' = [call EXCEPT ![t] = Calling(r, FALSE, NoOneYet)]
          /\ UNCHANGED startLock
       \/ /\ ~(\E r \in Runtime : Verified(r)) /\ startLock = NoOneYet
          /\ startLock' = t
          /\ call' = [call EXCEPT ![t].at = "check", ![t].locked = TRUE]
    /\ UNCHANGED <<window, life, owner, authority, claim, attached, leaving, observing, retry>>

\* The file is older than the budget of a start: its maker died, or is slow.
BreakStartLock(t) ==
    /\ InCall(t, "lock") /\ startLock # NoOneYet
    /\ IF ~call[startLock].at \in {"check", "await", "admit", "probe", "settle"}
         THEN Calm ELSE Event
    /\ startLock' = NoOneYet
    /\ UNCHANGED <<window, call, life, owner, authority, claim, attached, leaving, observing, retry>>

LockTimesOut(t) ==
    /\ InCall(t, "lock") /\ startLock # NoOneYet /\ Calm
    /\ Failed(t)
    /\ UNCHANGED <<window, life, owner, authority, claim, leaving, observing>>

\* With the lock, once more: attach to a service, or spawn one.
CheckOrSpawn(t) ==
    /\ InCall(t, "check") /\ Calm
    /\ \/ /\ \E r \in Runtime : Verified(r) /\ call' = [call EXCEPT ![t] = Calling(r, TRUE, NoOneYet)]
          /\ UNCHANGED <<life, owner>>
       \/ /\ ~(\E r \in Runtime : Verified(r))
          /\ \E r \in Runtime :
               /\ life[r] = "new"
               /\ life' = [life EXCEPT ![r] = "booting"]
               /\ owner' = [owner EXCEPT ![r] = t[1]]
               /\ call' = [call EXCEPT ![t].at = "await", ![t].mine = r]
    /\ UNCHANGED <<window, startLock, authority, claim, attached, leaving, observing, retry>>

\* Where the model has no process left, every attempt fails.
SpawnFails(t) ==
    /\ InCall(t, "check")
    /\ IF \A r \in Runtime : life[r] # "new" /\ ~Verified(r) THEN Calm ELSE Event
    /\ Failed(t)
    /\ UNCHANGED <<window, life, owner, authority, claim, leaving, observing>>

\* Any service will do; the own one may have been refused the lease.
AwaitService(t) ==
    /\ InCall(t, "await") /\ Calm
    /\ \/ /\ \E r \in Runtime : Verified(r) /\ call' = [call EXCEPT ![t] = Calling(r, TRUE, call[t].mine)]
          /\ UNCHANGED <<startLock, attached, retry>>
       \/ /\ ~(\E r \in Runtime : Verified(r)) /\ life[call[t].mine] = "gone"
          /\ Failed(t)
    /\ UNCHANGED <<window, life, owner, authority, claim, leaving, observing>>

Killed(r) == life' = IF r # NoOneYet /\ ServiceAlive(r) THEN [life EXCEPT ![r] = "gone"] ELSE life

AwaitTimesOut(t) ==
    /\ InCall(t, "await") /\ life[call[t].mine] # "gone" /\ Event
    /\ Killed(call[t].mine)
    /\ Failed(t)
    /\ UNCHANGED <<window, owner, authority, claim, leaving, observing>>

-----------------------------------------------------------------------------
(* The claim of the Desktop, answered by the one thread of the service  *)

Serving(r) == \E t \in Caller : call[t].at \in {"probe", "settle"} /\ call[t].to = r

(* Mutant of Unanswered: the request of a service that is gone has no timeout. *)
AlwaysAnswered(r) == FALSE

\* The request fails or times out.
Unanswered(r) == ~Verified(r)

\* The claim of no one is taken, one's own confirmed, another's looked into.
AskForClaim(t) ==
    LET r == call[t].to
        held == ClaimOf(r)
    IN
    /\ InCall(t, "admit") /\ ~Serving(r) /\ Calm
    /\ \/ /\ Unanswered(r) /\ Failed(t) /\ UNCHANGED claim
       \/ /\ Verified(r) /\ held.by \in {NoOneYet, t[1]}
          /\ claim' = [by |-> t[1], of |-> r]
          /\ Admitted(t)
       \/ /\ Verified(r) /\ held.by \notin {NoOneYet, t[1]}
          /\ call' = [call EXCEPT ![t].at = "probe", ![t].saw = held]
          /\ UNCHANGED <<claim, startLock, attached, retry>>
    /\ UNCHANGED <<window, life, owner, authority, leaving, observing>>

(* Mutant of Stale: a Desktop whose watcher does not run counts as gone. *)
StaleWhenSilent(d) == ~DesktopAlive(d) \/ observing[d] # "running"

\* The process is gone, or another process has its pid.
Stale(d) == ~DesktopAlive(d)

\* Out of the lock.  A spawned service that is not needed is killed.
ProbeDesktop(t) ==
    /\ InCall(t, "probe") /\ Calm
    /\ IF Stale(call[t].saw.by)
         THEN Move(t, "settle") /\ UNCHANGED <<life, startLock, attached, retry>>
         ELSE SecondDesktop(t) /\ Killed(call[t].mine)
    /\ UNCHANGED <<window, owner, authority, claim, leaving, observing>>

ProbeUnknown(t) ==
    /\ InCall(t, "probe") /\ Event
    /\ Failed(t)
    /\ UNCHANGED <<window, life, owner, authority, claim, leaving, observing>>

\* In the lock again: the stale claim is replaced if nothing has changed.
SettleClaim(t) ==
    LET r == call[t].to IN
    /\ InCall(t, "settle") /\ Calm
    /\ \/ /\ ServiceAlive(r) /\ authority = r /\ claim = call[t].saw
          /\ claim' = [by |-> t[1], of |-> r]
          /\ IF Verified(r) THEN Admitted(t) ELSE Failed(t)
       \/ /\ ServiceAlive(r) /\ authority = r /\ claim # call[t].saw
          /\ IF call[t].tries < 2
               THEN /\ call' = [call EXCEPT ![t].at = "admit", ![t].tries = @ + 1]
                    /\ UNCHANGED <<startLock, attached, retry>>
               ELSE Failed(t)
          /\ UNCHANGED claim
       \/ ~(ServiceAlive(r) /\ authority = r) /\ Failed(t) /\ UNCHANGED claim
    /\ UNCHANGED <<window, life, owner, authority, leaving, observing>>

-----------------------------------------------------------------------------
(* A service, run_service  *)

Become(r, state) == life' = [life EXCEPT ![r] = state]

\* The lease of a process that died is taken over.
AcquireLease(r) ==
    /\ life[r] = "booting"
    /\ IF authority = NoOneYet \/ ~ServiceAlive(authority)
         THEN authority' = r /\ Become(r, "leased")
         ELSE Become(r, "gone") /\ UNCHANGED authority
    /\ UNCHANGED <<window, call, startLock, owner, claim, attached, leaving, observing, retry, occurred>>

ClaimForOwner(r) ==
    /\ life[r] = "leased"
    /\ claim' = [by |-> owner[r], of |-> r]
    /\ Become(r, "claimed")
    /\ UNCHANGED <<window, call, startLock, owner, authority, attached, leaving, observing, retry, occurred>>

PublishReady(r) ==
    /\ life[r] = "claimed" /\ Become(r, "ready")
    /\ UNCHANGED <<window, call, startLock, owner, authority, claim, attached, leaving, observing, retry, occurred>>

BootFails(r) ==
    /\ life[r] \in {"leased", "claimed"} /\ Event
    /\ Become(r, "closing")
    /\ UNCHANGED <<window, call, startLock, owner, authority, claim, attached, leaving, observing, retry>>

\* The process that spawned the service is gone.
OwnerWatchdog(r) ==
    /\ life[r] = "ready" /\ ~DesktopAlive(owner[r])
    /\ Become(r, "closing")
    /\ UNCHANGED <<window, call, startLock, owner, authority, claim, attached, leaving, observing, retry, occurred>>

\* The claim of the generation goes with its lease.
CloseService(r) ==
    /\ life[r] = "closing" /\ Become(r, "gone")
    /\ authority' = IF authority = r THEN NoOneYet ELSE authority
    /\ claim' = IF claim.of = r THEN NoClaim ELSE claim
    /\ UNCHANGED <<window, call, startLock, owner, attached, leaving, observing, retry, occurred>>

ServiceCrashes(r) ==
    /\ ServiceAlive(r) /\ Event
    /\ Become(r, "gone")
    /\ UNCHANGED <<window, call, startLock, owner, authority, claim, attached, leaving, observing, retry>>

-----------------------------------------------------------------------------
(* The window  *)

\* _start_live_watcher: one thread at a time; a watcher that exists is kept.
StartLive(d) ==
    /\ call[<<d, "starter">>] = NoCall
    /\ IF observing[d] = "none"
         THEN Begin(<<d, "starter">>) /\ retry' = [retry EXCEPT ![d].timer = FALSE]
         ELSE UNCHANGED call /\ retry' = [retry EXCEPT ![d] = Rested]
    /\ UNCHANGED <<window, startLock, life, owner, authority, claim, attached, leaving, observing>>

\* The repository is selected, or an analysis ends.
UserStarts(d) ==
    /\ window[d] = "open" /\ Event
    /\ StartLive(d)

RetryFires(d) ==
    /\ window[d] = "open" /\ retry[d].timer /\ Calm
    /\ StartLive(d)

\* The cached generation was compared or published, or has to be recovered.
AttachState(d) ==
    LET t == <<d, "starter">> IN
    /\ InCall(t, "attach")
    /\ \/ Move(t, "create") /\ Calm
       \/ call' = [call EXCEPT ![t] = NoCall] /\ Event
    /\ UNCHANGED <<window, startLock, life, owner, authority, claim, attached, leaving, observing, retry>>

\* Twice the thread looks whether the window is closing.
CreateWatcher(d) ==
    LET t == <<d, "starter">> IN
    /\ InCall(t, "create")
    /\ IF Closing(d)
         THEN call' = [call EXCEPT ![t] = NoCall] /\ UNCHANGED observing
         ELSE Move(t, "start") /\ observing' = [observing EXCEPT ![d] = "made"]
    /\ UNCHANGED <<window, startLock, life, owner, authority, claim, attached, leaving, retry, occurred>>

CheckClosing(d) ==
    LET t == <<d, "starter">> IN
    /\ InCall(t, "start")
    /\ call' = [call EXCEPT ![t] = IF Closing(d) THEN NoCall ELSE [call[t] EXCEPT !.at = "go"]]
    /\ UNCHANGED <<window, startLock, life, owner, authority, claim, attached, leaving, observing, retry, occurred>>

\* start clears the stop event, also one set a moment ago.
StartWatcher(d) ==
    LET t == <<d, "starter">> IN
    /\ InCall(t, "go")
    /\ call' = [call EXCEPT ![t] = NoCall]
    /\ observing' = [observing EXCEPT ![d] = "running"]
    /\ UNCHANGED <<window, startLock, life, owner, authority, claim, attached, leaving, retry, occurred>>

\* _recover_client, when a request of the watcher fails.
WatcherRecovers(d) ==
    /\ DesktopAlive(d) /\ observing[d] = "running" /\ call[<<d, "watcher">>] = NoCall
    /\ ~Verified(attached[d]) /\ (\E r \in Runtime : life[r] = "new" \/ Verified(r))
    /\ Event
    /\ Begin(<<d, "watcher">>)
    /\ UNCHANGED <<window, startLock, life, owner, authority, claim, attached, leaving, observing, retry>>

-----------------------------------------------------------------------------
(* on_closing  *)

BeginClosing(d) ==
    /\ window[d] = "open" /\ window' = [window EXCEPT ![d] = "closing"]
    /\ UNCHANGED <<call, startLock, life, owner, authority, claim, attached, leaving, observing, retry, occurred>>

StopWatchers(d) ==
    /\ window[d] = "closing" /\ window' = [window EXCEPT ![d] = "releasing"]
    /\ retry' = [retry EXCEPT ![d] = Rested]
    /\ observing' = [observing EXCEPT ![d] = IF @ = "none" THEN @ ELSE "stopped"]
    /\ leaving' = [leaving EXCEPT ![d] = attached[d]]
    /\ UNCHANGED <<call, startLock, life, owner, authority, claim, attached, occurred>>

\* A request that fails is ignored.
ReleaseClaim(d) ==
    LET r == leaving[d] IN
    /\ window[d] = "releasing" /\ (r # NoOneYet => ~Serving(r))
    /\ window' = [window EXCEPT ![d] = "stopping"]
    /\ claim' = IF r # NoOneYet /\ Verified(r) /\ claim = [by |-> d, of |-> r] THEN NoClaim ELSE claim
    /\ UNCHANGED <<call, startLock, life, owner, authority, attached, leaving, observing, retry, occurred>>

(* Mutant of MayShutDown: whoever was admitted stops the service. *)
MayShutDownAny(d, r) == r # NoOneYet

\* The endpoint carries the owner's token: only the service it spawned.
MayShutDown(d, r) == r # NoOneYet /\ owner[r] = d

AskShutdown(d) ==
    LET r == leaving[d] IN
    /\ window[d] = "stopping"
    /\ window' = [window EXCEPT ![d] = IF MayShutDown(d, r) THEN "waiting" ELSE "done"]
    /\ life' = IF MayShutDown(d, r) /\ life[r] = "ready"
                 THEN [life EXCEPT ![r] = "closing"] ELSE life
    /\ UNCHANGED <<call, startLock, owner, authority, claim, attached, leaving, observing, retry, occurred>>

\* A while later what is left of the process is killed.
KillService(d) ==
    /\ window[d] = "waiting" /\ window' = [window EXCEPT ![d] = "done"]
    /\ Killed(leaving[d])
    /\ UNCHANGED <<call, startLock, owner, authority, claim, attached, leaving, observing, retry, occurred>>

\* The threads of the window end with it; a request that was sent is answered.
Gone(d) ==
    /\ window' = [window EXCEPT ![d] = "exited"]
    /\ call' = [t \in Caller |-> IF t[1] = d /\ call[t].at \notin {"probe", "settle"}
                                   THEN NoCall ELSE call[t]]
    /\ attached' = [attached EXCEPT ![d] = NoOneYet]
    /\ leaving' = [leaving EXCEPT ![d] = NoOneYet]
    /\ observing' = [observing EXCEPT ![d] = "none"]
    /\ retry' = [retry EXCEPT ![d] = Rested]
    /\ UNCHANGED <<startLock, life, owner, authority, claim>>

ExitWindow(d) == window[d] = "done" /\ Calm /\ Gone(d)

DesktopDies(d) == DesktopAlive(d) /\ Event /\ Gone(d)

-----------------------------------------------------------------------------

CallStep(t) ==
    \/ Look(t) \/ LookRaises(t) \/ TakeStartLock(t) \/ BreakStartLock(t) \/ LockTimesOut(t)
    \/ CheckOrSpawn(t) \/ SpawnFails(t) \/ AwaitService(t) \/ AwaitTimesOut(t)
    \/ AskForClaim(t) \/ ProbeDesktop(t) \/ ProbeUnknown(t) \/ SettleClaim(t)

ServiceRuns(r) ==
    \/ AcquireLease(r) \/ ClaimForOwner(r) \/ PublishReady(r) \/ OwnerWatchdog(r) \/ CloseService(r)

StarterGoesOn(d) ==
    AttachState(d) \/ CreateWatcher(d) \/ CheckClosing(d) \/ StartWatcher(d)

WindowCloses(d) ==
    StopWatchers(d) \/ ReleaseClaim(d) \/ AskShutdown(d) \/ KillService(d) \/ ExitWindow(d)

SessionNext ==
    \/ \E t \in Caller : CallStep(t)
    \/ \E r \in Runtime : ServiceRuns(r) \/ BootFails(r) \/ ServiceCrashes(r)
    \/ \E d \in Desktop :
         \/ StarterGoesOn(d) \/ WindowCloses(d) \/ RetryFires(d)
         \/ UserStarts(d) \/ WatcherRecovers(d) \/ BeginClosing(d) \/ DesktopDies(d)

\* Threads that run go on; a start waits no longer than its budget.
SessionFairness ==
    /\ \A t \in Caller : WF_sessionVars(CallStep(t))
    /\ \A r \in Runtime : WF_sessionVars(ServiceRuns(r))
    /\ \A d \in Desktop : WF_sessionVars(StarterGoesOn(d)) /\ WF_sessionVars(WindowCloses(d))

SessionSpec == SessionInit /\ [][SessionNext]_sessionVars /\ SessionFairness

-----------------------------------------------------------------------------

(* A Desktop that was admitted keeps its claim as long as its window is    *)
(* open and the service runs, so no two windows are attached to one        *)
(* service, whatever other Desktops start, close or die and whoever breaks *)
(* the start lock (runtime_lease.py, claim_desktop).                       *)
ClaimIsKept ==
    \A d \in Desktop : \A r \in Runtime :
        window[d] = "open" /\ attached[d] = r /\ Verified(r) => claim = [by |-> d, of |-> r]

(* No service outlives the Desktop it was spawned for, also when it was    *)
(* spawned by a start that timed out, lost the lease or met a closing      *)
(* window (runtime.py, _owner_watchdog).                                   *)
ServicesFollowOwners ==
    \A r \in Runtime : []<>(ServiceAlive(r) => DesktopAlive(owner[r]))

(* Every start of LIVE ends, in a running watcher, a second Desktop, a     *)
(* retry or an error, and every window that closes is gone (runtime.py,    *)
(* connect_or_start; gui.py, on_closing).                                  *)
StartsEnd ==
    /\ \A t \in Caller : []<>(call[t] = NoCall)
    /\ \A d \in Desktop : []<>(Closing(d) => window[d] = "exited")

(* A window that closes stops no service it did not spawn (gui.py,         *)
(* can_shutdown).                                                          *)
StopsOwnService ==
    [][\A d \in Desktop : \A r \in Runtime :
         (AskShutdown(d) \/ KillService(d)) /\ life'[r] # life[r] => owner[r] = d]_sessionVars
=============================================================================
