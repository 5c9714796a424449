--------------------------- MODULE AuthorityLease ---------------------------
(***************************************************************************)
(* The durable runtime authority of one repository domain:                 *)
(* contextor/core/live_state/runtime_lease.py, and the bootstrap and       *)
(* shutdown of the service processes that compete for it                   *)
(* (run_service in contextor/core/live_state/runtime.py).                  *)
(*                                                                         *)
(* Four files are shared.  The generation record and the live lease are    *)
(* written one after the other under the domain lock, each atomically; a   *)
(* crash or a failing write may come between any two writes.  The endpoint *)
(* file is written and removed outside the lock.  The desktop claim file   *)
(* is kept here as the service it names; which desktop claims it is not    *)
(* modelled.                                                               *)
(*                                                                         *)
(* A service process acquires at most once, so the process stands for its  *)
(* service_instance_id, its (pid, start identity) and the fingerprint of   *)
(* its endpoint, all of which are fresh for it.                            *)
(***************************************************************************)
EXTENDS Naturals, FiniteSets

CONSTANTS
    Service,        \* service processes, each run once
    LocalWriter,    \* MCP processes that update the snapshot without LIVE
    NoOne,          \* None in the code: no service
    Pid,            \* operating system pid of each service process
    WritesFail      \* whether a durable write may raise in a live process

ASSUME ConstantsAssumption ==
    /\ NoOne \notin Service
    /\ NoOne \notin LocalWriter
    /\ Service \cap LocalWriter = {}
    /\ WritesFail \in BOOLEAN

VARIABLES
    record,    \* authority-generation file
    live,      \* live lease file
    endpoint,  \* the service whose endpoint file is published
    claim,     \* the service the desktop claim file names
    lock,      \* holder of the domain lock
    pc,        \* where each service process is
    gen,       \* generation of the lease a process was granted, 0 before
    seen,      \* record and live lease a process observed before probing
    verdict,   \* what its liveness verifier has established so far
    client     \* the endpoint an attaching client has read

durable == <<record, live, endpoint, claim>>
vars == <<record, live, endpoint, claim, lock, pc, gen, seen, verdict, client>>

Status == {"never_acquired", "reserved", "active", "released", "fenced"}
Owner == Service \cup {NoOne}

NoLease == [gen |-> 0, owner |-> NoOne, ep |-> NoOne]
FirstRecord == [gen |-> 0, owner |-> NoOne, ep |-> NoOne, status |-> "never_acquired"]

(* Program points of a service process, in the order run_service reaches them. *)
Acquiring == {"acquire", "probe", "call", "decide"}
Allocating == {"reserve", "writeLive", "activate"}
Holding == {"owned", "bind", "bindGap", "check", "checkLease", "ready", "reconcile", "release"}
ClearingClaim == {"acqClaim", "relClaim", "fenClaim"}
ClearingLive == {"acqLive", "relLive", "fenLive"}
Leaving == {"fence", "unlinkRead", "unlink"}
Points == {"down", "gone"} \cup Acquiring \cup Allocating \cup Holding
            \cup ClearingClaim \cup ClearingLive \cup Leaving

(* Points reached only between two writes of one locked section. *)
Locked == Allocating \cup ClearingClaim \cup ClearingLive \cup {"bindGap"}

(* Points of the finally clause of run_service. *)
Closing == {"reconcile", "release", "relClaim", "relLive", "fenClaim", "fenLive"} \cup Leaving

Alive(p) == pc[p] \notin {"down", "gone"}
PidAlive(p) == \E q \in Service : Alive(q) /\ Pid[q] = Pid[p]
Answering(p) == pc[p] \in {"bind", "bindGap", "check", "checkLease", "ready"}

-----------------------------------------------------------------------------
(* What the code compares. *)

SameIdentity(r, l) == r.gen = l.gen /\ r.owner = l.owner /\ r.ep = l.ep

LiveOwner(p) == live.owner = p /\ live.gen = gen[p]

CurrentOwner(p) ==
    /\ LiveOwner(p)
    /\ record.status = "active"
    /\ SameIdentity(record, live)

CanReconcile(p, g) ==
    /\ live.owner = p /\ live.gen = g
    /\ record.status = "active" /\ record.gen = g
    /\ live.ep = p
    /\ record.ep \in {NoOne, p}

(* Mutant of CanFence: fences whatever generation it finds. *)
CanFenceAny(p) == record.status # "never_acquired"

CanFence(p) ==
    /\ record.owner = p /\ record.gen = gen[p]
    /\ live = NoLease \/ LiveOwner(p)
    /\ record.status \in {"reserved", "active", "released", "fenced"}

(* Mutant of LocalMayWrite: forgets an authority that is present. *)
LocalMayWriteUnfenced == record.status # "fenced"

(* A local MCP writer runs only while no authority is present or unresolved. *)
LocalMayWrite ==
    /\ live = NoLease
    /\ record.status \in {"never_acquired", "released"}

-----------------------------------------------------------------------------
Goto(p, point) == pc' = [pc EXCEPT ![p] = point]

Init ==
    /\ record = FirstRecord
    /\ live = NoLease
    /\ endpoint = NoOne
    /\ claim = NoOne
    /\ lock = NoOne
    /\ pc = [p \in Service |-> "down"]
    /\ gen = [p \in Service |-> 0]
    /\ seen = [p \in Service |-> [record |-> FirstRecord, live |-> NoLease]]
    /\ verdict = [p \in Service |-> "none"]
    /\ client = NoOne

(* A launcher spawns the service; the operating system gives it a free pid. *)
Start(p) ==
    /\ pc[p] = "down"
    /\ ~ PidAlive(p)
    /\ Goto(p, "acquire")
    /\ UNCHANGED <<durable, lock, gen, seen, verdict, client>>

-----------------------------------------------------------------------------
(* acquire: the first locked section reads both files and branches. *)

AcquireFresh(p) ==
    /\ pc[p] = "acquire" /\ lock = NoOne
    /\ live = NoLease /\ record.status # "active"
    /\ lock' = p
    /\ Goto(p, "reserve")
    /\ UNCHANGED <<durable, gen, seen, verdict, client>>

AcquireResolved(p) ==
    /\ pc[p] = "acquire" /\ lock = NoOne
    /\ live # NoLease
    /\ record.status \in {"released", "fenced"}
    /\ SameIdentity(record, live)
    /\ lock' = p
    /\ Goto(p, "acqClaim")
    /\ UNCHANGED <<durable, gen, seen, verdict, client>>

AcquireObserve(p) ==
    /\ pc[p] = "acquire" /\ lock = NoOne
    /\ live # NoLease
    /\ record.status \in {"reserved", "active"}
    /\ SameIdentity(record, live)
    /\ seen' = [seen EXCEPT ![p] = [record |-> record, live |-> live]]
    /\ verdict' = [verdict EXCEPT ![p] = "none"]
    /\ Goto(p, "probe")
    /\ UNCHANGED <<durable, lock, gen, client>>

(* LeaseRecoveryRequired or ForeignLeaseError: the process exits. *)
AcquireRefused(p) ==
    /\ pc[p] = "acquire" /\ lock = NoOne
    /\ IF live = NoLease
         THEN record.status = "active"
         ELSE SameIdentity(record, live) => record.status = "never_acquired"
    /\ Goto(p, "gone")
    /\ UNCHANGED <<durable, lock, gen, seen, verdict, client>>

(* AuthorityLivenessVerifier.verify, outside the lock: first the process... *)
ProbeProcess(p) ==
    /\ pc[p] = "probe"
    /\ \/ /\ verdict' = [verdict EXCEPT ![p] =
                IF Alive(seen[p].live.owner) THEN "processMatches" ELSE "processStale"]
          /\ Goto(p, "call")
       \/ /\ verdict' = [verdict EXCEPT ![p] = "unknown"]
          /\ Goto(p, "decide")
    /\ UNCHANGED <<durable, lock, gen, seen, client>>

(* Mutants of Evidence. *)
EvidenceByEndpoint(p, answered) == IF endpoint = NoOne THEN "stale" ELSE "unknown"
EvidenceUnmapped(p, answered) == IF answered THEN "foreign_live" ELSE "unknown"

(* ... then the endpoint file and an authenticated authority_status call, *)
(* which may time out even if the server runs.  A stale process is not      *)
(* enough: the endpoint must be absent, or silent with its pid dead.        *)
EndpointDead(answered) == endpoint = NoOne \/ (~ answered /\ ~ PidAlive(endpoint))

Evidence(p, answered) ==
    CASE verdict[p] = "processStale" /\ EndpointDead(answered) -> "stale"
      [] verdict[p] = "processMatches" /\ answered /\ endpoint = seen[p].live.owner -> "live"
      [] OTHER -> "unknown"

ProbeEndpoint(p) ==
    /\ pc[p] = "call"
    /\ \E answered \in BOOLEAN :
         /\ answered => endpoint # NoOne /\ Answering(endpoint)
         /\ verdict' = [verdict EXCEPT ![p] = Evidence(p, answered)]
    /\ Goto(p, "decide")
    /\ UNCHANGED <<durable, lock, gen, seen, client>>

(* acquire: the second locked section re-reads before it acts. *)
Observed(p) == seen[p].record = record /\ seen[p].live = live

DecideRetry(p) ==
    /\ pc[p] = "decide" /\ lock = NoOne
    /\ ~ Observed(p)
    /\ Goto(p, "acquire")
    /\ UNCHANGED <<durable, lock, gen, seen, verdict, client>>

DecideReject(p) ==
    /\ pc[p] = "decide" /\ lock = NoOne
    /\ Observed(p) /\ verdict[p] # "stale"
    /\ Goto(p, "gone")
    /\ UNCHANGED <<durable, lock, gen, seen, verdict, client>>

DecideFence(p) ==
    /\ pc[p] = "decide" /\ lock = NoOne
    /\ Observed(p) /\ verdict[p] = "stale"
    /\ record' = [record EXCEPT !.status = "fenced"]
    /\ lock' = p
    /\ Goto(p, "acqClaim")
    /\ UNCHANGED <<live, endpoint, claim, gen, seen, verdict, client>>

(* Removing the claim and then the live lease ends a takeover's fence, *)
(* release and fence_owner alike.                                      *)
Resolving(p) == IF pc[p] = "acqClaim" THEN live.owner ELSE p

ClearClaim(p) ==
    /\ pc[p] \in ClearingClaim
    /\ claim' = IF claim = Resolving(p) THEN NoOne ELSE claim
    /\ Goto(p, CASE pc[p] = "acqClaim" -> "acqLive"
                 [] pc[p] = "relClaim" -> "relLive"
                 [] pc[p] = "fenClaim" -> "fenLive")
    /\ UNCHANGED <<record, live, endpoint, lock, gen, seen, verdict, client>>

(* acquire goes on to allocate under the same lock. *)
ClearLive(p) ==
    /\ pc[p] \in ClearingLive
    /\ live' = NoLease
    /\ IF pc[p] = "acqLive"
         THEN Goto(p, "reserve") /\ UNCHANGED lock
         ELSE Goto(p, "unlinkRead") /\ lock' = NoOne
    /\ UNCHANGED <<record, endpoint, claim, gen, seen, verdict, client>>

(* Mutant of NextGeneration: hands a burned or released generation out again. *)
ReusedGeneration ==
    IF record.status \in {"reserved", "released"} THEN record.gen ELSE record.gen + 1

(* _allocate_next_locked: three writes. *)
NextGeneration == record.gen + 1

Reserve(p) ==
    /\ pc[p] = "reserve"
    /\ record' = [gen |-> NextGeneration, owner |-> p, ep |-> NoOne, status |-> "reserved"]
    /\ gen' = [gen EXCEPT ![p] = NextGeneration]
    /\ Goto(p, "writeLive")
    /\ UNCHANGED <<live, endpoint, claim, lock, seen, verdict, client>>

WriteLive(p) ==
    /\ pc[p] = "writeLive"
    /\ live' = [gen |-> gen[p], owner |-> p, ep |-> NoOne]
    /\ Goto(p, "activate")
    /\ UNCHANGED <<record, endpoint, claim, lock, gen, seen, verdict, client>>

Activate(p) ==
    /\ pc[p] = "activate"
    /\ record' = [record EXCEPT !.status = "active"]
    /\ lock' = NoOne
    /\ Goto(p, "owned")
    /\ UNCHANGED <<live, endpoint, claim, gen, seen, verdict, client>>

-----------------------------------------------------------------------------
(* run_service with the lease in hand. *)

(* claim_desktop, at bootstrap or for a request the server answers. *)
ClaimDesktop(p) ==
    /\ pc[p] = "owned" \/ Answering(p)
    /\ lock = NoOne
    /\ CurrentOwner(p)
    /\ claim' = p
    /\ UNCHANGED <<record, live, endpoint, lock, pc, gen, seen, verdict, client>>

ReleaseDesktopClaim(p) ==
    /\ Answering(p)
    /\ lock = NoOne
    /\ CurrentOwner(p)
    /\ claim = p
    /\ claim' = NoOne
    /\ UNCHANGED <<record, live, endpoint, lock, pc, gen, seen, verdict, client>>

PublishEndpoint(p) ==
    /\ pc[p] = "owned"
    /\ endpoint' = p
    /\ Goto(p, "bind")
    /\ UNCHANGED <<record, live, claim, lock, gen, seen, verdict, client>>

(* bind_endpoint: live lease first, generation record second. *)
BindLive(p) ==
    /\ pc[p] = "bind" /\ lock = NoOne
    /\ CurrentOwner(p)
    /\ live.ep \in {NoOne, p}
    /\ live' = [live EXCEPT !.ep = p]
    /\ lock' = p
    /\ Goto(p, "bindGap")
    /\ UNCHANGED <<record, endpoint, claim, gen, seen, verdict, client>>

BindRecord(p) ==
    /\ pc[p] = "bindGap"
    /\ record' = [record EXCEPT !.ep = p]
    /\ lock' = NoOne
    /\ Goto(p, "check")
    /\ UNCHANGED <<live, endpoint, claim, gen, seen, verdict, client>>

(* The parity verification that precedes RUNTIME_AUTHORITY_READY. *)
CheckEndpoint(p) ==
    /\ pc[p] = "check"
    /\ Goto(p, IF endpoint = p THEN "checkLease" ELSE "reconcile")
    /\ UNCHANGED <<durable, lock, gen, seen, verdict, client>>

CheckLease(p) ==
    /\ pc[p] = "checkLease" /\ lock = NoOne
    /\ Goto(p, IF /\ LiveOwner(p) /\ live.ep = p
                  /\ record.status = "active" /\ record.ep = p
               THEN "ready" ELSE "reconcile")
    /\ UNCHANGED <<durable, lock, gen, seen, verdict, client>>

(* An exception anywhere in the bootstrap, or the end of the service's life. *)
(* Before the endpoint exists there is nothing to reconcile.                 *)
Shutdown(p) ==
    /\ \/ pc[p] = "owned" /\ Goto(p, "release")
       \/ pc[p] \in {"owned", "bind", "check", "checkLease", "ready"} /\ Goto(p, "reconcile")
    /\ UNCHANGED <<durable, lock, gen, seen, verdict, client>>

(* The finally clause of run_service; any exception of it is swallowed. *)
Reconcile(p) ==
    /\ pc[p] = "reconcile" /\ lock = NoOne
    /\ record' = IF CanReconcile(p, gen[p]) THEN [record EXCEPT !.ep = p] ELSE record
    /\ Goto(p, "release")
    /\ UNCHANGED <<live, endpoint, claim, lock, gen, seen, verdict, client>>

Released == [record EXCEPT !.status = "released"]

Release(p) ==
    /\ pc[p] = "release" /\ lock = NoOne
    /\ CurrentOwner(p)
    /\ record' = Released
    /\ lock' = p
    /\ Goto(p, "relClaim")
    /\ UNCHANGED <<live, endpoint, claim, gen, seen, verdict, client>>

ReleaseRefused(p) ==
    /\ pc[p] = "release" /\ lock = NoOne
    /\ ~ CurrentOwner(p)
    /\ Goto(p, "fence")
    /\ UNCHANGED <<durable, lock, gen, seen, verdict, client>>

Fenced ==
    IF record.status \in {"released", "fenced"}
    THEN record ELSE [record EXCEPT !.status = "fenced"]

FenceOwner(p) ==
    /\ pc[p] = "fence" /\ lock = NoOne
    /\ CanFence(p)
    /\ record' = Fenced
    /\ lock' = p
    /\ Goto(p, "fenClaim")
    /\ UNCHANGED <<live, endpoint, claim, gen, seen, verdict, client>>

FenceRefused(p) ==
    /\ pc[p] = "fence" /\ lock = NoOne
    /\ ~ CanFence(p)
    /\ Goto(p, "gone")
    /\ UNCHANGED <<durable, lock, gen, seen, verdict, client>>

(* _remove_endpoint_if_exact reads the file, compares, and then unlinks the *)
(* path: the two steps are not under any lock.                              *)
UnlinkRead(p) ==
    /\ pc[p] = "unlinkRead"
    /\ Goto(p, IF endpoint = p THEN "unlink" ELSE "gone")
    /\ UNCHANGED <<durable, lock, gen, seen, verdict, client>>

Unlink(p) ==
    /\ pc[p] = "unlink"
    /\ endpoint' = NoOne
    /\ Goto(p, "gone")
    /\ UNCHANGED <<record, live, claim, lock, gen, seen, verdict, client>>

-----------------------------------------------------------------------------
(* Failures. *)

(* The process dies, or exits without resolving ownership (the mutation *)
(* worker did not drain); the operating system drops its lock.          *)
Crash(p) ==
    /\ Alive(p)
    /\ Goto(p, "gone")
    /\ lock' = IF lock = p THEN NoOne ELSE lock
    /\ UNCHANGED <<durable, gen, seen, verdict, client>>

(* Where run_service goes when a call that takes the lock raises. *)
OnError(point) ==
    CASE point \in {"bind", "bindGap", "checkLease"} -> "reconcile"
      [] point = "reconcile" -> "release"
      [] point \in {"release", "relClaim", "relLive"} -> "fence"
      [] OTHER -> "gone"

(* LeaseBusyError: the domain lock was not free within lock_timeout. *)
Busy(p) ==
    /\ pc[p] \in {"acquire", "decide", "bind", "checkLease", "reconcile", "release", "fence"}
    /\ lock # NoOne
    /\ Goto(p, OnError(pc[p]))
    /\ UNCHANGED <<durable, lock, gen, seen, verdict, client>>

(* A durable write raises: the lock is released without it. *)
WriteFails(p) ==
    /\ WritesFail
    /\ \/ pc[p] \in Locked /\ lock' = NoOne
       \/ pc[p] \in {"bind", "reconcile", "release", "fence"} /\ lock = NoOne /\ UNCHANGED lock
    /\ Goto(p, OnError(pc[p]))
    /\ UNCHANGED <<durable, gen, seen, verdict, client>>

-----------------------------------------------------------------------------
(* Other processes. *)

(* _verified_existing_client reads the endpoint file and may then complete *)
(* a half-made binding on the service's behalf.                            *)
ClientReads ==
    /\ endpoint # NoOne
    /\ client' = endpoint
    /\ UNCHANGED <<durable, lock, pc, gen, seen, verdict>>

ClientReconciles ==
    /\ client # NoOne
    /\ lock = NoOne
    /\ CanReconcile(client, live.gen)
    /\ record.ep = NoOne
    /\ record' = [record EXCEPT !.ep = client]
    /\ UNCHANGED <<live, endpoint, claim, lock, pc, gen, seen, verdict, client>>

(* A local MCP update keeps the domain lock while it commits a snapshot. *)
LocalBegin(w) ==
    /\ lock = NoOne
    /\ LocalMayWrite
    /\ lock' = w
    /\ UNCHANGED <<durable, pc, gen, seen, verdict, client>>

LocalEnd(w) ==
    /\ lock = w
    /\ lock' = NoOne
    /\ UNCHANGED <<durable, pc, gen, seen, verdict, client>>

-----------------------------------------------------------------------------
Acquire(p) ==
    \/ AcquireFresh(p) \/ AcquireResolved(p) \/ AcquireObserve(p) \/ AcquireRefused(p)
    \/ ProbeProcess(p) \/ ProbeEndpoint(p)
    \/ DecideRetry(p) \/ DecideReject(p) \/ DecideFence(p)
    \/ Reserve(p) \/ WriteLive(p) \/ Activate(p)

Bootstrap(p) ==
    \/ PublishEndpoint(p) \/ BindLive(p) \/ BindRecord(p)
    \/ CheckEndpoint(p) \/ CheckLease(p)

Finish(p) ==
    \/ Reconcile(p) \/ Release(p) \/ ReleaseRefused(p)
    \/ FenceOwner(p) \/ FenceRefused(p)
    \/ ClearClaim(p) \/ ClearLive(p)
    \/ UnlinkRead(p) \/ Unlink(p)

Next ==
    \/ \E p \in Service :
         \/ Start(p)
         \/ Acquire(p) \/ Bootstrap(p) \/ Finish(p) \/ Shutdown(p)
         \/ ClaimDesktop(p) \/ ReleaseDesktopClaim(p)
         \/ Busy(p) \/ Crash(p) \/ WriteFails(p)
    \/ ClientReads \/ ClientReconciles
    \/ \E w \in LocalWriter : LocalBegin(w) \/ LocalEnd(w)

Spec == Init /\ [][Next]_vars

(* A service process keeps running its own code.  Shutting down, client and *)
(* desktop requests, local writers starting and failures are never owed.    *)
Progress(p) == Acquire(p) \/ Bootstrap(p) \/ Finish(p) \/ Busy(p)

FairSpec ==
    /\ Spec
    /\ \A p \in Service : WF_vars(Progress(p))

-----------------------------------------------------------------------------
(* Properties. *)

(* Every file and every local of a service process stays within its type. *)
TypeOK ==
    /\ record \in [gen : Nat, owner : Owner, ep : Owner, status : Status]
    /\ live \in [gen : Nat, owner : Owner, ep : Owner]
    /\ endpoint \in Owner
    /\ claim \in Owner
    /\ lock \in Owner \cup LocalWriter
    /\ pc \in [Service -> Points]
    /\ gen \in [Service -> Nat]
    /\ seen \in [Service ->
                  [record : [gen : Nat, owner : Owner, ep : Owner, status : Status],
                   live : [gen : Nat, owner : Owner, ep : Owner]]]
    /\ verdict \in [Service -> {"none", "processMatches", "processStale",
                                "live", "stale", "unknown"}]
    /\ client \in Owner

(* Two running processes never hold the authority of the domain together, *)
(* although the probe that justifies a takeover runs outside the lock.    *)
SoleAuthority ==
    \A p, q \in Service : pc[p] \in Holding /\ pc[q] \in Holding => p = q

(* A running holder is never fenced or released by anyone but itself: the *)
(* two durable files name it until its own release.                       *)
OwnerKeepsAuthority ==
    \A p \in Service : pc[p] \in Holding =>
        /\ LiveOwner(p)
        /\ record.gen = gen[p] /\ record.owner = p /\ record.status = "active"

(* An active generation always has its live lease, whatever write a crash *)
(* or a failing disk interrupted: LeaseRecoveryRequired, which no code    *)
(* recovers from, is never raised.                                        *)
ActiveHasLiveLease == record.status = "active" => live # NoLease

(* The desktop claim file never outlives the live lease of its service, *)
(* so a successor never meets the claim of a fenced authority.          *)
ClaimNeedsLease == claim # NoOne => live.owner = claim

(* While a local MCP update commits under the domain lock, no service *)
(* process is between loading the snapshot and resolving its lease.   *)
WriterExcludesAuthority ==
    lock \in LocalWriter => \A p \in Service : pc[p] \notin Holding

(* No generation is granted twice, and none beyond the durable record. *)
GenerationsDiffer ==
    \A p, q \in Service : gen[p] # 0 =>
        /\ gen[p] <= record.gen
        /\ p # q => gen[p] # gen[q]

(* Once a generation is released, fenced or superseded it stays so: no  *)
(* late write of a slow, failed or reconciling process brings it back.  *)
Superseded(p) ==
    /\ gen[p] # 0
    /\ record.gen = gen[p] => record.status \in {"released", "fenced"}

NoResurrection ==
    [][\A p \in Service : Superseded(p) => Superseded(p)']_vars

(* Whenever the lock is free the two files agree, or they differ by the *)
(* second write of bind_endpoint alone, which reconcile can complete.   *)
OnlyBindingGap ==
    lock = NoOne /\ live # NoLease =>
        SameIdentity(record, live) \/ CanReconcile(live.owner, live.gen)

(* A crash never leaves the domain beyond recovery: with no process left, *)
(* a new one finds files it accepts, or that an attaching client repairs  *)
(* ("Complete a durable bind after a crash between live and generation    *)
(* writes").                                                              *)
Recoverable ==
    (\A p \in Service : ~ Alive(p)) /\ live # NoLease =>
        \/ SameIdentity(record, live)
        \/ CanReconcile(live.owner, live.gen) /\ endpoint = live.owner

(* Every service process that starts gets ready or gives up; it never waits *)
(* on the lock, nor retries a changing observation, for ever.               *)
BootstrapEnds ==
    \A p \in Service : pc[p] = "acquire" ~> pc[p] \in {"ready", "gone"}

(* The durable protocol implements the abstract authority. *)
Fence == INSTANCE AuthorityFence WITH
    epoch <- IF record.status = "reserved" THEN record.gen - 1 ELSE record.gen,
    holder <- IF record.status = "active" THEN record.owner ELSE NoOne,
    up <- {p \in Service : Alive(p)},
    leaving <- {p \in Service : pc[p] \in Closing}

ImplementsFence == Fence!Spec
=============================================================================
