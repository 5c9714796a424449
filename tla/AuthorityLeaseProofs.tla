------------------------ MODULE AuthorityLeaseProofs ------------------------
(***************************************************************************)
(* Safety of AuthorityLease for any number of service processes and local  *)
(* writers, any assignment of pids, and failing writes or none.            *)
(***************************************************************************)
EXTENDS AuthorityLease, TLAPS

(* A process between two writes of a locked section holds the lock. *)
LockInv == \A p \in Service : pc[p] \in Locked => lock = p

(* The live lease is absent or that of the last generation recorded. *)
FilesInv ==
    /\ \/ live = NoLease
       \/ /\ live.owner \in Service
          /\ live.owner = record.owner
          /\ live.gen = record.gen
    /\ record.status = "active" => live # NoLease
    /\ record.owner \in Service => pc[record.owner] # "down"

NotGranted == {"down"} \cup Acquiring \cup {"acqClaim", "acqLive", "reserve"}

Recorded(p, status) ==
    record.owner = p /\ record.gen = gen[p] /\ record.status \in status

(* What the files hold at each program point of a process. *)
PointInv == \A p \in Service :
    /\ pc[p] \in Holding => Recorded(p, {"active"}) /\ LiveOwner(p)
    /\ pc[p] \in {"acqClaim", "acqLive"} => record.status \in {"released", "fenced"}
    /\ pc[p] = "reserve" => live = NoLease /\ record.status # "active"
    /\ pc[p] = "writeLive" => Recorded(p, {"reserved"}) /\ live = NoLease
    /\ pc[p] = "activate" => Recorded(p, {"reserved"}) /\ LiveOwner(p)
    /\ pc[p] \in {"relClaim", "relLive", "fenClaim", "fenLive"} =>
         Recorded(p, {"released", "fenced"})

(* A verifier that calls an owner stale has seen it gone for good. *)
VerdictInv == \A p \in Service :
    /\ pc[p] \in {"probe", "call", "decide"} =>
         seen[p].live.owner \in Service /\ pc[seen[p].live.owner] # "down"
    /\ pc[p] \in {"call", "decide"} /\ verdict[p] \in {"processStale", "stale"} =>
         pc[seen[p].live.owner] = "gone"

GenInv == \A p \in Service :
    /\ pc[p] \in NotGranted => gen[p] = 0
    /\ gen[p] # 0 => gen[p] <= record.gen
    /\ \A q \in Service : gen[p] # 0 /\ p # q => gen[p] # gen[q]

ClaimInv ==
    /\ claim # NoOne => live.owner = claim
    /\ \A p \in Service : pc[p] \in ClearingLive => claim = NoOne

WriterInv == lock \in LocalWriter => live = NoLease

IInv ==
    /\ TypeOK
    /\ LockInv
    /\ FilesInv
    /\ PointInv
    /\ VerdictInv
    /\ GenInv
    /\ ClaimInv
    /\ WriterInv


(* Every step keeps the types. *)
LEMMA TypeOKStep ==
    ASSUME IInv, Next
    PROVE  TypeOK'
<1> USE ConstantsAssumption DEF IInv, TypeOK, Owner, Status, NextGeneration, Evidence,
    EndpointDead, Fenced, Goto, durable, Alive, Answering, OnError, Locked, NoLease,
    Points, Acquiring, Allocating, Holding, ClearingClaim, ClearingLive, Leaving
<1>1. ASSUME NEW p \in Service, Acquire(p)
      PROVE  TypeOK'
  <2>1. CASE AcquireFresh(p)
    BY <2>1 DEF AcquireFresh
  <2>2. CASE AcquireResolved(p)
    BY <2>2 DEF AcquireResolved
  <2>3. CASE AcquireObserve(p)
    BY <2>3 DEF AcquireObserve
  <2>4. CASE AcquireRefused(p)
    BY <2>4 DEF AcquireRefused
  <2>5. CASE ProbeProcess(p)
    BY <2>5 DEF ProbeProcess
  <2>6. CASE ProbeEndpoint(p)
    BY <2>6 DEF ProbeEndpoint
  <2>7. CASE DecideRetry(p)
    BY <2>7 DEF DecideRetry
  <2>8. CASE DecideReject(p)
    BY <2>8 DEF DecideReject
  <2>9. CASE DecideFence(p)
    BY <2>9 DEF DecideFence
  <2>10. CASE Reserve(p)
    BY <2>10 DEF Reserve
  <2>11. CASE WriteLive(p)
    BY <2>11 DEF WriteLive
  <2>12. CASE Activate(p)
    BY <2>12 DEF Activate
  <2> QED
    BY <1>1, <2>1, <2>2, <2>3, <2>4, <2>5, <2>6, <2>7, <2>8, <2>9, <2>10, <2>11, <2>12
        DEF Acquire
<1>2. ASSUME NEW p \in Service, Bootstrap(p)
      PROVE  TypeOK'
  <2>1. CASE PublishEndpoint(p)
    BY <2>1 DEF PublishEndpoint
  <2>2. CASE BindLive(p)
    BY <2>2 DEF BindLive
  <2>3. CASE BindRecord(p)
    BY <2>3 DEF BindRecord
  <2>4. CASE CheckEndpoint(p)
    BY <2>4 DEF CheckEndpoint
  <2>5. CASE CheckLease(p)
    BY <2>5 DEF CheckLease
  <2> QED
    BY <1>2, <2>1, <2>2, <2>3, <2>4, <2>5 DEF Bootstrap
<1>3. ASSUME NEW p \in Service, Finish(p)
      PROVE  TypeOK'
  <2>1. CASE Reconcile(p)
    BY <2>1 DEF Reconcile
  <2>2. CASE Release(p)
    BY <2>2 DEF Release, Released
  <2>3. CASE ReleaseRefused(p)
    BY <2>3 DEF ReleaseRefused
  <2>4. CASE FenceOwner(p)
    BY <2>4 DEF FenceOwner
  <2>5. CASE FenceRefused(p)
    BY <2>5 DEF FenceRefused
  <2>6. CASE ClearClaim(p)
    BY <2>6 DEF ClearClaim
  <2>7. CASE ClearLive(p)
    BY <2>7 DEF ClearLive
  <2>8. CASE UnlinkRead(p)
    BY <2>8 DEF UnlinkRead
  <2>9. CASE Unlink(p)
    BY <2>9 DEF Unlink
  <2> QED
    BY <1>3, <2>1, <2>2, <2>3, <2>4, <2>5, <2>6, <2>7, <2>8, <2>9 DEF Finish
<1>4. ASSUME NEW p \in Service, Start(p) \/ Shutdown(p) \/ Busy(p) \/ Crash(p) \/ WriteFails(p)
      PROVE  TypeOK'
  BY <1>4 DEF Start, Shutdown, Busy, Crash, WriteFails
<1>5. ASSUME NEW p \in Service, ClaimDesktop(p) \/ ReleaseDesktopClaim(p)
      PROVE  TypeOK'
  BY <1>5 DEF ClaimDesktop, ReleaseDesktopClaim
<1>6. CASE ClientReads \/ ClientReconciles
  BY <1>6 DEF ClientReads, ClientReconciles
<1>7. CASE \E w \in LocalWriter : LocalBegin(w) \/ LocalEnd(w)
  BY <1>7 DEF LocalBegin, LocalEnd
<1> QED
  BY <1>1, <1>2, <1>3, <1>4, <1>5, <1>6, <1>7 DEF Next

(* Only the holder of the lock is between two writes. *)
LEMMA LockInvStep ==
    ASSUME IInv, Next
    PROVE  LockInv'
<1> USE ConstantsAssumption DEF IInv, TypeOK, LockInv, Goto, durable, Alive, Answering,
    OnError, Locked, NoLease, Points, Acquiring, Allocating, Holding, ClearingClaim,
    ClearingLive, Leaving
<1>1. ASSUME NEW p \in Service, Acquire(p)
      PROVE  LockInv'
  BY <1>1 DEF Acquire, AcquireFresh, AcquireResolved, AcquireObserve, AcquireRefused,
      ProbeProcess, ProbeEndpoint, DecideRetry, DecideReject, DecideFence, Reserve,
      WriteLive, Activate
<1>2. ASSUME NEW p \in Service, Bootstrap(p)
      PROVE  LockInv'
  BY <1>2 DEF Bootstrap, PublishEndpoint, BindLive, BindRecord, CheckEndpoint,
      CheckLease
<1>3. ASSUME NEW p \in Service, Finish(p)
      PROVE  LockInv'
  BY <1>3 DEF Finish, Reconcile, Release, Released, ReleaseRefused, FenceOwner, FenceRefused,
      ClearClaim, ClearLive, UnlinkRead, Unlink
<1>4. ASSUME NEW p \in Service, Start(p) \/ Shutdown(p) \/ Busy(p) \/ Crash(p) \/ WriteFails(p)
      PROVE  LockInv'
  BY <1>4 DEF Start, Shutdown, Busy, Crash, WriteFails
<1>5. ASSUME NEW p \in Service, ClaimDesktop(p) \/ ReleaseDesktopClaim(p)
      PROVE  LockInv'
  BY <1>5 DEF ClaimDesktop, ReleaseDesktopClaim
<1>6. CASE ClientReads \/ ClientReconciles \/ (\E w \in LocalWriter : LocalBegin(w) \/ LocalEnd(w))
  BY <1>6 DEF ClientReads, ClientReconciles, LocalBegin, LocalEnd
<1> QED
  BY <1>1, <1>2, <1>3, <1>4, <1>5, <1>6 DEF Next

(* No write order separates the live lease from the generation record. *)
LEMMA FilesInvStep ==
    ASSUME IInv, Next
    PROVE  FilesInv'
<1> USE ConstantsAssumption DEF IInv, TypeOK, LockInv, FilesInv, PointInv, GenInv,
    NotGranted, Recorded, LiveOwner, CurrentOwner, CanFence, CanReconcile, Observed,
    SameIdentity, NextGeneration, Fenced, Owner, Goto, durable, Alive, Answering,
    OnError, Locked, NoLease, Points, Acquiring, Allocating, Holding, ClearingClaim,
    ClearingLive, Leaving
<1>1. ASSUME NEW p \in Service, Acquire(p)
      PROVE  FilesInv'
  BY <1>1 DEF Acquire, AcquireFresh, AcquireResolved, AcquireObserve, AcquireRefused,
      ProbeProcess, ProbeEndpoint, DecideRetry, DecideReject, DecideFence, Reserve,
      WriteLive, Activate
<1>2. ASSUME NEW p \in Service, Bootstrap(p)
      PROVE  FilesInv'
  BY <1>2 DEF Bootstrap, PublishEndpoint, BindLive, BindRecord, CheckEndpoint,
      CheckLease
<1>3. ASSUME NEW p \in Service, Finish(p)
      PROVE  FilesInv'
  BY <1>3 DEF Finish, Reconcile, Release, Released, ReleaseRefused, FenceOwner, FenceRefused,
      ClearClaim, ClearLive, UnlinkRead, Unlink
<1>4. ASSUME NEW p \in Service, Start(p) \/ Shutdown(p) \/ Busy(p) \/ Crash(p) \/ WriteFails(p)
      PROVE  FilesInv'
  BY <1>4 DEF Start, Shutdown, Busy, Crash, WriteFails
<1>5. ASSUME NEW p \in Service, ClaimDesktop(p) \/ ReleaseDesktopClaim(p)
      PROVE  FilesInv'
  BY <1>5 DEF ClaimDesktop, ReleaseDesktopClaim
<1>6. CASE ClientReads \/ ClientReconciles \/ (\E w \in LocalWriter : LocalBegin(w) \/ LocalEnd(w))
  BY <1>6 DEF ClientReads, ClientReconciles, LocalBegin, LocalEnd
<1> QED
  BY <1>1, <1>2, <1>3, <1>4, <1>5, <1>6 DEF Next

(* Each program point's view of the files survives the steps of the others: *)
(* a holder's because a verifier never calls a running owner stale, a lock   *)
(* holder's because of the lock.                                             *)
LEMMA PointInvStep ==
    ASSUME IInv, Next
    PROVE  PointInv'
<1> USE ConstantsAssumption DEF IInv, TypeOK, LockInv, FilesInv, PointInv, VerdictInv,
    GenInv, NotGranted, Recorded, LiveOwner, CurrentOwner, CanFence, CanReconcile,
    Observed, SameIdentity, NextGeneration, Fenced, Owner, Goto, durable, Alive,
    Answering, OnError, Locked, NoLease, Points, Acquiring, Allocating, Holding,
    ClearingClaim, ClearingLive, Leaving
<1>1. ASSUME NEW p \in Service, Acquire(p)
      PROVE  PointInv'
  BY <1>1 DEF Acquire, AcquireFresh, AcquireResolved, AcquireObserve, AcquireRefused,
      ProbeProcess, ProbeEndpoint, DecideRetry, DecideReject, DecideFence, Reserve,
      WriteLive, Activate
<1>2. ASSUME NEW p \in Service, Bootstrap(p)
      PROVE  PointInv'
  BY <1>2 DEF Bootstrap, PublishEndpoint, BindLive, BindRecord, CheckEndpoint,
      CheckLease
<1>3. ASSUME NEW p \in Service, Finish(p)
      PROVE  PointInv'
  BY <1>3 DEF Finish, Reconcile, Release, Released, ReleaseRefused, FenceOwner, FenceRefused,
      ClearClaim, ClearLive, UnlinkRead, Unlink
<1>4. ASSUME NEW p \in Service, Start(p) \/ Shutdown(p) \/ Busy(p) \/ Crash(p) \/ WriteFails(p)
      PROVE  PointInv'
  BY <1>4 DEF Start, Shutdown, Busy, Crash, WriteFails
<1>5. ASSUME NEW p \in Service, ClaimDesktop(p) \/ ReleaseDesktopClaim(p)
      PROVE  PointInv'
  BY <1>5 DEF ClaimDesktop, ReleaseDesktopClaim
<1>6. CASE ClientReads \/ ClientReconciles \/ (\E w \in LocalWriter : LocalBegin(w) \/ LocalEnd(w))
  BY <1>6 DEF ClientReads, ClientReconciles, LocalBegin, LocalEnd
<1> QED
  BY <1>1, <1>2, <1>3, <1>4, <1>5, <1>6 DEF Next

(* A verdict of staleness stays true: a process that is gone never returns. *)
LEMMA VerdictInvStep ==
    ASSUME IInv, Next
    PROVE  VerdictInv'
<1> USE ConstantsAssumption DEF IInv, TypeOK, FilesInv, VerdictInv, Evidence,
    EndpointDead, Goto, durable, Alive, Answering, OnError, Locked, NoLease, Points,
    Acquiring, Allocating, Holding, ClearingClaim, ClearingLive, Leaving
<1>1. ASSUME NEW p \in Service, Acquire(p)
      PROVE  VerdictInv'
  BY <1>1 DEF Acquire, AcquireFresh, AcquireResolved, AcquireObserve, AcquireRefused,
      ProbeProcess, ProbeEndpoint, DecideRetry, DecideReject, DecideFence, Reserve,
      WriteLive, Activate
<1>2. ASSUME NEW p \in Service, Bootstrap(p)
      PROVE  VerdictInv'
  BY <1>2 DEF Bootstrap, PublishEndpoint, BindLive, BindRecord, CheckEndpoint,
      CheckLease
<1>3. ASSUME NEW p \in Service, Finish(p)
      PROVE  VerdictInv'
  BY <1>3 DEF Finish, Reconcile, Release, Released, ReleaseRefused, FenceOwner, FenceRefused,
      ClearClaim, ClearLive, UnlinkRead, Unlink
<1>4. ASSUME NEW p \in Service, Start(p) \/ Shutdown(p) \/ Busy(p) \/ Crash(p) \/ WriteFails(p)
      PROVE  VerdictInv'
  BY <1>4 DEF Start, Shutdown, Busy, Crash, WriteFails
<1>5. ASSUME NEW p \in Service, ClaimDesktop(p) \/ ReleaseDesktopClaim(p)
      PROVE  VerdictInv'
  BY <1>5 DEF ClaimDesktop, ReleaseDesktopClaim
<1>6. CASE ClientReads \/ ClientReconciles \/ (\E w \in LocalWriter : LocalBegin(w) \/ LocalEnd(w))
  BY <1>6 DEF ClientReads, ClientReconciles, LocalBegin, LocalEnd
<1> QED
  BY <1>1, <1>2, <1>3, <1>4, <1>5, <1>6 DEF Next

(* Generations are handed out once. *)
LEMMA GenInvStep ==
    ASSUME IInv, Next
    PROVE  GenInv'
<1> USE ConstantsAssumption DEF IInv, TypeOK, GenInv, PointInv, Recorded, NotGranted,
    NextGeneration, Fenced, Goto, durable, Alive, Answering, OnError, Locked, NoLease,
    Points, Acquiring, Allocating, Holding, ClearingClaim, ClearingLive, Leaving
<1>1. ASSUME NEW p \in Service, Acquire(p)
      PROVE  GenInv'
  BY <1>1 DEF Acquire, AcquireFresh, AcquireResolved, AcquireObserve, AcquireRefused,
      ProbeProcess, ProbeEndpoint, DecideRetry, DecideReject, DecideFence, Reserve,
      WriteLive, Activate
<1>2. ASSUME NEW p \in Service, Bootstrap(p)
      PROVE  GenInv'
  BY <1>2 DEF Bootstrap, PublishEndpoint, BindLive, BindRecord, CheckEndpoint,
      CheckLease
<1>3. ASSUME NEW p \in Service, Finish(p)
      PROVE  GenInv'
  <2>1. CASE Reconcile(p)
    BY <2>1 DEF Reconcile
  <2>2. CASE Release(p)
    BY <2>2 DEF Release, Released
  <2>3. CASE ReleaseRefused(p)
    BY <2>3 DEF ReleaseRefused
  <2>4. CASE FenceOwner(p)
    BY <2>4 DEF FenceOwner
  <2>5. CASE FenceRefused(p)
    BY <2>5 DEF FenceRefused
  <2>6. CASE ClearClaim(p)
    BY <2>6 DEF ClearClaim
  <2>7. CASE ClearLive(p)
    BY <2>7 DEF ClearLive
  <2>8. CASE UnlinkRead(p)
    BY <2>8 DEF UnlinkRead
  <2>9. CASE Unlink(p)
    BY <2>9 DEF Unlink
  <2> QED
    BY <1>3, <2>1, <2>2, <2>3, <2>4, <2>5, <2>6, <2>7, <2>8, <2>9 DEF Finish
<1>4. ASSUME NEW p \in Service, Start(p) \/ Shutdown(p) \/ Busy(p) \/ Crash(p) \/ WriteFails(p)
      PROVE  GenInv'
  BY <1>4 DEF Start, Shutdown, Busy, Crash, WriteFails
<1>5. ASSUME NEW p \in Service, ClaimDesktop(p) \/ ReleaseDesktopClaim(p)
      PROVE  GenInv'
  BY <1>5 DEF ClaimDesktop, ReleaseDesktopClaim
<1>6. CASE ClientReads \/ ClientReconciles
  BY <1>6 DEF ClientReads, ClientReconciles
<1>7. CASE \E w \in LocalWriter : LocalBegin(w) \/ LocalEnd(w)
  BY <1>7 DEF LocalBegin, LocalEnd
<1> QED
  BY <1>1, <1>2, <1>3, <1>4, <1>5, <1>6, <1>7 DEF Next

(* The claim is removed before the lease it belongs to. *)
LEMMA ClaimInvStep ==
    ASSUME IInv, Next
    PROVE  ClaimInv'
<1> USE ConstantsAssumption DEF IInv, TypeOK, LockInv, FilesInv, ClaimInv, PointInv,
    Recorded, LiveOwner, CurrentOwner, Observed, Resolving, Fenced, Goto, durable,
    Alive, Answering, OnError, Locked, NoLease, Points, Acquiring, Allocating, Holding,
    ClearingClaim, ClearingLive, Leaving
<1>1. ASSUME NEW p \in Service, Acquire(p)
      PROVE  ClaimInv'
  BY <1>1 DEF Acquire, AcquireFresh, AcquireResolved, AcquireObserve, AcquireRefused,
      ProbeProcess, ProbeEndpoint, DecideRetry, DecideReject, DecideFence, Reserve,
      WriteLive, Activate
<1>2. ASSUME NEW p \in Service, Bootstrap(p)
      PROVE  ClaimInv'
  BY <1>2 DEF Bootstrap, PublishEndpoint, BindLive, BindRecord, CheckEndpoint,
      CheckLease
<1>3. ASSUME NEW p \in Service, Finish(p)
      PROVE  ClaimInv'
  BY <1>3 DEF Finish, Reconcile, Release, Released, ReleaseRefused, FenceOwner, FenceRefused,
      ClearClaim, ClearLive, UnlinkRead, Unlink
<1>4. ASSUME NEW p \in Service, Start(p) \/ Shutdown(p) \/ Busy(p) \/ Crash(p) \/ WriteFails(p)
      PROVE  ClaimInv'
  BY <1>4 DEF Start, Shutdown, Busy, Crash, WriteFails
<1>5. ASSUME NEW p \in Service, ClaimDesktop(p) \/ ReleaseDesktopClaim(p)
      PROVE  ClaimInv'
  BY <1>5 DEF ClaimDesktop, ReleaseDesktopClaim
<1>6. CASE ClientReads \/ ClientReconciles \/ (\E w \in LocalWriter : LocalBegin(w) \/ LocalEnd(w))
  BY <1>6 DEF ClientReads, ClientReconciles, LocalBegin, LocalEnd
<1> QED
  BY <1>1, <1>2, <1>3, <1>4, <1>5, <1>6 DEF Next

(* A local writer's hold on the lock keeps the domain free of leases. *)
LEMMA WriterInvStep ==
    ASSUME IInv, Next
    PROVE  WriterInv'
<1> USE ConstantsAssumption DEF IInv, TypeOK, LockInv, WriterInv, LocalMayWrite, Goto,
    durable, Alive, Answering, OnError, Locked, NoLease, Points, Acquiring, Allocating,
    Holding, ClearingClaim, ClearingLive, Leaving
<1>1. ASSUME NEW p \in Service, Acquire(p)
      PROVE  WriterInv'
  BY <1>1 DEF Acquire, AcquireFresh, AcquireResolved, AcquireObserve, AcquireRefused,
      ProbeProcess, ProbeEndpoint, DecideRetry, DecideReject, DecideFence, Reserve,
      WriteLive, Activate
<1>2. ASSUME NEW p \in Service, Bootstrap(p)
      PROVE  WriterInv'
  BY <1>2 DEF Bootstrap, PublishEndpoint, BindLive, BindRecord, CheckEndpoint,
      CheckLease
<1>3. ASSUME NEW p \in Service, Finish(p)
      PROVE  WriterInv'
  BY <1>3 DEF Finish, Reconcile, Release, Released, ReleaseRefused, FenceOwner, FenceRefused,
      ClearClaim, ClearLive, UnlinkRead, Unlink
<1>4. ASSUME NEW p \in Service, Start(p) \/ Shutdown(p) \/ Busy(p) \/ Crash(p) \/ WriteFails(p)
      PROVE  WriterInv'
  BY <1>4 DEF Start, Shutdown, Busy, Crash, WriteFails
<1>5. ASSUME NEW p \in Service, ClaimDesktop(p) \/ ReleaseDesktopClaim(p)
      PROVE  WriterInv'
  BY <1>5 DEF ClaimDesktop, ReleaseDesktopClaim
<1>6. CASE ClientReads \/ ClientReconciles \/ (\E w \in LocalWriter : LocalBegin(w) \/ LocalEnd(w))
  BY <1>6 DEF ClientReads, ClientReconciles, LocalBegin, LocalEnd
<1> QED
  BY <1>1, <1>2, <1>3, <1>4, <1>5, <1>6 DEF Next

-----------------------------------------------------------------------------
(* The initial state satisfies the inductive invariant. *)
LEMMA InitInv == Init => IInv
  BY ConstantsAssumption
     DEF Init, IInv, TypeOK, LockInv, FilesInv, PointInv, VerdictInv, GenInv, ClaimInv,
         WriterInv, FirstRecord, NoLease, Owner, Status, Points, Acquiring, Allocating,
         Holding, ClearingClaim, ClearingLive, Leaving, Locked, NotGranted

(* Every step preserves it. *)
LEMMA NextInv == IInv /\ [Next]_vars => IInv'
<1> SUFFICES ASSUME IInv, [Next]_vars PROVE IInv'
  OBVIOUS
<1>1. CASE Next
  BY <1>1, TypeOKStep, LockInvStep, FilesInvStep, PointInvStep, VerdictInvStep,
     GenInvStep, ClaimInvStep, WriterInvStep DEF IInv
<1>2. CASE UNCHANGED vars
  BY <1>2 DEF vars, durable, IInv, TypeOK, LockInv, FilesInv, PointInv, VerdictInv,
              GenInv, ClaimInv, WriterInv, Recorded, LiveOwner
<1> QED
  BY <1>1, <1>2

(* The inductive invariant holds in every reachable state. *)
THEOREM Invariant == Spec => []IInv
  BY InitInv, NextInv, PTL DEF Spec

(* Files and locals keep their types, for any number of processes. *)
THEOREM TypeCorrect == Spec => []TypeOK
<1>1. IInv => TypeOK
  BY DEF IInv
<1> QED
  BY <1>1, Invariant, PTL

(* A running holder is fenced or released by nobody but itself. *)
THEOREM HolderIsSafe == Spec => []OwnerKeepsAuthority
<1>1. IInv => OwnerKeepsAuthority
  BY DEF IInv, PointInv, Recorded, OwnerKeepsAuthority
<1> QED
  BY <1>1, Invariant, PTL

(* There is one authority: two holders would both be named by the one *)
(* generation record.                                                 *)
THEOREM OneAuthority == Spec => []SoleAuthority
<1>1. IInv => SoleAuthority
  BY DEF IInv, PointInv, Recorded, SoleAuthority
<1> QED
  BY <1>1, Invariant, PTL

(* No interrupted sequence of writes leaves an active generation without *)
(* its live lease.                                                       *)
THEOREM NoRecoveryRequired == Spec => []ActiveHasLiveLease
<1>1. IInv => ActiveHasLiveLease
  BY DEF IInv, FilesInv, ActiveHasLiveLease
<1> QED
  BY <1>1, Invariant, PTL

(* The desktop claim never outlives the lease it was made under. *)
THEOREM ClaimEndsWithLease == Spec => []ClaimNeedsLease
<1>1. IInv => ClaimNeedsLease
  BY DEF IInv, ClaimInv, ClaimNeedsLease
<1> QED
  BY <1>1, Invariant, PTL

(* A local writer commits only while no service holds the authority. *)
THEOREM LocalWriterAlone == Spec => []WriterExcludesAuthority
<1>1. IInv => WriterExcludesAuthority
  BY ConstantsAssumption
     DEF IInv, WriterInv, PointInv, LiveOwner, NoLease, WriterExcludesAuthority
<1> QED
  BY <1>1, Invariant, PTL

(* No two processes are ever granted the same generation. *)
THEOREM GenerationsUnique == Spec => []GenerationsDiffer
<1>1. IInv => GenerationsDiffer
  BY DEF IInv, GenInv, GenerationsDiffer
<1> QED
  BY <1>1, Invariant, PTL

(* A generation that was resolved or superseded never comes back. *)
THEOREM FencedForGood == Spec => NoResurrection
<1>1. ASSUME IInv, Next, NEW p \in Service, Superseded(p)
      PROVE  Superseded(p)'
  <2> USE <1>1, ConstantsAssumption
      DEF IInv, TypeOK, GenInv, PointInv, Recorded, Superseded, NotGranted,
          NextGeneration, Fenced, Goto, durable
  <2>1. ASSUME NEW q \in Service, Acquire(q)
        PROVE  Superseded(p)'
    BY <2>1 DEF Acquire, AcquireFresh, AcquireResolved, AcquireObserve, AcquireRefused,
         ProbeProcess, ProbeEndpoint, DecideRetry, DecideReject, DecideFence,
         Reserve, WriteLive, Activate
  <2>2. ASSUME NEW q \in Service, Bootstrap(q)
        PROVE  Superseded(p)'
    BY <2>2 DEF Bootstrap, PublishEndpoint, BindLive, BindRecord, CheckEndpoint, CheckLease
  <2>3. ASSUME NEW q \in Service, Finish(q)
        PROVE  Superseded(p)'
    BY <2>3 DEF Finish, Reconcile, Release, Released, ReleaseRefused, FenceOwner, FenceRefused,
         ClearClaim, ClearLive, UnlinkRead, Unlink
  <2>4. ASSUME NEW q \in Service,
               \/ Start(q) \/ Shutdown(q) \/ Busy(q) \/ Crash(q) \/ WriteFails(q)
               \/ ClaimDesktop(q) \/ ReleaseDesktopClaim(q)
        PROVE  Superseded(p)'
    BY <2>4 DEF Start, Shutdown, Busy, Crash, WriteFails, ClaimDesktop, ReleaseDesktopClaim
  <2>5. CASE \/ ClientReads \/ ClientReconciles
             \/ \E w \in LocalWriter : LocalBegin(w) \/ LocalEnd(w)
    BY <2>5 DEF ClientReads, ClientReconciles, LocalBegin, LocalEnd
  <2> QED
    BY <2>1, <2>2, <2>3, <2>4, <2>5 DEF Next
<1>2. ASSUME IInv, [Next]_vars
      PROVE  [\A p \in Service : Superseded(p) => Superseded(p)']_vars
  BY <1>1, <1>2
<1> QED
  BY <1>2, Invariant, PTL DEF Spec, NoResurrection

-----------------------------------------------------------------------------
(* The files implement the abstract authority: each step of a process is one *)
(* step of AuthorityFence, or changes nothing it speaks of.                   *)
THEOREM FilesImplementFence == Spec => ImplementsFence
<1>1. Init => Fence!Init
  BY DEF Init, Fence!Init, FirstRecord, Alive, Closing, Leaving
<1>2. ASSUME IInv, [Next]_vars
      PROVE  [Fence!Next]_(Fence!vars)
  <2> USE <1>2, ConstantsAssumption
      DEF IInv, TypeOK, Fence!vars, Goto, durable, Alive, Closing, Leaving,
          Points, Acquiring, Allocating, Holding, ClearingClaim, ClearingLive
  <2>1. ASSUME NEW p \in Service, Start(p)
        PROVE  Fence!Begin(p)
    BY <2>1 DEF Start, Fence!Begin
  <2>2. ASSUME NEW p \in Service, Activate(p)
        PROVE  Fence!Grant(p)
    BY <2>2 DEF Activate, Fence!Grant, PointInv, Recorded
  <2>3. ASSUME NEW p \in Service, Reserve(p)
        PROVE  Fence!Burn \/ UNCHANGED Fence!vars
    <3>1. record.gen \in Nat /\ record.status # "active" /\ pc[p] = "reserve"
      BY <2>3 DEF Reserve, PointInv
    <3>2. record'.gen = record.gen + 1 /\ record'.status = "reserved"
      BY <2>3 DEF Reserve, NextGeneration
    <3>3. /\ \A q \in Service : Alive(q)' <=> Alive(q)
          /\ \A q \in Service : pc'[q] \in Closing <=> pc[q] \in Closing
      BY <2>3, <3>1 DEF Reserve
    <3>4. /\ {q \in Service : Alive(q)}' = {q \in Service : Alive(q)}
          /\ {q \in Service : pc[q] \in Closing}' = {q \in Service : pc[q] \in Closing}
      BY <3>3
    <3>5. CASE record.status = "reserved"
      <4>1. record'.gen - 1 = (record.gen - 1) + 1
        BY <3>1, <3>2
      <4> QED
        BY <4>1, <3>1, <3>2, <3>4, <3>5 DEF Fence!Burn
    <3>6. CASE record.status # "reserved"
      <4>1. record'.gen - 1 = record.gen
        BY <3>1, <3>2
      <4> QED
        BY <4>1, <3>1, <3>2, <3>4, <3>6
    <3> QED
      BY <3>5, <3>6
  <2>4. ASSUME NEW p \in Service, DecideFence(p)
        PROVE  Fence!Burn \/ Fence!Vacate \/ UNCHANGED Fence!vars
    BY <2>4 DEF DecideFence, Observed, Fence!Burn, Fence!Vacate, VerdictInv, FilesInv
  <2>5. ASSUME NEW p \in Service, Release(p) \/ FenceOwner(p)
        PROVE  Fence!Burn \/ Fence!Vacate \/ UNCHANGED Fence!vars
    BY <2>5 DEF Release, Released, FenceOwner, Fenced, CurrentOwner, LiveOwner, SameIdentity, CanFence,
                Fence!Burn, Fence!Vacate
  <2>6. ASSUME NEW p \in Service, Shutdown(p)
        PROVE  Fence!Leave(p)
    BY <2>6 DEF Shutdown, Fence!Leave
  <2>7. ASSUME NEW p \in Service, CheckEndpoint(p) \/ CheckLease(p)
        PROVE  Fence!Leave(p) \/ UNCHANGED Fence!vars
    BY <2>7 DEF CheckEndpoint, CheckLease, Fence!Leave
  <2>8. ASSUME NEW p \in Service, Busy(p) \/ WriteFails(p)
        PROVE  Fence!Leave(p) \/ Fence!End(p) \/ UNCHANGED Fence!vars
    BY <2>8 DEF Busy, WriteFails, OnError, Locked, Fence!Leave, Fence!End
  <2>9. ASSUME NEW p \in Service,
               \/ Crash(p) \/ AcquireRefused(p) \/ DecideReject(p)
               \/ FenceRefused(p) \/ UnlinkRead(p) \/ Unlink(p)
        PROVE  Fence!End(p) \/ UNCHANGED Fence!vars
    BY <2>9 DEF Crash, AcquireRefused, DecideReject, FenceRefused, UnlinkRead, Unlink,
                Fence!End
  <2>10. ASSUME NEW p \in Service,
                \/ AcquireFresh(p) \/ AcquireResolved(p) \/ AcquireObserve(p)
                \/ ProbeProcess(p) \/ ProbeEndpoint(p) \/ DecideRetry(p) \/ WriteLive(p)
         PROVE  UNCHANGED Fence!vars
    BY <2>10 DEF AcquireFresh, AcquireResolved, AcquireObserve, ProbeProcess, ProbeEndpoint,
                 DecideRetry, WriteLive
  <2>11. ASSUME NEW p \in Service,
                \/ PublishEndpoint(p) \/ BindLive(p) \/ BindRecord(p)
                \/ Reconcile(p) \/ ReleaseRefused(p) \/ ClearClaim(p) \/ ClearLive(p)
                \/ ClaimDesktop(p) \/ ReleaseDesktopClaim(p)
         PROVE  UNCHANGED Fence!vars
    BY <2>11 DEF PublishEndpoint, BindLive, BindRecord, Reconcile, ReleaseRefused,
                 ClearClaim, ClearLive, ClaimDesktop, ReleaseDesktopClaim
  <2>12. CASE \/ ClientReads \/ ClientReconciles
              \/ \E w \in LocalWriter : LocalBegin(w) \/ LocalEnd(w)
    BY <2>12 DEF ClientReads, ClientReconciles, LocalBegin, LocalEnd
  <2>13. CASE UNCHANGED vars
    BY <2>13 DEF vars
  <2> QED
    BY <2>1, <2>2, <2>3, <2>4, <2>5, <2>6, <2>7, <2>8, <2>9, <2>10, <2>11, <2>12, <2>13
       DEF Next, Acquire, Bootstrap, Finish, Fence!Next
<1> QED
  BY <1>1, <1>2, Invariant, PTL DEF Spec, ImplementsFence, Fence!Spec
=============================================================================
