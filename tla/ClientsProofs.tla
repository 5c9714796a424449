----------------------------- MODULE ClientsProofs -----------------------------
(***************************************************************************)
(* Theorems about what the clients of a LIVE service share: WriterLease,   *)
(* for any number of threads and processes, DesktopSession, for any number *)
(* of Desktops and services, and DesktopWatcher, for any number of files.  *)
(*                                                                         *)
(* WriterLease: NoLockLeaks ties every lock to a program point and is,     *)
(* with the types, inductive; the metadata needs two facts more to be of   *)
(* use: it names the owner once the owner has passed the point that writes *)
(* it, and a thread that is not dead has a process that runs.              *)
(*                                                                         *)
(* DesktopSession: a claim is replaced by an answer given at once, or by   *)
(* one given after a look at the Desktop that has it.  What keeps the      *)
(* claim of an open window is that the second finds only Desktops that     *)
(* are gone, which no window comes back from, and that no service but the  *)
(* one with the lease writes a claim.                                      *)
(*                                                                         *)
(* DesktopWatcher: a path that differs from the committed fingerprints is  *)
(* covered twice over, by what will make this watcher look at it and by    *)
(* the version the next one compares with; a job that has committed is no  *)
(* cover, unless it brought the version it was sent for.                   *)
(***************************************************************************)
EXTENDS WriterLease, DesktopSession, DesktopWatcher, TLAPS

(* The metadata is right about an owner that has written it. *)
MetadataInv ==
    \A t \in Writer : OwnsLease(t) /\ pc[t] # "record" => metadata = ProcessOf[t]

(* Threads live as long as their processes. *)
AliveInv == \A t \in Writer : pc[t] # "dead" => ProcessOf[t] \in alive

(* A request has no result before it ends. *)
OutcomeInv == \A t \in Writer : pc[t] \in Waiting => outcome[t] = "none"

IInv == TypeOK /\ NoLockLeaks /\ MetadataInv /\ AliveInv /\ OutcomeInv

Takes(t) == TakeAdmission(t) \/ TakeGate(t) \/ TakeLocal(t) \/ TakeLease(t)
Gives(t) == LeaveGate(t) \/ LeaveAdmission(t) \/ Unlock(t) \/ LeaveLocal(t)

LEMMA InitInv == Init => IInv
  BY LeaseAssumption
  DEF Init, IInv, TypeOK, NoLockLeaks, MetadataInv, AliveInv, OutcomeInv, OwnsAdmission,
      OwnsGate, OwnsLocal, OwnsLease, Granted, Refused, Holder, Points, Waiting

(* Every step keeps the types. *)
LEMMA TypeStep == TypeOK /\ [Next]_vars => TypeOK'
<1> SUFFICES ASSUME TypeOK, [Next]_vars
             PROVE  TypeOK'
  OBVIOUS
<1> USE LeaseAssumption DEF TypeOK, Holder, Points, Waiting, Goto, Result, locks, vars
<1>1. CASE UNCHANGED vars
  BY <1>1
<1>2. ASSUME NEW t \in Writer, Request(t) \/ Cancel(t)
      PROVE  TypeOK'
  <2>1. CASE Request(t)
    <3>1. bounded' \in [Writer -> BOOLEAN]
      BY <2>1 DEF Request
    <3> QED
      BY <2>1, <3>1 DEF Request
  <2>2. CASE Cancel(t)
    BY <2>2 DEF Cancel
  <2> QED
    BY <1>2, <2>1, <2>2
<1>3. ASSUME NEW t \in Writer, Takes(t)
      PROVE  TypeOK'
  BY <1>3 DEF Takes, TakeAdmission, TakeGate, TakeLocal, TakeLease
<1>4. ASSUME NEW t \in Writer, WriteMetadata(t)
      PROVE  TypeOK'
  BY <1>4 DEF WriteMetadata, OwnerRecord
<1>5. ASSUME NEW t \in Writer, GiveUp(t) \/ Fail(t)
      PROVE  TypeOK'
  <2>1. CASE GiveUp(t)
    BY <2>1 DEF GiveUp
  <2>2. CASE Fail(t)
    BY <2>2 DEF Fail
  <2> QED
    BY <1>5, <2>1, <2>2
<1>6. ASSUME NEW t \in Writer, Gives(t)
      PROVE  TypeOK'
  BY <1>6 DEF Gives, LeaveGate, LeaveAdmission, Unlock, LeaveLocal, NextAfterLocal
<1>7. ASSUME NEW p \in Process, Crash(p)
      PROVE  TypeOK'
  BY <1>7 DEF Crash, AfterDeath, Dying
<1> QED
  BY <1>1, <1>2, <1>3, <1>4, <1>5, <1>6, <1>7 DEF Next, Proceed, Takes, Gives

(* Every step keeps the locks where the program points say they are. *)
LEMMA LockStep == TypeOK /\ NoLockLeaks /\ [Next]_vars => NoLockLeaks'
<1> SUFFICES ASSUME TypeOK, NoLockLeaks, [Next]_vars
             PROVE  NoLockLeaks'
  OBVIOUS
<1> USE LeaseAssumption
    DEF TypeOK, NoLockLeaks, Holder, Points, Waiting, Goto, Result, locks, vars,
        OwnsAdmission, OwnsGate, OwnsLocal, OwnsLease, Granted, Refused
<1>1. CASE UNCHANGED vars
  BY <1>1
<1>2. ASSUME NEW t \in Writer, Request(t) \/ Cancel(t)
      PROVE  NoLockLeaks'
  BY <1>2 DEF Request, Cancel
<1>3. ASSUME NEW t \in Writer, Takes(t)
      PROVE  NoLockLeaks'
  BY <1>3 DEF Takes, TakeAdmission, TakeGate, TakeLocal, TakeLease, Free
<1>4. ASSUME NEW t \in Writer, WriteMetadata(t)
      PROVE  NoLockLeaks'
  BY <1>4 DEF WriteMetadata
<1>5. ASSUME NEW t \in Writer, GiveUp(t) \/ Fail(t)
      PROVE  NoLockLeaks'
  <2>1. CASE GiveUp(t)
    BY <2>1 DEF GiveUp
  <2>2. CASE Fail(t)
    BY <2>2 DEF Fail
  <2> QED
    BY <1>5, <2>1, <2>2
<1>6. ASSUME NEW t \in Writer, Gives(t)
      PROVE  NoLockLeaks'
  BY <1>6 DEF Gives, LeaveGate, LeaveAdmission, Unlock, LeaveLocal, NextAfterLocal
<1>7. ASSUME NEW p \in Process, Crash(p)
      PROVE  NoLockLeaks'
  BY <1>7 DEF Crash, AfterDeath, Dying
<1> QED
  BY <1>1, <1>2, <1>3, <1>4, <1>5, <1>6, <1>7 DEF Next, Proceed, Takes, Gives

(* The metadata is written before the owner leaves the gate, and by owners alone. *)
LEMMA MetadataStep ==
    TypeOK /\ NoLockLeaks /\ MetadataInv /\ [Next]_vars => MetadataInv'
<1> SUFFICES ASSUME TypeOK, NoLockLeaks, MetadataInv, [Next]_vars
             PROVE  MetadataInv'
  OBVIOUS
<1> USE LeaseAssumption
    DEF TypeOK, MetadataInv, Holder, Points, Waiting, Goto, Result, locks, vars,
        OwnsLease, Granted
<1>1. CASE UNCHANGED vars
  BY <1>1
<1>2. ASSUME NEW t \in Writer, Request(t) \/ Cancel(t)
      PROVE  MetadataInv'
  BY <1>2 DEF Request, Cancel
<1>3. ASSUME NEW t \in Writer, Takes(t)
      PROVE  MetadataInv'
  <2>1. UNCHANGED <<metadata, outcome>>
    BY <1>3 DEF Takes, TakeAdmission, TakeGate, TakeLocal, TakeLease
  <2>2. /\ pc'[t] \in {"gate", "local", "lease", "record"}
        /\ \A u \in Writer \ {t} : pc'[u] = pc[u]
    BY <1>3 DEF Takes, TakeAdmission, TakeGate, TakeLocal, TakeLease
  <2>3. ASSUME NEW u \in Writer, OwnsLease(u)', pc'[u] # "record"
        PROVE  metadata' = ProcessOf[u]
    <3>1. u # t
      BY <2>2, <2>3
    <3>2. OwnsLease(u) /\ pc[u] # "record"
      BY <2>1, <2>2, <2>3, <3>1
    <3> QED
      BY <2>1, <3>2
  <2> QED
    BY <2>3
<1>4. ASSUME NEW t \in Writer, WriteMetadata(t)
      PROVE  MetadataInv'
  BY <1>4 DEF WriteMetadata, OwnerRecord, NoLockLeaks
<1>5. ASSUME NEW t \in Writer, GiveUp(t) \/ Fail(t)
      PROVE  MetadataInv'
  <2>1. CASE GiveUp(t)
    BY <2>1 DEF GiveUp
  <2>2. CASE Fail(t)
    BY <2>2 DEF Fail
  <2> QED
    BY <1>5, <2>1, <2>2
<1>6. ASSUME NEW t \in Writer, Gives(t)
      PROVE  MetadataInv'
  BY <1>6 DEF Gives, LeaveGate, LeaveAdmission, Unlock, LeaveLocal, NextAfterLocal, Refused
<1>7. ASSUME NEW p \in Process, Crash(p)
      PROVE  MetadataInv'
  BY <1>7 DEF Crash
<1> QED
  BY <1>1, <1>2, <1>3, <1>4, <1>5, <1>6, <1>7 DEF Next, Proceed, Takes, Gives

(* A process dies with all its threads. *)
LEMMA AliveStep == TypeOK /\ AliveInv /\ [Next]_vars => AliveInv'
<1> SUFFICES ASSUME TypeOK, AliveInv, [Next]_vars
             PROVE  AliveInv'
  OBVIOUS
<1> USE LeaseAssumption DEF TypeOK, AliveInv, Goto, Waiting, locks, vars
<1>1. CASE UNCHANGED vars
  BY <1>1
<1>2. ASSUME NEW t \in Writer, Request(t) \/ Cancel(t) \/ Takes(t) \/ WriteMetadata(t) \/ Gives(t)
      PROVE  AliveInv'
  BY <1>2 DEF Request, Cancel, Takes, TakeAdmission, TakeGate, TakeLocal, TakeLease,
              WriteMetadata, Gives, LeaveGate, LeaveAdmission, Unlock, LeaveLocal
<1>3. ASSUME NEW t \in Writer, GiveUp(t) \/ Fail(t)
      PROVE  AliveInv'
  <2>1. CASE GiveUp(t)
    BY <2>1 DEF GiveUp
  <2>2. CASE Fail(t)
    BY <2>2 DEF Fail
  <2> QED
    BY <1>3, <2>1, <2>2
<1>4. ASSUME NEW p \in Process, Crash(p)
      PROVE  AliveInv'
  BY <1>4 DEF Crash, Dying
<1> QED
  BY <1>1, <1>2, <1>3, <1>4 DEF Next, Proceed, Takes, Gives

(* Requests start without a result and end where they get one. *)
LEMMA OutcomeStep == TypeOK /\ OutcomeInv /\ [Next]_vars => OutcomeInv'
<1> SUFFICES ASSUME TypeOK, OutcomeInv, [Next]_vars
             PROVE  OutcomeInv'
  OBVIOUS
<1> USE LeaseAssumption DEF TypeOK, OutcomeInv, Goto, Result, Waiting, locks, vars
<1>1. CASE UNCHANGED vars
  BY <1>1
<1>2. ASSUME NEW t \in Writer, Request(t) \/ Cancel(t) \/ WriteMetadata(t)
      PROVE  OutcomeInv'
  BY <1>2 DEF Request, Cancel, WriteMetadata
<1>3. ASSUME NEW t \in Writer, Takes(t)
      PROVE  OutcomeInv'
  BY <1>3 DEF Takes, TakeAdmission, TakeGate, TakeLocal, TakeLease
<1>4. ASSUME NEW t \in Writer, GiveUp(t) \/ Fail(t)
      PROVE  OutcomeInv'
  <2>1. CASE GiveUp(t)
    BY <2>1 DEF GiveUp
  <2>2. CASE Fail(t)
    BY <2>2 DEF Fail
  <2> QED
    BY <1>4, <2>1, <2>2
<1>5. ASSUME NEW t \in Writer, Gives(t)
      PROVE  OutcomeInv'
  BY <1>5 DEF Gives, LeaveGate, LeaveAdmission, Unlock, LeaveLocal, NextAfterLocal
<1>6. ASSUME NEW p \in Process, Crash(p)
      PROVE  OutcomeInv'
  BY <1>6 DEF Crash, Dying
<1> QED
  BY <1>1, <1>2, <1>3, <1>4, <1>5, <1>6 DEF Next, Proceed, Takes, Gives

(* The inductive invariant. *)
THEOREM Invariant == Spec => []IInv
<1>1. IInv /\ [Next]_vars => IInv'
  BY TypeStep, LockStep, MetadataStep, AliveStep, OutcomeStep DEF IInv
<1> QED
  BY InitInv, <1>1, PTL DEF Spec

-----------------------------------------------------------------------------
(* Types hold in every reachable state. *)
THEOREM TypeCorrect == Spec => []TypeOK
  BY Invariant, PTL DEF IInv

(* Whatever fails or crashes, no lock is leaked or given back twice. *)
THEOREM LocksAccountedFor == Spec => []NoLockLeaks
  BY Invariant, PTL DEF IInv

(* At most one thread of all processes holds the lease. *)
THEOREM MutualExclusion == Spec => []OneWriter
<1>1. IInv => OneWriter
  BY DEF IInv, NoLockLeaks, OneWriter
<1> QED
  BY Invariant, <1>1, PTL

(* Nobody enters past the thread that stands at the gate. *)
THEOREM NoOvertaking == Spec => NotOvertaken
<1>1. IInv /\ [Next]_vars
        => [\A t, u \in Writer :
              pc[t] \in {"local", "lease"} /\ OwnsLease(u)' => OwnsLease(u) \/ u = t]_vars
  <2> SUFFICES ASSUME IInv, Next,
                      NEW t \in Writer, NEW u \in Writer,
                      pc[t] \in {"local", "lease"}, OwnsLease(u)', u # t
               PROVE  OwnsLease(u)
    BY DEF vars
  <2> USE LeaseAssumption DEF IInv, TypeOK, Goto, Result, OwnsLease, Granted, locks
  <2>1. ASSUME NEW v \in Writer, TakeLease(v)
        PROVE  OwnsLease(u)
    BY <2>1 DEF TakeLease, NoLockLeaks, OwnsGate
  <2>2. ASSUME NEW v \in Writer,
               \/ Request(v) \/ Cancel(v) \/ Gives(v)
               \/ TakeAdmission(v) \/ TakeGate(v) \/ TakeLocal(v)
        PROVE  OwnsLease(u)
    BY <2>2 DEF Request, Cancel, Gives, TakeAdmission, TakeGate, TakeLocal, LeaveGate,
                LeaveAdmission, Unlock, LeaveLocal, NextAfterLocal, Refused
  <2>3. ASSUME NEW v \in Writer, WriteMetadata(v) \/ Fail(v)
        PROVE  OwnsLease(u)
    BY <2>3 DEF WriteMetadata, Fail
  <2>4. ASSUME NEW v \in Writer, GiveUp(v)
        PROVE  OwnsLease(u)
    BY <2>4 DEF GiveUp, Waiting
  <2>5. ASSUME NEW p \in Process, Crash(p)
        PROVE  OwnsLease(u)
    BY <2>5 DEF Crash
  <2> QED
    BY <2>1, <2>2, <2>3, <2>4, <2>5 DEF Next, Proceed, Gives
<1> QED
  BY Invariant, <1>1, PTL DEF Spec, NotOvertaken

(* The four locks implement a lease with one place next in line. *)
THEOREM LocksImplementOrder == Spec => ImplementsOrder
<1>1. Init => Order!Init
  BY DEF Init, Order!Init
<1>2. IInv /\ [Next]_vars => [Order!Next]_(Order!vars)
  <2> SUFFICES ASSUME IInv, Next
               PROVE  Order!Next \/ UNCHANGED Order!vars
    BY DEF vars, locks, Order!vars
  <2> USE LeaseAssumption
      DEF IInv, TypeOK, NoLockLeaks, Goto, Result, locks, OwnsGate, OwnsLease, Granted,
          Refused, Order!vars
  <2>1. ASSUME NEW t \in Writer, TakeGate(t)
        PROVE  Order!Stand(t)
    BY <2>1 DEF TakeGate, Free, Order!Stand
  <2>2. ASSUME NEW t \in Writer, TakeLease(t)
        PROVE  Order!Enter(t)
    BY <2>2 DEF TakeLease, Free, Order!Enter
  <2>3. ASSUME NEW t \in Writer, LeaveGate(t)
        PROVE  Order!StepAside(t)
    BY <2>3 DEF LeaveGate, Order!StepAside
  <2>4. ASSUME NEW t \in Writer, Unlock(t)
        PROVE  Order!Leave(t)
    BY <2>4 DEF Unlock, Order!Leave
  <2>5. ASSUME NEW t \in Writer, Fail(t)
        PROVE  Order!Leave(t) \/ UNCHANGED Order!vars
    BY <2>5 DEF Fail, Order!Leave
  <2>6. ASSUME NEW t \in Writer,
               \/ Request(t) \/ Cancel(t) \/ TakeAdmission(t) \/ TakeLocal(t)
               \/ WriteMetadata(t) \/ GiveUp(t) \/ LeaveAdmission(t) \/ LeaveLocal(t)
        PROVE  UNCHANGED Order!vars
    BY <2>6 DEF Request, Cancel, TakeAdmission, TakeLocal, WriteMetadata, GiveUp,
                LeaveAdmission, LeaveLocal
  <2>7. ASSUME NEW p \in Process, Crash(p)
        PROVE  \E dying \in SUBSET Writer : Order!Perish(dying)
    <3>1. Dying(p) \in SUBSET Writer
      BY DEF Dying
    <3>2. Order!Perish(Dying(p))
      BY <2>7 DEF Crash, AfterDeath, Order!Perish
    <3> QED
      BY <3>1, <3>2
  <2> QED
    BY <2>1, <2>2, <2>3, <2>4, <2>5, <2>6, <2>7 DEF Next, Proceed, Order!Next
<1> QED
  BY Invariant, <1>1, <1>2, PTL DEF Spec, ImplementsOrder, Order!Spec

(* Nobody without a deadline gives up on a running, verifiable owner. *)
THEOREM OwnersAreAwaited == Spec => VerifiedOwnerAwaited
<1>1. IInv /\ [Next]_vars
        => [\A t \in Writer :
              /\ pc[t] = "lease" /\ outcome'[t] = "refused"
              /\ ~ bounded[t] /\ ~ cancelled[t]
              => lease = Stuck \/ ProcessOf[lease] \in Unverifiable]_vars
  <2> SUFFICES ASSUME IInv, Next, NEW t \in Writer,
                      pc[t] = "lease", outcome'[t] = "refused",
                      ~ bounded[t], ~ cancelled[t], lease # Stuck
               PROVE  ProcessOf[lease] \in Unverifiable
    BY DEF vars
  <2> USE LeaseAssumption DEF IInv, TypeOK, Holder
  <2>1. ASSUME NEW u \in Writer, GiveUp(u), u = t
        PROVE  ProcessOf[lease] \in Unverifiable
    <3>1. lease \in Writer /\ pc[lease] # "record"
      BY <2>1 DEF GiveUp, MayGiveUp, Impatient
    <3>2. metadata = ProcessOf[lease] /\ ProcessOf[lease] \in alive
      BY <3>1 DEF NoLockLeaks, MetadataInv, AliveInv, OwnsLease, Granted
    <3>3. OwnerState # "active"
      BY <2>1 DEF GiveUp, MayGiveUp, Impatient
    <3> QED
      BY <3>1, <3>2, <3>3 DEF OwnerState
  <2>2. outcome[t] = "none"
    BY DEF OutcomeInv, Waiting
  <2>3. ASSUME NEW u \in Writer, Proceed(u) \/ Request(u) \/ Cancel(u) \/ Fail(u)
        PROVE  GiveUp(u) /\ u = t
    BY <2>2, <2>3 DEF Proceed, Request, Cancel, Fail, TakeAdmission, TakeGate, TakeLocal,
         TakeLease, WriteMetadata, LeaveGate, LeaveAdmission, GiveUp, Unlock, LeaveLocal, Result
  <2>4. ASSUME NEW p \in Process, Crash(p)
        PROVE  FALSE
    BY <2>2, <2>4 DEF Crash
  <2> QED
    BY <2>1, <2>3, <2>4 DEF Next
<1> QED
  BY Invariant, <1>1, PTL DEF Spec, VerifiedOwnerAwaited

-----------------------------------------------------------------------------
(* Desktops and services  *)

(* The points of connect_or_start at which a caller is, and what it has    *)
(* learned there.                                                          *)
CallPoints == {"look", "lock", "check", "await", "admit", "probe", "settle", "attach",
               "create", "start", "go"}

Claims == [by : Desktop \cup {NoOneYet}, of : Runtime \cup {NoOneYet}]

Calls == [at : CallPoints, to : Runtime \cup {NoOneYet}, locked : BOOLEAN,
          mine : Runtime \cup {NoOneYet}, tries : 0..2, saw : Claims]

(* The types of windows, calls, services and claims. *)
SessionTypeOK ==
    /\ window \in [Desktop -> {"open", "closing", "releasing", "stopping", "waiting", "done", "exited"}]
    /\ call \in [Caller -> Calls \cup {NoCall}]
    /\ startLock \in Caller \cup {NoOneYet}
    /\ life \in [Runtime -> {"new", "booting", "leased", "claimed", "ready", "closing", "gone"}]
    /\ owner \in [Runtime -> Desktop \cup {NoOneYet}]
    /\ authority \in Runtime \cup {NoOneYet}
    /\ claim \in Claims
    /\ attached \in [Desktop -> Runtime \cup {NoOneYet}]
    /\ leaving \in [Desktop -> Runtime \cup {NoOneYet}]
    /\ observing \in [Desktop -> {"none", "made", "running", "stopped"}]
    /\ retry \in [Desktop -> [count : Nat, timer : BOOLEAN]]

(* A service past its boot and not gone has the lease, and one that was    *)
(* spawned has an owner.                                                   *)
LeasedInv ==
    \A r \in Runtime :
        /\ life[r] \in {"leased", "claimed", "ready", "closing"} => authority = r
        /\ life[r] # "new" => owner[r] \in Desktop

(* A Desktop is attached to, or leaves, a service that was ready once.     *)
AttachedInv ==
    \A d \in Desktop : \A r \in Runtime :
        attached[d] = r \/ leaving[d] = r => life[r] \in {"ready", "closing", "gone"}

(* A claim is looked into when a Desktop has it, and found stale when that *)
(* Desktop is gone, which it stays.                                        *)
SawInv ==
    \A t \in Caller :
        /\ call[t].at \in {"admit", "probe", "settle"} => call[t].to \in Runtime
        /\ call[t].at \in {"probe", "settle"} => call[t].saw.by \in Desktop
        /\ call[t].at = "settle" => window[call[t].saw.by] = "exited"

(* A window waits for a service it spawned. *)
WaitingInv ==
    \A d \in Desktop : window[d] = "waiting" => leaving[d] \in Runtime /\ owner[leaving[d]] = d

(* The claim of an open window lasts as long as the lease of its service.  *)
ClaimInv ==
    \A d \in Desktop : \A r \in Runtime :
        window[d] = "open" /\ attached[d] = r /\ authority = r => claim = [by |-> d, of |-> r]

SessionInv ==
    SessionTypeOK /\ LeasedInv /\ AttachedInv /\ SawInv /\ WaitingInv /\ ClaimInv

LEMMA InitSession == SessionInit => SessionInv
  BY DesktopAssumption
  DEF SessionInit, SessionInv, SessionTypeOK, LeasedInv, AttachedInv, SawInv, WaitingInv, ClaimInv,
      NoCall, NoClaim, Rested, Claims, Caller


(* A caller that is in a call has its record. *)
LEMMA CallTyped ==
  ASSUME SessionTypeOK, NEW t \in Caller, call[t].at # "idle"
  PROVE  call[t] \in Calls
  BY DEF SessionTypeOK, NoCall

LEMMA RetryTyped ==
  ASSUME SessionTypeOK, NEW d \in Desktop, NEW n \in Nat, NEW b \in BOOLEAN,
         retry' = [retry EXCEPT ![d] = [count |-> n, timer |-> b]]
  PROVE  retry' \in [Desktop -> [count : Nat, timer : BOOLEAN]]
<1>1. retry \in [Desktop -> [count : Nat, timer : BOOLEAN]]
  BY DEF SessionTypeOK
<1>2. [count |-> n, timer |-> b] \in [count : Nat, timer : BOOLEAN]
  OBVIOUS
<1> QED BY <1>1, <1>2

(* What a step does to the calls: the one of its caller moves.             *)
LEMMA CallMoves ==
  ASSUME SessionInv, NEW t \in Caller, NEW c \in Calls \cup {NoCall},
         call' = [call EXCEPT ![t] = c],
         c.at \notin {"probe", "settle"}, c.at = "admit" => c.to \in Runtime, UNCHANGED window
  PROVE  SawInv' /\ call' \in [Caller -> Calls \cup {NoCall}]
  BY DEF SessionInv, SessionTypeOK, SawInv

(* The ends of a call keep the types, and only the call, the start lock    *)
(* and the retry change.                                                   *)
LEMMA FailedStep ==
  ASSUME SessionInv, NEW t \in Caller, Failed(t) \/ SecondDesktop(t) \/ Raised(t), UNCHANGED window
  PROVE  /\ SawInv' /\ call' \in [Caller -> Calls \cup {NoCall}]
         /\ startLock' \in Caller \cup {NoOneYet}
         /\ retry' \in [Desktop -> [count : Nat, timer : BOOLEAN]]
         /\ UNCHANGED attached
<1>1. SawInv' /\ call' \in [Caller -> Calls \cup {NoCall}]
  BY CallMoves DEF Failed, SecondDesktop, Raised, NoCall
<1>2. startLock' \in Caller \cup {NoOneYet}
  BY DEF Failed, SecondDesktop, Raised, GiveLockBack, SessionInv, SessionTypeOK
<1>3. retry' \in [Desktop -> [count : Nat, timer : BOOLEAN]]
  <2>1. t[1] \in Desktop /\ retry[t[1]].count \in Nat
    BY DEF SessionInv, SessionTypeOK, Caller
  <2>2. CASE Failed(t)
    <3> PICK n \in Nat : n = retry[t[1]].count + 1
      BY <2>1
    <3>1. \/ retry' = retry \/ retry' = [retry EXCEPT ![t[1]] = [count |-> n, timer |-> TRUE]]
          \/ retry' = [retry EXCEPT ![t[1]] = [count |-> 0, timer |-> FALSE]]
      BY <2>2 DEF Failed, Rested
    <3>2. retry \in [Desktop -> [count : Nat, timer : BOOLEAN]]
      BY DEF SessionInv, SessionTypeOK
    <3> QED BY <2>1, <3>1, <3>2, RetryTyped DEF SessionInv
  <2>3. CASE SecondDesktop(t) \/ Raised(t)
    <3>1. retry' = retry \/ retry' = [retry EXCEPT ![t[1]] = [count |-> 0, timer |-> FALSE]]
      BY <2>3 DEF SecondDesktop, Raised, Rested
    <3>2. retry \in [Desktop -> [count : Nat, timer : BOOLEAN]]
      BY DEF SessionInv, SessionTypeOK
    <3> QED BY <2>1, <3>1, <3>2, RetryTyped DEF SessionInv
  <2> QED BY <2>2, <2>3
<1> QED BY <1>1, <1>2, <1>3 DEF Failed, SecondDesktop, Raised

LEMMA AdmittedStep ==
  ASSUME SessionInv, NEW t \in Caller, InCall(t, "admit") \/ InCall(t, "settle"),
         Admitted(t), UNCHANGED window
  PROVE  /\ SawInv' /\ call' \in [Caller -> Calls \cup {NoCall}]
         /\ startLock' \in Caller \cup {NoOneYet}
         /\ retry' \in [Desktop -> [count : Nat, timer : BOOLEAN]]
         /\ attached' \in [Desktop -> Runtime \cup {NoOneYet}]
         /\ \A d \in Desktop : attached'[d] = IF d = t[1] /\ DesktopAlive(d) THEN call[t].to ELSE attached[d]
<1>1. call[t] \in Calls
  BY CallTyped DEF InCall, SessionInv
<1>2. SawInv' /\ call' \in [Caller -> Calls \cup {NoCall}]
  <2>1. CASE call' = [call EXCEPT ![t] = NoCall]
    BY <2>1, CallMoves DEF NoCall
  <2>2. CASE call' = [call EXCEPT ![t].at = "attach"]
    <3>1. [call[t] EXCEPT !.at = "attach"] \in Calls
      BY <1>1 DEF Calls, CallPoints
    <3>2. call' = [call EXCEPT ![t] = [call[t] EXCEPT !.at = "attach"]]
      BY <2>2
    <3> QED BY <3>1, <3>2, CallMoves, <1>1 DEF Calls
  <2> QED BY <2>1, <2>2 DEF Admitted
<1>3. startLock' \in Caller \cup {NoOneYet}
  BY DEF Admitted, GiveLockBack, SessionInv, SessionTypeOK
<1>4. retry' \in [Desktop -> [count : Nat, timer : BOOLEAN]]
  <2>1. t[1] \in Desktop
    BY DEF Caller
  <2>2. retry' = retry \/ retry' = [retry EXCEPT ![t[1]] = [count |-> 0, timer |-> FALSE]]
    BY DEF Admitted, Rested
  <2>3. retry \in [Desktop -> [count : Nat, timer : BOOLEAN]]
    BY DEF SessionInv, SessionTypeOK
  <2> QED BY <2>1, <2>2, <2>3, RetryTyped DEF SessionInv
<1>5. t[1] \in Desktop
  BY DEF Caller
<1> QED BY <1>1, <1>2, <1>3, <1>4, <1>5 DEF Admitted, SessionInv, SessionTypeOK, Calls

(* A step that moves its caller on and touches no service.                 *)
LEMMA CallingStep ==
  ASSUME SessionInv, NEW t \in Caller, NEW c \in Calls \cup {NoCall},
         call' = [call EXCEPT ![t] = c], c.at \notin {"probe", "settle"},
         c.at = "admit" => c.to \in Runtime,
         startLock' \in Caller \cup {NoOneYet},
         UNCHANGED <<window, life, owner, authority, claim, attached, leaving, observing, retry>>
  PROVE  SessionInv'
  BY CallMoves DEF SessionInv, SessionTypeOK, LeasedInv, AttachedInv, WaitingInv, ClaimInv

LEMMA CallingTyped ==
  ASSUME NEW r \in Runtime \cup {NoOneYet}, NEW locked \in BOOLEAN, NEW mine \in Runtime \cup {NoOneYet}
  PROVE  /\ Calling(r, locked, mine) \in Calls
         /\ Calling(r, locked, mine).at = "admit" /\ Calling(r, locked, mine).to = r
  BY DEF Calling, Calls, CallPoints, Claims, NoClaim

(* The steps of connect_or_start before a service is there. *)
LEMMA LookStep ==
  ASSUME SessionInv, NEW t \in Caller,
         Look(t) \/ LookRaises(t) \/ TakeStartLock(t) \/ BreakStartLock(t) \/ LockTimesOut(t)
  PROVE  SessionInv'
<1> USE DEF InCall
<1>1. CASE Look(t)
  <2>1. CASE \E r \in Runtime : call' = [call EXCEPT ![t] = Calling(r, FALSE, NoOneYet)]
    <3> PICK r \in Runtime : call' = [call EXCEPT ![t] = Calling(r, FALSE, NoOneYet)]
      BY <2>1
    <3> PICK c : c = Calling(r, FALSE, NoOneYet)
      OBVIOUS
    <3>1. c \in Calls /\ c.at = "admit" /\ c.to = r
      BY CallingTyped
    <3>2. UNCHANGED <<window, life, owner, authority, claim, attached, leaving, observing, retry, startLock>>
      BY <1>1, <2>1 DEF Look
    <3> QED BY <3>1, <3>2, CallingStep DEF SessionInv, SessionTypeOK
  <2>2. CASE Move(t, "lock")
    <3>1. call[t] \in Calls
      BY <1>1, CallTyped DEF Look, SessionInv
    <3>2. [call[t] EXCEPT !.at = "lock"] \in Calls
      BY <3>1 DEF Calls, CallPoints
    <3>3. call' = [call EXCEPT ![t] = [call[t] EXCEPT !.at = "lock"]]
      BY <2>2 DEF Move
    <3> QED BY <1>1, <3>1, <3>2, <3>3, CallingStep DEF Look, Calls, SessionInv, SessionTypeOK
  <2> QED BY <1>1, <2>1, <2>2 DEF Look
<1>2. CASE LookRaises(t)
  BY <1>2, FailedStep DEF LookRaises, SessionInv, SessionTypeOK, LeasedInv, AttachedInv, WaitingInv, ClaimInv, Raised
<1>3. CASE TakeStartLock(t)
  <2>1. CASE \E r \in Runtime : call' = [call EXCEPT ![t] = Calling(r, FALSE, NoOneYet)] /\ UNCHANGED startLock
    <3> PICK r \in Runtime : call' = [call EXCEPT ![t] = Calling(r, FALSE, NoOneYet)] /\ UNCHANGED startLock
      BY <2>1
    <3> PICK c : c = Calling(r, FALSE, NoOneYet)
      OBVIOUS
    <3>1. c \in Calls /\ c.at = "admit" /\ c.to = r
      BY CallingTyped
    <3>2. UNCHANGED <<window, life, owner, authority, claim, attached, leaving, observing, retry, startLock>>
      BY <1>3, <2>1 DEF TakeStartLock
    <3> QED BY <3>1, <3>2, CallingStep DEF SessionInv, SessionTypeOK
  <2>2. CASE call' = [call EXCEPT ![t].at = "check", ![t].locked = TRUE] /\ startLock' = t
    <3>1. call[t] \in Calls
      BY <1>3, CallTyped DEF TakeStartLock, SessionInv
    <3>2. [call[t] EXCEPT !.at = "check", !.locked = TRUE] \in Calls
      BY <3>1 DEF Calls, CallPoints
    <3>3. call' = [call EXCEPT ![t] = [call[t] EXCEPT !.at = "check", !.locked = TRUE]]
      BY <2>2, <3>1 DEF SessionInv, SessionTypeOK, Calls
    <3> QED BY <1>3, <2>2, <3>1, <3>2, <3>3, CallingStep DEF TakeStartLock, Calls
  <2> QED BY <1>3, <2>1, <2>2 DEF TakeStartLock
<1>4. CASE BreakStartLock(t)
  BY <1>4 DEF BreakStartLock, SessionInv, SessionTypeOK, LeasedInv, AttachedInv, SawInv, WaitingInv, ClaimInv
<1>5. CASE LockTimesOut(t)
  BY <1>5, FailedStep DEF LockTimesOut, SessionInv, SessionTypeOK, LeasedInv, AttachedInv, WaitingInv, ClaimInv
<1> QED BY <1>1, <1>2, <1>3, <1>4, <1>5

(* A service is spawned, or is not.                                        *)
LEMMA SpawnStep ==
  ASSUME SessionInv, NEW t \in Caller, CheckOrSpawn(t) \/ SpawnFails(t)
  PROVE  SessionInv'
<1> USE DEF InCall
<1>1. CASE SpawnFails(t)
  BY <1>1, FailedStep DEF SpawnFails, SessionInv, SessionTypeOK, LeasedInv, AttachedInv, WaitingInv, ClaimInv
<1>2. ASSUME CheckOrSpawn(t), NEW r \in Runtime, call' = [call EXCEPT ![t] = Calling(r, TRUE, NoOneYet)],
             UNCHANGED <<life, owner>>
      PROVE  SessionInv'
  <2> PICK c : c = Calling(r, TRUE, NoOneYet)
    OBVIOUS
  <2>1. c \in Calls /\ c.at = "admit" /\ c.to = r
    BY CallingTyped
  <2>2. UNCHANGED <<window, life, owner, authority, claim, attached, leaving, observing, retry, startLock>>
    BY <1>2 DEF CheckOrSpawn
  <2> QED BY <1>2, <2>1, <2>2, CallingStep DEF SessionInv, SessionTypeOK
<1>3. ASSUME CheckOrSpawn(t), NEW r \in Runtime, life[r] = "new", life' = [life EXCEPT ![r] = "booting"],
             owner' = [owner EXCEPT ![r] = t[1]],
             call' = [call EXCEPT ![t].at = "await", ![t].mine = r]
      PROVE  SessionInv'
  <2>1. call[t] \in Calls
    BY <1>3, CallTyped DEF CheckOrSpawn, SessionInv
  <2> PICK c : c = [call[t] EXCEPT !.at = "await", !.mine = r]
    OBVIOUS
  <2>2. c \in Calls /\ c.at = "await"
    BY <2>1 DEF Calls, CallPoints
  <2>3. call' = [call EXCEPT ![t] = c]
    BY <1>3, <2>1 DEF SessionInv, SessionTypeOK, Calls
  <2>4. SawInv' /\ call' \in [Caller -> Calls \cup {NoCall}]
    BY <1>3, <2>2, <2>3, CallMoves DEF CheckOrSpawn
  <2>5. t[1] \in Desktop
    BY DEF Caller
  <2>6. SessionTypeOK'
    BY <1>3, <2>4, <2>5 DEF CheckOrSpawn, SessionInv, SessionTypeOK
  <2>7. \A s \in Runtime : s # r => life'[s] = life[s] /\ owner'[s] = owner[s]
    BY <1>3 DEF SessionInv, SessionTypeOK
  <2>8. life'[r] = "booting" /\ owner'[r] \in Desktop
    BY <1>3, <2>5 DEF SessionInv, SessionTypeOK
  <2>9. UNCHANGED <<window, authority, claim, attached, leaving>>
    BY <1>3 DEF CheckOrSpawn
  <2>10. LeasedInv'
    BY <2>7, <2>8, <2>9 DEF SessionInv, LeasedInv
  <2>11. AttachedInv' /\ ClaimInv'
    BY <1>3, <2>7, <2>8, <2>9 DEF SessionInv, AttachedInv, ClaimInv
  <2>12. WaitingInv'
    BY <1>3, <2>7, <2>9 DEF SessionInv, AttachedInv, WaitingInv
  <2> QED BY <2>4, <2>6, <2>10, <2>11, <2>12 DEF SessionInv
<1> QED BY <1>1, <1>2, <1>3 DEF CheckOrSpawn

(* A spawned service that is killed had no lease, or loses it later.       *)
LEMMA KilledStep ==
  ASSUME SessionInv, NEW r, Killed(r), UNCHANGED <<window, owner, authority, claim, attached, leaving>>
  PROVE  LeasedInv' /\ AttachedInv' /\ WaitingInv' /\ ClaimInv'
         /\ life' \in [Runtime -> {"new", "booting", "leased", "claimed", "ready", "closing", "gone"}]
  BY DEF Killed, ServiceAlive, SessionInv, SessionTypeOK, LeasedInv, AttachedInv, WaitingInv, ClaimInv

LEMMA AwaitStep ==
  ASSUME SessionInv, NEW t \in Caller, AwaitService(t) \/ AwaitTimesOut(t)
  PROVE  SessionInv'
<1> USE DEF InCall
<1>1. ASSUME AwaitService(t), NEW r \in Runtime, call' = [call EXCEPT ![t] = Calling(r, TRUE, call[t].mine)],
             UNCHANGED <<startLock, attached, retry>>
      PROVE  SessionInv'
  <2>1. call[t] \in Calls
    BY <1>1, CallTyped DEF AwaitService, SessionInv
  <2> PICK mine : mine = call[t].mine
    OBVIOUS
  <2>2. mine \in Runtime \cup {NoOneYet}
    BY <2>1 DEF Calls
  <2> PICK c : c = Calling(r, TRUE, mine)
    OBVIOUS
  <2>3. c \in Calls /\ c.at = "admit" /\ c.to = r
    BY <2>2, CallingTyped
  <2>4. UNCHANGED <<window, life, owner, authority, claim, attached, leaving, observing, retry, startLock>>
    BY <1>1 DEF AwaitService
  <2> QED BY <1>1, <2>3, <2>4, CallingStep DEF SessionInv, SessionTypeOK
<1>2. ASSUME AwaitService(t), Failed(t)
      PROVE  SessionInv'
  BY <1>2, FailedStep DEF AwaitService, SessionInv, SessionTypeOK, LeasedInv, AttachedInv, WaitingInv, ClaimInv
<1>3. CASE AwaitTimesOut(t)
  BY <1>3, FailedStep, KilledStep DEF AwaitTimesOut, SessionInv, SessionTypeOK
<1> QED BY <1>1, <1>2, <1>3 DEF AwaitService

(* A claim that is answered at once is one's own, or was no one's.         *)
LEMMA AskStep ==
  ASSUME SessionInv, NEW t \in Caller, AskForClaim(t)
  PROVE  SessionInv'
<1> USE DEF InCall
<1> PICK r : r = call[t].to
  OBVIOUS
<1>1. call[t] \in Calls
  BY CallTyped DEF AskForClaim, SessionInv
<1>2. r \in Runtime \cup {NoOneYet} /\ t[1] \in Desktop
  BY <1>1 DEF Calls, Caller
<1>3. CASE Failed(t) /\ UNCHANGED claim
  BY <1>3, FailedStep DEF AskForClaim, SessionInv, SessionTypeOK, LeasedInv, AttachedInv, WaitingInv, ClaimInv
<1>4. CASE /\ Verified(r) /\ ClaimOf(r).by \in {NoOneYet, t[1]}
           /\ claim' = [by |-> t[1], of |-> r] /\ Admitted(t)
  <2>1. r \in Runtime
    BY DEF AskForClaim, SessionInv, SawInv
  <2>2. UNCHANGED <<window, life, owner, authority, leaving, observing>>
    BY DEF AskForClaim
  <2>3. SessionTypeOK' /\ SawInv'
    BY <1>2, <1>4, <2>2, AdmittedStep DEF AskForClaim, SessionInv, SessionTypeOK, Claims
  <2>4. LeasedInv' /\ WaitingInv'
    BY <2>2 DEF SessionInv, LeasedInv, WaitingInv
  <2>5. AttachedInv'
    BY <1>4, <2>1, <2>2, AdmittedStep DEF SessionInv, AttachedInv, Verified, AskForClaim
  <2>6. ClaimInv'
    <3> SUFFICES ASSUME NEW d \in Desktop, NEW s \in Runtime, window[d] = "open", attached'[d] = s, authority = s
                 PROVE  claim' = [by |-> d, of |-> s]
      BY <2>2 DEF ClaimInv
    <3>1. s = r
      BY <1>4, <2>1 DEF Verified
    <3>2. CASE d = t[1]
      BY <3>1, <3>2, <1>4
    <3>3. CASE d # t[1]
      <4>1. claim = [by |-> d, of |-> r]
        BY <3>1, <3>3, <1>4, <2>2, AdmittedStep DEF AskForClaim, SessionInv, ClaimInv
      <4> QED BY <4>1, <1>4, <3>1, <3>3, DesktopAssumption DEF ClaimOf
    <3> QED BY <3>2, <3>3
  <2> QED BY <2>3, <2>4, <2>5, <2>6 DEF SessionInv
<1>5. CASE /\ Verified(r) /\ ClaimOf(r).by \notin {NoOneYet, t[1]}
           /\ call' = [call EXCEPT ![t].at = "probe", ![t].saw = ClaimOf(r)]
           /\ UNCHANGED <<claim, startLock, attached, retry>>
  <2>1. ClaimOf(r) \in Claims
    BY DEF ClaimOf, Claims, NoClaim, SessionInv, SessionTypeOK
  <2>2. ClaimOf(r).by \in Desktop
    BY <1>5, <2>1 DEF Claims
  <2> PICK c : c = [call[t] EXCEPT !.at = "probe", !.saw = ClaimOf(r)]
    OBVIOUS
  <2>3. c \in Calls /\ c.at = "probe" /\ c.saw = ClaimOf(r) /\ c.to = r
    BY <1>1, <2>1 DEF Calls, CallPoints
  <2>4. call' = [call EXCEPT ![t] = c]
    BY <1>5, <1>1 DEF SessionInv, SessionTypeOK, Calls
  <2>5. UNCHANGED <<window, life, owner, authority, leaving, observing>>
    BY DEF AskForClaim
  <2>6. call' \in [Caller -> Calls \cup {NoCall}]
    BY <2>3, <2>4 DEF SessionInv, SessionTypeOK
  <2>7. SawInv'
    BY <2>2, <2>3, <2>4, <2>5, <1>1 DEF AskForClaim, SessionInv, SessionTypeOK, SawInv
  <2> QED BY <1>5, <2>5, <2>6, <2>7 DEF SessionInv, SessionTypeOK, LeasedInv, AttachedInv, WaitingInv, ClaimInv
<1> QED BY <1>3, <1>4, <1>5 DEF AskForClaim

(* A claim is found stale when its Desktop is gone.                        *)
LEMMA ProbeStep ==
  ASSUME SessionInv, NEW t \in Caller, ProbeDesktop(t) \/ ProbeUnknown(t)
  PROVE  SessionInv'
<1> USE DEF InCall
<1>1. CASE ProbeUnknown(t)
  BY <1>1, FailedStep DEF ProbeUnknown, SessionInv, SessionTypeOK, LeasedInv, AttachedInv, WaitingInv, ClaimInv
<1>2. ASSUME ProbeDesktop(t), SecondDesktop(t), Killed(call[t].mine)
      PROVE  SessionInv'
  BY <1>2, FailedStep, KilledStep DEF ProbeDesktop, SessionInv, SessionTypeOK
<1>3. ASSUME ProbeDesktop(t), Stale(call[t].saw.by), Move(t, "settle"), UNCHANGED <<life, startLock, attached, retry>>
      PROVE  SessionInv'
  <2>1. call[t] \in Calls
    BY <1>3, CallTyped DEF ProbeDesktop, SessionInv
  <2> PICK c : c = [call[t] EXCEPT !.at = "settle"]
    OBVIOUS
  <2>2. c \in Calls /\ c.at = "settle" /\ c.saw = call[t].saw /\ c.to = call[t].to
    BY <2>1 DEF Calls, CallPoints
  <2>3. call' = [call EXCEPT ![t] = c]
    BY <1>3 DEF Move
  <2>4. UNCHANGED <<window, life, owner, authority, claim, attached, leaving, observing, retry, startLock>>
    BY <1>3 DEF ProbeDesktop
  <2>5. call' \in [Caller -> Calls \cup {NoCall}]
    BY <2>2, <2>3 DEF SessionInv, SessionTypeOK
  <2>6. SawInv'
    BY <1>3, <2>2, <2>3, <2>4 DEF ProbeDesktop, Stale, DesktopAlive, SessionInv, SessionTypeOK, SawInv
  <2> QED BY <2>4, <2>5, <2>6 DEF SessionInv, SessionTypeOK, LeasedInv, AttachedInv, WaitingInv, ClaimInv
<1> QED BY <1>1, <1>2, <1>3 DEF ProbeDesktop

(* A stale claim that is replaced was that of a Desktop that is gone.      *)
LEMMA SettleStep ==
  ASSUME SessionInv, NEW t \in Caller, SettleClaim(t)
  PROVE  SessionInv'
<1> USE DEF InCall
<1> PICK r : r = call[t].to
  OBVIOUS
<1>1. call[t] \in Calls
  BY CallTyped DEF SettleClaim, SessionInv
<1>2. r \in Runtime /\ t[1] \in Desktop
  BY DEF Caller, SettleClaim, SessionInv, SawInv
<1>3. UNCHANGED <<window, life, owner, authority, leaving, observing>>
  BY DEF SettleClaim
<1>4. CASE Failed(t) /\ UNCHANGED claim
  BY <1>3, <1>4, FailedStep DEF SessionInv, SessionTypeOK, LeasedInv, AttachedInv, WaitingInv, ClaimInv
<1>5. CASE /\ call' = [call EXCEPT ![t].at = "admit", ![t].tries = @ + 1] /\ call[t].tries < 2
           /\ UNCHANGED <<startLock, attached, retry, claim>>
  <2> PICK n : n = call[t].tries + 1
    OBVIOUS
  <2>1. n \in 0..2
    BY <1>1, <1>5 DEF Calls
  <2> PICK c : c = [call[t] EXCEPT !.at = "admit", !.tries = n]
    OBVIOUS
  <2>2. c \in Calls /\ c.at = "admit" /\ c.to = r
    BY <1>1, <2>1 DEF Calls, CallPoints
  <2>3. call' = [call EXCEPT ![t] = c]
    BY <1>1, <1>5 DEF SessionInv, SessionTypeOK, Calls
  <2>4. startLock' \in Caller \cup {NoOneYet}
    BY <1>5 DEF SessionInv, SessionTypeOK
  <2> QED BY <1>2, <1>3, <1>5, <2>2, <2>3, <2>4, CallingStep
<1>6. CASE /\ ServiceAlive(r) /\ authority = r /\ claim = call[t].saw
           /\ claim' = [by |-> t[1], of |-> r]
           /\ IF Verified(r) THEN Admitted(t) ELSE Failed(t)
  <2>1. claim' \in Claims
    BY <1>2, <1>6 DEF Claims
  <2>2. claim.by \in Desktop /\ window[claim.by] = "exited"
    BY <1>6 DEF SettleClaim, SessionInv, SawInv
  <2>3. \A d \in Desktop : \A s \in Runtime :
           window[d] = "open" /\ attached[d] = s => authority # s
    BY <2>2 DEF SessionInv, ClaimInv
  <2>4. LeasedInv' /\ WaitingInv'
    BY <1>3 DEF SessionInv, LeasedInv, WaitingInv
  <2>5. CASE Failed(t)
    <3>1. UNCHANGED attached
      BY <2>5, <1>3, FailedStep
    <3>2. SessionTypeOK' /\ SawInv'
      BY <1>3, <2>1, <2>5, FailedStep DEF SessionInv, SessionTypeOK
    <3> QED BY <1>3, <2>3, <2>4, <3>1, <3>2 DEF SessionInv, AttachedInv, ClaimInv
  <2>6. CASE Admitted(t) /\ Verified(r)
    <3>1. \A d \in Desktop : attached'[d] = IF d = t[1] /\ DesktopAlive(d) THEN r ELSE attached[d]
      BY <1>3, <2>6, AdmittedStep DEF SettleClaim
    <3>2. SessionTypeOK' /\ SawInv'
      BY <1>3, <2>1, <2>6, AdmittedStep DEF SettleClaim, SessionInv, SessionTypeOK
    <3>3. AttachedInv'
      BY <1>2, <1>3, <2>6, <3>1 DEF SessionInv, AttachedInv, Verified
    <3>4. ClaimInv'
      BY <1>3, <1>6, <2>3, <3>1 DEF ClaimInv
    <3> QED BY <2>4, <3>2, <3>3, <3>4 DEF SessionInv
  <2> QED BY <1>6, <2>5, <2>6
<1> QED BY <1>4, <1>5, <1>6 DEF SettleClaim

(* The steps of a service.                                                 *)
LEMMA ServiceStep ==
  ASSUME SessionInv, NEW r \in Runtime, ServiceRuns(r) \/ BootFails(r) \/ ServiceCrashes(r)
  PROVE  SessionInv'
<1> USE DesktopAssumption DEF SessionInv, SessionTypeOK, LeasedInv, AttachedInv, WaitingInv, ClaimInv, Become
<1>1. UNCHANGED <<window, call, startLock, owner, attached, leaving, observing, retry>>
  BY DEF ServiceRuns, BootFails, ServiceCrashes, AcquireLease, ClaimForOwner, PublishReady, OwnerWatchdog, CloseService
<1>2. SawInv'
  BY <1>1 DEF SawInv
<1>3. CASE AcquireLease(r)
  BY <1>1, <1>2, <1>3 DEF AcquireLease, ServiceAlive
<1>4. CASE ClaimForOwner(r)
  <2>1. claim' \in Claims /\ UNCHANGED authority
    BY <1>4 DEF ClaimForOwner, Claims
  <2>2. \A d \in Desktop : \A s \in Runtime : attached[d] = s => authority # s
    BY <1>4 DEF ClaimForOwner
  <2>3. ClaimInv'
    BY <1>1, <2>1, <2>2
  <2>4. SessionTypeOK'
    BY <1>1, <1>4, <2>1 DEF ClaimForOwner
  <2>5. LeasedInv' /\ AttachedInv' /\ WaitingInv'
    BY <1>1, <1>4, <2>1 DEF ClaimForOwner
  <2> QED BY <1>2, <2>3, <2>4, <2>5
<1>5. CASE PublishReady(r) \/ OwnerWatchdog(r) \/ BootFails(r) \/ ServiceCrashes(r)
  BY <1>1, <1>2, <1>5 DEF PublishReady, OwnerWatchdog, BootFails, ServiceCrashes, ServiceAlive
<1>6. CASE CloseService(r)
  <2>1. claim' \in Claims /\ authority' \in Runtime \cup {NoOneYet}
    BY <1>6 DEF CloseService, Claims, NoClaim
  <2>2. ClaimInv'
    BY <1>1, <1>6 DEF CloseService, NoClaim
  <2>3. SessionTypeOK'
    BY <1>1, <1>6, <2>1 DEF CloseService
  <2>4. LeasedInv' /\ AttachedInv' /\ WaitingInv'
    BY <1>1, <1>6 DEF CloseService
  <2> QED BY <1>2, <2>2, <2>3, <2>4
<1> QED BY <1>3, <1>4, <1>5, <1>6 DEF ServiceRuns

(* The threads of a window change neither the services nor what is known   *)
(* of them.                                                                *)
LEMMA StarterStep ==
  ASSUME SessionInv, NEW d \in Desktop,
         StarterGoesOn(d) \/ RetryFires(d) \/ UserStarts(d) \/ WatcherRecovers(d)
  PROVE  SessionInv'
<1> PICK t : t = <<d, "starter">>
  OBVIOUS
<1>1. t \in Caller /\ <<d, "watcher">> \in Caller
  BY DEF Caller
<1>2. UNCHANGED <<window, startLock, life, owner, authority, claim, attached, leaving>>
  BY DEF StarterGoesOn, AttachState, CreateWatcher, CheckClosing, StartWatcher, RetryFires, UserStarts,
         WatcherRecovers, StartLive
<1>3. observing' \in [Desktop -> {"none", "made", "running", "stopped"}]
  BY DEF StarterGoesOn, AttachState, CreateWatcher, CheckClosing, StartWatcher, RetryFires, UserStarts,
         WatcherRecovers, StartLive, SessionInv, SessionTypeOK
<1>4. retry' \in [Desktop -> [count : Nat, timer : BOOLEAN]]
  <2>1. CASE retry' = retry
    BY <2>1 DEF SessionInv, SessionTypeOK
  <2>2. CASE StartLive(d)
    <3>1. retry \in [Desktop -> [count : Nat, timer : BOOLEAN]]
      BY DEF SessionInv, SessionTypeOK
    <3> PICK x : x = [retry[d] EXCEPT !.timer = FALSE]
      OBVIOUS
    <3>2. x \in [count : Nat, timer : BOOLEAN]
      BY <3>1
    <3>3. retry' = [retry EXCEPT ![d] = x] \/ retry' = [retry EXCEPT ![d] = [count |-> 0, timer |-> FALSE]]
      BY <2>2 DEF StartLive, Rested
    <3> QED BY <3>1, <3>2, <3>3, RetryTyped DEF SessionInv
  <2> QED BY <2>1, <2>2 DEF StarterGoesOn, AttachState, CreateWatcher, CheckClosing, StartWatcher, RetryFires, UserStarts,
         WatcherRecovers
<1>5. SawInv' /\ call' \in [Caller -> Calls \cup {NoCall}]
  <2>1. CASE call' = call
    BY <1>2, <2>1 DEF SessionInv, SessionTypeOK, SawInv
  <2>2. ASSUME NEW s \in Caller, Begin(s)
        PROVE  SawInv' /\ call' \in [Caller -> Calls \cup {NoCall}]
    <3> PICK a \in Calls : a = Calling(NoOneYet, FALSE, NoOneYet)
      BY CallingTyped
    <3> PICK c : c = [a EXCEPT !.at = "look"]
      OBVIOUS
    <3>1. c \in Calls /\ c.at = "look"
      BY DEF Calls, CallPoints
    <3> QED BY <1>2, <2>2, <3>1, CallMoves DEF Begin
  <2>3. CASE call' = [call EXCEPT ![t] = NoCall]
    BY <1>1, <1>2, <2>3, CallMoves DEF NoCall
  <2>4. ASSUME NEW p \in {"create", "start", "go"}, call' = [call EXCEPT ![t] = [call[t] EXCEPT !.at = p]],
               call[t].at # "idle"
        PROVE  SawInv' /\ call' \in [Caller -> Calls \cup {NoCall}]
    <3>1. call[t] \in Calls
      BY <1>1, <2>4, CallTyped DEF SessionInv
    <3> PICK c : c = [call[t] EXCEPT !.at = p]
      OBVIOUS
    <3>2. c \in Calls /\ c.at = p
      BY <3>1 DEF Calls, CallPoints
    <3> QED BY <1>1, <1>2, <2>4, <3>2, CallMoves
  <2>5. CASE AttachState(d)
    BY <2>3, <2>4, <2>5 DEF AttachState, InCall, Move
  <2>6. CASE CreateWatcher(d)
    BY <2>3, <2>4, <2>6 DEF CreateWatcher, InCall, Move
  <2>7. CASE CheckClosing(d)
    <3>1. CASE Closing(d)
      BY <2>3, <2>7, <3>1 DEF CheckClosing
    <3>2. CASE ~Closing(d)
      BY <2>4, <2>7, <3>2 DEF CheckClosing, InCall
    <3> QED BY <3>1, <3>2
  <2>8. CASE StartWatcher(d)
    BY <2>3, <2>8 DEF StartWatcher
  <2>9. CASE StartLive(d)
    BY <1>1, <2>1, <2>2, <2>9 DEF StartLive
  <2>10. CASE WatcherRecovers(d)
    BY <1>1, <2>2, <2>10 DEF WatcherRecovers
  <2> QED BY <2>5, <2>6, <2>7, <2>8, <2>9, <2>10 DEF StarterGoesOn, RetryFires, UserStarts
<1> QED BY <1>2, <1>3, <1>4, <1>5 DEF SessionInv, SessionTypeOK, LeasedInv, AttachedInv, WaitingInv, ClaimInv

(* A window closes.                                                        *)
LEMMA ClosingStep ==
  ASSUME SessionInv, NEW d \in Desktop, BeginClosing(d) \/ WindowCloses(d) \/ DesktopDies(d)
  PROVE  SessionInv'
<1> USE DesktopAssumption
<1>1. CASE BeginClosing(d)
  BY <1>1 DEF BeginClosing, SessionInv, SessionTypeOK, LeasedInv, AttachedInv, SawInv, WaitingInv, ClaimInv
<1>2. CASE StopWatchers(d)
  <2>1. retry' \in [Desktop -> [count : Nat, timer : BOOLEAN]]
    BY <1>2, RetryTyped DEF StopWatchers, Rested, SessionInv
  <2>2. UNCHANGED <<call, startLock, life, owner, authority, claim, attached>>
    BY <1>2 DEF StopWatchers
  <2>3. SessionTypeOK'
    BY <1>2, <2>1, <2>2 DEF StopWatchers, SessionInv, SessionTypeOK
  <2>4. AttachedInv' /\ SawInv' /\ WaitingInv' /\ ClaimInv' /\ LeasedInv'
    BY <1>2, <2>2 DEF StopWatchers, SessionInv, SessionTypeOK, LeasedInv, AttachedInv, SawInv, WaitingInv, ClaimInv
  <2> QED BY <2>3, <2>4 DEF SessionInv
<1>3. CASE ReleaseClaim(d)
  <2>1. claim' \in Claims
    BY <1>3 DEF ReleaseClaim, Claims, NoClaim, SessionInv, SessionTypeOK
  <2>2. UNCHANGED <<call, startLock, life, owner, authority, attached, leaving, observing, retry>>
    BY <1>3 DEF ReleaseClaim
  <2>3. SessionTypeOK'
    BY <1>3, <2>1, <2>2 DEF ReleaseClaim, SessionInv, SessionTypeOK
  <2>4. AttachedInv' /\ SawInv' /\ WaitingInv' /\ LeasedInv'
    BY <1>3, <2>2 DEF ReleaseClaim, SessionInv, SessionTypeOK, LeasedInv, AttachedInv, SawInv, WaitingInv
  <2>5. ClaimInv'
    BY <1>3, <2>2 DEF ReleaseClaim, SessionInv, SessionTypeOK, ClaimInv
  <2> QED BY <2>3, <2>4, <2>5 DEF SessionInv
<1>4. CASE AskShutdown(d)
  BY <1>4 DEF AskShutdown, MayShutDown, SessionInv, SessionTypeOK, LeasedInv, AttachedInv, SawInv, WaitingInv, ClaimInv
<1>5. CASE KillService(d)
  <2>1. LeasedInv' /\ AttachedInv' /\ SawInv' /\ WaitingInv' /\ ClaimInv'
    BY <1>5 DEF KillService, Killed, ServiceAlive, SessionInv, SessionTypeOK, LeasedInv, AttachedInv, SawInv, WaitingInv, ClaimInv
  <2> QED BY <1>5, <2>1 DEF KillService, Killed, SessionInv, SessionTypeOK
<1>6. CASE Gone(d)
  <2>1. retry' \in [Desktop -> [count : Nat, timer : BOOLEAN]]
    BY <1>6, RetryTyped DEF Gone, Rested, SessionInv
  <2>2. call' \in [Caller -> Calls \cup {NoCall}] /\ SawInv'
    BY <1>6 DEF Gone, SessionInv, SessionTypeOK, SawInv, NoCall
  <2>3. SessionTypeOK'
    BY <1>6, <2>1, <2>2 DEF Gone, SessionInv, SessionTypeOK
  <2>4. AttachedInv' /\ WaitingInv' /\ ClaimInv' /\ LeasedInv'
    BY <1>6 DEF Gone, SessionInv, SessionTypeOK, LeasedInv, AttachedInv, WaitingInv, ClaimInv
  <2> QED BY <2>2, <2>3, <2>4 DEF SessionInv
<1> QED BY <1>1, <1>2, <1>3, <1>4, <1>5, <1>6 DEF WindowCloses, ExitWindow, DesktopDies

LEMMA SessionInductive == SessionSpec => []SessionInv
<1>1. SessionInv /\ [SessionNext]_sessionVars => SessionInv'
  <2> SUFFICES ASSUME SessionInv, [SessionNext]_sessionVars
               PROVE  SessionInv'
    OBVIOUS
  <2>1. CASE UNCHANGED sessionVars
    BY <2>1 DEF sessionVars, SessionInv, SessionTypeOK, LeasedInv, AttachedInv, SawInv, WaitingInv, ClaimInv
  <2>2. CASE \E t \in Caller : CallStep(t)
    BY <2>2, LookStep, SpawnStep, AwaitStep, AskStep, ProbeStep, SettleStep DEF CallStep
  <2>3. CASE \E r \in Runtime : ServiceRuns(r) \/ BootFails(r) \/ ServiceCrashes(r)
    BY <2>3, ServiceStep
  <2>4. CASE \E d \in Desktop :
               \/ StarterGoesOn(d) \/ WindowCloses(d) \/ RetryFires(d)
               \/ UserStarts(d) \/ WatcherRecovers(d) \/ BeginClosing(d) \/ DesktopDies(d)
    BY <2>4, StarterStep, ClosingStep
  <2> QED BY <2>1, <2>2, <2>3, <2>4 DEF SessionNext
<1> QED BY <1>1, InitSession, PTL DEF SessionSpec

(* An admitted Desktop keeps its claim while its window is open and its    *)
(* service runs, for any number of Desktops, services and attempts         *)
(* (runtime_lease.py, claim_desktop).                                      *)
THEOREM ClaimsAreKept == SessionSpec => []ClaimIsKept
<1>1. SessionInv => ClaimIsKept
  BY DEF SessionInv, ClaimInv, ClaimIsKept, Verified
<1> QED BY <1>1, SessionInductive, PTL

(* A closing window stops only a service it spawned (gui.py, on_closing).  *)
THEOREM OthersAreLeftRunning == SessionSpec => StopsOwnService
<1>1. SessionInv /\ [SessionNext]_sessionVars =>
        [\A d \in Desktop : \A r \in Runtime :
           (AskShutdown(d) \/ KillService(d)) /\ life'[r] # life[r] => owner[r] = d]_sessionVars
  <2> SUFFICES ASSUME SessionInv, NEW d \in Desktop, NEW r \in Runtime,
                      AskShutdown(d) \/ KillService(d), life'[r] # life[r]
               PROVE  owner[r] = d
    OBVIOUS
  <2>1. CASE AskShutdown(d)
    BY <2>1 DEF AskShutdown, MayShutDown, SessionInv, SessionTypeOK
  <2>2. CASE KillService(d)
    BY <2>2 DEF KillService, Killed, SessionInv, SessionTypeOK, WaitingInv
  <2> QED BY <2>1, <2>2
<1> QED BY <1>1, SessionInductive, PTL DEF SessionSpec, StopsOwnService

------------------------------------------------------------------------------
(* The watcher of a repository. *)

Known == {"queued", "parsed", "committed", "done", "failed"}
Draining == {"ping", "check", "resync", "resyncing", "rescan"}
Looping == {"loop", "send"}

JobTypes ==
    /\ DOMAIN jobs = Key
    /\ \A k \in Key : jobs[k] = NoJob \/ jobs[k] \in [state : Known, path : Path]

UpdateTypes ==
    /\ nextKey \in Nat \ {0} /\ ambiguous \subseteq Path
    /\ inflight \in [Key -> {Unset} \cup [path : Path, observed : Nat]]
    /\ intents \in [Path -> {Unset} \cup [key : Key, observed : Nat]]
    /\ \A k \in Key : jobs[k] # NoJob \/ inflight[k] # Unset => k < nextKey
    /\ \A p \in Path : intents[p] # Unset => intents[p].key < nextKey

PollTypes ==
    /\ poll.at \in {"idle", "jobs", "drain"} \cup Draining \cup Looping
    /\ poll.at \in Draining =>
         /\ poll = [at |-> poll.at, changed |-> poll.changed, current |-> poll.current]
         /\ poll.changed \subseteq Path /\ poll.current \in [poll.changed -> Nat]
    /\ poll.at \in Looping =>
         /\ poll = [at |-> poll.at, changed |-> poll.changed, current |-> poll.current,
                    todo |-> poll.todo, rest |-> poll.rest, deferred |-> poll.deferred,
                    path |-> poll.path]
         /\ poll.changed \subseteq Path /\ poll.current \in [poll.changed -> Nat]
         /\ poll.rest \subseteq poll.changed /\ poll.deferred \subseteq poll.changed
    /\ poll.at = "send" =>
         poll.path \in poll.rest /\ intents[poll.path] # Unset

WatchTypes ==
    /\ source \in [Path -> Nat] /\ base \in [Path -> Nat] /\ snapshot \in [Path -> Nat]
    /\ edits \in Nat
    /\ queue \cup startup \cup events \cup dropped \subseteq Path
    /\ observer \in {"new", "native", "dead", "polling", "none"}
    /\ JobTypes /\ UpdateTypes /\ PollTypes

(* Versions seen before are older ones.                                    *)
VersionsInv ==
    /\ \A p \in Path : source[p] <= 1 + edits /\ snapshot[p] <= source[p]
    /\ \A p \in Handled : snapshot[p] <= poll.current[p] /\ poll.current[p] <= source[p]
    /\ \A p \in Path : intents[p] # Unset => intents[p].observed <= source[p]
    /\ \A k \in Key : inflight[k] # Unset => inflight[k].observed <= source[inflight[k].path]

(* A key is of one path, in flight or intended, and so is its job.         *)
KeysInv ==
    /\ \A p, q \in Path : intents[p] # Unset /\ intents[q] # Unset /\ p # q =>
                             intents[p].key # intents[q].key
    /\ \A p \in Path, k \in Key : intents[p] # Unset /\ inflight[k] # Unset /\ intents[p].key = k =>
                                     inflight[k].path = p
    /\ \A k \in Key : jobs[k] # NoJob /\ inflight[k] # Unset => jobs[k].path = inflight[k].path
    /\ \A p \in Path : intents[p] # Unset /\ jobs[intents[p].key] # NoJob =>
                          jobs[intents[p].key].path = p

(* Of one version of a path, one key is outstanding.                       *)
OneJobEach ==
    \A k, l \in Key : inflight[k] # Unset /\ inflight[l] # Unset /\ k # l =>
        inflight[k].path # inflight[l].path \/ inflight[k].observed # inflight[l].observed

(* A job that has committed brought the version it was sent for.           *)
Committed(k) == jobs[k].state \in {"committed", "done"}

BroughtInv ==
    /\ \A k \in Key : inflight[k] # Unset /\ Committed(k)
                         /\ inflight[k].observed = source[inflight[k].path]
                      => inflight[k].path \notin Differs
    /\ \A p \in Path : intents[p] # Unset /\ Committed(intents[p].key)
                          /\ intents[p].observed = source[p]
                       => p \notin Differs

(* A path that changed after it was drained was reported again.            *)
DrainedInv ==
    /\ observer = "new" => poll = Resting
    /\ \A p \in Handled : poll.current[p] # source[p] =>
                             p \in events \cup queue \/ observer \in {"dead", "none"}
    /\ poll.at \in Looping =>
         \A p \in poll.rest \ poll.todo : poll.current[p] = source[p] => p \notin Differs

(* Where a path waits for its update, whatever the startup has left.       *)
Waits(p) ==
    \/ p \in queue \cup Handled \cup dropped
    \/ \E k \in Key : inflight[k] # Unset /\ ~Committed(k) /\ inflight[k].path = p
    \/ resync \/ rebaseline

Noticed(p) == Waits(p) \/ p \in events \/ observer \in {"new", "dead", "none"}
Recalled(p) == Waits(p) \/ snapshot[p] # source[p]

Covered(p) ==
    \/ Noticed(p) /\ Recalled(p)
    \/ p \in startup /\ ~(poll.at \in Looping /\ p \in poll.changed)

(* A path that differs waits, or will be noticed, by this observer and by  *)
(* the next one; what the startup has left counts until it is handled.     *)
CoveredInv ==
    \A p \in Differs : Covered(p)

WatchInv ==
    /\ WatchTypes /\ VersionsInv /\ KeysInv /\ OneKeyEach /\ OneJobEach /\ BroughtInv /\ DrainedInv
    /\ CoveredInv

LEMMA InitWatch == WatchInit => WatchInv
<1> SUFFICES ASSUME WatchInit PROVE WatchInv
  OBVIOUS
<1>1. poll.at = "idle" /\ Handled = {}
  BY DEF WatchInit, Resting, Handled
<1>2. source \in [Path -> Nat] /\ \A p \in Path : source[p] <= 1
  BY DEF WatchInit
<1>3. WatchTypes
  BY <1>1, <1>2 DEF WatchInit, WatchTypes, JobTypes, UpdateTypes, PollTypes, Draining, Looping, Differs
<1>4. VersionsInv
  BY <1>1, <1>2 DEF WatchInit, VersionsInv
<1>5. KeysInv /\ OneKeyEach /\ OneJobEach /\ BroughtInv
  BY DEF WatchInit, KeysInv, OneKeyEach, OneJobEach, BroughtInv, InFlight, WithIntent
<1>6. DrainedInv /\ CoveredInv
  BY <1>1 DEF WatchInit, DrainedInv, CoveredInv, Covered, Noticed, Recalled, Waits, Looping
<1> QED BY <1>3, <1>4, <1>5, <1>6 DEF WatchInv

-----------------------------------------------------------------------------
(* What a step that leaves something alone keeps. *)

LEMMA UpdatesRest ==
  ASSUME WatchInv, UNCHANGED <<jobs, inflight, intents, ambiguous, nextKey>>
  PROVE  JobTypes' /\ UpdateTypes' /\ KeysInv' /\ OneKeyEach' /\ OneJobEach'
<1>1. JobTypes' /\ UpdateTypes'
  BY DEF WatchInv, WatchTypes, JobTypes, UpdateTypes
<1>2. KeysInv'
  BY DEF WatchInv, KeysInv
<1>3. OneKeyEach' /\ OneJobEach'
  BY DEF WatchInv, OneKeyEach, OneJobEach, InFlight, WithIntent
<1> QED BY <1>1, <1>2, <1>3

LEMMA BroughtRest ==
  ASSUME WatchInv, UNCHANGED <<jobs, inflight, intents, source>>, Differs' \subseteq Differs
  PROVE  BroughtInv'
BY DEF WatchInv, BroughtInv, Committed

LEMMA VersionsRest ==
  ASSUME WatchInv, UNCHANGED <<source, snapshot, edits, intents, inflight>>,
         \A p \in Handled' : p \in Handled /\ poll'.current[p] = poll.current[p]
  PROVE  VersionsInv'
BY DEF WatchInv, VersionsInv

(* A path stays covered when it waits as before. *)
LEMMA CoveredRest ==
  ASSUME NEW p, Covered(p), Waits(p) => Waits(p)', snapshot'[p] = snapshot[p], source'[p] = source[p],
         p \in events => p \in events' \cup queue',
         observer \in {"new", "dead", "none"} => observer' \in {"new", "dead", "none"},
         p \in startup => (p \in startup' /\ ~(poll'.at \in Looping /\ p \in poll'.changed)) \/ Waits(p)'
                          \/ (poll.at \in Looping /\ p \in poll.changed)
  PROVE  Covered(p)'
BY DEF Covered, Noticed, Recalled, Waits

(* Jobs and poll as they were: a path waits if it did, unless the queue,   *)
(* a resync or a rebaseline was what it waited in.                         *)
LEMMA WaitsRest ==
  ASSUME NEW p, Waits(p), UNCHANGED <<jobs, inflight>>, p \in Handled => p \in Handled' \cup queue' \cup dropped',
         p \in queue => p \in queue' \cup Handled', p \in dropped => p \in dropped' \cup queue',
         resync \/ rebaseline => resync' \/ rebaseline'
  PROVE  Waits(p)'
BY DEF Waits, Committed

-----------------------------------------------------------------------------
(* Files, observers and recoveries. *)

LEMMA EditKeeps == \A p \in Path : WatchInv /\ Edit(p) => WatchInv'
<1> SUFFICES ASSUME NEW f \in Path, WatchInv, Edit(f) PROVE WatchInv'
  OBVIOUS
<1> PICK v : v = 2 + edits
  OBVIOUS
<1>1. /\ source' = [source EXCEPT ![f] = v] /\ edits' = edits + 1
      /\ UNCHANGED <<base, jobs, observer, queue, startup, resync, rebaseline, snapshot,
                     intents, inflight, ambiguous, nextKey, poll, dropped>>
      /\ events \subseteq events' /\ events' \subseteq events \cup {f}
      /\ observer \in {"native", "polling"} => f \in events'
  BY DEF Edit, committed, service, memory, updates
<1>2. /\ source \in [Path -> Nat] /\ snapshot \in [Path -> Nat] /\ edits \in Nat /\ v \in Nat
      /\ observer \in {"new", "native", "dead", "polling", "none"}
  BY DEF WatchInv, WatchTypes
<1>3. /\ source' \in [Path -> Nat] /\ source'[f] = v
      /\ \A p \in Path : p # f => source'[p] = source[p]
      /\ \A p \in Path : source[p] < v /\ source[p] <= source'[p]
  BY <1>1, <1>2 DEF WatchInv, VersionsInv
<1>4. Handled' = Handled /\ Handled \subseteq Path
  BY <1>1 DEF Handled, WatchInv, WatchTypes, PollTypes, Draining, Looping
<1>5. \A p \in Handled : poll.current[p] \in Nat
  BY DEF Handled, WatchInv, WatchTypes, PollTypes, Draining, Looping
<1>6. /\ \A p \in Path : intents[p] # Unset => intents[p].observed \in Nat /\ intents[p].key \in Key
      /\ \A k \in Key : inflight[k] # Unset => inflight[k].observed \in Nat /\ inflight[k].path \in Path
  BY DEF WatchInv, WatchTypes, UpdateTypes
<1>7. WatchTypes'
  <2>1. PollTypes'
    BY <1>1 DEF WatchInv, WatchTypes, PollTypes
  <2>2. JobTypes' /\ UpdateTypes'
    BY <1>1, UpdatesRest
  <2> QED BY <1>1, <1>2, <1>3, <2>1, <2>2 DEF WatchInv, WatchTypes
<1>8. VersionsInv'
  <2>1. \A p \in Path : source'[p] <= 1 + edits' /\ snapshot'[p] <= source'[p]
    <3> SUFFICES ASSUME NEW p \in Path PROVE source'[p] <= 1 + edits' /\ snapshot'[p] <= source'[p]
      OBVIOUS
    <3>1. source[p] <= 1 + edits /\ snapshot[p] <= source[p] /\ source[p] \in Nat /\ snapshot[p] \in Nat
      BY <1>2 DEF WatchInv, VersionsInv
    <3>2. CASE p = f
      BY <1>1, <1>2, <1>3, <3>1, <3>2
    <3>3. CASE p # f
      BY <1>1, <1>2, <1>3, <3>1, <3>3
    <3> QED BY <3>2, <3>3
  <2>2. ASSUME NEW p \in Handled' PROVE snapshot'[p] <= poll'.current[p] /\ poll'.current[p] <= source'[p]
    <3>1. p \in Path /\ snapshot[p] <= poll.current[p] /\ poll.current[p] <= source[p]
      BY <1>4, <2>2 DEF WatchInv, VersionsInv
    <3>2. poll.current[p] \in Nat /\ source[p] \in Nat /\ source'[p] \in Nat /\ source[p] <= source'[p]
      BY <1>2, <1>3, <1>4, <1>5, <2>2, <3>1
    <3> QED BY <1>1, <3>1, <3>2
  <2>3. ASSUME NEW p \in Path, intents[p] # Unset PROVE intents[p].observed <= source'[p]
    <3>1. intents[p].observed <= source[p] /\ intents[p].observed \in Nat
      BY <1>6, <2>3 DEF WatchInv, VersionsInv
    <3> QED BY <1>2, <1>3, <3>1
  <2>4. ASSUME NEW k \in Key, inflight[k] # Unset PROVE inflight[k].observed <= source'[inflight[k].path]
    <3>1. /\ inflight[k].observed <= source[inflight[k].path] /\ inflight[k].observed \in Nat
          /\ inflight[k].path \in Path
      BY <1>6, <2>4 DEF WatchInv, VersionsInv
    <3> QED BY <1>2, <1>3, <3>1
  <2> QED BY <1>1, <2>1, <2>2, <2>3, <2>4 DEF VersionsInv
<1>9. KeysInv' /\ OneKeyEach' /\ OneJobEach'
  BY <1>1, UpdatesRest
<1>10. \A p \in Path : p # f => (p \in Differs' <=> p \in Differs)
  BY <1>1, <1>3 DEF Differs
<1>11. BroughtInv'
  <2>1. ASSUME NEW k \in Key, inflight[k] # Unset, Committed(k),
               inflight[k].observed = source'[inflight[k].path]
        PROVE  inflight[k].path \notin Differs'
    <3>1. inflight[k].path \in Path /\ inflight[k].observed <= source[inflight[k].path]
      BY <1>6, <2>1 DEF WatchInv, VersionsInv
    <3>2. inflight[k].path # f
      BY <1>2, <1>3, <2>1, <3>1
    <3> QED BY <1>3, <1>10, <2>1, <3>1, <3>2 DEF WatchInv, BroughtInv
  <2>2. ASSUME NEW p \in Path, intents[p] # Unset, Committed(intents[p].key),
               intents[p].observed = source'[p]
        PROVE  p \notin Differs'
    <3>1. intents[p].observed <= source[p]
      BY <2>2 DEF WatchInv, VersionsInv
    <3>2. p # f
      BY <1>2, <1>3, <2>2, <3>1
    <3> QED BY <1>3, <1>10, <2>2, <3>2 DEF WatchInv, BroughtInv
  <2> QED BY <1>1, <2>1, <2>2 DEF BroughtInv, Committed
<1>12. DrainedInv'
  <2>1. ASSUME NEW p \in Handled', poll.current[p] # source'[p]
        PROVE  p \in events' \cup queue' \/ observer' \in {"dead", "none"}
    <3>1. CASE p = f
      <4>1. observer # "new"
        BY <1>4, <2>1 DEF WatchInv, DrainedInv, Handled, Resting, Draining, Looping
      <4> QED BY <1>1, <1>2, <3>1, <4>1
    <3>2. CASE p # f
      <4>1. source'[p] = source[p]
        BY <1>3, <1>4, <2>1, <3>2
      <4> QED BY <1>1, <1>4, <2>1, <4>1 DEF WatchInv, DrainedInv
    <3> QED BY <3>1, <3>2
  <2>2. ASSUME poll.at \in Looping, NEW p \in poll.rest \ poll.todo, poll.current[p] = source'[p]
        PROVE  p \notin Differs'
    <3>1. p \in Handled
      BY <2>2 DEF Handled, Looping
    <3>2. p # f
      <4>1. p \in Path /\ poll.current[p] <= source[p] /\ poll.current[p] \in Nat
        BY <1>4, <1>5, <3>1 DEF WatchInv, VersionsInv
      <4> QED BY <1>2, <1>3, <2>2, <4>1
    <3> QED BY <1>3, <1>4, <1>10, <2>2, <3>1, <3>2 DEF WatchInv, DrainedInv
  <2>3. observer' = "new" => poll' = Resting
    BY <1>1 DEF WatchInv, DrainedInv
  <2> QED BY <1>1, <2>1, <2>2, <2>3 DEF DrainedInv
<1>13. CoveredInv'
  <2> SUFFICES ASSUME NEW p \in Differs' PROVE Covered(p)'
    BY DEF CoveredInv
  <2>1. p \in Path
    BY DEF Differs
  <2>2. CASE p = f
    <3>1. snapshot'[p] # source'[p]
      <4>1. snapshot[p] <= source[p]
        BY <2>1 DEF WatchInv, VersionsInv
      <4> QED BY <1>1, <1>2, <1>3, <2>1, <2>2, <4>1
    <3> QED BY <1>1, <1>2, <2>2, <3>1 DEF Covered, Noticed, Recalled
  <2>3. CASE p # f
    <3>1. Covered(p)
      BY <1>10, <2>1, <2>3 DEF WatchInv, CoveredInv
    <3>2. Waits(p) => Waits(p)'
      BY <1>1, <1>4, WaitsRest
    <3> QED BY <1>1, <1>3, <2>1, <2>3, <3>1, <3>2, CoveredRest
  <2> QED BY <2>2, <2>3
<1> QED BY <1>7, <1>8, <1>9, <1>11, <1>12, <1>13 DEF WatchInv

(* A step that changes none of jobs, updates, versions and the poll.       *)
LEMMA WorldRest ==
  ASSUME WatchInv, UNCHANGED <<source, edits, snapshot, jobs, intents, inflight, ambiguous, nextKey, poll>>,
         Differs' \subseteq Differs, queue \subseteq queue', events \subseteq events' \cup queue' \/ observer' \in {"dead", "none"},
         base' \in [Path -> Nat], queue' \cup startup' \cup events' \cup dropped' \subseteq Path,
         observer' \in {"new", "native", "dead", "polling", "none"},
         observer' = "new" => observer = "new",
         observer \in {"dead", "none"} => observer' \in {"dead", "none"} \/ poll = Resting,
         \A p \in Differs' : Covered(p)'
  PROVE  WatchInv'
<1>1. Handled' = Handled
  BY DEF Handled
<1>2. JobTypes' /\ UpdateTypes' /\ KeysInv' /\ OneKeyEach' /\ OneJobEach'
  BY UpdatesRest
<1>3. PollTypes'
  BY DEF WatchInv, WatchTypes, PollTypes
<1>4. WatchTypes'
  BY <1>2, <1>3 DEF WatchInv, WatchTypes
<1>5. VersionsInv'
  BY <1>1, VersionsRest
<1>6. BroughtInv'
  BY BroughtRest
<1>7. DrainedInv'
  <2>1. observer' = "new" => poll' = Resting
    BY DEF WatchInv, DrainedInv
  <2>2. poll = Resting => Handled = {}
    BY DEF Handled, Resting, Draining, Looping
  <2>3. \A p \in Handled' : poll'.current[p] # source'[p] =>
           p \in events' \cup queue' \/ observer' \in {"dead", "none"}
    BY <1>1, <2>2 DEF WatchInv, DrainedInv
  <2>4. poll'.at \in Looping => \A p \in poll'.rest \ poll'.todo : poll'.current[p] = source'[p] => p \notin Differs'
    BY DEF WatchInv, DrainedInv
  <2> QED BY <2>1, <2>3, <2>4 DEF DrainedInv
<1> QED BY <1>2, <1>4, <1>5, <1>6, <1>7 DEF WatchInv, CoveredInv

LEMMA DeliverKeeps == \A p \in Path : WatchInv /\ Deliver(p) => WatchInv'
<1> SUFFICES ASSUME NEW f \in Path, WatchInv, Deliver(f) PROVE WatchInv'
  OBVIOUS
<1>1. /\ events' = events \ {f} /\ queue' = queue \cup {f} /\ dropped' = dropped \ {f}
      /\ UNCHANGED <<source, edits, snapshot, jobs, intents, inflight, ambiguous, nextKey, poll, base, observer,
                     startup, resync, rebaseline>>
  BY DEF Deliver, disk, committed, service, memory, updates
<1>2. Differs' = Differs /\ Handled' = Handled
  BY <1>1 DEF Differs, Handled
<1>3. ASSUME NEW p \in Differs' PROVE Covered(p)'
  <2>1. Covered(p)
    BY <1>2 DEF WatchInv, CoveredInv
  <2>2. Waits(p) => Waits(p)'
    BY <1>1, <1>2, WaitsRest
  <2> QED BY <1>1, <2>1, <2>2, CoveredRest
<1> QED BY <1>1, <1>2, <1>3, WorldRest DEF WatchInv, WatchTypes

LEMMA ReconcileKeeps ==
  ASSUME WatchInv, Reconcile, poll = Resting, observer' \in {"native", "polling"},
         UNCHANGED <<disk, committed, jobs, events, rebaseline, snapshot, updates, poll, dropped>>
  PROVE  WatchInv'
<1>1. /\ queue \cup startup \cup {p \in Path : snapshot[p] # source[p]} \subseteq queue'
      /\ queue' \subseteq Path /\ startup' = {} /\ (resync => resync')
      /\ UNCHANGED <<source, edits, snapshot, jobs, intents, inflight, ambiguous, nextKey, poll, base, rebaseline,
                     events, dropped>>
  BY DEF Reconcile, disk, committed, updates, WatchInv, WatchTypes, Differs
<1>2. Differs' = Differs /\ Handled' = Handled
  BY <1>1 DEF Differs, Handled
<1>3. ASSUME NEW p \in Differs' PROVE Covered(p)'
  <2>1. p \in Path /\ Covered(p)
    BY <1>2 DEF WatchInv, CoveredInv, Differs
  <2>2. Waits(p) => Waits(p)'
    BY <1>1, <1>2, WaitsRest
  <2>3. Waits(p)'
    BY <1>1, <2>1, <2>2 DEF Covered, Recalled, Waits
  <2> QED BY <2>3 DEF Covered, Noticed, Recalled
<1> QED BY <1>1, <1>2, <1>3, WorldRest DEF WatchInv, WatchTypes

LEMMA ObserverKeeps == WatchInv /\ ObserverStep => WatchInv'
<1> SUFFICES ASSUME WatchInv, ObserverStep PROVE WatchInv'
  OBVIOUS
<1>1. CASE StartObserver
  <2>1. poll = Resting
    BY <1>1 DEF StartObserver, WatchInv, DrainedInv
  <2> QED BY <1>1, <2>1, ReconcileKeeps DEF StartObserver, disk, committed, service, updates
<1>2. CASE SwitchToPolling
  BY <1>2, ReconcileKeeps DEF SwitchToPolling, disk, committed, service, updates
<1>3. CASE ObserverDies \/ SwitchFails
  <2>1. /\ observer' \in {"dead", "none"} /\ events' \subseteq events
        /\ UNCHANGED <<source, edits, snapshot, jobs, intents, inflight, ambiguous, nextKey, poll, base,
                       queue, startup, resync, rebaseline, dropped>>
    BY <1>3 DEF ObserverDies, SwitchFails, disk, committed, service, memory, updates
  <2>2. Differs' = Differs /\ Handled' = Handled
    BY <2>1 DEF Differs, Handled
  <2>3. ASSUME NEW p \in Differs' PROVE Covered(p)'
    <3>1. Covered(p)
      BY <2>2 DEF WatchInv, CoveredInv
    <3>2. Waits(p) => Waits(p)'
      BY <2>1, <2>2, WaitsRest
    <3> QED BY <2>1, <3>1, <3>2 DEF Covered, Noticed, Recalled
  <2>4. observer' # "new" /\ (observer \in {"dead", "none"} => observer' \in {"dead", "none"})
    BY <2>1
  <2> QED BY <2>1, <2>2, <2>3, <2>4, WorldRest DEF WatchInv, WatchTypes
<1> QED BY <1>1, <1>2, <1>3 DEF ObserverStep

(* Files and queues are as they were, or the generation is the files.      *)
LEMMA BaseRest ==
  ASSUME WatchInv, base' \in [Path -> Nat], Differs' \subseteq Differs,
         UNCHANGED <<disk, jobs, watching, queue, updates, startup, snapshot, poll, dropped>>,
         resync \/ rebaseline => resync' \/ rebaseline'
  PROVE  WatchInv'
<1>1. UNCHANGED <<source, edits, snapshot, jobs, intents, inflight, ambiguous, nextKey, poll, queue, events, observer,
                  startup, dropped>>
  BY DEF disk, watching, updates
<1>2. Handled' = Handled
  BY <1>1 DEF Handled
<1>3. ASSUME NEW p \in Differs' PROVE Covered(p)'
  <2>1. Covered(p)
    BY DEF WatchInv, CoveredInv
  <2>2. Waits(p) => Waits(p)'
    BY <1>1, <1>2, WaitsRest
  <2> QED BY <1>1, <2>1, <2>2, CoveredRest
<1> QED BY <1>1, <1>3, WorldRest DEF WatchInv, WatchTypes

LEMMA OthersKeep ==
  ASSUME WatchInv, ServiceStarts \/ BeginAnalysis \/ EndAnalysis \/ BeginIncident \/ Certify \/ UNCHANGED watchVars
  PROVE  WatchInv'
<1>1. base \in [Path -> Nat] /\ source \in [Path -> Nat]
  BY DEF WatchInv, WatchTypes
<1>2. CASE ServiceStarts \/ BeginAnalysis \/ BeginIncident \/ Certify \/ UNCHANGED watchVars
  <2>1. /\ UNCHANGED <<disk, base, jobs, watching, queue, updates, startup, snapshot, poll, dropped>>
        /\ resync \/ rebaseline => resync' \/ rebaseline'
    BY <1>2 DEF ServiceStarts, BeginAnalysis, BeginIncident, Certify, watchVars, disk, committed, service,
                watching, memory, updates, Watcher, ReadAll
  <2>2. Differs' = Differs
    BY <2>1 DEF Differs, disk
  <2> QED BY <1>1, <2>1, <2>2, BaseRest
<1>3. CASE EndAnalysis
  <2>1. /\ UNCHANGED <<disk, jobs, watching, queue, updates, startup, snapshot, poll, dropped, resync, rebaseline>>
        /\ base' = source
    BY <1>3 DEF EndAnalysis, CommitAll, Watcher, memory
  <2>2. Differs' = {}
    BY <2>1 DEF Differs, disk
  <2> QED BY <1>1, <2>1, <2>2, BaseRest
<1> QED BY <1>2, <1>3

-----------------------------------------------------------------------------
(* The jobs of the service. *)

JobBecomes(k, state) ==
    /\ DOMAIN jobs' = Key /\ jobs'[k] \in [state : Known, path : Path]
    /\ jobs'[k].state = state /\ jobs'[k].path = jobs[k].path
    /\ \A l \in Key : l # k => jobs'[l] = jobs[l]

LEMMA JobsKeep == WatchInv /\ (JobStep \/ ServiceDies) => WatchInv'
<1> SUFFICES ASSUME WatchInv, JobStep \/ ServiceDies PROVE WatchInv'
  OBVIOUS
<1>1. /\ UNCHANGED <<source, edits, snapshot, intents, inflight, ambiguous, nextKey, poll, queue, events, observer,
                     startup, resync, rebaseline, dropped>>
  BY DEF JobStep, RunJob, CommitJob, FinishJob, FailJob, ServiceDies, disk, Watcher, watching, memory, updates
<1>2. JobTypes
  BY DEF WatchInv, WatchTypes
(* A job keeps its path, or is gone; what it brings is what the file is.   *)
<1>3. /\ JobTypes' /\ base' \in [Path -> Nat] /\ Differs' \subseteq Differs
      /\ \A k \in Key : jobs'[k] # NoJob => jobs[k] # NoJob /\ jobs'[k].path = jobs[k].path
      /\ \A k \in Key : Committed(k)' => Committed(k) \/ jobs[k].path \notin Differs'
  <2>1. CASE ServiceDies
    <3>1. jobs' = [k \in Key |-> NoJob] /\ base' = base
      BY <2>1 DEF ServiceDies, committed
    <3>2. \A k \in Key : ~Committed(k)'
      BY <3>1 DEF Committed, NoJob
    <3> QED BY <1>1, <3>1, <3>2 DEF JobTypes, WatchInv, WatchTypes, Differs
  <2>2. ASSUME NEW k \in Key, RunJob(k) \/ CommitJob(k) \/ FinishJob(k) \/ FailJob(k)
        PROVE  /\ JobTypes' /\ base' \in [Path -> Nat] /\ Differs' \subseteq Differs
               /\ \A l \in Key : jobs'[l] # NoJob => jobs[l] # NoJob /\ jobs'[l].path = jobs[l].path
               /\ \A l \in Key : Committed(l)' => Committed(l) \/ jobs[l].path \notin Differs'
    <3>1. jobs[k] \in [state : Known, path : Path]
      <4>1. jobs[k].state \in Known
        BY <2>2 DEF RunJob, CommitJob, FinishJob, FailJob, Known
      <4> QED BY <1>2, <4>1 DEF JobTypes, NoJob, Known
    <3> PICK path \in Path : path = jobs[k].path
      BY <3>1
    <3>2. \E state \in Known :
             /\ JobBecomes(k, state)
             /\ state = "done" /\ jobs[k].state # "committed" => base' = base /\ path \notin Differs
             /\ state = "committed" => base' = [base EXCEPT ![path] = source[path]]
             /\ state # "committed" => base' = base
      <4>1. CASE RunJob(k)
        <5> PICK state \in Known : state = IF path \in Differs THEN "parsed" ELSE "done"
          BY DEF Known
        <5>1. JobBecomes(k, state)
          BY <1>2, <3>1, <4>1 DEF RunJob, JobTypes, JobBecomes
        <5>2. base' = base /\ (state = "done" => path \notin Differs) /\ state # "committed"
          BY <4>1 DEF RunJob, committed
        <5> QED BY <5>1, <5>2
      <4>2. CASE CommitJob(k)
        <5>1. JobBecomes(k, "committed")
          BY <1>2, <3>1, <4>2 DEF CommitJob, Becomes, JobTypes, JobBecomes, Known
        <5> QED BY <4>2, <5>1 DEF CommitJob, Known
      <4>3. CASE FinishJob(k)
        <5>1. JobBecomes(k, "done")
          BY <1>2, <3>1, <4>3 DEF FinishJob, Becomes, JobTypes, JobBecomes, Known
        <5> QED BY <4>3, <5>1 DEF FinishJob, Known, committed
      <4>4. CASE FailJob(k)
        <5>1. JobBecomes(k, "failed")
          BY <1>2, <3>1, <4>4 DEF FailJob, Becomes, JobTypes, JobBecomes, Known
        <5> QED BY <4>4, <5>1 DEF FailJob, Known, committed
      <4> QED BY <2>2, <4>1, <4>2, <4>3, <4>4
    <3> PICK state \in Known :
             /\ JobBecomes(k, state)
             /\ state = "done" /\ jobs[k].state # "committed" => base' = base /\ path \notin Differs
             /\ state = "committed" => base' = [base EXCEPT ![path] = source[path]]
             /\ state # "committed" => base' = base
      BY <3>2
    <3>3. /\ DOMAIN jobs' = Key /\ jobs'[k] \in [state : Known, path : Path]
          /\ jobs'[k].state = state /\ jobs'[k].path = path
          /\ \A l \in Key : l # k => jobs'[l] = jobs[l]
      BY DEF JobBecomes
    <3>4. JobTypes'
      BY <1>2, <3>3 DEF JobTypes
    <3>5. base' \in [Path -> Nat] /\ Differs' \subseteq Differs /\ (state = "committed" => path \notin Differs')
      BY <1>1 DEF WatchInv, WatchTypes, Differs
    <3>6. ASSUME NEW l \in Key, jobs'[l] # NoJob PROVE jobs[l] # NoJob /\ jobs'[l].path = jobs[l].path
      <4>1. jobs[k] # NoJob
        BY <3>1 DEF NoJob, Known
      <4> QED BY <3>3, <3>6, <4>1
    <3>7. ASSUME NEW l \in Key, Committed(l)' PROVE Committed(l) \/ jobs[l].path \notin Differs'
      <4>1. CASE l = k
        <5>1. state \in {"committed", "done"}
          BY <3>3, <3>7, <4>1 DEF Committed
        <5>2. CASE state = "done" /\ jobs[k].state = "committed"
          BY <4>1, <5>2 DEF Committed
        <5> QED BY <3>5, <4>1, <5>1, <5>2
      <4>2. CASE l # k
        BY <3>3, <3>7, <4>2 DEF Committed
      <4> QED BY <4>1, <4>2
    <3> QED BY <3>4, <3>5, <3>6, <3>7
  <2> QED BY <2>1, <2>2 DEF JobStep
<1>4. /\ \A p \in Path : intents[p] # Unset => intents[p].key \in Key
      /\ \A k \in Key : inflight[k] # Unset => inflight[k].path \in Path
  BY DEF WatchInv, WatchTypes, UpdateTypes
<1>5. Handled' = Handled
  BY <1>1 DEF Handled
<1>6. UpdateTypes' /\ KeysInv' /\ OneKeyEach' /\ OneJobEach'
  <2>1. UpdateTypes'
    BY <1>1, <1>3 DEF WatchInv, WatchTypes, UpdateTypes
  <2>2. KeysInv'
    BY <1>1, <1>3, <1>4 DEF WatchInv, KeysInv
  <2>3. OneKeyEach' /\ OneJobEach'
    BY <1>1 DEF WatchInv, OneKeyEach, OneJobEach, InFlight, WithIntent
  <2> QED BY <2>1, <2>2, <2>3
<1>7. WatchTypes' /\ VersionsInv'
  <2>1. PollTypes'
    BY <1>1 DEF WatchInv, WatchTypes, PollTypes
  <2>2. VersionsInv'
    BY <1>1, <1>5, VersionsRest
  <2> QED BY <1>1, <1>3, <1>6, <2>1, <2>2 DEF WatchInv, WatchTypes
<1>8. BroughtInv'
  <2>1. ASSUME NEW k \in Key, inflight[k] # Unset, Committed(k)', inflight[k].observed = source[inflight[k].path]
        PROVE  inflight[k].path \notin Differs'
    <3>1. jobs'[k] # NoJob
      BY <2>1 DEF Committed, NoJob
    <3>2. jobs[k].path = inflight[k].path
      BY <1>3, <2>1, <3>1 DEF WatchInv, KeysInv
    <3> QED BY <1>3, <2>1, <3>2 DEF WatchInv, BroughtInv
  <2>2. ASSUME NEW p \in Path, intents[p] # Unset, Committed(intents[p].key)', intents[p].observed = source[p]
        PROVE  p \notin Differs'
    <3> PICK k \in Key : k = intents[p].key
      BY <1>4, <2>2
    <3>1. intents[p].key' = k
      BY <1>1
    <3>2. Committed(k)'
      BY <2>2, <3>1 DEF Committed
    <3>3. jobs'[k] # NoJob
      BY <3>2 DEF Committed, NoJob
    <3>4. jobs[k].path = p
      BY <1>3, <2>2, <3>3 DEF WatchInv, KeysInv
    <3> QED BY <1>3, <2>2, <3>2, <3>4 DEF WatchInv, BroughtInv
  <2> QED BY <1>1, <2>1, <2>2 DEF BroughtInv, Committed
<1>9. DrainedInv'
  BY <1>1, <1>3, <1>5 DEF WatchInv, DrainedInv
<1>10. CoveredInv'
  <2> SUFFICES ASSUME NEW p \in Differs' PROVE Covered(p)'
    BY DEF CoveredInv
  <2>1. Covered(p) /\ p \in Differs
    BY <1>3 DEF WatchInv, CoveredInv
  <2>2. ASSUME Waits(p) PROVE Waits(p)'
    <3>1. CASE p \in queue \cup Handled \cup dropped \/ resync \/ rebaseline
      BY <1>1, <1>5, <3>1 DEF Waits
    <3>2. CASE \E k \in Key : inflight[k] # Unset /\ ~Committed(k) /\ inflight[k].path = p
      <4> PICK k \in Key : inflight[k] # Unset /\ ~Committed(k) /\ inflight[k].path = p
        BY <3>2
      <4>1. ASSUME Committed(k)' PROVE FALSE
        <5>1. jobs'[k] # NoJob
          BY <4>1 DEF Committed, NoJob
        <5>2. jobs[k].path = p
          BY <1>3, <5>1 DEF WatchInv, KeysInv
        <5> QED BY <1>3, <4>1, <5>2
      <4> QED BY <1>1, <4>1 DEF Waits
    <3> QED BY <2>2, <3>1, <3>2 DEF Waits
  <2> QED BY <1>1, <2>1, <2>2, CoveredRest
<1> QED BY <1>6, <1>7, <1>8, <1>9, <1>10 DEF WatchInv

-----------------------------------------------------------------------------
(* The thread polls. *)

LEMMA PollTypesIs ==
  ASSUME WatchInv
  PROVE  /\ Handled \subseteq Path /\ (poll = Resting => Handled = {})
         /\ poll.at \in {"idle", "jobs", "drain"} => Handled = {}
         /\ poll.at \in Draining => Handled = poll.changed
         /\ poll.at \in Looping => Handled = poll.rest \cup poll.deferred /\ poll.path = poll.path
         /\ poll.at # "idle" => observer # "new"
BY DEF WatchInv, WatchTypes, PollTypes, Handled, Resting, Draining, Looping, DrainedInv

(* A step of the poll that sends and collects nothing. *)
LEMMA PollRest ==
  ASSUME WatchInv, UNCHANGED <<source, edits, observer, events, jobs, inflight, intents, ambiguous, nextKey>>,
         Differs' \subseteq Differs, base' \in [Path -> Nat], snapshot' \in [Path -> Nat],
         queue' \cup startup' \cup dropped' \subseteq Path, PollTypes',
         \A p \in Path : snapshot'[p] <= source[p],
         \A p \in Handled' : snapshot'[p] <= poll'.current[p] /\ poll'.current[p] <= source[p],
         DrainedInv', \A p \in Differs' : Covered(p)'
  PROVE  WatchInv'
<1>1. JobTypes' /\ UpdateTypes' /\ KeysInv' /\ OneKeyEach' /\ OneJobEach'
  BY UpdatesRest
<1>2. WatchTypes'
  BY <1>1 DEF WatchInv, WatchTypes
<1>3. VersionsInv'
  BY DEF WatchInv, VersionsInv
<1>4. BroughtInv'
  BY BroughtRest
<1> QED BY <1>1, <1>2, <1>3, <1>4 DEF WatchInv, CoveredInv

(* The poll ends, or has nothing drained yet. *)
LEMMA NothingHandled ==
  ASSUME WatchInv, UNCHANGED <<source, edits, observer, events, jobs, inflight, intents, ambiguous, nextKey>>,
         Differs' \subseteq Differs, base' \in [Path -> Nat], snapshot' \in [Path -> Nat],
         queue' \cup startup' \cup dropped' \subseteq Path,
         \A p \in Path : snapshot'[p] <= source[p],
         poll' = Resting \/ (poll' \in {[at |-> "jobs"], [at |-> "drain"]} /\ observer # "new"),
         \A p \in Differs' : Covered(p)'
  PROVE  WatchInv'
<1>1. Handled' = {} /\ poll'.at \in {"idle", "jobs", "drain"}
  BY DEF Handled, Resting
<1>2. PollTypes'
  BY <1>1 DEF PollTypes, Draining, Looping
<1>3. DrainedInv'
  BY <1>1 DEF DrainedInv, Looping
<1> QED BY <1>1, <1>2, <1>3, PollRest

(* What was handled is queued again or was dropped, and the poll ends. *)
LEMMA PollEnds ==
  ASSUME WatchInv, UNCHANGED <<source, edits, observer, events, jobs, inflight, intents, ambiguous, nextKey>>,
         Differs' \subseteq Differs, base' \in [Path -> Nat], snapshot' = snapshot,
         queue' \cup startup' \cup dropped' \subseteq Path,
         poll' = Resting, queue \subseteq queue', dropped \subseteq dropped',
         Handled \subseteq queue' \cup dropped', resync \/ rebaseline => resync' \/ rebaseline',
         startup' = startup
           \/ (startup' = {} /\ poll.at \in Looping /\ startup \subseteq poll.changed)
  PROVE  WatchInv'
<1>1. \A p \in Path : snapshot[p] <= source[p]
  BY DEF WatchInv, VersionsInv
<1>2. poll'.at \notin Looping /\ snapshot \in [Path -> Nat]
  BY DEF Resting, Looping, WatchInv, WatchTypes
<1>3. ASSUME NEW p \in Differs' PROVE Covered(p)'
  <2>1. Covered(p)
    BY DEF WatchInv, CoveredInv
  <2>2. Waits(p) => Waits(p)'
    BY WaitsRest
  <2>3. p \in startup => (p \in startup' /\ ~(poll'.at \in Looping /\ p \in poll'.changed))
                         \/ (poll.at \in Looping /\ p \in poll.changed)
    BY <1>2
  <2> QED BY <2>1, <2>2, <2>3, CoveredRest
<1> QED BY <1>1, <1>2, <1>3, NothingHandled

LEMMA RebaseKeeps == WatchInv /\ Rebase => WatchInv'
<1> SUFFICES ASSUME WatchInv, Rebase PROVE WatchInv'
  OBVIOUS
<1>1. /\ UNCHANGED <<source, edits, observer, events, jobs, inflight, intents, ambiguous, nextKey, base, dropped>>
      /\ Differs \subseteq queue' /\ snapshot' = source /\ poll' = [at |-> "jobs"] /\ observer # "new"
      /\ queue' \cup startup' \subseteq Path
  <2>1. startup \cup WithIntent \cup ambiguous \cup Differs \subseteq Path /\ queue \subseteq Path
    BY DEF WatchInv, WatchTypes, UpdateTypes, Differs, WithIntent
  <2> QED BY <2>1 DEF Rebase, disk, committed, service, watching, updates
<1>2. Differs' = Differs /\ source \in [Path -> Nat] /\ base' \in [Path -> Nat]
  BY <1>1 DEF Differs, WatchInv, WatchTypes
<1>3. \A p \in Path : snapshot'[p] <= source[p]
  BY <1>1, <1>2
<1>4. \A p \in Differs' : Covered(p)'
  BY <1>1, <1>2 DEF Covered, Noticed, Recalled, Waits
<1>5. queue' \cup startup' \cup dropped' \subseteq Path
  BY <1>1 DEF WatchInv, WatchTypes
<1> QED BY <1>1, <1>2, <1>3, <1>4, <1>5, NothingHandled

LEMMA BeginPollKeeps == WatchInv /\ BeginPoll => WatchInv'
<1> SUFFICES ASSUME WatchInv, BeginPoll PROVE WatchInv'
  OBVIOUS
<1>1. /\ UNCHANGED <<source, edits, observer, events, jobs, inflight, intents, ambiguous, nextKey, base, dropped,
                     queue, startup, snapshot, resync, rebaseline>>
      /\ poll' = [at |-> "jobs"] /\ observer # "new" /\ poll.at = "idle"
  BY DEF BeginPoll, disk, committed, service, watching, memory, updates, Resting
<1>2. Differs' = Differs /\ Handled = {}
  BY <1>1, PollTypesIs DEF Differs
<1>3. ASSUME NEW p \in Differs' PROVE Covered(p)'
  <2>1. Covered(p)
    BY <1>2 DEF WatchInv, CoveredInv
  <2>2. Waits(p) => Waits(p)'
    BY <1>1, <1>2, WaitsRest
  <2>3. poll'.at \notin Looping
    BY <1>1 DEF Looping
  <2> QED BY <1>1, <2>1, <2>2, <2>3, CoveredRest
<1>4. \A p \in Path : snapshot'[p] <= source[p]
  BY <1>1 DEF WatchInv, VersionsInv
<1> QED BY <1>1, <1>2, <1>3, <1>4, NothingHandled DEF WatchInv, WatchTypes

LEMMA DrainKeeps == WatchInv /\ Drain => WatchInv'
<1> SUFFICES ASSUME WatchInv, Drain PROVE WatchInv'
  OBVIOUS
<1> PICK changed : changed = IF queue # {} THEN queue ELSE startup
  OBVIOUS
<1>1. /\ UNCHANGED <<source, edits, observer, events, jobs, inflight, intents, ambiguous, nextKey, base, dropped,
                     startup, snapshot, resync, rebaseline>>
      /\ queue' = {} /\ poll.at = "drain"
      /\ poll' = IF changed = {} /\ ~resync THEN Resting
                 ELSE [at |-> "ping", changed |-> changed, current |-> [p \in changed |-> source[p]]]
  BY DEF Drain, disk, committed, service, watching, memory, updates
<1>2. /\ Differs' = Differs /\ Handled = {} /\ observer # "new"
      /\ changed \subseteq Path /\ queue \subseteq changed /\ source \in [Path -> Nat]
      /\ \A p \in Path : snapshot[p] <= source[p]
  BY <1>1, PollTypesIs DEF Differs, WatchInv, WatchTypes, VersionsInv
<1>3. CASE changed = {} /\ ~resync
  <2>1. poll' = Resting /\ queue = {}
    BY <1>1, <1>2, <1>3
  <2>2. queue' = queue /\ Handled \subseteq queue' \cup dropped' /\ base' \in [Path -> Nat]
        /\ queue' \cup startup' \cup dropped' \subseteq Path
    BY <1>1, <1>2, <2>1 DEF WatchInv, WatchTypes
  <2> QED BY <1>1, <1>2, <2>1, <2>2, PollEnds
<1>4. CASE ~(changed = {} /\ ~resync)
  <2> PICK current : current = [p \in changed |-> source[p]]
    OBVIOUS
  <2>1. poll' = [at |-> "ping", changed |-> changed, current |-> current]
    BY <1>1, <1>4
  <2>2. Handled' = changed /\ poll'.at = "ping" /\ poll'.changed = changed /\ poll'.current = current
    BY <2>1 DEF Handled
  <2>3. PollTypes'
    <3>1. current \in [changed -> Nat]
      BY <1>2
    <3> QED BY <1>2, <2>1, <2>2, <3>1 DEF PollTypes, Draining, Looping
  <2>4. \A p \in Handled' : poll'.current[p] = source[p] /\ snapshot'[p] <= source[p] /\ source[p] \in Nat
    BY <1>1, <1>2, <2>2
  <2>5. DrainedInv'
    BY <1>1, <1>2, <2>2, <2>4 DEF DrainedInv, Looping
  <2>6. ASSUME NEW p \in Differs' PROVE Covered(p)'
    <3>1. Covered(p)
      BY <1>2 DEF WatchInv, CoveredInv
    <3>2. Waits(p) => Waits(p)'
      BY <1>1, <1>2, <2>2, WaitsRest
    <3>3. poll'.at \notin Looping
      BY <2>2 DEF Looping
    <3> QED BY <1>1, <1>2, <2>2, <3>1, <3>2, <3>3 DEF Covered, Noticed, Recalled, Waits
  <2>7. /\ base' \in [Path -> Nat] /\ snapshot' \in [Path -> Nat]
        /\ queue' \cup startup' \cup dropped' \subseteq Path
        /\ \A p \in Handled' : snapshot'[p] <= poll'.current[p] /\ poll'.current[p] <= source[p]
    <3>1. /\ base' \in [Path -> Nat] /\ snapshot' \in [Path -> Nat]
          /\ queue' \cup startup' \cup dropped' \subseteq Path
      BY <1>1 DEF WatchInv, WatchTypes
    <3> QED BY <2>4, <3>1
  <2> QED BY <1>1, <1>2, <2>3, <2>5, <2>6, <2>7, PollRest
<1> QED BY <1>3, <1>4

(* What is handled stays so, on the way from the ping to the decision. *)
LEMMA DrainedKeeps ==
  ASSUME WatchInv, UNCHANGED <<source, edits, observer, events, jobs, inflight, intents, ambiguous, nextKey,
                               queue, startup, dropped, snapshot, resync, rebaseline>>,
         Differs' \subseteq Differs, base' \in [Path -> Nat],
         poll.at \in Draining, NEW at \in Draining, poll' = [poll EXCEPT !.at = at]
  PROVE  WatchInv'
<1>1. poll = [at |-> poll.at, changed |-> poll.changed, current |-> poll.current]
  BY DEF WatchInv, WatchTypes, PollTypes
<1>2. /\ poll'.at = at /\ poll'.changed = poll.changed /\ poll'.current = poll.current
      /\ poll' = [at |-> at, changed |-> poll.changed, current |-> poll.current]
  BY <1>1
<1>3. Handled' = Handled /\ poll'.at \notin Looping /\ observer # "new"
  BY <1>2, PollTypesIs DEF Handled, Draining, Looping
<1>4. PollTypes'
  BY <1>2 DEF PollTypes, WatchInv, WatchTypes, Draining, Looping
<1>5. DrainedInv'
  BY <1>2, <1>3 DEF WatchInv, DrainedInv
<1>6. ASSUME NEW p \in Differs' PROVE Covered(p)'
  <2>1. Covered(p)
    BY DEF WatchInv, CoveredInv
  <2>2. Waits(p) => Waits(p)'
    BY <1>3, WaitsRest
  <2> QED BY <1>3, <2>1, <2>2, CoveredRest
<1>7. /\ \A p \in Path : snapshot'[p] <= source[p]
      /\ \A p \in Handled' : snapshot'[p] <= poll'.current[p] /\ poll'.current[p] <= source[p]
  BY <1>2, <1>3 DEF WatchInv, VersionsInv
<1>8. snapshot' \in [Path -> Nat] /\ queue' \cup startup' \cup dropped' \subseteq Path
  BY DEF WatchInv, WatchTypes
<1> QED BY <1>4, <1>5, <1>6, <1>7, <1>8, PollRest

LEMMA DrainedStepsKeep ==
  ASSUME WatchInv, Ping \/ BeginResync \/ ResyncReads \/ ResyncCommits
  PROVE  WatchInv'
<1>1. base \in [Path -> Nat] /\ source \in [Path -> Nat]
  BY DEF WatchInv, WatchTypes
<1>2. UNCHANGED <<source, edits, observer, events, jobs, inflight, intents, ambiguous, nextKey,
                  queue, startup, dropped, snapshot, resync, rebaseline>>
  BY DEF Ping, BeginResync, ResyncReads, ResyncCommits, disk, service, watching, memory, updates
<1>3. CASE ResyncCommits
  <2>1. base' = source /\ Differs' = {}
    BY <1>2, <1>3 DEF ResyncCommits, CommitAll, Differs
  <2>2. poll.at \in Draining /\ "rescan" \in Draining /\ poll' = [poll EXCEPT !.at = "rescan"]
    BY <1>3 DEF ResyncCommits, Draining
  <2> QED BY <1>1, <1>2, <2>1, <2>2, DrainedKeeps
<1>4. CASE Ping \/ BeginResync \/ ResyncReads
  <2>1. base' = base /\ Differs' = Differs
    BY <1>2, <1>4 DEF Ping, BeginResync, ResyncReads, committed, Differs
  <2>2. poll.at \in Draining /\ \E at \in Draining : poll' = [poll EXCEPT !.at = at]
    BY <1>4 DEF Ping, BeginResync, ResyncReads, Draining
  <2> QED BY <1>1, <1>2, <2>1, <2>2, DrainedKeeps
<1> QED BY <1>3, <1>4

LEMMA PollEndsKeep ==
  ASSUME WatchInv, PingRaises \/ Postpone \/ ResyncFails \/ EndPoll
  PROVE  WatchInv'
<1>1. /\ UNCHANGED <<source, edits, observer, events, jobs, inflight, intents, ambiguous, nextKey, base, snapshot,
                     resync, rebaseline>>
      /\ poll' = Resting
  BY DEF PingRaises, Postpone, ResyncFails, EndPoll, PutBack, disk, committed, service, watching, memory, updates
<1>2. base' \in [Path -> Nat] /\ Differs' = Differs /\ queue \cup dropped \cup startup \subseteq Path
  BY <1>1 DEF WatchInv, WatchTypes, Differs
<1>3. /\ queue \subseteq queue' /\ dropped \subseteq dropped'
      /\ Handled \subseteq queue' \cup dropped'
      /\ queue' \cup dropped' \subseteq queue \cup dropped \cup Handled
      /\ startup' = startup \/ (startup' = {} /\ poll.at \in Looping /\ startup \subseteq poll.changed)
  <2>1. CASE PingRaises
    <3>1. Handled = poll.changed
      BY <2>1, PollTypesIs DEF PingRaises, Draining
    <3> QED BY <2>1, <3>1 DEF PingRaises, memory
  <2>2. CASE Postpone
    <3>1. Handled = poll.changed
      BY <2>2, PollTypesIs DEF Postpone, Draining
    <3> QED BY <2>2, <3>1 DEF Postpone, PutBack, memory
  <2>3. CASE ResyncFails
    <3>1. Handled = poll.changed
      BY <2>3, PollTypesIs DEF ResyncFails, Draining
    <3> QED BY <2>3, <3>1 DEF ResyncFails, PutBack, memory
  <2>4. CASE EndPoll
    <3>1. Handled = poll.deferred /\ poll.at \in Looping
      BY <2>4, PollTypesIs DEF EndPoll, Looping
    <3> QED BY <2>4, <3>1 DEF EndPoll, PutBack
  <2> QED BY <2>1, <2>2, <2>3, <2>4
<1>4. queue' \cup startup' \cup dropped' \subseteq Path
  BY <1>2, <1>3, PollTypesIs
<1> QED BY <1>1, <1>2, <1>3, <1>4, PollEnds

LEMMA RescanKeeps == WatchInv /\ Rescan => WatchInv'
<1> SUFFICES ASSUME WatchInv, Rescan PROVE WatchInv'
  OBVIOUS
<1>1. /\ UNCHANGED <<source, edits, observer, events, jobs, inflight, intents, ambiguous, nextKey, base, rebaseline, dropped>>
      /\ poll' = Resting
  BY DEF Rescan, PutBack, disk, committed, service, watching, updates
<1>2. /\ base' \in [Path -> Nat] /\ Differs' = Differs /\ queue \cup dropped \cup startup \subseteq Path
      /\ Handled = poll.changed /\ Handled \subseteq Path /\ source \in [Path -> Nat] /\ Differs \subseteq Path
  BY <1>1, PollTypesIs DEF WatchInv, WatchTypes, Differs, Rescan, Draining
<1>3. CASE Baseline
  <2>1. snapshot' = source /\ startup' = Differs /\ queue' = queue \cup Differs
    BY <1>3 DEF Rescan, PutBack
  <2>2. \A p \in Differs' : Covered(p)'
    BY <1>2, <2>1 DEF Covered, Noticed, Recalled, Waits
  <2>3. \A p \in Path : snapshot'[p] <= source[p]
    BY <1>2, <2>1
  <2>4. queue' \cup startup' \cup dropped' \subseteq Path /\ snapshot' \in [Path -> Nat]
    BY <1>1, <1>2, <2>1
  <2> QED BY <1>1, <1>2, <2>2, <2>3, <2>4, NothingHandled
<1>4. CASE ~Baseline
  <2>1. UNCHANGED <<snapshot, startup, resync>> /\ queue' = queue \cup poll.changed
    BY <1>4 DEF Rescan, PutBack
  <2>2. queue' \cup startup' \cup dropped' \subseteq Path /\ Handled \subseteq queue'
    BY <1>1, <1>2, <2>1
  <2> QED BY <1>1, <1>2, <2>1, <2>2, PollEnds
<1> QED BY <1>3, <1>4

LEMMA DecideKeeps == WatchInv /\ Decide => WatchInv'
<1> SUFFICES ASSUME WatchInv, Decide PROVE WatchInv'
  OBVIOUS
<1> PICK todo : todo = Differs \cap poll.changed
  OBVIOUS
<1>1. /\ UNCHANGED <<source, edits, observer, events, jobs, inflight, intents, ambiguous, nextKey, base, snapshot,
                     queue, startup, dropped, resync, rebaseline>>
      /\ poll' = [at |-> "loop", changed |-> poll.changed, current |-> poll.current,
                  todo |-> todo, rest |-> poll.changed, deferred |-> {}, path |-> Unset]
      /\ poll.at = "check"
  BY DEF Decide, disk, committed, service, watching, memory, updates
<1>2. /\ poll'.at = "loop" /\ poll'.changed = poll.changed /\ poll'.current = poll.current
      /\ poll'.todo = todo /\ poll'.rest = poll.changed /\ poll'.deferred = {}
  BY <1>1
<1>3. /\ Handled' = Handled /\ observer # "new" /\ poll'.at \in Looping /\ Handled = poll.changed
  BY <1>1, <1>2, PollTypesIs DEF Handled, Draining, Looping
<1>4. Differs' = Differs /\ base' \in [Path -> Nat] /\ snapshot' \in [Path -> Nat]
      /\ queue' \cup startup' \cup dropped' \subseteq Path
  BY <1>1 DEF Differs, WatchInv, WatchTypes
<1>5. PollTypes'
  <2>1. poll.changed \subseteq Path /\ poll.current \in [poll.changed -> Nat]
    BY <1>1 DEF WatchInv, WatchTypes, PollTypes, Draining
  <2>2. poll' = [at |-> poll'.at, changed |-> poll'.changed, current |-> poll'.current,
                 todo |-> poll'.todo, rest |-> poll'.rest, deferred |-> poll'.deferred,
                 path |-> poll'.path]
    BY <1>1
  <2> QED BY <1>2, <2>1, <2>2 DEF PollTypes, Draining, Looping
<1>6. DrainedInv'
  <2>1. \A p \in Handled' : poll'.current[p] # source'[p] =>
           p \in events' \cup queue' \/ observer' \in {"dead", "none"}
    BY <1>1, <1>2, <1>3 DEF WatchInv, DrainedInv
  <2>2. \A p \in poll'.rest \ poll'.todo : p \notin Differs'
    BY <1>2, <1>4
  <2> QED BY <1>1, <1>3, <2>1, <2>2 DEF DrainedInv
<1>7. ASSUME NEW p \in Differs' PROVE Covered(p)'
  <2>1. Covered(p)
    BY <1>4 DEF WatchInv, CoveredInv
  <2>2. Waits(p) => Waits(p)'
    BY <1>1, <1>3, WaitsRest
  <2>3. p \in poll'.changed => Waits(p)'
    BY <1>2, <1>3 DEF Waits
  <2> QED BY <1>1, <2>1, <2>2, <2>3, CoveredRest
<1>8. /\ \A p \in Path : snapshot'[p] <= source[p]
      /\ \A p \in Handled' : snapshot'[p] <= poll'.current[p] /\ poll'.current[p] <= source[p]
  BY <1>1, <1>2, <1>3 DEF WatchInv, VersionsInv
<1> QED BY <1>1, <1>4, <1>5, <1>6, <1>7, <1>8, PollRest

-----------------------------------------------------------------------------
(* Path by path. *)

LoopPoll(at, rest, deferred, path) ==
    [at |-> at, changed |-> poll.changed, current |-> poll.current, todo |-> poll.todo,
     rest |-> rest, deferred |-> deferred, path |-> path]

LEMMA PollIs ==
  ASSUME WatchInv, poll.at \in Looping
  PROVE  /\ poll = LoopPoll(poll.at, poll.rest, poll.deferred, poll.path)
         /\ Handled = poll.rest \cup poll.deferred /\ Handled \subseteq Path /\ observer # "new"
         /\ Handled \subseteq poll.changed /\ poll.current \in [poll.changed -> Nat]
BY DEF WatchInv, WatchTypes, PollTypes, LoopPoll, Handled, Draining, Looping, DrainedInv, Resting

LEMMA SettleIs ==
  ASSUME WatchInv, poll.at \in Looping, NEW p, Settle(p)
  PROVE  poll' = LoopPoll("loop", poll.rest \ {p}, poll.deferred, poll.path)
<1> PICK q : q = poll
  OBVIOUS
<1>1. q = [at |-> q.at, changed |-> q.changed, current |-> q.current, todo |-> q.todo,
           rest |-> q.rest, deferred |-> q.deferred, path |-> q.path]
  BY PollIs DEF LoopPoll
<1>2. poll' = [q EXCEPT !.at = "loop", !.rest = q.rest \ {p}]
  BY DEF Settle
<1> QED BY <1>1, <1>2 DEF LoopPoll

LEMMA DeferIs ==
  ASSUME WatchInv, poll.at \in Looping, NEW p, Defer(p)
  PROVE  poll' = LoopPoll("loop", poll.rest \ {p}, poll.deferred \cup {p}, poll.path)
<1> PICK q : q = poll
  OBVIOUS
<1>1. q = [at |-> q.at, changed |-> q.changed, current |-> q.current, todo |-> q.todo,
           rest |-> q.rest, deferred |-> q.deferred, path |-> q.path]
  BY PollIs DEF LoopPoll
<1>2. poll' = [q EXCEPT !.at = "loop", !.rest = q.rest \ {p}, !.deferred = q.deferred \cup {p}]
  BY DEF Defer
<1> QED BY <1>1, <1>2 DEF LoopPoll

(* Everything but the updates, when a path is settled, deferred or sent.   *)
LEMMA LoopRest ==
  ASSUME WatchInv, poll.at \in Looping, NEW at \in Looping, NEW rest \in SUBSET poll.rest,
         NEW deferred \in SUBSET (poll.rest \cup poll.deferred), NEW path,
         poll' = LoopPoll(at, rest, deferred, path),
         at = "send" => path \in rest /\ intents'[path] # Unset,
         UNCHANGED <<source, edits, base, observer, events, queue, startup, dropped>>,
         snapshot' \in [Path -> Nat], \A p \in Path : snapshot'[p] <= source[p],
         \A p \in rest \cup deferred : snapshot'[p] <= poll.current[p],
         JobTypes', UpdateTypes', KeysInv', OneKeyEach', OneJobEach', BroughtInv',
         \A p \in Path : intents'[p] # Unset => intents'[p].observed <= source[p],
         \A k \in Key : inflight'[k] # Unset => inflight'[k].observed <= source[inflight'[k].path],
         \A p \in Differs : Covered(p)'
  PROVE  WatchInv'
<1>1. /\ poll'.at = at /\ poll'.changed = poll.changed /\ poll'.current = poll.current
      /\ poll'.todo = poll.todo /\ poll'.rest = rest /\ poll'.deferred = deferred /\ poll'.path = path
      /\ poll' = [at |-> poll'.at, changed |-> poll'.changed, current |-> poll'.current,
                  todo |-> poll'.todo, rest |-> poll'.rest, deferred |-> poll'.deferred,
                  path |-> poll'.path]
  BY DEF LoopPoll
<1>2. Handled' = rest \cup deferred /\ Handled' \subseteq Handled
  BY <1>1, PollIs DEF Handled, Looping
<1>3. PollTypes'
  <2>1. /\ poll.changed \subseteq Path /\ poll.current \in [poll.changed -> Nat]
        /\ rest \subseteq poll.changed /\ deferred \subseteq poll.changed
    BY DEF WatchInv, WatchTypes, PollTypes
  <2> QED BY <1>1, <2>1 DEF PollTypes, Draining, Looping
<1>4. WatchTypes'
  BY <1>3 DEF WatchInv, WatchTypes
<1>5. VersionsInv'
  BY <1>1, <1>2 DEF WatchInv, VersionsInv
<1>6. Differs' = Differs
  BY DEF Differs
<1>7. DrainedInv'
  BY <1>1, <1>2, <1>6, PollIs DEF WatchInv, DrainedInv
<1> QED BY <1>4, <1>5, <1>6, <1>7 DEF WatchInv, CoveredInv

(* A path that is still handled, or was settled and is covered otherwise.  *)
LEMMA LoopCovers ==
  ASSUME WatchInv, poll.at \in Looping, NEW at \in Looping, NEW rest, NEW deferred, NEW path,
         poll' = LoopPoll(at, rest, deferred, path),
         UNCHANGED <<source, observer, events, queue, startup, dropped, resync, rebaseline>>,
         NEW f, \A p \in Handled : p # f => p \in rest \cup deferred,
         \A p : p # f => snapshot'[p] = snapshot[p],
         \A p : p # f => \A k \in Key :
             inflight[k] # Unset /\ ~Committed(k) /\ inflight[k].path = p =>
                 \E l \in Key : inflight'[l] # Unset /\ ~Committed(l)' /\ inflight'[l].path = p,
         f \in Differs => f \in rest \cup deferred \/ (Noticed(f)' /\ Recalled(f)')
  PROVE  \A p \in Differs : Covered(p)'
<1>1. Handled' = rest \cup deferred /\ poll'.at \in Looping /\ poll'.changed = poll.changed
  BY DEF LoopPoll, Handled, Looping
<1> SUFFICES ASSUME NEW p \in Differs PROVE Covered(p)'
  OBVIOUS
<1>2. CASE p = f
  <2>1. p \in rest \cup deferred => Waits(p)'
    BY <1>1 DEF Waits
  <2> QED BY <1>2, <2>1 DEF Covered, Noticed, Recalled
<1>3. CASE p # f
  <2>1. Covered(p)
    BY DEF WatchInv, CoveredInv
  <2>2. ASSUME Waits(p) PROVE Waits(p)'
    <3>1. CASE p \in queue \cup Handled \cup dropped \/ resync \/ rebaseline
      BY <1>1, <1>3, <3>1 DEF Waits
    <3>2. CASE \E k \in Key : inflight[k] # Unset /\ ~Committed(k) /\ inflight[k].path = p
      <4>1. \E l \in Key : inflight'[l] # Unset /\ ~Committed(l)' /\ inflight'[l].path = p
        BY <1>3, <3>2
      <4> QED BY <4>1 DEF Waits
    <3> QED BY <2>2, <3>1, <3>2 DEF Waits
  <2> QED BY <1>1, <1>3, <2>1, <2>2, CoveredRest
<1> QED BY <1>2, <1>3

(* The versions of what is sent and seen.                                  *)
LEMMA VersionsAre ==
  ASSUME WatchInv
  PROVE  /\ \A p \in Path : source[p] \in Nat /\ snapshot[p] \in Nat /\ snapshot[p] <= source[p]
         /\ \A p \in Handled : snapshot[p] <= poll.current[p] /\ poll.current[p] <= source[p]
         /\ \A p \in Path : intents[p] # Unset => intents[p].observed <= source[p]
         /\ \A k \in Key : inflight[k] # Unset => inflight[k].observed <= source[inflight[k].path]
BY DEF WatchInv, WatchTypes, VersionsInv

LEMMA DeferKeeps ==
  ASSUME WatchInv, DeferRest \/ \E p \in Path : DeferUnstable(p)
  PROVE  WatchInv'
<1>1. /\ UNCHANGED <<source, edits, base, observer, events, queue, startup, dropped, snapshot, resync,
                     rebaseline, jobs, inflight, intents, ambiguous, nextKey>>
      /\ poll.at \in Looping
  BY DEF DeferRest, DeferUnstable, Turn, Looping, disk, committed, service, watching, memory, updates
<1>2. \E rest \in SUBSET poll.rest, deferred \in SUBSET (poll.rest \cup poll.deferred) :
         /\ poll' = LoopPoll("loop", rest, deferred, poll.path)
         /\ Handled \subseteq rest \cup deferred
  <2>1. CASE DeferRest
    <3> PICK q : q = poll
      OBVIOUS
    <3>1. q = [at |-> q.at, changed |-> q.changed, current |-> q.current, todo |-> q.todo,
               rest |-> q.rest, deferred |-> q.deferred, path |-> q.path]
      BY <1>1, PollIs DEF LoopPoll
    <3>2. poll' = [q EXCEPT !.at = "loop", !.rest = {}, !.deferred = q.deferred \cup q.rest]
      BY <2>1 DEF DeferRest
    <3>3. poll' = LoopPoll("loop", {}, poll.deferred \cup poll.rest, poll.path)
      BY <3>1, <3>2 DEF LoopPoll
    <3>4. {} \in SUBSET poll.rest /\ poll.deferred \cup poll.rest \in SUBSET (poll.rest \cup poll.deferred)
      OBVIOUS
    <3> QED BY <1>1, <3>3, <3>4, PollIs
  <2>2. ASSUME NEW p \in Path, DeferUnstable(p)
        PROVE  /\ poll' = LoopPoll("loop", poll.rest \ {p}, poll.deferred \cup {p}, poll.path)
               /\ p \in poll.rest
    BY <1>1, <2>2, DeferIs DEF DeferUnstable, Turn
  <2>3. ASSUME NEW p \in Path, DeferUnstable(p)
        PROVE  \E rest \in SUBSET poll.rest, deferred \in SUBSET (poll.rest \cup poll.deferred) :
                   /\ poll' = LoopPoll("loop", rest, deferred, poll.path)
                   /\ Handled \subseteq rest \cup deferred
    <3>1. /\ poll.rest \ {p} \in SUBSET poll.rest
          /\ poll.deferred \cup {p} \in SUBSET (poll.rest \cup poll.deferred)
          /\ Handled \subseteq (poll.rest \ {p}) \cup (poll.deferred \cup {p})
      BY <1>1, <2>2, <2>3, PollIs
    <3> QED BY <2>2, <2>3, <3>1
  <2> QED BY <2>1, <2>3
<1> PICK rest \in SUBSET poll.rest, deferred \in SUBSET (poll.rest \cup poll.deferred) :
         /\ poll' = LoopPoll("loop", rest, deferred, poll.path)
         /\ Handled \subseteq rest \cup deferred
  BY <1>2
<1>3. JobTypes' /\ UpdateTypes' /\ KeysInv' /\ OneKeyEach' /\ OneJobEach'
  BY <1>1, UpdatesRest
<1>4. BroughtInv'
  BY <1>1, BroughtRest DEF Differs
<1>5. /\ snapshot' \in [Path -> Nat] /\ \A p \in Path : snapshot'[p] <= source[p]
      /\ \A p \in rest \cup deferred : snapshot'[p] <= poll.current[p]
      /\ \A p \in Path : intents'[p] # Unset => intents'[p].observed <= source[p]
      /\ \A k \in Key : inflight'[k] # Unset => inflight'[k].observed <= source[inflight'[k].path]
  BY <1>1, VersionsAre, PollIs DEF WatchInv, WatchTypes
<1>6. ASSUME NEW p \in Differs PROVE Covered(p)'
  <2>1. Handled' = rest \cup deferred /\ poll'.at \in Looping /\ poll'.changed = poll.changed
    BY DEF LoopPoll, Handled, Looping
  <2>2. Covered(p)
    BY DEF WatchInv, CoveredInv
  <2>3. Waits(p) => Waits(p)'
    BY <1>1, <2>1, WaitsRest
  <2> QED BY <1>1, <2>1, <2>2, <2>3, CoveredRest
<1>7. "loop" \in Looping
  BY DEF Looping
<1> QED BY <1>1, <1>3, <1>4, <1>5, <1>6, <1>7, LoopRest

(* A path has no intent any more.                                          *)
LEMMA ForgetIs ==
  ASSUME WatchInv, NEW f \in Path,
         intents' = intents \/ intents' = [intents EXCEPT ![f] = Unset],
         ambiguous' \subseteq ambiguous, UNCHANGED <<jobs, inflight, nextKey, source, base>>
  PROVE  /\ JobTypes' /\ UpdateTypes' /\ KeysInv' /\ OneKeyEach' /\ OneJobEach' /\ BroughtInv'
         /\ \A p \in Path : intents'[p] # Unset => intents'[p].observed <= source[p]
         /\ \A k \in Key : inflight'[k] # Unset => inflight'[k].observed <= source[inflight'[k].path]
<1>1. \A p \in Path : intents'[p] # Unset => intents'[p] = intents[p]
  BY DEF WatchInv, WatchTypes, UpdateTypes
<1>2. JobTypes' /\ UpdateTypes'
  <2>1. intents' \in [Path -> {Unset} \cup [key : Key, observed : Nat]]
    BY DEF WatchInv, WatchTypes, UpdateTypes
  <2> QED BY <1>1, <2>1 DEF WatchInv, WatchTypes, UpdateTypes, JobTypes
<1>3. KeysInv' /\ OneKeyEach' /\ OneJobEach'
  BY <1>1 DEF WatchInv, KeysInv, OneKeyEach, OneJobEach, InFlight, WithIntent
<1>4. BroughtInv'
  BY <1>1 DEF WatchInv, BroughtInv, Committed, Differs
<1> QED BY <1>1, <1>2, <1>3, <1>4, VersionsAre

LEMMA AcceptUnchangedKeeps == \A f \in Path : WatchInv /\ AcceptUnchanged(f) => WatchInv'
<1> SUFFICES ASSUME NEW f \in Path, WatchInv, AcceptUnchanged(f) PROVE WatchInv'
  OBVIOUS
<1>1. /\ UNCHANGED <<source, edits, base, observer, events, queue, startup, dropped, resync, rebaseline,
                     jobs, inflight, nextKey>>
      /\ poll.at = "loop" /\ poll.at \in Looping /\ f \in poll.rest \ poll.todo
      /\ intents' = [intents EXCEPT ![f] = Unset] /\ ambiguous' \subseteq ambiguous
      /\ snapshot' = [snapshot EXCEPT ![f] = poll.current[f]] /\ Settle(f)
  BY DEF AcceptUnchanged, Turn, Forget, Looping, disk, committed, service, watching
<1> PICK rest \in SUBSET poll.rest : rest = poll.rest \ {f}
  OBVIOUS
<1>2. poll' = LoopPoll("loop", rest, poll.deferred, poll.path)
  BY <1>1, SettleIs
<1>3. f \in Handled /\ snapshot[f] <= poll.current[f] /\ poll.current[f] <= source[f] /\ poll.current[f] \in Nat
  BY <1>1, PollIs, VersionsAre
<1>4. /\ snapshot' \in [Path -> Nat] /\ snapshot'[f] = poll.current[f]
      /\ \A p \in Path : p # f => snapshot'[p] = snapshot[p]
  BY <1>1, <1>3 DEF WatchInv, WatchTypes
<1>5. \A p : p # f => snapshot'[p] = snapshot[p]
  BY <1>1, <1>4 DEF WatchInv, WatchTypes
<1>6. /\ \A p \in Path : snapshot'[p] <= source[p]
      /\ \A p \in rest \cup poll.deferred : snapshot'[p] <= poll.current[p]
  <2>1. ASSUME NEW p \in Handled PROVE snapshot'[p] <= poll.current[p]
    <3>1. CASE p = f
      BY <1>3, <1>4, <3>1
    <3>2. CASE p # f
      BY <1>1, <1>4, <2>1, <3>2, PollIs, VersionsAre
    <3> QED BY <3>1, <3>2
  <2>2. \A p \in Path : snapshot'[p] <= source[p]
    BY <1>3, <1>4, VersionsAre
  <2> QED BY <1>1, <2>1, <2>2, PollIs
<1>7. ASSUME f \in Differs PROVE Noticed(f)' /\ Recalled(f)'
  <2>1. poll.current[f] # source[f]
    BY <1>1, <1>7 DEF WatchInv, DrainedInv
  <2>2. f \in events \cup queue \/ observer \in {"dead", "none"}
    BY <1>3, <2>1 DEF WatchInv, DrainedInv
  <2> QED BY <1>1, <1>4, <2>1, <2>2 DEF Noticed, Recalled, Waits
<1>8. ASSUME NEW p \in Differs PROVE Covered(p)'
  <2>1. \A q \in Handled : q # f => q \in rest \cup poll.deferred
    BY <1>1, PollIs
  <2>2. \A q : q # f => \A k \in Key :
             inflight[k] # Unset /\ ~Committed(k) /\ inflight[k].path = q =>
                 \E l \in Key : inflight'[l] # Unset /\ ~Committed(l)' /\ inflight'[l].path = q
    BY <1>1 DEF Committed
  <2>3. "loop" \in Looping
    BY DEF Looping
  <2> QED BY <1>1, <1>2, <1>5, <1>7, <2>1, <2>2, <2>3, LoopCovers
<1>9. /\ JobTypes' /\ UpdateTypes' /\ KeysInv' /\ OneKeyEach' /\ OneJobEach' /\ BroughtInv'
      /\ \A p \in Path : intents'[p] # Unset => intents'[p].observed <= source[p]
      /\ \A k \in Key : inflight'[k] # Unset => inflight'[k].observed <= source[inflight'[k].path]
  BY <1>1, ForgetIs
<1>10. "loop" \in Looping /\ poll.deferred \in SUBSET (poll.rest \cup poll.deferred)
  BY DEF Looping
<1> QED BY <1>1, <1>2, <1>4, <1>6, <1>8, <1>9, <1>10, LoopRest

LEMMA SkipInFlightKeeps == \A f \in Path : WatchInv /\ SkipInFlight(f) => WatchInv'
<1> SUFFICES ASSUME NEW f \in Path, WatchInv, SkipInFlight(f) PROVE WatchInv'
  OBVIOUS
<1>1. /\ UNCHANGED <<source, edits, base, observer, events, queue, startup, dropped, snapshot, resync,
                     rebaseline, jobs, inflight, nextKey>>
      /\ poll.at \in Looping /\ f \in poll.rest /\ source[f] = poll.current[f]
      /\ intents' = intents \/ intents' = [intents EXCEPT ![f] = Unset]
      /\ ambiguous' \subseteq ambiguous /\ Settle(f)
  BY DEF SkipInFlight, Turn, Forget, Looping, disk, committed, service, watching, memory
<1> PICK rest \in SUBSET poll.rest : rest = poll.rest \ {f}
  OBVIOUS
<1>2. poll' = LoopPoll("loop", rest, poll.deferred, poll.path)
  BY <1>1, SettleIs
<1> PICK k \in Key : inflight[k] # Unset /\ inflight[k] = [path |-> f, observed |-> poll.current[f]]
  BY DEF SkipInFlight, SameInFlight, InFlight
<1>3. inflight[k].path = f /\ inflight[k].observed = source[f]
  BY <1>1
<1>4. ASSUME f \in Differs PROVE Noticed(f)' /\ Recalled(f)'
  <2>1. ~Committed(k)
    BY <1>3, <1>4 DEF WatchInv, BroughtInv
  <2>2. ~Committed(k)'
    BY <1>1, <2>1 DEF Committed
  <2>3. Waits(f)'
    BY <1>1, <1>3, <2>2 DEF Waits
  <2> QED BY <2>3 DEF Noticed, Recalled
<1>5. ASSUME NEW p \in Differs PROVE Covered(p)'
  <2>1. \A q \in Handled : q # f => q \in rest \cup poll.deferred
    BY <1>1, PollIs
  <2>2. \A q : q # f => \A l \in Key :
             inflight[l] # Unset /\ ~Committed(l) /\ inflight[l].path = q =>
                 \E m \in Key : inflight'[m] # Unset /\ ~Committed(m)' /\ inflight'[m].path = q
    BY <1>1 DEF Committed
  <2>3. \A q : q # f => snapshot'[q] = snapshot[q]
    BY <1>1
  <2>4. f \in Differs => f \in rest \cup poll.deferred \/ (Noticed(f)' /\ Recalled(f)')
    BY <1>4
  <2>5. "loop" \in Looping
    BY DEF Looping
  <2>6. UNCHANGED <<source, observer, events, queue, startup, dropped, resync, rebaseline>>
    BY <1>1
  <2>7. \A q \in Differs : Covered(q)'
    BY <1>1, <1>2, <2>1, <2>2, <2>3, <2>4, <2>5, <2>6, LoopCovers
  <2> QED BY <2>7
<1>6. /\ JobTypes' /\ UpdateTypes' /\ KeysInv' /\ OneKeyEach' /\ OneJobEach' /\ BroughtInv'
      /\ \A p \in Path : intents'[p] # Unset => intents'[p].observed <= source[p]
      /\ \A l \in Key : inflight'[l] # Unset => inflight'[l].observed <= source[inflight'[l].path]
  BY <1>1, ForgetIs
<1>7. /\ snapshot' \in [Path -> Nat] /\ \A p \in Path : snapshot'[p] <= source[p]
      /\ \A p \in rest \cup poll.deferred : snapshot'[p] <= poll.current[p]
  BY <1>1, VersionsAre, PollIs DEF WatchInv, WatchTypes
<1>8. "loop" \in Looping /\ poll.deferred \in SUBSET (poll.rest \cup poll.deferred)
  BY DEF Looping
<1> QED BY <1>1, <1>2, <1>5, <1>6, <1>7, <1>8, LoopRest


(* An intent gets a key that no job and no intent has.                     *)
LEMMA IntendKeeps == \A f \in Path : WatchInv /\ Intend(f) => WatchInv'
<1> SUFFICES ASSUME NEW f \in Path, WatchInv, Intend(f) PROVE WatchInv'
  OBVIOUS
<1>1. /\ UNCHANGED <<source, edits, base, observer, events, queue, startup, dropped, snapshot, resync,
                     rebaseline, jobs, inflight, ambiguous>>
      /\ poll.at \in Looping /\ f \in poll.rest /\ source[f] = poll.current[f] /\ ~SameInFlight(f)
      /\ poll' = [poll EXCEPT !.at = "send", !.path = f]
  BY DEF Intend, Turn, Looping, disk, committed, service, watching, memory
<1>2. poll' = LoopPoll("send", poll.rest, poll.deferred, f)
  <2> PICK q : q = poll
    OBVIOUS
  <2>1. q = [at |-> q.at, changed |-> q.changed, current |-> q.current, todo |-> q.todo,
             rest |-> q.rest, deferred |-> q.deferred, path |-> q.path]
    BY <1>1, PollIs DEF LoopPoll
  <2>2. poll' = [q EXCEPT !.at = "send", !.path = f]
    BY <1>1
  <2> QED BY <2>1, <2>2 DEF LoopPoll
<1>3. /\ JobTypes' /\ UpdateTypes' /\ KeysInv' /\ OneKeyEach' /\ OneJobEach' /\ BroughtInv'
      /\ intents'[f] # Unset
      /\ \A p \in Path : intents'[p] # Unset => intents'[p].observed <= source[p]
  <2>1. CASE intents[f] # Unset
    <3>1. UNCHANGED <<intents, nextKey>>
      BY <2>1 DEF Intend
    <3>2. JobTypes' /\ UpdateTypes' /\ KeysInv' /\ OneKeyEach' /\ OneJobEach'
      BY <1>1, <3>1, UpdatesRest
    <3>3. BroughtInv'
      BY <1>1, <3>1, BroughtRest DEF Differs
    <3> QED BY <2>1, <3>1, <3>2, <3>3, VersionsAre
  <2>2. CASE intents[f] = Unset
    <3> PICK k \in Key : k = nextKey
      BY <2>2 DEF Intend
    <3> PICK o \in Nat : o = source[f]
      BY DEF WatchInv, WatchTypes
    <3> PICK i \in [key : Key, observed : Nat] : i = [key |-> k, observed |-> o]
      OBVIOUS
    <3>1. nextKey' = k + 1 /\ intents' = [intents EXCEPT ![f] = i]
      BY <1>1, <2>2 DEF Intend
    <3>2. /\ jobs[k] = NoJob /\ inflight[k] = Unset /\ k \in Nat
          /\ \A p \in Path : intents[p] # Unset => intents[p].key # k /\ intents[p].key \in Nat
          /\ \A l \in Key : l \in Nat
      BY WatcherAssumption DEF WatchInv, WatchTypes, UpdateTypes, Key
    <3>3. /\ intents \in [Path -> {Unset} \cup [key : Key, observed : Nat]]
          /\ i # Unset /\ i.key = k /\ i.observed = o
      BY WatcherAssumption DEF WatchInv, WatchTypes, UpdateTypes, Key
    <3>4. intents'[f] = i /\ \A p \in Path : p # f => intents'[p] = intents[p]
      BY <3>1, <3>3
    <3>5. JobTypes' /\ UpdateTypes'
      <4>1. JobTypes'
        BY <1>1 DEF WatchInv, WatchTypes, JobTypes
      <4>2. intents' \in [Path -> {Unset} \cup [key : Key, observed : Nat]]
        BY <3>1, <3>3
      <4>3. \A l \in Key : jobs'[l] # NoJob \/ inflight'[l] # Unset => l < nextKey'
        BY <1>1, <3>1, <3>2 DEF WatchInv, WatchTypes, UpdateTypes
      <4>4. \A p \in Path : intents'[p] # Unset => intents'[p].key < nextKey'
        BY <3>1, <3>2, <3>3, <3>4 DEF WatchInv, WatchTypes, UpdateTypes
      <4>5. nextKey' \in Nat \ {0} /\ ambiguous' \subseteq Path /\ inflight' = inflight
        BY <1>1, <3>1, <3>2 DEF WatchInv, WatchTypes, UpdateTypes
      <4> QED BY <4>1, <4>2, <4>3, <4>4, <4>5 DEF UpdateTypes, WatchInv, WatchTypes
    <3>6. KeysInv'
      BY <1>1, <3>2, <3>3, <3>4 DEF WatchInv, KeysInv
    <3>7. OneKeyEach' /\ OneJobEach'
      <4>1. ASSUME NEW l \in Key, inflight[l] # Unset, inflight[l].path = f PROVE inflight[l].observed # o
        <5>1. inflight[l] \in [path : Path, observed : Nat]
          BY <4>1 DEF WatchInv, WatchTypes, UpdateTypes
        <5>2. inflight[l].observed = o => inflight[l] = [path |-> f, observed |-> poll.current[f]]
          BY <1>1, <4>1, <5>1
        <5> QED BY <1>1, <4>1, <5>2 DEF SameInFlight, InFlight
      <4>2. OneJobEach'
        BY <1>1 DEF WatchInv, OneJobEach
      <4>3. OneKeyEach'
        <5> SUFFICES ASSUME NEW p \in Path, intents'[p] # Unset, NEW l \in Key, inflight[l] # Unset,
                            inflight[l].path = p
                     PROVE  inflight[l].observed # intents'[p].observed \/ intents'[p].key = l
          BY <1>1 DEF OneKeyEach, WithIntent, InFlight
        <5>1. CASE p = f
          BY <3>3, <3>4, <4>1, <5>1
        <5>2. CASE p # f
          BY <3>4, <5>2 DEF WatchInv, OneKeyEach, WithIntent, InFlight
        <5> QED BY <5>1, <5>2
      <4> QED BY <4>2, <4>3
    <3>8. BroughtInv'
      <4>1. Differs' = Differs /\ ~Committed(k)
        BY <1>1, <3>2 DEF Differs, Committed, NoJob
      <4> QED BY <1>1, <3>3, <3>4, <4>1 DEF WatchInv, BroughtInv, Committed
    <3>9. \A p \in Path : intents'[p] # Unset => intents'[p].observed <= source[p]
      BY <3>3, <3>4, VersionsAre
    <3> QED BY <3>3, <3>4, <3>5, <3>6, <3>7, <3>8, <3>9
  <2> QED BY <2>1, <2>2
<1>4. ASSUME NEW p \in Differs PROVE Covered(p)'
  <2>1. Handled' = poll.rest \cup poll.deferred /\ poll'.at \in Looping /\ poll'.changed = poll.changed
    BY <1>2 DEF LoopPoll, Handled, Looping
  <2>2. Covered(p)
    BY DEF WatchInv, CoveredInv
  <2>3. Waits(p) => Waits(p)'
    BY <1>1, <2>1, PollIs, WaitsRest
  <2> QED BY <1>1, <2>1, <2>2, <2>3, CoveredRest
<1>5. /\ snapshot' \in [Path -> Nat] /\ \A p \in Path : snapshot'[p] <= source[p]
      /\ \A p \in poll.rest \cup poll.deferred : snapshot'[p] <= poll.current[p]
      /\ \A l \in Key : inflight'[l] # Unset => inflight'[l].observed <= source[inflight'[l].path]
  BY <1>1, VersionsAre, PollIs DEF WatchInv, WatchTypes
<1>6. /\ "send" \in Looping /\ poll.rest \in SUBSET poll.rest
      /\ poll.deferred \in SUBSET (poll.rest \cup poll.deferred)
  BY DEF Looping
<1> QED BY <1>1, <1>2, <1>3, <1>4, <1>5, <1>6, LoopRest

(* What the service makes of a submission.                                 *)
LEMMA ReceiveIs ==
  ASSUME WatchInv, NEW f \in Path, intents[f] # Unset, Receive(intents[f].key, f) \/ UNCHANGED jobs
  PROVE  /\ JobTypes' /\ intents[f].key \in Key
         /\ \A l \in Key : Committed(l)' <=> Committed(l)
         /\ \A l \in Key : l # intents[f].key => jobs'[l] = jobs[l]
         /\ jobs'[intents[f].key] # NoJob => jobs'[intents[f].key].path = f
<1> PICK k \in Key : k = intents[f].key
  BY DEF WatchInv, WatchTypes, UpdateTypes
<1>1. /\ DOMAIN jobs = Key
      /\ jobs[k] = NoJob \/ jobs[k].state # "absent"
      /\ jobs[k] # NoJob => jobs[k].path = f
      /\ \A l \in Key : jobs[l] = NoJob \/ jobs[l] \in [state : Known, path : Path]
  BY DEF WatchInv, WatchTypes, JobTypes, KeysInv, Known
<1>2. CASE jobs' = jobs
  BY <1>1, <1>2 DEF JobTypes, Committed
<1>3. CASE jobs' # jobs
  <2> PICK j \in [state : Known, path : Path] : j = [state |-> "queued", path |-> f]
    BY DEF Known
  <2>1. jobs[k].state = "absent" /\ jobs' = [jobs EXCEPT ![k] = j]
    BY <1>3 DEF Receive
  <2>2. jobs'[k] = j /\ DOMAIN jobs' = Key /\ \A l \in Key : l # k => jobs'[l] = jobs[l]
    BY <1>1, <2>1
  <2>3. j.state = "queued" /\ j.path = f
    OBVIOUS
  <2> QED BY <1>1, <2>1, <2>2, <2>3 DEF JobTypes, Committed, Known
<1> QED BY <1>2, <1>3

(* A submission that is settled or deferred.                               *)
LEMMA SentKeeps ==
  ASSUME WatchInv, NEW f \in Path, poll.at \in Looping, f \in poll.rest, Settle(f) \/ Defer(f),
         UNCHANGED <<source, edits, base, observer, events, queue, startup, dropped, snapshot, resync,
                     rebaseline>>,
         JobTypes', UpdateTypes', KeysInv', OneKeyEach', OneJobEach', BroughtInv',
         \A p \in Path : intents'[p] # Unset => intents'[p].observed <= source[p],
         \A k \in Key : inflight'[k] # Unset => inflight'[k].observed <= source[inflight'[k].path],
         \A p : p # f => \A k \in Key :
             inflight[k] # Unset /\ ~Committed(k) /\ inflight[k].path = p =>
                 \E l \in Key : inflight'[l] # Unset /\ ~Committed(l)' /\ inflight'[l].path = p,
         f \in Differs => Defer(f) \/ (Noticed(f)' /\ Recalled(f)')
  PROVE  WatchInv'
<1> PICK rest \in SUBSET poll.rest : rest = poll.rest \ {f}
  OBVIOUS
<1>1. \E deferred \in SUBSET (poll.rest \cup poll.deferred) :
        /\ poll' = LoopPoll("loop", rest, deferred, poll.path)
        /\ Handled \ {f} \subseteq rest \cup deferred
        /\ Defer(f) => f \in deferred
  <2>1. CASE Defer(f)
    <3>1. poll' = LoopPoll("loop", rest, poll.deferred \cup {f}, poll.path)
      BY <2>1, DeferIs
    <3>2. poll.deferred \cup {f} \in SUBSET (poll.rest \cup poll.deferred)
      OBVIOUS
    <3>3. Handled \ {f} \subseteq rest \cup (poll.deferred \cup {f})
      BY PollIs
    <3> QED BY <3>1, <3>2, <3>3
  <2>2. CASE ~Defer(f)
    <3>1. poll' = LoopPoll("loop", rest, poll.deferred, poll.path)
      BY <2>2, SettleIs
    <3>2. poll.deferred \in SUBSET (poll.rest \cup poll.deferred) /\ Handled \ {f} \subseteq rest \cup poll.deferred
      BY PollIs
    <3> QED BY <2>2, <3>1, <3>2
  <2> QED BY <2>1, <2>2
<1> PICK deferred \in SUBSET (poll.rest \cup poll.deferred) :
        /\ poll' = LoopPoll("loop", rest, deferred, poll.path)
        /\ Handled \ {f} \subseteq rest \cup deferred
        /\ Defer(f) => f \in deferred
  BY <1>1
<1>2. "loop" \in Looping
  BY DEF Looping
<1>3. \A p \in Differs : Covered(p)'
  <2>1. \A p \in Handled : p # f => p \in rest \cup deferred
    OBVIOUS
  <2>2. \A p : p # f => snapshot'[p] = snapshot[p]
    OBVIOUS
  <2>3. f \in Differs => f \in rest \cup deferred \/ (Noticed(f)' /\ Recalled(f)')
    OBVIOUS
  <2>4. UNCHANGED <<source, observer, events, queue, startup, dropped, resync, rebaseline>>
    OBVIOUS
  <2> QED BY <1>2, <2>1, <2>2, <2>3, <2>4, LoopCovers
<1>4. /\ snapshot' \in [Path -> Nat] /\ \A p \in Path : snapshot'[p] <= source[p]
      /\ \A p \in rest \cup deferred : snapshot'[p] <= poll.current[p]
  BY VersionsAre, PollIs DEF WatchInv, WatchTypes
<1> QED BY <1>2, <1>3, <1>4, LoopRest

LEMMA SubmitRefusedKeeps == \A f \in Path : WatchInv /\ SubmitRefused(f) => WatchInv'
<1> SUFFICES ASSUME NEW f \in Path, WatchInv, SubmitRefused(f) PROVE WatchInv'
  OBVIOUS
<1>1. /\ UNCHANGED <<source, edits, base, observer, events, queue, startup, dropped, snapshot, resync,
                     rebaseline, jobs, intents, inflight, nextKey>>
      /\ poll.at = "send" /\ poll.path = f /\ ambiguous' \subseteq ambiguous /\ Defer(f)
  BY DEF SubmitRefused, Sending, disk, committed, service, watching, memory
<1>2. poll.at \in Looping /\ f \in poll.rest
  BY <1>1 DEF Looping, WatchInv, WatchTypes, PollTypes
<1>3. /\ JobTypes' /\ UpdateTypes' /\ KeysInv' /\ OneKeyEach' /\ OneJobEach' /\ BroughtInv'
      /\ \A p \in Path : intents'[p] # Unset => intents'[p].observed <= source[p]
      /\ \A l \in Key : inflight'[l] # Unset => inflight'[l].observed <= source[inflight'[l].path]
  BY <1>1, ForgetIs
<1>4. \A p : p # f => \A k \in Key :
             inflight[k] # Unset /\ ~Committed(k) /\ inflight[k].path = p =>
                 \E l \in Key : inflight'[l] # Unset /\ ~Committed(l)' /\ inflight'[l].path = p
  BY <1>1 DEF Committed
<1> QED BY <1>1, <1>2, <1>3, <1>4, SentKeeps

LEMMA SubmitLostKeeps == \A f \in Path : WatchInv /\ SubmitLost(f) => WatchInv'
<1> SUFFICES ASSUME NEW f \in Path, WatchInv, SubmitLost(f) PROVE WatchInv'
  OBVIOUS
<1>1. /\ UNCHANGED <<source, edits, base, observer, events, queue, startup, dropped, snapshot, resync,
                     rebaseline, intents, inflight, nextKey>>
      /\ poll.at = "send" /\ poll.path = f /\ ambiguous' = ambiguous \cup {f} /\ Defer(f)
      /\ Receive(intents[f].key, f) \/ UNCHANGED jobs
  BY DEF SubmitLost, Sending, disk, committed, watching, memory
<1>2. poll.at \in Looping /\ f \in poll.rest /\ intents[f] # Unset
  BY <1>1 DEF Looping, WatchInv, WatchTypes, PollTypes
<1> PICK k \in Key : k = intents[f].key
  BY <1>2 DEF WatchInv, WatchTypes, UpdateTypes
<1>3. /\ JobTypes' /\ k \in Key /\ k < nextKey
      /\ \A l \in Key : Committed(l)' <=> Committed(l)
      /\ \A l \in Key : l # k => jobs'[l] = jobs[l]
      /\ jobs'[k] # NoJob => jobs'[k].path = f
      /\ \A p \in Path : intents[p] # Unset => intents[p].key \in Key
  <2>1. k < nextKey /\ \A p \in Path : intents[p] # Unset => intents[p].key \in Key
    BY <1>2 DEF WatchInv, WatchTypes, UpdateTypes
  <2> QED BY <1>1, <1>2, <2>1, ReceiveIs
<1>4. UpdateTypes'
  BY <1>1, <1>3 DEF WatchInv, WatchTypes, UpdateTypes
<1>5. KeysInv'
  BY <1>1, <1>2, <1>3 DEF WatchInv, KeysInv
<1>6. OneKeyEach' /\ OneJobEach'
  BY <1>1 DEF WatchInv, OneKeyEach, OneJobEach, InFlight, WithIntent
<1>7. BroughtInv'
  <2>1. \A p \in Path : intents'[p] # Unset /\ Committed(intents[p].key)' => Committed(intents[p].key)
    BY <1>1, <1>3 DEF Committed
  <2>2. Differs' = Differs
    BY <1>1 DEF Differs
  <2> QED BY <1>1, <1>3, <2>1, <2>2 DEF WatchInv, BroughtInv
<1>8. \A p : p # f => \A l \in Key :
             inflight[l] # Unset /\ ~Committed(l) /\ inflight[l].path = p =>
                 \E m \in Key : inflight'[m] # Unset /\ ~Committed(m)' /\ inflight'[m].path = p
  BY <1>1, <1>3
<1>9. /\ \A p \in Path : intents'[p] # Unset => intents'[p].observed <= source[p]
      /\ \A l \in Key : inflight'[l] # Unset => inflight'[l].observed <= source[inflight'[l].path]
  BY <1>1, VersionsAre
<1> QED BY <1>1, <1>2, <1>3, <1>4, <1>5, <1>6, <1>7, <1>8, <1>9, SentKeeps

(* A job that committed before what was observed is not the last word: the *)
(* path has been reported again since it was drained.                      *)
LEMMA SubmitAcceptedKeeps == \A f \in Path : WatchInv /\ SubmitAccepted(f) => WatchInv'
<1> SUFFICES ASSUME NEW f \in Path, WatchInv, SubmitAccepted(f) PROVE WatchInv'
  OBVIOUS
<1>1. /\ UNCHANGED <<source, edits, base, observer, events, queue, startup, dropped, snapshot, resync,
                     rebaseline, nextKey>>
      /\ poll.at = "send" /\ poll.path = f /\ ambiguous' \subseteq ambiguous
      /\ IF AsObserved(f) THEN Settle(f) ELSE Defer(f)
      /\ Receive(intents[f].key, f) /\ intents' = [intents EXCEPT ![f] = Unset]
  BY DEF SubmitAccepted, Sending, Forget, disk, committed, watching, memory
<1>2. /\ poll.at \in Looping /\ f \in poll.rest /\ intents[f] # Unset
      /\ intents[f] \in [key : Key, observed : Nat]
      /\ intents \in [Path -> {Unset} \cup [key : Key, observed : Nat]]
      /\ inflight \in [Key -> {Unset} \cup [path : Path, observed : Nat]]
  BY <1>1 DEF Looping, WatchInv, WatchTypes, PollTypes, UpdateTypes
<1> PICK k \in Key : k = intents[f].key
  BY <1>2
<1> PICK o \in Nat : o = intents[f].observed
  BY <1>2
<1> PICK u \in [path : Path, observed : Nat] : u = [path |-> f, observed |-> o]
  OBVIOUS
<1>3. /\ JobTypes' /\ k < nextKey /\ o <= source[f]
      /\ \A l \in Key : Committed(l)' <=> Committed(l)
      /\ \A l \in Key : l # k => jobs'[l] = jobs[l]
      /\ jobs'[k] # NoJob => jobs'[k].path = f
  <2>1. k < nextKey /\ o <= source[f]
    BY <1>2, VersionsAre DEF WatchInv, WatchTypes, UpdateTypes
  <2> QED BY <1>1, <1>2, <2>1, ReceiveIs
<1>4. /\ inflight' = [inflight EXCEPT ![k] = u] /\ u # Unset /\ u.path = f /\ u.observed = o
  BY WatcherAssumption DEF SubmitAccepted
<1>5. /\ inflight'[k] = u /\ \A l \in Key : l # k => inflight'[l] = inflight[l]
      /\ intents'[f] = Unset /\ \A p \in Path : p # f => intents'[p] = intents[p]
  BY <1>1, <1>2, <1>4
<1>6. UpdateTypes'
  <2>1. /\ inflight' \in [Key -> {Unset} \cup [path : Path, observed : Nat]]
        /\ intents' \in [Path -> {Unset} \cup [key : Key, observed : Nat]]
    BY <1>1, <1>2, <1>4
  <2>2. /\ nextKey' \in Nat \ {0} /\ ambiguous' \subseteq Path
        /\ \A l \in Key : jobs'[l] # NoJob \/ inflight'[l] # Unset => l < nextKey'
        /\ \A p \in Path : intents'[p] # Unset => intents'[p].key < nextKey'
    BY <1>1, <1>3, <1>5 DEF WatchInv, WatchTypes, UpdateTypes
  <2> QED BY <2>1, <2>2 DEF UpdateTypes
<1>7. KeysInv'
  <2>1. \A p, q \in Path : intents'[p] # Unset /\ intents'[q] # Unset /\ p # q => intents'[p].key # intents'[q].key
    BY <1>5 DEF WatchInv, KeysInv
  <2>2. \A p \in Path : intents'[p] # Unset => intents'[p].key # k /\ intents'[p] = intents[p]
                                                /\ intents[p].key \in Key
    BY <1>2, <1>5 DEF WatchInv, KeysInv
  <2>3. \A p \in Path, l \in Key : intents'[p] # Unset /\ inflight'[l] # Unset /\ intents'[p].key = l =>
                                     inflight'[l].path = p
    BY <1>5, <2>2 DEF WatchInv, KeysInv
  <2>4. \A l \in Key : jobs'[l] # NoJob /\ inflight'[l] # Unset => jobs'[l].path = inflight'[l].path
    BY <1>3, <1>4, <1>5 DEF WatchInv, KeysInv
  <2>5. \A p \in Path : intents'[p] # Unset /\ jobs'[intents'[p].key] # NoJob => jobs'[intents'[p].key].path = p
    BY <1>3, <2>2 DEF WatchInv, KeysInv
  <2> QED BY <2>1, <2>3, <2>4, <2>5 DEF KeysInv
<1>8. OneKeyEach'
  <2> SUFFICES ASSUME NEW p \in Path, intents'[p] # Unset, NEW l \in Key, inflight'[l] # Unset, inflight'[l].path = p
               PROVE  inflight'[l].observed # intents'[p].observed \/ intents'[p].key = l
    BY DEF OneKeyEach, WithIntent, InFlight
  <2>1. p # f /\ l # k
    BY <1>4, <1>5
  <2> QED BY <1>5, <2>1 DEF WatchInv, OneKeyEach, WithIntent, InFlight
<1>9. OneJobEach'
  <2>1. ASSUME NEW l \in Key, l # k, inflight[l] # Unset, inflight[l].path = f PROVE inflight[l].observed # o
    BY <1>2, <2>1 DEF WatchInv, OneKeyEach, WithIntent, InFlight
  <2> QED BY <1>4, <1>5, <2>1 DEF WatchInv, OneJobEach
<1>10. BroughtInv'
  <2>1. Differs' = Differs
    BY <1>1 DEF Differs
  <2>2. \A l \in Key : inflight'[l] # Unset /\ Committed(l)' /\ inflight'[l].observed = source'[inflight'[l].path]
                       => inflight'[l].path \notin Differs'
    <3> SUFFICES ASSUME NEW l \in Key, inflight'[l] # Unset, Committed(l)',
                        inflight'[l].observed = source'[inflight'[l].path]
                 PROVE  inflight'[l].path \notin Differs'
      OBVIOUS
    <3>1. CASE l = k
      BY <1>1, <1>2, <1>3, <1>4, <1>5, <2>1, <3>1 DEF WatchInv, BroughtInv
    <3>2. CASE l # k
      BY <1>1, <1>3, <1>5, <2>1, <3>2 DEF WatchInv, BroughtInv
    <3> QED BY <3>1, <3>2
  <2>3. \A p \in Path : intents'[p] # Unset /\ Committed(intents[p].key)' /\ intents'[p].observed = source'[p]
                        => p \notin Differs'
    <3> SUFFICES ASSUME NEW p \in Path, intents'[p] # Unset, Committed(intents[p].key)',
                        intents'[p].observed = source'[p]
                 PROVE  p \notin Differs'
      OBVIOUS
    <3>1. p # f /\ intents'[p] = intents[p] /\ intents[p].key \in Key
      BY <1>2, <1>5
    <3> PICK l \in Key : l = intents[p].key
      BY <3>1
    <3>2. l = intents'[p].key
      BY <3>1
    <3>3. Committed(l)'
      BY <3>2 DEF Committed
    <3> QED BY <1>1, <1>3, <2>1, <3>1, <3>3 DEF WatchInv, BroughtInv
  <2> QED BY <2>2, <2>3 DEF BroughtInv
<1>11. \A p : p # f => \A l \in Key :
             inflight[l] # Unset /\ ~Committed(l) /\ inflight[l].path = p =>
                 \E m \in Key : inflight'[m] # Unset /\ ~Committed(m)' /\ inflight'[m].path = p
  <2>1. inflight[k] # Unset => inflight[k].path = f
    BY <1>2 DEF WatchInv, KeysInv
  <2> QED BY <1>3, <1>5, <2>1
<1>12. /\ \A p \in Path : intents'[p] # Unset => intents'[p].observed <= source[p]
       /\ \A l \in Key : inflight'[l] # Unset => inflight'[l].observed <= source[inflight'[l].path]
  BY <1>3, <1>4, <1>5, VersionsAre
<1>13. ASSUME f \in Differs, AsObserved(f) PROVE Noticed(f)' /\ Recalled(f)'
  <2>1. o = poll.current[f] /\ f \in Handled
    BY <1>2, <1>13, PollIs DEF AsObserved
  <2>2. CASE ~Committed(k)
    <3>1. Waits(f)'
      BY <1>3, <1>4, <1>5, <2>2 DEF Waits
    <3> QED BY <3>1 DEF Noticed, Recalled
  <2>3. CASE Committed(k)
    <3>1. o # source[f]
      BY <1>2, <1>13, <2>3 DEF WatchInv, BroughtInv
    <3>2. f \in events \cup queue \/ observer \in {"dead", "none"}
      BY <2>1, <3>1 DEF WatchInv, DrainedInv
    <3>3. snapshot[f] # source[f]
      BY <1>3, <2>1, <3>1, VersionsAre
    <3> QED BY <1>1, <3>2, <3>3 DEF Noticed, Recalled, Waits
  <2> QED BY <2>2, <2>3
<1>14. Settle(f) \/ Defer(f)
  BY <1>1
<1>15. f \in Differs => Defer(f) \/ (Noticed(f)' /\ Recalled(f)')
  BY <1>1, <1>13
<1> QED BY <1>1, <1>2, <1>3, <1>6, <1>7, <1>8, <1>9, <1>10, <1>11, <1>12, <1>14, <1>15, SentKeeps

(* The jobs that ended are taken out; what has to run again is queued.     *)
LEMMA AskForJobsKeeps == WatchInv /\ AskForJobs => WatchInv'
<1> SUFFICES ASSUME WatchInv, AskForJobs PROVE WatchInv'
  OBVIOUS
<1>1. /\ UNCHANGED <<source, edits, base, observer, events, startup, resync, rebaseline, jobs, nextKey, dropped>>
      /\ poll.at = "jobs" /\ poll' \in {Resting, [at |-> "drain"]}
  BY DEF AskForJobs, disk, committed, service, watching
<1> PICK reached : CollectJobs(reached)
  BY DEF AskForJobs
<1> DEFINE A == {k \in InFlight \cap reached : Answered(k)}
           U == {k \in A : jobs[k].state = "absent"}
           D == {k \in A : jobs[k].state = "done"}
           Of(keys) == {inflight[k].path : k \in keys}
           Last(keys, p) == CHOOSE k \in keys : inflight[k].path = p
<1>2. /\ inflight \in [Key -> {Unset} \cup [path : Path, observed : Nat]]
      /\ intents \in [Path -> {Unset} \cup [key : Key, observed : Nat]]
      /\ snapshot \in [Path -> Nat] /\ queue \subseteq Path
      /\ Handled = {} /\ observer # "new" /\ Differs' = Differs /\ Differs \subseteq Path
  BY <1>1, PollTypesIs DEF WatchInv, WatchTypes, UpdateTypes, Differs
<1>3. /\ A \subseteq Key /\ U \subseteq A /\ D \subseteq A
      /\ \A k \in A : inflight[k] # Unset /\ inflight[k] \in [path : Path, observed : Nat]
      /\ \A k \in A : jobs[k].state \notin {"queued", "parsed", "committed"}
      /\ \A k \in U : jobs[k] = NoJob
      /\ \A k \in D : Committed(k)
  <2>1. \A k \in Key : jobs[k].state = "absent" => jobs[k] = NoJob
    BY DEF WatchInv, WatchTypes, JobTypes, Known
  <2> QED BY <1>2, <2>1 DEF InFlight, Answered, Committed
<1>4. \A k \in Key : inflight'[k] = IF k \in A THEN Unset ELSE inflight[k]
  BY DEF CollectJobs
<1>5. \A p \in Path : \/ intents'[p] = intents[p]
                      \/ /\ intents[p] = Unset
                         /\ \E k \in U : /\ inflight[k].path = p
                                         /\ intents'[p] = [key |-> k, observed |-> inflight[k].observed]
  <2> SUFFICES ASSUME NEW p \in Path, intents'[p] # intents[p]
               PROVE  /\ intents[p] = Unset
                      /\ \E k \in U : /\ inflight[k].path = p
                                      /\ intents'[p] = [key |-> k, observed |-> inflight[k].observed]
    OBVIOUS
  <2>1. intents'[p] = IF intents[p] = Unset /\ p \in Of(U)
                      THEN [key |-> Last(U, p), observed |-> inflight[Last(U, p)].observed] ELSE intents[p]
    BY DEF CollectJobs
  <2>2. intents[p] = Unset /\ p \in Of(U)
    BY <2>1
  <2>3. \E k \in U : inflight[k].path = p
    BY <2>2
  <2>4. Last(U, p) \in U /\ inflight[Last(U, p)].path = p
    BY <2>3
  <2> QED BY <2>1, <2>2, <2>4
<1>5a. \A p \in Path : \/ intents'[p] = intents[p]
                       \/ /\ intents[p] = Unset /\ intents'[p] \in [key : Key, observed : Nat]
                          /\ intents'[p].key \in U
                          /\ inflight[intents'[p].key].path = p
                          /\ intents'[p].observed = inflight[intents'[p].key].observed
  <2> SUFFICES ASSUME NEW p \in Path, intents'[p] # intents[p]
               PROVE  /\ intents[p] = Unset /\ intents'[p] \in [key : Key, observed : Nat]
                      /\ intents'[p].key \in U
                      /\ inflight[intents'[p].key].path = p
                      /\ intents'[p].observed = inflight[intents'[p].key].observed
    OBVIOUS
  <2> HIDE DEF U
  <2> PICK k \in U : inflight[k].path = p /\ intents'[p] = [key |-> k, observed |-> inflight[k].observed]
    BY <1>5
  <2>1. k \in Key /\ inflight[k].observed \in Nat
    BY <1>3
  <2> QED BY <1>5, <2>1
<1>6. \A p \in Path : \/ snapshot'[p] = snapshot[p]
                      \/ \E k \in D : inflight[k].path = p /\ snapshot'[p] = inflight[k].observed
  <2> SUFFICES ASSUME NEW p \in Path, snapshot'[p] # snapshot[p]
               PROVE  \E k \in D : inflight[k].path = p /\ snapshot'[p] = inflight[k].observed
    OBVIOUS
  <2>1. ~recovery
    BY DEF CollectJobs
  <2>2. snapshot'[p] = IF p \in Of(D) THEN inflight[Last(D, p)].observed ELSE snapshot[p]
    BY <2>1 DEF CollectJobs
  <2>3. \E k \in D : inflight[k].path = p
    BY <2>2
  <2>4. Last(D, p) \in D /\ inflight[Last(D, p)].path = p
    BY <2>3
  <2> QED BY <2>2, <2>3, <2>4
<1>7. /\ queue \subseteq queue' /\ queue' \subseteq Path
      /\ \A k \in A : Requeued(k) => inflight[k].path \in queue'
      /\ ambiguous' \subseteq Path
  <2>1. queue' = queue \cup Of({k \in A : Requeued(k)}) /\ ambiguous' = ambiguous \cup Of(U)
    BY DEF CollectJobs
  <2> QED BY <1>2, <1>3, <2>1 DEF WatchInv, WatchTypes, UpdateTypes
<1> HIDE DEF A, U, D, Of, Last
<1>8. /\ snapshot' \in [Path -> Nat]
      /\ inflight' \in [Key -> {Unset} \cup [path : Path, observed : Nat]]
      /\ intents' \in [Path -> {Unset} \cup [key : Key, observed : Nat]]
  <2>1. snapshot' = [p \in Path |-> snapshot'[p]]
    <3>1. CASE recovery
      BY <1>2, <3>1 DEF CollectJobs
    <3>2. CASE ~recovery
      BY <3>2 DEF CollectJobs
    <3> QED BY <3>1, <3>2
  <2>2. inflight' = [k \in Key |-> inflight'[k]] /\ intents' = [p \in Path |-> intents'[p]]
    BY DEF CollectJobs
  <2>3. \A p \in Path : snapshot'[p] \in Nat
    BY <1>2, <1>3, <1>6
  <2>4. \A k \in Key : inflight'[k] \in {Unset} \cup [path : Path, observed : Nat]
    BY <1>2, <1>4
  <2>5. \A p \in Path : intents'[p] \in {Unset} \cup [key : Key, observed : Nat]
    BY <1>2, <1>3, <1>5a
  <2> QED BY <2>1, <2>2, <2>3, <2>4, <2>5
<1>9. WatchTypes'
  <2>1. JobTypes'
    BY <1>1 DEF WatchInv, WatchTypes, JobTypes
  <2>2. UpdateTypes'
    <3>1. \A k \in Key : jobs'[k] # NoJob \/ inflight'[k] # Unset => k < nextKey'
      BY <1>1, <1>3, <1>4 DEF WatchInv, WatchTypes, UpdateTypes
    <3>2. \A p \in Path : intents'[p] # Unset => intents'[p].key < nextKey'
      BY <1>1, <1>3, <1>5a DEF WatchInv, WatchTypes, UpdateTypes
    <3>3. nextKey' \in Nat \ {0}
      BY <1>1 DEF WatchInv, WatchTypes, UpdateTypes
    <3> QED BY <1>7, <1>8, <3>1, <3>2, <3>3 DEF UpdateTypes
  <2>3. PollTypes'
    BY <1>1 DEF PollTypes, Resting, Draining, Looping
  <2> QED BY <1>1, <1>7, <1>8, <2>1, <2>2, <2>3 DEF WatchInv, WatchTypes
<1>10. Handled' = {} /\ poll'.at \notin Looping
  BY <1>1 DEF Handled, Resting, Looping
<1>11. VersionsInv'
  <2>1. \A p \in Path : source[p] <= 1 + edits /\ snapshot'[p] <= source[p]
    BY <1>3, <1>6 DEF WatchInv, VersionsInv
  <2>2. \A p \in Path : intents'[p] # Unset => intents'[p].observed <= source[p]
    BY <1>3, <1>5a DEF WatchInv, VersionsInv
  <2>3. \A k \in Key : inflight'[k] # Unset => inflight'[k].observed <= source[inflight'[k].path]
    BY <1>4 DEF WatchInv, VersionsInv
  <2> QED BY <1>1, <1>10, <2>1, <2>2, <2>3 DEF VersionsInv
<1>12. KeysInv'
  <2>1. ASSUME NEW p \in Path, NEW q \in Path, intents'[p] # Unset, intents'[q] # Unset, p # q,
               intents'[q] = intents[q], intents'[p].key = intents'[q].key
        PROVE  FALSE
    <3>1. CASE intents'[p] = intents[p]
      BY <2>1, <3>1 DEF WatchInv, KeysInv
    <3>2. CASE intents'[p] # intents[p]
      <4> PICK k \in U : k = intents'[p].key
        BY <1>5a, <3>2
      <4> QED BY <1>3, <1>5a, <2>1, <3>2 DEF WatchInv, KeysInv
    <3> QED BY <3>1, <3>2
  <2>2. ASSUME NEW p \in Path, NEW q \in Path, intents'[p] # Unset, intents'[q] # Unset, p # q,
               intents'[q] # intents[q], intents'[p] # intents[p], intents'[p].key = intents'[q].key
        PROVE  FALSE
    <3>1. inflight[intents'[p].key].path = p /\ inflight[intents'[q].key].path = q
      BY <1>5a, <2>2
    <3> QED BY <2>2, <3>1
  <2>3. ASSUME NEW p \in Path, NEW l \in Key, intents'[p] # Unset, inflight'[l] # Unset, intents'[p].key = l
        PROVE  inflight'[l].path = p
    <3>1. l \notin A /\ inflight'[l] = inflight[l]
      BY <1>4, <2>3
    <3>2. intents'[p] = intents[p]
      BY <1>3, <1>5a, <2>3, <3>1
    <3> QED BY <2>3, <3>1, <3>2 DEF WatchInv, KeysInv
  <2>4. \A l \in Key : jobs'[l] # NoJob /\ inflight'[l] # Unset => jobs'[l].path = inflight'[l].path
    BY <1>1, <1>4 DEF WatchInv, KeysInv
  <2>5. ASSUME NEW p \in Path, intents'[p] # Unset, jobs[intents'[p].key] # NoJob
        PROVE  jobs[intents'[p].key].path = p
    <3>1. intents'[p] = intents[p]
      BY <1>3, <1>5a, <2>5
    <3> QED BY <2>5, <3>1 DEF WatchInv, KeysInv
  <2> QED BY <1>1, <2>1, <2>2, <2>3, <2>4, <2>5 DEF KeysInv
<1>13. OneJobEach'
  BY <1>4 DEF WatchInv, OneJobEach
<1>14. OneKeyEach'
  <2> SUFFICES ASSUME NEW p \in Path, intents'[p] # Unset, NEW l \in Key, inflight'[l] # Unset, inflight'[l].path = p
               PROVE  inflight'[l].observed # intents'[p].observed \/ intents'[p].key = l
    BY DEF OneKeyEach, WithIntent, InFlight
  <2>1. l \notin A /\ inflight'[l] = inflight[l]
    BY <1>4
  <2>2. CASE intents'[p] = intents[p]
    BY <2>1, <2>2 DEF WatchInv, OneKeyEach, WithIntent, InFlight
  <2>3. CASE intents'[p] # intents[p]
    <3> PICK k \in U : k = intents'[p].key
      BY <1>5a, <2>3
    <3>1. inflight[k].path = p /\ intents'[p].observed = inflight[k].observed
      BY <1>5a, <2>3
    <3> QED BY <1>3, <2>1, <3>1 DEF WatchInv, OneJobEach
  <2> QED BY <2>2, <2>3
<1>15. BroughtInv'
  <2>1. \A k \in Key : Committed(k)' <=> Committed(k)
    BY <1>1 DEF Committed
  <2>2. \A k \in Key : inflight'[k] # Unset /\ Committed(k)' /\ inflight'[k].observed = source'[inflight'[k].path]
                       => inflight'[k].path \notin Differs'
    BY <1>1, <1>2, <1>4, <2>1 DEF WatchInv, BroughtInv
  <2>3. \A p \in Path : intents'[p] # Unset /\ Committed(intents[p].key)' /\ intents'[p].observed = source'[p]
                        => p \notin Differs'
    <3> SUFFICES ASSUME NEW p \in Path, intents'[p] # Unset, Committed(intents[p].key)',
                        intents'[p].observed = source'[p]
                 PROVE  p \notin Differs'
      OBVIOUS
    <3> PICK k \in Key : k = intents'[p].key
      BY <1>8
    <3>1. Committed(k)
      BY <1>1 DEF Committed
    <3>2. k \notin U
      BY <1>3, <3>1 DEF Committed, NoJob
    <3>3. intents'[p] = intents[p]
      BY <1>5a, <3>2
    <3> QED BY <1>1, <1>2, <3>1, <3>3 DEF WatchInv, BroughtInv
  <2> QED BY <2>2, <2>3 DEF BroughtInv
<1>16. DrainedInv'
  BY <1>1, <1>2, <1>10 DEF DrainedInv
<1>17. CoveredInv'
  <2> SUFFICES ASSUME NEW p \in Differs PROVE Covered(p)'
    BY <1>2 DEF CoveredInv
  <2>1. Covered(p)
    BY DEF WatchInv, CoveredInv
  <2>2. ASSUME Waits(p) PROVE Waits(p)'
    <3>1. CASE p \in queue \cup dropped \/ resync \/ rebaseline
      BY <1>1, <1>7, <3>1 DEF Waits
    <3>2. CASE \E k \in Key : inflight[k] # Unset /\ ~Committed(k) /\ inflight[k].path = p
      <4> PICK k \in Key : inflight[k] # Unset /\ ~Committed(k) /\ inflight[k].path = p
        BY <3>2
      <4>1. CASE k \in A
        <5>1. Requeued(k)
          BY DEF Requeued, Committed
        <5> QED BY <1>7, <4>1, <5>1 DEF Waits
      <4>2. CASE k \notin A
        BY <1>1, <1>4, <4>2 DEF Waits, Committed
      <4> QED BY <4>1, <4>2
    <3> QED BY <1>2, <2>2, <3>1, <3>2 DEF Waits
  <2>3. ASSUME snapshot[p] # source[p] PROVE snapshot'[p] # source'[p]
    <3>1. CASE snapshot'[p] = snapshot[p]
      BY <1>1, <2>3, <3>1
    <3>2. ASSUME NEW k \in D, inflight[k].path = p, snapshot'[p] = inflight[k].observed
          PROVE  snapshot'[p] # source'[p]
      BY <1>1, <1>3, <3>2 DEF WatchInv, BroughtInv
    <3> QED BY <1>2, <1>6, <3>1, <3>2
  <2> QED BY <1>1, <1>10, <2>1, <2>2, <2>3 DEF Covered, Noticed, Recalled
<1> QED BY <1>9, <1>11, <1>12, <1>13, <1>14, <1>15, <1>16, <1>17 DEF WatchInv

-----------------------------------------------------------------------------
LEMMA SubmitKeeps == \A f \in Path : WatchInv /\ SubmitStep(f) => WatchInv'
BY DeferKeeps, AcceptUnchangedKeeps, SkipInFlightKeeps, IntendKeeps, SubmitAcceptedKeeps,
   SubmitRefusedKeeps, SubmitLostKeeps DEF SubmitStep

LEMMA PollKeeps == WatchInv /\ PollStep => WatchInv'
BY RebaseKeeps, BeginPollKeeps, AskForJobsKeeps, DrainKeeps, DrainedStepsKeep, PollEndsKeep, RescanKeeps,
   DecideKeeps, DeferKeeps, SubmitKeeps DEF PollStep

LEMMA WatchInductive == WatchSpec => []WatchInv
<1>1. WatchInv /\ [WatchNext]_watchVars => WatchInv'
  BY EditKeeps, DeliverKeeps, ObserverKeeps, PollKeeps, JobsKeep, OthersKeep DEF WatchNext
<1> QED BY InitWatch, <1>1, PTL DEF WatchSpec

(* A change is neither lost nor applied twice: a file that differs from    *)
(* the committed fingerprints waits somewhere for its update, unless the   *)
(* observer is gone or a poll that raised dropped it, and a retry carries  *)
(* the key of the submission it repeats.                                   *)
THEOREM ChangesAreKept == WatchSpec => []EachChangeOnce
<1>1. WatchInv => EachChangeOnce
  <2> SUFFICES ASSUME WatchInv PROVE EachChangeOnce
    OBVIOUS
  <2>1. ASSUME NEW p \in Differs
        PROVE  \/ p \in events \cup queue \cup Handled \cup startup \cup dropped
               \/ \E k \in InFlight : inflight[k].path = p
               \/ observer \in {"new", "dead", "none"} \/ resync \/ rebaseline
    <3>1. Covered(p)
      BY DEF WatchInv, CoveredInv
    <3> QED BY <3>1 DEF Covered, Noticed, Waits, InFlight
  <2> QED BY <2>1 DEF EachChangeOnce, NothingForgotten, WatchInv
<1> QED BY WatchInductive, <1>1, PTL

==============================================================================
