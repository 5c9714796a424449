----------------------------- MODULE WriterLease -----------------------------
(***************************************************************************)
(* The canonical writer lease of one repository,                           *)
(* contextor/core/analysis/full_analysis_lease.py: full analyses, queued   *)
(* and direct LIVE mutations, the Desktop startup publish, local MCP       *)
(* updates and scoped analyses all write under it.                         *)
(*                                                                         *)
(* Four locks are taken in a fixed order by polling: the admission gate    *)
(* of the process and of the repository, then the writer lock of the       *)
(* process and of the repository.  The two repository locks are locks of   *)
(* the operating system on open files, which end with the process, unless  *)
(* a stale handle survives it (full_analysis_lease.py:40).  A writer keeps *)
(* the gate while it waits, and gives it up once it has the lease.         *)
(***************************************************************************)
EXTENDS FiniteSets

CONSTANTS
    Writer,         \* threads that acquire the lease, again and again
    Process,        \* processes; a restarted process is another one
    ProcessOf,      \* the process of each thread
    NoOne,
    Stuck,          \* holder of a lock whose handle outlived its process
    Unverifiable,   \* processes whose executable cannot be read
    HandlesSurvive  \* whether a lock handle may survive its process

ASSUME LeaseAssumption ==
    /\ ProcessOf \in [Writer -> Process]
    /\ NoOne \notin Writer \cup Process
    /\ Stuck \notin Writer \cup {NoOne}
    /\ Unverifiable \subseteq Process
    /\ HandlesSurvive \in BOOLEAN

VARIABLES
    admission,  \* _ADMISSION_LOCKS of each process
    gate,       \* the OS lock on canonical_writer.admission.lock
    local,      \* _PROCESS_LOCKS of each process
    lease,      \* the OS lock on full_analysis.lock
    metadata,   \* the process the lease metadata names
    alive,      \* the processes that run
    pc,
    outcome,    \* what the present request of a thread came to
    bounded,    \* whether the request has a deadline
    cancelled   \* what is_cancelled() answers

locks == <<admission, gate, local, lease>>
vars == <<locks, metadata, alive, pc, outcome, bounded, cancelled>>

Waiting == {"admission", "gate", "local", "lease"}
Points == Waiting \cup {"idle", "record", "leaveGate", "leaveAdmission",
                        "held", "leaveLocal", "dead"}

(* Points at which a thread owns each of the four locks. *)
Granted(t) == pc[t] \in {"leaveGate", "leaveAdmission"} /\ outcome[t] = "granted"
Refused(t) == pc[t] = "leaveLocal" /\ outcome[t] \in {"refused", "failed"}
OwnsGate(t) == pc[t] \in {"local", "lease", "record", "leaveGate"} \/ Refused(t)
OwnsAdmission(t) == OwnsGate(t) \/ pc[t] \in {"gate", "leaveAdmission"}
OwnsLocal(t) == pc[t] \in {"lease", "record", "held", "leaveLocal"} \/ Granted(t)
OwnsLease(t) == pc[t] \in {"record", "held"} \/ Granted(t)

Goto(t, point) == pc' = [pc EXCEPT ![t] = point]
Result(t, res) == outcome' = [outcome EXCEPT ![t] = res]

Init ==
    /\ admission = [p \in Process |-> NoOne]
    /\ gate = NoOne
    /\ local = [p \in Process |-> NoOne]
    /\ lease = NoOne
    /\ metadata = NoOne
    /\ alive = Process
    /\ pc = [t \in Writer |-> "idle"]
    /\ outcome = [t \in Writer |-> "none"]
    /\ bounded = [t \in Writer |-> FALSE]
    /\ cancelled = [t \in Writer |-> FALSE]

-----------------------------------------------------------------------------
(* acquire_full_analysis, with or without a timeout. *)

Request(t) ==
    /\ pc[t] = "idle"
    /\ \E b \in BOOLEAN : bounded' = [bounded EXCEPT ![t] = b]
    /\ cancelled' = [cancelled EXCEPT ![t] = FALSE]
    /\ Result(t, "none")
    /\ Goto(t, "admission")
    /\ UNCHANGED <<locks, metadata, alive>>

Cancel(t) ==
    /\ pc[t] \in Waiting /\ ~ cancelled[t]
    /\ cancelled' = [cancelled EXCEPT ![t] = TRUE]
    /\ UNCHANGED <<locks, metadata, alive, pc, outcome, bounded>>

(* _lease_owner_state, from the metadata. *)
OwnerState ==
    CASE metadata = NoOne -> "unknown"
      [] metadata # NoOne /\ metadata \notin alive -> "orphaned"
      [] metadata \in alive /\ metadata \in Unverifiable -> "unknown"
      [] OTHER -> "active"

(* _try_lock_fd, and Lock.acquire of a process lock. *)
Free(lock) == lock = NoOne

TakeAdmission(t) ==
    /\ pc[t] = "admission"
    /\ Free(admission[ProcessOf[t]])
    /\ admission' = [admission EXCEPT ![ProcessOf[t]] = t]
    /\ Goto(t, "gate")
    /\ UNCHANGED <<gate, local, lease, metadata, alive, outcome, bounded, cancelled>>

(* Mutant of TakeGate: a shared lock. *)
TakeGateShared(t) ==
    /\ pc[t] = "gate"
    /\ gate' = t
    /\ Goto(t, "local")
    /\ UNCHANGED <<admission, local, lease, metadata, alive, outcome, bounded, cancelled>>

TakeGate(t) ==
    /\ pc[t] = "gate"
    /\ Free(gate)
    /\ gate' = t
    /\ Goto(t, "local")
    /\ UNCHANGED <<admission, local, lease, metadata, alive, outcome, bounded, cancelled>>

TakeLocal(t) ==
    /\ pc[t] = "local"
    /\ Free(local[ProcessOf[t]])
    /\ local' = [local EXCEPT ![ProcessOf[t]] = t]
    /\ Goto(t, "lease")
    /\ UNCHANGED <<admission, gate, lease, metadata, alive, outcome, bounded, cancelled>>

TakeLease(t) ==
    /\ pc[t] = "lease"
    /\ Free(lease)
    /\ lease' = t
    /\ Goto(t, "record")
    /\ UNCHANGED <<admission, gate, local, metadata, alive, outcome, bounded, cancelled>>

OwnerRecord(t) == ProcessOf[t]

(* The metadata names the owner; the lock stays the authority. *)
WriteMetadata(t) ==
    /\ pc[t] = "record"
    /\ metadata' = OwnerRecord(t)
    /\ Result(t, "granted")
    /\ Goto(t, "leaveGate")
    /\ UNCHANGED <<locks, alive, bounded, cancelled>>

-----------------------------------------------------------------------------
(* Ways out of the waiting loops. *)

(* Mutants of Impatient: no bound on an orphan; whoever owns it is not awaited. *)
ImpatientIfUnknown(t) == OwnerState = "unknown" /\ \A u \in Writer : pc[u] # "record"
ImpatientAlways(t) == \A u \in Writer : pc[u] # "record"

(* ORPHAN_RECOVERY_TIMEOUT_SECONDS without a verified owner; it is longer *)
(* than the time a new owner takes to write its metadata.                  *)
Impatient(t) == OwnerState # "active" /\ \A u \in Writer : pc[u] # "record"

MayGiveUp(t) ==
    \/ cancelled[t]
    \/ bounded[t]
    \/ pc[t] = "lease" /\ lease # NoOne /\ Impatient(t)

(* AnalysisCancelled or FullAnalysisBusyError: what was taken is given back, *)
(* innermost first.                                                           *)
GiveUp(t) ==
    /\ pc[t] \in Waiting
    /\ MayGiveUp(t)
    /\ Result(t, "refused")
    /\ Goto(t, CASE pc[t] = "admission" -> "idle"
                 [] pc[t] = "gate" -> "leaveAdmission"
                 [] pc[t] = "local" -> "leaveGate"
                 [] pc[t] = "lease" -> "leaveLocal")
    /\ UNCHANGED <<locks, metadata, alive, bounded, cancelled>>

(* OSError from a lock file or from writing the metadata into it. *)
Fail(t) ==
    /\ pc[t] \in {"gate", "lease", "record"}
    /\ lease' = IF pc[t] = "record" THEN NoOne ELSE lease
    /\ Result(t, "failed")
    /\ Goto(t, IF pc[t] = "gate" THEN "leaveAdmission" ELSE "leaveLocal")
    /\ UNCHANGED <<admission, gate, local, metadata, alive, bounded, cancelled>>

LeaveGate(t) ==
    /\ pc[t] = "leaveGate"
    /\ gate' = NoOne
    /\ Goto(t, "leaveAdmission")
    /\ UNCHANGED <<admission, local, lease, metadata, alive, outcome, bounded, cancelled>>

LeaveAdmission(t) ==
    /\ pc[t] = "leaveAdmission"
    /\ admission' = [admission EXCEPT ![ProcessOf[t]] = NoOne]
    /\ Goto(t, IF outcome[t] = "granted" THEN "held" ELSE "idle")
    /\ UNCHANGED <<gate, local, lease, metadata, alive, outcome, bounded, cancelled>>

-----------------------------------------------------------------------------
(* release_full_analysis. *)

Unlock(t) ==
    /\ pc[t] = "held"
    /\ lease' = NoOne
    /\ Result(t, "none")
    /\ Goto(t, "leaveLocal")
    /\ UNCHANGED <<admission, gate, local, metadata, alive, bounded, cancelled>>

(* Mutant of NextAfterLocal: a failed acquisition returns without its finally. *)
NextAfterLocalIdle(t) == "idle"

(* A request that failed still holds the gate; a release does not. *)
NextAfterLocal(t) == IF Refused(t) THEN "leaveGate" ELSE "idle"

LeaveLocal(t) ==
    /\ pc[t] = "leaveLocal"
    /\ local' = [local EXCEPT ![ProcessOf[t]] = NoOne]
    /\ Goto(t, NextAfterLocal(t))
    /\ UNCHANGED <<admission, gate, lease, metadata, alive, outcome, bounded, cancelled>>

(* A process dies with all its threads; the system closes its handles. *)
Dying(p) == {t \in Writer : ProcessOf[t] = p}
AfterDeath(lock, p) ==
    IF lock \notin Dying(p) THEN {lock}
    ELSE IF HandlesSurvive THEN {NoOne, Stuck} ELSE {NoOne}

Crash(p) ==
    /\ p \in alive
    /\ alive' = alive \ {p}
    /\ pc' = [t \in Writer |-> IF t \in Dying(p) THEN "dead" ELSE pc[t]]
    /\ gate' \in AfterDeath(gate, p)
    /\ lease' \in AfterDeath(lease, p)
    /\ admission' = [admission EXCEPT ![p] = NoOne]
    /\ local' = [local EXCEPT ![p] = NoOne]
    /\ UNCHANGED <<metadata, outcome, bounded, cancelled>>

-----------------------------------------------------------------------------
(* What a thread does of its own accord once it has asked for the lease. *)
Proceed(t) ==
    \/ TakeAdmission(t) \/ TakeGate(t) \/ TakeLocal(t) \/ TakeLease(t)
    \/ WriteMetadata(t) \/ LeaveGate(t) \/ LeaveAdmission(t)
    \/ GiveUp(t) \/ Unlock(t) \/ LeaveLocal(t)

Next ==
    \/ \E t \in Writer : Request(t) \/ Cancel(t) \/ Fail(t) \/ Proceed(t)
    \/ \E p \in Process : Crash(p)

Spec == Init /\ [][Next]_vars

(* Every thread polls, and every writer's work under the lease ends.  No *)
(* lock is granted in order, so no strong fairness.                        *)
FairSpec == Spec /\ \A t \in Writer : WF_vars(Proceed(t))

-----------------------------------------------------------------------------
Holder == Writer \cup {NoOne, Stuck}

(* Types of the locks, the metadata and every thread's locals. *)
TypeOK ==
    /\ admission \in [Process -> Writer \cup {NoOne}]
    /\ gate \in Holder
    /\ local \in [Process -> Writer \cup {NoOne}]
    /\ lease \in Holder
    /\ metadata \in Process \cup {NoOne}
    /\ alive \subseteq Process
    /\ pc \in [Writer -> Points]
    /\ outcome \in [Writer -> {"none", "granted", "refused", "failed"}]
    /\ bounded \in [Writer -> BOOLEAN]
    /\ cancelled \in [Writer -> BOOLEAN]

(* No path out of acquire_full_analysis or release_full_analysis leaks a    *)
(* lock or gives one back twice: each of the four is owned exactly by the  *)
(* thread whose program point says so (the finally and except clauses of   *)
(* _canonical_writer_admission and acquire_full_analysis).                 *)
NoLockLeaks ==
    \A t \in Writer :
        /\ admission[ProcessOf[t]] = t <=> OwnsAdmission(t)
        /\ gate = t <=> OwnsGate(t)
        /\ local[ProcessOf[t]] = t <=> OwnsLocal(t)
        /\ lease = t <=> OwnsLease(t)

(* "Guarantees single-writer execution across Desktop, MCP, and CLI" *)
(* (full_analysis_coordinator.py:55), whatever crashes or fails.      *)
OneWriter == \A t, u \in Writer : OwnsLease(t) /\ OwnsLease(u) => t = u

(* A waiting full analysis runs before every mutation that asks later, in   *)
(* any process: whoever passed the gate is not overtaken (the admission    *)
(* gate around acquire_full_analysis).                                     *)
NotOvertaken ==
    [][\A t, u \in Writer :
        pc[t] \in {"local", "lease"} /\ OwnsLease(u)' => OwnsLease(u) \/ u = t]_vars

(* The metadata is only diagnostic, yet it decides when a waiter gives up:  *)
(* without deadline or cancellation nobody gives up on a live owner whose   *)
(* identity can be verified (the waiting loop of acquire_full_analysis).    *)
VerifiedOwnerAwaited ==
    [][\A t \in Writer :
        /\ pc[t] = "lease" /\ outcome'[t] = "refused"
        /\ ~ bounded[t] /\ ~ cancelled[t]
        => lease = Stuck \/ ProcessOf[lease] \in Unverifiable]_vars

(* With polling alone the gate saves its holder from starvation: later       *)
(* requests cannot take the lease again and again before it does.           *)
GateHolderServed ==
    \A t \in Writer :
        pc[t] = "lease" /\ lease # Stuck ~> pc[t] # "lease" \/ lease = Stuck

(* "prevents an orphan diagnostic from turning into an unbounded wait"       *)
(* (full_analysis_lease.py:40): a lock that survived its process does not   *)
(* hold up a waiter for ever once the metadata names a dead process.         *)
OrphanWaitEnds ==
    \A t \in Writer :
        pc[t] = "lease" /\ lease = Stuck /\ OwnerState = "orphaned"
            ~> pc[t] # "lease" \/ OwnerState # "orphaned"

(* A request with a deadline comes back, whoever holds what. *)
BoundedRequestEnds ==
    \A t \in Writer : pc[t] \in Waiting /\ bounded[t] ~> pc[t] \notin Waiting

Order == INSTANCE WriterOrder WITH holder <- lease, next <- gate

(* The four locks together are a lease with one place next in line. *)
ImplementsOrder == Order!Spec
=============================================================================
