--------------------------- MODULE CanonicalServer ---------------------------
(***************************************************************************)
(* Canonical state of one repository: the committed generations on disk    *)
(* (live_state/store.py), the LIVE service that serves one of them and     *)
(* mutates it (live_state/ipc.py, live_state/runtime.py), and the writers  *)
(* outside of it: full analyses (api/facade.py) and the publication the    *)
(* Desktop makes at startup (ui/gui.py).                                   *)
(*                                                                         *)
(* The service has two threads: Service answers requests one by one, and   *)
(* Worker runs the queued mutations one by one.  They share the execution  *)
(* lock.  Whoever commits a generation holds the canonical writer lease,   *)
(* whose order of entry WriterLease is shown to keep; here it is `lease`   *)
(* and the single place `inLine`, entering and stepping out of the line    *)
(* being one step.                                                         *)
(***************************************************************************)
EXTENDS Naturals, Sequences, FiniteSets

CONSTANTS
    Analysis,       \* full analyses, each of which may run again
    Update,         \* idempotency keys of file updates
    Worker, Service, Desktop, NoOne,
    NoKey,          \* of a generation no job wrote
    Retention,      \* terminal jobs kept (_MUTATION_JOB_RETENTION)
    MaxRevision, MaxStarts, MaxJobs,    \* bounds
    AnalysesDie, ServiceDies, SavesFail, ReleasesFail   \* faults that occur

ASSUME ServerAssumption ==
    /\ Worker # Service
    /\ {Worker, Service, Desktop, NoOne} \cap Analysis = {}
    /\ Desktop \notin {Worker, Service, NoOne}
    /\ NoOne \notin {Worker, Service}
    /\ {Retention, MaxRevision, MaxStarts, MaxJobs} \subseteq Nat
    /\ {AnalysesDie, ServiceDies, SavesFail, ReleasesFail} \subseteq BOOLEAN

VARIABLES
    history,        \* the committed generations, by revision
    lease, inLine,  \* the canonical writer lease
    service,        \* what the service process does
    starts,         \* service instances so far
    loaded,         \* the generation a starting service read
    ram,            \* the generation LIVE serves: _revision and _state
    events,         \* revisions of the canonical events of this instance
    jobs, order,    \* _jobs, and the last queue order given
    fence,          \* _recovery_verification_fenced
    certificate,    \* _pending_recovery_certificate
    degraded,       \* _recovery_release_degraded
    execution,      \* _mutation_execution_lock
    pc,
    base,           \* previous_state of an update, by thread
    verdict,        \* what the work of a thread or an analysis came to
    goal,           \* the generation an analysis committed
    contact,        \* the service instance an analysis connected to
    cached,         \* the generation the Desktop read
    asked           \* a direct publish on its way to the service

disk == <<history, lease, inLine>>
server == <<service, starts, loaded, ram, events>>
queue == <<jobs, order>>
recovery == <<fence, certificate, degraded>>
threads == <<execution, base>>
clients == <<goal, contact, cached, asked>>
vars == <<disk, server, queue, recovery, threads, pc, verdict, clients>>

Thread == {Worker, Service}
Actor == Thread \cup Analysis \cup {Desktop}

(* A generation is known by its revision and its state_id, which a full    *)
(* analysis makes up and an update keeps: it is the revision of that       *)
(* analysis here.  NoState is a service without state.                     *)
Generation == [rev : 0 .. MaxRevision, sid : 0 .. MaxRevision]
NoGeneration == [rev |-> 0, sid |-> 0]
Key == Update \cup Generation

ASSUME KeyAssumption ==
    /\ Update \cap Generation = {}
    /\ NoKey \notin [start : 1 .. MaxStarts, order : 0 .. MaxJobs]

JobState == {"queued", "running", "completed", "failed", "cancelled"}
Job == [order : 1 .. MaxJobs, key : Key, state : JobState]
Commit == [sid : 1 .. MaxRevision, from : 0 .. MaxRevision,
           by : {NoKey} \cup [start : 1 .. MaxStarts, order : 0 .. MaxJobs]]
Point == {"idle", "line", "wait", "execute", "save", "install", "leave", "publish", "report",
          "admit", "compare", "analyse", "connect", "submit", "poll", "release"}
Verdict == {"none", "error", "conflict", "changed", "installed", "already",
            "pending", "success", "failed"}

Goto(x, point) == pc' = [pc EXCEPT ![x] = point]
Concludes(x, v) == verdict' = [verdict EXCEPT ![x] = v]

Init ==
    /\ history = <<>>
    /\ lease = NoOne /\ inLine = NoOne
    /\ service = "down" /\ starts = 0
    /\ loaded = NoGeneration /\ ram = NoGeneration
    /\ events = <<>>
    /\ jobs = {} /\ order = 0
    /\ fence = FALSE /\ certificate = NoGeneration /\ degraded = FALSE
    /\ execution = NoOne
    /\ pc = [x \in Actor |-> "idle"]
    /\ base = [t \in Thread |-> NoGeneration]
    /\ verdict = [x \in Thread \cup Analysis |-> "none"]
    /\ goal = [a \in Analysis |-> NoGeneration]
    /\ contact = [a \in Analysis |-> 0]
    /\ cached = NoGeneration /\ asked = NoGeneration

-----------------------------------------------------------------------------
(* The canonical writer lease.  A request without patience is refused when *)
(* somebody holds the lease or stands in line.                             *)

StandInLine(x) == inLine = NoOne /\ inLine' = x /\ UNCHANGED lease
Enter(x) == inLine = x /\ lease = NoOne /\ lease' = x /\ inLine' = NoOne
EnterAtOnce(x) == inLine = NoOne /\ lease = NoOne /\ lease' = x /\ UNCHANGED inLine
Without(who, x) == IF x \in who THEN NoOne ELSE x

-----------------------------------------------------------------------------
(* The store. *)

Committed == IF history = <<>> THEN NoGeneration
             ELSE [rev |-> Len(history), sid |-> history[Len(history)].sid]

(* Mutant of MayFollow: without the exact revision. *)
MayFollowAny(rev) == Len(history) < MaxRevision

(* The exact_revision a save asks for. *)
MayFollow(rev) == rev = Len(history) + 1

Record(sid, from, by) ==
    history' = Append(history, [sid |-> sid, from |-> from, by |-> by])

-----------------------------------------------------------------------------
(* CanonicalMutationCoordinator. *)

Live(j) == j.state \in {"queued", "running"}
JobOf(key) == {j \in jobs : j.key = key}
Running == {j \in jobs : j.state = "running"}

(* _prune_terminal_locked: the oldest terminal jobs go. *)
Pruned(js) ==
    LET younger(j) == {k \in js : ~ Live(k) /\ k.order > j.order}
    IN  {j \in js : Live(j) \/ Cardinality(younger(j)) < Retention}

(* submit, past the recovery fence. *)
Admit(key) ==
    IF JobOf(key) # {} THEN UNCHANGED queue
    ELSE /\ order < MaxJobs
         /\ order' = order + 1
         /\ jobs' = jobs \cup {[order |-> order + 1, key |-> key, state |-> "queued"]}

Answering == service = "serving" /\ pc[Service] = "idle"

SubmitUpdate(u) ==
    /\ Answering /\ ~ fence
    /\ JobOf(u) = {}
    /\ Admit(u)
    /\ UNCHANGED <<disk, server, recovery, threads, pc, verdict, clients>>

StartJob ==
    /\ service = "serving" /\ pc[Worker] = "idle"
    /\ \E j \in jobs :
        /\ j.state = "queued"
        /\ \A k \in jobs : k.state = "queued" => j.order <= k.order
        /\ jobs' = (jobs \ {j}) \cup {[j EXCEPT !.state = "running"]}
        /\ Goto(Worker, IF j.key \in Update THEN "line" ELSE "publish")
    /\ UNCHANGED <<disk, server, order, recovery, threads, verdict, clients>>

(* Mutant of Succeeds: whatever is no error. *)
SucceedsUnlessError(v) == v # "error"

Succeeds(v) == v \in {"installed", "already"}

(* The executor returned. *)
FinishJob ==
    /\ pc[Worker] = "report"
    /\ \E j \in Running :
        jobs' = Pruned((jobs \ {j}) \cup {[j EXCEPT !.state =
            IF Succeeds(verdict[Worker]) THEN "completed" ELSE "failed"]})
    /\ Goto(Worker, "idle")
    /\ Concludes(Worker, "none")
    /\ UNCHANGED <<disk, server, order, recovery, threads, clients>>

-----------------------------------------------------------------------------
(* _execute_update_file, by the worker or, directly, by the service thread.*)

(* _repository_mutation_guard of a queued update waits, until the service  *)
(* stops; that of a direct one does not.                                   *)
WorkerLine ==
    /\ pc[Worker] = "line" /\ service = "serving"
    /\ StandInLine(Worker)
    /\ Goto(Worker, "wait")
    /\ UNCHANGED <<history, server, queue, recovery, threads, verdict, clients>>

WorkerEnter ==
    /\ pc[Worker] = "wait" /\ service = "serving"
    /\ Enter(Worker)
    /\ Goto(Worker, "execute")
    /\ UNCHANGED <<history, server, queue, recovery, threads, verdict, clients>>

WorkerStopped ==
    /\ pc[Worker] \in {"line", "wait"} /\ service = "stopped"
    /\ inLine' = Without({Worker}, inLine)
    /\ Goto(Worker, "report")
    /\ Concludes(Worker, "error")
    /\ UNCHANGED <<history, lease, server, queue, recovery, threads, clients>>

DirectUpdate ==
    /\ Answering
    /\ EnterAtOnce(Service)
    /\ Goto(Service, "execute")
    /\ UNCHANGED <<history, server, queue, recovery, threads, verdict, clients>>

Quit(t, v) == Goto(t, "leave") /\ Concludes(t, v)

Execute(t) ==
    /\ pc[t] = "execute" /\ execution = NoOne
    /\ IF ram.sid = 0 \/ (t = Service /\ fence)
       THEN Quit(t, "error") /\ UNCHANGED threads
       ELSE /\ execution' = t
            /\ base' = [base EXCEPT ![t] = ram]
            /\ Goto(t, "save")
            /\ UNCHANGED verdict
    /\ UNCHANGED <<disk, server, queue, recovery, clients>>

(* Who writes a generation: a job of this instance, or none. *)
Author(t) == [start |-> starts, order |-> IF t = Worker THEN
                  (CHOOSE j \in Running : TRUE).order ELSE 0]

Conflicts(t) == ~ MayFollow(base[t].rev + 1)

SaveConflict(t) ==
    /\ pc[t] = "save"
    /\ Conflicts(t)
    /\ execution' = NoOne
    /\ Quit(t, "conflict")
    /\ UNCHANGED <<disk, server, queue, recovery, base, clients>>

(* The updater or the store fails, before its metadata is replaced, as     *)
(* every save does at the bound.                                           *)
SaveFails(t) ==
    /\ SavesFail \/ Len(history) = MaxRevision
    /\ pc[t] = "save"
    /\ execution' = NoOne
    /\ Quit(t, "error")
    /\ UNCHANGED <<disk, server, queue, recovery, base, clients>>

(* The state_id is that of the FileState the updater found on disk. *)
Save(t) ==
    /\ pc[t] = "save"
    /\ MayFollow(base[t].rev + 1) /\ Len(history) < MaxRevision
    /\ Record(Committed.sid, base[t].rev, Author(t))
    /\ Goto(t, "install")
    /\ UNCHANGED <<lease, inLine, server, queue, recovery, threads, verdict, clients>>

Install(t) ==
    LET rev == base[t].rev + 1 IN
    /\ pc[t] = "install"
    /\ execution' = NoOne
    /\ IF ram = base[t]
       THEN /\ ram' = [rev |-> rev, sid |-> history[rev].sid]
            /\ events' = Append(events, rev)
            /\ Quit(t, "installed")
       ELSE UNCHANGED <<ram, events>> /\ Quit(t, "changed")
    /\ UNCHANGED <<disk, service, starts, loaded, queue, recovery, base, clients>>

Leave(t) ==
    /\ pc[t] = "leave"
    /\ lease' = Without({t}, lease)
    /\ base' = [base EXCEPT ![t] = NoGeneration]
    /\ IF t = Worker THEN Goto(t, "report") /\ UNCHANGED verdict
       ELSE Goto(t, "idle") /\ Concludes(t, "none")
    /\ UNCHANGED <<history, inLine, server, queue, recovery, execution, clients>>

-----------------------------------------------------------------------------
(* _execute_publish and _execute_committed_publish, under the execution    *)
(* lock, the state lock and the lock of the store: one step.               *)

(* Mutants of Answer: an installed generation is installed again; only the *)
(* next one is.                                                            *)
AnswerAgain(g) == IF ~ fence /\ g = Committed /\ g.rev >= ram.rev THEN "installed" ELSE "error"
AnswerNextOnly(g) == IF ~ fence /\ g = Committed /\ g.rev = ram.rev + 1 THEN "installed" ELSE "error"

Answer(g) ==
    LET current == ~ fence /\ g = Committed /\ g # NoGeneration
    IN  CASE current /\ g.rev > ram.rev -> "installed"
          [] current /\ g = ram -> "already"
          [] OTHER -> "error"

Publish(g) ==
    IF Answer(g) = "installed"
    THEN ram' = g /\ events' = Append(events, g.rev)
    ELSE UNCHANGED <<ram, events>>

WorkerPublish ==
    /\ pc[Worker] = "publish" /\ execution = NoOne
    /\ \E j \in Running :
        /\ Publish(j.key)
        /\ Concludes(Worker, Answer(j.key))
    /\ Goto(Worker, "report")
    /\ UNCHANGED <<disk, service, starts, loaded, queue, recovery, threads, clients>>

DirectPublish ==
    /\ Answering /\ execution = NoOne
    /\ asked # NoGeneration
    /\ Publish(asked)
    /\ asked' = NoGeneration
    /\ UNCHANGED <<disk, service, starts, loaded, queue, recovery, threads, pc, verdict,
                   goal, contact, cached>>

-----------------------------------------------------------------------------
(* Recovery verification: the queue is fenced, the writer lease taken, the *)
(* served generation compared with the durable one, and both kept frozen   *)
(* until the certificate ends.                                             *)

(* Mutant of Drained: a running job is not waited for. *)
DrainedOfQueued == \A j \in jobs : j.state # "queued"

(* begin_recovery_verification with no patience. *)
Drained == \A j \in jobs : ~ Live(j)

VerifyFence ==
    /\ Answering /\ ~ fence /\ Drained
    /\ fence' = TRUE
    /\ Goto(Service, "admit")
    /\ UNCHANGED <<disk, server, queue, certificate, degraded, threads, verdict, clients>>

VerifyAdmit ==
    /\ pc[Service] = "admit"
    /\ EnterAtOnce(Service)
    /\ Goto(Service, "compare")
    /\ UNCHANGED <<history, server, queue, recovery, threads, verdict, clients>>

(* Mutant of VerifyRefused: the fence is left behind. *)
VerifyRefusedFenced ==
    /\ pc[Service] = "admit"
    /\ inLine # NoOne \/ lease # NoOne
    /\ Goto(Service, "idle")
    /\ UNCHANGED <<disk, server, queue, recovery, threads, verdict, clients>>

VerifyRefused ==
    /\ pc[Service] = "admit"
    /\ inLine # NoOne \/ lease # NoOne
    /\ fence' = FALSE
    /\ Goto(Service, "idle")
    /\ UNCHANGED <<disk, server, queue, certificate, degraded, threads, verdict, clients>>

(* _finalize_recovery_certificate, whatever its reason, and the end of a   *)
(* verification that found a difference.  When the release raises, the     *)
(* lock may be gone or not, and the fence stays for good.                  *)
EndFence ==
    \/ /\ lease' = Without({Service}, lease)
       /\ fence' = FALSE /\ certificate' = NoGeneration
       /\ UNCHANGED degraded
    \/ /\ ReleasesFail
       /\ lease' \in {lease, NoOne}
       /\ degraded' = TRUE
       /\ UNCHANGED <<fence, certificate>>

Agrees == ram.sid # 0 /\ ram = Committed

VerifyCompare ==
    /\ pc[Service] = "compare" /\ execution = NoOne
    /\ \/ /\ Agrees
          /\ certificate' = Committed
          /\ UNCHANGED <<lease, fence, degraded>>
       \/ ~ Agrees /\ EndFence
    /\ Goto(Service, "idle")
    /\ UNCHANGED <<history, inLine, server, queue, threads, verdict, clients>>

(* Completed, cancelled or expired. *)
Finalize ==
    /\ Answering
    /\ certificate # NoGeneration /\ ~ degraded
    /\ EndFence
    /\ UNCHANGED <<history, inLine, server, queue, threads, pc, verdict, clients>>

-----------------------------------------------------------------------------
(* run_service, from the loading of the snapshot on. *)

Load ==
    /\ service = "down" /\ starts < MaxStarts
    /\ service' = "loading" /\ starts' = starts + 1
    /\ loaded' = Committed
    /\ UNCHANGED <<disk, ram, events, queue, recovery, threads, pc, verdict, clients>>

(* Mutant of Parity: the constructor trusts its caller. *)
ParityAssumed == TRUE

(* The revision is read again; the constructor refuses another one than    *)
(* the state's, but takes any when there is no state.                      *)
Parity == loaded.sid = 0 \/ loaded.rev = Len(history)

Serve ==
    /\ service = "loading"
    /\ IF Parity
       THEN service' = "serving" /\ ram' = [rev |-> Len(history), sid |-> loaded.sid]
       ELSE service' = "down" /\ UNCHANGED ram
    /\ loaded' = NoGeneration
    /\ UNCHANGED <<disk, starts, events, queue, recovery, threads, pc, verdict, clients>>

(* CanonicalLiveServer.close: queued jobs are cancelled, a certificate is  *)
(* finalized; the running job goes on, and nobody is answered any more.    *)
Close ==
    /\ Answering
    /\ service' = "stopped"
    /\ jobs' = Pruned({IF j.state = "queued" THEN [j EXCEPT !.state = "cancelled"] ELSE j : j \in jobs})
    /\ IF certificate # NoGeneration /\ ~ degraded THEN EndFence
       ELSE UNCHANGED <<lease, recovery>>
    /\ UNCHANGED <<history, inLine, starts, loaded, ram, events, order, threads, pc, verdict, clients>>

(* The process ends, having been closed or not, at any point. *)
Perish ==
    /\ service # "down"
    /\ service = "stopped" \/ ServiceDies
    /\ service' = "down"
    /\ lease' = Without(Thread, lease) /\ inLine' = Without(Thread, inLine)
    /\ loaded' = NoGeneration /\ ram' = NoGeneration /\ events' = <<>>
    /\ jobs' = {} /\ order' = 0
    /\ fence' = FALSE /\ certificate' = NoGeneration /\ degraded' = FALSE
    /\ execution' = NoOne
    /\ base' = [t \in Thread |-> NoGeneration]
    /\ pc' = [x \in Actor |-> IF x \in Thread THEN "idle" ELSE pc[x]]
    /\ verdict' = [x \in DOMAIN verdict |-> IF x \in Thread THEN "none" ELSE verdict[x]]
    /\ asked' = NoGeneration
    /\ UNCHANGED <<history, starts, goal, contact, cached>>

-----------------------------------------------------------------------------
(* A full analysis: run_full_analysis_exclusive holds the lease from       *)
(* before it reads the sources until its publication is settled.           *)

Request(a) ==
    /\ pc[a] = "idle" /\ Len(history) < MaxRevision
    /\ StandInLine(a)
    /\ Goto(a, "wait")
    /\ UNCHANGED <<history, server, queue, recovery, threads, verdict, clients>>

AnalysisEnter(a) ==
    /\ pc[a] = "wait"
    /\ Enter(a)
    /\ Goto(a, "analyse")
    /\ UNCHANGED <<history, server, queue, recovery, threads, verdict, clients>>

CommitAnalysis(a) ==
    /\ pc[a] = "analyse" /\ Len(history) < MaxRevision
    /\ Record(Len(history) + 1, 0, NoKey)
    /\ goal' = [goal EXCEPT ![a] = [rev |-> Len(history) + 1, sid |-> Len(history) + 1]]
    /\ Goto(a, "connect")
    /\ UNCHANGED <<lease, inLine, server, queue, recovery, threads, verdict, contact, cached, asked>>

(* The analysis or its save fails, or it is cancelled. *)
AnalysisFails(a) ==
    /\ pc[a] = "analyse"
    /\ Goto(a, "release")
    /\ UNCHANGED <<disk, server, queue, recovery, threads, verdict, clients>>

Connect(a) ==
    /\ pc[a] = "connect"
    /\ IF service = "serving"
       THEN /\ contact' = [contact EXCEPT ![a] = starts]
            /\ Goto(a, "submit")
       ELSE Goto(a, "release") /\ UNCHANGED contact
    /\ UNCHANGED <<disk, server, queue, recovery, threads, verdict, goal, cached, asked>>

Settle(a, v) == Concludes(a, v) /\ Goto(a, "release")
Reaches(a) == service = "serving" /\ contact[a] = starts

(* publish_committed_and_wait: a lost answer is followed by the same       *)
(* request, and then by a lookup of the same key.                          *)
SubmitPublish(a) ==
    /\ pc[a] = "submit" /\ Reaches(a) /\ Answering
    /\ IF fence THEN Settle(a, "failed") /\ UNCHANGED queue
       ELSE /\ Admit(goal[a])
            /\ pc' \in {pc, [pc EXCEPT ![a] = "poll"]}
            /\ UNCHANGED verdict
    /\ UNCHANGED <<disk, server, recovery, threads, clients>>

(* Mutant of Outcome: an accepted publication is a success. *)
OutcomeOfAdmission(j) == IF j.state \in {"failed", "cancelled"} THEN "failed" ELSE "success"

(* classify_publication_receipt. *)
Outcome(j) ==
    CASE Live(j) -> "pending"
      [] j.state = "completed" -> "success"
      [] j.state \in {"failed", "cancelled"} -> "failed"

Poll(a) ==
    /\ pc[a] = "poll" /\ Reaches(a) /\ Answering
    /\ \E j \in JobOf(goal[a]) : Outcome(j) # "pending" /\ Settle(a, Outcome(j))
    /\ UNCHANGED <<disk, server, queue, recovery, threads, clients>>

(* Mutant of Unconfirmed: an analysis waits as long as the service runs. *)
UnconfirmedIfGone(a) ==
    /\ pc[a] \in {"submit", "poll"}
    /\ ~ Reaches(a)
    /\ Settle(a, "pending")
    /\ UNCHANGED <<disk, server, queue, recovery, threads, clients>>

(* The service is gone, or CONFIRMATION_SECONDS have passed while the job  *)
(* was not known to have ended.                                            *)
Unconfirmed(a) ==
    /\ pc[a] \in {"submit", "poll"}
    /\ ~ Reaches(a) \/ \A j \in JobOf(goal[a]) : Live(j)
    /\ Settle(a, "pending")
    /\ UNCHANGED <<disk, server, queue, recovery, threads, clients>>

(* Its locals are forgotten. *)
Return(a) ==
    /\ Goto(a, "idle") /\ Concludes(a, "none")
    /\ goal' = [goal EXCEPT ![a] = NoGeneration]
    /\ contact' = [contact EXCEPT ![a] = 0]
    /\ lease' = Without({a}, lease)
    /\ UNCHANGED <<history, server, queue, recovery, threads, cached, asked>>

Release(a) == pc[a] = "release" /\ Return(a) /\ UNCHANGED inLine

AnalysisDies(a) ==
    /\ AnalysesDie /\ pc[a] # "idle"
    /\ inLine' = Without({a}, inLine)
    /\ Return(a)

-----------------------------------------------------------------------------
(* _start_live_watcher_blocking of the Desktop: the cached generation it   *)
(* read, when LIVE serves another one, is published under the lease.  The  *)
(* request may outlive the patience of the client.                         *)

DesktopRead ==
    /\ pc[Desktop] = "idle" /\ service = "serving"
    /\ Committed # NoGeneration
    /\ cached' = Committed
    /\ Goto(Desktop, "compare")
    /\ UNCHANGED <<disk, server, queue, recovery, threads, verdict, goal, contact, asked>>

DesktopCompare ==
    /\ pc[Desktop] = "compare"
    /\ IF Answering /\ cached.rev # ram.rev
       THEN Goto(Desktop, "admit") /\ UNCHANGED cached
       ELSE Goto(Desktop, "idle") /\ cached' = NoGeneration
    /\ UNCHANGED <<disk, server, queue, recovery, threads, verdict, goal, contact, asked>>

DesktopEnter ==
    /\ pc[Desktop] = "admit"
    /\ EnterAtOnce(Desktop)
    /\ Goto(Desktop, "publish")
    /\ UNCHANGED <<history, server, queue, recovery, threads, verdict, clients>>

DesktopSkips ==
    /\ pc[Desktop] = "admit"
    /\ inLine # NoOne \/ lease # NoOne
    /\ cached' = NoGeneration
    /\ Goto(Desktop, "idle")
    /\ UNCHANGED <<disk, server, queue, recovery, threads, verdict, goal, contact, asked>>

DesktopPublish ==
    /\ pc[Desktop] = "publish"
    /\ asked' = IF service = "serving" THEN cached ELSE NoGeneration
    /\ cached' = NoGeneration
    /\ Goto(Desktop, "release")
    /\ UNCHANGED <<disk, server, queue, recovery, threads, verdict, goal, contact>>

DesktopRelease ==
    /\ pc[Desktop] = "release"
    /\ lease' = Without({Desktop}, lease)
    /\ Goto(Desktop, "idle")
    /\ UNCHANGED <<history, inLine, server, queue, recovery, threads, verdict, clients>>

-----------------------------------------------------------------------------
ThreadStep(t) == Execute(t) \/ SaveConflict(t) \/ SaveFails(t) \/ Save(t) \/ Install(t) \/ Leave(t)

WorkerStep ==
    \/ StartJob \/ WorkerLine \/ WorkerEnter \/ WorkerStopped \/ WorkerPublish \/ FinishJob
    \/ ThreadStep(Worker)

ServiceStep ==
    \/ DirectUpdate \/ DirectPublish \/ VerifyFence \/ VerifyAdmit \/ VerifyRefused
    \/ VerifyCompare \/ Finalize \/ Load \/ Serve \/ Close \/ Perish
    \/ ThreadStep(Service)
    \/ \E u \in Update : SubmitUpdate(u)

Settling(a) == SubmitPublish(a) \/ Poll(a) \/ Unconfirmed(a) \/ Release(a)

AnalysisStep(a) ==
    \/ Request(a) \/ AnalysisEnter(a) \/ CommitAnalysis(a) \/ AnalysisFails(a) \/ Connect(a)
    \/ Settling(a) \/ AnalysisDies(a)

DesktopStep ==
    DesktopRead \/ DesktopCompare \/ DesktopEnter \/ DesktopSkips \/ DesktopPublish \/ DesktopRelease

Next == WorkerStep \/ ServiceStep \/ DesktopStep \/ \E a \in Analysis : AnalysisStep(a)

Spec == Init /\ [][Next]_vars

(* Threads that hold or await something go on; nothing new has to come.    *)
(* Polling and Lock.acquire serve no order, but direct updates and full    *)
(* analyses are requested by people: between two of them the worker finds  *)
(* the line and the execution lock free.                                   *)
FairSpec ==
    /\ Spec
    /\ WF_vars(WorkerStep) /\ SF_vars(WorkerLine) /\ SF_vars(WorkerPublish)
    /\ WF_vars(ThreadStep(Service) \/ VerifyAdmit \/ VerifyRefused \/ VerifyCompare)
    /\ WF_vars(Finalize)
    /\ \A a \in Analysis :
        /\ WF_vars(AnalysisEnter(a)) /\ WF_vars(CommitAnalysis(a) \/ AnalysisFails(a))
        /\ WF_vars(Connect(a)) /\ WF_vars(Settling(a))
    /\ WF_vars(DesktopCompare \/ DesktopEnter \/ DesktopSkips \/ DesktopPublish \/ DesktopRelease)

-----------------------------------------------------------------------------
(* Every variable has its type. *)
TypeOK ==
    /\ history \in Seq(Commit) /\ Len(history) <= MaxRevision
    /\ lease \in Actor \cup {NoOne} /\ inLine \in Actor \cup {NoOne}
    /\ service \in {"down", "loading", "serving", "stopped"}
    /\ starts \in 0 .. MaxStarts
    /\ loaded \in Generation /\ ram \in Generation
    /\ events \in Seq(1 .. MaxRevision)
    /\ jobs \subseteq Job /\ order \in 0 .. MaxJobs
    /\ fence \in BOOLEAN /\ certificate \in Generation /\ degraded \in BOOLEAN
    /\ execution \in Thread \cup {NoOne}
    /\ pc \in [Actor -> Point]
    /\ base \in [Thread -> Generation]
    /\ verdict \in [Thread \cup Analysis -> Verdict]
    /\ goal \in [Analysis -> Generation]
    /\ contact \in [Analysis -> 0 .. MaxStarts]
    /\ cached \in Generation /\ asked \in Generation

(* Who holds the writer lease.  A release that raised leaves it with the   *)
(* service, or with nobody.                                                *)
HoldsLease(x) ==
    \/ x \in Thread /\ pc[x] \in {"execute", "save", "install", "leave"}
    \/ x = Service /\ (pc[x] = "compare" \/ (certificate # NoGeneration /\ ~ degraded))
    \/ x \in Analysis /\ pc[x] \in {"analyse", "connect", "submit", "poll", "release"}
    \/ x = Desktop /\ pc[x] \in {"publish", "release"}

(* Every actor that needs the lease has it, nobody else does, and no path  *)
(* through failure, refusal or expiry leaves it behind.                    *)
LeaseAccounted ==
    \A x \in Actor :
        /\ HoldsLease(x) => lease = x
        /\ lease = x => HoldsLease(x) \/ (x = Service /\ degraded)
        /\ inLine = x <=> pc[x] = "wait"

(* LIVE never serves what is not durable: the state and the revision it    *)
(* installed are those of one committed generation.                        *)
ServedIsDurable ==
    ram.sid # 0 => ram.rev \in 1 .. Len(history) /\ ram.sid = history[ram.rev].sid

(* The canonical events of an instance have rising revisions, and the last *)
(* one announces what LIVE serves.                                         *)
JournalRises ==
    /\ \A i \in 1 .. Len(events) - 1 : events[i] < events[i + 1]
    /\ events # <<>> => ram.rev = events[Len(events)]

(* As long as a certificate stands, the generation it names is the durable *)
(* one and the one LIVE serves, and nobody else may write.                 *)
CertifiedFrozen ==
    certificate # NoGeneration /\ ~ degraded =>
        certificate = ram /\ certificate = Committed /\ lease = Service

(* While the queue is fenced no mutation waits or runs, and none is let in.*)
FencedIsQuiet == fence => \A j \in jobs : j.state \notin {"queued", "running"}

(* A job that is told to have failed left no generation behind; one told   *)
(* to have completed left its one, which LIVE serves or served.            *)
JobsTellTheTruth ==
    \A j \in jobs : ~ Live(j) /\ j.key \in Update =>
        LET written == {r \in 1 .. Len(history) :
                          history[r].by = [start |-> starts, order |-> j.order]}
        IN  IF j.state = "completed" THEN \E r \in written : r <= ram.rev
            ELSE written = {}

(* An analysis told that its publication succeeded finds, for as long as   *)
(* it keeps the lease, its generation served and durable.                  *)
ConfirmedIsServed ==
    \A a \in Analysis : pc[a] = "release" /\ verdict[a] = "success" /\ Reaches(a) =>
        goal[a] = ram /\ goal[a] = Committed

(* An update that was accepted is not lost to a full analysis: it resumes  *)
(* after it.                                                               *)
QueuedUpdatesResume == verdict[Worker] # "conflict"

Log == INSTANCE CanonicalLog WITH
    log <- [r \in 1 .. Len(history) |-> history[r].from],
    live <- IF ram.sid = 0 THEN 0 ELSE ram.rev

(* LIVE moves forward along the committed generations, and no update ever  *)
(* replaces the work of a generation it was not derived from.              *)
ImplementsLog == Log!Spec

(* Every accepted mutation ends, whoever holds the lease it waits for.     *)
JobsEnd == \A u \in Update : (\E j \in JobOf(u) : Live(j)) ~> (\A j \in JobOf(u) : ~ Live(j))

(* The fence of a recovery verification falls, or is stuck by the failing  *)
(* release of the lease.                                                   *)
FenceEnds == fence ~> ~ fence \/ degraded

(* Nobody is kept waiting for ever: neither the client of an accepted      *)
(* mutation nor, behind a fence, those that are not admitted (ipc.py, _run, *)
(* _finish_recovery_verification).                                         *)
WaitsEnd == JobsEnd /\ FenceEnds

(* A publication that was accepted is served, even when the analysis no    *)
(* longer waits for it, unless the service ends or a later generation is   *)
(* committed first.                                                        *)
PublicationServed ==
    \A r \in 1 .. MaxRevision :
        (\E j \in jobs : j.key \notin Update /\ j.key.rev = r /\ Live(j))
            ~> (ram.rev >= r \/ service # "serving" \/ Len(history) > r)
=============================================================================
