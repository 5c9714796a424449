------------------------ MODULE CanonicalServerProofs ------------------------
(***************************************************************************)
(* Theorems about CanonicalServer.                                         *)
(***************************************************************************)
EXTENDS CanonicalServer, SequenceTheorems, TLAPS

(* Where each actor can be. *)
PointsInv ==
    /\ pc[Worker] \in {"idle", "line", "wait", "execute", "save", "install", "leave",
                       "publish", "report"}
    /\ pc[Service] \in {"idle", "execute", "save", "install", "leave", "admit", "compare"}
    /\ \A a \in Analysis : pc[a] \in {"idle", "wait", "analyse", "connect", "submit",
                                      "poll", "release"}
    /\ pc[Desktop] \in {"idle", "compare", "admit", "publish", "release"}

(* A service that does not serve yet has done nothing. *)
AsleepInv ==
    /\ service # "down" => starts > 0
    /\ service \in {"down", "loading"} =>
        /\ \A t \in Thread : pc[t] = "idle"
        /\ jobs = {} /\ execution = NoOne
        /\ ~ fence /\ ~ degraded /\ certificate = NoGeneration
        /\ events = <<>> /\ ram = NoGeneration

(* The worker runs one job at a time. *)
RunningInv ==
    /\ \A j, k \in Running : j = k
    /\ pc[Worker] # "idle" <=> Running # {}

Durable(g) == g.sid # 0 => g.rev \in 1 .. Len(history) /\ g.sid = history[g.rev].sid

DurableInv == Durable(ram) /\ Durable(loaded)

(* The execution lock keeps LIVE as the update found it, and the writer    *)
(* lease keeps the generation it has saved the last one.                   *)
ExecutionInv ==
    \A t \in Thread :
        /\ pc[t] \in {"save", "install"} <=> execution = t
        /\ execution = t => base[t] = ram /\ ram.sid # 0
        /\ pc[t] = "install" =>
            /\ Len(history) = base[t].rev + 1
            /\ history[Len(history)].sid = base[t].sid

(* How fence, certificate and the service thread go together. *)
RecoveryInv ==
    /\ certificate # NoGeneration \/ degraded => fence
    /\ pc[Service] \in {"admit", "compare"} =>
        fence /\ ~ degraded /\ certificate = NoGeneration
    /\ fence /\ ~ degraded /\ certificate = NoGeneration =>
        pc[Service] \in {"admit", "compare"}
    /\ pc[Service] \in {"save", "install"} => ~ fence
    /\ pc[Service] \in {"execute", "leave"} => ~ fence \/ degraded

(* An analysis knows what it committed, which stays the last generation as *)
(* long as the analysis has the lease, and it has no verdict before one is *)
(* passed.                                                                 *)
GoalInv ==
    \A a \in Analysis :
        /\ pc[a] \in {"connect", "submit", "poll"} => goal[a].sid # 0
        /\ pc[a] \in {"idle", "wait", "analyse"} => goal[a] = NoGeneration
        /\ goal[a] # NoGeneration => goal[a] = Committed
        /\ pc[a] # "release" => verdict[a] = "none"
        /\ verdict[a] = "success" => goal[a].sid # 0
        /\ contact[a] <= starts
        /\ service = "loading" => contact[a] < starts

Reached(g) == ram.sid # 0 /\ g.rev <= ram.rev

(* What a publication job came to, from the worker to the analysis. *)
ReceiptInv ==
    /\ \A j \in Running :
        /\ j.key \notin Update => pc[Worker] \in {"publish", "report"}
        /\ pc[Worker] = "publish" => j.key \notin Update
        /\ j.key \notin Update /\ pc[Worker] = "report" /\ Succeeds(verdict[Worker]) =>
            Reached(j.key)
    /\ \A j \in jobs : j.key \notin Update /\ j.state = "completed" => Reached(j.key)
    /\ \A a \in Analysis : verdict[a] = "success" /\ Reaches(a) => Reached(goal[a])

IInv ==
    /\ TypeOK /\ PointsInv /\ AsleepInv /\ RunningInv /\ LeaseAccounted
    /\ DurableInv /\ ExecutionInv /\ RecoveryInv
    /\ FencedIsQuiet /\ JournalRises /\ CertifiedFrozen
    /\ GoalInv /\ ReceiptInv

LEMMA InitInv == Init => IInv
<1> SUFFICES ASSUME Init PROVE IInv
  OBVIOUS
<1> USE ServerAssumption DEF Init, Thread, Actor, Generation, NoGeneration
<1>1. TypeOK
  <2>1. fence \in BOOLEAN /\ degraded \in BOOLEAN
    OBVIOUS
  <2>2. /\ pc \in [Actor -> Point] /\ verdict \in [Thread \cup Analysis -> Verdict]
        /\ base \in [Thread -> Generation] /\ goal \in [Analysis -> Generation]
        /\ contact \in [Analysis -> 0 .. MaxStarts]
    BY DEF Point, Verdict
  <2>3. history \in Seq(Commit) /\ Len(history) <= MaxRevision /\ events \in Seq(1 .. MaxRevision)
    OBVIOUS
  <2> QED
    BY <2>1, <2>2, <2>3 DEF TypeOK
<1>2. PointsInv /\ AsleepInv /\ RunningInv /\ LeaseAccounted
  BY DEF PointsInv, AsleepInv, RunningInv, LeaseAccounted, Running, HoldsLease
<1>3. DurableInv /\ ExecutionInv /\ RecoveryInv
  BY DEF DurableInv, Durable, ExecutionInv, RecoveryInv
<1>4. FencedIsQuiet /\ JournalRises /\ CertifiedFrozen
  BY DEF FencedIsQuiet, JournalRises, CertifiedFrozen
<1>5. GoalInv /\ ReceiptInv
  BY DEF GoalInv, ReceiptInv, Running
<1> QED
  BY <1>1, <1>2, <1>3, <1>4, <1>5 DEF IInv

(* The bounds, the names of points and verdicts, and the types of what the *)
(* actions read and write: facts for the leaves below.                     *)
LEMMA Bounds ==
    MaxRevision \in Nat /\ MaxStarts \in Nat /\ MaxJobs \in Nat /\ Retention \in Nat
  BY ServerAssumption

LEMMA PointNames ==
    /\ "idle" \in Point /\ "line" \in Point /\ "wait" \in Point /\ "execute" \in Point
    /\ "save" \in Point /\ "install" \in Point /\ "leave" \in Point /\ "publish" \in Point
    /\ "report" \in Point /\ "admit" \in Point /\ "compare" \in Point /\ "analyse" \in Point
    /\ "connect" \in Point /\ "submit" \in Point /\ "poll" \in Point /\ "release" \in Point
  BY DEF Point

LEMMA VerdictNames ==
    /\ "none" \in Verdict /\ "error" \in Verdict /\ "conflict" \in Verdict
    /\ "changed" \in Verdict /\ "installed" \in Verdict /\ "already" \in Verdict
    /\ "pending" \in Verdict /\ "success" \in Verdict /\ "failed" \in Verdict
  BY DEF Verdict

LEMMA HistoryType ==
  ASSUME TypeOK
  PROVE  /\ Len(history) \in 0 .. MaxRevision
         /\ \A i \in 1 .. Len(history) : history[i].sid \in 1 .. MaxRevision
<1>1. Len(history) \in Nat
  BY DEF TypeOK
<1>2. ASSUME NEW i \in 1 .. Len(history)
      PROVE  history[i].sid \in 1 .. MaxRevision
  <2>1. history[i] \in Commit
    BY DEF TypeOK
  <2> QED
    BY <2>1 DEF Commit
<1> QED
  BY <1>1, <1>2, Bounds DEF TypeOK

LEMMA GotoType ==
  ASSUME TypeOK
  PROVE  \A x \in Actor, p \in Point : Goto(x, p) => pc' \in [Actor -> Point]
  BY DEF TypeOK, Goto

LEMMA ConcludesType ==
  ASSUME TypeOK
  PROVE  \A x \in Thread \cup Analysis, v \in Verdict :
           Concludes(x, v) => verdict' \in [Thread \cup Analysis -> Verdict]
  BY DEF TypeOK, Concludes

LEMMA GenerationType ==
  ASSUME TypeOK
  PROVE  NoGeneration \in Generation /\ Committed \in Generation
<1>1. NoGeneration \in Generation
  BY ServerAssumption DEF NoGeneration, Generation
<1>2. CASE history # <<>>
  <2>1. Len(history) \in 1 .. Len(history)
    BY <1>2 DEF TypeOK
  <2>2. history[Len(history)].sid \in 0 .. MaxRevision
    BY <2>1, HistoryType, Bounds
  <2> QED
    BY <1>1, <1>2, <2>2, HistoryType DEF Committed, Generation
<1> QED
  BY <1>1, <1>2 DEF Committed

(* Whatever ends a recovery verification. *)
LEMMA EndFenceType ==
  ASSUME TypeOK, EndFence
  PROVE  /\ lease' \in Actor \cup {NoOne} /\ fence' \in BOOLEAN
         /\ certificate' \in Generation /\ degraded' \in BOOLEAN
<1>1. CASE lease' = Without({Service}, lease) /\ fence' = FALSE /\ certificate' = NoGeneration
           /\ UNCHANGED degraded
  <2>1. fence' \in BOOLEAN
    BY <1>1
  <2>2. degraded' \in BOOLEAN
    BY <1>1 DEF TypeOK
  <2>3. lease' \in Actor \cup {NoOne} /\ certificate' \in Generation
    BY <1>1, GenerationType DEF TypeOK, Without
  <2> QED
    BY <2>1, <2>2, <2>3
<1>2. CASE ReleasesFail /\ lease' \in {lease, NoOne} /\ degraded' = TRUE
           /\ UNCHANGED <<fence, certificate>>
  <2>1. degraded' \in BOOLEAN
    BY <1>2
  <2>2. fence' \in BOOLEAN
    BY <1>2 DEF TypeOK
  <2>3. lease' \in Actor \cup {NoOne} /\ certificate' \in Generation
    BY <1>2 DEF TypeOK
  <2> QED
    BY <2>1, <2>2, <2>3
<1> QED
  BY <1>1, <1>2 DEF EndFence

(* Installing a generation. *)
LEMMA PublishType ==
  ASSUME TypeOK, NEW g, Publish(g)
  PROVE  ram' \in Generation /\ events' \in Seq(1 .. MaxRevision)
<1>1. CASE Answer(g) = "installed"
  <2>1. g = Committed /\ g.rev > ram.rev
    BY <1>1 DEF Answer
  <2>2. g.rev \in 1 .. MaxRevision
    <3>1. Committed.rev \in 0 .. MaxRevision /\ ram.rev \in 0 .. MaxRevision
      BY GenerationType DEF TypeOK, Generation
    <3> QED
      BY <2>1, <3>1, Bounds
  <2>3. ram' = g /\ events' = Append(events, g.rev)
    BY <1>1 DEF Publish
  <2> QED
    BY <2>1, <2>2, <2>3, GenerationType DEF TypeOK
<1>2. CASE Answer(g) # "installed"
  BY <1>2 DEF Publish, TypeOK
<1> QED
  BY <1>1, <1>2

LEMMA TypeStep == IInv /\ [Next]_vars => TypeOK'
<1> SUFFICES ASSUME IInv, [Next]_vars
             PROVE  TypeOK'
  OBVIOUS
<1>0. TypeOK /\ RunningInv /\ AsleepInv /\ ExecutionInv /\ DurableInv
  BY DEF IInv
<1> USE <1>0, GotoType, ConcludesType, GenerationType, PointNames, VerdictNames
    DEF Thread, Actor, disk, server, queue, recovery, threads, clients
<1>1. CASE UNCHANGED vars
  BY <1>1 DEF vars, TypeOK
<1>2. ASSUME StartJob
      PROVE TypeOK'
  <2>1. PICK j \in jobs :
          /\ jobs' = (jobs \ {j}) \cup {[j EXCEPT !.state = "running"]}
          /\ Goto(Worker, IF j.key \in Update THEN "line" ELSE "publish")
    BY <1>2 DEF StartJob
  <2>2. jobs' \subseteq Job
    BY <2>1 DEF Job, JobState, TypeOK
  <2>3. pc' \in [Actor -> Point]
    BY <2>1 DEF Point
  <2> QED
    BY <1>2, <2>2, <2>3 DEF StartJob, TypeOK
<1>3. ASSUME WorkerLine \/ WorkerEnter \/ WorkerStopped
      PROVE TypeOK'
  BY <1>3 DEF WorkerLine, WorkerEnter, WorkerStopped, StandInLine, Enter, Without, TypeOK
<1>4. ASSUME FinishJob
      PROVE TypeOK'
  <2>1. PICK j \in Running :
          jobs' = Pruned((jobs \ {j}) \cup {[j EXCEPT !.state =
                    IF Succeeds(verdict[Worker]) THEN "completed" ELSE "failed"]})
    BY <1>4 DEF FinishJob
  <2>2. jobs' \subseteq (jobs \ {j}) \cup {[j EXCEPT !.state =
                    IF Succeeds(verdict[Worker]) THEN "completed" ELSE "failed"]}
    BY <2>1 DEF Pruned
  <2>3. jobs' \subseteq Job
    BY <2>1, <2>2, ZenonT(40) DEF Running, Job, JobState, TypeOK
  <2>4. /\ Goto(Worker, "idle") /\ Concludes(Worker, "none")
        /\ UNCHANGED <<disk, server, order, recovery, threads, clients>>
    BY <1>4 DEF FinishJob
  <2>5. pc' \in [Actor -> Point] /\ verdict' \in [Thread \cup Analysis -> Verdict]
    BY <2>4
  <2> QED
    BY <2>3, <2>4, <2>5 DEF TypeOK
<1>5. ASSUME NEW u \in Update, SubmitUpdate(u)
      PROVE  TypeOK'
  <2>1. jobs' \subseteq Job /\ order' \in 0 .. MaxJobs
    BY <1>5, Bounds, SMTT(40) DEF SubmitUpdate, Admit, JobOf, JobState, Job, Key, TypeOK
  <2> QED
    BY <1>5, <2>1 DEF SubmitUpdate, TypeOK
<1>6. ASSUME NEW t \in Thread, Execute(t) \/ SaveConflict(t) \/ SaveFails(t) \/ Leave(t)
      PROVE  TypeOK'
  <2> USE DEF TypeOK, Quit
  <2>1. CASE Execute(t)
    BY <2>1, ZenonT(40) DEF Execute
  <2>2. CASE SaveConflict(t) \/ SaveFails(t)
    BY <2>2 DEF SaveConflict, SaveFails
  <2>3. CASE Leave(t)
    BY <2>3, ZenonT(40) DEF Leave, Without
  <2> QED
    BY <1>6, <2>1, <2>2, <2>3
<1>7. ASSUME NEW t \in Thread, Save(t)
      PROVE  TypeOK'
  <2>1. base[t].rev = Len(history) /\ Committed.sid \in 1 .. MaxRevision
    <3>0. base[t].rev \in Nat
      BY Bounds, SMTT(40) DEF TypeOK, Generation
    <3>1. Len(history) = base[t].rev /\ base[t] = ram /\ ram.sid # 0
      BY <1>7, <3>0, HistoryType DEF Save, MayFollow, ExecutionInv
    <3>2. Len(history) \in 1 .. Len(history)
      BY <3>1 DEF DurableInv, Durable
    <3> QED
      BY <3>1, <3>2, HistoryType DEF Committed
  <2>2. Author(t) \in [start : 1 .. MaxStarts, order : 0 .. MaxJobs]
    <3>1. starts \in 1 .. MaxStarts
      BY <1>7, Bounds DEF Save, AsleepInv, TypeOK
    <3>2. CASE t = Worker
      <4>1. (CHOOSE j \in Running : TRUE) \in Running
        BY <1>7, <3>2 DEF Save, RunningInv
      <4>2. (CHOOSE j \in Running : TRUE).order \in 0 .. MaxJobs
        BY <4>1, Bounds DEF Running, TypeOK, Job
      <4> QED
        BY <3>1, <3>2, <4>2 DEF Author
    <3>3. CASE t # Worker
      BY <3>1, <3>3, Bounds DEF Author
    <3> QED
      BY <3>2, <3>3
  <2>3. history' \in Seq(Commit) /\ Len(history') <= MaxRevision
    <3>1. [sid |-> Committed.sid, from |-> base[t].rev, by |-> Author(t)] \in Commit
      BY <2>1, <2>2, Bounds DEF Commit, TypeOK
    <3> QED
      BY <1>7, <3>1, Bounds DEF Save, Record, TypeOK
  <2> QED
    BY <1>7, <2>3, ZenonT(40) DEF Save, TypeOK
<1>8. ASSUME NEW t \in Thread, Install(t)
      PROVE  TypeOK'
  <2>1. base[t].rev + 1 \in 1 .. Len(history) /\ base[t].rev + 1 \in 0 .. MaxRevision
    <3>1. base[t].rev \in Nat
      BY Bounds, SMTT(40) DEF TypeOK, Generation
    <3>2. Len(history) = base[t].rev + 1
      BY <1>8 DEF Install, ExecutionInv
    <3> QED
      BY <3>1, <3>2, HistoryType
  <2>2. ram' \in Generation /\ events' \in Seq(1 .. MaxRevision)
    <3>1. history[base[t].rev + 1].sid \in 0 .. MaxRevision
      BY <2>1, HistoryType, Bounds
    <3>2. [rev |-> base[t].rev + 1, sid |-> history[base[t].rev + 1].sid] \in Generation
      BY <2>1, <3>1 DEF Generation
    <3> QED
      <4>1. base[t].rev + 1 \in 1 .. MaxRevision
        BY <2>1, HistoryType, Bounds
      <4>2. CASE ram = base[t]
        <5>1. /\ ram' = [rev |-> base[t].rev + 1, sid |-> history[base[t].rev + 1].sid]
              /\ events' = Append(events, base[t].rev + 1)
          BY <1>8, <4>2 DEF Install
        <5>2. events' \in Seq(1 .. MaxRevision)
          BY <5>1, <4>1 DEF TypeOK
        <5> QED
          BY <5>1, <5>2, <3>2
      <4>3. CASE ram # base[t]
        BY <1>8, <4>3 DEF Install, TypeOK
      <4> QED
        BY <4>2, <4>3
  <2>3. pc' \in [Actor -> Point] /\ verdict' \in [Thread \cup Analysis -> Verdict]
    BY <1>8 DEF Install, Quit
  <2> QED
    BY <1>8, <2>2, <2>3, ZenonT(40) DEF Install, TypeOK
<1>9. ASSUME DirectUpdate \/ VerifyFence \/ VerifyAdmit \/ VerifyRefused \/ Load
      PROVE  TypeOK'
  <2> USE DEF TypeOK
  <2>1. CASE DirectUpdate
    BY <2>1 DEF DirectUpdate, EnterAtOnce
  <2>2. CASE VerifyFence
    BY <2>2, ZenonT(40) DEF VerifyFence
  <2>3. CASE VerifyAdmit
    BY <2>3 DEF VerifyAdmit, EnterAtOnce
  <2>4. CASE VerifyRefused
    BY <2>4, ZenonT(40) DEF VerifyRefused
  <2>5. CASE Load
    <3>1. starts' \in 0 .. MaxStarts
      BY <2>5, Bounds DEF Load
    <3> QED
      BY <2>5, <3>1 DEF Load
  <2> QED
    BY <1>9, <2>1, <2>2, <2>3, <2>4, <2>5
<1>10. ASSUME WorkerPublish
      PROVE  TypeOK'
  <2>1. PICK j \in Running : Publish(j.key) /\ Concludes(Worker, Answer(j.key))
    BY <1>10 DEF WorkerPublish
  <2>2. ram' \in Generation /\ events' \in Seq(1 .. MaxRevision)
    BY <2>1, PublishType
  <2>3. verdict' \in [Thread \cup Analysis -> Verdict]
    BY <2>1 DEF Answer
  <2>4. /\ Goto(Worker, "report")
        /\ UNCHANGED <<disk, service, starts, loaded, queue, recovery, threads, clients>>
    BY <1>10 DEF WorkerPublish
  <2> QED
    BY <2>2, <2>3, <2>4, ZenonT(40) DEF TypeOK
<1>11. ASSUME DirectPublish
      PROVE  TypeOK'
  <2>1. ram' \in Generation /\ events' \in Seq(1 .. MaxRevision)
    BY <1>11, PublishType DEF DirectPublish
  <2> QED
    BY <1>11, <2>1 DEF DirectPublish, TypeOK
<1>12. ASSUME VerifyCompare
      PROVE  TypeOK'
  <2>1. CASE Agrees /\ certificate' = Committed /\ UNCHANGED <<lease, fence, degraded>>
    BY <1>12, <2>1, ZenonT(40) DEF VerifyCompare, TypeOK
  <2>2. CASE EndFence
    BY <1>12, <2>2, EndFenceType DEF VerifyCompare, TypeOK
  <2> QED
    BY <1>12, <2>1, <2>2 DEF VerifyCompare
<1>13. ASSUME Finalize
      PROVE  TypeOK'
  BY <1>13, EndFenceType DEF Finalize, TypeOK
<1>14. ASSUME Serve
      PROVE  TypeOK'
  <2>1. [rev |-> Len(history), sid |-> loaded.sid] \in Generation
    BY HistoryType DEF TypeOK, Generation
  <2>2. ram' \in Generation /\ service' \in {"down", "loading", "serving", "stopped"}
    BY <1>14, <2>1 DEF Serve, TypeOK
  <2> QED
    BY <1>14, <2>2 DEF Serve, TypeOK
<1>15. ASSUME Close
      PROVE  TypeOK'
  <2>1. jobs' \subseteq {IF j.state = "queued" THEN [j EXCEPT !.state = "cancelled"] ELSE j : j \in jobs}
    BY <1>15 DEF Close, Pruned
  <2>2. jobs' \subseteq Job
    <3>1. ASSUME NEW j \in jobs
          PROVE  [j EXCEPT !.state = "cancelled"] \in Job
      BY DEF Job, JobState, TypeOK
    <3> QED
      BY <2>1, <3>1 DEF TypeOK
  <2>3. CASE EndFence
    BY <1>15, <2>2, <2>3, EndFenceType DEF Close, TypeOK
  <2>4. CASE UNCHANGED <<lease, recovery>>
    BY <1>15, <2>2, <2>4 DEF Close, TypeOK
  <2> QED
    BY <1>15, <2>3, <2>4 DEF Close
<1>16. ASSUME Perish
      PROVE  TypeOK'
  <2>1. /\ lease' \in Actor \cup {NoOne} /\ inLine' \in Actor \cup {NoOne}
        /\ pc' \in [Actor -> Point] /\ verdict' \in [Thread \cup Analysis -> Verdict]
        /\ base' \in [Thread -> Generation]
    BY <1>16 DEF Perish, Without, TypeOK
  <2>2. fence' \in BOOLEAN /\ degraded' \in BOOLEAN
    BY <1>16 DEF Perish
  <2> QED
    BY <1>16, <2>1, <2>2, Bounds DEF Perish, TypeOK
<1>17. ASSUME NEW a \in Analysis, Request(a) \/ AnalysisEnter(a) \/ AnalysisFails(a) \/ Connect(a)
      PROVE  TypeOK'
  <2> USE DEF TypeOK
  <2>1. CASE Request(a)
    BY <2>1 DEF Request, StandInLine
  <2>2. CASE AnalysisEnter(a)
    BY <2>2 DEF AnalysisEnter, Enter
  <2>3. CASE AnalysisFails(a)
    BY <2>3, SMTT(40) DEF AnalysisFails
  <2>4. CASE Connect(a)
    BY <2>4 DEF Connect
  <2> QED
    BY <1>17, <2>1, <2>2, <2>3, <2>4
<1>18. ASSUME NEW a \in Analysis, CommitAnalysis(a)
      PROVE  TypeOK'
  <2>1. history' \in Seq(Commit) /\ Len(history') <= MaxRevision
    <3>1. [sid |-> Len(history) + 1, from |-> 0, by |-> NoKey] \in Commit
      BY <1>18, Bounds, SMTT(40) DEF CommitAnalysis, Commit, TypeOK
    <3> QED
      BY <1>18, <3>1, Bounds DEF CommitAnalysis, Record, TypeOK
  <2>2. goal' \in [Analysis -> Generation]
    <3>1. [rev |-> Len(history) + 1, sid |-> Len(history) + 1] \in Generation
      BY <1>18, HistoryType, Bounds DEF CommitAnalysis, Generation
    <3> QED
      BY <1>18, <3>1 DEF CommitAnalysis, TypeOK
  <2>3. pc' \in [Actor -> Point]
    BY <1>18 DEF CommitAnalysis
  <2> QED
    BY <1>18, <2>1, <2>2, <2>3 DEF CommitAnalysis, TypeOK
<1>19. ASSUME NEW a \in Analysis, SubmitPublish(a)
      PROVE  TypeOK'
  <2>1. CASE fence
    <3>1. /\ Goto(a, "release") /\ Concludes(a, "failed")
          /\ UNCHANGED <<disk, server, queue, recovery, threads, clients>>
      BY <1>19, <2>1 DEF SubmitPublish, Settle
    <3>2. pc' \in [Actor -> Point] /\ verdict' \in [Thread \cup Analysis -> Verdict]
      BY <3>1
    <3> QED
      BY <3>1, <3>2 DEF TypeOK
  <2>2. CASE ~ fence
    <3>1. jobs' \subseteq Job /\ order' \in 0 .. MaxJobs
      BY <1>19, <2>2, Bounds, SMTT(40)
      DEF SubmitPublish, Admit, JobOf, JobState, Job, Key, TypeOK
    <3>2. pc' \in [Actor -> Point]
      BY <1>19, <2>2 DEF SubmitPublish, TypeOK
    <3> QED
      BY <1>19, <2>2, <3>1, <3>2 DEF SubmitPublish, TypeOK
  <2> QED
    BY <2>1, <2>2
<1>20. ASSUME NEW a \in Analysis, Poll(a) \/ Unconfirmed(a)
      PROVE  TypeOK'
  <2>1. CASE Poll(a)
    <3>1. PICK j \in JobOf(goal[a]) : Outcome(j) # "pending" /\ Settle(a, Outcome(j))
      BY <2>1 DEF Poll
    <3>2. Outcome(j) \in Verdict
      BY <3>1 DEF Outcome, JobOf, TypeOK, Job, JobState, Live
    <3>3. verdict' \in [Thread \cup Analysis -> Verdict] /\ pc' \in [Actor -> Point]
      BY <3>1, <3>2 DEF Settle
    <3> QED
      BY <2>1, <3>3 DEF Poll, TypeOK
  <2>2. CASE Unconfirmed(a)
    BY <2>2 DEF Unconfirmed, Settle, TypeOK
  <2> QED
    BY <1>20, <2>1, <2>2
<1>21. ASSUME NEW a \in Analysis, Release(a) \/ AnalysisDies(a)
      PROVE  TypeOK'
  <2>1. Return(a) /\ inLine' \in Actor \cup {NoOne}
    BY <1>21 DEF Release, AnalysisDies, Without, TypeOK
  <2>2. contact' \in [Analysis -> 0 .. MaxStarts]
    BY <2>1, Bounds DEF Return, TypeOK
  <2> QED
    BY <2>1, <2>2 DEF Return, Without, TypeOK
<1>22. ASSUME DesktopStep
      PROVE  TypeOK'
  <2> USE DEF TypeOK
  <2>1. CASE DesktopRead
    BY <2>1, ZenonT(40) DEF DesktopRead
  <2>2. CASE DesktopCompare
    <3>1. pc' \in [Actor -> Point] /\ cached' \in Generation
      BY <2>2 DEF DesktopCompare
    <3> QED
      BY <2>2, <3>1 DEF DesktopCompare
  <2>3. CASE DesktopEnter
    BY <2>3 DEF DesktopEnter, EnterAtOnce
  <2>4. CASE DesktopSkips
    <3>1. pc' \in [Actor -> Point] /\ cached' \in Generation
      BY <2>4 DEF DesktopSkips
    <3> QED
      BY <2>4, <3>1 DEF DesktopSkips
  <2>5. CASE DesktopPublish
    <3>1. pc' \in [Actor -> Point] /\ cached' \in Generation /\ asked' \in Generation
      BY <2>5 DEF DesktopPublish
    <3> QED
      BY <2>5, <3>1 DEF DesktopPublish
  <2>6. CASE DesktopRelease
    BY <2>6, ZenonT(40) DEF DesktopRelease, Without
  <2> QED
    BY <1>22, <2>1, <2>2, <2>3, <2>4, <2>5, <2>6 DEF DesktopStep
<1> QED
  BY <1>1, <1>2, <1>3, <1>4, <1>5, <1>6, <1>7, <1>8, <1>9, <1>10, <1>11, <1>12, <1>13, <1>14,
     <1>15, <1>16, <1>17, <1>18, <1>19, <1>20, <1>21, <1>22
  DEF Next, WorkerStep, ServiceStep, AnalysisStep, Settling, ThreadStep

(* What is durable stays so as generations are added. *)
LEMMA DurableGrows ==
  ASSUME TypeOK, NEW g \in Generation, Durable(g), NEW e, history' = Append(history, e)
  PROVE  g.sid # 0 => g.rev \in 1 .. Len(history') /\ g.sid = history'[g.rev].sid
<1> SUFFICES ASSUME g.sid # 0
             PROVE  g.rev \in 1 .. Len(history') /\ g.sid = history'[g.rev].sid
  OBVIOUS
<1>1. g.rev \in 1 .. Len(history) /\ g.sid = history[g.rev].sid
  BY DEF Durable
<1>2. Len(history') = Len(history) + 1 /\ history'[g.rev] = history[g.rev]
  BY <1>1 DEF TypeOK
<1> QED
  BY <1>1, <1>2, HistoryType, Bounds

LEMMA CommittedDurable == TypeOK => Durable(Committed)
<1> SUFFICES ASSUME TypeOK PROVE Durable(Committed)
  OBVIOUS
<1>1. CASE history = <<>>
  BY <1>1 DEF Committed, Durable, NoGeneration
<1>2. CASE history # <<>>
  BY <1>2, HistoryType, Bounds DEF Committed, Durable, TypeOK
<1> QED
  BY <1>1, <1>2

(* A publication installs the last generation, or nothing. *)
LEMMA PublishInstalls ==
  ASSUME TypeOK, NEW g, Publish(g)
  PROVE  \/ UNCHANGED <<ram, events>>
         \/ /\ g = Committed /\ ram' = Committed /\ Committed.rev > ram.rev
            /\ events' = Append(events, Committed.rev)
<1>1. CASE Answer(g) = "installed"
  <2>1. g = Committed /\ g.rev > ram.rev
    BY <1>1 DEF Answer
  <2> QED
    BY <1>1, <2>1 DEF Publish
<1>2. CASE Answer(g) # "installed"
  BY <1>2 DEF Publish
<1> QED
  BY <1>1, <1>2

(* A higher revision at the end of the events keeps them rising. *)
LEMMA EventsRise ==
  ASSUME TypeOK, JournalRises, NEW r \in 1 .. MaxRevision, ram.rev < r,
         events' = Append(events, r), ram'.rev = r
  PROVE  JournalRises'
<1>1. Len(events) \in Nat /\ Len(events') = Len(events) + 1
  BY DEF TypeOK
<1>2. \A i \in 1 .. Len(events) : events'[i] = events[i]
  BY DEF TypeOK
<1>3. events'[Len(events')] = r
  BY <1>1 DEF TypeOK
<1>4. ASSUME NEW i \in 1 .. Len(events') - 1
      PROVE  events'[i] < events'[i + 1]
  <2>1. CASE i = Len(events)
    <3>1. events'[i] = ram.rev
      BY <1>1, <1>2, <2>1 DEF JournalRises
    <3> QED
      BY <1>1, <1>3, <2>1, <3>1
  <2>2. CASE i # Len(events)
    <3>1. i \in 1 .. Len(events) - 1 /\ i + 1 \in 1 .. Len(events) /\ i \in 1 .. Len(events)
      BY <1>1, <2>2
    <3> QED
      BY <1>2, <3>1 DEF JournalRises
  <2> QED
    BY <2>1, <2>2
<1> QED
  BY <1>3, <1>4 DEF JournalRises

(* What LIVE has reached it keeps, as long as it serves. *)
LEMMA ReachedOnPublish ==
  ASSUME TypeOK, NEW k, Publish(k)
  PROVE  /\ \A g \in Generation : Reached(g) => Reached(g)'
         /\ k \in Generation /\ Succeeds(Answer(k)) => Reached(k)'
<1>1. ram.rev \in Nat /\ Committed.rev \in Nat /\ \A g \in Generation : g.rev \in Nat
  <2>1. \A g \in Generation : g.rev \in Nat
    BY Bounds DEF Generation
  <2> QED
    BY <2>1, GenerationType DEF TypeOK
<1>2. CASE Answer(k) = "installed"
  <2>1. k = Committed /\ Committed # NoGeneration /\ k.rev > ram.rev /\ ram' = k
    BY <1>2 DEF Answer, Publish
  <2>2. Committed.sid # 0
    BY <2>1, HistoryType, Bounds DEF Committed, TypeOK
  <2> QED
    BY <1>1, <2>1, <2>2 DEF Reached
<1>3. CASE Answer(k) # "installed"
  <2>1. UNCHANGED ram
    BY <1>3 DEF Publish
  <2>2. Answer(k) = "already" => k = ram /\ k = Committed /\ Committed # NoGeneration
    BY DEF Answer
  <2>3. Committed # NoGeneration => Committed.sid # 0
    BY HistoryType, Bounds DEF Committed, TypeOK
  <2> QED
    BY <1>1, <1>3, <2>1, <2>2, <2>3 DEF Reached, Succeeds
<1> QED
  BY <1>2, <1>3

(* The steps that pass no receipt on. *)
LEMMA ReceiptKept ==
  ASSUME TypeOK, RunningInv, ReceiptInv, jobs' \subseteq Job, goal' \in [Analysis -> Generation],
         \A g \in Generation : Reached(g) => Reached(g)',
         \A j \in jobs' : j \in jobs \/ j.state \notin {"running", "completed"},
         \/ pc'[Worker] = pc[Worker] /\ verdict'[Worker] = verdict[Worker]
         \/ pc[Worker] \notin {"publish", "report"} /\ pc'[Worker] # "publish",
         \A a \in Analysis : verdict'[a] = "success" /\ Reaches(a)' =>
            /\ goal'[a] = goal[a]
            /\ Reached(goal[a]) \/ (verdict[a] = "success" /\ Reaches(a))
  PROVE  ReceiptInv'
<1>1. \A j \in jobs' : j.key \notin Update => j.key \in Generation
  BY DEF Job, Key
<1>2. Running' \subseteq Running
  BY DEF Running
<1>3. ASSUME NEW j \in Running'
      PROVE  /\ j.key \notin Update => pc'[Worker] \in {"publish", "report"}
             /\ pc'[Worker] = "publish" => j.key \notin Update
             /\ j.key \notin Update /\ pc'[Worker] = "report" /\ Succeeds(verdict[Worker])' =>
                  Reached(j.key)'
  BY <1>1, <1>2, <1>3 DEF ReceiptInv, Running, Succeeds
<1>4. ASSUME NEW j \in jobs', j.key \notin Update, j.state = "completed"
      PROVE  Reached(j.key)'
  BY <1>1, <1>4 DEF ReceiptInv
<1>5. ASSUME NEW a \in Analysis, verdict'[a] = "success", Reaches(a)'
      PROVE  Reached(goal[a])'
  <2>1. goal'[a] = goal[a] /\ goal[a] \in Generation /\ Reached(goal[a])
    BY <1>5 DEF ReceiptInv, TypeOK
  <2>2. Reached(goal[a])' <=> ram'.sid # 0 /\ goal'[a].rev <= ram'.rev
    BY DEF Reached
  <2> QED
    BY <2>1, <2>2 DEF Reached
<1> QED
  BY <1>3, <1>4, <1>5 DEF ReceiptInv

(* Each actor is where its code can be: the points of one actor lead to    *)
(* one another.                                                            *)
LEMMA PointsStep == IInv /\ [Next]_vars => PointsInv'
<1> SUFFICES ASSUME IInv, [Next]_vars
             PROVE  PointsInv'
  OBVIOUS
<1>0. TypeOK /\ PointsInv /\ AsleepInv
  BY DEF IInv
<1> USE <1>0, ServerAssumption
    DEF PointsInv, AsleepInv, TypeOK, Thread, Actor, disk, server, queue, recovery,
        threads, clients, Goto, Concludes
<1>1. CASE UNCHANGED vars
  BY <1>1 DEF vars, Running, Reaches, Committed, HoldsLease
<1>2. ASSUME WorkerLine \/ WorkerEnter \/ WorkerStopped
      PROVE  PointsInv'
  BY <1>2 DEF WorkerLine, WorkerEnter, WorkerStopped, StandInLine, Enter, Without
<1>3. ASSUME StartJob \/ FinishJob
      PROVE  PointsInv'
  BY <1>3 DEF StartJob, FinishJob, Pruned
<1>4. ASSUME WorkerPublish \/ DirectPublish
      PROVE  PointsInv'
  BY <1>4 DEF WorkerPublish, DirectPublish, Publish, Answer
<1>5. ASSUME NEW t \in Thread, Execute(t)
      PROVE  PointsInv'
  BY <1>5 DEF Execute, Quit
<1>6. ASSUME NEW t \in Thread, SaveConflict(t)
      PROVE  PointsInv'
  BY <1>6 DEF SaveConflict, Quit
<1>7. ASSUME NEW t \in Thread, SaveFails(t)
      PROVE  PointsInv'
  BY <1>7 DEF SaveFails, Quit
<1>8. ASSUME NEW t \in Thread, Leave(t)
      PROVE  PointsInv'
  BY <1>8 DEF Leave, Without
<1>9. ASSUME NEW t \in Thread, Save(t)
      PROVE  PointsInv'
  BY <1>9 DEF Save, Record, MayFollow
<1>10. ASSUME NEW t \in Thread, Install(t)
      PROVE  PointsInv'
  BY <1>10 DEF Install, Quit
<1>11. ASSUME DirectUpdate \/ VerifyFence \/ VerifyAdmit \/ VerifyRefused
      PROVE  PointsInv'
  BY <1>11 DEF DirectUpdate, VerifyFence, VerifyAdmit, VerifyRefused, EnterAtOnce,
             Drained
<1>12. ASSUME VerifyCompare
      PROVE  PointsInv'
  BY <1>12 DEF VerifyCompare, EndFence, Agrees, Without
<1>13. ASSUME Finalize
      PROVE  PointsInv'
  BY <1>13 DEF Finalize, EndFence, Without
<1>14. ASSUME Load \/ Serve
      PROVE  PointsInv'
  BY <1>14 DEF Load, Serve, Parity
<1>15. ASSUME Close
      PROVE  PointsInv'
  BY <1>15 DEF Close, Pruned, EndFence, Without
<1>16. ASSUME Perish
      PROVE  PointsInv'
  BY <1>16 DEF Perish, Without
<1>17. ASSUME NEW u \in Update, SubmitUpdate(u)
      PROVE  PointsInv'
  BY <1>17 DEF SubmitUpdate, Admit, JobOf
<1>18. ASSUME NEW a \in Analysis, Request(a)
      PROVE  PointsInv'
  BY <1>18 DEF Request, StandInLine
<1>19. ASSUME NEW a \in Analysis, AnalysisEnter(a)
      PROVE  PointsInv'
  BY <1>19 DEF AnalysisEnter, Enter
<1>20. ASSUME NEW a \in Analysis, AnalysisFails(a)
      PROVE  PointsInv'
  BY <1>20 DEF AnalysisFails
<1>21. ASSUME NEW a \in Analysis, Connect(a)
      PROVE  PointsInv'
  BY <1>21, ZenonT(40) DEF Connect
<1>22. ASSUME NEW a \in Analysis, CommitAnalysis(a)
      PROVE  PointsInv'
  BY <1>22 DEF CommitAnalysis, Record
<1>23. ASSUME NEW a \in Analysis, SubmitPublish(a)
      PROVE  PointsInv'
  BY <1>23, ZenonT(40) DEF SubmitPublish, Admit, JobOf, Settle
<1>24. ASSUME NEW a \in Analysis, Poll(a)
      PROVE  PointsInv'
  BY <1>24 DEF Poll, Settle
<1>25. ASSUME NEW a \in Analysis, Unconfirmed(a)
      PROVE  PointsInv'
  BY <1>25 DEF Unconfirmed, Settle
<1>26. ASSUME NEW a \in Analysis, Release(a)
      PROVE  PointsInv'
  BY <1>26 DEF Release, Return, Without
<1>27. ASSUME NEW a \in Analysis, AnalysisDies(a)
      PROVE  PointsInv'
  BY <1>27 DEF AnalysisDies, Return, Without
<1>28. ASSUME DesktopRead
      PROVE  PointsInv'
  BY <1>28 DEF DesktopRead
<1>29. ASSUME DesktopCompare
      PROVE  PointsInv'
  BY <1>29 DEF DesktopCompare
<1>30. ASSUME DesktopEnter
      PROVE  PointsInv'
  BY <1>30 DEF DesktopEnter, EnterAtOnce
<1>31. ASSUME DesktopSkips
      PROVE  PointsInv'
  BY <1>31 DEF DesktopSkips
<1>32. ASSUME DesktopPublish
      PROVE  PointsInv'
  BY <1>32 DEF DesktopPublish
<1>33. ASSUME DesktopRelease
      PROVE  PointsInv'
  BY <1>33 DEF DesktopRelease, Without
<1> QED
  BY <1>1, <1>2, <1>3, <1>4, <1>5, <1>6, <1>7, <1>8, <1>9, <1>10, <1>11, <1>12, <1>13,
     <1>14, <1>15, <1>16, <1>17, <1>18, <1>19, <1>20, <1>21, <1>22, <1>23, <1>24, <1>25,
     <1>26, <1>27, <1>28, <1>29, <1>30, <1>31, <1>32, <1>33
  DEF Next, WorkerStep, ServiceStep, AnalysisStep, Settling, ThreadStep, DesktopStep

(* While the service is down or loading its variables have their first     *)
(* values.                                                                 *)
LEMMA AsleepStep == IInv /\ [Next]_vars => AsleepInv'
<1> SUFFICES ASSUME IInv, [Next]_vars
             PROVE  AsleepInv'
  OBVIOUS
<1>0. TypeOK /\ PointsInv /\ AsleepInv /\ RunningInv /\ ExecutionInv
  BY DEF IInv
<1> USE <1>0, ServerAssumption
    DEF PointsInv, AsleepInv, TypeOK, Answering, Live, JobOf, Thread, Actor, disk,
        server, queue, recovery, threads, clients, Goto, Concludes
<1>1. CASE UNCHANGED vars
  BY <1>1 DEF vars, Running, Reaches, Committed, HoldsLease
<1>2. ASSUME WorkerLine \/ WorkerEnter \/ WorkerStopped
      PROVE  AsleepInv'
  BY <1>2 DEF WorkerLine, WorkerEnter, WorkerStopped, StandInLine, Enter, Without
<1>3. ASSUME StartJob \/ FinishJob
      PROVE  AsleepInv'
  BY <1>3 DEF StartJob, FinishJob, Pruned
<1>4. ASSUME WorkerPublish \/ DirectPublish
      PROVE  AsleepInv'
  BY <1>4 DEF WorkerPublish, DirectPublish, Publish, Answer
<1>5. ASSUME NEW t \in Thread, Execute(t)
      PROVE  AsleepInv'
  BY <1>5 DEF Execute, Quit
<1>6. ASSUME NEW t \in Thread, SaveConflict(t)
      PROVE  AsleepInv'
  BY <1>6 DEF SaveConflict, Quit
<1>7. ASSUME NEW t \in Thread, SaveFails(t)
      PROVE  AsleepInv'
  BY <1>7 DEF SaveFails, Quit
<1>8. ASSUME NEW t \in Thread, Leave(t)
      PROVE  AsleepInv'
  BY <1>8 DEF Leave, Without
<1>9. ASSUME NEW t \in Thread, Save(t)
      PROVE  AsleepInv'
  BY <1>9 DEF Save, Record, MayFollow
<1>10. ASSUME NEW t \in Thread, Install(t)
      PROVE  AsleepInv'
  BY <1>10 DEF Install, Quit
<1>11. ASSUME DirectUpdate \/ VerifyFence \/ VerifyAdmit \/ VerifyRefused
      PROVE  AsleepInv'
  BY <1>11 DEF DirectUpdate, VerifyFence, VerifyAdmit, VerifyRefused, EnterAtOnce,
             Drained
<1>12. ASSUME VerifyCompare
      PROVE  AsleepInv'
  BY <1>12 DEF VerifyCompare, EndFence, Agrees, Without
<1>13. ASSUME Finalize
      PROVE  AsleepInv'
  BY <1>13 DEF Finalize, EndFence, Without
<1>14. ASSUME Load \/ Serve
      PROVE  AsleepInv'
  BY <1>14 DEF Load, Serve, Parity
<1>15. ASSUME Close
      PROVE  AsleepInv'
  BY <1>15 DEF Close, Pruned, EndFence, Without
<1>16. ASSUME Perish
      PROVE  AsleepInv'
  BY <1>16 DEF Perish, Without
<1>17. ASSUME NEW u \in Update, SubmitUpdate(u)
      PROVE  AsleepInv'
  BY <1>17 DEF SubmitUpdate, Admit, JobOf
<1>18. ASSUME NEW a \in Analysis, Request(a)
      PROVE  AsleepInv'
  BY <1>18 DEF Request, StandInLine
<1>19. ASSUME NEW a \in Analysis, AnalysisEnter(a)
      PROVE  AsleepInv'
  BY <1>19 DEF AnalysisEnter, Enter
<1>20. ASSUME NEW a \in Analysis, AnalysisFails(a)
      PROVE  AsleepInv'
  BY <1>20 DEF AnalysisFails
<1>21. ASSUME NEW a \in Analysis, Connect(a)
      PROVE  AsleepInv'
  BY <1>21 DEF Connect
<1>22. ASSUME NEW a \in Analysis, CommitAnalysis(a)
      PROVE  AsleepInv'
  BY <1>22 DEF CommitAnalysis, Record
<1>23. ASSUME NEW a \in Analysis, SubmitPublish(a)
      PROVE  AsleepInv'
  BY <1>23 DEF SubmitPublish, Admit, JobOf, Settle
<1>24. ASSUME NEW a \in Analysis, Poll(a)
      PROVE  AsleepInv'
  BY <1>24 DEF Poll, Settle
<1>25. ASSUME NEW a \in Analysis, Unconfirmed(a)
      PROVE  AsleepInv'
  BY <1>25 DEF Unconfirmed, Settle
<1>26. ASSUME NEW a \in Analysis, Release(a)
      PROVE  AsleepInv'
  BY <1>26 DEF Release, Return, Without
<1>27. ASSUME NEW a \in Analysis, AnalysisDies(a)
      PROVE  AsleepInv'
  BY <1>27 DEF AnalysisDies, Return, Without
<1>28. ASSUME DesktopRead
      PROVE  AsleepInv'
  BY <1>28 DEF DesktopRead
<1>29. ASSUME DesktopCompare
      PROVE  AsleepInv'
  BY <1>29 DEF DesktopCompare
<1>30. ASSUME DesktopEnter
      PROVE  AsleepInv'
  BY <1>30 DEF DesktopEnter, EnterAtOnce
<1>31. ASSUME DesktopSkips
      PROVE  AsleepInv'
  BY <1>31 DEF DesktopSkips
<1>32. ASSUME DesktopPublish
      PROVE  AsleepInv'
  BY <1>32 DEF DesktopPublish
<1>33. ASSUME DesktopRelease
      PROVE  AsleepInv'
  BY <1>33 DEF DesktopRelease, Without
<1> QED
  BY <1>1, <1>2, <1>3, <1>4, <1>5, <1>6, <1>7, <1>8, <1>9, <1>10, <1>11, <1>12, <1>13,
     <1>14, <1>15, <1>16, <1>17, <1>18, <1>19, <1>20, <1>21, <1>22, <1>23, <1>24, <1>25,
     <1>26, <1>27, <1>28, <1>29, <1>30, <1>31, <1>32, <1>33
  DEF Next, WorkerStep, ServiceStep, AnalysisStep, Settling, ThreadStep, DesktopStep

(* Jobs leave the running state with the worker's return to its idle       *)
(* point.                                                                  *)
LEMMA RunningStep == IInv /\ [Next]_vars => RunningInv'
<1> SUFFICES ASSUME IInv, [Next]_vars
             PROVE  RunningInv'
  OBVIOUS
<1>0. TypeOK /\ PointsInv /\ AsleepInv /\ RunningInv
  BY DEF IInv
<1> USE <1>0, ServerAssumption
    DEF PointsInv, AsleepInv, TypeOK, RunningInv, Running, Live, Answering, Thread,
        Actor, disk, server, queue, recovery, threads, clients, Goto, Concludes
<1>1. CASE UNCHANGED vars
  BY <1>1 DEF vars, Reaches, Committed, HoldsLease
<1>2. ASSUME WorkerLine \/ WorkerEnter \/ WorkerStopped
      PROVE  RunningInv'
  BY <1>2 DEF WorkerLine, WorkerEnter, WorkerStopped, StandInLine, Enter, Without
<1>3. ASSUME StartJob
      PROVE  RunningInv'
  <2>1. PICK j \in jobs :
          /\ jobs' = (jobs \ {j}) \cup {[j EXCEPT !.state = "running"]}
          /\ Goto(Worker, IF j.key \in Update THEN "line" ELSE "publish")
    BY <1>3 DEF StartJob
  <2>2. Running = {} /\ j \in Job
    BY <1>3 DEF StartJob
  <2>3. Running' = {[j EXCEPT !.state = "running"]}
    BY <2>1, <2>2 DEF Job
  <2> QED
    BY <2>1, <2>3
<1>4. ASSUME FinishJob
      PROVE  RunningInv'
  <2>1. PICK j \in Running :
          jobs' = Pruned((jobs \ {j}) \cup {[j EXCEPT !.state =
                    IF Succeeds(verdict[Worker]) THEN "completed" ELSE "failed"]})
    BY <1>4 DEF FinishJob
  <2>2. j \in Job
    BY <2>1
  <2>3. Running' = {}
    BY <2>1, <2>2 DEF Pruned, Job
  <2> QED
    BY <1>4, <2>3 DEF FinishJob
<1>5. ASSUME WorkerPublish \/ DirectPublish
      PROVE  RunningInv'
  BY <1>5 DEF WorkerPublish, DirectPublish, Publish, Answer
<1>6. ASSUME NEW t \in Thread, Execute(t)
      PROVE  RunningInv'
  BY <1>6 DEF Execute, Quit
<1>7. ASSUME NEW t \in Thread, SaveConflict(t)
      PROVE  RunningInv'
  BY <1>7 DEF SaveConflict, Quit
<1>8. ASSUME NEW t \in Thread, SaveFails(t)
      PROVE  RunningInv'
  BY <1>8 DEF SaveFails, Quit
<1>9. ASSUME NEW t \in Thread, Leave(t)
      PROVE  RunningInv'
  BY <1>9 DEF Leave, Without
<1>10. ASSUME NEW t \in Thread, Save(t)
      PROVE  RunningInv'
  BY <1>10 DEF Save, Record, MayFollow
<1>11. ASSUME NEW t \in Thread, Install(t)
      PROVE  RunningInv'
  BY <1>11 DEF Install, Quit
<1>12. ASSUME DirectUpdate \/ VerifyFence \/ VerifyAdmit \/ VerifyRefused
      PROVE  RunningInv'
  BY <1>12 DEF DirectUpdate, VerifyFence, VerifyAdmit, VerifyRefused, EnterAtOnce,
             Drained
<1>13. ASSUME VerifyCompare
      PROVE  RunningInv'
  BY <1>13 DEF VerifyCompare, EndFence, Agrees, Without
<1>14. ASSUME Finalize
      PROVE  RunningInv'
  BY <1>14 DEF Finalize, EndFence, Without
<1>15. ASSUME Load \/ Serve
      PROVE  RunningInv'
  BY <1>15 DEF Load, Serve, Parity
<1>16. ASSUME Close
      PROVE  RunningInv'
  <2>1. Running' = Running
    <3> DEFINE closed(j) == IF j.state = "queued" THEN [j EXCEPT !.state = "cancelled"] ELSE j
    <3>1. \A j \in jobs : closed(j).state = "running" <=> j.state = "running"
      BY DEF Job
    <3>2. \A j \in jobs : j.state = "running" => closed(j) = j
      OBVIOUS
    <3>3. jobs' = Pruned({closed(j) : j \in jobs})
      BY <1>16 DEF Close
    <3>4. ASSUME NEW j \in jobs', j.state = "running"
          PROVE  j \in jobs
      <4>1. PICK k \in jobs : j = closed(k)
        BY <3>3 DEF Pruned
      <4> QED
        BY <3>1, <3>2, <3>4, <4>1
    <3>5. \A j \in jobs : j.state = "running" => j \in jobs'
      BY <3>2, <3>3 DEF Pruned
    <3> QED
      BY <3>4, <3>5
  <2> QED
    BY <1>16, <2>1 DEF Close
<1>17. ASSUME Perish
      PROVE  RunningInv'
  BY <1>17 DEF Perish, Without
<1>18. ASSUME NEW u \in Update, SubmitUpdate(u)
      PROVE  RunningInv'
  <2>1. Running' = Running
    BY <1>18 DEF SubmitUpdate, Admit
  <2> QED
    BY <1>18, <2>1 DEF SubmitUpdate
<1>19. ASSUME NEW a \in Analysis, Request(a)
      PROVE  RunningInv'
  BY <1>19 DEF Request, StandInLine
<1>20. ASSUME NEW a \in Analysis, AnalysisEnter(a)
      PROVE  RunningInv'
  BY <1>20 DEF AnalysisEnter, Enter
<1>21. ASSUME NEW a \in Analysis, AnalysisFails(a)
      PROVE  RunningInv'
  BY <1>21 DEF AnalysisFails
<1>22. ASSUME NEW a \in Analysis, Connect(a)
      PROVE  RunningInv'
  BY <1>22 DEF Connect
<1>23. ASSUME NEW a \in Analysis, CommitAnalysis(a)
      PROVE  RunningInv'
  BY <1>23 DEF CommitAnalysis, Record
<1>24. ASSUME NEW a \in Analysis, SubmitPublish(a) \/ Poll(a) \/ Unconfirmed(a)
      PROVE  RunningInv'
  <2>1. Running' = Running
    BY <1>24 DEF SubmitPublish, Admit, Poll, Unconfirmed
  <2>2. pc'[Worker] = pc[Worker]
    BY <1>24 DEF SubmitPublish, Poll, Unconfirmed, Settle
  <2> QED
    BY <2>1, <2>2
<1>25. ASSUME NEW a \in Analysis, Release(a)
      PROVE  RunningInv'
  BY <1>25 DEF Release, Return, Without
<1>26. ASSUME NEW a \in Analysis, AnalysisDies(a)
      PROVE  RunningInv'
  BY <1>26 DEF AnalysisDies, Return, Without
<1>27. ASSUME DesktopRead
      PROVE  RunningInv'
  BY <1>27 DEF DesktopRead
<1>28. ASSUME DesktopCompare
      PROVE  RunningInv'
  BY <1>28 DEF DesktopCompare
<1>29. ASSUME DesktopEnter
      PROVE  RunningInv'
  BY <1>29 DEF DesktopEnter, EnterAtOnce
<1>30. ASSUME DesktopSkips
      PROVE  RunningInv'
  BY <1>30 DEF DesktopSkips
<1>31. ASSUME DesktopPublish
      PROVE  RunningInv'
  BY <1>31 DEF DesktopPublish
<1>32. ASSUME DesktopRelease
      PROVE  RunningInv'
  BY <1>32 DEF DesktopRelease, Without
<1> QED
  BY <1>1, <1>2, <1>3, <1>4, <1>5, <1>6, <1>7, <1>8, <1>9, <1>10, <1>11, <1>12, <1>13,
     <1>14, <1>15, <1>16, <1>17, <1>18, <1>19, <1>20, <1>21, <1>22, <1>23, <1>24, <1>25,
     <1>26, <1>27, <1>28, <1>29, <1>30, <1>31, <1>32
  DEF Next, WorkerStep, ServiceStep, AnalysisStep, Settling, ThreadStep, DesktopStep

(* The lease changes hands only where an actor passes into or out of the   *)
(* code that holds it.                                                     *)
LEMMA LeaseAccountedStep == IInv /\ [Next]_vars => LeaseAccounted'
<1> SUFFICES ASSUME IInv, [Next]_vars
             PROVE  LeaseAccounted'
  OBVIOUS
<1>0. TypeOK /\ PointsInv /\ AsleepInv /\ RecoveryInv /\ LeaseAccounted
  BY DEF IInv
<1> USE <1>0, ServerAssumption
    DEF PointsInv, AsleepInv, TypeOK, RecoveryInv, LeaseAccounted, HoldsLease,
        Answering, Thread, Actor, disk, server, queue, recovery, threads, clients, Goto,
        Concludes
<1>1. CASE UNCHANGED vars
  BY <1>1 DEF vars, Running, Reaches, Committed
<1>2. ASSUME WorkerLine \/ WorkerEnter \/ WorkerStopped
      PROVE  LeaseAccounted'
  BY <1>2, SMTT(40) DEF WorkerLine, WorkerEnter, WorkerStopped, StandInLine, Enter, Without
<1>3. ASSUME StartJob \/ FinishJob
      PROVE  LeaseAccounted'
  BY <1>3 DEF StartJob, FinishJob, Pruned
<1>4. ASSUME WorkerPublish \/ DirectPublish
      PROVE  LeaseAccounted'
  BY <1>4 DEF WorkerPublish, DirectPublish, Publish, Answer
<1>5. ASSUME NEW t \in Thread, Execute(t)
      PROVE  LeaseAccounted'
  BY <1>5 DEF Execute, Quit
<1>6. ASSUME NEW t \in Thread, SaveConflict(t)
      PROVE  LeaseAccounted'
  BY <1>6 DEF SaveConflict, Quit
<1>7. ASSUME NEW t \in Thread, SaveFails(t)
      PROVE  LeaseAccounted'
  BY <1>7 DEF SaveFails, Quit
<1>8. ASSUME NEW t \in Thread, Leave(t)
      PROVE  LeaseAccounted'
  BY <1>8 DEF Leave, Without
<1>9. ASSUME NEW t \in Thread, Save(t)
      PROVE  LeaseAccounted'
  BY <1>9 DEF Save, Record, MayFollow
<1>10. ASSUME NEW t \in Thread, Install(t)
      PROVE  LeaseAccounted'
  BY <1>10, SMTT(40) DEF Install, Quit
<1>11. ASSUME DirectUpdate \/ VerifyFence \/ VerifyAdmit \/ VerifyRefused
      PROVE  LeaseAccounted'
  BY <1>11 DEF DirectUpdate, VerifyFence, VerifyAdmit, VerifyRefused, EnterAtOnce,
             Drained
<1>12. ASSUME VerifyCompare
      PROVE  LeaseAccounted'
  <2>1. CASE Agrees /\ certificate' = Committed /\ UNCHANGED <<lease, fence, degraded>>
    BY <1>12, <2>1 DEF VerifyCompare, Agrees, NoGeneration
  <2>2. CASE lease' = Without({Service}, lease) /\ fence' = FALSE
             /\ certificate' = NoGeneration /\ UNCHANGED degraded
    BY <1>12, <2>2 DEF VerifyCompare, Without
  <2>3. CASE lease' \in {lease, NoOne} /\ degraded' = TRUE
             /\ UNCHANGED <<fence, certificate>>
    BY <1>12, <2>3 DEF VerifyCompare
  <2> QED
    BY <1>12, <2>1, <2>2, <2>3 DEF VerifyCompare, EndFence
<1>13. ASSUME Finalize
      PROVE  LeaseAccounted'
  BY <1>13 DEF Finalize, EndFence, Without
<1>14. ASSUME Load \/ Serve
      PROVE  LeaseAccounted'
  BY <1>14 DEF Load, Serve, Parity
<1>15. ASSUME Close
      PROVE  LeaseAccounted'
  BY <1>15 DEF Close, Pruned, EndFence, Without
<1>16. ASSUME Perish
      PROVE  LeaseAccounted'
  BY <1>16 DEF Perish, Without
<1>17. ASSUME NEW u \in Update, SubmitUpdate(u)
      PROVE  LeaseAccounted'
  BY <1>17 DEF SubmitUpdate, Admit, JobOf
<1>18. ASSUME NEW a \in Analysis, Request(a)
      PROVE  LeaseAccounted'
  BY <1>18 DEF Request, StandInLine
<1>19. ASSUME NEW a \in Analysis, AnalysisEnter(a)
      PROVE  LeaseAccounted'
  BY <1>19 DEF AnalysisEnter, Enter
<1>20. ASSUME NEW a \in Analysis, AnalysisFails(a)
      PROVE  LeaseAccounted'
  BY <1>20 DEF AnalysisFails
<1>21. ASSUME NEW a \in Analysis, Connect(a)
      PROVE  LeaseAccounted'
  BY <1>21 DEF Connect
<1>22. ASSUME NEW a \in Analysis, CommitAnalysis(a)
      PROVE  LeaseAccounted'
  BY <1>22 DEF CommitAnalysis, Record
<1>23. ASSUME NEW a \in Analysis, SubmitPublish(a)
      PROVE  LeaseAccounted'
  BY <1>23 DEF SubmitPublish, Admit, JobOf, Settle
<1>24. ASSUME NEW a \in Analysis, Poll(a)
      PROVE  LeaseAccounted'
  BY <1>24 DEF Poll, Settle
<1>25. ASSUME NEW a \in Analysis, Unconfirmed(a)
      PROVE  LeaseAccounted'
  BY <1>25 DEF Unconfirmed, Settle
<1>26. ASSUME NEW a \in Analysis, Release(a)
      PROVE  LeaseAccounted'
  BY <1>26 DEF Release, Return, Without
<1>27. ASSUME NEW a \in Analysis, AnalysisDies(a)
      PROVE  LeaseAccounted'
  BY <1>27 DEF AnalysisDies, Return, Without
<1>28. ASSUME DesktopRead
      PROVE  LeaseAccounted'
  BY <1>28 DEF DesktopRead
<1>29. ASSUME DesktopCompare
      PROVE  LeaseAccounted'
  BY <1>29 DEF DesktopCompare
<1>30. ASSUME DesktopEnter
      PROVE  LeaseAccounted'
  BY <1>30 DEF DesktopEnter, EnterAtOnce
<1>31. ASSUME DesktopSkips
      PROVE  LeaseAccounted'
  BY <1>31 DEF DesktopSkips
<1>32. ASSUME DesktopPublish
      PROVE  LeaseAccounted'
  BY <1>32 DEF DesktopPublish
<1>33. ASSUME DesktopRelease
      PROVE  LeaseAccounted'
  BY <1>33 DEF DesktopRelease, Without
<1> QED
  BY <1>1, <1>2, <1>3, <1>4, <1>5, <1>6, <1>7, <1>8, <1>9, <1>10, <1>11, <1>12, <1>13,
     <1>14, <1>15, <1>16, <1>17, <1>18, <1>19, <1>20, <1>21, <1>22, <1>23, <1>24, <1>25,
     <1>26, <1>27, <1>28, <1>29, <1>30, <1>31, <1>32, <1>33, ZenonT(40)
  DEF Next, WorkerStep, ServiceStep, AnalysisStep, Settling, ThreadStep, DesktopStep

(* Installing, publishing and starting take up committed generations;      *)
(* commits keep them.                                                      *)
LEMMA DurableStep == IInv /\ [Next]_vars => DurableInv'
<1> SUFFICES ASSUME IInv, [Next]_vars
             PROVE  DurableInv'
  OBVIOUS
<1>0. TypeOK /\ DurableInv /\ ExecutionInv
  BY DEF IInv
<1> USE <1>0
    DEF DurableInv, Durable, NoGeneration, Thread, Actor, disk, server, queue, recovery,
        threads, clients, Goto, Concludes
<1>1. CASE UNCHANGED vars
  BY <1>1 DEF vars, Running, Reaches, Committed, HoldsLease
<1>2. ASSUME WorkerLine \/ WorkerEnter \/ WorkerStopped
      PROVE  DurableInv'
  BY <1>2 DEF WorkerLine, WorkerEnter, WorkerStopped, StandInLine, Enter, Without
<1>3. ASSUME StartJob \/ FinishJob
      PROVE  DurableInv'
  BY <1>3 DEF StartJob, FinishJob, Pruned
<1>4. ASSUME WorkerPublish \/ DirectPublish
      PROVE  DurableInv'
  <2>1. UNCHANGED <<ram, events>> \/ ram' = Committed
    BY <1>4, PublishInstalls DEF WorkerPublish, DirectPublish
  <2>2. UNCHANGED <<history, loaded>>
    BY <1>4 DEF WorkerPublish, DirectPublish
  <2> QED
    BY <2>1, <2>2, CommittedDurable
<1>5. ASSUME NEW t \in Thread, Execute(t)
      PROVE  DurableInv'
  BY <1>5 DEF Execute, Quit
<1>6. ASSUME NEW t \in Thread, SaveConflict(t)
      PROVE  DurableInv'
  BY <1>6 DEF SaveConflict, Quit
<1>7. ASSUME NEW t \in Thread, SaveFails(t)
      PROVE  DurableInv'
  BY <1>7 DEF SaveFails, Quit
<1>8. ASSUME NEW t \in Thread, Leave(t)
      PROVE  DurableInv'
  BY <1>8 DEF Leave, Without
<1>9. ASSUME NEW t \in Thread, Save(t)
      PROVE  DurableInv'
  <2>1. UNCHANGED <<ram, loaded>>
    BY <1>9 DEF Save
  <2>2. \E e : history' = Append(history, e)
    BY <1>9 DEF Save, Record
  <2> QED
    BY <2>1, <2>2, DurableGrows DEF TypeOK
<1>10. ASSUME NEW t \in Thread, Install(t)
      PROVE  DurableInv'
  <2>1. UNCHANGED <<history, loaded>>
    BY <1>10 DEF Install
  <2>2. CASE ram = base[t]
    <3>1. ram' = [rev |-> base[t].rev + 1, sid |-> history[base[t].rev + 1].sid]
      BY <1>10, <2>2 DEF Install
    <3>2. base[t].rev \in Nat /\ Len(history) = base[t].rev + 1
      <4>0. base[t] \in Generation
        BY DEF TypeOK
      <4>1. base[t].rev \in Nat
        BY <4>0, Bounds DEF Generation
      <4> QED
        BY <1>10, <4>1 DEF Install, ExecutionInv
    <3> QED
      BY <2>1, <3>1, <3>2, HistoryType
  <2>3. CASE ram # base[t]
    BY <1>10, <2>1, <2>3 DEF Install
  <2> QED
    BY <2>2, <2>3
<1>11. ASSUME DirectUpdate \/ VerifyFence \/ VerifyAdmit \/ VerifyRefused
      PROVE  DurableInv'
  BY <1>11 DEF DirectUpdate, VerifyFence, VerifyAdmit, VerifyRefused, EnterAtOnce,
             Drained
<1>12. ASSUME VerifyCompare
      PROVE  DurableInv'
  BY <1>12 DEF VerifyCompare, EndFence, Agrees, Without
<1>13. ASSUME Finalize
      PROVE  DurableInv'
  BY <1>13 DEF Finalize, EndFence, Without
<1>14. ASSUME Load
      PROVE  DurableInv'
  BY <1>14, CommittedDurable DEF Load
<1>15. ASSUME Serve
      PROVE  DurableInv'
  <2>1. UNCHANGED history /\ loaded' = NoGeneration
    BY <1>15 DEF Serve
  <2>2. CASE Parity
    <3>1. ram' = [rev |-> Len(history), sid |-> loaded.sid]
      BY <1>15, <2>2 DEF Serve
    <3>2. loaded.sid # 0 => loaded.rev = Len(history)
      BY <2>2 DEF Parity
    <3> QED
      BY <2>1, <3>1, <3>2
  <2>3. CASE ~ Parity
    BY <1>15, <2>1, <2>3 DEF Serve
  <2> QED
    BY <2>2, <2>3
<1>16. ASSUME Close
      PROVE  DurableInv'
  BY <1>16 DEF Close, Pruned, EndFence, Without
<1>17. ASSUME Perish
      PROVE  DurableInv'
  BY <1>17 DEF Perish, Without
<1>18. ASSUME NEW u \in Update, SubmitUpdate(u)
      PROVE  DurableInv'
  BY <1>18 DEF SubmitUpdate, Admit, JobOf
<1>19. ASSUME NEW a \in Analysis, Request(a)
      PROVE  DurableInv'
  BY <1>19 DEF Request, StandInLine
<1>20. ASSUME NEW a \in Analysis, AnalysisEnter(a)
      PROVE  DurableInv'
  BY <1>20 DEF AnalysisEnter, Enter
<1>21. ASSUME NEW a \in Analysis, AnalysisFails(a)
      PROVE  DurableInv'
  BY <1>21 DEF AnalysisFails
<1>22. ASSUME NEW a \in Analysis, Connect(a)
      PROVE  DurableInv'
  BY <1>22 DEF Connect
<1>23. ASSUME NEW a \in Analysis, CommitAnalysis(a)
      PROVE  DurableInv'
  <2>1. UNCHANGED <<ram, loaded>>
    BY <1>23 DEF CommitAnalysis
  <2>2. \E e : history' = Append(history, e)
    BY <1>23 DEF CommitAnalysis, Record
  <2> QED
    BY <2>1, <2>2, DurableGrows DEF TypeOK
<1>24. ASSUME NEW a \in Analysis, SubmitPublish(a)
      PROVE  DurableInv'
  BY <1>24 DEF SubmitPublish, Admit, JobOf, Settle
<1>25. ASSUME NEW a \in Analysis, Poll(a)
      PROVE  DurableInv'
  BY <1>25 DEF Poll, Settle
<1>26. ASSUME NEW a \in Analysis, Unconfirmed(a)
      PROVE  DurableInv'
  BY <1>26 DEF Unconfirmed, Settle
<1>27. ASSUME NEW a \in Analysis, Release(a)
      PROVE  DurableInv'
  BY <1>27 DEF Release, Return, Without
<1>28. ASSUME NEW a \in Analysis, AnalysisDies(a)
      PROVE  DurableInv'
  BY <1>28 DEF AnalysisDies, Return, Without
<1>29. ASSUME DesktopRead
      PROVE  DurableInv'
  BY <1>29 DEF DesktopRead
<1>30. ASSUME DesktopCompare
      PROVE  DurableInv'
  BY <1>30 DEF DesktopCompare
<1>31. ASSUME DesktopEnter
      PROVE  DurableInv'
  BY <1>31 DEF DesktopEnter, EnterAtOnce
<1>32. ASSUME DesktopSkips
      PROVE  DurableInv'
  BY <1>32 DEF DesktopSkips
<1>33. ASSUME DesktopPublish
      PROVE  DurableInv'
  BY <1>33 DEF DesktopPublish
<1>34. ASSUME DesktopRelease
      PROVE  DurableInv'
  BY <1>34 DEF DesktopRelease, Without
<1> QED
  BY <1>1, <1>2, <1>3, <1>4, <1>5, <1>6, <1>7, <1>8, <1>9, <1>10, <1>11, <1>12, <1>13,
     <1>14, <1>15, <1>16, <1>17, <1>18, <1>19, <1>20, <1>21, <1>22, <1>23, <1>24, <1>25,
     <1>26, <1>27, <1>28, <1>29, <1>30, <1>31, <1>32, <1>33, <1>34
  DEF Next, WorkerStep, ServiceStep, AnalysisStep, Settling, ThreadStep, DesktopStep

(* Nobody commits between an update's save and its installation, and       *)
(* nobody else installs.                                                   *)
LEMMA ExecutionStep == IInv /\ [Next]_vars => ExecutionInv'
<1> SUFFICES ASSUME IInv, [Next]_vars
             PROVE  ExecutionInv'
  OBVIOUS
<1>0. TypeOK /\ PointsInv /\ AsleepInv /\ ExecutionInv /\ LeaseAccounted /\ DurableInv
  BY DEF IInv
<1> USE <1>0, ServerAssumption
    DEF PointsInv, AsleepInv, TypeOK, ExecutionInv, LeaseAccounted, HoldsLease,
        DurableInv, Durable, Answering, Thread, Actor, disk, server, queue, recovery,
        threads, clients, Goto, Concludes
<1>1. CASE UNCHANGED vars
  BY <1>1 DEF vars, Running, Reaches, Committed
<1>2. ASSUME WorkerLine \/ WorkerEnter \/ WorkerStopped
      PROVE  ExecutionInv'
  BY <1>2, SMTT(40) DEF WorkerLine, WorkerEnter, WorkerStopped, StandInLine, Enter, Without
<1>3. ASSUME StartJob
      PROVE  ExecutionInv'
  BY <1>3 DEF StartJob
<1>4. ASSUME FinishJob
      PROVE  ExecutionInv'
  BY <1>4 DEF FinishJob, Pruned
<1>5. ASSUME WorkerPublish \/ DirectPublish
      PROVE  ExecutionInv'
  BY <1>5 DEF WorkerPublish, DirectPublish, Publish, Answer
<1>6. ASSUME NEW t \in Thread, Execute(t)
      PROVE  ExecutionInv'
  BY <1>6 DEF Execute, Quit
<1>7. ASSUME NEW t \in Thread, SaveConflict(t)
      PROVE  ExecutionInv'
  BY <1>7 DEF SaveConflict, Quit
<1>8. ASSUME NEW t \in Thread, SaveFails(t)
      PROVE  ExecutionInv'
  BY <1>8 DEF SaveFails, Quit
<1>9. ASSUME NEW t \in Thread, Leave(t)
      PROVE  ExecutionInv'
  BY <1>9 DEF Leave, Without
<1>10. ASSUME NEW t \in Thread, Save(t)
      PROVE  ExecutionInv'
  <2>1. execution = t /\ base[t] = ram /\ ram.sid # 0 /\ ram.rev = Len(history)
    <3>1. base[t].rev \in Nat
      BY Bounds, SMTT(40) DEF Generation
    <3> QED
      BY <1>10, <3>1, HistoryType, SMTT(40) DEF Save, MayFollow
  <2>2. Committed.sid = ram.sid
    BY <2>1 DEF Committed
  <2>3. /\ history' = Append(history, [sid |-> Committed.sid, from |-> base[t].rev, by |-> Author(t)])
        /\ pc' = [pc EXCEPT ![t] = "install"]
        /\ UNCHANGED <<ram, execution, base>>
    BY <1>10 DEF Save, Record
  <2>4. Len(history') = base'[t].rev + 1 /\ history'[Len(history')].sid = base'[t].sid
    BY <2>1, <2>2, <2>3, HistoryType, Bounds
  <2> QED
    BY <2>1, <2>3, <2>4
<1>11. ASSUME NEW t \in Thread, Install(t)
      PROVE  ExecutionInv'
  BY <1>11, SMTT(40) DEF Install, Quit
<1>12. ASSUME DirectUpdate \/ VerifyFence \/ VerifyAdmit \/ VerifyRefused
      PROVE  ExecutionInv'
  BY <1>12, SMTT(40) DEF DirectUpdate, VerifyFence, VerifyAdmit, VerifyRefused, EnterAtOnce,
             Drained
<1>13. ASSUME VerifyCompare
      PROVE  ExecutionInv'
  BY <1>13 DEF VerifyCompare, EndFence, Agrees, Without
<1>14. ASSUME Finalize
      PROVE  ExecutionInv'
  BY <1>14 DEF Finalize, EndFence, Without
<1>15. ASSUME Load \/ Serve
      PROVE  ExecutionInv'
  BY <1>15 DEF Load, Serve, Parity
<1>16. ASSUME Close
      PROVE  ExecutionInv'
  BY <1>16 DEF Close, Pruned, EndFence, Without
<1>17. ASSUME Perish
      PROVE  ExecutionInv'
  BY <1>17 DEF Perish, Without
<1>18. ASSUME NEW u \in Update, SubmitUpdate(u)
      PROVE  ExecutionInv'
  BY <1>18 DEF SubmitUpdate, Admit, JobOf
<1>19. ASSUME NEW a \in Analysis, Request(a)
      PROVE  ExecutionInv'
  BY <1>19, SMTT(40) DEF Request, StandInLine
<1>20. ASSUME NEW a \in Analysis, AnalysisEnter(a)
      PROVE  ExecutionInv'
  BY <1>20 DEF AnalysisEnter, Enter
<1>21. ASSUME NEW a \in Analysis, AnalysisFails(a)
      PROVE  ExecutionInv'
  BY <1>21 DEF AnalysisFails
<1>22. ASSUME NEW a \in Analysis, Connect(a)
      PROVE  ExecutionInv'
  BY <1>22 DEF Connect
<1>23. ASSUME NEW a \in Analysis, CommitAnalysis(a)
      PROVE  ExecutionInv'
  BY <1>23 DEF CommitAnalysis, Record
<1>24. ASSUME NEW a \in Analysis, SubmitPublish(a)
      PROVE  ExecutionInv'
  BY <1>24 DEF SubmitPublish, Admit, JobOf, Settle
<1>25. ASSUME NEW a \in Analysis, Poll(a)
      PROVE  ExecutionInv'
  BY <1>25 DEF Poll, Settle
<1>26. ASSUME NEW a \in Analysis, Unconfirmed(a)
      PROVE  ExecutionInv'
  BY <1>26 DEF Unconfirmed, Settle
<1>27. ASSUME NEW a \in Analysis, Release(a)
      PROVE  ExecutionInv'
  BY <1>27 DEF Release, Return, Without
<1>28. ASSUME NEW a \in Analysis, AnalysisDies(a)
      PROVE  ExecutionInv'
  BY <1>28, SMTT(40) DEF AnalysisDies, Return, Without
<1>29. ASSUME DesktopRead
      PROVE  ExecutionInv'
  BY <1>29 DEF DesktopRead
<1>30. ASSUME DesktopCompare
      PROVE  ExecutionInv'
  BY <1>30 DEF DesktopCompare
<1>31. ASSUME DesktopEnter
      PROVE  ExecutionInv'
  BY <1>31 DEF DesktopEnter, EnterAtOnce
<1>32. ASSUME DesktopSkips
      PROVE  ExecutionInv'
  BY <1>32 DEF DesktopSkips
<1>33. ASSUME DesktopPublish
      PROVE  ExecutionInv'
  BY <1>33 DEF DesktopPublish
<1>34. ASSUME DesktopRelease
      PROVE  ExecutionInv'
  BY <1>34 DEF DesktopRelease, Without
<1> QED
  BY <1>1, <1>2, <1>3, <1>4, <1>5, <1>6, <1>7, <1>8, <1>9, <1>10, <1>11, <1>12, <1>13,
     <1>14, <1>15, <1>16, <1>17, <1>18, <1>19, <1>20, <1>21, <1>22, <1>23, <1>24, <1>25,
     <1>26, <1>27, <1>28, <1>29, <1>30, <1>31, <1>32, <1>33, <1>34, ZenonT(40)
  DEF Next, WorkerStep, ServiceStep, AnalysisStep, Settling, ThreadStep, DesktopStep

(* The fence rises with a verification and falls with it, unless the       *)
(* release raised.                                                         *)
LEMMA RecoveryStep == IInv /\ [Next]_vars => RecoveryInv'
<1> SUFFICES ASSUME IInv, [Next]_vars
             PROVE  RecoveryInv'
  OBVIOUS
<1>0. TypeOK /\ PointsInv /\ AsleepInv /\ RecoveryInv /\ LeaseAccounted
  BY DEF IInv
<1> USE <1>0, ServerAssumption
    DEF PointsInv, AsleepInv, TypeOK, RecoveryInv, LeaseAccounted, HoldsLease,
        NoGeneration, Answering, Committed, Thread, Actor, disk, server, queue,
        recovery, threads, clients, Goto, Concludes
<1>1. CASE UNCHANGED vars
  BY <1>1 DEF vars, Running, Reaches
<1>2. ASSUME WorkerLine \/ WorkerEnter \/ WorkerStopped
      PROVE  RecoveryInv'
  BY <1>2 DEF WorkerLine, WorkerEnter, WorkerStopped, StandInLine, Enter, Without
<1>3. ASSUME StartJob \/ FinishJob
      PROVE  RecoveryInv'
  BY <1>3 DEF StartJob, FinishJob, Pruned
<1>4. ASSUME WorkerPublish \/ DirectPublish
      PROVE  RecoveryInv'
  BY <1>4 DEF WorkerPublish, DirectPublish, Publish, Answer
<1>5. ASSUME NEW t \in Thread, Execute(t)
      PROVE  RecoveryInv'
  BY <1>5 DEF Execute, Quit
<1>6. ASSUME NEW t \in Thread, SaveConflict(t)
      PROVE  RecoveryInv'
  BY <1>6 DEF SaveConflict, Quit
<1>7. ASSUME NEW t \in Thread, SaveFails(t)
      PROVE  RecoveryInv'
  BY <1>7 DEF SaveFails, Quit
<1>8. ASSUME NEW t \in Thread, Leave(t)
      PROVE  RecoveryInv'
  BY <1>8 DEF Leave, Without
<1>9. ASSUME NEW t \in Thread, Save(t)
      PROVE  RecoveryInv'
  BY <1>9 DEF Save, Record, MayFollow
<1>10. ASSUME NEW t \in Thread, Install(t)
      PROVE  RecoveryInv'
  BY <1>10 DEF Install, Quit
<1>11. ASSUME DirectUpdate \/ VerifyFence \/ VerifyAdmit \/ VerifyRefused
      PROVE  RecoveryInv'
  BY <1>11 DEF DirectUpdate, VerifyFence, VerifyAdmit, VerifyRefused, EnterAtOnce,
             Drained
<1>12. ASSUME VerifyCompare
      PROVE  RecoveryInv'
  <2>0. /\ pc[Service] = "compare" /\ fence /\ ~ degraded /\ certificate = NoGeneration
        /\ pc' = [pc EXCEPT ![Service] = "idle"]
    BY <1>12 DEF VerifyCompare
  <2>1. CASE Agrees /\ certificate' = Committed /\ UNCHANGED <<lease, fence, degraded>>
    <3>1. certificate'.sid # 0
      BY <2>1 DEF Agrees
    <3>2. certificate' # NoGeneration
      BY <3>1
    <3> QED
      BY <2>0, <2>1, <3>2
  <2>2. CASE lease' = Without({Service}, lease) /\ fence' = FALSE
             /\ certificate' = NoGeneration /\ UNCHANGED degraded
    BY <2>0, <2>2
  <2>3. CASE lease' \in {lease, NoOne} /\ degraded' = TRUE
             /\ UNCHANGED <<fence, certificate>>
    BY <2>0, <2>3
  <2> QED
    BY <1>12, <2>1, <2>2, <2>3 DEF VerifyCompare, EndFence
<1>13. ASSUME Finalize
      PROVE  RecoveryInv'
  <2>0. pc[Service] = "idle" /\ fence /\ ~ degraded /\ UNCHANGED pc
    BY <1>13 DEF Finalize
  <2>1. CASE fence' = FALSE /\ certificate' = NoGeneration /\ UNCHANGED degraded
    BY <2>0, <2>1
  <2>2. CASE degraded' = TRUE /\ UNCHANGED <<fence, certificate>>
    BY <2>0, <2>2
  <2> QED
    BY <1>13, <2>1, <2>2 DEF Finalize, EndFence
<1>14. ASSUME Load \/ Serve
      PROVE  RecoveryInv'
  BY <1>14 DEF Load, Serve, Parity
<1>15. ASSUME Close
      PROVE  RecoveryInv'
  BY <1>15 DEF Close, Pruned, EndFence, Without
<1>16. ASSUME Perish
      PROVE  RecoveryInv'
  BY <1>16 DEF Perish, Without
<1>17. ASSUME NEW u \in Update, SubmitUpdate(u)
      PROVE  RecoveryInv'
  BY <1>17 DEF SubmitUpdate, Admit, JobOf
<1>18. ASSUME NEW a \in Analysis, Request(a)
      PROVE  RecoveryInv'
  BY <1>18 DEF Request, StandInLine
<1>19. ASSUME NEW a \in Analysis, AnalysisEnter(a)
      PROVE  RecoveryInv'
  BY <1>19 DEF AnalysisEnter, Enter
<1>20. ASSUME NEW a \in Analysis, AnalysisFails(a)
      PROVE  RecoveryInv'
  BY <1>20 DEF AnalysisFails
<1>21. ASSUME NEW a \in Analysis, Connect(a)
      PROVE  RecoveryInv'
  BY <1>21 DEF Connect
<1>22. ASSUME NEW a \in Analysis, CommitAnalysis(a)
      PROVE  RecoveryInv'
  BY <1>22 DEF CommitAnalysis, Record
<1>23. ASSUME NEW a \in Analysis, SubmitPublish(a)
      PROVE  RecoveryInv'
  BY <1>23 DEF SubmitPublish, Admit, JobOf, Settle
<1>24. ASSUME NEW a \in Analysis, Poll(a)
      PROVE  RecoveryInv'
  BY <1>24 DEF Poll, Settle
<1>25. ASSUME NEW a \in Analysis, Unconfirmed(a)
      PROVE  RecoveryInv'
  BY <1>25 DEF Unconfirmed, Settle
<1>26. ASSUME NEW a \in Analysis, Release(a)
      PROVE  RecoveryInv'
  BY <1>26 DEF Release, Return, Without
<1>27. ASSUME NEW a \in Analysis, AnalysisDies(a)
      PROVE  RecoveryInv'
  BY <1>27 DEF AnalysisDies, Return, Without
<1>28. ASSUME DesktopRead
      PROVE  RecoveryInv'
  BY <1>28 DEF DesktopRead
<1>29. ASSUME DesktopCompare
      PROVE  RecoveryInv'
  BY <1>29 DEF DesktopCompare
<1>30. ASSUME DesktopEnter
      PROVE  RecoveryInv'
  BY <1>30 DEF DesktopEnter, EnterAtOnce
<1>31. ASSUME DesktopSkips
      PROVE  RecoveryInv'
  BY <1>31 DEF DesktopSkips
<1>32. ASSUME DesktopPublish
      PROVE  RecoveryInv'
  BY <1>32 DEF DesktopPublish
<1>33. ASSUME DesktopRelease
      PROVE  RecoveryInv'
  BY <1>33 DEF DesktopRelease, Without
<1> QED
  BY <1>1, <1>2, <1>3, <1>4, <1>5, <1>6, <1>7, <1>8, <1>9, <1>10, <1>11, <1>12, <1>13,
     <1>14, <1>15, <1>16, <1>17, <1>18, <1>19, <1>20, <1>21, <1>22, <1>23, <1>24, <1>25,
     <1>26, <1>27, <1>28, <1>29, <1>30, <1>31, <1>32, <1>33, ZenonT(40)
  DEF Next, WorkerStep, ServiceStep, AnalysisStep, Settling, ThreadStep, DesktopStep

(* Jobs are admitted only without the fence, and it rises only when there  *)
(* is none.                                                                *)
LEMMA FencedIsQuietStep == IInv /\ [Next]_vars => FencedIsQuiet'
<1> SUFFICES ASSUME IInv, [Next]_vars
             PROVE  FencedIsQuiet'
  OBVIOUS
<1>0. TypeOK /\ PointsInv /\ AsleepInv /\ RecoveryInv /\ FencedIsQuiet /\ RunningInv
  BY DEF IInv
<1> USE <1>0, ServerAssumption
    DEF PointsInv, AsleepInv, RecoveryInv, FencedIsQuiet, RunningInv, Running, Live,
        Answering, Thread, Actor, disk, server, queue, recovery, threads, clients, Goto,
        Concludes
<1>1. CASE UNCHANGED vars
  BY <1>1 DEF vars, Reaches, Committed, HoldsLease
<1>2. ASSUME WorkerLine \/ WorkerEnter \/ WorkerStopped
      PROVE  FencedIsQuiet'
  BY <1>2 DEF WorkerLine, WorkerEnter, WorkerStopped, StandInLine, Enter, Without
<1>3. ASSUME StartJob \/ FinishJob
      PROVE  FencedIsQuiet'
  BY <1>3 DEF StartJob, FinishJob, Pruned
<1>4. ASSUME WorkerPublish \/ DirectPublish
      PROVE  FencedIsQuiet'
  BY <1>4 DEF WorkerPublish, DirectPublish, Publish, Answer
<1>5. ASSUME NEW t \in Thread, Execute(t)
      PROVE  FencedIsQuiet'
  BY <1>5 DEF Execute, Quit
<1>6. ASSUME NEW t \in Thread, SaveConflict(t)
      PROVE  FencedIsQuiet'
  BY <1>6 DEF SaveConflict, Quit
<1>7. ASSUME NEW t \in Thread, SaveFails(t)
      PROVE  FencedIsQuiet'
  BY <1>7 DEF SaveFails, Quit
<1>8. ASSUME NEW t \in Thread, Leave(t)
      PROVE  FencedIsQuiet'
  BY <1>8 DEF Leave, Without
<1>9. ASSUME NEW t \in Thread, Save(t)
      PROVE  FencedIsQuiet'
  BY <1>9 DEF Save, Record, MayFollow
<1>10. ASSUME NEW t \in Thread, Install(t)
      PROVE  FencedIsQuiet'
  BY <1>10 DEF Install, Quit
<1>11. ASSUME DirectUpdate \/ VerifyFence \/ VerifyAdmit \/ VerifyRefused
      PROVE  FencedIsQuiet'
  BY <1>11 DEF DirectUpdate, VerifyFence, VerifyAdmit, VerifyRefused, EnterAtOnce,
             Drained
<1>12. ASSUME VerifyCompare
      PROVE  FencedIsQuiet'
  BY <1>12 DEF VerifyCompare, EndFence, Agrees, Without
<1>13. ASSUME Finalize
      PROVE  FencedIsQuiet'
  BY <1>13 DEF Finalize, EndFence, Without
<1>14. ASSUME Load \/ Serve
      PROVE  FencedIsQuiet'
  BY <1>14 DEF Load, Serve, Parity
<1>15. ASSUME Close
      PROVE  FencedIsQuiet'
  BY <1>15 DEF Close, Pruned, EndFence, Without
<1>16. ASSUME Perish
      PROVE  FencedIsQuiet'
  BY <1>16 DEF Perish, Without
<1>17. ASSUME NEW u \in Update, SubmitUpdate(u)
      PROVE  FencedIsQuiet'
  BY <1>17 DEF SubmitUpdate, Admit, JobOf
<1>18. ASSUME NEW a \in Analysis, Request(a)
      PROVE  FencedIsQuiet'
  BY <1>18 DEF Request, StandInLine
<1>19. ASSUME NEW a \in Analysis, AnalysisEnter(a)
      PROVE  FencedIsQuiet'
  BY <1>19 DEF AnalysisEnter, Enter
<1>20. ASSUME NEW a \in Analysis, AnalysisFails(a)
      PROVE  FencedIsQuiet'
  BY <1>20 DEF AnalysisFails
<1>21. ASSUME NEW a \in Analysis, Connect(a)
      PROVE  FencedIsQuiet'
  BY <1>21 DEF Connect
<1>22. ASSUME NEW a \in Analysis, CommitAnalysis(a)
      PROVE  FencedIsQuiet'
  BY <1>22 DEF CommitAnalysis, Record
<1>23. ASSUME NEW a \in Analysis, SubmitPublish(a)
      PROVE  FencedIsQuiet'
  BY <1>23 DEF SubmitPublish, Admit, JobOf, Settle
<1>24. ASSUME NEW a \in Analysis, Poll(a)
      PROVE  FencedIsQuiet'
  BY <1>24 DEF Poll, Settle
<1>25. ASSUME NEW a \in Analysis, Unconfirmed(a)
      PROVE  FencedIsQuiet'
  BY <1>25 DEF Unconfirmed, Settle
<1>26. ASSUME NEW a \in Analysis, Release(a)
      PROVE  FencedIsQuiet'
  BY <1>26 DEF Release, Return, Without
<1>27. ASSUME NEW a \in Analysis, AnalysisDies(a)
      PROVE  FencedIsQuiet'
  BY <1>27 DEF AnalysisDies, Return, Without
<1>28. ASSUME DesktopRead
      PROVE  FencedIsQuiet'
  BY <1>28 DEF DesktopRead
<1>29. ASSUME DesktopCompare
      PROVE  FencedIsQuiet'
  BY <1>29 DEF DesktopCompare
<1>30. ASSUME DesktopEnter
      PROVE  FencedIsQuiet'
  BY <1>30 DEF DesktopEnter, EnterAtOnce
<1>31. ASSUME DesktopSkips
      PROVE  FencedIsQuiet'
  BY <1>31 DEF DesktopSkips
<1>32. ASSUME DesktopPublish
      PROVE  FencedIsQuiet'
  BY <1>32 DEF DesktopPublish
<1>33. ASSUME DesktopRelease
      PROVE  FencedIsQuiet'
  BY <1>33 DEF DesktopRelease, Without
<1> QED
  BY <1>1, <1>2, <1>3, <1>4, <1>5, <1>6, <1>7, <1>8, <1>9, <1>10, <1>11, <1>12, <1>13,
     <1>14, <1>15, <1>16, <1>17, <1>18, <1>19, <1>20, <1>21, <1>22, <1>23, <1>24, <1>25,
     <1>26, <1>27, <1>28, <1>29, <1>30, <1>31, <1>32, <1>33
  DEF Next, WorkerStep, ServiceStep, AnalysisStep, Settling, ThreadStep, DesktopStep

(* Every event is appended with the installation of its, higher, revision. *)
LEMMA JournalRisesStep == IInv /\ [Next]_vars => JournalRises'
<1> SUFFICES ASSUME IInv, [Next]_vars
             PROVE  JournalRises'
  OBVIOUS
<1>0. TypeOK /\ AsleepInv /\ JournalRises /\ ExecutionInv
  BY DEF IInv
<1> USE <1>0
    DEF AsleepInv, JournalRises, Thread, Actor, disk, server, queue, recovery, threads,
        clients, Goto, Concludes
<1>1. CASE UNCHANGED vars
  BY <1>1 DEF vars, Running, Reaches, Committed, HoldsLease
<1>2. ASSUME WorkerLine \/ WorkerEnter \/ WorkerStopped
      PROVE  JournalRises'
  BY <1>2 DEF WorkerLine, WorkerEnter, WorkerStopped, StandInLine, Enter, Without
<1>3. ASSUME StartJob \/ FinishJob
      PROVE  JournalRises'
  BY <1>3 DEF StartJob, FinishJob, Pruned
<1>4. ASSUME WorkerPublish \/ DirectPublish
      PROVE  JournalRises'
  <2>1. \/ UNCHANGED <<ram, events>>
        \/ ram' = Committed /\ Committed.rev > ram.rev /\ events' = Append(events, Committed.rev)
    BY <1>4, PublishInstalls DEF WorkerPublish, DirectPublish
  <2>2. CASE UNCHANGED <<ram, events>>
    BY <2>2
  <2>3. CASE ram' = Committed /\ Committed.rev > ram.rev /\ events' = Append(events, Committed.rev)
    <3>1. Committed.rev \in 1 .. MaxRevision /\ ram.rev < Committed.rev
      <4>1. Committed.rev \in 0 .. MaxRevision /\ ram.rev \in 0 .. MaxRevision
        BY GenerationType DEF TypeOK, Generation
      <4> QED
        BY <2>3, <4>1, Bounds
    <3> QED
      BY <2>3, <3>1, EventsRise
  <2> QED
    BY <2>1, <2>2, <2>3
<1>5. ASSUME NEW t \in Thread, Execute(t)
      PROVE  JournalRises'
  BY <1>5 DEF Execute, Quit
<1>6. ASSUME NEW t \in Thread, SaveConflict(t)
      PROVE  JournalRises'
  BY <1>6 DEF SaveConflict, Quit
<1>7. ASSUME NEW t \in Thread, SaveFails(t)
      PROVE  JournalRises'
  BY <1>7 DEF SaveFails, Quit
<1>8. ASSUME NEW t \in Thread, Leave(t)
      PROVE  JournalRises'
  BY <1>8 DEF Leave, Without
<1>9. ASSUME NEW t \in Thread, Save(t)
      PROVE  JournalRises'
  BY <1>9 DEF Save, Record, MayFollow
<1>10. ASSUME NEW t \in Thread, Install(t)
      PROVE  JournalRises'
  <2>1. CASE ram = base[t]
    <3>1. /\ ram' = [rev |-> base[t].rev + 1, sid |-> history[base[t].rev + 1].sid]
          /\ events' = Append(events, base[t].rev + 1)
      BY <1>10, <2>1 DEF Install
    <3>2. base[t].rev \in Nat /\ Len(history) = base[t].rev + 1
      <4>0. base[t] \in Generation
        BY DEF TypeOK
      <4>1. base[t].rev \in Nat
        BY <4>0, Bounds DEF Generation
      <4> QED
        BY <1>10, <4>1 DEF Install, ExecutionInv
    <3>3. base[t].rev + 1 \in 1 .. MaxRevision /\ ram.rev < base[t].rev + 1
      BY <2>1, <3>2, HistoryType, Bounds
    <3> QED
      BY <3>1, <3>3, EventsRise
  <2>2. CASE ram # base[t]
    BY <1>10, <2>2 DEF Install
  <2> QED
    BY <2>1, <2>2
<1>11. ASSUME DirectUpdate \/ VerifyFence \/ VerifyAdmit \/ VerifyRefused
      PROVE  JournalRises'
  BY <1>11 DEF DirectUpdate, VerifyFence, VerifyAdmit, VerifyRefused, EnterAtOnce,
             Drained
<1>12. ASSUME VerifyCompare
      PROVE  JournalRises'
  BY <1>12 DEF VerifyCompare, EndFence, Agrees, Without
<1>13. ASSUME Finalize
      PROVE  JournalRises'
  BY <1>13 DEF Finalize, EndFence, Without
<1>14. ASSUME Load \/ Serve
      PROVE  JournalRises'
  BY <1>14 DEF Load, Serve, Parity
<1>15. ASSUME Close
      PROVE  JournalRises'
  BY <1>15 DEF Close, Pruned, EndFence, Without
<1>16. ASSUME Perish
      PROVE  JournalRises'
  BY <1>16 DEF Perish, Without
<1>17. ASSUME NEW u \in Update, SubmitUpdate(u)
      PROVE  JournalRises'
  BY <1>17 DEF SubmitUpdate, Admit, JobOf
<1>18. ASSUME NEW a \in Analysis, Request(a)
      PROVE  JournalRises'
  BY <1>18 DEF Request, StandInLine
<1>19. ASSUME NEW a \in Analysis, AnalysisEnter(a)
      PROVE  JournalRises'
  BY <1>19 DEF AnalysisEnter, Enter
<1>20. ASSUME NEW a \in Analysis, AnalysisFails(a)
      PROVE  JournalRises'
  BY <1>20 DEF AnalysisFails
<1>21. ASSUME NEW a \in Analysis, Connect(a)
      PROVE  JournalRises'
  BY <1>21 DEF Connect
<1>22. ASSUME NEW a \in Analysis, CommitAnalysis(a)
      PROVE  JournalRises'
  BY <1>22 DEF CommitAnalysis, Record
<1>23. ASSUME NEW a \in Analysis, SubmitPublish(a)
      PROVE  JournalRises'
  BY <1>23 DEF SubmitPublish, Admit, JobOf, Settle
<1>24. ASSUME NEW a \in Analysis, Poll(a)
      PROVE  JournalRises'
  BY <1>24 DEF Poll, Settle
<1>25. ASSUME NEW a \in Analysis, Unconfirmed(a)
      PROVE  JournalRises'
  BY <1>25 DEF Unconfirmed, Settle
<1>26. ASSUME NEW a \in Analysis, Release(a)
      PROVE  JournalRises'
  BY <1>26 DEF Release, Return, Without
<1>27. ASSUME NEW a \in Analysis, AnalysisDies(a)
      PROVE  JournalRises'
  BY <1>27 DEF AnalysisDies, Return, Without
<1>28. ASSUME DesktopRead
      PROVE  JournalRises'
  BY <1>28 DEF DesktopRead
<1>29. ASSUME DesktopCompare
      PROVE  JournalRises'
  BY <1>29 DEF DesktopCompare
<1>30. ASSUME DesktopEnter
      PROVE  JournalRises'
  BY <1>30 DEF DesktopEnter, EnterAtOnce
<1>31. ASSUME DesktopSkips
      PROVE  JournalRises'
  BY <1>31 DEF DesktopSkips
<1>32. ASSUME DesktopPublish
      PROVE  JournalRises'
  BY <1>32 DEF DesktopPublish
<1>33. ASSUME DesktopRelease
      PROVE  JournalRises'
  BY <1>33 DEF DesktopRelease, Without
<1> QED
  BY <1>1, <1>2, <1>3, <1>4, <1>5, <1>6, <1>7, <1>8, <1>9, <1>10, <1>11, <1>12, <1>13,
     <1>14, <1>15, <1>16, <1>17, <1>18, <1>19, <1>20, <1>21, <1>22, <1>23, <1>24, <1>25,
     <1>26, <1>27, <1>28, <1>29, <1>30, <1>31, <1>32, <1>33
  DEF Next, WorkerStep, ServiceStep, AnalysisStep, Settling, ThreadStep, DesktopStep

(* No committer holds the lease of the service, and no installer passes    *)
(* the fence.                                                              *)
LEMMA CertifiedFrozenStep == IInv /\ [Next]_vars => CertifiedFrozen'
<1> SUFFICES ASSUME IInv, [Next]_vars
             PROVE  CertifiedFrozen'
  OBVIOUS
<1>0. TypeOK /\ PointsInv /\ AsleepInv /\ RecoveryInv /\ CertifiedFrozen /\
      LeaseAccounted /\ ExecutionInv
  BY DEF IInv
<1> USE <1>0, ServerAssumption
    DEF PointsInv, AsleepInv, TypeOK, RecoveryInv, LeaseAccounted, HoldsLease,
        CertifiedFrozen, ExecutionInv, NoGeneration, Answering, Committed, Thread,
        Actor, disk, server, queue, recovery, threads, clients, Goto, Concludes
<1>1. CASE UNCHANGED vars
  BY <1>1 DEF vars, Running, Reaches
<1>2. ASSUME WorkerLine \/ WorkerEnter \/ WorkerStopped
      PROVE  CertifiedFrozen'
  BY <1>2 DEF WorkerLine, WorkerEnter, WorkerStopped, StandInLine, Enter, Without
<1>3. ASSUME StartJob \/ FinishJob
      PROVE  CertifiedFrozen'
  BY <1>3 DEF StartJob, FinishJob, Pruned
<1>4. ASSUME WorkerPublish \/ DirectPublish
      PROVE  CertifiedFrozen'
  BY <1>4 DEF WorkerPublish, DirectPublish, Publish, Answer
<1>5. ASSUME NEW t \in Thread, Execute(t)
      PROVE  CertifiedFrozen'
  BY <1>5 DEF Execute, Quit
<1>6. ASSUME NEW t \in Thread, SaveConflict(t)
      PROVE  CertifiedFrozen'
  BY <1>6 DEF SaveConflict, Quit
<1>7. ASSUME NEW t \in Thread, SaveFails(t)
      PROVE  CertifiedFrozen'
  BY <1>7 DEF SaveFails, Quit
<1>8. ASSUME NEW t \in Thread, Leave(t)
      PROVE  CertifiedFrozen'
  BY <1>8 DEF Leave, Without
<1>9. ASSUME NEW t \in Thread, Save(t)
      PROVE  CertifiedFrozen'
  BY <1>9 DEF Save, Record, MayFollow
<1>10. ASSUME NEW t \in Thread, Install(t)
      PROVE  CertifiedFrozen'
  BY <1>10 DEF Install, Quit
<1>11. ASSUME DirectUpdate \/ VerifyFence \/ VerifyAdmit \/ VerifyRefused
      PROVE  CertifiedFrozen'
  BY <1>11 DEF DirectUpdate, VerifyFence, VerifyAdmit, VerifyRefused, EnterAtOnce,
             Drained
<1>12. ASSUME VerifyCompare
      PROVE  CertifiedFrozen'
  BY <1>12 DEF VerifyCompare, EndFence, Agrees, Without
<1>13. ASSUME Finalize
      PROVE  CertifiedFrozen'
  BY <1>13 DEF Finalize, EndFence, Without
<1>14. ASSUME Load \/ Serve
      PROVE  CertifiedFrozen'
  BY <1>14 DEF Load, Serve, Parity
<1>15. ASSUME Close
      PROVE  CertifiedFrozen'
  BY <1>15 DEF Close, Pruned, EndFence, Without
<1>16. ASSUME Perish
      PROVE  CertifiedFrozen'
  BY <1>16 DEF Perish, Without
<1>17. ASSUME NEW u \in Update, SubmitUpdate(u)
      PROVE  CertifiedFrozen'
  BY <1>17 DEF SubmitUpdate, Admit, JobOf
<1>18. ASSUME NEW a \in Analysis, Request(a)
      PROVE  CertifiedFrozen'
  BY <1>18 DEF Request, StandInLine
<1>19. ASSUME NEW a \in Analysis, AnalysisEnter(a)
      PROVE  CertifiedFrozen'
  BY <1>19 DEF AnalysisEnter, Enter
<1>20. ASSUME NEW a \in Analysis, AnalysisFails(a)
      PROVE  CertifiedFrozen'
  BY <1>20 DEF AnalysisFails
<1>21. ASSUME NEW a \in Analysis, Connect(a)
      PROVE  CertifiedFrozen'
  BY <1>21 DEF Connect
<1>22. ASSUME NEW a \in Analysis, CommitAnalysis(a)
      PROVE  CertifiedFrozen'
  BY <1>22 DEF CommitAnalysis, Record
<1>23. ASSUME NEW a \in Analysis, SubmitPublish(a)
      PROVE  CertifiedFrozen'
  BY <1>23 DEF SubmitPublish, Admit, JobOf, Settle
<1>24. ASSUME NEW a \in Analysis, Poll(a)
      PROVE  CertifiedFrozen'
  BY <1>24 DEF Poll, Settle
<1>25. ASSUME NEW a \in Analysis, Unconfirmed(a)
      PROVE  CertifiedFrozen'
  BY <1>25 DEF Unconfirmed, Settle
<1>26. ASSUME NEW a \in Analysis, Release(a)
      PROVE  CertifiedFrozen'
  BY <1>26 DEF Release, Return, Without
<1>27. ASSUME NEW a \in Analysis, AnalysisDies(a)
      PROVE  CertifiedFrozen'
  BY <1>27 DEF AnalysisDies, Return, Without
<1>28. ASSUME DesktopRead
      PROVE  CertifiedFrozen'
  BY <1>28 DEF DesktopRead
<1>29. ASSUME DesktopCompare
      PROVE  CertifiedFrozen'
  BY <1>29 DEF DesktopCompare
<1>30. ASSUME DesktopEnter
      PROVE  CertifiedFrozen'
  BY <1>30 DEF DesktopEnter, EnterAtOnce
<1>31. ASSUME DesktopSkips
      PROVE  CertifiedFrozen'
  BY <1>31 DEF DesktopSkips
<1>32. ASSUME DesktopPublish
      PROVE  CertifiedFrozen'
  BY <1>32 DEF DesktopPublish
<1>33. ASSUME DesktopRelease
      PROVE  CertifiedFrozen'
  BY <1>33 DEF DesktopRelease, Without
<1> QED
  BY <1>1, <1>2, <1>3, <1>4, <1>5, <1>6, <1>7, <1>8, <1>9, <1>10, <1>11, <1>12, <1>13,
     <1>14, <1>15, <1>16, <1>17, <1>18, <1>19, <1>20, <1>21, <1>22, <1>23, <1>24, <1>25,
     <1>26, <1>27, <1>28, <1>29, <1>30, <1>31, <1>32, <1>33
  DEF Next, WorkerStep, ServiceStep, AnalysisStep, Settling, ThreadStep, DesktopStep

(* An analysis has a goal only while it holds the lease, so that nobody    *)
(* commits after it.                                                       *)
LEMMA GoalStep == IInv /\ [Next]_vars => GoalInv'
<1> SUFFICES ASSUME IInv, [Next]_vars
             PROVE  GoalInv'
  OBVIOUS
<1>0. TypeOK /\ PointsInv /\ AsleepInv /\ LeaseAccounted /\ GoalInv
  BY DEF IInv
<1> USE <1>0, ServerAssumption
    DEF PointsInv, AsleepInv, TypeOK, LeaseAccounted, HoldsLease, GoalInv, Committed,
        NoGeneration, Thread, Actor, disk, server, queue, recovery, threads, clients,
        Goto, Concludes
<1>1. CASE UNCHANGED vars
  BY <1>1 DEF vars, Running, Reaches
<1>2. ASSUME WorkerLine \/ WorkerEnter \/ WorkerStopped
      PROVE  GoalInv'
  BY <1>2, SMTT(40) DEF WorkerLine, WorkerEnter, WorkerStopped, StandInLine, Enter, Without
<1>3. ASSUME StartJob \/ FinishJob
      PROVE  GoalInv'
  BY <1>3 DEF StartJob, FinishJob, Pruned
<1>4. ASSUME WorkerPublish \/ DirectPublish
      PROVE  GoalInv'
  BY <1>4, SMTT(40) DEF WorkerPublish, DirectPublish, Publish, Answer
<1>5. ASSUME NEW t \in Thread, Execute(t)
      PROVE  GoalInv'
  BY <1>5 DEF Execute, Quit
<1>6. ASSUME NEW t \in Thread, SaveConflict(t)
      PROVE  GoalInv'
  BY <1>6 DEF SaveConflict, Quit
<1>7. ASSUME NEW t \in Thread, SaveFails(t)
      PROVE  GoalInv'
  BY <1>7 DEF SaveFails, Quit
<1>8. ASSUME NEW t \in Thread, Leave(t)
      PROVE  GoalInv'
  BY <1>8, SMTT(40) DEF Leave, Without
<1>9. ASSUME NEW t \in Thread, Save(t)
      PROVE  GoalInv'
  BY <1>9 DEF Save, Record, MayFollow
<1>10. ASSUME NEW t \in Thread, Install(t)
      PROVE  GoalInv'
  BY <1>10, SMTT(40) DEF Install, Quit
<1>11. ASSUME DirectUpdate \/ VerifyFence \/ VerifyAdmit \/ VerifyRefused
      PROVE  GoalInv'
  BY <1>11, SMTT(40) DEF DirectUpdate, VerifyFence, VerifyAdmit, VerifyRefused, EnterAtOnce,
             Drained
<1>12. ASSUME VerifyCompare
      PROVE  GoalInv'
  BY <1>12 DEF VerifyCompare, EndFence, Agrees, Without
<1>13. ASSUME Finalize
      PROVE  GoalInv'
  BY <1>13 DEF Finalize, EndFence, Without
<1>14. ASSUME Load
      PROVE  GoalInv'
  <2>1. starts' = starts + 1 /\ UNCHANGED <<history, goal, contact, pc, verdict>>
    BY <1>14 DEF Load
  <2>2. \A a \in Analysis : contact[a] \in Nat /\ contact[a] <= starts /\ starts \in Nat
    BY Bounds
  <2>3. \A a \in Analysis : contact[a] < starts + 1
    BY <2>2
  <2> QED
    BY <2>1, <2>2, <2>3
<1>15. ASSUME Serve
      PROVE  GoalInv'
  <2>1. UNCHANGED <<history, starts, goal, contact, pc, verdict>> /\ service' # "loading"
    BY <1>15 DEF Serve
  <2> QED
    BY <2>1
<1>16. ASSUME Close
      PROVE  GoalInv'
  BY <1>16 DEF Close, Pruned, EndFence, Without
<1>17. ASSUME Perish
      PROVE  GoalInv'
  BY <1>17 DEF Perish, Without
<1>18. ASSUME NEW u \in Update, SubmitUpdate(u)
      PROVE  GoalInv'
  BY <1>18 DEF SubmitUpdate, Admit, JobOf
<1>19. ASSUME NEW a \in Analysis, Request(a)
      PROVE  GoalInv'
  BY <1>19 DEF Request, StandInLine
<1>20. ASSUME NEW a \in Analysis, AnalysisEnter(a)
      PROVE  GoalInv'
  BY <1>20 DEF AnalysisEnter, Enter
<1>21. ASSUME NEW a \in Analysis, AnalysisFails(a)
      PROVE  GoalInv'
  BY <1>21 DEF AnalysisFails
<1>22. ASSUME NEW a \in Analysis, Connect(a)
      PROVE  GoalInv'
  BY <1>22, SMTT(40) DEF Connect
<1>23. ASSUME NEW a \in Analysis, CommitAnalysis(a)
      PROVE  GoalInv'
  <2>1. \A b \in Analysis : b # a => goal[b] = NoGeneration
    BY <1>23 DEF CommitAnalysis
  <2>2. Committed' = [rev |-> Len(history) + 1, sid |-> Len(history) + 1]
    <3>1. history' = Append(history, [sid |-> Len(history) + 1, from |-> 0, by |-> NoKey])
      BY <1>23 DEF CommitAnalysis, Record
    <3>2. Len(history') = Len(history) + 1 /\ history' # <<>>
          /\ history'[Len(history')].sid = Len(history) + 1
      <4>1. Len(history') = Len(history) + 1
        BY <3>1
      <4>2. history'[Len(history) + 1] = [sid |-> Len(history) + 1, from |-> 0, by |-> NoKey]
        BY <3>1
      <4>3. Len(history') # 0
        BY <4>1, HistoryType, Bounds
      <4> QED
        BY <4>1, <4>2, <4>3
    <3> QED
      BY <3>2
  <2>3. /\ goal' = [goal EXCEPT ![a] = Committed'] /\ pc' = [pc EXCEPT ![a] = "connect"]
        /\ UNCHANGED <<contact, starts, service, verdict>>
    BY <1>23, <2>2 DEF CommitAnalysis
  <2>4. Committed'.sid # 0
    BY <2>2, HistoryType, Bounds
  <2>5. goal'[a] = Committed' /\ \A b \in Analysis : b # a => goal'[b] = NoGeneration
    BY <2>1, <2>3
  <2>6. pc[a] = "analyse" /\ pc'[a] = "connect" /\ \A b \in Analysis : b # a => pc'[b] = pc[b]
    BY <1>23, <2>3 DEF CommitAnalysis
  <2> HIDE DEF Committed, NoGeneration
  <2> QED
    BY <2>3, <2>4, <2>5, <2>6
<1>24. ASSUME NEW a \in Analysis, SubmitPublish(a)
      PROVE  GoalInv'
  BY <1>24, SMTT(40) DEF SubmitPublish, Admit, JobOf, Settle
<1>25. ASSUME NEW a \in Analysis, Poll(a)
      PROVE  GoalInv'
  BY <1>25 DEF Poll, Settle
<1>26. ASSUME NEW a \in Analysis, Unconfirmed(a)
      PROVE  GoalInv'
  BY <1>26 DEF Unconfirmed, Settle
<1>27. ASSUME NEW a \in Analysis, Release(a)
      PROVE  GoalInv'
  BY <1>27 DEF Release, Return, Without
<1>28. ASSUME NEW a \in Analysis, AnalysisDies(a)
      PROVE  GoalInv'
  BY <1>28, SMTT(40) DEF AnalysisDies, Return, Without
<1>29. ASSUME DesktopRead
      PROVE  GoalInv'
  BY <1>29 DEF DesktopRead
<1>30. ASSUME DesktopCompare
      PROVE  GoalInv'
  BY <1>30 DEF DesktopCompare
<1>31. ASSUME DesktopEnter
      PROVE  GoalInv'
  BY <1>31 DEF DesktopEnter, EnterAtOnce
<1>32. ASSUME DesktopSkips
      PROVE  GoalInv'
  BY <1>32 DEF DesktopSkips
<1>33. ASSUME DesktopPublish
      PROVE  GoalInv'
  BY <1>33 DEF DesktopPublish
<1>34. ASSUME DesktopRelease
      PROVE  GoalInv'
  BY <1>34 DEF DesktopRelease, Without
<1> QED
  BY <1>1, <1>2, <1>3, <1>4, <1>5, <1>6, <1>7, <1>8, <1>9, <1>10, <1>11, <1>12, <1>13,
     <1>14, <1>15, <1>16, <1>17, <1>18, <1>19, <1>20, <1>21, <1>22, <1>23, <1>24, <1>25,
     <1>26, <1>27, <1>28, <1>29, <1>30, <1>31, <1>32, <1>33, <1>34, ZenonT(40)
  DEF Next, WorkerStep, ServiceStep, AnalysisStep, Settling, ThreadStep, DesktopStep

(* A verdict of success follows a job that completed, which followed an    *)
(* installation.                                                           *)
LEMMA ReceiptStep == IInv /\ [Next]_vars => ReceiptInv'
<1> SUFFICES ASSUME IInv, [Next]_vars
             PROVE  ReceiptInv'
  OBVIOUS
<1>0. TypeOK /\ PointsInv /\ AsleepInv /\ GoalInv /\ ReceiptInv /\ RunningInv /\
      ExecutionInv /\ DurableInv
  BY DEF IInv
<1>T. jobs' \subseteq Job /\ goal' \in [Analysis -> Generation]
  BY TypeStep DEF TypeOK
<1> USE <1>0
    DEF disk, server, queue, recovery, threads, clients, Goto, Concludes
<1>1. CASE UNCHANGED vars
  BY <1>1 DEF vars, ReceiptInv, Running, Reached, Reaches
<1>2. ASSUME WorkerLine \/ WorkerEnter \/ WorkerStopped
      PROVE  ReceiptInv'
  <2>1. \A g \in Generation : Reached(g) => Reached(g)'
    BY <1>2 DEF Reached, WorkerLine, WorkerEnter, WorkerStopped, StandInLine, Enter, Without
  <2>2. \A j \in jobs' : j \in jobs \/ j.state \notin {"running", "completed"}
    BY <1>2 DEF WorkerLine, WorkerEnter, WorkerStopped, StandInLine, Enter, Without
  <2>3. \/ pc'[Worker] = pc[Worker] /\ verdict'[Worker] = verdict[Worker]
        \/ pc[Worker] \notin {"publish", "report"} /\ pc'[Worker] # "publish"
    BY <1>2, ServerAssumption
    DEF TypeOK, Thread, Actor, WorkerLine, WorkerEnter, WorkerStopped, StandInLine, Enter,
        Without
  <2>4. \A b \in Analysis : verdict'[b] = "success" /\ Reaches(b)' =>
          verdict[b] = "success" /\ Reaches(b) /\ goal'[b] = goal[b]
    BY <1>2, ServerAssumption
    DEF TypeOK, Thread, Actor, Reaches, GoalInv, WorkerLine, WorkerEnter, WorkerStopped,
        StandInLine, Enter, Without
  <2> QED
    BY <1>0, <1>T, <2>1, <2>2, <2>3, <2>4, ReceiptKept
<1>3. ASSUME StartJob
      PROVE  ReceiptInv'
  <2>1. PICK j \in jobs :
          /\ j.state = "queued" /\ jobs' = (jobs \ {j}) \cup {[j EXCEPT !.state = "running"]}
          /\ Goto(Worker, IF j.key \in Update THEN "line" ELSE "publish")
    BY <1>3 DEF StartJob
  <2>2. UNCHANGED <<ram, verdict, goal, contact, service, starts>> /\ Running = {} /\ j \in Job
    BY <1>3 DEF StartJob, RunningInv, TypeOK
  <2>3. Running' = {[j EXCEPT !.state = "running"]} /\ [j EXCEPT !.state = "running"].key = j.key
    BY <2>1, <2>2 DEF Running, Job, TypeOK
  <2>4. pc'[Worker] = IF j.key \in Update THEN "line" ELSE "publish"
    BY <2>1 DEF TypeOK, Actor, Thread
  <2>5. \A k \in jobs' : k.state = "completed" => k \in jobs
    BY <2>1, <2>2 DEF Job
  <2> QED
    BY <2>2, <2>3, <2>4, <2>5 DEF ReceiptInv, Reached, Reaches
<1>4. ASSUME FinishJob
      PROVE  ReceiptInv'
  <2>1. PICK j \in Running :
          jobs' = Pruned((jobs \ {j}) \cup {[j EXCEPT !.state =
                    IF Succeeds(verdict[Worker]) THEN "completed" ELSE "failed"]})
    BY <1>4 DEF FinishJob
  <2>2. /\ UNCHANGED <<ram, goal, contact, service, starts>> /\ j \in jobs /\ j \in Job
        /\ pc[Worker] = "report" /\ \A a \in Analysis : verdict'[a] = verdict[a]
    BY <1>4, <2>1, ServerAssumption DEF FinishJob, Running, TypeOK
  <2>3. Running' = {}
    BY <2>1, <2>2 DEF Pruned, Job, Running, RunningInv, TypeOK
  <2>4. ASSUME NEW k \in jobs', k.key \notin Update, k.state = "completed"
        PROVE  Reached(k.key)
    <3>1. k \in jobs \/ (k.key = j.key /\ Succeeds(verdict[Worker]))
      BY <2>1, <2>2, <2>4 DEF Pruned, Job
    <3> QED
      BY <2>1, <2>2, <2>4, <3>1 DEF ReceiptInv
  <2> QED
    BY <2>2, <2>3, <2>4 DEF ReceiptInv, Reached, Reaches
<1>5. ASSUME WorkerPublish
      PROVE  ReceiptInv'
  <2>1. PICK j \in Running : Publish(j.key) /\ Concludes(Worker, Answer(j.key))
    BY <1>5 DEF WorkerPublish
  <2>2. /\ pc[Worker] = "publish" /\ pc'[Worker] = "report"
        /\ UNCHANGED <<jobs, goal, service, contact, starts>>
        /\ verdict'[Worker] = Answer(j.key) /\ \A a \in Analysis : verdict'[a] = verdict[a]
    BY <1>5, <2>1, ServerAssumption DEF WorkerPublish, TypeOK, Actor, Thread
  <2>3. j \in Job /\ j.key \notin Update
    BY <2>1, <2>2 DEF ReceiptInv, Running, TypeOK
  <2>4. j.key \in Generation
    BY <2>3 DEF Job, Key
  <2>5. /\ \A g \in Generation : Reached(g) => Reached(g)'
        /\ Succeeds(Answer(j.key)) => Reached(j.key)'
    BY <2>1, <2>4, ReachedOnPublish
  <2>6. Running' = {j}
    BY <2>1, <2>2 DEF Running, RunningInv
  <2>7. \A k \in jobs' : k.key \notin Update /\ k.state = "completed" => Reached(k.key)'
    BY <2>2, <2>5 DEF ReceiptInv, TypeOK, Job, Key
  <2>8. ASSUME NEW a \in Analysis, verdict'[a] = "success", Reaches(a)'
        PROVE  Reached(goal[a])'
    <3>1. Reached(goal[a]) /\ goal[a] \in Generation
      BY <2>2, <2>8 DEF ReceiptInv, Reaches, TypeOK
    <3> QED
      BY <2>2, <2>5, <3>1 DEF Reached
  <2> QED
    BY <2>2, <2>3, <2>5, <2>6, <2>7, <2>8 DEF ReceiptInv, Succeeds
<1>6. ASSUME DirectPublish
      PROVE  ReceiptInv'
  <2>1. \A g \in Generation : Reached(g) => Reached(g)'
    BY <1>6, ReachedOnPublish DEF DirectPublish
  <2>2. \A j \in jobs' : j \in jobs \/ j.state \notin {"running", "completed"}
    BY <1>6 DEF DirectPublish
  <2>3. \/ pc'[Worker] = pc[Worker] /\ verdict'[Worker] = verdict[Worker]
        \/ pc[Worker] \notin {"publish", "report"} /\ pc'[Worker] # "publish"
    BY <1>6 DEF DirectPublish
  <2>4. \A b \in Analysis : verdict'[b] = "success" /\ Reaches(b)' =>
          verdict[b] = "success" /\ Reaches(b) /\ goal'[b] = goal[b]
    BY <1>6 DEF DirectPublish, Reaches
  <2> QED
    BY <1>0, <1>T, <2>1, <2>2, <2>3, <2>4, ReceiptKept
<1>7. ASSUME NEW t \in Thread, Execute(t) \/ SaveConflict(t) \/ SaveFails(t) \/ Leave(t)
      PROVE  ReceiptInv'
  <2>1. \A g \in Generation : Reached(g) => Reached(g)'
    BY <1>7 DEF Reached, Execute, SaveConflict, SaveFails, Leave, Quit, Without
  <2>2. \A j \in jobs' : j \in jobs \/ j.state \notin {"running", "completed"}
    BY <1>7 DEF Execute, SaveConflict, SaveFails, Leave, Quit, Without
  <2>3. \/ pc'[Worker] = pc[Worker] /\ verdict'[Worker] = verdict[Worker]
        \/ pc[Worker] \notin {"publish", "report"} /\ pc'[Worker] # "publish"
    BY <1>7, ServerAssumption
    DEF TypeOK, Thread, Actor, Execute, SaveConflict, SaveFails, Leave, Quit, Without
  <2>4. \A b \in Analysis : verdict'[b] = "success" /\ Reaches(b)' =>
          verdict[b] = "success" /\ Reaches(b) /\ goal'[b] = goal[b]
    BY <1>7, ServerAssumption
    DEF TypeOK, Thread, Actor, Reaches, GoalInv, Execute, SaveConflict, SaveFails, Leave,
        Quit, Without
  <2> QED
    BY <1>0, <1>T, <2>1, <2>2, <2>3, <2>4, ReceiptKept
<1>8. ASSUME NEW t \in Thread, Save(t)
      PROVE  ReceiptInv'
  <2>1. \A g \in Generation : Reached(g) => Reached(g)'
    BY <1>8 DEF Reached, Save, Record, MayFollow
  <2>2. \A j \in jobs' : j \in jobs \/ j.state \notin {"running", "completed"}
    BY <1>8 DEF Save, Record, MayFollow
  <2>3. \/ pc'[Worker] = pc[Worker] /\ verdict'[Worker] = verdict[Worker]
        \/ pc[Worker] \notin {"publish", "report"} /\ pc'[Worker] # "publish"
    BY <1>8, ServerAssumption DEF TypeOK, Thread, Actor, Save, Record, MayFollow
  <2>4. \A b \in Analysis : verdict'[b] = "success" /\ Reaches(b)' =>
          verdict[b] = "success" /\ Reaches(b) /\ goal'[b] = goal[b]
    BY <1>8, ServerAssumption
    DEF TypeOK, Thread, Actor, Reaches, GoalInv, Save, Record, MayFollow
  <2> QED
    BY <1>0, <1>T, <2>1, <2>2, <2>3, <2>4, ReceiptKept
<1>9. ASSUME NEW t \in Thread, Install(t)
      PROVE  ReceiptInv'
  <2>1. \A g \in Generation : Reached(g) => Reached(g)'
    <3>1. CASE ram = base[t]
      <4>1. ram' = [rev |-> base[t].rev + 1, sid |-> history[base[t].rev + 1].sid]
        BY <1>9, <3>1 DEF Install
      <4>2. Len(history) = base[t].rev + 1 /\ history[Len(history)].sid = ram.sid
        BY <1>9, <3>1 DEF Install, ExecutionInv
      <4>3. ram'.sid = ram.sid /\ ram'.rev = ram.rev + 1
        BY <3>1, <4>1, <4>2
      <4>4. ram.rev \in Nat /\ \A g \in Generation : g.rev \in Nat
        BY Bounds DEF TypeOK, Generation
      <4> QED
        BY <4>3, <4>4 DEF Reached
    <3>2. CASE ram # base[t]
      BY <1>9, <3>2 DEF Install, Reached
    <3> QED
      BY <3>1, <3>2
  <2>2. \A j \in jobs' : j \in jobs \/ j.state \notin {"running", "completed"}
    BY <1>9 DEF Install
  <2>3. \/ pc'[Worker] = pc[Worker] /\ verdict'[Worker] = verdict[Worker]
        \/ pc[Worker] \notin {"publish", "report"} /\ pc'[Worker] # "publish"
    BY <1>9, ServerAssumption DEF TypeOK, Thread, Actor, Install, Quit
  <2>4. \A b \in Analysis : verdict'[b] = "success" /\ Reaches(b)' =>
          verdict[b] = "success" /\ Reaches(b) /\ goal'[b] = goal[b]
    BY <1>9, ServerAssumption DEF TypeOK, Thread, Reaches, Install, Quit
  <2> QED
    BY <1>0, <1>T, <2>1, <2>2, <2>3, <2>4, ReceiptKept
<1>10. ASSUME DirectUpdate \/ VerifyFence \/ VerifyAdmit \/ VerifyRefused
      PROVE  ReceiptInv'
  <2>1. \A g \in Generation : Reached(g) => Reached(g)'
    BY <1>10
    DEF Reached, DirectUpdate, VerifyFence, VerifyAdmit, VerifyRefused, EnterAtOnce, Drained
  <2>2. \A j \in jobs' : j \in jobs \/ j.state \notin {"running", "completed"}
    BY <1>10 DEF DirectUpdate, VerifyFence, VerifyAdmit, VerifyRefused, EnterAtOnce, Drained
  <2>3. \/ pc'[Worker] = pc[Worker] /\ verdict'[Worker] = verdict[Worker]
        \/ pc[Worker] \notin {"publish", "report"} /\ pc'[Worker] # "publish"
    BY <1>10, ServerAssumption
    DEF TypeOK, Thread, Actor, DirectUpdate, VerifyFence, VerifyAdmit, VerifyRefused,
        EnterAtOnce, Drained
  <2>4. \A b \in Analysis : verdict'[b] = "success" /\ Reaches(b)' =>
          verdict[b] = "success" /\ Reaches(b) /\ goal'[b] = goal[b]
    BY <1>10, ServerAssumption
    DEF TypeOK, Thread, Actor, Reaches, GoalInv, DirectUpdate, VerifyFence, VerifyAdmit,
        VerifyRefused, EnterAtOnce, Drained
  <2> QED
    BY <1>0, <1>T, <2>1, <2>2, <2>3, <2>4, ReceiptKept
<1>11. ASSUME VerifyCompare
      PROVE  ReceiptInv'
  <2>1. \A g \in Generation : Reached(g) => Reached(g)'
    BY <1>11 DEF Reached, VerifyCompare, EndFence, Agrees, Without
  <2>2. \A j \in jobs' : j \in jobs \/ j.state \notin {"running", "completed"}
    BY <1>11 DEF VerifyCompare, EndFence, Agrees, Without
  <2>3. \/ pc'[Worker] = pc[Worker] /\ verdict'[Worker] = verdict[Worker]
        \/ pc[Worker] \notin {"publish", "report"} /\ pc'[Worker] # "publish"
    BY <1>11, ServerAssumption
    DEF TypeOK, Thread, Actor, VerifyCompare, EndFence, Agrees, Without
  <2>4. \A b \in Analysis : verdict'[b] = "success" /\ Reaches(b)' =>
          verdict[b] = "success" /\ Reaches(b) /\ goal'[b] = goal[b]
    BY <1>11, ServerAssumption
    DEF TypeOK, Thread, Actor, Reaches, GoalInv, VerifyCompare, EndFence, Agrees, Without
  <2> QED
    BY <1>0, <1>T, <2>1, <2>2, <2>3, <2>4, ReceiptKept
<1>12. ASSUME Finalize
      PROVE  ReceiptInv'
  <2>1. \A g \in Generation : Reached(g) => Reached(g)'
    BY <1>12 DEF Reached, Finalize, EndFence, Without
  <2>2. \A j \in jobs' : j \in jobs \/ j.state \notin {"running", "completed"}
    BY <1>12 DEF Finalize, EndFence, Without
  <2>3. \/ pc'[Worker] = pc[Worker] /\ verdict'[Worker] = verdict[Worker]
        \/ pc[Worker] \notin {"publish", "report"} /\ pc'[Worker] # "publish"
    BY <1>12, ServerAssumption DEF TypeOK, Thread, Actor, Finalize, EndFence, Without
  <2>4. \A b \in Analysis : verdict'[b] = "success" /\ Reaches(b)' =>
          verdict[b] = "success" /\ Reaches(b) /\ goal'[b] = goal[b]
    BY <1>12, ServerAssumption
    DEF TypeOK, Thread, Actor, Reaches, GoalInv, Finalize, EndFence, Without
  <2> QED
    BY <1>0, <1>T, <2>1, <2>2, <2>3, <2>4, ReceiptKept
<1>13. ASSUME Load
      PROVE  ReceiptInv'
  <2>1. \A g \in Generation : Reached(g) => Reached(g)'
    BY <1>13 DEF Reached, Load
  <2>2. \A j \in jobs' : j \in jobs \/ j.state \notin {"running", "completed"}
    BY <1>13 DEF Load
  <2>3. \/ pc'[Worker] = pc[Worker] /\ verdict'[Worker] = verdict[Worker]
        \/ pc[Worker] \notin {"publish", "report"} /\ pc'[Worker] # "publish"
    BY <1>13, ServerAssumption DEF TypeOK, Thread, Actor, Load
  <2>4. \A b \in Analysis : verdict'[b] = "success" /\ Reaches(b)' =>
          verdict[b] = "success" /\ Reaches(b) /\ goal'[b] = goal[b]
    BY <1>13, ServerAssumption DEF TypeOK, Thread, Actor, Reaches, GoalInv, Load
  <2> QED
    BY <1>0, <1>T, <2>1, <2>2, <2>3, <2>4, ReceiptKept
<1>14. ASSUME Serve
      PROVE  ReceiptInv'
  <2>1. \A g \in Generation : Reached(g) => Reached(g)'
    BY <1>14 DEF Serve, AsleepInv, Reached, NoGeneration
  <2>2. \A j \in jobs' : j \in jobs \/ j.state \notin {"running", "completed"}
    BY <1>14 DEF Serve
  <2>3. \/ pc'[Worker] = pc[Worker] /\ verdict'[Worker] = verdict[Worker]
        \/ pc[Worker] \notin {"publish", "report"} /\ pc'[Worker] # "publish"
    BY <1>14 DEF Serve
  <2>4. \A b \in Analysis : verdict'[b] = "success" /\ Reaches(b)' =>
          verdict[b] = "success" /\ Reaches(b) /\ goal'[b] = goal[b]
    <3>1. \A a \in Analysis : contact'[a] < starts'
      BY <1>14 DEF Serve, GoalInv
    <3>2. \A a \in Analysis : contact'[a] \in Nat /\ starts' \in Nat
      BY TypeStep, Bounds DEF TypeOK
    <3> QED
      BY <3>1, <3>2 DEF Reaches
  <2> QED
    BY <1>0, <1>T, <2>1, <2>2, <2>3, <2>4, ReceiptKept
<1>15. ASSUME Close
      PROVE  ReceiptInv'
  <2>1. \A g \in Generation : Reached(g) => Reached(g)'
    BY <1>15 DEF Close, Reached
  <2>2. \A j \in jobs' : j \in jobs \/ j.state \notin {"running", "completed"}
    <3> DEFINE closed(j) == IF j.state = "queued" THEN [j EXCEPT !.state = "cancelled"] ELSE j
    <3>1. \A j \in jobs : closed(j) = j \/ closed(j).state = "cancelled"
      BY DEF TypeOK, Job
    <3>2. jobs' = Pruned({closed(j) : j \in jobs})
      BY <1>15 DEF Close
    <3>3. jobs' \subseteq {closed(j) : j \in jobs}
      BY <3>2 DEF Pruned
    <3> HIDE DEF closed
    <3> QED
      BY <3>1, <3>3
  <2>3. \/ pc'[Worker] = pc[Worker] /\ verdict'[Worker] = verdict[Worker]
        \/ pc[Worker] \notin {"publish", "report"} /\ pc'[Worker] # "publish"
    BY <1>15 DEF Close
  <2>4. \A b \in Analysis : verdict'[b] = "success" /\ Reaches(b)' =>
          verdict[b] = "success" /\ Reaches(b) /\ goal'[b] = goal[b]
    BY <1>15 DEF Close, Reaches
  <2> QED
    BY <1>0, <1>T, <2>1, <2>2, <2>3, <2>4, ReceiptKept
<1>16. ASSUME Perish
      PROVE  ReceiptInv'
  BY <1>16 DEF Perish, ReceiptInv, Running, Reaches
<1>17. ASSUME NEW u \in Update, SubmitUpdate(u)
      PROVE  ReceiptInv'
  <2>1. \A g \in Generation : Reached(g) => Reached(g)'
    BY <1>17 DEF Reached, SubmitUpdate, Admit, JobOf
  <2>2. \A j \in jobs' : j \in jobs \/ j.state \notin {"running", "completed"}
    BY <1>17 DEF SubmitUpdate, Admit, JobOf
  <2>3. \/ pc'[Worker] = pc[Worker] /\ verdict'[Worker] = verdict[Worker]
        \/ pc[Worker] \notin {"publish", "report"} /\ pc'[Worker] # "publish"
    BY <1>17, ServerAssumption DEF TypeOK, Thread, Actor, SubmitUpdate, Admit, JobOf
  <2>4. \A b \in Analysis : verdict'[b] = "success" /\ Reaches(b)' =>
          verdict[b] = "success" /\ Reaches(b) /\ goal'[b] = goal[b]
    BY <1>17, ServerAssumption
    DEF TypeOK, Thread, Actor, Reaches, GoalInv, SubmitUpdate, Admit, JobOf
  <2> QED
    BY <1>0, <1>T, <2>1, <2>2, <2>3, <2>4, ReceiptKept
<1>18. ASSUME NEW a \in Analysis, Request(a) \/ AnalysisEnter(a) \/ AnalysisFails(a) \/
             Connect(a)
      PROVE  ReceiptInv'
  <2>1. \A g \in Generation : Reached(g) => Reached(g)'
    BY <1>18 DEF Reached, Request, AnalysisEnter, AnalysisFails, Connect, StandInLine, Enter
  <2>2. \A j \in jobs' : j \in jobs \/ j.state \notin {"running", "completed"}
    BY <1>18 DEF Request, AnalysisEnter, AnalysisFails, Connect, StandInLine, Enter
  <2>3. \/ pc'[Worker] = pc[Worker] /\ verdict'[Worker] = verdict[Worker]
        \/ pc[Worker] \notin {"publish", "report"} /\ pc'[Worker] # "publish"
    BY <1>18, ServerAssumption
    DEF TypeOK, Thread, Actor, Request, AnalysisEnter, AnalysisFails, Connect, StandInLine,
        Enter
  <2>4. \A b \in Analysis : verdict'[b] = "success" /\ Reaches(b)' =>
          verdict[b] = "success" /\ Reaches(b) /\ goal'[b] = goal[b]
    BY <1>18, ServerAssumption
    DEF TypeOK, Thread, Actor, Reaches, GoalInv, Request, AnalysisEnter, AnalysisFails,
        Connect, StandInLine, Enter
  <2> QED
    BY <1>0, <1>T, <2>1, <2>2, <2>3, <2>4, ReceiptKept
<1>19. ASSUME NEW a \in Analysis, CommitAnalysis(a)
      PROVE  ReceiptInv'
  <2>1. \A g \in Generation : Reached(g) => Reached(g)'
    BY <1>19 DEF Reached, CommitAnalysis, Record
  <2>2. \A j \in jobs' : j \in jobs \/ j.state \notin {"running", "completed"}
    BY <1>19 DEF CommitAnalysis, Record
  <2>3. \/ pc'[Worker] = pc[Worker] /\ verdict'[Worker] = verdict[Worker]
        \/ pc[Worker] \notin {"publish", "report"} /\ pc'[Worker] # "publish"
    BY <1>19, ServerAssumption DEF TypeOK, Thread, Actor, CommitAnalysis, Record
  <2>4. \A b \in Analysis : verdict'[b] = "success" /\ Reaches(b)' =>
          verdict[b] = "success" /\ Reaches(b) /\ goal'[b] = goal[b]
    BY <1>19, ServerAssumption
    DEF TypeOK, Thread, Actor, Reaches, GoalInv, CommitAnalysis, Record
  <2> QED
    BY <1>0, <1>T, <2>1, <2>2, <2>3, <2>4, ReceiptKept
<1>20. ASSUME NEW a \in Analysis, SubmitPublish(a)
      PROVE  ReceiptInv'
  <2>1. \A g \in Generation : Reached(g) => Reached(g)'
    BY <1>20 DEF Reached, SubmitPublish, Admit, JobOf, Settle
  <2>2. \A j \in jobs' : j \in jobs \/ j.state \notin {"running", "completed"}
    BY <1>20 DEF SubmitPublish, Admit, JobOf, Settle
  <2>3. \/ pc'[Worker] = pc[Worker] /\ verdict'[Worker] = verdict[Worker]
        \/ pc[Worker] \notin {"publish", "report"} /\ pc'[Worker] # "publish"
    BY <1>20, ServerAssumption DEF TypeOK, Thread, Actor, SubmitPublish, Admit, JobOf, Settle
  <2>4. \A b \in Analysis : verdict'[b] = "success" /\ Reaches(b)' =>
          verdict[b] = "success" /\ Reaches(b) /\ goal'[b] = goal[b]
    BY <1>20, ServerAssumption
    DEF TypeOK, Thread, Actor, Reaches, GoalInv, SubmitPublish, Admit, JobOf, Settle
  <2> QED
    BY <1>0, <1>T, <2>1, <2>2, <2>3, <2>4, ReceiptKept
<1>21. ASSUME NEW a \in Analysis, Poll(a)
      PROVE  ReceiptInv'
  <2>1. \A g \in Generation : Reached(g) => Reached(g)'
    BY <1>21 DEF Poll, Reached
  <2>2. \A j \in jobs' : j \in jobs \/ j.state \notin {"running", "completed"}
    BY <1>21 DEF Poll
  <2>3. \/ pc'[Worker] = pc[Worker] /\ verdict'[Worker] = verdict[Worker]
        \/ pc[Worker] \notin {"publish", "report"} /\ pc'[Worker] # "publish"
    BY <1>21, ServerAssumption DEF TypeOK, Thread, Actor, Poll, Settle
  <2>4. \A b \in Analysis : verdict'[b] = "success" /\ Reaches(b)' =>
          /\ goal'[b] = goal[b]
          /\ Reached(goal[b]) \/ (verdict[b] = "success" /\ Reaches(b))
    <3>1. PICK j \in JobOf(goal[a]) : Settle(a, Outcome(j))
      BY <1>21 DEF Poll
    <3>2. goal[a] \in Generation /\ j \in jobs /\ j.key = goal[a]
      BY <3>1 DEF JobOf, TypeOK
    <3>3. Outcome(j) = "success" => j.state = "completed"
      BY <3>2 DEF Outcome, TypeOK, Job, JobState, Live
    <3>4. Outcome(j) = "success" => Reached(goal[a])
      BY <3>2, <3>3, KeyAssumption DEF ReceiptInv
    <3>5. verdict' = [verdict EXCEPT ![a] = Outcome(j)] /\ UNCHANGED <<goal, service, contact, starts>>
      BY <1>21, <3>1 DEF Poll, Settle
    <3> QED
      BY <3>4, <3>5 DEF TypeOK, Reaches
  <2> QED
    BY <1>0, <1>T, <2>1, <2>2, <2>3, <2>4, ReceiptKept
<1>22. ASSUME NEW a \in Analysis, Unconfirmed(a)
      PROVE  ReceiptInv'
  <2>1. \A g \in Generation : Reached(g) => Reached(g)'
    BY <1>22 DEF Reached, Unconfirmed, Settle
  <2>2. \A j \in jobs' : j \in jobs \/ j.state \notin {"running", "completed"}
    BY <1>22 DEF Unconfirmed, Settle
  <2>3. \/ pc'[Worker] = pc[Worker] /\ verdict'[Worker] = verdict[Worker]
        \/ pc[Worker] \notin {"publish", "report"} /\ pc'[Worker] # "publish"
    BY <1>22, ServerAssumption DEF TypeOK, Thread, Actor, Unconfirmed, Settle
  <2>4. \A b \in Analysis : verdict'[b] = "success" /\ Reaches(b)' =>
          verdict[b] = "success" /\ Reaches(b) /\ goal'[b] = goal[b]
    BY <1>22, ServerAssumption DEF TypeOK, Thread, Actor, Reaches, GoalInv, Unconfirmed, Settle
  <2> QED
    BY <1>0, <1>T, <2>1, <2>2, <2>3, <2>4, ReceiptKept
<1>23. ASSUME NEW a \in Analysis, Release(a) \/ AnalysisDies(a)
      PROVE  ReceiptInv'
  <2>1. \A g \in Generation : Reached(g) => Reached(g)'
    BY <1>23 DEF Reached, Release, AnalysisDies, Return, Without
  <2>2. \A j \in jobs' : j \in jobs \/ j.state \notin {"running", "completed"}
    BY <1>23 DEF Release, AnalysisDies, Return, Without
  <2>3. \/ pc'[Worker] = pc[Worker] /\ verdict'[Worker] = verdict[Worker]
        \/ pc[Worker] \notin {"publish", "report"} /\ pc'[Worker] # "publish"
    BY <1>23, ServerAssumption
    DEF TypeOK, Thread, Actor, Release, AnalysisDies, Return, Without
  <2>4. \A b \in Analysis : verdict'[b] = "success" /\ Reaches(b)' =>
          verdict[b] = "success" /\ Reaches(b) /\ goal'[b] = goal[b]
    BY <1>23, ServerAssumption
    DEF TypeOK, Thread, Actor, Reaches, GoalInv, Release, AnalysisDies, Return, Without
  <2> QED
    BY <1>0, <1>T, <2>1, <2>2, <2>3, <2>4, ReceiptKept
<1>24. ASSUME DesktopRead \/ DesktopCompare \/ DesktopEnter \/ DesktopSkips \/
             DesktopPublish \/ DesktopRelease
      PROVE  ReceiptInv'
  <2>1. \A g \in Generation : Reached(g) => Reached(g)'
    BY <1>24
    DEF Reached, DesktopRead, DesktopCompare, DesktopEnter, DesktopSkips, DesktopPublish,
        DesktopRelease, EnterAtOnce, Without
  <2>2. \A j \in jobs' : j \in jobs \/ j.state \notin {"running", "completed"}
    BY <1>24
    DEF DesktopRead, DesktopCompare, DesktopEnter, DesktopSkips, DesktopPublish,
        DesktopRelease, EnterAtOnce, Without
  <2>3. \/ pc'[Worker] = pc[Worker] /\ verdict'[Worker] = verdict[Worker]
        \/ pc[Worker] \notin {"publish", "report"} /\ pc'[Worker] # "publish"
    BY <1>24, ServerAssumption
    DEF TypeOK, Thread, Actor, DesktopRead, DesktopCompare, DesktopEnter, DesktopSkips,
        DesktopPublish, DesktopRelease, EnterAtOnce, Without
  <2>4. \A b \in Analysis : verdict'[b] = "success" /\ Reaches(b)' =>
          verdict[b] = "success" /\ Reaches(b) /\ goal'[b] = goal[b]
    BY <1>24, ServerAssumption
    DEF TypeOK, Thread, Actor, Reaches, GoalInv, DesktopRead, DesktopCompare, DesktopEnter,
        DesktopSkips, DesktopPublish, DesktopRelease, EnterAtOnce, Without
  <2> QED
    BY <1>0, <1>T, <2>1, <2>2, <2>3, <2>4, ReceiptKept
<1> QED
  BY <1>1, <1>2, <1>3, <1>4, <1>5, <1>6, <1>7, <1>8, <1>9, <1>10, <1>11, <1>12, <1>13,
     <1>14, <1>15, <1>16, <1>17, <1>18, <1>19, <1>20, <1>21, <1>22, <1>23, <1>24
  DEF Next, WorkerStep, ServiceStep, AnalysisStep, Settling, ThreadStep, DesktopStep, Thread

LEMMA InvStep == IInv /\ [Next]_vars => IInv'
  BY TypeStep, PointsStep, AsleepStep, RunningStep, LeaseAccountedStep, DurableStep,
     ExecutionStep, RecoveryStep, FencedIsQuietStep, JournalRisesStep, CertifiedFrozenStep,
     GoalStep, ReceiptStep
  DEF IInv

LEMMA Invariance == Spec => []IInv
  BY InitInv, InvStep, PTL DEF Spec

-----------------------------------------------------------------------------
(* Every reachable state has the declared type: the collections of the     *)
(* service, the store's metadata and the locals of its clients.            *)
THEOREM TypeCorrect == Spec => []TypeOK
<1>1. IInv => TypeOK
  BY DEF IInv
<1> QED
  BY <1>1, Invariance, PTL

(* Whatever ends an update, a verification, an analysis or the Desktop's   *)
(* publication, the canonical writer lease is with the one whose code      *)
(* still runs under it, and with nobody else.                              *)
THEOREM LeaseIsAccounted == Spec => []LeaseAccounted
<1>1. IInv => LeaseAccounted
  BY DEF IInv
<1> QED
  BY <1>1, Invariance, PTL

(* The revision and state_id LIVE serves, however installed, are those of  *)
(* one generation the store has committed.                                 *)
THEOREM ServesDurable == Spec => []ServedIsDurable
<1>1. IInv => ServedIsDurable
  BY DEF IInv, DurableInv, Durable, ServedIsDurable
<1> QED
  BY <1>1, Invariance, PTL

(* The revisions of the canonical events of one service instance rise, and *)
(* the last one is that of the served generation.                          *)
THEOREM EventsRiseToServed == Spec => []JournalRises
<1>1. IInv => JournalRises
  BY DEF IInv
<1> QED
  BY <1>1, Invariance, PTL

(* No mutation is queued or running while recovery verification has the    *)
(* queue fenced, be the certificate pending or its release degraded.       *)
THEOREM FenceIsQuiet == Spec => []FencedIsQuiet
<1>1. IInv => FencedIsQuiet
  BY DEF IInv
<1> QED
  BY <1>1, Invariance, PTL

(* While a recovery certificate stands, served and durable generation are  *)
(* the certified one and the service has the writer lease.                 *)
THEOREM CertificateFreezes == Spec => []CertifiedFrozen
<1>1. IInv => CertifiedFrozen
  BY DEF IInv
<1> QED
  BY <1>1, Invariance, PTL

LEMMA Confirmed == IInv => ConfirmedIsServed
<1> SUFFICES ASSUME IInv, NEW a \in Analysis, pc[a] = "release", verdict[a] = "success", Reaches(a)
             PROVE  goal[a] = ram /\ goal[a] = Committed
  BY DEF ConfirmedIsServed
<1>1. goal[a].sid # 0 /\ (goal[a] # NoGeneration => goal[a] = Committed)
  BY DEF IInv, GoalInv
<1>2. goal[a] = Committed /\ Committed # NoGeneration
  BY <1>1 DEF NoGeneration
<1>3. Committed = [rev |-> Len(history), sid |-> history[Len(history)].sid]
  BY <1>2 DEF Committed
<1>4. ram.sid # 0 /\ Len(history) <= ram.rev
  BY <1>2, <1>3 DEF IInv, ReceiptInv, Reached
<1>5. ram.rev \in 1 .. Len(history) /\ ram.sid = history[ram.rev].sid
  BY <1>4 DEF IInv, DurableInv, Durable
<1>6. ram.rev = Len(history)
  BY <1>4, <1>5, HistoryType, Bounds DEF IInv
<1>7. ram = [rev |-> ram.rev, sid |-> ram.sid]
  BY DEF IInv, TypeOK, Generation
<1> QED
  BY <1>2, <1>3, <1>5, <1>6, <1>7

(* An analysis told that LIVE took its generation up finds it served, and  *)
(* still the last one committed, until it lets go of the lease.            *)
THEOREM ConfirmationIsTrue == Spec => []ConfirmedIsServed
  BY Confirmed, Invariance, PTL

-----------------------------------------------------------------------------
(* Which job wrote a generation of this instance. *)
Wrote(r, n) == history[r].by = [start |-> starts, order |-> n]
Unwritten(n) == \A r \in 1 .. Len(history) : ~ Wrote(r, n)
WrittenAndServed(n) == \E r \in 1 .. Len(history) : r <= ram.rev /\ Wrote(r, n)

OrdersInv ==
    /\ \A j \in jobs : j.order \in 1 .. order
    /\ \A j, k \in jobs : j.order = k.order => j = k

(* Generations name instances that were started, and orders that were      *)
(* given.                                                                  *)
AuthorsInv ==
    \A r \in 1 .. Len(history), s \in 1 .. MaxStarts, n \in 0 .. MaxJobs :
        history[r].by = [start |-> s, order |-> n] =>
            /\ s <= starts
            /\ service = "loading" => s < starts
            /\ service \in {"serving", "stopped"} /\ s = starts => n <= order

(* What an update has left on disk when it is told to be where it is. *)
Told(j) ==
    /\ j.state \in {"queued", "cancelled", "failed"} => Unwritten(j.order)
    /\ j.state = "completed" => WrittenAndServed(j.order)
    /\ j.state = "running" =>
        /\ pc[Worker] \in {"line", "wait", "execute", "save"} => Unwritten(j.order)
        /\ pc[Worker] = "install" => Wrote(Len(history), j.order)
        /\ pc[Worker] \in {"leave", "report"} =>
             IF Succeeds(verdict[Worker]) THEN WrittenAndServed(j.order) ELSE Unwritten(j.order)

ToldInv == \A j \in jobs : j.key \in Update => Told(j)

JobsInv == OrdersInv /\ AuthorsInv /\ ToldInv

LEMMA JobsInit == Init => JobsInv
  BY DEF Init, JobsInv, OrdersInv, AuthorsInv, ToldInv

LEMMA RevisionType == ASSUME TypeOK PROVE ram.rev \in Nat
  BY Bounds DEF TypeOK, Generation

(* While history and instance stay, a served generation stays served. *)
LEMMA WrittenKept ==
  ASSUME TypeOK, TypeOK', UNCHANGED <<history, starts>>, ram.rev <= ram'.rev, NEW n
  PROVE  /\ \A r : Wrote(r, n)' <=> Wrote(r, n)
         /\ Unwritten(n)' <=> Unwritten(n)
         /\ WrittenAndServed(n) => WrittenAndServed(n)'
<1>1. \A r : Wrote(r, n)' <=> Wrote(r, n)
  BY DEF Wrote
<1>2. Unwritten(n)' <=> Unwritten(n)
  BY DEF Unwritten, Wrote
<1>3. ram.rev \in Nat /\ ram'.rev \in Nat /\ Len(history) \in Nat
  <2>1. ram'.rev \in Nat
    BY Bounds DEF TypeOK, Generation
  <2> QED
    BY <2>1, RevisionType, HistoryType
<1>4. WrittenAndServed(n) => WrittenAndServed(n)'
  BY <1>3 DEF WrittenAndServed, Wrote
<1> QED
  BY <1>1, <1>2, <1>4

(* Steps that neither write nor move a job. *)
LEMMA JobsKept ==
  ASSUME TypeOK, TypeOK', JobsInv, UNCHANGED <<history, starts, service, jobs, order>>,
         ram.rev <= ram'.rev, pc'[Worker] = pc[Worker], verdict'[Worker] = verdict[Worker]
  PROVE  JobsInv'
<1>1. OrdersInv'
  BY DEF JobsInv, OrdersInv
<1>2. AuthorsInv'
  BY DEF JobsInv, AuthorsInv
<1>3. ASSUME NEW j \in jobs', j.key \in Update
      PROVE  Told(j)'
  BY <1>3, WrittenKept DEF JobsInv, ToldInv, Told, Succeeds
<1> QED
  BY <1>1, <1>2, <1>3 DEF JobsInv, ToldInv

(* Steps of the worker that do not write. *)
LEMMA JobsMoved ==
  ASSUME TypeOK, TypeOK', JobsInv, UNCHANGED <<history, starts, service, jobs, order>>,
         ram.rev <= ram'.rev,
         \A j \in jobs : j.key \in Update /\ j.state = "running" =>
            \/ /\ Unwritten(j.order)
               /\ \/ pc'[Worker] \in {"line", "wait", "execute", "save"}
                  \/ pc'[Worker] \in {"leave", "report"} /\ ~ Succeeds(verdict'[Worker])
            \/ /\ WrittenAndServed(j.order)'
               /\ pc'[Worker] \in {"leave", "report"} /\ Succeeds(verdict'[Worker])
  PROVE  JobsInv'
<1>1. OrdersInv'
  BY DEF JobsInv, OrdersInv
<1>2. AuthorsInv'
  BY DEF JobsInv, AuthorsInv
<1>3. ASSUME NEW j \in jobs', j.key \in Update
      PROVE  Told(j)'
  <2>1. j \in jobs /\ Told(j)
    BY <1>3 DEF JobsInv, ToldInv
  <2>2. CASE j.state # "running"
    BY <2>1, <2>2, WrittenKept DEF Told
  <2>3. CASE j.state = "running"
    <3>1. Succeeds(verdict[Worker])' <=> Succeeds(verdict'[Worker])
      BY DEF Succeeds
    <3> QED
      BY <1>3, <2>1, <2>3, <3>1, WrittenKept DEF Told
  <2> QED
    BY <2>2, <2>3
<1> QED
  BY <1>1, <1>2, <1>3 DEF JobsInv, ToldInv

(* A generation that no job of this instance wrote, or only job n of it.   *)
LEMMA WrittenGrows ==
  ASSUME TypeOK, TypeOK', NEW e, history' = Append(history, e), starts' = starts, ram' = ram, NEW n
  PROVE  /\ e.by # [start |-> starts, order |-> n] =>
             (Unwritten(n) => Unwritten(n)')
         /\ e.by = [start |-> starts, order |-> n] => Wrote(Len(history), n)'
         /\ WrittenAndServed(n) => WrittenAndServed(n)'
<1>1. Len(history) \in Nat /\ Len(history') = Len(history) + 1 /\ history'[Len(history) + 1] = e
  BY DEF TypeOK
<1>2. \A r \in 1 .. Len(history) : history'[r] = history[r]
  BY DEF TypeOK
<1>3. 1 .. Len(history') = (1 .. Len(history)) \cup {Len(history')}
  BY <1>1
<1>4. ASSUME e.by # [start |-> starts, order |-> n], Unwritten(n)
      PROVE  Unwritten(n)'
  BY <1>1, <1>2, <1>3, <1>4 DEF Unwritten, Wrote
<1>5. ASSUME e.by = [start |-> starts, order |-> n]
      PROVE  Wrote(Len(history), n)'
  BY <1>1, <1>5 DEF Wrote
<1>6. ASSUME WrittenAndServed(n)
      PROVE  WrittenAndServed(n)'
  BY <1>2, <1>3, <1>6 DEF WrittenAndServed, Wrote
<1> QED
  BY <1>4, <1>5, <1>6

LEMMA AuthorsGrow ==
  ASSUME TypeOK, TypeOK', AuthorsInv, NEW e, history' = Append(history, e),
         UNCHANGED <<starts, service, order>>,
         \A s \in 1 .. MaxStarts, n \in 0 .. MaxJobs : e.by = [start |-> s, order |-> n] =>
            s = starts /\ n <= order /\ service # "loading"
  PROVE  AuthorsInv'
<1>1. Len(history) \in Nat /\ Len(history') = Len(history) + 1 /\ history'[Len(history) + 1] = e
  BY DEF TypeOK
<1>2. \A r \in 1 .. Len(history) : history'[r] = history[r]
  BY DEF TypeOK
<1>3. 1 .. Len(history') = (1 .. Len(history)) \cup {Len(history')}
  BY <1>1
<1>4. ASSUME NEW r \in 1 .. Len(history'), NEW s \in 1 .. MaxStarts, NEW n \in 0 .. MaxJobs,
             history'[r].by = [start |-> s, order |-> n]
      PROVE  /\ s <= starts
             /\ service = "loading" => s < starts
             /\ service \in {"serving", "stopped"} /\ s = starts => n <= order
  <2>1. CASE r \in 1 .. Len(history)
    BY <1>2, <1>4, <2>1 DEF AuthorsInv
  <2>2. CASE r = Len(history')
    <3>1. s = starts /\ n <= order /\ service # "loading"
      BY <1>1, <1>4, <2>2
    <3> QED
      BY <3>1, Bounds
  <2> QED
    BY <1>3, <2>1, <2>2
<1> QED
  BY <1>4 DEF AuthorsInv

(* The worker on its way through an update. *)
LEMMA JobsThread ==
  ASSUME IInv, TypeOK', JobsInv, NEW t \in Thread,
         Execute(t) \/ SaveConflict(t) \/ SaveFails(t) \/ Leave(t)
  PROVE  JobsInv'
<1>0. TypeOK
  BY RevisionType DEF IInv
<1>1. UNCHANGED <<history, starts, service, jobs, order, ram>> /\ ram.rev <= ram'.rev
  <2>1. UNCHANGED <<history, starts, service, jobs, order, ram>>
    BY DEF Execute, SaveConflict, SaveFails, Leave, disk, server, queue
  <2> QED
    BY <1>0, <2>1, RevisionType
<1>2. CASE t # Worker
  <2>1. pc'[Worker] = pc[Worker] /\ verdict'[Worker] = verdict[Worker]
    BY <1>0, <1>2
    DEF TypeOK, Thread, Actor, Execute, SaveConflict, SaveFails, Leave, Quit, Goto, Concludes
  <2> QED
    BY <1>0, <1>1, <2>1, JobsKept
<1>3. CASE t = Worker
  <2>1. \/ /\ pc[Worker] \in {"execute", "save"}
           /\ \/ pc'[Worker] = "save"
              \/ pc'[Worker] = "leave" /\ verdict'[Worker] \in {"error", "conflict"}
        \/ pc[Worker] = "leave" /\ pc'[Worker] = "report" /\ verdict'[Worker] = verdict[Worker]
    BY <1>0, <1>3 DEF TypeOK, Thread, Actor, Execute, SaveConflict, SaveFails, Leave, Quit, Goto,
                      Concludes
  <2>2. \A v \in {"error", "conflict"} : ~ Succeeds(v)
    BY DEF Succeeds
  <2>3. ASSUME NEW j \in jobs, j.key \in Update, j.state = "running"
        PROVE  \/ /\ Unwritten(j.order)
                  /\ \/ pc'[Worker] \in {"line", "wait", "execute", "save"}
                     \/ pc'[Worker] \in {"leave", "report"} /\ ~ Succeeds(verdict'[Worker])
               \/ /\ WrittenAndServed(j.order)'
                  /\ pc'[Worker] \in {"leave", "report"} /\ Succeeds(verdict'[Worker])
    <3>1. Told(j)
      BY <2>3 DEF JobsInv, ToldInv
    <3>2. WrittenAndServed(j.order) => WrittenAndServed(j.order)'
      BY <1>0, <1>1, WrittenKept
    <3> QED
      BY <2>1, <2>2, <2>3, <3>1, <3>2 DEF Told
  <2> QED
    BY <1>0, <1>1, <2>3, JobsMoved
<1> QED
  BY <1>2, <1>3

LEMMA JobsInstall ==
  ASSUME IInv, TypeOK', JobsInv, NEW t \in Thread, Install(t)
  PROVE  JobsInv'
<1>0. TypeOK /\ ExecutionInv
  BY DEF IInv
<1>1. /\ UNCHANGED <<history, starts, service, jobs, order>>
      /\ ram' = [rev |-> ram.rev + 1, sid |-> history[ram.rev + 1].sid]
      /\ Len(history) = ram.rev + 1
      /\ pc' = [pc EXCEPT ![t] = "leave"] /\ verdict' = [verdict EXCEPT ![t] = "installed"]
  BY <1>0 DEF Install, ExecutionInv, Quit, Goto, Concludes, disk, queue
<1>2. ram.rev \in Nat /\ ram'.rev = ram.rev + 1 /\ ram.rev <= ram'.rev
  BY <1>0, <1>1, RevisionType
<1>3. CASE t # Worker
  <2>1. pc'[Worker] = pc[Worker] /\ verdict'[Worker] = verdict[Worker]
    BY <1>0, <1>1, <1>3 DEF TypeOK, Thread, Actor
  <2> QED
    BY <1>0, <1>1, <1>2, <2>1, JobsKept
<1>4. CASE t = Worker
  <2>1. pc[Worker] = "install" /\ pc'[Worker] = "leave" /\ Succeeds(verdict'[Worker])
    BY <1>0, <1>1, <1>4 DEF TypeOK, Thread, Actor, Install, Succeeds
  <2>2. ASSUME NEW j \in jobs, j.key \in Update, j.state = "running"
        PROVE  WrittenAndServed(j.order)'
    <3>1. Wrote(Len(history), j.order)
      BY <2>1, <2>2 DEF JobsInv, ToldInv, Told
    <3>2. Len(history') \in 1 .. Len(history') /\ Len(history') <= ram'.rev
      BY <1>1, <1>2
    <3> QED
      BY <1>1, <3>1, <3>2 DEF WrittenAndServed, Wrote
  <2> QED
    BY <1>0, <1>1, <1>2, <2>1, <2>2, JobsMoved
<1> QED
  BY <1>3, <1>4

LEMMA JobsSave ==
  ASSUME IInv, TypeOK', JobsInv, NEW t \in Thread, Save(t)
  PROVE  JobsInv'
<1>0. TypeOK /\ RunningInv /\ AsleepInv
  BY DEF IInv
<1> DEFINE e == [sid |-> Committed.sid, from |-> base[t].rev, by |-> Author(t)]
<1>1. /\ history' = Append(history, e) /\ e.by = Author(t)
      /\ UNCHANGED <<starts, service, jobs, order, ram, verdict>>
      /\ pc[t] = "save" /\ pc' = [pc EXCEPT ![t] = "install"]
  BY DEF Save, Record, Goto, server, queue
<1> HIDE DEF e
<1>2. service # "loading"
  BY <1>0, <1>1 DEF AsleepInv
<1>3. CASE t # Worker
  <2>1. e.by = [start |-> starts, order |-> 0]
    BY <1>1, <1>3 DEF Author
  <2>2. AuthorsInv'
    <3>1. \A s \in 1 .. MaxStarts, n \in 0 .. MaxJobs : e.by = [start |-> s, order |-> n] =>
            s = starts /\ n <= order /\ service # "loading"
      BY <1>0, <1>2, <2>1 DEF TypeOK
    <3> QED
      BY <1>0, <1>1, <3>1, AuthorsGrow DEF JobsInv
  <2>3. ASSUME NEW j \in jobs', j.key \in Update
        PROVE  Told(j)'
    <3>1. j \in jobs /\ Told(j) /\ j.order # 0
      BY <1>1, <2>3 DEF JobsInv, ToldInv, OrdersInv
    <3>2. e.by # [start |-> starts, order |-> j.order]
      BY <2>1, <3>1
    <3>3. /\ Unwritten(j.order) => Unwritten(j.order)'
          /\ WrittenAndServed(j.order) => WrittenAndServed(j.order)'
      BY <1>0, <1>1, <3>2, WrittenGrows
    <3>4. pc'[Worker] = pc[Worker] /\ pc[Worker] # "install"
      BY <1>0, <1>1, <1>3, ServerAssumption DEF TypeOK, Thread, Actor, IInv, ExecutionInv
    <3>5. Succeeds(verdict[Worker])' <=> Succeeds(verdict[Worker])
      BY <1>1 DEF Succeeds
    <3> QED
      BY <3>1, <3>3, <3>4, <3>5 DEF Told
  <2> QED
    BY <1>1, <2>2, <2>3 DEF JobsInv, ToldInv, OrdersInv
<1>4. CASE t = Worker
  <2>1. PICK k \in Running : Running = {k}
    BY <1>0, <1>1, <1>4 DEF RunningInv
  <2>2. k \in jobs /\ k.state = "running" /\ k.order \in 1 .. order
        /\ e.by = [start |-> starts, order |-> k.order]
    BY <1>1, <1>4, <2>1 DEF Running, Author, JobsInv, OrdersInv
  <2>3. AuthorsInv'
    <3>1. \A s \in 1 .. MaxStarts, n \in 0 .. MaxJobs : e.by = [start |-> s, order |-> n] =>
            s = starts /\ n <= order /\ service # "loading"
      BY <1>2, <2>2
    <3> QED
      BY <1>0, <1>1, <3>1, AuthorsGrow DEF JobsInv
  <2>4. pc[Worker] = "save" /\ pc'[Worker] = "install"
    BY <1>0, <1>1, <1>4 DEF TypeOK, Thread, Actor
  <2>5. ASSUME NEW j \in jobs', j.key \in Update
        PROVE  Told(j)'
    <3>1. j \in jobs /\ Told(j)
      BY <1>1, <2>5 DEF JobsInv, ToldInv
    <3>2. CASE j = k
      <4>1. Wrote(Len(history), k.order)'
        BY <1>0, <1>1, <2>2, WrittenGrows
      <4> QED
        BY <2>2, <2>4, <3>2, <4>1 DEF Told
    <3>3. CASE j # k
      <4>1. j.state # "running" /\ j.order # k.order
        BY <1>1, <2>1, <2>2, <3>1, <3>3 DEF Running, JobsInv, OrdersInv
      <4>2. e.by # [start |-> starts, order |-> j.order]
        BY <2>2, <4>1
      <4>3. /\ Unwritten(j.order) => Unwritten(j.order)'
            /\ WrittenAndServed(j.order) => WrittenAndServed(j.order)'
        BY <1>0, <1>1, <4>2, WrittenGrows
      <4> QED
        BY <3>1, <4>1, <4>3 DEF Told
    <3> QED
      BY <3>2, <3>3
  <2> QED
    BY <1>1, <2>3, <2>5 DEF JobsInv, ToldInv, OrdersInv
<1> QED
  BY <1>3, <1>4

(* A full analysis writes for no job. *)
LEMMA JobsCommit ==
  ASSUME IInv, TypeOK', JobsInv, NEW a \in Analysis, CommitAnalysis(a)
  PROVE  JobsInv'
<1>0. TypeOK /\ starts \in 0 .. MaxStarts /\ order \in 0 .. MaxJobs
  BY DEF IInv, TypeOK
<1>1. PICK e : e.by = NoKey /\ history' = Append(history, e)
  BY DEF CommitAnalysis, Record
<1>2. /\ UNCHANGED <<starts, service, jobs, order, ram, verdict>>
      /\ pc'[Worker] = pc[Worker] /\ pc[Worker] # "install"
  <2>1. pc[Worker] # "install"
    <3>1. lease = a
      BY ServerAssumption DEF IInv, LeaseAccounted, HoldsLease, CommitAnalysis, Actor
    <3>2. pc[Worker] = "install" => lease = Worker
      BY ServerAssumption DEF IInv, LeaseAccounted, HoldsLease, Actor, Thread
    <3> QED
      BY <3>1, <3>2, ServerAssumption
  <2> QED
    BY <1>0, <2>1, ServerAssumption
    DEF TypeOK, Thread, Actor, CommitAnalysis, Goto, server, queue
<1>3. \A s \in 1 .. MaxStarts, n \in 0 .. MaxJobs : e.by # [start |-> s, order |-> n]
  BY <1>1, KeyAssumption
<1>4. AuthorsInv'
  BY <1>0, <1>1, <1>2, <1>3, AuthorsGrow DEF JobsInv
<1>5. ASSUME NEW j \in jobs', j.key \in Update
      PROVE  Told(j)'
  <2>1. j \in jobs /\ Told(j) /\ j.order \in 1 .. order /\ service # "down" /\ service # "loading"
    BY <1>2, <1>5 DEF JobsInv, ToldInv, OrdersInv, IInv, AsleepInv
  <2>2. starts \in 1 .. MaxStarts /\ j.order \in 0 .. MaxJobs
    BY <1>0, <2>1, Bounds DEF IInv, AsleepInv
  <2>3. e.by # [start |-> starts, order |-> j.order]
    BY <1>3, <2>2
  <2>4. /\ Unwritten(j.order) => Unwritten(j.order)'
        /\ WrittenAndServed(j.order) => WrittenAndServed(j.order)'
    BY <1>0, <1>1, <1>2, <2>3, WrittenGrows
  <2>5. Succeeds(verdict[Worker])' <=> Succeeds(verdict[Worker])
    BY <1>2 DEF Succeeds
  <2> QED
    BY <1>2, <2>1, <2>4, <2>5 DEF Told
<1> QED
  BY <1>2, <1>4, <1>5 DEF JobsInv, ToldInv, OrdersInv

(* A job let in has the next order, which no generation names. *)
LEMMA JobsAdmitted ==
  ASSUME IInv, TypeOK', JobsInv, NEW key, Admit(key), service = "serving",
         UNCHANGED <<history, starts, service, ram>>,
         pc'[Worker] = pc[Worker], verdict'[Worker] = verdict[Worker]
  PROVE  JobsInv'
<1>0. TypeOK /\ ram.rev \in Nat /\ ram.rev <= ram'.rev
  BY RevisionType DEF IInv
<1>1. CASE JobOf(key) # {}
  BY <1>0, <1>1, JobsKept DEF Admit, queue
<1>2. CASE JobOf(key) = {}
  <2> DEFINE new == [order |-> order + 1, key |-> key, state |-> "queued"]
  <2>1. jobs' = jobs \cup {new} /\ order' = order + 1 /\ order \in Nat /\ order' \in 1 .. MaxJobs
    BY <1>0, <1>2, Bounds DEF Admit, TypeOK
  <2>2. OrdersInv'
    <3>1. \A j \in jobs : j.order \in 1 .. order
      BY DEF JobsInv, OrdersInv
    <3>2. \A j \in jobs : j.order # order + 1 /\ j.order \in 1 .. order'
      BY <2>1, <3>1
    <3>3. \A j, k \in jobs : j.order = k.order => j = k
      BY DEF JobsInv, OrdersInv
    <3> QED
      BY <2>1, <3>2, <3>3 DEF OrdersInv
  <2>3. AuthorsInv'
    BY <1>0, <2>1 DEF JobsInv, AuthorsInv
  <2>4. ASSUME NEW j \in jobs', j.key \in Update
        PROVE  Told(j)'
    <3>1. CASE j \in jobs
      BY <1>0, <2>4, <3>1, WrittenKept DEF JobsInv, ToldInv, Told, Succeeds
    <3>2. CASE j = new
      <4>1. j.state = "queued" /\ j.order = order + 1
        BY <3>2
      <4>2. starts \in 1 .. MaxStarts
        BY <1>0, Bounds DEF IInv, AsleepInv, TypeOK
      <4>3. Unwritten(order + 1)
        <5>1. ASSUME NEW r \in 1 .. Len(history), Wrote(r, order + 1)
              PROVE  order + 1 <= order
          BY <2>1, <4>2, <5>1 DEF JobsInv, AuthorsInv, Wrote
        <5> QED
          BY <2>1, <5>1 DEF Unwritten
      <4>4. Unwritten(j.order)'
        BY <4>1, <4>3 DEF Unwritten, Wrote
      <4> QED
        BY <4>1, <4>4 DEF Told
    <3> QED
      BY <2>1, <3>1, <3>2
  <2> QED
    BY <2>2, <2>3, <2>4 DEF JobsInv, ToldInv
<1> QED
  BY <1>1, <1>2

(* The worker takes a job that is queued, and reports one as it was told. *)
LEMMA JobsStarted == ASSUME IInv, TypeOK', JobsInv, StartJob PROVE JobsInv'
<1>0. TypeOK /\ Running = {} /\ ram.rev \in Nat /\ ram.rev <= ram'.rev
  BY RevisionType DEF IInv, RunningInv, StartJob, server
<1>1. PICK j \in jobs :
        /\ j.state = "queued" /\ jobs' = (jobs \ {j}) \cup {[j EXCEPT !.state = "running"]}
        /\ Goto(Worker, IF j.key \in Update THEN "line" ELSE "publish")
  BY DEF StartJob
<1>2. UNCHANGED <<history, starts, service, order, ram, verdict>>
  BY DEF StartJob, disk, server
<1> DEFINE k == [j EXCEPT !.state = "running"]
<1>3. k.order = j.order /\ k.key = j.key /\ k.state = "running" /\ j \in Job
  BY <1>0, <1>1 DEF TypeOK, Job
<1>4. jobs' = (jobs \ {j}) \cup {k}
  BY <1>1
<1> HIDE DEF k
<1>5. OrdersInv'
  BY <1>1, <1>2, <1>3, <1>4 DEF JobsInv, OrdersInv
<1>6. AuthorsInv'
  BY <1>2 DEF JobsInv, AuthorsInv
<1>7. ASSUME NEW i \in jobs', i.key \in Update
      PROVE  Told(i)'
  <2>1. CASE i = k
    <3>1. pc'[Worker] = "line"
      BY <1>0, <1>1, <1>3, <1>7, <2>1 DEF TypeOK, Thread, Actor, Goto
    <3>2. Unwritten(k.order)'
      <4>1. Unwritten(j.order)
        BY <1>1, <1>3, <1>7, <2>1 DEF JobsInv, ToldInv, Told
      <4> QED
        BY <1>2, <1>3, <4>1 DEF Unwritten, Wrote
    <3> QED
      BY <1>3, <2>1, <3>1, <3>2 DEF Told
  <2>2. CASE i # k
    <3>1. i \in jobs /\ i.state # "running" /\ Told(i)
      BY <1>0, <1>4, <1>7, <2>2 DEF Running, JobsInv, ToldInv
    <3> QED
      BY <1>0, <1>2, <3>1, WrittenKept DEF Told
  <2> QED
    BY <2>1, <2>2
<1> QED
  BY <1>5, <1>6, <1>7 DEF JobsInv, ToldInv

LEMMA JobsFinished == ASSUME IInv, TypeOK', JobsInv, FinishJob PROVE JobsInv'
<1>0. TypeOK /\ ram.rev \in Nat /\ ram.rev <= ram'.rev
  BY RevisionType DEF IInv, FinishJob, server
<1> DEFINE told == IF Succeeds(verdict[Worker]) THEN "completed" ELSE "failed"
<1>1. PICK j \in Running : jobs' = Pruned((jobs \ {j}) \cup {[j EXCEPT !.state = told]})
  BY DEF FinishJob
<1>2. UNCHANGED <<history, starts, service, order, ram>> /\ pc[Worker] = "report"
  BY DEF FinishJob, disk, server
<1> DEFINE k == [j EXCEPT !.state = told]
<1>3. /\ k.order = j.order /\ k.key = j.key /\ k.state = told
      /\ j \in jobs /\ j.state = "running" /\ Running = {j}
  BY <1>0, <1>1 DEF TypeOK, Job, Running, IInv, RunningInv
<1>4. jobs' \subseteq (jobs \ {j}) \cup {k}
  BY <1>1 DEF Pruned
<1> HIDE DEF k
<1>5. OrdersInv'
  BY <1>2, <1>3, <1>4 DEF JobsInv, OrdersInv
<1>6. AuthorsInv'
  BY <1>2 DEF JobsInv, AuthorsInv
<1>7. ASSUME NEW i \in jobs', i.key \in Update
      PROVE  Told(i)'
  <2>1. CASE i = k
    <3>1. IF told = "completed" THEN WrittenAndServed(j.order) ELSE Unwritten(j.order)
      BY <1>2, <1>3, <1>7, <2>1 DEF JobsInv, ToldInv, Told
    <3>2. told \in {"completed", "failed"}
      OBVIOUS
    <3> QED
      BY <1>0, <1>2, <1>3, <2>1, <3>1, <3>2, WrittenKept DEF Told
  <2>2. CASE i # k
    <3>1. i \in jobs /\ i.state # "running" /\ Told(i)
      BY <1>3, <1>4, <1>7, <2>2 DEF Running, JobsInv, ToldInv
    <3> QED
      BY <1>0, <1>2, <3>1, WrittenKept DEF Told
  <2> QED
    BY <2>1, <2>2
<1> QED
  BY <1>5, <1>6, <1>7 DEF JobsInv, ToldInv

LEMMA JobsClosed == ASSUME IInv, TypeOK', JobsInv, Close PROVE JobsInv'
<1>0. TypeOK /\ ram.rev \in Nat /\ ram.rev <= ram'.rev
  BY RevisionType DEF IInv, Close
<1> DEFINE closed(j) == IF j.state = "queued" THEN [j EXCEPT !.state = "cancelled"] ELSE j
<1>1. jobs' \subseteq {closed(j) : j \in jobs}
  BY DEF Close, Pruned
<1>2. /\ UNCHANGED <<history, starts, order, ram>>
      /\ pc' = pc /\ verdict' = verdict /\ service = "serving" /\ service' = "stopped"
  BY DEF Close, Answering
<1>3. \A j \in jobs : /\ closed(j).order = j.order /\ closed(j).key = j.key
                      /\ closed(j) = j \/ (j.state = "queued" /\ closed(j).state = "cancelled")
  BY <1>0 DEF TypeOK, Job
<1> HIDE DEF closed
<1>4. OrdersInv'
  <2>1. \A i \in jobs' : \E j \in jobs : i = closed(j) /\ i.order = j.order
    BY <1>1, <1>3
  <2> QED
    BY <1>2, <2>1 DEF JobsInv, OrdersInv
<1>5. AuthorsInv'
  BY <1>2 DEF JobsInv, AuthorsInv
<1>6. ASSUME NEW i \in jobs', i.key \in Update
      PROVE  Told(i)'
  <2>1. PICK j \in jobs : i = closed(j)
    BY <1>1
  <2>2. j.key \in Update /\ Told(j)
    BY <1>3, <1>6, <2>1 DEF JobsInv, ToldInv
  <2>3. /\ Unwritten(j.order)' <=> Unwritten(j.order)
        /\ WrittenAndServed(j.order)' <=> WrittenAndServed(j.order)
        /\ Wrote(Len(history), j.order)' <=> Wrote(Len(history), j.order)
    BY <1>2 DEF Unwritten, WrittenAndServed, Wrote
  <2>4. Succeeds(verdict[Worker])' <=> Succeeds(verdict[Worker])
    BY <1>2 DEF Succeeds
  <2> QED
    BY <1>2, <1>3, <2>1, <2>2, <2>3, <2>4 DEF Told
<1> QED
  BY <1>4, <1>5, <1>6 DEF JobsInv, ToldInv

(* An instance that begins has no jobs, and no generation is its own yet. *)
LEMMA JobsBorn ==
  ASSUME IInv, TypeOK', JobsInv, Load \/ Serve \/ Perish
  PROVE  JobsInv'
<1>0. TypeOK /\ AsleepInv /\ starts \in Nat
  BY Bounds DEF IInv, TypeOK
<1>1. jobs' = {} /\ history' = history
  BY <1>0 DEF Load, Serve, Perish, AsleepInv, disk, queue
<1>2. OrdersInv' /\ ToldInv'
  BY <1>1 DEF OrdersInv, ToldInv
<1>3. AuthorsInv'
  <2>1. CASE Load
    <3>1. history' = history /\ service' = "loading" /\ starts' = starts + 1
      BY <2>1 DEF Load, disk
    <3> QED
      BY <1>0, <3>1 DEF JobsInv, AuthorsInv
  <2>2. CASE Serve
    <3>1. history' = history /\ service = "loading" /\ service' \in {"down", "serving"} /\ starts' = starts
      BY <2>2 DEF Serve, disk
    <3> QED
      BY <1>0, <3>1 DEF JobsInv, AuthorsInv
  <2>3. CASE Perish
    <3>1. history' = history /\ service' = "down" /\ starts' = starts
      BY <2>3 DEF Perish
    <3> QED
      BY <3>1 DEF JobsInv, AuthorsInv
  <2> QED
    BY <2>1, <2>2, <2>3
<1> QED
  BY <1>2, <1>3 DEF JobsInv

LEMMA JobsStep == IInv /\ IInv' /\ JobsInv /\ [Next]_vars => JobsInv'
<1> SUFFICES ASSUME IInv, IInv', JobsInv, [Next]_vars
             PROVE  JobsInv'
  OBVIOUS
<1>0. TypeOK /\ TypeOK' /\ ram.rev \in Nat
  BY RevisionType DEF IInv
<1> USE <1>0 DEF disk, server, queue
<1>1. CASE UNCHANGED vars
  BY <1>1, JobsKept DEF vars
<1>2. ASSUME WorkerLine \/ WorkerEnter \/ WorkerStopped
      PROVE  JobsInv'
  <2>1. UNCHANGED <<history, starts, service, jobs, order, ram>>
    BY <1>2 DEF WorkerLine, WorkerEnter, WorkerStopped, StandInLine, Enter
  <2>2. /\ pc[Worker] \in {"line", "wait"}
        /\ \/ pc'[Worker] \in {"wait", "execute"}
           \/ pc'[Worker] = "report" /\ ~ Succeeds(verdict'[Worker])
    BY <1>2
    DEF WorkerLine, WorkerEnter, WorkerStopped, Goto, Concludes, Succeeds, TypeOK, Thread, Actor
  <2>3. \A j \in jobs : j.key \in Update /\ j.state = "running" => Unwritten(j.order)
    BY <2>2 DEF JobsInv, ToldInv, Told
  <2> QED
    BY <2>1, <2>2, <2>3, JobsMoved
<1>3. ASSUME WorkerPublish
      PROVE  JobsInv'
  <2>1. UNCHANGED <<history, starts, service, jobs, order>> /\ ram.rev <= ram'.rev
    <3>1. PICK j \in Running : Publish(j.key)
      BY <1>3 DEF WorkerPublish
    <3>2. Committed.rev \in Nat
      BY GenerationType, Bounds DEF Generation
    <3>3. ram.rev <= ram'.rev
      BY <3>1, <3>2, PublishInstalls
    <3> QED
      BY <1>3, <3>3 DEF WorkerPublish
  <2>2. \A j \in jobs : ~ (j.key \in Update /\ j.state = "running")
    BY <1>3 DEF WorkerPublish, IInv, ReceiptInv, Running
  <2> QED
    BY <2>1, <2>2, JobsMoved
<1>4. ASSUME DirectPublish
      PROVE  JobsInv'
  <2>1. Committed.rev \in Nat
    BY GenerationType, Bounds DEF Generation
  <2>2. ram.rev <= ram'.rev
    BY <1>4, <2>1, PublishInstalls DEF DirectPublish
  <2> QED
    BY <1>4, <2>2, JobsKept DEF DirectPublish
<1>5. ASSUME DirectUpdate \/ VerifyFence \/ VerifyAdmit \/ VerifyRefused \/ VerifyCompare \/ Finalize
      PROVE  JobsInv'
  <2>1. UNCHANGED <<history, starts, service, jobs, order, ram>>
    BY <1>5 DEF DirectUpdate, VerifyFence, VerifyAdmit, VerifyRefused, VerifyCompare, Finalize
  <2>2. pc'[Worker] = pc[Worker] /\ verdict' = verdict
    BY <1>5, ServerAssumption
    DEF TypeOK, Thread, Actor, Goto, DirectUpdate, VerifyFence, VerifyAdmit, VerifyRefused,
        VerifyCompare, Finalize
  <2> QED
    BY <2>1, <2>2, JobsKept
<1>6. ASSUME NEW t \in Thread, ThreadStep(t)
      PROVE  JobsInv'
  BY <1>6, JobsThread, JobsSave, JobsInstall DEF ThreadStep
<1>7. ASSUME NEW u \in Update, SubmitUpdate(u)
      PROVE  JobsInv'
  BY <1>7, JobsAdmitted DEF SubmitUpdate, Answering
<1>8. ASSUME NEW a \in Analysis, SubmitPublish(a)
      PROVE  JobsInv'
  <2>1. /\ UNCHANGED <<history, starts, service, ram>> /\ service = "serving"
        /\ Admit(goal[a]) \/ UNCHANGED queue
    BY <1>8 DEF SubmitPublish, Answering
  <2>2. pc'[Worker] = pc[Worker] /\ verdict'[Worker] = verdict[Worker]
    BY <1>8, ServerAssumption
    DEF SubmitPublish, Settle, Goto, Concludes, TypeOK, Thread, Actor
  <2>3. CASE Admit(goal[a])
    BY <2>1, <2>2, <2>3, JobsAdmitted
  <2>4. CASE UNCHANGED queue
    BY <2>1, <2>2, <2>4, JobsKept
  <2> QED
    BY <2>1, <2>3, <2>4
<1>9. ASSUME NEW a \in Analysis,
             \/ Request(a) \/ AnalysisEnter(a) \/ AnalysisFails(a) \/ Connect(a)
             \/ Poll(a) \/ Unconfirmed(a) \/ Release(a) \/ AnalysisDies(a)
      PROVE  JobsInv'
  <2>1. UNCHANGED <<history, starts, service, jobs, order, ram>>
    BY <1>9 DEF Request, AnalysisEnter, AnalysisFails, Connect, Poll, Unconfirmed, Release,
                AnalysisDies, Return, StandInLine, Enter
  <2>2. \/ UNCHANGED verdict
        \/ \E v : verdict' = [verdict EXCEPT ![a] = v]
    BY <1>9 DEF Request, AnalysisEnter, AnalysisFails, Connect, Poll, Unconfirmed, Release,
                AnalysisDies, Return, Settle, Concludes
  <2>3. \E p : pc' = [pc EXCEPT ![a] = p]
    BY <1>9 DEF Request, AnalysisEnter, AnalysisFails, Connect, Poll, Unconfirmed, Release,
                AnalysisDies, Return, Settle, Goto
  <2>4. pc'[Worker] = pc[Worker] /\ verdict'[Worker] = verdict[Worker]
    BY <2>2, <2>3, ServerAssumption DEF TypeOK, Thread, Actor
  <2> QED
    BY <2>1, <2>4, JobsKept
<1>10. ASSUME DesktopStep
      PROVE  JobsInv'
  <2>1. UNCHANGED <<history, starts, service, jobs, order, ram, verdict>>
    BY <1>10 DEF DesktopStep, DesktopRead, DesktopCompare, DesktopEnter, DesktopSkips,
                 DesktopPublish, DesktopRelease
  <2>2. \E p : pc' = [pc EXCEPT ![Desktop] = p]
    BY <1>10 DEF DesktopStep, DesktopRead, DesktopCompare, DesktopEnter, DesktopSkips,
                 DesktopPublish, DesktopRelease, Goto
  <2>3. pc'[Worker] = pc[Worker]
    BY <2>2, ServerAssumption DEF TypeOK, Thread, Actor
  <2> QED
    BY <2>1, <2>3, JobsKept
<1> QED
  BY <1>1, <1>2, <1>3, <1>4, <1>5, <1>6, <1>7, <1>8, <1>9, <1>10,
     JobsStarted, JobsFinished, JobsClosed, JobsBorn, JobsCommit
  DEF Next, WorkerStep, ServiceStep, AnalysisStep, Settling, Thread

LEMMA JobsTold == TypeOK /\ JobsInv => JobsTellTheTruth
<1> SUFFICES ASSUME TypeOK, JobsInv, NEW j \in jobs, ~ Live(j), j.key \in Update
             PROVE  IF j.state = "completed"
                    THEN \E r \in {r \in 1 .. Len(history) : Wrote(r, j.order)} : r <= ram.rev
                    ELSE {r \in 1 .. Len(history) : Wrote(r, j.order)} = {}
  BY DEF JobsTellTheTruth, Wrote
<1>1. j.state \in {"completed", "failed", "cancelled"} /\ Told(j)
  BY DEF TypeOK, Job, JobState, Live, JobsInv, ToldInv
<1> QED
  BY <1>1 DEF Told, Unwritten, WrittenAndServed

(* For every number of analyses, updates, generations, restarts and jobs,  *)
(* and under every fault: an update reported completed is in exactly the   *)
(* history LIVE serves, and one reported failed or cancelled wrote nothing *)
(* (_run and _execute_update_file of ipc.py, with the pruning of jobs and  *)
(* the cancelling of close).                                               *)
THEOREM JobsAreTrue == Spec => []JobsTellTheTruth
<1>1. TypeOK /\ JobsInv => JobsTellTheTruth
  BY JobsTold
<1>2. IInv => TypeOK
  BY DEF IInv
<1> QED
  BY <1>1, <1>2, JobsInit, JobsStep, Invariance, PTL DEF Spec

-----------------------------------------------------------------------------
(* The log of a history, and what LIVE serves of it. *)
From(h) == [r \in 1 .. Len(h) |-> h[r].from]
Served(g) == IF g.sid = 0 THEN 0 ELSE g.rev

LEMMA LogGrows ==
  ASSUME TypeOK, NEW e \in Commit, history' = Append(history, e)
  PROVE  From(history') = Append(From(history), e.from)
<1>1. Len(history) \in Nat /\ From(history) \in Seq(0 .. MaxRevision)
  <2>1. ASSUME NEW r \in 1 .. Len(history) PROVE history[r].from \in 0 .. MaxRevision
    <3>1. history[r] \in Commit
      BY DEF TypeOK
    <3> QED
      BY <3>1 DEF Commit
  <2> QED
    BY <2>1, HistoryType, Bounds DEF From
<1>2. /\ Len(history') = Len(history) + 1 /\ history'[Len(history) + 1] = e
      /\ \A r \in 1 .. Len(history) : history'[r] = history[r]
  BY DEF TypeOK
<1>3. Len(From(history)) = Len(history)
  BY <1>1 DEF From
<1>4. \A r \in 1 .. Len(history) + 1 : From(history')[r] = Append(From(history), e.from)[r]
  BY <1>1, <1>2, <1>3 DEF From
<1>5. e.from \in 0 .. MaxRevision
  BY DEF Commit
<1>6. Append(From(history), e.from) \in Seq(0 .. MaxRevision)
      /\ Len(Append(From(history), e.from)) = Len(history) + 1
  BY <1>1, <1>3, <1>5
<1>7. From(history') \in Seq(0 .. MaxRevision) /\ Len(From(history')) = Len(history) + 1
  <2>1. \A r \in 1 .. Len(history) + 1 : From(history')[r] \in 0 .. MaxRevision
    BY <1>1, <1>4, <1>6, ElementOfSeq
  <2> QED
    BY <1>1, <1>2, <2>1 DEF From
<1> QED
  BY <1>4, <1>6, <1>7, SeqEqual

(* Every step of the server is one of the log, or none. *)
LEMMA LogStep ==
  ASSUME IInv, IInv', [Next]_vars
  PROVE  [Log!Next]_(Log!vars)
<1>0. TypeOK /\ ExecutionInv /\ DurableInv /\ AsleepInv
  BY DEF IInv
<1>1. /\ Len(From(history)) = Len(history) /\ Len(history) \in Nat
      /\ ram.rev \in Nat /\ Served(ram) \in Nat
  <2>1. ram.rev \in Nat
    BY <1>0, Bounds DEF TypeOK, Generation
  <2> QED
    BY <1>0, <2>1, HistoryType, Bounds DEF From, Served
<1>2. SUFFICES
        \/ UNCHANGED <<history, ram>>
        \/ /\ Len(history) < MaxRevision /\ UNCHANGED ram
           /\ \/ From(history') = Append(From(history), 0)
              \/ /\ Len(history) > 0
                 /\ From(history') = Append(From(history), Len(history))
        \/ UNCHANGED history /\ Served(ram') \in (Served(ram) + 1) .. Len(history)
        \/ UNCHANGED history /\ Served(ram') = 0
  BY <1>1 DEF Log!Next, Log!vars, Log!Analyse, Log!Derive, Log!Advance, Log!Stop, From, Served
<1> USE <1>0 DEF disk, server
<1>3. CASE UNCHANGED vars
  BY <1>3 DEF vars
<1>4. ASSUME NEW a \in Analysis, CommitAnalysis(a)
      PROVE  /\ Len(history) < MaxRevision /\ UNCHANGED ram
             /\ From(history') = Append(From(history), 0)
  <2>1. /\ history' = Append(history, [sid |-> Len(history) + 1, from |-> 0, by |-> NoKey])
        /\ Len(history) < MaxRevision /\ UNCHANGED ram
    BY <1>4 DEF CommitAnalysis, Record
  <2>2. [sid |-> Len(history) + 1, from |-> 0, by |-> NoKey] \in Commit
    BY <1>1, <2>1, Bounds DEF Commit
  <2> QED
    BY <2>1, <2>2, LogGrows
<1>5. ASSUME NEW t \in Thread, Save(t)
      PROVE  /\ Len(history) < MaxRevision /\ UNCHANGED ram /\ Len(history) > 0
             /\ From(history') = Append(From(history), Len(history))
  <2>1. Len(history) < MaxRevision /\ UNCHANGED ram
    BY <1>5 DEF Save
  <2>2. base[t] = ram /\ ram.sid # 0 /\ base[t].rev = Len(history)
    <3>1. base[t] = ram /\ ram.sid # 0 /\ Len(history) + 1 = base[t].rev + 1
      BY <1>5 DEF Save, MayFollow, ExecutionInv
    <3> QED
      BY <1>1, <3>1
  <2>3. Len(history) > 0
    BY <1>1, <2>2 DEF DurableInv, Durable
  <2> DEFINE e == [sid |-> Committed.sid, from |-> base[t].rev, by |-> Author(t)]
  <2>4. history' = Append(history, e)
    BY <1>5 DEF Save, Record
  <2>5. e \in Commit
    <3>1. history' \in Seq(Commit) /\ Len(history') = Len(history) + 1
      BY <2>4 DEF IInv, TypeOK
    <3>2. history'[Len(history) + 1] = e
      BY <2>4 DEF TypeOK
    <3>3. Len(history) + 1 \in 1 .. Len(history')
      BY <1>1, <3>1
    <3> QED
      BY <3>1, <3>2, <3>3, ElementOfSeq
  <2>6. e.from = Len(history)
    BY <2>2
  <2> HIDE DEF e
  <2> QED
    BY <2>1, <2>3, <2>4, <2>5, <2>6, LogGrows
<1>6. ASSUME NEW k, Publish(k), UNCHANGED history
      PROVE  UNCHANGED ram \/ Served(ram') \in (Served(ram) + 1) .. Len(history)
  <2>1. CASE ram' = Committed /\ Committed.rev > ram.rev
    <3>1. history # <<>>
      BY <1>1, <2>1 DEF Committed, NoGeneration
    <3>2. Committed.rev = Len(history) /\ Committed.sid # 0
      BY <3>1, HistoryType, Bounds DEF Committed, TypeOK
    <3> QED
      BY <1>1, <2>1, <3>2 DEF Served
  <2> QED
    BY <1>6, <2>1, PublishInstalls
<1>7. ASSUME NEW t \in Thread, Install(t)
      PROVE  UNCHANGED history /\ (UNCHANGED ram \/ Served(ram') \in (Served(ram) + 1) .. Len(history))
  <2>1. CASE ram = base[t]
    <3>1. ram' = [rev |-> base[t].rev + 1, sid |-> history[base[t].rev + 1].sid]
      BY <1>7, <2>1 DEF Install
    <3>2. Len(history) = ram.rev + 1 /\ history[Len(history)].sid = ram.sid /\ ram.sid # 0
      BY <1>7, <2>1 DEF Install, ExecutionInv
    <3>3. ram'.rev = Len(history) /\ ram'.sid # 0
      BY <2>1, <3>1, <3>2
    <3> QED
      BY <1>1, <1>7, <3>2, <3>3 DEF Served, Install
  <2>2. CASE ram # base[t]
    BY <1>7, <2>2 DEF Install
  <2> QED
    BY <1>7, <2>1, <2>2 DEF Install
<1>8. ASSUME Serve
      PROVE  UNCHANGED history /\ (UNCHANGED ram \/ Served(ram') = 0
                                   \/ Served(ram') \in (Served(ram) + 1) .. Len(history))
  <2>1. CASE Parity /\ loaded.sid # 0
    <3>1. ram' = [rev |-> Len(history), sid |-> loaded.sid] /\ loaded.rev = Len(history)
      BY <1>8, <2>1 DEF Serve, Parity
    <3>2. Served(ram) = 0
      BY <1>8 DEF Serve, AsleepInv, NoGeneration, Served
    <3>3. Len(history) > 0
      BY <1>1, <2>1, <3>1 DEF DurableInv, Durable
    <3> QED
      BY <1>1, <1>8, <2>1, <3>1, <3>2, <3>3 DEF Serve, Served
  <2>2. CASE Parity /\ loaded.sid = 0
    BY <1>8, <2>2 DEF Serve, Served
  <2>3. CASE ~ Parity
    BY <1>8, <2>3 DEF Serve
  <2> QED
    BY <2>1, <2>2, <2>3
<1>9. ASSUME Perish
      PROVE  UNCHANGED history /\ Served(ram') = 0
  BY <1>9 DEF Perish, Served, NoGeneration
<1>10. CASE WorkerStep
  <2>1. CASE WorkerPublish
    BY <1>6, <2>1 DEF WorkerPublish
  <2>2. CASE ThreadStep(Worker)
    BY <1>5, <1>7, <2>2
    DEF ThreadStep, Thread, Execute, SaveConflict, SaveFails, Leave
  <2> QED
    BY <1>10, <2>1, <2>2
    DEF WorkerStep, StartJob, WorkerLine, WorkerEnter, WorkerStopped, FinishJob
<1>11. CASE ServiceStep
  <2>1. CASE DirectPublish
    BY <1>6, <2>1 DEF DirectPublish
  <2>2. CASE ThreadStep(Service)
    BY <1>5, <1>7, <2>2
    DEF ThreadStep, Thread, Execute, SaveConflict, SaveFails, Leave
  <2> QED
    BY <1>8, <1>9, <1>11, <2>1, <2>2
    DEF ServiceStep, DirectUpdate, VerifyFence, VerifyAdmit, VerifyRefused, VerifyCompare,
        Finalize, Load, Close, SubmitUpdate
<1>12. CASE DesktopStep
  BY <1>12 DEF DesktopStep, DesktopRead, DesktopCompare, DesktopEnter, DesktopSkips,
               DesktopPublish, DesktopRelease
<1>13. ASSUME NEW a \in Analysis, AnalysisStep(a)
       PROVE  CommitAnalysis(a) \/ UNCHANGED <<history, ram>>
  BY <1>13 DEF AnalysisStep, Settling, Request, AnalysisEnter, AnalysisFails, Connect,
               SubmitPublish, Poll, Unconfirmed, Release, AnalysisDies, Return
<1> QED
  BY <1>3, <1>4, <1>10, <1>11, <1>12, <1>13 DEF Next

(* LIVE moves forward along the committed generations, an update is        *)
(* committed only on top of the last one, and nothing committed is undone. *)
THEOREM ServerImplementsLog == Spec => ImplementsLog
<1>1. Init => Log!Init
  BY DEF Init, Log!Init, NoGeneration
<1>2. IInv /\ IInv' /\ [Next]_vars => [Log!Next]_(Log!vars)
  BY LogStep
<1> QED
  BY <1>1, <1>2, Invariance, PTL DEF Spec, ImplementsLog, Log!Spec
=============================================================================
