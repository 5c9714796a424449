----------------------------- MODULE AnalysisJobs -----------------------------
(***************************************************************************)
(* The analysis jobs of the MCP servers of one repository,                 *)
(* mcp/analysis_jobs and mcp/tools/get_analysis_status: a job is accepted  *)
(* with a durable record, runs in a thread of its server, and whoever asks *)
(* for its status corrects the record of a job that can no longer end.     *)
(*                                                                         *)
(* A server accepts, reads and writes records under its job lock; it is    *)
(* not shared with another server, and a status is read, checked and       *)
(* written in three steps.                                                 *)
(***************************************************************************)
EXTENDS Integers, FiniteSets

CONSTANTS
    Server,
    Host,       \* bound: the servers that are asked to analyse, the others are asked
                \* for a status only
    Asker,      \* calls of get_analysis_status
    MaxJobs,    \* bound: jobs ever accepted
    MaxStarts,  \* bound: starts of one server
    MaxRefusals \* bound: writes and reads of a record that raise

ASSUME JobAssumption ==
    /\ Host \subseteq Server
    /\ {MaxJobs, MaxStarts, MaxRefusals} \subseteq Nat

NoJobId == 0
JobEnded == {"completed", "failed"}
Pending == {"queued", "running"}

VARIABLES
    record,     \* the durable records, from job to [status, owner]
    work,       \* the thread of each job
    table,      \* _analysis_tasks of each server
    byRepo,     \* _analysis_jobs_by_repo of each server, for this repository
    up,         \* the servers that have a process
    starts,     \* that process is the starts-th of its server
    stopping,   \* servers that were told to shut down
    ask,        \* what each status call knows
    refusals

jobVars == <<record, work, table, byRepo, up, starts, stopping, ask, refusals>>

AllJobs == DOMAIN record
Pid(s) == <<s, starts[s]>>
Up(s) == s \in up
Idle == [at |-> "idle"]

JobInit ==
    /\ record = <<>> /\ work = <<>>
    /\ table = [s \in Server |-> {}]
    /\ byRepo = [s \in Server |-> NoJobId]
    /\ up = Server
    /\ starts = [s \in Server |-> 1]
    /\ stopping = {}
    /\ ask = [a \in Asker |-> Idle]
    /\ refusals = 0

JobRefused == refusals < MaxRefusals /\ refusals' = refusals + 1
SetRecord(j, status, owner) ==
    record' = [i \in AllJobs \cup {j} |-> IF i = j THEN [status |-> status, owner |-> owner] ELSE record[i]]

-----------------------------------------------------------------------------
(* _start_analysis_job *)

Running(s) == byRepo[s] # NoJobId /\ byRepo[s] \in table[s]

\* A running job is reused; when its record cannot be read, another starts.
StartJob(s) ==
    /\ Up(s) /\ Cardinality(AllJobs) < MaxJobs
    /\ IF Running(s) THEN JobRefused ELSE UNCHANGED refusals
    /\ LET j == Cardinality(AllJobs) + 1
       IN /\ SetRecord(j, "queued", Pid(s))
          /\ work' = [i \in AllJobs \cup {j} |-> IF i = j THEN "queued" ELSE work[i]]
          /\ table' = [table EXCEPT ![s] = @ \cup {j}]
          /\ byRepo' = [byRepo EXCEPT ![s] = j]
    /\ UNCHANGED <<up, starts, stopping, ask>>

-----------------------------------------------------------------------------
(* _execute_analysis_job *)

Home(j) == record[j].owner[1]

\* persist_job: a record that cannot be written stays as it is.
Persist(j, status) ==
  \/ SetRecord(j, status, record[j].owner) /\ UNCHANGED refusals
  \/ JobRefused /\ UNCHANGED record

BeginJob(j) ==
    /\ work[j] = "queued"
    /\ Persist(j, "running")
    /\ work' = [work EXCEPT ![j] = "waiting"]
    /\ UNCHANGED <<table, byRepo, up, starts, stopping, ask>>

\* One analysis at a time runs in a server.
RunAnalysis(j) ==
    /\ work[j] = "waiting"
    /\ \A i \in table[Home(j)] : work[i] # "working"
    /\ work' = [work EXCEPT ![j] = "working"]
    /\ UNCHANGED <<record, table, byRepo, up, starts, stopping, ask, refusals>>

\* It ends well, raises, or is cancelled by a shutdown.
EndAnalysis(j) ==
    /\ work[j] = "working"
    /\ \E outcome \in IF Home(j) \in stopping THEN {"failed"} ELSE JobEnded :
         work' = [work EXCEPT ![j] = outcome]
    /\ UNCHANGED <<record, table, byRepo, up, starts, stopping, ask, refusals>>

Conclude(j) ==
    /\ work[j] \in JobEnded
    /\ Persist(j, work[j])
    /\ work' = [work EXCEPT ![j] = "concluded"]
    /\ UNCHANGED <<table, byRepo, up, starts, stopping, ask>>

LeaveTable(j) ==
    /\ work[j] = "concluded"
    /\ work' = [work EXCEPT ![j] = "over"]
    /\ table' = [table EXCEPT ![Home(j)] = @ \ {j}]
    /\ byRepo' = [byRepo EXCEPT ![Home(j)] = IF @ = j THEN NoJobId ELSE @]
    /\ UNCHANGED <<record, up, starts, stopping, ask, refusals>>

-----------------------------------------------------------------------------
(* get_analysis_status *)

Ask(a, s, j) ==
    /\ ask[a] = Idle /\ Up(s)
    /\ ask' = [ask EXCEPT ![a] = [at |-> "read", server |-> s, pid |-> Pid(s), job |-> j,
                                  status |-> record[j].status, owner |-> record[j].owner]]
    /\ UNCHANGED <<record, work, table, byRepo, up, starts, stopping, refusals>>

Answer(a, status) == ask' = [ask EXCEPT ![a] = [at |-> "answer", job |-> ask[a].job,
                                                pid |-> ask[a].pid, answer |-> status]]

\* Mutant of Check: a job that is not in the table is believed to run.
CheckOwnerOnly(a) ==
    /\ ask[a].at = "read"
    /\ IF ask[a].status \in Pending /\ ask[a].owner # ask[a].pid
       THEN ask' = [ask EXCEPT ![a].at = "correct"]
       ELSE Answer(a, ask[a].status)
    /\ UNCHANGED <<record, work, table, byRepo, up, starts, stopping, refusals>>

\* A job of another process, and one whose thread is gone, can only be over.
Check(a) ==
    /\ ask[a].at = "read"
    /\ IF ask[a].status \in Pending
          /\ (ask[a].owner # ask[a].pid \/ ask[a].job \notin table[ask[a].server])
       THEN ask' = [ask EXCEPT ![a].at = "correct"]
       ELSE Answer(a, ask[a].status)
    /\ UNCHANGED <<record, work, table, byRepo, up, starts, stopping, refusals>>

ThreadLives(j) == j \in table[Home(j)]

Correct(a) ==
    /\ ask[a].at = "correct"
    /\ Answer(a, "interrupted")
    /\ \/ SetRecord(ask[a].job, "interrupted", ask[a].owner) /\ UNCHANGED refusals
       \/ JobRefused /\ UNCHANGED record
    /\ UNCHANGED <<work, table, byRepo, up, starts, stopping>>

EndAsk(a) ==
    /\ ask[a].at = "answer"
    /\ ask' = [ask EXCEPT ![a] = Idle]
    /\ UNCHANGED <<record, work, table, byRepo, up, starts, stopping, refusals>>

-----------------------------------------------------------------------------
(* The servers *)

\* request_analysis_shutdown
RequestShutdown(s) ==
    /\ Up(s) /\ s \notin stopping
    /\ stopping' = stopping \cup {s}
    /\ UNCHANGED <<record, work, table, byRepo, up, starts, ask, refusals>>

\* The process ends, after a shutdown that did not wait longer or by a crash;
\* its threads are daemons.
Exit(s) ==
    /\ Up(s)
    /\ up' = up \ {s}
    /\ work' = [j \in AllJobs |-> IF j \in table[s] THEN "over" ELSE work[j]]
    /\ table' = [table EXCEPT ![s] = {}]
    /\ byRepo' = [byRepo EXCEPT ![s] = NoJobId]
    /\ stopping' = stopping \ {s}
    /\ ask' = [a \in Asker |-> IF ask[a] # Idle /\ ask[a].pid = Pid(s) THEN Idle ELSE ask[a]]
    /\ UNCHANGED <<record, starts, refusals>>

StartServer(s) ==
    /\ ~Up(s) /\ starts[s] < MaxStarts
    /\ up' = up \cup {s}
    /\ starts' = [starts EXCEPT ![s] = @ + 1]
    /\ UNCHANGED <<record, work, table, byRepo, stopping, ask, refusals>>

JobNext ==
    \/ \E s \in Host : StartJob(s) \/ RequestShutdown(s) \/ Exit(s) \/ StartServer(s)
    \/ \E j \in AllJobs : BeginJob(j) \/ RunAnalysis(j) \/ EndAnalysis(j) \/ Conclude(j)
                            \/ LeaveTable(j)
    \/ \E a \in Asker : \/ \E s \in Server, j \in AllJobs : Ask(a, s, j)
                        \/ Check(a) \/ Correct(a) \/ EndAsk(a)

JobSpec == JobInit /\ [][JobNext]_jobVars

-----------------------------------------------------------------------------
(* Properties *)

(* While the newest job of a server runs it is the one a second request is *)
(* given, though an older job may end only now (_start_analysis_job,       *)
(* _execute_analysis_job).                                                 *)
NewestIsReused ==
  \A s \in up : \A j \in table[s] :
    (\A i \in AllJobs : record[i].owner = Pid(s) => i <= j) => byRepo[s] = j

(* A status call never answers that a job is pending when its thread was   *)
(* gone before the call looked, and a record that says how a job ended is  *)
(* overwritten only by a call that had read it before it said so           *)
(* (get_analysis_status).                                                  *)
PendingLives(a) ==
  ask'[a] # ask[a] /\ ask'[a] # Idle /\ ask'[a].at = "answer" /\ ask'[a].answer \in Pending
    => ThreadLives(ask'[a].job)

ReadBefore(j) ==
  \E a \in Asker : /\ ask[a] # Idle /\ ask[a].at = "correct"
                    /\ ask[a].job = j /\ ask[a].status \in Pending

StatusIsSound ==
  [][/\ \A a \in Asker : PendingLives(a)
     /\ \A j \in AllJobs : record[j].status \in JobEnded =>
          record'[j].status = record[j].status \/ ReadBefore(j)]_jobVars

(* What a caller is told of jobs is what the server's threads do.          *)
JobsAreReal == []NewestIsReused /\ StatusIsSound
===============================================================================
