----------------------------- MODULE DesktopWatcher -----------------------------
(***************************************************************************)
(* The watcher of a repository, live_state/watcher.py: a file system       *)
(* observer puts changed paths into a queue, and one thread drains it,     *)
(* compares each path with the fingerprints of the committed generation    *)
(* and submits an update job to the LIVE service for those that differ.    *)
(*                                                                         *)
(* A submission carries an idempotency key; when its answer is lost, the   *)
(* path is ambiguous and the next submission carries the same key.  The    *)
(* service knows its jobs by key until it dies.                            *)
(*                                                                         *)
(* A source file is known by its version: every edit makes a new one.  The *)
(* service side is what a job does to the generation: it parses the file   *)
(* (incremental/engine.py), later records the fingerprint the file then    *)
(* has, commits both, and then serves them.                                *)
(***************************************************************************)
EXTENDS Naturals, FiniteSets

CONSTANTS
    Path,           \* files of the repository
    Unset,          \* no intent
    MaxEdits,       \* bound: edits
    MaxKeys,        \* bound: idempotency keys, one for each intent
    MaxMishaps      \* bound: crashes, lost answers, failing calls,
                    \* recoveries, and analyses that others start

ASSUME WatcherAssumption ==
    /\ {MaxEdits, MaxKeys, MaxMishaps} \subseteq Nat
    /\ Unset \notin Nat
    /\ Unset \notin [path : Path, observed : Nat] /\ Unset \notin [key : Nat, observed : Nat]

Key == 1 .. MaxKeys

VARIABLES
    source,     \* version of each file on disk
    edits,      \* how many there were
    base,       \* fingerprint of each file in the committed generation
    trusted,    \* its file states belong to it
    serving,    \* the LIVE service runs
    jobs,       \* its job of each key
    analysis,   \* a full analysis reads the files
    observer,   \* "new", "native", "dead", "polling" or "none"
    events,     \* changes the observer has not reported yet
    queue,      \* _pending_paths
    startup,    \* _startup_pending
    resync,     \* _startup_requires_resync
    attempted,  \* _startup_resync_attempted
    rebaseline, \* _recovery_rebaseline_pending
    snapshot,   \* _snapshot: the version the watcher trusts
    intents,    \* _pending_intents
    inflight,   \* _inflight_updates
    ambiguous,  \* _ambiguous_updates
    poll,       \* where the thread is in poll_once
    nextKey,
    recovery,   \* a recovery incident is registered: actions are deferred
    mishaps,    \* how many there were
    dropped     \* history: paths drained by a poll that then raised

disk == <<source, edits>>
committed == <<base, trusted>>
service == <<serving, jobs, analysis>>
watching == <<observer, events>>
memory == <<startup, resync, attempted, rebaseline, snapshot>>
updates == <<intents, inflight, ambiguous, nextKey>>
watchVars == <<disk, committed, service, watching, queue, memory, updates, poll,
               recovery, mishaps, dropped>>

Resting == [at |-> "idle"]
NoJob == [state |-> "absent"]

(* _startup_reconciliation_paths and has_changed: a path differs from the  *)
(* fingerprint of the committed generation.                                *)
Differs == {p \in Path : base[p] # source[p]}

(* _trusted_file_state: the persisted fingerprints are of the generation   *)
(* LIVE serves; a job that has committed and not finished is in between.   *)
Baseline ==
    trusted /\ serving /\ \A k \in Key : jobs[k].state # "committed"

(* Files may have changed while no watcher ran.  The constructor scans     *)
(* them and compares them with the generation.                             *)
WatchInit ==
    /\ base = [p \in Path |-> 0]
    /\ source \in [Path -> {0, 1}]
    /\ trusted \in BOOLEAN
    /\ edits = 0
    /\ serving = TRUE
    /\ jobs = [k \in Key |-> NoJob]
    /\ analysis = FALSE
    /\ observer = "new" /\ events = {}
    /\ queue = {}
    /\ startup = IF trusted THEN Differs ELSE {}
    /\ resync = ~trusted
    /\ attempted = FALSE /\ rebaseline = FALSE
    /\ snapshot = source
    /\ intents = [p \in Path |-> Unset]
    /\ inflight = [k \in Key |-> Unset]
    /\ ambiguous = {}
    /\ poll = Resting
    /\ nextKey = 1
    /\ recovery = FALSE
    /\ mishaps = 0
    /\ dropped = {}

Mishap == mishaps < MaxMishaps /\ mishaps' = mishaps + 1

-----------------------------------------------------------------------------
(* Files and the observer *)

Edit(p) ==
    /\ edits < MaxEdits
    /\ edits' = edits + 1
    /\ source' = [source EXCEPT ![p] = 2 + edits]
    /\ events' = IF observer \in {"native", "polling"} THEN events \cup {p} ELSE events
    /\ UNCHANGED <<committed, service, observer, queue, memory, updates, poll, recovery,
                   mishaps, dropped>>

(* _enqueue_path: a path that is pending already stays where it is. *)
Deliver(p) ==
    /\ p \in events
    /\ events' = events \ {p}
    /\ queue' = queue \cup {p}
    /\ dropped' = dropped \ {p}
    /\ UNCHANGED <<disk, committed, service, observer, memory, updates, poll, recovery, mishaps>>

(* _reconcile_observer_start: what the constructor found, what differs     *)
(* from the last scan, what differs from the generation.                   *)
Reconcile ==
    /\ queue' = queue \cup startup \cup {p \in Path : snapshot[p] # source[p]}
                      \cup IF Baseline THEN Differs ELSE {}
    /\ startup' = {}
    /\ resync' = (resync \/ (serving /\ ~Baseline))

(* start: the native observer, or the polling one when it does not start. *)
StartObserver ==
    /\ observer = "new"
    /\ \/ observer' = "native" /\ UNCHANGED mishaps
       \/ observer' = "polling" /\ Mishap
    /\ Reconcile
    /\ UNCHANGED <<disk, committed, service, events, attempted, rebaseline, snapshot,
                   updates, poll, recovery, dropped>>

(* The native observer stops and tells nobody. *)
ObserverDies ==
    /\ observer = "native"
    /\ Mishap
    /\ observer' = "dead"
    /\ events' = {}
    /\ UNCHANGED <<disk, committed, service, queue, memory, updates, poll, recovery, dropped>>

(* _check_observer_health, by the thread between two polls.  A polling     *)
(* observer that does not start either leaves none: it is not tried again. *)
SwitchToPolling ==
    /\ observer = "dead" /\ poll = Resting
    /\ observer' = "polling"
    /\ Reconcile
    /\ UNCHANGED <<disk, committed, service, events, attempted, rebaseline, snapshot,
                   updates, poll, recovery, mishaps, dropped>>

SwitchFails ==
    /\ observer = "dead" /\ poll = Resting
    /\ Mishap
    /\ observer' = "none"
    /\ UNCHANGED <<disk, committed, service, events, queue, memory, updates, poll, recovery, dropped>>

-----------------------------------------------------------------------------
(* The service: one job at a time, none beside a full analysis *)

Running == {k \in Key : jobs[k].state \in {"parsed", "committed"}}

Becomes(k, state) == jobs' = [jobs EXCEPT ![k].state = state]

(* Everything of the watcher *)
Watcher == <<watching, queue, memory, updates, poll, recovery, dropped>>

(* The engine compares fingerprints first; a file that does not differ is  *)
(* UNCHANGED.                                                              *)
RunJob(k) ==
    /\ serving /\ jobs[k].state = "queued"
    /\ Running = {} /\ ~analysis
    /\ jobs' = [jobs EXCEPT ![k] = [state |-> IF jobs[k].path \in Differs THEN "parsed" ELSE "done",
                                    path |-> @.path]]
    /\ UNCHANGED <<disk, committed, serving, analysis, Watcher, mishaps>>

(* The fingerprint that is committed is the one the file has by then. *)
CommitJob(k) ==
    /\ serving /\ jobs[k].state = "parsed"
    /\ base' = [base EXCEPT ![jobs[k].path] = source[jobs[k].path]]
    /\ Becomes(k, "committed")
    /\ UNCHANGED <<disk, trusted, serving, analysis, Watcher, mishaps>>

FinishJob(k) ==
    /\ serving /\ jobs[k].state = "committed"
    /\ Becomes(k, "done")
    /\ UNCHANGED <<disk, committed, serving, analysis, Watcher, mishaps>>

FailJob(k) ==
    /\ serving /\ jobs[k].state \in {"queued", "parsed"}
    /\ Mishap
    /\ Becomes(k, "failed")
    /\ UNCHANGED <<disk, committed, serving, analysis, Watcher>>

ServiceDies ==
    /\ serving
    /\ Mishap
    /\ serving' = FALSE
    /\ jobs' = [k \in Key |-> NoJob]
    /\ UNCHANGED <<disk, committed, analysis, Watcher>>

(* Any client that needs the service starts it. *)
ServiceStarts ==
    /\ ~serving
    /\ serving' = TRUE
    /\ UNCHANGED <<disk, committed, jobs, analysis, Watcher, mishaps>>

(* A full analysis reads every file, and records all fingerprints when it  *)
(* writes its reports.                                                     *)
ReadAll == ~analysis /\ Running = {} /\ analysis' = TRUE

CommitAll ==
    /\ analysis
    /\ analysis' = FALSE
    /\ base' = source /\ trusted' = TRUE

BeginAnalysis ==
    /\ Mishap
    /\ ReadAll
    /\ UNCHANGED <<disk, committed, serving, jobs, Watcher>>

EndAnalysis ==
    /\ poll.at # "resyncing"
    /\ CommitAll
    /\ UNCHANGED <<disk, serving, jobs, Watcher, mishaps>>

-----------------------------------------------------------------------------
(* The recovery of a client defers what the watcher does *)

BeginIncident ==
    /\ ~recovery
    /\ Mishap
    /\ recovery' = TRUE
    /\ UNCHANGED <<disk, committed, service, watching, queue, memory, updates, poll, dropped>>

(* complete_recovery_certificate *)
Certify ==
    /\ recovery
    /\ recovery' = FALSE
    /\ resync' = FALSE /\ attempted' = FALSE
    /\ rebaseline' = TRUE
    /\ UNCHANGED <<disk, committed, service, watching, queue, startup, snapshot, updates,
                   poll, mishaps, dropped>>

-----------------------------------------------------------------------------
(* poll_once *)

WithIntent == {p \in Path : intents[p] # Unset}
InFlight == {k \in Key : inflight[k] # Unset}

(* Mutant of Answered: a job the service does not know is still awaited. *)
AnsweredKnown(k) == jobs[k].state \in {"done", "failed"}

Answered(k) == jobs[k].state \notin {"queued", "parsed", "committed"}

(* Mutant of Requeued: a job the service does not know needs no retry. *)
RequeuedIfFailed(k) == jobs[k].state = "failed" \/ (jobs[k].state = "done" /\ recovery)

(* Jobs whose path is queued again: those that failed, those unknown, and, *)
(* during a recovery, those that are done.                                 *)
Requeued(k) == jobs[k].state # "done" \/ recovery

(* _poll_inflight_updates.  A job the service does not know may have run:  *)
(* its key and what it observed are kept for the retry.                    *)
CollectJobs(reached) ==
    LET answered == {k \in InFlight \cap reached : Answered(k)}
        unknown == {k \in answered : jobs[k].state = "absent"}
        done == {k \in answered : jobs[k].state = "done"}
        Of(keys) == {inflight[k].path : k \in keys}
        Last(keys, p) == CHOOSE k \in keys : inflight[k].path = p
    IN /\ inflight' = [k \in Key |-> IF k \in answered THEN Unset ELSE inflight[k]]
       /\ ambiguous' = ambiguous \cup Of(unknown)
       /\ intents' = [p \in Path |->
            IF intents[p] = Unset /\ p \in Of(unknown)
            THEN [key |-> Last(unknown, p), observed |-> inflight[Last(unknown, p)].observed]
            ELSE intents[p]]
       /\ snapshot' = IF recovery THEN snapshot
                      ELSE [p \in Path |-> IF p \in Of(done)
                                           THEN inflight[Last(done, p)].observed ELSE snapshot[p]]
       /\ queue' = queue \cup Of({k \in answered : Requeued(k)})

Reachable == {InFlight} \cup IF mishaps < MaxMishaps THEN {{}} ELSE {}
Reaches(reached) == mishaps' = IF reached = InFlight THEN mishaps ELSE mishaps + 1

(* After a recovery everything outstanding is compared with the generation *)
(* again, before the jobs are asked for.                                   *)
Rebase ==
    /\ poll = Resting /\ queue \cup InFlight # {}
    /\ observer # "new"
    /\ rebaseline /\ ~recovery /\ Baseline
    /\ LET pending == startup \cup WithIntent \cup ambiguous \cup Differs
       IN startup' = pending /\ queue' = queue \cup pending
    /\ snapshot' = source
    /\ rebaseline' = FALSE
    /\ poll' = [at |-> "jobs"]
    /\ UNCHANGED <<disk, committed, service, watching, resync, attempted, updates, recovery,
                   mishaps, dropped>>

BeginPoll ==
    /\ poll = Resting /\ queue \cup InFlight # {}
    /\ observer # "new"
    /\ ~rebaseline
    /\ poll' = [at |-> "jobs"]
    /\ UNCHANGED <<disk, committed, service, watching, queue, memory, updates, recovery,
                   mishaps, dropped>>

AskForJobs ==
    /\ poll.at = "jobs"
    /\ \E reached \in IF serving THEN Reachable ELSE {{}} :
         /\ CollectJobs(reached)
         /\ IF serving THEN Reaches(reached) ELSE UNCHANGED mishaps
    /\ poll' = IF recovery THEN Resting ELSE [at |-> "drain"]
    /\ UNCHANGED <<disk, committed, service, watching, startup, resync, attempted, rebaseline,
                   nextKey, recovery, dropped>>

(* _drain_pending, or what is left of the startup, and the size and time   *)
(* of each file.                                                           *)
Drain ==
    /\ poll.at = "drain"
    /\ queue' = {}
    /\ LET changed == IF queue # {} THEN queue ELSE startup
       IN poll' = IF changed = {} /\ ~resync THEN Resting
                  ELSE [at |-> "ping", changed |-> changed,
                        current |-> [p \in changed |-> source[p]]]
    /\ UNCHANGED <<disk, committed, service, watching, memory, updates, recovery, mishaps, dropped>>

Ping ==
    /\ poll.at = "ping" /\ serving
    /\ poll' = [poll EXCEPT !.at = "check"]
    /\ UNCHANGED <<disk, committed, service, watching, queue, memory, updates, recovery,
                   mishaps, dropped>>

(* The service cannot be reached and not be started: poll_once raises, and *)
(* what it drained is in no queue any more.  The next edit of such a path, *)
(* or the next startup, is what brings it back.                            *)
PingRaises ==
    /\ poll.at = "ping"
    /\ Mishap
    /\ dropped' = dropped \cup poll.changed
    /\ poll' = Resting
    /\ UNCHANGED <<disk, committed, service, watching, queue, memory, updates, recovery>>

(* Everything is queued again and the poll ends. *)
PutBack(paths) ==
    /\ queue' = queue \cup paths
    /\ poll' = Resting

(* The service has no generation, or the fingerprints are of another one,  *)
(* or the resync was tried before.                                         *)
Postpone ==
    /\ poll.at = "check"
    /\ \/ UNCHANGED mishaps /\ IF resync THEN attempted ELSE ~Baseline
       \/ Mishap
    /\ PutBack(poll.changed)
    /\ UNCHANGED <<disk, committed, service, watching, memory, updates, recovery, dropped>>

(* on_resync is a full analysis, once. *)
BeginResync ==
    /\ poll.at = "check"
    /\ resync /\ ~attempted
    /\ attempted' = TRUE
    /\ poll' = [poll EXCEPT !.at = "resync"]
    /\ UNCHANGED <<disk, committed, service, watching, queue, startup, resync, rebaseline,
                   snapshot, updates, recovery, mishaps, dropped>>

ResyncReads ==
    /\ poll.at = "resync"
    /\ ReadAll
    /\ poll' = [poll EXCEPT !.at = "resyncing"]
    /\ UNCHANGED <<disk, committed, serving, jobs, watching, queue, memory, updates,
                   recovery, mishaps, dropped>>

ResyncCommits ==
    /\ poll.at = "resyncing"
    /\ CommitAll
    /\ poll' = [poll EXCEPT !.at = "rescan"]
    /\ UNCHANGED <<disk, serving, jobs, watching, queue, memory, updates, recovery,
                   mishaps, dropped>>

ResyncFails ==
    /\ poll.at \in {"resync", "resyncing"}
    /\ Mishap
    /\ analysis' = IF poll.at = "resyncing" THEN FALSE ELSE analysis
    /\ PutBack(poll.changed)
    /\ UNCHANGED <<disk, committed, serving, jobs, watching, memory, updates, recovery,
                   dropped>>

(* The new generation is the baseline; what differs from it is queued.     *)
Rescan ==
    /\ poll.at = "rescan"
    /\ IF Baseline
       THEN /\ snapshot' = source
            /\ startup' = Differs
            /\ resync' = FALSE
            /\ PutBack(Differs)
       ELSE /\ PutBack(poll.changed)
            /\ UNCHANGED <<snapshot, startup, resync>>
    /\ UNCHANGED <<disk, committed, service, watching, attempted, rebaseline, updates, recovery,
                   mishaps, dropped>>

(* _candidate_requires_update, for every path. *)
Decide ==
    /\ poll.at = "check"
    /\ ~resync /\ Baseline
    /\ poll' = [at |-> "loop", changed |-> poll.changed, current |-> poll.current,
                todo |-> Differs \cap poll.changed, rest |-> poll.changed, deferred |-> {},
                path |-> Unset]
    /\ UNCHANGED <<disk, committed, service, watching, queue, memory, updates, recovery,
                   mishaps, dropped>>

(* A path is dealt with, or deferred to the next poll. *)
Settle(p) == poll' = [poll EXCEPT !.at = "loop", !.rest = @ \ {p}]
Defer(p) == poll' = [poll EXCEPT !.at = "loop", !.rest = @ \ {p}, !.deferred = @ \cup {p}]
Forget(p) == intents' = [intents EXCEPT ![p] = Unset] /\ ambiguous' = ambiguous \ {p}

Turn(p) == poll.at = "loop" /\ p \in poll.rest /\ ~recovery

DeferRest ==
    /\ poll.at \in {"loop", "send"} /\ recovery /\ poll.rest # {}
    /\ poll' = [poll EXCEPT !.at = "loop", !.rest = {}, !.deferred = @ \cup poll.rest]
    /\ UNCHANGED <<disk, committed, service, watching, queue, memory, updates, recovery,
                   mishaps, dropped>>

(* The path is as the generation has it. *)
AcceptUnchanged(p) ==
    /\ Turn(p) /\ p \notin poll.todo
    /\ Forget(p)
    /\ snapshot' = [snapshot EXCEPT ![p] = poll.current[p]]
    /\ Settle(p)
    /\ UNCHANGED <<disk, committed, service, watching, queue, startup, resync, attempted,
                   rebaseline, inflight, nextKey, recovery, mishaps, dropped>>

(* The file changed since it was drained: what is submitted would not be   *)
(* what was observed.                                                      *)
DeferUnstable(p) ==
    /\ Turn(p) /\ p \in poll.todo
    /\ source[p] # poll.current[p]
    /\ Defer(p)
    /\ UNCHANGED <<disk, committed, service, watching, queue, memory, updates, recovery,
                   mishaps, dropped>>

(* A job for just this version is under way. *)
SameInFlight(p) ==
    \E k \in InFlight : inflight[k] = [path |-> p, observed |-> poll.current[p]]

SkipInFlight(p) ==
    /\ Turn(p) /\ p \in poll.todo
    /\ source[p] = poll.current[p]
    /\ SameInFlight(p)
    /\ IF intents[p] # Unset THEN Forget(p) ELSE UNCHANGED <<intents, ambiguous>>
    /\ Settle(p)
    /\ UNCHANGED <<disk, committed, service, watching, queue, memory, inflight, nextKey,
                   recovery, mishaps, dropped>>

(* A new intent, or the one that is pending, whatever it observed. *)
Intend(p) ==
    /\ Turn(p) /\ p \in poll.todo
    /\ source[p] = poll.current[p]
    /\ ~SameInFlight(p)
    /\ IF intents[p] # Unset
       THEN UNCHANGED <<intents, nextKey>>
       ELSE /\ nextKey \in Key
            /\ nextKey' = nextKey + 1
            /\ intents' = [intents EXCEPT ![p] = [key |-> nextKey, observed |-> poll.current[p]]]
    /\ poll' = [poll EXCEPT !.at = "send", !.path = p]
    /\ UNCHANGED <<disk, committed, service, watching, queue, memory, inflight, ambiguous,
                   recovery, mishaps, dropped>>

(* What the service does with a submission: a key it knows is its job.     *)
Receive(k, p) ==
    jobs' = IF jobs[k].state = "absent"
            THEN [jobs EXCEPT ![k] = [state |-> "queued", path |-> p]] ELSE jobs

Sending(p) == poll.at = "send" /\ poll.path = p /\ ~recovery

(* The version the intent was made for is the current one. *)
AsObserved(p) == intents[p].observed = poll.current[p]

SubmitAccepted(p) ==
    /\ Sending(p) /\ serving
    /\ Receive(intents[p].key, p)
    /\ inflight' = [inflight EXCEPT ![intents[p].key] =
                      [path |-> p, observed |-> intents[p].observed]]
    /\ Forget(p)
    /\ IF AsObserved(p) THEN Settle(p) ELSE Defer(p)
    /\ UNCHANGED <<disk, committed, serving, analysis, watching, queue, memory,
                   nextKey, recovery, mishaps, dropped>>

(* The service answers that it does not take updates now. *)
SubmitRefused(p) ==
    /\ Sending(p) /\ serving
    /\ Mishap
    /\ ambiguous' = ambiguous \ {p}
    /\ Defer(p)
    /\ UNCHANGED <<disk, committed, service, watching, queue, memory, intents, inflight,
                   nextKey, recovery, dropped>>

(* The connection breaks, before or after the service got the submission. *)
SubmitLost(p) ==
    /\ Sending(p)
    /\ \/ ~serving /\ UNCHANGED <<jobs, mishaps>>
       \/ serving /\ Mishap /\ (Receive(intents[p].key, p) \/ UNCHANGED jobs)
    /\ ambiguous' = ambiguous \cup {p}
    /\ Defer(p)
    /\ UNCHANGED <<disk, committed, serving, analysis, watching, queue, memory,
                   intents, inflight, nextKey, recovery, dropped>>

(* Deferred paths are queued again; without any, a startup that was        *)
(* drained as a whole is done.                                             *)
EndPoll ==
    /\ poll.at = "loop" /\ poll.rest = {}
    /\ startup' = IF poll.deferred = {} /\ startup \subseteq poll.changed THEN {} ELSE startup
    /\ PutBack(poll.deferred)
    /\ UNCHANGED <<disk, committed, service, watching, resync, attempted, rebaseline, snapshot,
                   updates, recovery, mishaps, dropped>>

SubmitStep(p) ==
    \/ AcceptUnchanged(p) \/ DeferUnstable(p) \/ SkipInFlight(p) \/ Intend(p)
    \/ SubmitAccepted(p) \/ SubmitRefused(p) \/ SubmitLost(p)

PollStep ==
    \/ Rebase \/ BeginPoll \/ AskForJobs \/ Drain \/ Ping \/ PingRaises \/ Postpone
    \/ BeginResync \/ ResyncReads \/ ResyncCommits \/ ResyncFails \/ Rescan
    \/ Decide \/ DeferRest \/ EndPoll
    \/ \E p \in Path : SubmitStep(p)

ObserverStep ==
    StartObserver \/ ObserverDies \/ SwitchToPolling \/ SwitchFails

JobStep ==
    \E k \in Key : RunJob(k) \/ CommitJob(k) \/ FinishJob(k) \/ FailJob(k)

WatchNext ==
    \/ \E p \in Path : Edit(p) \/ Deliver(p)
    \/ ObserverStep \/ PollStep \/ JobStep
    \/ ServiceDies \/ ServiceStarts \/ BeginAnalysis \/ EndAnalysis
    \/ BeginIncident \/ Certify

WatchSpec == WatchInit /\ [][WatchNext]_watchVars

(* The threads of the watcher and of the service run, the system delivers  *)
(* changes, an analysis ends, and a client that misses the service starts  *)
(* it (_recover_client).                                                   *)
WatchFairness ==
    /\ WF_watchVars(PollStep)
    /\ WF_watchVars(ServiceStarts)
    /\ WF_watchVars(EndAnalysis)
    /\ WF_watchVars(StartObserver)
    /\ WF_watchVars(SwitchToPolling \/ SwitchFails)
    /\ \A p \in Path : WF_watchVars(Deliver(p))
    /\ \A k \in Key : WF_watchVars(RunJob(k) \/ CommitJob(k) \/ FinishJob(k))

-----------------------------------------------------------------------------
(* Properties *)

WatcherTypeOK ==
    /\ source \in [Path -> Nat] /\ base \in [Path -> Nat]
    /\ queue \cup startup \cup ambiguous \cup events \cup dropped \subseteq Path
    /\ nextKey \in 1 .. MaxKeys + 1
    /\ \A k \in Key : jobs[k].state # "absent" => k < nextKey
    /\ \A k \in Key : inflight[k] # Unset => k < nextKey
    /\ \A p \in WithIntent : intents[p].key < nextKey
    /\ Cardinality(Running) <= 1
    /\ analysis => Running = {}

(* Paths the poll has drained and not settled. *)
Handled == IF poll.at \in {"ping", "check", "resync", "resyncing", "rescan"} THEN poll.changed
           ELSE IF poll.at \in {"loop", "send"} THEN poll.rest \cup poll.deferred ELSE {}

(* Every file that differs from the committed fingerprints is on its way:  *)
(* reported by the observer, queued, being handled, in flight, left of the *)
(* startup or part of a resync; unless the observer is gone or a poll that *)
(* raised has dropped it (_requeue_paths, _drain_pending, SkipInFlight).   *)
NothingForgotten ==
    \A p \in Differs :
        \/ p \in events \cup queue \cup Handled \cup startup \cup dropped
        \/ \E k \in InFlight : inflight[k].path = p
        \/ observer \in {"new", "dead", "none"}
        \/ resync \/ rebaseline

(* A retry never runs an update twice: of each version the watcher         *)
(* observed, one key is outstanding.                                       *)
OneKeyEach ==
    \A p \in WithIntent, k \in InFlight :
        inflight[k].path = p => inflight[k].observed # intents[p].observed \/ intents[p].key = k

(* So a change is neither lost nor applied twice.                          *)
EachChangeOnce == NothingForgotten /\ OneKeyEach

(* A changed file gets into a generation, for ever again: neither retries, *)
(* deferred paths and lost answers nor jobs that fail keep the watcher     *)
(* from it.  Not while a recovery or a resync is pending, and not when the *)
(* poll raised or no observer is left (poll_once, _run_event_worker).      *)
ChangesArrive ==
    \A p \in Path :
        []<>(p \notin Differs \/ p \in dropped \/ observer = "none"
             \/ resync \/ rebaseline \/ recovery)

=============================================================================
