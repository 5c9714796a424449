------------------------------ MODULE EngineCache ------------------------------
(***************************************************************************)
(* The canonical engine that each MCP server process keeps for a           *)
(* repository, mcp/runtime, and the update a server makes by itself while  *)
(* no LIVE service runs, mcp/tools/update_file.                            *)
(*                                                                         *)
(* An engine comes from the LIVE service, and is then kept until the       *)
(* service's journal has moved, or from the committed snapshot.  A local   *)
(* update holds the writer lease, its process's cache lock and the lock of *)
(* the runtime lease, under which no service can start.                    *)
(***************************************************************************)
EXTENDS Integers, Sequences, TLC

CONSTANTS
    Mcp,         \* MCP server processes
    MaxCommits,  \* bound: revisions of the repository
    MaxServices, \* bound: starts of the LIVE service
    MaxTroubles  \* bound: calls that raise

VARIABLES
    history,     \* the committed snapshots: the revision each was derived from
    live,        \* the LIVE service: [up, session, journal, rev]
    cache,       \* the engine of each process: [rev, session, journal]
    task,        \* what each process does
    writer,      \* the process that has the writer lease
    fence,       \* the process that has the lock of the runtime lease
    troubles

cacheVars == <<history, live, cache, task, writer, fence, troubles>>

Committed == Len(history)
NoSession == 0
NoEngine == [rev |-> -1, session |-> NoSession, journal |-> 0]
AtRest == [at |-> "rest"]
Nobody0 == "nobody"

ASSUME CacheAssumption ==
    /\ Nobody0 \notin Mcp
    /\ {MaxCommits, MaxServices, MaxTroubles} \subseteq Nat

CacheInit ==
    /\ history = <<0>>
    /\ live = [up |-> FALSE, session |-> 0, journal |-> 0, rev |-> 0]
    /\ cache = [m \in Mcp |-> NoEngine]
    /\ task = [m \in Mcp |-> AtRest]
    /\ writer = Nobody0 /\ fence = Nobody0
    /\ troubles = 0

Trouble == troubles < MaxTroubles /\ troubles' = troubles + 1
At0(m, step) == task[m].at = step

-----------------------------------------------------------------------------
(* The LIVE service *)

ServiceBegins ==
    /\ ~live.up /\ fence = Nobody0 /\ live.session < MaxServices
    /\ live' = [up |-> TRUE, session |-> live.session + 1, journal |-> 0, rev |-> Committed]
    /\ UNCHANGED <<history, cache, task, writer, fence, troubles>>

ServiceStops ==
    /\ live.up
    /\ live' = [live EXCEPT !.up = FALSE]
    /\ UNCHANGED <<history, cache, task, writer, fence, troubles>>

\* Every commit is an event of the journal.
ServiceCommits ==
    /\ live.up /\ Committed < MaxCommits
    /\ history' = Append(history, live.rev)
    /\ live' = [live EXCEPT !.rev = Committed + 1, !.journal = @ + 1]
    /\ UNCHANGED <<cache, task, writer, fence, troubles>>

-----------------------------------------------------------------------------
(* get_or_init_engine *)

Connected(m) == task[m].session

Connect(m) ==
    /\ At0(m, "rest")
    /\ task' = [task EXCEPT ![m] = [at |-> IF live.up THEN "ping" ELSE "alone",
                                    session |-> live.session]]
    /\ UNCHANGED <<history, live, cache, writer, fence, troubles>>

Reaches(m) == live.up /\ live.session = Connected(m)

NeedsRefresh(m) == \/ cache[m] = NoEngine
                   \/ cache[m].session # live.session
                   \/ cache[m].journal # live.journal

Ping(m) ==
    /\ At0(m, "ping") /\ Reaches(m)
    /\ task' = [task EXCEPT ![m] =
                  [at |-> IF NeedsRefresh(m) THEN "snapshot" ELSE "got",
                   session |-> @.session, journal |-> live.journal, rev |-> live.rev]]
    /\ UNCHANGED <<history, live, cache, writer, fence, troubles>>

\* The engine is at least as new as the journal revision it is kept for.
TakeSnapshot(m) ==
    /\ At0(m, "snapshot") /\ Reaches(m)
    /\ cache' = [cache EXCEPT ![m] = [rev |-> live.rev, session |-> live.session,
                                      journal |-> task[m].journal]]
    /\ task' = [task EXCEPT ![m].at = "got"]
    /\ UNCHANGED <<history, live, writer, fence, troubles>>

\* The service went away in the middle: the caller is told.
LosesService(m) ==
    /\ task[m].at \in {"ping", "snapshot"} /\ ~Reaches(m)
    /\ task' = [task EXCEPT ![m] = AtRest]
    /\ UNCHANGED <<history, live, cache, writer, fence, troubles>>

\* Without a service the cached engine is used, or the committed snapshot.
UseSnapshot(m) ==
    /\ At0(m, "alone")
    /\ cache' = [cache EXCEPT ![m] = IF @ = NoEngine
                                     THEN [NoEngine EXCEPT !.rev = Committed]
                                     ELSE [@ EXCEPT !.session = NoSession, !.journal = 0]]
    /\ task' = [task EXCEPT ![m].at = "local"]
    /\ UNCHANGED <<history, live, writer, fence, troubles>>

-----------------------------------------------------------------------------
(* What is done with the engine *)

Answered(m) ==
    /\ task[m].at \in {"got", "local"}
    /\ task' = [task EXCEPT ![m] = AtRest]
    /\ UNCHANGED <<history, live, cache, writer, fence, troubles>>

TakeWriterLease(m) ==
    /\ At0(m, "local") /\ writer = Nobody0 /\ ~live.up
    /\ writer' = m
    /\ task' = [task EXCEPT ![m].at = "leased"]
    /\ UNCHANGED <<history, live, cache, fence, troubles>>

\* Mutant of AtBaseline: a stale engine may be written.
AnyBaseline(m) == cache[m].rev >= 0

AtBaseline(m) == cache[m].rev = Committed

\* A service that holds the authority, or a stale engine, denies the update.
EnterFence(m) ==
    /\ At0(m, "leased") /\ fence = Nobody0
    /\ IF ~live.up /\ AtBaseline(m)
       THEN /\ fence' = m /\ UNCHANGED writer
            /\ task' = [task EXCEPT ![m].at = "update"]
       ELSE /\ writer' = Nobody0 /\ UNCHANGED fence
            /\ task' = [task EXCEPT ![m] = AtRest]
    /\ UNCHANGED <<history, live, cache, troubles>>

LeaveFence(m) ==
    /\ task' = [task EXCEPT ![m] = AtRest]
    /\ writer' = Nobody0 /\ fence' = Nobody0

\* The candidate is saved as the exact next revision and then replaces the
\* cached engine.
CommitCandidate(m) ==
    /\ At0(m, "update") /\ Committed < MaxCommits
    /\ history' = Append(history, cache[m].rev)
    /\ cache' = [cache EXCEPT ![m].rev = Committed + 1]
    /\ LeaveFence(m)
    /\ UNCHANGED <<live, troubles>>

\* The update or its save raises: the candidate is discarded; when the save
\* had committed, or the registry cannot be restored, the engine as well.
CandidateRaises(m) ==
    /\ At0(m, "update") /\ Trouble
    /\ \/ UNCHANGED <<history, cache>>
       \/ /\ Committed < MaxCommits
          /\ history' = Append(history, cache[m].rev)
          /\ cache' = [cache EXCEPT ![m] = NoEngine]
       \/ UNCHANGED history /\ cache' = [cache EXCEPT ![m] = NoEngine]
    /\ LeaveFence(m)
    /\ UNCHANGED live

CacheNext ==
    \/ ServiceBegins \/ ServiceStops \/ ServiceCommits
    \/ \E m \in Mcp :
         \/ Connect(m) \/ Ping(m) \/ TakeSnapshot(m) \/ LosesService(m) \/ UseSnapshot(m)
         \/ Answered(m) \/ TakeWriterLease(m) \/ EnterFence(m)
         \/ CommitCandidate(m) \/ CandidateRaises(m)

CacheSpec == CacheInit /\ [][CacheNext]_cacheVars

-----------------------------------------------------------------------------
(* Properties *)

(* Every revision is derived from the one before it: no update of any      *)
(* process, and no commit of the service, overwrites another               *)
(* (_assert_local_committed_baseline).                                     *)
DerivedFromLast == \A r \in DOMAIN history : history[r] = r - 1

(* A call that reached the service uses an engine at least as new as what  *)
(* the service had when it was pinged, however the service's commits fall  *)
(* between the two requests of this and of earlier calls                   *)
(* (_get_or_init_engine_locked).                                           *)
EngineIsCurrent ==
  \A m \in Mcp : At0(m, "got") => cache[m].rev >= task[m].rev

(* Neither an update nor a read of a server rests on a generation that was *)
(* replaced before it looked.                                              *)
EnginesFollowService == DerivedFromLast /\ EngineIsCurrent
===============================================================================
