----------------------------- MODULE AuthorityTrace -----------------------------
(***************************************************************************)
(* The durable trail of authority events of one runtime domain,            *)
(* runtime_trace.py: an emitter appends a record to the trace of its       *)
(* session, counts it in the sidecar, and hands it to the LIVE service of  *)
(* its process, if there is one, which acknowledges it in the sidecar.     *)
(* Whoever has the lock first recovers: records behind the tail the        *)
(* sidecar knows are counted.                                              *)
(*                                                                         *)
(* The sidecar's pending index is the range from cursor + 1 to high, which *)
(* _validate_authority_domain_state insists on; records are appended whole *)
(* or rolled back.  A checkpoint outside the logs keeps the high-water     *)
(* mark for the case that somebody deletes the logs.                       *)
(***************************************************************************)
EXTENDS Naturals, Sequences, FiniteSets, SequencesExt

CONSTANTS
    Emitter,        \* processes that emit
    Served,         \* those with a LIVE service
    Nothing0,       \* no file, no session, no lock
    PendingLimit,   \* _AUTHORITY_PENDING_LIMIT
    MaxSessions,    \* bound: trace sessions
    MaxEmits,       \* bound: events
    MaxTroubles     \* bound: crashes, failing writes, deleted logs

ASSUME TraceAssumption ==
    /\ Served \subseteq Emitter
    /\ Nothing0 \notin Emitter \cup Nat
    /\ Nothing0 \notin [active : Nat, tail : Nat, high : Nat, cursor : Nat]
    /\ {PendingLimit, MaxSessions, MaxEmits, MaxTroubles} \subseteq Nat

Session == 1 .. MaxSessions

VARIABLES
    pointer,    \* contextor_runtime_active.json
    sessions,   \* how many traces there were
    trace,      \* authority records of each trace: their sequence numbers
    sidecar,    \* [active, tail, high, cursor], or Nothing0
    checkpoint, \* observability_last_good.json: the high-water mark
    traceLock,  \* the emitter that holds the lock file
    emitter,    \* what each emitter is doing, see Off
    got,        \* what the service of each has in its journal
    counted,    \* history: how often each sequence number was given
    lost,       \* history: numbers up to this one went with deleted logs
    lapsed,     \* history: the first emit after such a loss was not of the
                \* emitter that noticed it, or did not finish, or the
                \* checkpoint was behind
    troubles

logs == <<pointer, sessions, trace, sidecar, checkpoint>>
traceHistory == <<counted, lost, lapsed>>
traceVars == <<logs, traceLock, emitter, got, traceHistory, troubles>>

Off == [at |-> "off"]

TraceInit ==
    /\ pointer = Nothing0 /\ sessions = 0
    /\ trace = [s \in Session |-> <<>>]
    /\ sidecar = Nothing0 /\ checkpoint = 0
    /\ traceLock = Nothing0
    /\ emitter = [e \in Emitter |-> Off]
    /\ got = [e \in Emitter |-> <<>>]
    /\ counted = [n \in 1 .. MaxEmits |-> 0]
    /\ lost = 0 /\ lapsed = FALSE
    /\ troubles = 0

Trouble == troubles < MaxTroubles /\ troubles' = troubles + 1

Becomes0(e, new) == emitter' = [emitter EXCEPT ![e] = new]
At(e, point) == emitter' = [emitter EXCEPT ![e].at = point]

(* AuthorityEventEmitter.__init__, before it takes the lock: without       *)
(* sidecar and pointer the logs are taken to be new or deleted, and the    *)
(* numbers go on from the checkpoint.                                      *)
Open(e) ==
    /\ emitter[e].at = "off"
    /\ IF pointer = Nothing0
       THEN sessions < MaxSessions /\ sessions' = sessions + 1 /\ pointer' = sessions'
       ELSE UNCHANGED <<pointer, sessions>>
    /\ LET missing == sidecar = Nothing0 /\ pointer = Nothing0
       IN Becomes0(e, [at |-> "waiting", doing |-> "open", session |-> pointer',
                       reset |-> missing, floor |-> IF missing THEN checkpoint ELSE 0])
    /\ got' = [got EXCEPT ![e] = <<>>]
    /\ UNCHANGED <<trace, sidecar, checkpoint, traceLock, traceHistory, troubles>>

(* emit, or replay_pending of a service that is ready. *)
BeginEmit(e) ==
    /\ emitter[e].at = "idle"
    /\ \E doing \in {"emit"} \cup IF e \in Served THEN {"replay"} ELSE {} :
         Becomes0(e, [emitter[e] EXCEPT !.at = "waiting", !.doing = doing])
    /\ UNCHANGED <<logs, traceLock, got, traceHistory, troubles>>

TakeTraceLock(e) ==
    /\ emitter[e].at = "waiting" /\ traceLock = Nothing0
    /\ traceLock' = e
    /\ At(e, "recover")
    /\ UNCHANGED <<logs, got, traceHistory, troubles>>

(* It has opened the logs after a loss, and not emitted yet. *)
Noticed(e) == emitter[e].at # "off" /\ emitter[e].reset /\ lost > 0

(* The call raises: an emitter that was being opened is not there. *)
Raise(e) ==
    /\ traceLock' = Nothing0
    /\ Becomes0(e, IF emitter[e].doing = "open" \/ emitter[e].reset THEN Off
                   ELSE [emitter[e] EXCEPT !.at = "idle"])

(* _write_authority_sidecar: the sidecar is replaced, and then the         *)
(* checkpoint; each of the two may raise.                                  *)
Write(new) ==
    /\ sidecar' = new /\ checkpoint' = new.high
WriteFails(new) ==
    /\ sidecar' \in {sidecar, new}
    /\ UNCHANGED checkpoint

(* Mutant of Uncounted: what was appended before a change of session is    *)
(* not looked at.                                                          *)
UncountedHere(e, from) ==
    IF from.active = emitter[e].session
    THEN SubSeq(trace[from.active], from.tail + 1, Len(trace[from.active])) ELSE <<>>

(* _recover_unindexed_range_locked: the records behind the tail, of the    *)
(* session that the sidecar calls active.                                  *)
Uncounted(e, from) == SubSeq(trace[from.active], from.tail + 1, Len(trace[from.active]))

(* They must continue the numbers, and must not be too many. *)
Continues(from, records) ==
    /\ \A i \in DOMAIN records : records[i] = from.high + i
    /\ records # <<>> => from.high + Len(records) - from.cursor <= PendingLimit

(* _read_authority_sidecar: without the file, what is there is not counted. *)
Known0(e) ==
    IF sidecar # Nothing0 THEN sidecar
    ELSE [active |-> emitter[e].session, tail |-> Len(trace[emitter[e].session]),
          high |-> 0, cursor |-> 0]

(* _recover_locked: the session of the emitter becomes the active one. *)
Recovered(e) ==
    LET from == Known0(e)
        records == Uncounted(e, from)
    IN [active |-> emitter[e].session, tail |-> Len(trace[emitter[e].session]),
        high |-> from.high + Len(records), cursor |-> from.cursor]

AfterRecovery(e) ==
    IF emitter[e].doing = "open"
    THEN IF emitter[e].reset THEN [emitter[e] EXCEPT !.at = "waiting", !.doing = "emit"]
         ELSE [emitter[e] EXCEPT !.at = "idle"]
    ELSE [emitter[e] EXCEPT !.at = IF e \in Served /\ ~emitter[e].reset THEN "replay" ELSE "append"]

Recover0(e) ==
    /\ emitter[e].at = "recover"
    /\ Continues(Known0(e), Uncounted(e, Known0(e)))
    /\ IF sidecar = Recovered(e) THEN UNCHANGED <<sidecar, checkpoint>> ELSE Write(Recovered(e))
    /\ Becomes0(e, AfterRecovery(e))
    /\ traceLock' = IF emitter[e].doing = "open" THEN Nothing0 ELSE e
    /\ UNCHANGED <<pointer, sessions, trace, got, traceHistory, troubles>>

RecoveryRaises(e) ==
    /\ emitter[e].at = "recover"
    /\ \/ /\ ~Continues(Known0(e), Uncounted(e, Known0(e)))
          /\ UNCHANGED <<sidecar, checkpoint, lapsed, troubles>>
       \/ /\ Continues(Known0(e), Uncounted(e, Known0(e)))
          /\ sidecar # Recovered(e)
          /\ Trouble
          /\ WriteFails(Recovered(e))
          /\ lapsed' = (lapsed \/ Noticed(e))
    /\ Raise(e)
    /\ UNCHANGED <<pointer, sessions, trace, got, counted, lost>>

(* _deliver hands over in order. *)
NextToHand == sidecar.cursor + 1

(* record_authority_event takes an event it has for a duplicate.  The      *)
(* acknowledgement may not get into the sidecar.                           *)
Deliver0(e) ==
    LET n == NextToHand
        acknowledged == [sidecar EXCEPT !.cursor = n]
    IN /\ got' = [got EXCEPT ![e] = IF n \in ToSet(@) THEN @ ELSE Append(@, n)]
       /\ \/ Write(acknowledged) /\ UNCHANGED troubles
          \/ Trouble /\ WriteFails(acknowledged)

(* _replay_pending_locked, for the event that is next; it goes on until    *)
(* none is left or an acknowledgement fails.                               *)
Replay0(e) ==
    /\ emitter[e].at = "replay" /\ sidecar.cursor < sidecar.high
    /\ Deliver0(e)
    /\ IF sidecar'.cursor = NextToHand THEN UNCHANGED <<emitter, traceLock>>
       ELSE IF emitter[e].doing = "emit" THEN At(e, "append") /\ UNCHANGED traceLock
       ELSE At(e, "idle") /\ traceLock' = Nothing0
    /\ UNCHANGED <<pointer, sessions, trace, traceHistory>>

EndReplay(e) ==
    /\ emitter[e].at = "replay" /\ sidecar.cursor = sidecar.high
    /\ IF emitter[e].doing = "emit" THEN At(e, "append") /\ UNCHANGED traceLock
       ELSE At(e, "idle") /\ traceLock' = Nothing0
    /\ UNCHANGED <<logs, got, traceHistory, troubles>>

(* After deleted logs the numbers, and what was handed over, go on from    *)
(* the checkpoint; otherwise from the sidecar and what the emitter knows.  *)
Base(e) ==
    IF emitter[e].reset /\ emitter[e].floor > 0 /\ sidecar.high = 0 /\ sidecar.cursor = 0
    THEN [sidecar EXCEPT !.high = emitter[e].floor, !.cursor = emitter[e].floor]
    ELSE [sidecar EXCEPT !.high = IF @ < emitter[e].floor THEN emitter[e].floor ELSE @]

(* emit, _append_authority_record_locked *)
AppendRecord(e) ==
    /\ emitter[e].at = "append"
    /\ LET n == Base(e).high + 1
       IN /\ n <= MaxEmits
          /\ trace' = [trace EXCEPT ![emitter[e].session] = Append(@, n)]
          /\ counted' = [counted EXCEPT ![n] = @ + 1]
          /\ lapsed' = (lapsed \/ (n <= lost /\ ~Noticed(e)))
    /\ At(e, "count")
    /\ UNCHANGED <<pointer, sessions, sidecar, checkpoint, traceLock, got, lost, troubles>>

CountedRecord(e) ==
    [Base(e) EXCEPT !.high = @ + 1, !.tail = Len(trace[emitter[e].session])]

(* The record is in the trace when there is no room for it in the index.   *)
CountRecord(e) ==
    /\ emitter[e].at = "count"
    /\ Base(e).high - Base(e).cursor < PendingLimit
    /\ Write(CountedRecord(e))
    /\ Becomes0(e, [emitter[e] EXCEPT !.at = "deliver", !.floor = Base(e).high + 1])
    /\ UNCHANGED <<pointer, sessions, trace, traceLock, got, traceHistory, troubles>>

CountRaises(e) ==
    /\ emitter[e].at = "count"
    /\ IF Base(e).high - Base(e).cursor < PendingLimit
       THEN Trouble /\ WriteFails(CountedRecord(e))
       ELSE UNCHANGED <<sidecar, checkpoint, troubles>>
    /\ lapsed' = (lapsed \/ Noticed(e))
    /\ Raise(e)
    /\ UNCHANGED <<pointer, sessions, trace, got, counted, lost>>

(* The event goes to the service of this process, when its turn has come.  *)
FinishEmit(e) ==
    /\ emitter[e].at = "deliver"
    /\ IF e \in Served /\ ~emitter[e].reset /\ NextToHand = sidecar.high THEN Deliver0(e)
       ELSE UNCHANGED <<got, sidecar, checkpoint, troubles>>
    /\ Becomes0(e, [emitter[e] EXCEPT !.at = "idle", !.reset = FALSE])
    /\ traceLock' = Nothing0
    /\ UNCHANGED <<pointer, sessions, trace, traceHistory>>

(* The process ends, at any point. *)
EmitterDies(e) ==
    /\ emitter[e].at # "off"
    /\ Trouble
    /\ lapsed' = (lapsed \/ Noticed(e))
    /\ Becomes0(e, Off)
    /\ traceLock' = IF traceLock = e THEN Nothing0 ELSE traceLock
    /\ got' = [got EXCEPT ![e] = <<>>]
    /\ UNCHANGED <<logs, counted, lost>>

(* finish_desktop_trace_session: the next emitter opens another trace. *)
FinishSession ==
    /\ pointer # Nothing0
    /\ pointer' = Nothing0
    /\ UNCHANGED <<sessions, trace, sidecar, checkpoint, traceLock, emitter, got, traceHistory,
                   troubles>>

(* Somebody deletes the logs while no emitter is there. *)
DeleteLogs ==
    /\ \A e \in Emitter : emitter[e].at = "off"
    /\ sidecar # Nothing0
    /\ Trouble
    /\ pointer' = Nothing0 /\ sidecar' = Nothing0
    /\ trace' = [s \in Session |-> <<>>]
    /\ lost' = checkpoint
    /\ lapsed' = (lapsed \/ \E n \in 1 .. MaxEmits : n > checkpoint /\ counted[n] > 0)
    /\ UNCHANGED <<sessions, checkpoint, traceLock, emitter, got, counted>>

EmitterStep(e) ==
    \/ Open(e) \/ BeginEmit(e) \/ TakeTraceLock(e) \/ Recover0(e) \/ RecoveryRaises(e)
    \/ Replay0(e) \/ EndReplay(e) \/ AppendRecord(e) \/ CountRecord(e) \/ CountRaises(e)
    \/ FinishEmit(e) \/ EmitterDies(e)

TraceNext == (\E e \in Emitter : EmitterStep(e)) \/ FinishSession \/ DeleteLogs

TraceSpec == TraceInit /\ [][TraceNext]_traceVars

-----------------------------------------------------------------------------
(* Properties *)

TraceTypeOK ==
    /\ pointer \in Session \cup {Nothing0}
    /\ traceLock \in Emitter \cup {Nothing0}
    /\ \A e \in Emitter :
         traceLock = e <=> emitter[e].at \in {"recover", "replay", "append", "count", "deliver"}
    /\ sidecar # Nothing0 =>
         /\ sidecar.active \in Session
         /\ sidecar.tail <= Len(trace[sidecar.active])
         /\ sidecar.cursor <= sidecar.high
         /\ sidecar.high - sidecar.cursor <= PendingLimit

(* A sequence number names one event: not after crashes, failing writes or *)
(* another session, and not after deleted logs; unless the emitter that     *)
(* noticed those was not the next to emit, or did not finish, or the       *)
(* checkpoint was behind (emit, _recover_unindexed_range_locked,           *)
(* _load_last_good_floor).                                                 *)
SequenceOnce == lapsed \/ \A n \in DOMAIN counted : counted[n] <= 1

(* Every record is counted, or is behind the tail of the active trace and  *)
(* continues the numbers: whoever is next can recover.  Sessions that end, *)
(* and emitters that still write to an old one, leave nothing behind.      *)
TraceContinues ==
    sidecar # Nothing0 /\ ~lapsed =>
        LET records == SubSeq(trace[sidecar.active], sidecar.tail + 1,
                              Len(trace[sidecar.active]))
            first == IF sidecar.high = 0 /\ lost > 0 THEN lost ELSE sidecar.high
        IN /\ \A i \in DOMAIN records : records[i] = first + i
           /\ \A s \in Session : s # sidecar.active =>
                \A i \in DOMAIN trace[s] : trace[s][i] <= sidecar.high

(* A journal gets its events in the order of their numbers, and not ahead  *)
(* of what is acknowledged.  Where one service records the events, which   *)
(* the authority lease sees to, none is left out, and none acknowledged    *)
(* that its journal has not got, as long as it runs (_deliver,             *)
(* _replay_pending_locked).                                                *)
HandedInOrder ==
    \A e \in Emitter : got[e] # <<>> =>
        /\ sidecar # Nothing0 /\ Last(got[e]) <= sidecar.cursor + 1
        /\ \A i, j \in DOMAIN got[e] : i < j => got[e][i] < got[e][j]
        /\ Served = {e} =>
             /\ sidecar.cursor <= Last(got[e])
             /\ \A i \in 1 .. Len(got[e]) - 1 : got[e][i + 1] = got[e][i] + 1

(* Crashes, failing writes, other sessions and deleted logs neither give a *)
(* number twice nor lose a record that was appended, nor does an event     *)
(* overtake another (the three above).                                     *)
NumbersContinue == SequenceOnce /\ TraceContinues /\ HandedInOrder
===============================================================================
