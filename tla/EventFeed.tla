-------------------------------- MODULE EventFeed --------------------------------
(***************************************************************************)
(* The activity feed of the desktop, live_state/watcher.py: it shows what  *)
(* the LIVE service records in its journal.  The journal is bounded and    *)
(* is lost with the service, and its sequence numbers begin again with     *)
(* every service; an epoch tells the services apart.  Authority events are *)
(* also durable: the feed replays them when it starts, and a service may   *)
(* record the ones an earlier service recorded.                            *)
(*                                                                         *)
(* Serving a request is atomic (the lock of the server), and handling an   *)
(* answer touches only the feed, so a page is one step.                    *)
(***************************************************************************)
EXTENDS Naturals, Sequences, FiniteSets, FiniteSetsExt

CONSTANTS
    Activity,       \* keys of authority events
    Plain,          \* any other event
    Retention,      \* events the journal keeps
    Page,           \* events in an answer
    MaxEvents,      \* bound: events
    MaxServices     \* bound: services, the epochs

ASSUME FeedAssumption ==
    /\ {Retention, Page, MaxEvents, MaxServices} \subseteq Nat \ {0}
    /\ Plain \notin Activity

NoEpoch == 0

VARIABLES
    epoch,      \* _activity_epoch of the service
    seq,        \* its _activity_seq
    journal,    \* its _events: [seq, key]
    recorded,   \* keys of _authority_event_fingerprints
    published,  \* how many events there were
    phase,      \* "new", "given", "made", "idle" or "polling"
    cursor,     \* _last_seq of the feed
    known,      \* its _activity_epoch, or NoEpoch
    replayed,   \* _replayed_authority_keys
    toldGap,    \* gap_reported of the poll
    shown,      \* history: what polls have shown, <<epoch, seq>>
    excused,    \* history: events of the epoch not shown by intention: older
                \* than the feed, shown by the replay, or told to be lost
    blind       \* history: the epoch was learnt with a cursor of another one

server == <<epoch, seq, journal, recorded, published>>
seen == <<shown, excused, blind>>
feedVars == <<server, phase, cursor, known, replayed, toldGap, seen>>

FeedInit ==
    /\ epoch = 1 /\ seq = 0 /\ journal = <<>> /\ recorded = {} /\ published = 0
    /\ phase = "new" /\ cursor = 0 /\ known = NoEpoch
    /\ replayed = {} /\ toldGap = FALSE
    /\ shown = {} /\ excused = {} /\ blind = FALSE

Retained(events) == IF Len(events) > Retention THEN Tail(events) ELSE events

Append1(key) ==
    /\ published < MaxEvents
    /\ published' = published + 1
    /\ seq' = seq + 1
    /\ journal' = Retained(Append(journal, [seq |-> seq + 1, key |-> key]))

(* _record_event *)
RecordEvent ==
    /\ Append1(Plain)
    /\ UNCHANGED <<epoch, recorded, phase, cursor, known, replayed, toldGap, seen>>

(* record_authority_event: a key is projected once by a service. *)
RecordAuthority(k) ==
    /\ k \notin recorded
    /\ recorded' = recorded \cup {k}
    /\ Append1(k)
    /\ UNCHANGED <<epoch, phase, cursor, known, replayed, toldGap, seen>>

(* Another service takes over. *)
NewService ==
    /\ epoch < MaxServices
    /\ epoch' = epoch + 1
    /\ seq' = 0 /\ journal' = <<>> /\ recorded' = {}
    /\ UNCHANGED <<published, phase, cursor, known, replayed, toldGap, seen>>

-----------------------------------------------------------------------------
(* The answer of get_events *)

NewAfter(from) == {i \in DOMAIN journal : journal[i].seq > from}

Gap(from) == from # seq /\ (journal = <<>> \/ from + 1 < journal[1].seq)

\* The oldest of them, in their order.
PageAfter(from) ==
    {i \in NewAfter(from) : Cardinality({j \in NewAfter(from) : j < i}) < Page}

Truncated(from) == PageAfter(from) # NewAfter(from)

-----------------------------------------------------------------------------
(* The feed *)

UpTo(e, n) == {e} \X (1 .. n)

(* __init__ with a cursor the desktop read before: the epoch is not known. *)
MakeFrom ==
    /\ phase = "new"
    /\ phase' = "given" /\ cursor' = seq
    /\ excused' = UpTo(epoch, seq)
    /\ UNCHANGED <<server, known, replayed, toldGap, shown, blind>>

(* __init__: the feed asks for the newest sequence number and the epoch,   *)
(* and begins at the first event when it gets no answer.                   *)
Make ==
    /\ phase = "new"
    /\ phase' = "made"
    /\ \/ cursor' = seq /\ known' = epoch /\ excused' = UpTo(epoch, seq)
       \/ UNCHANGED <<cursor, known, excused>>
    /\ UNCHANGED <<server, replayed, toldGap, shown, blind>>

(* The cursor the feed was given is of a service that is gone. *)
Stale == known # epoch /\ cursor # 0 /\ <<epoch, cursor>> \notin excused

(* Mutant of Learn: events of another epoch are counted on. *)
LearnKeepsCursor ==
    known' = epoch /\ UNCHANGED cursor

(* Another epoch: its sequence numbers begin again. *)
Learn == known' = epoch /\ cursor' = 0

(* An authority event that was replayed is not shown again. *)
Hidden(e) == e.key \in replayed

(* replay_authority_events shows every authority event the journal has,    *)
(* and adopts the epoch; the cursor is left alone.                         *)
Replay ==
    /\ phase = "made"
    /\ phase' = "idle"
    /\ \/ UNCHANGED <<known, replayed, excused, blind>>
       \/ LET events == {journal[i] : i \in {n \in DOMAIN journal : journal[n].key # Plain}}
          IN /\ replayed' = replayed \cup {e.key : e \in events}
             /\ excused' = excused \cup {<<epoch, e.seq>> : e \in events}
             /\ known' = epoch
             /\ blind' = (blind \/ Stale)
    /\ UNCHANGED <<server, cursor, toldGap, shown>>

(* poll_once begins; the first poll of a given cursor comes before the     *)
(* replay.                                                                 *)
BeginPage ==
    /\ phase \in {"idle", "given"}
    /\ phase' = IF phase = "given" THEN "first" ELSE "polling"
    /\ toldGap' = FALSE
    /\ UNCHANGED <<server, cursor, known, replayed, seen>>

Rest == phase' = IF phase = "first" THEN "made" ELSE "idle"

Lost ==
    /\ phase \in {"first", "polling"}
    /\ Rest
    /\ UNCHANGED <<server, cursor, known, replayed, toldGap, seen>>

ChangeEpoch ==
    /\ phase \in {"first", "polling"}
    /\ known \notin {NoEpoch, epoch}
    /\ Learn
    /\ UNCHANGED <<server, phase, replayed, toldGap, seen>>

(* A page is shown; the cursor moves to its last event, never to the       *)
(* newest one, and the poll goes on while there is more.                   *)
ShowPage ==
    /\ phase \in {"first", "polling"}
    /\ known \in {NoEpoch, epoch}
    /\ LET page == {journal[i] : i \in PageAfter(cursor)}
           hidden == {e \in page : Hidden(e)}
           lost == IF Gap(cursor) THEN IF journal = <<>> THEN seq ELSE journal[1].seq - 1 ELSE 0
       IN /\ shown' = shown \cup {<<epoch, e.seq>> : e \in page \ hidden}
          /\ excused' = excused \cup UpTo(epoch, lost) \cup {<<epoch, e.seq>> : e \in hidden}
          /\ cursor' = IF page = {} THEN cursor ELSE Max({e.seq : e \in page})
          /\ replayed' = replayed \ {e.key : e \in page}
    /\ known' = epoch
    /\ blind' = (blind \/ Stale)
    /\ toldGap' = (toldGap \/ Gap(cursor))
    /\ IF Truncated(cursor) /\ cursor' # cursor THEN UNCHANGED phase ELSE Rest
    /\ UNCHANGED server

FeedNext ==
    \/ RecordEvent \/ (\E k \in Activity : RecordAuthority(k)) \/ NewService
    \/ MakeFrom \/ Make \/ Replay
    \/ BeginPage \/ Lost \/ ChangeEpoch \/ ShowPage

FeedSpec == FeedInit /\ [][FeedNext]_feedVars

-----------------------------------------------------------------------------
(* Properties *)

FeedTypeOK ==
    /\ epoch \in 1 .. MaxServices /\ known \in 0 .. epoch
    /\ Len(journal) <= Retention
    /\ \A i \in DOMAIN journal : journal[i].seq = seq - Len(journal) + i
    /\ phase \in {"new", "given", "made", "idle", "first", "polling"}
    /\ replayed \subseteq Activity

(* Every event before the cursor was shown, or is older than the feed, or  *)
(* was replayed, or the feed has told of the gap; unless the service       *)
(* changed while the feed was being made (poll_once, the epoch reset, and  *)
(* the gap that is told once).                                             *)
FeedSkipsNothing ==
    ~blind /\ known # NoEpoch =>
        \A n \in 1 .. cursor : <<known, n>> \in excused \cup shown

(* A poll shows no event again that a poll or the replay has shown, nor    *)
(* one of an earlier service after one of a later (poll_once, its          *)
(* duplicate protection and _replayed_authority_keys).                     *)
ShownOnce ==
    [][ShowPage => \A i \in PageAfter(cursor) :
          LET n == journal[i].seq
          IN ~Hidden(journal[i]) =>
               /\ <<epoch, n>> \notin excused
               /\ \A p \in shown : p[1] < epoch \/ (p[1] = epoch /\ p[2] < n)]_feedVars

=============================================================================
