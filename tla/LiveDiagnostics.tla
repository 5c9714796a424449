---------------------------- MODULE LiveDiagnostics ----------------------------
(* What the LIVE service says of the diagnostics of the generation it      *)
(* serves: the change of them each update announces (live_state/ipc.py),   *)
(* the cycle warnings an installed receipt accepts (cycle_semantics), the  *)
(* answers computed of both, and the two readers that leave a warning out: *)
(* the Desktop event feed (watcher.py) and the Desktop after a full        *)
(* analysis (ui/cycle_warning_presentation.py).  Every reader asks the     *)
(* service a second time, and the generation may be another by then.       *)
EXTENDS Integers, FiniteSets, Sequences

CONSTANTS
    Cycle,         \* closed import paths
    Component(_),  \* the cyclic component a path lies in
    FirstFacts,    \* generations the service may start from
    Sources,       \* states of the sources: their cycles, and their syntax
                   \* errors and name collisions
    JournalLimit,  \* changes one event carries, _DIAGNOSTIC_JOURNAL_LIMIT
    MaxRevision, MaxRestarts  \* bounds

VARIABLES
    generations, \* the committed generations, by revision
    served,      \* the revision LIVE serves
    epoch,       \* activity_epoch and identity of the service instance
    ready,       \* no certificate is pending
    events,      \* canonical events the feed has not read
    reported,    \* _cycle_warning_transition_current_report
    checkpoint,  \* _cycle_warning_transition_checkpoint
    publishing,  \* who has committed an analysis and not published it
    batch,       \* what the feed read and has not shown
    errors,      \* what the Desktop analysis found and has not shown
    answer       \* what the last step said: transitions, a summary, or the
                 \* warnings it left out, with the revision spoken of

diagVars == <<generations, served, epoch, ready, events, reported, checkpoint,
              publishing, batch, errors, answer>>

Nothing == [is |-> "nothing"]
NoReport == [status |-> "unavailable"]

(* What the generations are made of: the first ones carry a receipt of     *)
(* their own, or none.                                                     *)
DiagAssumption ==
    /\ \A s \in Sources : s.cycles \subseteq Cycle
    /\ \A g \in FirstFacts :
         /\ g = [cycles |-> g.cycles, issues |-> g.issues, fresh |-> g.fresh, receipt |-> g.receipt]
         /\ g.cycles \subseteq Cycle /\ g.fresh \in BOOLEAN /\ g.receipt.rev \in {0, 1}

(* A generation: its cycles and issues, whether the families are fresh -   *)
(* an update that requires a resync makes all of them stale - and the      *)
(* receipt: the generation it was sealed for and the components that pass. *)
Unsealed == [rev |-> 0, passing |-> {}]
Generation(cycles, issues, fresh, receipt) ==
    [cycles |-> cycles, issues |-> issues, fresh |-> fresh, receipt |-> receipt]

(***************************************************************************)
(* The projection of the installed generation.                             *)
(***************************************************************************)
(* A receipt counts only for the generation it was sealed for, whose       *)
(* families are fresh.                                                     *)
Verifies(g, r) == g.fresh /\ g.receipt.rev = r

(* The paths of the components that pass.                                  *)
Eligible(g, r) == IF Verifies(g, r) THEN {c \in g.cycles : Component(c) \in g.receipt.passing} ELSE {}

(* Every listed path is accepted or active.                                *)
Partition(g, r) == [accepted |-> Eligible(g, r), active |-> g.cycles \ Eligible(g, r)]

Report(g, r) ==
    IF g.fresh
    THEN [status |-> "ok", rev |-> r, epoch |-> epoch, structural |-> g.cycles,
          accepted |-> Partition(g, r).accepted, active |-> Partition(g, r).active]
    ELSE NoReport

ServedReport == Report(generations[served], served)

Standing(report, c) ==
    IF c \in report.accepted THEN "MODEL_PASS" ELSE IF c \in report.active THEN "ACTIVE" ELSE "ABSENT"

ActionFor(before, after) ==
    IF after = "ABSENT" THEN "STRUCTURAL_REMOVED"
    ELSE IF before = "ABSENT" THEN "STRUCTURAL_ADDED"
    ELSE IF before = "ACTIVE" THEN "MODEL_ACCEPTED" ELSE "WARNING_REACTIVATED"

Transitions(before, after) ==
    {[path |-> c, action |-> ActionFor(Standing(before, c), Standing(after, c))] :
        c \in {d \in Cycle : Standing(before, d) # Standing(after, d)}}

(* The checkpoint between two reports of one instance, the later of a      *)
(* later revision.                                                         *)
Checkpoint(before, after) ==
    IF before.status = "ok" /\ after.status = "ok" /\ before.epoch = after.epoch
          /\ before.rev < after.rev
    THEN [status |-> "ok", from |-> before.rev, to |-> after.rev, epoch |-> after.epoch,
          transitions |-> Transitions(before, after)]
    ELSE NoReport

(***************************************************************************)
(* What an update announces.                                               *)
(***************************************************************************)
Change(kind, action, facts) == {[kind |-> kind, action |-> action, what |-> f] : f \in facts}

(* A family that is not fresh on either side is left out.                  *)
Delta(old, new) ==
    IF ~old.fresh \/ ~new.fresh THEN {}
    ELSE Change("issue", "ADDED", new.issues \ old.issues)
           \cup Change("issue", "RESOLVED", old.issues \ new.issues)
           \cup Change("cycle", "ADDED", new.cycles \ old.cycles)
           \cup Change("cycle", "RESOLVED", old.cycles \ new.cycles)

Rank(change) ==
    (IF change.kind = "issue" THEN 0 ELSE 2) + (IF change.action = "ADDED" THEN 0 ELSE 1)

(* The first JournalLimit of the changes in the order of their kinds.      *)
Journalled(delta) ==
    {items \in SUBSET delta :
        /\ Cardinality(items) = IF Cardinality(delta) > JournalLimit THEN JournalLimit ELSE Cardinality(delta)
        /\ \A i \in items, j \in delta \ items : Rank(i) <= Rank(j)}

(***************************************************************************)
(* Generations.                                                            *)
(***************************************************************************)
Install(g, r) ==
    /\ served' = r
    /\ reported' = Report(g, r)
    /\ checkpoint' = Checkpoint(ServedReport, Report(g, r))

(* An update: the clone carries no receipt; a stale family stays stale.    *)
DiagnosedUpdate(cycles, issues, complete) ==
    /\ served = Len(generations) /\ served < MaxRevision
    /\ ready
    /\ LET old == generations[served]
           new == Generation(cycles, issues, old.fresh /\ complete, Unsealed)
       IN /\ generations' = Append(generations, new)
          /\ Install(new, served + 1)
          /\ \E items \in Journalled(Delta(old, new)) :
                events' = Append(events, [operation |-> "update_file", rev |-> served + 1, items |-> items])
    /\ answer' = Nothing
    /\ UNCHANGED <<epoch, ready, publishing, batch, errors>>

(* A full analysis commits a generation, with a receipt when its           *)
(* preparation passed; the Desktop keeps the errors it found.              *)
CommitAnalysis(who, cycles, issues, passing) ==
    /\ publishing = Nothing /\ ready
    /\ Len(generations) < MaxRevision
    /\ generations' = Append(generations, Generation(cycles, issues, TRUE,
                            IF passing = {} THEN Unsealed ELSE [rev |-> Len(generations) + 1, passing |-> passing]))
    /\ publishing' = [is |-> who, rev |-> Len(generations) + 1]
    /\ answer' = Nothing
    /\ UNCHANGED <<served, epoch, ready, events, reported, checkpoint, batch, errors>>

(* LIVE installs what is committed; an installed generation is not         *)
(* installed again.  The outcome names the revision and the instance.      *)
Publish ==
    /\ publishing # Nothing /\ ready
    /\ IF served = Len(generations) THEN UNCHANGED <<served, events, reported, checkpoint>>
       ELSE /\ Install(generations[Len(generations)], Len(generations))
            /\ events' = Append(events, [operation |-> "publish", rev |-> Len(generations), items |-> {}])
    /\ publishing' = Nothing
    /\ errors' = IF publishing.is = "desktop" /\ Len(generations) = publishing.rev
                 THEN [is |-> "errors", rev |-> publishing.rev, epoch |-> epoch,
                       cycles |-> generations[publishing.rev].cycles]
                 ELSE errors
    /\ answer' = Nothing
    /\ UNCHANGED <<generations, epoch, ready, batch>>

(* Another service instance starts from what is committed.                 *)
Restart ==
    /\ epoch < MaxRestarts
    /\ epoch' = epoch + 1
    /\ served' = Len(generations) /\ ready' = TRUE
    /\ events' = <<>> /\ reported' = NoReport /\ checkpoint' = Nothing
    /\ answer' = Nothing
    /\ UNCHANGED <<generations, publishing, batch, errors>>

(* A certificate is pending, and released: the service is not ready.       *)
Certificate ==
    /\ ready' = ~ready
    /\ answer' = Nothing
    /\ UNCHANGED <<generations, served, epoch, events, reported, checkpoint, publishing,
                   batch, errors>>

(***************************************************************************)
(* Answers.                                                                *)
(***************************************************************************)
Projection == IF ready THEN ServedReport ELSE NoReport

AskTransitions ==
    /\ answer' =
          IF ready /\ checkpoint # Nothing /\ reported = ServedReport /\ checkpoint.status = "ok"
                /\ checkpoint.to = served /\ checkpoint.epoch = epoch
          THEN [is |-> "transitions", at |-> served, given |-> checkpoint] ELSE Nothing
    /\ UNCHANGED <<generations, served, epoch, ready, events, reported, checkpoint, publishing,
                   batch, errors>>

(* The counts of the canonical summary, stale ones unknown, and what the   *)
(* warning report makes of them: accepted cycles need no attention.        *)
Attention(g, cycles) == g.fresh /\ (g.issues # {} \/ cycles # {})

Counted(g) ==
    IF Projection.status = "ok" /\ Projection.structural = g.cycles THEN Projection.active ELSE g.cycles

AskSummary ==
    /\ answer' = [is |-> "summary", at |-> served,
                  attention |-> Attention(generations[served], Counted(generations[served])),
                  known |-> generations[served].fresh, judged |-> ready]
    /\ UNCHANGED <<generations, served, epoch, ready, events, reported, checkpoint, publishing,
                   batch, errors>>

(***************************************************************************)
(* The event feed of the Desktop.                                          *)
(***************************************************************************)
FeedReads ==
    /\ batch = Nothing /\ events # <<>>
    /\ batch' = [is |-> "batch", rev |-> served, epoch |-> epoch, events |-> events]
    /\ events' = <<>>
    /\ answer' = Nothing
    /\ UNCHANGED <<generations, served, epoch, ready, reported, checkpoint, publishing, errors>>

AddedCycles(e) == {i.what : i \in {j \in e.items : j.kind = "cycle" /\ j.action = "ADDED"}}

(* Mutant of OfThisBatch: the report may be of a later generation.         *)
OfAnyGeneration(report) == report.status = "ok" /\ report.epoch = batch.epoch

(* The feed believes a report of the very generation of its batch.         *)
OfThisBatch(report) == report.status = "ok" /\ report.rev = batch.rev /\ report.epoch = batch.epoch

(* Asks only when an update of this revision added a cycle.                *)
Asks == \E k \in DOMAIN batch.events :
           LET e == batch.events[k]
           IN e.operation = "update_file" /\ e.rev = batch.rev /\ AddedCycles(e) # {}

LeftOut(e, accepted) == IF e.rev = batch.rev THEN AddedCycles(e) \cap accepted ELSE {}

FeedShows ==
    /\ batch # Nothing
    /\ answer' = [is |-> "hidden", about |-> batch.rev, paths |->
          IF Asks /\ OfThisBatch(Projection)
          THEN UNION {LeftOut(batch.events[k], Projection.accepted) : k \in DOMAIN batch.events}
          ELSE {}]
    /\ batch' = Nothing
    /\ UNCHANGED <<generations, served, epoch, ready, events, reported, checkpoint, publishing, errors>>

(***************************************************************************)
(* The Desktop shows what its full analysis found.                         *)
(***************************************************************************)
OfThisAnalysis(report) == report.status = "ok" /\ report.rev = errors.rev /\ report.epoch = errors.epoch

DesktopShows ==
    /\ errors # Nothing
    /\ answer' = [is |-> "hidden", about |-> errors.rev, paths |->
          IF OfThisAnalysis(Projection) THEN errors.cycles \cap Projection.accepted ELSE {}]
    /\ errors' = Nothing
    /\ UNCHANGED <<generations, served, epoch, ready, events, reported, checkpoint, publishing, batch>>

-----------------------------------------------------------------------------
DiagInit ==
    /\ \E g \in FirstFacts : generations = <<g>>
    /\ served = 1 /\ epoch = 0 /\ ready = TRUE
    /\ events = <<>> /\ reported = NoReport /\ checkpoint = Nothing
    /\ publishing = Nothing /\ batch = Nothing /\ errors = Nothing
    /\ answer = Nothing

DiagNext ==
    \/ \E s \in Sources, complete \in BOOLEAN : DiagnosedUpdate(s.cycles, s.issues, complete)
    \/ \E s \in Sources, who \in {"desktop", "mcp"} :
         \E passing \in SUBSET {Component(c) : c \in s.cycles} :
            CommitAnalysis(who, s.cycles, s.issues, passing)
    \/ Publish \/ Restart \/ Certificate
    \/ AskTransitions \/ AskSummary
    \/ FeedReads \/ FeedShows \/ DesktopShows

DiagSpec == DiagInit /\ [][DiagNext]_diagVars

(***************************************************************************)
(* Properties.                                                             *)
(***************************************************************************)
AcceptedBy(r) ==
    IF generations[r].receipt.rev = r
    THEN {c \in generations[r].cycles : Component(c) \in generations[r].receipt.passing}
    ELSE {}

(* A warning left out was accepted by the very generation it was about,    *)
(* whatever LIVE came to serve before the second answer.                   *)
HiddenWasAccepted == answer.is = "hidden" => answer.paths \subseteq AcceptedBy(answer.about)

(* A transition answer tells the whole difference of the two generations   *)
(* it names, in its own terms, and the second of them is served.           *)
TransitionsAreTrue ==
    answer.is = "transitions" =>
        LET told(action) == {t.path : t \in {u \in answer.given.transitions : u.action = action}}
            from == generations[answer.given.from]
            to == generations[answer.given.to]
            kept == from.cycles \cap to.cycles
        IN /\ answer.given.to = answer.at /\ answer.given.from < answer.given.to
           /\ told("STRUCTURAL_ADDED") = to.cycles \ from.cycles
           /\ told("STRUCTURAL_REMOVED") = from.cycles \ to.cycles
           /\ told("MODEL_ACCEPTED") = kept \cap (AcceptedBy(answer.given.to) \ AcceptedBy(answer.given.from))
           /\ told("WARNING_REACTIVATED") = kept \cap (AcceptedBy(answer.given.from) \ AcceptedBy(answer.given.to))

(* No attention is asked only of a generation without an error, a          *)
(* collision or a cycle nobody accepted, or of one whose facts are stale.  *)
AttentionIsHonest ==
    answer.is = "summary" /\ answer.known =>
        (answer.attention <=> generations[answer.at].issues # {}
                               \/ generations[answer.at].cycles \ (IF answer.judged THEN AcceptedBy(answer.at) ELSE {}) # {})

WarningsAreTrue == HiddenWasAccepted /\ TransitionsAreTrue /\ AttentionIsHonest
===============================================================================
