---------------------------- MODULE FullAnalysis ----------------------------
(***************************************************************************)
(* One full analysis (ContextorFacade.analyze_project) reads the files of  *)
(* the repository six times while anybody may edit them: the index, the    *)
(* sources of cyclic modules and their recheck, on request the index again *)
(* with its bytes kept, the fingerprints of the file state, the syntax     *)
(* trees usage facts are extracted from. Between analyses, one at a time   *)
(* under the same lease, LIVE updates single files (update_file).          *)
(***************************************************************************)
EXTENDS CycleEvidence, FiniteSetsExt

CONSTANTS
    Present(_, _),    \* the file is there, at this text
    Parses(_, _),
    FirstText,        \* the text of each file at first
    LastText,         \* bound: texts of a file; none comes back
    MaxTreeEdits,         \* bound
    MaxGenerations    \* bound: generations ever saved

ASSUME AnalysisAssumption ==
    FirstText \in [Module -> Nat] /\ {LastText, MaxTreeEdits, MaxGenerations} \subseteq Nat

VARIABLES
    tree,   \* the text of each file now
    past,   \* every state the files were in, for the properties
    gen,    \* the canonical generation
    job     \* the analysis or the update that holds the lease

analysisVars == <<tree, past, gen, job>>

Receipt == {"source", "partial", "optional"}
NoReceipt == [rev |-> 0, claims |-> NoPreparation]
NoReceipts == [k \in Receipt |-> NoReceipt]
NoFacts == [m \in Module |-> 0]
IndexedText(m, v) == IF Present(m, v) /\ Parses(m, v) THEN v ELSE 0
Fingerprint(m) == IF Present(m, tree[m]) THEN tree[m] ELSE 0

(* An analysis is asked for a preview of cycle sources, and to publish it. *)
LegalOptions ==
    {o \in [preview : BOOLEAN, selection : Selection, publish : SUBSET Receipt] :
        /\ o.publish # {} => o.preview
        /\ o.selection = "OPTIONAL_NAMED_CHILDREN" => o.preview /\ o.publish \subseteq {"optional"}
        /\ "optional" \in o.publish => o.selection = "OPTIONAL_NAMED_CHILDREN"}

NoOptions == [preview |-> FALSE, selection |-> "HARD_ONLY", publish |-> {}]

NoJob == [stage |-> "idle", todo |-> {}, options |-> NoOptions, facts |-> NoFacts,
          seen |-> <<>>, issues |-> {}, evidence |-> NoEvidence, captured |-> NoFacts,
          prepared |-> NoPreparation, tracked |-> NoFacts, used |-> NoFacts, slip |-> {}]

NoGeneration ==
    [rev |-> 0, facts |-> NoFacts, tracked |-> NoFacts, used |-> NoFacts, proof |-> NoFacts,
     stale |-> {}, evidence |-> NoEvidence, freshness |-> "deferred", receipts |-> NoReceipts,
     resync |-> FALSE, late |-> {}]

FullInit ==
    /\ tree = FirstText /\ past = {FirstText}
    /\ gen = NoGeneration /\ job = NoJob

-----------------------------------------------------------------------------
(* A file is edited, created or removed; what was read before is now old.  *)
Slipped(m) ==
    \/ job.stage \in {"cohort", "recheck", "capture", "track"}
    \/ job.stage = "index" /\ m \notin job.todo
    \/ job.stage = "usage" /\ m \in job.todo
    \/ job.stage = "update" /\ m \in job.todo

EditFile(m) ==
    /\ Cardinality(past) <= MaxTreeEdits /\ tree[m] < LastText
    /\ tree' = [tree EXCEPT ![m] = @ + 1]
    /\ past' = past \cup {tree'}
    /\ job' = IF Slipped(m) THEN [job EXCEPT !.slip = @ \cup {m}] ELSE job
    /\ UNCHANGED gen

OnlyJob == UNCHANGED <<tree, past, gen>>
AtStage(stage) == job.stage = stage
Done(stage) == AtStage(stage) /\ job.todo = {}
Take(m) == [job EXCEPT !.todo = @ \ {m}]

-----------------------------------------------------------------------------
(* analyze_project, up to and with index_repository.                       *)
StartAnalysis ==
    /\ AtStage("idle") /\ gen.rev < MaxGenerations
    /\ \E o \in LegalOptions :
          job' = [NoJob EXCEPT !.stage = "index", !.todo = Module, !.options = o]
    /\ OnlyJob

IndexModule(m) ==
    /\ AtStage("index") /\ m \in job.todo
    /\ job' = [Take(m) EXCEPT !.facts[m] = IndexedText(m, tree[m])]
    /\ OnlyJob

(* References, collisions, the graph, its validation and metrics come of   *)
(* the index alone.                                                        *)
BuildGraph ==
    /\ Done("index")
    /\ job' = [job EXCEPT !.stage = "cohort", !.todo = CyclicModules(HardEdges(job.facts))]
    /\ OnlyJob

(* build_cycle_source_cohort reads each cyclic module, in order.           *)
SourceIssue(m) ==
    IF ~Present(m, tree[m]) THEN "SOURCE_UNREADABLE"
    ELSE IF tree[m] # job.facts[m] THEN "CANONICAL_FINGERPRINT_MISMATCH"
    ELSE IF ~Evaluated(m, tree[m]) THEN "SOURCE_NOT_EVALUATED"
    ELSE "none"

Seen(m) == [n \in DOMAIN job.seen \cup {m} |-> IF n = m THEN tree[m] ELSE job.seen[n]]

ReadCyclicSource ==
    /\ AtStage("cohort") /\ job.todo # {}
    /\ LET m == Min(job.todo)
           issue == SourceIssue(m)
       IN  job' = IF issue = "none" THEN [Take(m) EXCEPT !.seen = Seen(m)]
                  ELSE [Take(m) EXCEPT !.issues = @ \cup {issue}]
    /\ OnlyJob

Recheck ==
    /\ Done("cohort")
    /\ job' = [job EXCEPT !.stage = "recheck", !.todo = DOMAIN job.seen]
    /\ OnlyJob

RecheckSource ==
    /\ AtStage("recheck") /\ job.todo # {}
    /\ LET m == Min(job.todo)
       IN  job' = IF Fingerprint(m) = job.seen[m] THEN Take(m)
                  ELSE [Take(m) EXCEPT
                          !.seen = [n \in DOMAIN job.seen \ {m} |-> job.seen[n]],
                          !.issues = @ \cup {"SOURCE_CHANGED_DURING_READ"}]
    /\ OnlyJob

-----------------------------------------------------------------------------
(* The report pipeline ends with the fingerprint of every indexed file.    *)
Reports(done) == [done EXCEPT !.stage = "track", !.todo = Indexed(job.facts)]

(* The evidence is made and classified; the preview, when it is asked for, *)
(* needs evidence that is fresh and complete and a cycle.                  *)
Materialize(evidence) ==
    LET made == [job EXCEPT !.evidence = evidence, !.seen = <<>>, !.issues = {}]
    IN  job' = IF /\ job.options.preview /\ Stable(evidence)
                  /\ CyclicComponents(evidence.graph) # {}
               THEN [made EXCEPT !.stage = "capture", !.todo = Module]
               ELSE Reports(made)

Classify ==
    /\ Done("recheck")
    /\ Materialize(Evidence(HardEdges(job.facts), job.seen, job.issues))
    /\ OnlyJob

(* Materialization raises: the analysis goes on without evidence.          *)
EvidenceFails == job.stage \in {"cohort", "recheck"} /\ Materialize(NoEvidence) /\ OnlyJob

(* The second index pass, and what is prepared of it.                      *)
CaptureModule(m) ==
    /\ AtStage("capture") /\ m \in job.todo
    /\ job' = [Take(m) EXCEPT !.captured[m] = IndexedText(m, tree[m])]
    /\ OnlyJob

Prepare ==
    /\ Done("capture")
    /\ LET selection == job.options.selection
           sources == SelectedSources(job.facts, selection)
       IN  job' = Reports([job EXCEPT
                     !.prepared = IF Agrees(job.facts, job.captured, sources)
                                  THEN Preparation(job.captured, selection) ELSE NoPreparation,
                     !.captured = NoFacts])
    /\ OnlyJob

PreviewFails ==
    /\ AtStage("capture")
    /\ job' = Reports([job EXCEPT !.captured = NoFacts])
    /\ OnlyJob

-----------------------------------------------------------------------------
(* FileStateManager.update_state, then retain_tracked_paths: a file that   *)
(* is not of this index is not tracked.                                    *)
TrackModule ==
    /\ AtStage("track") /\ job.todo # {}
    /\ LET m == Min(job.todo) IN job' = [Take(m) EXCEPT !.tracked[m] = Fingerprint(m)]
    /\ OnlyJob

BeginUsage ==
    /\ Done("track")
    /\ job' = [job EXCEPT !.stage = "usage", !.todo = Indexed(job.facts)]
    /\ OnlyJob

(* Mutant of CanReuse: facts are taken over whatever their fingerprint.    *)
CanReuseAny(m) == gen.rev > 0 /\ ~gen.resync /\ gen.facts[m] # 0 /\ m \notin gen.stale

(* module_usage_reuse: usage facts of the previous generation are taken    *)
(* over when its manifest has the fingerprint the file has now.            *)
CanReuse(m) ==
    /\ gen.rev > 0 /\ ~gen.resync
    /\ gen.facts[m] # 0 /\ m \notin gen.stale
    /\ gen.proof[m] # 0 /\ gen.proof[m] = job.tracked[m]

UseModule ==
    /\ AtStage("usage") /\ job.todo # {}
    /\ LET m == Min(job.todo)
       IN  IF CanReuse(m)
           THEN job' = [Take(m) EXCEPT !.used[m] = gen.used[m], !.slip = @ \cup ({m} \cap gen.late)]
           ELSE /\ IndexedText(m, tree[m]) # 0
                /\ job' = [Take(m) EXCEPT !.used[m] = tree[m]]
    /\ OnlyJob

-----------------------------------------------------------------------------
(* What the options let publish, of what was prepared.                     *)
Published ==
    IF job.prepared = NoPreparation THEN {}
    ELSE job.options.publish
            \ (IF Complete(job.prepared) THEN {} ELSE {"source", "optional"})

(* save_engine_state: receipts are sealed with the generation they are of, *)
(* and a claim that cannot be sealed fails the save.                       *)
SaveGeneration ==
    /\ Done("usage")
    /\ Published # {} => ClaimsConsistent(job.facts, job.evidence, job.prepared)
    /\ LET rev == gen.rev + 1
       IN  gen' = [rev |-> rev, facts |-> job.facts, tracked |-> job.tracked, used |-> job.used,
                   proof |-> job.tracked, stale |-> {}, evidence |-> job.evidence,
                   freshness |-> Freshness(job.evidence),
                   receipts |-> [k \in Receipt |->
                                   IF k \in Published THEN [rev |-> rev, claims |-> job.prepared]
                                   ELSE NoReceipt],
                   resync |-> FALSE, late |-> job.slip]
    /\ job' = NoJob
    /\ UNCHANGED <<tree, past>>

(* The analysis raises, is cancelled, or its save fails.                   *)
AnalysisRaises == job.stage \notin {"idle", "update"} /\ job' = NoJob /\ OnlyJob

-----------------------------------------------------------------------------
(* What reconciliation sees of a file: it has another fingerprint than the *)
(* one tracked, or it is not a module yet; a tracked file is gone.         *)
Differs(m) ==
    IF Present(m, tree[m]) THEN gen.tracked[m] # tree[m] \/ gen.facts[m] = 0
    ELSE gen.tracked[m] # 0

(* update_file reads the file once, and fingerprints it when it commits.   *)
StartUpdate(m) ==
    /\ AtStage("idle") /\ 0 < gen.rev /\ gen.rev < MaxGenerations /\ Differs(m)
    /\ job' = [NoJob EXCEPT !.stage = "update", !.todo = {m}, !.captured[m] = tree[m]]
    /\ OnlyJob

(* invalidate_cycle_semantics: what is kept is not fresh, and the receipts *)
(* of the generation before are gone.                                      *)
Invalidated(g) ==
    [g EXCEPT !.rev = @ + 1, !.receipts = NoReceipts,
              !.freshness = IF ~g.evidence.known THEN "deferred" ELSE "stale"]

UpdateParsed(m, v, lost) ==
    /\ Fingerprint(m) # 0
    /\ gen' = [Invalidated(gen) EXCEPT
                 !.facts[m] = v, !.used[m] = v, !.stale = @ \ {m},
                 !.tracked[m] = Fingerprint(m), !.proof[m] = Fingerprint(m),
                 !.resync = @ \/ lost, !.late = (@ \ {m}) \cup job.slip]

UpdateUnparsed(m) ==
    gen' = [Invalidated(gen) EXCEPT !.stale = IF gen.facts[m] # 0 THEN @ \cup {m} ELSE @]

UpdateDeleted(m) ==
    gen' = [Invalidated(gen) EXCEPT
              !.facts[m] = 0, !.used[m] = 0, !.stale = @ \ {m}, !.proof[m] = 0,
              !.tracked[m] = Fingerprint(m), !.late = (@ \ {m}) \cup job.slip]

CommitUpdate ==
    /\ AtStage("update")
    /\ \E m \in job.todo : \E v \in {job.captured[m]} :
          \/ Present(m, v) /\ Parses(m, v) /\ \E lost \in BOOLEAN : UpdateParsed(m, v, lost)
          \/ Present(m, v) /\ ~Parses(m, v) /\ UpdateUnparsed(m)
          \/ ~Present(m, v) /\ UpdateDeleted(m)
    /\ job' = NoJob
    /\ UNCHANGED <<tree, past>>

(* The update raises and is rolled back.                                   *)
UpdateFails == AtStage("update") /\ job' = NoJob /\ OnlyJob

FullNext ==
    \/ \E m \in Module : EditFile(m)
    \/ StartAnalysis \/ (\E m \in Module : IndexModule(m)) \/ BuildGraph
    \/ ReadCyclicSource \/ Recheck \/ RecheckSource \/ Classify \/ EvidenceFails
    \/ (\E m \in Module : CaptureModule(m)) \/ Prepare \/ PreviewFails
    \/ TrackModule \/ BeginUsage \/ UseModule \/ SaveGeneration \/ AnalysisRaises
    \/ (\E m \in Module : StartUpdate(m)) \/ CommitUpdate \/ UpdateFails

FullSpec == FullInit /\ [][FullNext]_analysisVars

-----------------------------------------------------------------------------
(* The claims a LIVE service answers with (live_installed_claims): only    *)
(* those of the installed generation, checked again.                       *)
Answered(k) ==
    /\ ~gen.resync /\ gen.freshness = "fresh"
    /\ gen.receipts[k] # NoReceipt /\ gen.receipts[k].rev = gen.rev
    /\ ClaimsConsistent(gen.facts, gen.evidence, gen.receipts[k].claims)

(* Fresh cycle evidence is about the graph and the texts of the generation *)
(* it is saved with; complete evidence names texts that the cyclic modules *)
(* all had at one moment. A receipt is of this generation, its claims name *)
(* the texts of the index, and all modules of the index had their texts at *)
(* one moment (materialization.py, original_worker_reindex_planning.py,    *)
(* publication_binding.py). A file that is not in the index, absent or     *)
(* unparsable at both passes, may have been there in between. A generation *)
(* changes only as a job ends.                                             *)
EvidenceHolds ==
    AtStage("idle") =>
        /\ gen.freshness = "fresh" =>
              /\ gen.evidence.graph = HardEdges(gen.facts)
              /\ \A m \in DOMAIN gen.evidence.seen : gen.evidence.seen[m] = gen.facts[m]
              /\ Stable(gen.evidence) =>
                    \E p \in past : \A m \in CyclicModules(gen.evidence.graph) : p[m] = gen.facts[m]
        /\ \A k \in Receipt : gen.receipts[k] # NoReceipt =>
              /\ Answered(k)
              /\ \A c \in DOMAIN gen.receipts[k].claims.claims :
                    LET claim == gen.receipts[k].claims.claims[c]
                    IN  claim # <<>> => \A m \in DOMAIN claim : claim[m] = gen.facts[m]
              /\ \E p \in past : \A m \in Indexed(gen.facts) : p[m] = gen.facts[m]

(* A module's facts, its usage facts and its tracked fingerprint are of    *)
(* one text, unless the file was edited between the read its facts come    *)
(* from and the last of these: then the difference is not seen any more    *)
(* (state_manager.py, update_state; module_usage_reuse.py).                *)
EditsSeen ==
    \A m \in Indexed(gen.facts) \ gen.late :
       gen.tracked[m] = gen.facts[m] /\ gen.used[m] = gen.facts[m]

(* What a generation is said to be about, and what is said of each module. *)
FactsHold == EvidenceHolds /\ EditsSeen

(* When reconciliation sees no difference, the facts are those of the      *)
(* files.                                                                  *)
EditsReconciled ==
    gen.rev > 0 /\ (\A m \in Module : ~Differs(m)) =>
       \A m \in Module : gen.facts[m] = IndexedText(m, tree[m])
=============================================================================
