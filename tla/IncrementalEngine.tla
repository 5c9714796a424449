--------------------------- MODULE IncrementalEngine ---------------------------
(***************************************************************************)
(* The incremental analysis of one repository, analysis/incremental: the   *)
(* canonical state that a full analysis builds and that updates of single  *)
(* files patch, the identities of its modules and symbols, the tracked     *)
(* fingerprints, and the analytics derived from it with their markers.     *)
(*                                                                         *)
(* An update reads its file, plans, executes the plan on a copy,           *)
(* publishes the copy and takes the file's fingerprint; whatever raises on *)
(* the way restores what was there.  The engine's lock admits one update;  *)
(* files change at any time.                                               *)
(***************************************************************************)
EXTENDS RefreshPlan

CONSTANTS
    Sources,    \* module to the set of sources it may have
    FullOrder,  \* the sequence of all modules, as a full analysis reads them
    Initial,      \* the repository that was analysed: module to source
    Absent,     \* no file
    Broken,     \* a file that does not parse
    Edited,     \* bound: the modules whose files change
    MaxPending, \* bound: files changed and not updated at a time
    MaxFaults   \* bound: steps that raise, files that change during their own
                \* update, backups that come back, lost continuity

Modules == DOMAIN Sources
GraphFamilies == {"topology", "cycles"}
Families == GraphFamilies \cup {"consumption", "cached", "collisions", "matrix", "clusters"}

ASSUME EngineAssumption ==
    /\ IsFiniteSet(Modules) /\ FullOrder \in Seq(Modules) /\ Range(FullOrder) = Modules
    /\ DOMAIN Initial \subseteq Modules
    /\ Initial = [m \in DOMAIN Initial |-> Initial[m]]
    /\ \A m \in DOMAIN Initial : Initial[m] \in Sources[m]

VARIABLES
    disk,       \* module to its file: a source, Broken or Absent
    stat,       \* the modules whose file looks as the tracked one does
    canon,      \* the canonical state
    ids,        \* modules and symbols with a persistent identity
    resync,     \* resync_required
    job,        \* the update that has the engine's lock
    known,      \* history: the sources the canonical state was made of
    raced,      \* history: fingerprints taken of a file changed meanwhile
    faults

engineVars == <<disk, stat, canon, ids, resync, job, known, raced, faults>>

-----------------------------------------------------------------------------
(* What a full analysis makes of a repository *)

\* Two records as one, and a map with one more entry, or another.
Joined(f, g) == [x \in DOMAIN f \cup DOMAIN g |-> IF x \in DOMAIN f THEN f[x] ELSE g[x]]
With(map, m, value) == [x \in DOMAIN map \cup {m} |-> IF x = m THEN value ELSE map[x]]

InOrder(set) == SelectSeq(FullOrder, LAMBDA m : m \in set)

BoundNames(facts) == [m \in {x \in DOMAIN facts : IsInitializer(x)} |-> DOMAIN facts[m].bindings]

DefsOf(artifacts) == [m \in DOMAIN artifacts |-> artifacts[m].defs]

\* Every symbol with the modules that use it: a target nobody uses is there.
SlicesOf(usages, defs, exports) ==
  UNION {{<<t[1], c, t[2]>> : t \in ConsumerSlice(usages[c], defs, exports)} : c \in DOMAIN usages}

FactsOfAll(sources) ==
  [imports |-> [m \in DOMAIN sources |-> sources[m].imports],
   artifacts |-> [m \in DOMAIN sources |-> Definitions(sources[m])],
   usages |-> [m \in DOMAIN sources |-> UsageFacts(m, sources[m])],
   facts |-> [m \in DOMAIN sources |-> ReexportFacts(m, sources[m])]]

WithGraph(f, root) ==
  Joined(f, [order |-> InOrder(DOMAIN f.imports),
             trie |-> DOMAIN f.imports, root |-> root,
             graph |-> BuildGraph(f.imports, root, BoundNames(f.facts)),
             targets |-> TargetsOf(DefsOf(f.artifacts)),
             slices |-> SlicesOf(f.usages, DefsOf(f.artifacts),
                                 ExportState(f.facts, InOrder(DOMAIN f.imports))),
             collisions |-> f.artifacts])

FullOf(f) == WithGraph(f, DetectPackageRoot(f.imports))
Full(sources) == FullOf(FactsOfAll(sources))

\* What each derived family is computed from.
Inputs(c, family) ==
  IF family \in GraphFamilies THEN c.graph
  ELSE IF family = "cached" THEN <<DefsOf(c.artifacts), c.slices, c.graph.hard>>
  ELSE IF family = "collisions" THEN c.collisions
  ELSE IF family = "matrix" THEN <<DefsOf(c.artifacts), c.slices, c.graph.hard>>
  ELSE <<DefsOf(c.artifacts), c.slices>>

AllFresh == [f \in Families |-> "fresh"]

Analysed(sources) ==
  Joined(Full(sources),
         [marker |-> AllFresh, current |-> Families, layers |-> TRUE,
          parse |-> {}, lineage |-> sources, lineageState |-> "fresh"])

\* A module's own identity is that of the symbol it does not have.
Itself(m) == <<m, "">>
Identities(c) == {Itself(m) : m \in DOMAIN c.imports} \cup c.targets

NoJob == [at |-> "idle"]

EngineInit ==
    /\ disk = [m \in Modules |-> IF m \in DOMAIN Initial THEN Initial[m] ELSE Absent]
    /\ stat = DOMAIN Initial
    /\ \E layers \in BOOLEAN : canon = [Analysed(Initial) EXCEPT !.layers = layers]
    /\ ids = Identities(canon)
    /\ resync = FALSE
    /\ job = NoJob
    /\ known = Initial
    /\ raced = {}
    /\ faults = 0

-----------------------------------------------------------------------------
(* The files, and the fingerprints *)

\* Somebody writes, breaks or deletes a file.  While an update has the lock
\* only its own file matters: a change of another may as well come later.
ChangeFile(m) ==
    /\ job # NoJob => job.module = m
    /\ Cardinality({x \in Modules \ (stat \cup {m}) : disk[x] # Absent \/ x \in DOMAIN known})
         < MaxPending
    /\ \E file \in (Sources[m] \cup {Absent, Broken}) \ {disk[m]} : disk' = [disk EXCEPT ![m] = file]
    /\ stat' = stat \ {m}
    /\ IF job # NoJob THEN faults < MaxFaults /\ faults' = faults + 1
       ELSE UNCHANGED faults
    /\ UNCHANGED <<canon, ids, resync, job, known, raced>>

\* A backup of the analysed file comes back, its modification time too.
RestoreFile(m) ==
    /\ m \in DOMAIN known /\ m \notin stat /\ m \notin raced /\ job = NoJob
    /\ faults < MaxFaults /\ faults' = faults + 1
    /\ disk' = [disk EXCEPT ![m] = known[m]]
    /\ stat' = stat \cup {m}
    /\ UNCHANGED <<canon, ids, resync, job, known, raced>>

HasChanged(m) == m \notin stat

-----------------------------------------------------------------------------
(* Reading the changed file *)

FactsOf(c, m) ==
  [imports |-> IF m \in DOMAIN c.imports THEN c.imports[m] ELSE <<>>,
   artifacts |-> IF m \in DOMAIN c.artifacts THEN c.artifacts[m] ELSE NoDefs,
   usage |-> IF m \in DOMAIN c.usages THEN c.usages[m] ELSE NoUsage,
   facts |-> IF m \in DOMAIN c.facts THEN c.facts[m] ELSE NoFacts]

Read(m, source) ==
  IF source = Absent
  THEN [imports |-> <<>>, artifacts |-> NoDefs, usage |-> NoUsage, facts |-> NoFacts]
  ELSE [imports |-> source.imports, artifacts |-> Definitions(source),
        usage |-> UsageFacts(m, source), facts |-> ReexportFacts(m, source)]

\* An update under lost continuity never leaves the consumption trusted.
Distrusted(c) == IF resync THEN [c EXCEPT !.marker["consumption"] = "stale"] ELSE c

UpdateUnchanged(m) ==
    /\ job = NoJob
    /\ ~HasChanged(m) /\ m \in DOMAIN canon.imports
    /\ canon' = Distrusted(canon)
    /\ UNCHANGED <<disk, stat, ids, resync, job, known, raced, faults>>

\* A file that does not parse keeps its last good facts, except its lineage,
\* and keeps counting as changed.
ParseFails(m) ==
    /\ job = NoJob
    /\ HasChanged(m) /\ disk[m] = Broken
    /\ canon' = [Distrusted(canon) EXCEPT !.parse = @ \cup {m},
                   !.lineage = [s \in DOMAIN @ \ {m} |-> @[s]],
                   !.lineageState = "stale"]
    /\ UNCHANGED <<disk, stat, ids, resync, job, known, raced, faults>>

\* The family of the lineage facts, once the slices are what they are.
LineageMarker(c) ==
  IF resync THEN "stale"
  ELSE IF DOMAIN c.lineage # DOMAIN c.imports
       THEN IF c.lineageState = "stale" THEN "stale" ELSE "deferred"
  ELSE "fresh"

Marked(c) == [c EXCEPT !.lineageState = LineageMarker(c)]

WithLineage(c, m, source) ==
  Marked([c EXCEPT !.lineage = IF source = Absent THEN [s \in DOMAIN @ \ {m} |-> @[s]]
                               ELSE With(@, m, source)])

NewDelta(m, source) ==
  Delta(m, FactsOf(canon, m), Read(m, source),
        source # Absent /\ (Itself(m) \notin ids \/ m \notin DOMAIN canon.imports),
        source = Absent)

\* Nothing the plan cares about changed: the fingerprint is all there is.
NothingToDo(m) ==
    /\ job = NoJob
    /\ HasChanged(m) /\ disk[m] \notin {Broken, Absent}
    /\ NoPlan = Plan(NewDelta(m, disk[m]), canon.usages)
    /\ canon' = WithLineage([Distrusted(canon) EXCEPT !.parse = @ \ {m}], m, disk[m])
    /\ stat' = stat \cup {m}
    /\ known' = With(known, m, disk[m])
    /\ raced' = raced \ {m}
    /\ UNCHANGED <<disk, ids, resync, job, faults>>

BeginUpdate(m) ==
    /\ job = NoJob
    /\ HasChanged(m) /\ disk[m] # Broken
    /\ \E delta \in {NewDelta(m, disk[m])} : \E plan \in {Plan(delta, canon.usages)} :
         /\ plan # NoPlan
         /\ job' = [at |-> "execute", module |-> m, source |-> disk[m], delta |-> delta, plan |-> plan]
    /\ canon' = Distrusted(canon)
    /\ UNCHANGED <<disk, stat, ids, resync, known, raced, faults>>

-----------------------------------------------------------------------------
(* Executing the plan on a copy *)

Put(map, m, value, remove) ==
  IF remove THEN [x \in DOMAIN map \ {m} |-> map[x]] ELSE With(map, m, value)

\* The facts of the changed module, as far as the plan takes them over.
Takes(j, family) == j.source = Absent \/ family \in j.plan.families
Patch(j, family, map, value) ==
  IF Takes(j, family) THEN Put(map, j.module, value, j.source = Absent) ELSE map

PatchedWith(c, j, new) ==
  [c EXCEPT
    !.imports = Patch(j, "modules", @, new.imports),
    !.artifacts = Patch(j, "definitions", @, new.artifacts),
    !.usages = Patch(j, "module_usages", @, new.usage),
    !.facts = Patch(j, "reexport_facts", @, new.facts),
    !.order = IF j.source = Absent THEN SelectSeq(@, LAMBDA x : x # j.module)
              ELSE IF j.module \in Range(@) THEN @ ELSE Append(@, j.module)]

Targeted(c, targets) ==
  [c EXCEPT !.targets = targets, !.slices = {s \in @ : s[1] \in targets}]

Retarget(c) == Targeted(c, TargetsOf(DefsOf(c.artifacts)))
Patched(c, j) == Retarget(PatchedWith(c, j, Read(j.module, j.source)))

\* The slice of every consumer, from the facts there are now.
SlicesFrom(c, exports) ==
  [m \in DOMAIN c.usages |->
     {<<t[1], m, t[2]>> : t \in ConsumerSlice(c.usages[m], DefsOf(c.artifacts), exports)}]

CurrentSlices(c) == SlicesFrom(c, ExportState(c.facts, c.order))
Stored(c, m) == {s \in c.slices : s[2] = m}
OwnRefresh(j) == If("artifact_consumption" \in j.plan.families, {j.module})

\* The consumers to recompute and, whenever a slice changes, whoever depends
\* on that consumer.
Downstream(c, j, slice) ==
  LET queue[n \in 0..Cardinality(DOMAIN c.usages)] ==
        IF n = 0 THEN j.plan.recompute \cap DOMAIN c.usages
        ELSE queue[n-1] \cup
             (UNION {DependentConsumers(m, c.usages) :
                       m \in {x \in queue[n-1] : slice[x] # Stored(c, x)}} \ {j.module})
  IN queue[Cardinality(DOMAIN c.usages)]

Replaced(c, slice, consumers) ==
  {s \in c.slices : s[2] \notin consumers}
  \cup UNION {slice[m] : m \in consumers \cap DOMAIN slice}

\* Mutant of RebuiltFrom: consumers downstream of a changed one are left alone.
RebuiltOnce(c, j, slice) == Replaced(c, slice, j.plan.recompute \cup OwnRefresh(j))

RebuiltFrom(c, j, slice) == Replaced(c, slice, Downstream(c, j, slice) \cup OwnRefresh(j))
Rebuilt(c, j) == [c EXCEPT !.slices = RebuiltFrom(c, j, CurrentSlices(c))]

\* The graph is built anew when a module comes or goes or a package rebinds
\* its names, and else only the edges of the module change.
GraphFrom(c, root) ==
  [c EXCEPT !.trie = DOMAIN c.imports, !.root = root,
            !.graph = BuildGraph(c.imports, root, BoundNames(c.facts))]

Restructured(j) == j.delta.isNew \/ j.delta.isDeleted \/ InitializerChanged(j.delta)

Regraphed(c, j) ==
  IF "dependency_graph" \notin j.plan.families THEN c
  ELSE IF Restructured(j) THEN GraphFrom(c, DetectPackageRoot(c.imports))
  ELSE [c EXCEPT !.graph = WithModuleEdges(@, j.module,
          ResolveModuleEdges(j.module, c.imports[j.module], c.trie, c.root, BoundNames(c.facts)))]

CoversTargets(c) == c.targets = TargetsOf(DefsOf(c.artifacts))

\* The families the plan recomputes; those in `raising` raise and are caught.
Recomputed(j) ==
  If(j.plan.graph, GraphFamilies)
  \cup If("cached_analytics" \in j.plan.families, {"cached"})
  \cup If("artifact_consumption" \in j.plan.families, {"consumption"})
  \cup If("collisions" \in j.plan.families, {"collisions"})
  \cup If({"definitions", "artifact_consumption"} \cap j.plan.families # {}, {"matrix", "clusters"})
  \cup If("dependency_graph" \in j.plan.families, {"matrix"})

\* The marker of a family after the update.
NextMarker(c, j, raising, f) ==
  IF resync THEN "stale"
  ELSE IF f \notin Recomputed(j) \/ (f = "collisions" /\ c.marker[f] = "stale") THEN c.marker[f]
  ELSE IF f \in raising THEN (IF f = "collisions" THEN "deferred" ELSE "stale")
  ELSE IF \/ f = "consumption" /\ ~CoversTargets(c)
          \/ /\ f \in {"matrix", "clusters"}
             /\ "artifact_consumption" \notin j.plan.families
             /\ c.marker["consumption"] # "fresh"
  THEN "stale" ELSE "fresh"

WithCollisions(c, j) ==
  IF "collision_facts" \in j.plan.families
  THEN [c EXCEPT !.collisions = Put(@, j.module, Read(j.module, j.source).artifacts,
                                    j.source = Absent)]
  ELSE c

\* `current` is the families whose value is that of their inputs.
StillCurrent(before, after, f) == f \in before.current /\ Inputs(after, f) = Inputs(before, f)

MarkedBy(before, after, j, raising, marker) ==
  [after EXCEPT
    !.marker = marker,
    !.current = {f \in Families : marker[f] = "fresh"
                   /\ (f \in Recomputed(j) \ raising \/ StillCurrent(before, after, f))}]

WithFamilies(before, after, j, raising) ==
  MarkedBy(before, after, j, raising, [f \in Families |-> NextMarker(after, j, raising, f)])

Executed(c, j, raising) ==
  WithFamilies(c, WithCollisions(Regraphed(Rebuilt(Patched(c, j), j), j), j), j, raising)

\* A report of the layers cannot be refreshed from untrusted facts.
LayersRaise(c) == c.layers /\ ~resync /\ (c.marker["cycles"] # "fresh" \/ c.marker["collisions"] # "fresh")

Synced(c, j) == IF "identity_registry" \in j.plan.families THEN ids \cup Identities(c) ELSE ids

\* The copy, the identities, the lineage, and publication.  No fingerprint yet.
Execute ==
    /\ job.at = "execute"
    /\ \E raising \in {{}} \cup {{f} : f \in If(faults < MaxFaults, {"collisions", "matrix", "clusters"})} :
         \E new \in {Executed(canon, job, raising)}, m \in {job.module} :
            /\ raising \subseteq Recomputed(job)
            /\ ~LayersRaise(new)
            /\ faults' = faults + Cardinality(raising)
            /\ ids' = Synced(new, job)
            /\ Identities(new) \subseteq ids'
            /\ canon' = WithLineage([new EXCEPT !.parse = @ \ {m}], m, job.source)
            /\ job' = [at |-> "acknowledge", module |-> m, source |-> job.source,
                       canon |-> canon, ids |-> ids, synced |-> "identity_registry" \in job.plan.families]
    /\ UNCHANGED <<disk, stat, resync, known, raced>>

Accepted(m, source) ==
    /\ known' = IF source = Absent THEN [x \in DOMAIN known \ {m} |-> known[x]]
                ELSE With(known, m, source)
    /\ raced' = IF disk[m] = source THEN raced \ {m} ELSE raced \cup {m}
    /\ job' = NoJob

\* update_state takes the fingerprint of the file as it is by now.
Acknowledge ==
    /\ job.at = "acknowledge"
    /\ job.source = Absent \/ disk[job.module] # Absent
    /\ stat' = IF disk[job.module] = Absent THEN stat \ {job.module} ELSE stat \cup {job.module}
    /\ Accepted(job.module, job.source)
    /\ UNCHANGED <<disk, canon, ids, resync, faults>>

\* Any step before the fingerprint raises: nothing was published.
ExecuteRaises ==
    /\ job.at = "execute"
    /\ \/ faults < MaxFaults /\ faults' = faults + 1
       \/ LayersRaise(Executed(canon, job, {})) /\ UNCHANGED faults
    /\ job' = NoJob
    /\ UNCHANGED <<disk, stat, canon, ids, resync, known, raced>>

\* Mutant of FailedCommit: the published copy stays.
FailedCommitStays ==
    /\ job.at = "acknowledge"
    /\ job.source # Absent /\ disk[job.module] = Absent
    /\ stat' = stat
    /\ ids' = job.ids
    /\ job' = NoJob
    /\ UNCHANGED <<disk, canon, resync, known, raced, faults>>

\* The file is gone before its fingerprint was taken: the guard restores the
\* canonical state, the tracked files and, unless that raises, the registry.
FailedCommit ==
    /\ job.at = "acknowledge"
    /\ job.source # Absent /\ disk[job.module] = Absent
    /\ canon' = job.canon
    /\ ids' \in {job.ids} \cup If(job.synced, {ids})
    /\ job' = NoJob
    /\ UNCHANGED <<disk, stat, resync, known, raced, faults>>

-----------------------------------------------------------------------------
(* Around the updates *)

\* The runtime lost an update: only a full analysis can be trusted again.
LoseContinuity ==
    /\ job = NoJob /\ ~resync
    /\ faults < MaxFaults /\ faults' = faults + 1
    /\ resync' = TRUE
    /\ UNCHANGED <<disk, stat, canon, ids, job, known, raced>>

FullAnalysis ==
    /\ job = NoJob
    /\ resync \/ LayersRaise(canon)
    /\ \A m \in Modules : disk[m] # Broken
    /\ \E sources \in {[m \in {x \in Modules : disk[x] # Absent} |-> disk[m]]} :
         /\ canon' = [Analysed(sources) EXCEPT !.layers = canon.layers]
         /\ ids' = ids \cup Identities(canon')
         /\ known' = sources
         /\ stat' = DOMAIN sources
    /\ resync' = FALSE
    /\ raced' = {}
    /\ UNCHANGED <<disk, job, faults>>

\* materialize_incremental_state, when an engine takes a loaded state: it
\* computes what is deferred and heals nothing that is stale.
Covered(c) ==
  IF resync \/ c.marker["consumption"] = "stale" \/ ~CoversTargets(c) THEN "stale" ELSE "fresh"

Healed(c, consumption, f) ==
  IF f = "consumption" THEN consumption
  ELSE IF resync \/ (consumption = "stale" /\ f \in {"cached", "matrix", "clusters"}) THEN "stale"
  ELSE IF c.marker[f] = "deferred" THEN "fresh" ELSE c.marker[f]

HealedAs(c, marker) ==
  [c EXCEPT !.marker = marker,
            !.current = {f \in Families : marker[f] = "fresh" /\ (f \in @ \/ c.marker[f] # "fresh")}]

HealedFrom(c, consumption) == HealedAs(c, [f \in Families |-> Healed(c, consumption, f)])
Materialized(c) == HealedFrom(c, Covered(c))

StartEngine ==
    /\ job = NoJob
    /\ canon' = Materialized(canon)
    /\ canon' # canon
    /\ UNCHANGED <<disk, stat, ids, resync, job, known, raced, faults>>

EngineNext ==
    \/ \E m \in Edited : ChangeFile(m) \/ RestoreFile(m)
    \/ \E m \in Modules : \/ UpdateUnchanged(m) \/ ParseFails(m) \/ NothingToDo(m) \/ BeginUpdate(m)
    \/ Execute \/ Acknowledge \/ ExecuteRaises \/ FailedCommit
    \/ LoseContinuity \/ FullAnalysis \/ StartEngine

EngineSpec == EngineInit /\ [][EngineNext]_engineVars

-----------------------------------------------------------------------------
(* Properties *)

(* Between two updates the canonical state is, fact by fact and edge by    *)
(* edge, what a full analysis of the same sources would make, whatever     *)
(* order files were updated in and whichever updates failed                *)
(* (execute_refresh_plan).                                                 *)
SameFacts(c, full) ==
  /\ c.imports = full.imports /\ c.artifacts = full.artifacts
  /\ c.usages = full.usages /\ c.facts = full.facts
  /\ c.graph = full.graph
  /\ c.targets = full.targets /\ c.slices = full.slices

MatchesFull == job = NoJob => SameFacts(canon, Full(known))

(* What an update takes from the file itself - which modules there are,    *)
(* what they define, use and hand on, the symbols there are to refer to    *)
(* and the payloads collisions are found in - is always what a full        *)
(* analysis of the same sources would take (plan_refresh).                 *)
TakesFileFacts ==
  job = NoJob =>
    \A full \in {Full(known)} :
      /\ DOMAIN canon.imports = DOMAIN full.imports
      /\ canon.artifacts = full.artifacts /\ canon.usages = full.usages
      /\ canon.facts = full.facts /\ canon.targets = full.targets
      /\ canon.collisions = full.collisions

(* A derived family marked fresh was computed from the facts that are      *)
(* canonical now, and the lineage of every module from its source.         *)
FreshMeansCurrent ==
  job = NoJob =>
    /\ \A f \in Families : canon.marker[f] = "fresh" => f \in canon.current
    /\ canon.lineageState = "fresh" => canon.lineage = known

(* A file that an update calls unchanged is the one its facts come from,   *)
(* unless it changed between its parse and its fingerprint; a symbol of    *)
(* the canonical state always has an identity (update_file).               *)
UnchangedIsKnown ==
  job = NoJob =>
    /\ \A m \in stat \ raced : m \in DOMAIN known => known[m] = disk[m]
    /\ Identities(canon) \subseteq ids

(* Whatever is edited, updated, fails or is restored, the facts of every   *)
(* module are those of the source it was last read from, derived facts     *)
(* marked fresh are of the facts there are, and an unchanged file is the   *)
(* one that was read (update_file, execute_refresh_plan).                  *)
EngineIsFaithful == TakesFileFacts /\ FreshMeansCurrent /\ UnchangedIsKnown
=============================================================================
