---------------------------- MODULE LineageFacts ----------------------------
(* The identities of the repository's modules and artifacts, and the facts *)
(* about where values come from that name artifacts by identity            *)
(* (persistent_registry.py, lineage_materialization.py, lineage_query/).   *)
(* The registry is written before the state that refers to it: an update   *)
(* brings it up to date, computes the facts of the next state, and is then *)
(* saved or taken back; an analysis that fails takes nothing back, and a   *)
(* report of a layer allocates identities of its own.                      *)
EXTENDS Naturals, SequencesExt, Relation

CONSTANTS
    LineageModule,  \* 1 .. n
    Written(_, _),  \* what is written in a text of a module
    LastVersion,    \* its texts, 1 .. LastVersion; 0 is no file
    Slot,           \* the slots identities are built from
    RecoveryLimit,  \* the entries the bytes of a recovery file hold
    MaxChanges      \* bound: edits, and mutations that end without a state

\* The items there may ever be.
LineageItems(kind) ==
    IF kind = "module" THEN {<<m, "">> : m \in LineageModule}
    ELSE UNION {{<<m, d.name>> : d \in Written(m, v).defs} : m \in LineageModule, v \in 1 .. LastVersion}

(* A text has finitely many definitions and exports, and binds a name      *)
(* once: to a definition of its own or to one of a module of the workspace *)
(* that it hands on.  The slots, all positive numbers in the code, suffice *)
(* for the items there can be.                                             *)
ASSUME LineageAssumption ==
    /\ IsFiniteSet(LineageModule) /\ LastVersion \in Nat \ {0} /\ RecoveryLimit \in Nat
    /\ \A m \in LineageModule, v \in 1 .. LastVersion :
          /\ IsFiniteSet(Written(m, v).defs) /\ IsFiniteSet(Written(m, v).reexports)
          /\ Written(m, v).limited \in BOOLEAN
          /\ \A d \in Written(m, v).defs, e \in Written(m, v).reexports : d.name # e.name
          /\ \A e \in Written(m, v).reexports : e.target[1] \in LineageModule
    /\ Slot \in SUBSET Nat
    /\ \A kind \in {"module", "artifact"} :
          IsFiniteSet(Slot) => Cardinality(LineageItems(kind)) <= Cardinality(Slot)

VARIABLES
    workspace,  \* the text of every module in the workspace
    registry,   \* the registry's files, for modules and for artifacts
    canon,      \* the canonical state that is served
    op,         \* the mutation under way
    denoted,    \* (history) what every identity was published for
    ahead,      \* (history) the registry was left by a mutation that ended
                \* without a state
    drifted,    \* (history) names whose interface an update changed without
                \* the other sources' being resolved again
    changes

lineageVars == <<workspace, registry, canon, op, denoted, ahead, drifted, changes>>

----------------------------------------------------------------------------
(* The registry                                                            *)

Kind == {"module", "artifact"}
ModuleItem(m) == <<m, "">>
Defined(m, v) == IF v = 0 THEN {} ELSE {<<m, d.name>> : d \in Written(m, v).defs}
ItemsOf(known) ==
    [module |-> {ModuleItem(m) : m \in {q \in LineageModule : known[q] # 0}},
     artifact |-> UNION {Defined(m, known[m]) : m \in LineageModule}]

Fresh == [active |-> <<>>, recovery |-> <<>>, generations |-> [s \in Slot |-> 0]]

\* Mutant of AllocateSlot: a slot that is free again keeps its generation.
AllocateSlotAgain(r) ==
    [slot |-> Min(Slot \ {r.active[n].slot : n \in DOMAIN r.active}), generation |-> 1]

\* The smallest slot no active identity has, in its next generation.
AllocateSlot(r) ==
    LET slot == Min(Slot \ {r.active[n].slot : n \in DOMAIN r.active})
    IN [slot |-> slot, generation |-> r.generations[slot] + 1]

Given(active, n, id) == [q \in DOMAIN active \cup {n} |-> IF q = n THEN id ELSE active[q]]

Allocate(r, n) ==
    LET id == AllocateSlot(r)
    IN [r EXCEPT !.active = Given(@, n, id), !.generations[id.slot] = id.generation]

Orphan(r, n) ==
    [r EXCEPT !.active = Restrict(@, DOMAIN @ \ {n}),
              !.recovery = Append(@, [id |-> r.active[n], item |-> n])]

\* An item that comes back gets the first identity kept for it.
Return(r, n) ==
    LET place == SelectInSeq(r.recovery, LAMBDA e : e.item = n)
    IN IF place = 0 THEN Allocate(r, n)
       ELSE [r EXCEPT !.active = Given(@, n, r.recovery[place].id),
                      !.recovery = RemoveAt(@, place)]

\* The items are gone through in the order of a dictionary and of a set.
Synced(r, items) ==
    {FoldLeft(Return, FoldLeft(Orphan, r, gone), back) :
        gone \in SetToSeqs(DOMAIN r.active \ items), back \in SetToSeqs(items \ DOMAIN r.active)}

\* The oldest orphans go until the rest fits.
Collected(r) ==
    [r EXCEPT !.recovery =
        SubSeq(@, IF Len(@) > RecoveryLimit THEN Len(@) - RecoveryLimit + 1 ELSE 1, Len(@))]

SyncedRegistry(known) ==
    {[module |-> rm, artifact |-> ra] : rm \in Synced(registry.module, ItemsOf(known).module),
                                        ra \in Synced(registry.artifact, ItemsOf(known).artifact)}
Identities(reg) == {<<k, reg[k].active[n], n>> : k \in {"module"}, n \in DOMAIN reg.module.active}
              \cup {<<k, reg[k].active[n], n>> : k \in {"artifact"}, n \in DOMAIN reg.artifact.active}
HasOwners(reg, known) == \A k \in Kind : ItemsOf(known)[k] \subseteq DOMAIN reg[k].active

----------------------------------------------------------------------------
(* The facts of one source                                                 *)

NoId == [slot |-> 0, generation |-> 0]

\* A call of an imported function gives what it returns; a parameter of an
\* own function is bound; a name is exported.
Facts(m, v) ==
    IF Written(m, v).limited THEN {}
    ELSE {[kind |-> "return", item |-> n, parameter |-> ""] : n \in Written(m, v).calls}
         \cup UNION {{[kind |-> "parameter", item |-> <<m, d.name>>, parameter |-> p] : p \in d.signature}
                        : d \in {e \in Written(m, v).defs : e.kind = "function"}}
         \cup {[kind |-> "public", item |-> e.target, parameter |-> ""] : e \in Written(m, v).reexports}
AnchorNames(m, v) == IF Written(m, v).limited THEN {} ELSE Defined(m, v)

\* The interfaces of the functions among named items of a source; a function
\* defined twice with two signatures has none.
Described(m, v, names, ids) ==
    LET signatures(n) == {d.signature : d \in {e \in Written(m, v).defs : <<m, e.name>> = n
                                                                        /\ e.kind = "function"}}
    IN [id \in {ids[n] : n \in {q \in names : Cardinality(signatures(q)) = 1}} |->
          CHOOSE s \in signatures(CHOOSE n \in names : ids[n] = id) : TRUE]
MergedInterfaces(functions) ==
    [x \in UNION {DOMAIN f : f \in functions} |-> (CHOOSE f \in functions : x \in DOMAIN f)[x]]

\* A name is resolved to the identity it has now, and to a place in its
\* interface only when its interface has that place.
Endpoint(f, ids, interface) ==
    LET id == IF f.item \in DOMAIN ids THEN ids[f.item] ELSE NoId
    IN IF \/ f.kind = "public"
          \/ id \in DOMAIN interface /\ (f.kind = "return" \/ f.parameter \in interface[id])
       THEN id ELSE NoId

Resolved(v, status, names, facts, ids, interface) ==
    LET anchors == {[owner |-> ids[n], item |-> n] : n \in names}
        endpoints == [f \in facts |-> Endpoint(f, ids, interface)]
    IN [version |-> v, status |-> status, anchors |-> anchors, endpoints |-> endpoints,
        interface |-> Restrict(interface, DOMAIN interface \cap
                          ({a.owner : a \in anchors}
                           \cup {endpoints[f] : f \in {g \in facts : g.kind # "public"}}))]
MaterializeSource(m, v, ids, interface) ==
    Resolved(v, IF Written(m, v).limited THEN "resource_limit" ELSE "fresh",
             AnchorNames(m, v), Facts(m, v), ids, interface)
Reresolve(slice, ids, interface) ==
    Resolved(slice.version, slice.status, {a.item : a \in slice.anchors} \cap DOMAIN ids,
             DOMAIN slice.endpoints, ids, interface)
MatchesResolution(m, slice, ids, interface) ==
    slice.status = "fresh" /\ slice = MaterializeSource(m, slice.version, ids, interface)
NoSlice == [version |-> 0, status |-> "missing", anchors |-> {}, endpoints |-> <<>>, interface |-> <<>>]

----------------------------------------------------------------------------
(* The index from owners to the sources that mention them                  *)

OwnersOf(slice) ==
    {a.owner : a \in slice.anchors}
    \cup ({slice.endpoints[f] : f \in DOMAIN slice.endpoints} \ {NoId})
BuildIndexes(lineage) ==
    [sources |-> [id \in UNION {OwnersOf(lineage[m]) : m \in LineageModule} |->
                    {m \in LineageModule : id \in OwnersOf(lineage[m])}],
     owners |-> [m \in LineageModule |-> OwnersOf(lineage[m])]]
PatchIndexes(indexes, m, slice) ==
    LET left(id) == indexes.sources[id] \ (IF id \in indexes.owners[m] THEN {m} ELSE {})
        kept == {id \in DOMAIN indexes.sources : left(id) # {}}
    IN [sources |-> [id \in kept \cup OwnersOf(slice) |->
                       (IF id \in kept THEN left(id) ELSE {})
                       \cup (IF id \in OwnersOf(slice) THEN {m} ELSE {})],
        owners |-> [indexes.owners EXCEPT ![m] = OwnersOf(slice)]]

Family(lineage, resync) ==
    IF resync THEN "stale"
    ELSE IF \E m \in LineageModule : lineage[m].status = "resource_limit" THEN "resource_limit"
    ELSE "fresh"

----------------------------------------------------------------------------
(* An update of one file                                                   *)

\* A module that comes, goes or is unknown to the registry, and names that
\* come or go, have the registry brought up to date.
NeedsSync(m) ==
    \/ canon.known[m] = 0 \/ workspace[m] = 0 \/ ModuleItem(m) \notin DOMAIN registry.module.active
    \/ Defined(m, canon.known[m]) # Defined(m, workspace[m])

ActiveIds(reg, known) == Restrict(reg.artifact.active, ItemsOf(known).artifact)

\* Every source is resolved again, or only the one that changed.
Rematerialized(m, v, known, ids) ==
    LET retained == [q \in LineageModule |-> IF q = m THEN NoSlice ELSE canon.lineage[q]]
        interface == MergedInterfaces(
            {Described(q, retained[q].version, {a.item : a \in retained[q].anchors} \cap DOMAIN ids, ids)
                : q \in {p \in LineageModule : retained[p].status = "fresh"}}
            \cup (IF v = 0 THEN {} ELSE {Described(m, v, AnchorNames(m, v), ids)}))
    IN [q \in LineageModule |->
          IF q = m /\ v # 0 THEN MaterializeSource(m, v, ids, interface)
          ELSE IF retained[q] = NoSlice THEN NoSlice
          ELSE Reresolve(retained[q], ids, interface)]
OneMaterialized(m, v, ids) ==
    LET stored(q) == Restrict(canon.lineage[q].interface,
                        {a.owner : a \in canon.lineage[q].anchors}
                        \cap DOMAIN canon.lineage[q].interface \cap {ids[n] : n \in DOMAIN ids})
        interface == MergedInterfaces({stored(q) : q \in LineageModule \ {m}} \cup {Described(m, v, AnchorNames(m, v), ids)})
    IN [canon.lineage EXCEPT ![m] = MaterializeSource(m, v, ids, interface)]

Updated(m, reg, synced) ==
    LET v == workspace[m]
        known == [canon.known EXCEPT ![m] = v]
        lineage == IF synced THEN Rematerialized(m, v, known, ActiveIds(reg, known))
                   ELSE OneMaterialized(m, v, ActiveIds(reg, known))
    IN [known |-> known, lineage |-> lineage,
        indexes |-> IF synced THEN BuildIndexes(lineage) ELSE PatchIndexes(canon.indexes, m, lineage[m]),
        family |-> Family(lineage, canon.resync), resync |-> canon.resync]

Idle == [kind |-> "none"]
Mutation(kind, state, synced, m) ==
    [kind |-> kind, state |-> state, synced |-> synced, module |-> m, checkpoint |-> registry]

BeginUpdate(m) ==
    /\ op = Idle /\ canon.family # "none" /\ workspace[m] # canon.known[m]
    /\ workspace[m] # 0 => Written(m, workspace[m]).parses
    /\ LET known == [canon.known EXCEPT ![m] = workspace[m]]
       IN \E reg \in IF NeedsSync(m) THEN SyncedRegistry(known) ELSE {registry} :
            \* without one it raises when the registry lacks an owner
            /\ HasOwners(reg, known)
            /\ registry' = reg
            /\ op' = Mutation("update", Updated(m, reg, NeedsSync(m)), NeedsSync(m), m)
    /\ UNCHANGED <<workspace, canon, denoted, ahead, drifted, changes>>

\* Names of the module that have another interface than before; a source
\* over the limit gives none.
InterfaceChanges(m) ==
    LET signatures(v, n) == {<<d.kind, d.signature>> : d \in {e \in Written(m, v).defs :
                                ~Written(m, v).limited /\ <<m, e.name>> = n}}
    IN {n \in Defined(m, op.state.known[m]) :
           signatures(canon.known[m], n) # signatures(op.state.known[m], n)}

Publish ==
    /\ op # Idle
    /\ canon' = op.state /\ op' = Idle
    /\ denoted' = denoted \cup Identities(registry)
    /\ ahead' = (ahead /\ ~op.synced)
    /\ drifted' = IF op.synced THEN {} ELSE drifted \cup InterfaceChanges(op.module)
    /\ UNCHANGED <<workspace, registry, changes>>

\* An update that fails puts the registry back as it was.
RollBack ==
    /\ op # Idle /\ op.kind = "update"
    /\ registry' = op.checkpoint /\ op' = Idle
    /\ UNCHANGED <<workspace, canon, denoted, ahead, drifted, changes>>

\* An analysis that fails, and a process that dies, do not.
Abandon ==
    /\ op # Idle /\ changes < MaxChanges
    /\ op' = Idle /\ ahead' = (ahead \/ registry # op.checkpoint)
    /\ changes' = changes + 1
    /\ UNCHANGED <<workspace, registry, canon, denoted, drifted>>

----------------------------------------------------------------------------
(* The full analysis, and the report of a layer                            *)

OnDisk == [m \in LineageModule |-> IF workspace[m] # 0 /\ Written(m, workspace[m]).parses THEN workspace[m] ELSE 0]

\* The facts of before are kept where they still hold.
Analysed(reg) ==
    LET known == OnDisk
        ids == ActiveIds(reg, known)
        interface == MergedInterfaces({Described(m, known[m], AnchorNames(m, known[m]), ids)
                                : m \in {q \in LineageModule : known[q] # 0}})
        reusable(m) == /\ canon.family = "fresh" /\ ~canon.resync
                       /\ canon.lineage[m].status = "fresh" /\ canon.lineage[m].version = known[m]
        lineage == [m \in LineageModule |->
            IF known[m] = 0 THEN NoSlice
            ELSE IF ~reusable(m) THEN MaterializeSource(m, known[m], ids, interface)
            ELSE IF MatchesResolution(m, canon.lineage[m], ids, interface) THEN canon.lineage[m]
            ELSE Reresolve(canon.lineage[m], ids, interface)]
    IN [known |-> known, lineage |-> lineage, indexes |-> BuildIndexes(lineage),
        family |-> IF OnDisk # workspace THEN "deferred" ELSE Family(lineage, FALSE), resync |-> FALSE]

BeginAnalysis ==
    /\ op = Idle
    /\ \E reg \in SyncedRegistry(OnDisk) :
         LET collected == [k \in Kind |-> Collected(reg[k])]
         IN /\ registry' = collected
            /\ op' = Mutation("analysis", Analysed(collected), TRUE, 0)
            /\ denoted' = denoted \cup Identities(collected)
    /\ UNCHANGED <<workspace, canon, ahead, drifted, changes>>

\* Names without an identity get one, what is kept for them is not asked.
ReportLayer ==
    /\ op = Idle /\ changes < MaxChanges /\ changes' = changes + 1
    /\ \E modules \in SetToSeqs(ItemsOf(OnDisk).module \ DOMAIN registry.module.active),
          artifacts \in SetToSeqs(ItemsOf(OnDisk).artifact \ DOMAIN registry.artifact.active) :
         /\ modules # <<>> \/ artifacts # <<>>
         /\ registry' = [module |-> FoldLeft(Allocate, registry.module, modules),
                         artifact |-> FoldLeft(Allocate, registry.artifact, artifacts)]
    /\ denoted' = denoted \cup Identities(registry')
    /\ UNCHANGED <<workspace, canon, op, ahead, drifted>>

EditText(m, v) ==
    /\ changes < MaxChanges /\ v # workspace[m]
    /\ workspace' = [workspace EXCEPT ![m] = v] /\ changes' = changes + 1
    /\ UNCHANGED <<registry, canon, op, denoted, ahead, drifted>>

LoseContinuity ==
    /\ op = Idle /\ canon.family # "none" /\ ~canon.resync
    /\ changes < MaxChanges /\ changes' = changes + 1
    /\ canon' = [canon EXCEPT !.resync = TRUE]
    /\ UNCHANGED <<workspace, registry, op, denoted, ahead, drifted>>

LineageInit ==
    /\ workspace = [m \in LineageModule |-> 1]
    /\ registry = [k \in Kind |-> Fresh]
    /\ canon = [known |-> [m \in LineageModule |-> 0], lineage |-> [m \in LineageModule |-> NoSlice],
                indexes |-> BuildIndexes([m \in LineageModule |-> NoSlice]), family |-> "none", resync |-> FALSE]
    /\ op = Idle /\ denoted = {} /\ ahead = FALSE /\ drifted = {} /\ changes = 0

LineageNext ==
    \/ \E m \in LineageModule : BeginUpdate(m) \/ \E v \in 0 .. LastVersion : EditText(m, v)
    \/ Publish \/ RollBack \/ Abandon \/ BeginAnalysis \/ ReportLayer \/ LoseContinuity

LineageSpec == LineageInit /\ [][LineageNext]_lineageVars

----------------------------------------------------------------------------
(* What is asked of the facts                                              *)

Available == canon.family = "fresh" /\ ~canon.resync

\* The identity a name has in the facts of its own module.
Catalog(n) == {a.owner : a \in {b \in canon.lineage[n[1]].anchors : b.item = n}}
Alias == [n \in UNION {{<<m, e.name>> : e \in Written(m, canon.known[m]).reexports}
                          : m \in {q \in LineageModule : canon.known[q] # 0}} |->
            (CHOOSE e \in Written(n[1], canon.known[n[1]]).reexports : e.name = n[2]).target]
CatalogById(id) ==
    UNION {{a.item : a \in {b \in canon.lineage[m].anchors : b.owner = id}} : m \in canon.indexes.sources[id]}
\* A name without an identity is followed along the re-exports; a name met
\* twice is a cycle.
Followed(n, alias) ==
    LET at[k \in 0 .. Cardinality(DOMAIN alias)] ==
            IF k = 0 THEN n
            ELSE LET last == at[k - 1] IN IF last \in DOMAIN alias THEN alias[last] ELSE last
    IN at[Cardinality(DOMAIN alias)]
ResolveTarget(n, alias) ==
    IF Catalog(n) # {} \/ Followed(n, alias) \in DOMAIN alias THEN n ELSE Followed(n, alias)

DirectFacts(id) ==
    IF id \notin DOMAIN canon.indexes.sources THEN {}
    ELSE UNION {{<<m, f>> : f \in {g \in DOMAIN canon.lineage[m].endpoints :
                                       canon.lineage[m].endpoints[g] = id}}
                   : m \in canon.indexes.sources[id]}
InterfaceFacts(id) ==
    IF id \notin DOMAIN canon.indexes.sources THEN {}
    ELSE {canon.lineage[m].interface[id] : m \in {q \in canon.indexes.sources[id] :
            id \in {a.owner : a \in canon.lineage[q].anchors} /\ id \in DOMAIN canon.lineage[q].interface}}

(* What the texts say: who defines a name that is asked for, who mentions  *)
(* it, and with which parameters it can be called.                         *)
KnownModules == {m \in LineageModule : canon.known[m] # 0}
Definer(n, alias, defined) ==
    IF n \in defined THEN {n}
    ELSE LET reached[k \in 0 .. Cardinality(DOMAIN alias)] ==
                 IF k = 0 THEN {n}
                 ELSE LET before == reached[k - 1]
                      IN before \cup {alias[q] : q \in before \cap DOMAIN alias}
         IN defined \cap reached[Cardinality(DOMAIN alias)]
SignaturesOf(n) ==
    {d.signature : d \in {e \in Written(n[1], canon.known[n[1]]).defs : e.name = n[2] /\ e.kind = "function"}}
Mentions(n) ==
    UNION {{<<m, f>> : f \in {g \in Facts(m, canon.known[m]) :
              /\ g.item = n
              /\ g.kind = "public"
                 \/ \E s \in SignaturesOf(n) : SignaturesOf(n) = {s} /\ (g.kind = "return" \/ g.parameter \in s)}}
              : m \in KnownModules}

AnswersAreTrue ==
    op = Idle /\ Available /\ ~ahead =>
      \A alias \in {Alias}, defined \in {ItemsOf(canon.known).artifact} :
        \A n \in defined \cup DOMAIN alias :
          \A target \in {ResolveTarget(n, alias)} :
            /\ (Catalog(target) # {}) = (Definer(n, alias, defined) # {})
            /\ \A id \in Catalog(target) :
                 /\ Catalog(target) = {id} /\ Definer(n, alias, defined) = {target}
                 /\ CatalogById(id) = {target}
                 /\ InterfaceFacts(id) = {s \in SignaturesOf(target) : SignaturesOf(target) = {s}}
                 /\ target \notin drifted => DirectFacts(id) = Mentions(target)

IdentitiesStand ==
    \A d, e \in denoted : d[1] = e[1] /\ d[2] = e[2] => d[3] = e[3]

(* What is asked of fresh lineage facts is what the texts say, found by    *)
(* the identities names have, and no identity is published for two names,  *)
(* however files come, go and return, and mutations fail (lineage_query/   *)
(* backend.py; persistent_registry.py, sync and _allocate_slot).           *)
LineageIsTrue == AnswersAreTrue /\ IdentitiesStand
=============================================================================
