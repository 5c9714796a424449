------------------------------ MODULE RefreshPlan ------------------------------
(***************************************************************************)
(* What one edited file changes: the facts read from a source, the         *)
(* difference to the facts known before, the plan of what an incremental   *)
(* update recomputes, and how references and re-exports are resolved.      *)
(*                                                                         *)
(* A source is a record                                                    *)
(*   [imports |-> sequence of import statements, defs |-> set of symbols,  *)
(*    all |-> "none" or the set in __all__, uses |-> set of names used,    *)
(*    layout |-> a number that stands for its line numbers]                *)
(* Imports come before definitions; an import binds the last name given.   *)
(***************************************************************************)
EXTENDS ImportGraph

STAR == "*"
NoAll == "none"

\* The module an import statement names, relative to the importing module.
AbsoluteModule(m, imp) ==
  IF imp.level = 0 THEN imp.module
  ELSE LET package == Front(m)
           climb == imp.level - 1
       IN (IF climb > Len(package) THEN <<>>
           ELSE SubSeq(package, 1, Len(package) - climb)) \o imp.module

-----------------------------------------------------------------------------
(* Facts of one source *)

\* Local names and what they stand for; a later statement wins.
AliasesOfImport(m, imp) ==
  IF imp.isFrom THEN [n \in imp.names |-> Append(AbsoluteModule(m, imp), n)]
  ELSE Last(imp.module) :> imp.module

Aliases(m, source) ==
  FoldLeft(LAMBDA known, imp : AliasesOfImport(m, imp) @@ known, <<>>, source.imports)

\* What the module tells the rest about its use of other modules.
UsageOf(m, source, aliases) ==
  [imports |-> ({i.module : i \in Range(source.imports)} \ {<<>>}) \cup Range(aliases),
   aliases |-> aliases,
   calls |-> source.uses,
   stars |-> {AbsoluteModule(m, i) : i \in {j \in Range(source.imports) : STAR \in j.names}},
   layout |-> source.layout]

UsageFacts(m, source) == UsageOf(m, source, Aliases(m, source))

NoFacts == [exporter |-> <<>>, all |-> NoAll, bindings |-> <<>>, stars |-> <<>>]
NoUsage == [imports |-> {}, aliases |-> <<>>, calls |-> {}, stars |-> {}, layout |-> 0]

\* What it exports: an explicit __all__, its bindings, its star imports in
\* their order.  A definition comes after, and hides, an import.
ReexportFacts(m, source) ==
  LET named(imp) == IF imp.isFrom /\ STAR \notin imp.names
                    THEN AliasesOfImport(m, imp) ELSE <<>>
      imported == FoldLeft(LAMBDA known, imp : named(imp) @@ known, <<>>, source.imports)
  IN [exporter |-> PackageOf(m),
      all |-> source.all,
      bindings |-> [d \in source.defs |-> Append(PackageOf(m), d)] @@ imported,
      stars |-> FoldLeft(LAMBDA seen, imp : IF STAR \in imp.names
                                            THEN Append(seen, AbsoluteModule(m, imp)) ELSE seen,
                         <<>>, source.imports)]

-----------------------------------------------------------------------------
(* Resolution of names *)

Extends(name, m) == Len(name) >= Len(m) /\ SubSeq(name, 1, Len(m)) = m

\* A name rooted at an imported name; the names that imports bind have one
\* part here.
ResolveAlias(name, aliases) ==
  IF name = <<>> \/ Head(name) \notin DOMAIN aliases THEN name
  ELSE aliases[Head(name)] \o Tail(name)

\* A package's name stands for its own module, unless a module is named.
Initialized(name, ids, i) ==
  IF i = 0 \/ SubSeq(name, 1, i) \in ids THEN name
  ELSE Append(SubSeq(name, 1, i), INIT) \o SubSeq(name, i + 1, Len(name))

CanonicalName(name, ids) ==
  Initialized(name, ids,
    Largest({0} \cup {i \in 1..Len(name) : \/ SubSeq(name, 1, i) \in ids
                                          \/ Append(SubSeq(name, 1, i), INIT) \in ids}))

\* The modules that refer to m or to something of it, by any channel.
References(usage) ==
  {ResolveAlias(r, usage.aliases) : r \in usage.calls \cup usage.imports \cup Range(usage.aliases)}

DependentConsumers(m, usages) ==
  {c \in DOMAIN usages \ {m} :
     \E r \in References(usages[c]) : Extends(CanonicalName(r, DOMAIN usages \cup {m}), m)}

\* What every module exports and what each exported name stands for, from
\* the facts of all modules taken in `order`.  A star import adds what its
\* source exports by then, never over a name that is there; it is repeated
\* until nothing is added.
Exported(name, all) == all = NoAll \/ name \in all

Own(f) == [n \in {x \in DOMAIN f.bindings : Exported(x, f.all)} |-> f.bindings[n]]

OwnExports(facts) ==
  [surface |-> [e \in {facts[m].exporter : m \in DOMAIN facts} |->
                  Own(facts[CHOOSE m \in DOMAIN facts : facts[m].exporter = e])],
   raw |-> LET bindings == UNION {{<<facts[m].exporter, n, facts[m].bindings[n]>> :
                                     n \in DOMAIN Own(facts[m])} : m \in DOMAIN facts}
           IN [k \in {Append(b[1], b[2]) : b \in {c \in bindings : c[3] # Append(c[1], c[2])}} |->
                 (CHOOSE b \in bindings : Append(b[1], b[2]) = k)[3]]]

StarExports(facts, order) ==
  FoldLeft(LAMBDA seen, m : seen \o [i \in DOMAIN facts[m].stars |->
                                        <<facts[m].exporter, facts[m].stars[i], facts[m].all>>],
           <<>>, order)

AddNames(s, e, src, new) ==
  [surface |-> [s.surface EXCEPT ![e] = [n \in new |-> src[n]] @@ @],
   raw |-> [k \in {Append(e, n) : n \in new} |-> src[Last(k)]] @@ s.raw]

AddFrom(s, star, src) ==
  AddNames(s, star[1], src,
           {n \in DOMAIN src : Exported(n, star[3]) /\ Append(star[1], n) \notin DOMAIN s.raw})

AddStar(s, star) ==
  AddFrom(s, star, IF star[2] \in DOMAIN s.surface THEN s.surface[star[2]] ELSE <<>>)

AddStars(start, stars, passes) ==
  LET pass[n \in 0..passes] == IF n = 0 THEN start ELSE FoldLeft(AddStar, pass[n-1], stars)
  IN pass[passes]

ExportState(facts, order) ==
  AddStars(OwnExports(facts), StarExports(facts, order), Cardinality(DOMAIN facts))

\* Follows re-exports to their end; a circle of re-exports stands for nothing.
Ended(raw, end) == [k \in {x \in DOMAIN raw : end[x] \notin DOMAIN raw} |-> end[k]]

ReexportMap(raw) ==
  LET last[n \in 0..Cardinality(DOMAIN raw)] ==
        IF n = 0 THEN raw
        ELSE [k \in DOMAIN raw |-> IF last[n-1][k] \in DOMAIN raw THEN raw[last[n-1][k]]
                                   ELSE last[n-1][k]]
  IN Ended(raw, last[Cardinality(DOMAIN raw)])

Retargeted(name, map, i) ==
  IF i = 0 THEN name ELSE map[SubSeq(name, 1, i)] \o SubSeq(name, i + 1, Len(name))

ResolveReexport(name, map) ==
  Retargeted(name, map, Largest({0} \cup {i \in 1..Len(name) : SubSeq(name, 1, i) \in DOMAIN map}))

-----------------------------------------------------------------------------
(* The slice of one consumer: the symbols it uses, and by which channel *)

TargetsOf(defs) == {<<m, d>> : m \in DOMAIN defs, d \in UNION {defs[x] : x \in DOMAIN defs}}
                     \cap UNION {{m} \X defs[m] : m \in DOMAIN defs}

Matching(n, defs) ==
  IF Len(n) > 1 /\ Front(n) \in DOMAIN defs /\ Last(n) \in defs[Front(n)]
  THEN {<<Front(n), Last(n)>>} ELSE {}
Matches(names, defs) == UNION {Matching(CanonicalName(n, DOMAIN defs), defs) : n \in names}

Meant(names, usage, map) == {ResolveReexport(ResolveAlias(n, usage.aliases), map) : n \in names}

Starred(usage, surface, map) ==
  {ResolveReexport(n, map) :
     n \in UNION {Range(surface[s]) : s \in usage.stars \cap DOMAIN surface}}

SliceFrom(usage, defs, surface, map) ==
  (Matches(Meant(usage.calls, usage, map), defs) \X {"direct_calls"})
  \cup (Matches(Starred(usage, surface, map)
                \cup {n \in Meant(usage.imports, usage, map) : Last(n) # STAR /\ n \notin DOMAIN defs},
                defs) \X {"api_imports"})

ConsumerSlice(usage, defs, exports) ==
  SliceFrom(usage, defs, exports.surface, ReexportMap(exports.raw))

-----------------------------------------------------------------------------
(* What an update changes, and what it recomputes *)

NoDefs == [defs |-> {}, layout |-> 0]
Definitions(source) == [defs |-> source.defs, layout |-> source.layout]
ImportNames(imports) == {i.module : i \in Range(imports)} \ {<<>>}

\* The difference between two states of one module, each a record of its
\* imports, definitions, usage, re-export and collision facts.
Delta(m, old, new, isNew, isDeleted) ==
  [module |-> m, isNew |-> isNew, isDeleted |-> isDeleted,
   imports |-> \/ ImportNames(old.imports) # ImportNames(new.imports)
               \/ old.usage.imports # new.usage.imports,
   artifacts |-> old.artifacts.defs # new.artifacts.defs,
   payload |-> old.artifacts # new.artifacts,
   reexports |-> ~isNew /\ ~isDeleted /\ old.facts # new.facts,
   aliases |-> old.usage.aliases # new.usage.aliases,
   usage |-> old.usage # new.usage,
   collisions |-> old.artifacts # new.artifacts]

IsEmptyDelta(d) ==
  ~(d.isNew \/ d.isDeleted \/ d.imports \/ d.artifacts \/ d.payload
    \/ d.reexports \/ d.usage \/ d.collisions)

InitializerChanged(d) == IsInitializer(d.module) /\ d.reexports

NoPlan == [families |-> {}, graph |-> FALSE, recompute |-> {}]
If(condition, families) == IF condition THEN families ELSE {}
CollisionFamilies(d) == If(d.collisions, {"collision_facts", "collisions"})
IdentityFamily(d) == If(d.artifacts, {"identity_registry"})

\* Every family, when a module comes or goes.
StructurePlan(d, usages) ==
  [families |-> {"modules", "definitions", "identity_registry", "module_usages", "reexport_facts",
                 "dependency_graph", "artifact_consumption", "cached_analytics",
                 "collision_facts", "collisions"},
   graph |-> TRUE,
   recompute |-> DependentConsumers(d.module, usages)]

\* Another name, or a name for something else: whoever uses names may mean
\* another thing.
AliasPlan(d, usages) ==
  LET graph == d.imports \/ InitializerChanged(d)
  IN [families |-> {"definitions", "module_usages", "artifact_consumption", "cached_analytics"}
                   \cup If(d.reexports, {"reexport_facts"})
                   \cup If(d.imports, {"modules"}) \cup If(graph, {"dependency_graph"})
                   \cup CollisionFamilies(d) \cup IdentityFamily(d),
      graph |-> graph,
      recompute |-> {c \in DOMAIN usages \ {d.module} :
                       usages[c].aliases # <<>> \/ usages[c].calls # {}}]

\* Other imports but the same names: nobody else is recomputed.
ImportPlan(d) ==
  [families |-> {"modules", "definitions", "module_usages", "dependency_graph",
                 "artifact_consumption", "cached_analytics"}
                \cup If(d.reexports, {"reexport_facts"})
                \cup CollisionFamilies(d) \cup IdentityFamily(d),
   graph |-> TRUE,
   recompute |-> {}]

DefinitionPlan(d, usages) ==
  [families |-> {"definitions", "identity_registry", "module_usages", "artifact_consumption",
                 "cached_analytics"}
                \cup If(d.reexports, {"reexport_facts"})
                \cup If(InitializerChanged(d), {"dependency_graph"}) \cup CollisionFamilies(d),
   graph |-> InitializerChanged(d),
   recompute |-> DependentConsumers(d.module, usages)]

BodyPlan(d, usages) ==
  [families |-> If(d.payload, {"definitions"})
                \cup If(d.usage, {"module_usages"})
                \cup If(d.usage \/ d.reexports, {"artifact_consumption", "cached_analytics"})
                \cup If(d.reexports, {"reexport_facts"})
                \cup If(InitializerChanged(d), {"dependency_graph"}) \cup CollisionFamilies(d),
   graph |-> InitializerChanged(d),
   recompute |-> IF d.reexports THEN DependentConsumers(d.module, usages) ELSE {}]

Plan(d, usages) ==
  IF IsEmptyDelta(d) THEN NoPlan
  ELSE IF d.isDeleted \/ d.isNew THEN StructurePlan(d, usages)
  ELSE IF d.aliases THEN AliasPlan(d, usages)
  ELSE IF d.imports THEN ImportPlan(d)
  ELSE IF d.artifacts THEN DefinitionPlan(d, usages)
  ELSE BodyPlan(d, usages)

=============================================================================
