------------------------------ MODULE ImportGraph ------------------------------
(***************************************************************************)
(* The import graph: which module an import statement reaches, the hard    *)
(* and soft edges a module's imports give, the graph of a whole            *)
(* repository, and what a change of the graph reaches.                     *)
(*                                                                         *)
(* A dotted name is the sequence of its parts, a package's own module ends *)
(* in "__init__".  An import statement is a record                         *)
(*   [module, level, names, isFrom, typeOnly]                              *)
(* with <<>> for a missing module and an empty set of names for a plain    *)
(* "import x".  A repository maps each module to the sequence of its       *)
(* imports; `bound` maps a package's own module to the names it binds.     *)
(***************************************************************************)
EXTENDS Naturals, Sequences, FiniteSets, SequencesExt, TLC

INIT == "__init__"
IsInitializer(m) == Len(m) > 1 /\ Last(m) = INIT
PackageOf(m) == IF IsInitializer(m) THEN Front(m) ELSE m

Largest(S) == CHOOSE i \in S : \A j \in S : j <= i

\* The longest prefix of a name that is a module, <<>> when none is.
LongestModulePrefix(name, ids) ==
  SubSeq(name, 1, Largest({0} \cup {i \in 1..Len(name) : SubSeq(name, 1, i) \in ids}))

\* The prefix a repository's imports put before its own modules: the first
\* part that most of the names share which resolve only without it.
RootedHere(name, ids) ==
  /\ Len(name) > 1
  /\ LongestModulePrefix(name, ids) = <<>>
  /\ LongestModulePrefix(Tail(name), ids) # <<>>

MostFrequentHead(names, at) ==
  LET hits(n) == Cardinality({w \in at : names[w[1]][w[2]].module[1] = n})
  IN IF at = {} THEN <<>>
     ELSE <<CHOOSE h \in {names[w[1]][w[2]].module[1] : w \in at} :
              \A w \in at : hits(names[w[1]][w[2]].module[1]) <= hits(h)>>

DetectPackageRoot(mods) ==
  MostFrequentHead(mods,
    {w \in UNION {{m} \X DOMAIN mods[m] : m \in DOMAIN mods} :
       RootedHere(mods[w[1]][w[2]].module, DOMAIN mods)})

\* A relative import names its module from the importing one: each level
\* drops a part, and too many levels leave nothing.
Normalized(current, module, level) ==
  IF level = 0 THEN module
  ELSE (IF level >= Len(current) THEN <<>>
        ELSE SubSeq(current, 1, Len(current) - level)) \o module

WithoutRoot(name, root) ==
  IF root # <<>> /\ Len(name) > 1 /\ Head(name) = root[1] THEN Tail(name) ELSE name

Found(kind, target) == [kind |-> kind, target |-> target]

\* An exact module, a package's initializer, the longest module prefix, a
\* module named by an imported symbol, or nothing, in this order.
ResolveSymbol(name, symbols) ==
  IF symbols = {} THEN Found("UNKNOWN", <<>>)
  ELSE Found("FALLBACK", Append(name, CHOOSE n \in symbols : TRUE))

ResolveName(name, prefix, names, ids) ==
  IF name \in ids THEN Found("MODULE", name)
  ELSE IF name # <<>> /\ Append(name, INIT) \in ids THEN Found("MODULE", Append(name, INIT))
  ELSE IF prefix # <<>> THEN Found("FALLBACK", prefix)
  ELSE ResolveSymbol(name, {n \in names : Append(name, n) \in ids})

ResolveAbsolute(name, names, ids) ==
  ResolveName(name, LongestModulePrefix(name, ids), names, ids)

ResolveInternal(imp, ids, current, root) ==
  ResolveAbsolute(WithoutRoot(Normalized(current, imp.module, imp.level), root), imp.names, ids)

Named(module) == [module |-> module, level |-> 0, names |-> {},
                  isFrom |-> FALSE, typeOnly |-> FALSE]

\* The submodules a "from package import name" may mean.  A name the
\* initializer binds hides the submodule, except from the initializer itself.
Hidden(m, package, bound) ==
  IF package = m \/ package \notin DOMAIN bound THEN {} ELSE bound[package]

ChildTargets(m, names, package, ids, bound) ==
  {f.target : f \in {g \in {ResolveInternal(Named(Append(PackageOf(package), n)), ids, m, <<>>) :
                               n \in names \ (Hidden(m, package, bound) \cup {"*"})} :
                        g.kind = "MODULE"}} \ {m, package}

\* `own` is the module found and `children` the submodules it may mean.
EdgesFor(imp, kind, own, children) ==
  LET sibling == imp.module = <<>> /\ imp.level > 0
  IN [hard |-> IF imp.typeOnly THEN {}
               ELSE (IF kind = "MODULE" THEN own ELSE {}) \cup (IF sibling THEN children ELSE {}),
      soft |-> IF imp.typeOnly THEN own \cup children
               ELSE (IF kind = "FALLBACK" THEN own ELSE {}) \cup (IF sibling THEN {} ELSE children)]

EdgesOfFound(m, imp, r, ids, bound) ==
  EdgesFor(imp, r.kind, IF r.kind = "UNKNOWN" THEN {} ELSE {r.target} \ {m},
           IF imp.isFrom /\ r.kind = "MODULE" /\ IsInitializer(r.target)
           THEN ChildTargets(m, imp.names, r.target, ids, bound) ELSE {})

EdgesOfImport(m, imp, ids, root, bound) ==
  EdgesOfFound(m, imp, ResolveInternal(imp, ids, m, root), ids, bound)

UnionOfEdges(edges) == [hard |-> UNION {e.hard : e \in edges}, soft |-> UNION {e.soft : e \in edges}]

ResolveModuleEdges(m, imports, ids, root, bound) ==
  UnionOfEdges({EdgesOfImport(m, imp, ids, root, bound) : imp \in Range(imports)})

GraphOf(edges) ==
  [hard |-> [m \in DOMAIN edges |-> edges[m].hard], soft |-> [m \in DOMAIN edges |-> edges[m].soft]]

BuildGraph(mods, root, bound) ==
  GraphOf([m \in DOMAIN mods |-> ResolveModuleEdges(m, mods[m], DOMAIN mods, root, bound)])

WithModuleEdges(graph, m, edges) ==
  [hard |-> (m :> edges.hard) @@ graph.hard, soft |-> (m :> edges.soft) @@ graph.soft]

-----------------------------------------------------------------------------
(* What a change reaches *)

ImportersIn(graphs, targets) ==
  UNION {UNION {{m \in DOMAIN e : e[m] \cap targets # {}} : e \in {g.hard, g.soft}}
         : g \in graphs}

\* The reverse closure over the hard and soft edges of the old and the new
\* graph, found breadth first.
AffectedSet(changed, graphs) ==
  LET nodes == UNION {DOMAIN g.hard : g \in graphs} \cup {changed}
      wave[n \in 0..Cardinality(nodes)] ==
        IF n = 0 THEN {changed} ELSE wave[n-1] \cup ImportersIn(graphs, wave[n-1])
  IN wave[Cardinality(nodes)]

HardEdges(graph) == UNION {{m} \X graph.hard[m] : m \in DOMAIN graph.hard}

FanOut(graph, m) == IF m \in DOMAIN graph.hard THEN Cardinality(graph.hard[m]) ELSE 0
FanIn(graph, m) == Cardinality({s \in DOMAIN graph.hard : m \in graph.hard[s]})

\* The degrees a change of the graph has moved, and only those.
DegreeDeltas(old, new) ==
  LET changed == (HardEdges(old) \ HardEdges(new)) \cup (HardEdges(new) \ HardEdges(old))
      added == DOMAIN new.hard \ DOMAIN old.hard
      removed == DOMAIN old.hard \ DOMAIN new.hard
      outs == ({e[1] : e \in changed} \cup added) \ removed
      ins == ({e[2] : e \in changed} \cup added) \ removed
  IN [fanOut |-> [m \in outs |-> FanOut(new, m)],
      fanIn |-> [m \in ins |-> FanIn(new, m)],
      added |-> added, removed |-> removed]
=============================================================================
