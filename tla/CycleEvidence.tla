--------------------------- MODULE CycleEvidence ---------------------------
(* What a full analysis may say about import cycles, and what it may       *)
(* publish of it (cycle_semantics): pure rules over the texts an index     *)
(* read. A text of a file is a number, a later text a larger one; facts of *)
(* a repository are the text each indexed module was read as, 0 for a      *)
(* module that is not indexed.                                             *)
EXTENDS Naturals, FiniteSets

CONSTANTS
    Module,             \* module identities, numbers in the order they are sorted
    ImportsOf(_, _),    \* the hard imports of a module's text
    Initializers(_),    \* the package initializers above a module
    ChildrenOf(_, _),   \* submodules a text names in a from-import of their package
    Evaluated(_, _),    \* the text compiles and is within the source limits
    Decided(_, _)       \* the restricted import model decides the text

ASSUME ModuleAssumption == Module \subseteq Nat /\ IsFiniteSet(Module)

Selection == {"HARD_ONLY", "OPTIONAL_NAMED_CHILDREN"}

Indexed(facts) == {m \in Module : facts[m] # 0}

HardEdges(facts) ==
    [m \in Indexed(facts) |-> ImportsOf(m, facts[m]) \cap Indexed(facts)]

(* What a walk along the edges of graph reaches from the modules of start. *)
Reached(graph, start) ==
    LET walked[n \in 0 .. Cardinality(Module)] ==
            IF n = 0 THEN start
            ELSE walked[n - 1] \cup UNION {graph[m] : m \in walked[n - 1]}
    IN  walked[Cardinality(Module)]

(* The cyclic components: two modules that reach each other, or a module   *)
(* that imports itself.                                                    *)
CyclicComponents(graph) ==
    LET after == [m \in DOMAIN graph |-> Reached(graph, graph[m])]
    IN  {{n \in after[m] : m \in after[n]} : m \in {k \in DOMAIN graph : k \in after[k]}}

CyclicModules(graph) == UNION CyclicComponents(graph)

(* The modules whose sources decide how the imports of component run.      *)
SourceClosure(facts, component, selection) ==
    LET hard == HardEdges(facts)
        follows == [m \in Indexed(facts) |->
                       hard[m] \cup (Initializers(m) \cap Indexed(facts))
                       \cup IF selection = "HARD_ONLY" THEN {}
                            ELSE ChildrenOf(m, facts[m]) \cap Indexed(facts)]
    IN  Reached(follows, component)

SelectedSources(facts, selection) ==
    UNION {SourceClosure(facts, c, selection) : c \in CyclicComponents(HardEdges(facts))}

DriftIssues == {"CANONICAL_FINGERPRINT_MISMATCH", "SOURCE_CHANGED_DURING_READ"}
AuthorityIssues == {"SOURCE_UNREADABLE"}
BoundedIssues == {"SOURCE_NOT_EVALUATED"}
Issue == DriftIssues \cup AuthorityIssues \cup BoundedIssues

(* Evidence is the graph it is about, the text seen of every cyclic module *)
(* that was accepted and the issues of the others.                         *)
Evidence(graph, seen, issues) ==
    [known |-> TRUE, graph |-> graph, seen |-> seen, issues |-> issues]

NoEvidence == [known |-> FALSE, graph |-> <<>>, seen |-> <<>>, issues |-> {}]

Stable(evidence) == evidence.known /\ evidence.issues = {}

Freshness(evidence) ==
    IF ~evidence.known THEN "deferred"
    ELSE IF evidence.issues \cap DriftIssues # {} THEN "stale"
    ELSE IF evidence.issues \cap AuthorityIssues # {} THEN "deferred"
    ELSE "fresh"

(* A second index pass agrees with the first one: every module of it, its  *)
(* text and the graph, and every selected source was captured.             *)
Agrees(facts, captured, sources) ==
    /\ Indexed(captured) = Indexed(facts)
    /\ HardEdges(captured) = HardEdges(facts)
    /\ captured = facts
    /\ sources \subseteq Indexed(captured)

(* The claim about one component: the text of each source of its closure,  *)
(* or no text at all when the model does not decide one of them.           *)
Claim(facts, component, selection) ==
    LET closure == SourceClosure(facts, component, selection)
    IN  IF \A m \in closure : Decided(m, facts[m]) THEN [m \in closure |-> facts[m]] ELSE <<>>

(* What is prepared of a captured pass: the claim about every component;   *)
(* the manifest has a digest only when no claim is missing.                *)
Preparation(captured, selection) ==
    LET graph == HardEdges(captured)
    IN  [selection |-> selection, graph |-> graph,
         claims |-> [c \in CyclicComponents(graph) |-> Claim(captured, c, selection)]]

NoPreparation == [selection |-> "HARD_ONLY", graph |-> <<>>, claims |-> <<>>]

Complete(preparation) == \A c \in DOMAIN preparation.claims : preparation.claims[c] # <<>>

(* Declared claims are consistent with the graph and the evidence of a     *)
(* state: they cover its components, a claim names exactly the closure, a  *)
(* source has one text, and a cyclic module the text the evidence saw.     *)
ClaimsConsistent(facts, evidence, preparation) ==
    /\ Stable(evidence) /\ evidence.graph = HardEdges(facts)
    /\ preparation.graph = evidence.graph
    /\ DOMAIN preparation.claims = CyclicComponents(evidence.graph)
    /\ DOMAIN preparation.claims # {}
    /\ DOMAIN evidence.seen = CyclicModules(evidence.graph)
    /\ \A c \in DOMAIN preparation.claims :
          preparation.claims[c] # <<>> =>
             /\ DOMAIN preparation.claims[c] = SourceClosure(facts, c, preparation.selection)
             /\ \A m \in DOMAIN preparation.claims[c] \cap DOMAIN evidence.seen :
                   preparation.claims[c][m] = evidence.seen[m]
             /\ \A d \in DOMAIN preparation.claims :
                   preparation.claims[d] # <<>> =>
                      \A m \in DOMAIN preparation.claims[c] \cap DOMAIN preparation.claims[d] :
                         preparation.claims[c][m] = preparation.claims[d][m]
=============================================================================
