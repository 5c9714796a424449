------------------------- MODULE FullAnalysisProofs -------------------------
(***************************************************************************)
(* What is proved of the generations an analysis or an update makes.       *)
(*                                                                         *)
(* FullAnalysis: every generation that is saved tells the truth about the  *)
(* files. FullInv says what a job knows at each of its steps: texts only   *)
(* grow, so what an index and a later look both saw was there in between.  *)
(*                                                                         *)
(* LiveDiagnostics: what LIVE says of a generation it serves. DiagInv says *)
(* that a receipt is sealed for its own generation and that the checkpoint *)
(* is the difference of two generations that were installed.               *)
(***************************************************************************)
EXTENDS FullAnalysis, LiveDiagnostics, FiniteSetTheorems, SequenceTheorems, WellFoundedInduction,
        TLAPS

(* A non-empty set of numbers has a least element.                         *)
LEMMA LeastNumber ==
    ASSUME NEW S, S \subseteq Nat, S # {}
    PROVE  \E x \in S : \A y \in S : x <= y
<1>1. PICK x \in S : \A y \in S : ~(<<y, x>> \in OpToRel(<, Nat))
  BY NatLessThanWellFounded, WFMin
<1>2. \A y \in S : ~(y < x)
  BY <1>1 DEF OpToRel
<1>3. \A y \in S : x <= y
  BY <1>2, SMT
<1>4. QED
  BY <1>3

LEMMA MinIsElement ==
    ASSUME NEW S, S \subseteq Nat, S # {}
    PROVE  Min(S) \in S
BY LeastNumber DEF Min

Walks(graph, start, n, w) ==
    w = [k \in 0 .. n |-> IF k = 0 THEN start
                          ELSE w[k - 1] \cup UNION {graph[m] : m \in w[k - 1]}]

LEMMA WalksExist ==
    ASSUME NEW graph, NEW start, NEW n \in Nat
    PROVE  \E w : Walks(graph, start, n, w)
<1> DEFINE Lost == {k \in Nat : ~\E w : Walks(graph, start, k, w)}
<1>1. SUFFICES ASSUME Lost # {} PROVE FALSE
  OBVIOUS
<1>2. PICK k \in Lost : \A j \in Lost : k <= j
  BY <1>1, LeastNumber
<1>3. k # 0
  <2>1. Walks(graph, start, 0, [j \in 0 .. 0 |-> start])
    BY DEF Walks
  <2>2. QED
    BY <1>2, <2>1
<1>4. k - 1 \in Nat /\ k - 1 \notin Lost
  BY <1>2, <1>3
<1>5. PICK w : Walks(graph, start, k - 1, w)
  BY <1>4
<1> DEFINE v == [j \in 0 .. k |-> IF j = k THEN w[k - 1] \cup UNION {graph[m] : m \in w[k - 1]}
                                  ELSE w[j]]
<1>6. ASSUME NEW j \in 0 .. k
      PROVE  v[j] = IF j = 0 THEN start ELSE v[j - 1] \cup UNION {graph[m] : m \in v[j - 1]}
  <2>1. CASE j = k
    <3>1. v[j - 1] = w[k - 1]
      BY <2>1, <1>4, <1>3
    <3>2. QED
      BY <2>1, <3>1, <1>3
  <2>2. CASE j # k
    <3>1. j \in 0 .. (k - 1)
      BY <2>2
    <3>2. w[j] = IF j = 0 THEN start ELSE w[j - 1] \cup UNION {graph[m] : m \in w[j - 1]}
      BY <1>5, <3>1 DEF Walks
    <3>3. v[j] = w[j] /\ (j # 0 => v[j - 1] = w[j - 1])
      BY <2>2
    <3>4. QED
      BY <3>2, <3>3
  <2>3. QED
    BY <2>1, <2>2
<1>7. Walks(graph, start, k, v)
  <2> HIDE DEF v
  <2>1. v = [j \in 0 .. k |-> v[j]]
    BY DEF v
  <2>2. QED
    BY <2>1, <1>6 DEF Walks
<1>8. QED
  BY <1>2, <1>7

(* What a walk reaches stays in a set of modules that imports nothing else *)
LEMMA ReachedWithin ==
    ASSUME NEW graph, NEW start, NEW X, start \subseteq X, \A m \in X : graph[m] \subseteq X
    PROVE  Reached(graph, start) \subseteq X
<1> DEFINE N == Cardinality(Module)
<1> DEFINE walked == CHOOSE w : Walks(graph, start, N, w)
<1>1. N \in Nat
  BY ModuleAssumption, FS_CardinalityType
<1>2. Walks(graph, start, N, walked)
  BY <1>1, WalksExist
<1>3. Reached(graph, start) = walked[N]
  BY DEF Reached, Walks
<1> HIDE DEF walked, N
<1> DEFINE Out == {k \in 0 .. N : ~(walked[k] \subseteq X)}
<1>4. SUFFICES ASSUME Out # {} PROVE FALSE
  BY <1>1, <1>3
<1>5. PICK k \in Out : \A j \in Out : k <= j
  <2>1. Out \subseteq Nat
    BY <1>1
  <2> HIDE DEF Out
  <2>2. QED
    BY <1>4, <2>1, LeastNumber
<1>6. k # 0
  BY <1>2, <1>5, <1>1 DEF Walks
<1>7. k - 1 \in 0 .. N /\ k - 1 \notin Out
  BY <1>5, <1>6, <1>1
<1>8. walked[k] = walked[k - 1] \cup UNION {graph[m] : m \in walked[k - 1]}
  BY <1>2, <1>5, <1>6, <1>1 DEF Walks
<1>9. QED
  BY <1>5, <1>7, <1>8

(* A cyclic module is one of the index.                                    *)
LEMMA CyclicIsIndexed ==
    ASSUME NEW facts
    PROVE  CyclicModules(HardEdges(facts)) \subseteq Indexed(facts)
<1> DEFINE graph == HardEdges(facts)
<1>1. DOMAIN graph = Indexed(facts) /\ \A m \in Indexed(facts) : graph[m] \subseteq Indexed(facts)
  BY DEF HardEdges
<1>2. \A m \in Indexed(facts) : Reached(graph, graph[m]) \subseteq Indexed(facts)
  BY <1>1, ReachedWithin
<1>3. QED
  BY <1>1, <1>2 DEF CyclicModules, CyclicComponents

-----------------------------------------------------------------------------
Texts == [Module -> Nat]
Steps == {"idle", "index", "cohort", "recheck", "capture", "track", "usage", "update"}
Partial == UNION {[S -> Nat] : S \in SUBSET Module}
EvidencePool == [preview : BOOLEAN, selection : Selection, publish : SUBSET Receipt]
Evidences ==
    {NoEvidence}
    \cup {Evidence(HardEdges(f), s, i) : f \in Texts, s \in Partial, i \in SUBSET Issue}
Preparations ==
    {NoPreparation} \cup {Preparation(f, s) : f \in Texts, s \in Selection}

JobOf ==
    [stage : Steps, todo : SUBSET Module, options : EvidencePool, facts : Texts, seen : Partial,
     issues : SUBSET Issue, evidence : Evidences, captured : Texts, prepared : Preparations,
     tracked : Texts, used : Texts, slip : SUBSET Module]

GenOf ==
    [rev : Nat, facts : Texts, tracked : Texts, used : Texts, proof : Texts,
     stale : SUBSET Module, evidence : Evidences, freshness : {"fresh", "stale", "deferred"},
     receipts : [Receipt -> [rev : Nat, claims : Preparations]], resync : BOOLEAN,
     late : SUBSET Module]

FullTypeOK ==
    /\ tree \in Texts /\ past \subseteq Texts /\ tree \in past
    /\ gen \in GenOf /\ job \in JobOf

FactsInv ==
    \A m \in Indexed(job.facts) :
       Present(m, job.facts[m]) /\ job.facts[m] <= tree[m]

SlipInv ==
    /\ job.stage = "index" =>
          \A m \in Module :
             IF m \in job.todo THEN job.facts[m] = 0
             ELSE job.facts[m] \in {0, tree[m]} \/ m \in job.slip
    /\ job.stage \in {"cohort", "recheck", "capture", "track"} =>
          \A m \in Indexed(job.facts) : job.facts[m] = tree[m] \/ m \in job.slip
    /\ job.stage \in {"track", "usage"} =>
          \A m \in Indexed(job.facts) :
             (job.stage = "track" => m \notin job.todo)
                => job.tracked[m] = job.facts[m] \/ m \in job.slip
    /\ job.stage = "usage" =>
          \A m \in Indexed(job.facts) :
             IF m \in job.todo THEN job.facts[m] = tree[m] \/ m \in job.slip
             ELSE job.used[m] = job.facts[m] \/ m \in job.slip
    /\ job.stage = "update" =>
          \A m \in job.todo : job.captured[m] = tree[m] \/ m \in job.slip

GenSeen ==
    \A m \in Indexed(gen.facts) :
       /\ gen.proof[m] = gen.tracked[m]
       /\ m \notin gen.late => gen.tracked[m] = gen.facts[m] /\ gen.used[m] = gen.facts[m]

SeenInv ==
    /\ job.stage = "index" => job.seen = <<>> /\ job.issues = {}
    /\ job.stage \in {"cohort", "recheck"} =>
          /\ job.todo \subseteq CyclicModules(HardEdges(job.facts))
          /\ DOMAIN job.seen \subseteq CyclicModules(HardEdges(job.facts))
          /\ \A m \in DOMAIN job.seen : job.seen[m] = job.facts[m]
          /\ job.issues = {} =>
                CyclicModules(HardEdges(job.facts))
                   \subseteq DOMAIN job.seen
                             \cup (IF job.stage = "cohort" THEN job.todo ELSE {})

MomentInv ==
    job.stage = "recheck" =>
       \E p \in past : \A m \in Module :
          /\ p[m] <= tree[m]
          /\ m \in DOMAIN job.seen => job.facts[m] <= p[m] /\ (m \notin job.todo => p[m] = job.facts[m])

EvidenceTrue(evidence, facts) ==
    /\ evidence.graph = HardEdges(facts)
    /\ \A m \in DOMAIN evidence.seen : evidence.seen[m] = facts[m]
    /\ Stable(evidence) =>
          \E p \in past : \A m \in CyclicModules(evidence.graph) : p[m] = facts[m]

EvidenceInv ==
    job.evidence # NoEvidence =>
       job.stage \in {"capture", "track", "usage"} /\ EvidenceTrue(job.evidence, job.facts)

CaptureInv ==
    /\ job.stage \in {"index", "cohort", "recheck"} => job.captured = NoFacts
    /\ job.stage \in {"cohort", "recheck", "capture"} =>
          \E p \in past : \A m \in Module :
             /\ p[m] <= tree[m]
             /\ job.facts[m] # 0 => job.facts[m] <= p[m]
             /\ job.captured[m] # 0 => p[m] <= job.captured[m]

PreparedInv ==
    job.prepared # NoPreparation =>
       /\ job.stage \in {"track", "usage"}
       /\ \E s \in Selection : job.prepared = Preparation(job.facts, s)
       /\ \E p \in past : \A m \in Indexed(job.facts) : p[m] = job.facts[m]

GenEvidence ==
    /\ gen.freshness = "fresh" => EvidenceTrue(gen.evidence, gen.facts)
    /\ \A k \in Receipt : gen.receipts[k] # NoReceipt =>
          /\ Answered(k)
          /\ \A c \in DOMAIN gen.receipts[k].claims.claims :
                gen.receipts[k].claims.claims[c] # <<>> =>
                   \A m \in DOMAIN gen.receipts[k].claims.claims[c] :
                      gen.receipts[k].claims.claims[c][m] = gen.facts[m]
          /\ \E p \in past : \A m \in Indexed(gen.facts) : p[m] = gen.facts[m]

JobInv ==
    /\ FactsInv /\ SlipInv /\ SeenInv /\ MomentInv
    /\ EvidenceInv /\ CaptureInv /\ PreparedInv
GenInv == GenSeen /\ GenEvidence
FullInv == FullTypeOK /\ JobInv /\ GenInv

-----------------------------------------------------------------------------
(* What each step does to the job, field by field.                         *)
FilesAndGen == tree' = tree /\ past' = past /\ gen' = gen
KeepsRead == job'.facts = job.facts /\ job'.slip = job.slip
KeepsCohort == job'.seen = job.seen /\ job'.issues = job.issues
KeepsResult == job'.evidence = job.evidence /\ job'.prepared = job.prepared
KeepsUse == job'.tracked = job.tracked /\ job'.used = job.used
Took(m) == m \in job.todo /\ job'.todo = job.todo \ {m} /\ job'.stage = job.stage

LEMMA TextsOfNobody ==
    /\ NoFacts \in Texts /\ Indexed(NoFacts) = {}
    /\ \A m \in Module : NoFacts[m] = 0
BY DEF NoFacts, Texts, Indexed

LEMMA NoJobType == NoJob \in JobOf
<1>1. <<>> \in Partial
  <2>1. <<>> \in [{} -> Nat]
    OBVIOUS
  <2>2. QED
    BY <2>1 DEF Partial
<1>2. NoOptions \in EvidencePool
  BY DEF NoOptions, EvidencePool, Selection
<1>3. NoEvidence \in Evidences /\ NoPreparation \in Preparations
  BY DEF Evidences, Preparations
<1>4. QED
  BY <1>1, <1>2, <1>3, TextsOfNobody DEF NoJob, JobOf, Steps

LEMMA MinOfTodo ==
    ASSUME FullTypeOK, job.todo # {}
    PROVE  Min(job.todo) \in job.todo /\ Min(job.todo) \in Module
BY MinIsElement, ModuleAssumption DEF FullTypeOK, JobOf

LEMMA DoesStart ==
    ASSUME FullTypeOK, StartAnalysis
    PROVE  /\ job' \in JobOf /\ FilesAndGen
           /\ job'.stage = "index" /\ job'.todo = Module /\ job'.facts = NoFacts
           /\ job'.seen = <<>> /\ job'.issues = {}
           /\ job'.evidence = NoEvidence /\ job'.prepared = NoPreparation
           /\ job'.captured = NoFacts
<1>1. PICK o \in LegalOptions :
          job' = [NoJob EXCEPT !.stage = "index", !.todo = Module, !.options = o]
  BY DEF StartAnalysis
<1>2. o \in EvidencePool
  BY DEF LegalOptions, EvidencePool
<1>3. QED
  BY <1>1, <1>2, NoJobType DEF JobOf, Steps, NoJob, StartAnalysis, OnlyJob, FilesAndGen

LEMMA TextIsNumber ==
    ASSUME FullTypeOK, NEW m \in Module
    PROVE  /\ tree[m] \in Nat /\ IndexedText(m, tree[m]) \in {0, tree[m]}
           /\ Fingerprint(m) \in {0, tree[m]}
           /\ (IndexedText(m, tree[m]) # 0 => Present(m, tree[m]))
           /\ (Present(m, tree[m]) => Fingerprint(m) = tree[m])
BY DEF FullTypeOK, Texts, IndexedText, Fingerprint

LEMMA DoesIndex ==
    ASSUME FullTypeOK, NEW m \in Module, IndexModule(m)
    PROVE  /\ job' \in JobOf /\ FilesAndGen /\ AtStage("index") /\ Took(m)
           /\ job'.facts = [job.facts EXCEPT ![m] = IndexedText(m, tree[m])]
           /\ job'.slip = job.slip /\ KeepsCohort /\ KeepsResult
           /\ job'.captured = job.captured
<1>1. IndexedText(m, tree[m]) \in Nat
  BY TextIsNumber
<1>2. PICK v \in Nat : v = IndexedText(m, tree[m])
  BY <1>1
<1>3. job' = [[job EXCEPT !.todo = @ \ {m}] EXCEPT !.facts[m] = v]
  BY <1>2 DEF IndexModule, Take
<1>4. job \in JobOf
  BY DEF FullTypeOK
<1>5. job' \in JobOf
  BY <1>3, <1>4 DEF JobOf, Texts
<1>6. job'.facts = [job.facts EXCEPT ![m] = v] /\ job'.todo = job.todo \ {m}
  BY <1>3, <1>4 DEF JobOf, Texts
<1>7. /\ job'.stage = job.stage /\ job'.slip = job.slip /\ KeepsCohort /\ KeepsResult
      /\ job'.captured = job.captured
  BY <1>3, <1>4 DEF JobOf, Texts, KeepsResult, KeepsCohort
<1>8. QED
  BY <1>2, <1>5, <1>6, <1>7 DEF IndexModule, OnlyJob, FilesAndGen, AtStage, Took

LEMMA DoesBuild ==
    ASSUME FullTypeOK, BuildGraph
    PROVE  /\ job' \in JobOf /\ FilesAndGen /\ AtStage("index") /\ job.todo = {}
           /\ job'.stage = "cohort" /\ job'.todo = CyclicModules(HardEdges(job.facts))
           /\ KeepsRead /\ KeepsCohort /\ KeepsResult /\ job'.captured = job.captured
<1>1. CyclicModules(HardEdges(job.facts)) \subseteq Module
  BY CyclicIsIndexed DEF Indexed
<1>2. QED
  BY <1>1 DEF FullTypeOK, JobOf, Steps, BuildGraph, Done, AtStage, OnlyJob, FilesAndGen,
              KeepsRead, KeepsCohort, KeepsResult

(* The text a cohort accepts of a module is the one its facts are of.      *)
LEMMA DoesReadSource ==
    ASSUME FullTypeOK, ReadCyclicSource
    PROVE  /\ job' \in JobOf /\ FilesAndGen /\ AtStage("cohort")
           /\ KeepsRead /\ KeepsResult /\ job'.captured = job.captured
           /\ \E m \in Module :
                 /\ Took(m)
                 /\ \/ /\ tree[m] = job.facts[m] /\ job'.issues = job.issues
                       /\ DOMAIN job'.seen = DOMAIN job.seen \cup {m}
                       /\ job'.seen[m] = tree[m]
                       /\ \A n \in DOMAIN job.seen \ {m} : job'.seen[n] = job.seen[n]
                    \/ job'.seen = job.seen /\ job'.issues # {}
<1> DEFINE m == Min(job.todo)
<1>1. m \in job.todo /\ m \in Module
  BY MinOfTodo DEF ReadCyclicSource
<1>2. job \in JobOf /\ tree[m] \in Nat
  BY <1>1, TextIsNumber DEF FullTypeOK
<1>3. FilesAndGen /\ AtStage("cohort")
  BY DEF ReadCyclicSource, OnlyJob, FilesAndGen
<1>4. CASE SourceIssue(m) = "none"
  <2>1. tree[m] = job.facts[m]
    BY <1>4 DEF SourceIssue
  <2>2. PICK s : s = Seen(m)
    OBVIOUS
  <2>3. job' = [[job EXCEPT !.todo = @ \ {m}] EXCEPT !.seen = s]
    BY <1>4, <2>2 DEF ReadCyclicSource, Take
  <2>4. /\ DOMAIN s = DOMAIN job.seen \cup {m} /\ s[m] = tree[m]
        /\ \A n \in DOMAIN job.seen \ {m} : s[n] = job.seen[n]
    BY <2>2 DEF Seen
  <2>5. s \in Partial
    <3>1. PICK S \in SUBSET Module : job.seen \in [S -> Nat]
      BY <1>2 DEF JobOf, Partial
    <3>2. Seen(m) \in [S \cup {m} -> Nat]
      BY <3>1, <1>1, <1>2 DEF Seen
    <3>3. QED
      BY <2>2, <3>1, <3>2, <1>1 DEF Partial
  <2>6. job' \in JobOf
    BY <1>2, <2>3, <2>5 DEF JobOf
  <2>7. Took(m) /\ KeepsRead /\ KeepsResult /\ job'.captured = job.captured
    BY <1>1, <1>2, <2>3 DEF JobOf, Took, KeepsRead, KeepsResult
  <2>8. job'.seen = s /\ job'.issues = job.issues
    BY <1>2, <2>3 DEF JobOf
  <2> HIDE DEF m
  <2>9. QED
    BY <1>1, <1>3, <2>1, <2>4, <2>6, <2>7, <2>8
<1>5. CASE SourceIssue(m) # "none"
  <2>1. PICK i \in Issue : i = SourceIssue(m)
    BY <1>5 DEF SourceIssue, Issue, DriftIssues, AuthorityIssues, BoundedIssues
  <2>2. job' = [[job EXCEPT !.todo = @ \ {m}] EXCEPT !.issues = @ \cup {i}]
    BY <1>5, <2>1 DEF ReadCyclicSource, Take
  <2>3. job' \in JobOf
    BY <1>2, <2>1, <2>2 DEF JobOf
  <2>4. Took(m) /\ KeepsRead /\ KeepsResult /\ job'.captured = job.captured
    BY <1>1, <1>2, <2>2 DEF JobOf, Took, KeepsRead, KeepsResult
  <2>5. job'.seen = job.seen /\ job'.issues = job.issues \cup {i}
    BY <1>2, <2>2 DEF JobOf
  <2> HIDE DEF m
  <2>6. QED
    BY <1>1, <1>3, <2>3, <2>4, <2>5
<1>6. QED
  BY <1>4, <1>5

LEMMA DoesRecheck ==
    ASSUME FullTypeOK, Recheck
    PROVE  /\ job' \in JobOf /\ FilesAndGen /\ AtStage("cohort") /\ job.todo = {}
           /\ job'.stage = "recheck" /\ job'.todo = DOMAIN job.seen
           /\ KeepsRead /\ KeepsCohort /\ KeepsResult /\ job'.captured = job.captured
<1>1. DOMAIN job.seen \subseteq Module
  BY DEF FullTypeOK, JobOf, Partial
<1>2. QED
  BY <1>1 DEF FullTypeOK, JobOf, Steps, Recheck, Done, AtStage, OnlyJob, FilesAndGen,
              KeepsRead, KeepsCohort, KeepsResult

LEMMA DoesRecheckSource ==
    ASSUME FullTypeOK, RecheckSource
    PROVE  /\ job' \in JobOf /\ FilesAndGen /\ AtStage("recheck")
           /\ KeepsRead /\ KeepsResult /\ job'.captured = job.captured
           /\ \E m \in Module :
                 /\ Took(m)
                 /\ \/ Fingerprint(m) = job.seen[m] /\ KeepsCohort
                    \/ /\ DOMAIN job'.seen = DOMAIN job.seen \ {m} /\ job'.issues # {}
                       /\ \A n \in DOMAIN job'.seen : job'.seen[n] = job.seen[n]
<1> DEFINE m == Min(job.todo)
<1>1. m \in job.todo /\ m \in Module
  BY MinOfTodo DEF RecheckSource
<1>2. job \in JobOf
  BY DEF FullTypeOK
<1>3. FilesAndGen /\ AtStage("recheck")
  BY DEF RecheckSource, OnlyJob, FilesAndGen
<1>4. CASE Fingerprint(m) = job.seen[m]
  <2>1. job' = [job EXCEPT !.todo = @ \ {m}]
    BY <1>4 DEF RecheckSource, Take
  <2>2. job' \in JobOf /\ Took(m) /\ KeepsRead /\ KeepsResult /\ KeepsCohort
        /\ job'.captured = job.captured
    BY <1>1, <1>2, <2>1 DEF JobOf, Took, KeepsRead, KeepsResult, KeepsCohort
  <2> HIDE DEF m
  <2>3. QED
    BY <1>1, <1>3, <1>4, <2>2
<1>5. CASE Fingerprint(m) # job.seen[m]
  <2>1. PICK s : s = [n \in DOMAIN job.seen \ {m} |-> job.seen[n]]
    OBVIOUS
  <2>2. job' = [[job EXCEPT !.todo = @ \ {m}]
                   EXCEPT !.seen = s, !.issues = @ \cup {"SOURCE_CHANGED_DURING_READ"}]
    BY <1>5, <2>1 DEF RecheckSource, Take
  <2>3. s \in Partial
    <3>1. PICK S \in SUBSET Module : job.seen \in [S -> Nat]
      BY <1>2 DEF JobOf, Partial
    <3>2. s \in [S \ {m} -> Nat]
      BY <3>1, <2>1
    <3>3. QED
      BY <3>1, <3>2 DEF Partial
  <2>4. "SOURCE_CHANGED_DURING_READ" \in Issue
    BY DEF Issue, DriftIssues
  <2>5. job' \in JobOf
    BY <1>2, <2>2, <2>3, <2>4 DEF JobOf
  <2>6. Took(m) /\ KeepsRead /\ KeepsResult /\ job'.captured = job.captured
    BY <1>1, <1>2, <2>2 DEF JobOf, Took, KeepsRead, KeepsResult
  <2>7. job'.seen = s /\ job'.issues # {}
    BY <1>2, <2>2 DEF JobOf
  <2> HIDE DEF m
  <2>8. QED
    BY <1>1, <1>3, <2>1, <2>5, <2>6, <2>7
<1>6. QED
  BY <1>4, <1>5

(* The evidence is made, and the second pass or the reports begin.         *)
LEMMA DoesMaterialize ==
    ASSUME FullTypeOK, NEW evidence \in Evidences, Materialize(evidence), OnlyJob
    PROVE  /\ job' \in JobOf /\ FilesAndGen
           /\ job'.stage = "capture" \/ (job'.stage = "track" /\ job'.todo = Indexed(job.facts))
           /\ KeepsRead /\ job'.evidence = evidence /\ job'.prepared = job.prepared
           /\ job'.captured = job.captured
<1> DEFINE made == [job EXCEPT !.evidence = evidence, !.seen = <<>>, !.issues = {}]
<1>1. job \in JobOf /\ NoJob \in JobOf
  BY NoJobType DEF FullTypeOK
<1>2. made \in JobOf /\ made.facts = job.facts /\ made.slip = job.slip
      /\ made.evidence = evidence /\ made.prepared = job.prepared
      /\ made.captured = job.captured
  BY <1>1 DEF JobOf, NoJob
<1> HIDE DEF made
<1>3. \/ job' = [made EXCEPT !.stage = "capture", !.todo = Module]
      \/ job' = [made EXCEPT !.stage = "track", !.todo = Indexed(job.facts)]
  BY DEF Materialize, Reports, made
<1>4. Indexed(job.facts) \subseteq Module
  BY DEF Indexed
<1>5. QED
  BY <1>2, <1>3, <1>4 DEF JobOf, Steps, OnlyJob, FilesAndGen, KeepsRead

LEMMA EvidenceOfCohort ==
    ASSUME FullTypeOK
    PROVE  Evidence(HardEdges(job.facts), job.seen, job.issues) \in Evidences
BY DEF FullTypeOK, JobOf, Evidences

LEMMA DoesCapture ==
    ASSUME FullTypeOK, NEW m \in Module, CaptureModule(m)
    PROVE  /\ job' \in JobOf /\ FilesAndGen /\ AtStage("capture") /\ Took(m)
           /\ job'.captured = [job.captured EXCEPT ![m] = IndexedText(m, tree[m])]
           /\ KeepsRead /\ KeepsResult
<1>1. PICK v \in Nat : v = IndexedText(m, tree[m])
  BY TextIsNumber
<1>2. job' = [[job EXCEPT !.todo = @ \ {m}] EXCEPT !.captured[m] = v]
  BY <1>1 DEF CaptureModule, Take
<1>3. job \in JobOf
  BY DEF FullTypeOK
<1>4. job' \in JobOf
  BY <1>2, <1>3 DEF JobOf, Texts
<1>5. job'.captured = [job.captured EXCEPT ![m] = v] /\ job'.todo = job.todo \ {m}
  BY <1>2, <1>3 DEF JobOf, Texts
<1>6. job'.stage = job.stage /\ KeepsRead /\ KeepsResult
  BY <1>2, <1>3 DEF JobOf, Texts, KeepsResult, KeepsRead
<1>7. QED
  BY <1>1, <1>4, <1>5, <1>6 DEF CaptureModule, OnlyJob, FilesAndGen, AtStage, Took

LEMMA DoesPrepare ==
    ASSUME FullTypeOK, Prepare
    PROVE  /\ job' \in JobOf /\ FilesAndGen /\ AtStage("capture") /\ job.todo = {}
           /\ job'.stage = "track" /\ job'.todo = Indexed(job.facts) /\ KeepsRead
           /\ job'.evidence = job.evidence /\ job'.captured = NoFacts
           /\ \/ job'.prepared = NoPreparation
              \/ /\ job.captured = job.facts
                 /\ \E s \in Selection : job'.prepared = Preparation(job.facts, s)
<1>1. PICK s \in Selection : s = job.options.selection
  BY DEF FullTypeOK, JobOf, EvidencePool
<1>2. PICK p : p = IF Agrees(job.facts, job.captured, SelectedSources(job.facts, s))
                   THEN Preparation(job.captured, s) ELSE NoPreparation
  OBVIOUS
<1>3. job' = [[job EXCEPT !.prepared = p, !.captured = NoFacts]
                 EXCEPT !.stage = "track", !.todo = Indexed(job.facts)]
  BY <1>1, <1>2 DEF Prepare, Reports
<1>4. \/ p = NoPreparation
      \/ job.captured = job.facts /\ p = Preparation(job.facts, s)
  BY <1>2 DEF Agrees
<1>5. job \in JobOf
  BY DEF FullTypeOK
<1>6. p \in Preparations
  BY <1>4, <1>5 DEF Preparations, JobOf
<1>7. Indexed(job.facts) \subseteq Module
  BY DEF Indexed
<1>8. job' \in JobOf
  BY <1>3, <1>5, <1>6, <1>7, TextsOfNobody DEF JobOf, Steps
<1>9. /\ job'.stage = "track" /\ job'.todo = Indexed(job.facts) /\ KeepsRead
      /\ job'.evidence = job.evidence /\ job'.captured = NoFacts /\ job'.prepared = p
  BY <1>3, <1>5 DEF JobOf, KeepsRead
<1>10. QED
  BY <1>4, <1>8, <1>9 DEF Prepare, Done, AtStage, OnlyJob, FilesAndGen

LEMMA DoesPreviewFails ==
    ASSUME FullTypeOK, PreviewFails
    PROVE  /\ job' \in JobOf /\ FilesAndGen /\ AtStage("capture")
           /\ job'.stage = "track" /\ job'.todo = Indexed(job.facts)
           /\ KeepsRead /\ KeepsResult
<1>1. Indexed(job.facts) \subseteq Module
  BY DEF Indexed
<1>2. QED
  BY <1>1, TextsOfNobody
     DEF FullTypeOK, JobOf, Steps, PreviewFails, Reports, AtStage, OnlyJob, FilesAndGen,
         KeepsRead, KeepsResult

LEMMA DoesTrack ==
    ASSUME FullTypeOK, TrackModule
    PROVE  /\ job' \in JobOf /\ FilesAndGen /\ AtStage("track") /\ KeepsRead /\ KeepsResult
           /\ \E m \in Module :
                 Took(m) /\ job'.tracked = [job.tracked EXCEPT ![m] = Fingerprint(m)]
<1>1. PICK m \in job.todo : m = Min(job.todo) /\ m \in Module
  BY MinOfTodo DEF TrackModule
<1>2. PICK v \in Nat : v = Fingerprint(m)
  BY <1>1, TextIsNumber
<1>3. job' = [[job EXCEPT !.todo = @ \ {m}] EXCEPT !.tracked[m] = v]
  BY <1>1, <1>2 DEF TrackModule, Take
<1>4. job \in JobOf
  BY DEF FullTypeOK
<1>5. job' \in JobOf
  BY <1>1, <1>3, <1>4 DEF JobOf, Texts
<1>6. job'.tracked = [job.tracked EXCEPT ![m] = v] /\ job'.todo = job.todo \ {m}
  BY <1>1, <1>3, <1>4 DEF JobOf, Texts
<1>7. job'.stage = job.stage /\ KeepsRead /\ KeepsResult
  BY <1>1, <1>3, <1>4 DEF JobOf, Texts, KeepsResult, KeepsRead
<1>8. QED
  BY <1>1, <1>2, <1>5, <1>6, <1>7 DEF TrackModule, OnlyJob, FilesAndGen, AtStage, Took

LEMMA DoesBeginUsage ==
    ASSUME FullTypeOK, BeginUsage
    PROVE  /\ job' \in JobOf /\ FilesAndGen /\ AtStage("track") /\ job.todo = {}
           /\ job'.stage = "usage" /\ job'.todo = Indexed(job.facts)
           /\ KeepsRead /\ KeepsResult /\ KeepsUse
<1>1. Indexed(job.facts) \subseteq Module
  BY DEF Indexed
<1>2. QED
  BY <1>1 DEF FullTypeOK, JobOf, Steps, BeginUsage, Done, AtStage, OnlyJob, FilesAndGen,
              KeepsRead, KeepsResult, KeepsUse

(* Usage facts are taken over, or made of the file as it is now.           *)
LEMMA DoesUse ==
    ASSUME FullTypeOK, UseModule
    PROVE  /\ job' \in JobOf /\ FilesAndGen /\ AtStage("usage") /\ job'.facts = job.facts
           /\ KeepsResult /\ job'.tracked = job.tracked
           /\ \E m \in Module :
                 /\ Took(m)
                 /\ \/ /\ CanReuse(m) /\ job'.used = [job.used EXCEPT ![m] = gen.used[m]]
                       /\ job'.slip = job.slip \cup ({m} \cap gen.late)
                    \/ job'.used = [job.used EXCEPT ![m] = tree[m]] /\ job'.slip = job.slip
<1>1. PICK m \in job.todo : m = Min(job.todo) /\ m \in Module
  BY MinOfTodo DEF UseModule
<1>2. job \in JobOf /\ gen \in GenOf
  BY DEF FullTypeOK
<1>3. tree[m] \in Nat /\ gen.used[m] \in Nat
  BY <1>1, <1>2, TextIsNumber DEF GenOf, Texts
<1>4. CASE CanReuse(m)
  <2>1. PICK v \in Nat, l \in SUBSET Module : v = gen.used[m] /\ l = {m} \cap gen.late
    BY <1>1, <1>3
  <2>2. job' = [[job EXCEPT !.todo = @ \ {m}] EXCEPT !.used[m] = v, !.slip = @ \cup l]
    BY <1>1, <1>4, <2>1 DEF UseModule, Take
  <2>3. job' \in JobOf
    BY <1>1, <1>2, <2>2 DEF JobOf, Texts
  <2>4. job'.used = [job.used EXCEPT ![m] = v] /\ job'.todo = job.todo \ {m}
    BY <1>1, <1>2, <2>2 DEF JobOf, Texts
  <2>5. job'.stage = job.stage /\ job'.facts = job.facts /\ job'.tracked = job.tracked
    BY <1>1, <1>2, <2>2 DEF JobOf, Texts
  <2>6. job'.slip = job.slip \cup l /\ KeepsResult
    BY <1>1, <1>2, <2>2 DEF JobOf, Texts, KeepsResult
  <2>7. QED
    BY <1>1, <1>4, <2>1, <2>3, <2>4, <2>5, <2>6
       DEF UseModule, OnlyJob, FilesAndGen, AtStage, Took
<1>5. CASE ~CanReuse(m)
  <2>1. PICK v \in Nat : v = tree[m]
    BY <1>3
  <2>2. job' = [[job EXCEPT !.todo = @ \ {m}] EXCEPT !.used[m] = v]
    BY <1>1, <1>5, <2>1 DEF UseModule, Take
  <2>3. job' \in JobOf
    BY <1>1, <1>2, <2>2 DEF JobOf, Texts
  <2>4. job'.used = [job.used EXCEPT ![m] = v] /\ job'.todo = job.todo \ {m}
    BY <1>1, <1>2, <2>2 DEF JobOf, Texts
  <2>5. job'.stage = job.stage /\ job'.facts = job.facts /\ job'.tracked = job.tracked
    BY <1>1, <1>2, <2>2 DEF JobOf, Texts
  <2>6. job'.slip = job.slip /\ KeepsResult
    BY <1>1, <1>2, <2>2 DEF JobOf, Texts, KeepsResult
  <2>7. QED
    BY <1>1, <2>1, <2>3, <2>4, <2>5, <2>6 DEF UseModule, OnlyJob, FilesAndGen, AtStage, Took
<1>6. QED
  BY <1>4, <1>5

LEMMA DoesStartUpdate ==
    ASSUME FullTypeOK, NEW m \in Module, StartUpdate(m)
    PROVE  /\ job' \in JobOf /\ FilesAndGen
           /\ job'.stage = "update" /\ job'.todo = {m} /\ job'.captured[m] = tree[m]
           /\ job'.facts = NoFacts /\ job'.evidence = NoEvidence
           /\ job'.prepared = NoPreparation
<1>1. PICK v \in Nat : v = tree[m]
  BY TextIsNumber
<1>2. PICK c \in Texts : c = [NoFacts EXCEPT ![m] = v]
  BY TextsOfNobody DEF Texts
<1>3. job' = [NoJob EXCEPT !.stage = "update", !.todo = {m}, !.captured = c]
  BY <1>1, <1>2 DEF StartUpdate, NoJob
<1>4. c[m] = tree[m]
  BY <1>1, <1>2, TextsOfNobody DEF Texts
<1>5. job' \in JobOf
  BY <1>3, NoJobType DEF JobOf, Steps
<1>6. QED
  BY <1>3, <1>4, <1>5 DEF StartUpdate, OnlyJob, FilesAndGen, NoJob

LEMMA DoesEdit ==
    ASSUME FullTypeOK, NEW m \in Module, EditFile(m)
    PROVE  /\ tree' = [tree EXCEPT ![m] = tree[m] + 1] /\ past' = past \cup {tree'}
           /\ gen' = gen /\ job' \in JobOf
           /\ job'.slip = job.slip \cup (IF Slipped(m) THEN {m} ELSE {})
           /\ job'.stage = job.stage /\ job'.todo = job.todo /\ job'.facts = job.facts
           /\ KeepsCohort /\ KeepsResult /\ KeepsUse /\ job'.captured = job.captured
<1>1. job \in JobOf /\ tree \in Texts
  BY DEF FullTypeOK
<1>2. tree' = [tree EXCEPT ![m] = tree[m] + 1] /\ past' = past \cup {tree'} /\ gen' = gen
  BY DEF EditFile
<1>3. CASE Slipped(m)
  <2>1. job' = [job EXCEPT !.slip = @ \cup {m}]
    BY <1>3 DEF EditFile
  <2>2. job' \in JobOf /\ job'.slip = job.slip \cup {m}
    BY <1>1, <2>1 DEF JobOf
  <2>3. /\ job'.stage = job.stage /\ job'.todo = job.todo /\ job'.facts = job.facts
        /\ KeepsCohort /\ KeepsResult /\ KeepsUse /\ job'.captured = job.captured
    BY <1>1, <2>1 DEF JobOf, KeepsCohort, KeepsResult, KeepsUse
  <2>4. QED
    BY <1>2, <1>3, <2>2, <2>3
<1>4. CASE ~Slipped(m)
  <2>1. job' = job
    BY <1>4 DEF EditFile
  <2>2. QED
    BY <1>1, <1>2, <1>4, <2>1 DEF KeepsCohort, KeepsResult, KeepsUse
<1>5. QED
  BY <1>3, <1>4

(* A saved generation is what the job found.                               *)
LEMMA DoesSave ==
    ASSUME FullTypeOK, SaveGeneration
    PROVE  /\ tree' = tree /\ past' = past /\ job' = NoJob /\ gen' \in GenOf
           /\ AtStage("usage") /\ job.todo = {}
           /\ Published # {} => ClaimsConsistent(job.facts, job.evidence, job.prepared)
           /\ gen'.rev = gen.rev + 1 /\ gen'.facts = job.facts /\ gen'.tracked = job.tracked
           /\ gen'.proof = job.tracked /\ gen'.used = job.used /\ gen'.late = job.slip
           /\ gen'.evidence = job.evidence /\ gen'.freshness = Freshness(job.evidence)
           /\ gen'.resync = FALSE
           /\ \A k \in Receipt :
                 gen'.receipts[k] = IF k \in Published
                                    THEN [rev |-> gen.rev + 1, claims |-> job.prepared]
                                    ELSE NoReceipt
<1>1. job \in JobOf /\ gen \in GenOf
  BY DEF FullTypeOK
<1>2. PICK r : r = [k \in Receipt |-> IF k \in Published
                                      THEN [rev |-> gen.rev + 1, claims |-> job.prepared]
                                      ELSE NoReceipt]
  OBVIOUS
<1>3. PICK f : f = Freshness(job.evidence)
  OBVIOUS
<1>4. gen' = [rev |-> gen.rev + 1, facts |-> job.facts, tracked |-> job.tracked,
              used |-> job.used, proof |-> job.tracked, stale |-> {},
              evidence |-> job.evidence, freshness |-> f, receipts |-> r, resync |-> FALSE,
              late |-> job.slip]
  BY <1>2, <1>3 DEF SaveGeneration
<1>5. r \in [Receipt -> [rev : Nat, claims : Preparations]]
  BY <1>1, <1>2 DEF NoReceipt, Preparations, JobOf, GenOf
<1>6. f \in {"fresh", "stale", "deferred"}
  BY <1>3 DEF Freshness
<1>7. gen' \in GenOf
  BY <1>1, <1>4, <1>5, <1>6 DEF GenOf, JobOf
<1>8. QED
  BY <1>2, <1>3, <1>4, <1>7 DEF SaveGeneration, Done, AtStage

(* An update changes one module of the generation; its evidence is not     *)
(* fresh and its receipts are gone.                                        *)
LEMMA DoesInvalidate ==
    ASSUME FullTypeOK
    PROVE  LET g == Invalidated(gen)
           IN  /\ g \in GenOf /\ g.freshness # "fresh" /\ g.receipts = NoReceipts
               /\ g.facts = gen.facts /\ g.tracked = gen.tracked /\ g.used = gen.used
               /\ g.proof = gen.proof /\ g.late = gen.late /\ g.stale = gen.stale
               /\ g.resync = gen.resync
<1>1. gen \in GenOf
  BY DEF FullTypeOK
<1>2. NoReceipts \in [Receipt -> [rev : Nat, claims : Preparations]]
  BY DEF NoReceipts, NoReceipt, Preparations
<1>3. PICK f \in {"stale", "deferred"} :
         f = IF ~gen.evidence.known THEN "deferred" ELSE "stale"
  OBVIOUS
<1>4. PICK g : g = Invalidated(gen)
  OBVIOUS
<1>5. g = [gen EXCEPT !.rev = @ + 1, !.receipts = NoReceipts, !.freshness = f]
  BY <1>3, <1>4 DEF Invalidated
<1>6. g \in GenOf /\ g.freshness = f /\ g.receipts = NoReceipts
  <2>1. PICK n \in Nat, r \in [Receipt -> [rev : Nat, claims : Preparations]],
             h \in {"fresh", "stale", "deferred"} :
           n = gen.rev + 1 /\ r = NoReceipts /\ h = f
    BY <1>1, <1>2, <1>3 DEF GenOf
  <2>2. g = [gen EXCEPT !.rev = n, !.receipts = r, !.freshness = h]
    BY <1>5, <2>1
  <2>3. g \in GenOf
    BY <1>1, <2>1, <2>2 DEF GenOf
  <2>4. g.freshness = h /\ g.receipts = r
    BY <1>1, <2>2 DEF GenOf
  <2>5. QED
    BY <2>1, <2>3, <2>4
<1>7. /\ g.facts = gen.facts /\ g.tracked = gen.tracked /\ g.used = gen.used
      /\ g.proof = gen.proof /\ g.late = gen.late /\ g.stale = gen.stale
      /\ g.resync = gen.resync
  BY <1>1, <1>5 DEF GenOf
<1>8. QED
  BY <1>3, <1>4, <1>6, <1>7

LEMMA DoesParsed ==
    ASSUME FullTypeOK, NEW m \in Module, NEW v \in Nat, NEW lost \in BOOLEAN,
           UpdateParsed(m, v, lost)
    PROVE  /\ gen' \in GenOf /\ gen'.freshness # "fresh" /\ gen'.receipts = NoReceipts
           /\ gen'.facts = [gen.facts EXCEPT ![m] = v]
           /\ gen'.used = [gen.used EXCEPT ![m] = v]
           /\ gen'.tracked = [gen.tracked EXCEPT ![m] = Fingerprint(m)]
           /\ gen'.proof = [gen.proof EXCEPT ![m] = Fingerprint(m)]
           /\ gen'.late = (gen.late \ {m}) \cup job.slip /\ Fingerprint(m) = tree[m]
<1>1. PICK g \in GenOf : g = Invalidated(gen)
  BY DoesInvalidate
<1>2. PICK w \in Nat : w = Fingerprint(m)
  BY TextIsNumber
<1>3. PICK l \in SUBSET Module : l = job.slip
  BY DEF FullTypeOK, JobOf
<1>4. gen' = [g EXCEPT !.facts[m] = v, !.used[m] = v, !.stale = @ \ {m},
                       !.tracked[m] = w, !.proof[m] = w,
                       !.resync = @ \/ lost, !.late = (@ \ {m}) \cup l]
  BY <1>1, <1>2, <1>3 DEF UpdateParsed
<1>5. gen' \in GenOf
  BY <1>1, <1>4 DEF GenOf, Texts
<1>6. /\ gen'.facts = [g.facts EXCEPT ![m] = v] /\ gen'.used = [g.used EXCEPT ![m] = v]
      /\ gen'.tracked = [g.tracked EXCEPT ![m] = w]
      /\ gen'.proof = [g.proof EXCEPT ![m] = w]
  BY <1>1, <1>4 DEF GenOf, Texts
<1>7. /\ gen'.late = (g.late \ {m}) \cup l /\ gen'.freshness = g.freshness
      /\ gen'.receipts = g.receipts
  BY <1>1, <1>4 DEF GenOf, Texts
<1>8. Fingerprint(m) = tree[m]
  BY TextIsNumber DEF UpdateParsed
<1>9. QED
  BY <1>1, <1>2, <1>3, <1>5, <1>6, <1>7, <1>8, DoesInvalidate

LEMMA DoesUnparsed ==
    ASSUME FullTypeOK, NEW m \in Module, UpdateUnparsed(m)
    PROVE  /\ gen' \in GenOf /\ gen'.freshness # "fresh" /\ gen'.receipts = NoReceipts
           /\ gen'.facts = gen.facts /\ gen'.used = gen.used /\ gen'.tracked = gen.tracked
           /\ gen'.proof = gen.proof /\ gen'.late = gen.late
<1>1. PICK g \in GenOf : g = Invalidated(gen)
  BY DoesInvalidate
<1>2. PICK s \in SUBSET Module : gen' = [g EXCEPT !.stale = s]
  BY <1>1 DEF UpdateUnparsed, GenOf
<1>3. gen' \in GenOf /\ gen'.facts = g.facts /\ gen'.used = g.used /\ gen'.tracked = g.tracked
      /\ gen'.proof = g.proof /\ gen'.late = g.late /\ gen'.freshness = g.freshness
      /\ gen'.receipts = g.receipts
  BY <1>1, <1>2 DEF GenOf
<1>4. QED
  BY <1>1, <1>3, DoesInvalidate

LEMMA DoesDeleted ==
    ASSUME FullTypeOK, NEW m \in Module, UpdateDeleted(m)
    PROVE  /\ gen' \in GenOf /\ gen'.freshness # "fresh" /\ gen'.receipts = NoReceipts
           /\ gen'.facts = [gen.facts EXCEPT ![m] = 0]
           /\ gen'.used = [gen.used EXCEPT ![m] = 0]
           /\ gen'.proof = [gen.proof EXCEPT ![m] = 0]
           /\ gen'.tracked = [gen.tracked EXCEPT ![m] = Fingerprint(m)]
           /\ gen'.late = (gen.late \ {m}) \cup job.slip
<1>1. PICK g \in GenOf : g = Invalidated(gen)
  BY DoesInvalidate
<1>2. PICK w \in Nat : w = Fingerprint(m)
  BY TextIsNumber
<1>3. PICK l \in SUBSET Module : l = job.slip
  BY DEF FullTypeOK, JobOf
<1>4. gen' = [g EXCEPT !.facts[m] = 0, !.used[m] = 0, !.stale = @ \ {m}, !.proof[m] = 0,
                       !.tracked[m] = w, !.late = (@ \ {m}) \cup l]
  BY <1>1, <1>2, <1>3 DEF UpdateDeleted
<1>5. gen' \in GenOf
  BY <1>1, <1>4 DEF GenOf, Texts
<1>6. /\ gen'.facts = [g.facts EXCEPT ![m] = 0] /\ gen'.used = [g.used EXCEPT ![m] = 0]
      /\ gen'.tracked = [g.tracked EXCEPT ![m] = w]
      /\ gen'.proof = [g.proof EXCEPT ![m] = 0]
  BY <1>1, <1>4 DEF GenOf, Texts
<1>7. /\ gen'.late = (g.late \ {m}) \cup l /\ gen'.freshness = g.freshness
      /\ gen'.receipts = g.receipts
  BY <1>1, <1>4 DEF GenOf, Texts
<1>8. QED
  BY <1>1, <1>2, <1>3, <1>5, <1>6, <1>7, DoesInvalidate

-----------------------------------------------------------------------------
(* The invariant is kept.                                                  *)
LEMMA QuietStep ==
    ASSUME FullInv, FilesAndGen, job' \in JobOf, JobInv'
    PROVE  FullInv'
<1>1. FullTypeOK'
  BY DEF FullInv, FullTypeOK, FilesAndGen
<1>2. GenSeen'
  BY DEF FullInv, GenInv, GenSeen, FilesAndGen
<1>3. GenEvidence'
  BY DEF FullInv, GenInv, GenEvidence, EvidenceTrue, Answered, FilesAndGen
<1>4. QED
  BY <1>1, <1>2, <1>3 DEF FullInv, GenInv

LEMMA IdleKeeps == job' = NoJob => JobInv'
<1> SUFFICES ASSUME job' = NoJob PROVE JobInv'
  OBVIOUS
<1>1. /\ job'.stage = "idle" /\ job'.facts = NoFacts /\ job'.evidence = NoEvidence
      /\ job'.prepared = NoPreparation
  BY DEF NoJob
<1>2. FactsInv' /\ SlipInv' /\ SeenInv' /\ MomentInv'
  BY <1>1, TextsOfNobody DEF FactsInv, SlipInv, SeenInv, MomentInv
<1>3. EvidenceInv' /\ CaptureInv' /\ PreparedInv'
  BY <1>1 DEF EvidenceInv, CaptureInv, PreparedInv
<1>4. QED
  BY <1>2, <1>3 DEF JobInv

LEMMA StartKeeps == FullInv /\ StartAnalysis => FullInv'
<1> SUFFICES ASSUME FullInv, StartAnalysis PROVE FullInv'
  OBVIOUS
<1>1. /\ job' \in JobOf /\ FilesAndGen
      /\ job'.stage = "index" /\ job'.todo = Module /\ job'.facts = NoFacts
      /\ job'.seen = <<>> /\ job'.issues = {}
      /\ job'.evidence = NoEvidence /\ job'.prepared = NoPreparation
      /\ job'.captured = NoFacts
  BY DoesStart DEF FullInv
<1>2. FactsInv' /\ SlipInv' /\ SeenInv' /\ MomentInv'
  BY <1>1, TextsOfNobody DEF FactsInv, SlipInv, SeenInv, MomentInv
<1>3. EvidenceInv' /\ CaptureInv' /\ PreparedInv'
  BY <1>1 DEF EvidenceInv, CaptureInv, PreparedInv
<1>4. QED
  BY <1>1, <1>2, <1>3, QuietStep DEF JobInv

LEMMA IndexKeeps == \A m \in Module : FullInv /\ IndexModule(m) => FullInv'
<1> SUFFICES ASSUME NEW m \in Module, FullInv, IndexModule(m) PROVE FullInv'
  OBVIOUS
<1>1. /\ job' \in JobOf /\ FilesAndGen /\ AtStage("index") /\ Took(m)
      /\ job'.facts = [job.facts EXCEPT ![m] = IndexedText(m, tree[m])]
      /\ job'.slip = job.slip /\ KeepsCohort /\ KeepsResult /\ job'.captured = job.captured
  BY DoesIndex DEF FullInv
<1>2. /\ job.facts \in Texts /\ job'.facts \in Texts /\ tree \in Texts /\ tree' = tree
      /\ job'.stage = "index"
  BY <1>1 DEF FullInv, FullTypeOK, JobOf, FilesAndGen, AtStage, Took
<1>3. job'.facts[m] \in {0, tree[m]} /\ (job'.facts[m] # 0 => Present(m, tree[m]))
  BY <1>1, <1>2, TextIsNumber DEF FullInv, Texts
<1>4. \A n \in Module \ {m} : job'.facts[n] = job.facts[n]
  BY <1>1, <1>2 DEF Texts
<1>5. FactsInv'
  BY <1>2, <1>3, <1>4 DEF FullInv, JobInv, FactsInv, Indexed, Texts
<1>6. SlipInv'
  BY <1>1, <1>2, <1>3, <1>4 DEF FullInv, JobInv, SlipInv, AtStage, Took
<1>7. SeenInv' /\ MomentInv'
  BY <1>1, <1>2 DEF FullInv, JobInv, SeenInv, MomentInv, AtStage, KeepsCohort
<1>8. EvidenceInv' /\ CaptureInv' /\ PreparedInv'
  BY <1>1, <1>2
     DEF FullInv, JobInv, EvidenceInv, CaptureInv, PreparedInv, AtStage, KeepsResult
<1>9. QED
  BY <1>1, <1>5, <1>6, <1>7, <1>8, QuietStep DEF JobInv

LEMMA BuildKeeps == FullInv /\ BuildGraph => FullInv'
<1> SUFFICES ASSUME FullInv, BuildGraph PROVE FullInv'
  OBVIOUS
<1>1. /\ job' \in JobOf /\ FilesAndGen /\ AtStage("index") /\ job.todo = {}
      /\ job'.stage = "cohort" /\ job'.todo = CyclicModules(HardEdges(job.facts))
      /\ KeepsRead /\ KeepsCohort /\ KeepsResult /\ job'.captured = job.captured
  BY DoesBuild DEF FullInv
<1>2. job.facts \in Texts /\ tree \in Texts /\ tree' = tree /\ past' = past /\ tree \in past
  BY <1>1 DEF FullInv, FullTypeOK, JobOf, FilesAndGen
<1>3. FactsInv' /\ SlipInv'
  BY <1>1, <1>2 DEF FullInv, JobInv, FactsInv, SlipInv, Indexed, AtStage, KeepsRead
<1>4. SeenInv' /\ MomentInv'
  BY <1>1 DEF FullInv, JobInv, SeenInv, MomentInv, AtStage, KeepsCohort, KeepsRead
<1>5. EvidenceInv' /\ PreparedInv'
  BY <1>1 DEF FullInv, JobInv, EvidenceInv, PreparedInv, AtStage, KeepsResult
<1>6. CaptureInv'
  <2>1. job'.captured = NoFacts
    BY <1>1 DEF FullInv, JobInv, CaptureInv, AtStage
  <2>2. \A m \in Module :
           /\ tree[m] <= tree'[m] /\ (job'.facts[m] # 0 => job'.facts[m] <= tree[m])
           /\ job'.captured[m] = 0
    BY <1>1, <1>2, <2>1, TextsOfNobody
       DEF FullInv, JobInv, FactsInv, Indexed, KeepsRead, Texts
  <2>3. QED
    BY <1>1, <1>2, <2>1, <2>2 DEF CaptureInv
<1>7. QED
  BY <1>1, <1>3, <1>4, <1>5, <1>6, QuietStep DEF JobInv

LEMMA ReadSourceKeeps == FullInv /\ ReadCyclicSource => FullInv'
<1> SUFFICES ASSUME FullInv, ReadCyclicSource PROVE FullInv'
  OBVIOUS
<1>1. /\ job' \in JobOf /\ FilesAndGen /\ AtStage("cohort")
      /\ KeepsRead /\ KeepsResult /\ job'.captured = job.captured
  BY DoesReadSource DEF FullInv
<1>2. PICK m \in Module :
         /\ Took(m)
         /\ \/ /\ tree[m] = job.facts[m] /\ job'.issues = job.issues
               /\ DOMAIN job'.seen = DOMAIN job.seen \cup {m}
               /\ job'.seen[m] = tree[m]
               /\ \A n \in DOMAIN job.seen \ {m} : job'.seen[n] = job.seen[n]
            \/ job'.seen = job.seen /\ job'.issues # {}
  BY DoesReadSource DEF FullInv
<1>3. job'.stage = "cohort" /\ tree' = tree /\ past' = past
  BY <1>1, <1>2 DEF AtStage, Took, FilesAndGen
<1>4. FactsInv' /\ SlipInv'
  BY <1>1, <1>3 DEF FullInv, JobInv, FactsInv, SlipInv, AtStage, KeepsRead
<1>5. SeenInv'
  <2>1. /\ job.todo \subseteq CyclicModules(HardEdges(job.facts))
        /\ DOMAIN job.seen \subseteq CyclicModules(HardEdges(job.facts))
        /\ \A n \in DOMAIN job.seen : job.seen[n] = job.facts[n]
        /\ job.issues = {} =>
              CyclicModules(HardEdges(job.facts)) \subseteq DOMAIN job.seen \cup job.todo
    BY <1>1 DEF FullInv, JobInv, SeenInv, AtStage
  <2>2. job'.facts = job.facts /\ m \in job.todo /\ job'.todo = job.todo \ {m}
    BY <1>1, <1>2 DEF KeepsRead, Took
  <2>3. QED
    BY <1>2, <1>3, <2>1, <2>2 DEF SeenInv
<1>6. MomentInv'
  BY <1>3 DEF MomentInv
<1>7. EvidenceInv' /\ PreparedInv'
  BY <1>1 DEF FullInv, JobInv, EvidenceInv, PreparedInv, AtStage, KeepsResult
<1>8. CaptureInv'
  BY <1>1, <1>3 DEF FullInv, JobInv, CaptureInv, AtStage, KeepsRead
<1>9. QED
  BY <1>1, <1>4, <1>5, <1>6, <1>7, <1>8, QuietStep DEF JobInv

(* The moment of the recheck is its beginning: what was read before is     *)
(* still there then, when it is there later.                               *)
LEMMA RecheckKeeps == FullInv /\ Recheck => FullInv'
<1> SUFFICES ASSUME FullInv, Recheck PROVE FullInv'
  OBVIOUS
<1>1. /\ job' \in JobOf /\ FilesAndGen /\ AtStage("cohort") /\ job.todo = {}
      /\ job'.stage = "recheck" /\ job'.todo = DOMAIN job.seen
      /\ KeepsRead /\ KeepsCohort /\ KeepsResult /\ job'.captured = job.captured
  BY DoesRecheck DEF FullInv
<1>2. job.facts \in Texts /\ tree \in Texts /\ tree' = tree /\ past' = past /\ tree \in past
  BY <1>1 DEF FullInv, FullTypeOK, JobOf, FilesAndGen
<1>3. FactsInv' /\ SlipInv'
  BY <1>1, <1>2 DEF FullInv, JobInv, FactsInv, SlipInv, AtStage, KeepsRead
<1>4. SeenInv'
  BY <1>1 DEF FullInv, JobInv, SeenInv, AtStage, KeepsCohort, KeepsRead
<1>5. MomentInv'
  <2>1. \A m \in DOMAIN job.seen : m \in Indexed(job.facts)
    BY <1>1, CyclicIsIndexed DEF FullInv, JobInv, SeenInv, AtStage
  <2>2. \A m \in DOMAIN job'.seen : job'.facts[m] <= tree[m] /\ m \in job'.todo
    BY <1>1, <2>1 DEF FullInv, JobInv, FactsInv, KeepsRead, KeepsCohort
  <2>3. \A m \in Module : tree[m] <= tree'[m]
    BY <1>2 DEF Texts
  <2>4. QED
    BY <1>2, <2>2, <2>3 DEF MomentInv
<1>6. EvidenceInv' /\ PreparedInv'
  BY <1>1 DEF FullInv, JobInv, EvidenceInv, PreparedInv, AtStage, KeepsResult
<1>7. CaptureInv'
  BY <1>1, <1>2 DEF FullInv, JobInv, CaptureInv, AtStage, KeepsRead
<1>8. QED
  BY <1>1, <1>3, <1>4, <1>5, <1>6, <1>7, QuietStep DEF JobInv

LEMMA RecheckSourceKeeps == FullInv /\ RecheckSource => FullInv'
<1> SUFFICES ASSUME FullInv, RecheckSource PROVE FullInv'
  OBVIOUS
<1>1. /\ job' \in JobOf /\ FilesAndGen /\ AtStage("recheck")
      /\ KeepsRead /\ KeepsResult /\ job'.captured = job.captured
  BY DoesRecheckSource DEF FullInv
<1>2. PICK m \in Module :
         /\ Took(m)
         /\ \/ Fingerprint(m) = job.seen[m] /\ KeepsCohort
            \/ /\ DOMAIN job'.seen = DOMAIN job.seen \ {m} /\ job'.issues # {}
               /\ \A n \in DOMAIN job'.seen : job'.seen[n] = job.seen[n]
  BY DoesRecheckSource DEF FullInv
<1>3. /\ job'.stage = "recheck" /\ tree' = tree /\ past' = past /\ job'.facts = job.facts
      /\ m \in job.todo /\ job'.todo = job.todo \ {m}
  BY <1>1, <1>2 DEF AtStage, Took, FilesAndGen, KeepsRead
<1>4. FactsInv' /\ SlipInv'
  BY <1>1, <1>3 DEF FullInv, JobInv, FactsInv, SlipInv, AtStage, KeepsRead
<1>5. SeenInv'
  <2>1. /\ job.todo \subseteq CyclicModules(HardEdges(job.facts))
        /\ DOMAIN job.seen \subseteq CyclicModules(HardEdges(job.facts))
        /\ \A n \in DOMAIN job.seen : job.seen[n] = job.facts[n]
        /\ job.issues = {} => CyclicModules(HardEdges(job.facts)) \subseteq DOMAIN job.seen
    BY <1>1 DEF FullInv, JobInv, SeenInv, AtStage
  <2>2. QED
    BY <1>2, <1>3, <2>1 DEF SeenInv, KeepsCohort
<1>6. MomentInv'
  <2>1. PICK p \in past : \A n \in Module :
           /\ p[n] <= tree[n]
           /\ n \in DOMAIN job.seen =>
                 job.facts[n] <= p[n] /\ (n \notin job.todo => p[n] = job.facts[n])
    BY <1>1 DEF FullInv, JobInv, MomentInv, AtStage
  <2>2. p \in Texts /\ job.facts \in Texts /\ tree \in Texts
    BY DEF FullInv, FullTypeOK, JobOf
  <2>3. m \in DOMAIN job'.seen => p[m] = job.facts[m]
    <3>1. SUFFICES ASSUME m \in DOMAIN job'.seen PROVE p[m] = job.facts[m]
      OBVIOUS
    <3>2. Fingerprint(m) = job.seen[m] /\ m \in DOMAIN job.seen
      BY <1>2, <3>1 DEF KeepsCohort
    <3>3. job.seen[m] = job.facts[m] /\ m \in Indexed(job.facts)
      BY <1>1, <3>2, CyclicIsIndexed DEF FullInv, JobInv, SeenInv, AtStage
    <3>4. job.facts[m] = tree[m]
      BY <3>2, <3>3, TextIsNumber DEF FullInv, Indexed
    <3>5. QED
      BY <2>1, <2>2, <3>2, <3>4 DEF Texts
  <2>4. DOMAIN job'.seen \subseteq DOMAIN job.seen
    BY <1>2 DEF KeepsCohort
  <2>5. QED
    BY <1>3, <2>1, <2>3, <2>4 DEF MomentInv
<1>7. EvidenceInv' /\ PreparedInv'
  BY <1>1 DEF FullInv, JobInv, EvidenceInv, PreparedInv, AtStage, KeepsResult
<1>8. CaptureInv'
  BY <1>1, <1>3 DEF FullInv, JobInv, CaptureInv, AtStage, KeepsRead
<1>9. QED
  BY <1>1, <1>4, <1>5, <1>6, <1>7, <1>8, QuietStep DEF JobInv

LEMMA MaterializeKeeps ==
    ASSUME FullInv, NEW evidence \in Evidences, Materialize(evidence), OnlyJob,
           job.stage \in {"cohort", "recheck"},
           evidence # NoEvidence => EvidenceTrue(evidence, job.facts)
    PROVE  FullInv'
<1>1. /\ job' \in JobOf /\ FilesAndGen
      /\ job'.stage = "capture" \/ (job'.stage = "track" /\ job'.todo = Indexed(job.facts))
      /\ KeepsRead /\ job'.evidence = evidence /\ job'.prepared = job.prepared
      /\ job'.captured = job.captured
  BY DoesMaterialize DEF FullInv
<1>2. tree' = tree /\ past' = past /\ job'.facts = job.facts
  BY <1>1 DEF FilesAndGen, KeepsRead
<1>3. FactsInv' /\ SlipInv'
  BY <1>1, <1>2 DEF FullInv, JobInv, FactsInv, SlipInv, KeepsRead
<1>4. SeenInv' /\ MomentInv'
  BY <1>1 DEF SeenInv, MomentInv
<1>5. EvidenceInv'
  BY <1>1, <1>2 DEF EvidenceInv, EvidenceTrue
<1>6. CaptureInv' /\ PreparedInv'
  BY <1>1, <1>2 DEF FullInv, JobInv, CaptureInv, PreparedInv
<1>7. QED
  BY <1>1, <1>3, <1>4, <1>5, <1>6, QuietStep DEF JobInv

(* Complete evidence names texts all cyclic modules had when the recheck   *)
(* began.                                                                  *)
LEMMA ClassifyKeeps == FullInv /\ Classify => FullInv'
<1> SUFFICES ASSUME FullInv, Classify PROVE FullInv'
  OBVIOUS
<1> DEFINE graph == HardEdges(job.facts)
           evidence == Evidence(graph, job.seen, job.issues)
<1>1. job.stage = "recheck" /\ job.todo = {} /\ Materialize(evidence) /\ OnlyJob
  BY DEF Classify, Done, AtStage
<1>2. /\ evidence.graph = graph /\ evidence.seen = job.seen
      /\ Stable(evidence) => job.issues = {}
  BY DEF Evidence, Stable
<1>3. /\ DOMAIN job.seen \subseteq CyclicModules(graph)
      /\ \A m \in DOMAIN job.seen : job.seen[m] = job.facts[m]
      /\ job.issues = {} => CyclicModules(graph) \subseteq DOMAIN job.seen
  BY <1>1 DEF FullInv, JobInv, SeenInv
<1>4. CyclicModules(graph) \subseteq Module
  BY CyclicIsIndexed DEF Indexed
<1>5. PICK p \in past : \A m \in Module : m \in DOMAIN job.seen => p[m] = job.facts[m]
  BY <1>1 DEF FullInv, JobInv, MomentInv
<1>6. evidence \in Evidences
  BY EvidenceOfCohort DEF FullInv
<1> HIDE DEF evidence, graph
<1>7. EvidenceTrue(evidence, job.facts)
  BY <1>2, <1>3, <1>4, <1>5 DEF EvidenceTrue, graph
<1>8. QED
  BY <1>1, <1>6, <1>7, MaterializeKeeps

LEMMA EvidenceFailsKeeps == FullInv /\ EvidenceFails => FullInv'
BY MaterializeKeeps DEF EvidenceFails, Evidences

LEMMA CaptureKeeps == \A m \in Module : FullInv /\ CaptureModule(m) => FullInv'
<1> SUFFICES ASSUME NEW m \in Module, FullInv, CaptureModule(m) PROVE FullInv'
  OBVIOUS
<1>1. /\ job' \in JobOf /\ FilesAndGen /\ AtStage("capture") /\ Took(m)
      /\ job'.captured = [job.captured EXCEPT ![m] = IndexedText(m, tree[m])]
      /\ KeepsRead /\ KeepsResult
  BY DoesCapture DEF FullInv
<1>2. tree' = tree /\ past' = past /\ job'.facts = job.facts /\ job'.stage = "capture"
  BY <1>1 DEF FilesAndGen, KeepsRead, AtStage, Took
<1>3. FactsInv' /\ SlipInv'
  BY <1>1, <1>2 DEF FullInv, JobInv, FactsInv, SlipInv, KeepsRead, AtStage
<1>4. SeenInv' /\ MomentInv'
  BY <1>2 DEF SeenInv, MomentInv
<1>5. EvidenceInv' /\ PreparedInv'
  BY <1>1, <1>2 DEF FullInv, JobInv, EvidenceInv, EvidenceTrue, PreparedInv, KeepsResult, AtStage
<1>6. CaptureInv'
  <2>1. PICK p \in past : \A n \in Module :
           /\ p[n] <= tree[n]
           /\ job.facts[n] # 0 => job.facts[n] <= p[n]
           /\ job.captured[n] # 0 => p[n] <= job.captured[n]
    BY <1>1 DEF FullInv, JobInv, CaptureInv, AtStage
  <2>2. IndexedText(m, tree[m]) \in {0, tree[m]} /\ job.captured \in Texts
    BY TextIsNumber DEF FullInv, FullTypeOK, JobOf
  <2>3. \A n \in Module : job'.captured[n] # 0 => p[n] <= job'.captured[n]
    BY <1>1, <2>1, <2>2 DEF Texts
  <2>4. QED
    BY <1>2, <2>1, <2>3 DEF CaptureInv
<1>7. QED
  BY <1>1, <1>3, <1>4, <1>5, <1>6, QuietStep DEF JobInv

(* Two index passes that agree saw what was there between them.            *)
LEMMA PrepareKeeps == FullInv /\ Prepare => FullInv'
<1> SUFFICES ASSUME FullInv, Prepare PROVE FullInv'
  OBVIOUS
<1>1. /\ job' \in JobOf /\ FilesAndGen /\ AtStage("capture") /\ job.todo = {}
      /\ job'.stage = "track" /\ job'.todo = Indexed(job.facts) /\ KeepsRead
      /\ job'.evidence = job.evidence /\ job'.captured = NoFacts
      /\ \/ job'.prepared = NoPreparation
         \/ /\ job.captured = job.facts
            /\ \E s \in Selection : job'.prepared = Preparation(job.facts, s)
  BY DoesPrepare DEF FullInv
<1>2. tree' = tree /\ past' = past /\ job'.facts = job.facts
  BY <1>1 DEF FilesAndGen, KeepsRead
<1>3. FactsInv' /\ SlipInv'
  BY <1>1, <1>2 DEF FullInv, JobInv, FactsInv, SlipInv, KeepsRead, AtStage
<1>4. SeenInv' /\ MomentInv' /\ CaptureInv'
  BY <1>1 DEF SeenInv, MomentInv, CaptureInv
<1>5. EvidenceInv'
  BY <1>1, <1>2 DEF FullInv, JobInv, EvidenceInv, EvidenceTrue
<1>6. PreparedInv'
  <2>1. PICK p \in past : \A m \in Module :
           /\ job.facts[m] # 0 => job.facts[m] <= p[m]
           /\ job.captured[m] # 0 => p[m] <= job.captured[m]
    BY <1>1 DEF FullInv, JobInv, CaptureInv, AtStage
  <2>2. p \in Texts /\ job.facts \in Texts
    BY DEF FullInv, FullTypeOK, JobOf
  <2>3. job.captured = job.facts => \A m \in Indexed(job.facts) : p[m] = job.facts[m]
    BY <2>1, <2>2 DEF Texts, Indexed
  <2>4. QED
    BY <1>1, <1>2, <2>3 DEF PreparedInv
<1>7. QED
  BY <1>1, <1>3, <1>4, <1>5, <1>6, QuietStep DEF JobInv

LEMMA PreviewFailsKeeps == FullInv /\ PreviewFails => FullInv'
<1> SUFFICES ASSUME FullInv, PreviewFails PROVE FullInv'
  OBVIOUS
<1>1. /\ job' \in JobOf /\ FilesAndGen /\ AtStage("capture")
      /\ job'.stage = "track" /\ job'.todo = Indexed(job.facts)
      /\ KeepsRead /\ KeepsResult
  BY DoesPreviewFails DEF FullInv
<1>2. tree' = tree /\ past' = past /\ job'.facts = job.facts
  BY <1>1 DEF FilesAndGen, KeepsRead
<1>3. FactsInv' /\ SlipInv'
  BY <1>1, <1>2 DEF FullInv, JobInv, FactsInv, SlipInv, KeepsRead, AtStage
<1>4. SeenInv' /\ MomentInv' /\ CaptureInv'
  BY <1>1 DEF SeenInv, MomentInv, CaptureInv
<1>5. EvidenceInv' /\ PreparedInv'
  BY <1>1, <1>2 DEF FullInv, JobInv, EvidenceInv, EvidenceTrue, PreparedInv, KeepsResult
<1>6. QED
  BY <1>1, <1>3, <1>4, <1>5, QuietStep DEF JobInv

LEMMA TrackKeeps == FullInv /\ TrackModule => FullInv'
<1> SUFFICES ASSUME FullInv, TrackModule PROVE FullInv'
  OBVIOUS
<1>1. /\ job' \in JobOf /\ FilesAndGen /\ AtStage("track") /\ KeepsRead /\ KeepsResult
      /\ \E m \in Module :
            Took(m) /\ job'.tracked = [job.tracked EXCEPT ![m] = Fingerprint(m)]
  BY DoesTrack DEF FullInv
<1>2. PICK m \in Module :
         Took(m) /\ job'.tracked = [job.tracked EXCEPT ![m] = Fingerprint(m)]
  BY <1>1
<1>3. /\ tree' = tree /\ past' = past /\ job'.facts = job.facts /\ job'.slip = job.slip
      /\ job'.stage = "track" /\ job'.todo = job.todo \ {m} /\ job.tracked \in Texts
  BY <1>1, <1>2 DEF FilesAndGen, KeepsRead, AtStage, Took, FullInv, FullTypeOK, JobOf
<1>4. FactsInv'
  BY <1>3 DEF FullInv, JobInv, FactsInv
<1>5. SlipInv'
  <2>1. m \in Indexed(job.facts) =>
           Fingerprint(m) = job.facts[m] \/ m \in job.slip
    BY <1>1, TextIsNumber DEF FullInv, JobInv, SlipInv, FactsInv, AtStage
  <2>2. job'.tracked[m] = Fingerprint(m)
        /\ \A n \in Module \ {m} : job'.tracked[n] = job.tracked[n]
    BY <1>2, <1>3 DEF Texts
  <2>3. \A n \in Indexed(job.facts) : job.facts[n] = tree[n] \/ n \in job.slip
    BY <1>1 DEF FullInv, JobInv, SlipInv, AtStage
  <2>4. \A n \in Indexed(job.facts) :
           n \notin job.todo => job.tracked[n] = job.facts[n] \/ n \in job.slip
    BY <1>1 DEF FullInv, JobInv, SlipInv, AtStage
  <2>5. \A n \in Indexed(job.facts) : n \in Module
    BY DEF Indexed
  <2>6. QED
    BY <1>3, <2>1, <2>2, <2>3, <2>4, <2>5 DEF SlipInv
<1>6. SeenInv' /\ MomentInv' /\ CaptureInv'
  BY <1>3 DEF SeenInv, MomentInv, CaptureInv
<1>7. EvidenceInv' /\ PreparedInv'
  BY <1>1, <1>3 DEF FullInv, JobInv, EvidenceInv, EvidenceTrue, PreparedInv, KeepsResult
<1>8. QED
  BY <1>1, <1>4, <1>5, <1>6, <1>7, QuietStep DEF JobInv

LEMMA BeginUsageKeeps == FullInv /\ BeginUsage => FullInv'
<1> SUFFICES ASSUME FullInv, BeginUsage PROVE FullInv'
  OBVIOUS
<1>1. /\ job' \in JobOf /\ FilesAndGen /\ AtStage("track") /\ job.todo = {}
      /\ job'.stage = "usage" /\ job'.todo = Indexed(job.facts)
      /\ KeepsRead /\ KeepsResult /\ KeepsUse
  BY DoesBeginUsage DEF FullInv
<1>2. tree' = tree /\ past' = past /\ job'.facts = job.facts
  BY <1>1 DEF FilesAndGen, KeepsRead
<1>3. FactsInv' /\ SlipInv'
  BY <1>1, <1>2 DEF FullInv, JobInv, FactsInv, SlipInv, KeepsRead, KeepsUse, AtStage
<1>4. SeenInv' /\ MomentInv' /\ CaptureInv'
  BY <1>1 DEF SeenInv, MomentInv, CaptureInv
<1>5. EvidenceInv' /\ PreparedInv'
  BY <1>1, <1>2 DEF FullInv, JobInv, EvidenceInv, EvidenceTrue, PreparedInv, KeepsResult
<1>6. QED
  BY <1>1, <1>3, <1>4, <1>5, QuietStep DEF JobInv

(* Usage facts taken over are of the text the previous generation was made *)
(* of, whose fingerprint is the one the file had again; those made anew    *)
(* are of the text the file has.                                           *)
LEMMA UseKeeps == FullInv /\ UseModule => FullInv'
<1> SUFFICES ASSUME FullInv, UseModule PROVE FullInv'
  OBVIOUS
<1>1. /\ job' \in JobOf /\ FilesAndGen /\ AtStage("usage") /\ job'.facts = job.facts
      /\ KeepsResult /\ job'.tracked = job.tracked
  BY DoesUse DEF FullInv
<1>2. PICK m \in Module :
         /\ Took(m)
         /\ \/ /\ CanReuse(m) /\ job'.used = [job.used EXCEPT ![m] = gen.used[m]]
               /\ job'.slip = job.slip \cup ({m} \cap gen.late)
            \/ job'.used = [job.used EXCEPT ![m] = tree[m]] /\ job'.slip = job.slip
  BY DoesUse DEF FullInv
<1>3. /\ tree' = tree /\ past' = past /\ job'.stage = "usage" /\ job.used \in Texts
      /\ job'.todo = job.todo \ {m} /\ m \in job.todo /\ job.slip \subseteq job'.slip
  BY <1>1, <1>2 DEF FilesAndGen, AtStage, Took, FullInv, FullTypeOK, JobOf
<1>4. FactsInv'
  BY <1>1, <1>3 DEF FullInv, JobInv, FactsInv
<1>5. SlipInv'
  <2>1. \A n \in Indexed(job.facts) :
           /\ n \in Module
           /\ job.tracked[n] = job.facts[n] \/ n \in job.slip
           /\ IF n \in job.todo THEN job.facts[n] = tree[n] \/ n \in job.slip
              ELSE job.used[n] = job.facts[n] \/ n \in job.slip
    BY <1>1 DEF FullInv, JobInv, SlipInv, AtStage, Indexed
  <2>2. \A n \in Module \ {m} : job'.used[n] = job.used[n]
    BY <1>2, <1>3 DEF Texts
  <2>3. m \in Indexed(job.facts) => job'.used[m] = job.facts[m] \/ m \in job'.slip
    <3>1. SUFFICES ASSUME m \in Indexed(job.facts), m \notin job'.slip
                   PROVE  job'.used[m] = job.facts[m]
      OBVIOUS
    <3>2. CASE job'.used = [job.used EXCEPT ![m] = tree[m]]
      BY <1>3, <2>1, <3>1, <3>2 DEF Texts
    <3>3. CASE /\ CanReuse(m) /\ job'.used = [job.used EXCEPT ![m] = gen.used[m]]
               /\ job'.slip = job.slip \cup ({m} \cap gen.late)
      <4>1. m \notin gen.late /\ m \in Indexed(gen.facts) /\ gen.proof[m] = job.tracked[m]
        BY <3>1, <3>3 DEF CanReuse, Indexed
      <4>2. gen.used[m] = gen.facts[m] /\ gen.facts[m] = gen.proof[m]
        BY <4>1 DEF FullInv, GenInv, GenSeen
      <4>3. job.tracked[m] = job.facts[m]
        BY <1>3, <2>1, <3>1
      <4>4. QED
        BY <1>3, <3>3, <4>1, <4>2, <4>3 DEF Texts
    <3>4. QED
      BY <1>2, <3>2, <3>3
  <2>4. QED
    BY <1>1, <1>3, <2>1, <2>2, <2>3 DEF SlipInv
<1>6. SeenInv' /\ MomentInv' /\ CaptureInv'
  BY <1>3 DEF SeenInv, MomentInv, CaptureInv
<1>7. EvidenceInv' /\ PreparedInv'
  BY <1>1, <1>3 DEF FullInv, JobInv, EvidenceInv, EvidenceTrue, PreparedInv, KeepsResult
<1>8. QED
  BY <1>1, <1>4, <1>5, <1>6, <1>7, QuietStep DEF JobInv

LEMMA StartUpdateKeeps == \A m \in Module : FullInv /\ StartUpdate(m) => FullInv'
<1> SUFFICES ASSUME NEW m \in Module, FullInv, StartUpdate(m) PROVE FullInv'
  OBVIOUS
<1>1. /\ job' \in JobOf /\ FilesAndGen
      /\ job'.stage = "update" /\ job'.todo = {m} /\ job'.captured[m] = tree[m]
      /\ job'.facts = NoFacts /\ job'.evidence = NoEvidence
      /\ job'.prepared = NoPreparation
  BY DoesStartUpdate DEF FullInv
<1>2. FactsInv' /\ SlipInv' /\ SeenInv' /\ MomentInv'
  BY <1>1, TextsOfNobody DEF FactsInv, SlipInv, SeenInv, MomentInv, FilesAndGen
<1>3. EvidenceInv' /\ CaptureInv' /\ PreparedInv'
  BY <1>1 DEF EvidenceInv, CaptureInv, PreparedInv
<1>4. QED
  BY <1>1, <1>2, <1>3, QuietStep DEF JobInv

(* An edit makes what was read before it old, and adds a state to the past *)
LEMMA EditKeeps == \A m \in Module : FullInv /\ EditFile(m) => FullInv'
<1> SUFFICES ASSUME NEW m \in Module, FullInv, EditFile(m) PROVE FullInv'
  OBVIOUS
<1>1. /\ tree' = [tree EXCEPT ![m] = tree[m] + 1] /\ past' = past \cup {tree'}
      /\ gen' = gen /\ job' \in JobOf
      /\ job'.slip = job.slip \cup (IF Slipped(m) THEN {m} ELSE {})
      /\ job'.stage = job.stage /\ job'.todo = job.todo /\ job'.facts = job.facts
      /\ KeepsCohort /\ KeepsResult /\ KeepsUse /\ job'.captured = job.captured
  BY DoesEdit DEF FullInv
<1>2. tree \in Texts /\ past \subseteq Texts /\ job.facts \in Texts /\ job.captured \in Texts
  BY DEF FullInv, FullTypeOK, JobOf
<1>3. tree' \in Texts /\ tree'[m] = tree[m] + 1 /\ \A n \in Module \ {m} : tree'[n] = tree[n]
  BY <1>1, <1>2 DEF Texts
<1>4. \A n \in Module : tree[n] \in Nat /\ tree'[n] \in Nat /\ tree[n] <= tree'[n]
  BY <1>2, <1>3 DEF Texts
<1>5. FullTypeOK'
  BY <1>1, <1>2, <1>3 DEF FullInv, FullTypeOK
<1>6. FactsInv'
  BY <1>1, <1>2, <1>4 DEF FullInv, JobInv, FactsInv, Indexed, Texts
<1>7. SlipInv'
  <2>1. job.slip \subseteq job'.slip /\ (Slipped(m) => m \in job'.slip)
    BY <1>1
  <2>2. CASE job.stage = "index"
    <3>1. m \notin job.todo => m \in job'.slip
      BY <2>1, <2>2 DEF Slipped
    <3>2. QED
      BY <1>1, <1>3, <2>1, <2>2, <3>1 DEF FullInv, JobInv, SlipInv
  <2>3. CASE job.stage \in {"cohort", "recheck", "capture", "track"}
    <3>1. m \in job'.slip
      BY <2>1, <2>3 DEF Slipped
    <3>2. \A n \in Indexed(job.facts) : n \in Module
      BY DEF Indexed
    <3>3. QED
      BY <1>1, <1>3, <2>1, <2>3, <3>1, <3>2 DEF FullInv, JobInv, SlipInv, KeepsUse
  <2>4. CASE job.stage = "usage"
    <3>1. m \in job.todo => m \in job'.slip
      BY <2>1, <2>4 DEF Slipped
    <3>2. \A n \in Indexed(job.facts) : n \in Module
      BY DEF Indexed
    <3>3. QED
      BY <1>1, <1>3, <2>1, <2>4, <3>1, <3>2 DEF FullInv, JobInv, SlipInv, KeepsUse
  <2>5. CASE job.stage = "update"
    <3>1. m \in job.todo => m \in job'.slip
      BY <2>1, <2>5 DEF Slipped
    <3>2. \A n \in job.todo : n \in Module
      BY DEF FullInv, FullTypeOK, JobOf
    <3>3. QED
      BY <1>1, <1>3, <2>1, <2>5, <3>1, <3>2 DEF FullInv, JobInv, SlipInv
  <2>6. CASE job.stage = "idle"
    BY <1>1, <2>6 DEF SlipInv
  <2>7. QED
    BY <2>2, <2>3, <2>4, <2>5, <2>6 DEF FullInv, FullTypeOK, JobOf, Steps
<1>8. SeenInv'
  BY <1>1 DEF FullInv, JobInv, SeenInv, KeepsCohort
<1>9. MomentInv'
  <2>1. SUFFICES ASSUME job.stage = "recheck" PROVE MomentInv'
    BY <1>1 DEF MomentInv
  <2>2. PICK p \in past : \A n \in Module :
           /\ p[n] <= tree[n]
           /\ n \in DOMAIN job.seen =>
                 job.facts[n] <= p[n] /\ (n \notin job.todo => p[n] = job.facts[n])
    BY <2>1 DEF FullInv, JobInv, MomentInv
  <2>3. \A n \in Module : p[n] <= tree'[n]
    BY <1>2, <1>4, <2>2 DEF Texts
  <2>4. QED
    BY <1>1, <2>2, <2>3 DEF MomentInv, KeepsCohort
<1>10. EvidenceInv'
  BY <1>1 DEF FullInv, JobInv, EvidenceInv, EvidenceTrue, KeepsResult
<1>11. CaptureInv'
  <2>1. job.stage \in {"index", "cohort", "recheck"} => job'.captured = NoFacts
    BY <1>1 DEF FullInv, JobInv, CaptureInv
  <2>2. ASSUME job.stage \in {"cohort", "recheck", "capture"}
        PROVE  \E p \in past' : \A n \in Module :
                  /\ p[n] <= tree'[n]
                  /\ job'.facts[n] # 0 => job'.facts[n] <= p[n]
                  /\ job'.captured[n] # 0 => p[n] <= job'.captured[n]
    <3>1. PICK p \in past : \A n \in Module :
             /\ p[n] <= tree[n]
             /\ job.facts[n] # 0 => job.facts[n] <= p[n]
             /\ job.captured[n] # 0 => p[n] <= job.captured[n]
      BY <2>2 DEF FullInv, JobInv, CaptureInv
    <3>2. \A n \in Module : p[n] <= tree'[n]
      BY <1>2, <1>4, <3>1 DEF Texts
    <3>3. QED
      BY <1>1, <3>1, <3>2
  <2>3. QED
    BY <1>1, <2>1, <2>2 DEF CaptureInv
<1>12. PreparedInv'
  BY <1>1 DEF FullInv, JobInv, PreparedInv, KeepsResult
<1>13. GenSeen'
  BY <1>1 DEF FullInv, GenInv, GenSeen
<1>14. GenEvidence'
  BY <1>1 DEF FullInv, GenInv, GenEvidence, EvidenceTrue, Answered
<1>15. QED
  BY <1>5, <1>6, <1>7, <1>8, <1>9, <1>10, <1>11, <1>12, <1>13, <1>14
     DEF FullInv, JobInv, GenInv

(* What is prepared of the facts of a generation says their texts.         *)
LEMMA ClaimsSayFacts ==
    ASSUME NEW facts, NEW s \in Selection,
           NEW c \in DOMAIN Preparation(facts, s).claims,
           Preparation(facts, s).claims[c] # <<>>,
           NEW m \in DOMAIN Preparation(facts, s).claims[c]
    PROVE  Preparation(facts, s).claims[c][m] = facts[m]
<1>1. Preparation(facts, s).claims
         = [d \in CyclicComponents(HardEdges(facts)) |-> Claim(facts, d, s)]
  BY DEF Preparation
<1>2. Preparation(facts, s).claims[c] = Claim(facts, c, s)
  BY <1>1
<1>3. Claim(facts, c, s) = [n \in SourceClosure(facts, c, s) |-> facts[n]]
  BY <1>2 DEF Claim
<1>4. QED
  BY <1>2, <1>3

LEMMA SaveKeeps == FullInv /\ SaveGeneration => FullInv'
<1> SUFFICES ASSUME FullInv, SaveGeneration PROVE FullInv'
  OBVIOUS
<1>1. /\ tree' = tree /\ past' = past /\ job' = NoJob /\ gen' \in GenOf
      /\ AtStage("usage") /\ job.todo = {}
      /\ Published # {} => ClaimsConsistent(job.facts, job.evidence, job.prepared)
      /\ gen'.rev = gen.rev + 1 /\ gen'.facts = job.facts /\ gen'.tracked = job.tracked
      /\ gen'.proof = job.tracked /\ gen'.used = job.used /\ gen'.late = job.slip
      /\ gen'.evidence = job.evidence /\ gen'.freshness = Freshness(job.evidence)
      /\ gen'.resync = FALSE
      /\ \A k \in Receipt :
            gen'.receipts[k] = IF k \in Published
                               THEN [rev |-> gen.rev + 1, claims |-> job.prepared]
                               ELSE NoReceipt
  BY DoesSave DEF FullInv
<1>2. FullTypeOK'
  BY <1>1, NoJobType DEF FullInv, FullTypeOK
<1>3. GenSeen'
  BY <1>1 DEF FullInv, JobInv, SlipInv, GenSeen, AtStage
<1>4. gen'.freshness = "fresh" => EvidenceTrue(job.evidence, job.facts)
  BY <1>1 DEF FullInv, JobInv, EvidenceInv, Freshness, NoEvidence
<1>5. ASSUME NEW k \in Receipt, gen'.receipts[k] # NoReceipt
      PROVE  /\ Answered(k)'
             /\ \A c \in DOMAIN gen'.receipts[k].claims.claims :
                   gen'.receipts[k].claims.claims[c] # <<>> =>
                      \A m \in DOMAIN gen'.receipts[k].claims.claims[c] :
                         gen'.receipts[k].claims.claims[c][m] = gen'.facts[m]
             /\ \E p \in past' : \A m \in Indexed(gen'.facts) : p[m] = gen'.facts[m]
  <2>1. k \in Published /\ gen'.receipts[k] = [rev |-> gen.rev + 1, claims |-> job.prepared]
    BY <1>1, <1>5
  <2>2. gen'.receipts[k].rev = gen'.rev /\ gen'.receipts[k].claims = job.prepared
    BY <1>1, <2>1
  <2>3. ClaimsConsistent(job.facts, job.evidence, job.prepared)
    BY <1>1, <2>1
  <2>4. Freshness(job.evidence) = "fresh"
    BY <2>3 DEF ClaimsConsistent, Stable, Freshness
  <2>5. job.prepared # NoPreparation
    BY <2>1 DEF Published
  <2>6. PICK s \in Selection : job.prepared = Preparation(job.facts, s)
    BY <2>5 DEF FullInv, JobInv, PreparedInv
  <2>7. \E p \in past : \A m \in Indexed(job.facts) : p[m] = job.facts[m]
    BY <2>5 DEF FullInv, JobInv, PreparedInv
  <2>8. Answered(k)'
    BY <1>1, <1>5, <2>2, <2>3, <2>4 DEF Answered
  <2>9. ASSUME NEW c \in DOMAIN job.prepared.claims, job.prepared.claims[c] # <<>>,
               NEW m \in DOMAIN job.prepared.claims[c]
        PROVE  job.prepared.claims[c][m] = job.facts[m]
    BY <2>6, <2>9, ClaimsSayFacts
  <2>10. QED
    BY <1>1, <2>2, <2>7, <2>8, <2>9
<1>6. GenEvidence'
  BY <1>1, <1>4, <1>5 DEF GenEvidence, EvidenceTrue
<1>7. QED
  BY <1>1, <1>2, <1>3, <1>6, IdleKeeps DEF FullInv, GenInv

LEMMA CommitKeeps == FullInv /\ CommitUpdate => FullInv'
<1> SUFFICES ASSUME FullInv, CommitUpdate PROVE FullInv'
  OBVIOUS
<1>1. PICK m \in Module, v \in Nat :
         /\ job.stage = "update" /\ m \in job.todo /\ v = job.captured[m]
         /\ \/ \E lost \in BOOLEAN : UpdateParsed(m, v, lost)
            \/ UpdateUnparsed(m)
            \/ UpdateDeleted(m)
  BY DEF CommitUpdate, AtStage, FullInv, FullTypeOK, JobOf, Texts
<1>2. tree' = tree /\ past' = past /\ job' = NoJob
  BY DEF CommitUpdate
<1>3. v = tree[m] \/ m \in job.slip
  BY <1>1 DEF FullInv, JobInv, SlipInv
<1>4. gen \in GenOf
  BY DEF FullInv, FullTypeOK
<1>5. gen' \in GenOf /\ gen'.freshness # "fresh" /\ gen'.receipts = NoReceipts
  BY <1>1, DoesParsed, DoesUnparsed, DoesDeleted DEF FullInv
<1>6. GenSeen'
  <2>1. CASE UpdateUnparsed(m)
    BY <2>1, DoesUnparsed DEF FullInv, GenInv, GenSeen
  <2>2. ASSUME NEW lost \in BOOLEAN, UpdateParsed(m, v, lost)
        PROVE  GenSeen'
    <3>1. /\ gen'.facts = [gen.facts EXCEPT ![m] = v]
          /\ gen'.used = [gen.used EXCEPT ![m] = v]
          /\ gen'.tracked = [gen.tracked EXCEPT ![m] = Fingerprint(m)]
          /\ gen'.proof = [gen.proof EXCEPT ![m] = Fingerprint(m)]
          /\ gen'.late = (gen.late \ {m}) \cup job.slip /\ Fingerprint(m) = tree[m]
      BY <2>2, DoesParsed DEF FullInv
    <3>2. /\ gen'.facts[m] = v /\ gen'.used[m] = v
          /\ gen'.tracked[m] = tree[m] /\ gen'.proof[m] = tree[m]
      BY <1>4, <3>1 DEF GenOf, Texts
    <3>3. \A n \in Module \ {m} :
             /\ gen'.facts[n] = gen.facts[n] /\ gen'.used[n] = gen.used[n]
             /\ gen'.tracked[n] = gen.tracked[n] /\ gen'.proof[n] = gen.proof[n]
             /\ n \in gen.late => n \in gen'.late
      BY <1>4, <3>1 DEF GenOf, Texts
    <3>4. m \in gen'.late \/ v = tree[m]
      BY <1>3, <3>1
    <3>5. QED
      BY <3>2, <3>3, <3>4 DEF FullInv, GenInv, GenSeen, Indexed
  <2>3. CASE UpdateDeleted(m)
    <3>1. /\ gen'.facts = [gen.facts EXCEPT ![m] = 0]
          /\ gen'.used = [gen.used EXCEPT ![m] = 0]
          /\ gen'.proof = [gen.proof EXCEPT ![m] = 0]
          /\ gen'.tracked = [gen.tracked EXCEPT ![m] = Fingerprint(m)]
          /\ gen'.late = (gen.late \ {m}) \cup job.slip
      BY <2>3, DoesDeleted DEF FullInv
    <3>2. gen'.facts[m] = 0
      BY <1>4, <3>1 DEF GenOf, Texts
    <3>3. \A n \in Module \ {m} :
             /\ gen'.facts[n] = gen.facts[n] /\ gen'.used[n] = gen.used[n]
             /\ gen'.tracked[n] = gen.tracked[n] /\ gen'.proof[n] = gen.proof[n]
             /\ n \in gen.late => n \in gen'.late
      BY <1>4, <3>1 DEF GenOf, Texts
    <3>4. QED
      BY <3>2, <3>3 DEF FullInv, GenInv, GenSeen, Indexed
  <2>4. QED
    BY <1>1, <2>1, <2>2, <2>3
<1>7. GenEvidence'
  BY <1>5 DEF GenEvidence, NoReceipts
<1>8. FullTypeOK'
  BY <1>2, <1>5, NoJobType DEF FullInv, FullTypeOK
<1>9. QED
  BY <1>2, <1>6, <1>7, <1>8, IdleKeeps DEF FullInv, GenInv

LEMMA EndKeeps == FullInv /\ (AnalysisRaises \/ UpdateFails) => FullInv'
<1> SUFFICES ASSUME FullInv, AnalysisRaises \/ UpdateFails PROVE FullInv'
  OBVIOUS
<1>1. FilesAndGen /\ job' = NoJob
  BY DEF AnalysisRaises, UpdateFails, OnlyJob, FilesAndGen
<1>2. QED
  BY <1>1, NoJobType, IdleKeeps, QuietStep

LEMMA InitialInv == FullInit => FullInv
<1> SUFFICES ASSUME FullInit PROVE FullInv
  OBVIOUS
<1>1. /\ tree = FirstText /\ past = {FirstText} /\ gen = NoGeneration /\ job = NoJob
      /\ FirstText \in Texts
  BY AnalysisAssumption DEF FullInit, Texts
<1>2. NoReceipts \in [Receipt -> [rev : Nat, claims : Preparations]]
  BY DEF NoReceipts, NoReceipt, Preparations
<1>3. NoGeneration \in GenOf
  BY <1>2, TextsOfNobody DEF NoGeneration, GenOf, Evidences
<1>4. FullTypeOK
  BY <1>1, <1>3, NoJobType DEF FullTypeOK
<1>5. /\ job.stage = "idle" /\ job.facts = NoFacts /\ job.evidence = NoEvidence
      /\ job.prepared = NoPreparation
  BY <1>1 DEF NoJob
<1>6. FactsInv /\ SlipInv /\ SeenInv /\ MomentInv
  BY <1>5, TextsOfNobody DEF FactsInv, SlipInv, SeenInv, MomentInv
<1>7. EvidenceInv /\ CaptureInv /\ PreparedInv
  BY <1>5 DEF EvidenceInv, CaptureInv, PreparedInv
<1>8. GenSeen
  BY <1>1, TextsOfNobody DEF GenSeen, NoGeneration
<1>9. GenEvidence
  BY <1>1 DEF GenEvidence, NoGeneration, NoReceipts
<1>10. QED
  BY <1>4, <1>6, <1>7, <1>8, <1>9 DEF FullInv, JobInv, GenInv

LEMMA StepInv == FullInv /\ [FullNext]_analysisVars => FullInv'
<1> SUFFICES ASSUME FullInv, [FullNext]_analysisVars PROVE FullInv'
  OBVIOUS
<1>1. CASE UNCHANGED analysisVars
  BY <1>1 DEF analysisVars, FullInv, FullTypeOK, JobInv, GenInv, FactsInv, SlipInv, SeenInv,
              MomentInv, EvidenceInv, CaptureInv, PreparedInv, GenSeen, GenEvidence,
              EvidenceTrue, Answered
<1>2. CASE FullNext
  BY <1>2, EditKeeps, StartKeeps, IndexKeeps, BuildKeeps, ReadSourceKeeps, RecheckKeeps,
     RecheckSourceKeeps, ClassifyKeeps, EvidenceFailsKeeps, CaptureKeeps, PrepareKeeps,
     PreviewFailsKeeps, TrackKeeps, BeginUsageKeeps, UseKeeps, SaveKeeps, StartUpdateKeeps,
     CommitKeeps, EndKeeps DEF FullNext
<1>3. QED
  BY <1>1, <1>2

LEMMA AlwaysFullInv == FullSpec => []FullInv
BY InitialInv, StepInv, PTL DEF FullSpec

-----------------------------------------------------------------------------
(* The evidence and the claims of every saved generation are true of the   *)
(* files as they were (materialization.py, publication_binding.py).        *)
THEOREM EvidenceIsTrue == FullSpec => []EvidenceHolds
<1>1. FullInv => EvidenceHolds
  BY DEF FullInv, GenInv, GenEvidence, EvidenceTrue, EvidenceHolds
<1>2. QED
  BY AlwaysFullInv, <1>1, PTL

(* An edit that was not seen while facts were made is seen afterwards, but *)
(* for those the generation counts as late (state_manager.py,              *)
(* module_usage_reuse.py).                                                 *)
THEOREM EditsAreSeen == FullSpec => []EditsSeen
<1>1. FullInv => EditsSeen
  BY DEF FullInv, GenInv, GenSeen, EditsSeen, Indexed
<1>2. QED
  BY AlwaysFullInv, <1>1, PTL

(* Both together: what is said of a generation and of each of its modules  *)
(* is true of the texts that were there (facade.py, analyze_project;       *)
(* incremental/engine.py, update_file).                                    *)
THEOREM FactsAreHeld == FullSpec => []FactsHold
<1>1. EvidenceHolds /\ EditsSeen => FactsHold
  BY DEF FactsHold
<1>2. QED
  BY <1>1, EvidenceIsTrue, EditsAreSeen, PTL

------------------------------------------------------------------------------
(* What LIVE says of the generations it serves. *)


Sealed == {Unsealed} \cup [rev : Nat, passing : SUBSET {Component(c) : c \in Cycle}]

(* The generations there can be.                                           *)
AllGenerations ==
    FirstFacts \cup {Generation(s.cycles, s.issues, fresh, rc) :
                        s \in Sources, fresh \in BOOLEAN, rc \in Sealed}

HistoryInv ==
    /\ generations \in Seq(AllGenerations) /\ served \in 1 .. Len(generations)
    /\ \A r \in 1 .. Len(generations) : generations[r].receipt.rev \in {0, r}

(* The cycles a generation accepts as revision r.                          *)
PassedBy(g, r) ==
    IF g.receipt.rev = r THEN {c \in g.cycles : Component(c) \in g.receipt.passing} ELSE {}

Told(transitions, action) == {t.path : t \in {u \in transitions : u.action = action}}

(* Transitions from generation f, of revision x, to g, of revision y.      *)
Tells(transitions, f, x, g, y) ==
    /\ Told(transitions, "STRUCTURAL_ADDED") = g.cycles \ f.cycles
    /\ Told(transitions, "STRUCTURAL_REMOVED") = f.cycles \ g.cycles
    /\ Told(transitions, "MODEL_ACCEPTED") = (f.cycles \cap g.cycles) \cap (PassedBy(g, y) \ PassedBy(f, x))
    /\ Told(transitions, "WARNING_REACTIVATED") = (f.cycles \cap g.cycles) \cap (PassedBy(f, x) \ PassedBy(g, y))

(* The checkpoint is of two generations that were installed.               *)
CheckInv ==
    checkpoint # Nothing /\ checkpoint.status = "ok" =>
        /\ checkpoint.from \in 1 .. Len(generations) /\ checkpoint.to \in 1 .. Len(generations)
        /\ checkpoint.from < checkpoint.to
        /\ Tells(checkpoint.transitions, generations[checkpoint.from], checkpoint.from,
                 generations[checkpoint.to], checkpoint.to)

DiagInv == HistoryInv /\ CheckInv /\ WarningsAreTrue

LEMMA GenerationMade ==
  \A s \in Sources, fresh \in BOOLEAN, rc \in Sealed :
      Generation(s.cycles, s.issues, fresh, rc) \in AllGenerations
BY DEF AllGenerations

LEMMA GenerationIs ==
  ASSUME DiagAssumption, NEW g \in AllGenerations
  PROVE  g.cycles \subseteq Cycle /\ g.fresh \in BOOLEAN
         /\ g = [cycles |-> g.cycles, issues |-> g.issues, fresh |-> g.fresh, receipt |-> g.receipt]
BY DEF AllGenerations, DiagAssumption, Generation

(* A report of a fresh generation lists its cycles as accepted or active.  *)
Lists(report, g, r) ==
    report.accepted = PassedBy(g, r) /\ report.active = g.cycles \ PassedBy(g, r)

LEMMA ReportLists ==
  ASSUME NEW g, NEW r, NEW report, report = Report(g, r), report.status = "ok"
  PROVE  g.fresh /\ report.rev = r /\ report.epoch = epoch /\ Lists(report, g, r)
<1>1. CASE g.fresh
  BY <1>1 DEF Report, Partition, Eligible, Verifies, Lists, PassedBy
<1>2. CASE ~g.fresh
  BY <1>2 DEF Report, NoReport
<1> QED BY <1>1, <1>2

LEMMA ActionIs ==
  ASSUME NEW b \in {"MODEL_PASS", "ACTIVE", "ABSENT"}, NEW a \in {"MODEL_PASS", "ACTIVE", "ABSENT"}, b # a
  PROVE  /\ ActionFor(b, a) = "STRUCTURAL_REMOVED" <=> a = "ABSENT"
         /\ ActionFor(b, a) = "STRUCTURAL_ADDED" <=> b = "ABSENT"
         /\ ActionFor(b, a) = "MODEL_ACCEPTED" <=> b = "ACTIVE" /\ a = "MODEL_PASS"
         /\ ActionFor(b, a) = "WARNING_REACTIVATED" <=> b = "MODEL_PASS" /\ a = "ACTIVE"
<1>1. CASE a = "ABSENT"
  <2>1. ActionFor(b, a) = "STRUCTURAL_REMOVED" /\ b # "ABSENT"
    BY <1>1 DEF ActionFor
  <2> QED BY <1>1, <2>1
<1>2. CASE a # "ABSENT" /\ b = "ABSENT"
  BY <1>2 DEF ActionFor
<1>3. CASE a # "ABSENT" /\ b = "ACTIVE"
  BY <1>3 DEF ActionFor
<1>4. CASE a # "ABSENT" /\ b = "MODEL_PASS"
  BY <1>4 DEF ActionFor
<1> QED BY <1>1, <1>2, <1>3, <1>4

(* Where a path stands before and after says what happened to it.          *)
LEMMA TransitionsTell ==
  ASSUME NEW before, NEW after, NEW f, NEW x, NEW g, NEW y, Lists(before, f, x), Lists(after, g, y),
         f.cycles \subseteq Cycle, g.cycles \subseteq Cycle
  PROVE  Tells(Transitions(before, after), f, x, g, y)
<1>1. PassedBy(f, x) \subseteq f.cycles /\ PassedBy(g, y) \subseteq g.cycles
  BY DEF PassedBy
<1> PICK ts : ts = Transitions(before, after)
  OBVIOUS
<1>2. ASSUME NEW action
      PROVE  Told(ts, action) =
               {c \in Cycle : /\ Standing(before, c) # Standing(after, c)
                              /\ ActionFor(Standing(before, c), Standing(after, c)) = action}
  <2>1. ts = {[path |-> c, action |-> ActionFor(Standing(before, c), Standing(after, c))] :
                 c \in {d \in Cycle : Standing(before, d) # Standing(after, d)}}
    BY DEF Transitions
  <2>2. ASSUME NEW c \in Cycle, Standing(before, c) # Standing(after, c),
               ActionFor(Standing(before, c), Standing(after, c)) = action
        PROVE  c \in Told(ts, action)
    <3> PICK t : t = [path |-> c, action |-> ActionFor(Standing(before, c), Standing(after, c))]
      OBVIOUS
    <3>1. t \in ts /\ t.action = action /\ t.path = c
      BY <2>1, <2>2
    <3> QED BY <3>1 DEF Told
  <2>3. ASSUME NEW p \in Told(ts, action)
        PROVE  /\ p \in Cycle /\ Standing(before, p) # Standing(after, p)
               /\ ActionFor(Standing(before, p), Standing(after, p)) = action
    <3>1. PICK t \in ts : t.action = action /\ t.path = p
      BY <2>3 DEF Told
    <3>2. PICK c \in Cycle : /\ Standing(before, c) # Standing(after, c)
                             /\ t = [path |-> c, action |-> ActionFor(Standing(before, c), Standing(after, c))]
      BY <2>1, <3>1
    <3>3. p = c
      BY <3>1, <3>2
    <3> QED BY <3>1, <3>2, <3>3
  <2> QED BY <2>2, <2>3
<1>3. \A c \in Cycle :
        /\ Standing(before, c) = IF c \in PassedBy(f, x) THEN "MODEL_PASS"
                                 ELSE IF c \in f.cycles THEN "ACTIVE" ELSE "ABSENT"
        /\ Standing(after, c) = IF c \in PassedBy(g, y) THEN "MODEL_PASS"
                                ELSE IF c \in g.cycles THEN "ACTIVE" ELSE "ABSENT"
  BY DEF Standing, Lists
<1>8. ASSUME NEW c \in Cycle PROVE Standing(before, c) \in {"MODEL_PASS", "ACTIVE", "ABSENT"}
                                   /\ Standing(after, c) \in {"MODEL_PASS", "ACTIVE", "ABSENT"}
  BY DEF Standing
<1>4. Told(ts, "STRUCTURAL_ADDED") = g.cycles \ f.cycles
  <2>1. ASSUME NEW c \in Cycle
        PROVE  (/\ Standing(before, c) # Standing(after, c)
                /\ ActionFor(Standing(before, c), Standing(after, c)) = "STRUCTURAL_ADDED")
               <=> (c \notin f.cycles /\ c \in g.cycles)
    <3> PICK b, a : b = Standing(before, c) /\ a = Standing(after, c)
      OBVIOUS
    <3>1. CASE b = a
      BY <1>1, <1>3, <3>1
    <3>2. CASE b # a
      BY <1>1, <1>3, <1>8, <3>2, ActionIs
    <3> QED BY <3>1, <3>2
  <2>2. Told(ts, "STRUCTURAL_ADDED") = {c \in Cycle : c \notin f.cycles /\ c \in g.cycles}
    BY <1>2, <2>1
  <2> QED BY <1>1, <2>2
<1>5. Told(ts, "STRUCTURAL_REMOVED") = f.cycles \ g.cycles
  <2>1. ASSUME NEW c \in Cycle
        PROVE  (/\ Standing(before, c) # Standing(after, c)
                /\ ActionFor(Standing(before, c), Standing(after, c)) = "STRUCTURAL_REMOVED")
               <=> (c \in f.cycles /\ c \notin g.cycles)
    <3> PICK b, a : b = Standing(before, c) /\ a = Standing(after, c)
      OBVIOUS
    <3>1. CASE b = a
      BY <1>1, <1>3, <3>1
    <3>2. CASE b # a
      BY <1>1, <1>3, <1>8, <3>2, ActionIs
    <3> QED BY <3>1, <3>2
  <2>2. Told(ts, "STRUCTURAL_REMOVED") = {c \in Cycle : c \in f.cycles /\ c \notin g.cycles}
    BY <1>2, <2>1
  <2> QED BY <1>1, <2>2
<1>6. Told(ts, "MODEL_ACCEPTED") = (f.cycles \cap g.cycles) \cap (PassedBy(g, y) \ PassedBy(f, x))
  <2>1. ASSUME NEW c \in Cycle
        PROVE  (/\ Standing(before, c) # Standing(after, c)
                /\ ActionFor(Standing(before, c), Standing(after, c)) = "MODEL_ACCEPTED")
               <=> (c \in f.cycles /\ c \in PassedBy(g, y) /\ c \notin PassedBy(f, x))
    <3> PICK b, a : b = Standing(before, c) /\ a = Standing(after, c)
      OBVIOUS
    <3>1. CASE b = a
      BY <1>1, <1>3, <3>1
    <3>2. CASE b # a
      BY <1>1, <1>3, <1>8, <3>2, ActionIs
    <3> QED BY <3>1, <3>2
  <2>2. Told(ts, "MODEL_ACCEPTED") = {c \in Cycle : c \in f.cycles /\ c \in PassedBy(g, y) /\ c \notin PassedBy(f, x)}
    BY <1>2, <2>1
  <2> QED BY <1>1, <2>2
<1>7. Told(ts, "WARNING_REACTIVATED") = (f.cycles \cap g.cycles) \cap (PassedBy(f, x) \ PassedBy(g, y))
  <2>1. ASSUME NEW c \in Cycle
        PROVE  (/\ Standing(before, c) # Standing(after, c)
                /\ ActionFor(Standing(before, c), Standing(after, c)) = "WARNING_REACTIVATED")
               <=> (c \in g.cycles /\ c \in PassedBy(f, x) /\ c \notin PassedBy(g, y))
    <3> PICK b, a : b = Standing(before, c) /\ a = Standing(after, c)
      OBVIOUS
    <3>1. CASE b = a
      BY <1>1, <1>3, <3>1
    <3>2. CASE b # a
      BY <1>1, <1>3, <1>8, <3>2, ActionIs
    <3> QED BY <3>1, <3>2
  <2>2. Told(ts, "WARNING_REACTIVATED") = {c \in Cycle : c \in g.cycles /\ c \in PassedBy(f, x) /\ c \notin PassedBy(g, y)}
    BY <1>2, <2>1
  <2> QED BY <1>1, <2>2
<1> QED BY <1>4, <1>5, <1>6, <1>7 DEF Tells

LEMMA InitDiag == DiagAssumption /\ DiagInit => DiagInv
<1> SUFFICES ASSUME DiagAssumption, DiagInit PROVE DiagInv
  OBVIOUS
<1>1. PICK g \in FirstFacts : generations = <<g>>
  BY DEF DiagInit
<1>2. g \in AllGenerations /\ g.receipt.rev \in {0, 1}
  BY DEF AllGenerations, DiagAssumption
<1>3. generations \in Seq(AllGenerations) /\ Len(generations) = 1 /\ generations[1] = g
  BY <1>1, <1>2
<1> QED BY <1>2, <1>3 DEF DiagInit, DiagInv, HistoryInv, CheckInv, Nothing, WarningsAreTrue,
        HiddenWasAccepted, TransitionsAreTrue, AttentionIsHonest

(* A step that says nothing and leaves generations and checkpoint alone.   *)
LEMMA QuietKeeps ==
  DiagInv /\ UNCHANGED <<generations, served, checkpoint>> /\ answer' \in {Nothing, answer} => DiagInv'
<1> SUFFICES ASSUME DiagInv, UNCHANGED <<generations, served, checkpoint>>, answer' \in {Nothing, answer}
             PROVE  DiagInv'
  OBVIOUS
<1>1. HistoryInv' /\ CheckInv'
  BY DEF DiagInv, HistoryInv, CheckInv, Tells, Told, PassedBy
<1>2. ASSUME answer' = Nothing PROVE WarningsAreTrue'
  BY <1>2 DEF Nothing, WarningsAreTrue, HiddenWasAccepted, TransitionsAreTrue, AttentionIsHonest
<1>3. ASSUME answer' = answer PROVE WarningsAreTrue'
  <2>1. HiddenWasAccepted' /\ AttentionIsHonest'
    BY <1>3 DEF DiagInv, WarningsAreTrue, HiddenWasAccepted, AttentionIsHonest, AcceptedBy
  <2>2. TransitionsAreTrue'
    BY <1>3 DEF DiagInv, WarningsAreTrue, TransitionsAreTrue, AcceptedBy
  <2> QED BY <2>1, <2>2 DEF WarningsAreTrue
<1> QED BY <1>1, <1>2, <1>3 DEF DiagInv

LEMMA HiddenKeeps ==
  ASSUME DiagInv, UNCHANGED <<generations, served, checkpoint>>, answer'.is = "hidden",
         answer'.paths \subseteq AcceptedBy(answer'.about)
  PROVE  DiagInv'
BY DEF DiagInv, HistoryInv, CheckInv, Tells, Told, PassedBy, WarningsAreTrue, HiddenWasAccepted,
       TransitionsAreTrue, AttentionIsHonest, AcceptedBy

LEMMA FeedShowsKeeps == DiagInv /\ FeedShows => DiagInv'
<1> SUFFICES ASSUME DiagInv, FeedShows PROVE DiagInv'
  OBVIOUS
<1> PICK report : report = Projection
  OBVIOUS
<1>1. answer'.is = "hidden" /\ answer'.about = batch.rev
  BY DEF FeedShows
<1>2. CASE OfThisBatch(report)
  <2>1. report = ServedReport /\ report.status = "ok"
    BY <1>2 DEF OfThisBatch, Projection, NoReport
  <2>2. report.rev = served /\ Lists(report, generations[served], served)
    BY <2>1, ReportLists DEF ServedReport
  <2>3. report.accepted = AcceptedBy(batch.rev)
    BY <1>2, <2>2 DEF OfThisBatch, Lists, PassedBy, AcceptedBy
  <2>4. answer'.paths \subseteq report.accepted
    BY DEF FeedShows, LeftOut
  <2> QED BY <1>1, <2>3, <2>4, HiddenKeeps DEF FeedShows
<1>3. CASE ~OfThisBatch(report)
  <2>1. answer'.paths = {}
    BY <1>3 DEF FeedShows
  <2> QED BY <1>1, <2>1, HiddenKeeps DEF FeedShows
<1> QED BY <1>2, <1>3

LEMMA DesktopShowsKeeps == DiagInv /\ DesktopShows => DiagInv'
<1> SUFFICES ASSUME DiagInv, DesktopShows PROVE DiagInv'
  OBVIOUS
<1> PICK report : report = Projection
  OBVIOUS
<1>1. answer'.is = "hidden" /\ answer'.about = errors.rev
  BY DEF DesktopShows
<1>2. CASE OfThisAnalysis(report)
  <2>1. report = ServedReport /\ report.status = "ok"
    BY <1>2 DEF OfThisAnalysis, Projection, NoReport
  <2>2. report.rev = served /\ Lists(report, generations[served], served)
    BY <2>1, ReportLists DEF ServedReport
  <2>3. report.accepted = AcceptedBy(errors.rev)
    BY <1>2, <2>2 DEF OfThisAnalysis, Lists, PassedBy, AcceptedBy
  <2>4. answer'.paths \subseteq report.accepted
    BY DEF DesktopShows
  <2> QED BY <1>1, <2>3, <2>4, HiddenKeeps DEF DesktopShows
<1>3. CASE ~OfThisAnalysis(report)
  <2>1. answer'.paths = {}
    BY <1>3 DEF DesktopShows
  <2> QED BY <1>1, <2>1, HiddenKeeps DEF DesktopShows
<1> QED BY <1>2, <1>3

LEMMA AskSummaryKeeps == DiagInv /\ AskSummary => DiagInv'
<1> SUFFICES ASSUME DiagInv, AskSummary PROVE DiagInv'
  OBVIOUS
<1> PICK g : g = generations[served]
  OBVIOUS
<1>1. /\ answer'.is = "summary" /\ answer'.at = served /\ answer'.known = g.fresh
      /\ answer'.judged = ready /\ answer'.attention = Attention(g, Counted(g))
      /\ UNCHANGED <<generations, served, checkpoint>>
  BY DEF AskSummary
<1>2. ASSUME g.fresh PROVE Counted(g) = g.cycles \ (IF ready THEN AcceptedBy(served) ELSE {})
  <2>1. CASE ready
    <3>1. Projection = Report(g, served)
      BY <2>1 DEF Projection, ServedReport
    <3>2. Report(g, served).status = "ok" /\ Report(g, served).structural = g.cycles
      BY <1>2 DEF Report
    <3>3. Report(g, served).active = g.cycles \ PassedBy(g, served)
      BY <3>2, ReportLists DEF Lists
    <3> QED BY <2>1, <3>1, <3>2, <3>3 DEF Counted, PassedBy, AcceptedBy
  <2>2. CASE ~ready
    BY <2>2 DEF Counted, Projection, NoReport
  <2> QED BY <2>1, <2>2
<1>3. AttentionIsHonest'
  BY <1>1, <1>2 DEF AttentionIsHonest, Attention, AcceptedBy
<1> QED BY <1>1, <1>3 DEF DiagInv, HistoryInv, CheckInv, Tells, Told, PassedBy, WarningsAreTrue,
        HiddenWasAccepted, TransitionsAreTrue

LEMMA AskTransitionsKeeps == DiagInv /\ AskTransitions => DiagInv'
<1> SUFFICES ASSUME DiagInv, AskTransitions PROVE DiagInv'
  OBVIOUS
<1>1. UNCHANGED <<generations, served, checkpoint>>
  BY DEF AskTransitions
<1>2. CASE answer' = Nothing
  BY <1>1, <1>2, QuietKeeps
<1>3. CASE answer' # Nothing
  <2>1. /\ checkpoint # Nothing /\ checkpoint.status = "ok" /\ checkpoint.to = served
        /\ answer' = [is |-> "transitions", at |-> served, given |-> checkpoint]
    BY <1>3 DEF AskTransitions
  <2>2. /\ answer'.is = "transitions" /\ answer'.at = checkpoint.to /\ answer'.given = checkpoint
    BY <2>1
  <2>3. checkpoint.from < checkpoint.to
        /\ Tells(checkpoint.transitions, generations[checkpoint.from], checkpoint.from,
                 generations[checkpoint.to], checkpoint.to)
    BY <2>1 DEF DiagInv, CheckInv
  <2>4. TransitionsAreTrue'
    BY <1>1, <2>2, <2>3 DEF TransitionsAreTrue, Tells, Told, AcceptedBy, PassedBy
  <2> QED BY <1>1, <2>2, <2>4 DEF DiagInv, HistoryInv, CheckInv, Tells, Told, PassedBy,
          WarningsAreTrue, HiddenWasAccepted, AttentionIsHonest
<1> QED BY <1>2, <1>3

(* A generation more.                                                      *)
LEMMA GenerationsGrow ==
  ASSUME HistoryInv, NEW g \in AllGenerations, generations' = Append(generations, g)
  PROVE  /\ generations' \in Seq(AllGenerations) /\ Len(generations') = Len(generations) + 1
         /\ generations'[Len(generations) + 1] = g
         /\ \A r \in 1 .. Len(generations) : generations'[r] = generations[r]
BY DEF HistoryInv

LEMMA CommitAnalysisKeeps ==
  ASSUME DiagAssumption, DiagInv, NEW s \in Sources, NEW who,
         NEW passing \in SUBSET {Component(c) : c \in s.cycles},
         CommitAnalysis(who, s.cycles, s.issues, passing)
  PROVE  DiagInv'
<1> PICK n \in Nat : n = Len(generations)
  BY DEF DiagInv, HistoryInv
<1> PICK rc : rc = IF passing = {} THEN Unsealed ELSE [rev |-> n + 1, passing |-> passing]
  OBVIOUS
<1> PICK g : g = Generation(s.cycles, s.issues, TRUE, rc)
  OBVIOUS
<1>1. generations' = Append(generations, g) /\ answer' = Nothing /\ UNCHANGED <<served, checkpoint>>
  BY DEF CommitAnalysis
<1>2. rc \in Sealed /\ rc.rev \in {0, n + 1}
  BY DEF Sealed, Unsealed, DiagAssumption
<1>3. g \in AllGenerations /\ g.receipt = rc
  <2>1. TRUE \in BOOLEAN /\ g.receipt = rc
    BY DEF Generation
  <2> QED BY <1>2, <2>1, GenerationMade
<1>4. /\ generations' \in Seq(AllGenerations) /\ Len(generations') = n + 1
      /\ generations'[n + 1] = g /\ \A r \in 1 .. n : generations'[r] = generations[r]
  BY <1>1, <1>3, GenerationsGrow DEF DiagInv
<1>5. HistoryInv'
  <2>1. ASSUME NEW r \in 1 .. n + 1 PROVE generations'[r].receipt.rev \in {0, r}
    <3>1. CASE r \in 1 .. n
      BY <1>4, <3>1 DEF DiagInv, HistoryInv
    <3>2. CASE r = n + 1
      BY <1>2, <1>3, <1>4, <3>2
    <3> QED BY <3>1, <3>2
  <2>2. served' \in 1 .. n + 1
    BY <1>1 DEF DiagInv, HistoryInv
  <2> QED BY <1>4, <2>1, <2>2 DEF HistoryInv
<1>6. CheckInv'
  <2> PICK c : c = checkpoint
    OBVIOUS
  <2>1. ASSUME c # Nothing, c.status = "ok"
        PROVE  /\ c.from \in 1 .. n + 1 /\ c.to \in 1 .. n + 1 /\ c.from < c.to
               /\ Tells(c.transitions, generations'[c.from], c.from, generations'[c.to], c.to)
    <3>1. /\ c.from \in 1 .. n /\ c.to \in 1 .. n /\ c.from < c.to
          /\ Tells(c.transitions, generations[c.from], c.from, generations[c.to], c.to)
      BY <2>1 DEF DiagInv, CheckInv
    <3>2. generations'[c.from] = generations[c.from] /\ generations'[c.to] = generations[c.to]
      BY <1>4, <3>1
    <3>3. Tells(c.transitions, generations'[c.from], c.from, generations'[c.to], c.to)
      BY <3>1, <3>2
    <3> QED BY <3>1, <3>3
  <2>2. checkpoint' = c /\ Len(generations') = n + 1
    BY <1>1, <1>4
  <2> QED BY <2>1, <2>2 DEF CheckInv, Tells, Told, PassedBy
<1> QED BY <1>1, <1>5, <1>6 DEF DiagInv, Nothing, WarningsAreTrue, HiddenWasAccepted,
        TransitionsAreTrue, AttentionIsHonest

(* The checkpoint of an installation.                                      *)
LEMMA CheckpointTells ==
  ASSUME DiagAssumption, HistoryInv, NEW g \in AllGenerations, NEW r, NEW c,
         c = Checkpoint(ServedReport, Report(g, r)), c.status = "ok"
  PROVE  /\ c.from = served /\ c.to = r /\ served < r
         /\ Tells(c.transitions, generations[served], served, g, r)
<1> PICK before : before = ServedReport
  OBVIOUS
<1> PICK after : after = Report(g, r)
  OBVIOUS
<1>1. /\ before.status = "ok" /\ after.status = "ok" /\ before.rev < after.rev
      /\ c = [status |-> "ok", from |-> before.rev, to |-> after.rev, epoch |-> after.epoch,
              transitions |-> Transitions(before, after)]
  BY DEF Checkpoint, NoReport
<1>2. before.rev = served /\ Lists(before, generations[served], served)
  BY <1>1, ReportLists DEF ServedReport
<1>3. after.rev = r /\ Lists(after, g, r)
  BY <1>1, ReportLists
<1>4. generations[served].cycles \subseteq Cycle /\ g.cycles \subseteq Cycle
  BY GenerationIs DEF HistoryInv
<1>5. Tells(Transitions(before, after), generations[served], served, g, r)
  BY <1>2, <1>3, <1>4, TransitionsTell
<1> QED BY <1>1, <1>2, <1>3, <1>5

LEMMA UpdateKeeps ==
  ASSUME DiagAssumption, DiagInv, NEW s \in Sources, NEW complete \in BOOLEAN,
         DiagnosedUpdate(s.cycles, s.issues, complete)
  PROVE  DiagInv'
<1> PICK n \in Nat : n = Len(generations)
  BY DEF DiagInv, HistoryInv
<1> PICK g : g = Generation(s.cycles, s.issues, generations[served].fresh /\ complete, Unsealed)
  OBVIOUS
<1>1. /\ served = n /\ generations' = Append(generations, g) /\ served' = n + 1 /\ answer' = Nothing
      /\ checkpoint' = Checkpoint(ServedReport, Report(g, n + 1))
  BY DEF DiagnosedUpdate, Install
<1>2. generations[served].fresh \in BOOLEAN
  BY GenerationIs DEF DiagInv, HistoryInv
<1>3. g \in AllGenerations /\ g.receipt.rev = 0
  <2>1. (generations[served].fresh /\ complete) \in BOOLEAN /\ Unsealed \in Sealed
    BY <1>2 DEF Sealed
  <2>2. g.receipt.rev = 0
    BY DEF Generation, Unsealed
  <2> QED BY <2>1, <2>2, GenerationMade
<1>4. /\ generations' \in Seq(AllGenerations) /\ Len(generations') = n + 1
      /\ generations'[n + 1] = g /\ \A r \in 1 .. n : generations'[r] = generations[r]
  BY <1>1, <1>3, GenerationsGrow DEF DiagInv
<1>5. HistoryInv'
  BY <1>1, <1>3, <1>4 DEF DiagInv, HistoryInv
<1>6. CheckInv'
  <2> SUFFICES ASSUME checkpoint' # Nothing, checkpoint'.status = "ok"
               PROVE  /\ checkpoint'.from \in 1 .. Len(generations') /\ checkpoint'.to \in 1 .. Len(generations')
                      /\ checkpoint'.from < checkpoint'.to
                      /\ Tells(checkpoint.transitions, generations[checkpoint.from], checkpoint.from,
                               generations[checkpoint.to], checkpoint.to)'
    BY DEF CheckInv
  <2> PICK c : c = checkpoint'
    OBVIOUS
  <2>1. /\ c.from = n /\ c.to = n + 1 /\ Tells(c.transitions, generations[n], n, g, n + 1)
    BY <1>1, <1>3, CheckpointTells DEF DiagInv
  <2>2. n \in 1 .. n /\ generations'[n] = generations[n]
    BY <1>1, <1>4 DEF DiagInv, HistoryInv
  <2>3. Tells(checkpoint.transitions, generations[checkpoint.from], checkpoint.from,
              generations[checkpoint.to], checkpoint.to)'
    BY <1>4, <2>1, <2>2 DEF Tells, Told, PassedBy
  <2> QED BY <1>4, <2>1, <2>2, <2>3
<1> QED BY <1>1, <1>5, <1>6 DEF DiagInv, Nothing, WarningsAreTrue, HiddenWasAccepted,
        TransitionsAreTrue, AttentionIsHonest

LEMMA PublishKeeps == DiagAssumption /\ DiagInv /\ Publish => DiagInv'
<1> SUFFICES ASSUME DiagAssumption, DiagInv, Publish PROVE DiagInv'
  OBVIOUS
<1>1. generations' = generations /\ answer' = Nothing
  BY DEF Publish
<1>2. CASE served = Len(generations)
  BY <1>1, <1>2, QuietKeeps DEF Publish
<1>3. CASE served # Len(generations)
  <2> PICK n \in Nat : n = Len(generations)
    BY DEF DiagInv, HistoryInv
  <2> PICK g : g = generations[n]
    OBVIOUS
  <2>1. served' = n /\ checkpoint' = Checkpoint(ServedReport, Report(g, n))
    BY <1>3 DEF Publish, Install
  <2>2. g \in AllGenerations /\ n \in 1 .. n /\ served \in 1 .. n
    BY DEF DiagInv, HistoryInv
  <2>3. HistoryInv'
    BY <1>1, <2>1, <2>2 DEF DiagInv, HistoryInv
  <2>4. ASSUME checkpoint' # Nothing, checkpoint'.status = "ok"
        PROVE  /\ checkpoint'.from \in 1 .. Len(generations') /\ checkpoint'.to \in 1 .. Len(generations')
               /\ checkpoint'.from < checkpoint'.to
               /\ Tells(checkpoint.transitions, generations[checkpoint.from], checkpoint.from,
                        generations[checkpoint.to], checkpoint.to)'
    <3> PICK c : c = checkpoint'
      OBVIOUS
    <3>1. /\ c.from = served /\ c.to = n /\ served < n
          /\ Tells(c.transitions, generations[served], served, g, n)
      BY <2>1, <2>2, <2>4, CheckpointTells DEF DiagInv
    <3>2. Tells(checkpoint.transitions, generations[checkpoint.from], checkpoint.from,
                generations[checkpoint.to], checkpoint.to)'
      BY <1>1, <3>1 DEF Tells, Told, PassedBy
    <3> QED BY <1>1, <2>2, <3>1, <3>2
  <2>5. CheckInv'
    BY <2>4 DEF CheckInv
  <2> QED BY <1>1, <2>3, <2>5 DEF DiagInv, Nothing, WarningsAreTrue, HiddenWasAccepted,
          TransitionsAreTrue, AttentionIsHonest
<1> QED BY <1>2, <1>3

LEMMA RestartKeeps == DiagInv /\ Restart => DiagInv'
<1> SUFFICES ASSUME DiagInv, Restart PROVE DiagInv'
  OBVIOUS
<1>1. generations' = generations /\ served' = Len(generations) /\ checkpoint' = Nothing /\ answer' = Nothing
  BY DEF Restart
<1>2. Len(generations) \in 1 .. Len(generations)
  BY DEF DiagInv, HistoryInv
<1> QED BY <1>1, <1>2 DEF DiagInv, HistoryInv, CheckInv, Nothing, WarningsAreTrue, HiddenWasAccepted,
        TransitionsAreTrue, AttentionIsHonest

(* A warning is left out, answered for or counted out only on the word of  *)
(* the generation it is about, whatever LIVE serves when it is asked       *)
(* (ipc.py, watcher.py, cycle_warning_presentation.py).                    *)
THEOREM WarningsAreHonest ==
  ASSUME DiagAssumption
  PROVE  DiagSpec => []WarningsAreTrue
<1>1. DiagInit => DiagInv
  BY InitDiag
<1>2. ASSUME DiagInv, [DiagNext]_diagVars PROVE DiagInv'
  <2>1. ASSUME NEW s \in Sources, NEW complete \in BOOLEAN, DiagnosedUpdate(s.cycles, s.issues, complete)
        PROVE  DiagInv'
    BY <1>2, <2>1, UpdateKeeps
  <2>2. ASSUME NEW s \in Sources, NEW who \in {"desktop", "mcp"},
               NEW passing \in SUBSET {Component(c) : c \in s.cycles},
               CommitAnalysis(who, s.cycles, s.issues, passing)
        PROVE  DiagInv'
    BY <1>2, <2>2, CommitAnalysisKeeps
  <2>3. CASE Certificate
    BY <1>2, <2>3, QuietKeeps DEF Certificate
  <2>4. CASE FeedReads
    BY <1>2, <2>4, QuietKeeps DEF FeedReads
  <2>5. CASE UNCHANGED diagVars
    BY <1>2, <2>5, QuietKeeps DEF diagVars
  <2> QED BY <1>2, <2>1, <2>2, <2>3, <2>4, <2>5, PublishKeeps, RestartKeeps, AskTransitionsKeeps,
          AskSummaryKeeps, FeedShowsKeeps, DesktopShowsKeeps DEF DiagNext
<1>3. DiagInv => WarningsAreTrue
  BY DEF DiagInv
<1> QED BY <1>1, <1>2, <1>3, PTL DEF DiagSpec

==============================================================================
