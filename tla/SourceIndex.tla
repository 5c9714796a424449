------------------------------ MODULE SourceIndex ------------------------------
(***************************************************************************)
(* The index of the modules of a repository, symbol_engine/indexer, and    *)
(* the cache of what was extracted from each file, analysis/cache_manager. *)
(* The parent finds the files, worker processes read, look up or extract   *)
(* and store the facts of one file each, and the parent merges the results *)
(* as they complete.  The gate of full analyses admits one parent at a     *)
(* time, but the workers of a parent that died finish the file they have,  *)
(* and every writer of an entry uses the same temporary file.              *)
(***************************************************************************)
EXTENDS Integers, FiniteSets, Functions

CONSTANTS
    SourceFile,     \* the Python files below the root
    Text,           \* contents: [id, parses, guarded, opaque, bytes], where
                    \* id: their hash;
                    \* guarded: has imports under TYPE_CHECKING; opaque: a
                    \* statement that may change what TYPE_CHECKING is
    Excluded,       \* the files the user excludes
    Selected,       \* the modules whose source an analysis asks to keep
    MaxKept,        \* _MAX_ORIGINAL_WORKER_CAPTURE_TOTAL_BYTES
    FactKind,       \* symbols, references, collisions, tests, lineage
    Raising,        \* the kinds whose extraction aborts the index if it raises
    Dropped,        \* the kinds an entry loses when their extraction fails
    Release,        \* versions of the program
    Imports(_),     \* IMPORT_CLASSIFICATION_SEMANTICS_VERSION
    Schema(_, _),   \* the schema version of a kind of facts
    IndexWorker,
    MaxIndexes, MaxEdits, MaxHitches    \* bounds

ASSUME IndexAssumption ==
    /\ IsFiniteSet(SourceFile) /\ Excluded \subseteq SourceFile
    /\ \A s, t \in Text : s.id = t.id => s = t
    /\ \A t \in Text : t.id \notin {"nothing", "torn"} /\ t.parses \in BOOLEAN
    /\ FactKind # {} /\ Text # {}
    /\ Selected \subseteq SourceFile /\ Raising \cup Dropped \subseteq FactKind
    /\ MaxKept \in Nat

VARIABLES
    text,       \* the contents of each file
    during,     \* the contents each file had since the index began
    entries,    \* the cache: Empty, TornEntry, or what one store wrote
    temps,      \* the temporary file of each entry
    indexing,   \* the parent's state
    crew,       \* what each worker does
    indexes, edits, hitches

indexVars == <<text, during, entries, temps, indexing, crew, indexes, edits, hitches>>

Empty == [of |-> "nothing"]
TornEntry == [of |-> "torn"]
NoTask == [at |-> "idle"]
NoIndex == [at |-> "none"]

IndexInit ==
    /\ text \in [SourceFile -> Text]
    /\ during = [f \in SourceFile |-> {text[f]}]
    /\ entries = [f \in SourceFile |-> Empty]
    /\ temps = [f \in SourceFile |-> Empty]
    /\ indexing = NoIndex
    /\ crew = [w \in IndexWorker |-> NoTask]
    /\ indexes = 0 /\ edits = 0 /\ hitches = 0

Edit(f) ==
    /\ edits < MaxEdits /\ edits' = edits + 1
    /\ \E t \in Text \ {text[f]} :
         /\ text' = [text EXCEPT ![f] = t]
         /\ during' = [during EXCEPT ![f] = @ \union {t}]
    /\ UNCHANGED <<entries, temps, indexing, crew, indexes, hitches>>

-----------------------------------------------------------------------------
(* The facts of a file  *)

Fact(t, v, k) == [of |-> t.id, schema |-> Schema(v, k)]

(* Mutant of Usable: whatever was stored for the path is returned. *)
UsableByPath(entry, t, v) == entry.of \notin {"nothing", "torn"} /\ entry.imports = Imports(v)

\* A valid entry of these bytes, written under this classification.
Usable(entry, t, v) ==
    entry.of = t.id /\ entry.imports = Imports(v)

\* The kinds an entry has in the schema of this version.
Cached(entry, t, v) ==
    IF Usable(entry, t, v)
      THEN {k \in DOMAIN entry.facts : entry.facts[k].schema = Schema(v, k)}
      ELSE {}

\* The entry a worker stores: the facts it has now over those that were there.
EntryOf(old, t, v, have) ==
    LET kept == IF Usable(old, t, v) THEN old.facts ELSE <<>>
    IN [of |-> t.id, imports |-> Imports(v),
        facts |-> [k \in (DOMAIN kept \ Dropped) \union have |->
                     IF k \in have THEN Fact(t, v, k) ELSE kept[k]]]

-----------------------------------------------------------------------------
(* The parent  *)

\* The files that are found and not excluded are submitted.
BeginIndex ==
    /\ indexing.at # "open" /\ indexes < MaxIndexes /\ indexes' = indexes + 1
    /\ \E v \in Release :
         indexing' = [at |-> "open", version |-> v, left |-> SourceFile \ Excluded,
                      running |-> {}, modules |-> <<>>, skipped |-> {},
                      kept |-> <<>>, refused |-> FALSE]
    /\ during' = [f \in SourceFile |-> {text[f]}]
    /\ UNCHANGED <<text, entries, temps, crew, edits, hitches>>

Bytes(kept) == FoldFunction(LAMBDA t, total : t.bytes + total, 0, kept)

\* A selected module keeps its source, or the cohort is refused.
RecordCapture(parent, task) ==
    IF task.file \notin Selected THEN parent
    ELSE IF task.failed \/ Bytes(parent.kept) + task.text.bytes > MaxKept
      THEN [parent EXCEPT !.refused = TRUE]
      ELSE [parent EXCEPT !.kept = [f \in DOMAIN @ \union {task.file} |->
                                      IF f = task.file THEN task.text ELSE @[f]]]

\* One result: a skipped file, or a module with the facts that came with it.
Merged(parent, task) ==
    LET done == RecordCapture([parent EXCEPT !.running = @ \ {task.file}], task)
    IN IF task.failed
         THEN [done EXCEPT !.skipped = @ \union {task.file}]
         ELSE [done EXCEPT !.modules =
                 [f \in DOMAIN @ \union {task.file} |->
                    IF f = task.file THEN [text |-> task.text, facts |-> task.facts] ELSE @[f]]]

\* The imports under TYPE_CHECKING stay type-only if no file can have changed
\* what it is: none skipped, none left out, none of the indexed ones opaque.
TypingClosed(parent) ==
    /\ parent.skipped = {} /\ Excluded = {}
    /\ \A f \in DOMAIN parent.modules : ~parent.modules[f].text.opaque

FinalizeTypeOnlyImports(parent) ==
    {f \in DOMAIN parent.modules : parent.modules[f].text.guarded /\ TypingClosed(parent)}

CaptureResult(parent) ==
    IF parent.refused \/ Selected \ DOMAIN parent.kept # {} THEN <<>> ELSE parent.kept

EndIndex ==
    /\ indexing.at = "open" /\ indexing.left = {} /\ indexing.running = {}
    /\ indexing' = [at |-> "ended", version |-> indexing.version,
                    modules |-> indexing.modules, skipped |-> indexing.skipped,
                    typeOnly |-> FinalizeTypeOnlyImports(indexing),
                    cohort |-> CaptureResult(indexing)]
    /\ UNCHANGED <<text, during, entries, temps, crew, indexes, edits, hitches>>

\* The pool is terminated with its workers; those of a dead parent live on.
OrphansOnly ==
    [w \in IndexWorker |-> IF crew[w] # NoTask /\ crew[w].orphan THEN crew[w] ELSE NoTask]

\* A checkpoint finds the analysis cancelled: the lease of the pool raises.
Cancel ==
    /\ indexing.at = "open" /\ hitches < MaxHitches /\ hitches' = hitches + 1
    /\ indexing' = NoIndex
    /\ crew' = OrphansOnly
    /\ UNCHANGED <<text, during, entries, temps, indexes, edits>>

\* The parent dies; its workers finish what they have and deliver to nobody.
ParentDies ==
    /\ indexing.at = "open" /\ hitches < MaxHitches /\ hitches' = hitches + 1
    /\ indexing' = NoIndex
    /\ crew' = [w \in IndexWorker |->
                  IF crew[w] = NoTask THEN NoTask ELSE [crew[w] EXCEPT !.orphan = TRUE]]
    /\ UNCHANGED <<text, during, entries, temps, indexes, edits>>

-----------------------------------------------------------------------------
(* A worker  *)

Step(w, step) == crew[w].at = step

\* A file is taken and read once: what follows uses these bytes only.
ReadSource(w) ==
    /\ indexing.at = "open" /\ crew[w] = NoTask
    /\ \E f \in indexing.left :
         /\ crew' = [crew EXCEPT ![w] =
              [at |-> "read", file |-> f, text |-> text[f], version |-> indexing.version,
               orphan |-> FALSE, failed |-> FALSE, facts |-> <<>>]]
         /\ indexing' = [indexing EXCEPT !.left = @ \ {f}, !.running = @ \union {f}]
    /\ UNCHANGED <<text, during, entries, temps, indexes, edits, hitches>>

\* The file cannot be read.
ReadFails(w) ==
    /\ Step(w, "read") /\ hitches < MaxHitches /\ hitches' = hitches + 1
    /\ crew' = [crew EXCEPT ![w] = [@ EXCEPT !.at = "deliver", !.failed = TRUE]]
    /\ UNCHANGED <<text, during, entries, temps, indexing, indexes, edits>>

FactsOf(entry, t, v, have) == [k \in have |->
    IF k \in Cached(entry, t, v) THEN entry.facts[k] ELSE Fact(t, v, k)]

\* Every fact is cached: the file is not parsed.
TakeCached(w) ==
    LET task == crew[w] IN
    /\ Step(w, "read")
    /\ Cached(entries[task.file], task.text, task.version) = FactKind
    /\ crew' = [crew EXCEPT ![w] = [@ EXCEPT !.at = "deliver",
                  !.facts = FactsOf(entries[task.file], task.text, task.version, FactKind)]]
    /\ UNCHANGED <<text, during, entries, temps, indexing, indexes, edits, hitches>>

ParseFails(w) ==
    /\ Step(w, "read") /\ ~crew[w].text.parses
    /\ crew' = [crew EXCEPT ![w] = [@ EXCEPT !.at = "deliver", !.failed = TRUE]]
    /\ UNCHANGED <<text, during, entries, temps, indexing, indexes, edits, hitches>>

\* The missing kinds are extracted; those whose extraction failed are neither
\* delivered nor stored.
Extract(w) ==
    LET task == crew[w]
        entry == entries[task.file]
        cached == Cached(entry, task.text, task.version)
    IN
    /\ Step(w, "read") /\ task.text.parses /\ cached # FactKind
    /\ \E lost \in SUBSET (FactKind \ (cached \union Raising)) :
         /\ hitches + Cardinality(lost) <= MaxHitches
         /\ hitches' = hitches + Cardinality(lost)
         /\ LET have == FactKind \ lost IN
            crew' = [crew EXCEPT ![w] =
              [at |-> "store", file |-> task.file, text |-> task.text,
               version |-> task.version, orphan |-> task.orphan, failed |-> FALSE,
               facts |-> FactsOf(entry, task.text, task.version, have),
               put |-> EntryOf(entry, task.text, task.version, have), handle |-> "none"]]
    /\ UNCHANGED <<text, during, entries, temps, indexing, indexes, edits>>

\* An extraction raises: the result does, and the index is aborted.
ExtractRaises(w) ==
    /\ Step(w, "read") /\ ~crew[w].orphan /\ crew[w].text.parses
    /\ Raising \ Cached(entries[crew[w].file], crew[w].text, crew[w].version) # {}
    /\ hitches < MaxHitches /\ hitches' = hitches + 1
    /\ indexing' = NoIndex
    /\ crew' = OrphansOnly
    /\ UNCHANGED <<text, during, entries, temps, indexes, edits>>

-----------------------------------------------------------------------------
(* CacheManager.set  *)

\* The others that have the temporary file open have the same file open.
Shares(w, x) == x # w /\ crew[x].at \in {"write", "replace"} /\ crew[x].file = crew[w].file

OpenTemp(w) ==
    /\ Step(w, "store")
    /\ crew' = [crew EXCEPT ![w] = [@ EXCEPT !.at = "write", !.handle = "temp"]]
    /\ temps' = [temps EXCEPT ![crew[w].file] = TornEntry]
    /\ UNCHANGED <<text, during, entries, indexing, indexes, edits, hitches>>

\* Two texts in one file are no JSON document.
WriteTemp(w) ==
    LET task == crew[w]
        Writes(files) == \E put \in IF \E x \in IndexWorker : Shares(w, x)
                                      THEN {task.put, TornEntry} ELSE {task.put} :
                           files' = [files EXCEPT ![task.file] = put]
    IN
    /\ Step(w, "write")
    /\ crew' = [crew EXCEPT ![w] = [@ EXCEPT !.at = "replace"]]
    /\ CASE task.handle = "temp" -> Writes(temps) /\ UNCHANGED entries
         [] task.handle = "entry" -> Writes(entries) /\ UNCHANGED temps
         [] OTHER -> UNCHANGED <<entries, temps>>
    /\ UNCHANGED <<text, during, indexing, indexes, edits, hitches>>

\* The temporary file becomes the entry, whoever wrote it last; without one the
\* store gives up.
MoveTemp(w) ==
    LET f == crew[w].file
        Moved(x) == IF x = w THEN [crew[w] EXCEPT !.at = "deliver"]
                    ELSE IF ~(Shares(w, x) /\ temps[f] # Empty) THEN crew[x]
                    ELSE [crew[x] EXCEPT !.handle = IF @ = "temp" THEN "entry" ELSE "gone"]
    IN
    /\ Step(w, "replace")
    /\ crew' = [x \in IndexWorker |-> Moved(x)]
    /\ entries' = [entries EXCEPT ![f] = IF temps[f] = Empty THEN @ ELSE temps[f]]
    /\ temps' = [temps EXCEPT ![f] = Empty]
    /\ UNCHANGED <<text, during, indexing, indexes, edits, hitches>>

\* A call of the store raises an OSError, which it swallows.
StoreFails(w) ==
    /\ crew[w].at \in {"store", "replace"} /\ hitches < MaxHitches /\ hitches' = hitches + 1
    /\ crew' = [crew EXCEPT ![w].at = "deliver"]
    /\ UNCHANGED <<text, during, entries, temps, indexing, indexes, edits>>

\* The parent merges the result of a file, in the order the files complete.
Deliver(w) ==
    /\ Step(w, "deliver")
    /\ crew' = [crew EXCEPT ![w] = NoTask]
    /\ indexing' = IF crew[w].orphan THEN indexing ELSE Merged(indexing, crew[w])
    /\ UNCHANGED <<text, during, entries, temps, indexes, edits, hitches>>

IndexStep(w) ==
    \/ ReadSource(w) \/ ReadFails(w) \/ TakeCached(w) \/ ParseFails(w)
    \/ Extract(w) \/ ExtractRaises(w)
    \/ OpenTemp(w) \/ WriteTemp(w) \/ MoveTemp(w) \/ StoreFails(w) \/ Deliver(w)

IndexNext ==
    \/ BeginIndex \/ EndIndex \/ Cancel \/ ParentDies
    \/ \E f \in SourceFile : Edit(f)
    \/ \E w \in IndexWorker : IndexStep(w)

IndexSpec == IndexInit /\ [][IndexNext]_indexVars

-----------------------------------------------------------------------------

(* An index that ended is what a cold one would be: every module carries   *)
(* the facts of the bytes one read of its file found, while the index ran, *)
(* in the schema of the version that runs, whatever other versions, failed *)
(* extractions and workers of dead parents left in the cache (indexer.py,  *)
(* _process_single_file; cache_manager.py:12: "a stale entry is never      *)
(* returned").                                                             *)
FactsAreExtracted ==
    indexing.at = "ended" =>
        \A f \in DOMAIN indexing.modules :
          LET module == indexing.modules[f] IN
          /\ module.text \in during[f] /\ module.text.parses
          /\ \A k \in DOMAIN module.facts :
               module.facts[k] = Fact(module.text, indexing.version, k)
          /\ Raising \subseteq DOMAIN module.facts

(* The index keeps an import type-only only if no file that is part of the *)
(* program, indexed or not, could have changed TYPE_CHECKING, and it keeps *)
(* the source of all the selected modules, as indexed, or of none          *)
(* (indexer.py, _finalize_type_only_imports and capture_result_fields).    *)
IndexProves ==
    indexing.at = "ended" =>
        /\ indexing.typeOnly # {} =>
             \A f \in SourceFile :
               /\ f \in DOMAIN indexing.modules
               /\ indexing.modules[f].text.parses /\ ~indexing.modules[f].text.opaque
        /\ indexing.cohort # <<>> =>
             /\ DOMAIN indexing.cohort = Selected
             /\ \A f \in Selected : f \in DOMAIN indexing.modules
                                    /\ indexing.cohort[f] = indexing.modules[f].text

(* An index that ended is what a cold one would be, and keeps only the     *)
(* type-only imports and the sources it can prove (indexer.py,             *)
(* index_repository; cache_manager.py, CacheManager).                      *)
IndexIsTrue == FactsAreExtracted /\ IndexProves
=============================================================================
