---------------------------- MODULE CanonicalStore ----------------------------
(***************************************************************************)
(* The snapshot store of one repository, live_state/store.py: a generation *)
(* is a state file, a file-state file, a lineage manifest and one chunk    *)
(* per source.  A save writes all of them under names of its own, except   *)
(* that it names the chunks of the previous generation again where the     *)
(* source did not change, and commits by replacing the metadata file.      *)
(*                                                                         *)
(* Savers are serialized by the lock file of the store.  Readers take no   *)
(* lock: they read the metadata and then the files it names, one by one.   *)
(* A reader revalidates every chunk, unless the validation cache says that *)
(* the same bytes passed before.                                           *)
(*                                                                         *)
(* Files of a committed generation are never removed; a generation is      *)
(* known by the token of the save that wrote it.                           *)
(***************************************************************************)
EXTENDS Naturals, FiniteSets

CONSTANTS
    Saver,      \* processes that save
    Service,    \* those that keep the state in memory: LIVE services
    StoreReader,    \* processes that load snapshots without a lock
    Source,     \* source keys of the lineage facts
    Slice,      \* what the lineage facts of one source may be
    Valid,      \* the slices that pass revalidation
    Extraction, \* what a full analysis may extract
    Missing,    \* no file, no slice, no generation
    MaxToken,   \* bound: saves that get a token
    MaxFaults   \* bound: saves that raise, and crashes

Lineage == [Source -> Slice \cup {Missing}]

ASSUME StoreAssumption ==
    /\ Extraction \subseteq Lineage
    /\ Service \subseteq Saver
    /\ Valid \subseteq Slice
    /\ Missing \notin Slice \cup Saver \cup Nat
    /\ Missing \notin [revision : Nat, token : Nat] \cup [revision : Nat, content : Lineage]
    /\ Missing \notin [Source -> Nat \cup {Missing}] \cup [file : Nat, bytes : Slice]
    /\ MaxToken \in Nat /\ MaxFaults \in Nat

Token == 1 .. MaxToken

VARIABLES
    metadata,   \* engine_state.meta.json: revision and token, or Missing
    coreFile,   \* state file of each token: the revision embedded, or Missing
    fileState,  \* file-state file of each token
    manifest,   \* manifest of each token: source to the token of its chunk
    chunk,      \* chunk file of each token and source
    storeLock,      \* the saver that holds engine_state.lock
    nextToken,
    save,       \* the save each saver is in
    held,       \* the state each saver has in memory
    previous,   \* the state it knows to be persisted: previous_state
    faults,     \* how many there were
    given,      \* history: the lineage given to the save of each token
    validated,  \* lineage_validation_cache.json
    read        \* the load each reader is in

generations == <<metadata, coreFile, fileState, manifest, chunk>>
savers == <<storeLock, nextToken, save, held, previous, given, faults>>
storeVars == <<generations, savers, validated, read>>

NoSave == [at |-> "idle"]
NoRead == [at |-> "idle"]

StoreInit ==
    /\ metadata = Missing
    /\ coreFile = [t \in Token |-> Missing]
    /\ fileState = [t \in Token |-> Missing]
    /\ manifest = [t \in Token |-> Missing]
    /\ chunk = [t \in Token |-> [s \in Source |-> Missing]]
    /\ storeLock = Missing
    /\ nextToken = 1
    /\ save = [w \in Saver |-> NoSave]
    /\ held = [w \in Saver |-> Missing]
    /\ previous = [w \in Saver |-> Missing]
    /\ faults = 0
    /\ given = [t \in Token |-> Missing]
    /\ validated = Missing
    /\ read = [r \in StoreReader |-> NoRead]

CurrentRevision == IF metadata = Missing THEN 0 ELSE metadata.revision

(* What the files say of the generation the metadata names. *)
ChunkOf(token, s) ==
    IF manifest[token][s] = Missing THEN Missing ELSE chunk[manifest[token][s]][s]
Stored(token) == [s \in Source |-> ChunkOf(token, s)]

Acceptable(lineage) == \A s \in Source : lineage[s] \in Valid \cup {Missing}

(* Mutant of Unchanged: sources are compared by key, not by slice. *)
UnchangedKeys(w, s) ==
    {other \in Source : previous[w] # Missing /\ previous[w].lineage[other] # Missing}

(* Sources whose slice object is still the one that was persisted last,    *)
(* after source s was extracted again.                                     *)
Unchanged(w, s) ==
    {other \in Source \ {s} :
        /\ previous[w] # Missing /\ held[w].since = previous[w].revision
        /\ held[w].lineage[other] = previous[w].lineage[other]}

(* A full analysis, which extracts everything again, asks for the revision *)
(* after the one it read; an update of a service for the one after the     *)
(* revision it has in memory.                                              *)
RequestSave(w) ==
    /\ save[w] = NoSave
    /\ w \in Service => held[w] # Missing
    /\ save' = [save EXCEPT ![w] =
                  [at |-> "lock", revision |-> 1 + IF w \in Service THEN held[w].revision
                                                   ELSE CurrentRevision]]
    /\ UNCHANGED <<generations, storeLock, nextToken, held, previous, given, validated, read, faults>>

(* What is saved, and the sources whose slice objects are as persisted: an *)
(* update changes one source and keeps the slice objects of the others.    *)
Candidates(w) ==
    IF w \in Service
    THEN {[lineage |-> [held[w].lineage EXCEPT ![s] = slice], same |-> Unchanged(w, s)] :
             s \in Source, slice \in Slice \cup {Missing}}
    ELSE [lineage : Extraction, same : {{}}]

(* The service loads the committed generation, under the store lock: new   *)
(* objects, and previous_state stays what it was.                          *)
Refresh(w) ==
    /\ held[w] # Missing /\ save[w] = NoSave /\ storeLock = Missing
    /\ metadata # Missing
    /\ Acceptable(Stored(metadata.token))
    /\ held' = [held EXCEPT ![w] = [revision |-> metadata.revision, since |-> 0,
                                    lineage |-> Stored(metadata.token)]]
    /\ held' # held
    /\ UNCHANGED <<generations, storeLock, nextToken, save, previous, given, validated, read, faults>>

(* _reusable_lineage_manifest_sources: the chunks of the current           *)
(* generation, if previous_state is that generation.                       *)
Reusable(w) ==
    IF metadata # Missing /\ previous[w] # Missing
       /\ previous[w].revision = metadata.revision
    THEN manifest[metadata.token]
    ELSE [s \in Source |-> Missing]

(* The lock is taken, the metadata read, and the exact revision checked.   *)
Lock(w) ==
    /\ save[w].at = "lock"
    /\ storeLock = Missing
    /\ storeLock' = w
    /\ IF save[w].revision = CurrentRevision + 1
       THEN /\ nextToken \in Token
            /\ nextToken' = nextToken + 1
            /\ \E candidate \in Candidates(w) :
                   /\ given' = [given EXCEPT ![nextToken] = candidate.lineage]
                   /\ save' = [save EXCEPT ![w] =
                        [at |-> "lineage", revision |-> @.revision, token |-> nextToken,
                         lineage |-> candidate.lineage, committed |-> FALSE,
                         entries |-> [s \in Source |->
                            IF s \in candidate.same /\ Reusable(w)[s] # Missing
                               /\ chunk[Reusable(w)[s]][s] # Missing
                            THEN Reusable(w)[s] ELSE Missing]]]
       ELSE /\ save' = [save EXCEPT ![w] = [at |-> "conflict"]]
            /\ UNCHANGED <<nextToken, given>>
    /\ UNCHANGED <<generations, held, previous, validated, read, faults>>

(* SnapshotRevisionConflict: the lock is released, no file was written.    *)
Conflict(w) ==
    /\ save[w].at = "conflict"
    /\ storeLock' = Missing
    /\ save' = [save EXCEPT ![w] = NoSave]
    /\ UNCHANGED <<generations, nextToken, held, previous, given, validated, read, faults>>

(* The lock is not available for five seconds: nothing was written.        *)
LockTimesOut(w) ==
    /\ save[w].at = "lock"
    /\ storeLock # Missing
    /\ save' = [save EXCEPT ![w] = NoSave]
    /\ UNCHANGED <<generations, storeLock, nextToken, held, previous, given, validated, read, faults>>

Todo(w) == {s \in Source : save[w].lineage[s] # Missing /\ save[w].entries[s] = Missing}

WithChunks(w, sources) ==
    /\ chunk' = [chunk EXCEPT ![save[w].token] =
                   [s \in Source |-> IF s \in sources THEN save[w].lineage[s] ELSE @[s]]]

Named(w, sources) ==
    [s \in Source |-> IF s \in sources THEN save[w].token ELSE save[w].entries[s]]

(* _write_split_lineage_generation: the missing chunks, then the manifest. *)
WriteLineage(w) ==
    /\ save[w].at = "lineage"
    /\ WithChunks(w, Todo(w))
    /\ manifest' = [manifest EXCEPT ![save[w].token] = Named(w, Todo(w))]
    /\ save' = [save EXCEPT ![w].at = "files", ![w].entries = Named(w, Todo(w))]
    /\ UNCHANGED <<metadata, coreFile, fileState, storeLock, nextToken, held,
                   previous, given, validated, read, faults>>

(* The state file and the file states. *)
WriteFiles(w) ==
    /\ save[w].at = "files"
    /\ coreFile' = [coreFile EXCEPT ![save[w].token] = save[w].revision]
    /\ fileState' = [fileState EXCEPT ![save[w].token] = save[w].revision]
    /\ save' = [save EXCEPT ![w].at = "commit"]
    /\ UNCHANGED <<metadata, manifest, chunk, storeLock, nextToken, held,
                   previous, given, validated, read, faults>>

CommitGeneration(w) ==
    /\ save[w].at = "commit"
    /\ metadata' = [revision |-> save[w].revision, token |-> save[w].token]
    /\ save' = [save EXCEPT ![w].at = "clean", ![w].committed = TRUE]
    /\ UNCHANGED <<coreFile, fileState, manifest, chunk, storeLock, nextToken, held,
                   previous, given, validated, read, faults>>

(* Any write or replacement raises, before or after the chunks. *)
SaveRaises(w) ==
    /\ faults < MaxFaults /\ faults' = faults + 1
    /\ save[w].at \in {"lineage", "files", "commit"}
    /\ \E sources \in {{}, Todo(w)} :
         /\ WithChunks(w, sources)
         /\ save' = [save EXCEPT ![w].at = "clean", ![w].entries = Named(w, sources)]
    /\ UNCHANGED <<metadata, coreFile, fileState, manifest, storeLock, nextToken, held,
                   previous, given, validated, read>>

(* Mutant of Created: a failing save removes every chunk it names. *)
CreatedOrNamed(w) == {s \in Source : save[w].entries[s] # Missing}

(* The chunks a failing save removes: those it created. *)
Created(w) == {s \in Source : save[w].entries[s] = save[w].token}

(* The finally clause: a failed save removes its files, each removal may   *)
(* fail, and the lock is released.  A release that raises reports even a   *)
(* committed save as failed.                                               *)
FinishSave(w) ==
    /\ save[w].at = "clean"
    /\ storeLock' = Missing
    /\ save' = [save EXCEPT ![w] = NoSave]
    /\ IF save[w].committed
       THEN /\ UNCHANGED <<coreFile, fileState, manifest, chunk>>
            /\ \/ w \in Service /\ LET state == [revision |-> save[w].revision, since |-> save[w].revision,
                                lineage |-> save[w].lineage]
                  IN /\ held' = [held EXCEPT ![w] = state]
                     /\ previous' = [previous EXCEPT ![w] =
                                       [revision |-> state.revision, lineage |-> state.lineage]]
               \/ UNCHANGED <<held, previous>>
       ELSE /\ UNCHANGED <<held, previous>>
            /\ \/ /\ chunk' = [t \in Token |-> [s \in Source |->
                         IF s \in Created(w) /\ t = save[w].entries[s] THEN Missing ELSE chunk[t][s]]]
                  /\ manifest' = [manifest EXCEPT ![save[w].token] = Missing]
                  /\ coreFile' = [coreFile EXCEPT ![save[w].token] = Missing]
                  /\ fileState' = [fileState EXCEPT ![save[w].token] = Missing]
               \/ UNCHANGED <<coreFile, fileState, manifest, chunk>>
    /\ given' = IF save[w].committed THEN given
                ELSE [given EXCEPT ![save[w].token] = Missing]
    /\ UNCHANGED <<metadata, nextToken, validated, read, faults>>

(* A process ends, and the system frees its lock. *)
SaverCrash(w) ==
    /\ faults < MaxFaults /\ faults' = faults + 1
    /\ save[w] # NoSave \/ held[w] # Missing
    /\ save' = [save EXCEPT ![w] = NoSave]
    /\ storeLock' = IF storeLock = w THEN Missing ELSE storeLock
    /\ held' = [held EXCEPT ![w] = Missing]
    /\ previous' = [previous EXCEPT ![w] = Missing]
    /\ UNCHANGED <<generations, nextToken, given, validated, read>>

(* A process that starts loads the snapshot: held and previous_state are   *)
(* one object.                                                             *)
StartService(w) ==
    /\ w \in Service /\ save[w] = NoSave /\ held[w] = Missing
    /\ metadata # Missing /\ Acceptable(Stored(metadata.token))
    /\ LET lineage == Stored(metadata.token)
       IN /\ held' = [held EXCEPT ![w] = [revision |-> metadata.revision,
                                          since |-> metadata.revision, lineage |-> lineage]]
          /\ previous' = [previous EXCEPT ![w] = [revision |-> metadata.revision,
                                                  lineage |-> lineage]]
    /\ UNCHANGED <<generations, storeLock, nextToken, save, given, validated, read, faults>>

SaverStep(w) ==
    \/ RequestSave(w) \/ Refresh(w) \/ StartService(w)
    \/ Lock(w) \/ Conflict(w) \/ LockTimesOut(w)
    \/ WriteLineage(w) \/ WriteFiles(w)
    \/ CommitGeneration(w) \/ SaveRaises(w) \/ FinishSave(w) \/ SaverCrash(w)

-----------------------------------------------------------------------------
(* load_snapshot and FileStateManager._load, without a lock *)

ReadMetadata(r) ==
    /\ read[r] = NoRead
    /\ metadata # Missing
    /\ read' = [read EXCEPT ![r] = [at |-> "core", revision |-> metadata.revision,
                                    token |-> metadata.token]]
    /\ UNCHANGED <<generations, savers, validated>>

Rejected(r) == [at |-> "rejected", token |-> read[r].token, revision |-> read[r].revision]

(* The state file must embed the metadata that was read, and the file      *)
(* states are trusted only if they are of the same revision.               *)
ReadCore(r) ==
    /\ read[r].at = "core"
    /\ read' = [read EXCEPT ![r] =
         IF coreFile[@.token] = @.revision /\ manifest[@.token] # Missing
         THEN [at |-> "chunks", revision |-> @.revision, token |-> @.token,
               trustedFiles |-> fileState[@.token] = @.revision,
               cache |-> validated,
               got |-> [s \in Source |-> Missing],
               left |-> {s \in Source : manifest[@.token][s] # Missing}]
         ELSE Rejected(r)]
    /\ UNCHANGED <<generations, savers, validated>>

(* One chunk: its bytes, and whether the cache knows them. *)
Known(r, s, slice) ==
    /\ read[r].cache # Missing
    /\ read[r].cache[s] = [file |-> manifest[read[r].token][s], bytes |-> slice]

ReadChunk(r) ==
    /\ read[r].at = "chunks"
    /\ \E s \in read[r].left :
         LET slice == ChunkOf(read[r].token, s)
         IN read' = [read EXCEPT ![r] =
              IF slice = Missing \/ (slice \notin Valid /\ ~Known(r, s, slice))
              THEN Rejected(r)
              ELSE [read[r] EXCEPT !.got[s] = slice, !.left = @ \ {s}]]
    /\ UNCHANGED <<generations, savers, validated>>

(* What the reader has accepted, as entries of the validation cache. *)
Entries(r) ==
    [s \in Source |->
        IF read[r].got[s] = Missing THEN Missing
        ELSE [file |-> manifest[read[r].token][s], bytes |-> read[r].got[s]]]

(* Everything passed: the cache is replaced, unless it is what was read or *)
(* the replacement fails, and the state is handed out.                     *)
Accept(r) ==
    /\ read[r].at = "chunks" /\ read[r].left = {}
    /\ validated' \in IF read[r].cache = Entries(r) THEN {validated}
                      ELSE {validated, Entries(r)}
    /\ read' = [read EXCEPT ![r] = [at |-> "loaded", token |-> @.token,
                                    revision |-> @.revision, got |-> @.got,
                                    trustedFiles |-> @.trustedFiles]]
    /\ UNCHANGED <<generations, savers>>

EndLoad(r) ==
    /\ read[r].at \in {"loaded", "rejected"}
    /\ read' = [read EXCEPT ![r] = NoRead]
    /\ UNCHANGED <<generations, savers, validated>>

ReaderStep(r) ==
    ReadMetadata(r) \/ ReadCore(r) \/ ReadChunk(r) \/ Accept(r) \/ EndLoad(r)

StoreNext ==
    \/ \E w \in Saver : SaverStep(w)
    \/ \E r \in StoreReader : ReaderStep(r)

StoreSpec == StoreInit /\ [][StoreNext]_storeVars

-----------------------------------------------------------------------------
(* Properties *)

(* Types, and who has the lock: a save between Lock and FinishSave. *)
StoreTypeOK ==
    /\ metadata \in [revision : Nat \ {0}, token : Token] \cup {Missing}
    /\ coreFile \in [Token -> Nat \cup {Missing}]
    /\ fileState \in [Token -> Nat \cup {Missing}]
    /\ manifest \in [Token -> [Source -> Token \cup {Missing}] \cup {Missing}]
    /\ chunk \in [Token -> Lineage]
    /\ given \in [Token -> Lineage \cup {Missing}]
    /\ nextToken \in 1 .. MaxToken + 1
    /\ \A w \in Saver : storeLock = w <=> save[w].at \notin {"idle", "lock"}

(* The generation the metadata names is, file by file, what its save was   *)
(* given: no failed, crashed or foreign save ever takes a chunk away that  *)
(* a later generation named again, and no save names a chunk again that    *)
(* holds another state (_write_split_lineage_generation).                  *)
CommittedIsWhatWasSaved ==
    metadata # Missing =>
        LET t == metadata.token
        IN /\ Stored(t) = given[t]
           /\ coreFile[t] = metadata.revision
           /\ fileState[t] = metadata.revision

(* A load without lock hands out one whole generation that was committed,  *)
(* every slice of it acceptable, whatever saves and other readers did      *)
(* between its reads, and its file states are those of that generation.    *)
(* And no saver makes a load fail: what a reader rejects was saved so.     *)
LoadedIsACommit ==
  \A r \in StoreReader :
    /\ read[r].at = "loaded" =>
        /\ read[r].got = given[read[r].token]
        /\ Acceptable(read[r].got)
        /\ read[r].trustedFiles
        /\ read[r].revision <= CurrentRevision
    /\ read[r].at = "rejected" => ~Acceptable(given[read[r].token])

(* Files, names that are used again and metadata are one register.         *)
StoreRegister == INSTANCE CanonicalRegister WITH
    Content <- Lineage,
    Empty <- Missing,
    register <- IF metadata = Missing THEN Missing
                ELSE [revision |-> metadata.revision, content |-> Stored(metadata.token)]
ImplementsStoreRegister == StoreRegister!Spec

=============================================================================
