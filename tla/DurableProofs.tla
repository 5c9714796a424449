---------------------------- MODULE DurableProofs ----------------------------
(***************************************************************************)
(* What is proved of the components that keep their state on disk.         *)
(*                                                                         *)
(* The snapshot store: StoreInv says that the committed generation is      *)
(* there, file by file, and that no file of it is in the reach of a save   *)
(* that may still be taken back; readers begin with such a generation, and *)
(* it stays whole whatever the savers do.                                  *)
(*                                                                         *)
(* The event feed: FeedInv says that the journal of a service is the last  *)
(* part of its event numbers, and that what lies at or before the feed's   *)
(* cursor was shown, excused by a gap it told, or replayed before.         *)
(*                                                                         *)
(* The trail of authority events: TraceInv says that at most one record is *)
(* behind the sidecar, that it carries the next number, and which emitters *)
(* may count on from a checkpoint; GotInv that what a service has recorded *)
(* lies before what is not acknowledged yet.                               *)
(*                                                                         *)
(* The source index: IndexInv says that a result belongs to the text its   *)
(* process read while this index ran, that a cache entry names the text    *)
(* its facts are of, and that an ended index has what it was given.        *)
(***************************************************************************)
EXTENDS CanonicalStore, EventFeed, AuthorityTrace, SourceIndex, FiniteSetTheorems,
        SequenceTheorems, TLAPS

Saving == {"lineage", "files", "commit", "clean"}

FullSave ==
    [at : Saving, revision : Nat \ {0}, token : Token, lineage : Lineage,
     committed : BOOLEAN, entries : [Source -> Token \cup {Missing}]]

SaveTypes ==
    /\ DOMAIN save = Saver
    /\ \A w \in Saver :
          \/ save[w] \in {NoSave, [at |-> "conflict"]} \cup [at : {"lock"}, revision : Nat \ {0}]
          \/ save[w] \in FullSave

StoreFiles ==
    /\ metadata \in [revision : Nat \ {0}, token : Token] \cup {Missing}
    /\ coreFile \in [Token -> Nat \cup {Missing}]
    /\ fileState \in [Token -> Nat \cup {Missing}]
    /\ manifest \in [Token -> [Source -> Token \cup {Missing}] \cup {Missing}]
    /\ chunk \in [Token -> Lineage]
    /\ given \in [Token -> Lineage \cup {Missing}]
    /\ nextToken \in 1 .. MaxToken + 1

StoreMemory ==
    /\ held \in [Saver -> [revision : Nat \ {0}, since : Nat, lineage : Lineage] \cup {Missing}]
    /\ previous \in [Saver -> [revision : Nat \ {0}, lineage : Lineage] \cup {Missing}]

LockHeld ==
    /\ storeLock \in Saver \cup {Missing}
    /\ \A w \in Saver : storeLock = w <=> save[w].at \notin {"idle", "lock"}

(* A service saves what it has in memory.                                  *)
Loaded == \A w \in Saver : w \in Service /\ save[w].at # "idle" => held[w] # Missing

StoreTypes == SaveTypes /\ StoreFiles /\ StoreMemory /\ LockHeld /\ Loaded

(* A save that may still be taken back.                                    *)
Saves(w) == save[w].at \in Saving /\ ~save[w].committed

(* The generation of token t is there as its save was given it, and no     *)
(* save that may be taken back writes any of its files.                    *)
Whole(t, v) ==
    /\ t \in Token /\ t < nextToken /\ coreFile[t] = v /\ fileState[t] = v
    /\ manifest[t] \in [Source -> Token \cup {Missing}]
    /\ given[t] \in Lineage
    /\ \A s \in Source : ChunkOf(t, s) = given[t][s]
    /\ \A s \in Source :
          manifest[t][s] # Missing => manifest[t][s] < nextToken /\ given[t][s] # Missing
    /\ \A w \in Saver : Saves(w) =>
          save[w].token # t /\ \A s \in Source : manifest[t][s] # save[w].token

OpenInv ==
    \A w \in Saver : Saves(w) =>
       /\ save[w].revision = CurrentRevision + 1
       /\ save[w].token < nextToken /\ given[save[w].token] = save[w].lineage
       /\ \A s \in Source :
             \/ save[w].entries[s] \in {Missing, save[w].token}
             \/ metadata # Missing /\ save[w].entries[s] = manifest[metadata.token][s]
       /\ save[w].at = "lineage" =>
             \A s \in Source : save[w].entries[s] # Missing =>
                /\ save[w].entries[s] # save[w].token
                /\ save[w].lineage[s] # Missing
                /\ chunk[save[w].entries[s]][s] = save[w].lineage[s]
       /\ save[w].at \in {"files", "commit"} =>
             /\ manifest[save[w].token] = save[w].entries
             /\ \A s \in Source :
                   IF save[w].lineage[s] = Missing THEN save[w].entries[s] = Missing
                   ELSE /\ save[w].entries[s] # Missing
                        /\ chunk[save[w].entries[s]][s] = save[w].lineage[s]
       /\ save[w].at = "commit" =>
             coreFile[save[w].token] = save[w].revision /\ fileState[save[w].token] = save[w].revision

DoneInv ==
    \A w \in Saver : save[w].at \in Saving /\ save[w].committed =>
       /\ save[w].at = "clean" /\ given[save[w].token] = save[w].lineage
       /\ metadata = [revision |-> save[w].revision, token |-> save[w].token]

PreviousInv ==
    \A w \in Saver : previous[w] # Missing =>
       /\ metadata # Missing /\ previous[w].revision <= metadata.revision
       /\ previous[w].revision = metadata.revision =>
             \A s \in Source : previous[w].lineage[s] = ChunkOf(metadata.token, s)

KeptInv == metadata # Missing => Whole(metadata.token, metadata.revision)

StoreInv == StoreTypes /\ OpenInv /\ DoneInv /\ PreviousInv /\ KeptInv

FilesBut(k) ==
    \A u \in Token \ {k} :
       /\ coreFile'[u] = coreFile[u] /\ fileState'[u] = fileState[u]
       /\ manifest'[u] = manifest[u] /\ chunk'[u] = chunk[u] /\ given'[u] = given[u]

Opened ==
    \A w \in Saver : save'[w].at \in Saving /\ ~save'[w].committed =>
       \/ Saves(w) /\ save'[w].token = save[w].token
       \/ save'[w].token = nextToken

(* A generation that is whole stays so.                                    *)
LEMMA WholeKept ==
    ASSUME StoreFiles, nextToken' \in Nat, nextToken <= nextToken',
           NEW t, NEW v, Whole(t, v), NEW k, k # t, \A s \in Source : manifest[t][s] # k,
           FilesBut(k), Opened
    PROVE  /\ Whole(t, v)' /\ given'[t] = given[t] /\ manifest'[t] = manifest[t]
           /\ \A s \in Source : ChunkOf(t, s)' = ChunkOf(t, s)
<1>1. /\ t \in Token /\ coreFile'[t] = v /\ fileState'[t] = v /\ given'[t] = given[t]
      /\ manifest'[t] = manifest[t] /\ t \in Nat /\ nextToken \in Nat
  BY DEF FilesBut, Whole, StoreFiles, Token
<1>2. \A s \in Source : manifest[t][s] # Missing =>
         /\ manifest[t][s] \in Token /\ manifest[t][s] \in Nat
         /\ chunk'[manifest[t][s]] = chunk[manifest[t][s]]
  BY DEF FilesBut, Whole, Token
<1>3. \A s \in Source : ChunkOf(t, s)' = ChunkOf(t, s)
  BY <1>1, <1>2 DEF ChunkOf
<1>4. \A w \in Saver : Saves(w)' =>
         save'[w].token # t /\ \A s \in Source : manifest'[t][s] # save'[w].token
  <2> SUFFICES ASSUME NEW w \in Saver, Saves(w)'
               PROVE  save'[w].token # t /\ \A s \in Source : manifest'[t][s] # save'[w].token
    OBVIOUS
  <2>1. CASE Saves(w) /\ save'[w].token = save[w].token
    BY <1>1, <2>1 DEF Whole
  <2>2. CASE save'[w].token = nextToken
    <3>1. t # nextToken
      BY <1>1 DEF Whole
    <3>2. \A s \in Source : manifest[t][s] # nextToken
      BY <1>1, <1>2, StoreAssumption DEF Whole
    <3>3. QED
      BY <1>1, <2>2, <3>1, <3>2
  <2>3. QED
    BY <2>1, <2>2 DEF Opened, Saves
<1>5. \A s \in Source :
         manifest'[t][s] # Missing => manifest'[t][s] < nextToken' /\ given'[t][s] # Missing
  BY <1>1, <1>2 DEF Whole
<1>6. t < nextToken'
  BY <1>1 DEF Whole
<1>7. Whole(t, v)'
  BY <1>1, <1>3, <1>4, <1>5, <1>6 DEF Whole
<1>8. QED
  BY <1>1, <1>3, <1>7

LEMMA SaveShapes ==
    ASSUME StoreTypes, NEW w \in Saver
    PROVE  /\ save[w].at \in Saving => save[w] \in FullSave
           /\ save[w].at = "lock" => save[w] \in [at : {"lock"}, revision : Nat \ {0}]
           /\ save[w].at \in {"idle", "lock", "conflict"} \cup Saving
           /\ save[w].at = "idle" => save[w] = NoSave
BY DEF StoreTypes, SaveTypes, FullSave, Saving, NoSave

(* The saver that has the lock is alone.                                   *)
LEMMA OnlySaver ==
    ASSUME StoreTypes, NEW w \in Saver, save[w].at \notin {"idle", "lock"},
           NEW u \in Saver \ {w}
    PROVE  save[u].at \in {"idle", "lock"} /\ storeLock = w
BY DEF StoreTypes, LockHeld


(* The committed generation through a step that writes no file but those   *)
(* of token k.                                                             *)
LEMMA CommittedKept ==
    ASSUME StoreInv, metadata' = metadata, nextToken' \in Nat, nextToken <= nextToken',
           NEW k, k = 0 \/ \E w \in Saver : Saves(w) /\ k = save[w].token,
           FilesBut(k), Opened
    PROVE  /\ KeptInv' /\ CurrentRevision' = CurrentRevision
           /\ previous' = previous => PreviousInv'
           /\ metadata # Missing =>
                 /\ manifest'[metadata.token] = manifest[metadata.token]
                 /\ given'[metadata.token] = given[metadata.token]
                 /\ \A s \in Source : ChunkOf(metadata.token, s)' = ChunkOf(metadata.token, s)
<1>1. CurrentRevision' = CurrentRevision
  BY DEF CurrentRevision
<1>2. ASSUME metadata # Missing
      PROVE  /\ Whole(metadata.token, metadata.revision)'
             /\ manifest'[metadata.token] = manifest[metadata.token]
             /\ given'[metadata.token] = given[metadata.token]
             /\ \A s \in Source : ChunkOf(metadata.token, s)' = ChunkOf(metadata.token, s)
  <2>1. PICK t, v : t = metadata.token /\ v = metadata.revision
    OBVIOUS
  <2>2. Whole(t, v)
    BY <1>2, <2>1 DEF StoreInv, KeptInv
  <2>3. k # t /\ \A s \in Source : manifest[t][s] # k
    <3>1. CASE k = 0
      BY <2>2, <3>1, StoreAssumption DEF Whole, Token
    <3>2. CASE \E w \in Saver : Saves(w) /\ k = save[w].token
      BY <2>2, <3>2 DEF Whole
    <3>3. QED
      BY <3>1, <3>2
  <2>4. /\ Whole(t, v)' /\ manifest'[t] = manifest[t] /\ given'[t] = given[t]
        /\ \A s \in Source : ChunkOf(t, s)' = ChunkOf(t, s)
    BY <2>2, <2>3, WholeKept DEF StoreInv, StoreTypes
  <2>5. QED
    BY <2>1, <2>4 DEF Whole, ChunkOf, Saves
<1>3. KeptInv'
  BY <1>2 DEF KeptInv
<1>4. previous' = previous => PreviousInv'
  BY <1>2 DEF StoreInv, PreviousInv
<1>5. QED
  BY <1>1, <1>2, <1>3, <1>4

(* A step that writes no file and takes no save further.                   *)
LEMMA QuietKeeps ==
    ASSUME StoreInv, UNCHANGED <<generations, given, nextToken>>, StoreTypes', PreviousInv',
           \A u \in Saver : save'[u].at \in Saving => save'[u] = save[u]
    PROVE  StoreInv'
<1>1. FilesBut(0) /\ Opened /\ nextToken \in Nat
  BY DEF FilesBut, Opened, Saves, generations, StoreInv, StoreTypes, StoreFiles
<1>2. KeptInv' /\ CurrentRevision' = CurrentRevision
  BY <1>1, CommittedKept DEF generations
<1>3. OpenInv'
  BY <1>2 DEF StoreInv, OpenInv, Saves, generations
<1>4. DoneInv'
  BY DEF StoreInv, DoneInv, generations
<1>5. QED
  BY <1>2, <1>3, <1>4 DEF StoreInv

LEMMA SameFiles == ASSUME StoreTypes, UNCHANGED <<generations, given, nextToken>> PROVE StoreFiles'
BY DEF StoreTypes, StoreFiles, generations

LEMMA SamePrevious ==
    ASSUME StoreInv, UNCHANGED <<generations, given, nextToken>>,
           \A w \in Saver : previous'[w] \in {previous[w], Missing}
    PROVE  PreviousInv'
BY DEF StoreInv, PreviousInv, generations, ChunkOf

LEMMA RequestKeeps == \A w \in Saver : StoreInv /\ RequestSave(w) => StoreInv'
<1> SUFFICES ASSUME NEW w \in Saver, StoreInv, RequestSave(w) PROVE StoreInv'
  OBVIOUS
<1>1. PICK v : v = 1 + IF w \in Service THEN held[w].revision ELSE CurrentRevision
  OBVIOUS
<1>2. v \in Nat \ {0}
  BY <1>1 DEF RequestSave, StoreInv, StoreTypes, StoreMemory, StoreFiles, CurrentRevision
<1>3. /\ save' = [save EXCEPT ![w] = [at |-> "lock", revision |-> v]] /\ save[w] = NoSave
      /\ UNCHANGED <<generations, given, nextToken, storeLock, held, previous>>
  BY <1>1 DEF RequestSave
<1>4. /\ DOMAIN save' = Saver /\ save'[w] = [at |-> "lock", revision |-> v]
      /\ \A u \in Saver \ {w} : save'[u] = save[u]
  BY <1>3 DEF StoreInv, StoreTypes, SaveTypes
<1>5. SaveTypes' /\ LockHeld' /\ Loaded'
  BY <1>2, <1>3, <1>4 DEF StoreInv, StoreTypes, SaveTypes, LockHeld, NoSave, Loaded, RequestSave
<1>6. StoreTypes'
  BY <1>3, <1>5, SameFiles DEF StoreInv, StoreTypes, StoreMemory
<1>7. PreviousInv'
  BY <1>3, SamePrevious
<1>8. QED
  BY <1>3, <1>4, <1>6, <1>7, QuietKeeps DEF Saving

(* What is stored of the committed generation is a lineage.                *)
LEMMA StoredIsLineage ==
    ASSUME StoreInv, metadata # Missing
    PROVE  /\ Stored(metadata.token) \in Lineage
           /\ \A s \in Source : Stored(metadata.token)[s] = ChunkOf(metadata.token, s)
           /\ metadata.revision \in Nat \ {0}
<1>1. given[metadata.token] \in Lineage
      /\ \A s \in Source : ChunkOf(metadata.token, s) = given[metadata.token][s]
  BY DEF StoreInv, KeptInv, Whole
<1>2. QED
  BY <1>1 DEF Stored, Lineage, StoreInv, StoreTypes, StoreFiles

LEMMA RefreshKeeps == \A w \in Saver : StoreInv /\ Refresh(w) => StoreInv'
<1> SUFFICES ASSUME NEW w \in Saver, StoreInv, Refresh(w) PROVE StoreInv'
  OBVIOUS
<1>1. PICK l \in Lineage : l = Stored(metadata.token)
  BY StoredIsLineage DEF Refresh
<1>2. /\ held' = [held EXCEPT ![w] = [revision |-> metadata.revision, since |-> 0, lineage |-> l]]
      /\ metadata.revision \in Nat \ {0}
      /\ UNCHANGED <<generations, given, nextToken, storeLock, save, previous>>
  BY <1>1, StoredIsLineage DEF Refresh
<1>3. StoreMemory' /\ SaveTypes' /\ LockHeld' /\ Loaded'
  <2>1. StoreMemory' /\ SaveTypes' /\ LockHeld'
    BY <1>2 DEF StoreInv, StoreTypes, StoreMemory, SaveTypes, LockHeld
  <2>2. save[w].at = "idle" /\ \A u \in Saver \ {w} : held'[u] = held[u]
    BY <1>2 DEF Refresh, NoSave, StoreInv, StoreTypes, StoreMemory
  <2>3. QED
    BY <1>2, <2>1, <2>2 DEF StoreInv, StoreTypes, Loaded
<1>4. StoreTypes' /\ PreviousInv'
  BY <1>2, <1>3, SameFiles, SamePrevious DEF StoreInv, StoreTypes
<1>5. QED
  BY <1>2, <1>4, QuietKeeps

LEMMA StartServiceKeeps == \A w \in Saver : StoreInv /\ StartService(w) => StoreInv'
<1> SUFFICES ASSUME NEW w \in Saver, StoreInv, StartService(w) PROVE StoreInv'
  OBVIOUS
<1>1. PICK l \in Lineage : l = Stored(metadata.token)
  BY StoredIsLineage DEF StartService
<1>2. /\ metadata # Missing /\ metadata.revision \in Nat \ {0}
      /\ held' = [held EXCEPT ![w] = [revision |-> metadata.revision,
                                      since |-> metadata.revision, lineage |-> l]]
      /\ previous' = [previous EXCEPT ![w] = [revision |-> metadata.revision, lineage |-> l]]
      /\ UNCHANGED <<generations, given, nextToken, storeLock, save>>
  BY <1>1, StoredIsLineage DEF StartService
<1>3. StoreMemory' /\ SaveTypes' /\ LockHeld' /\ Loaded'
  <2>1. StoreMemory' /\ SaveTypes' /\ LockHeld'
    BY <1>2 DEF StoreInv, StoreTypes, StoreMemory, SaveTypes, LockHeld
  <2>2. save[w].at = "idle" /\ \A u \in Saver \ {w} : held'[u] = held[u]
    BY <1>2 DEF StartService, NoSave, StoreInv, StoreTypes, StoreMemory
  <2>3. QED
    BY <1>2, <2>1, <2>2 DEF StoreInv, StoreTypes, Loaded
<1>4. StoreTypes'
  BY <1>2, <1>3, SameFiles DEF StoreInv, StoreTypes
<1>5. /\ previous'[w] = [revision |-> metadata.revision, lineage |-> l]
      /\ \A u \in Saver \ {w} : previous'[u] = previous[u]
  BY <1>2 DEF StoreInv, StoreTypes, StoreMemory
<1>6. \A s \in Source : l[s] = ChunkOf(metadata.token, s)
  BY <1>1, <1>2, StoredIsLineage
<1>7. PreviousInv'
  BY <1>2, <1>5, <1>6 DEF StoreInv, PreviousInv, generations, ChunkOf
<1>8. QED
  BY <1>2, <1>4, <1>7, QuietKeeps

LEMMA ConflictKeeps ==
    \A w \in Saver : StoreInv /\ (Conflict(w) \/ LockTimesOut(w)) => StoreInv'
<1> SUFFICES ASSUME NEW w \in Saver, StoreInv, Conflict(w) \/ LockTimesOut(w) PROVE StoreInv'
  OBVIOUS
<1>1. /\ save' = [save EXCEPT ![w] = NoSave] /\ DOMAIN save = Saver
      /\ UNCHANGED <<generations, given, nextToken, held, previous>>
      /\ \/ save[w].at = "conflict" /\ storeLock' = Missing
         \/ save[w].at = "lock" /\ storeLock' = storeLock
  BY DEF Conflict, LockTimesOut, StoreInv, StoreTypes, SaveTypes
<1>2. save'[w] = NoSave /\ \A u \in Saver \ {w} : save'[u] = save[u]
  BY <1>1
<1>3. SaveTypes'
  BY <1>1, <1>2 DEF StoreInv, StoreTypes, SaveTypes
<1>4. LockHeld'
  <2>1. CASE save[w].at = "conflict"
    <3>1. \A u \in Saver \ {w} : save[u].at \in {"idle", "lock"}
      BY <2>1, OnlySaver DEF StoreInv
    <3>2. QED
      BY <1>1, <1>2, <2>1, <3>1, StoreAssumption DEF LockHeld, NoSave
  <2>2. CASE save[w].at = "lock"
    BY <1>1, <1>2, <2>2 DEF StoreInv, StoreTypes, LockHeld, NoSave
  <2>3. QED
    BY <1>1, <2>1, <2>2
<1>5. Loaded'
  BY <1>1, <1>2 DEF StoreInv, StoreTypes, Loaded, NoSave
<1>6. StoreTypes' /\ PreviousInv'
  BY <1>1, <1>3, <1>4, <1>5, SameFiles, SamePrevious DEF StoreInv, StoreTypes, StoreMemory
<1>7. QED
  BY <1>1, <1>2, <1>6, QuietKeeps DEF Saving, NoSave

LEMMA CrashKeeps == \A w \in Saver : StoreInv /\ SaverCrash(w) => StoreInv'
<1> SUFFICES ASSUME NEW w \in Saver, StoreInv, SaverCrash(w) PROVE StoreInv'
  OBVIOUS
<1>1. /\ save' = [save EXCEPT ![w] = NoSave] /\ DOMAIN save = Saver
      /\ UNCHANGED <<generations, given, nextToken>>
      /\ held' = [held EXCEPT ![w] = Missing] /\ previous' = [previous EXCEPT ![w] = Missing]
      /\ storeLock' = IF storeLock = w THEN Missing ELSE storeLock
  BY DEF SaverCrash, StoreInv, StoreTypes, SaveTypes
<1>2. save'[w] = NoSave /\ \A u \in Saver \ {w} : save'[u] = save[u]
  BY <1>1
<1>3. SaveTypes' /\ StoreMemory'
  BY <1>1, <1>2 DEF StoreInv, StoreTypes, SaveTypes, StoreMemory
<1>4. LockHeld'
  BY <1>1, <1>2, StoreAssumption DEF StoreInv, StoreTypes, LockHeld, NoSave
<1>5. /\ \A u \in Saver : previous'[u] \in {previous[u], Missing}
      /\ Loaded'
  BY <1>1, <1>2 DEF StoreInv, StoreTypes, StoreMemory, Loaded, NoSave
<1>6. StoreTypes' /\ PreviousInv'
  BY <1>1, <1>3, <1>4, <1>5, SameFiles, SamePrevious DEF StoreInv, StoreTypes
<1>7. QED
  BY <1>1, <1>2, <1>6, QuietKeeps DEF Saving, NoSave

LEMMA ConflictingLockKeeps ==
    \A w \in Saver :
       StoreInv /\ Lock(w) /\ save[w].revision # CurrentRevision + 1 => StoreInv'
<1> SUFFICES ASSUME NEW w \in Saver, StoreInv, Lock(w), save[w].revision # CurrentRevision + 1
             PROVE  StoreInv'
  OBVIOUS
<1>1. /\ save' = [save EXCEPT ![w] = [at |-> "conflict"]] /\ DOMAIN save = Saver
      /\ UNCHANGED <<generations, given, nextToken, held, previous>>
      /\ save[w].at = "lock" /\ storeLock = Missing /\ storeLock' = w
  BY DEF Lock, StoreInv, StoreTypes, SaveTypes
<1>2. save'[w] = [at |-> "conflict"] /\ \A u \in Saver \ {w} : save'[u] = save[u]
  BY <1>1
<1>3. SaveTypes'
  BY <1>1, <1>2 DEF StoreInv, StoreTypes, SaveTypes
<1>4. LockHeld'
  BY <1>1, <1>2, StoreAssumption DEF StoreInv, StoreTypes, LockHeld
<1>5. Loaded'
  BY <1>1, <1>2 DEF StoreInv, StoreTypes, Loaded
<1>6. StoreTypes' /\ PreviousInv'
  BY <1>1, <1>3, <1>4, <1>5, SameFiles, SamePrevious DEF StoreInv, StoreTypes, StoreMemory
<1>7. QED
  BY <1>1, <1>2, <1>6, QuietKeeps DEF Saving

(* What a saver may save: a lineage whose unchanged sources, when what it  *)
(* knows is the committed generation, are stored as they are.              *)
LEMMA CandidatesAreStored ==
    ASSUME StoreInv, NEW w \in Saver, w \in Service => held[w] # Missing,
           NEW c \in Candidates(w)
    PROVE  /\ c.lineage \in Lineage
           /\ \A s \in Source : s \in c.same /\ Reusable(w)[s] # Missing =>
                 /\ metadata # Missing /\ Reusable(w)[s] = manifest[metadata.token][s]
                 /\ ChunkOf(metadata.token, s) = c.lineage[s]
<1>1. CASE w \notin Service
  BY <1>1, StoreAssumption DEF Candidates
<1>2. CASE w \in Service
  <2>1. PICK s \in Source, slice \in Slice \cup {Missing} :
           c = [lineage |-> [held[w].lineage EXCEPT ![s] = slice], same |-> Unchanged(w, s)]
    BY <1>2 DEF Candidates
  <2>2. held[w].lineage \in Lineage
    BY <1>2 DEF StoreInv, StoreTypes, StoreMemory
  <2>3. c.lineage \in Lineage
    BY <2>1, <2>2 DEF Lineage
  <2>4. ASSUME NEW o \in c.same, o \in Source, Reusable(w)[o] # Missing
        PROVE  /\ metadata # Missing /\ Reusable(w)[o] = manifest[metadata.token][o]
               /\ ChunkOf(metadata.token, o) = c.lineage[o]
    <3>1. /\ o # s /\ previous[w] # Missing
          /\ held[w].lineage[o] = previous[w].lineage[o]
      BY <2>1, <2>4 DEF Unchanged
    <3>2. c.lineage[o] = previous[w].lineage[o]
      BY <2>1, <2>2, <3>1 DEF Lineage
    <3>3. /\ metadata # Missing /\ previous[w].revision = metadata.revision
          /\ Reusable(w) = manifest[metadata.token]
      BY <2>4 DEF Reusable
    <3>4. previous[w].lineage[o] = ChunkOf(metadata.token, o)
      BY <2>4, <3>1, <3>3 DEF StoreInv, PreviousInv
    <3>5. QED
      BY <3>2, <3>3, <3>4
  <2>5. QED
    BY <2>3, <2>4
<1>3. QED
  BY <1>1, <1>2

LEMMA DoesLock ==
    ASSUME StoreInv, NEW w \in Saver, Lock(w), save[w].revision = CurrentRevision + 1
    PROVE  /\ save[w].at = "lock" /\ storeLock = Missing /\ storeLock' = w
           /\ nextToken \in Token /\ nextToken' = nextToken + 1
           /\ UNCHANGED <<generations, held, previous>>
           /\ DOMAIN save' = Saver /\ \A u \in Saver \ {w} : save'[u] = save[u]
           /\ save'[w] \in FullSave /\ save'[w].at = "lineage" /\ ~save'[w].committed
           /\ save'[w].token = nextToken /\ save'[w].revision = CurrentRevision + 1
           /\ given' = [given EXCEPT ![nextToken] = save'[w].lineage]
           /\ \A s \in Source : save'[w].entries[s] # Missing =>
                 /\ metadata # Missing
                 /\ save'[w].entries[s] = manifest[metadata.token][s]
                 /\ save'[w].lineage[s] # Missing
                 /\ chunk[save'[w].entries[s]][s] = save'[w].lineage[s]
<1>1. /\ save[w].at = "lock" /\ storeLock = Missing /\ storeLock' = w
      /\ nextToken \in Token /\ nextToken' = nextToken + 1
      /\ UNCHANGED <<generations, held, previous>>
  BY DEF Lock
<1>2. save[w] \in [at : {"lock"}, revision : Nat \ {0}] /\ DOMAIN save = Saver
  BY <1>1, SaveShapes DEF StoreInv, StoreTypes, SaveTypes
<1>3. PICK c \in Candidates(w) :
         /\ given' = [given EXCEPT ![nextToken] = c.lineage]
         /\ save' = [save EXCEPT ![w] =
              [at |-> "lineage", revision |-> @.revision, token |-> nextToken,
               lineage |-> c.lineage, committed |-> FALSE,
               entries |-> [s \in Source |->
                  IF s \in c.same /\ Reusable(w)[s] # Missing
                     /\ chunk[Reusable(w)[s]][s] # Missing
                  THEN Reusable(w)[s] ELSE Missing]]]
  BY DEF Lock
<1>4. PICK e : e = [s \in Source |->
                      IF s \in c.same /\ Reusable(w)[s] # Missing
                         /\ chunk[Reusable(w)[s]][s] # Missing
                      THEN Reusable(w)[s] ELSE Missing]
  OBVIOUS
<1>5. /\ save'[w] = [at |-> "lineage", revision |-> save[w].revision, token |-> nextToken,
                     lineage |-> c.lineage, committed |-> FALSE, entries |-> e]
      /\ DOMAIN save' = Saver /\ \A u \in Saver \ {w} : save'[u] = save[u]
  BY <1>2, <1>3, <1>4
<1>6. w \in Service => held[w] # Missing
  BY <1>1 DEF StoreInv, StoreTypes, Loaded
<1>7. /\ c.lineage \in Lineage
      /\ \A s \in Source : s \in c.same /\ Reusable(w)[s] # Missing =>
            /\ metadata # Missing /\ Reusable(w)[s] = manifest[metadata.token][s]
            /\ ChunkOf(metadata.token, s) = c.lineage[s]
  BY <1>6, CandidatesAreStored
<1>8. \A s \in Source : e[s] # Missing =>
         /\ metadata # Missing /\ e[s] = manifest[metadata.token][s]
         /\ c.lineage[s] # Missing /\ chunk[e[s]][s] = c.lineage[s]
  BY <1>4, <1>7 DEF ChunkOf
<1>9. metadata # Missing => manifest[metadata.token] \in [Source -> Token \cup {Missing}]
  BY DEF StoreInv, KeptInv, Whole
<1>10. e \in [Source -> Token \cup {Missing}]
  BY <1>4, <1>8, <1>9
<1>11. save'[w] \in FullSave
  BY <1>1, <1>2, <1>5, <1>7, <1>10 DEF FullSave, Saving
<1>12. QED
  BY <1>1, <1>3, <1>5, <1>8, <1>11

LEMMA DoesWriteLineage ==
    ASSUME StoreTypes, NEW w \in Saver, WriteLineage(w), NEW e, e = Named(w, Todo(w))
    PROVE  /\ save[w] \in FullSave /\ save[w].at = "lineage" /\ save'[w] \in FullSave
           /\ save'[w].at = "files" /\ save'[w].entries = e
           /\ save'[w].revision = save[w].revision /\ save'[w].token = save[w].token
           /\ save'[w].lineage = save[w].lineage /\ save'[w].committed = save[w].committed
           /\ DOMAIN save' = Saver /\ \A u \in Saver \ {w} : save'[u] = save[u]
           /\ e \in [Source -> Token \cup {Missing}]
           /\ \A s \in Source : e[s] = IF s \in Todo(w) THEN save[w].token ELSE save[w].entries[s]
           /\ manifest' = [manifest EXCEPT ![save[w].token] = e]
           /\ chunk' \in [Token -> Lineage]
           /\ \A u \in Token \ {save[w].token} : chunk'[u] = chunk[u]
           /\ \A s \in Todo(w) : chunk'[save[w].token][s] = save[w].lineage[s]
           /\ UNCHANGED <<metadata, coreFile, fileState, storeLock, nextToken, held,
                          previous, given>>
<1>1. save[w] \in FullSave /\ save[w].at = "lineage" /\ DOMAIN save = Saver
  BY SaveShapes DEF WriteLineage, Saving, StoreTypes, SaveTypes
<1>2. e \in [Source -> Token \cup {Missing}]
      /\ \A s \in Source : e[s] = IF s \in Todo(w) THEN save[w].token ELSE save[w].entries[s]
  BY <1>1 DEF Named, FullSave
<1>3. save' = [save EXCEPT ![w].at = "files", ![w].entries = e]
  BY DEF WriteLineage
<1>4. save'[w] \in FullSave /\ save'[w].at = "files" /\ save'[w].entries = e
  BY <1>1, <1>2, <1>3 DEF FullSave, Saving
<1>5. /\ save'[w].revision = save[w].revision /\ save'[w].token = save[w].token
      /\ save'[w].lineage = save[w].lineage /\ save'[w].committed = save[w].committed
      /\ DOMAIN save' = Saver /\ \A u \in Saver \ {w} : save'[u] = save[u]
  BY <1>1, <1>3 DEF FullSave
<1>6. chunk' = [chunk EXCEPT ![save[w].token] =
                  [s \in Source |-> IF s \in Todo(w) THEN save[w].lineage[s] ELSE @[s]]]
  BY DEF WriteLineage, WithChunks
<1>7. chunk \in [Token -> Lineage] /\ save[w].token \in Token /\ save[w].lineage \in Lineage
      /\ Todo(w) \subseteq Source
  BY <1>1 DEF StoreTypes, StoreFiles, FullSave, Todo
<1>8. /\ chunk' \in [Token -> Lineage]
      /\ \A u \in Token \ {save[w].token} : chunk'[u] = chunk[u]
      /\ \A s \in Todo(w) : chunk'[save[w].token][s] = save[w].lineage[s]
  BY <1>6, <1>7 DEF Lineage
<1>9. QED
  BY <1>1, <1>2, <1>4, <1>5, <1>8 DEF WriteLineage

LEMMA WriteLineageKeeps == \A w \in Saver : StoreInv /\ WriteLineage(w) => StoreInv'
<1> SUFFICES ASSUME NEW w \in Saver, StoreInv, WriteLineage(w) PROVE StoreInv'
  OBVIOUS
<1>1. PICK e : e = Named(w, Todo(w))
  OBVIOUS
<1> DEFINE k == save[w].token
<1>2. /\ save[w] \in FullSave /\ save[w].at = "lineage" /\ save'[w] \in FullSave
      /\ save'[w].at = "files" /\ save'[w].entries = e
      /\ save'[w].revision = save[w].revision /\ save'[w].token = k
      /\ save'[w].lineage = save[w].lineage /\ save'[w].committed = save[w].committed
      /\ DOMAIN save' = Saver /\ \A u \in Saver \ {w} : save'[u] = save[u]
      /\ e \in [Source -> Token \cup {Missing}]
      /\ \A s \in Source : e[s] = IF s \in Todo(w) THEN k ELSE save[w].entries[s]
      /\ manifest' = [manifest EXCEPT ![k] = e]
      /\ chunk' \in [Token -> Lineage]
      /\ \A u \in Token \ {k} : chunk'[u] = chunk[u]
      /\ \A s \in Todo(w) : chunk'[k][s] = save[w].lineage[s]
      /\ UNCHANGED <<metadata, coreFile, fileState, storeLock, nextToken, held, previous, given>>
  BY <1>1, DoesWriteLineage DEF StoreInv
<1>3. k \in Token /\ Saves(w) /\ k \in Nat /\ save[w].entries \in [Source -> Token \cup {Missing}]
  BY <1>2 DEF FullSave, StoreInv, DoneInv, Saves, Saving, Token
<1>4. StoreTypes'
  <2>1. SaveTypes'
    BY <1>2 DEF StoreInv, StoreTypes, SaveTypes
  <2>2. StoreFiles'
    BY <1>2, <1>3 DEF StoreInv, StoreTypes, StoreFiles
  <2>3. StoreMemory' /\ LockHeld' /\ Loaded'
    BY <1>2 DEF StoreInv, StoreTypes, StoreMemory, LockHeld, Loaded
  <2>4. QED
    BY <2>1, <2>2, <2>3 DEF StoreTypes
<1>5. FilesBut(k) /\ Opened /\ nextToken \in Nat /\ StoreFiles
  BY <1>2, <1>3 DEF FilesBut, Opened, Saves, StoreInv, StoreTypes, StoreFiles
<1> HIDE DEF k
<1>6. ASSUME metadata # Missing
      PROVE  /\ Whole(metadata.token, metadata.revision)'
             /\ manifest'[metadata.token] = manifest[metadata.token]
             /\ \A s \in Source : ChunkOf(metadata.token, s)' = ChunkOf(metadata.token, s)
  <2>1. PICK t, v : t = metadata.token /\ v = metadata.revision
    OBVIOUS
  <2>2. Whole(t, v) /\ k # t /\ \A s \in Source : manifest[t][s] # k
    BY <1>3, <1>6, <2>1 DEF StoreInv, KeptInv, Whole, k
  <2>3. /\ Whole(t, v)' /\ manifest'[t] = manifest[t]
        /\ \A s \in Source : ChunkOf(t, s)' = ChunkOf(t, s)
    BY <1>2, <1>5, <2>2, WholeKept
  <2>4. QED
    BY <1>2, <2>1, <2>3 DEF Whole, ChunkOf, Saves
<1>7. KeptInv' /\ PreviousInv'
  BY <1>2, <1>6 DEF StoreInv, KeptInv, PreviousInv
<1>8. \A u \in Saver \ {w} : save'[u].at \in {"idle", "lock"}
  BY <1>2, OnlySaver DEF StoreInv
<1>9. DoneInv'
  BY <1>2, <1>3, <1>8 DEF DoneInv, Saves, Saving
<1>10. OpenInv'
  <2>1. /\ save[w].revision = CurrentRevision + 1
        /\ k < nextToken /\ given[k] = save[w].lineage
        /\ \A s \in Source :
              \/ save[w].entries[s] \in {Missing, k}
              \/ metadata # Missing /\ save[w].entries[s] = manifest[metadata.token][s]
        /\ \A s \in Source : save[w].entries[s] # Missing =>
              /\ save[w].entries[s] # k /\ save[w].lineage[s] # Missing
              /\ chunk[save[w].entries[s]][s] = save[w].lineage[s]
    BY <1>2, <1>3 DEF StoreInv, OpenInv, k
  <2>2. \A s \in Source :
           \/ e[s] \in {Missing, k}
           \/ metadata' # Missing /\ e[s] = manifest'[metadata.token][s]
    BY <1>2, <1>6, <2>1
  <2>3. \A s \in Source : IF save[w].lineage[s] = Missing THEN e[s] = Missing
                          ELSE e[s] # Missing /\ chunk'[e[s]][s] = save[w].lineage[s]
    <3> SUFFICES ASSUME NEW s \in Source
                 PROVE  IF save[w].lineage[s] = Missing THEN e[s] = Missing
                        ELSE e[s] # Missing /\ chunk'[e[s]][s] = save[w].lineage[s]
      OBVIOUS
    <3>1. CASE s \in Todo(w)
      <4>1. k # Missing
        BY <1>3, StoreAssumption
      <4>2. QED
        BY <1>2, <3>1, <4>1 DEF Todo
    <3>2. CASE s \notin Todo(w)
      <4>1. save[w].lineage[s] = Missing \/ save[w].entries[s] # Missing
        BY <3>2 DEF Todo
      <4>2. e[s] = save[w].entries[s]
        BY <1>2, <3>2
      <4>3. save[w].entries[s] # Missing => save[w].entries[s] \in Token \ {k}
        BY <1>3, <2>1
      <4>4. \A u \in Token \ {k} : chunk'[u] = chunk[u]
        BY <1>2
      <4>5. QED
        BY <2>1, <4>1, <4>2, <4>3, <4>4
    <3>3. QED
      BY <3>1, <3>2
  <2>4. manifest'[k] = e /\ CurrentRevision' = CurrentRevision
    BY <1>2, <1>3 DEF StoreInv, StoreTypes, StoreFiles, CurrentRevision
  <2>5. QED
    BY <1>2, <1>8, <2>1, <2>2, <2>3, <2>4 DEF OpenInv, Saves, Saving
<1>11. QED
  BY <1>4, <1>7, <1>9, <1>10 DEF StoreInv

LEMMA LockKeeps == \A w \in Saver : StoreInv /\ Lock(w) => StoreInv'
<1> SUFFICES ASSUME NEW w \in Saver, StoreInv, Lock(w), save[w].revision = CurrentRevision + 1
             PROVE  StoreInv'
  BY ConflictingLockKeeps
<1>1. /\ save[w].at = "lock" /\ storeLock = Missing /\ storeLock' = w
      /\ nextToken \in Token /\ nextToken' = nextToken + 1
      /\ UNCHANGED <<generations, held, previous>>
      /\ DOMAIN save' = Saver /\ \A u \in Saver \ {w} : save'[u] = save[u]
      /\ save'[w] \in FullSave /\ save'[w].at = "lineage" /\ ~save'[w].committed
      /\ save'[w].token = nextToken /\ save'[w].revision = CurrentRevision + 1
      /\ given' = [given EXCEPT ![nextToken] = save'[w].lineage]
      /\ \A s \in Source : save'[w].entries[s] # Missing =>
            /\ metadata # Missing
            /\ save'[w].entries[s] = manifest[metadata.token][s]
            /\ save'[w].lineage[s] # Missing
            /\ chunk[save'[w].entries[s]][s] = save'[w].lineage[s]
  BY DoesLock
<1>2. /\ nextToken \in Nat /\ nextToken \in 1 .. MaxToken /\ nextToken' \in Nat
      /\ nextToken' \in 1 .. MaxToken + 1 /\ nextToken < nextToken'
  BY <1>1, StoreAssumption DEF Token
<1>3. given' \in [Token -> Lineage \cup {Missing}] /\ given'[nextToken] = save'[w].lineage
      /\ \A u \in Token \ {nextToken} : given'[u] = given[u]
  BY <1>1 DEF StoreInv, StoreTypes, StoreFiles, FullSave
<1>4. \A u \in Saver : save[u].at \in {"idle", "lock"}
  BY <1>1, StoreAssumption DEF StoreInv, StoreTypes, LockHeld
<1>5. StoreTypes'
  <2>1. SaveTypes' /\ StoreMemory'
    BY <1>1 DEF StoreInv, StoreTypes, SaveTypes, StoreMemory
  <2>2. StoreFiles'
    BY <1>1, <1>2, <1>3 DEF StoreInv, StoreTypes, StoreFiles, generations
  <2>3. LockHeld' /\ Loaded'
    BY <1>1, <1>4 DEF StoreInv, StoreTypes, LockHeld, Loaded
  <2>4. QED
    BY <2>1, <2>2, <2>3 DEF StoreTypes
<1>6. metadata # Missing =>
         /\ Whole(metadata.token, metadata.revision)
         /\ \A s \in Source : manifest[metadata.token][s] # Missing =>
               manifest[metadata.token][s] < nextToken /\ manifest[metadata.token][s] \in Nat
         /\ metadata.token < nextToken /\ metadata.token \in Token
  BY DEF StoreInv, KeptInv, Whole, Token
<1>7. metadata # Missing => Whole(metadata.token, metadata.revision)'
  <2> SUFFICES ASSUME metadata # Missing PROVE Whole(metadata.token, metadata.revision)'
    OBVIOUS
  <2>1. \A s \in Source : ChunkOf(metadata.token, s)' = ChunkOf(metadata.token, s)
    BY <1>1 DEF ChunkOf, generations
  <2>2. given'[metadata.token] = given[metadata.token] /\ metadata.token # nextToken
    BY <1>2, <1>3, <1>6
  <2>3. \A u \in Saver : Saves(u)' =>
           /\ save'[u].token # metadata.token
           /\ \A s \in Source : manifest[metadata.token][s] # save'[u].token
    <3>1. \A u \in Saver \ {w} : ~Saves(u)'
      BY <1>1, <1>4 DEF Saves, Saving
    <3>2. \A s \in Source : manifest[metadata.token][s] # nextToken
      BY <1>2, <1>6, StoreAssumption
    <3>3. QED
      BY <1>1, <2>2, <3>1, <3>2
  <2>4. \A s \in Source : manifest[metadata.token][s] # Missing =>
           manifest[metadata.token][s] < nextToken' /\ given[metadata.token][s] # Missing
    BY <1>2, <1>6 DEF Whole
  <2>5. metadata.token < nextToken' /\ metadata' = metadata
    BY <1>1, <1>2, <1>6 DEF Token, generations
  <2>6. QED
    BY <1>1, <1>6, <2>1, <2>2, <2>3, <2>4, <2>5 DEF Whole, generations
<1>8. KeptInv' /\ PreviousInv'
  BY <1>1, <1>7 DEF StoreInv, KeptInv, PreviousInv, generations, ChunkOf
<1>9. DoneInv'
  BY <1>1, <1>4 DEF DoneInv, Saving
<1>10. OpenInv'
  <2>1. CurrentRevision' = CurrentRevision
    BY <1>1 DEF CurrentRevision, generations
  <2>2. \A s \in Source : save'[w].entries[s] # Missing => save'[w].entries[s] # nextToken
    BY <1>1, <1>2, <1>6
  <2>3. QED
    BY <1>1, <1>2, <1>3, <1>4, <2>1, <2>2 DEF OpenInv, Saves, Saving, generations
<1>11. QED
  BY <1>5, <1>8, <1>9, <1>10 DEF StoreInv

(* What a saver knows and does between the lock and the end of its save.   *)
SaverAlone(w) ==
    /\ storeLock' = storeLock /\ DOMAIN save' = Saver
    /\ \A u \in Saver \ {w} : save'[u] = save[u]
    /\ save[w] \in FullSave /\ save'[w] \in FullSave
    /\ save'[w].revision = save[w].revision /\ save'[w].token = save[w].token
    /\ save'[w].lineage = save[w].lineage
    /\ UNCHANGED <<nextToken, held, previous, given>>

LEMMA SaverAloneKeeps ==
    ASSUME StoreInv, NEW w \in Saver, SaverAlone(w)
    PROVE  /\ SaveTypes' /\ StoreMemory' /\ LockHeld' /\ Loaded'
           /\ \A u \in Saver \ {w} : save'[u].at \in {"idle", "lock"}
           /\ save[w].token \in Token /\ save[w].token \in Nat /\ nextToken \in Nat
<1>1. save[w].at \in Saving /\ save'[w].at \in Saving
  BY DEF SaverAlone, FullSave
<1>2. SaveTypes' /\ StoreMemory' /\ LockHeld' /\ Loaded'
  BY <1>1 DEF SaverAlone, Saving, StoreInv, StoreTypes, SaveTypes, StoreMemory, LockHeld, Loaded
<1>3. \A u \in Saver \ {w} : save'[u].at \in {"idle", "lock"}
  BY <1>1, OnlySaver DEF SaverAlone, StoreInv, Saving
<1>4. QED
  BY <1>2, <1>3 DEF SaverAlone, FullSave, Token, StoreInv, StoreTypes, StoreFiles

LEMMA WriteFilesKeeps == \A w \in Saver : StoreInv /\ WriteFiles(w) => StoreInv'
<1> SUFFICES ASSUME NEW w \in Saver, StoreInv, WriteFiles(w) PROVE StoreInv'
  OBVIOUS
<1>1. save[w] \in FullSave /\ save[w].at = "files" /\ DOMAIN save = Saver
  BY SaveShapes DEF WriteFiles, Saving, StoreInv, StoreTypes, SaveTypes
<1>2. /\ save' = [save EXCEPT ![w].at = "commit"]
      /\ coreFile' = [coreFile EXCEPT ![save[w].token] = save[w].revision]
      /\ fileState' = [fileState EXCEPT ![save[w].token] = save[w].revision]
      /\ UNCHANGED <<metadata, manifest, chunk, storeLock, nextToken, held, previous, given>>
  BY DEF WriteFiles
<1>3. /\ SaverAlone(w) /\ save'[w].at = "commit" /\ save'[w].entries = save[w].entries
      /\ save'[w].committed = save[w].committed
  BY <1>1, <1>2 DEF SaverAlone, FullSave, Saving
<1> DEFINE k == save[w].token
<1>4. k \in Token /\ Saves(w) /\ save[w].revision \in Nat
  BY <1>1 DEF FullSave, StoreInv, DoneInv, Saves, Saving
<1>5. /\ coreFile'[k] = save[w].revision /\ fileState'[k] = save[w].revision
      /\ FilesBut(k) /\ StoreFiles'
  BY <1>2, <1>4 DEF FilesBut, StoreInv, StoreTypes, StoreFiles
<1>6. Opened
  BY <1>3, <1>4 DEF Opened, Saves, SaverAlone
<1>7. KeptInv' /\ PreviousInv' /\ CurrentRevision' = CurrentRevision
  BY <1>2, <1>4, <1>5, <1>6, CommittedKept, SaverAloneKeeps, <1>3
<1>8. StoreTypes' /\ \A u \in Saver \ {w} : save'[u].at \in {"idle", "lock"}
  BY <1>3, <1>5, SaverAloneKeeps DEF StoreTypes
<1>9. DoneInv'
  BY <1>3, <1>4, <1>8 DEF DoneInv, Saves, Saving
<1>10. OpenInv'
  BY <1>1, <1>2, <1>3, <1>4, <1>5, <1>7, <1>8
     DEF StoreInv, OpenInv, Saves, Saving, SaverAlone
<1>11. QED
  BY <1>7, <1>8, <1>9, <1>10 DEF StoreInv

(* What a save is given is what its files say when it commits.             *)
LEMMA CommitIsWhole ==
    ASSUME StoreInv, NEW w \in Saver, save[w].at = "commit"
    PROVE  /\ save[w] \in FullSave /\ Saves(w) /\ save[w].revision = CurrentRevision + 1
           /\ given[save[w].token] = save[w].lineage
           /\ manifest[save[w].token] = save[w].entries
           /\ coreFile[save[w].token] = save[w].revision
           /\ fileState[save[w].token] = save[w].revision
           /\ save[w].token < nextToken
           /\ \A s \in Source : ChunkOf(save[w].token, s) = save[w].lineage[s]
           /\ \A s \in Source : save[w].entries[s] # Missing =>
                 save[w].entries[s] < nextToken /\ save[w].lineage[s] # Missing
<1>1. save[w] \in FullSave /\ Saves(w)
  BY SaveShapes DEF Saving, StoreInv, DoneInv, Saves
<1>2. /\ save[w].revision = CurrentRevision + 1
      /\ save[w].token < nextToken /\ given[save[w].token] = save[w].lineage
      /\ \A s \in Source :
            \/ save[w].entries[s] \in {Missing, save[w].token}
            \/ metadata # Missing /\ save[w].entries[s] = manifest[metadata.token][s]
      /\ manifest[save[w].token] = save[w].entries
      /\ \A s \in Source :
            IF save[w].lineage[s] = Missing THEN save[w].entries[s] = Missing
            ELSE /\ save[w].entries[s] # Missing
                 /\ chunk[save[w].entries[s]][s] = save[w].lineage[s]
      /\ coreFile[save[w].token] = save[w].revision /\ fileState[save[w].token] = save[w].revision
  BY <1>1 DEF StoreInv, OpenInv
<1>3. metadata # Missing => \A s \in Source :
         manifest[metadata.token][s] # Missing => manifest[metadata.token][s] < nextToken
  BY DEF StoreInv, KeptInv, Whole
<1>4. QED
  BY <1>1, <1>2, <1>3 DEF ChunkOf

LEMMA CommitKeeps == \A w \in Saver : StoreInv /\ CommitGeneration(w) => StoreInv'
<1> SUFFICES ASSUME NEW w \in Saver, StoreInv, CommitGeneration(w) PROVE StoreInv'
  OBVIOUS
<1> DEFINE k == save[w].token
<1>1. /\ save[w] \in FullSave /\ Saves(w) /\ save[w].revision = CurrentRevision + 1
      /\ given[k] = save[w].lineage /\ manifest[k] = save[w].entries
      /\ coreFile[k] = save[w].revision /\ fileState[k] = save[w].revision
      /\ k < nextToken /\ \A s \in Source : ChunkOf(k, s) = save[w].lineage[s]
      /\ \A s \in Source : save[w].entries[s] # Missing =>
            save[w].entries[s] < nextToken /\ save[w].lineage[s] # Missing
  BY CommitIsWhole DEF CommitGeneration
<1>2. /\ save' = [save EXCEPT ![w].at = "clean", ![w].committed = TRUE] /\ DOMAIN save = Saver
      /\ metadata' = [revision |-> save[w].revision, token |-> k]
      /\ UNCHANGED <<coreFile, fileState, manifest, chunk, storeLock, nextToken, held,
                     previous, given>>
  BY DEF CommitGeneration, StoreInv, StoreTypes, SaveTypes
<1>3. /\ SaverAlone(w) /\ save'[w].at = "clean" /\ save'[w].committed
  BY <1>1, <1>2 DEF SaverAlone, FullSave, Saving
<1>4. k \in Token /\ k \in Nat /\ save[w].revision \in Nat \ {0} /\ save[w].lineage \in Lineage
      /\ save[w].entries \in [Source -> Token \cup {Missing}]
  BY <1>1 DEF FullSave, Token
<1>5. metadata' # Missing /\ metadata'.token = k /\ metadata'.revision = save[w].revision
  BY <1>2, <1>4, StoreAssumption
<1>6. StoreFiles'
  BY <1>2, <1>4 DEF StoreInv, StoreTypes, StoreFiles
<1>7. StoreTypes' /\ \A u \in Saver \ {w} : save'[u].at \in {"idle", "lock"}
  BY <1>3, <1>6, SaverAloneKeeps DEF StoreTypes
<1>8. \A u \in Saver : ~Saves(u)'
  BY <1>3, <1>7 DEF Saves, Saving
<1>9. KeptInv'
  <2>1. Whole(k, save[w].revision)'
    BY <1>1, <1>2, <1>3, <1>4, <1>8 DEF Whole, ChunkOf, SaverAlone
  <2>2. QED
    BY <1>5, <2>1, <1>3 DEF KeptInv, Whole, ChunkOf, Saves, SaverAlone
<1>10. PreviousInv'
  <2>1. \A u \in Saver : previous[u] # Missing => previous[u].revision < save[w].revision
    BY <1>1 DEF StoreInv, PreviousInv, CurrentRevision, StoreTypes, StoreFiles, StoreMemory
  <2>2. \A u \in Saver : previous[u] # Missing => previous[u].revision \in Nat
    BY DEF StoreInv, StoreTypes, StoreMemory
  <2>3. QED
    BY <1>2, <1>4, <1>5, <2>1, <2>2 DEF PreviousInv
<1>11. OpenInv'
  BY <1>8 DEF OpenInv
<1>12. DoneInv'
  BY <1>1, <1>2, <1>3, <1>7 DEF DoneInv, Saving, SaverAlone
<1>13. QED
  BY <1>7, <1>9, <1>10, <1>11, <1>12 DEF StoreInv

LEMMA RaiseKeeps == \A w \in Saver : StoreInv /\ SaveRaises(w) => StoreInv'
<1> SUFFICES ASSUME NEW w \in Saver, StoreInv, SaveRaises(w) PROVE StoreInv'
  OBVIOUS
<1> DEFINE k == save[w].token
<1>1. /\ save[w] \in FullSave /\ save[w].at \in {"lineage", "files", "commit"}
      /\ DOMAIN save = Saver
  BY SaveShapes DEF SaveRaises, Saving, StoreInv, StoreTypes, SaveTypes
<1>2. PICK sources \in {{}, Todo(w)} :
         /\ WithChunks(w, sources)
         /\ save' = [save EXCEPT ![w].at = "clean", ![w].entries = Named(w, sources)]
         /\ UNCHANGED <<metadata, coreFile, fileState, manifest, storeLock, nextToken, held,
                        previous, given>>
  BY DEF SaveRaises
<1>3. PICK e : e = Named(w, sources)
  OBVIOUS
<1>4. k \in Token /\ Saves(w) /\ save[w].lineage \in Lineage /\ sources \subseteq Source
  BY <1>1 DEF FullSave, StoreInv, DoneInv, Saves, Saving, Todo
<1>5. /\ e \in [Source -> Token \cup {Missing}]
      /\ \A s \in Source : e[s] \in {k, save[w].entries[s]}
  BY <1>1, <1>3 DEF Named, FullSave
<1>6. save' = [save EXCEPT ![w].at = "clean", ![w].entries = e]
  BY <1>2, <1>3
<1>7. save'[w] \in FullSave /\ save'[w].at = "clean" /\ save'[w].entries = e
  BY <1>1, <1>5, <1>6 DEF FullSave, Saving
<1>8. SaverAlone(w) /\ save'[w].committed = save[w].committed
  BY <1>1, <1>2, <1>6, <1>7 DEF SaverAlone, FullSave
<1>9. /\ chunk' \in [Token -> Lineage]
      /\ \A u \in Token \ {k} : chunk'[u] = chunk[u]
  <2>1. chunk' = [chunk EXCEPT ![k] =
                    [s \in Source |-> IF s \in sources THEN save[w].lineage[s] ELSE @[s]]]
    BY <1>2 DEF WithChunks
  <2>2. QED
    BY <1>4, <2>1 DEF StoreInv, StoreTypes, StoreFiles, Lineage
<1>10. FilesBut(k) /\ StoreFiles'
  BY <1>2, <1>9 DEF FilesBut, StoreInv, StoreTypes, StoreFiles
<1>11. Opened
  BY <1>4, <1>8 DEF Opened, Saves, SaverAlone
<1>12. /\ KeptInv' /\ PreviousInv' /\ CurrentRevision' = CurrentRevision
       /\ metadata # Missing => manifest'[metadata.token] = manifest[metadata.token]
  BY <1>2, <1>4, <1>8, <1>10, <1>11, CommittedKept, SaverAloneKeeps
<1>13. StoreTypes' /\ \A u \in Saver \ {w} : save'[u].at \in {"idle", "lock"}
  BY <1>8, <1>10, SaverAloneKeeps DEF StoreTypes
<1>14. DoneInv'
  BY <1>4, <1>8, <1>13 DEF DoneInv, Saves, Saving
<1>15. OpenInv'
  <2>1. /\ save[w].revision = CurrentRevision + 1
        /\ k < nextToken /\ given[k] = save[w].lineage
        /\ \A s \in Source :
              \/ save[w].entries[s] \in {Missing, k}
              \/ metadata # Missing /\ save[w].entries[s] = manifest[metadata.token][s]
    BY <1>4 DEF StoreInv, OpenInv
  <2>2. QED
    BY <1>2, <1>5, <1>7, <1>8, <1>12, <1>13, <2>1 DEF OpenInv, Saves, Saving, SaverAlone
<1>16. QED
  BY <1>12, <1>13, <1>14, <1>15 DEF StoreInv

LEMMA FinishDoneKeeps ==
    \A w \in Saver : StoreInv /\ FinishSave(w) /\ save[w].committed => StoreInv'
<1> SUFFICES ASSUME NEW w \in Saver, StoreInv, FinishSave(w), save[w].committed
             PROVE  StoreInv'
  OBVIOUS
<1>1. save[w] \in FullSave /\ save[w].at = "clean" /\ DOMAIN save = Saver
  BY SaveShapes DEF FinishSave, Saving, StoreInv, StoreTypes, SaveTypes
<1>2. /\ metadata = [revision |-> save[w].revision, token |-> save[w].token]
      /\ given[save[w].token] = save[w].lineage
  BY <1>1 DEF StoreInv, DoneInv, Saving
<1>3. /\ storeLock' = Missing /\ save' = [save EXCEPT ![w] = NoSave]
      /\ UNCHANGED <<generations, given, nextToken>>
  BY DEF FinishSave, generations
<1>4. PICK v \in Nat \ {0}, l \in Lineage : v = save[w].revision /\ l = save[w].lineage
  BY <1>1 DEF FullSave
<1>5. \/ /\ held' = [held EXCEPT ![w] = [revision |-> v, since |-> v, lineage |-> l]]
         /\ previous' = [previous EXCEPT ![w] = [revision |-> v, lineage |-> l]]
      \/ UNCHANGED <<held, previous>>
  BY <1>4 DEF FinishSave
<1>6. save'[w] = NoSave /\ \A u \in Saver \ {w} : save'[u] = save[u]
  BY <1>1, <1>3
<1>7. SaveTypes' /\ StoreMemory'
  BY <1>4, <1>5, <1>1, <1>3, <1>6 DEF StoreInv, StoreTypes, SaveTypes, StoreMemory
<1>8. \A u \in Saver \ {w} : save[u].at \in {"idle", "lock"} /\ held'[u] = held[u]
  BY <1>1, <1>5, OnlySaver DEF StoreInv, StoreTypes, StoreMemory
<1>9. LockHeld' /\ Loaded'
  BY <1>3, <1>6, <1>8, StoreAssumption DEF LockHeld, NoSave, StoreInv, StoreTypes, Loaded
<1>10. StoreTypes'
  BY <1>3, <1>7, <1>9, SameFiles DEF StoreInv, StoreTypes
<1>11. PreviousInv'
  <2>1. metadata # Missing /\ metadata.revision = v /\ metadata' = metadata
    BY <1>2, <1>3, <1>1, <1>4, StoreAssumption DEF FullSave, Token, generations
  <2>2. \A s \in Source : l[s] = ChunkOf(metadata.token, s)
    BY <1>2, <1>4, <2>1 DEF StoreInv, KeptInv, Whole
  <2>3. \A t, s : ChunkOf(t, s)' = ChunkOf(t, s)
    BY <1>3 DEF ChunkOf, generations
  <2>4. CASE UNCHANGED previous
    BY <2>1, <2>3, <2>4 DEF StoreInv, PreviousInv
  <2>5. CASE previous' = [previous EXCEPT ![w] = [revision |-> v, lineage |-> l]]
    <3>1. /\ previous'[w].revision = v /\ previous'[w].lineage = l
          /\ \A u \in Saver \ {w} : previous'[u] = previous[u]
      BY <2>5 DEF StoreInv, StoreTypes, StoreMemory
    <3>2. QED
      BY <1>4, <2>1, <2>2, <2>3, <3>1 DEF StoreInv, PreviousInv
  <2>6. QED
    BY <1>5, <2>4, <2>5
<1>12. QED
  BY <1>3, <1>6, <1>10, <1>11, QuietKeeps DEF Saving, NoSave

(* A failed save removes the files it made, which no generation names.     *)
LEMMA FinishFailedKeeps ==
    \A w \in Saver : StoreInv /\ FinishSave(w) /\ ~save[w].committed => StoreInv'
<1> SUFFICES ASSUME NEW w \in Saver, StoreInv, FinishSave(w), ~save[w].committed
             PROVE  StoreInv'
  OBVIOUS
<1> DEFINE k == save[w].token
<1>1. save[w] \in FullSave /\ save[w].at = "clean" /\ DOMAIN save = Saver
  BY SaveShapes DEF FinishSave, Saving, StoreInv, StoreTypes, SaveTypes
<1>2. Saves(w) /\ k \in Token
  BY <1>1 DEF Saves, Saving, FullSave
<1>3. /\ storeLock' = Missing /\ save' = [save EXCEPT ![w] = NoSave]
      /\ given' = [given EXCEPT ![k] = Missing]
      /\ UNCHANGED <<metadata, nextToken, held, previous>>
  BY DEF FinishSave
<1>4. \/ UNCHANGED <<coreFile, fileState, manifest, chunk>>
      \/ /\ chunk' = [t \in Token |-> [s \in Source |->
                        IF s \in Created(w) /\ t = save[w].entries[s] THEN Missing
                        ELSE chunk[t][s]]]
         /\ manifest' = [manifest EXCEPT ![k] = Missing]
         /\ coreFile' = [coreFile EXCEPT ![k] = Missing]
         /\ fileState' = [fileState EXCEPT ![k] = Missing]
  BY DEF FinishSave
<1>5. save'[w] = NoSave /\ \A u \in Saver \ {w} : save'[u] = save[u]
  BY <1>1, <1>3
<1>6. \A u \in Saver \ {w} : save[u].at \in {"idle", "lock"}
  BY <1>1, OnlySaver DEF StoreInv
<1>7. /\ chunk' \in [Token -> Lineage]
      /\ \A u \in Token \ {k} : chunk'[u] = chunk[u]
  <2>1. CASE UNCHANGED chunk
    BY <2>1 DEF StoreInv, StoreTypes, StoreFiles
  <2>2. CASE chunk' = [t \in Token |-> [s \in Source |->
                         IF s \in Created(w) /\ t = save[w].entries[s] THEN Missing
                         ELSE chunk[t][s]]]
    <3>1. chunk \in [Token -> Lineage]
      BY DEF StoreInv, StoreTypes, StoreFiles
    <3>2. chunk' \in [Token -> Lineage]
      BY <2>2, <3>1 DEF Lineage
    <3>3. \A u \in Token \ {k}, s \in Source : chunk'[u][s] = chunk[u][s]
      BY <2>2 DEF Created
    <3>4. QED
      BY <3>1, <3>2, <3>3 DEF Lineage
  <2>3. QED
    BY <1>4, <2>1, <2>2
<1>8. FilesBut(k) /\ StoreFiles'
  BY <1>2, <1>3, <1>4, <1>7 DEF FilesBut, StoreInv, StoreTypes, StoreFiles
<1>9. Opened /\ \A u \in Saver : save'[u].at \notin Saving
  BY <1>5, <1>6 DEF Opened, Saves, Saving, NoSave
<1>10. KeptInv' /\ PreviousInv'
  BY <1>2, <1>3, <1>8, <1>9, CommittedKept DEF StoreInv, StoreTypes, StoreFiles
<1>11. SaveTypes' /\ StoreMemory'
  BY <1>1, <1>3, <1>5 DEF StoreInv, StoreTypes, SaveTypes, StoreMemory
<1>12. LockHeld' /\ Loaded'
  BY <1>3, <1>5, <1>6, StoreAssumption DEF LockHeld, NoSave, StoreInv, StoreTypes, Loaded
<1>13. QED
  BY <1>8, <1>9, <1>10, <1>11, <1>12 DEF StoreInv, StoreTypes, OpenInv, DoneInv, Saves

LEMMA FirstStoreInv == StoreInit => StoreInv
<1> SUFFICES ASSUME StoreInit PROVE StoreInv
  OBVIOUS
<1>1. /\ \A w \in Saver : save[w] = NoSave /\ previous[w] = Missing
      /\ DOMAIN save = Saver /\ metadata = Missing /\ storeLock = Missing
  BY DEF StoreInit
<1>2. SaveTypes /\ StoreMemory /\ LockHeld /\ Loaded
  BY <1>1, StoreAssumption
     DEF SaveTypes, StoreMemory, LockHeld, Loaded, NoSave, StoreInit
<1>3. StoreFiles
  BY StoreAssumption DEF StoreInit, StoreFiles, Lineage
<1>4. OpenInv /\ DoneInv
  BY <1>1 DEF OpenInv, DoneInv, Saves, NoSave, Saving
<1>5. PreviousInv /\ KeptInv
  BY <1>1 DEF PreviousInv, KeptInv
<1>6. QED
  BY <1>2, <1>3, <1>4, <1>5 DEF StoreInv, StoreTypes

(* Readers write nothing but the validation cache.                         *)
LEMMA IdleKeeps == ASSUME StoreInv, UNCHANGED <<generations, savers>> PROVE StoreInv'
<1>1. UNCHANGED <<metadata, coreFile, fileState, manifest, chunk, storeLock, nextToken, save,
                  held, previous, given>>
  BY DEF generations, savers
<1>2. StoreTypes' /\ PreviousInv'
  BY <1>1 DEF StoreInv, StoreTypes, SaveTypes, StoreFiles, StoreMemory, LockHeld, Loaded,
              PreviousInv, ChunkOf
<1>3. QED
  BY <1>1, <1>2, QuietKeeps DEF generations

LEMMA ReaderIdles ==
    ASSUME NEW r \in StoreReader, ReaderStep(r) PROVE UNCHANGED <<generations, savers>>
BY DEF ReaderStep, ReadMetadata, ReadCore, ReadChunk, Accept, EndLoad

LEMMA StoreInvariant == StoreSpec => []StoreInv
<1>1. StoreInv /\ [StoreNext]_storeVars => StoreInv'
  <2> SUFFICES ASSUME StoreInv, [StoreNext]_storeVars PROVE StoreInv'
    OBVIOUS
  <2>1. ASSUME NEW w \in Saver, SaverStep(w) PROVE StoreInv'
    BY <2>1, RequestKeeps, RefreshKeeps, StartServiceKeeps, ConflictKeeps, CrashKeeps, LockKeeps,
       WriteLineageKeeps, WriteFilesKeeps, CommitKeeps, RaiseKeeps, FinishDoneKeeps,
       FinishFailedKeeps DEF SaverStep
  <2>2. ASSUME NEW r \in StoreReader, ReaderStep(r) PROVE StoreInv'
    BY <2>2, ReaderIdles, IdleKeeps
  <2>3. CASE UNCHANGED storeVars
    BY <2>3, IdleKeeps DEF storeVars
  <2>4. QED
    BY <2>1, <2>2, <2>3 DEF StoreNext
<1>2. QED
  BY <1>1, FirstStoreInv, PTL DEF StoreSpec

(* Every variable of the store has its type, and the lock is held by the   *)
(* save between Lock and FinishSave, if any (store.py, save_snapshot).     *)
THEOREM StoreIsTyped == StoreSpec => []StoreTypeOK
<1>1. StoreInv => StoreTypeOK
  BY DEF StoreInv, StoreTypes, StoreFiles, LockHeld, StoreTypeOK
<1>2. QED
  BY <1>1, StoreInvariant, PTL

(* The generation the metadata names is, file by file, what its save was   *)
(* given, whoever saves, fails or crashes (store.py, save_snapshot and     *)
(* _write_split_lineage_generation), for every number of savers, sources   *)
(* and saves.                                                              *)
THEOREM GenerationsAreKept == StoreSpec => []CommittedIsWhatWasSaved
<1>1. StoreInv => CommittedIsWhatWasSaved
  <2> SUFFICES ASSUME StoreInv, metadata # Missing
               PROVE  /\ Stored(metadata.token) = given[metadata.token]
                      /\ coreFile[metadata.token] = metadata.revision
                      /\ fileState[metadata.token] = metadata.revision
    BY DEF CommittedIsWhatWasSaved
  <2>1. Whole(metadata.token, metadata.revision)
    BY DEF StoreInv, KeptInv
  <2>2. Stored(metadata.token) = given[metadata.token]
    BY <2>1 DEF Whole, Stored, Lineage
  <2>3. QED
    BY <2>1, <2>2 DEF Whole
<1>2. QED
  BY <1>1, StoreInvariant, PTL

(* What the register holds.                                                *)
StoreHolds == IF metadata = Missing THEN Missing
              ELSE [revision |-> metadata.revision, content |-> Stored(metadata.token)]

LEMMA RegisterIsKept ==
    ASSUME StoreInv, metadata' = metadata,
           metadata # Missing => Stored(metadata.token)' = Stored(metadata.token)
    PROVE  StoreHolds' = StoreHolds
BY DEF StoreHolds

-----------------------------------------------------------------------------
(* What a step of a saver leaves of every generation that is whole: it     *)
(* writes the files of one token, of a save that is open or begins.        *)
SaverWrites(w, k) == k = 0 \/ k = nextToken \/ (Saves(w) /\ k = save[w].token)

SaverMoves(w) ==
    /\ nextToken' \in Nat /\ nextToken <= nextToken' /\ Opened
    /\ \E k : SaverWrites(w, k) /\ FilesBut(k)

LEMMA MovesBy ==
    ASSUME NEW w \in Saver, nextToken' \in Nat, nextToken <= nextToken', Opened,
           NEW k, SaverWrites(w, k), FilesBut(k)
    PROVE  SaverMoves(w)
BY DEF SaverMoves

LEMMA QuietMoves ==
    ASSUME StoreInv, NEW w \in Saver, UNCHANGED <<generations, given, nextToken>>,
           \A u \in Saver : save'[u].at \in Saving => save'[u] = save[u]
    PROVE  SaverMoves(w)
<1>1. nextToken' \in Nat /\ nextToken <= nextToken'
  BY DEF StoreInv, StoreTypes, StoreFiles
<1>2. Opened
  BY DEF Opened, Saves
<1>3. FilesBut(0)
  BY DEF FilesBut, generations
<1>4. SaverWrites(w, 0)
  BY DEF SaverWrites
<1>5. QED
  BY <1>1, <1>2, <1>3, <1>4, MovesBy

LEMMA RequestMoves == \A w \in Saver : StoreInv /\ RequestSave(w) => SaverMoves(w)
<1> SUFFICES ASSUME NEW w \in Saver, StoreInv, RequestSave(w) PROVE SaverMoves(w)
  OBVIOUS
<1>1. PICK v : v = 1 + IF w \in Service THEN held[w].revision ELSE CurrentRevision
  OBVIOUS
<1>2. /\ save' = [save EXCEPT ![w] = [at |-> "lock", revision |-> v]]
      /\ UNCHANGED <<generations, given, nextToken>> /\ DOMAIN save = Saver
  BY <1>1 DEF RequestSave, StoreInv, StoreTypes, SaveTypes
<1>3. \A u \in Saver : save'[u].at \in Saving => save'[u] = save[u]
  BY <1>2 DEF Saving
<1>4. QED
  BY <1>2, <1>3, QuietMoves

LEMMA EndMoves ==
    \A w \in Saver : StoreInv /\ (Conflict(w) \/ LockTimesOut(w) \/ SaverCrash(w)) => SaverMoves(w)
<1> SUFFICES ASSUME NEW w \in Saver, StoreInv, Conflict(w) \/ LockTimesOut(w) \/ SaverCrash(w)
             PROVE  SaverMoves(w)
  OBVIOUS
<1>1. /\ save' = [save EXCEPT ![w] = NoSave] /\ DOMAIN save = Saver
      /\ UNCHANGED <<generations, given, nextToken>>
  BY DEF Conflict, LockTimesOut, SaverCrash, StoreInv, StoreTypes, SaveTypes
<1>2. \A u \in Saver : save'[u].at \in Saving => save'[u] = save[u]
  BY <1>1 DEF Saving, NoSave
<1>3. QED
  BY <1>1, <1>2, QuietMoves

LEMMA LockMoves == \A w \in Saver : StoreInv /\ Lock(w) => SaverMoves(w)
<1> SUFFICES ASSUME NEW w \in Saver, StoreInv, Lock(w) PROVE SaverMoves(w)
  OBVIOUS
<1>1. CASE save[w].revision # CurrentRevision + 1
  <2>1. /\ save' = [save EXCEPT ![w] = [at |-> "conflict"]] /\ DOMAIN save = Saver
        /\ UNCHANGED <<generations, given, nextToken>>
    BY <1>1 DEF Lock, StoreInv, StoreTypes, SaveTypes
  <2>2. \A u \in Saver : save'[u].at \in Saving => save'[u] = save[u]
    BY <2>1 DEF Saving
  <2>3. QED
    BY <2>1, <2>2, QuietMoves
<1>2. CASE save[w].revision = CurrentRevision + 1
  <2>1. /\ nextToken \in Token /\ nextToken' = nextToken + 1 /\ UNCHANGED generations
        /\ \A u \in Saver \ {w} : save'[u] = save[u]
        /\ save'[w].token = nextToken
        /\ given' = [given EXCEPT ![nextToken] = save'[w].lineage]
    BY <1>2, DoesLock
  <2>2. Opened
    BY <2>1 DEF Opened, Saves
  <2>3. FilesBut(nextToken)
    BY <2>1 DEF FilesBut, generations, StoreInv, StoreTypes, StoreFiles
  <2>4. nextToken' \in Nat /\ nextToken <= nextToken'
    BY <2>1 DEF Token
  <2>5. SaverWrites(w, nextToken)
    BY DEF SaverWrites
  <2>6. QED
    BY <2>2, <2>3, <2>4, <2>5, MovesBy
<1>3. QED
  BY <1>1, <1>2

(* A save that goes on writes the files of its token.                      *)
LEMMA OpenMoves ==
    ASSUME StoreInv, NEW w \in Saver, Saves(w), FilesBut(save[w].token), nextToken' = nextToken,
           \A u \in Saver \ {w} : save'[u] = save[u],
           save'[w].at \in Saving => save'[w].token = save[w].token
    PROVE  SaverMoves(w)
<1>1. nextToken' \in Nat /\ nextToken <= nextToken' /\ SaverWrites(w, save[w].token)
  BY DEF StoreInv, StoreTypes, StoreFiles, SaverWrites
<1>2. Opened
  BY DEF Opened, Saves
<1>3. QED
  BY <1>1, <1>2, MovesBy

LEMMA WriteMoves ==
    \A w \in Saver : StoreInv /\ (WriteLineage(w) \/ WriteFiles(w) \/ SaveRaises(w)) => SaverMoves(w)
<1> SUFFICES ASSUME NEW w \in Saver, StoreInv, WriteLineage(w) \/ WriteFiles(w) \/ SaveRaises(w)
             PROVE  SaverMoves(w)
  OBVIOUS
<1> DEFINE k == save[w].token
<1>1. save[w] \in FullSave /\ save[w].at \in {"lineage", "files", "commit"} /\ DOMAIN save = Saver
  BY SaveShapes DEF WriteLineage, WriteFiles, SaveRaises, Saving, StoreInv, StoreTypes, SaveTypes
<1>2. Saves(w) /\ k \in Token
  BY <1>1 DEF FullSave, StoreInv, DoneInv, Saves, Saving
<1>3. nextToken' = nextToken /\ given' = given
  BY DEF WriteLineage, WriteFiles, SaveRaises
<1>4. \E at, es : save' = [save EXCEPT ![w].at = at, ![w].entries = es]
  <2>1. CASE WriteLineage(w)
    BY <2>1 DEF WriteLineage
  <2>2. CASE WriteFiles(w)
    <3>1. save' = [save EXCEPT ![w].at = "commit", ![w].entries = save[w].entries]
      BY <1>1, <2>2 DEF WriteFiles, FullSave
    <3>2. QED
      BY <3>1
  <2>3. CASE SaveRaises(w)
    BY <2>3 DEF SaveRaises
  <2>4. QED
    BY <2>1, <2>2, <2>3
<1>5. save'[w].token = k /\ \A u \in Saver \ {w} : save'[u] = save[u]
  BY <1>1, <1>4 DEF FullSave
<1>6. FilesBut(k)
  <2>1. CASE WriteLineage(w)
    BY <1>2, <1>3, <2>1 DEF WriteLineage, WithChunks, FilesBut, StoreInv, StoreTypes, StoreFiles
  <2>2. CASE WriteFiles(w)
    BY <1>2, <1>3, <2>2 DEF WriteFiles, FilesBut, StoreInv, StoreTypes, StoreFiles
  <2>3. CASE SaveRaises(w)
    BY <1>2, <1>3, <2>3 DEF SaveRaises, WithChunks, FilesBut, StoreInv, StoreTypes, StoreFiles
  <2>4. QED
    BY <2>1, <2>2, <2>3
<1>7. QED
  BY <1>2, <1>3, <1>5, <1>6, OpenMoves

LEMMA CommitMoves == \A w \in Saver : StoreInv /\ CommitGeneration(w) => SaverMoves(w)
<1> SUFFICES ASSUME NEW w \in Saver, StoreInv, CommitGeneration(w) PROVE SaverMoves(w)
  OBVIOUS
<1>1. save[w] \in FullSave /\ Saves(w) /\ DOMAIN save = Saver
  BY CommitIsWhole DEF CommitGeneration, StoreInv, StoreTypes, SaveTypes
<1>2. /\ save' = [save EXCEPT ![w].at = "clean", ![w].committed = TRUE]
      /\ UNCHANGED <<coreFile, fileState, manifest, chunk, nextToken, given>>
  BY DEF CommitGeneration
<1>3. save'[w].token = save[w].token /\ \A u \in Saver \ {w} : save'[u] = save[u]
  BY <1>1, <1>2 DEF FullSave
<1>4. FilesBut(save[w].token)
  BY <1>2 DEF FilesBut
<1>5. QED
  BY <1>1, <1>2, <1>3, <1>4, OpenMoves

LEMMA FinishMoves == \A w \in Saver : StoreInv /\ FinishSave(w) => SaverMoves(w)
<1> SUFFICES ASSUME NEW w \in Saver, StoreInv, FinishSave(w) PROVE SaverMoves(w)
  OBVIOUS
<1>1. save[w] \in FullSave /\ save[w].at = "clean" /\ DOMAIN save = Saver
  BY SaveShapes DEF FinishSave, Saving, StoreInv, StoreTypes, SaveTypes
<1>2. save' = [save EXCEPT ![w] = NoSave] /\ nextToken' = nextToken
  BY DEF FinishSave
<1>3. save'[w].at \notin Saving /\ \A u \in Saver \ {w} : save'[u] = save[u]
  BY <1>1, <1>2 DEF NoSave, Saving
<1>4. CASE save[w].committed
  <2>1. UNCHANGED <<generations, given, nextToken>>
    BY <1>4 DEF FinishSave, generations
  <2>2. QED
    BY <1>3, <2>1, QuietMoves
<1>5. CASE ~save[w].committed
  <2>1. Saves(w) /\ save[w].token \in Token
    BY <1>1, <1>5 DEF Saves, Saving, FullSave
  <2>2. given' = [given EXCEPT ![save[w].token] = Missing]
    BY <1>5 DEF FinishSave
  <2>3. CASE UNCHANGED <<coreFile, fileState, manifest, chunk>>
    <3>1. FilesBut(save[w].token)
      BY <2>1, <2>2, <2>3 DEF FilesBut, StoreInv, StoreTypes, StoreFiles
    <3>2. QED
      BY <1>2, <1>3, <2>1, <3>1, OpenMoves
  <2>4. CASE /\ chunk' = [t \in Token |-> [s \in Source |->
                            IF s \in Created(w) /\ t = save[w].entries[s] THEN Missing
                            ELSE chunk[t][s]]]
             /\ manifest' = [manifest EXCEPT ![save[w].token] = Missing]
             /\ coreFile' = [coreFile EXCEPT ![save[w].token] = Missing]
             /\ fileState' = [fileState EXCEPT ![save[w].token] = Missing]
    <3>1. chunk \in [Token -> Lineage]
      BY DEF StoreInv, StoreTypes, StoreFiles
    <3>2. \A u \in Token \ {save[w].token} : chunk'[u] = chunk[u]
      <4> SUFFICES ASSUME NEW u \in Token \ {save[w].token} PROVE chunk'[u] = chunk[u]
        OBVIOUS
      <4>1. chunk'[u] = [s \in Source |-> chunk[u][s]]
        BY <2>4 DEF Created
      <4>2. QED
        BY <3>1, <4>1 DEF Lineage
    <3>3. FilesBut(save[w].token)
      BY <2>1, <2>2, <2>4, <3>2 DEF FilesBut, StoreInv, StoreTypes, StoreFiles
    <3>4. QED
      BY <1>2, <1>3, <2>1, <3>3, OpenMoves
  <2>5. QED
    BY <1>5, <2>3, <2>4 DEF FinishSave
<1>6. QED
  BY <1>4, <1>5

LEMMA SaverFrame == ASSUME StoreInv, NEW w \in Saver, SaverStep(w) PROVE SaverMoves(w)
<1>1. CASE Refresh(w) \/ StartService(w)
  BY <1>1, QuietMoves DEF Refresh, StartService
<1>2. QED
  BY <1>1, RequestMoves, EndMoves, LockMoves, WriteMoves, CommitMoves, FinishMoves DEF SaverStep

(* So every generation that is whole stays so.                             *)
LEMMA WholeStays ==
    ASSUME StoreInv, NEW w \in Saver, SaverStep(w), NEW t, NEW v, Whole(t, v)
    PROVE  /\ Whole(t, v)' /\ given'[t] = given[t] /\ manifest'[t] = manifest[t]
           /\ \A s \in Source : ChunkOf(t, s)' = ChunkOf(t, s)
<1>1. PICK k : SaverWrites(w, k) /\ FilesBut(k)
  BY SaverFrame DEF SaverMoves
<1>2. nextToken' \in Nat /\ nextToken <= nextToken' /\ Opened
  BY SaverFrame DEF SaverMoves
<1>3. nextToken \in Nat /\ t \in Nat /\ t # 0 /\ t < nextToken
      /\ \A s \in Source : manifest[t][s] # Missing =>
            manifest[t][s] \in Nat \ {0} /\ manifest[t][s] < nextToken
  BY DEF StoreInv, StoreTypes, StoreFiles, Whole, Token
<1>4. k # t /\ \A s \in Source : manifest[t][s] # k
  <2>1. CASE k = 0 \/ k = nextToken
    BY <1>3, <2>1, StoreAssumption
  <2>2. CASE Saves(w) /\ k = save[w].token
    BY <2>2 DEF Whole
  <2>3. QED
    BY <1>1, <2>1, <2>2 DEF SaverWrites
<1>5. QED
  BY <1>1, <1>2, <1>4, WholeKept DEF StoreInv, StoreTypes

-----------------------------------------------------------------------------
(* The refinement: a commit replaces the register, nothing else moves it.  *)

LEMMA StepHolds ==
    ASSUME StoreInv, NEW w \in Saver, SaverStep(w), ~CommitGeneration(w)
    PROVE  StoreHolds' = StoreHolds
<1>1. metadata' = metadata
  BY DEF SaverStep, RequestSave, Refresh, StartService, Lock, Conflict, LockTimesOut, WriteLineage,
         WriteFiles, SaveRaises, FinishSave, SaverCrash, generations
<1>2. ASSUME metadata # Missing PROVE Stored(metadata.token)' = Stored(metadata.token)
  <2>1. Whole(metadata.token, metadata.revision)
    BY <1>2 DEF StoreInv, KeptInv
  <2>2. PICK t : t = metadata.token
    OBVIOUS
  <2>3. \A s \in Source : ChunkOf(t, s)' = ChunkOf(t, s)
    BY <2>1, <2>2, WholeStays
  <2>4. Stored(t)' = Stored(t)
    BY <2>3 DEF Stored
  <2>5. QED
    BY <1>1, <2>2, <2>4 DEF Stored, ChunkOf
<1>3. QED
  BY <1>1, <1>2, RegisterIsKept

LEMMA CommitHolds ==
    ASSUME StoreInv, NEW w \in Saver, CommitGeneration(w)
    PROVE  \E content \in Lineage :
              StoreHolds' = [revision |-> IF StoreHolds = Missing THEN 1
                                          ELSE StoreHolds.revision + 1,
                             content |-> content]
<1> DEFINE k == save[w].token
<1>1. /\ save[w] \in FullSave /\ save[w].revision = CurrentRevision + 1
      /\ manifest[k] = save[w].entries
      /\ \A s \in Source : ChunkOf(k, s) = save[w].lineage[s]
  BY CommitIsWhole DEF CommitGeneration
<1>2. /\ metadata' = [revision |-> save[w].revision, token |-> k]
      /\ UNCHANGED <<manifest, chunk>>
  BY DEF CommitGeneration
<1>3. save[w].revision \in Nat /\ k \in Nat /\ save[w].lineage \in Lineage
  BY <1>1 DEF FullSave, Token
<1>4. metadata' # Missing /\ metadata'.token = k /\ metadata'.revision = save[w].revision
  BY <1>2, <1>3, StoreAssumption
<1>5. Stored(metadata.token)' = save[w].lineage
  <2>1. \A s \in Source : ChunkOf(metadata.token, s)' = save[w].lineage[s]
    BY <1>1, <1>2, <1>4 DEF ChunkOf
  <2>2. QED
    BY <1>3, <2>1 DEF Stored, Lineage
<1>6. StoreHolds' = [revision |-> save[w].revision, content |-> save[w].lineage]
  BY <1>4, <1>5 DEF StoreHolds
<1>7. save[w].revision = IF StoreHolds = Missing THEN 1 ELSE StoreHolds.revision + 1
  <2>1. CASE metadata = Missing
    BY <1>1, <2>1 DEF StoreHolds, CurrentRevision
  <2>2. CASE metadata # Missing
    <3>1. PICK l \in Lineage : l = Stored(metadata.token)
      BY <2>2, StoredIsLineage
    <3>2. metadata.revision \in Nat
      BY <2>2, StoredIsLineage
    <3>3. StoreHolds = [revision |-> metadata.revision, content |-> l]
      BY <2>2, <3>1 DEF StoreHolds
    <3>4. StoreHolds # Missing
      BY <3>2, <3>3, StoreAssumption
    <3>5. QED
      BY <1>1, <2>2, <3>3, <3>4 DEF CurrentRevision
  <2>3. QED
    BY <2>1, <2>2
<1>8. QED
  BY <1>3, <1>6, <1>7

(* Files of many saves, chunks that are named again and a metadata file    *)
(* that is replaced last are one register, which a commit replaces as a    *)
(* whole (store.py, save_snapshot), for every number of savers, sources   *)
(* and saves.                                                              *)
THEOREM StoreIsARegister == StoreSpec => ImplementsStoreRegister
<1>1. StoreInit => StoreRegister!Init
  BY DEF StoreInit, StoreRegister!Init
<1>2. StoreInv /\ [StoreNext]_storeVars => [StoreRegister!Commit]_StoreHolds
  <2> SUFFICES ASSUME StoreInv, [StoreNext]_storeVars
               PROVE  StoreRegister!Commit \/ StoreHolds' = StoreHolds
    OBVIOUS
  <2>1. ASSUME UNCHANGED generations PROVE StoreHolds' = StoreHolds
    BY <2>1 DEF generations, StoreHolds, Stored, ChunkOf
  <2>2. ASSUME NEW w \in Saver, CommitGeneration(w) PROVE StoreRegister!Commit
    BY <2>2, CommitHolds DEF StoreRegister!Commit, StoreHolds
  <2>3. QED
    BY <2>1, <2>2, StepHolds, ReaderIdles DEF StoreNext, storeVars
<1>3. QED
  BY <1>1, <1>2, StoreInvariant, PTL
     DEF StoreSpec, ImplementsStoreRegister, StoreRegister!Spec, StoreHolds

-----------------------------------------------------------------------------
(* Loads without a lock: the generation a reader began with stays whole.   *)

Caches == [Source -> [file : Token, bytes : Valid] \cup {Missing}] \cup {Missing}

ReadAt(at) == [at : {at}, revision : Nat, token : Token]
ChunkRead ==
    [at : {"chunks"}, revision : Nat, token : Token, trustedFiles : BOOLEAN,
     cache : Caches, got : Lineage, left : SUBSET Source]
LoadedRead ==
    [at : {"loaded"}, revision : Nat, token : Token, got : Lineage, trustedFiles : BOOLEAN]

(* What is known of a load in state l.                                     *)
LoadOK(l) ==
    \/ l = NoRead
    \/ /\ l \in ReadAt("core") \cup ReadAt("rejected") \cup ChunkRead \cup LoadedRead
       /\ Whole(l.token, l.revision) /\ l.revision <= CurrentRevision
       /\ l.at = "rejected" => ~Acceptable(given[l.token])
       /\ l.at \in {"chunks", "loaded"} => l.trustedFiles
       /\ l.at = "chunks" => \A s \in Source :
             IF s \in l.left THEN manifest[l.token][s] # Missing
             ELSE l.got[s] = given[l.token][s] /\ l.got[s] \in Valid \cup {Missing}
       /\ l.at = "loaded" => l.got = given[l.token] /\ Acceptable(l.got)

ReadInv ==
    /\ validated \in Caches /\ DOMAIN read = StoreReader
    /\ \A r \in StoreReader : \E l \in {read[r]} : LoadOK(l)

LEMMA RevisionGrows ==
    ASSUME StoreInv, NEW w \in Saver, SaverStep(w)
    PROVE  CurrentRevision \in Nat /\ CurrentRevision' \in Nat /\ CurrentRevision <= CurrentRevision'
<1>1. CurrentRevision \in Nat
  BY DEF CurrentRevision, StoreInv, StoreTypes, StoreFiles
<1>2. CASE CommitGeneration(w)
  <2>1. save[w] \in FullSave /\ save[w].revision = CurrentRevision + 1
    BY <1>2, CommitIsWhole DEF CommitGeneration
  <2>2. metadata' = [revision |-> save[w].revision, token |-> save[w].token]
    BY <1>2 DEF CommitGeneration
  <2>3. metadata' # Missing
    BY <2>1, <2>2, StoreAssumption DEF FullSave, Token
  <2>4. CurrentRevision' = CurrentRevision + 1
    BY <2>1, <2>2, <2>3 DEF CurrentRevision
  <2>5. QED
    BY <1>1, <2>4
<1>3. CASE ~CommitGeneration(w)
  <2>1. metadata' = metadata
    BY <1>3 DEF SaverStep, RequestSave, Refresh, StartService, Lock, Conflict, LockTimesOut,
          WriteLineage, WriteFiles, SaveRaises, FinishSave, SaverCrash, generations
  <2>2. QED
    BY <1>1, <2>1 DEF CurrentRevision
<1>4. QED
  BY <1>2, <1>3

LEMMA LoadKept ==
    ASSUME StoreInv, NEW w \in Saver, SaverStep(w), NEW l, LoadOK(l)
    PROVE  LoadOK(l)'
<1>1. CASE l = NoRead
  BY <1>1 DEF LoadOK
<1>2. CASE l # NoRead
  <2>1. PICK t, v : t = l.token /\ v = l.revision
    OBVIOUS
  <2>2. Whole(t, v) /\ v \in Nat /\ v <= CurrentRevision
    BY <1>2, <2>1 DEF LoadOK, ReadAt, ChunkRead, LoadedRead
  <2>3. Whole(t, v)' /\ given'[t] = given[t] /\ manifest'[t] = manifest[t]
    BY <2>2, WholeStays
  <2>4. v <= CurrentRevision'
    BY <2>2, RevisionGrows
  <2>5. Whole(l.token, l.revision)'
    BY <2>1, <2>3
  <2>6. QED
    BY <1>2, <2>1, <2>3, <2>4, <2>5 DEF LoadOK, Acceptable
<1>3. QED
  BY <1>1, <1>2

(* A load goes on, and nobody saves.                                       *)
LEMMA LoadStays ==
    ASSUME UNCHANGED <<generations, savers>>, NEW l PROVE LoadOK(l)' <=> LoadOK(l)
BY DEF LoadOK, Whole, ChunkOf, Saves, CurrentRevision, Acceptable, generations, savers

LEMMA ReadStep ==
    ASSUME ReadInv, NEW r \in StoreReader, NEW l, LoadOK(l), read' = [read EXCEPT ![r] = l],
           UNCHANGED <<generations, savers>>, validated' \in Caches
    PROVE  ReadInv'
<1>1. DOMAIN read' = StoreReader /\ read'[r] = l
      /\ \A o \in StoreReader \ {r} : read'[o] = read[o]
  BY DEF ReadInv
<1>2. \A o \in StoreReader : \E m \in {read'[o]} : LoadOK(m)
  BY <1>1 DEF ReadInv
<1>3. \A o \in StoreReader : \E m \in {read'[o]} : LoadOK(m)'
  BY <1>2, LoadStays
<1>4. QED
  BY <1>1, <1>3 DEF ReadInv

LEMMA LoadIs == ASSUME ReadInv, NEW r \in StoreReader PROVE LoadOK(read[r])
BY DEF ReadInv

LEMMA SaverKeepsLoads == ASSUME StoreInv, ReadInv, NEW w \in Saver, SaverStep(w) PROVE ReadInv'
<1>1. UNCHANGED <<validated, read>>
  BY DEF SaverStep, RequestSave, Refresh, StartService, Lock, Conflict, LockTimesOut,
         WriteLineage, WriteFiles, CommitGeneration, SaveRaises, FinishSave, SaverCrash
<1>2. \A r \in StoreReader : \E l \in {read[r]} : LoadOK(l)'
  BY LoadKept DEF ReadInv
<1>3. QED
  BY <1>1, <1>2 DEF ReadInv

LEMMA ReadMetadataKeeps ==
    \A r \in StoreReader : StoreInv /\ ReadInv /\ ReadMetadata(r) => ReadInv'
<1> SUFFICES ASSUME NEW r \in StoreReader, StoreInv, ReadInv, ReadMetadata(r) PROVE ReadInv'
  OBVIOUS
<1>1. PICK l : l = [at |-> "core", revision |-> metadata.revision, token |-> metadata.token]
  OBVIOUS
<1>2. /\ metadata # Missing /\ read' = [read EXCEPT ![r] = l]
      /\ UNCHANGED <<generations, savers, validated>>
  BY <1>1 DEF ReadMetadata
<1>3. metadata.revision \in Nat /\ metadata.token \in Token
      /\ Whole(metadata.token, metadata.revision) /\ CurrentRevision = metadata.revision
  BY <1>2 DEF StoreInv, KeptInv, StoreTypes, StoreFiles, CurrentRevision
<1>4. l \in ReadAt("core") /\ l.token = metadata.token /\ l.revision = metadata.revision
      /\ l.at = "core"
  BY <1>1, <1>3 DEF ReadAt
<1>5. LoadOK(l)
  BY <1>3, <1>4 DEF LoadOK
<1>6. QED
  BY <1>2, <1>5, ReadStep DEF ReadInv

LEMMA ReadCoreKeeps == \A r \in StoreReader : StoreInv /\ ReadInv /\ ReadCore(r) => ReadInv'
<1> SUFFICES ASSUME NEW r \in StoreReader, StoreInv, ReadInv, ReadCore(r) PROVE ReadInv'
  OBVIOUS
<1>1. PICK t, v : t = read[r].token /\ v = read[r].revision
  OBVIOUS
<1>2. /\ t \in Token /\ v \in Nat /\ Whole(t, v) /\ v <= CurrentRevision
  BY <1>1, LoadIs DEF LoadOK, ReadCore, NoRead, ReadAt, ChunkRead, LoadedRead
<1>3. coreFile[t] = v /\ fileState[t] = v /\ manifest[t] # Missing
  BY <1>2, StoreAssumption DEF Whole, Token
<1>4. PICK l : l = [at |-> "chunks", revision |-> v, token |-> t, trustedFiles |-> fileState[t] = v,
                    cache |-> validated, got |-> [s \in Source |-> Missing],
                    left |-> {s \in Source : manifest[t][s] # Missing}]
  OBVIOUS
<1>5. /\ read' = [read EXCEPT ![r] = l] /\ UNCHANGED <<generations, savers, validated>>
  BY <1>1, <1>3, <1>4 DEF ReadCore, ReadInv
<1>6. l \in ChunkRead /\ l.at = "chunks" /\ l.token = t /\ l.revision = v /\ l.trustedFiles
      /\ l.got = [s \in Source |-> Missing]
      /\ l.left = {s \in Source : manifest[t][s] # Missing}
  BY <1>2, <1>3, <1>4 DEF ChunkRead, Lineage, ReadInv
<1>7. \A s \in Source : IF s \in l.left THEN manifest[t][s] # Missing
                        ELSE l.got[s] = given[t][s] /\ l.got[s] \in Valid \cup {Missing}
  BY <1>2, <1>6 DEF Whole, ChunkOf
<1>8. LoadOK(l)
  BY <1>2, <1>6, <1>7 DEF LoadOK
<1>9. QED
  BY <1>5, <1>8, ReadStep DEF ReadInv

LEMMA ReadChunkKeeps == \A r \in StoreReader : StoreInv /\ ReadInv /\ ReadChunk(r) => ReadInv'
<1> SUFFICES ASSUME NEW r \in StoreReader, StoreInv, ReadInv, ReadChunk(r) PROVE ReadInv'
  OBVIOUS
<1>1. PICK o : o = read[r]
  OBVIOUS
<1>2. /\ o \in ChunkRead /\ Whole(o.token, o.revision) /\ o.revision <= CurrentRevision
      /\ o.trustedFiles /\ o.at = "chunks"
      /\ \A s \in Source :
            IF s \in o.left THEN manifest[o.token][s] # Missing
            ELSE o.got[s] = given[o.token][s] /\ o.got[s] \in Valid \cup {Missing}
  BY <1>1, LoadIs DEF LoadOK, ReadChunk, NoRead, ReadAt, LoadedRead
<1>3. /\ o.token \in Token /\ o.revision \in Nat /\ o.got \in Lineage /\ o.left \subseteq Source
      /\ o.cache \in Caches
  BY <1>2 DEF ChunkRead
<1>4. PICK s \in o.left : \E slice :
         /\ slice = ChunkOf(o.token, s)
         /\ read' = [read EXCEPT ![r] =
              IF slice = Missing \/ (slice \notin Valid /\ ~Known(r, s, slice))
              THEN Rejected(r)
              ELSE [read[r] EXCEPT !.got[s] = slice, !.left = @ \ {s}]]
  BY <1>1 DEF ReadChunk
<1>5. PICK slice :
         /\ slice = ChunkOf(o.token, s)
         /\ read' = [read EXCEPT ![r] =
              IF slice = Missing \/ (slice \notin Valid /\ ~Known(r, s, slice))
              THEN Rejected(r)
              ELSE [read[r] EXCEPT !.got[s] = slice, !.left = @ \ {s}]]
  BY <1>4
<1>6. /\ s \in Source /\ slice = given[o.token][s] /\ slice # Missing /\ slice \in Slice
      /\ manifest[o.token][s] \in Token /\ given[o.token] \in Lineage
  BY <1>2, <1>3, <1>5 DEF Whole, Lineage
<1>7. UNCHANGED <<generations, savers, validated>> /\ r \in DOMAIN read
  BY DEF ReadChunk, ReadInv
<1>8. CASE slice \notin Valid /\ ~Known(r, s, slice)
  <2>1. PICK l : l = [at |-> "rejected", token |-> o.token, revision |-> o.revision]
    OBVIOUS
  <2>2. read' = [read EXCEPT ![r] = l]
    BY <1>1, <1>5, <1>8, <2>1 DEF Rejected
  <2>3. /\ l \in ReadAt("rejected") /\ l.at = "rejected" /\ l.token = o.token
        /\ l.revision = o.revision
    BY <1>3, <2>1 DEF ReadAt
  <2>4. ~Acceptable(given[o.token])
    BY <1>6, <1>8 DEF Acceptable
  <2>5. LoadOK(l)
    BY <1>2, <2>3, <2>4 DEF LoadOK
  <2>6. QED
    BY <1>7, <2>2, <2>5, ReadStep DEF ReadInv
<1>9. CASE slice \in Valid \/ Known(r, s, slice)
  <2>1. slice \in Valid
    <3>1. CASE Known(r, s, slice)
      <4>1. o.cache # Missing /\ o.cache[s] = [file |-> manifest[o.token][s], bytes |-> slice]
        BY <1>1, <3>1 DEF Known
      <4>2. o.cache[s] # Missing
        BY <1>6, <4>1, StoreAssumption DEF Token
      <4>3. o.cache[s] \in [file : Token, bytes : Valid]
        BY <1>3, <1>6, <4>1, <4>2 DEF Caches
      <4>4. QED
        BY <4>1, <4>3
    <3>2. QED
      BY <1>9, <3>1
  <2>2. PICK l : l = [o EXCEPT !.got[s] = slice, !.left = @ \ {s}]
    OBVIOUS
  <2>3. read' = [read EXCEPT ![r] = l]
    <3>1. read' = [read EXCEPT ![r] = [o EXCEPT !.got[s] = slice, !.left = @ \ {s}]]
      BY <1>1, <1>5, <1>6, <2>1
    <3>2. QED
      BY <2>2, <3>1
  <2>4. /\ l \in ChunkRead /\ l.at = "chunks" /\ l.token = o.token /\ l.revision = o.revision
        /\ l.trustedFiles = o.trustedFiles /\ l.left = o.left \ {s}
        /\ l.got = [o.got EXCEPT ![s] = slice]
    BY <1>2, <1>3, <1>6, <2>2 DEF ChunkRead, Lineage
  <2>5. \A u \in Source : IF u \in l.left THEN manifest[l.token][u] # Missing
                          ELSE l.got[u] = given[l.token][u] /\ l.got[u] \in Valid \cup {Missing}
    BY <1>2, <1>3, <1>6, <2>1, <2>4 DEF Lineage
  <2>6. LoadOK(l)
    BY <1>2, <2>4, <2>5 DEF LoadOK
  <2>7. QED
    BY <1>7, <2>3, <2>6, ReadStep DEF ReadInv
<1>10. QED
  BY <1>8, <1>9

LEMMA AcceptKeeps == \A r \in StoreReader : StoreInv /\ ReadInv /\ Accept(r) => ReadInv'
<1> SUFFICES ASSUME NEW r \in StoreReader, StoreInv, ReadInv, Accept(r) PROVE ReadInv'
  OBVIOUS
<1>1. PICK o : o = read[r]
  OBVIOUS
<1>2. /\ o \in ChunkRead /\ Whole(o.token, o.revision) /\ o.revision <= CurrentRevision
      /\ o.trustedFiles /\ o.left = {}
      /\ \A s \in Source :
            o.got[s] = given[o.token][s] /\ o.got[s] \in Valid \cup {Missing}
  BY <1>1, LoadIs DEF LoadOK, Accept, NoRead, ReadAt, LoadedRead
<1>3. o.token \in Token /\ o.revision \in Nat /\ o.got \in Lineage /\ o.trustedFiles \in BOOLEAN
  BY <1>2 DEF ChunkRead
<1>4. o.got = given[o.token] /\ Acceptable(o.got)
  BY <1>2, <1>3 DEF Whole, Lineage, Acceptable
<1>5. PICK l : l = [at |-> "loaded", token |-> o.token, revision |-> o.revision, got |-> o.got,
                    trustedFiles |-> o.trustedFiles]
  OBVIOUS
<1>6. read' = [read EXCEPT ![r] = l] /\ UNCHANGED <<generations, savers>>
  BY <1>1, <1>5 DEF Accept, ReadInv
<1>7. /\ l \in LoadedRead /\ l.at = "loaded" /\ l.token = o.token /\ l.revision = o.revision
      /\ l.got = o.got /\ l.trustedFiles = o.trustedFiles
  BY <1>3, <1>5 DEF LoadedRead
<1>8. LoadOK(l)
  BY <1>2, <1>4, <1>7 DEF LoadOK
<1>9. Entries(r) \in Caches
  <2>1. \A s \in Source : o.got[s] # Missing => manifest[o.token][s] \in Token
    BY <1>2 DEF Whole, ChunkOf
  <2>2. \A s \in Source : Entries(r)[s] \in [file : Token, bytes : Valid] \cup {Missing}
    BY <1>1, <1>2, <2>1 DEF Entries
  <2>3. QED
    BY <2>2 DEF Entries, Caches
<1>10. validated' \in Caches
  BY <1>9 DEF Accept, ReadInv
<1>11. QED
  BY <1>6, <1>8, <1>10, ReadStep

LEMMA EndLoadKeeps == \A r \in StoreReader : StoreInv /\ ReadInv /\ EndLoad(r) => ReadInv'
<1> SUFFICES ASSUME NEW r \in StoreReader, StoreInv, ReadInv, EndLoad(r) PROVE ReadInv'
  OBVIOUS
<1>1. read' = [read EXCEPT ![r] = NoRead] /\ UNCHANGED <<generations, savers, validated>>
  BY DEF EndLoad
<1>2. QED
  BY <1>1, ReadStep DEF ReadInv, LoadOK

LEMMA RestKeepsLoads == ASSUME ReadInv, UNCHANGED storeVars PROVE ReadInv'
<1>1. UNCHANGED <<generations, savers, validated, read>>
  BY DEF storeVars
<1>2. \A r \in StoreReader : \E l \in {read[r]} : LoadOK(l)'
  BY <1>1, LoadStays DEF ReadInv
<1>3. QED
  BY <1>1, <1>2 DEF ReadInv

(* A load without the lock hands out one whole generation that was         *)
(* committed, every slice of it acceptable, and no saver makes a load fail *)
(* (store.py, load_snapshot), whatever is saved, fails or crashes between  *)
(* its reads, for every number of savers, readers and sources.             *)
THEOREM LoadsAreCommits == StoreSpec => []LoadedIsACommit
<1>1. StoreInit => ReadInv
  BY DEF StoreInit, ReadInv, LoadOK, Caches
<1>2. StoreInv /\ ReadInv /\ [StoreNext]_storeVars => ReadInv'
  BY SaverKeepsLoads, ReadMetadataKeeps, ReadCoreKeeps, ReadChunkKeeps, AcceptKeeps, EndLoadKeeps,
     RestKeepsLoads DEF StoreNext, ReaderStep
<1>3. ReadInv => LoadedIsACommit
  <2> SUFFICES ASSUME NEW r \in StoreReader, LoadOK(read[r])
               PROVE  /\ read[r].at = "loaded" =>
                            /\ read[r].got = given[read[r].token]
                            /\ Acceptable(read[r].got)
                            /\ read[r].trustedFiles
                            /\ read[r].revision <= CurrentRevision
                      /\ read[r].at = "rejected" => ~Acceptable(given[read[r].token])
    BY LoadIs DEF LoadedIsACommit
  <2>1. QED
    BY DEF LoadOK, NoRead
<1>4. QED
  BY <1>1, <1>2, <1>3, StoreInvariant, PTL DEF StoreSpec

-----------------------------------------------------------------------------
(* The event feed *)

FeedEvent == [seq : Nat, key : Activity \cup {Plain}]

(* The journal holds the newest events of its service, one after another. *)
JournalInv ==
    /\ journal \in Seq(FeedEvent) /\ seq \in Nat /\ Len(journal) <= seq
    /\ \A i \in DOMAIN journal : journal[i].seq = seq - Len(journal) + i

FeedTypes ==
    /\ epoch \in Nat \ {0} /\ known \in Nat /\ known <= epoch /\ cursor \in Nat
    /\ shown \in SUBSET (Nat \X Nat) /\ excused \in SUBSET (Nat \X Nat)
    /\ blind \in BOOLEAN /\ replayed \subseteq Activity

(* A key of an authority event is in the journal of a service once. *)
KeysInv ==
    /\ recorded \subseteq Activity
    /\ \A i \in DOMAIN journal : journal[i].key \in recorded \cup {Plain}
    /\ \A i, j \in DOMAIN journal : i # j /\ journal[i].key = journal[j].key => journal[i].key = Plain

(* Nothing is known of events to come, nor of services other than those    *)
(* the feed has seen; before it learns of one it has what it was made with.*)
KnownInv ==
    /\ \A p \in excused \cup shown :
          p[1] <= epoch /\ (p[1] = epoch => p[2] <= seq)
    /\ known # NoEpoch => \A p \in excused \cup shown : p[1] <= known
    /\ known = NoEpoch => /\ shown = {}
                          /\ \A p \in excused : /\ p[2] <= cursor
                                                /\ \A n \in 1 .. cursor : <<p[1], n>> \in excused
    /\ phase = "new" => known = NoEpoch /\ cursor = 0 /\ excused = {}

(* What was shown lies before the cursor, and what lies after it and is to *)
(* be left out still has its key. *)
AheadInv ==
    /\ \A p \in shown : p[1] = known => p[2] <= cursor
    /\ \A i \in DOMAIN journal :
          journal[i].seq > cursor /\ <<epoch, journal[i].seq>> \in excused => journal[i].key \in replayed

FeedInv == JournalInv /\ FeedTypes /\ KeysInv /\ KnownInv /\ AheadInv /\ FeedSkipsNothing

LEMMA InitFeed == FeedInit => FeedInv
<1> SUFFICES ASSUME FeedInit
             PROVE  FeedInv
  OBVIOUS
<1>1. journal = <<>> /\ seq = 0
  BY DEF FeedInit
<1>2. JournalInv /\ DOMAIN journal = {}
  BY <1>1 DEF JournalInv
<1>3. /\ epoch = 1 /\ known = 0 /\ cursor = 0 /\ phase = "new" /\ blind = FALSE
      /\ shown = {} /\ excused = {} /\ replayed = {}
  BY DEF FeedInit, NoEpoch
<1>7. blind \in BOOLEAN
  BY <1>3, Zenon
<1>5. FeedTypes
  BY <1>3, <1>7 DEF FeedTypes
<1>6. KnownInv /\ FeedSkipsNothing
  BY <1>3 DEF KnownInv, FeedSkipsNothing, NoEpoch
<1>4. KeysInv /\ AheadInv
  BY <1>2 DEF FeedInit, KeysInv, AheadInv
<1> QED BY <1>2, <1>4, <1>5, <1>6 DEF FeedInv

(* Places in the journal. *)
LEMMA PlacesBefore ==
  ASSUME NEW k \in Nat, NEW size \in Nat, NEW i \in (k + 1) .. size
  PROVE  Cardinality((k + 1) .. (i - 1)) = i - k - 1
<1>1. k + 1 \in Int /\ i - 1 \in Int
  OBVIOUS
<1>2. Cardinality((k + 1) .. (i - 1)) = IF k + 1 > i - 1 THEN 0 ELSE (i - 1) - (k + 1) + 1
  BY <1>1, FS_Interval
<1>3. CASE i = k + 1
  BY <1>2, <1>3
<1>4. CASE i # k + 1
  BY <1>2, <1>4
<1> QED BY <1>3, <1>4

LEMMA FirstPlace ==
  ASSUME NEW base \in Nat, NEW size \in Nat, NEW from \in Nat
  PROVE  \E k \in Nat : k <= size /\ \A i \in 1 .. size : i <= k <=> base + i <= from
<1>1. CASE from < base
  <2>1. 0 <= size /\ \A i \in 1 .. size : i <= 0 <=> base + i <= from
    BY <1>1
  <2> QED BY <2>1
<1>2. CASE from > base + size
  <2>1. size <= size /\ \A i \in 1 .. size : i <= size <=> base + i <= from
    BY <1>2
  <2> QED BY <2>1
<1>3. CASE from >= base /\ from <= base + size
  <2>1. from - base \in Nat /\ from - base <= size
        /\ \A i \in 1 .. size : i <= from - base <=> base + i <= from
    BY <1>3
  <2> QED BY <2>1
<1> QED BY <1>1, <1>2, <1>3

LEMMA LastPlace ==
  ASSUME NEW k \in Nat, NEW size \in Nat, k <= size
  PROVE  \E m \in Nat : k <= m /\ m <= size /\ \A i \in (k + 1) .. size : i - k - 1 < Page <=> i <= m
<1>0. Page \in Nat /\ Page > 0
  BY FeedAssumption
<1>1. CASE k + Page < size
  <2>1. k + Page \in Nat /\ k <= k + Page /\ k + Page <= size
        /\ \A i \in (k + 1) .. size : i - k - 1 < Page <=> i <= k + Page
    BY <1>0, <1>1
  <2> QED BY <2>1
<1>2. CASE ~(k + Page < size)
  <2>1. k <= size /\ size <= size /\ \A i \in (k + 1) .. size : i - k - 1 < Page <=> i <= size
    BY <1>0, <1>2
  <2> QED BY <2>1
<1> QED BY <1>1, <1>2

(* A page is the next events of the journal. *)
LEMMA PageIsNext ==
  ASSUME JournalInv, NEW from \in Nat
  PROVE  \E k, m \in Nat :
            /\ k <= m /\ m <= Len(journal)
            /\ PageAfter(from) = (k + 1) .. m
            /\ \A i \in 1 .. Len(journal) : i <= k <=> journal[i].seq <= from
<1>0. Page \in Nat /\ Page > 0
  BY FeedAssumption
<1> PICK size \in Nat : size = Len(journal)
  BY DEF JournalInv
<1> PICK base \in Nat : base = seq - size
  BY DEF JournalInv
<1>1. DOMAIN journal = 1 .. size
  BY DEF JournalInv
<1>2. \A i \in 1 .. size : journal[i].seq = base + i
  BY <1>1 DEF JournalInv
<1>8. PICK k \in Nat : k <= size /\ \A i \in 1 .. size : i <= k <=> base + i <= from
  BY FirstPlace
<1>9. PICK m \in Nat : k <= m /\ m <= size /\ \A i \in (k + 1) .. size : i - k - 1 < Page <=> i <= m
  BY <1>8, LastPlace
<1>3. /\ k <= m /\ m <= size
      /\ \A i \in 1 .. size : i <= k <=> base + i <= from
      /\ \A i \in (k + 1) .. size : i - k - 1 < Page <=> i <= m
  BY <1>8, <1>9
<1>4. NewAfter(from) = (k + 1) .. size
  <2>1. \A i \in 1 .. size : journal[i].seq > from <=> i > k
    BY <1>2, <1>3
  <2> QED BY <1>1, <1>3, <2>1 DEF NewAfter
<1>5. \A i \in (k + 1) .. size : Cardinality({j \in NewAfter(from) : j < i}) = i - k - 1
  <2> SUFFICES ASSUME NEW i \in (k + 1) .. size
               PROVE  Cardinality({j \in NewAfter(from) : j < i}) = i - k - 1
    OBVIOUS
  <2>1. {j \in NewAfter(from) : j < i} = (k + 1) .. (i - 1)
    BY <1>4
  <2>2. Cardinality((k + 1) .. (i - 1)) = i - k - 1
    BY PlacesBefore
  <2> QED BY <2>1, <2>2
<1>6. PageAfter(from) = (k + 1) .. m
  <2>1. PageAfter(from) = {i \in (k + 1) .. size : Cardinality({j \in NewAfter(from) : j < i}) < Page}
    BY <1>4 DEF PageAfter
  <2>2. PageAfter(from) = {i \in (k + 1) .. size : i - k - 1 < Page}
    BY <1>5, <2>1
  <2>3. PageAfter(from) = {i \in (k + 1) .. size : i <= m}
    BY <1>3, <2>2
  <2> QED BY <1>3, <2>3
<1>7. \A i \in 1 .. size : i <= k <=> journal[i].seq <= from
  BY <1>2, <1>3
<1> QED BY <1>3, <1>6, <1>7

(* The events of the journal, as a service records one more. *)
LEMMA AppendStep ==
  ASSUME FeedInv, NEW key \in Activity \cup {Plain}, Append1(key), key \notin recorded,
         \/ key = Plain /\ recorded' = recorded
         \/ key \in Activity /\ recorded' = recorded \cup {key},
         UNCHANGED <<epoch, phase, cursor, known, replayed, toldGap, seen>>
  PROVE  FeedInv'
<1> USE FeedAssumption
<1> PICK e : e = [seq |-> seq + 1, key |-> key]
  OBVIOUS
<1>1. e \in FeedEvent /\ e.seq = seq + 1 /\ e.key = key
  BY DEF FeedEvent, FeedInv, JournalInv
<1> PICK all : all = Append(journal, e)
  OBVIOUS
<1> PICK size \in Nat : size = Len(journal)
  BY DEF FeedInv, JournalInv
<1>2. /\ all \in Seq(FeedEvent) /\ Len(all) = size + 1
      /\ \A i \in 1 .. size : all[i] = journal[i]
      /\ all[size + 1] = e
  BY <1>1 DEF FeedInv, JournalInv
<1>3. seq' = seq + 1 /\ journal' = Retained(all)
  BY DEF Append1
<1>4. /\ journal' \in Seq(FeedEvent)
      /\ \E drop \in {0, 1} : /\ Len(journal') = size + 1 - drop
                              /\ \A i \in 1 .. size + 1 - drop : journal'[i] = all[i + drop]
  <2>1. CASE Len(all) > Retention
    <3>1. Tail(all) \in Seq(FeedEvent) /\ Len(Tail(all)) = size
          /\ \A i \in 1 .. size : Tail(all)[i] = all[i + 1]
      BY <1>2
    <3>2. journal' = Tail(all)
      BY <1>3, <2>1 DEF Retained
    <3>3. size + 1 - 1 = size
      OBVIOUS
    <3> QED BY <3>1, <3>2, <3>3
  <2>2. CASE ~(Len(all) > Retention)
    <3>1. journal' = all
      BY <1>3, <2>2 DEF Retained
    <3>2. size + 1 - 0 = size + 1 /\ \A i \in 1 .. size + 1 : i + 0 = i
      OBVIOUS
    <3> QED BY <1>2, <3>1, <3>2
  <2> QED BY <2>1, <2>2
<1> PICK drop \in {0, 1} : /\ Len(journal') = size + 1 - drop
                           /\ \A i \in 1 .. size + 1 - drop : journal'[i] = all[i + drop]
  BY <1>4
<1>12. drop = 0 \/ drop = 1
  OBVIOUS
<1>13. size + 1 - drop \in Nat
  BY <1>12
<1> PICK less \in Nat : less = size + 1 - drop
  BY <1>13
<1>5. DOMAIN journal' = 1 .. less /\ Len(journal') = less
  BY <1>4
<1>11. DOMAIN journal = 1 .. size
  BY DEF FeedInv, JournalInv
<1>6. \A i \in 1 .. less :
         \/ i + drop \in 1 .. size /\ journal'[i] = journal[i + drop]
         \/ i + drop = size + 1 /\ journal'[i] = e
  BY <1>2, <1>12
<1>7. JournalInv'
  <2>1. \A i \in 1 .. size : journal[i].seq = seq - size + i
    BY <1>11 DEF FeedInv, JournalInv
  <2>2. seq \in Nat /\ size <= seq
    BY DEF FeedInv, JournalInv
  <2>3. \A i \in 1 .. less : journal'[i].seq = seq' - less + i
    <3> SUFFICES ASSUME NEW i \in 1 .. less
                 PROVE  journal'[i].seq = seq' - less + i
      OBVIOUS
    <3>1. CASE i + drop \in 1 .. size /\ journal'[i] = journal[i + drop]
      BY <1>3, <1>12, <2>1, <2>2, <3>1
    <3>2. CASE i + drop = size + 1 /\ journal'[i] = e
      <4>1. journal'[i].seq = seq + 1
        BY <1>1, <3>2
      <4>2. seq' - less + i = seq + 1
        <5>1. i = less
          BY <1>12, <3>2
        <5> QED BY <1>3, <2>2, <5>1
      <4> QED BY <4>1, <4>2
    <3> QED BY <1>6, <3>1, <3>2
  <2>4. seq' \in Nat /\ less <= seq'
    BY <1>3, <1>12, <2>2
  <2> QED BY <1>4, <1>5, <2>3, <2>4 DEF JournalInv
<1>8. KeysInv'
  <2>1. \A i \in 1 .. size : journal[i].key # key \/ key = Plain
    BY <1>11 DEF FeedInv, KeysInv
  <2>2. \A i \in 1 .. less : journal'[i].key \in recorded' \cup {Plain}
    BY <1>1, <1>6, <1>11 DEF FeedInv, KeysInv
  <2>3. \A i, j \in 1 .. less : i # j /\ journal'[i].key = journal'[j].key => journal'[i].key = Plain
    <3>1. \A i, j \in 1 .. size : i # j /\ journal[i].key = journal[j].key => journal[i].key = Plain
      BY <1>11 DEF FeedInv, KeysInv
    <3>2. \A i, j \in 1 .. less : i # j => i + drop # j + drop
      BY <1>12
    <3> SUFFICES ASSUME NEW i \in 1 .. less, NEW j \in 1 .. less, i # j, journal'[i].key = journal'[j].key
                 PROVE  journal'[i].key = Plain
      OBVIOUS
    <3>6. \A n \in 1 .. less :
             \/ n + drop \in 1 .. size /\ journal'[n] = journal[n + drop]
             \/ n + drop = size + 1 /\ journal'[n].key = key
      BY <1>1, <1>6
    <3>3. CASE i + drop = size + 1 \/ j + drop = size + 1
      <4>1. i + drop # j + drop
        BY <3>2
      <4>2. CASE i + drop = size + 1
        <5>1. i + drop \notin 1 .. size /\ j + drop # size + 1
          BY <4>1, <4>2
        <5>2. journal'[i].key = key /\ j + drop \in 1 .. size /\ journal'[j] = journal[j + drop]
          BY <3>6, <5>1
        <5> QED BY <2>1, <5>2
      <4>3. CASE j + drop = size + 1
        <5>1. j + drop \notin 1 .. size /\ i + drop # size + 1
          BY <4>1, <4>3
        <5>2. journal'[j].key = key /\ i + drop \in 1 .. size /\ journal'[i] = journal[i + drop]
          BY <3>6, <5>1
        <5> QED BY <2>1, <5>2
      <4> QED BY <3>3, <4>2, <4>3
    <3>5. CASE /\ i + drop \in 1 .. size /\ journal'[i] = journal[i + drop]
               /\ j + drop \in 1 .. size /\ journal'[j] = journal[j + drop]
      BY <3>1, <3>2, <3>5
    <3> QED BY <1>6, <3>3, <3>5
  <2>4. recorded' \subseteq Activity
    BY DEF FeedInv, KeysInv
  <2> QED BY <1>5, <2>2, <2>3, <2>4 DEF KeysInv
<1>9. FeedTypes' /\ KnownInv' /\ FeedSkipsNothing'
  <2>1. FeedTypes' /\ FeedSkipsNothing'
    BY DEF FeedInv, FeedTypes, FeedSkipsNothing, seen
  <2>2. seq \in Nat /\ seq' = seq + 1 /\ \A p \in excused \cup shown : p[2] \in Nat
    BY <1>3 DEF FeedInv, FeedTypes, JournalInv
  <2>3. \A p \in excused \cup shown : p[2] <= seq => p[2] <= seq'
    BY <2>2
  <2>4. UNCHANGED <<excused, shown, epoch, known, cursor>>
    BY DEF seen
  <2> QED BY <2>1, <2>3, <2>4 DEF FeedInv, KnownInv
<1>10. AheadInv'
  <2>1. <<epoch, seq + 1>> \notin excused
    BY DEF FeedInv, KnownInv, FeedTypes, JournalInv
  <2> QED BY <1>1, <1>5, <1>6, <1>11, <2>1 DEF FeedInv, AheadInv, seen
<1> QED BY <1>7, <1>8, <1>9, <1>10 DEF FeedInv

LEMMA ServiceRecords ==
  ASSUME FeedInv, RecordEvent \/ (\E k \in Activity : RecordAuthority(k))
  PROVE  FeedInv'
<1>1. CASE RecordEvent
  <2>1. Plain \notin recorded
    BY FeedAssumption DEF FeedInv, KeysInv
  <2> QED BY <1>1, <2>1, AppendStep DEF RecordEvent
<1>2. ASSUME NEW k \in Activity, RecordAuthority(k)
      PROVE  FeedInv'
  BY <1>2, AppendStep DEF RecordAuthority
<1> QED BY <1>1, <1>2

LEMMA AnotherService ==
  ASSUME FeedInv, NewService
  PROVE  FeedInv'
<1>1. journal' = <<>> /\ seq' = 0 /\ epoch' = epoch + 1
      /\ UNCHANGED <<phase, cursor, known, replayed, seen>>
  BY DEF NewService
<1>2. JournalInv' /\ DOMAIN journal' = {}
  BY <1>1 DEF JournalInv
<1>3. \A p \in excused \cup shown : p[1] <= epoch /\ p[1] # epoch + 1 /\ p[1] <= epoch + 1
  BY DEF FeedInv, FeedTypes, KnownInv
<1>4. FeedTypes'
  BY <1>1 DEF FeedInv, FeedTypes, seen
<1>5. KnownInv'
  BY <1>1, <1>3 DEF FeedInv, KnownInv, seen
<1>7. recorded' = {}
  BY DEF NewService
<1>6. KeysInv' /\ AheadInv'
  BY <1>1, <1>2, <1>7 DEF FeedInv, KeysInv, AheadInv, seen
<1>8. FeedSkipsNothing'
  BY <1>1 DEF FeedInv, FeedSkipsNothing, seen
<1> QED BY <1>2, <1>4, <1>5, <1>6, <1>8 DEF FeedInv

(* The feed is made with the newest sequence number, or with none.         *)
LEMMA FeedMade ==
  ASSUME FeedInv, MakeFrom \/ Make
  PROVE  FeedInv'
<1>1. known = NoEpoch /\ cursor = 0 /\ excused = {} /\ shown = {} /\ phase' # "new"
      /\ UNCHANGED <<server, replayed, shown, blind>>
  BY DEF FeedInv, KnownInv, MakeFrom, Make
<1>2. JournalInv' /\ KeysInv'
  BY <1>1 DEF FeedInv, JournalInv, KeysInv, server
<1>3. seq \in Nat /\ epoch \in Nat \ {0} /\ \A i \in DOMAIN journal : journal[i].seq <= seq
  BY DEF FeedInv, JournalInv, FeedTypes
<1>4. UNCHANGED <<epoch, seq, journal>>
  BY <1>1 DEF server
<1>5. \/ cursor' = seq /\ excused' = {epoch} \X (1 .. seq) /\ known' = NoEpoch
      \/ cursor' = seq /\ excused' = {epoch} \X (1 .. seq) /\ known' = epoch
      \/ cursor' = 0 /\ excused' = {} /\ known' = NoEpoch
  BY <1>1 DEF MakeFrom, Make, UpTo
<1>6. FeedTypes'
  BY <1>1, <1>3, <1>4, <1>5 DEF FeedInv, FeedTypes, NoEpoch
<1>7. KnownInv'
  BY <1>1, <1>3, <1>4, <1>5 DEF KnownInv, NoEpoch
<1>8. AheadInv'
  BY <1>1, <1>3, <1>4, <1>5 DEF AheadInv
<1>9. FeedSkipsNothing'
  BY <1>1, <1>3, <1>4, <1>5 DEF FeedSkipsNothing, NoEpoch
<1> QED BY <1>2, <1>6, <1>7, <1>8, <1>9 DEF FeedInv

LEMMA FeedReplays ==
  ASSUME FeedInv, Replay
  PROVE  FeedInv'
<1>1. UNCHANGED <<epoch, seq, journal, recorded, cursor, shown>> /\ phase' # "new"
  BY DEF Replay, server
<1>2. JournalInv' /\ KeysInv'
  BY <1>1 DEF FeedInv, JournalInv, KeysInv
<1>3. CASE UNCHANGED <<known, replayed, excused, blind>>
  BY <1>1, <1>2, <1>3 DEF FeedInv, FeedTypes, KnownInv, AheadInv, FeedSkipsNothing
<1>4. CASE ~UNCHANGED <<known, replayed, excused, blind>>
  <2> PICK events : events = {journal[i] : i \in {n \in DOMAIN journal : journal[n].key # Plain}}
    OBVIOUS
  <2>1. /\ replayed' = replayed \cup {e.key : e \in events}
        /\ excused' = excused \cup {<<epoch, e.seq>> : e \in events}
        /\ known' = epoch /\ blind' = (blind \/ Stale)
    BY <1>4 DEF Replay
  <2>2. \A e \in events : \E i \in DOMAIN journal : e = journal[i]
    OBVIOUS
  <2>3. \A i \in DOMAIN journal : journal[i].seq \in Nat /\ journal[i].seq <= seq /\ journal[i].seq > 0
    BY DEF FeedInv, JournalInv
  <2>4. epoch \in Nat \ {0} /\ cursor \in Nat /\ seq \in Nat
    BY DEF FeedInv, FeedTypes, JournalInv
  <2>5. \A p \in excused' : p \in excused \/ (p[1] = epoch /\ p[2] \in Nat /\ p[2] <= seq)
    BY <2>1, <2>2, <2>3
  <2>6. excused \subseteq excused' /\ excused' \in SUBSET (Nat \X Nat)
    BY <2>1, <2>2, <2>3, <2>4 DEF FeedInv, FeedTypes
  <2>7. FeedTypes'
    <3>1. blind' \in BOOLEAN
      BY <2>1 DEF Stale, FeedInv, FeedTypes
    <3>2. replayed' \subseteq Activity
      BY <2>1 DEF FeedInv, FeedTypes, KeysInv
    <3> QED BY <1>1, <2>1, <2>4, <2>6, <3>1, <3>2 DEF FeedInv, FeedTypes
  <2>8. KnownInv'
    BY <1>1, <2>1, <2>4, <2>5 DEF FeedInv, KnownInv, NoEpoch
  <2>9. \A p \in shown : p[1] = epoch => p[2] <= cursor
    BY <2>4 DEF FeedInv, FeedTypes, KnownInv, AheadInv, NoEpoch
  <2>10. AheadInv'
    <3> SUFFICES ASSUME NEW i \in DOMAIN journal, journal[i].seq > cursor, <<epoch, journal[i].seq>> \in excused'
                 PROVE  journal[i].key \in replayed'
      BY <1>1, <2>1, <2>9 DEF AheadInv
    <3>1. CASE <<epoch, journal[i].seq>> \in excused
      BY <2>1, <3>1 DEF FeedInv, AheadInv
    <3>2. CASE <<epoch, journal[i].seq>> \in {<<epoch, e.seq>> : e \in events}
      <4> PICK e \in events : e.seq = journal[i].seq
        BY <3>2
      <4> PICK j \in DOMAIN journal : e = journal[j]
        BY <2>2
      <4>1. j = i
        BY DEF FeedInv, JournalInv
      <4> QED BY <2>1, <4>1
    <3> QED BY <2>1, <3>1, <3>2
  <2>11. FeedSkipsNothing'
    <3> SUFFICES ASSUME ~blind', NEW n \in 1 .. cursor
                 PROVE  <<epoch, n>> \in excused' \cup shown
      BY <1>1, <2>1 DEF FeedSkipsNothing
    <3>1. ~blind /\ ~Stale
      BY <2>1 DEF FeedInv, FeedTypes
    <3>2. CASE known = epoch
      BY <2>4, <2>6, <3>1, <3>2 DEF FeedInv, FeedSkipsNothing, NoEpoch
    <3>3. CASE known # epoch /\ <<epoch, cursor>> \in excused
      <4>1. known = NoEpoch
        BY <2>4, <3>3 DEF FeedInv, FeedTypes, KnownInv
      <4>2. <<epoch, n>> \in excused
        BY <3>3, <4>1 DEF FeedInv, KnownInv
      <4> QED BY <2>6, <4>2
    <3> QED BY <2>4, <3>1, <3>2, <3>3 DEF Stale
  <2> QED BY <1>2, <2>7, <2>8, <2>10, <2>11 DEF FeedInv
<1> QED BY <1>3, <1>4

(* What the feed counts on when it learns of a service: it has shown and   *)
(* excused nothing of it but what it was made with.                        *)
LEMMA EpochLearned ==
  ASSUME FeedInv, ~blind, ~Stale, NEW n \in 1 .. cursor, known = epoch \/ known = NoEpoch
  PROVE  <<epoch, n>> \in excused \cup shown
<1>1. epoch \in Nat \ {0} /\ cursor \in Nat
  BY DEF FeedInv, FeedTypes
<1>2. CASE known = epoch
  BY <1>1, <1>2 DEF FeedInv, FeedSkipsNothing, NoEpoch
<1>3. CASE known # epoch /\ <<epoch, cursor>> \in excused
  BY <1>3 DEF FeedInv, KnownInv
<1> QED BY <1>1, <1>2, <1>3 DEF Stale

LEMMA FeedRests ==
  ASSUME FeedInv, BeginPage \/ Lost
  PROVE  FeedInv'
<1>1. UNCHANGED <<epoch, seq, journal, recorded, cursor, known, replayed, shown, excused, blind>>
  BY DEF BeginPage, Lost, server, seen
<1>2. phase # "new" /\ phase' # "new"
  BY DEF BeginPage, Lost, Rest
<1> QED BY <1>1, <1>2 DEF FeedInv, JournalInv, FeedTypes, KeysInv, KnownInv, AheadInv, FeedSkipsNothing

LEMMA EpochChanges ==
  ASSUME FeedInv, ChangeEpoch
  PROVE  FeedInv'
<1>1. /\ UNCHANGED <<epoch, seq, journal, recorded, phase, replayed, shown, excused, blind>>
      /\ known' = epoch /\ cursor' = 0 /\ known # NoEpoch /\ known # epoch
  BY DEF ChangeEpoch, Learn, server, seen
<1>2. \A p \in excused \cup shown : p[1] <= known /\ p[1] # epoch /\ p[1] <= epoch
  BY <1>1 DEF FeedInv, FeedTypes, KnownInv
<1>3. epoch \in Nat \ {0}
  BY DEF FeedInv, FeedTypes
<1>4. JournalInv' /\ KeysInv' /\ FeedTypes'
  BY <1>1, <1>3 DEF FeedInv, JournalInv, KeysInv, FeedTypes
<1>5. KnownInv'
  BY <1>1, <1>2, <1>3 DEF FeedInv, KnownInv, NoEpoch
<1>6. AheadInv'
  BY <1>1, <1>2 DEF AheadInv
<1>7. FeedSkipsNothing'
  BY <1>1 DEF FeedSkipsNothing
<1> QED BY <1>4, <1>5, <1>6, <1>7 DEF FeedInv

(* The last event of a page is its newest.                                 *)
LEMMA NewestOfPage ==
  ASSUME FeedInv, NEW k \in Nat, NEW m \in Nat, k < m, m <= Len(journal),
         NEW page, page = {journal[i] : i \in (k + 1) .. m}
  PROVE  Max({e.seq : e \in page}) = journal[m].seq
<1>1. \A i \in (k + 1) .. m : journal[i].seq \in Nat /\ journal[i].seq <= journal[m].seq
  <2> PICK size \in Nat : size = Len(journal)
    BY DEF FeedInv, JournalInv
  <2>1. \A i \in 1 .. size : journal[i].seq = seq - size + i
    BY DEF FeedInv, JournalInv
  <2>2. seq \in Nat /\ size <= seq
    BY DEF FeedInv, JournalInv
  <2>3. m \in 1 .. size
    OBVIOUS
  <2> SUFFICES ASSUME NEW i \in (k + 1) .. m
               PROVE  journal[i].seq \in Nat /\ journal[i].seq <= journal[m].seq
    OBVIOUS
  <2>4. i \in 1 .. size /\ i <= m
    BY <2>3
  <2>5. journal[i].seq = seq - size + i /\ journal[m].seq = seq - size + m
    BY <2>1, <2>3, <2>4
  <2> QED BY <2>2, <2>3, <2>4, <2>5
<1> PICK S : S = {e.seq : e \in page}
  OBVIOUS
<1>2. S = {journal[i].seq : i \in (k + 1) .. m}
  OBVIOUS
<1>3. journal[m].seq \in S /\ \A x \in S : x \in Nat /\ x <= journal[m].seq
  BY <1>1, <1>2
<1> PICK top : top = journal[m].seq
  OBVIOUS
<1>6. top \in S /\ top \in Nat /\ \A x \in S : x \in Nat /\ x <= top
  BY <1>3
<1>4. \A x \in S : x >= top => x = top
  BY <1>6
<1>5. Max(S) \in S /\ \A y \in S : Max(S) >= y
  BY <1>3 DEF Max
<1> QED BY <1>4, <1>5, <1>6

(* A page is shown.                                                        *)
LEMMA PageShown ==
  ASSUME FeedInv, ShowPage
  PROVE  FeedInv'
<1>1. /\ UNCHANGED <<epoch, seq, journal, recorded, published>>
      /\ known \in {NoEpoch, epoch} /\ known' = epoch /\ blind' = (blind \/ Stale)
      /\ phase # "new" /\ phase' # "new"
  BY DEF ShowPage, server, Rest
<1>2. epoch \in Nat \ {0} /\ cursor \in Nat /\ seq \in Nat
  BY DEF FeedInv, FeedTypes, JournalInv
<1> PICK size \in Nat : size = Len(journal)
  BY DEF FeedInv, JournalInv
<1>3. PICK k, m \in Nat :
         /\ k <= m /\ m <= size
         /\ PageAfter(cursor) = (k + 1) .. m
         /\ \A i \in 1 .. size : i <= k <=> journal[i].seq <= cursor
  BY <1>2, PageIsNext DEF FeedInv
<1> PICK base \in Nat : base = seq - size
  BY DEF FeedInv, JournalInv
<1>4. /\ DOMAIN journal = 1 .. size
      /\ \A i \in 1 .. size : journal[i].seq = base + i
  BY DEF FeedInv, JournalInv
<1> PICK page : page = {journal[i] : i \in PageAfter(cursor)}
  OBVIOUS
<1> PICK hidden : hidden = {e \in page : Hidden(e)}
  OBVIOUS
<1> PICK dropped : dropped = IF Gap(cursor) THEN IF journal = <<>> THEN seq ELSE journal[1].seq - 1 ELSE 0
  OBVIOUS
<1>5. /\ shown' = shown \cup {<<epoch, e.seq>> : e \in page \ hidden}
      /\ excused' = excused \cup ({epoch} \X (1 .. dropped)) \cup {<<epoch, e.seq>> : e \in hidden}
      /\ cursor' = IF page = {} THEN cursor ELSE Max({e.seq : e \in page})
      /\ replayed' = replayed \ {e.key : e \in page}
  BY DEF ShowPage, UpTo
<1>6. dropped \in Nat /\ dropped <= seq /\ \A i \in 1 .. size : dropped < journal[i].seq
  <2>1. CASE journal = <<>>
    BY <1>2, <1>4, <2>1
  <2>2. CASE journal # <<>>
    <3>1. 1 \in 1 .. size
      BY <2>2 DEF FeedInv, JournalInv
    <3>2. journal[1].seq = base + 1
      BY <1>4, <3>1
    <3>3. dropped = 0 \/ dropped = base
      BY <2>2, <3>2
    <3>4. base <= seq /\ \A i \in 1 .. size : base < base + i
      BY <1>2
    <3> QED BY <1>2, <1>4, <3>3, <3>4
  <2> QED BY <2>1, <2>2
<1>7. page = {journal[i] : i \in (k + 1) .. m}
  BY <1>3
<1>8. /\ k = m => page = {} /\ cursor' = cursor
      /\ k < m => cursor' = journal[m].seq /\ cursor' > cursor
  <2>1. CASE k = m
    <3>1. (k + 1) .. m = {}
      BY <2>1
    <3>2. page = {}
      BY <1>7, <3>1
    <3>3. cursor' = cursor
      BY <1>5, <3>2
    <3>4. ~(k < m)
      BY <2>1
    <3> QED BY <3>2, <3>3, <3>4
  <2>2. CASE k < m
    <3>1. page # {}
      <4>1. m \in (k + 1) .. m
        BY <2>2
      <4> QED BY <1>7, <4>1
    <3>2. Max({e.seq : e \in page}) = journal[m].seq
      BY <1>3, <1>7, <2>2, NewestOfPage
    <3>3. m \in 1 .. size /\ ~(m <= k)
      BY <1>3, <2>2
    <3>4. journal[m].seq = base + m /\ ~(journal[m].seq <= cursor)
      BY <1>3, <1>4, <3>3
    <3>5. cursor' = journal[m].seq
      BY <1>5, <3>1, <3>2
    <3>6. base + m > cursor
      BY <1>2, <3>4
    <3> QED BY <2>2, <3>4, <3>5, <3>6
  <2> QED BY <1>3, <2>1, <2>2
<1>9. \A e \in page : \E i \in (k + 1) .. m : e = journal[i] /\ i \in 1 .. size
  BY <1>3, <1>7
<1>10. \A i \in (k + 1) .. m : journal[i] \in page /\ journal[i].seq <= cursor' /\ journal[i].seq <= seq
                               /\ journal[i].seq \in Nat
  <2> SUFFICES ASSUME NEW i \in (k + 1) .. m
               PROVE  journal[i] \in page /\ journal[i].seq <= cursor' /\ journal[i].seq <= seq /\ journal[i].seq \in Nat
    OBVIOUS
  <2>1. i \in 1 .. size /\ m \in 1 .. size /\ k < m /\ i <= m
    BY <1>3
  <2>2. journal[i].seq = base + i /\ journal[m].seq = base + m
    BY <1>4, <2>1
  <2>3. journal[i] \in page
    BY <1>7
  <2>4. base + i <= base + m /\ base + i <= seq /\ base + i \in Nat
    BY <1>2, <2>1
  <2>5. cursor' = base + m
    BY <1>8, <2>1, <2>2
  <2> QED BY <2>2, <2>3, <2>4, <2>5
<1>11. cursor' \in Nat /\ cursor <= cursor'
  BY <1>2, <1>3, <1>8, <1>10
<1>12. JournalInv' /\ KeysInv'
  BY <1>1 DEF FeedInv, JournalInv, KeysInv
<1>13. \A p \in shown' : p \in shown \/ (p[1] = epoch /\ p[2] \in Nat /\ p[2] <= cursor' /\ p[2] <= seq /\ p \in Nat \X Nat)
  <2>1. \A e \in page : e.seq \in Nat /\ e.seq <= cursor' /\ e.seq <= seq
    BY <1>9, <1>10
  <2> SUFFICES ASSUME NEW e \in page
               PROVE  LET p == <<epoch, e.seq>>
                      IN p[1] = epoch /\ p[2] \in Nat /\ p[2] <= cursor' /\ p[2] <= seq /\ p \in Nat \X Nat
    BY <1>5
  <2> QED BY <1>2, <2>1
<1>14. \A p \in excused' : p \in excused \/ (p[1] = epoch /\ p[2] \in Nat /\ p[2] <= seq /\ p \in Nat \X Nat)
  <2>1. \A e \in hidden : e.seq \in Nat /\ e.seq <= seq
    BY <1>9, <1>10
  <2>2. \A n \in 1 .. dropped : n \in Nat /\ n <= seq
    BY <1>2, <1>6
  <2> QED BY <1>2, <1>5, <2>1, <2>2
<1>15. FeedTypes'
  <2>1. blind' \in BOOLEAN
    BY <1>1 DEF Stale, FeedInv, FeedTypes
  <2>2. replayed' \subseteq Activity
    BY <1>5 DEF FeedInv, FeedTypes
  <2>3. shown' \in SUBSET (Nat \X Nat) /\ excused' \in SUBSET (Nat \X Nat)
    BY <1>13, <1>14 DEF FeedInv, FeedTypes
  <2> QED BY <1>1, <1>2, <1>11, <2>1, <2>2, <2>3 DEF FeedInv, FeedTypes
<1>16. KnownInv'
  BY <1>1, <1>2, <1>13, <1>14 DEF FeedInv, KnownInv, NoEpoch
<1>17. AheadInv'
  <2>1. \A p \in shown' : p[1] = epoch => p[2] <= cursor'
    <3>1. \A p \in shown : p[1] = epoch => p[2] <= cursor /\ p[2] \in Nat
      BY <1>1, <1>2 DEF FeedInv, FeedTypes, KnownInv, AheadInv, NoEpoch
    <3> QED BY <1>2, <1>11, <1>13, <3>1
  <2>2. ASSUME NEW i \in 1 .. size, journal[i].seq > cursor', <<epoch, journal[i].seq>> \in excused'
        PROVE  journal[i].key \in replayed'
    <3>1. journal[i].seq > cursor /\ journal[i].seq = base + i
      BY <1>2, <1>4, <1>11, <2>2
    <3>2. i \notin (k + 1) .. m
      BY <1>10, <1>11, <2>2, <3>1
    <3>3. <<epoch, journal[i].seq>> \in excused
      <4>1. <<epoch, journal[i].seq>> \notin {epoch} \X (1 .. dropped)
        BY <1>6
      <4>2. ASSUME NEW e \in hidden
            PROVE  <<epoch, journal[i].seq>> # <<epoch, e.seq>>
        <5>1. e.seq \in Nat /\ e.seq <= cursor'
          BY <1>9, <1>10
        <5> PICK n \in Nat : n = journal[i].seq
          BY <1>4, <3>1
        <5>2. n > cursor'
          BY <2>2
        <5>3. n # e.seq
          BY <1>11, <5>1, <5>2
        <5> QED BY <5>3
      <4> QED BY <1>5, <2>2, <4>1, <4>2
    <3>4. journal[i].key \in replayed
      BY <1>4, <3>1, <3>3 DEF FeedInv, AheadInv
    <3>5. ASSUME NEW e \in page
          PROVE  e.key # journal[i].key
      <4> PICK j \in (k + 1) .. m : e = journal[j] /\ j \in 1 .. size
        BY <1>9
      <4>1. CASE e.key = Plain
        <5>1. journal[i].key \in Activity
          BY <3>4 DEF FeedInv, FeedTypes
        <5> QED BY <4>1, <5>1, FeedAssumption
      <4> QED BY <1>4, <3>2, <4>1 DEF FeedInv, KeysInv
    <3> QED BY <1>5, <3>4, <3>5
  <2> QED BY <1>1, <1>4, <2>1, <2>2 DEF AheadInv
<1>18. FeedSkipsNothing'
  <2> SUFFICES ASSUME ~blind', NEW n \in 1 .. cursor'
               PROVE  <<epoch, n>> \in excused' \cup shown'
    BY <1>1 DEF FeedSkipsNothing
  <2>1. CASE n <= cursor
    <3>1. n \in 1 .. cursor /\ ~blind /\ ~Stale
      <4>1. ~blind /\ ~Stale
        BY <1>1 DEF FeedInv, FeedTypes
      <4> QED BY <1>2, <1>11, <2>1, <4>1
    <3>2. <<epoch, n>> \in excused \cup shown
      BY <1>1, <3>1, EpochLearned
    <3> QED BY <1>5, <3>2
  <2>2. CASE n > cursor
    <3>1. k < m /\ m \in 1 .. size /\ cursor' = base + m /\ n <= base + m /\ n \in Nat
      BY <1>2, <1>3, <1>4, <1>8, <1>11, <2>2
    <3>2. CASE n > base
      <4> PICK i \in 1 .. size : i = n - base /\ i <= m
        BY <3>1, <3>2
      <4>1. journal[i].seq = n /\ i > k
        <5>1. journal[i].seq = base + i /\ base + i = n
          BY <1>4, <3>1
        <5>2. ~(n <= cursor)
          BY <1>2, <2>2, <3>1
        <5>3. ~(i <= k)
          BY <1>3, <5>1, <5>2
        <5>4. journal[i].seq = n
          BY <5>1
        <5> QED BY <5>3, <5>4
      <4>2. journal[i] \in page
        <5>1. i \in (k + 1) .. m
          BY <4>1
        <5> QED BY <1>10, <5>1
      <4> QED BY <1>5, <4>1, <4>2
    <3>3. CASE n <= base
      <4>1. 1 \in 1 .. size /\ journal[1].seq = base + 1 /\ journal # <<>>
        BY <1>4, <3>1 DEF FeedInv, JournalInv
      <4>2. cursor # seq /\ cursor + 1 < journal[1].seq
        BY <1>2, <2>2, <3>1, <3>3, <4>1
      <4>3. dropped = base
        BY <4>1, <4>2 DEF Gap
      <4> QED BY <1>5, <3>1, <3>3, <4>3
    <3> QED BY <3>1, <3>2, <3>3
  <2> QED BY <1>2, <1>11, <2>1, <2>2
<1> QED BY <1>12, <1>15, <1>16, <1>17, <1>18 DEF FeedInv

LEMMA FeedInductive == FeedSpec => []FeedInv
<1>1. FeedInv /\ [FeedNext]_feedVars => FeedInv'
  <2> SUFFICES ASSUME FeedInv, [FeedNext]_feedVars
               PROVE  FeedInv'
    OBVIOUS
  <2>1. CASE UNCHANGED feedVars
    BY <2>1 DEF feedVars, server, seen, FeedInv, JournalInv, FeedTypes, KeysInv, KnownInv, AheadInv, FeedSkipsNothing
  <2> QED BY <2>1, ServiceRecords, AnotherService, FeedMade, FeedReplays, FeedRests, EpochChanges, PageShown DEF FeedNext
<1> QED BY <1>1, InitFeed, PTL DEF FeedSpec

(* Every event before the cursor was shown, excused or told to be lost,    *)
(* for every size of the journal and the page and any number of services   *)
(* (watcher.py, poll_once).                                                *)
THEOREM NothingIsSkipped == FeedSpec => []FeedSkipsNothing
<1>1. FeedInv => FeedSkipsNothing
  BY DEF FeedInv
<1> QED BY <1>1, FeedInductive, PTL

(* No event is shown twice, nor one of an earlier service after one of a   *)
(* later one (watcher.py, poll_once, replay_authority_events).             *)
THEOREM NothingIsShownTwice == FeedSpec => ShownOnce
<1>1. FeedInv /\ [FeedNext]_feedVars =>
        [ShowPage => \A i \in PageAfter(cursor) :
            LET n == journal[i].seq
            IN ~Hidden(journal[i]) =>
                 /\ <<epoch, n>> \notin excused
                 /\ \A p \in shown : p[1] < epoch \/ (p[1] = epoch /\ p[2] < n)]_feedVars
  <2> SUFFICES ASSUME FeedInv, ShowPage, NEW i \in PageAfter(cursor), ~Hidden(journal[i])
               PROVE  /\ <<epoch, journal[i].seq>> \notin excused
                      /\ \A p \in shown : p[1] < epoch \/ (p[1] = epoch /\ p[2] < journal[i].seq)
    OBVIOUS
  <2>1. i \in DOMAIN journal /\ journal[i].seq > cursor
    BY DEF PageAfter, NewAfter
  <2>2. <<epoch, journal[i].seq>> \notin excused
    BY <2>1 DEF FeedInv, AheadInv, Hidden
  <2>3. known \in {NoEpoch, epoch}
    BY DEF ShowPage
  <2>4. epoch \in Nat /\ cursor \in Nat /\ journal[i].seq \in Nat /\ shown \in SUBSET (Nat \X Nat)
    BY <2>1 DEF FeedInv, FeedTypes, JournalInv
  <2>5. \A p \in shown : p[1] <= epoch /\ (p[1] = epoch => p[2] <= cursor)
    BY <2>3 DEF FeedInv, KnownInv, AheadInv
  <2> QED BY <2>1, <2>2, <2>4, <2>5
<1> QED BY <1>1, FeedInductive, PTL DEF FeedSpec, ShownOnce

-----------------------------------------------------------------------------
(* The trail of authority events *)

Holding == {"recover", "replay", "append", "count", "deliver"}

Sidecar == [active : Session, tail : Nat, high : Nat, cursor : Nat]

Working ==
    [at : {"waiting", "idle"} \cup Holding, doing : {"open", "emit", "replay"},
     session : Session, reset : BOOLEAN, floor : Nat]

TraceTypes ==
    /\ pointer \in Session \cup {Nothing0} /\ sessions \in 0 .. MaxSessions
    /\ trace \in [Session -> Seq(Nat)]
    /\ sidecar \in Sidecar \cup {Nothing0} /\ checkpoint \in Nat
    /\ emitter \in [Emitter -> Working \cup {Off}]
    /\ counted \in [1 .. MaxEmits -> Nat] /\ lost \in Nat
    /\ \A e \in Emitter : emitter[e].at \in Holding => traceLock = e

(* A record is counted before the next is appended: one may lie behind the *)
(* tail of the active trace, and whoever has recovered found none there.   *)
TailInv ==
    /\ sidecar = Nothing0 => checkpoint = lost /\ \A s \in Session : trace[s] = <<>>
    /\ sidecar # Nothing0 => Len(trace[sidecar.active]) \in {sidecar.tail, sidecar.tail + 1}
    /\ sidecar # Nothing0 => sidecar.cursor <= sidecar.high
    /\ \A e \in Emitter :
          emitter[e].at \in {"replay", "append", "count", "deliver"} =>
             /\ sidecar # Nothing0 /\ sidecar.active = emitter[e].session
             /\ Len(trace[sidecar.active]) =
                  IF emitter[e].at = "count" THEN sidecar.tail + 1 ELSE sidecar.tail

(* Only an emitter that found the logs missing begins at the checkpoint.   *)
FloorInv ==
    \A e \in Emitter : emitter[e].at # "off" =>
        /\ emitter[e].reset /\ emitter[e].at # "deliver" => emitter[e].floor = lost
        /\ emitter[e].reset => emitter[e].at \notin {"idle", "replay"}
        /\ ~emitter[e].reset \/ emitter[e].at = "deliver" =>
             emitter[e].floor <= IF sidecar = Nothing0 THEN 0 ELSE sidecar.high

(* The last number that is accounted for. *)
Top == IF sidecar = Nothing0 \/ sidecar.high = 0 THEN lost ELSE sidecar.high

Behind == IF sidecar = Nothing0 THEN 0 ELSE Len(trace[sidecar.active]) - sidecar.tail

NumbersInv ==
    /\ \A n \in 1 .. MaxEmits : counted[n] <= 1 /\ (counted[n] > 0 => n <= Top + Behind)
    /\ sidecar # Nothing0 =>
         /\ Top >= lost
         /\ Behind = 1 => trace[sidecar.active][sidecar.tail + 1] = Top + 1
         /\ \A s \in Session : \A i \in 1 .. Len(trace[s]) :
              s # sidecar.active \/ i <= sidecar.tail => trace[s][i] <= sidecar.high
         /\ Top # sidecar.high /\ Behind = 1 =>
              \E e \in Emitter : emitter[e].at = "count" /\ emitter[e].reset

TraceInv == TailInv /\ FloorInv /\ (lapsed \/ NumbersInv)

LEMMA NoSidecar == Nothing0 \notin Sidecar
<1>1. Sidecar \subseteq [active : Nat, tail : Nat, high : Nat, cursor : Nat]
  BY DEF Sidecar, Session
<1> QED BY <1>1, TraceAssumption

(* Steps that touch neither records nor sidecar: only what the emitter is   *)
(* doing has to fit.                                                       *)
LEMMA QuietTrace ==
  ASSUME TraceTypes, TraceInv, NEW e \in Emitter, NEW new \in Working \cup {Off},
         emitter' = [emitter EXCEPT ![e] = new],
         UNCHANGED <<trace, sidecar, checkpoint, counted, lost>>,
         lapsed => lapsed',
         new.at = "count" => FALSE,
         emitter[e].at = "count" /\ emitter[e].reset => lapsed' \/ lost = 0,
         new.at \in {"replay", "append", "deliver"} =>
             /\ sidecar # Nothing0 /\ sidecar.active = new.session
             /\ Len(trace[sidecar.active]) = sidecar.tail,
         new.at # "off" =>
             /\ new.reset /\ new.at # "deliver" => new.floor = lost
             /\ new.reset => new.at \notin {"idle", "replay"}
             /\ ~new.reset \/ new.at = "deliver" =>
                  new.floor <= IF sidecar = Nothing0 THEN 0 ELSE sidecar.high
  PROVE  TraceInv'
<1>1. \A f \in Emitter : emitter'[f] = IF f = e THEN new ELSE emitter[f]
  BY DEF TraceTypes
<1>2. TailInv'
  BY <1>1 DEF TraceInv, TailInv
<1>3. FloorInv'
  BY <1>1 DEF TraceInv, FloorInv
<1>4. lapsed' \/ NumbersInv'
  <2> SUFFICES ASSUME ~lapsed' PROVE NumbersInv'
    OBVIOUS
  <2>1. NumbersInv
    BY DEF TraceInv
  <2>2. UNCHANGED <<Top, Behind>>
    BY DEF Top, Behind
  <2>3. Top # sidecar.high /\ sidecar # Nothing0 => lost # 0
    BY DEF Top, TraceTypes, Sidecar
  <2>4. \A f \in Emitter : sidecar # Nothing0 /\ Top # sidecar.high /\ emitter[f].at = "count" /\ emitter[f].reset
                            => emitter'[f].at = "count" /\ emitter'[f].reset
    BY <1>1, <2>3
  <2>5. sidecar # Nothing0 /\ Top # sidecar.high /\ Behind = 1
           => \E f \in Emitter : emitter'[f].at = "count" /\ emitter'[f].reset
    BY <2>1, <2>4 DEF NumbersInv
  <2> QED BY <2>1, <2>2, <2>5 DEF NumbersInv
<1> QED BY <1>2, <1>3, <1>4 DEF TraceInv

LEMMA InitTrace == TraceInit => TraceTypes /\ TraceInv
<1> SUFFICES ASSUME TraceInit PROVE TraceTypes /\ TraceInv
  OBVIOUS
<1>1. TraceTypes
  BY TraceAssumption DEF TraceInit, TraceTypes, Off, Session, Holding
<1>2. TailInv
  BY DEF TraceInit, TailInv, Off
<1>3. FloorInv
  BY DEF TraceInit, FloorInv, Off
<1>4. NumbersInv
  BY DEF TraceInit, NumbersInv
<1> QED BY <1>1, <1>2, <1>3, <1>4 DEF TraceInv

LEMMA OpenKeeps == \A e \in Emitter : TraceTypes /\ TraceInv /\ Open(e) => TraceTypes' /\ TraceInv'
<1> SUFFICES ASSUME NEW e \in Emitter, TraceTypes, TraceInv, Open(e)
             PROVE  TraceTypes' /\ TraceInv'
  OBVIOUS
<1> PICK missing \in BOOLEAN : missing = (sidecar = Nothing0 /\ pointer = Nothing0)
  OBVIOUS
<1> PICK new : new = [at |-> "waiting", doing |-> "open", session |-> pointer', reset |-> missing,
                      floor |-> IF missing THEN checkpoint ELSE 0]
  OBVIOUS
<1>1. pointer' \in Session /\ sessions' \in 0 .. MaxSessions
  BY TraceAssumption DEF Open, TraceTypes, Session
<1>2. new \in Working
  BY <1>1 DEF Working, TraceTypes
<1>3. emitter' = [emitter EXCEPT ![e] = new]
  BY DEF Open, Becomes0
<1>4. UNCHANGED <<trace, sidecar, checkpoint, counted, lost, lapsed, traceLock>>
  BY DEF Open, traceHistory
<1>5. emitter' \in [Emitter -> Working \cup {Off}]
  BY <1>2, <1>3 DEF TraceTypes
<1>6. TraceTypes'
  BY <1>1, <1>3, <1>4, <1>5 DEF TraceTypes, Holding
<1>7. missing => checkpoint = lost
  BY DEF TraceInv, TailInv
<1>8. 0 <= IF sidecar = Nothing0 THEN 0 ELSE sidecar.high
  BY DEF TraceTypes, Sidecar
<1>9. emitter[e].at = "off"
  BY DEF Open
<1>10. TraceInv'
  BY <1>2, <1>3, <1>4, <1>7, <1>8, <1>9, QuietTrace
<1> QED BY <1>6, <1>10

LEMMA BeginEmitKeeps == \A e \in Emitter : TraceTypes /\ TraceInv /\ BeginEmit(e) => TraceTypes' /\ TraceInv'
<1> SUFFICES ASSUME NEW e \in Emitter, TraceTypes, TraceInv, BeginEmit(e)
             PROVE  TraceTypes' /\ TraceInv'
  OBVIOUS
<1>1. PICK doing \in {"emit", "replay"} : Becomes0(e, [emitter[e] EXCEPT !.at = "waiting", !.doing = doing])
  BY DEF BeginEmit
<1> PICK new : new = [emitter[e] EXCEPT !.at = "waiting", !.doing = doing]
  OBVIOUS
<1>2. emitter[e] \in Working /\ emitter[e].at = "idle"
  BY DEF BeginEmit, TraceTypes, Off
<1>3. new \in Working /\ new.at = "waiting" /\ new.reset = emitter[e].reset /\ new.floor = emitter[e].floor
  BY <1>2 DEF Working
<1>4. UNCHANGED <<pointer, sessions, trace, sidecar, checkpoint, counted, lost, lapsed, traceLock>>
  BY DEF BeginEmit, logs, traceHistory
<1>5. emitter' = [emitter EXCEPT ![e] = new]
  BY <1>1 DEF Becomes0
<1>6. TraceTypes'
  BY <1>3, <1>4, <1>5 DEF TraceTypes, Holding
<1>7. TraceInv'
  BY <1>2, <1>3, <1>4, <1>5, QuietTrace DEF TraceInv, FloorInv
<1> QED BY <1>6, <1>7

LEMMA TakeLockKeeps == \A e \in Emitter : TraceTypes /\ TraceInv /\ TakeTraceLock(e) => TraceTypes' /\ TraceInv'
<1> SUFFICES ASSUME NEW e \in Emitter, TraceTypes, TraceInv, TakeTraceLock(e)
             PROVE  TraceTypes' /\ TraceInv'
  OBVIOUS
<1> PICK new : new = [emitter[e] EXCEPT !.at = "recover"]
  OBVIOUS
<1>2. emitter[e] \in Working /\ emitter[e].at = "waiting"
  BY DEF TakeTraceLock, TraceTypes, Off
<1>3. new \in Working /\ new.at = "recover" /\ new.reset = emitter[e].reset /\ new.floor = emitter[e].floor
  BY <1>2 DEF Working, Holding
<1>4. UNCHANGED <<pointer, sessions, trace, sidecar, checkpoint, counted, lost, lapsed>>
  BY DEF TakeTraceLock, logs, traceHistory
<1>5. emitter' = [emitter EXCEPT ![e] = new]
  BY DEF TakeTraceLock, At
<1>6. TraceTypes'
  <2>1. \A f \in Emitter : emitter[f].at \notin Holding
    BY TraceAssumption DEF TraceTypes, TakeTraceLock
  <2>2. \A f \in Emitter : emitter'[f].at \in Holding => traceLock' = f
    BY <1>5, <2>1 DEF TakeTraceLock, TraceTypes
  <2> QED BY <1>3, <1>4, <1>5, <2>2 DEF TraceTypes
<1>7. TraceInv'
  BY <1>2, <1>3, <1>4, <1>5, QuietTrace DEF TraceInv, FloorInv
<1> QED BY <1>6, <1>7

LEMMA EndReplayKeeps == \A e \in Emitter : TraceTypes /\ TraceInv /\ EndReplay(e) => TraceTypes' /\ TraceInv'
<1> SUFFICES ASSUME NEW e \in Emitter, TraceTypes, TraceInv, EndReplay(e)
             PROVE  TraceTypes' /\ TraceInv'
  OBVIOUS
<1> PICK point \in {"append", "idle"} : At(e, point) /\ (point = "append" => UNCHANGED traceLock)
  BY DEF EndReplay
<1> PICK new : new = [emitter[e] EXCEPT !.at = point]
  OBVIOUS
<1>2. emitter[e] \in Working /\ emitter[e].at = "replay"
  BY DEF EndReplay, TraceTypes, Off
<1>3. /\ new \in Working /\ new.at = point /\ new.reset = emitter[e].reset
      /\ new.floor = emitter[e].floor /\ new.session = emitter[e].session
  BY <1>2 DEF Working, Holding
<1>4. UNCHANGED <<pointer, sessions, trace, sidecar, checkpoint, counted, lost, lapsed>>
  BY DEF EndReplay, logs, traceHistory
<1>5. emitter' = [emitter EXCEPT ![e] = new]
  BY DEF At
<1>6. TraceTypes'
  <2>1. \A f \in Emitter : emitter[f].at \in Holding => f = e
    BY <1>2 DEF TraceTypes, Holding
  <2>2. \A f \in Emitter : emitter'[f].at \in Holding => traceLock' = f
    BY <1>2, <1>3, <1>5, <2>1 DEF TraceTypes, Holding
  <2> QED BY <1>3, <1>4, <1>5, <2>2 DEF TraceTypes
<1>7. TraceInv'
  BY <1>2, <1>3, <1>4, <1>5, QuietTrace DEF TraceInv, FloorInv, TailInv
<1> QED BY <1>6, <1>7

LEMMA DiesKeeps == \A e \in Emitter : TraceTypes /\ TraceInv /\ EmitterDies(e) => TraceTypes' /\ TraceInv'
<1> SUFFICES ASSUME NEW e \in Emitter, TraceTypes, TraceInv, EmitterDies(e)
             PROVE  TraceTypes' /\ TraceInv'
  OBVIOUS
<1>4. UNCHANGED <<pointer, sessions, trace, sidecar, checkpoint, counted, lost>>
  BY DEF EmitterDies, logs
<1>5. emitter' = [emitter EXCEPT ![e] = Off]
  BY DEF EmitterDies, Becomes0
<1>6. TraceTypes'
  BY <1>4, <1>5 DEF TraceTypes, Holding, Off, EmitterDies
<1>7. (lapsed => lapsed') /\ (emitter[e].reset => lapsed' \/ lost = 0)
  <2>1. lost > 0 \/ lost = 0
    BY DEF TraceTypes
  <2>2. lapsed' = (lapsed \/ Noticed(e)) /\ emitter[e].at # "off"
    BY DEF EmitterDies
  <2> QED BY <2>1, <2>2 DEF Noticed
<1>8. TraceInv'
  BY <1>4, <1>5, <1>7, QuietTrace DEF Off
<1> QED BY <1>6, <1>8

LEMMA FinishSessionKeeps == TraceTypes /\ TraceInv /\ FinishSession => TraceTypes' /\ TraceInv'
<1> SUFFICES ASSUME TraceTypes, TraceInv, FinishSession PROVE TraceTypes' /\ TraceInv'
  OBVIOUS
<1> USE DEF FinishSession, traceHistory
<1>1. TraceTypes'
  BY DEF TraceTypes
<1>2. TailInv' /\ FloorInv' /\ UNCHANGED lapsed
  BY DEF TraceInv, TailInv, FloorInv
<1>3. NumbersInv => NumbersInv'
  BY DEF NumbersInv, Top, Behind
<1> QED BY <1>1, <1>2, <1>3 DEF TraceInv

(* What the emitter with the lock does to it. *)
LEMMA LockTypes ==
  ASSUME TraceTypes, NEW e \in Emitter, NEW new \in Working \cup {Off},
         emitter' = [emitter EXCEPT ![e] = new], emitter[e].at \in Holding,
         new.at \in Holding => traceLock' = e
  PROVE  /\ emitter' \in [Emitter -> Working \cup {Off}]
         /\ \A f \in Emitter : emitter'[f].at \in Holding => traceLock' = f
         /\ \A f \in Emitter : f # e => emitter[f].at \notin Holding
         /\ emitter[e] \in Working
<1>1. \A f \in Emitter : emitter[f].at \in Holding => f = e
  BY DEF TraceTypes
<1>2. emitter[e] \in Working
  BY DEF TraceTypes, Off, Holding
<1>3. emitter' \in [Emitter -> Working \cup {Off}]
  BY DEF TraceTypes
<1>4. \A f \in Emitter : emitter'[f] = IF f = e THEN new ELSE emitter[f]
  BY DEF TraceTypes
<1>5. \A f \in Emitter : emitter'[f].at \in Holding => traceLock' = f
  BY <1>1, <1>4
<1> QED BY <1>1, <1>2, <1>3, <1>5

LEMMA RaiseShape ==
  ASSUME TraceTypes, NEW e \in Emitter, emitter[e].at \in Holding, Raise(e)
  PROVE  \E new \in Working \cup {Off} :
            /\ emitter' = [emitter EXCEPT ![e] = new]
            /\ new = Off \/ (/\ new.at = "idle" /\ ~emitter[e].reset
                             /\ new.reset = emitter[e].reset /\ new.floor = emitter[e].floor)
<1>1. emitter[e] \in Working
  BY DEF TraceTypes, Off, Holding
<1>2. CASE emitter[e].doing = "open" \/ emitter[e].reset
  BY <1>2 DEF Raise, Becomes0
<1>3. CASE ~(emitter[e].doing = "open" \/ emitter[e].reset)
  <2> PICK new : new = [emitter[e] EXCEPT !.at = "idle"]
    OBVIOUS
  <2>1. new \in Working /\ new.at = "idle" /\ new.reset = emitter[e].reset /\ new.floor = emitter[e].floor
    BY <1>1 DEF Working
  <2>2. emitter' = [emitter EXCEPT ![e] = new]
    BY <1>3 DEF Raise, Becomes0
  <2> QED BY <1>3, <2>1, <2>2
<1> QED BY <1>2, <1>3

(* The record behind a place of a trace, when at most one is. *)
Behinds(records, s, tail) == records = SubSeq(s, tail + 1, Len(s))

LEMMA RecordBehind ==
  \A s \in Seq(Nat), tail \in Nat : \A records :
     Behinds(records, s, tail) =>
        /\ Len(s) = tail => records = <<>>
        /\ Len(s) = tail + 1 => records \in Seq(Nat) /\ Len(records) = 1 /\ records[1] = s[tail + 1]
<1> SUFFICES ASSUME NEW s \in Seq(Nat), NEW tail \in Nat, NEW records, records = SubSeq(s, tail + 1, Len(s))
    PROVE  /\ Len(s) = tail => records = <<>>
           /\ Len(s) = tail + 1 => records \in Seq(Nat) /\ Len(records) = 1 /\ records[1] = s[tail + 1]
  BY DEF Behinds
<1>1. ASSUME Len(s) = tail PROVE records = <<>>
  <2>1. tail + 1 \in Int /\ tail \in Int /\ tail < tail + 1
    OBVIOUS
  <2> QED BY <1>1, <2>1, SubSeqEmpty
<1>2. ASSUME Len(s) = tail + 1 PROVE records \in Seq(Nat) /\ Len(records) = 1 /\ records[1] = s[tail + 1]
  <2> PICK from \in Nat : from = tail + 1
    OBVIOUS
  <2>1. records = SubSeq(s, from, from)
    BY <1>2
  <2>2. \A i \in from .. from : s[i] \in Nat
    BY <1>2
  <2>3. records \in Seq(Nat)
    <3>1. from \in Int
      OBVIOUS
    <3>2. SubSeq(s, from, from) \in Seq(Nat)
      BY <2>2, <3>1, SubSeqProperties
    <3> QED BY <2>1, <3>2
  <2>4. Len(records) = 1
    <3>1. Len(SubSeq(s, from, from)) = IF from <= from THEN from - from + 1 ELSE 0
      BY <2>2, SubSeqProperties
    <3>2. from <= from /\ from - from + 1 = 1
      OBVIOUS
    <3> QED BY <2>1, <3>1, <3>2
  <2>5. \A i \in 1 .. from - from + 1 : SubSeq(s, from, from)[i] = s[from + i - 1]
    BY <2>2, SubSeqProperties
  <2>6. records[1] = s[from]
    <3>1. 1 \in 1 .. from - from + 1 /\ from + 1 - 1 = from
      OBVIOUS
    <3>2. SubSeq(s, from, from)[1] = s[from + 1 - 1]
      BY <2>5, <3>1
    <3> QED BY <2>1, <3>1, <3>2
  <2> QED BY <2>3, <2>4, <2>6
<1> QED BY <1>1, <1>2

(* What recovery makes of the sidecar: the record behind its tail, if there *)
(* is one, is counted.                                                     *)
LEMMA RecoveredIs ==
  ASSUME TraceTypes, TraceInv, NEW e \in Emitter, emitter[e].at = "recover",
         Continues(Known0(e), Uncounted(e, Known0(e)))
  PROVE  /\ Recovered(e) \in Sidecar
         /\ Recovered(e).active = emitter[e].session
         /\ Recovered(e).tail = Len(trace[emitter[e].session])
         /\ Recovered(e).cursor <= Recovered(e).high
         /\ sidecar = Nothing0 => Recovered(e).high = 0
         /\ sidecar # Nothing0 =>
              \/ /\ Len(trace[sidecar.active]) = sidecar.tail
                 /\ Recovered(e).high = sidecar.high
              \/ /\ Len(trace[sidecar.active]) = sidecar.tail + 1
                 /\ Recovered(e).high = sidecar.high + 1
                 /\ trace[sidecar.active][sidecar.tail + 1] = sidecar.high + 1
<1>1. emitter[e] \in Working
  BY DEF TraceTypes, Off
<1> PICK session \in Session : session = emitter[e].session
  BY <1>1 DEF Working
<1> PICK k : k = Known0(e)
  OBVIOUS
<1>2. k \in Sidecar /\ k.cursor <= k.high
  BY DEF Known0, TraceTypes, Sidecar, TraceInv, TailInv
<1> PICK active \in Session, tail \in Nat, high \in Nat : active = k.active /\ tail = k.tail /\ high = k.high
  BY <1>2 DEF Sidecar
<1> PICK size \in Nat : size = Len(trace[active])
  BY DEF TraceTypes
<1>3. size \in {tail, tail + 1}
  <2>1. CASE sidecar = Nothing0
    BY <2>1 DEF Known0
  <2>2. CASE sidecar # Nothing0
    BY <2>2 DEF Known0, TraceInv, TailInv
  <2> QED BY <2>1, <2>2
<1> PICK records : records = Uncounted(e, k)
  OBVIOUS
<1> PICK s \in Seq(Nat) : s = trace[active]
  BY DEF TraceTypes
<1>4. Behinds(records, s, tail)
  BY DEF Uncounted, Behinds
<1>5. /\ size = tail => Len(records) = 0
      /\ size = tail + 1 => Len(records) = 1 /\ records[1] = trace[active][tail + 1]
      /\ size = tail + 1 => records \in Seq(Nat)
  <2>1. Len(s) = tail => records = <<>>
    BY <1>4, RecordBehind
  <2>2. Len(s) = tail + 1 => records \in Seq(Nat) /\ Len(records) = 1 /\ records[1] = s[tail + 1]
    BY <1>4, RecordBehind
  <2> QED BY <2>1, <2>2
<1>6. size = tail + 1 => trace[active][tail + 1] = high + 1
  <2> SUFFICES ASSUME size = tail + 1 PROVE records[1] = high + 1
    BY <1>5
  <2>2. 1 \in DOMAIN records
    BY <1>5
  <2>3. \A i \in DOMAIN records : records[i] = high + i
    BY DEF Continues
  <2> QED BY <2>2, <2>3
<1> PICK r : r = Recovered(e)
  OBVIOUS
<1>7. r = [active |-> session, tail |-> Len(trace[session]), high |-> high + Len(records), cursor |-> k.cursor]
  BY DEF Recovered
<1>8. Len(records) \in {0, 1}
  BY <1>3, <1>5
<1>9. /\ r \in Sidecar /\ r.active = session /\ r.tail = Len(trace[session])
      /\ r.high = high + Len(records) /\ r.cursor <= r.high
  BY <1>2, <1>7, <1>8 DEF Sidecar, TraceTypes
<1>10. CASE sidecar = Nothing0
  <2>1. high = 0 /\ size = tail
    BY <1>10 DEF Known0
  <2> QED BY <1>5, <1>9, <1>10, <2>1
<1>11. CASE sidecar # Nothing0
  <2>1. sidecar = k
    BY <1>11 DEF Known0
  <2>2. CASE size = tail
    <3>1. r.high = high
      BY <1>5, <1>9, <2>2
    <3> QED BY <1>9, <1>11, <2>1, <2>2, <3>1
  <2>3. CASE size = tail + 1
    <3>1. r.high = high + 1
      BY <1>5, <1>9, <2>3
    <3> QED BY <1>6, <1>9, <1>11, <2>1, <2>3, <3>1
  <2> QED BY <1>3, <2>2, <2>3
<1> QED BY <1>10, <1>11

LEMMA RecoveryKeeps ==
  ASSUME TraceTypes, TraceInv, NEW e \in Emitter, emitter[e].at = "recover",
         Continues(Known0(e), Uncounted(e, Known0(e))), sidecar' = Recovered(e),
         NEW new \in Working \cup {Off}, emitter' = [emitter EXCEPT ![e] = new],
         UNCHANGED <<trace, counted, lost>>, lapsed => lapsed',
         new.at \notin {"count", "deliver"},
         new.at \in {"replay", "append"} => new.session = emitter[e].session,
         new.at # "off" => /\ new.reset = emitter[e].reset /\ new.floor = emitter[e].floor
                           /\ new.reset => new.at \notin {"idle", "replay"}
  PROVE  TraceInv'
<1> PICK r : r = Recovered(e)
  OBVIOUS
<1>1. /\ r \in Sidecar /\ r.active = emitter[e].session
      /\ r.tail = Len(trace[emitter[e].session]) /\ r.cursor <= r.high
      /\ sidecar = Nothing0 => r.high = 0
      /\ sidecar # Nothing0 =>
              \/ /\ Len(trace[sidecar.active]) = sidecar.tail
                 /\ r.high = sidecar.high
              \/ /\ Len(trace[sidecar.active]) = sidecar.tail + 1
                 /\ r.high = sidecar.high + 1
                 /\ trace[sidecar.active][sidecar.tail + 1] = sidecar.high + 1
  BY RecoveredIs
<1>2. sidecar' # Nothing0 /\ sidecar' = r
  BY <1>1, NoSidecar
<1>3. /\ \A f \in Emitter : emitter'[f] = IF f = e THEN new ELSE emitter[f]
      /\ \A f \in Emitter : f # e => emitter[f].at \notin Holding
  BY DEF TraceTypes, Holding
<1>4. TailInv'
  <2>1. Len(trace[r.active]) = r.tail
    BY <1>1
  <2>2. \A f \in Emitter : emitter'[f].at \in {"replay", "append", "count", "deliver"} =>
           f = e /\ emitter'[f].at # "count" /\ emitter'[f].session = r.active
    BY <1>1, <1>3 DEF Holding
  <2> QED BY <1>1, <1>2, <2>1, <2>2 DEF TailInv
<1>5. FloorInv'
  <2>0. r.high \in Nat
    BY <1>1 DEF Sidecar
  <2>1. sidecar # Nothing0 => sidecar.high \in Nat /\ sidecar.high <= r.high
    BY <1>1 DEF TraceTypes, Sidecar
  <2>2. \A f \in Emitter : emitter[f] \in Working \/ emitter[f].at = "off"
    BY DEF TraceTypes, Off
  <2>3. \A f \in Emitter : emitter'[f].at # "off" =>
           /\ emitter[f].at # "off" /\ emitter[f].at # "deliver" /\ emitter'[f].at # "deliver"
           /\ emitter'[f].reset = emitter[f].reset /\ emitter'[f].floor = emitter[f].floor
           /\ emitter'[f].reset => emitter'[f].at \notin {"idle", "replay"}
    BY <1>3 DEF Holding, TraceInv, FloorInv
  <2>4. \A f \in Emitter : emitter[f].at \notin {"off", "deliver"} /\ ~emitter[f].reset => emitter[f].floor <= r.high
    <3> SUFFICES ASSUME NEW f \in Emitter, emitter[f].at \notin {"off", "deliver"}, ~emitter[f].reset
                 PROVE  emitter[f].floor <= r.high
      OBVIOUS
    <3>1. emitter[f].floor \in Nat
      BY <2>2 DEF Working
    <3>2. emitter[f].floor <= IF sidecar = Nothing0 THEN 0 ELSE sidecar.high
      BY DEF TraceInv, FloorInv
    <3> QED BY <2>0, <2>1, <3>1, <3>2
  <2> QED BY <1>2, <2>3, <2>4 DEF FloorInv, TraceInv
<1>6. lapsed' \/ NumbersInv'
  <2> SUFFICES ASSUME ~lapsed' PROVE NumbersInv'
    OBVIOUS
  <2>1. NumbersInv
    BY DEF TraceInv
  <2> PICK top \in Nat : top = Top
    BY DEF Top, TraceTypes, Sidecar
  <2> PICK high \in Nat : high = r.high
    BY <1>1 DEF Sidecar
  <2>2. Behind' = 0
    BY <1>1, <1>2 DEF Behind, TraceTypes
  <2>3. Top' = IF high = 0 THEN lost ELSE high
    BY <1>2 DEF Top
  <2>4. \A n \in 1 .. MaxEmits : counted[n] > 0 => n <= Top'
    <3>0. lost \in Nat /\ \A n \in 1 .. MaxEmits : n \in Nat
      BY DEF TraceTypes
    <3>1. CASE sidecar = Nothing0
      BY <1>1, <2>1, <2>3, <3>0, <3>1 DEF NumbersInv, Top, Behind
    <3>2. CASE sidecar # Nothing0
      <4> PICK high0 \in Nat, tail \in Nat : high0 = sidecar.high /\ tail = sidecar.tail
        BY <3>2 DEF TraceTypes, Sidecar
      <4>1. top = IF high0 = 0 THEN lost ELSE high0
        BY <3>2 DEF Top
      <4>2. CASE Len(trace[sidecar.active]) = tail /\ high = high0
        <5>1. Behind = 0
          BY <3>2, <4>2 DEF Behind
        <5> QED BY <2>1, <2>3, <3>0, <4>1, <4>2, <5>1 DEF NumbersInv
      <4>3. CASE Len(trace[sidecar.active]) = tail + 1 /\ high = high0 + 1
                 /\ trace[sidecar.active][tail + 1] = high0 + 1
        <5>1. Behind = 1
          BY <3>2, <4>3 DEF Behind
        <5>2. top = high0
          BY <2>1, <3>2, <4>3, <5>1 DEF NumbersInv
        <5> QED BY <2>1, <2>3, <3>0, <4>3, <5>1, <5>2 DEF NumbersInv
      <4> QED BY <1>1, <3>2, <4>2, <4>3
    <3> QED BY <3>1, <3>2
  <2>5. Top' >= lost
    <3>0. lost \in Nat
      BY DEF TraceTypes
    <3>1. CASE sidecar = Nothing0
      BY <1>1, <2>3, <3>0, <3>1
    <3>2. CASE sidecar # Nothing0
      <4> PICK high0 \in Nat : high0 = sidecar.high
        BY <3>2 DEF TraceTypes, Sidecar
      <4>1. top = IF high0 = 0 THEN lost ELSE high0
        BY <3>2 DEF Top
      <4>2. top >= lost
        BY <2>1, <3>2 DEF NumbersInv
      <4>3. high = high0 \/ (high = high0 + 1 /\ trace[sidecar.active][sidecar.tail + 1] = high0 + 1
                             /\ Len(trace[sidecar.active]) = sidecar.tail + 1)
        BY <1>1, <3>2
      <4>4. CASE high = high0
        BY <2>3, <3>0, <4>1, <4>2, <4>4
      <4>5. CASE high = high0 + 1 /\ trace[sidecar.active][sidecar.tail + 1] = high0 + 1
                 /\ Len(trace[sidecar.active]) = sidecar.tail + 1
        <5>1. Behind = 1
          BY <3>2, <4>5 DEF Behind, TraceTypes, Sidecar
        <5>2. top = high0
          BY <2>1, <3>2, <4>5, <5>1 DEF NumbersInv
        <5> QED BY <2>3, <3>0, <4>2, <4>5, <5>2
      <4> QED BY <4>3, <4>4, <4>5
    <3> QED BY <3>1, <3>2
  <2>6. \A s \in Session : \A i \in 1 .. Len(trace[s]) : trace[s][i] <= high
    <3> SUFFICES ASSUME NEW s \in Session, NEW i \in 1 .. Len(trace[s])
                 PROVE  trace[s][i] <= high
      OBVIOUS
    <3>0. trace[s][i] \in Nat /\ Len(trace[s]) \in Nat
      BY DEF TraceTypes
    <3>1. sidecar # Nothing0
      BY <3>0 DEF TraceInv, TailInv
    <3> PICK high0 \in Nat, tail \in Nat : high0 = sidecar.high /\ tail = sidecar.tail
      BY <3>1 DEF TraceTypes, Sidecar
    <3>2. high0 <= high
      BY <1>1, <3>1
    <3>3. CASE s # sidecar.active \/ i <= tail
      <4>1. trace[s][i] <= high0
        BY <2>1, <3>1, <3>3 DEF NumbersInv
      <4> QED BY <3>0, <3>2, <4>1
    <3>4. CASE s = sidecar.active /\ ~(i <= tail)
      <4>1. i = tail + 1 /\ Len(trace[s]) # tail
        BY <1>1, <3>0, <3>1, <3>4
      <4>2. high = high0 + 1 /\ trace[s][i] = high0 + 1
        BY <1>1, <3>1, <3>4, <4>1
      <4> QED BY <4>2
    <3> QED BY <3>3, <3>4
  <2>7. \A n \in 1 .. MaxEmits : n <= Top' + Behind' <=> n <= Top'
    BY <2>2, <2>3 DEF TraceTypes
  <2> QED BY <1>2, <2>1, <2>2, <2>4, <2>5, <2>6, <2>7 DEF NumbersInv
<1> QED BY <1>4, <1>5, <1>6 DEF TraceInv

LEMMA RecoverKeeps == \A e \in Emitter : TraceTypes /\ TraceInv /\ Recover0(e) => TraceTypes' /\ TraceInv'
<1> SUFFICES ASSUME NEW e \in Emitter, TraceTypes, TraceInv, Recover0(e)
             PROVE  TraceTypes' /\ TraceInv'
  OBVIOUS
<1>1. emitter[e].at = "recover" /\ Continues(Known0(e), Uncounted(e, Known0(e)))
  BY DEF Recover0
<1>2. emitter[e] \in Working
  BY <1>1 DEF TraceTypes, Off
<1> PICK r : r = Recovered(e)
  OBVIOUS
<1>3. r \in Sidecar
  BY <1>1, RecoveredIs
<1>4. sidecar' = r /\ checkpoint' \in Nat
  <2>1. r.high \in Nat
    BY <1>3 DEF Sidecar
  <2> QED BY <2>1 DEF Recover0, Write, TraceTypes
<1> PICK new : new = AfterRecovery(e)
  OBVIOUS
<1>5. /\ new \in Working /\ new.at \in {"waiting", "idle", "replay", "append"}
      /\ new.session = emitter[e].session /\ new.reset = emitter[e].reset
      /\ new.floor = emitter[e].floor
      /\ new.reset => new.at \notin {"idle", "replay"}
      /\ emitter[e].doing = "open" => new.at \in {"waiting", "idle"}
  <2>1. CASE emitter[e].doing = "open" /\ emitter[e].reset
    <3>1. new = [emitter[e] EXCEPT !.at = "waiting", !.doing = "emit"]
      BY <2>1 DEF AfterRecovery
    <3> QED BY <1>2, <2>1, <3>1 DEF Working
  <2>2. CASE emitter[e].doing = "open" /\ ~emitter[e].reset
    <3>1. new = [emitter[e] EXCEPT !.at = "idle"]
      BY <2>2 DEF AfterRecovery
    <3> QED BY <1>2, <2>2, <3>1 DEF Working
  <2>3. CASE emitter[e].doing # "open" /\ e \in Served /\ ~emitter[e].reset
    <3>1. new = [emitter[e] EXCEPT !.at = "replay"]
      BY <2>3 DEF AfterRecovery
    <3> QED BY <1>2, <2>3, <3>1 DEF Working, Holding
  <2>4. CASE emitter[e].doing # "open" /\ ~(e \in Served /\ ~emitter[e].reset)
    <3>1. new = [emitter[e] EXCEPT !.at = "append"]
      BY <2>4 DEF AfterRecovery
    <3> QED BY <1>2, <2>4, <3>1 DEF Working, Holding
  <2> QED BY <2>1, <2>2, <2>3, <2>4
<1>6. emitter' = [emitter EXCEPT ![e] = new]
  BY DEF Recover0, Becomes0
<1>7. UNCHANGED <<pointer, sessions, trace, counted, lost, lapsed>>
  BY DEF Recover0, traceHistory
<1>8. new.at \in Holding => traceLock' = e
  BY <1>5 DEF Recover0, Holding
<1>9. TraceTypes'
  <2>1. /\ emitter' \in [Emitter -> Working \cup {Off}]
        /\ \A f \in Emitter : emitter'[f].at \in Holding => traceLock' = f
    BY <1>1, <1>5, <1>6, <1>8, LockTypes DEF Holding
  <2> QED BY <1>3, <1>4, <1>7, <2>1 DEF TraceTypes
<1>10. TraceInv'
  BY <1>1, <1>4, <1>5, <1>6, <1>7, RecoveryKeeps
<1> QED BY <1>9, <1>10

LEMMA RecoveryRaisesKeeps ==
  \A e \in Emitter : TraceTypes /\ TraceInv /\ RecoveryRaises(e) => TraceTypes' /\ TraceInv'
<1> SUFFICES ASSUME NEW e \in Emitter, TraceTypes, TraceInv, RecoveryRaises(e)
             PROVE  TraceTypes' /\ TraceInv'
  OBVIOUS
<1>1. emitter[e].at = "recover" /\ Raise(e)
  BY DEF RecoveryRaises
<1>2. PICK new \in Working \cup {Off} :
         /\ emitter' = [emitter EXCEPT ![e] = new]
         /\ new = Off \/ (/\ new.at = "idle" /\ ~emitter[e].reset
                          /\ new.reset = emitter[e].reset /\ new.floor = emitter[e].floor)
  BY <1>1, RaiseShape DEF Holding
<1>3. UNCHANGED <<pointer, sessions, trace, counted, lost, checkpoint>> /\ (lapsed => lapsed')
  <2>1. lapsed => lapsed'
    BY DEF RecoveryRaises
  <2>2. UNCHANGED <<pointer, sessions, trace, counted, lost, checkpoint>>
    BY DEF RecoveryRaises, WriteFails
  <2> QED BY <2>1, <2>2
<1>4. new.at \notin Holding
  BY <1>2 DEF Holding, Off
<1>5. /\ emitter' \in [Emitter -> Working \cup {Off}]
      /\ \A f \in Emitter : emitter'[f].at \in Holding => traceLock' = f
  BY <1>1, <1>2, <1>4, LockTypes DEF Holding
<1>6. CASE sidecar' = sidecar
  <2>1. TraceTypes'
    BY <1>3, <1>5, <1>6 DEF TraceTypes
  <2>2. emitter[e].at # "off" /\ emitter[e].at # "deliver"
    BY <1>1
  <2>3. TraceInv'
    <3>1. CASE new = Off
      BY <1>1, <1>2, <1>3, <1>6, <3>1, QuietTrace DEF Off
    <3>2. CASE new # Off
      BY <1>1, <1>2, <1>3, <1>6, <2>2, <3>2, QuietTrace DEF TraceInv, FloorInv
    <3> QED BY <3>1, <3>2
  <2> QED BY <2>1, <2>3
<1>7. CASE sidecar' = Recovered(e) /\ Continues(Known0(e), Uncounted(e, Known0(e)))
  <2>1. Recovered(e) \in Sidecar
    BY <1>1, <1>7, RecoveredIs
  <2>2. TraceTypes'
    BY <1>3, <1>5, <1>7, <2>1 DEF TraceTypes
  <2>3. new.at \in {"off", "idle"}
    BY <1>2 DEF Off
  <2>4. new.at # "off" => /\ new.reset = emitter[e].reset /\ new.floor = emitter[e].floor
                          /\ new.reset => new.at \notin {"idle", "replay"}
    BY <1>2 DEF Off
  <2>5. TraceInv'
    BY <1>1, <1>2, <1>3, <1>7, <2>3, <2>4, RecoveryKeeps
  <2> QED BY <2>2, <2>5
<1> QED BY <1>6, <1>7 DEF RecoveryRaises, WriteFails

(* An acknowledgement moves the cursor and nothing else. *)
LEMMA CursorKeeps ==
  ASSUME TraceTypes, TraceInv, NEW e \in Emitter, emitter[e].at \in {"replay", "deliver"},
         sidecar' = sidecar \/ sidecar' = [sidecar EXCEPT !.cursor = sidecar.cursor + 1],
         sidecar' # sidecar => sidecar.cursor + 1 <= sidecar.high,
         NEW new \in Working, emitter' = [emitter EXCEPT ![e] = new],
         UNCHANGED <<trace, counted, lost, lapsed>>,
         new.at \in {"replay", "append", "idle"}, ~new.reset,
         new.floor = emitter[e].floor, new.session = emitter[e].session
  PROVE  TraceInv' /\ sidecar' \in Sidecar
<1>1. sidecar # Nothing0 /\ sidecar \in Sidecar
  BY DEF TraceInv, TailInv, TraceTypes
<1>2. /\ sidecar' \in Sidecar
      /\ sidecar'.active = sidecar.active /\ sidecar'.tail = sidecar.tail
      /\ sidecar'.high = sidecar.high /\ sidecar'.cursor <= sidecar'.high
  <2>1. CASE sidecar' = sidecar
    BY <1>1, <2>1 DEF TraceInv, TailInv
  <2>2. CASE sidecar' # sidecar
    BY <1>1, <2>2 DEF Sidecar
  <2> QED BY <2>1, <2>2
<1>3. sidecar' # Nothing0
  BY <1>2, NoSidecar
<1>4. /\ \A f \in Emitter : emitter'[f] = IF f = e THEN new ELSE emitter[f]
      /\ \A f \in Emitter : f # e => emitter[f].at \notin Holding
  BY DEF TraceTypes, Holding
<1>5. Len(trace[sidecar.active]) = sidecar.tail /\ sidecar.active = emitter[e].session
  BY DEF TraceInv, TailInv
<1>6. TailInv'
  <2>1. \A f \in Emitter : emitter'[f].at \in {"replay", "append", "count", "deliver"} =>
           f = e /\ emitter'[f].at # "count" /\ emitter'[f].session = sidecar.active
    BY <1>4, <1>5 DEF Holding
  <2> QED BY <1>2, <1>3, <1>5, <2>1 DEF TailInv
<1>7. FloorInv'
  <2>1. emitter[e].floor <= sidecar.high
    BY <1>1 DEF TraceInv, FloorInv
  <2>2. \A f \in Emitter : f # e /\ emitter[f].at # "off" =>
        /\ emitter[f].reset /\ emitter[f].at # "deliver" => emitter[f].floor = lost
        /\ emitter[f].reset => emitter[f].at \notin {"idle", "replay"}
        /\ ~emitter[f].reset \/ emitter[f].at = "deliver" => emitter[f].floor <= sidecar.high
    BY <1>1 DEF TraceInv, FloorInv
  <2> QED BY <1>2, <1>3, <1>4, <2>1, <2>2 DEF FloorInv
<1>8. lapsed' \/ NumbersInv'
  <2> SUFFICES ASSUME NumbersInv PROVE NumbersInv'
    BY DEF TraceInv
  <2>1. Top' = Top
    BY <1>1, <1>2, <1>3 DEF Top
  <2>2. Behind = 0 /\ Behind' = 0
    BY <1>1, <1>2, <1>3, <1>5 DEF Behind, Sidecar
  <2> QED BY <1>1, <1>2, <1>3, <2>1, <2>2 DEF NumbersInv
<1> QED BY <1>2, <1>6, <1>7, <1>8 DEF TraceInv

LEMMA DeliverIs ==
  ASSUME TraceTypes, TraceInv, NEW e \in Emitter, emitter[e].at \in {"replay", "deliver"}, Deliver0(e)
  PROVE  /\ sidecar' = sidecar \/ sidecar' = [sidecar EXCEPT !.cursor = sidecar.cursor + 1]
         /\ checkpoint' \in Nat
<1>1. sidecar \in Sidecar
  BY DEF TraceInv, TailInv, TraceTypes
<1>2. [sidecar EXCEPT !.cursor = sidecar.cursor + 1].high \in Nat
  BY <1>1 DEF Sidecar
<1> QED BY <1>2 DEF Deliver0, Write, WriteFails, NextToHand, TraceTypes

LEMMA ReplayKeeps == \A e \in Emitter : TraceTypes /\ TraceInv /\ Replay0(e) => TraceTypes' /\ TraceInv'
<1> SUFFICES ASSUME NEW e \in Emitter, TraceTypes, TraceInv, Replay0(e)
             PROVE  TraceTypes' /\ TraceInv'
  OBVIOUS
<1>1. emitter[e].at = "replay" /\ sidecar.cursor < sidecar.high /\ Deliver0(e)
  BY DEF Replay0
<1>2. emitter[e] \in Working /\ ~emitter[e].reset
  BY <1>1 DEF TraceTypes, Off, TraceInv, FloorInv
<1>3. PICK point \in {"replay", "append", "idle"} :
         /\ emitter' = [emitter EXCEPT ![e] = [emitter[e] EXCEPT !.at = point]]
         /\ point # "idle" => UNCHANGED traceLock
  <2>1. CASE UNCHANGED <<emitter, traceLock>>
    <3>1. [emitter EXCEPT ![e] = [emitter[e] EXCEPT !.at = "replay"]] = emitter
      BY <1>1, <1>2 DEF TraceTypes, Working
    <3> QED BY <2>1, <3>1
  <2>2. CASE \E point \in {"append", "idle"} : At(e, point) /\ (point = "append" => UNCHANGED traceLock)
    BY <2>2 DEF At
  <2> QED BY <2>1, <2>2 DEF Replay0
<1> PICK new : new = [emitter[e] EXCEPT !.at = point]
  OBVIOUS
<1>4. /\ new \in Working /\ new.at = point /\ ~new.reset
      /\ new.floor = emitter[e].floor /\ new.session = emitter[e].session
  BY <1>2 DEF Working, Holding
<1>5. UNCHANGED <<pointer, sessions, trace, counted, lost, lapsed>>
  BY DEF Replay0, traceHistory
<1>6. /\ sidecar' = sidecar \/ sidecar' = [sidecar EXCEPT !.cursor = sidecar.cursor + 1]
      /\ checkpoint' \in Nat
  BY <1>1, DeliverIs
<1>7. sidecar.cursor + 1 <= sidecar.high
  <2>1. sidecar \in Sidecar
    BY <1>1 DEF TraceInv, TailInv, TraceTypes
  <2> QED BY <1>1, <2>1 DEF Sidecar
<1>8. TraceInv' /\ sidecar' \in Sidecar
  BY <1>1, <1>3, <1>4, <1>5, <1>6, <1>7, CursorKeeps
<1>9. traceLock = e
  BY <1>1 DEF TraceTypes, Holding
<1>10. /\ emitter' \in [Emitter -> Working \cup {Off}]
       /\ \A f \in Emitter : emitter'[f].at \in Holding => traceLock' = f
  <2>1. new.at \in Holding => traceLock' = e
    BY <1>3, <1>4, <1>9 DEF Holding
  <2> QED BY <1>1, <1>3, <1>4, <2>1, LockTypes DEF Holding
<1>11. TraceTypes'
  BY <1>5, <1>6, <1>8, <1>10 DEF TraceTypes
<1> QED BY <1>8, <1>11

LEMMA FinishEmitKeeps == \A e \in Emitter : TraceTypes /\ TraceInv /\ FinishEmit(e) => TraceTypes' /\ TraceInv'
<1> SUFFICES ASSUME NEW e \in Emitter, TraceTypes, TraceInv, FinishEmit(e)
             PROVE  TraceTypes' /\ TraceInv'
  OBVIOUS
<1>1. emitter[e].at = "deliver"
  BY DEF FinishEmit
<1>2. emitter[e] \in Working
  BY <1>1 DEF TraceTypes, Off
<1> PICK new : new = [emitter[e] EXCEPT !.at = "idle", !.reset = FALSE]
  OBVIOUS
<1>3. emitter' = [emitter EXCEPT ![e] = new]
  BY DEF FinishEmit, Becomes0
<1>4. /\ new \in Working /\ new.at = "idle" /\ ~new.reset
      /\ new.floor = emitter[e].floor /\ new.session = emitter[e].session
  BY <1>2 DEF Working
<1>5. UNCHANGED <<pointer, sessions, trace, counted, lost, lapsed>>
  BY DEF FinishEmit, traceHistory
<1>6. /\ sidecar' = sidecar \/ sidecar' = [sidecar EXCEPT !.cursor = sidecar.cursor + 1]
      /\ checkpoint' \in Nat
  <2>1. CASE Deliver0(e)
    BY <1>1, <2>1, DeliverIs
  <2>2. CASE UNCHANGED <<sidecar, checkpoint>>
    BY <2>2 DEF TraceTypes
  <2> QED BY <2>1, <2>2 DEF FinishEmit
<1>7. sidecar' # sidecar => sidecar.cursor + 1 <= sidecar.high
  <2>1. sidecar \in Sidecar
    BY <1>1 DEF TraceInv, TailInv, TraceTypes
  <2>2. sidecar' # sidecar => sidecar.cursor + 1 = sidecar.high
    BY DEF FinishEmit, NextToHand
  <2> QED BY <2>1, <2>2 DEF Sidecar
<1>8. TraceInv' /\ sidecar' \in Sidecar
  BY <1>1, <1>3, <1>4, <1>5, <1>6, <1>7, CursorKeeps
<1>9. /\ emitter' \in [Emitter -> Working \cup {Off}]
      /\ \A f \in Emitter : emitter'[f].at \in Holding => traceLock' = f
  BY <1>1, <1>3, <1>4, LockTypes DEF Holding
<1>10. TraceTypes'
  BY <1>5, <1>6, <1>8, <1>9 DEF TraceTypes
<1> QED BY <1>8, <1>10

(* The last number that is accounted for is what the next one is based on. *)
LEMMA BaseIs ==
  ASSUME TraceTypes, TraceInv, NEW e \in Emitter, emitter[e].at \in {"append", "count"}
  PROVE  /\ Base(e) \in Sidecar
         /\ Base(e).active = sidecar.active
         /\ sidecar.high <= Base(e).high
         /\ Base(e).cursor <= Base(e).high
         /\ NumbersInv /\ (Top # sidecar.high => emitter[e].reset) => Base(e).high = Top
<1>1. sidecar # Nothing0 /\ sidecar \in Sidecar /\ sidecar.cursor <= sidecar.high
  BY DEF TraceInv, TailInv, TraceTypes
<1>2. emitter[e] \in Working
  BY DEF TraceTypes, Off
<1> PICK high \in Nat, acked \in Nat, floor \in Nat :
       high = sidecar.high /\ acked = sidecar.cursor /\ floor = emitter[e].floor
  BY <1>1, <1>2 DEF Sidecar, Working
<1> PICK b : b = Base(e)
  OBVIOUS
<1>3. lost \in Nat /\ Top = IF high = 0 THEN lost ELSE high
  BY <1>1 DEF Top, TraceTypes
<1>4. /\ emitter[e].reset => floor = lost
      /\ ~emitter[e].reset => floor <= high
  BY <1>1 DEF TraceInv, FloorInv
<1>5. NumbersInv => Top >= lost
  BY <1>1 DEF NumbersInv
<1>6. CASE emitter[e].reset /\ floor > 0 /\ high = 0 /\ acked = 0
  <2>1. b = [sidecar EXCEPT !.high = floor, !.cursor = floor]
    BY <1>6 DEF Base
  <2>2. b \in Sidecar /\ b.active = sidecar.active /\ b.high = floor /\ b.cursor = floor
    BY <1>1, <2>1 DEF Sidecar
  <2> QED BY <1>3, <1>4, <1>6, <2>2
<1>7. CASE ~(emitter[e].reset /\ floor > 0 /\ high = 0 /\ acked = 0)
  <2> PICK top \in Nat : top = IF high < floor THEN floor ELSE high
    OBVIOUS
  <2>1. b = [sidecar EXCEPT !.high = top]
    <3>1. b = [sidecar EXCEPT !.high = IF high < floor THEN floor ELSE high]
      BY <1>7 DEF Base
    <3> QED BY <3>1
  <2>2. b \in Sidecar /\ b.active = sidecar.active /\ b.high = top /\ b.cursor = acked
    BY <1>1, <2>1 DEF Sidecar
  <2>3. high <= top /\ acked <= top
    BY <1>1
  <2>4. ASSUME NumbersInv, Top # high => emitter[e].reset PROVE top = Top
    <3>1. CASE ~emitter[e].reset
      BY <1>3, <1>4, <2>4, <3>1
    <3>2. CASE emitter[e].reset /\ high # 0
      BY <1>3, <1>4, <1>5, <2>4, <3>2
    <3>3. CASE emitter[e].reset /\ high = 0
      <4>1. acked = 0
        BY <1>1, <3>3
      <4> QED BY <1>3, <1>4, <1>7, <3>3, <4>1
    <3> QED BY <3>1, <3>2, <3>3
  <2> QED BY <2>2, <2>3, <2>4
<1> QED BY <1>6, <1>7

LEMMA AppendKeeps == \A e \in Emitter : TraceTypes /\ TraceInv /\ AppendRecord(e) => TraceTypes' /\ TraceInv'
<1> SUFFICES ASSUME NEW e \in Emitter, TraceTypes, TraceInv, AppendRecord(e)
             PROVE  TraceTypes' /\ TraceInv'
  OBVIOUS
<1>1. emitter[e].at = "append"
  BY DEF AppendRecord
<1>2. emitter[e] \in Working
  BY <1>1 DEF TraceTypes, Off
<1> PICK session \in Session : session = emitter[e].session
  BY <1>2 DEF Working
<1>3. /\ sidecar # Nothing0 /\ sidecar \in Sidecar /\ sidecar.active = session
      /\ Len(trace[session]) = sidecar.tail
  BY <1>1 DEF TraceInv, TailInv, TraceTypes
<1> PICK tail \in Nat, high \in Nat : tail = sidecar.tail /\ high = sidecar.high
  BY <1>3 DEF Sidecar
<1> PICK n : n = Base(e).high + 1
  OBVIOUS
<1>4. n \in 1 .. MaxEmits
  <2>1. Base(e).high \in Nat
    BY <1>1, BaseIs DEF Sidecar
  <2>2. n <= MaxEmits /\ MaxEmits \in Nat
    BY TraceAssumption DEF AppendRecord
  <2> QED BY <2>1, <2>2
<1> PICK new : new = [emitter[e] EXCEPT !.at = "count"]
  OBVIOUS
<1>5. /\ new \in Working /\ new.at = "count" /\ new.reset = emitter[e].reset
      /\ new.floor = emitter[e].floor /\ new.session = session
  BY <1>2 DEF Working, Holding
<1>6. /\ emitter' = [emitter EXCEPT ![e] = new]
      /\ trace' = [trace EXCEPT ![session] = Append(trace[session], n)]
      /\ counted' = [counted EXCEPT ![n] = counted[n] + 1]
      /\ lapsed' = (lapsed \/ (n <= lost /\ ~Noticed(e)))
      /\ UNCHANGED <<pointer, sessions, sidecar, checkpoint, traceLock, lost>>
  BY DEF AppendRecord, At
<1>7. /\ trace' \in [Session -> Seq(Nat)]
      /\ \A s \in Session : s # session => trace'[s] = trace[s]
      /\ Len(trace'[session]) = tail + 1 /\ trace'[session][tail + 1] = n
      /\ \A i \in 1 .. tail : trace'[session][i] = trace[session][i]
  <2> PICK more : more = Append(trace[session], n)
    OBVIOUS
  <2>1. trace[session] \in Seq(Nat) /\ n \in Nat
    BY <1>4 DEF TraceTypes
  <2>2. /\ more \in Seq(Nat) /\ Len(more) = tail + 1 /\ more[tail + 1] = n
        /\ \A i \in 1 .. tail : more[i] = trace[session][i]
    BY <1>3, <2>1
  <2>3. trace' = [trace EXCEPT ![session] = more]
    BY <1>6
  <2> QED BY <2>2, <2>3 DEF TraceTypes
<1>8. counted' \in [1 .. MaxEmits -> Nat]
  <2>1. counted[n] + 1 \in Nat
    BY <1>4 DEF TraceTypes
  <2> QED BY <1>6, <2>1 DEF TraceTypes
<1>9. TraceTypes'
  <2>1. /\ emitter' \in [Emitter -> Working \cup {Off}]
        /\ \A f \in Emitter : emitter'[f].at \in Holding => traceLock' = f
    <3>1. traceLock' = e
      BY <1>1, <1>6 DEF TraceTypes, Holding
    <3> QED BY <1>1, <1>5, <1>6, <3>1, LockTypes DEF Holding
  <2> QED BY <1>6, <1>7, <1>8, <2>1 DEF TraceTypes
<1>10. /\ \A f \in Emitter : emitter'[f] = IF f = e THEN new ELSE emitter[f]
       /\ \A f \in Emitter : f # e => emitter[f].at \notin Holding
  BY <1>1, <1>6 DEF TraceTypes, Holding
<1>11. TailInv'
  <2>1. \A f \in Emitter : emitter'[f].at \in {"replay", "append", "count", "deliver"} => f = e
    BY <1>10 DEF Holding
  <2>2. \A f \in Emitter : emitter'[f].at \in {"replay", "append", "count", "deliver"} =>
           emitter'[f].at = "count" /\ emitter'[f].session = session
    BY <1>5, <1>10, <2>1
  <2>3. sidecar.cursor <= sidecar.high
    BY <1>3 DEF TailInv, TraceInv
  <2>4. sidecar' = sidecar /\ Len(trace'[sidecar.active]) = sidecar.tail + 1
    BY <1>3, <1>6, <1>7
  <2> QED BY <1>3, <2>2, <2>3, <2>4 DEF TailInv
<1>12. FloorInv'
  BY <1>1, <1>5, <1>6, <1>10 DEF TraceInv, FloorInv
<1>13. lapsed' \/ NumbersInv'
  <2> SUFFICES ASSUME ~lapsed' PROVE NumbersInv'
    OBVIOUS
  <2>0. lost \in Nat /\ Top = (IF high = 0 THEN lost ELSE high) /\ Top \in Nat
    BY <1>3 DEF Top, TraceTypes
  <2>1. NumbersInv /\ ~(n <= lost /\ ~Noticed(e))
    BY <1>6 DEF TraceInv
  <2>2. Behind = 0
    BY <1>3 DEF Behind
  <2>3. Top # high => emitter[e].reset
    <3> SUFFICES ASSUME Top # high, ~emitter[e].reset PROVE FALSE
      OBVIOUS
    <3>1. high = 0 /\ lost > 0
      BY <2>0
    <3> PICK floor \in Nat : floor = emitter[e].floor
      BY <1>2 DEF Working
    <3>2. floor <= high
      BY <1>1, <1>3 DEF TraceInv, FloorInv
    <3>3. Base(e).high = 0
      <4>1. Base(e) = [sidecar EXCEPT !.high = IF high < floor THEN floor ELSE high]
        BY DEF Base
      <4> QED BY <1>3, <3>1, <3>2, <4>1 DEF Sidecar
    <3>4. n = 1
      BY <3>3
    <3> QED BY <2>0, <2>1, <3>1, <3>4 DEF Noticed
  <2>4. n = Top + 1
    BY <1>1, <2>1, <2>3, BaseIs
  <2>5. Top' = Top
    BY <1>6 DEF Top
  <2>6. Behind' = 1
    BY <1>3, <1>6, <1>7 DEF Behind
  <2>7. \A m \in 1 .. MaxEmits : counted'[m] <= 1 /\ (counted'[m] > 0 => m <= Top + 1)
    <3> SUFFICES ASSUME NEW m \in 1 .. MaxEmits
                 PROVE  counted'[m] <= 1 /\ (counted'[m] > 0 => m <= Top + 1)
      OBVIOUS
    <3>1. counted[m] \in Nat /\ counted[m] <= 1 /\ (counted[m] > 0 => m <= Top + 0)
      BY <2>1, <2>2 DEF NumbersInv, TraceTypes
    <3>2. CASE m = n
      <4>1. counted'[m] = counted[m] + 1
        BY <1>6, <3>2 DEF TraceTypes
      <4> QED BY <2>0, <2>4, <3>1, <3>2, <4>1
    <3>3. CASE m # n
      <4>1. counted'[m] = counted[m]
        BY <1>4, <1>6, <3>3 DEF TraceTypes
      <4> QED BY <2>0, <3>1, <4>1
    <3> QED BY <3>2, <3>3
  <2>8. Top >= lost
    BY <1>3, <2>1 DEF NumbersInv
  <2>9. \A s \in Session : \A i \in 1 .. Len(trace'[s]) :
           s # session \/ i <= tail => trace'[s][i] <= high
    <3> SUFFICES ASSUME NEW s \in Session, NEW i \in 1 .. Len(trace'[s]), s # session \/ i <= tail
                 PROVE  trace'[s][i] <= high
      OBVIOUS
    <3>1. i \in 1 .. Len(trace[s]) /\ trace'[s][i] = trace[s][i]
      BY <1>3, <1>7
    <3> QED BY <1>3, <2>1, <3>1 DEF NumbersInv
  <2>10. Top # high => emitter'[e].at = "count" /\ emitter'[e].reset
    BY <1>5, <1>10, <2>3
  <2> QED BY <1>3, <1>6, <1>7, <2>4, <2>5, <2>6, <2>7, <2>8, <2>9, <2>10 DEF NumbersInv
<1> QED BY <1>9, <1>11, <1>12, <1>13 DEF TraceInv

(* The record that was appended is counted. *)
LEMMA CountedKeeps ==
  ASSUME TraceTypes, TraceInv, NEW e \in Emitter, emitter[e].at = "count",
         sidecar' = CountedRecord(e), NEW new \in Working \cup {Off},
         emitter' = [emitter EXCEPT ![e] = new],
         UNCHANGED <<trace, counted, lost>>, lapsed => lapsed',
         new.at \in {"off", "idle", "deliver"},
         new.at = "idle" => ~emitter[e].reset /\ ~new.reset /\ new.floor = emitter[e].floor,
         new.at = "deliver" => new.session = emitter[e].session /\ new.floor = Base(e).high + 1
  PROVE  TraceInv' /\ sidecar' \in Sidecar
<1>1. emitter[e] \in Working
  BY DEF TraceTypes, Off
<1> PICK session \in Session : session = emitter[e].session
  BY <1>1 DEF Working
<1>2. /\ sidecar # Nothing0 /\ sidecar \in Sidecar /\ sidecar.active = session
      /\ Len(trace[session]) = sidecar.tail + 1
  BY DEF TraceInv, TailInv, TraceTypes
<1> PICK tail \in Nat, high \in Nat : tail = sidecar.tail /\ high = sidecar.high
  BY <1>2 DEF Sidecar
<1> PICK b : b = Base(e)
  OBVIOUS
<1>3. /\ b \in Sidecar /\ b.active = session /\ high <= b.high /\ b.cursor <= b.high
      /\ NumbersInv /\ (Top # high => emitter[e].reset) => b.high = Top
  BY <1>2, BaseIs
<1> PICK top \in Nat : top = b.high
  BY <1>3 DEF Sidecar
<1>4. /\ sidecar' \in Sidecar /\ sidecar'.active = session /\ sidecar'.tail = tail + 1
      /\ sidecar'.high = top + 1 /\ sidecar'.cursor <= top + 1
  <2>1. CountedRecord(e) = [b EXCEPT !.high = top + 1, !.tail = tail + 1]
    BY <1>2 DEF CountedRecord
  <2>2. b.cursor \in Nat /\ b.cursor <= top
    BY <1>3 DEF Sidecar
  <2> PICK more \in Nat, last \in Nat : more = top + 1 /\ last = tail + 1
    OBVIOUS
  <2> PICK c : c = [b EXCEPT !.high = more, !.tail = last]
    OBVIOUS
  <2>3. c \in Sidecar /\ c.active = session /\ c.tail = last /\ c.high = more /\ c.cursor = b.cursor
    BY <1>3 DEF Sidecar
  <2>4. b.cursor <= more
    BY <2>2
  <2> QED BY <2>1, <2>3, <2>4
<1>5. sidecar' # Nothing0
  BY <1>4, NoSidecar
<1>6. /\ \A f \in Emitter : emitter'[f] = IF f = e THEN new ELSE emitter[f]
      /\ \A f \in Emitter : f # e => emitter[f].at \notin Holding
  BY DEF TraceTypes, Holding
<1>7. TailInv'
  <2>1. \A f \in Emitter : emitter'[f].at \in {"replay", "append", "count", "deliver"} =>
           f = e /\ emitter'[f].at = "deliver" /\ emitter'[f].session = session
    BY <1>6 DEF Holding
  <2>2. Len(trace'[session]) = tail + 1
    BY <1>2
  <2> QED BY <1>4, <1>5, <2>1, <2>2 DEF TailInv
<1>8. FloorInv'
  <2>1. \A f \in Emitter : emitter'[f].at # "off" /\ f # e => emitter[f] \in Working
    BY <1>6 DEF TraceTypes, Off
  <2>2. \A f \in Emitter : emitter'[f].at # "off" /\ f # e =>
        /\ emitter[f].at # "off"
        /\ emitter[f].reset /\ emitter[f].at # "deliver" => emitter[f].floor = lost
        /\ emitter[f].reset => emitter[f].at \notin {"idle", "replay"}
        /\ ~emitter[f].reset \/ emitter[f].at = "deliver" => emitter[f].floor <= high
    BY <1>2, <1>6 DEF TraceInv, FloorInv
  <2>3. \A f \in Emitter : /\ emitter'[f].at # "off" /\ f # e
                          /\ (~emitter[f].reset \/ emitter[f].at = "deliver")
                          => emitter[f].floor <= top + 1
    BY <1>3, <2>1, <2>2 DEF Working
  <2>4. new.at # "off" =>
        /\ new.at = "deliver" \/ (new.at = "idle" /\ ~new.reset)
        /\ new.floor <= top + 1
    <3>1. CASE new.at = "deliver"
      BY <3>1
    <3>2. CASE new.at = "idle"
      <4>1. emitter[e].floor <= high /\ emitter[e].floor \in Nat
        BY <1>1, <1>2, <3>2 DEF TraceInv, FloorInv, Working
      <4> QED BY <1>3, <3>2, <4>1
    <3> QED BY <3>1, <3>2
  <2> QED BY <1>4, <1>5, <1>6, <2>2, <2>3, <2>4 DEF FloorInv
<1>9. lapsed' \/ NumbersInv'
  <2> SUFFICES ASSUME NumbersInv PROVE NumbersInv'
    BY DEF TraceInv
  <2>0. lost \in Nat /\ Top = (IF high = 0 THEN lost ELSE high) /\ Top \in Nat
    BY <1>2 DEF Top, TraceTypes
  <2>1. Behind = 1
    BY <1>2 DEF Behind
  <2>2. Top # high => emitter[e].reset
    <3>1. Top # sidecar.high => \E f \in Emitter : emitter[f].at = "count" /\ emitter[f].reset
      BY <1>2, <2>1 DEF NumbersInv
    <3> QED BY <1>6, <3>1 DEF Holding
  <2>3. top = Top
    BY <1>3, <2>2
  <2>4. Top' = top + 1
    <3>1. top + 1 # 0
      OBVIOUS
    <3> QED BY <1>4, <1>5, <3>1 DEF Top
  <2>5. Behind' = 0
    <3>1. Len(trace'[session]) = tail + 1 /\ (tail + 1) - (tail + 1) = 0
      BY <1>2
    <3> QED BY <1>4, <1>5, <3>1 DEF Behind
  <2>6. \A n \in 1 .. MaxEmits : counted'[n] <= 1 /\ (counted'[n] > 0 => n <= Top' + Behind')
    <3>1. \A n \in 1 .. MaxEmits : counted[n] <= 1 /\ (counted[n] > 0 => n <= top + 1)
      BY <2>1, <2>3 DEF NumbersInv
    <3>2. Top' + Behind' = top + 1
      BY <2>4, <2>5
    <3> QED BY <3>1, <3>2
  <2>7. Top' >= lost
    BY <1>2, <2>0, <2>3, <2>4 DEF NumbersInv
  <2>8. \A s \in Session : \A i \in 1 .. Len(trace[s]) : trace[s][i] <= top + 1
    <3> SUFFICES ASSUME NEW s \in Session, NEW i \in 1 .. Len(trace[s])
                 PROVE  trace[s][i] <= top + 1
      OBVIOUS
    <3>0. trace[s][i] \in Nat
      BY DEF TraceTypes
    <3>1. CASE s # session \/ i <= tail
      <4>1. trace[s][i] <= high
        BY <1>2, <3>1 DEF NumbersInv
      <4> QED BY <1>3, <3>0, <4>1
    <3>2. CASE s = session /\ ~(i <= tail)
      <4>1. i = tail + 1
        BY <1>2, <3>2
      <4>2. trace[session][tail + 1] = Top + 1
        BY <1>2, <2>1 DEF NumbersInv
      <4> QED BY <2>3, <3>2, <4>1, <4>2
    <3> QED BY <3>1, <3>2
  <2> QED BY <1>4, <1>5, <2>4, <2>5, <2>6, <2>7, <2>8 DEF NumbersInv
<1> QED BY <1>4, <1>7, <1>8, <1>9 DEF TraceInv

LEMMA CountKeeps == \A e \in Emitter : TraceTypes /\ TraceInv /\ CountRecord(e) => TraceTypes' /\ TraceInv'
<1> SUFFICES ASSUME NEW e \in Emitter, TraceTypes, TraceInv, CountRecord(e)
             PROVE  TraceTypes' /\ TraceInv'
  OBVIOUS
<1>1. emitter[e].at = "count" /\ sidecar' = CountedRecord(e) /\ checkpoint' = CountedRecord(e).high
  BY DEF CountRecord, Write
<1>2. emitter[e] \in Working
  BY <1>1 DEF TraceTypes, Off
<1> PICK top \in Nat : top = Base(e).high
  BY <1>1, BaseIs DEF Sidecar
<1> PICK new : new = [emitter[e] EXCEPT !.at = "deliver", !.floor = top + 1]
  OBVIOUS
<1>3. emitter' = [emitter EXCEPT ![e] = new]
  BY DEF CountRecord, Becomes0
<1>4. new \in Working /\ new.at = "deliver" /\ new.floor = top + 1 /\ new.session = emitter[e].session
  <2> PICK more \in Nat : more = top + 1
    OBVIOUS
  <2>1. new = [emitter[e] EXCEPT !.at = "deliver", !.floor = more]
    OBVIOUS
  <2> QED BY <1>2, <2>1 DEF Working, Holding
<1>5. UNCHANGED <<pointer, sessions, trace, traceLock, counted, lost, lapsed>>
  BY DEF CountRecord, traceHistory
<1>6. TraceInv' /\ sidecar' \in Sidecar
  BY <1>1, <1>3, <1>4, <1>5, CountedKeeps
<1>7. checkpoint' \in Nat
  BY <1>1, <1>6 DEF Sidecar
<1>8. /\ emitter' \in [Emitter -> Working \cup {Off}]
      /\ \A f \in Emitter : emitter'[f].at \in Holding => traceLock' = f
  <2>1. traceLock' = e
    BY <1>1, <1>5 DEF TraceTypes, Holding
  <2> QED BY <1>1, <1>3, <1>4, <2>1, LockTypes DEF Holding
<1> QED BY <1>5, <1>6, <1>7, <1>8 DEF TraceTypes

LEMMA CountRaisesKeeps ==
  \A e \in Emitter : TraceTypes /\ TraceInv /\ CountRaises(e) => TraceTypes' /\ TraceInv'
<1> SUFFICES ASSUME NEW e \in Emitter, TraceTypes, TraceInv, CountRaises(e)
             PROVE  TraceTypes' /\ TraceInv'
  OBVIOUS
<1>1. emitter[e].at = "count" /\ Raise(e)
  BY DEF CountRaises
<1>2. PICK new \in Working \cup {Off} :
         /\ emitter' = [emitter EXCEPT ![e] = new]
         /\ new = Off \/ (/\ new.at = "idle" /\ ~emitter[e].reset
                          /\ new.reset = emitter[e].reset /\ new.floor = emitter[e].floor)
  BY <1>1, RaiseShape DEF Holding
<1>3. UNCHANGED <<pointer, sessions, trace, counted, lost, checkpoint>>
  BY DEF CountRaises, WriteFails
<1>4. (lapsed => lapsed') /\ (emitter[e].reset => lapsed' \/ lost = 0)
  <2>1. lost > 0 \/ lost = 0
    BY DEF TraceTypes
  <2>2. lapsed' = (lapsed \/ Noticed(e)) /\ emitter[e].at # "off"
    BY <1>1 DEF CountRaises
  <2> QED BY <2>1, <2>2 DEF Noticed
<1>5. /\ emitter' \in [Emitter -> Working \cup {Off}]
      /\ \A f \in Emitter : emitter'[f].at \in Holding => traceLock' = f
  <2>1. new.at \notin Holding
    BY <1>2 DEF Holding, Off
  <2> QED BY <1>1, <1>2, <2>1, LockTypes DEF Holding
<1>6. CASE sidecar' = sidecar
  <2>1. TraceTypes'
    BY <1>3, <1>5, <1>6 DEF TraceTypes
  <2>2. CASE new = Off
    <3>1. TraceInv'
      BY <1>1, <1>2, <1>3, <1>4, <1>6, <2>2, QuietTrace DEF Off
    <3> QED BY <2>1, <3>1
  <2>3. CASE new # Off
    <3>1. TraceInv'
      BY <1>1, <1>2, <1>3, <1>4, <1>6, <2>3, QuietTrace DEF TraceInv, FloorInv
    <3> QED BY <2>1, <3>1
  <2> QED BY <2>2, <2>3
<1>7. CASE sidecar' = CountedRecord(e)
  <2>1. new.at \in {"off", "idle"} /\ (new.at = "idle" => ~emitter[e].reset /\ ~new.reset /\ new.floor = emitter[e].floor)
    BY <1>2 DEF Off
  <2>2. TraceInv' /\ sidecar' \in Sidecar
    BY <1>1, <1>2, <1>3, <1>4, <1>7, <2>1, CountedKeeps
  <2>3. TraceTypes'
    BY <1>3, <1>5, <2>2 DEF TraceTypes
  <2> QED BY <2>2, <2>3
<1> QED BY <1>6, <1>7 DEF CountRaises, WriteFails

LEMMA DeleteKeeps == TraceTypes /\ TraceInv /\ DeleteLogs => TraceTypes' /\ TraceInv'
<1> SUFFICES ASSUME TraceTypes, TraceInv, DeleteLogs PROVE TraceTypes' /\ TraceInv'
  OBVIOUS
<1>1. /\ \A e \in Emitter : emitter[e].at = "off"
      /\ pointer' = Nothing0 /\ sidecar' = Nothing0 /\ trace' = [s \in Session |-> <<>>]
      /\ lost' = checkpoint
      /\ lapsed' = (lapsed \/ \E n \in 1 .. MaxEmits : n > checkpoint /\ counted[n] > 0)
      /\ UNCHANGED <<sessions, checkpoint, traceLock, emitter, counted>>
  BY DEF DeleteLogs
<1>2. TraceTypes'
  BY <1>1 DEF TraceTypes, Holding
<1>3. TailInv'
  BY <1>1 DEF TailInv
<1>4. FloorInv'
  BY <1>1 DEF FloorInv
<1>5. lapsed' \/ NumbersInv'
  <2> SUFFICES ASSUME ~lapsed' PROVE NumbersInv'
    OBVIOUS
  <2>1. NumbersInv /\ \A n \in 1 .. MaxEmits : ~(n > checkpoint /\ counted[n] > 0)
    BY <1>1 DEF TraceInv
  <2>2. Top' = checkpoint /\ Behind' = 0 /\ checkpoint \in Nat
    BY <1>1 DEF Top, Behind, TraceTypes
  <2>3. \A n \in 1 .. MaxEmits : counted[n] > 0 => n <= checkpoint + 0
    BY <2>1, <2>2
  <2> QED BY <1>1, <2>1, <2>2, <2>3 DEF NumbersInv
<1> QED BY <1>2, <1>3, <1>4, <1>5 DEF TraceInv

LEMMA TraceInductive == TraceSpec => [](TraceTypes /\ TraceInv)
<1>1. TraceInit => TraceTypes /\ TraceInv
  BY InitTrace
<1>2. ASSUME TraceTypes, TraceInv, [TraceNext]_traceVars PROVE TraceTypes' /\ TraceInv'
  <2>1. ASSUME NEW e \in Emitter, EmitterStep(e) PROVE TraceTypes' /\ TraceInv'
    BY <1>2, <2>1, OpenKeeps, BeginEmitKeeps, TakeLockKeeps, RecoverKeeps, RecoveryRaisesKeeps,
       ReplayKeeps, EndReplayKeeps, AppendKeeps, CountKeeps, CountRaisesKeeps, FinishEmitKeeps,
       DiesKeeps DEF EmitterStep
  <2>2. CASE FinishSession \/ DeleteLogs
    BY <1>2, <2>2, FinishSessionKeeps, DeleteKeeps
  <2>3. CASE UNCHANGED traceVars
    <3> USE <1>2, <2>3 DEF traceVars, logs, traceHistory
    <3>1. TraceTypes'
      BY DEF TraceTypes
    <3>2. TailInv' /\ FloorInv' /\ UNCHANGED lapsed
      BY DEF TraceInv, TailInv, FloorInv
    <3>3. NumbersInv => NumbersInv'
      BY DEF NumbersInv, Top, Behind
    <3> QED BY <3>1, <3>2, <3>3 DEF TraceInv
  <2> QED BY <1>2, <2>1, <2>2, <2>3 DEF TraceNext
<1> QED BY <1>1, <1>2, PTL DEF TraceSpec

(* What a service has in its journal lies before what is not acknowledged  *)
(* yet; an emitter that has not recovered, or found the logs missing, has  *)
(* handed over nothing.                                                    *)
Blank(x) == x.at = "off" \/ x.reset \/ x.doing = "open"

Rising(s) == \A i, j \in 1 .. Len(s) : i < j => s[i] < s[j]
Unbroken(s) == \A i \in 1 .. Len(s) - 1 : s[i + 1] = s[i] + 1
Newest(s) == s[Len(s)]

BlankInv ==
    \A e \in Emitter :
        /\ Blank(emitter[e]) => got[e] = <<>>
        /\ emitter[e].at \in {"replay", "append", "count", "deliver"} => emitter[e].doing # "open"
        /\ emitter[e].at = "replay" => e \in Served

HandInv ==
    \A e \in Emitter : Len(got[e]) > 0 =>
        /\ sidecar # Nothing0
        /\ Newest(got[e]) <= sidecar.cursor + 1 /\ Newest(got[e]) <= sidecar.high
        /\ 1 <= Newest(got[e]) /\ Rising(got[e])
        /\ Served = {e} => sidecar.cursor <= Newest(got[e]) /\ Unbroken(got[e])

GotInv == got \in [Emitter -> Seq(Nat)] /\ BlankInv /\ HandInv

(* What the sidecar may become while nothing is handed over.               *)
CursorStands ==
    sidecar # Nothing0 /\ sidecar.high > 0 =>
        /\ sidecar' # Nothing0 /\ sidecar' \in Sidecar
        /\ sidecar'.cursor = sidecar.cursor /\ sidecar'.high >= sidecar.high

LEMMA NothingHanded ==
  ASSUME TraceTypes, GotInv, NEW e \in Emitter, NEW new, got' = got,
         emitter' = [emitter EXCEPT ![e] = new],
         Blank(new) => Blank(emitter[e]),
         new.at \in {"replay", "append", "count", "deliver"} => new.doing # "open",
         new.at = "replay" => e \in Served, CursorStands
  PROVE  GotInv'
<1>1. \A f \in Emitter : emitter'[f] = IF f = e THEN new ELSE emitter[f]
  BY DEF TraceTypes
<1>2. BlankInv'
  BY <1>1 DEF GotInv, BlankInv
<1>3. HandInv'
  <2> SUFFICES ASSUME NEW f \in Emitter, Len(got[f]) > 0
               PROVE  /\ sidecar' # Nothing0
                      /\ Newest(got[f]) <= sidecar'.cursor + 1 /\ Newest(got[f]) <= sidecar'.high
                      /\ 1 <= Newest(got[f]) /\ Rising(got[f])
                      /\ Served = {f} => sidecar'.cursor <= Newest(got[f]) /\ Unbroken(got[f])
    BY DEF HandInv, Newest, Rising, Unbroken
  <2> PICK n : n = Newest(got[f])
    OBVIOUS
  <2>1. n \in Nat
    BY DEF GotInv, Newest
  <2>2. /\ sidecar # Nothing0 /\ n <= sidecar.cursor + 1 /\ n <= sidecar.high /\ 1 <= n
        /\ Rising(got[f]) /\ (Served = {f} => sidecar.cursor <= n /\ Unbroken(got[f]))
    BY DEF GotInv, HandInv
  <2>3. sidecar \in Sidecar
    BY <2>2 DEF TraceTypes
  <2>4. sidecar.high \in Nat /\ sidecar.high > 0
    BY <2>1, <2>2, <2>3 DEF Sidecar
  <2>5. /\ sidecar' # Nothing0 /\ sidecar' \in Sidecar
        /\ sidecar'.cursor = sidecar.cursor /\ sidecar'.high >= sidecar.high
    BY <2>2, <2>4 DEF CursorStands
  <2>6. sidecar'.high \in Nat
    BY <2>5 DEF Sidecar
  <2>7. n <= sidecar'.high
    BY <2>1, <2>2, <2>4, <2>5, <2>6
  <2> QED BY <2>2, <2>5, <2>7
<1> QED BY <1>2, <1>3 DEF GotInv

LEMMA SameSidecar == ASSUME TraceTypes, sidecar' = sidecar PROVE CursorStands
<1>1. sidecar # Nothing0 => sidecar \in Sidecar /\ sidecar.high >= sidecar.high
  BY DEF TraceTypes, Sidecar
<1> QED BY <1>1 DEF CursorStands

LEMMA RecoveryStands ==
  ASSUME TraceTypes, TraceInv, NEW e \in Emitter, emitter[e].at = "recover",
         Continues(Known0(e), Uncounted(e, Known0(e))),
         sidecar' \in {sidecar, Recovered(e)}
  PROVE  CursorStands
<1>1. CASE sidecar' = sidecar
  BY <1>1, SameSidecar
<1>2. CASE sidecar' = Recovered(e)
  <2> SUFFICES ASSUME sidecar # Nothing0 PROVE CursorStands
    BY DEF CursorStands
  <2>1. Recovered(e) \in Sidecar /\ Recovered(e).high \in {sidecar.high, sidecar.high + 1}
    BY RecoveredIs
  <2>2. Recovered(e).cursor = sidecar.cursor
    BY DEF Recovered, Known0
  <2>3. sidecar.high \in Nat
    BY DEF TraceTypes, Sidecar
  <2>4. Recovered(e) # Nothing0
    BY <2>1, NoSidecar
  <2>5. Recovered(e).high >= sidecar.high
    BY <2>1, <2>3
  <2> QED BY <1>2, <2>1, <2>2, <2>4, <2>5 DEF CursorStands
<1> QED BY <1>1, <1>2

(* Counting on from a checkpoint moves the cursor where it acknowledged    *)
(* nothing only.                                                           *)
LEMMA CountingStands ==
  ASSUME TraceTypes, TraceInv, NEW e \in Emitter, emitter[e].at = "count",
         sidecar' \in {sidecar, CountedRecord(e)}
  PROVE  CursorStands
<1>1. CASE sidecar' = sidecar
  BY <1>1, SameSidecar
<1>2. CASE sidecar' = CountedRecord(e)
  <2> SUFFICES ASSUME sidecar # Nothing0, sidecar.high > 0 PROVE CursorStands
    BY DEF CursorStands
  <2>1. sidecar \in Sidecar /\ sidecar.high \in Nat
    BY DEF TraceTypes, Sidecar
  <2> PICK b : b = Base(e)
    OBVIOUS
  <2>2. b \in Sidecar /\ sidecar.high <= b.high
    BY BaseIs
  <2>3. b.cursor = sidecar.cursor
    <3>1. sidecar.high # 0
      BY <2>1
    <3>2. b = [sidecar EXCEPT !.high = IF @ < emitter[e].floor THEN emitter[e].floor ELSE @]
      BY <3>1 DEF Base
    <3> QED BY <2>1, <3>2 DEF Sidecar
  <2>4. b.high \in Nat /\ Len(trace[emitter[e].session]) \in Nat
    <3>1. emitter[e].session \in Session
      BY DEF TraceTypes, Working, Off
    <3>2. trace[emitter[e].session] \in Seq(Nat)
      BY <3>1 DEF TraceTypes
    <3> QED BY <2>2, <3>2 DEF Sidecar
  <2> PICK top \in Nat, tail \in Nat : top = b.high + 1 /\ tail = Len(trace[emitter[e].session])
    BY <2>4
  <2>5. CountedRecord(e) = [b EXCEPT !.high = top, !.tail = tail]
    BY DEF CountedRecord
  <2>6. CountedRecord(e) \in Sidecar /\ CountedRecord(e).high = top /\ CountedRecord(e).cursor = b.cursor
    BY <2>2, <2>5 DEF Sidecar
  <2>7. CountedRecord(e) # Nothing0
    BY <2>6, NoSidecar
  <2>8. top >= sidecar.high
    BY <2>1, <2>2, <2>4
  <2> QED BY <1>2, <2>3, <2>6, <2>7, <2>8 DEF CursorStands
<1> QED BY <1>1, <1>2

(* A number handed before is the last of a rising sequence that goes no    *)
(* further.                                                                *)
LEMMA HandedAgain ==
  ASSUME NEW j \in Seq(Nat), NEW a \in Nat, a + 1 \in ToSet(j),
         Len(j) > 0 => Newest(j) <= a + 1 /\ Rising(j)
  PROVE  Len(j) > 0 /\ Newest(j) = a + 1
<1>1. PICK i \in 1 .. Len(j) : j[i] = a + 1
  <2>1. \E i \in DOMAIN j : j[i] = a + 1
    BY DEF ToSet
  <2>2. DOMAIN j = 1 .. Len(j)
    OBVIOUS
  <2> QED BY <2>1, <2>2
<1>2. Len(j) \in Nat /\ Len(j) > 0
  BY <1>1
<1> PICK n \in Nat : n = Newest(j)
  BY <1>2 DEF Newest
<1>3. CASE i = Len(j)
  BY <1>1, <1>2, <1>3 DEF Newest
<1>4. CASE i < Len(j)
  <2>1. Len(j) \in 1 .. Len(j)
    BY <1>2
  <2>2. j[i] < n
    BY <1>4, <2>1 DEF Rising, Newest
  <2> QED BY <1>1, <2>2
<1> QED BY <1>1, <1>2, <1>3, <1>4

(* The next number keeps a sequence rising, and unbroken if it follows.    *)
LEMMA HandedNext ==
  ASSUME NEW j \in Seq(Nat), NEW a \in Nat, a + 1 \notin ToSet(j),
         NEW k, k = Append(j, a + 1),
         Len(j) > 0 => Newest(j) <= a + 1 /\ Rising(j)
  PROVE  /\ Len(k) > 0 /\ Newest(k) = a + 1 /\ Rising(k)
         /\ (Len(j) > 0 => a <= Newest(j) /\ Unbroken(j)) => Unbroken(k)
<1> PICK len \in Nat : len = Len(j)
  OBVIOUS
<1>1. /\ Len(k) = len + 1 /\ k[len + 1] = a + 1
      /\ \A i \in 1 .. len : k[i] = j[i] /\ j[i] \in Nat
  OBVIOUS
<1>2. Newest(k) = a + 1 /\ Len(k) > 0
  BY <1>1 DEF Newest
<1>3. ASSUME len > 0 PROVE Newest(j) \in Nat /\ Newest(j) <= a
  <2>1. len \in 1 .. len
    BY <1>3
  <2>2. Newest(j) \in Nat /\ Newest(j) # a + 1
    BY <1>1, <2>1 DEF Newest, ToSet
  <2> QED BY <1>3, <2>2
<1>4. \A i \in 1 .. len : j[i] <= a
  <2> SUFFICES ASSUME NEW i \in 1 .. len PROVE j[i] <= a
    OBVIOUS
  <2>1. len > 0 /\ len \in 1 .. len /\ j[i] \in Nat /\ j[len] \in Nat
    BY <1>1
  <2>2. CASE i = len
    BY <1>3, <2>1, <2>2 DEF Newest
  <2>3. CASE i < len
    <3>1. j[i] < j[len]
      BY <2>1, <2>3 DEF Rising
    <3> QED BY <1>3, <2>1, <3>1 DEF Newest
  <2> QED BY <2>2, <2>3
<1>5. Rising(k)
  <2> SUFFICES ASSUME NEW i \in 1 .. len + 1, NEW m \in 1 .. len + 1, i < m PROVE k[i] < k[m]
    BY <1>1 DEF Rising
  <2>1. i \in 1 .. len
    OBVIOUS
  <2>2. CASE m = len + 1
    <3> PICK x \in Nat, y \in Nat : x = j[i] /\ y = a + 1
      BY <1>1, <2>1
    <3>1. k[i] = x /\ k[m] = y
      BY <1>1, <2>1, <2>2
    <3>2. x <= a
      BY <1>4, <2>1
    <3>3. x < y
      BY <3>2
    <3> QED BY <3>1, <3>3
  <2>3. CASE m \in 1 .. len
    <3>1. j[i] < j[m]
      BY <2>1, <2>3 DEF Rising
    <3> QED BY <1>1, <2>1, <2>3, <3>1
  <2> QED BY <2>2, <2>3
<1>6. ASSUME Len(j) > 0 => a <= Newest(j) /\ Unbroken(j), NEW i \in 1 .. len
      PROVE  k[i + 1] = k[i] + 1
  <2>1. len > 0
    OBVIOUS
  <2>2. CASE i = len
    <3>1. j[len] = a
      BY <1>3, <1>6, <2>1 DEF Newest
    <3> QED BY <1>1, <2>2, <3>1
  <2>3. CASE i # len
    <3>1. i \in 1 .. len - 1 /\ i + 1 \in 1 .. len
      BY <2>3
    <3>2. j[i + 1] = j[i] + 1
      BY <1>6, <2>1, <3>1 DEF Unbroken
    <3> QED BY <1>1, <3>1, <3>2
  <2> QED BY <2>2, <2>3
<1>7. 1 .. Len(k) - 1 = 1 .. len
  BY <1>1
<1> QED BY <1>2, <1>5, <1>6, <1>7 DEF Unbroken

(* An event goes behind those the journal has; the others have what they   *)
(* had.                                                                    *)
LEMMA OneHanded ==
  ASSUME TraceTypes, TraceInv, GotInv, NEW e \in Emitter, NEW new, e \in Served,
         emitter[e].at \in {"replay", "deliver"}, ~emitter[e].reset, Deliver0(e),
         NextToHand <= sidecar.high,
         emitter' = [emitter EXCEPT ![e] = new],
         new.at \in {"replay", "append", "idle"}, ~new.reset, new.doing = emitter[e].doing
  PROVE  GotInv'
<1>1. sidecar # Nothing0 /\ sidecar \in Sidecar
  BY DEF TraceInv, TailInv, TraceTypes
<1> PICK acked \in Nat, high \in Nat : acked = sidecar.cursor /\ high = sidecar.high
  BY <1>1 DEF Sidecar
<1>2. sidecar' \in {sidecar, [sidecar EXCEPT !.cursor = acked + 1]}
  BY DEF Deliver0, NextToHand, Write, WriteFails
<1>3. /\ sidecar' # Nothing0 /\ sidecar'.high = high
      /\ sidecar'.cursor \in {acked, acked + 1}
  <2> PICK next \in Nat : next = acked + 1
    OBVIOUS
  <2>1. CASE sidecar' = [sidecar EXCEPT !.cursor = next]
    <3>1. sidecar' \in Sidecar /\ sidecar'.high = high /\ sidecar'.cursor = next
      BY <1>1, <2>1 DEF Sidecar
    <3> QED BY <3>1, NoSidecar
  <2> QED BY <1>1, <1>2, <2>1
<1>4. acked + 1 <= high
  BY DEF NextToHand
<1> PICK j \in Seq(Nat) : j = got[e]
  BY DEF GotInv
<1> PICK k : k = IF acked + 1 \in ToSet(j) THEN j ELSE Append(j, acked + 1)
  OBVIOUS
<1>5. got' = [got EXCEPT ![e] = k]
  BY DEF Deliver0, NextToHand
<1>6. k \in Seq(Nat)
  BY AppendProperties, acked + 1 \in Nat
<1>7. \A f \in Emitter : got'[f] = IF f = e THEN k ELSE got[f]
  BY <1>5 DEF GotInv
<1>8. got' \in [Emitter -> Seq(Nat)]
  BY <1>5, <1>6 DEF GotInv
<1>9. BlankInv'
  <2>1. \A f \in Emitter : emitter'[f] = IF f = e THEN new ELSE emitter[f]
    BY DEF TraceTypes
  <2>2. emitter[e].doing # "open"
    BY DEF GotInv, BlankInv
  <2> QED BY <1>7, <2>1, <2>2 DEF GotInv, BlankInv, Blank
<1>10. ASSUME Len(j) > 0
       PROVE  /\ Newest(j) <= acked + 1 /\ 1 <= Newest(j) /\ Rising(j)
              /\ Served = {e} => acked <= Newest(j) /\ Unbroken(j)
  BY <1>10 DEF GotInv, HandInv
<1>11. Len(k) > 0 /\ Newest(k) = acked + 1 /\ Rising(k) /\ (Served = {e} => Unbroken(k))
  <2>1. CASE acked + 1 \in ToSet(j)
    BY <1>10, <2>1, HandedAgain
  <2>2. CASE acked + 1 \notin ToSet(j)
    <3>1. k = Append(j, acked + 1)
      BY <2>2
    <3> QED BY <1>10, <2>2, <3>1, HandedNext
  <2> QED BY <2>1, <2>2
<1>12. HandInv'
  <2> SUFFICES ASSUME NEW f \in Emitter, Len(got'[f]) > 0
               PROVE  /\ sidecar' # Nothing0
                      /\ Newest(got'[f]) <= sidecar'.cursor + 1 /\ Newest(got'[f]) <= sidecar'.high
                      /\ 1 <= Newest(got'[f]) /\ Rising(got'[f])
                      /\ Served = {f} => sidecar'.cursor <= Newest(got'[f]) /\ Unbroken(got'[f])
    BY DEF HandInv, Newest, Rising, Unbroken
  <2>1. CASE f = e
    <3>1. got'[f] = k
      BY <1>7, <2>1
    <3> QED BY <1>3, <1>4, <1>11, <2>1, <3>1
  <2>2. CASE f # e
    <3>1. got'[f] = got[f]
      BY <1>7, <2>2
    <3> PICK n : n = Newest(got[f])
      OBVIOUS
    <3>2. n \in Nat
      BY <3>1 DEF GotInv, Newest
    <3>3. n <= acked + 1 /\ n <= high /\ 1 <= n /\ Rising(got[f])
      BY <3>1 DEF GotInv, HandInv
    <3>4. Served # {f}
      BY <2>2
    <3> QED BY <1>3, <3>1, <3>2, <3>3, <3>4
  <2> QED BY <2>1, <2>2
<1> QED BY <1>8, <1>9, <1>12 DEF GotInv

LEMMA EmitterHands ==
  ASSUME TraceTypes, TraceInv, GotInv, NEW e \in Emitter, EmitterStep(e)
  PROVE  GotInv'
<1>1. emitter[e] \in Working \cup {Off}
  BY DEF TraceTypes
<1>2. CASE Open(e)
  <2> PICK floor : emitter' = [emitter EXCEPT ![e] =
                     [at |-> "waiting", doing |-> "open", session |-> pointer',
                      reset |-> sidecar = Nothing0 /\ pointer = Nothing0, floor |-> floor]]
    BY <1>2 DEF Open, Becomes0
  <2> PICK new : new = [at |-> "waiting", doing |-> "open", session |-> pointer',
                        reset |-> sidecar = Nothing0 /\ pointer = Nothing0, floor |-> floor]
    OBVIOUS
  <2>1. got' = [got EXCEPT ![e] = <<>>] /\ sidecar' = sidecar
    BY <1>2 DEF Open
  <2>2. got[e] = <<>>
    BY <1>2 DEF Open, GotInv, BlankInv, Blank
  <2>3. got' = got
    BY <2>1, <2>2 DEF GotInv
  <2>4. Blank(emitter[e]) /\ new.at = "waiting"
    BY <1>2 DEF Open, Blank
  <2> QED BY <2>1, <2>3, <2>4, SameSidecar, NothingHanded
<1>3. CASE BeginEmit(e)
  <2>1. emitter[e].at = "idle" /\ emitter[e] \in Working
    BY <1>1, <1>3 DEF BeginEmit, Off
  <2>2. PICK doing \in {"emit", "replay"} :
          emitter' = [emitter EXCEPT ![e] = [emitter[e] EXCEPT !.at = "waiting", !.doing = doing]]
    BY <1>3 DEF BeginEmit, Becomes0
  <2> PICK new : new = [emitter[e] EXCEPT !.at = "waiting", !.doing = doing]
    OBVIOUS
  <2>3. new.at = "waiting" /\ new.doing = doing /\ new.reset = emitter[e].reset
    BY <2>1 DEF Working
  <2>4. got' = got /\ sidecar' = sidecar
    BY <1>3 DEF BeginEmit, logs
  <2> QED BY <2>2, <2>3, <2>4, SameSidecar, NothingHanded DEF Blank
<1>4. CASE TakeTraceLock(e)
  <2>1. emitter[e].at = "waiting" /\ emitter[e] \in Working
    BY <1>1, <1>4 DEF TakeTraceLock, Off
  <2> PICK new : new = [emitter[e] EXCEPT !.at = "recover"]
    OBVIOUS
  <2>2. /\ new.at = "recover" /\ new.doing = emitter[e].doing /\ new.reset = emitter[e].reset
        /\ emitter' = [emitter EXCEPT ![e] = new]
    BY <1>4, <2>1 DEF Working, TakeTraceLock, At
  <2>3. got' = got /\ sidecar' = sidecar
    BY <1>4 DEF TakeTraceLock, logs
  <2> QED BY <2>2, <2>3, SameSidecar, NothingHanded DEF Blank
<1>5. CASE Recover0(e)
  <2>1. /\ emitter[e].at = "recover" /\ got' = got
        /\ Continues(Known0(e), Uncounted(e, Known0(e))) /\ sidecar' \in {sidecar, Recovered(e)}
    BY <1>5 DEF Recover0, Write
  <2>2. emitter[e] \in Working
    BY <1>1, <2>1 DEF Off
  <2> PICK new : new = AfterRecovery(e)
    OBVIOUS
  <2>3. emitter' = [emitter EXCEPT ![e] = new]
    BY <1>5 DEF Recover0, Becomes0
  <2>4. /\ new.reset = emitter[e].reset /\ new.at # "off"
        /\ new.doing = "open" => emitter[e].doing = "open"
        /\ new.at \in {"replay", "append", "count", "deliver"} => new.doing # "open"
        /\ new.at = "replay" => e \in Served
    <3>1. CASE emitter[e].doing = "open" /\ emitter[e].reset
      BY <2>2, <3>1 DEF AfterRecovery, Working
    <3>2. CASE emitter[e].doing = "open" /\ ~emitter[e].reset
      BY <2>2, <3>2 DEF AfterRecovery, Working
    <3>3. CASE emitter[e].doing # "open"
      <4>1. PICK point \in {"replay", "append"} :
              new = [emitter[e] EXCEPT !.at = point] /\ (point = "replay" => e \in Served)
        BY <3>3 DEF AfterRecovery
      <4> QED BY <2>2, <3>3, <4>1 DEF Working
    <3> QED BY <3>1, <3>2, <3>3
  <2>5. CursorStands
    BY <2>1, RecoveryStands
  <2> QED BY <2>1, <2>3, <2>4, <2>5, NothingHanded DEF Blank
<1>6. CASE RecoveryRaises(e)
  <2>1. emitter[e].at = "recover" /\ got' = got /\ Raise(e)
    BY <1>6 DEF RecoveryRaises
  <2>2. CursorStands
    <3>1. CASE sidecar' = sidecar
      BY <3>1, SameSidecar
    <3>2. CASE sidecar' # sidecar
      BY <1>6, <2>1, <3>2, RecoveryStands DEF RecoveryRaises, WriteFails
    <3> QED BY <3>1, <3>2
  <2>3. emitter[e] \in Working
    BY <1>1, <2>1 DEF Off
  <2>4. CASE emitter[e].doing = "open" \/ emitter[e].reset
    <3>1. emitter' = [emitter EXCEPT ![e] = Off] /\ Blank(emitter[e])
      BY <2>1, <2>4 DEF Raise, Becomes0, Blank
    <3> QED BY <2>1, <2>2, <3>1, NothingHanded DEF Off
  <2>5. CASE ~(emitter[e].doing = "open" \/ emitter[e].reset)
    <3> PICK new : new = [emitter[e] EXCEPT !.at = "idle"]
      OBVIOUS
    <3>1. emitter' = [emitter EXCEPT ![e] = new]
      BY <2>1, <2>5 DEF Raise, Becomes0
    <3>2. new.at = "idle" /\ new.doing = emitter[e].doing /\ new.reset = emitter[e].reset
      BY <2>3 DEF Working
    <3> QED BY <2>1, <2>2, <3>1, <3>2, NothingHanded DEF Blank
  <2> QED BY <2>4, <2>5
<1>7. CASE Replay0(e)
  <2>1. emitter[e].at = "replay" /\ sidecar.cursor < sidecar.high /\ Deliver0(e)
    BY <1>7 DEF Replay0
  <2>2. emitter[e] \in Working /\ ~emitter[e].reset
    BY <1>1, <2>1 DEF Off, TraceInv, FloorInv
  <2>3. PICK point \in {"replay", "append", "idle"} :
          emitter' = [emitter EXCEPT ![e] = [emitter[e] EXCEPT !.at = point]]
    <3>1. CASE UNCHANGED emitter
      <4>1. [emitter EXCEPT ![e] = [emitter[e] EXCEPT !.at = "replay"]] = emitter
        BY <2>1, <2>2 DEF TraceTypes, Working
      <4> QED BY <3>1, <4>1
    <3>2. CASE At(e, "append") \/ At(e, "idle")
      BY <3>2 DEF At
    <3> QED BY <1>7, <3>1, <3>2 DEF Replay0
  <2> PICK new : new = [emitter[e] EXCEPT !.at = point]
    OBVIOUS
  <2>4. new.at = point /\ new.doing = emitter[e].doing /\ ~new.reset
    BY <2>2 DEF Working
  <2>5. NextToHand <= sidecar.high /\ e \in Served
    <3>1. sidecar \in Sidecar
      BY <2>1 DEF TraceInv, TailInv, TraceTypes
    <3>2. e \in Served
      BY <2>1 DEF GotInv, BlankInv
    <3> QED BY <2>1, <3>1, <3>2 DEF Sidecar, NextToHand
  <2> QED BY <2>1, <2>2, <2>3, <2>4, <2>5, OneHanded
<1>8. CASE EndReplay(e)
  <2>1. emitter[e].at = "replay" /\ got' = got /\ sidecar' = sidecar
    BY <1>8 DEF EndReplay, logs
  <2>2. emitter[e] \in Working /\ emitter[e].doing # "open"
    BY <1>1, <2>1 DEF Off, GotInv, BlankInv
  <2>3. PICK point \in {"append", "idle"} :
          emitter' = [emitter EXCEPT ![e] = [emitter[e] EXCEPT !.at = point]]
    BY <1>8 DEF EndReplay, At
  <2> PICK new : new = [emitter[e] EXCEPT !.at = point]
    OBVIOUS
  <2>4. new.at = point /\ new.doing = emitter[e].doing /\ new.reset = emitter[e].reset
    BY <2>2 DEF Working
  <2> QED BY <2>1, <2>2, <2>3, <2>4, SameSidecar, NothingHanded DEF Blank
<1>9. CASE AppendRecord(e)
  <2>1. emitter[e].at = "append" /\ got' = got /\ sidecar' = sidecar
    BY <1>9 DEF AppendRecord
  <2>2. emitter[e] \in Working /\ emitter[e].doing # "open"
    BY <1>1, <2>1 DEF Off, GotInv, BlankInv
  <2> PICK new : new = [emitter[e] EXCEPT !.at = "count"]
    OBVIOUS
  <2>3. /\ new.at = "count" /\ new.doing = emitter[e].doing /\ new.reset = emitter[e].reset
        /\ emitter' = [emitter EXCEPT ![e] = new]
    BY <1>9, <2>2 DEF Working, AppendRecord, At
  <2> QED BY <2>1, <2>2, <2>3, SameSidecar, NothingHanded DEF Blank
<1>10. CASE CountRecord(e)
  <2>1. emitter[e].at = "count" /\ got' = got /\ sidecar' = CountedRecord(e)
    BY <1>10 DEF CountRecord, Write
  <2>2. emitter[e] \in Working /\ emitter[e].doing # "open"
    BY <1>1, <2>1 DEF Off, GotInv, BlankInv
  <2> PICK floor : floor = Base(e).high + 1
    OBVIOUS
  <2> PICK new : new = [emitter[e] EXCEPT !.at = "deliver", !.floor = floor]
    OBVIOUS
  <2>3. /\ new.at = "deliver" /\ new.doing = emitter[e].doing /\ new.reset = emitter[e].reset
        /\ emitter' = [emitter EXCEPT ![e] = new]
    BY <1>10, <2>2 DEF Working, CountRecord, Becomes0
  <2>4. CursorStands
    BY <2>1, CountingStands
  <2> QED BY <2>1, <2>2, <2>3, <2>4, NothingHanded DEF Blank
<1>11. CASE CountRaises(e)
  <2>1. emitter[e].at = "count" /\ got' = got /\ Raise(e) /\ sidecar' \in {sidecar, CountedRecord(e)}
    BY <1>11 DEF CountRaises, WriteFails
  <2>2. emitter[e] \in Working
    BY <1>1, <2>1 DEF Off
  <2>3. CursorStands
    BY <2>1, CountingStands
  <2>4. CASE emitter[e].doing = "open" \/ emitter[e].reset
    <3>1. emitter' = [emitter EXCEPT ![e] = Off] /\ Blank(emitter[e])
      BY <2>1, <2>4 DEF Raise, Becomes0, Blank
    <3> QED BY <2>1, <2>3, <3>1, NothingHanded DEF Off
  <2>5. CASE ~(emitter[e].doing = "open" \/ emitter[e].reset)
    <3> PICK new : new = [emitter[e] EXCEPT !.at = "idle"]
      OBVIOUS
    <3>1. emitter' = [emitter EXCEPT ![e] = new]
      BY <2>1, <2>5 DEF Raise, Becomes0
    <3>2. new.at = "idle" /\ new.doing = emitter[e].doing /\ new.reset = emitter[e].reset
      BY <2>2 DEF Working
    <3> QED BY <2>1, <2>3, <3>1, <3>2, NothingHanded DEF Blank
  <2> QED BY <2>4, <2>5
<1>12. CASE FinishEmit(e)
  <2>1. emitter[e].at = "deliver"
    BY <1>12 DEF FinishEmit
  <2>2. emitter[e] \in Working /\ emitter[e].doing # "open"
    BY <1>1, <2>1 DEF Off, GotInv, BlankInv
  <2> PICK new : new = [emitter[e] EXCEPT !.at = "idle", !.reset = FALSE]
    OBVIOUS
  <2>3. /\ new.at = "idle" /\ new.doing = emitter[e].doing /\ ~new.reset
        /\ emitter' = [emitter EXCEPT ![e] = new]
    BY <1>12, <2>2 DEF Working, FinishEmit, Becomes0
  <2>4. CASE e \in Served /\ ~emitter[e].reset /\ NextToHand = sidecar.high
    <3>1. NextToHand <= sidecar.high /\ Deliver0(e)
      <4>1. sidecar \in Sidecar
        BY <2>1 DEF TraceInv, TailInv, TraceTypes
      <4> QED BY <1>12, <2>4, <4>1 DEF Sidecar, NextToHand, FinishEmit
    <3> QED BY <2>1, <2>3, <2>4, <3>1, OneHanded
  <2>5. CASE ~(e \in Served /\ ~emitter[e].reset /\ NextToHand = sidecar.high)
    <3>1. got' = got /\ sidecar' = sidecar
      BY <1>12, <2>5 DEF FinishEmit
    <3> QED BY <2>2, <2>3, <3>1, SameSidecar, NothingHanded DEF Blank
  <2> QED BY <2>4, <2>5
<1>13. CASE EmitterDies(e)
  <2>1. got' = [got EXCEPT ![e] = <<>>] /\ sidecar' = sidecar /\ emitter' = [emitter EXCEPT ![e] = Off]
    BY <1>13 DEF EmitterDies, logs, Becomes0
  <2>2. /\ got' \in [Emitter -> Seq(Nat)]
        /\ \A f \in Emitter : got'[f] = IF f = e THEN <<>> ELSE got[f]
    BY <2>1 DEF GotInv
  <2>3. \A f \in Emitter : emitter'[f] = IF f = e THEN Off ELSE emitter[f]
    BY <2>1 DEF TraceTypes
  <2>4. BlankInv'
    <3> SUFFICES ASSUME NEW f \in Emitter
                 PROVE  /\ Blank(emitter'[f]) => got'[f] = <<>>
                        /\ emitter'[f].at \in {"replay", "append", "count", "deliver"} =>
                             emitter'[f].doing # "open"
                        /\ emitter'[f].at = "replay" => f \in Served
      BY DEF BlankInv, Blank
    <3>1. CASE f = e
      BY <2>2, <2>3, <3>1 DEF Off
    <3>2. CASE f # e
      <4>1. emitter'[f] = emitter[f] /\ got'[f] = got[f]
        BY <2>2, <2>3, <3>2
      <4> QED BY <4>1 DEF GotInv, BlankInv
    <3> QED BY <3>1, <3>2
  <2>5. HandInv'
    BY <2>1, <2>2 DEF GotInv, HandInv
  <2> QED BY <2>2, <2>4, <2>5 DEF GotInv
<1> QED BY <1>2, <1>3, <1>4, <1>5, <1>6, <1>7, <1>8, <1>9, <1>10, <1>11, <1>12, <1>13 DEF EmitterStep

LEMMA GotInductive == TraceSpec => []GotInv
<1>1. TraceInit => GotInv
  BY DEF TraceInit, GotInv, BlankInv, HandInv, Off
<1>2. ASSUME TraceTypes, TraceInv, GotInv, [TraceNext]_traceVars PROVE GotInv'
  <2>1. ASSUME NEW e \in Emitter, EmitterStep(e) PROVE GotInv'
    BY <1>2, <2>1, EmitterHands
  <2>2. CASE FinishSession
    BY <1>2, <2>2 DEF FinishSession, GotInv, BlankInv, HandInv
  <2>3. CASE DeleteLogs
    <3>1. \A e \in Emitter : got[e] = <<>>
      BY <1>2, <2>3 DEF DeleteLogs, GotInv, BlankInv, Blank
    <3> QED BY <1>2, <2>3, <3>1 DEF DeleteLogs, GotInv, BlankInv, HandInv
  <2>4. CASE UNCHANGED traceVars
    BY <1>2, <2>4 DEF traceVars, logs, GotInv, BlankInv, HandInv
  <2> QED BY <1>2, <2>1, <2>2, <2>3, <2>4 DEF TraceNext
<1> QED BY <1>1, <1>2, TraceInductive, PTL DEF TraceSpec

(* A sequence number of an authority event names one event, and every      *)
(* record that was appended is counted or can be (emit,                    *)
(* _recover_unindexed_range_locked, _load_last_good_floor); a service      *)
(* records the events in order (_deliver).                                 *)
THEOREM NumbersAreKept == TraceSpec => []NumbersContinue
<1>1. ASSUME TraceTypes, TraceInv, GotInv PROVE NumbersContinue
  <2>1. SequenceOnce
    <3>1. DOMAIN counted = 1 .. MaxEmits
      BY <1>1 DEF TraceTypes
    <3> QED BY <1>1, <3>1 DEF SequenceOnce, TraceInv, NumbersInv
  <2>2. TraceContinues
    <3> SUFFICES ASSUME sidecar # Nothing0, ~lapsed PROVE TraceContinues
      BY DEF TraceContinues
    <3>1. NumbersInv /\ sidecar \in Sidecar
      BY <1>1 DEF TraceInv, TraceTypes
    <3> PICK active \in Session, tail \in Nat, high \in Nat :
           active = sidecar.active /\ tail = sidecar.tail /\ high = sidecar.high
      BY <3>1 DEF Sidecar
    <3> PICK s \in Seq(Nat) : s = trace[active]
      BY <1>1 DEF TraceTypes
    <3> PICK first : first = IF high = 0 /\ lost > 0 THEN lost ELSE high
      OBVIOUS
    <3>2. first = Top
      BY <1>1 DEF Top, TraceTypes
    <3> PICK records : records = SubSeq(s, tail + 1, Len(s))
      OBVIOUS
    <3>3. \A i \in DOMAIN records : records[i] = first + i
      <4>1. Behinds(records, s, tail)
        BY DEF Behinds
      <4>2. Len(s) = tail \/ Len(s) = tail + 1
        BY <1>1 DEF TraceInv, TailInv
      <4>3. CASE Len(s) = tail
        <5>1. records = <<>>
          BY <4>1, <4>3, RecordBehind
        <5>2. DOMAIN <<>> = {}
          OBVIOUS
        <5> QED BY <5>1, <5>2
      <4>4. CASE Len(s) = tail + 1
        <5>1. records \in Seq(Nat) /\ Len(records) = 1 /\ records[1] = s[tail + 1]
          BY <4>1, <4>4, RecordBehind
        <5>2. Behind = 1
          BY <4>4 DEF Behind
        <5>3. s[tail + 1] = Top + 1
          BY <3>1, <5>2 DEF NumbersInv
        <5>4. \A i \in DOMAIN records : i = 1
          <6>1. DOMAIN records = 1 .. Len(records)
            BY <5>1
          <6>2. DOMAIN records = 1 .. 1
            BY <5>1, <6>1
          <6>3. \A i \in 1 .. 1 : i = 1
            OBVIOUS
          <6> QED BY <6>2, <6>3
        <5> QED BY <3>2, <5>1, <5>3, <5>4
      <4> QED BY <4>2, <4>3, <4>4
    <3>4. \A t \in Session : t # active => \A i \in DOMAIN trace[t] : trace[t][i] <= high
      <4>1. \A t \in Session : DOMAIN trace[t] = 1 .. Len(trace[t])
        BY <1>1 DEF TraceTypes
      <4> QED BY <3>1, <4>1 DEF NumbersInv
    <3> QED BY <3>3, <3>4 DEF TraceContinues
  <2>3. HandedInOrder
    <3> SUFFICES ASSUME NEW e \in Emitter, got[e] # <<>>
                 PROVE  /\ sidecar # Nothing0 /\ Last(got[e]) <= sidecar.cursor + 1
                        /\ \A i, j \in DOMAIN got[e] : i < j => got[e][i] < got[e][j]
                        /\ Served = {e} =>
                             /\ sidecar.cursor <= Last(got[e])
                             /\ \A i \in 1 .. Len(got[e]) - 1 : got[e][i + 1] = got[e][i] + 1
      BY DEF HandedInOrder
    <3> PICK j \in Seq(Nat) : j = got[e]
      BY <1>1 DEF GotInv
    <3>1. Len(j) > 0 /\ DOMAIN j = 1 .. Len(j)
      <4>1. Len(j) # 0
        BY EmptySeq
      <4> QED BY <4>1
    <3>2. Last(j) = Newest(j)
      BY DEF Last, Newest
    <3>3. /\ sidecar # Nothing0 /\ Newest(j) <= sidecar.cursor + 1 /\ Rising(j)
          /\ Served = {e} => sidecar.cursor <= Newest(j) /\ Unbroken(j)
      BY <1>1, <3>1 DEF GotInv, HandInv
    <3> QED BY <3>1, <3>2, <3>3 DEF Rising, Unbroken
  <2> QED BY <2>1, <2>2, <2>3 DEF NumbersContinue
<1> QED BY <1>1, TraceInductive, GotInductive, PTL

------------------------------------------------------------------------------
(* The index of the sources and its cache. *)


(* Facts are those of a text, in the schema of some version. *)
FactsFrom(facts, t) ==
    /\ DOMAIN facts \subseteq FactKind
    /\ \A k \in DOMAIN facts : \E v \in Release : facts[k] = Fact(t, v, k)

(* What one store wrote: facts of the text it names, which parses. *)
StoredFacts(e) ==
    /\ \E t \in Text : t.parses /\ e.of = t.id /\ FactsFrom(e.facts, t)
    /\ e = [of |-> e.of, imports |-> e.imports, facts |-> e.facts]

EntryOk(e) == e \in {Empty, TornEntry} \/ StoredFacts(e)

CacheInv == \A f \in SourceFile : EntryOk(entries[f]) /\ EntryOk(temps[f])

Extracted(facts, t, v) ==
    /\ DOMAIN facts \subseteq FactKind /\ Raising \subseteq DOMAIN facts
    /\ \A k \in DOMAIN facts : facts[k] = Fact(t, v, k)

Steps == {"read", "store", "write", "replace", "deliver"}

TaskTyped(task) ==
    /\ task.at \in Steps /\ task.file \in SourceFile /\ task.text \in Text
    /\ task.version \in Release /\ task.orphan \in BOOLEAN /\ task.failed \in BOOLEAN
    /\ {"at", "file", "text", "version", "orphan", "failed", "facts"} \subseteq DOMAIN task

TaskOk(task) ==
    /\ task.at = "deliver" /\ ~task.failed =>
         task.text.parses /\ Extracted(task.facts, task.text, task.version)
    /\ task.at \in {"store", "write", "replace"} =>
         /\ task.text.parses /\ Extracted(task.facts, task.text, task.version)
         /\ ~task.failed /\ {"put", "handle"} \subseteq DOMAIN task /\ StoredFacts(task.put)

CrewInv ==
    /\ DOMAIN crew = IndexWorker
    /\ \A w \in IndexWorker : crew[w] = NoTask \/ (TaskTyped(crew[w]) /\ TaskOk(crew[w]))

Mine(w) == crew[w] # NoTask /\ ~crew[w].orphan

(* The tasks of the index that runs. *)
TasksInv ==
    /\ \A w \in IndexWorker : Mine(w) =>
         /\ indexing.at = "open" /\ crew[w].version = indexing.version
         /\ crew[w].file \in indexing.running /\ crew[w].text \in during[crew[w].file]
    /\ \A w, x \in IndexWorker : Mine(w) /\ Mine(x) /\ w # x => crew[w].file # crew[x].file

ModuleOk(f, module, v) ==
    /\ module.text \in Text /\ module.text \in during[f] /\ module.text.parses
    /\ Extracted(module.facts, module.text, v)

OpenIndex == {"at", "version", "left", "running", "modules", "skipped", "kept", "refused"}
EndedIndex == {"at", "version", "modules", "skipped", "typeOnly", "cohort"}

RunningInv ==
    indexing.at = "open" =>
        /\ DOMAIN indexing = OpenIndex /\ indexing.version \in Release
        /\ indexing.left \cup indexing.running \cup indexing.skipped \cup DOMAIN indexing.modules
             = SourceFile \ Excluded
        /\ indexing.left \cap (indexing.running \cup DOMAIN indexing.modules) = {}
        /\ indexing.running \cap DOMAIN indexing.modules = {}
        /\ \A f \in DOMAIN indexing.modules : ModuleOk(f, indexing.modules[f], indexing.version)
        /\ DOMAIN indexing.kept \subseteq Selected \cap DOMAIN indexing.modules
        /\ \A f \in DOMAIN indexing.kept : indexing.kept[f] = indexing.modules[f].text

EndedInv ==
    indexing.at = "ended" =>
        /\ DOMAIN indexing.modules \subseteq SourceFile
        /\ \A f \in DOMAIN indexing.modules : ModuleOk(f, indexing.modules[f], indexing.version)
        /\ IndexProves

IndexInv ==
    /\ text \in [SourceFile -> Text] /\ during \in [SourceFile -> SUBSET Text]
    /\ \A f \in SourceFile : text[f] \in during[f]
    /\ indexing.at \in {"none", "open", "ended"}
    /\ DOMAIN entries = SourceFile /\ DOMAIN temps = SourceFile
    /\ CacheInv /\ CrewInv /\ TasksInv /\ RunningInv /\ EndedInv

SameTask(new, old) ==
    /\ new.file = old.file /\ new.text = old.text
    /\ new.version = old.version /\ new.orphan = old.orphan

(* What workers do to their tasks and to the cache leaves the index alone. *)
LEMMA WorkersKeep ==
  ASSUME IndexInv, UNCHANGED <<text, during, indexing>>,
         DOMAIN entries' = SourceFile, DOMAIN temps' = SourceFile, CacheInv',
         DOMAIN crew' = IndexWorker,
         \A x \in IndexWorker :
            \/ crew'[x] = crew[x]
            \/ /\ crew[x] # NoTask /\ TaskTyped(crew'[x]) /\ TaskOk(crew'[x])
               /\ SameTask(crew'[x], crew[x])
  PROVE  IndexInv'
<1>1. CrewInv'
  BY DEF IndexInv, CrewInv
<1>2. \A x \in IndexWorker : Mine(x)' => Mine(x) /\ SameTask(crew'[x], crew[x])
  BY DEF Mine, SameTask
<1>3. TasksInv'
  <2>1. \A w \in IndexWorker : Mine(w)' =>
         /\ indexing.at = "open" /\ crew'[w].version = indexing.version
         /\ crew'[w].file \in indexing.running /\ crew'[w].text \in during[crew'[w].file]
    BY <1>2 DEF IndexInv, TasksInv, SameTask
  <2>2. \A w, x \in IndexWorker : Mine(w)' /\ Mine(x)' /\ w # x => crew'[w].file # crew'[x].file
    BY <1>2 DEF IndexInv, TasksInv, SameTask
  <2> QED BY <2>1, <2>2 DEF TasksInv, Mine
<1>4. RunningInv' /\ EndedInv'
  BY DEF IndexInv, RunningInv, EndedInv, ModuleOk, IndexProves
<1> QED BY <1>1, <1>3, <1>4 DEF IndexInv

LEMMA WorkerKeeps ==
  ASSUME IndexInv, NEW w \in IndexWorker, crew[w] # NoTask, NEW new,
         crew' = [crew EXCEPT ![w] = new], TaskTyped(new), TaskOk(new), SameTask(new, crew[w]),
         UNCHANGED <<text, during, indexing>>,
         DOMAIN entries' = SourceFile, DOMAIN temps' = SourceFile, CacheInv'
  PROVE  IndexInv'
<1>1. DOMAIN crew' = IndexWorker /\ \A x \in IndexWorker : crew'[x] = IF x = w THEN new ELSE crew[x]
  BY DEF IndexInv, CrewInv
<1> QED BY <1>1, WorkersKeep

(* A task, while its worker has it. *)
LEMMA TaskIs ==
  ASSUME IndexInv, NEW w \in IndexWorker, crew[w].at \in Steps
  PROVE  crew[w] # NoTask /\ TaskTyped(crew[w]) /\ TaskOk(crew[w])
  BY DEF IndexInv, CrewInv, NoTask, Steps

LEMMA SameCache == ASSUME IndexInv, UNCHANGED <<entries, temps>>
                   PROVE  CacheInv' /\ DOMAIN entries' = SourceFile /\ DOMAIN temps' = SourceFile
  BY DEF IndexInv, CacheInv

LEMMA InitIndex == IndexInit => IndexInv
<1> SUFFICES ASSUME IndexInit PROVE IndexInv
  OBVIOUS
<1>1. /\ text \in [SourceFile -> Text] /\ during \in [SourceFile -> SUBSET Text]
      /\ \A f \in SourceFile : text[f] \in during[f]
  BY DEF IndexInit
<1>2. \A w \in IndexWorker : crew[w] = NoTask
  BY DEF IndexInit
<1>3. CacheInv /\ DOMAIN entries = SourceFile /\ DOMAIN temps = SourceFile
  BY DEF IndexInit, CacheInv, EntryOk
<1>4. CrewInv /\ TasksInv
  BY <1>2 DEF IndexInit, CrewInv, TasksInv, Mine
<1>5. indexing.at = "none"
  BY DEF IndexInit, NoIndex
<1> QED BY <1>1, <1>3, <1>4, <1>5 DEF IndexInv, RunningInv, EndedInv

LEMMA EditKeeps == \A f \in SourceFile : IndexInv /\ Edit(f) => IndexInv'
<1> SUFFICES ASSUME NEW f \in SourceFile, IndexInv, Edit(f) PROVE IndexInv'
  OBVIOUS
<1>1. PICK t \in Text : /\ text' = [text EXCEPT ![f] = t]
                        /\ during' = [during EXCEPT ![f] = during[f] \cup {t}]
  BY DEF Edit
<1>2. UNCHANGED <<entries, temps, indexing, crew>>
  BY DEF Edit
<1>3. /\ text' \in [SourceFile -> Text] /\ during' \in [SourceFile -> SUBSET Text]
      /\ \A g \in SourceFile : text'[g] \in during'[g]
      /\ \A g \in SourceFile : during[g] \subseteq during'[g]
  BY <1>1 DEF IndexInv
<1>4. CacheInv' /\ CrewInv'
  BY <1>2 DEF IndexInv, CacheInv, CrewInv
<1>5. TasksInv'
  <2>1. \A w \in IndexWorker : Mine(w) => crew[w].file \in SourceFile
    BY DEF Mine, IndexInv, CrewInv, TaskTyped
  <2> QED BY <1>2, <1>3, <2>1 DEF IndexInv, TasksInv, Mine
<1>6. \A g \in SourceFile : \A module, v : ModuleOk(g, module, v) => ModuleOk(g, module, v)'
  BY <1>3 DEF ModuleOk
<1>7. indexing.at \in {"open", "ended"} => DOMAIN indexing.modules \subseteq SourceFile
  BY DEF IndexInv, RunningInv, EndedInv
<1>8. RunningInv' /\ EndedInv'
  BY <1>2, <1>6, <1>7 DEF IndexInv, RunningInv, EndedInv, IndexProves
<1> QED BY <1>2, <1>3, <1>4, <1>5, <1>8 DEF IndexInv

(* Steps of a worker within its task. *)
LEMMA ReadFailsKeeps == \A w \in IndexWorker : IndexInv /\ ReadFails(w) => IndexInv'
<1> SUFFICES ASSUME NEW w \in IndexWorker, IndexInv, ReadFails(w) PROVE IndexInv'
  OBVIOUS
<1> PICK task : task = crew[w]
  OBVIOUS
<1>1. task # NoTask /\ TaskTyped(task) /\ TaskOk(task)
  BY TaskIs DEF ReadFails, Step, Steps
<1> PICK new : new = [task EXCEPT !.at = "deliver", !.failed = TRUE]
  OBVIOUS
<1>2. crew' = [crew EXCEPT ![w] = new]
  BY DEF ReadFails
<1>3. TaskTyped(new) /\ SameTask(new, task) /\ new.failed /\ new.at = "deliver"
  BY <1>1 DEF TaskTyped, SameTask, Steps
<1>4. UNCHANGED <<text, during, entries, temps, indexing>>
  BY DEF ReadFails
<1> QED BY <1>1, <1>2, <1>3, <1>4, WorkerKeeps, SameCache DEF TaskOk

LEMMA ParseFailsKeeps == \A w \in IndexWorker : IndexInv /\ ParseFails(w) => IndexInv'
<1> SUFFICES ASSUME NEW w \in IndexWorker, IndexInv, ParseFails(w) PROVE IndexInv'
  OBVIOUS
<1> PICK task : task = crew[w]
  OBVIOUS
<1>1. task # NoTask /\ TaskTyped(task) /\ TaskOk(task)
  BY TaskIs DEF ParseFails, Step, Steps
<1> PICK new : new = [task EXCEPT !.at = "deliver", !.failed = TRUE]
  OBVIOUS
<1>2. crew' = [crew EXCEPT ![w] = new]
  BY DEF ParseFails
<1>3. TaskTyped(new) /\ SameTask(new, task) /\ new.failed /\ new.at = "deliver"
  BY <1>1 DEF TaskTyped, SameTask, Steps
<1>4. UNCHANGED <<text, during, entries, temps, indexing>>
  BY DEF ParseFails
<1> QED BY <1>1, <1>2, <1>3, <1>4, WorkerKeeps, SameCache DEF TaskOk

(* An entry that can be used is of a text that parses, and its facts in the *)
(* schema of this version are the facts of this version.                   *)
LEMMA UsableIs ==
  ASSUME NEW entry, EntryOk(entry), NEW t \in Text, NEW v \in Release, Usable(entry, t, v)
  PROVE  t.parses /\ FactsFrom(entry.facts, t)
<1>1. entry \notin {Empty, TornEntry}
  BY IndexAssumption DEF Usable, Empty, TornEntry
<1>2. PICK s \in Text : s.parses /\ entry.of = s.id /\ FactsFrom(entry.facts, s)
  BY <1>1 DEF EntryOk, StoredFacts
<1>3. s = t
  BY <1>2, IndexAssumption DEF Usable
<1> QED BY <1>2, <1>3

LEMMA CachedIs ==
  ASSUME NEW entry, EntryOk(entry), NEW t \in Text, NEW v \in Release
  PROVE  /\ Cached(entry, t, v) \subseteq FactKind
         /\ Cached(entry, t, v) # {} => t.parses
         /\ \A k \in Cached(entry, t, v) : entry.facts[k] = Fact(t, v, k)
<1>1. CASE ~Usable(entry, t, v)
  BY <1>1 DEF Cached
<1>2. CASE Usable(entry, t, v)
  <2>1. t.parses /\ FactsFrom(entry.facts, t)
    BY <1>2, UsableIs
  <2>2. Cached(entry, t, v) = {k \in DOMAIN entry.facts : entry.facts[k].schema = Schema(v, k)}
    BY <1>2 DEF Cached
  <2>3. \A k \in Cached(entry, t, v) : entry.facts[k] = Fact(t, v, k)
    <3> SUFFICES ASSUME NEW k \in Cached(entry, t, v) PROVE entry.facts[k] = Fact(t, v, k)
      OBVIOUS
    <3>1. PICK u \in Release : entry.facts[k] = Fact(t, u, k)
      BY <2>1, <2>2 DEF FactsFrom
    <3>2. Schema(u, k) = Schema(v, k)
      BY <2>2, <3>1 DEF Fact
    <3> QED BY <3>1, <3>2 DEF Fact
  <2> QED BY <2>1, <2>2, <2>3 DEF FactsFrom
<1> QED BY <1>1, <1>2

LEMMA FactsAre ==
  ASSUME NEW entry, EntryOk(entry), NEW t \in Text, NEW v \in Release,
         NEW have \in SUBSET FactKind, Raising \subseteq have
  PROVE  Extracted(FactsOf(entry, t, v, have), t, v)
<1> PICK facts : facts = FactsOf(entry, t, v, have)
  OBVIOUS
<1>1. /\ DOMAIN facts = have
      /\ \A k \in have : facts[k] = IF k \in Cached(entry, t, v) THEN entry.facts[k] ELSE Fact(t, v, k)
  BY DEF FactsOf
<1>2. \A k \in have : facts[k] = Fact(t, v, k)
  BY <1>1, CachedIs
<1> QED BY <1>1, <1>2 DEF Extracted

LEMMA PutIs ==
  ASSUME NEW old, EntryOk(old), NEW t \in Text, t.parses, NEW v \in Release,
         NEW have \in SUBSET FactKind
  PROVE  StoredFacts(EntryOf(old, t, v, have))
<1> PICK kept : kept = IF Usable(old, t, v) THEN old.facts ELSE <<>>
  OBVIOUS
<1>1. FactsFrom(kept, t)
  <2>1. CASE Usable(old, t, v)
    BY <2>1, UsableIs
  <2>2. CASE ~Usable(old, t, v)
    <3>1. kept = <<>> /\ DOMAIN <<>> = {}
      BY <2>2
    <3> QED BY <3>1 DEF FactsFrom
  <2> QED BY <2>1, <2>2
<1> PICK facts : facts = [k \in (DOMAIN kept \ Dropped) \cup have |->
                            IF k \in have THEN Fact(t, v, k) ELSE kept[k]]
  OBVIOUS
<1>2. FactsFrom(facts, t)
  BY <1>1 DEF FactsFrom
<1>3. EntryOf(old, t, v, have) = [of |-> t.id, imports |-> Imports(v), facts |-> facts]
  BY DEF EntryOf
<1> PICK e : e = EntryOf(old, t, v, have)
  OBVIOUS
<1>4. e.of = t.id /\ e.imports = Imports(v) /\ e.facts = facts
  BY <1>3
<1>5. e = [of |-> e.of, imports |-> e.imports, facts |-> e.facts]
  BY <1>3, <1>4
<1> QED BY <1>2, <1>4, <1>5 DEF StoredFacts

LEMMA TakeCachedKeeps == \A w \in IndexWorker : IndexInv /\ TakeCached(w) => IndexInv'
<1> SUFFICES ASSUME NEW w \in IndexWorker, IndexInv, TakeCached(w) PROVE IndexInv'
  OBVIOUS
<1> PICK task : task = crew[w]
  OBVIOUS
<1>1. task # NoTask /\ TaskTyped(task) /\ TaskOk(task)
  BY TaskIs DEF TakeCached, Step, Steps
<1> PICK entry : entry = entries[task.file]
  OBVIOUS
<1>2. EntryOk(entry)
  BY <1>1 DEF IndexInv, CacheInv, TaskTyped
<1> PICK facts : facts = FactsOf(entry, task.text, task.version, FactKind)
  OBVIOUS
<1>3. /\ Cached(entry, task.text, task.version) = FactKind
      /\ crew' = [crew EXCEPT ![w] = [task EXCEPT !.at = "deliver", !.facts = facts]]
      /\ UNCHANGED <<text, during, entries, temps, indexing>>
  BY DEF TakeCached
<1> PICK new : new = [task EXCEPT !.at = "deliver", !.facts = facts]
  OBVIOUS
<1>4. TaskTyped(new) /\ SameTask(new, task) /\ new.at = "deliver" /\ new.facts = facts
  BY <1>1 DEF TaskTyped, SameTask, Steps
<1>5. task.text.parses
  BY <1>1, <1>2, <1>3, CachedIs, IndexAssumption DEF TaskTyped
<1>6. Extracted(facts, task.text, task.version)
  <2>1. Raising \subseteq FactKind
    BY IndexAssumption
  <2> QED BY <1>1, <1>2, <2>1, FactsAre DEF TaskTyped
<1>7. TaskOk(new)
  BY <1>4, <1>5, <1>6 DEF TaskOk, SameTask
<1> QED BY <1>1, <1>3, <1>4, <1>7, WorkerKeeps, SameCache

LEMMA ExtractKeeps == \A w \in IndexWorker : IndexInv /\ Extract(w) => IndexInv'
<1> SUFFICES ASSUME NEW w \in IndexWorker, IndexInv, Extract(w) PROVE IndexInv'
  OBVIOUS
<1> PICK task : task = crew[w]
  OBVIOUS
<1>1. task # NoTask /\ TaskTyped(task) /\ TaskOk(task) /\ task.text.parses
  BY TaskIs DEF Extract, Step, Steps
<1> PICK entry : entry = entries[task.file]
  OBVIOUS
<1>2. EntryOk(entry)
  BY <1>1 DEF IndexInv, CacheInv, TaskTyped
<1> PICK cached : cached = Cached(entry, task.text, task.version)
  OBVIOUS
<1>3. PICK kinds \in SUBSET (FactKind \ (cached \cup Raising)) :
         crew' = [crew EXCEPT ![w] =
              [at |-> "store", file |-> task.file, text |-> task.text,
               version |-> task.version, orphan |-> task.orphan, failed |-> FALSE,
               facts |-> FactsOf(entry, task.text, task.version, FactKind \ kinds),
               put |-> EntryOf(entry, task.text, task.version, FactKind \ kinds), handle |-> "none"]]
  BY DEF Extract
<1> PICK have \in SUBSET FactKind : have = FactKind \ kinds
  OBVIOUS
<1> PICK facts : facts = FactsOf(entry, task.text, task.version, have)
  OBVIOUS
<1> PICK put : put = EntryOf(entry, task.text, task.version, have)
  OBVIOUS
<1> PICK new : new = [at |-> "store", file |-> task.file, text |-> task.text,
               version |-> task.version, orphan |-> task.orphan, failed |-> FALSE,
               facts |-> facts, put |-> put, handle |-> "none"]
  OBVIOUS
<1>4. crew' = [crew EXCEPT ![w] = new]
  BY <1>3
<1>5. Extracted(facts, task.text, task.version)
  <2>1. Raising \subseteq have
    BY IndexAssumption
  <2> QED BY <1>1, <1>2, <2>1, FactsAre DEF TaskTyped
<1>6. StoredFacts(put)
  BY <1>1, <1>2, PutIs DEF TaskTyped
<1>7. TaskTyped(new) /\ SameTask(new, task)
  BY <1>1 DEF TaskTyped, SameTask, Steps
<1>8. TaskOk(new)
  BY <1>1, <1>5, <1>6 DEF TaskOk
<1>9. UNCHANGED <<text, during, entries, temps, indexing>>
  BY DEF Extract
<1> QED BY <1>1, <1>4, <1>7, <1>8, <1>9, WorkerKeeps, SameCache

LEMMA OpenTempKeeps == \A w \in IndexWorker : IndexInv /\ OpenTemp(w) => IndexInv'
<1> SUFFICES ASSUME NEW w \in IndexWorker, IndexInv, OpenTemp(w) PROVE IndexInv'
  OBVIOUS
<1> PICK task : task = crew[w]
  OBVIOUS
<1>1. task # NoTask /\ TaskTyped(task) /\ TaskOk(task) /\ task.at = "store"
  BY TaskIs DEF OpenTemp, Step, Steps
<1> PICK new : new = [task EXCEPT !.at = "write", !.handle = "temp"]
  OBVIOUS
<1>2. /\ crew' = [crew EXCEPT ![w] = new]
      /\ temps' = [temps EXCEPT ![task.file] = TornEntry]
      /\ UNCHANGED <<text, during, entries, indexing>>
  BY DEF OpenTemp
<1>3. /\ TaskTyped(new) /\ SameTask(new, task) /\ new.at = "write"
      /\ new.facts = task.facts /\ new.put = task.put /\ new.failed = task.failed
      /\ {"put", "handle"} \subseteq DOMAIN new
  BY <1>1 DEF TaskTyped, SameTask, Steps, TaskOk
<1>4. TaskOk(new)
  BY <1>1, <1>3 DEF TaskOk, SameTask
<1>5. CacheInv' /\ DOMAIN temps' = SourceFile /\ DOMAIN entries' = SourceFile
  BY <1>2 DEF IndexInv, CacheInv, EntryOk
<1> QED BY <1>1, <1>2, <1>3, <1>4, <1>5, WorkerKeeps

LEMMA WriteTempKeeps == \A w \in IndexWorker : IndexInv /\ WriteTemp(w) => IndexInv'
<1> SUFFICES ASSUME NEW w \in IndexWorker, IndexInv, WriteTemp(w) PROVE IndexInv'
  OBVIOUS
<1> PICK task : task = crew[w]
  OBVIOUS
<1>1. task # NoTask /\ TaskTyped(task) /\ TaskOk(task) /\ task.at = "write"
  BY TaskIs DEF WriteTemp, Step, Steps
<1> PICK new : new = [task EXCEPT !.at = "replace"]
  OBVIOUS
<1>2. /\ crew' = [crew EXCEPT ![w] = new]
      /\ UNCHANGED <<text, during, indexing>>
  BY DEF WriteTemp
<1>3. /\ TaskTyped(new) /\ SameTask(new, task) /\ new.at = "replace"
      /\ new.facts = task.facts /\ new.put = task.put /\ new.failed = task.failed
      /\ {"put", "handle"} \subseteq DOMAIN new
  BY <1>1 DEF TaskTyped, SameTask, Steps, TaskOk
<1>4. TaskOk(new)
  BY <1>1, <1>3 DEF TaskOk, SameTask
<1>5. EntryOk(task.put) /\ EntryOk(TornEntry)
  BY <1>1 DEF TaskOk, EntryOk
<1>6. PICK put \in {task.put, TornEntry} :
         \/ UNCHANGED <<entries, temps>>
         \/ temps' = [temps EXCEPT ![task.file] = put] /\ UNCHANGED entries
         \/ entries' = [entries EXCEPT ![task.file] = put] /\ UNCHANGED temps
  <2>1. CASE task.handle = "temp"
    BY <2>1 DEF WriteTemp
  <2>2. CASE task.handle = "entry"
    BY <2>2 DEF WriteTemp
  <2>3. CASE task.handle \notin {"temp", "entry"}
    <3>1. UNCHANGED <<entries, temps>>
      BY <2>3 DEF WriteTemp
    <3> QED BY <3>1
  <2> QED BY <2>1, <2>2, <2>3
<1>7. CacheInv' /\ DOMAIN temps' = SourceFile /\ DOMAIN entries' = SourceFile
  BY <1>5, <1>6 DEF IndexInv, CacheInv
<1> QED BY <1>1, <1>2, <1>3, <1>4, <1>7, WorkerKeeps

LEMMA StoreFailsKeeps == \A w \in IndexWorker : IndexInv /\ StoreFails(w) => IndexInv'
<1> SUFFICES ASSUME NEW w \in IndexWorker, IndexInv, StoreFails(w) PROVE IndexInv'
  OBVIOUS
<1> PICK task : task = crew[w]
  OBVIOUS
<1>1. task # NoTask /\ TaskTyped(task) /\ TaskOk(task) /\ task.at \in {"store", "replace"}
  BY TaskIs DEF StoreFails, Steps
<1> PICK new : new = [task EXCEPT !.at = "deliver"]
  OBVIOUS
<1>2. /\ crew' = [crew EXCEPT ![w] = new]
      /\ UNCHANGED <<text, during, entries, temps, indexing>>
  BY DEF StoreFails
<1>3. /\ TaskTyped(new) /\ SameTask(new, task) /\ new.at = "deliver"
      /\ new.facts = task.facts
  BY <1>1 DEF TaskTyped, SameTask, Steps, TaskOk
<1>4. TaskOk(new)
  BY <1>1, <1>3 DEF TaskOk, SameTask
<1> QED BY <1>1, <1>2, <1>3, <1>4, WorkerKeeps, SameCache

LEMMA MoveTempKeeps == \A w \in IndexWorker : IndexInv /\ MoveTemp(w) => IndexInv'
<1> SUFFICES ASSUME NEW w \in IndexWorker, IndexInv, MoveTemp(w) PROVE IndexInv'
  OBVIOUS
<1>1. /\ crew[w] # NoTask /\ TaskTyped(crew[w]) /\ TaskOk(crew[w]) /\ crew[w].at = "replace"
  BY TaskIs DEF MoveTemp, Step, Steps
<1> PICK f \in SourceFile : f = crew[w].file
  BY <1>1 DEF TaskTyped
<1>2. /\ DOMAIN crew' = IndexWorker
      /\ \A x \in IndexWorker :
           \/ crew'[x] = crew[x]
           \/ x = w /\ crew'[x] = [crew[x] EXCEPT !.at = "deliver"]
           \/ /\ Shares(w, x)
              /\ \E h \in {"entry", "gone"} : crew'[x] = [crew[x] EXCEPT !.handle = h]
  BY DEF MoveTemp
<1>3. \A x \in IndexWorker :
            \/ crew'[x] = crew[x]
            \/ /\ crew[x] # NoTask /\ TaskTyped(crew'[x]) /\ TaskOk(crew'[x])
               /\ SameTask(crew'[x], crew[x])
  <2> SUFFICES ASSUME NEW x \in IndexWorker, crew'[x] # crew[x]
               PROVE  /\ crew[x] # NoTask /\ TaskTyped(crew'[x]) /\ TaskOk(crew'[x])
                      /\ SameTask(crew'[x], crew[x])
    OBVIOUS
  <2> PICK task : task = crew[x]
    OBVIOUS
  <2> PICK new : new = crew'[x]
    OBVIOUS
  <2>1. CASE x = w /\ new = [task EXCEPT !.at = "deliver"]
    <3>1. /\ TaskTyped(new) /\ SameTask(new, task) /\ new.at = "deliver" /\ new.facts = task.facts
      BY <1>1, <2>1 DEF TaskTyped, SameTask, Steps
    <3> QED BY <1>1, <2>1, <3>1 DEF TaskOk, SameTask
  <2>2. CASE Shares(w, x) /\ \E h \in {"entry", "gone"} : new = [task EXCEPT !.handle = h]
    <3>1. task # NoTask /\ TaskTyped(task) /\ TaskOk(task) /\ task.at \in {"write", "replace"}
      BY <2>2, TaskIs DEF Shares, Steps
    <3>2. /\ TaskTyped(new) /\ SameTask(new, task) /\ new.at = task.at /\ new.facts = task.facts
          /\ new.put = task.put /\ new.failed = task.failed /\ {"put", "handle"} \subseteq DOMAIN new
      BY <2>2, <3>1 DEF TaskTyped, SameTask, Steps, TaskOk
    <3> QED BY <3>1, <3>2 DEF TaskOk, SameTask
  <2> QED BY <1>2, <2>1, <2>2
<1>4. /\ temps' = [temps EXCEPT ![f] = Empty]
      /\ entries' = [entries EXCEPT ![f] = IF temps[f] = Empty THEN entries[f] ELSE temps[f]]
      /\ UNCHANGED <<text, during, indexing>>
  BY DEF MoveTemp
<1>5. CacheInv' /\ DOMAIN temps' = SourceFile /\ DOMAIN entries' = SourceFile
  BY <1>4 DEF IndexInv, CacheInv, EntryOk
<1> QED BY <1>2, <1>3, <1>4, <1>5, WorkersKeep

(* Without an index no task is one of it. *)
LEMMA OrphansKeep ==
  ASSUME IndexInv, crew' = OrphansOnly, indexing' = NoIndex,
         UNCHANGED <<text, during, entries, temps>>
  PROVE  IndexInv'
<1>1. /\ DOMAIN crew' = IndexWorker
      /\ \A w \in IndexWorker : crew'[w] = NoTask \/ (crew'[w] = crew[w] /\ crew[w].orphan)
  BY DEF OrphansOnly
<1>2. CrewInv' /\ CacheInv'
  BY <1>1, SameCache DEF IndexInv, CrewInv
<1>3. \A w \in IndexWorker : ~Mine(w)'
  BY <1>1 DEF Mine
<1>4. indexing'.at = "none"
  BY DEF NoIndex
<1> QED BY <1>2, <1>3, <1>4 DEF IndexInv, TasksInv, Mine, RunningInv, EndedInv

LEMMA ParentDiesKeeps == IndexInv /\ ParentDies => IndexInv'
<1> SUFFICES ASSUME IndexInv, ParentDies PROVE IndexInv'
  OBVIOUS
<1>1. /\ indexing' = NoIndex /\ UNCHANGED <<text, during, entries, temps>>
      /\ DOMAIN crew' = IndexWorker
      /\ \A w \in IndexWorker :
           crew'[w] = IF crew[w] = NoTask THEN NoTask ELSE [crew[w] EXCEPT !.orphan = TRUE]
  BY DEF ParentDies
<1>2. CrewInv'
  <2> SUFFICES ASSUME NEW w \in IndexWorker, crew[w] # NoTask
               PROVE  TaskTyped(crew'[w]) /\ TaskOk(crew'[w])
    BY <1>1 DEF CrewInv
  <2> PICK task : task = crew[w]
    OBVIOUS
  <2> PICK new : new = [task EXCEPT !.orphan = TRUE]
    OBVIOUS
  <2>1. TaskTyped(task) /\ TaskOk(task)
    BY DEF IndexInv, CrewInv
  <2>2. /\ TaskTyped(new) /\ DOMAIN new = DOMAIN task /\ new.at = task.at /\ new.text = task.text
        /\ new.version = task.version /\ new.facts = task.facts /\ new.failed = task.failed
        /\ "put" \in DOMAIN task => new.put = task.put
    BY <2>1 DEF TaskTyped
  <2>3. TaskOk(new)
    BY <2>1, <2>2 DEF TaskOk
  <2> QED BY <1>1, <2>2, <2>3
<1>3. \A w \in IndexWorker : ~Mine(w)'
  <2> SUFFICES ASSUME NEW w \in IndexWorker, crew[w] # NoTask
               PROVE  [crew[w] EXCEPT !.orphan = TRUE].orphan
    BY <1>1 DEF Mine
  <2>1. TaskTyped(crew[w])
    BY DEF IndexInv, CrewInv
  <2> QED BY <2>1 DEF TaskTyped
<1>4. indexing'.at = "none"
  BY <1>1 DEF NoIndex
<1> QED BY <1>1, <1>2, <1>3, <1>4, SameCache DEF IndexInv, TasksInv, Mine, RunningInv, EndedInv

LEMMA BeginIndexKeeps == IndexInv /\ BeginIndex => IndexInv'
<1> SUFFICES ASSUME IndexInv, BeginIndex PROVE IndexInv'
  OBVIOUS
<1>1. PICK v \in Release :
         indexing' = [at |-> "open", version |-> v, left |-> SourceFile \ Excluded,
                      running |-> {}, modules |-> <<>>, skipped |-> {},
                      kept |-> <<>>, refused |-> FALSE]
  BY DEF BeginIndex
<1>2. /\ during' = [f \in SourceFile |-> {text[f]}] /\ UNCHANGED <<text, entries, temps, crew>>
      /\ indexing.at # "open"
  BY DEF BeginIndex
<1>3. \A w \in IndexWorker : ~Mine(w)'
  BY <1>2 DEF IndexInv, TasksInv, Mine
<1>4. CrewInv' /\ CacheInv'
  BY <1>2, SameCache DEF IndexInv, CrewInv
<1>5. DOMAIN <<>> = {}
  OBVIOUS
<1>6. RunningInv'
  BY <1>1, <1>5 DEF RunningInv, OpenIndex
<1>7. /\ during' \in [SourceFile -> SUBSET Text]
      /\ \A f \in SourceFile : text'[f] \in during'[f]
  BY <1>2 DEF IndexInv
<1> QED BY <1>1, <1>2, <1>3, <1>4, <1>6, <1>7 DEF IndexInv, TasksInv, Mine, EndedInv

LEMMA EndIndexKeeps == IndexInv /\ EndIndex => IndexInv'
<1> SUFFICES ASSUME IndexInv, EndIndex PROVE IndexInv'
  OBVIOUS
<1>1. /\ indexing.at = "open" /\ indexing.left = {} /\ indexing.running = {}
      /\ UNCHANGED <<text, during, entries, temps, crew>>
      /\ indexing' = [at |-> "ended", version |-> indexing.version,
                    modules |-> indexing.modules, skipped |-> indexing.skipped,
                    typeOnly |-> FinalizeTypeOnlyImports(indexing),
                    cohort |-> CaptureResult(indexing)]
  BY DEF EndIndex
<1>2. RunningInv /\ DOMAIN indexing.modules \subseteq SourceFile
  BY <1>1 DEF IndexInv, RunningInv
<1>3. \A w \in IndexWorker : ~Mine(w)'
  BY <1>1 DEF IndexInv, TasksInv, Mine
<1>4. CrewInv' /\ CacheInv'
  BY <1>1, SameCache DEF IndexInv, CrewInv
<1>5. \A f \in DOMAIN indexing.modules : ModuleOk(f, indexing.modules[f], indexing.version)
  BY <1>1, <1>2 DEF RunningInv
<1>6. FinalizeTypeOnlyImports(indexing) # {} =>
        \A f \in SourceFile :
               /\ f \in DOMAIN indexing.modules
               /\ indexing.modules[f].text.parses /\ ~indexing.modules[f].text.opaque
  <2> SUFFICES ASSUME FinalizeTypeOnlyImports(indexing) # {}, NEW f \in SourceFile
               PROVE  /\ f \in DOMAIN indexing.modules
                      /\ indexing.modules[f].text.parses /\ ~indexing.modules[f].text.opaque
    OBVIOUS
  <2>1. TypingClosed(indexing)
    BY DEF FinalizeTypeOnlyImports
  <2>2. f \in DOMAIN indexing.modules
    BY <1>1, <1>2, <2>1 DEF RunningInv, TypingClosed
  <2> QED BY <1>1, <1>2, <2>1, <2>2 DEF RunningInv, TypingClosed, ModuleOk
<1>7. CaptureResult(indexing) # <<>> =>
        /\ DOMAIN CaptureResult(indexing) = Selected
        /\ \A f \in Selected : f \in DOMAIN indexing.modules
                               /\ CaptureResult(indexing)[f] = indexing.modules[f].text
  <2> SUFFICES ASSUME CaptureResult(indexing) # <<>>
               PROVE  /\ DOMAIN CaptureResult(indexing) = Selected
                      /\ \A f \in Selected : f \in DOMAIN indexing.modules
                               /\ CaptureResult(indexing)[f] = indexing.modules[f].text
    OBVIOUS
  <2>1. CaptureResult(indexing) = indexing.kept /\ Selected \ DOMAIN indexing.kept = {}
    BY DEF CaptureResult
  <2> QED BY <1>1, <1>2, <2>1 DEF RunningInv
<1>8. /\ indexing'.at = "ended" /\ indexing'.modules = indexing.modules
      /\ indexing'.typeOnly = FinalizeTypeOnlyImports(indexing)
      /\ indexing'.cohort = CaptureResult(indexing)
  BY <1>1
<1>9. IndexProves'
  BY <1>6, <1>7, <1>8 DEF IndexProves
<1>10. EndedInv'
  <2>1. indexing'.version = indexing.version
    BY <1>1
  <2>2. \A f \in DOMAIN indexing.modules : ModuleOk(f, indexing.modules[f], indexing.version)'
    BY <1>1, <1>5, <1>8, <2>1 DEF ModuleOk
  <2> QED BY <1>2, <1>8, <1>9, <2>2 DEF EndedInv
<1> QED BY <1>1, <1>3, <1>4, <1>8, <1>10 DEF IndexInv, TasksInv, Mine, RunningInv

LEMMA ReadSourceKeeps == \A w \in IndexWorker : IndexInv /\ ReadSource(w) => IndexInv'
<1> SUFFICES ASSUME NEW w \in IndexWorker, IndexInv, ReadSource(w) PROVE IndexInv'
  OBVIOUS
<1>1. PICK f \in indexing.left :
         /\ crew' = [crew EXCEPT ![w] =
              [at |-> "read", file |-> f, text |-> text[f], version |-> indexing.version,
               orphan |-> FALSE, failed |-> FALSE, facts |-> <<>>]]
         /\ indexing' = [indexing EXCEPT !.left = indexing.left \ {f}, !.running = indexing.running \cup {f}]
  BY DEF ReadSource
<1> PICK new : new = [at |-> "read", file |-> f, text |-> text[f], version |-> indexing.version,
                      orphan |-> FALSE, failed |-> FALSE, facts |-> <<>>]
  OBVIOUS
<1>2. indexing.at = "open" /\ crew[w] = NoTask /\ UNCHANGED <<text, during, entries, temps>>
  BY DEF ReadSource
<1>3. RunningInv /\ DOMAIN indexing = OpenIndex /\ f \in SourceFile /\ indexing.version \in Release
      /\ f \notin indexing.running
  BY <1>2 DEF IndexInv, RunningInv
<1>4. TaskTyped(new) /\ TaskOk(new)
  BY <1>3 DEF TaskTyped, TaskOk, Steps, IndexInv
<1>5. DOMAIN crew' = IndexWorker /\ \A x \in IndexWorker : crew'[x] = IF x = w THEN new ELSE crew[x]
  BY <1>1 DEF IndexInv, CrewInv
<1>6. CrewInv' /\ CacheInv'
  BY <1>2, <1>4, <1>5, SameCache DEF IndexInv, CrewInv
<1>7. /\ indexing'.at = "open" /\ indexing'.version = indexing.version /\ DOMAIN indexing' = OpenIndex
      /\ indexing'.left = indexing.left \ {f} /\ indexing'.running = indexing.running \cup {f}
      /\ indexing'.modules = indexing.modules /\ indexing'.skipped = indexing.skipped
      /\ indexing'.kept = indexing.kept
  BY <1>1, <1>2, <1>3 DEF OpenIndex
<1>8. TasksInv'
  <2>1. \A x \in IndexWorker : Mine(x)' => x = w \/ (Mine(x) /\ crew'[x] = crew[x])
    BY <1>5 DEF Mine
  <2>2. crew'[w] = new /\ text[f] \in during[f]
    BY <1>3, <1>5 DEF IndexInv
  <2>3. \A x \in IndexWorker : Mine(x)' =>
           /\ crew'[x].version = indexing.version /\ crew'[x].file \in indexing'.running
           /\ crew'[x].text \in during[crew'[x].file]
    BY <1>7, <2>1, <2>2 DEF IndexInv, TasksInv
  <2>4. \A x \in IndexWorker : Mine(x) => crew[x].file # f
    BY <1>3 DEF IndexInv, TasksInv
  <2>5. \A x, y \in IndexWorker : Mine(x)' /\ Mine(y)' /\ x # y => crew'[x].file # crew'[y].file
    BY <2>1, <2>2, <2>4 DEF IndexInv, TasksInv
  <2> QED BY <1>2, <1>7, <2>3, <2>5 DEF TasksInv, Mine
<1>9. RunningInv'
  BY <1>2, <1>3, <1>7 DEF RunningInv, ModuleOk
<1> QED BY <1>2, <1>6, <1>7, <1>8, <1>9 DEF IndexInv, EndedInv

(* What the parent makes of the result of a file.                        *)
CapturedFrom(parent, task, c) ==
    /\ DOMAIN c = OpenIndex /\ c.at = parent.at /\ c.version = parent.version
    /\ c.left = parent.left /\ c.running = parent.running
    /\ c.modules = parent.modules /\ c.skipped = parent.skipped
    /\ \/ c.kept = parent.kept
       \/ /\ task.file \in Selected /\ ~task.failed
          /\ DOMAIN c.kept = DOMAIN parent.kept \union {task.file}
          /\ c.kept[task.file] = task.text
          /\ \A g \in DOMAIN parent.kept : g # task.file => c.kept[g] = parent.kept[g]

LEMMA CapturedIs ==
  \A parent, task, c :
      DOMAIN parent = OpenIndex /\ c = RecordCapture(parent, task) => CapturedFrom(parent, task, c)
<1> SUFFICES ASSUME NEW parent, NEW task, NEW c, DOMAIN parent = OpenIndex,
                    c = RecordCapture(parent, task)
             PROVE  CapturedFrom(parent, task, c)
  OBVIOUS
<1> PICK kept : kept = [f \in DOMAIN parent.kept \cup {task.file} |->
                          IF f = task.file THEN task.text ELSE parent.kept[f]]
  OBVIOUS
<1>1. \/ c = parent
      \/ c = [parent EXCEPT !.refused = TRUE]
      \/ task.file \in Selected /\ ~task.failed /\ c = [parent EXCEPT !.kept = kept]
  BY DEF RecordCapture
<1>2. /\ DOMAIN kept = DOMAIN parent.kept \cup {task.file} /\ kept[task.file] = task.text
      /\ \A g \in DOMAIN parent.kept : g # task.file => kept[g] = parent.kept[g]
  OBVIOUS
<1>3. CASE c = parent
  BY <1>3 DEF CapturedFrom
<1>4. CASE c = [parent EXCEPT !.refused = TRUE]
  BY <1>4 DEF OpenIndex, CapturedFrom
<1>5. CASE task.file \in Selected /\ ~task.failed /\ c = [parent EXCEPT !.kept = kept]
  <2>1. c.kept = kept /\ DOMAIN c = OpenIndex
    BY <1>5 DEF OpenIndex
  <2> QED BY <1>2, <1>5, <2>1 DEF OpenIndex, CapturedFrom
<1> QED BY <1>1, <1>3, <1>4, <1>5

LEMMA DeliverKeeps == \A w \in IndexWorker : IndexInv /\ Deliver(w) => IndexInv'
<1> SUFFICES ASSUME NEW w \in IndexWorker, IndexInv, Deliver(w) PROVE IndexInv'
  OBVIOUS
<1> PICK task : task = crew[w]
  OBVIOUS
<1>1. /\ task # NoTask /\ TaskTyped(task) /\ TaskOk(task) /\ task.at = "deliver"
      /\ crew' = [crew EXCEPT ![w] = NoTask] /\ UNCHANGED <<text, during, entries, temps>>
  BY TaskIs DEF Deliver, Step, Steps
<1>2. DOMAIN crew' = IndexWorker /\ \A x \in IndexWorker : crew'[x] = IF x = w THEN NoTask ELSE crew[x]
  BY <1>1 DEF IndexInv, CrewInv
<1>3. CrewInv' /\ CacheInv'
  BY <1>1, <1>2, SameCache DEF IndexInv, CrewInv
<1>4. \A x \in IndexWorker : Mine(x)' => x # w /\ Mine(x) /\ crew'[x] = crew[x]
  BY <1>2 DEF Mine
<1>5. CASE task.orphan
  <2>1. indexing' = indexing
    BY <1>5 DEF Deliver
  <2>2. TasksInv'
    BY <1>1, <1>4, <2>1 DEF IndexInv, TasksInv, Mine
  <2>3. RunningInv' /\ EndedInv'
    BY <1>1, <2>1 DEF IndexInv, RunningInv, EndedInv, ModuleOk, IndexProves
  <2> QED BY <1>1, <1>3, <2>1, <2>2, <2>3 DEF IndexInv
<1>6. CASE ~task.orphan
  <2> PICK f \in SourceFile : f = task.file
    BY <1>1 DEF TaskTyped
  <2>1. /\ indexing.at = "open" /\ task.version = indexing.version
        /\ f \in indexing.running /\ task.text \in during[f]
    BY <1>1, <1>6 DEF IndexInv, TasksInv, Mine
  <2>2. RunningInv /\ DOMAIN indexing = OpenIndex
    BY <2>1 DEF IndexInv, RunningInv
  <2> PICK parent : parent = [indexing EXCEPT !.running = indexing.running \ {f}]
    OBVIOUS
  <2>3. /\ DOMAIN parent = OpenIndex /\ parent.at = "open" /\ parent.version = indexing.version
        /\ parent.left = indexing.left /\ parent.running = indexing.running \ {f}
        /\ parent.modules = indexing.modules /\ parent.skipped = indexing.skipped
        /\ parent.kept = indexing.kept
    BY <2>1, <2>2 DEF OpenIndex
  <2> PICK done : done = RecordCapture(parent, task)
    OBVIOUS
  <2>4. /\ DOMAIN done = OpenIndex /\ done.at = "open" /\ done.version = indexing.version
        /\ done.left = indexing.left /\ done.running = indexing.running \ {f}
        /\ done.modules = indexing.modules /\ done.skipped = indexing.skipped
        /\ \/ done.kept = indexing.kept
           \/ /\ f \in Selected /\ ~task.failed
              /\ DOMAIN done.kept = DOMAIN indexing.kept \cup {f} /\ done.kept[f] = task.text
              /\ \A g \in DOMAIN indexing.kept : g # f => done.kept[g] = indexing.kept[g]
    <3>1. CapturedFrom(parent, task, done)
      BY <2>3, CapturedIs
    <3>2. /\ DOMAIN done = OpenIndex /\ done.at = parent.at /\ done.version = parent.version
          /\ done.left = parent.left /\ done.running = parent.running
          /\ done.modules = parent.modules /\ done.skipped = parent.skipped
      BY <3>1 DEF CapturedFrom
    <3>3. CASE done.kept = parent.kept
      BY <2>3, <3>2, <3>3
    <3>4. CASE /\ f \in Selected /\ ~task.failed
               /\ DOMAIN done.kept = DOMAIN parent.kept \cup {f} /\ done.kept[f] = task.text
               /\ \A g \in DOMAIN parent.kept : g # f => done.kept[g] = parent.kept[g]
      <4>1. parent.kept = indexing.kept
        BY <2>3
      <4>2. DOMAIN done.kept = DOMAIN indexing.kept \cup {f}
        BY <3>4, <4>1
      <4>3. \A g \in DOMAIN indexing.kept : g # f => done.kept[g] = indexing.kept[g]
        BY <3>4, <4>1
      <4>4. /\ DOMAIN done = OpenIndex /\ done.at = "open" /\ done.version = indexing.version
            /\ done.left = indexing.left /\ done.running = indexing.running \ {f}
            /\ done.modules = indexing.modules /\ done.skipped = indexing.skipped
        BY <2>3, <3>2
      <4> QED BY <3>4, <4>2, <4>3, <4>4
    <3>5. \/ done.kept = parent.kept
          \/ /\ f \in Selected /\ ~task.failed
             /\ DOMAIN done.kept = DOMAIN parent.kept \cup {f} /\ done.kept[f] = task.text
             /\ \A g \in DOMAIN parent.kept : g # f => done.kept[g] = parent.kept[g]
      BY <3>1 DEF CapturedFrom
    <3> QED BY <3>3, <3>4, <3>5
  <2> PICK module : module = [text |-> task.text, facts |-> task.facts]
    OBVIOUS
  <2> PICK modules : modules = [g \in DOMAIN indexing.modules \cup {f} |->
                                  IF g = f THEN module ELSE indexing.modules[g]]
    OBVIOUS
  <2>5. indexing' = IF task.failed THEN [done EXCEPT !.skipped = indexing.skipped \cup {f}]
                    ELSE [done EXCEPT !.modules = modules]
    BY <1>6, <2>4 DEF Deliver, Merged
  <2>6. /\ DOMAIN indexing' = OpenIndex /\ indexing'.at = "open"
        /\ indexing'.version = indexing.version
        /\ indexing'.left = indexing.left /\ indexing'.running = indexing.running \ {f}
        /\ indexing'.kept = done.kept
        /\ IF task.failed
           THEN indexing'.modules = indexing.modules /\ indexing'.skipped = indexing.skipped \cup {f}
           ELSE indexing'.modules = modules /\ indexing'.skipped = indexing.skipped
    BY <2>4, <2>5 DEF OpenIndex
  <2>9. /\ indexing.version \in Release
        /\ indexing.left \cap (indexing.running \cup DOMAIN indexing.modules) = {}
        /\ indexing.running \cap DOMAIN indexing.modules = {}
        /\ \A g \in DOMAIN indexing.modules : ModuleOk(g, indexing.modules[g], indexing.version)
        /\ DOMAIN indexing.kept \subseteq Selected \cap DOMAIN indexing.modules
        /\ \A g \in DOMAIN indexing.kept : indexing.kept[g] = indexing.modules[g].text
    BY <2>1, <2>2 DEF RunningInv
  <2>7. TasksInv'
    <3>1. \A x \in IndexWorker : Mine(x)' =>
             /\ indexing'.at = "open" /\ crew'[x].version = indexing'.version
             /\ crew'[x].file \in indexing'.running /\ crew'[x].text \in during[crew'[x].file]
      <4>1. \A x \in IndexWorker : x # w /\ Mine(x) => crew[x].file # f
        BY <1>1, <1>6 DEF IndexInv, TasksInv, Mine
      <4> QED BY <1>4, <2>6, <4>1 DEF IndexInv, TasksInv
    <3>2. \A x, y \in IndexWorker : Mine(x)' /\ Mine(y)' /\ x # y => crew'[x].file # crew'[y].file
      BY <1>4 DEF IndexInv, TasksInv
    <3> QED BY <1>1, <3>1, <3>2 DEF TasksInv, Mine
  <2>8. RunningInv'
    <3>1. CASE task.failed
      <4>1. done.kept = indexing.kept
        BY <2>4, <3>1
      <4>2. /\ indexing'.modules = indexing.modules /\ indexing'.kept = indexing.kept
            /\ indexing'.skipped = indexing.skipped \cup {f}
        BY <2>6, <3>1, <4>1
      <4>3. indexing'.left \cup indexing'.running \cup indexing'.skipped \cup DOMAIN indexing'.modules
              = SourceFile \ Excluded
        BY <2>1, <2>2, <2>6, <4>2 DEF RunningInv
      <4>4. \A g \in DOMAIN indexing.modules : ModuleOk(g, indexing.modules[g], indexing.version)'
        BY <1>1, <2>6, <2>9, <4>2 DEF ModuleOk
      <4>5. /\ indexing'.left \cap (indexing'.running \cup DOMAIN indexing'.modules) = {}
            /\ indexing'.running \cap DOMAIN indexing'.modules = {}
        BY <2>6, <2>9, <4>2
      <4> QED BY <2>6, <2>9, <4>2, <4>3, <4>4, <4>5 DEF RunningInv
    <3>2. CASE ~task.failed
      <4>1. /\ indexing'.modules = modules /\ indexing'.skipped = indexing.skipped
            /\ DOMAIN modules = DOMAIN indexing.modules \cup {f} /\ modules[f] = module
            /\ \A g \in DOMAIN indexing.modules : g # f => modules[g] = indexing.modules[g]
        BY <2>6, <3>2
      <4>2. ModuleOk(f, module, indexing.version)
        BY <1>1, <2>1, <3>2 DEF ModuleOk, TaskOk, TaskTyped
      <4>3. f \notin DOMAIN indexing.modules
        BY <2>1, <2>2 DEF RunningInv
      <4>4. \A g \in DOMAIN modules : ModuleOk(g, modules[g], indexing.version)
        BY <2>1, <2>2, <4>1, <4>2 DEF RunningInv
      <4>5. indexing'.left \cup indexing'.running \cup indexing'.skipped \cup DOMAIN indexing'.modules
              = SourceFile \ Excluded
        BY <2>1, <2>2, <2>6, <4>1 DEF RunningInv
      <4>6. /\ DOMAIN done.kept \subseteq Selected \cap DOMAIN modules
            /\ \A g \in DOMAIN done.kept : done.kept[g] = modules[g].text
        <5>1. CASE done.kept = indexing.kept
          <6>1. DOMAIN done.kept \subseteq Selected \cap DOMAIN modules
            BY <2>9, <4>1, <5>1
          <6>2. ASSUME NEW g \in DOMAIN done.kept PROVE done.kept[g] = modules[g].text
            <7>1. g \in DOMAIN indexing.modules /\ g # f /\ done.kept[g] = indexing.modules[g].text
              BY <2>9, <4>3, <5>1, <6>2
            <7> QED BY <4>1, <7>1
          <6> QED BY <6>1, <6>2
        <5>2. CASE /\ f \in Selected
                   /\ DOMAIN done.kept = DOMAIN indexing.kept \cup {f} /\ done.kept[f] = task.text
                   /\ \A g \in DOMAIN indexing.kept : g # f => done.kept[g] = indexing.kept[g]
          <6>1. modules[f].text = task.text
            BY <4>1
          <6>2. f \notin DOMAIN indexing.kept
            BY <2>9, <4>3
          <6>4. DOMAIN done.kept \subseteq Selected \cap DOMAIN modules
            BY <2>9, <4>1, <5>2
          <6>5. ASSUME NEW g \in DOMAIN indexing.kept PROVE g # f /\ done.kept[g] = modules[g].text
            <7>1. g \in DOMAIN indexing.modules /\ g # f /\ done.kept[g] = indexing.modules[g].text
              BY <2>9, <5>2, <6>2, <6>5
            <7> QED BY <4>1, <7>1
          <6>6. done.kept[f] = modules[f].text
            BY <5>2, <6>1
          <6> QED BY <5>2, <6>4, <6>5, <6>6
        <5> QED BY <2>4, <5>1, <5>2
      <4>7. /\ indexing'.left \cap (indexing'.running \cup DOMAIN indexing'.modules) = {}
            /\ indexing'.running \cap DOMAIN indexing'.modules = {}
        BY <2>1, <2>2, <2>6, <4>1 DEF RunningInv
      <4>9. \A g, m : ModuleOk(g, m, indexing.version) => ModuleOk(g, m, indexing.version)'
        BY <1>1, <2>6 DEF ModuleOk
      <4>10. (\A g \in DOMAIN indexing.modules : ModuleOk(g, indexing.modules[g], indexing.version))'
        BY <2>6, <4>1, <4>4, <4>9 DEF ModuleOk
      <4>11. (DOMAIN indexing.kept \subseteq Selected \cap DOMAIN indexing.modules)'
             /\ (\A g \in DOMAIN indexing.kept : indexing.kept[g] = indexing.modules[g].text)'
        <5>1. indexing'.kept = done.kept /\ indexing'.modules = modules
          BY <2>6, <4>1
        <5> QED BY <4>6, <5>1
      <4> QED BY <2>6, <2>9, <4>5, <4>7, <4>10, <4>11 DEF RunningInv
    <3> QED BY <3>1, <3>2
  <2> QED BY <1>1, <1>3, <2>6, <2>7, <2>8 DEF IndexInv, EndedInv
<1> QED BY <1>5, <1>6

LEMMA IndexInductive == IndexSpec => []IndexInv
<1>1. IndexInit => IndexInv
  BY InitIndex
<1>2. ASSUME IndexInv, [IndexNext]_indexVars PROVE IndexInv'
  <2>1. ASSUME NEW w \in IndexWorker, IndexStep(w) PROVE IndexInv'
    <3>1. CASE ExtractRaises(w)
      BY <1>2, <3>1, OrphansKeep DEF ExtractRaises
    <3> QED BY <1>2, <2>1, <3>1, ReadSourceKeeps, ReadFailsKeeps, TakeCachedKeeps, ParseFailsKeeps,
               ExtractKeeps, OpenTempKeeps, WriteTempKeeps, MoveTempKeeps, StoreFailsKeeps,
               DeliverKeeps DEF IndexStep
  <2>2. CASE Cancel
    BY <1>2, <2>2, OrphansKeep DEF Cancel
  <2>3. CASE UNCHANGED indexVars
    BY <1>2, <2>3, WorkersKeep, SameCache DEF indexVars, IndexInv, CrewInv
  <2> QED BY <1>2, <2>1, <2>2, <2>3, BeginIndexKeeps, EndIndexKeeps, ParentDiesKeeps, EditKeeps
          DEF IndexNext
<1> QED BY <1>1, <1>2, PTL DEF IndexSpec

(* An index is what a cold one would be, and keeps only the type-only      *)
(* imports and the sources it can prove (index_repository, CacheManager).  *)
THEOREM IndexIsCold == IndexSpec => []IndexIsTrue
<1>1. ASSUME IndexInv PROVE IndexIsTrue
  <2>1. FactsAreExtracted
    BY <1>1 DEF IndexInv, EndedInv, FactsAreExtracted, ModuleOk, Extracted
  <2>2. IndexProves
    BY <1>1 DEF IndexInv, EndedInv, IndexProves
  <2> QED BY <2>1, <2>2 DEF IndexIsTrue
<1> QED BY <1>1, IndexInductive, PTL

==============================================================================
