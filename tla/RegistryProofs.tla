----------------------------- MODULE RegistryProofs -----------------------------
(***************************************************************************)
(* Theorems about the persistent registry.                                 *)
(*                                                                         *)
(* Its transactions, for every set of users, number of files and number of *)
(* transactions.  One session at a time holds whatever fails; the rest     *)
(* holds until a recovery swallows the exception of a replacement, or of   *)
(* the removal of the transaction file: the run registry_swallowed shows   *)
(* what is lost then.                                                      *)
(*                                                                         *)
(* Its identities and the lineage facts found by them, for every set of    *)
(* modules, every text and every number of edits: no identity is published *)
(* for two items, and fresh facts answer what the texts say.               *)
(***************************************************************************)
EXTENDS RegistryTransaction, LineageFacts, FiniteSetTheorems, SequenceTheorems, TLAPS

(* A step that swallows no exception. *)
RecoveryWorks == ~Swallows

(* Points of a transaction that has its number. *)
Writing == {"write", "fill", "mark", "fillMark", "replace", "unmark"}

(* What is durable was written by one transaction. *)
DurableInv == \E n \in 0 .. last : \A f \in File : Durable[f] = n

(* How far the session of u has come, seen in the files. *)
SessionOk(u) ==
    /\ pc[u] \notin {"roll", "write", "fill", "replace"} => at[u] = 1
    /\ pc[u] = "roll" =>
        marker = "committing" /\ \A f \in File : f < at[u] => tmp[f] = Absent
    /\ pc[u] = "discard" => (marker = "committing" => \A f \in File : tmp[f] = Absent)
    /\ pc[u] \in Seeing \cup {"load"} => marker # "committing"
    /\ pc[u] \in Seeing => loaded[u] = Durable
    /\ pc[u] \in Seeing \cap Writing => \A f \in File : loaded[u][f] < txn[u]
    /\ pc[u] \in Writing => txn[u] = last
    /\ pc[u] \in {"write", "fill"} => \A f \in File : f < at[u] => tmp[f] = txn[u]
    /\ pc[u] \in {"mark", "fillMark"} => \A f \in File : tmp[f] = txn[u]
    /\ pc[u] = "replace" =>
        /\ marker = "committing"
        /\ \A f \in File : IF f < at[u] THEN file[f] = txn[u] /\ tmp[f] = Absent
                                        ELSE tmp[f] = txn[u]
    /\ pc[u] = "unmark" =>
        /\ marker = "committing"
        /\ \A f \in File : file[f] = txn[u] /\ tmp[f] = Absent

SessionInv == \A u \in User : SessionOk(u)

CommittedInv == \A u \in User : outcome[u] = "committed" => \A f \in File : Durable[f] >= txn[u]

IInv == TypeOK /\ OneSession /\ DurableInv /\ SessionInv /\ CommittedInv

-----------------------------------------------------------------------------
(* One session at a time, whatever fails. *)

(* The part of the type invariant that the lock needs. *)
LockType ==
    /\ marker \in {"absent", "torn", "committing"}
    /\ lock \in User \cup {NoOne}
    /\ pc \in [User -> Points]

LEMMA LockStep ==
    ASSUME LockType, OneSession, [Next]_vars
    PROVE  LockType' /\ OneSession'
<1> USE RegistryAssumption DEF LockType, OneSession, Points, Goto
<1>1. CASE UNCHANGED vars
  BY <1>1 DEF vars, disk
<1>2. CASE Next
  <2> PICK u \in User : \/ Begin(u) \/ Recover(u) \/ Load(u) \/ EndRead(u)
                        \/ Body(u) \/ BodyRaises(u) \/ Commit(u) \/ CommitRaises(u) \/ Crash(u)
    BY <1>2 DEF Next
  <2>1. CASE Begin(u) \/ Load(u) \/ Body(u)
    BY <2>1 DEF Begin, Load, Body, disk
  <2>2. CASE Recover(u)
    <3>1. CASE ReadMarker(u)
      BY <3>1 DEF ReadMarker, AfterMarker, disk
    <3>2. CASE RollForward(u)
      BY <3>2 DEF RollForward
    <3>3. CASE RollForwardFails(u) \/ Discard(u)
      BY <3>3 DEF RollForwardFails, Discard, disk
    <3> QED BY <2>2, <3>1, <3>2, <3>3 DEF Recover
  <2>3. CASE EndRead(u) \/ BodyRaises(u) \/ CommitRaises(u) \/ Crash(u)
    <3>1. pc[u] # "idle" /\ End(u) /\ UNCHANGED disk
      BY <2>3 DEF EndRead, BodyRaises, CommitRaises, Crash
    <3> QED BY <3>1 DEF End, disk
  <2>4. CASE Commit(u)
    <3>1. CASE OpenTmp(u) \/ FillTmp(u) \/ OpenMarker(u) \/ FillMarker(u)
      BY <3>1 DEF OpenTmp, FillTmp, OpenMarker, FillMarker, AfterFill
    <3>2. CASE Replace(u)
      BY <3>2 DEF Replace
    <3>3. CASE Unmark(u)
      BY <3>3 DEF Unmark, End
    <3> QED BY <2>4, <3>1, <3>2, <3>3 DEF Commit
  <2> QED BY <2>1, <2>2, <2>3, <2>4
<1> QED BY <1>1, <1>2

(* The lock of the registry is held by exactly the session that runs and   *)
(* is free when none does, whichever calls fail and whoever crashes (the   *)
(* finally clauses of transaction and read_transaction).                   *)
THEOREM SessionsAlone == Spec => []OneSession
<1>1. Init => LockType /\ OneSession
  BY RegistryAssumption DEF Init, LockType, Points, OneSession
<1>2. LockType /\ OneSession /\ [Next]_vars => (LockType /\ OneSession)'
  BY LockStep
<1> QED BY <1>1, <1>2, PTL DEF Spec

-----------------------------------------------------------------------------
(* Facts about one state. *)

(* What is durable is a number for every file. *)
LEMMA DurableType ==
    ASSUME TypeOK, DurableInv
    PROVE  /\ Durable \in [File -> Nat]
           /\ \A f \in File : Durable[f] <= last
           /\ \A f, g \in File : Durable[f] = Durable[g]
<1> PICK n \in 0 .. last : \A f \in File : Durable[f] = n
  BY DEF DurableInv
<1> last \in Nat /\ n \in Nat /\ n <= last
  BY DEF TypeOK
<1> QED BY DEF Durable

(* Without a complete transaction file, the files are what is durable. *)
LEMMA DurableFile ==
    ASSUME marker # "committing", TypeOK PROVE Durable = file
BY DEF Durable, TypeOK

-----------------------------------------------------------------------------
(* What a step makes of Durable. *)

(* Nothing but the last write of the transaction file changes what is      *)
(* durable, and it makes it the transaction of its session.                *)
LEMMA DurableStep ==
    ASSUME IInv, RecoveryWorks, NEW u \in User,
           Recover(u) \/ Commit(u)
    PROVE  Durable' = IF FillMarker(u) THEN [f \in File |-> txn[u]] ELSE Durable
<1> USE DEF IInv
<1> SessionOk(u) BY DEF SessionInv
<1>1. CASE ReadMarker(u)
  BY <1>1 DEF ReadMarker, Durable, disk, FillMarker
<1>2. CASE RollForward(u)
  <2>1. marker = "committing" /\ marker' = marker /\ ~FillMarker(u)
    BY <1>2 DEF RollForward, SessionOk, FillMarker
  <2>2. \A f \in File : (IF tmp'[f] # Absent THEN tmp'[f] ELSE file'[f])
                      = IF tmp[f] # Absent THEN tmp[f] ELSE file[f]
    BY <1>2 DEF RollForward, TypeOK
  <2> QED BY <2>1, <2>2 DEF Durable
<1>3. CASE RollForwardFails(u)
  BY <1>3 DEF Swallows, RecoveryWorks
<1>4. CASE Discard(u)
  <2>1. marker' = "absent" /\ file' = file /\ tmp' = tmp /\ ~FillMarker(u)
    BY <1>4 DEF Discard, Swallows, RecoveryWorks, FillMarker
  <2>2. marker = "committing" => \A f \in File : tmp[f] = Absent
    BY <1>4 DEF Discard, SessionOk
  <2> QED BY <2>1, <2>2 DEF Durable
<1>5. CASE OpenTmp(u) \/ FillTmp(u) \/ OpenMarker(u)
  <2>1. marker # "committing" /\ marker' # "committing" /\ file' = file /\ ~FillMarker(u)
    BY <1>5 DEF OpenTmp, FillTmp, OpenMarker, SessionOk, Seeing, FillMarker
  <2> QED BY <2>1 DEF Durable
<1>6. CASE FillMarker(u)
  <2>1. \A f \in File : tmp[f] = txn[u]
    BY <1>6 DEF FillMarker, SessionOk
  <2>2. txn[u] # Absent
    BY RegistryAssumption DEF TypeOK
  <2> QED BY <1>6, <2>1, <2>2 DEF FillMarker, Durable
<1>7. CASE Replace(u)
  <2>1. marker = "committing" /\ marker' = marker /\ ~FillMarker(u)
    BY <1>7 DEF Replace, SessionOk, FillMarker
  <2>2. tmp[at[u]] = txn[u] /\ txn[u] # Absent /\ at[u] \in File
    BY <1>7, RegistryAssumption DEF Replace, SessionOk, TypeOK, File
  <2>3. \A f \in File : (IF tmp'[f] # Absent THEN tmp'[f] ELSE file'[f])
                      = IF tmp[f] # Absent THEN tmp[f] ELSE file[f]
    BY <1>7, <2>2 DEF Replace, TypeOK
  <2> QED BY <2>1, <2>3 DEF Durable
<1>8. CASE Unmark(u)
  <2>1. marker = "committing" /\ \A f \in File : tmp[f] = Absent
    BY <1>8 DEF Unmark, SessionOk
  <2>2. marker' = "absent" /\ file' = file /\ ~FillMarker(u)
    BY <1>8 DEF Unmark, FillMarker
  <2> QED BY <2>1, <2>2 DEF Durable
<1> QED BY <1>1, <1>2, <1>3, <1>4, <1>5, <1>6, <1>7, <1>8 DEF Recover, Commit

(* A step that leaves the files alone leaves Durable alone. *)
LEMMA DurableStays ==
    ASSUME UNCHANGED disk PROVE Durable' = Durable
BY DEF disk, Durable

-----------------------------------------------------------------------------
(* The steps of a session keep the types. *)
LEMMA TypeStep ==
    ASSUME IInv, RecoveryWorks, [Next]_vars
    PROVE  TypeOK'
<1> USE RegistryAssumption DEF IInv, Goto
<1> USE TypeOK DEF TypeOK
<1>0. LockType'
  BY LockStep DEF LockType
<1>1. CASE UNCHANGED vars
  BY <1>1 DEF vars, disk, locals
<1>2. CASE Next
  <2> PICK u \in User : \/ Begin(u) \/ Recover(u) \/ Load(u) \/ EndRead(u)
                        \/ Body(u) \/ BodyRaises(u) \/ Commit(u) \/ CommitRaises(u) \/ Crash(u)
    BY <1>2 DEF Next
  <2> SessionOk(u) BY DEF SessionInv
  <2> at[u] \in File /\ 1 \in File BY DEF File
  <2>1. CASE Begin(u)
    BY <1>0, <2>1 DEF Begin, disk, LockType
  <2>2. CASE Load(u)
    <3>1. loaded' = [loaded EXCEPT ![u] = [f \in File |-> Readable(file[f])]]
      BY <2>2 DEF Load
    <3>2. \A f \in File : Readable(file[f]) \in Nat
      BY DEF Readable, Content
    <3> QED BY <1>0, <2>2, <3>1, <3>2 DEF Load, disk, LockType
  <2>3. CASE Body(u)
    BY <1>0, <2>3 DEF Body, disk, LockType
  <2>4. CASE EndRead(u) \/ BodyRaises(u) \/ CommitRaises(u) \/ Crash(u)
    <3>1. End(u) /\ UNCHANGED <<disk, last, txn>>
      BY <2>4 DEF EndRead, BodyRaises, CommitRaises, Crash
    <3>2. outcome' \in [User -> {"none", "committed", "raised"}]
      BY <2>4 DEF EndRead, BodyRaises, CommitRaises, Crash
    <3> QED BY <1>0, <3>1, <3>2 DEF End, disk, Nothing, LockType
  <2>5. CASE Recover(u)
    <3>1. CASE ReadMarker(u)
      BY <1>0, <3>1 DEF ReadMarker, disk, locals, LockType
    <3>2. CASE RollForward(u)
      <4>1. file' \in [File -> Content] /\ tmp' \in [File -> Content \cup {Absent}]
        BY <3>2 DEF RollForward
      <4>2. at' \in [User -> File]
        <5>1. at' = [at EXCEPT ![u] = IF at[u] < Files THEN at[u] + 1 ELSE 1]
          BY <3>2 DEF RollForward
        <5>2. (IF at[u] < Files THEN at[u] + 1 ELSE 1) \in File
          BY DEF File
        <5> QED BY <5>1, <5>2
      <4> QED BY <1>0, <3>2, <4>1, <4>2 DEF RollForward, LockType
    <3>3. CASE Discard(u)
      BY <1>0, <3>3 DEF Discard, locals, LockType
    <3>4. ~RollForwardFails(u)
      BY DEF Swallows, RecoveryWorks
    <3> QED BY <2>5, <3>1, <3>2, <3>3, <3>4 DEF Recover
  <2>6. CASE Commit(u)
    <3>1. CASE OpenTmp(u)
      BY <1>0, <3>1 DEF OpenTmp, locals, LockType, Content
    <3>2. CASE FillTmp(u)
      <4>1. at' \in [User -> File]
        <5>1. at' = [at EXCEPT ![u] = IF at[u] < Files THEN at[u] + 1 ELSE 1]
          BY <3>2 DEF FillTmp, AfterFill
        <5>2. (IF at[u] < Files THEN at[u] + 1 ELSE 1) \in File
          BY DEF File
        <5> QED BY <5>1, <5>2
      <4> QED BY <1>0, <3>2, <4>1 DEF FillTmp, LockType, Content
    <3>3. CASE OpenMarker(u) \/ FillMarker(u)
      BY <1>0, <3>3 DEF OpenMarker, FillMarker, locals, LockType
    <3>4. CASE Replace(u)
      <4>1. tmp[at[u]] = txn[u]
        BY <3>4 DEF Replace, SessionOk, File
      <4>2. file' \in [File -> Content] /\ tmp' \in [File -> Content \cup {Absent}]
        BY <3>4, <4>1 DEF Replace, Content
      <4>3. at' \in [User -> File]
        <5>1. at' = [at EXCEPT ![u] = IF at[u] < Files THEN at[u] + 1 ELSE 1]
          BY <3>4 DEF Replace
        <5>2. (IF at[u] < Files THEN at[u] + 1 ELSE 1) \in File
          BY DEF File
        <5> QED BY <5>1, <5>2
      <4> QED BY <1>0, <3>4, <4>2, <4>3 DEF Replace, LockType
    <3>5. CASE Unmark(u)
      BY <1>0, <3>5 DEF Unmark, End, Nothing, LockType
    <3> QED BY <2>6, <3>1, <3>2, <3>3, <3>4, <3>5 DEF Commit
  <2> QED BY <2>1, <2>2, <2>3, <2>4, <2>5, <2>6
<1> QED BY <1>1, <1>2

-----------------------------------------------------------------------------
(* What is durable is of one transaction, and only grows. *)
LEMMA DurableKept ==
    ASSUME IInv, RecoveryWorks, [Next]_vars
    PROVE  /\ DurableInv'
           /\ \A f \in File : Durable'[f] >= Durable[f]
           /\ \/ Durable' = Durable
              \/ \E u \in User : FillMarker(u) /\ Durable' = [f \in File |-> txn[u]]
<1> USE DEF IInv
<1>0. /\ Durable \in [File -> Nat] /\ last \in Nat
      /\ \A f \in File : Durable[f] <= last
      /\ \A f, g \in File : Durable[f] = Durable[g]
  BY DurableType DEF TypeOK
<1>1. CASE Durable' = Durable /\ last' \in Nat /\ last' >= last
  BY <1>0, <1>1 DEF DurableInv
<1>2. CASE UNCHANGED vars
  BY <1>0, <1>1, <1>2, DurableStays DEF vars
<1>3. CASE Next
  <2> PICK u \in User : \/ Begin(u) \/ Recover(u) \/ Load(u) \/ EndRead(u)
                        \/ Body(u) \/ BodyRaises(u) \/ Commit(u) \/ CommitRaises(u) \/ Crash(u)
    BY <1>3 DEF Next
  <2>1. CASE Begin(u) \/ Load(u) \/ EndRead(u) \/ Body(u) \/ BodyRaises(u) \/ CommitRaises(u) \/ Crash(u)
    <3>1. UNCHANGED disk /\ last' \in Nat /\ last' >= last
      BY <1>0, <2>1 DEF Begin, Load, EndRead, Body, BodyRaises, CommitRaises, Crash
    <3> QED BY <1>1, <3>1, DurableStays
  <2>2. CASE Recover(u) \/ Commit(u)
    <3>1. last' = last
      BY <2>2 DEF Recover, ReadMarker, RollForward, RollForwardFails, Discard,
                  Commit, OpenTmp, FillTmp, OpenMarker, FillMarker, Replace, Unmark
    <3>2. Durable' = IF FillMarker(u) THEN [f \in File |-> txn[u]] ELSE Durable
      BY <2>2, DurableStep
    <3>3. CASE FillMarker(u)
      <4>1. txn[u] = last
        BY <3>3 DEF FillMarker, SessionInv, SessionOk, Writing
      <4> QED BY <1>0, <3>1, <3>2, <3>3, <4>1 DEF DurableInv
    <3> QED BY <1>0, <1>1, <3>1, <3>2, <3>3
  <2> QED BY <2>1, <2>2
<1> QED BY <1>2, <1>3

-----------------------------------------------------------------------------
(* What was reported as committed stays. *)
LEMMA CommittedKept ==
    ASSUME IInv, RecoveryWorks, [Next]_vars
    PROVE  CommittedInv'
<1> USE DEF IInv
<1>0. /\ Durable \in [File -> Nat] /\ Durable' \in [File -> Nat]
      /\ \A f \in File : Durable'[f] >= Durable[f]
  BY DurableType, DurableKept, TypeStep DEF Durable, TypeOK
<1>1. SUFFICES ASSUME NEW v \in User, outcome'[v] = "committed", NEW f \in File
               PROVE  Durable'[f] >= txn'[v]
  BY DEF CommittedInv
<1>2. txn[v] \in Nat
  BY DEF TypeOK
<1>3. CASE outcome[v] = "committed" /\ txn'[v] = txn[v]
  BY <1>0, <1>2, <1>3 DEF CommittedInv
<1>4. CASE UNCHANGED vars
  BY <1>1, <1>3, <1>4 DEF vars, locals
<1>5. CASE Next
  <2> PICK u \in User : \/ Begin(u) \/ Recover(u) \/ Load(u) \/ EndRead(u)
                        \/ Body(u) \/ BodyRaises(u) \/ Commit(u) \/ CommitRaises(u) \/ Crash(u)
    BY <1>5 DEF Next
  <2>1. CASE Unmark(u) /\ u = v
    <3>1. Durable' = Durable
      BY <2>1, DurableStep DEF Commit, Unmark, FillMarker
    <3>2. marker = "committing" /\ file[f] = txn[u] /\ tmp[f] = Absent
      BY <2>1 DEF SessionInv, SessionOk, Unmark
    <3>3. Durable[f] = txn[u] /\ txn' = txn
      BY <2>1, <3>2 DEF Durable, Unmark
    <3> QED BY <1>2, <2>1, <3>1, <3>3
  <2>2. CASE Body(u) \/ BodyRaises(u) \/ CommitRaises(u) \/ Crash(u) \/ (Unmark(u) /\ u # v)
    BY <1>1, <1>3, <2>2 DEF Body, BodyRaises, CommitRaises, Crash, Unmark, TypeOK
  <2>3. CASE Begin(u) \/ Load(u) \/ EndRead(u) \/ Recover(u)
    BY <1>1, <1>3, <2>3
    DEF Begin, Load, EndRead, Recover, ReadMarker, RollForward, RollForwardFails, Discard, locals
  <2>4. CASE OpenTmp(u) \/ FillTmp(u) \/ OpenMarker(u) \/ FillMarker(u) \/ Replace(u)
    BY <1>1, <1>3, <2>4 DEF OpenTmp, FillTmp, OpenMarker, FillMarker, Replace, locals
  <2> QED BY <2>1, <2>2, <2>3, <2>4 DEF Commit
<1> QED BY <1>4, <1>5

-----------------------------------------------------------------------------
(* How far each session has come. *)

LEMMA IdleOk ==
    ASSUME NEW v \in User, pc'[v] = "idle", at'[v] = 1
    PROVE  SessionOk(v)'
BY DEF SessionOk, Seeing, Writing

(* A step of u leaves the others where they are. *)
LEMMA BystandersOk ==
    ASSUME IInv, NEW u \in User, pc[u] # "idle" \/ lock = NoOne,
           \A v \in User \ {u} : pc'[v] = pc[v] /\ at'[v] = at[v]
    PROVE  \A v \in User \ {u} : SessionOk(v)'
<1> USE DEF IInv
<1> TAKE v \in User \ {u}
<1>1. pc[v] = "idle"
  BY RegistryAssumption DEF OneSession
<1>2. at[v] = 1
  BY <1>1 DEF SessionInv, SessionOk
<1> QED BY <1>1, <1>2, IdleOk

(* The steps of a recovery and of the loading. *)
LEMMA RecoverOk ==
    ASSUME IInv, RecoveryWorks, NEW u \in User, Begin(u) \/ Recover(u) \/ Load(u)
    PROVE  SessionInv'
<1> USE DEF IInv, Goto
<1> SessionOk(u) BY DEF SessionInv
<1> pc \in [User -> Points] /\ at \in [User -> File] BY DEF TypeOK
<1> at[u] \in Nat /\ Files \in Nat /\ 1 \in File /\ File \subseteq Nat
  BY RegistryAssumption DEF File
<1> SUFFICES SessionOk(u)' /\ \A v \in User \ {u} : SessionOk(v)'
  BY DEF SessionInv
<1>1. CASE Begin(u)
  <2>1. pc' = [pc EXCEPT ![u] = "recover"] /\ at' = at /\ at[u] = 1 /\ lock = NoOne
    BY <1>1 DEF Begin, SessionOk
  <2> QED BY <2>1, BystandersOk DEF SessionOk, Seeing, Writing
<1>2. CASE ReadMarker(u)
  <2>1. pc' = [pc EXCEPT ![u] = AfterMarker] /\ UNCHANGED <<at, marker, tmp>> /\ at[u] = 1 /\ pc[u] = "recover"
    BY <1>2 DEF ReadMarker, disk, locals, SessionOk
  <2>2. \/ marker = "absent" /\ pc'[u] = "load"
        \/ marker = "torn" /\ pc'[u] = "discard"
        \/ marker = "committing" /\ pc'[u] = "roll"
    BY <2>1 DEF AfterMarker, TypeOK
  <2>3. \A f \in File : ~ f < at'[u]
    BY <2>1 DEF File
  <2> QED BY <2>1, <2>2, <2>3, BystandersOk DEF SessionOk, Seeing, Writing
<1>3. CASE RollForward(u)
  <2>1. pc[u] = "roll" /\ marker' = marker /\ marker = "committing"
    BY <1>3 DEF RollForward, SessionOk
  <2>2. \A f \in File : f <= at[u] => tmp'[f] = Absent
    <3>1. \A f \in File : f < at[u] => tmp[f] = Absent
      BY <2>1 DEF SessionOk
    <3>2. \A f \in File : tmp'[f] = IF f = at[u] THEN Absent ELSE tmp[f]
      BY <1>3 DEF RollForward, TypeOK
    <3> QED BY <3>1, <3>2 DEF File
  <2>3. \A v \in User \ {u} : pc'[v] = pc[v] /\ at'[v] = at[v]
    BY <1>3 DEF RollForward
  <2>4. CASE at[u] < Files
    <3>1. pc'[u] = "roll" /\ at'[u] = at[u] + 1
      BY <1>3, <2>1, <2>4 DEF RollForward
    <3>2. \A f \in File : f < at'[u] => tmp'[f] = Absent
      BY <2>2, <3>1 DEF File
    <3> QED BY <2>1, <2>3, <3>1, <3>2, BystandersOk DEF SessionOk, Seeing, Writing
  <2>5. CASE ~ at[u] < Files
    <3>1. pc'[u] = "discard" /\ at'[u] = 1
      BY <1>3, <2>5 DEF RollForward
    <3>2. \A f \in File : tmp'[f] = Absent
      BY <2>2, <2>5 DEF File
    <3> QED BY <2>1, <2>3, <3>1, <3>2, BystandersOk DEF SessionOk, Seeing, Writing
  <2> QED BY <2>4, <2>5
<1>4. CASE RollForwardFails(u)
  BY <1>4 DEF Swallows, RecoveryWorks
<1>5. CASE Discard(u)
  <2>1. pc' = [pc EXCEPT ![u] = "load"] /\ at' = at /\ marker' = "absent" /\ at[u] = 1 /\ pc[u] = "discard"
    BY <1>5 DEF Discard, locals, Swallows, RecoveryWorks, SessionOk
  <2> QED BY <2>1, BystandersOk DEF SessionOk, Seeing, Writing
<1>6. CASE Load(u)
  <2>1. pc[u] = "load" /\ UNCHANGED <<at, marker, file>> /\ at[u] = 1 /\ marker # "committing"
    BY <1>6 DEF Load, disk, SessionOk
  <2>2. \E point \in {"read", "body"} : pc' = [pc EXCEPT ![u] = point]
    BY <1>6 DEF Load
  <2>3. Durable = file /\ Durable' = Durable
    BY <1>6, <2>1, DurableFile, DurableStays DEF Load
  <2>4. \A f \in File : Readable(file[f]) = file[f]
    BY <2>3, DurableType, RegistryAssumption DEF Readable
  <2>5. loaded'[u] = file
    <3>1. loaded'[u] = [f \in File |-> Readable(file[f])]
      BY <1>6 DEF Load, TypeOK
    <3> QED BY <2>4, <3>1 DEF TypeOK
  <2> QED BY <2>1, <2>2, <2>3, <2>5, BystandersOk DEF SessionOk, Seeing, Writing
<1> QED BY <1>1, <1>2, <1>3, <1>4, <1>5, <1>6 DEF Recover

(* However a session ends, all are idle. *)
LEMMA EndOk ==
    ASSUME IInv, NEW u \in User, pc[u] # "idle", End(u)
    PROVE  SessionInv'
<1> USE DEF IInv, Goto
<1>1. pc' = [pc EXCEPT ![u] = "idle"] /\ at' = [at EXCEPT ![u] = 1]
  BY DEF End
<1>2. pc'[u] = "idle" /\ at'[u] = 1
  BY <1>1 DEF TypeOK
<1> QED BY <1>1, <1>2, IdleOk, BystandersOk DEF SessionInv

(* The body of the with statement. *)
LEMMA BodyOk ==
    ASSUME IInv, NEW u \in User, Body(u)
    PROVE  SessionInv'
<1> USE DEF IInv, Goto
<1> SessionOk(u) BY DEF SessionInv
<1>1. /\ pc' = [pc EXCEPT ![u] = "write"] /\ pc[u] = "body" /\ at[u] = 1
      /\ UNCHANGED <<at, marker, loaded>>
      /\ last' = last + 1 /\ txn' = [txn EXCEPT ![u] = last + 1]
  BY DEF Body, disk, SessionOk
<1>2. Durable' = Durable
  BY DurableStays DEF Body
<1>3. /\ pc'[u] = "write" /\ at'[u] = 1 /\ txn'[u] = last' /\ loaded'[u] = Durable'
      /\ marker' # "committing"
  BY <1>1, <1>2 DEF TypeOK, SessionOk, Seeing
<1>4. \A f \in File : loaded'[u][f] < txn'[u]
  BY <1>1, <1>2, <1>3, DurableType DEF TypeOK
<1>5. \A f \in File : ~ f < at'[u]
  BY <1>3 DEF File
<1> QED BY <1>1, <1>3, <1>4, <1>5, BystandersOk DEF SessionOk, SessionInv, Seeing, Writing

(* The steps of a commit. *)
LEMMA CommitOk ==
    ASSUME IInv, RecoveryWorks, NEW u \in User, Commit(u)
    PROVE  SessionInv'
<1> USE DEF IInv, Goto
<1> SessionOk(u) BY DEF SessionInv
<1> pc \in [User -> Points] /\ at \in [User -> File] BY DEF TypeOK
<1> at[u] \in Nat /\ Files \in Nat /\ 1 \in File /\ File \subseteq Nat
  BY RegistryAssumption DEF File
<1>0. Durable' = IF FillMarker(u) THEN [f \in File |-> txn[u]] ELSE Durable
  BY DurableStep
<1>s. SUFFICES ASSUME ~Unmark(u) PROVE SessionOk(u)' /\ \A v \in User \ {u} : SessionOk(v)'
  BY EndOk DEF SessionInv, Unmark
<1>1. CASE OpenTmp(u)
  <2>1. /\ pc' = [pc EXCEPT ![u] = "fill"] /\ pc[u] = "write" /\ marker # "committing"
        /\ UNCHANGED <<at, marker, loaded, txn, last>> /\ loaded[u] = Durable /\ txn[u] = last
    BY <1>1 DEF OpenTmp, locals, SessionOk, Seeing, Writing
  <2>2. \A f \in File : f < at[u] => tmp'[f] = txn[u]
    <3>1. \A f \in File : f < at[u] => tmp[f] = txn[u]
      BY <2>1 DEF SessionOk
    <3>2. \A f \in File : f # at[u] => tmp'[f] = tmp[f]
      BY <1>1 DEF OpenTmp, TypeOK
    <3> QED BY <3>1, <3>2 DEF File
  <2>3. Durable' = Durable
    BY <1>0, <2>1 DEF FillMarker
  <2>4. \A f \in File : loaded[u][f] < txn[u]
    BY <2>1 DEF SessionOk, Seeing, Writing
  <2>5. \A v \in User \ {u} : SessionOk(v)'
    BY <2>1, BystandersOk
  <2> QED BY <2>1, <2>2, <2>3, <2>4, <2>5 DEF SessionOk, Seeing, Writing
<1>2. CASE FillTmp(u)
  <2>1. /\ pc[u] = "fill" /\ marker # "committing"
        /\ UNCHANGED <<marker, loaded, txn, last>> /\ loaded[u] = Durable /\ txn[u] = last
    BY <1>2 DEF FillTmp, SessionOk, Seeing, Writing
  <2>2. \A f \in File : f <= at[u] => tmp'[f] = txn[u]
    <3>1. \A f \in File : f < at[u] => tmp[f] = txn[u]
      BY <2>1 DEF SessionOk
    <3>2. \A f \in File : tmp'[f] = IF f = at[u] THEN txn[u] ELSE tmp[f]
      BY <1>2 DEF FillTmp, TypeOK
    <3> QED BY <3>1, <3>2 DEF File
  <2>3. Durable' = Durable
    BY <1>0, <2>1 DEF FillMarker
  <2>4. \A f \in File : loaded[u][f] < txn[u]
    BY <2>1 DEF SessionOk, Seeing, Writing
  <2>5. \A v \in User \ {u} : SessionOk(v)'
    BY <1>2, <2>1, BystandersOk DEF FillTmp
  <2>6. CASE at[u] < Files
    <3>1. pc'[u] = "write" /\ at'[u] = at[u] + 1
      BY <1>2, <2>6 DEF FillTmp, AfterFill
    <3>2. \A f \in File : f < at'[u] => tmp'[f] = txn[u]
      BY <2>2, <3>1 DEF File
    <3> QED BY <2>1, <2>3, <2>4, <2>5, <3>1, <3>2 DEF SessionOk, Seeing, Writing
  <2>7. CASE ~ at[u] < Files
    <3>1. pc'[u] = "mark" /\ at'[u] = 1
      BY <1>2, <2>7 DEF FillTmp, AfterFill
    <3>2. \A f \in File : tmp'[f] = txn[u]
      BY <2>2, <2>7 DEF File
    <3> QED BY <2>1, <2>3, <2>4, <2>5, <3>1, <3>2 DEF SessionOk, Seeing, Writing
  <2> QED BY <2>6, <2>7
<1>3. CASE OpenMarker(u)
  <2>1. /\ pc' = [pc EXCEPT ![u] = "fillMark"] /\ pc[u] = "mark" /\ marker' = "torn" /\ at[u] = 1
        /\ UNCHANGED <<at, tmp, loaded, txn, last>> /\ loaded[u] = Durable /\ txn[u] = last
    BY <1>3 DEF OpenMarker, locals, SessionOk, Seeing, Writing
  <2>2. Durable' = Durable
    BY <1>0, <2>1 DEF FillMarker
  <2>3. \A f \in File : loaded[u][f] < txn[u] /\ tmp[f] = txn[u]
    BY <2>1 DEF SessionOk, Seeing, Writing
  <2>4. \A v \in User \ {u} : SessionOk(v)'
    BY <2>1, BystandersOk
  <2> QED BY <2>1, <2>2, <2>3, <2>4 DEF SessionOk, Seeing, Writing
<1>4. CASE FillMarker(u)
  <2>1. /\ pc' = [pc EXCEPT ![u] = "replace"] /\ pc[u] = "fillMark" /\ marker' = "committing" /\ at[u] = 1
        /\ UNCHANGED <<at, tmp, loaded, txn, last>> /\ txn[u] = last
    BY <1>4 DEF FillMarker, locals, SessionOk, Writing
  <2>2. \A f \in File : tmp[f] = txn[u] /\ ~ f < at[u]
    BY <2>1 DEF SessionOk, File
  <2>3. \A v \in User \ {u} : SessionOk(v)'
    BY <2>1, BystandersOk
  <2> QED BY <2>1, <2>2, <2>3 DEF SessionOk, Seeing, Writing
<1>5. CASE Replace(u)
  <2>1. /\ pc[u] = "replace" /\ marker' = marker /\ marker = "committing"
        /\ UNCHANGED <<txn, last>> /\ txn[u] = last
    BY <1>5 DEF Replace, SessionOk, Writing
  <2>2. \A f \in File : IF f <= at[u] THEN file'[f] = txn[u] /\ tmp'[f] = Absent
                                     ELSE tmp'[f] = txn[u]
    <3>1. \A f \in File : IF f < at[u] THEN file[f] = txn[u] /\ tmp[f] = Absent
                                      ELSE tmp[f] = txn[u]
      BY <2>1 DEF SessionOk
    <3>2. \A f \in File : /\ tmp'[f] = IF f = at[u] THEN Absent ELSE tmp[f]
                         /\ file'[f] = IF f = at[u] THEN tmp[f] ELSE file[f]
      BY <1>5 DEF Replace, TypeOK
    <3> QED BY <3>1, <3>2 DEF File
  <2>3. \A v \in User \ {u} : SessionOk(v)'
    BY <1>5, <2>1, BystandersOk DEF Replace
  <2>4. CASE at[u] < Files
    <3>1. pc'[u] = "replace" /\ at'[u] = at[u] + 1
      BY <1>5, <2>1, <2>4 DEF Replace
    <3>2. \A f \in File : f < at'[u] <=> f <= at[u]
      BY <3>1 DEF File
    <3> QED BY <2>1, <2>2, <2>3, <3>1, <3>2 DEF SessionOk, Seeing, Writing
  <2>5. CASE ~ at[u] < Files
    <3>1. pc'[u] = "unmark" /\ at'[u] = 1
      BY <1>5, <2>5 DEF Replace
    <3>2. \A f \in File : file'[f] = txn[u] /\ tmp'[f] = Absent
      BY <2>2, <2>5 DEF File
    <3> QED BY <2>1, <2>3, <3>1, <3>2 DEF SessionOk, Seeing, Writing
  <2> QED BY <2>4, <2>5
<1> QED BY <1>s, <1>1, <1>2, <1>3, <1>4, <1>5 DEF Commit

-----------------------------------------------------------------------------
(* The inductive invariant. *)

LEMMA StutterOk ==
    ASSUME IInv, UNCHANGED vars PROVE SessionInv'
<1> Durable' = Durable
  BY DurableStays DEF vars
<1> QED BY DEF IInv, SessionInv, SessionOk, vars, disk, locals

LEMMA InitOk == Init => IInv
<1> SUFFICES ASSUME Init PROVE IInv
  OBVIOUS
<1> USE RegistryAssumption DEF Init
<1>1. TypeOK
  BY DEF TypeOK, Points, Nothing, File, Content
<1>2. Durable = Nothing
  BY DEF Durable, Nothing
<1>3. DurableInv
  BY <1>2 DEF DurableInv, Nothing
<1>4. SessionInv
  BY DEF SessionInv, SessionOk, Seeing, Writing
<1>5. OneSession /\ CommittedInv
  BY DEF OneSession, CommittedInv
<1> QED BY <1>1, <1>3, <1>4, <1>5 DEF IInv

LEMMA StepOk ==
    ASSUME IInv, RecoveryWorks, [Next]_vars
    PROVE  IInv'
<1> USE DEF IInv
<1>1. TypeOK' /\ OneSession'
  BY TypeStep, LockStep DEF LockType, TypeOK
<1>2. DurableInv' /\ CommittedInv'
  BY DurableKept, CommittedKept
<1>3. SessionInv'
  <2>1. CASE UNCHANGED vars
    BY <2>1, StutterOk
  <2>2. CASE Next
    <3> PICK u \in User : \/ Begin(u) \/ Recover(u) \/ Load(u) \/ EndRead(u)
                          \/ Body(u) \/ BodyRaises(u) \/ Commit(u) \/ CommitRaises(u) \/ Crash(u)
      BY <2>2 DEF Next
    <3>1. CASE EndRead(u) \/ BodyRaises(u) \/ CommitRaises(u) \/ Crash(u)
      <4>1. pc[u] # "idle" /\ End(u)
        BY <3>1 DEF EndRead, BodyRaises, CommitRaises, Crash, OneSession
      <4> QED BY <4>1, EndOk
    <3> QED BY <3>1, RecoverOk, BodyOk, CommitOk
  <2> QED BY <2>1, <2>2
<1> QED BY <1>1, <1>2, <1>3

(* Where nothing is recorded, nothing is swallowed. *)
LEMMA RecoversUnlessSwallowed ==
    ASSUME swallowed \/ IInv, [RegistryNext]_<<vars, swallowed>>, ~swallowed'
    PROVE  IInv /\ [Next]_vars /\ RecoveryWorks
<1>1. IInv /\ [Next]_vars
  BY DEF RegistryNext
<1>2. CASE RegistryNext
  BY <1>1, <1>2 DEF RegistryNext, RecoveryWorks
<1>3. CASE UNCHANGED vars
  <2>1. UNCHANGED pc
    BY <1>3 DEF vars
  <2> QED BY <1>1, <2>1 DEF Swallows, RollForwardFails, Discard, Goto, IInv, TypeOK, RecoveryWorks
<1> QED BY <1>1, <1>2, <1>3

LEMMA Inductive == RegistrySpec => [](swallowed \/ IInv)
<1>1. RegistryInit => swallowed \/ IInv
  BY InitOk DEF RegistryInit
<1>2. (swallowed \/ IInv) /\ [RegistryNext]_<<vars, swallowed>> => (swallowed \/ IInv)'
  BY RecoversUnlessSwallowed, StepOk
<1> QED BY <1>1, <1>2, PTL DEF RegistrySpec

-----------------------------------------------------------------------------
(* The values of the variables: until a recovery swallows an exception,    *)
(* files, temporary files and locals of the sessions keep their types.     *)
THEOREM TypeCorrect == RegistrySpec => [](swallowed \/ TypeOK)
<1>1. IInv => TypeOK
  BY DEF IInv
<1> QED BY <1>1, Inductive, PTL

(* What a session loads from the seven files was written by one            *)
(* transaction, whoever crashes and whatever write or replacement of a     *)
(* commit raises, until a recovery swallows an exception                   *)
(* (_recover_transaction before _load_all).                                *)
THEOREM OneTransactionSeen == RegistrySpec => []ReadsOneTransaction
<1>1. IInv => SeesOneTransaction
  BY DurableType DEF IInv, SeesOneTransaction, SessionInv, SessionOk
<1>2. swallowed \/ IInv => ReadsOneTransaction
  BY <1>1 DEF ReadsOneTransaction
<1> QED BY <1>2, Inductive, PTL

(* Until then, a session sees the latest durable transaction for as long   *)
(* as it runs (_load_all under the lock of the registry).                  *)
THEOREM DurableSeen == RegistrySpec => [](swallowed \/ SessionsSeeDurable)
<1>1. IInv => SessionsSeeDurable
  BY DEF IInv, SessionsSeeDurable, SessionInv, SessionOk
<1> QED BY <1>1, Inductive, PTL

(* And a transaction that returned without an exception is in what every   *)
(* later session loads, or a later one is (the order of the writes in      *)
(* transaction).                                                           *)
THEOREM CommittedLasts == RegistrySpec => [](swallowed \/ CommittedStays)
<1>1. IInv => CommittedStays
  BY DEF IInv, CommittedStays, CommittedInv, SessionInv, SessionOk
<1> QED BY <1>1, Inductive, PTL

-----------------------------------------------------------------------------
(* The files implement a register.                                         *)

(* What the session of each user sees, in the terms of the register. *)
View == [u \in User |->
           CASE pc[u] \in Seeing -> loaded[u]
             [] pc[u] \in {"replace", "unmark"} -> [f \in File |-> txn[u]]
             [] OTHER -> Closed]

(* A step of u that neither loads, commits nor ends. *)
LEMMA ViewStays ==
    ASSUME IInv, NEW u \in User,
           \A v \in User \ {u} : pc'[v] = pc[v],
           \A v \in User \ {u} : pc[v] = "idle",
           \/ pc[u] \in Seeing /\ pc'[u] \in Seeing /\ loaded'[u] = loaded[u]
           \/ /\ pc[u] \in {"replace", "unmark"} /\ pc'[u] \in {"replace", "unmark"}
              /\ txn'[u] = txn[u]
           \/ pc[u] \notin Seeing \cup {"replace", "unmark"} /\ pc'[u] \notin Seeing \cup {"replace", "unmark"}
    PROVE  View' = View
<1>1. \A v \in User \ {u} : View'[v] = View[v]
  BY DEF View, Seeing
<1>2. View'[u] = View[u]
  BY DEF View, Seeing
<1>3. View = [v \in User |-> View[v]] /\ View' = [v \in User |-> View'[v]]
  BY DEF View
<1> QED BY <1>1, <1>2, <1>3

LEMMA ViewUpdate ==
    ASSUME NEW u \in User, NEW x, View'[u] = x, \A v \in User \ {u} : View'[v] = View[v]
    PROVE  View' = [View EXCEPT ![u] = x]
<1>1. View = [v \in User |-> View[v]] /\ View' = [v \in User |-> View'[v]]
  BY DEF View
<1> QED BY <1>1

LEMMA RegisterInit == Init => Register!Init
BY DEF Init, Register!Init, Durable, Seeing, Nothing

LEMMA RegisterStep ==
    ASSUME IInv, RecoveryWorks, [Next]_vars
    PROVE  [Register!Next]_(Register!vars)
<1> USE DEF IInv
<1>0. SUFFICES \/ Durable' = Durable /\ View' = View
               \/ \E u \in User :
                    \/ /\ \A v \in User : View[v] = Closed
                       /\ View' = [View EXCEPT ![u] = Durable] /\ Durable' = Durable
                    \/ /\ View[u] = Durable /\ Durable' \in [File -> Nat]
                       /\ \A f, g \in File : Durable[f] < Durable'[f] /\ Durable'[f] = Durable'[g]
                       /\ View' = [View EXCEPT ![u] = Durable']
                    \/ View' = [View EXCEPT ![u] = Closed] /\ Durable' = Durable
  BY DEF Register!Next, Register!vars, Register!Open, Register!Commit, Register!Close, View
<1>1. CASE UNCHANGED vars
  BY <1>1, DurableStays DEF vars, locals, View
<1>2. CASE Next
  <2> PICK u \in User : \/ Begin(u) \/ Recover(u) \/ Load(u) \/ EndRead(u)
                        \/ Body(u) \/ BodyRaises(u) \/ Commit(u) \/ CommitRaises(u) \/ Crash(u)
    BY <1>2 DEF Next
  <2> SessionOk(u) BY DEF SessionInv
  <2> pc \in [User -> Points] BY DEF TypeOK
  <2>0. \A v \in User \ {u} : pc[v] = "idle"
    BY RegistryAssumption
    DEF OneSession, Begin, Recover, ReadMarker, RollForward, RollForwardFails, Discard, Load, EndRead,
        Body, BodyRaises, Commit, OpenTmp, FillTmp, OpenMarker, FillMarker, Replace, Unmark, CommitRaises, Crash
  <2>1. CASE End(u) /\ Durable' = Durable
    <3>1. \A v \in User \ {u} : View'[v] = Closed /\ View[v] = Closed
      BY <2>0, <2>1 DEF End, Goto, View, Seeing
    <3>2. View'[u] = Closed
      BY <2>1 DEF End, Goto, View, Seeing
    <3>3. View' = [View EXCEPT ![u] = Closed]
      BY <3>1, <3>2, ViewUpdate
    <3> QED BY <2>1, <3>3
  <2>2. CASE EndRead(u) \/ BodyRaises(u) \/ CommitRaises(u) \/ Crash(u)
    BY <2>1, <2>2, DurableStays DEF EndRead, BodyRaises, CommitRaises, Crash
  <2>3. CASE Unmark(u)
    BY <2>1, <2>3, DurableStep DEF Unmark, Commit, FillMarker
  <2>4. CASE Load(u)
    <3>1. pc[u] = "load" /\ Durable' = Durable /\ \E point \in {"read", "body"} : pc' = [pc EXCEPT ![u] = point]
      BY <2>4, DurableStays DEF Load, Goto
    <3>2. SessionInv'
      BY <2>4, RecoverOk
    <3>3. loaded'[u] = Durable
      BY <3>1, <3>2 DEF SessionInv, SessionOk, Seeing
    <3>4. \A v \in User : View[v] = Closed
      BY <2>0, <3>1 DEF View, Seeing
    <3>5. View'[u] = Durable /\ \A v \in User \ {u} : View'[v] = Closed
      BY <2>0, <3>1, <3>3 DEF View, Seeing
    <3>6. View' = [View EXCEPT ![u] = Durable]
      BY <3>4, <3>5, ViewUpdate
    <3> QED BY <3>1, <3>4, <3>6
  <2>5. CASE FillMarker(u)
    <3>1. Durable' = [f \in File |-> txn[u]] /\ pc[u] = "fillMark" /\ pc' = [pc EXCEPT ![u] = "replace"]
          /\ txn' = txn
      BY <2>5, DurableStep DEF Commit, FillMarker, Goto, locals
    <3>2. View[u] = Durable /\ \A f \in File : Durable[f] < txn[u]
      BY <3>1 DEF View, SessionOk, Seeing, Writing
    <3>3. txn[u] \in Nat
      BY DEF TypeOK
    <3>4. \A v \in User \ {u} : View'[v] = View[v]
      BY <2>0, <3>1 DEF View, Seeing
    <3>5. View'[u] = Durable'
      BY <3>1 DEF View, Seeing
    <3>6. View' = [View EXCEPT ![u] = Durable']
      BY <3>4, <3>5, ViewUpdate
    <3> QED BY <3>1, <3>2, <3>3, <3>6
  <2>6. CASE Begin(u) \/ Recover(u) \/ Body(u) \/ OpenTmp(u) \/ FillTmp(u) \/ OpenMarker(u) \/ Replace(u)
    <3>1. Durable' = Durable
      <4>1. CASE Begin(u) \/ Body(u)
        BY <4>1, DurableStays DEF Begin, Body
      <4>2. CASE Recover(u) \/ OpenTmp(u) \/ FillTmp(u) \/ OpenMarker(u) \/ Replace(u)
        <5>1. ~FillMarker(u)
          BY <4>2 DEF Recover, ReadMarker, RollForward, RollForwardFails, Discard,
                      OpenTmp, FillTmp, OpenMarker, Replace, FillMarker
        <5> QED BY <4>2, <5>1, DurableStep DEF Commit
      <4> QED BY <2>6, <4>1, <4>2
    <3>2. View' = View
      <4>1. CASE Begin(u) \/ RollForwardFails(u) \/ Discard(u)
        BY <2>0, <4>1, ViewStays DEF Begin, RollForwardFails, Discard, Goto, Seeing
      <4>4. CASE ReadMarker(u)
        <5>1. AfterMarker \in {"load", "discard", "roll"}
          BY DEF AfterMarker, TypeOK
        <5> QED BY <2>0, <4>4, <5>1, ViewStays DEF ReadMarker, Goto, Seeing
      <4>2. CASE RollForward(u) \/ Replace(u)
        BY <2>0, <4>2, ViewStays DEF RollForward, Replace, Goto, Seeing
      <4>3. CASE Body(u) \/ OpenTmp(u) \/ FillTmp(u) \/ OpenMarker(u)
        BY <2>0, <4>3, ViewStays DEF Body, OpenTmp, FillTmp, OpenMarker, AfterFill, Goto, Seeing, locals
      <4> QED BY <2>6, <4>1, <4>2, <4>3, <4>4 DEF Recover
    <3> QED BY <3>1, <3>2
  <2> QED BY <2>2, <2>3, <2>4, <2>5, <2>6 DEF Commit
<1> QED BY <1>1, <1>2

(* Until then, seven files and a transaction file are one register: no     *)
(* session sees a mixture, and no commit overwrites one it has not seen    *)
(* (transaction, read_transaction, _recover_transaction).                  *)
THEOREM RegisterImplemented == RegistrySpec => ImplementsRegisterUntilSwallowed
<1>1. RegistryInit => Register!Init
  BY RegisterInit DEF RegistryInit
<1>2. (swallowed \/ IInv) /\ [RegistryNext]_<<vars, swallowed>>
        => [swallowed' \/ Register!Next]_(Register!vars)
  <2> SUFFICES ASSUME swallowed \/ IInv, [RegistryNext]_<<vars, swallowed>>, ~swallowed'
               PROVE  [Register!Next]_(Register!vars)
    OBVIOUS
  <2>1. IInv /\ [Next]_vars /\ RecoveryWorks
    BY RecoversUnlessSwallowed
  <2> QED BY <2>1, RegisterStep
<1> QED BY <1>1, <1>2, Inductive, PTL DEF RegistrySpec, ImplementsRegisterUntilSwallowed

OrphanFold == INSTANCE FoldLaws WITH Op <- Orphan
ReturnFold == INSTANCE FoldLaws WITH Op <- Return
AllocateFold == INSTANCE FoldLaws WITH Op <- Allocate

\* A set of numbers that is not empty has a least one.
LEMMA LeastNumber ==
    ASSUME NEW T \in SUBSET Nat, T # {}
    PROVE  Min(T) \in T /\ \A m \in T : Min(T) <= m
<1>1. \E n \in T : \A m \in T : n <= m
    <2> SUFFICES ASSUME \A n \in T : \E m \in T : ~ (n <= m) PROVE FALSE
        OBVIOUS
    <2> DEFINE U == {n \in Nat : \A m \in 0 .. n : m \notin T}
    <2>1. 0 \in U   OBVIOUS
    <2>2. \A n \in U : n + 1 \in U   OBVIOUS
    <2>3. \A n \in Nat : n \in U
        <3> HIDE DEF U
        <3>1. U \in SUBSET Nat   BY DEF U
        <3> QED BY <2>1, <2>2, <3>1, OrphanFold!NumbersByInduction
    <2>4. \A n \in Nat : n \notin T   BY <2>3
    <2> QED BY <2>4
<1> QED BY <1>1 DEF Min

\* The values of a function on a finite set are finitely many.
LEMMA ValuesFinite ==
    ASSUME NEW S, IsFiniteSet(S), NEW f, DOMAIN f = S
    PROVE  /\ IsFiniteSet({f[x] : x \in S})
           /\ Cardinality({f[x] : x \in S}) <= Cardinality(S)
<1> DEFINE T == {f[x] : x \in S}
           g == [x \in S |-> f[x]]
<1>1. g \in Surjection(S, T)   BY DEF Surjection
<1> QED BY <1>1, FS_Surjection

----------------------------------------------------------------------------
(* The identities *)

Id == [slot : Slot, generation : Nat \ {0}]
Entry(k) == [id : Id, item : LineageItems(k)]
RegisterOf(k) ==
    [active : UNION {[D -> Id] : D \in SUBSET LineageItems(k)},
     recovery : Seq(Entry(k)), generations : [Slot -> Nat]]

\* What identities a register holds, and for which item.
Held(r) ==
    {<<r.active[n], n>> : n \in DOMAIN r.active}
    \cup {<<r.recovery[i].id, r.recovery[i].item>> : i \in DOMAIN r.recovery}

\* No identity, held or published, stands for two items, and none is of a
\* generation its slot has not had.
Sound(r, published) ==
    \A h \in Held(r) \cup published :
        /\ h[1].generation <= r.generations[h[1].slot]
        /\ \A g \in Held(r) \cup published : h[1] = g[1] => h[2] = g[2]

LEMMA ItemsFinite ==
    ASSUME NEW k \in Kind
    PROVE  IsFiniteSet(LineageItems(k))
<1>1. CASE k = "module"
    <2> DEFINE f == [m \in LineageModule |-> <<m, "">>]
    <2>1. IsFiniteSet({f[m] : m \in LineageModule})
        <3>1. IsFiniteSet(LineageModule)   BY LineageAssumption
        <3>2. DOMAIN f = LineageModule   OBVIOUS
        <3> HIDE DEF f
        <3> QED BY <3>1, <3>2, ValuesFinite
    <2>2. {f[m] : m \in LineageModule} = LineageItems(k)   BY <1>1 DEF LineageItems
    <2> QED BY <2>1, <2>2
<1>2. CASE k = "artifact"
    <2> DEFINE P == LineageModule \X (1 .. LastVersion)
               F == [p \in P |-> {<<p[1], d.name>> : d \in Written(p[1], p[2]).defs}]
    <2>1. ASSUME NEW p \in P PROVE IsFiniteSet(F[p])
        <3> DEFINE g == [d \in Written(p[1], p[2]).defs |-> <<p[1], d.name>>]
        <3>1. IsFiniteSet({g[d] : d \in Written(p[1], p[2]).defs})
            <4>1. IsFiniteSet(Written(p[1], p[2]).defs)   BY LineageAssumption
            <4>2. DOMAIN g = Written(p[1], p[2]).defs   OBVIOUS
            <4> HIDE DEF g
            <4> QED BY <4>1, <4>2, ValuesFinite
        <3>2. {g[d] : d \in Written(p[1], p[2]).defs} = F[p]   OBVIOUS
        <3> QED BY <3>1, <3>2
    <2>2. IsFiniteSet(P)
        <3>1. IsFiniteSet(LineageModule) /\ 1 \in Int /\ LastVersion \in Int   BY LineageAssumption
        <3>2. IsFiniteSet(1 .. LastVersion)   BY <3>1, FS_Interval
        <3> QED BY <3>1, <3>2, FS_Product
    <2>3. IsFiniteSet({F[p] : p \in P})
        <3>1. DOMAIN F = P   OBVIOUS
        <3> HIDE DEF F, P
        <3> QED BY <2>2, <3>1, ValuesFinite
    <2>4. IsFiniteSet(UNION {F[p] : p \in P})   BY <2>1, <2>3, FS_UNION
    <2>5. UNION {F[p] : p \in P} = LineageItems(k)
        <3>1. LineageItems(k) = UNION {{<<m, d.name>> : d \in Written(m, v).defs} : m \in LineageModule, v \in 1 .. LastVersion}
            BY <1>2 DEF LineageItems
        <3>2. \A m \in LineageModule, v \in 1 .. LastVersion :
                <<m, v>> \in P /\ F[<<m, v>>] = {<<m, d.name>> : d \in Written(m, v).defs}
            OBVIOUS
        <3>3. \A p \in P : p[1] \in LineageModule /\ p[2] \in 1 .. LastVersion
                /\ F[p] = {<<p[1], d.name>> : d \in Written(p[1], p[2]).defs}
            OBVIOUS
        <3> HIDE DEF F, P
        <3>4. ASSUME NEW x \in LineageItems(k) PROVE x \in UNION {F[p] : p \in P}
            <4>1. PICK m \in LineageModule, v \in 1 .. LastVersion :
                     x \in {<<m, d.name>> : d \in Written(m, v).defs}
                BY <3>1, <3>4
            <4> QED BY <4>1, <3>2
        <3>5. ASSUME NEW x \in UNION {F[p] : p \in P} PROVE x \in LineageItems(k)
            <4>1. PICK p \in P : x \in F[p]   OBVIOUS
            <4> QED BY <4>1, <3>1, <3>3
        <3> QED BY <3>4, <3>5
    <2> QED BY <2>4, <2>5
<1> QED BY <1>1, <1>2 DEF Kind

LEMMA NewSlot ==
    ASSUME NEW k \in Kind, NEW r \in RegisterOf(k), NEW n \in LineageItems(k) \ DOMAIN r.active
    PROVE  AllocateSlot(r) \in Id /\ AllocateSlot(r).generation = r.generations[AllocateSlot(r).slot] + 1
<1> DEFINE D == DOMAIN r.active
           used == {r.active[q].slot : q \in D}
<1>1. D \in SUBSET LineageItems(k) /\ \A q \in D : r.active[q] \in Id   BY DEF RegisterOf
<1>2. IsFiniteSet(LineageItems(k)) /\ IsFiniteSet(D) /\ Cardinality(D) < Cardinality(LineageItems(k))
    <2>1. IsFiniteSet(LineageItems(k))   BY ItemsFinite
    <2>2. IsFiniteSet(D) /\ Cardinality(D) <= Cardinality(LineageItems(k))
          /\ Cardinality(D) # Cardinality(LineageItems(k))
        <3> HIDE DEF D
        <3> QED BY <1>1, <2>1, FS_Subset DEF D
    <2>3. Cardinality(D) \in Nat /\ Cardinality(LineageItems(k)) \in Nat   BY <2>1, <2>2, FS_CardinalityType
    <2> QED BY <2>1, <2>2, <2>3
<1>3. Slot \ used # {}
    <2> SUFFICES ASSUME Slot \ used = {} PROVE FALSE
        OBVIOUS
    <2> DEFINE f == [q \in D |-> r.active[q].slot]
    <2>1. used = Slot   BY <1>1 DEF Id
    <2>2. {f[q] : q \in D} = Slot   BY <2>1
    <2>3. IsFiniteSet(Slot) /\ Cardinality(Slot) <= Cardinality(D)
        <3>1. DOMAIN f = D   OBVIOUS
        <3> HIDE DEF D, f
        <3> QED BY <1>2, <2>2, <3>1, ValuesFinite
    <2>4. Cardinality(LineageItems(k)) <= Cardinality(Slot)   BY <2>3, LineageAssumption DEF Kind
    <2>5. Cardinality(Slot) \in Nat /\ Cardinality(D) \in Nat /\ Cardinality(LineageItems(k)) \in Nat
        BY <2>3, <1>2, FS_CardinalityType
    <2> QED BY <2>3, <2>4, <2>5, <1>2
<1>4. Slot \ used \in SUBSET Nat   BY LineageAssumption
<1>5. Min(Slot \ used) \in Slot
    <2> HIDE DEF used
    <2>1. Min(Slot \ used) \in Slot \ used   BY <1>3, <1>4, LeastNumber
    <2> QED BY <2>1
<1>6. r.generations[Min(Slot \ used)] \in Nat   BY <1>5 DEF RegisterOf
<1>7. AllocateSlot(r) = [slot |-> Min(Slot \ used), generation |-> r.generations[Min(Slot \ used)] + 1]
    BY DEF AllocateSlot
<1> HIDE DEF used
<1> QED BY <1>5, <1>6, <1>7 DEF Id

\* Every held identity is one, and of an item there is.
LEMMA HeldTyped ==
    ASSUME NEW k \in Kind, NEW r \in RegisterOf(k)
    PROVE  /\ DOMAIN r.active \in SUBSET LineageItems(k)
           /\ \A n \in DOMAIN r.active : r.active[n] \in Id
           /\ \A i \in DOMAIN r.recovery : r.recovery[i] \in Entry(k)
           /\ \A h \in Held(r) : h[1] \in Id /\ h[2] \in LineageItems(k)
<1>1. DOMAIN r.active \in SUBSET LineageItems(k) /\ \A n \in DOMAIN r.active : r.active[n] \in Id
    BY DEF RegisterOf
<1>2. \A i \in DOMAIN r.recovery : r.recovery[i] \in Entry(k)   BY DEF RegisterOf
<1> QED BY <1>1, <1>2 DEF Held, Entry

\* A register that holds no more than another is as sound as that.
LEMMA SoundBelow ==
    ASSUME NEW r, NEW s, NEW P, Sound(r, P), Held(s) \subseteq Held(r),
           s.generations = r.generations
    PROVE  Sound(s, P)
BY DEF Sound

\* A new identity is nobody's.
LEMMA AllocateKeeps ==
    ASSUME NEW k \in Kind, NEW r \in RegisterOf(k), NEW n \in LineageItems(k) \ DOMAIN r.active,
           NEW P, \A p \in P : p[1] \in Id, Sound(r, P)
    PROVE  /\ Allocate(r, n) \in RegisterOf(k)
           /\ Sound(Allocate(r, n), P)
           /\ DOMAIN Allocate(r, n).active = DOMAIN r.active \cup {n}
           /\ \A q \in DOMAIN r.active : Allocate(r, n).active[q] = r.active[q]
<1> DEFINE id == AllocateSlot(r)
           x == Allocate(r, n)
           D == DOMAIN r.active
<1>1. id \in Id /\ id.generation = r.generations[id.slot] + 1   BY NewSlot
<1>3. D \in SUBSET LineageItems(k) /\ r.active \in [D -> Id]   BY DEF RegisterOf
<1>4. r.recovery \in Seq(Entry(k)) /\ r.generations \in [Slot -> Nat]   BY DEF RegisterOf
<1> HIDE DEF id
<1>5. /\ x.active = Given(r.active, n, id)
      /\ x.recovery = r.recovery
      /\ x.generations = [r.generations EXCEPT ![id.slot] = id.generation]
    BY DEF Allocate, RegisterOf, id
<1>6. DOMAIN x.active = D \cup {n} /\ (\A q \in D : x.active[q] = r.active[q]) /\ x.active[n] = id
    BY <1>5 DEF Given
<1>7. x.active \in [D \cup {n} -> Id]   BY <1>1, <1>3, <1>5 DEF Given
<1>8. D \cup {n} \in SUBSET LineageItems(k)   BY <1>3
<1>9. x.generations \in [Slot -> Nat]   BY <1>1, <1>4, <1>5 DEF Id
<1>10. x \in RegisterOf(k)
    <2>1. x.active \in UNION {[E -> Id] : E \in SUBSET LineageItems(k)}   BY <1>7, <1>8
    <2> QED BY <1>4, <1>5, <1>9, <2>1 DEF Allocate, RegisterOf, id
<1> HIDE DEF x, D
<1>11. Held(x) = Held(r) \cup {<<id, n>>}
    <2>1. {<<x.active[q], q>> : q \in DOMAIN x.active} = {<<r.active[q], q>> : q \in DOMAIN r.active} \cup {<<id, n>>}
        BY <1>6 DEF D
    <2>2. {<<x.recovery[i].id, x.recovery[i].item>> : i \in DOMAIN x.recovery}
              = {<<r.recovery[i].id, r.recovery[i].item>> : i \in DOMAIN r.recovery}
        BY <1>5
    <2> QED BY <2>1, <2>2 DEF Held
<1>12. \A h \in Held(r) \cup P : h[1] \in Id /\ r.generations[h[1].slot] \in Nat /\ h[1].generation \in Nat
    BY HeldTyped, <1>4 DEF Id
<1>13. \A h \in Held(r) \cup P : h[1].generation <= r.generations[h[1].slot]   BY DEF Sound
<1>14. id.slot \in Slot /\ id.generation \in Nat /\ r.generations[id.slot] \in Nat   BY <1>1, <1>4 DEF Id
<1>15. \A h \in Held(r) \cup P : h[1] # id
    BY <1>1, <1>12, <1>13, <1>14
<1>16. \A h \in Held(r) \cup P : h[1].generation <= x.generations[h[1].slot]
    <2> SUFFICES ASSUME NEW h \in Held(r) \cup P PROVE h[1].generation <= x.generations[h[1].slot]
        OBVIOUS
    <2>1. h[1].slot \in Slot   BY <1>12 DEF Id
    <2>2. CASE h[1].slot = id.slot   BY <2>1, <2>2, <1>1, <1>4, <1>5, <1>12, <1>13, <1>14
    <2>3. CASE h[1].slot # id.slot   BY <2>1, <2>3, <1>4, <1>5, <1>13
    <2> QED BY <2>2, <2>3
<1>17. id.generation <= x.generations[id.slot]   BY <1>4, <1>5, <1>14
<1>18. Sound(x, P)
    <2> SUFFICES ASSUME NEW h \in Held(x) \cup P
                 PROVE  /\ h[1].generation <= x.generations[h[1].slot]
                        /\ \A g \in Held(x) \cup P : h[1] = g[1] => h[2] = g[2]
        BY DEF Sound
    <2>1. h \in Held(r) \cup P \/ h = <<id, n>>   BY <1>11
    <2>2. h[1].generation <= x.generations[h[1].slot]   BY <2>1, <1>16, <1>17
    <2>3. ASSUME NEW g \in Held(x) \cup P, h[1] = g[1] PROVE h[2] = g[2]
        <3>1. g \in Held(r) \cup P \/ g = <<id, n>>   BY <1>11
        <3>2. CASE h \in Held(r) \cup P /\ g \in Held(r) \cup P   BY <3>2, <2>3 DEF Sound
        <3> QED BY <2>1, <2>3, <3>1, <3>2, <1>15
    <2> QED BY <2>2, <2>3
<1> QED BY <1>6, <1>10, <1>18 DEF x, D

LEMMA OrphanKeeps ==
    ASSUME NEW k \in Kind, NEW r \in RegisterOf(k), NEW n \in DOMAIN r.active,
           NEW P, Sound(r, P)
    PROVE  /\ Orphan(r, n) \in RegisterOf(k)
           /\ Sound(Orphan(r, n), P)
           /\ DOMAIN Orphan(r, n).active = DOMAIN r.active \ {n}
<1> DEFINE x == Orphan(r, n)
           D == DOMAIN r.active
           e == [id |-> r.active[n], item |-> n]
<1>2. D \in SUBSET LineageItems(k) /\ r.active \in [D -> Id]   BY DEF RegisterOf
<1>3. r.recovery \in Seq(Entry(k)) /\ r.generations \in [Slot -> Nat]   BY DEF RegisterOf
<1>4. e \in Entry(k)   BY <1>2 DEF Entry
<1>5. /\ x.active = [q \in D \ {n} |-> r.active[q]]
      /\ x.recovery = Append(r.recovery, e)
      /\ x.generations = r.generations
    BY DEF Orphan, RegisterOf, Restrict
<1>6. DOMAIN x.active = D \ {n} /\ D \ {n} \in SUBSET LineageItems(k) /\ x.active \in [D \ {n} -> Id]
    BY <1>2, <1>5
<1>7. x.recovery \in Seq(Entry(k))   BY <1>3, <1>4, <1>5
<1>8. \A i \in DOMAIN x.recovery : \/ i \in DOMAIN r.recovery /\ x.recovery[i] = r.recovery[i]
                                   \/ x.recovery[i] = e
    BY <1>3, <1>4, <1>5
<1>9. e.id = r.active[n] /\ e.item = n /\ \A q \in D \ {n} : x.active[q] = r.active[q]   BY <1>5
<1>10. x \in RegisterOf(k)
    <2>1. x.active \in UNION {[E -> Id] : E \in SUBSET LineageItems(k)}   BY <1>6
    <2> QED BY <1>5, <1>7, <2>1 DEF Orphan, RegisterOf
<1> HIDE DEF x, e
<1>11. Held(x) \subseteq Held(r)
    <2> SUFFICES ASSUME NEW h \in Held(x) PROVE h \in Held(r)
        OBVIOUS
    <2>1. CASE \E q \in DOMAIN x.active : h = <<x.active[q], q>>
        <3>1. PICK q \in D : h = <<r.active[q], q>>   BY <2>1, <1>6, <1>9
        <3> QED BY <3>1 DEF Held
    <2>2. CASE \E i \in DOMAIN x.recovery : h = <<x.recovery[i].id, x.recovery[i].item>>
        <3>1. PICK i \in DOMAIN x.recovery : h = <<x.recovery[i].id, x.recovery[i].item>>   BY <2>2
        <3>2. CASE i \in DOMAIN r.recovery /\ x.recovery[i] = r.recovery[i]   BY <3>1, <3>2 DEF Held
        <3>3. CASE x.recovery[i] = e   BY <3>1, <3>3, <1>9 DEF Held
        <3> QED BY <3>2, <3>3, <1>8
    <2> QED BY <2>1, <2>2 DEF Held
<1>12. Sound(x, P)   BY <1>5, <1>11, SoundBelow
<1> QED BY <1>6, <1>10, <1>12 DEF x

LEMMA RemovedItems ==
    ASSUME NEW X, NEW s \in Seq(X), NEW i \in 1 .. Len(s)
    PROVE  /\ RemoveAt(s, i) \in Seq(X)
           /\ \A j \in DOMAIN RemoveAt(s, i) : \E q \in DOMAIN s : RemoveAt(s, i)[j] = s[q]
<1> DEFINE u == SubSeq(s, 1, i - 1)
           v == SubSeq(s, i + 1, Len(s))
<1>1. u \in Seq(X) /\ \A j \in DOMAIN u : j \in DOMAIN s /\ u[j] = s[j]
    BY SubSeqProperties
<1>2. v \in Seq(X) /\ Len(v) = Len(s) - i /\ \A j \in 1 .. Len(s) - i : v[j] = s[i + j]
    BY SubSeqProperties
<1>3. \A j \in DOMAIN v : \E q \in DOMAIN s : v[j] = s[q]
    <2> TAKE j \in DOMAIN v
    <2>1. j \in 1 .. Len(s) - i /\ i + j \in DOMAIN s   BY <1>2
    <2> QED BY <2>1, <1>2
<1>4. RemoveAt(s, i) = u \o v   BY DEF RemoveAt
<1> HIDE DEF u, v
<1>5. u \o v \in Seq(X) /\ \A j \in DOMAIN (u \o v) :
            (j \in DOMAIN u /\ (u \o v)[j] = u[j]) \/ \E q \in DOMAIN v : (u \o v)[j] = v[q]
    <2>1. u \o v \in Seq(X) /\ Len(u \o v) = Len(u) + Len(v)
          /\ \A j \in 1 .. Len(u) + Len(v) : (u \o v)[j] = IF j <= Len(u) THEN u[j] ELSE v[j - Len(u)]
        BY <1>1, <1>2, ConcatProperties
    <2>2. SUFFICES ASSUME NEW j \in DOMAIN (u \o v)
                   PROVE  (j \in DOMAIN u /\ (u \o v)[j] = u[j]) \/ \E q \in DOMAIN v : (u \o v)[j] = v[q]
        BY <2>1
    <2>3. j \in 1 .. Len(u) + Len(v) /\ Len(u) \in Nat /\ Len(v) \in Nat   BY <1>1, <1>2, <2>1
    <2>4. CASE j <= Len(u)   BY <2>1, <2>3, <2>4, <1>1
    <2>5. CASE ~ (j <= Len(u))
        <3>1. j - Len(u) \in DOMAIN v   BY <2>3, <2>5, <1>2
        <3> QED BY <2>1, <2>3, <2>5, <3>1
    <2> QED BY <2>4, <2>5
<1>6. \A j \in DOMAIN (u \o v) : \E q \in DOMAIN s : (u \o v)[j] = s[q]
    <2> TAKE j \in DOMAIN (u \o v)
    <2>1. CASE j \in DOMAIN u /\ (u \o v)[j] = u[j]
        <3>1. j \in DOMAIN s /\ u[j] = s[j]   BY <1>1, <2>1
        <3> QED BY <2>1, <3>1
    <2>2. CASE \E q \in DOMAIN v : (u \o v)[j] = v[q]
        <3>1. PICK q \in DOMAIN v : (u \o v)[j] = v[q]   BY <2>2
        <3> QED BY <1>3, <3>1
    <2> QED BY <1>5, <2>1, <2>2
<1>7. u \o v \in Seq(X)   BY <1>5
<1> QED BY <1>4, <1>6, <1>7, Zenon

\* An item that comes back gets what is kept for it, or a new identity.
LEMMA ReturnKeeps ==
    ASSUME NEW k \in Kind, NEW r \in RegisterOf(k), NEW n \in LineageItems(k) \ DOMAIN r.active,
           NEW P, \A p \in P : p[1] \in Id, Sound(r, P)
    PROVE  /\ Return(r, n) \in RegisterOf(k)
           /\ Sound(Return(r, n), P)
           /\ DOMAIN Return(r, n).active = DOMAIN r.active \cup {n}
<1> DEFINE rec == r.recovery
           I == {i \in 1 .. Len(rec) : rec[i].item = n}
           place == IF I # {} THEN Min(I) ELSE 0
           x == [r EXCEPT !.active = Given(@, n, rec[place].id), !.recovery = RemoveAt(@, place)]
           D == DOMAIN r.active
<1>1. Return(r, n) = IF place = 0 THEN Allocate(r, n) ELSE x   BY DEF Return, SelectInSeq
<1>2. rec \in Seq(Entry(k)) /\ D \in SUBSET LineageItems(k) /\ r.active \in [D -> Id]   BY DEF RegisterOf
<1>3. place # 0 => place \in 1 .. Len(rec) /\ rec[place].item = n
    <2>1. CASE I # {}
        <3>1. I \in SUBSET Nat   OBVIOUS
        <3>2. Min(I) \in I
            <4> HIDE DEF I
            <4> QED BY <2>1, <3>1, LeastNumber
        <3> QED BY <2>1, <3>2
    <2> QED BY <2>1
<1>4. CASE place = 0   BY <1>1, <1>4, AllocateKeeps
<1>5. CASE place # 0
    <2> HIDE DEF place
    <2>1. place \in 1 .. Len(rec) /\ rec[place].item = n /\ rec[place] \in Entry(k)   BY <1>2, <1>3, <1>5
    <2>2. rec[place].id \in Id   BY <2>1 DEF Entry
    <2>3. Given(r.active, n, rec[place].id) \in UNION {[E -> Id] : E \in SUBSET LineageItems(k)}
        <3>1. Given(r.active, n, rec[place].id) \in [D \cup {n} -> Id]   BY <1>2, <2>2 DEF Given
        <3>2. D \cup {n} \in SUBSET LineageItems(k)   BY <1>2
        <3> QED BY <3>1, <3>2
    <2>4. RemoveAt(rec, place) \in Seq(Entry(k)) /\ \A j \in DOMAIN RemoveAt(rec, place) :
              \E q \in DOMAIN rec : RemoveAt(rec, place)[j] = rec[q]
        BY <1>2, <2>1, RemovedItems
    <2>5. /\ x \in RegisterOf(k) /\ x.active = Given(r.active, n, rec[place].id)
          /\ x.recovery = RemoveAt(rec, place) /\ x.generations = r.generations
        BY <2>3, <2>4 DEF RegisterOf
    <2>6. DOMAIN x.active = D \cup {n} /\ \A q \in D \cup {n} : x.active[q] = IF q = n THEN rec[place].id ELSE r.active[q]
        BY <2>5 DEF Given
    <2> HIDE DEF x
    <2>7. Held(x) \subseteq Held(r)
        <3> SUFFICES ASSUME NEW h \in Held(x) PROVE h \in Held(r)
            OBVIOUS
        <3>1. CASE \E q \in DOMAIN x.active : h = <<x.active[q], q>>
            <4>1. PICK q \in D \cup {n} : h = <<x.active[q], q>>   BY <3>1, <2>6
            <4>2. CASE q = n   BY <4>1, <4>2, <2>1, <2>6 DEF Held
            <4>3. CASE q # n   BY <4>1, <4>3, <2>6 DEF Held
            <4> QED BY <4>2, <4>3
        <3>2. CASE \E i \in DOMAIN x.recovery : h = <<x.recovery[i].id, x.recovery[i].item>>
            <4>1. PICK i \in DOMAIN x.recovery : h = <<x.recovery[i].id, x.recovery[i].item>>   BY <3>2
            <4>2. PICK q \in DOMAIN rec : x.recovery[i] = rec[q]   BY <2>4, <2>5, <4>1
            <4> QED BY <4>1, <4>2 DEF Held
        <3> QED BY <3>1, <3>2 DEF Held
    <2>8. Sound(x, P)   BY <2>5, <2>7, SoundBelow
    <2> QED BY <1>1, <1>5, <2>5, <2>6, <2>8
<1> QED BY <1>4, <1>5

LEMMA OneMore ==
    ASSUME NEW n \in Nat, NEW i \in 1 .. n
    PROVE  1 .. i = (1 .. (i - 1)) \cup {i} /\ \A j \in 1 .. (i - 1) : j \in 1 .. n /\ j # i
OBVIOUS

\* The sequences of a set have each of its elements once.
LEMMA Sequenced ==
    ASSUME NEW S, IsFiniteSet(S), NEW s \in SetToSeqs(S)
    PROVE  /\ s \in Seq(S) /\ Len(s) \in Nat
           /\ \A x \in S : \E i \in 1 .. Len(s) : s[i] = x
           /\ \A i, j \in 1 .. Len(s) : i # j => s[i] # s[j]
<1> DEFINE n == Cardinality(S)
<1>1. n \in Nat   BY FS_CardinalityType
<1>2. s \in [1 .. n -> S] /\ \A i, j \in 1 .. n : i # j => s[i] # s[j]   BY DEF SetToSeqs
<1>3. s \in Seq(S) /\ Len(s) = n
    <2> HIDE DEF n
    <2> QED BY <1>1, <1>2
<1>4. IsFiniteSet(1 .. n) /\ Cardinality(1 .. n) = n
    <2>1. 1 \in Int /\ n \in Int   BY <1>1
    <2> HIDE DEF n
    <2> QED BY <2>1, <1>1, FS_Interval
<1>5. s \in Injection(1 .. n, S)   BY <1>2 DEF Injection, IsInjective
<1>6. s \in Surjection(1 .. n, S)
    <2> HIDE DEF n
    <2>1. Cardinality(1 .. n) = Cardinality(S)   BY <1>4 DEF n
    <2> QED BY <1>5, <2>1, FS_Injection
<1> HIDE DEF n
<1> QED BY <1>1, <1>2, <1>3, <1>6 DEF Surjection

\* The three folds of a register.
Orphaned(r, s) == OrphanFold!Folded(r, s)
Returned(r, s) == ReturnFold!Folded(r, s)
Allocated(r, s) == AllocateFold!Folded(r, s)

Syncs(r, items, x) ==
    \E gone \in SetToSeqs(DOMAIN r.active \ items), back \in SetToSeqs(items \ DOMAIN r.active) :
        x = Returned(Orphaned(r, gone), back)

LEMMA SyncedIsFolded ==
    ASSUME NEW r, NEW items, NEW x \in Synced(r, items)
    PROVE  Syncs(r, items, x)
<1>1. Synced(r, items) =
         {Returned(Orphaned(r, gone), back) :
             gone \in SetToSeqs(DOMAIN r.active \ items), back \in SetToSeqs(items \ DOMAIN r.active)}
    BY DEF Synced, Orphaned, Returned, FoldLeft, MapThenFoldSet, Max,
           OrphanFold!Folded, OrphanFold!FoldLeft, OrphanFold!MapThenFoldSet, OrphanFold!Max,
           ReturnFold!Folded, ReturnFold!FoldLeft, ReturnFold!MapThenFoldSet, ReturnFold!Max
<1> QED BY <1>1 DEF Syncs

LEMMA AllocatedIsFolded ==
    ASSUME NEW r, NEW s
    PROVE  FoldLeft(Allocate, r, s) = Allocated(r, s)
BY DEF Allocated, FoldLeft, MapThenFoldSet, Max,
       AllocateFold!Folded, AllocateFold!FoldLeft, AllocateFold!MapThenFoldSet, AllocateFold!Max

\* All the items that are gone are kept as orphans.
LEMMA OrphansKeep ==
    ASSUME NEW k \in Kind, NEW r \in RegisterOf(k), NEW S \in SUBSET DOMAIN r.active,
           NEW s \in SetToSeqs(S), NEW P, \A p \in P : p[1] \in Id, Sound(r, P)
    PROVE  /\ Orphaned(r, s) \in RegisterOf(k)
           /\ Sound(Orphaned(r, s), P)
           /\ DOMAIN Orphaned(r, s).active = DOMAIN r.active \ S
<1> DEFINE D == DOMAIN r.active
           done(i) == {s[j] : j \in 1 .. i}
           G == [i \in 0 .. Len(s) |->
                    {x \in RegisterOf(k) : Sound(x, P) /\ DOMAIN x.active = D \ done(i)}]
<1>1. S \in SUBSET LineageItems(k) /\ IsFiniteSet(S)
    BY HeldTyped, ItemsFinite, FS_Subset
<1>2. /\ s \in Seq(S) /\ Len(s) \in Nat /\ \A x \in S : \E i \in 1 .. Len(s) : s[i] = x
      /\ \A i, j \in 1 .. Len(s) : i # j => s[i] # s[j]
    BY <1>1, Sequenced
<1>3. r \in G[0]
    <2>1. 1 .. 0 = {}   OBVIOUS
    <2>2. done(0) = {}   BY <2>1
    <2>3. r \in RegisterOf(k) /\ Sound(r, P) /\ DOMAIN r.active = D \ done(0)   BY <2>2
    <2>4. 0 \in 0 .. Len(s)   BY <1>2
    <2> HIDE DEF done
    <2> QED BY <2>3, <2>4
<1>4. ASSUME NEW i \in 1 .. Len(s), NEW x \in G[i - 1] PROVE Orphan(x, s[i]) \in G[i]
    <2>1. i - 1 \in 0 .. Len(s) /\ i \in 0 .. Len(s)   BY <1>2
    <2>2. x \in RegisterOf(k) /\ Sound(x, P) /\ DOMAIN x.active = D \ done(i - 1)
        <3> HIDE DEF done
        <3> QED BY <2>1, <1>4
    <2>3. done(i) = done(i - 1) \cup {s[i]} /\ s[i] \notin done(i - 1) /\ s[i] \in S
        <3>1. 1 .. i = (1 .. (i - 1)) \cup {i} /\ \A j \in 1 .. (i - 1) : j \in 1 .. Len(s) /\ j # i
            BY <1>2, OneMore
        <3>2. s[i] \in S   BY <1>2
        <3>3. \A j \in 1 .. (i - 1) : s[j] # s[i]   BY <1>2, <3>1
        <3>4. done(i) = done(i - 1) \cup {s[i]}   BY <3>1
        <3> QED BY <3>2, <3>3, <3>4
    <2> HIDE DEF done
    <2>4. s[i] \in DOMAIN x.active   BY <2>2, <2>3, <1>1, HeldTyped
    <2>5. /\ Orphan(x, s[i]) \in RegisterOf(k) /\ Sound(Orphan(x, s[i]), P)
          /\ DOMAIN Orphan(x, s[i]).active = DOMAIN x.active \ {s[i]}
        BY <2>2, <2>4, OrphanKeeps
    <2>6. DOMAIN Orphan(x, s[i]).active = D \ done(i)   BY <2>2, <2>3, <2>5
    <2> QED BY <2>1, <2>5, <2>6
<1>5. OrphanFold!Folded(r, s) \in G[Len(s)]
    <2> HIDE DEF G, done
    <2> QED BY <1>2, <1>3, <1>4, OrphanFold!FoldKeeps
<1>6. Orphaned(r, s) = OrphanFold!Folded(r, s)   BY DEF Orphaned
<1>7. done(Len(s)) = S   BY <1>2
<1> DEFINE z == Orphaned(r, s)
<1>8. z = OrphanFold!Folded(r, s)   BY <1>6
<1> HIDE DEF done, z
<1>9. z \in RegisterOf(k) /\ Sound(z, P) /\ DOMAIN z.active = DOMAIN r.active \ S
    BY <1>2, <1>5, <1>7, <1>8
<1> QED BY <1>9 DEF z

\* All the items that come back are active.
LEMMA ReturnsKeep ==
    ASSUME NEW k \in Kind, NEW r \in RegisterOf(k), NEW S \in SUBSET (LineageItems(k) \ DOMAIN r.active),
           NEW s \in SetToSeqs(S), NEW P, \A p \in P : p[1] \in Id, Sound(r, P)
    PROVE  /\ Returned(r, s) \in RegisterOf(k)
           /\ Sound(Returned(r, s), P)
           /\ DOMAIN Returned(r, s).active = DOMAIN r.active \cup S
<1> DEFINE D == DOMAIN r.active
           done(i) == {s[j] : j \in 1 .. i}
           G == [i \in 0 .. Len(s) |->
                    {x \in RegisterOf(k) : Sound(x, P) /\ DOMAIN x.active = D \cup done(i)}]
<1>1. S \in SUBSET LineageItems(k) /\ IsFiniteSet(S)
    BY HeldTyped, ItemsFinite, FS_Subset
<1>2. /\ s \in Seq(S) /\ Len(s) \in Nat /\ \A x \in S : \E i \in 1 .. Len(s) : s[i] = x
      /\ \A i, j \in 1 .. Len(s) : i # j => s[i] # s[j]
    BY <1>1, Sequenced
<1>3. r \in G[0]
    <2>1. 1 .. 0 = {}   OBVIOUS
    <2>2. done(0) = {}   BY <2>1
    <2>3. r \in RegisterOf(k) /\ Sound(r, P) /\ DOMAIN r.active = D \cup done(0)   BY <2>2
    <2>4. 0 \in 0 .. Len(s)   BY <1>2
    <2> HIDE DEF done
    <2> QED BY <2>3, <2>4
<1>4. ASSUME NEW i \in 1 .. Len(s), NEW x \in G[i - 1] PROVE Return(x, s[i]) \in G[i]
    <2>1. i - 1 \in 0 .. Len(s) /\ i \in 0 .. Len(s)   BY <1>2
    <2>2. x \in RegisterOf(k) /\ Sound(x, P) /\ DOMAIN x.active = D \cup done(i - 1)
        <3> HIDE DEF done
        <3> QED BY <2>1, <1>4
    <2>3. done(i) = done(i - 1) \cup {s[i]} /\ s[i] \notin done(i - 1) /\ s[i] \in S
        <3>1. 1 .. i = (1 .. (i - 1)) \cup {i} /\ \A j \in 1 .. (i - 1) : j \in 1 .. Len(s) /\ j # i
            BY <1>2, OneMore
        <3>2. s[i] \in S   BY <1>2
        <3>3. \A j \in 1 .. (i - 1) : s[j] # s[i]   BY <1>2, <3>1
        <3>4. done(i) = done(i - 1) \cup {s[i]}   BY <3>1
        <3> QED BY <3>2, <3>3, <3>4
    <2> HIDE DEF done
    <2>4. s[i] \in LineageItems(k) \ DOMAIN x.active   BY <2>2, <2>3, <1>1, HeldTyped
    <2>5. /\ Return(x, s[i]) \in RegisterOf(k) /\ Sound(Return(x, s[i]), P)
          /\ DOMAIN Return(x, s[i]).active = DOMAIN x.active \cup {s[i]}
        BY <2>2, <2>4, ReturnKeeps
    <2>6. DOMAIN Return(x, s[i]).active = D \cup done(i)   BY <2>2, <2>3, <2>5
    <2> QED BY <2>1, <2>5, <2>6
<1>5. ReturnFold!Folded(r, s) \in G[Len(s)]
    <2> HIDE DEF G, done
    <2> QED BY <1>2, <1>3, <1>4, ReturnFold!FoldKeeps
<1>6. Returned(r, s) = ReturnFold!Folded(r, s)   BY DEF Returned
<1>7. done(Len(s)) = S   BY <1>2
<1> DEFINE z == Returned(r, s)
<1>8. z = ReturnFold!Folded(r, s)   BY <1>6
<1> HIDE DEF done, z
<1>9. z \in RegisterOf(k) /\ Sound(z, P) /\ DOMAIN z.active = DOMAIN r.active \cup S
    BY <1>2, <1>5, <1>7, <1>8
<1> QED BY <1>9 DEF z

\* New items get identities, and nobody loses one.
LEMMA AllocatesKeep ==
    ASSUME NEW k \in Kind, NEW r \in RegisterOf(k), NEW S \in SUBSET (LineageItems(k) \ DOMAIN r.active),
           NEW s \in SetToSeqs(S), NEW P, \A p \in P : p[1] \in Id, Sound(r, P)
    PROVE  /\ Allocated(r, s) \in RegisterOf(k)
           /\ Sound(Allocated(r, s), P)
           /\ DOMAIN Allocated(r, s).active = DOMAIN r.active \cup S
           /\ \A q \in DOMAIN r.active : Allocated(r, s).active[q] = r.active[q]
<1> DEFINE D == DOMAIN r.active
           done(i) == {s[j] : j \in 1 .. i}
           G == [i \in 0 .. Len(s) |->
                    {x \in RegisterOf(k) : Sound(x, P) /\ DOMAIN x.active = D \cup done(i)
                        /\ \A q \in D : x.active[q] = r.active[q]}]
<1>1. S \in SUBSET LineageItems(k) /\ IsFiniteSet(S)
    BY HeldTyped, ItemsFinite, FS_Subset
<1>2. /\ s \in Seq(S) /\ Len(s) \in Nat /\ \A x \in S : \E i \in 1 .. Len(s) : s[i] = x
      /\ \A i, j \in 1 .. Len(s) : i # j => s[i] # s[j]
    BY <1>1, Sequenced
<1>3. r \in G[0]
    <2>1. 1 .. 0 = {}   OBVIOUS
    <2>2. done(0) = {}   BY <2>1
    <2>3. r \in RegisterOf(k) /\ Sound(r, P) /\ DOMAIN r.active = D \cup done(0)   BY <2>2
    <2>4. 0 \in 0 .. Len(s)   BY <1>2
    <2> HIDE DEF done
    <2> QED BY <2>3, <2>4
<1>4. ASSUME NEW i \in 1 .. Len(s), NEW x \in G[i - 1] PROVE Allocate(x, s[i]) \in G[i]
    <2>1. i - 1 \in 0 .. Len(s) /\ i \in 0 .. Len(s)   BY <1>2
    <2>2. x \in RegisterOf(k) /\ Sound(x, P) /\ DOMAIN x.active = D \cup done(i - 1)
                        /\ \A q \in D : x.active[q] = r.active[q]
        <3> HIDE DEF done
        <3> QED BY <2>1, <1>4
    <2>3. done(i) = done(i - 1) \cup {s[i]} /\ s[i] \notin done(i - 1) /\ s[i] \in S
        <3>1. 1 .. i = (1 .. (i - 1)) \cup {i} /\ \A j \in 1 .. (i - 1) : j \in 1 .. Len(s) /\ j # i
            BY <1>2, OneMore
        <3>2. s[i] \in S   BY <1>2
        <3>3. \A j \in 1 .. (i - 1) : s[j] # s[i]   BY <1>2, <3>1
        <3>4. done(i) = done(i - 1) \cup {s[i]}   BY <3>1
        <3> QED BY <3>2, <3>3, <3>4
    <2> HIDE DEF done
    <2>4. s[i] \in LineageItems(k) \ DOMAIN x.active   BY <2>2, <2>3, <1>1, HeldTyped
    <2>5. /\ Allocate(x, s[i]) \in RegisterOf(k) /\ Sound(Allocate(x, s[i]), P)
          /\ DOMAIN Allocate(x, s[i]).active = DOMAIN x.active \cup {s[i]}
          /\ \A q \in DOMAIN x.active : Allocate(x, s[i]).active[q] = x.active[q]
        BY <2>2, <2>4, AllocateKeeps
    <2>6. DOMAIN Allocate(x, s[i]).active = D \cup done(i)   BY <2>2, <2>3, <2>5
    <2> QED BY <2>1, <2>5, <2>6, <2>2
<1>5. AllocateFold!Folded(r, s) \in G[Len(s)]
    <2> HIDE DEF G, done
    <2> QED BY <1>2, <1>3, <1>4, AllocateFold!FoldKeeps
<1>6. Allocated(r, s) = AllocateFold!Folded(r, s)   BY DEF Allocated
<1>7. done(Len(s)) = S   BY <1>2
<1> DEFINE z == Allocated(r, s)
<1>8. z = AllocateFold!Folded(r, s)   BY <1>6
<1> HIDE DEF done, z
<1>9. z \in RegisterOf(k) /\ Sound(z, P) /\ DOMAIN z.active = DOMAIN r.active \cup S
      /\ \A q \in D : z.active[q] = r.active[q]
    BY <1>2, <1>5, <1>7, <1>8
<1> QED BY <1>9 DEF z

\* A register that was brought up to date has the items of the workspace.
LEMMA SyncedKeeps ==
    ASSUME NEW k \in Kind, NEW r \in RegisterOf(k), NEW items \in SUBSET LineageItems(k),
           NEW P, \A p \in P : p[1] \in Id, Sound(r, P), NEW x \in Synced(r, items)
    PROVE  x \in RegisterOf(k) /\ Sound(x, P) /\ DOMAIN x.active = items
<1> DEFINE D == DOMAIN r.active
<1>0. Syncs(r, items, x)   BY SyncedIsFolded
<1>1. PICK gone \in SetToSeqs(D \ items), back \in SetToSeqs(items \ D) :
          x = Returned(Orphaned(r, gone), back)
    BY <1>0 DEF Syncs
<1> HIDE DEF D
<1> DEFINE y == Orphaned(r, gone)
<1>2. y \in RegisterOf(k) /\ Sound(y, P) /\ DOMAIN y.active = D \ (D \ items)
    <2> HIDE DEF D
    <2>1. D \ items \in SUBSET DOMAIN r.active   BY DEF D
    <2> QED BY <2>1, OrphansKeep DEF D
<1>3. items \ D \in SUBSET (LineageItems(k) \ DOMAIN y.active)   BY <1>2
<1> HIDE DEF y, D
<1>4. /\ Returned(y, back) \in RegisterOf(k) /\ Sound(Returned(y, back), P)
      /\ DOMAIN Returned(y, back).active = DOMAIN y.active \cup (items \ D)
    BY <1>2, <1>3, ReturnsKeep
<1> QED BY <1>1, <1>2, <1>4 DEF y

LEMMA CollectedKeeps ==
    ASSUME NEW k \in Kind, NEW r \in RegisterOf(k), NEW P, Sound(r, P)
    PROVE  /\ Collected(r) \in RegisterOf(k) /\ Sound(Collected(r), P)
           /\ Collected(r).active = r.active
<1> DEFINE rec == r.recovery
           from == IF Len(rec) > RecoveryLimit THEN Len(rec) - RecoveryLimit + 1 ELSE 1
           new == SubSeq(rec, from, Len(rec))
           x == Collected(r)
<1>1. rec \in Seq(Entry(k)) /\ Len(rec) \in Nat /\ RecoveryLimit \in Nat
    BY LineageAssumption DEF RegisterOf
<1>2. from \in Int /\ from >= 1 /\ Len(rec) \in Int   BY <1>1
<1> HIDE DEF from
<1>3. \A i \in from .. Len(rec) : i \in DOMAIN rec /\ rec[i] \in Entry(k)   BY <1>1, <1>2
<1>4. /\ new \in Seq(Entry(k)) /\ Len(new) = (IF from <= Len(rec) THEN Len(rec) - from + 1 ELSE 0)
      /\ \A i \in 1 .. Len(rec) - from + 1 : new[i] = rec[from + i - 1]
    BY <1>2, <1>3, SubSeqProperties
<1>5. \A i \in DOMAIN new : \E q \in DOMAIN rec : new[i] = rec[q]
    <2> TAKE i \in DOMAIN new
    <2>1. i \in 1 .. Len(new) /\ i \in 1 .. Len(rec) - from + 1   BY <1>1, <1>2, <1>4
    <2>2. from + i - 1 \in from .. Len(rec)   BY <1>1, <1>2, <2>1
    <2> QED BY <1>3, <1>4, <2>1, <2>2
<1> HIDE DEF new
<1>6. /\ x \in RegisterOf(k) /\ x.active = r.active /\ x.generations = r.generations /\ x.recovery = new
    BY <1>4 DEF Collected, RegisterOf, new, from
<1> HIDE DEF x
<1>7. Held(x) \subseteq Held(r)
    <2> SUFFICES ASSUME NEW h \in Held(x) PROVE h \in Held(r)
        OBVIOUS
    <2>1. CASE \E q \in DOMAIN x.active : h = <<x.active[q], q>>   BY <2>1, <1>6 DEF Held
    <2>2. CASE \E i \in DOMAIN x.recovery : h = <<x.recovery[i].id, x.recovery[i].item>>
        <3>1. PICK i \in DOMAIN x.recovery : h = <<x.recovery[i].id, x.recovery[i].item>>   BY <2>2
        <3>2. PICK q \in DOMAIN rec : x.recovery[i] = rec[q]   BY <1>5, <1>6, <3>1
        <3> QED BY <3>1, <3>2 DEF Held
    <2> QED BY <2>1, <2>2 DEF Held
<1> QED BY <1>6, <1>7, SoundBelow DEF x

----------------------------------------------------------------------------
(* What the texts say *)

Items(known) == ItemsOf(known).artifact

\* The parameter lists a name is defined with; a text over the limit has none.
Signatures(n, known) ==
    {d.signature : d \in {e \in Written(n[1], known[n[1]]).defs :
        ~ Written(n[1], known[n[1]]).limited /\ e.name = n[2] /\ e.kind = "function"}}

\* The texts in whose interface a fact has its place.
Placed(f, signatures) ==
    \/ f.kind = "public"
    \/ \E s \in signatures : signatures = {s} /\ (f.kind = "return" \/ f.parameter \in s)

Target(f, ids, known) ==
    IF f.item \in Items(known) /\ Placed(f, Signatures(f.item, known)) THEN ids[f.item] ELSE NoId

\* No two items have one identity.
Named(ids, known) ==
    /\ DOMAIN ids = Items(known)
    /\ \A n \in Items(known) : ids[n] \in Id
    /\ \A n, q \in Items(known) : ids[n] = ids[q] => n = q

\* An interface holds parameter lists of items that are defined once.
Describes(i, ids, known) ==
    \A x \in DOMAIN i : \E n \in Items(known) : x = ids[n] /\ Signatures(n, known) = {i[x]}
Complete(i, ids, known) ==
    \A n \in Items(known) : (\E s : Signatures(n, known) = {s}) => ids[n] \in DOMAIN i

Known == [LineageModule -> 0 .. LastVersion]

LEMMA ItemShape ==
    ASSUME NEW known \in Known
    PROVE  /\ \A n \in Items(known) :
                 /\ n[1] \in LineageModule /\ known[n[1]] # 0 /\ n = <<n[1], n[2]>>
                 /\ n \in Defined(n[1], known[n[1]])
           /\ \A m \in LineageModule : \A n \in Defined(m, known[m]) : n \in Items(known) /\ n[1] = m
           /\ \A m \in LineageModule : AnchorNames(m, known[m]) \subseteq Defined(m, known[m])
           /\ Items(known) \subseteq LineageItems("artifact")
           /\ ItemsOf(known).module \subseteq LineageItems("module")
<1>1. Items(known) = UNION {Defined(m, known[m]) : m \in LineageModule}   BY DEF Items, ItemsOf
<1>2. ASSUME NEW m \in LineageModule, NEW n \in Defined(m, known[m])
      PROVE  /\ n[1] = m /\ known[m] # 0 /\ n = <<n[1], n[2]>>
             /\ known[m] \in 1 .. LastVersion /\ n \in {<<m, d.name>> : d \in Written(m, known[m]).defs}
    <2>1. known[m] # 0   BY <1>2 DEF Defined
    <2>2. known[m] \in 1 .. LastVersion   BY <2>1, LineageAssumption DEF Known
    <2>3. PICK d \in Written(m, known[m]).defs : n = <<m, d.name>>   BY <1>2, <2>1 DEF Defined
    <2> QED BY <2>1, <2>2, <2>3
<1>3. Items(known) \subseteq LineageItems("artifact")
    <2> SUFFICES ASSUME NEW m \in LineageModule, NEW n \in Defined(m, known[m])
                 PROVE  n \in LineageItems("artifact")
        BY <1>1
    <2> DEFINE S(p, v) == {<<p, d.name>> : d \in Written(p, v).defs}
    <2>1. n \in S(m, known[m]) /\ known[m] \in 1 .. LastVersion   BY <1>2
    <2>2. LineageItems("artifact") = UNION {S(p, v) : p \in LineageModule, v \in 1 .. LastVersion}
        BY DEF LineageItems
    <2> HIDE DEF S
    <2> QED BY <2>1, <2>2
<1>4. ItemsOf(known).module \subseteq LineageItems("module")
    <2>1. ItemsOf(known).module = {<<m, "">> : m \in {q \in LineageModule : known[q] # 0}}
        BY DEF ItemsOf, ModuleItem
    <2>2. LineageItems("module") = {<<m, "">> : m \in LineageModule}   BY DEF LineageItems
    <2> QED BY <2>1, <2>2
<1>5. \A m \in LineageModule : AnchorNames(m, known[m]) \subseteq Defined(m, known[m])   BY DEF AnchorNames
<1>6. \A n \in Items(known) : \E m \in LineageModule : n \in Defined(m, known[m])   BY <1>1
<1>7. \A m \in LineageModule : \A n \in Defined(m, known[m]) : n \in Items(known)   BY <1>1
<1> QED BY <1>2, <1>3, <1>4, <1>5, <1>6, <1>7

\* A set of parameter lists has one member or it has not.
LEMMA OneSignature ==
    ASSUME NEW known \in Known, NEW m \in LineageModule, known[m] # 0,
           NEW D \in SUBSET Written(m, known[m]).defs
    PROVE  Cardinality({d.signature : d \in D}) = 1 <=> \E s : {d.signature : d \in D} = {s}
<1> DEFINE S == {d.signature : d \in D}
<1>1. known[m] \in 1 .. LastVersion   BY LineageAssumption DEF Known
<1>2. IsFiniteSet(D)   BY <1>1, LineageAssumption, FS_Subset
<1>3. IsFiniteSet(S)
    <2> DEFINE f == [d \in D |-> d.signature]
    <2>1. S = {f[d] : d \in D}   OBVIOUS
    <2>2. DOMAIN f = D   OBVIOUS
    <2> HIDE DEF f, S
    <2> QED BY <1>2, <2>1, <2>2, ValuesFinite
<1> QED BY <1>3, FS_Singleton

LEMMA DescribedIsRight ==
    ASSUME NEW known \in Known, NEW m \in LineageModule, known[m] # 0, NEW ids, Named(ids, known)
    PROVE  LET i == Described(m, known[m], AnchorNames(m, known[m]), ids)
           IN /\ Describes(i, ids, known)
              /\ \A n \in Items(known) : n[1] = m /\ (\E s : Signatures(n, known) = {s}) => ids[n] \in DOMAIN i
<1> DEFINE v == known[m]
           names == AnchorNames(m, v)
           sigs(n) == {d.signature : d \in {e \in Written(m, v).defs : <<m, e.name>> = n /\ e.kind = "function"}}
           dom == {ids[n] : n \in {q \in names : Cardinality(sigs(q)) = 1}}
           i == [id \in dom |-> CHOOSE s \in sigs(CHOOSE n \in names : ids[n] = id) : TRUE]
<1>1. i = Described(m, v, names, ids)   BY DEF Described
<1>2. names \subseteq Items(known) /\ \A n \in names : n[1] = m /\ n = <<m, n[2]>>   BY ItemShape
<1>3. ASSUME NEW n PROVE Cardinality(sigs(n)) = 1 <=> \E s : sigs(n) = {s}
    <2> DEFINE D == {e \in Written(m, v).defs : <<m, e.name>> = n /\ e.kind = "function"}
    <2>1. D \in SUBSET Written(m, v).defs   OBVIOUS
    <2> HIDE DEF D
    <2>2. Cardinality({d.signature : d \in D}) = 1 <=> \E s : {d.signature : d \in D} = {s}
        BY <2>1, OneSignature
    <2> QED BY <2>2 DEF D
<1>4. \A n \in names : sigs(n) = Signatures(n, known)
    <2>1. names # {} => ~ Written(m, v).limited   BY DEF AnchorNames
    <2>2. ASSUME NEW n \in names, NEW e PROVE <<m, e.name>> = n <=> e.name = n[2]
        <3>1. n = <<m, n[2]>>   BY <1>2
        <3> QED BY <3>1
    <2>3. ASSUME NEW n \in names
          PROVE  {e \in Written(m, v).defs : <<m, e.name>> = n /\ e.kind = "function"}
                 = {e \in Written(n[1], known[n[1]]).defs :
                       ~ Written(n[1], known[n[1]]).limited /\ e.name = n[2] /\ e.kind = "function"}
        BY <1>2, <2>1, <2>2, Zenon
    <2> QED BY <2>3, Zenon DEF Signatures
<1>5. \A n \in names : ids[n] \in DOMAIN i <=> \E s : Signatures(n, known) = {s}
    <2> TAKE n \in names
    <2> HIDE DEF sigs, names
    <2>1. ids[n] \in dom <=> Cardinality(sigs(n)) = 1   BY <1>2 DEF Named
    <2> QED BY <2>1, <1>3, <1>4
<1>6. ASSUME NEW x \in DOMAIN i
      PROVE  \E n \in Items(known) : x = ids[n] /\ Signatures(n, known) = {i[x]}
    <2>1. PICK n \in names : x = ids[n] /\ Cardinality(sigs(n)) = 1   OBVIOUS
    <2>2. (CHOOSE q \in names : ids[q] = x) = n   BY <2>1, <1>2 DEF Named
    <2>3. PICK s : sigs(n) = {s}   BY <2>1, <1>3
    <2> HIDE DEF sigs
    <2>4. i[x] = CHOOSE t \in sigs(n) : TRUE   BY <2>2
    <2>5. i[x] = s   BY <2>3, <2>4
    <2> QED BY <2>1, <2>3, <2>5, <1>2, <1>4
<1> HIDE DEF i, names
<1>7. ASSUME NEW n \in Items(known), n[1] = m, NEW s, Signatures(n, known) = {s} PROVE ids[n] \in DOMAIN i
    <2>1. n \in Defined(m, v)   BY <1>7, ItemShape
    <2>2. ~ Written(m, v).limited   BY <1>7 DEF Signatures
    <2>3. n \in names   BY <2>1, <2>2 DEF names, AnchorNames
    <2> QED BY <2>3, <1>5, <1>7
<1> QED BY <1>1, <1>6, <1>7 DEF Describes, names

\* The interfaces of several sources merged are still right.
LEMMA MergedDescribes ==
    ASSUME NEW known, NEW ids, Named(ids, known), NEW functions, \A f \in functions : Describes(f, ids, known)
    PROVE  Describes(MergedInterfaces(functions), ids, known)
<1> DEFINE i == MergedInterfaces(functions)
<1>1. ASSUME NEW x \in DOMAIN i
      PROVE  \E n \in Items(known) : x = ids[n] /\ Signatures(n, known) = {i[x]}
    <2>1. x \in UNION {DOMAIN f : f \in functions}   BY DEF MergedInterfaces
    <2> DEFINE g == CHOOSE f \in functions : x \in DOMAIN f
    <2>2. g \in functions /\ x \in DOMAIN g   BY <2>1
    <2>3. i[x] = g[x]   BY <2>1 DEF MergedInterfaces
    <2> HIDE DEF g, i
    <2> QED BY <2>2, <2>3 DEF Describes
<1> QED BY <1>1 DEF Describes

LEMMA MergedComplete ==
    ASSUME NEW known, NEW ids, NEW functions,
           \A n \in Items(known) : (\E s : Signatures(n, known) = {s}) => \E f \in functions : ids[n] \in DOMAIN f
    PROVE  Complete(MergedInterfaces(functions), ids, known)
BY DEF Complete, MergedInterfaces

\* What has one identity has one interface.
LEMMA OneInterface ==
    ASSUME NEW known, NEW ids, Named(ids, known), NEW i, Describes(i, ids, known),
           NEW n \in Items(known), ids[n] \in DOMAIN i
    PROVE  Signatures(n, known) = {i[ids[n]]}
BY DEF Describes, Named

LEMMA NoInterfaceOfNoId ==
    ASSUME NEW known, NEW ids, Named(ids, known), NEW i, Describes(i, ids, known)
    PROVE  NoId \notin DOMAIN i
<1> SUFFICES ASSUME NoId \in DOMAIN i PROVE FALSE
    OBVIOUS
<1>1. NoId \in Id   BY DEF Describes, Named
<1> QED BY <1>1 DEF NoId, Id

LEMMA EndpointIsTarget ==
    ASSUME NEW known, NEW ids, Named(ids, known), NEW i, Describes(i, ids, known), Complete(i, ids, known),
           NEW f
    PROVE  Endpoint(f, ids, i) = Target(f, ids, known)
<1>1. CASE f.item \notin Items(known)
    <2>1. NoId \notin DOMAIN i   BY NoInterfaceOfNoId
    <2> QED BY <1>1, <2>1 DEF Endpoint, Target, Named
<1>2. CASE f.item \in Items(known)
    <2> DEFINE n == f.item
               id == ids[n]
    <2>1. id \in DOMAIN i => Signatures(n, known) = {i[id]}   BY <1>2, OneInterface
    <2>2. (\E s : Signatures(n, known) = {s}) => id \in DOMAIN i   BY <1>2 DEF Complete
    <2>3. f.kind = "public" \/ (id \in DOMAIN i /\ (f.kind = "return" \/ f.parameter \in i[id]))
          <=> Placed(f, Signatures(n, known))
        <3> HIDE DEF id, n
        <3>1. CASE id \in DOMAIN i   BY <3>1, <2>1 DEF Placed
        <3>2. CASE id \notin DOMAIN i   BY <3>2, <2>2 DEF Placed
        <3> QED BY <3>1, <3>2
    <2> QED BY <1>2, <2>3 DEF Endpoint, Target, Named
<1> QED BY <1>1, <1>2

----------------------------------------------------------------------------
(* The facts of a source *)

Status(m, v) == IF Written(m, v).limited THEN "resource_limit" ELSE "fresh"

\* A source has the facts of one text.
SliceWhole(s, m, v) ==
    IF v = 0 THEN s = NoSlice
    ELSE /\ s.version = v /\ s.status = Status(m, v)
         /\ {a.item : a \in s.anchors} = AnchorNames(m, v) /\ DOMAIN s.endpoints = Facts(m, v)

\* It has the identities and the interfaces of its own names, and the
\* identity of every other name it mentions, but for some.
SliceTrue(s, m, ids, known, changed) ==
    /\ s.anchors = {[owner |-> ids[n], item |-> n] : n \in AnchorNames(m, known[m])}
    /\ \A n \in AnchorNames(m, known[m]) :
          /\ ids[n] \in DOMAIN s.interface => Signatures(n, known) = {s.interface[ids[n]]}
          /\ (\E g : Signatures(n, known) = {g}) => ids[n] \in DOMAIN s.interface
    /\ \A f \in DOMAIN s.endpoints :
          /\ s.endpoints[f] = NoId \/ (f.item \in Items(known) /\ s.endpoints[f] = ids[f.item])
          /\ f.item \notin changed => s.endpoints[f] = Target(f, ids, known)

LEMMA MaterializedIsWhole ==
    ASSUME NEW m, NEW v, v # 0, NEW ids, NEW i
    PROVE  SliceWhole(MaterializeSource(m, v, ids, i), m, v)
<1> DEFINE names == AnchorNames(m, v)
           A == {[owner |-> ids[n], item |-> n] : n \in names}
           s == MaterializeSource(m, v, ids, i)
<1>1. {a.item : a \in A} = names
    <2>1. \A n \in names : [owner |-> ids[n], item |-> n] \in A /\ [owner |-> ids[n], item |-> n].item = n
        OBVIOUS
    <2>2. \A a \in A : a.item \in names   OBVIOUS
    <2> HIDE DEF A, names
    <2> QED BY <2>1, <2>2
<1>2. /\ s.version = v /\ s.status = Status(m, v) /\ s.anchors = A /\ DOMAIN s.endpoints = Facts(m, v)
    BY DEF MaterializeSource, Resolved, Status
<1> HIDE DEF A, names, s
<1>3. {a.item : a \in s.anchors} = names   BY <1>1, <1>2
<1> QED BY <1>2, <1>3 DEF SliceWhole, s, names

LEMMA MaterializedIsTrue ==
    ASSUME NEW known \in Known, NEW m \in LineageModule, known[m] # 0, NEW ids, Named(ids, known),
           NEW i, Describes(i, ids, known), Complete(i, ids, known), NEW changed
    PROVE  SliceTrue(MaterializeSource(m, known[m], ids, i), m, ids, known, changed)
<1> DEFINE v == known[m]
           names == AnchorNames(m, v)
           A == {[owner |-> ids[n], item |-> n] : n \in names}
           s == MaterializeSource(m, v, ids, i)
           ends == [f \in Facts(m, v) |-> Endpoint(f, ids, i)]
           own == DOMAIN i \cap ({a.owner : a \in A} \cup {ends[f] : f \in {g \in Facts(m, v) : g.kind # "public"}})
<1>1. s.anchors = A /\ s.endpoints = ends /\ s.interface = [x \in own |-> i[x]]
    BY DEF MaterializeSource, Resolved, Restrict
<1>2. names \subseteq Items(known)   BY ItemShape
<1>3. \A n \in names : ids[n] \in {a.owner : a \in A}
    <2> TAKE n \in names
    <2>1. [owner |-> ids[n], item |-> n] \in A   OBVIOUS
    <2> QED BY <2>1
<1>4. \A f \in DOMAIN ends : ends[f] = Target(f, ids, known)   BY EndpointIsTarget
<1>5. \A n \in names : ids[n] \in own <=> ids[n] \in DOMAIN i   BY <1>3
<1>6. DOMAIN s.interface = own /\ \A x \in own : s.interface[x] = i[x]   BY <1>1
<1>7. s.anchors = {[owner |-> ids[n], item |-> n] : n \in AnchorNames(m, known[m])}   BY <1>1
<1>8. \A f \in DOMAIN s.endpoints :
          /\ s.endpoints[f] = NoId \/ (f.item \in Items(known) /\ s.endpoints[f] = ids[f.item])
          /\ s.endpoints[f] = Target(f, ids, known)
    BY <1>1, <1>4 DEF Target
<1> HIDE DEF s, own, names
<1>9. ASSUME NEW n \in names
      PROVE  /\ ids[n] \in DOMAIN s.interface => Signatures(n, known) = {s.interface[ids[n]]}
             /\ (\E g : Signatures(n, known) = {g}) => ids[n] \in DOMAIN s.interface
    <2>1. ids[n] \in DOMAIN i => Signatures(n, known) = {i[ids[n]]}   BY <1>2, OneInterface
    <2>2. (\E g : Signatures(n, known) = {g}) => ids[n] \in DOMAIN i   BY <1>2 DEF Complete
    <2> QED BY <2>1, <2>2, <1>5, <1>6
<1> QED BY <1>7, <1>8, <1>9 DEF SliceTrue, s, names

----------------------------------------------------------------------------
(* A lineage all of whose sources are resolved again *)

Rebuilt(known, ids, i) ==
    [m \in LineageModule |-> IF known[m] = 0 THEN NoSlice ELSE MaterializeSource(m, known[m], ids, i)]

LEMMA AnchorsNamed ==
    ASSUME NEW known \in Known, NEW m \in LineageModule, NEW ids, Named(ids, known)
    PROVE  AnchorNames(m, known[m]) \subseteq DOMAIN ids
<1>1. AnchorNames(m, known[m]) \subseteq Items(known)   BY ItemShape
<1> QED BY <1>1 DEF Named

LEMMA ReresolvedIsMaterialized ==
    ASSUME NEW m, NEW v, v # 0, NEW ids, AnchorNames(m, v) \subseteq DOMAIN ids, NEW i,
           NEW s, SliceWhole(s, m, v)
    PROVE  Reresolve(s, ids, i) = MaterializeSource(m, v, ids, i)
<1>1. {a.item : a \in s.anchors} \cap DOMAIN ids = AnchorNames(m, v)   BY DEF SliceWhole
<1> QED BY <1>1 DEF Reresolve, MaterializeSource, SliceWhole, Status

Whole(st) ==
    /\ {"known", "lineage", "indexes", "family", "resync"} \subseteq DOMAIN st
    /\ st.known \in Known /\ DOMAIN st.lineage = LineageModule
    /\ \A m \in LineageModule : SliceWhole(st.lineage[m], m, st.known[m])
    /\ st.indexes = BuildIndexes(st.lineage)
    /\ st.family = "fresh" => \A m \in LineageModule : st.lineage[m].status # "resource_limit"

TrueFor(st, reg, changed) ==
    /\ Items(st.known) \subseteq DOMAIN reg.artifact.active
    /\ \A m \in LineageModule : st.known[m] # 0 =>
          SliceTrue(st.lineage[m], m, ActiveIds(reg, st.known), st.known, changed)

\* The interfaces of all the sources that are not over the limit.
LEMMA AllDescribed ==
    ASSUME NEW known \in Known, NEW ids, Named(ids, known), NEW Q \in SUBSET LineageModule,
           \A q \in Q : known[q] # 0,
           \A q \in LineageModule : known[q] # 0 /\ ~ Written(q, known[q]).limited => q \in Q
    PROVE  LET i == MergedInterfaces({Described(q, known[q], AnchorNames(q, known[q]), ids) : q \in Q})
           IN Describes(i, ids, known) /\ Complete(i, ids, known)
<1> DEFINE D(q) == Described(q, known[q], AnchorNames(q, known[q]), ids)
           functions == {D(q) : q \in Q}
<1>1. ASSUME NEW q \in Q
      PROVE  /\ Describes(D(q), ids, known)
             /\ \A n \in Items(known) : n[1] = q /\ (\E s : Signatures(n, known) = {s}) => ids[n] \in DOMAIN D(q)
    BY DescribedIsRight
<1>2. ASSUME NEW n \in Items(known), NEW s, Signatures(n, known) = {s}
      PROVE  \E f \in functions : ids[n] \in DOMAIN f
    <2>1. ~ Written(n[1], known[n[1]]).limited   BY <1>2 DEF Signatures
    <2>2. n[1] \in LineageModule /\ known[n[1]] # 0   BY ItemShape
    <2>3. n[1] \in Q   BY <2>1, <2>2
    <2> QED BY <2>3, <1>1, <1>2
<1> HIDE DEF D
<1>3. Describes(MergedInterfaces(functions), ids, known)   BY <1>1, MergedDescribes
<1>4. Complete(MergedInterfaces(functions), ids, known)   BY <1>2, MergedComplete
<1> QED BY <1>3, <1>4 DEF D

\* An update that brings the registry up to date resolves every source.
LEMMA RematerializedIsRebuilt ==
    ASSUME Whole(canon), NEW m \in LineageModule, NEW v \in 0 .. LastVersion, NEW known,
           known = [canon.known EXCEPT ![m] = v], NEW ids, Named(ids, known)
    PROVE  \E i : /\ Rematerialized(m, v, known, ids) = Rebuilt(known, ids, i)
                  /\ Describes(i, ids, known) /\ Complete(i, ids, known)
<1> DEFINE retained == [q \in LineageModule |-> IF q = m THEN NoSlice ELSE canon.lineage[q]]
           D(q) == Described(q, known[q], AnchorNames(q, known[q]), ids)
           fresh == {p \in LineageModule : retained[p].status = "fresh"}
           Q == fresh \cup (IF v = 0 THEN {} ELSE {m})
           kept == {Described(q, retained[q].version, {a.item : a \in retained[q].anchors} \cap DOMAIN ids, ids)
                       : q \in fresh}
           i == MergedInterfaces(kept \cup (IF v = 0 THEN {} ELSE {Described(m, v, AnchorNames(m, v), ids)}))
<1>1. known \in Known /\ known[m] = v /\ \A q \in LineageModule \ {m} : known[q] = canon.known[q]
    BY DEF Known, Whole
<1>2. ASSUME NEW q \in LineageModule, q # m
      PROVE  /\ SliceWhole(retained[q], q, known[q])
             /\ known[q] = 0 => retained[q] = NoSlice
             /\ known[q] # 0 => retained[q] # NoSlice /\ retained[q].version = known[q]
                                /\ (retained[q].status = "fresh" <=> ~ Written(q, known[q]).limited)
    <2>1. SliceWhole(retained[q], q, known[q])   BY <1>1, <1>2 DEF Whole
    <2>2. NoSlice.version = 0   BY DEF NoSlice
    <2> QED BY <2>1, <2>2 DEF SliceWhole, Status
<1>3. retained[m] = NoSlice /\ NoSlice.status # "fresh"   BY DEF NoSlice
<1>4. \A q \in fresh : q # m /\ known[q] # 0   BY <1>2, <1>3
<1>5. \A q \in LineageModule : known[q] # 0 /\ ~ Written(q, known[q]).limited => q \in Q
    BY <1>1, <1>2
<1>6. \A q \in Q : known[q] # 0   BY <1>1, <1>4
<1>7. \A q \in LineageModule : q # m /\ known[q] # 0 =>
          /\ Reresolve(retained[q], ids, i) = MaterializeSource(q, known[q], ids, i)
          /\ {a.item : a \in retained[q].anchors} \cap DOMAIN ids = AnchorNames(q, known[q])
    <2> HIDE DEF retained, i, D, fresh, Q, kept
    <2> TAKE q \in LineageModule
    <2> HAVE q # m /\ known[q] # 0
    <2>1. SliceWhole(retained[q], q, known[q])   BY <1>2
    <2>2. AnchorNames(q, known[q]) \subseteq DOMAIN ids   BY <1>1, AnchorsNamed
    <2>3. {a.item : a \in retained[q].anchors} \cap DOMAIN ids = AnchorNames(q, known[q])
        BY <2>1, <2>2 DEF SliceWhole
    <2>4. Reresolve(retained[q], ids, i) = MaterializeSource(q, known[q], ids, i)
        BY <2>1, <2>2, ReresolvedIsMaterialized
    <2> QED BY <2>3, <2>4
<1>8. kept \cup (IF v = 0 THEN {} ELSE {Described(m, v, AnchorNames(m, v), ids)}) = {D(q) : q \in Q}
    <2>1. \A q \in fresh : Described(q, retained[q].version, {a.item : a \in retained[q].anchors} \cap DOMAIN ids, ids) = D(q)
        BY <1>2, <1>4, <1>7
    <2>2. Described(m, v, AnchorNames(m, v), ids) = D(m)   BY <1>1
    <2> HIDE DEF D, retained
    <2>3. kept = {D(q) : q \in fresh}   BY <2>1
    <2>4. CASE v = 0   BY <2>3, <2>4
    <2>5. CASE v # 0
        <3>1. Q = fresh \cup {m}   BY <2>5
        <3> HIDE DEF Q, kept, fresh
        <3> QED BY <3>1, <2>2, <2>3, <2>5
    <2> QED BY <2>4, <2>5
<1>9. Describes(i, ids, known) /\ Complete(i, ids, known)
    <2>1. Q \in SUBSET LineageModule   OBVIOUS
    <2>2. i = MergedInterfaces({D(q) : q \in Q})   BY <1>8
    <2> HIDE DEF Q, i
    <2> QED BY <2>1, <2>2, <1>1, <1>5, <1>6, AllDescribed
<1>10. Rematerialized(m, v, known, ids) =
          [q \in LineageModule |->
             IF q = m /\ v # 0 THEN MaterializeSource(m, v, ids, i)
             ELSE IF retained[q] = NoSlice THEN NoSlice
             ELSE Reresolve(retained[q], ids, i)]
    BY DEF Rematerialized
<1> HIDE DEF i, retained
<1>11. Rematerialized(m, v, known, ids) = Rebuilt(known, ids, i)
    <2>1. ASSUME NEW q \in LineageModule
          PROVE  (IF q = m /\ v # 0 THEN MaterializeSource(m, v, ids, i)
                  ELSE IF retained[q] = NoSlice THEN NoSlice ELSE Reresolve(retained[q], ids, i))
                 = (IF known[q] = 0 THEN NoSlice ELSE MaterializeSource(q, known[q], ids, i))
        <3>1. CASE q = m   BY <3>1, <1>1, <1>3
        <3>2. CASE q # m   BY <3>2, <1>2, <1>7
        <3> QED BY <3>1, <3>2
    <2> QED BY <2>1, <1>10 DEF Rebuilt
<1> QED BY <1>9, <1>11

\* So does an analysis, whatever it keeps of the facts of before.
LEMMA AnalysedIsRebuilt ==
    ASSUME Whole(canon), OnDisk \in Known, NEW reg, Named(ActiveIds(reg, OnDisk), OnDisk)
    PROVE  \E i : /\ Analysed(reg).lineage = Rebuilt(OnDisk, ActiveIds(reg, OnDisk), i)
                  /\ Describes(i, ActiveIds(reg, OnDisk), OnDisk) /\ Complete(i, ActiveIds(reg, OnDisk), OnDisk)
<1> DEFINE known == OnDisk
           ids == ActiveIds(reg, known)
           Q == {q \in LineageModule : known[q] # 0}
           i == MergedInterfaces({Described(m, known[m], AnchorNames(m, known[m]), ids) : m \in Q})
           reusable(m) == /\ canon.family = "fresh" /\ ~canon.resync
                          /\ canon.lineage[m].status = "fresh" /\ canon.lineage[m].version = known[m]
<1>1. Describes(i, ids, known) /\ Complete(i, ids, known)
    <2>1. /\ Q \in SUBSET LineageModule /\ \A q \in Q : known[q] # 0
          /\ \A q \in LineageModule : known[q] # 0 /\ ~ Written(q, known[q]).limited => q \in Q
        OBVIOUS
    <2> HIDE DEF Q, ids, known
    <2> QED BY <2>1, AllDescribed DEF ids, known
<1>2. Analysed(reg).lineage =
         [m \in LineageModule |->
            IF known[m] = 0 THEN NoSlice
            ELSE IF ~reusable(m) THEN MaterializeSource(m, known[m], ids, i)
            ELSE IF MatchesResolution(m, canon.lineage[m], ids, i) THEN canon.lineage[m]
            ELSE Reresolve(canon.lineage[m], ids, i)]
    BY DEF Analysed
<1> HIDE DEF i
<1>3. ASSUME NEW m \in LineageModule, known[m] # 0
      PROVE  (IF ~reusable(m) THEN MaterializeSource(m, known[m], ids, i)
              ELSE IF MatchesResolution(m, canon.lineage[m], ids, i) THEN canon.lineage[m]
              ELSE Reresolve(canon.lineage[m], ids, i)) = MaterializeSource(m, known[m], ids, i)
    <2>1. ASSUME reusable(m) PROVE SliceWhole(canon.lineage[m], m, known[m])
        <3>1. canon.lineage[m].version # 0   BY <2>1, <1>3
        <3>2. canon.known[m] = known[m]   BY <2>1, <3>1 DEF Whole, SliceWhole, NoSlice
        <3> QED BY <3>2 DEF Whole
    <2>2. ASSUME reusable(m) PROVE Reresolve(canon.lineage[m], ids, i) = MaterializeSource(m, known[m], ids, i)
        <3>1. AnchorNames(m, known[m]) \subseteq DOMAIN ids   BY AnchorsNamed
        <3> HIDE DEF ids, known, reusable
        <3> QED BY <3>1, <2>1, <2>2, <1>3, ReresolvedIsMaterialized
    <2>3. ASSUME reusable(m), MatchesResolution(m, canon.lineage[m], ids, i)
          PROVE  canon.lineage[m] = MaterializeSource(m, known[m], ids, i)
        BY <2>3 DEF MatchesResolution
    <2> HIDE DEF ids, known, reusable
    <2> QED BY <2>2, <2>3
<1>4. Analysed(reg).lineage = Rebuilt(known, ids, i)
    <2> HIDE DEF ids, known, reusable
    <2> QED BY <1>2, <1>3 DEF Rebuilt
<1> QED BY <1>1, <1>4

LEMMA RebuiltIsTrue ==
    ASSUME NEW known \in Known, NEW ids, Named(ids, known), NEW i,
           Describes(i, ids, known), Complete(i, ids, known)
    PROVE  /\ DOMAIN Rebuilt(known, ids, i) = LineageModule
           /\ \A m \in LineageModule : SliceWhole(Rebuilt(known, ids, i)[m], m, known[m])
           /\ \A m \in LineageModule : known[m] # 0 =>
                 SliceTrue(Rebuilt(known, ids, i)[m], m, ids, known, {})
<1>1. ASSUME NEW m \in LineageModule PROVE SliceWhole(Rebuilt(known, ids, i)[m], m, known[m])
    <2>1. CASE known[m] = 0   BY <2>1 DEF Rebuilt, SliceWhole
    <2>2. CASE known[m] # 0   BY <2>2, MaterializedIsWhole DEF Rebuilt
    <2> QED BY <2>1, <2>2
<1>2. ASSUME NEW m \in LineageModule, known[m] # 0
      PROVE  SliceTrue(Rebuilt(known, ids, i)[m], m, ids, known, {})
    BY <1>2, MaterializedIsTrue DEF Rebuilt
<1> QED BY <1>1, <1>2 DEF Rebuilt

\* The index patched for one source is the index built again.
LEMMA PatchedIsBuilt ==
    ASSUME NEW lineage, DOMAIN lineage = LineageModule, NEW m \in LineageModule, NEW slice
    PROVE  PatchIndexes(BuildIndexes(lineage), m, slice) = BuildIndexes([lineage EXCEPT ![m] = slice])
<1> DEFINE new == [lineage EXCEPT ![m] = slice]
           O(q) == OwnersOf(lineage[q])
           N(q) == OwnersOf(new[q])
           old == BuildIndexes(lineage)
           left(id) == old.sources[id] \ (IF id \in old.owners[m] THEN {m} ELSE {})
           kept == {id \in DOMAIN old.sources : left(id) # {}}
           sources == [id \in kept \cup OwnersOf(slice) |->
                         (IF id \in kept THEN left(id) ELSE {})
                         \cup (IF id \in OwnersOf(slice) THEN {m} ELSE {})]
           built == [id \in UNION {N(q) : q \in LineageModule} |-> {q \in LineageModule : id \in N(q)}]
           owners == [q \in LineageModule |-> N(q)]
<1>1. N(m) = OwnersOf(slice) /\ \A q \in LineageModule \ {m} : N(q) = O(q)   OBVIOUS
<1>2. /\ DOMAIN old.sources = UNION {O(q) : q \in LineageModule} /\ old.owners[m] = O(m)
      /\ \A id \in DOMAIN old.sources : old.sources[id] = {q \in LineageModule : id \in O(q)}
    BY DEF BuildIndexes
<1>3. old.owners = [q \in LineageModule |-> O(q)]   BY DEF BuildIndexes
<1>4. PatchIndexes(old, m, slice) = [sources |-> sources, owners |-> [old.owners EXCEPT ![m] = OwnersOf(slice)]]
    BY DEF PatchIndexes
<1>5. BuildIndexes(new) = [sources |-> built, owners |-> owners]   BY DEF BuildIndexes
<1>6. [old.owners EXCEPT ![m] = OwnersOf(slice)] = owners
    <2> HIDE DEF O, N, old
    <2> QED BY <1>1, <1>3
<1> HIDE DEF old, O, N
<1>7. \A id : id \in kept <=> \E q \in LineageModule \ {m} : id \in N(q)
    <2> TAKE id
    <2>1. ASSUME id \in DOMAIN old.sources PROVE left(id) = {q \in LineageModule : id \in O(q) /\ q # m}
        BY <2>1, <1>2
    <2>2. id \in kept <=> id \in DOMAIN old.sources /\ \E q \in LineageModule : id \in O(q) /\ q # m
        BY <2>1
    <2> QED BY <2>2, <1>1, <1>2
<1>8. DOMAIN sources = DOMAIN built
    <2>1. ASSUME NEW id PROVE id \in kept \cup OwnersOf(slice) <=> id \in UNION {N(q) : q \in LineageModule}
        BY <1>1, <1>7
    <2> QED BY <2>1
<1>9. ASSUME NEW id \in DOMAIN built PROVE sources[id] = built[id]
    <2>1. built[id] = {q \in LineageModule : id \in N(q)}   OBVIOUS
    <2>2. sources[id] = (IF id \in kept THEN left(id) ELSE {}) \cup (IF id \in OwnersOf(slice) THEN {m} ELSE {})
        BY <1>8
    <2>3. (IF id \in kept THEN left(id) ELSE {}) = {q \in LineageModule : id \in N(q) /\ q # m}
        <3>1. CASE id \in kept
            <4>1. left(id) = {q \in LineageModule : id \in O(q) /\ q # m}   BY <3>1, <1>2
            <4> QED BY <3>1, <4>1, <1>1
        <3>2. CASE id \notin kept   BY <3>2, <1>7
        <3> QED BY <3>1, <3>2
    <2>4. (IF id \in OwnersOf(slice) THEN {m} ELSE {}) = {q \in LineageModule : id \in N(q) /\ q = m}
        BY <1>1
    <2> HIDE DEF built, sources, left, kept
    <2> QED BY <2>1, <2>2, <2>3, <2>4
<1>10. sources = built
    <2>1. sources = [id \in DOMAIN sources |-> sources[id]] /\ built = [id \in DOMAIN built |-> built[id]]
        OBVIOUS
    <2> HIDE DEF sources, built
    <2> QED BY <2>1, <1>8, <1>9
<1> HIDE DEF sources, built, owners
<1> QED BY <1>4, <1>5, <1>6, <1>10 DEF old

\* A name keeps its parameter lists when the text of another module changes.
LEMMA SignaturesElsewhere ==
    ASSUME NEW known \in Known, NEW m \in LineageModule, NEW v, NEW n, n[1] \in LineageModule, n[1] # m
    PROVE  Signatures(n, [known EXCEPT ![m] = v]) = Signatures(n, known)
<1>1. [known EXCEPT ![m] = v][n[1]] = known[n[1]]   BY DEF Known
<1> QED BY <1>1 DEF Signatures

\* The same names before and after, the one source that changed is enough.
LEMMA OneMaterializedIsTrue ==
    ASSUME Whole(canon), NEW m \in LineageModule, NEW v \in 1 .. LastVersion,
           NEW known, known = [canon.known EXCEPT ![m] = v], Items(known) = Items(canon.known),
           NEW ids, Named(ids, known), NEW drift, NEW changed, drift \subseteq changed,
           \A q \in LineageModule : canon.known[q] # 0 => SliceTrue(canon.lineage[q], q, ids, canon.known, drift),
           \A n \in Items(known) : n[1] = m /\ n \notin changed => Signatures(n, known) = Signatures(n, canon.known)
    PROVE  \A q \in LineageModule : known[q] # 0 =>
              SliceTrue(OneMaterialized(m, v, ids)[q], q, ids, known, changed)
<1> DEFINE stored(q) == Restrict(canon.lineage[q].interface,
                           {a.owner : a \in canon.lineage[q].anchors}
                           \cap DOMAIN canon.lineage[q].interface \cap {ids[n] : n \in DOMAIN ids})
           functions == {stored(q) : q \in LineageModule \ {m}} \cup {Described(m, v, AnchorNames(m, v), ids)}
           i == MergedInterfaces(functions)
<1>1. canon.known \in Known /\ known \in Known /\ known[m] = v /\ v # 0
      /\ \A q \in LineageModule \ {m} : known[q] = canon.known[q]
    BY LineageAssumption DEF Known, Whole
<1>2. \A n \in Items(known) : n[1] \in LineageModule /\ known[n[1]] # 0 /\ n \in Defined(n[1], known[n[1]])
    BY <1>1, ItemShape
<1>3. ASSUME NEW n, n[1] \in LineageModule, n[1] # m PROVE Signatures(n, known) = Signatures(n, canon.known)
    BY <1>1, <1>3, SignaturesElsewhere
<1>4. ASSUME NEW q \in LineageModule \ {m}, known[q] # 0
      PROVE  /\ canon.lineage[q].anchors = {[owner |-> ids[n], item |-> n] : n \in AnchorNames(q, known[q])}
             /\ \A n \in AnchorNames(q, known[q]) :
                   /\ n \in Items(known) /\ n[1] = q
                   /\ ids[n] \in DOMAIN canon.lineage[q].interface =>
                         Signatures(n, known) = {canon.lineage[q].interface[ids[n]]}
                   /\ (\E g : Signatures(n, known) = {g}) => ids[n] \in DOMAIN canon.lineage[q].interface
    <2>1. SliceTrue(canon.lineage[q], q, ids, canon.known, drift) /\ canon.known[q] = known[q]   BY <1>1, <1>4
    <2>2. \A n \in AnchorNames(q, known[q]) : n \in Items(known) /\ n[1] = q   BY <1>1, ItemShape
    <2>3. \A n \in AnchorNames(q, known[q]) : Signatures(n, known) = Signatures(n, canon.known)
        BY <2>2, <1>3
    <2> QED BY <2>1, <2>2, <2>3 DEF SliceTrue
<1>5. ASSUME NEW q \in LineageModule \ {m}
      PROVE  /\ DOMAIN stored(q) = {a.owner : a \in canon.lineage[q].anchors}
                                   \cap DOMAIN canon.lineage[q].interface \cap {ids[n] : n \in DOMAIN ids}
             /\ \A x \in DOMAIN stored(q) : stored(q)[x] = canon.lineage[q].interface[x]
    BY DEF Restrict
<1> HIDE DEF stored
<1>6. ASSUME NEW q \in LineageModule \ {m} PROVE Describes(stored(q), ids, known)
    <2> SUFFICES ASSUME NEW x \in DOMAIN stored(q)
                 PROVE  \E n \in Items(known) : x = ids[n] /\ Signatures(n, known) = {stored(q)[x]}
        BY DEF Describes
    <2>0. x \in {a.owner : a \in canon.lineage[q].anchors}   BY <1>5
    <2>1. PICK a \in canon.lineage[q].anchors : x = a.owner   BY <2>0
    <2>2. known[q] # 0
        <3> SUFFICES ASSUME known[q] = 0 PROVE FALSE
            OBVIOUS
        <3>1. canon.lineage[q] = NoSlice   BY <1>1 DEF Whole, SliceWhole
        <3> QED BY <2>1, <3>1 DEF NoSlice
    <2>3. PICK n \in AnchorNames(q, known[q]) : a = [owner |-> ids[n], item |-> n]   BY <2>1, <2>2, <1>4
    <2>4. x = ids[n] /\ n \in Items(known)   BY <2>1, <2>2, <2>3, <1>4
    <2>5. x \in DOMAIN canon.lineage[q].interface /\ stored(q)[x] = canon.lineage[q].interface[x]   BY <1>5
    <2>6. Signatures(n, known) = {canon.lineage[q].interface[ids[n]]}   BY <1>4, <2>2, <2>4, <2>5
    <2> QED BY <2>4, <2>5, <2>6
<1>7. ASSUME NEW n \in Items(known), NEW s, Signatures(n, known) = {s}
      PROVE  \E f \in functions : ids[n] \in DOMAIN f
    <2>1. CASE n[1] = m
        <3>1. known \in Known /\ known[m] # 0   BY <1>1
        <3>2. ids[n] \in DOMAIN Described(m, known[m], AnchorNames(m, known[m]), ids)
            BY <2>1, <3>1, <1>7, DescribedIsRight
        <3>3. ids[n] \in DOMAIN Described(m, v, AnchorNames(m, v), ids)   BY <3>2, <1>1
        <3> QED BY <3>3
    <2>2. CASE n[1] # m
        <3> DEFINE q == n[1]
        <3>1. q \in LineageModule \ {m} /\ known[q] # 0   BY <2>2, <1>2
        <3>2. n \in AnchorNames(q, known[q])   BY <1>2, <1>7 DEF Signatures, AnchorNames
        <3>3. [owner |-> ids[n], item |-> n] \in canon.lineage[q].anchors   BY <3>1, <3>2, <1>4
        <3>4. ids[n] \in {a.owner : a \in canon.lineage[q].anchors}   BY <3>3
        <3>5. ids[n] \in DOMAIN canon.lineage[q].interface   BY <3>1, <3>2, <1>4, <1>7
        <3>6. ids[n] \in {ids[p] : p \in DOMAIN ids}   BY DEF Named
        <3>7. ids[n] \in DOMAIN stored(q)   BY <3>1, <3>4, <3>5, <3>6, <1>5
        <3> QED BY <3>1, <3>7
    <2> QED BY <2>1, <2>2
<1>8. \A f \in functions : Describes(f, ids, known)   BY <1>1, <1>6, DescribedIsRight
<1> HIDE DEF functions
<1>9. Describes(i, ids, known)   BY <1>8, MergedDescribes
<1>10. Complete(i, ids, known)   BY <1>7, MergedComplete
<1>11. OneMaterialized(m, v, ids) = [canon.lineage EXCEPT ![m] = MaterializeSource(m, v, ids, i)]
    BY DEF OneMaterialized, functions, stored
<1> HIDE DEF i
<1>12. DOMAIN canon.lineage = LineageModule   BY DEF Whole
<1>13. OneMaterialized(m, v, ids)[m] = MaterializeSource(m, v, ids, i)
       /\ \A q \in LineageModule \ {m} : OneMaterialized(m, v, ids)[q] = canon.lineage[q]
    BY <1>11, <1>12
<1>14. SliceTrue(MaterializeSource(m, v, ids, i), m, ids, known, changed)
    BY <1>1, <1>9, <1>10, MaterializedIsTrue
<1>15. ASSUME NEW q \in LineageModule \ {m}, known[q] # 0 PROVE SliceTrue(canon.lineage[q], q, ids, known, changed)
    <2>1. ASSUME NEW f \in DOMAIN canon.lineage[q].endpoints, f.item \notin changed
          PROVE  canon.lineage[q].endpoints[f] = Target(f, ids, known)
        <3>1. canon.lineage[q].endpoints[f] = Target(f, ids, canon.known)   BY <1>1, <1>15, <2>1 DEF SliceTrue
        <3>2. f.item \in Items(known) => Signatures(f.item, known) = Signatures(f.item, canon.known)
            BY <1>2, <1>3, <2>1
        <3> QED BY <3>1, <3>2 DEF Target
    <2>2. \A f \in DOMAIN canon.lineage[q].endpoints :
             \/ canon.lineage[q].endpoints[f] = NoId
             \/ f.item \in Items(known) /\ canon.lineage[q].endpoints[f] = ids[f.item]
        BY <1>1, <1>15 DEF SliceTrue
    <2> QED BY <2>1, <2>2, <1>4, <1>15 DEF SliceTrue
<1> QED BY <1>1, <1>13, <1>14, <1>15

----------------------------------------------------------------------------
(* The invariant *)

Published(den, k) == {<<d[2], d[3]>> : d \in {e \in den : e[1] = k}}
RegistrySound(reg, den) == \A k \in Kind : reg[k] \in RegisterOf(k) /\ Sound(reg[k], Published(den, k))

\* What a mutation that brings no registry up to date changes for others.
ChangedBetween(m, before, after) ==
    LET signatures(v, n) == {<<d.kind, d.signature>> : d \in {e \in Written(m, v).defs :
                                ~Written(m, v).limited /\ <<m, e.name>> = n}}
    IN {n \in Defined(m, after[m]) : signatures(before[m], n) # signatures(after[m], n)}
ChangedThen == IF op.synced THEN {} ELSE drifted \cup ChangedBetween(op.module, canon.known, op.state.known)

IdentitiesInv ==
    /\ workspace \in Known
    /\ \A d \in denoted : d[1] \in Kind /\ d[2] \in Id
    /\ RegistrySound(registry, denoted)
    /\ op # Idle /\ op.kind = "update" => RegistrySound(op.checkpoint, denoted)

FactsInv ==
    /\ Whole(canon)
    /\ ~ ahead => TrueFor(canon, IF op = Idle THEN registry ELSE op.checkpoint, drifted)
    /\ op # Idle => /\ Whole(op.state)
                    /\ op.synced \/ ~ ahead => TrueFor(op.state, registry, ChangedThen)

LineageInv == IdentitiesInv /\ FactsInv

LEMMA PublishedTyped ==
    ASSUME \A d \in denoted : d[1] \in Kind /\ d[2] \in Id
    PROVE  \A k \in Kind : \A p \in Published(denoted, k) : p[1] \in Id
BY DEF Published

\* The items of a state have an identity each, and no two the same.
LEMMA ActiveIdsNamed ==
    ASSUME NEW known \in Known, NEW reg, NEW P, reg.artifact \in RegisterOf("artifact"), Sound(reg.artifact, P),
           Items(known) \subseteq DOMAIN reg.artifact.active
    PROVE  /\ Named(ActiveIds(reg, known), known)
           /\ \A n \in Items(known) : ActiveIds(reg, known)[n] = reg.artifact.active[n]
<1> DEFINE r == reg.artifact
           ids == ActiveIds(reg, known)
<1>1. ids = [n \in Items(known) |-> r.active[n]]   BY DEF ActiveIds, Restrict, Items
<1>2. \A n \in DOMAIN r.active : r.active[n] \in Id   BY HeldTyped DEF Kind
<1>3. \A n \in DOMAIN r.active : <<r.active[n], n>> \in Held(r)   BY DEF Held
<1>4. ASSUME NEW n \in DOMAIN r.active, NEW q \in DOMAIN r.active, r.active[n] = r.active[q] PROVE n = q
    <2> DEFINE h == <<r.active[n], n>>
               g == <<r.active[q], q>>
    <2>1. h \in Held(r) /\ g \in Held(r)   BY <1>3
    <2>2. h[1] = g[1] => h[2] = g[2]
        <3> HIDE DEF h, g
        <3> QED BY <2>1 DEF Sound
    <2> QED BY <2>2, <1>4
<1> HIDE DEF ids, r
<1> QED BY <1>1, <1>2, <1>4 DEF Named, ids, r

LEMMA SyncedRegistryKeeps ==
    ASSUME NEW known \in Known, RegistrySound(registry, denoted), \A d \in denoted : d[1] \in Kind /\ d[2] \in Id,
           NEW reg \in SyncedRegistry(known)
    PROVE  RegistrySound(reg, denoted) /\ DOMAIN reg.artifact.active = Items(known)
<1>1. PICK rm \in Synced(registry.module, ItemsOf(known).module),
           ra \in Synced(registry.artifact, ItemsOf(known).artifact) : reg = [module |-> rm, artifact |-> ra]
    BY DEF SyncedRegistry
<1>2. ItemsOf(known).module \in SUBSET LineageItems("module") /\ ItemsOf(known).artifact \in SUBSET LineageItems("artifact")
    BY ItemShape DEF Items
<1>3. \A k \in Kind : \A p \in Published(denoted, k) : p[1] \in Id   BY PublishedTyped
<1>4. "module" \in Kind /\ "artifact" \in Kind   BY DEF Kind
<1>5. rm \in RegisterOf("module") /\ Sound(rm, Published(denoted, "module"))
    BY <1>2, <1>3, <1>4, SyncedKeeps DEF RegistrySound
<1>6. ra \in RegisterOf("artifact") /\ Sound(ra, Published(denoted, "artifact")) /\ DOMAIN ra.active = ItemsOf(known).artifact
    BY <1>2, <1>3, <1>4, SyncedKeeps DEF RegistrySound
<1>7. \A k \in Kind : k = "module" \/ k = "artifact"   BY DEF Kind
<1>8. reg.module = rm /\ reg.artifact = ra /\ reg["module"] = rm /\ reg["artifact"] = ra   BY <1>1
<1> QED BY <1>5, <1>6, <1>7, <1>8 DEF RegistrySound, Items

\* Names that are not among the changed ones keep their parameter lists.
LEMMA UnchangedSignatures ==
    ASSUME NEW before \in Known, NEW after \in Known, NEW m \in LineageModule, NEW n \in Defined(m, after[m]),
           n \notin ChangedBetween(m, before, after)
    PROVE  Signatures(n, after) = Signatures(n, before)
<1> DEFINE defs(v) == {e \in Written(m, v).defs : ~Written(m, v).limited /\ <<m, e.name>> = n}
           pairs(v) == {<<d.kind, d.signature>> : d \in defs(v)}
<1>1. n[1] = m /\ n = <<m, n[2]>>   BY ItemShape
<1>2. pairs(before[m]) = pairs(after[m])   BY DEF ChangedBetween
<1>3. ASSUME NEW known \in Known
      PROVE  Signatures(n, known) = {p[2] : p \in {q \in pairs(known[m]) : q[1] = "function"}}
    <2> DEFINE v == known[m]
               functions == {e \in Written(m, v).defs :
                                ~ Written(m, v).limited /\ e.name = n[2] /\ e.kind = "function"}
    <2>1. Signatures(n, known) = {d.signature : d \in functions}   BY <1>1 DEF Signatures
    <2>2. \A d : d \in functions <=> d \in defs(v) /\ d.kind = "function"
        <3> TAKE d
        <3>1. <<m, d.name>> = n <=> d.name = n[2]   BY <1>1
        <3> QED BY <3>1
    <2> HIDE DEF functions, defs, v
    <2>3. \A s : (\E d \in functions : s = d.signature)
                <=> (\E d \in defs(v) : d.kind = "function" /\ s = d.signature)
        BY <2>2
    <2>4. \A s : (\E p \in pairs(v) : p[1] = "function" /\ s = p[2])
                <=> (\E d \in defs(v) : d.kind = "function" /\ s = d.signature)
        <3> TAKE s
        <3>1. ASSUME NEW p \in pairs(v), p[1] = "function", s = p[2]
              PROVE  \E d \in defs(v) : d.kind = "function" /\ s = d.signature
            BY <3>1
        <3>2. ASSUME NEW d \in defs(v), d.kind = "function", s = d.signature
              PROVE  \E p \in pairs(v) : p[1] = "function" /\ s = p[2]
            <4>1. <<d.kind, d.signature>> \in pairs(v)   OBVIOUS
            <4> QED BY <4>1, <3>2
        <3> QED BY <3>1, <3>2
    <2> HIDE DEF pairs
    <2> QED BY <2>1, <2>3, <2>4 DEF v
<1> HIDE DEF pairs
<1> QED BY <1>2, <1>3

\* The state an update has made.
LEMMA UpdatedIsTrue ==
    ASSUME Whole(canon), workspace \in Known, NEW m \in LineageModule, NEW reg, NEW P,
           reg.artifact \in RegisterOf("artifact"), Sound(reg.artifact, P),
           HasOwners(reg, [canon.known EXCEPT ![m] = workspace[m]]),
           ~ NeedsSync(m) => reg = registry,
           ~ ahead => TrueFor(canon, registry, drifted)
    PROVE  LET st == Updated(m, reg, NeedsSync(m))
           IN /\ Whole(st) /\ st.known = [canon.known EXCEPT ![m] = workspace[m]]
              /\ NeedsSync(m) \/ ~ ahead =>
                    TrueFor(st, reg, IF NeedsSync(m) THEN {}
                                     ELSE drifted \cup ChangedBetween(m, canon.known, st.known))
<1> DEFINE v == workspace[m]
           known == [canon.known EXCEPT ![m] = v]
           ids == ActiveIds(reg, known)
           st == Updated(m, reg, NeedsSync(m))
           lineage == IF NeedsSync(m) THEN Rematerialized(m, v, known, ids) ELSE OneMaterialized(m, v, ids)
<1>1. /\ st.known = known /\ st.lineage = lineage /\ st.family = Family(lineage, canon.resync)
      /\ st.indexes = (IF NeedsSync(m) THEN BuildIndexes(lineage) ELSE PatchIndexes(canon.indexes, m, lineage[m]))
      /\ {"known", "lineage", "indexes", "family", "resync"} \subseteq DOMAIN st
    BY DEF Updated
<1>2. /\ v \in 0 .. LastVersion /\ canon.known \in Known /\ known \in Known /\ known[m] = v
      /\ \A q \in LineageModule \ {m} : known[q] = canon.known[q]
    BY DEF Known, Whole
<1>3. Items(known) \subseteq DOMAIN reg.artifact.active   BY DEF HasOwners, Kind, Items
<1>4. Named(ids, known) /\ \A n \in Items(known) : ids[n] = reg.artifact.active[n]
    <2> HIDE DEF known
    <2> QED BY <1>2, <1>3, ActiveIdsNamed
<1>5. (\A q \in LineageModule : SliceWhole(lineage[q], q, known[q])) /\ DOMAIN lineage = LineageModule
         /\ st.indexes = BuildIndexes(lineage) => Whole(st)
    <2>1. Family(lineage, canon.resync) = "fresh" => \A q \in LineageModule : lineage[q].status # "resource_limit"
        BY DEF Family
    <2> HIDE DEF lineage, st, known
    <2> QED BY <2>1, <1>1, <1>2 DEF Whole
<1>6. CASE NeedsSync(m)
    <2>1. PICK i : lineage = Rebuilt(known, ids, i) /\ Describes(i, ids, known) /\ Complete(i, ids, known)
        <3> HIDE DEF ids
        <3> QED BY <1>2, <1>4, <1>6, RematerializedIsRebuilt
    <2>2. /\ DOMAIN lineage = LineageModule /\ \A q \in LineageModule : SliceWhole(lineage[q], q, known[q])
          /\ \A q \in LineageModule : known[q] # 0 => SliceTrue(lineage[q], q, ids, known, {})
        <3> HIDE DEF ids, known, lineage
        <3> QED BY <2>1, <1>2, <1>4, RebuiltIsTrue
    <2> HIDE DEF lineage, st, known
    <2>3. Whole(st)   BY <2>2, <1>1, <1>5, <1>6
    <2>4. TrueFor(st, reg, {})   BY <2>2, <1>1, <1>3 DEF TrueFor, ids
    <2> QED BY <2>3, <2>4, <1>1, <1>6 DEF known, st
<1>7. CASE ~ NeedsSync(m)
    <2>1. v # 0 /\ canon.known[m] # 0 /\ Defined(m, canon.known[m]) = Defined(m, v)   BY <1>7 DEF NeedsSync
    <2>2. v \in 1 .. LastVersion   BY <2>1, <1>2, LineageAssumption
    <2>3. Items(known) = Items(canon.known)
        <3>1. \A q \in LineageModule : Defined(q, known[q]) = Defined(q, canon.known[q])   BY <1>2, <2>1
        <3> HIDE DEF known
        <3> QED BY <3>1 DEF Items, ItemsOf
    <2>4. reg = registry   BY <1>7
    <2>5. ids = ActiveIds(registry, canon.known)
        <3> HIDE DEF known
        <3> QED BY <2>3, <2>4 DEF ActiveIds, Items
    <2> DEFINE i == MergedInterfaces(
                   {Restrict(canon.lineage[q].interface,
                        {a.owner : a \in canon.lineage[q].anchors}
                        \cap DOMAIN canon.lineage[q].interface \cap {ids[n] : n \in DOMAIN ids}) : q \in LineageModule \ {m}}
                   \cup {Described(m, v, AnchorNames(m, v), ids)})
               slice == MaterializeSource(m, v, ids, i)
    <2>6. lineage = [canon.lineage EXCEPT ![m] = slice]   BY <1>7 DEF OneMaterialized
    <2>7. SliceWhole(slice, m, v)
        <3> HIDE DEF i
        <3> QED BY <2>1, MaterializedIsWhole
    <2> HIDE DEF slice
    <2>8. DOMAIN lineage = LineageModule /\ lineage[m] = slice
          /\ \A q \in LineageModule \ {m} : lineage[q] = canon.lineage[q]
        BY <2>6 DEF Whole
    <2>9. \A q \in LineageModule : SliceWhole(lineage[q], q, known[q])
        <3> HIDE DEF lineage, known
        <3> QED BY <2>7, <2>8, <1>2 DEF Whole
    <2>10. st.indexes = BuildIndexes(lineage)
        <3>1. canon.indexes = BuildIndexes(canon.lineage) /\ DOMAIN canon.lineage = LineageModule   BY DEF Whole
        <3>2. PatchIndexes(canon.indexes, m, slice) = BuildIndexes([canon.lineage EXCEPT ![m] = slice])
            BY <3>1, PatchedIsBuilt
        <3>3. st.indexes = PatchIndexes(canon.indexes, m, lineage[m])   BY <1>1, <1>7
        <3> HIDE DEF lineage, st
        <3> QED BY <3>2, <3>3, <2>6, <2>8
    <2>11. Whole(st)
        <3> HIDE DEF lineage, st, known
        <3> QED BY <2>8, <2>9, <2>10, <1>5
    <2>12. ASSUME ~ ahead PROVE TrueFor(st, reg, drifted \cup ChangedBetween(m, canon.known, known))
        <3> DEFINE changed == drifted \cup ChangedBetween(m, canon.known, known)
        <3>1. \A q \in LineageModule : canon.known[q] # 0 => SliceTrue(canon.lineage[q], q, ids, canon.known, drifted)
            BY <2>12, <2>5 DEF TrueFor
        <3>2. ASSUME NEW n \in Items(known), n[1] = m, n \notin changed
              PROVE  Signatures(n, known) = Signatures(n, canon.known)
            <4> HIDE DEF known
            <4>1. n \in Defined(m, known[m])   BY <1>2, <3>2, ItemShape
            <4>2. n \notin ChangedBetween(m, canon.known, known)   BY <3>2
            <4> QED BY <1>2, <4>1, <4>2, UnchangedSignatures
        <3>3. lineage = OneMaterialized(m, v, ids)   BY <1>7
        <3> HIDE DEF ids, lineage, changed
        <3>4. \A q \in LineageModule : known[q] # 0 =>
                 SliceTrue(OneMaterialized(m, v, ids)[q], q, ids, known, changed)
            <4>1. drifted \subseteq changed   BY DEF changed
            <4> QED BY <1>4, <2>2, <2>3, <3>1, <3>2, <4>1, OneMaterializedIsTrue
        <3> HIDE DEF known, st
        <3>5. \A q \in LineageModule : known[q] # 0 => SliceTrue(lineage[q], q, ids, known, changed)
            BY <3>3, <3>4
        <3> QED BY <3>5, <1>1, <1>3 DEF TrueFor, ids, changed
    <2> HIDE DEF lineage, known, st
    <2> QED BY <2>11, <2>12, <1>1, <1>7 DEF known, st
<1> QED BY <1>6, <1>7

LEMMA OnDiskKnown ==
    ASSUME workspace \in Known
    PROVE  OnDisk \in Known
BY LineageAssumption DEF OnDisk, Known

\* What is published of a sound registry, and what was, still stands for one
\* item each.
LEMMA PublishedKeeps ==
    ASSUME NEW reg, NEW den, RegistrySound(reg, den), \A d \in den : d[1] \in Kind /\ d[2] \in Id
    PROVE  /\ RegistrySound(reg, den \cup Identities(reg))
           /\ \A d \in den \cup Identities(reg) : d[1] \in Kind /\ d[2] \in Id
<1>1. \A d \in Identities(reg) : \E k \in Kind : \E n \in DOMAIN reg[k].active : d = <<k, reg[k].active[n], n>>
    BY DEF Identities, Kind
<1>2. ASSUME NEW k \in Kind
      PROVE  Sound(reg[k], Published(den \cup Identities(reg), k))
    <2>1. Sound(reg[k], Published(den, k))   BY DEF RegistrySound
    <2>2. Published(den \cup Identities(reg), k) \subseteq Published(den, k) \cup Held(reg[k])
        <3> SUFFICES ASSUME NEW d \in den \cup Identities(reg), d[1] = k, <<d[2], d[3]>> \notin Published(den, k)
                     PROVE  <<d[2], d[3]>> \in Held(reg[k])
            BY DEF Published
        <3>1. d \in Identities(reg)   BY DEF Published
        <3>2. PICK n \in DOMAIN reg[k].active : d = <<k, reg[k].active[n], n>>   BY <1>1, <3>1
        <3> QED BY <3>2 DEF Held
    <2>3. Held(reg[k]) \cup Published(den \cup Identities(reg), k) \subseteq Held(reg[k]) \cup Published(den, k)
        BY <2>2
    <2> HIDE DEF Held, Published
    <2> QED BY <2>1, <2>3 DEF Sound
<1>3. ASSUME NEW k \in Kind, NEW n \in DOMAIN reg[k].active PROVE reg[k].active[n] \in Id
    BY HeldTyped DEF RegistrySound
<1>4. RegistrySound(reg, den \cup Identities(reg))   BY <1>2 DEF RegistrySound
<1>5. ASSUME NEW d \in Identities(reg) PROVE d[1] \in Kind /\ d[2] \in Id
    <2>1. PICK k \in Kind : \E n \in DOMAIN reg[k].active : d = <<k, reg[k].active[n], n>>   BY <1>1
    <2>2. PICK n \in DOMAIN reg[k].active : d = <<k, reg[k].active[n], n>>   BY <2>1
    <2>3. d[1] = k /\ d[2] = reg[k].active[n]   BY <2>2
    <2> QED BY <2>3, <1>3
<1> QED BY <1>4, <1>5

\* The state an analysis has made.
LEMMA AnalysedIsTrue ==
    ASSUME Whole(canon), workspace \in Known, NEW reg, NEW P,
           reg.artifact \in RegisterOf("artifact"), Sound(reg.artifact, P), Items(OnDisk) \subseteq DOMAIN reg.artifact.active
    PROVE  Whole(Analysed(reg)) /\ TrueFor(Analysed(reg), reg, {})
<1> DEFINE known == OnDisk
           ids == ActiveIds(reg, known)
           st == Analysed(reg)
           lineage == st.lineage
<1>1. known \in Known   BY OnDiskKnown
<1>2. Named(ids, known)
    <2> HIDE DEF known
    <2> QED BY <1>1, ActiveIdsNamed DEF known
<1>3. PICK i : /\ lineage = Rebuilt(known, ids, i) /\ Describes(i, ids, known) /\ Complete(i, ids, known)
    BY <1>1, <1>2, AnalysedIsRebuilt
<1>4. /\ st.known = known /\ st.indexes = BuildIndexes(lineage)
      /\ {"known", "lineage", "indexes", "family", "resync"} \subseteq DOMAIN st
      /\ st.family = (IF OnDisk # workspace THEN "deferred" ELSE Family(lineage, FALSE))
    BY DEF Analysed
<1>5. st.family = "fresh" => \A q \in LineageModule : lineage[q].status # "resource_limit"
    <2> HIDE DEF lineage, st
    <2> QED BY <1>4 DEF Family
<1>6. /\ DOMAIN lineage = LineageModule /\ \A q \in LineageModule : SliceWhole(lineage[q], q, known[q])
      /\ \A q \in LineageModule : known[q] # 0 => SliceTrue(lineage[q], q, ids, known, {})
    <2> HIDE DEF ids, known, lineage
    <2> QED BY <1>1, <1>2, <1>3, RebuiltIsTrue
<1> HIDE DEF st, known
<1>7. Whole(st)   BY <1>1, <1>4, <1>5, <1>6 DEF Whole
<1>8. TrueFor(st, reg, {})   BY <1>4, <1>6 DEF TrueFor, known
<1> QED BY <1>7, <1>8 DEF st

----------------------------------------------------------------------------
(* The initial state *)

LEMMA LineageInitially == LineageInit => LineageInv
<1> SUFFICES ASSUME LineageInit PROVE LineageInv
    OBVIOUS
<1>1. LastVersion \in Nat /\ 1 <= LastVersion   BY LineageAssumption
<1>2. workspace \in Known   BY <1>1 DEF LineageInit, Known
<1>3. ASSUME NEW k \in Kind PROVE Fresh \in RegisterOf(k) /\ Sound(Fresh, Published({}, k))
    <2>1. /\ Fresh.active = <<>> /\ Fresh.recovery = <<>> /\ Fresh.generations = [s \in Slot |-> 0]
          /\ Fresh = [active |-> Fresh.active, recovery |-> Fresh.recovery, generations |-> Fresh.generations]
        BY DEF Fresh
    <2>2. <<>> \in [{} -> Id] /\ DOMAIN <<>> = {}   OBVIOUS
    <2>3. <<>> \in UNION {[D -> Id] : D \in SUBSET LineageItems(k)}   BY <2>2
    <2>4. Fresh \in RegisterOf(k)   BY <2>1, <2>3 DEF RegisterOf, Fresh
    <2>5. Held(Fresh) = {} /\ Published({}, k) = {}   BY <2>1, <2>2 DEF Held, Published
    <2> QED BY <2>4, <2>5 DEF Sound
<1>4. RegistrySound(registry, denoted)   BY <1>3 DEF RegistrySound, LineageInit
<1>5. IdentitiesInv   BY <1>2, <1>4 DEF IdentitiesInv, LineageInit
<1>6. canon.known = [m \in LineageModule |-> 0] /\ canon.lineage = [m \in LineageModule |-> NoSlice]
      /\ canon.indexes = BuildIndexes(canon.lineage) /\ canon.family = "none"
      /\ {"known", "lineage", "indexes", "family", "resync"} \subseteq DOMAIN canon
    BY DEF LineageInit
<1>7. canon.known \in Known   BY <1>1, <1>6 DEF Known
<1>8. \A m \in LineageModule : canon.known[m] = 0 /\ canon.lineage[m] = NoSlice   BY <1>6
<1>9. Whole(canon)   BY <1>6, <1>7, <1>8 DEF Whole, SliceWhole
<1>10. Items(canon.known) = {}   BY <1>8 DEF Items, ItemsOf, Defined
<1>11. TrueFor(canon, registry, drifted)   BY <1>8, <1>10 DEF TrueFor
<1> QED BY <1>5, <1>9, <1>11 DEF FactsInv, LineageInv, LineageInit

----------------------------------------------------------------------------
(* The steps *)

LEMMA MutationFields ==
    ASSUME NEW kind, kind # "none", NEW state, NEW synced, NEW m
    PROVE  /\ Mutation(kind, state, synced, m) # Idle
           /\ Mutation(kind, state, synced, m).kind = kind /\ Mutation(kind, state, synced, m).state = state
           /\ Mutation(kind, state, synced, m).synced = synced /\ Mutation(kind, state, synced, m).module = m
           /\ Mutation(kind, state, synced, m).checkpoint = registry
<1>1. Mutation(kind, state, synced, m).kind = kind /\ Idle.kind = "none"   BY DEF Mutation, Idle
<1> QED BY <1>1 DEF Mutation

LEMMA BeginUpdateKeeps ==
    ASSUME LineageInv, NEW m \in LineageModule, BeginUpdate(m)
    PROVE  LineageInv'
<1> DEFINE known == [canon.known EXCEPT ![m] = workspace[m]]
<1>1. op = Idle /\ UNCHANGED <<workspace, canon, denoted, ahead, drifted, changes>>   BY DEF BeginUpdate
<1>2. PICK reg \in IF NeedsSync(m) THEN SyncedRegistry(known) ELSE {registry} :
         /\ HasOwners(reg, known)
         /\ registry' = reg
         /\ op' = Mutation("update", Updated(m, reg, NeedsSync(m)), NeedsSync(m), m)
    BY DEF BeginUpdate
<1> DEFINE st == Updated(m, reg, NeedsSync(m))
<1>3. /\ op' # Idle /\ op'.kind = "update" /\ op'.state = st /\ op'.synced = NeedsSync(m)
      /\ op'.module = m /\ op'.checkpoint = registry
    <2>1. op' = Mutation("update", st, NeedsSync(m), m) /\ "update" # "none"   BY <1>2
    <2> HIDE DEF st
    <2> QED BY <2>1, MutationFields
<1>4. /\ workspace \in Known /\ \A d \in denoted : d[1] \in Kind /\ d[2] \in Id
      /\ RegistrySound(registry, denoted) /\ Whole(canon) /\ (~ ahead => TrueFor(canon, registry, drifted))
    BY <1>1 DEF LineageInv, IdentitiesInv, FactsInv
<1>5. known \in Known   BY <1>4 DEF Known, Whole
<1>6. RegistrySound(reg, denoted)
    <2> HIDE DEF known
    <2>1. CASE NeedsSync(m)   BY <2>1, <1>2, <1>4, <1>5, SyncedRegistryKeeps
    <2>2. CASE ~ NeedsSync(m)   BY <2>2, <1>2, <1>4
    <2> QED BY <2>1, <2>2
<1>7. /\ Whole(st) /\ st.known = known
      /\ NeedsSync(m) \/ ~ ahead =>
            TrueFor(st, reg, IF NeedsSync(m) THEN {} ELSE drifted \cup ChangedBetween(m, canon.known, st.known))
    <2>1. reg.artifact \in RegisterOf("artifact") /\ Sound(reg.artifact, Published(denoted, "artifact"))
        BY <1>6 DEF RegistrySound, Kind
    <2>2. ~ NeedsSync(m) => reg = registry   BY <1>2
    <2> QED BY <2>1, <2>2, <1>2, <1>4, UpdatedIsTrue
<1> HIDE DEF st, known
<1>8. IdentitiesInv'   BY <1>1, <1>2, <1>3, <1>4, <1>6 DEF IdentitiesInv
<1>9. (~ ahead => TrueFor(canon, IF op = Idle THEN registry ELSE op.checkpoint, drifted))'
    BY <1>1, <1>3, <1>4
<1>10. (op.synced \/ ~ ahead => TrueFor(op.state, registry, ChangedThen))'
    BY <1>1, <1>2, <1>3, <1>7 DEF ChangedThen
<1>11. Whole(canon)' /\ Whole(op.state)'   BY <1>1, <1>3, <1>4, <1>7
<1> QED BY <1>8, <1>9, <1>10, <1>11 DEF FactsInv, LineageInv

LEMMA PublishKeeps ==
    ASSUME LineageInv, Publish
    PROVE  LineageInv'
<1>1. /\ op # Idle /\ canon' = op.state /\ op' = Idle /\ denoted' = denoted \cup Identities(registry)
      /\ ahead' = (ahead /\ ~op.synced) /\ UNCHANGED <<workspace, registry, changes>>
      /\ drifted' = IF op.synced THEN {} ELSE drifted \cup InterfaceChanges(op.module)
    BY DEF Publish
<1>2. drifted' = ChangedThen   BY <1>1 DEF ChangedThen, InterfaceChanges, ChangedBetween
<1>3. RegistrySound(registry, denoted') /\ \A d \in denoted' : d[1] \in Kind /\ d[2] \in Id
    BY <1>1, PublishedKeeps DEF LineageInv, IdentitiesInv
<1>4. IdentitiesInv'   BY <1>1, <1>3 DEF LineageInv, IdentitiesInv
<1>5. Whole(op.state) /\ (op.synced \/ ~ ahead => TrueFor(op.state, registry, ChangedThen))
    BY <1>1 DEF LineageInv, FactsInv
<1>6. FactsInv'   BY <1>1, <1>2, <1>5 DEF FactsInv
<1> QED BY <1>4, <1>6 DEF LineageInv

LEMMA RollBackKeeps ==
    ASSUME LineageInv, RollBack
    PROVE  LineageInv'
BY DEF LineageInv, IdentitiesInv, FactsInv, RollBack

LEMMA AbandonKeeps ==
    ASSUME LineageInv, Abandon
    PROVE  LineageInv'
BY DEF LineageInv, IdentitiesInv, FactsInv, Abandon

LEMMA BeginAnalysisKeeps ==
    ASSUME LineageInv, BeginAnalysis
    PROVE  LineageInv'
<1>1. op = Idle /\ UNCHANGED <<workspace, canon, ahead, drifted, changes>>   BY DEF BeginAnalysis
<1>2. PICK reg \in SyncedRegistry(OnDisk) :
         LET collected == [k \in Kind |-> Collected(reg[k])]
         IN /\ registry' = collected
            /\ op' = Mutation("analysis", Analysed(collected), TRUE, 0)
            /\ denoted' = denoted \cup Identities(collected)
    BY DEF BeginAnalysis
<1> DEFINE collected == [k \in Kind |-> Collected(reg[k])]
           st == Analysed(collected)
<1>3. /\ op' # Idle /\ op'.kind = "analysis" /\ op'.state = st /\ op'.synced = TRUE /\ op'.checkpoint = registry
    <2>1. op' = Mutation("analysis", st, TRUE, 0)   BY <1>2
    <2>2. op'.kind = "analysis" /\ Idle.kind = "none"   BY <2>1 DEF Mutation, Idle
    <2> HIDE DEF st
    <2> QED BY <2>1, <2>2 DEF Mutation
<1>4. /\ workspace \in Known /\ \A d \in denoted : d[1] \in Kind /\ d[2] \in Id
      /\ RegistrySound(registry, denoted) /\ Whole(canon) /\ (~ ahead => TrueFor(canon, registry, drifted))
    BY <1>1 DEF LineageInv, IdentitiesInv, FactsInv
<1>5. RegistrySound(reg, denoted) /\ DOMAIN reg.artifact.active = Items(OnDisk)
    BY <1>4, OnDiskKnown, SyncedRegistryKeeps
<1>6. ASSUME NEW k \in Kind
      PROVE  /\ collected[k] \in RegisterOf(k) /\ Sound(collected[k], Published(denoted, k))
             /\ collected[k].active = reg[k].active
    <2>1. reg[k] \in RegisterOf(k) /\ Sound(reg[k], Published(denoted, k))   BY <1>5 DEF RegistrySound
    <2>2. collected[k] = Collected(reg[k])   OBVIOUS
    <2> HIDE DEF collected
    <2> QED BY <2>1, <2>2, CollectedKeeps
<1>7. collected.artifact = collected["artifact"] /\ reg.artifact = reg["artifact"] /\ "artifact" \in Kind   BY DEF Kind
<1> HIDE DEF collected
<1>8. RegistrySound(collected, denoted)   BY <1>6 DEF RegistrySound
<1>9. Whole(st) /\ TrueFor(st, collected, {})
    <2>1. collected.artifact \in RegisterOf("artifact") /\ Sound(collected.artifact, Published(denoted, "artifact"))
          /\ Items(OnDisk) \subseteq DOMAIN collected.artifact.active
        BY <1>5, <1>6, <1>7
    <2> QED BY <2>1, <1>4, AnalysedIsTrue
<1>10. registry' = collected /\ denoted' = denoted \cup Identities(collected)   BY <1>2 DEF collected
<1>11. RegistrySound(registry', denoted') /\ \A d \in denoted' : d[1] \in Kind /\ d[2] \in Id
    BY <1>4, <1>8, <1>10, PublishedKeeps
<1> HIDE DEF st
<1>12. IdentitiesInv'   BY <1>1, <1>3, <1>4, <1>11 DEF IdentitiesInv
<1>13. (~ ahead => TrueFor(canon, IF op = Idle THEN registry ELSE op.checkpoint, drifted))'
    BY <1>1, <1>3, <1>4
<1>14. (op.synced \/ ~ ahead => TrueFor(op.state, registry, ChangedThen))'
    BY <1>3, <1>9, <1>10 DEF ChangedThen
<1>15. Whole(canon)' /\ Whole(op.state)'   BY <1>1, <1>3, <1>4, <1>9
<1> QED BY <1>12, <1>13, <1>14, <1>15 DEF FactsInv, LineageInv

LEMMA ReportLayerKeeps ==
    ASSUME LineageInv, ReportLayer
    PROVE  LineageInv'
<1>1. op = Idle /\ denoted' = denoted \cup Identities(registry') /\ UNCHANGED <<workspace, canon, op, ahead, drifted>>
    BY DEF ReportLayer
<1>2. PICK modules \in SetToSeqs(ItemsOf(OnDisk).module \ DOMAIN registry.module.active),
           artifacts \in SetToSeqs(ItemsOf(OnDisk).artifact \ DOMAIN registry.artifact.active) :
         registry' = [module |-> Allocated(registry.module, modules), artifact |-> Allocated(registry.artifact, artifacts)]
    BY AllocatedIsFolded, Zenon DEF ReportLayer
<1>3. /\ workspace \in Known /\ \A d \in denoted : d[1] \in Kind /\ d[2] \in Id
      /\ RegistrySound(registry, denoted) /\ Whole(canon) /\ (~ ahead => TrueFor(canon, registry, drifted))
    BY <1>1 DEF LineageInv, IdentitiesInv, FactsInv
<1>4. /\ "module" \in Kind /\ "artifact" \in Kind /\ \A k \in Kind : k = "module" \/ k = "artifact"
    BY DEF Kind
<1>5. \A k \in Kind : \A p \in Published(denoted, k) : p[1] \in Id   BY <1>3, PublishedTyped
<1>6. /\ ItemsOf(OnDisk).module \in SUBSET LineageItems("module")
      /\ ItemsOf(OnDisk).artifact \in SUBSET LineageItems("artifact")
    BY <1>3, OnDiskKnown, ItemShape DEF Items
<1> DEFINE rm == Allocated(registry.module, modules)
           ra == Allocated(registry.artifact, artifacts)
<1>7. rm \in RegisterOf("module") /\ Sound(rm, Published(denoted, "module"))
    <2>1. /\ registry.module \in RegisterOf("module") /\ Sound(registry.module, Published(denoted, "module"))
          /\ ItemsOf(OnDisk).module \ DOMAIN registry.module.active \in
                 SUBSET (LineageItems("module") \ DOMAIN registry.module.active)
        BY <1>3, <1>4, <1>6 DEF RegistrySound
    <2> QED BY <2>1, <1>4, <1>5, AllocatesKeep
<1>8. /\ ra \in RegisterOf("artifact") /\ Sound(ra, Published(denoted, "artifact"))
      /\ DOMAIN registry.artifact.active \subseteq DOMAIN ra.active
      /\ \A q \in DOMAIN registry.artifact.active : ra.active[q] = registry.artifact.active[q]
    <2>1. /\ registry.artifact \in RegisterOf("artifact") /\ Sound(registry.artifact, Published(denoted, "artifact"))
          /\ ItemsOf(OnDisk).artifact \ DOMAIN registry.artifact.active \in
                 SUBSET (LineageItems("artifact") \ DOMAIN registry.artifact.active)
        BY <1>3, <1>4, <1>6 DEF RegistrySound
    <2> QED BY <2>1, <1>4, <1>5, AllocatesKeep
<1>9. registry'.module = rm /\ registry'.artifact = ra /\ registry'["module"] = rm /\ registry'["artifact"] = ra
    BY <1>2
<1> HIDE DEF rm, ra
<1>10. RegistrySound(registry', denoted)   BY <1>4, <1>7, <1>8, <1>9 DEF RegistrySound
<1>11. RegistrySound(registry', denoted') /\ \A d \in denoted' : d[1] \in Kind /\ d[2] \in Id
    BY <1>1, <1>3, <1>10, PublishedKeeps
<1>12. IdentitiesInv'   BY <1>1, <1>3, <1>11 DEF IdentitiesInv, LineageInv
<1>13. TrueFor(canon, registry, drifted) => TrueFor(canon, registry', drifted)
    <2> SUFFICES ASSUME TrueFor(canon, registry, drifted) PROVE TrueFor(canon, registry', drifted)
        OBVIOUS
    <2>1. Items(canon.known) \subseteq DOMAIN registry.artifact.active   BY DEF TrueFor
    <2>2. ActiveIds(registry', canon.known) = ActiveIds(registry, canon.known)
        <3>1. \A n \in Items(canon.known) : registry'.artifact.active[n] = registry.artifact.active[n]
            BY <2>1, <1>8, <1>9
        <3> QED BY <3>1 DEF ActiveIds, Restrict, Items
    <2> QED BY <2>1, <2>2, <1>8, <1>9 DEF TrueFor
<1>14. FactsInv'   BY <1>1, <1>3, <1>13 DEF FactsInv
<1> QED BY <1>12, <1>14 DEF LineageInv

LEMMA EditTextKeeps ==
    ASSUME LineageInv, NEW m \in LineageModule, NEW v \in 0 .. LastVersion, EditText(m, v)
    PROVE  LineageInv'
<1>1. workspace' = [workspace EXCEPT ![m] = v] /\ UNCHANGED <<registry, canon, op, denoted, ahead, drifted>>
    BY DEF EditText
<1>2. workspace' \in Known   BY <1>1 DEF LineageInv, IdentitiesInv, Known
<1>3. IdentitiesInv'   BY <1>1, <1>2 DEF LineageInv, IdentitiesInv
<1>4. FactsInv'   BY <1>1 DEF LineageInv, FactsInv, ChangedThen
<1> QED BY <1>3, <1>4 DEF LineageInv

LEMMA LoseContinuityKeeps ==
    ASSUME LineageInv, LoseContinuity
    PROVE  LineageInv'
<1>1. op = Idle /\ canon' = [canon EXCEPT !.resync = TRUE]
      /\ UNCHANGED <<workspace, registry, op, denoted, ahead, drifted>>
    BY DEF LoseContinuity
<1>2. {"known", "lineage", "indexes", "family", "resync"} \subseteq DOMAIN canon   BY DEF LineageInv, FactsInv, Whole
<1>3. /\ canon'.known = canon.known /\ canon'.lineage = canon.lineage /\ canon'.indexes = canon.indexes
      /\ canon'.family = canon.family /\ DOMAIN canon' = DOMAIN canon
    BY <1>1, <1>2
<1>4. Whole(canon)'   BY <1>2, <1>3 DEF LineageInv, FactsInv, Whole
<1>5. (~ ahead => TrueFor(canon, IF op = Idle THEN registry ELSE op.checkpoint, drifted))'
    BY <1>1, <1>3 DEF LineageInv, FactsInv, TrueFor
<1> QED BY <1>1, <1>4, <1>5 DEF LineageInv, FactsInv, IdentitiesInv

LEMMA LineageStep == LineageInv /\ [LineageNext]_lineageVars => LineageInv'
<1> SUFFICES ASSUME LineageInv, [LineageNext]_lineageVars PROVE LineageInv'
    OBVIOUS
<1>1. CASE UNCHANGED lineageVars
    BY <1>1 DEF lineageVars, LineageInv, IdentitiesInv, FactsInv, ChangedThen
<1>2. CASE \E m \in LineageModule : BeginUpdate(m)   BY <1>2, BeginUpdateKeeps
<1>3. CASE \E m \in LineageModule : \E v \in 0 .. LastVersion : EditText(m, v)   BY <1>3, EditTextKeeps
<1>4. CASE Publish   BY <1>4, PublishKeeps
<1>5. CASE RollBack   BY <1>5, RollBackKeeps
<1>6. CASE Abandon   BY <1>6, AbandonKeeps
<1>7. CASE BeginAnalysis   BY <1>7, BeginAnalysisKeeps
<1>8. CASE ReportLayer   BY <1>8, ReportLayerKeeps
<1>9. CASE LoseContinuity   BY <1>9, LoseContinuityKeeps
<1> QED BY <1>1, <1>2, <1>3, <1>4, <1>5, <1>6, <1>7, <1>8, <1>9 DEF LineageNext

(* An identity is published for one item, the registry and the state it    *)
(* was brought up to date for agree while a mutation runs, and every fact  *)
(* of the state is what the text of its source says, resolved with the     *)
(* identities of now but for interfaces that drifted (_sync_kind,          *)
(* _update_candidate_lineage_slice, _materialize_full_analysis_lineage).   *)
THEOREM LineageInvariant == LineageSpec => []LineageInv
<1>1. LineageInit => LineageInv   BY LineageInitially
<1>2. LineageInv /\ [LineageNext]_lineageVars => LineageInv'   BY LineageStep
<1> QED BY <1>1, <1>2, PTL DEF LineageSpec

----------------------------------------------------------------------------
(* Names that are handed on *)

Follow(q, alias) == IF q \in DOMAIN alias THEN alias[q] ELSE q
Reach(reached, alias) == reached \cup {alias[q] : q \in reached \cap DOMAIN alias}
FollowFold == INSTANCE FoldLaws WITH Op <- Follow
ReachFold == INSTANCE FoldLaws WITH Op <- Reach

\* A name followed from place to place ends where its definition is, or goes
\* round for ever.
LEMMA FollowedIsDefiner ==
    ASSUME NEW alias, IsFiniteSet(DOMAIN alias), NEW n \in DOMAIN alias,
           NEW defined, defined \cap DOMAIN alias = {}, NEW M, n[1] \in M, \A q \in DOMAIN alias : alias[q][1] \in M
    PROVE  /\ Followed(n, alias)[1] \in M
           /\ Definer(n, alias, defined) =
                 IF Followed(n, alias) \in DOMAIN alias THEN {} ELSE defined \cap {Followed(n, alias)}
<1> DEFINE D == DOMAIN alias
           N == Cardinality(D)
           Goes(place) == place = [k \in 0 .. N |-> IF k = 0 THEN n
                               ELSE LET before == place[k - 1] IN IF before \in DOMAIN alias THEN alias[before] ELSE before]
           Spreads(r) == r = [k \in 0 .. N |-> IF k = 0 THEN {n}
                                ELSE LET before == r[k - 1] IN before \cup {alias[q] : q \in before \cap DOMAIN alias}]
           place == CHOOSE h : Goes(h)
           reached == CHOOSE h : Spreads(h)
<1>1. N \in Nat   BY FS_CardinalityType
<1>2. Goes(place)
    <2>1. \E h : FollowFold!Repeats(h, n, alias, N)
        <3> HIDE DEF N
        <3> QED BY <1>1, FollowFold!Iteration, Zenon
    <2>2. \E h : Goes(h)   BY <2>1 DEF FollowFold!Repeats, Follow
    <2> HIDE DEF Goes
    <2> QED BY <2>2
<1>3. Spreads(reached)
    <2>1. \E h : ReachFold!Repeats(h, {n}, alias, N)
        <3> HIDE DEF N
        <3> QED BY <1>1, ReachFold!Iteration, Zenon
    <2>2. \E h : Spreads(h)   BY <2>1 DEF ReachFold!Repeats, Reach
    <2> HIDE DEF Spreads
    <2> QED BY <2>2
<1>4. Followed(n, alias) = place[N]   BY DEF Followed
<1>5. Definer(n, alias, defined) = defined \cap reached[N]   BY DEF Definer
<1>6. place[0] = n /\ \A k \in 1 .. N : place[k] = Follow(place[k - 1], alias)
    <2>1. \A k \in 0 .. N : place[k] = IF k = 0 THEN n
                ELSE LET before == place[k - 1] IN IF before \in DOMAIN alias THEN alias[before] ELSE before
        <3> HIDE DEF place, N
        <3> QED BY <1>2, Zenon
    <2> HIDE DEF place, N
    <2> QED BY <2>1, <1>1 DEF Follow
<1>7. reached[0] = {n} /\ \A k \in 1 .. N : reached[k] = Reach(reached[k - 1], alias)
    <2>1. \A k \in 0 .. N : reached[k] = IF k = 0 THEN {n}
                ELSE LET before == reached[k - 1] IN before \cup {alias[q] : q \in before \cap DOMAIN alias}
        <3> HIDE DEF reached, N
        <3> QED BY <1>3, Zenon
    <2>2. \A k \in 1 .. N : k \in 0 .. N /\ k # 0   BY <1>1
    <2>3. 0 \in 0 .. N   BY <1>1
    <2>4. reached[0] = {n}   BY <2>1, <2>3
    <2>5. \A k \in 1 .. N : reached[k] = reached[k - 1] \cup {alias[q] : q \in reached[k - 1] \cap DOMAIN alias}
        <3> HIDE DEF reached, N
        <3> QED BY <2>1, <2>2, Zenon
    <2> HIDE DEF reached, N
    <2> QED BY <2>4, <2>5, Zenon DEF Reach
<1> HIDE DEF place, reached
<1> DEFINE J(k) == /\ place[k][1] \in M /\ place[k] \in reached[k] /\ reached[k] \ D \subseteq {place[k]}
                   /\ \A q \in reached[k] \cap D : q = place[k] \/ alias[q] \in reached[k]
           T == {k \in Nat : k <= N => J(k)}
<1>8. 0 \in T   BY <1>6, <1>7
<1>9. ASSUME NEW k \in T PROVE k + 1 \in T
    <2> SUFFICES ASSUME k + 1 <= N PROVE J(k + 1)
        OBVIOUS
    <2>1. k \in Nat /\ J(k)   BY <1>1
    <2>2. place[k + 1] = Follow(place[k], alias) /\ reached[k + 1] = Reach(reached[k], alias)
        <3>1. k + 1 \in 1 .. N /\ (k + 1) - 1 = k   BY <2>1, <1>1
        <3> HIDE DEF T
        <3> QED BY <3>1, <1>6, <1>7
    <2> HIDE DEF T
    <2>3. CASE place[k] \in D
        <3>1. place[k + 1] = alias[place[k]]   BY <2>2, <2>3 DEF Follow
        <3>2. reached[k + 1] = reached[k] \cup {place[k + 1]}   BY <2>1, <2>2, <2>3, <3>1 DEF Reach
        <3> QED BY <2>1, <2>3, <3>1, <3>2
    <2>4. CASE place[k] \notin D
        <3>1. place[k + 1] = place[k]   BY <2>2, <2>4 DEF Follow
        <3>2. reached[k + 1] = reached[k]   BY <2>1, <2>2, <2>4, <3>1 DEF Reach
        <3> QED BY <2>1, <2>4, <3>1, <3>2
    <2> QED BY <2>3, <2>4
<1>10. N \in T
    <2> HIDE DEF T
    <2>1. T \in SUBSET Nat   BY DEF T
    <2> QED BY <2>1, <1>1, <1>8, <1>9, FollowFold!NumbersByInduction
<1>11. J(N)   BY <1>1, <1>10
<1> QED BY <1>4, <1>5, <1>11

\* The names a source hands on: finitely many, none it defines, each to a
\* name of a module.
LEMMA AliasShape ==
    ASSUME canon.known \in Known
    PROVE  /\ IsFiniteSet(DOMAIN Alias) /\ Items(canon.known) \cap DOMAIN Alias = {}
           /\ \A n \in DOMAIN Alias : n[1] \in LineageModule /\ Alias[n][1] \in LineageModule
<1> DEFINE exports(m) == Written(m, canon.known[m]).reexports
           names(m) == {<<m, e.name>> : e \in exports(m)}
           M == {q \in LineageModule : canon.known[q] # 0}
           D == UNION {names(m) : m \in M}
<1>1. /\ DOMAIN Alias = D
      /\ \A n \in D : Alias[n] = (CHOOSE e \in exports(n[1]) : e.name = n[2]).target
    BY DEF Alias
<1>2. ASSUME NEW m \in M PROVE canon.known[m] \in 1 .. LastVersion   BY LineageAssumption DEF Known
<1>3. ASSUME NEW n \in D PROVE n[1] \in M /\ n \in names(n[1]) /\ \E e \in exports(n[1]) : n = <<n[1], e.name>>
    <2>1. PICK m \in M : n \in names(m)   OBVIOUS
    <2>2. PICK e \in exports(m) : n = <<m, e.name>>   BY <2>1
    <2>3. n[1] = m   BY <2>2
    <2> HIDE DEF M, exports
    <2> QED BY <2>1, <2>2, <2>3
<1>4. IsFiniteSet(D)
    <2> DEFINE F == [m \in M |-> names(m)]
    <2>1. ASSUME NEW m \in M PROVE IsFiniteSet(names(m))
        <3> DEFINE g == [e \in exports(m) |-> <<m, e.name>>]
        <3>1. IsFiniteSet(exports(m))   BY <1>2, LineageAssumption
        <3>2. DOMAIN g = exports(m) /\ names(m) = {g[e] : e \in exports(m)}   OBVIOUS
        <3> HIDE DEF g, exports, names
        <3> QED BY <3>1, <3>2, ValuesFinite
    <2>2. IsFiniteSet(M)   BY LineageAssumption, FS_Subset
    <2>3. IsFiniteSet({F[m] : m \in M})
        <3>1. DOMAIN F = M   OBVIOUS
        <3> HIDE DEF F, M
        <3> QED BY <2>2, <3>1, ValuesFinite
    <2>4. {F[m] : m \in M} = {names(m) : m \in M}   OBVIOUS
    <2> HIDE DEF F, M, names
    <2>5. \A S \in {names(m) : m \in M} : IsFiniteSet(S)   BY <2>1
    <2> QED BY <2>3, <2>4, <2>5, FS_UNION
<1>5. ASSUME NEW n \in D, n \in Items(canon.known) PROVE FALSE
    <2>1. n[1] \in M /\ \E e \in exports(n[1]) : n = <<n[1], e.name>>   BY <1>3
    <2>2. n \in Defined(n[1], canon.known[n[1]])   BY <1>5, ItemShape
    <2>3. PICK d \in Written(n[1], canon.known[n[1]]).defs : n = <<n[1], d.name>>
        BY <2>1, <2>2 DEF Defined
    <2>4. PICK e \in exports(n[1]) : n = <<n[1], e.name>>   BY <2>1
    <2>5. d.name = e.name   BY <2>3, <2>4
    <2>6. d.name # e.name   BY <2>1, <2>3, <2>4, <1>2, LineageAssumption
    <2> QED BY <2>5, <2>6
<1>6. ASSUME NEW n \in D PROVE n[1] \in LineageModule /\ Alias[n][1] \in LineageModule
    <2>1. n[1] \in M   BY <1>3
    <2>2. PICK e \in exports(n[1]) : n = <<n[1], e.name>>   BY <1>3
    <2>3. e.name = n[2]   BY <2>2
    <2> DEFINE c == CHOOSE x \in exports(n[1]) : x.name = n[2]
    <2>4. c \in exports(n[1])   BY <2>2, <2>3
    <2>5. c.target[1] \in LineageModule
        <3> HIDE DEF c
        <3> QED BY <2>1, <2>4, <1>2, LineageAssumption
    <2> QED BY <2>1, <2>5, <1>1
<1> QED BY <1>1, <1>4, <1>5, <1>6

Ids == ActiveIds(registry, canon.known)

\* What holds when the facts are available.
LEMMA AvailableFacts ==
    ASSUME LineageInv, op = Idle, Available, ~ ahead
    PROVE  /\ canon.known \in Known /\ Named(Ids, canon.known)
           /\ canon.indexes = BuildIndexes(canon.lineage)
           /\ \A m \in LineageModule : canon.known[m] = 0 => canon.lineage[m] = NoSlice
           /\ \A m \in LineageModule : canon.known[m] # 0 =>
                 /\ SliceTrue(canon.lineage[m], m, Ids, canon.known, drifted)
                 /\ ~ Written(m, canon.known[m]).limited
                 /\ AnchorNames(m, canon.known[m]) = Defined(m, canon.known[m])
                 /\ DOMAIN canon.lineage[m].endpoints = Facts(m, canon.known[m])
<1>1. Whole(canon) /\ TrueFor(canon, registry, drifted) /\ RegistrySound(registry, denoted)
    BY DEF LineageInv, FactsInv, IdentitiesInv
<1>2. /\ canon.known \in Known /\ canon.indexes = BuildIndexes(canon.lineage)
      /\ \A m \in LineageModule : canon.lineage[m].status # "resource_limit"
      /\ \A m \in LineageModule : SliceWhole(canon.lineage[m], m, canon.known[m])
    BY <1>1 DEF Whole, Available
<1>3. Named(Ids, canon.known)
    <2>1. registry.artifact \in RegisterOf("artifact") /\ Sound(registry.artifact, Published(denoted, "artifact"))
          /\ Items(canon.known) \subseteq DOMAIN registry.artifact.active
        BY <1>1 DEF RegistrySound, Kind, TrueFor
    <2> QED BY <2>1, <1>2, ActiveIdsNamed DEF Ids
<1>4. ASSUME NEW m \in LineageModule, canon.known[m] # 0
      PROVE  /\ ~ Written(m, canon.known[m]).limited
             /\ AnchorNames(m, canon.known[m]) = Defined(m, canon.known[m])
             /\ DOMAIN canon.lineage[m].endpoints = Facts(m, canon.known[m])
    BY <1>2, <1>4 DEF SliceWhole, Status, AnchorNames
<1>5. \A m \in LineageModule : canon.known[m] = 0 => canon.lineage[m] = NoSlice   BY <1>2 DEF SliceWhole
<1>6. \A m \in LineageModule : canon.known[m] # 0 => SliceTrue(canon.lineage[m], m, Ids, canon.known, drifted)
    BY <1>1 DEF TrueFor, Ids
<1> QED BY <1>2, <1>3, <1>4, <1>5, <1>6

\* Who is asked for by name.
LEMMA CatalogIs ==
    ASSUME LineageInv, op = Idle, Available, ~ ahead, NEW x, x[1] \in LineageModule
    PROVE  Catalog(x) = IF x \in Items(canon.known) THEN {Ids[x]} ELSE {}
<1> DEFINE m == x[1]
           A == {[owner |-> Ids[n], item |-> n] : n \in Defined(m, canon.known[m])}
<1>1. CASE canon.known[m] = 0
    <2>1. canon.lineage[m].anchors = {}   BY <1>1, AvailableFacts DEF NoSlice
    <2>2. x \notin Items(canon.known)   BY <1>1, AvailableFacts, ItemShape
    <2> QED BY <2>1, <2>2 DEF Catalog
<1>2. CASE canon.known[m] # 0
    <2>1. canon.lineage[m].anchors = A   BY <1>2, AvailableFacts DEF SliceTrue
    <2>2. x \in Items(canon.known) <=> x \in Defined(m, canon.known[m])   BY AvailableFacts, ItemShape
    <2>3. Catalog(x) = {a.owner : a \in {b \in A : b.item = x}}   BY <2>1 DEF Catalog
    <2>4. \A a \in A : a.item = x => a.owner = Ids[x] /\ x \in Defined(m, canon.known[m])   OBVIOUS
    <2>5. x \in Defined(m, canon.known[m]) => \E a \in A : a.item = x /\ a.owner = Ids[x]
        <3>1. x \in Defined(m, canon.known[m]) => [owner |-> Ids[x], item |-> x] \in A   OBVIOUS
        <3> QED BY <3>1
    <2> HIDE DEF A, m
    <2> QED BY <2>2, <2>3, <2>4, <2>5
<1> QED BY <1>1, <1>2

\* The index leads to the one source that defines an item.
LEMMA OwnedBy ==
    ASSUME LineageInv, op = Idle, Available, ~ ahead, NEW n \in Items(canon.known)
    PROVE  /\ Ids[n] \in DOMAIN canon.indexes.sources
           /\ canon.indexes.sources[Ids[n]] = {m \in LineageModule : Ids[n] \in OwnersOf(canon.lineage[m])}
           /\ \A m \in LineageModule : \A a \in canon.lineage[m].anchors :
                 a.owner = Ids[n] => a.item = n /\ m = n[1]
           /\ n[1] \in LineageModule /\ canon.known[n[1]] # 0
           /\ \E a \in canon.lineage[n[1]].anchors : a.owner = Ids[n] /\ a.item = n
<1>1. n[1] \in LineageModule /\ canon.known[n[1]] # 0 /\ n \in Defined(n[1], canon.known[n[1]])
    BY AvailableFacts, ItemShape
<1>2. ASSUME NEW m \in LineageModule, canon.known[m] # 0
      PROVE  canon.lineage[m].anchors = {[owner |-> Ids[q], item |-> q] : q \in Defined(m, canon.known[m])}
    BY <1>2, AvailableFacts DEF SliceTrue
<1>3. \E a \in canon.lineage[n[1]].anchors : a.owner = Ids[n] /\ a.item = n
    <2>1. [owner |-> Ids[n], item |-> n] \in canon.lineage[n[1]].anchors   BY <1>1, <1>2
    <2> QED BY <2>1
<1>4. Ids[n] \in OwnersOf(canon.lineage[n[1]])   BY <1>3 DEF OwnersOf
<1>5. ASSUME NEW m \in LineageModule, NEW a \in canon.lineage[m].anchors, a.owner = Ids[n]
      PROVE  a.item = n /\ m = n[1]
    <2>1. canon.known[m] # 0
        <3> SUFFICES ASSUME canon.known[m] = 0 PROVE FALSE
            OBVIOUS
        <3>1. canon.lineage[m].anchors = {}   BY AvailableFacts DEF NoSlice
        <3> QED BY <3>1
    <2>2. PICK q \in Defined(m, canon.known[m]) : a = [owner |-> Ids[q], item |-> q]   BY <2>1, <1>2
    <2>3. q \in Items(canon.known) /\ q[1] = m   BY AvailableFacts, ItemShape
    <2>4. q = n   BY <2>2, <2>3, <1>5, AvailableFacts DEF Named
    <2> QED BY <2>2, <2>3, <2>4
<1>6. canon.indexes = BuildIndexes(canon.lineage)   BY AvailableFacts
<1> QED BY <1>1, <1>3, <1>4, <1>5, <1>6 DEF BuildIndexes

LEMMA CatalogByIdIs ==
    ASSUME LineageInv, op = Idle, Available, ~ ahead, NEW n \in Items(canon.known)
    PROVE  CatalogById(Ids[n]) = {n}
<1> DEFINE S == canon.indexes.sources[Ids[n]]
           items(m) == {a.item : a \in {b \in canon.lineage[m].anchors : b.owner = Ids[n]}}
<1>1. CatalogById(Ids[n]) = UNION {items(m) : m \in S}   BY DEF CatalogById
<1>2. S \subseteq LineageModule /\ n[1] \in S   BY OwnedBy DEF OwnersOf
<1>3. \A m \in S : items(m) \subseteq {n}   BY <1>2, OwnedBy
<1>4. n \in items(n[1])   BY OwnedBy
<1> HIDE DEF S, items
<1> QED BY <1>1, <1>2, <1>3, <1>4

LEMMA SignaturesAre ==
    ASSUME LineageInv, op = Idle, Available, ~ ahead, NEW n \in Items(canon.known)
    PROVE  SignaturesOf(n) = Signatures(n, canon.known)
<1>1. ~ Written(n[1], canon.known[n[1]]).limited   BY AvailableFacts, ItemShape
<1> QED BY <1>1 DEF SignaturesOf, Signatures

LEMMA InterfaceIs ==
    ASSUME LineageInv, op = Idle, Available, ~ ahead, NEW n \in Items(canon.known)
    PROVE  InterfaceFacts(Ids[n]) = {s \in SignaturesOf(n) : SignaturesOf(n) = {s}}
<1> DEFINE id == Ids[n]
           S == canon.indexes.sources[id]
           m == n[1]
           i == canon.lineage[m].interface
           G == Signatures(n, canon.known)
<1>1. InterfaceFacts(id) = {canon.lineage[p].interface[id] : p \in {q \in S :
            id \in {a.owner : a \in canon.lineage[q].anchors} /\ id \in DOMAIN canon.lineage[q].interface}}
    BY OwnedBy DEF InterfaceFacts
<1>2. S \subseteq LineageModule /\ m \in S   BY OwnedBy DEF OwnersOf
<1>3. \A q \in S : id \in {a.owner : a \in canon.lineage[q].anchors} <=> q = m   BY <1>2, OwnedBy
<1> HIDE DEF S
<1>4. InterfaceFacts(id) = IF id \in DOMAIN i THEN {i[id]} ELSE {}   BY <1>1, <1>2, <1>3
<1>5. /\ id \in DOMAIN i => G = {i[id]}
      /\ (\E g : G = {g}) => id \in DOMAIN i
    <2>1. m \in LineageModule /\ canon.known[m] # 0 /\ n \in Defined(m, canon.known[m])
        BY AvailableFacts, ItemShape
    <2>2. SliceTrue(canon.lineage[m], m, Ids, canon.known, drifted) /\ n \in AnchorNames(m, canon.known[m])
        BY <2>1, AvailableFacts
    <2> QED BY <2>2 DEF SliceTrue
<1>6. SignaturesOf(n) = G   BY SignaturesAre
<1> HIDE DEF G, i, id
<1>7. InterfaceFacts(id) = {s \in G : G = {s}}   BY <1>4, <1>5
<1> QED BY <1>6, <1>7 DEF id

LEMMA DirectFactsAre ==
    ASSUME LineageInv, op = Idle, Available, ~ ahead, NEW n \in Items(canon.known), n \notin drifted
    PROVE  DirectFacts(Ids[n]) = Mentions(n)
<1> DEFINE id == Ids[n]
           S == canon.indexes.sources[id]
           ends(m) == canon.lineage[m].endpoints
           G == Signatures(n, canon.known)
           said(m) == {g \in Facts(m, canon.known[m]) :
                          g.item = n /\ (g.kind = "public"
                              \/ \E s \in SignaturesOf(n) : SignaturesOf(n) = {s} /\ (g.kind = "return" \/ g.parameter \in s))}
<1>1. DirectFacts(id) = UNION {{<<m, f>> : f \in {g \in DOMAIN ends(m) : ends(m)[g] = id}} : m \in S}
    BY OwnedBy DEF DirectFacts
<1>2. Mentions(n) = UNION {{<<m, f>> : f \in said(m)} : m \in KnownModules}   BY DEF Mentions
<1>3. SignaturesOf(n) = G   BY SignaturesAre
<1>4. id \in Id /\ id # NoId   BY AvailableFacts DEF Named, Id, NoId
<1>5. ASSUME NEW m \in LineageModule, NEW f \in DOMAIN ends(m), canon.known[m] # 0
      PROVE  ends(m)[f] = id <=> f \in said(m)
    <2>1. /\ ends(m)[f] = NoId \/ (f.item \in Items(canon.known) /\ ends(m)[f] = Ids[f.item])
          /\ f.item \notin drifted => ends(m)[f] = Target(f, Ids, canon.known)
          /\ f \in Facts(m, canon.known[m])
        BY <1>5, AvailableFacts DEF SliceTrue
    <2>2. ASSUME ends(m)[f] = id PROVE f \in said(m)
        <3>1. f.item \in Items(canon.known) /\ Ids[f.item] = Ids[n]   BY <2>1, <2>2, <1>4
        <3>2. f.item = n   BY <3>1, AvailableFacts DEF Named
        <3>3. Placed(f, G)   BY <2>1, <2>2, <3>2, <1>4 DEF Target
        <3> QED BY <2>1, <3>2, <3>3, <1>3 DEF Placed
    <2>3. ASSUME f \in said(m) PROVE ends(m)[f] = id
        <3>1. f.item = n /\ Placed(f, G)   BY <2>3, <1>3 DEF Placed
        <3> QED BY <2>1, <3>1 DEF Target
    <2> QED BY <2>2, <2>3
<1>6. \A m \in LineageModule : canon.known[m] # 0 => DOMAIN ends(m) = Facts(m, canon.known[m])
    BY AvailableFacts
<1>7. \A m \in LineageModule : canon.known[m] = 0 => DOMAIN ends(m) = {}   BY AvailableFacts DEF NoSlice
<1>8. \A m \in LineageModule : \A f \in DOMAIN ends(m) : ends(m)[f] = id => m \in S
    BY <1>4, OwnedBy DEF OwnersOf
<1>9. S \subseteq LineageModule   BY OwnedBy
<1>10. \A m : m \in KnownModules <=> m \in LineageModule /\ canon.known[m] # 0   BY DEF KnownModules
<1>11. \A m : said(m) \subseteq Facts(m, canon.known[m])   OBVIOUS
<1> HIDE DEF S, ends, said, id
<1>12. ASSUME NEW p \in DirectFacts(id) PROVE p \in Mentions(n)
    <2>1. PICK m \in S : p \in {<<m, f>> : f \in {g \in DOMAIN ends(m) : ends(m)[g] = id}}   BY <1>1, <1>12
    <2>2. PICK f \in DOMAIN ends(m) : p = <<m, f>> /\ ends(m)[f] = id   BY <2>1
    <2>3. m \in LineageModule /\ canon.known[m] # 0   BY <1>7, <1>9, <2>2
    <2>4. f \in said(m) /\ m \in KnownModules   BY <2>2, <2>3, <1>5, <1>10
    <2> QED BY <2>2, <2>4, <1>2
<1>13. ASSUME NEW p \in Mentions(n) PROVE p \in DirectFacts(id)
    <2>1. PICK m \in KnownModules : p \in {<<m, f>> : f \in said(m)}   BY <1>2, <1>13
    <2>2. PICK f \in said(m) : p = <<m, f>>   BY <2>1
    <2>3. m \in LineageModule /\ canon.known[m] # 0   BY <1>10
    <2>4. f \in DOMAIN ends(m) /\ ends(m)[f] = id   BY <2>2, <2>3, <1>5, <1>6, <1>11
    <2>5. m \in S   BY <2>3, <2>4, <1>8
    <2> QED BY <2>2, <2>4, <2>5, <1>1
<1> QED BY <1>12, <1>13 DEF id

LEMMA AnswersHold == LineageInv => AnswersAreTrue
<1> SUFFICES ASSUME LineageInv, op = Idle, Available, ~ ahead,
                    NEW alias, alias = Alias, NEW defined, defined = Items(canon.known),
                    NEW n \in defined \cup DOMAIN alias, NEW target, target = ResolveTarget(n, alias)
             PROVE  /\ (Catalog(target) # {}) = (Definer(n, alias, defined) # {})
                    /\ \A id \in Catalog(target) :
                         /\ Catalog(target) = {id} /\ Definer(n, alias, defined) = {target}
                         /\ CatalogById(id) = {target}
                         /\ InterfaceFacts(id) = {s \in SignaturesOf(target) : SignaturesOf(target) = {s}}
                         /\ target \notin drifted => DirectFacts(id) = Mentions(target)
    BY DEF AnswersAreTrue, Items
<1>1. canon.known \in Known   BY AvailableFacts
<1>2. IsFiniteSet(DOMAIN alias) /\ defined \cap DOMAIN alias = {}
      /\ \A q \in DOMAIN alias : q[1] \in LineageModule /\ alias[q][1] \in LineageModule
    BY <1>1, AliasShape
<1>3. n[1] \in LineageModule   BY <1>1, <1>2, ItemShape
<1>4. /\ target[1] \in LineageModule
      /\ Definer(n, alias, defined) = IF target \in defined THEN {target} ELSE {}
    <2>1. CASE n \in defined
        <3>1. Catalog(n) # {}   BY <2>1, <1>3, CatalogIs
        <3>2. target = n   BY <3>1 DEF ResolveTarget
        <3> QED BY <2>1, <3>2, <1>3 DEF Definer
    <2>2. CASE n \notin defined
        <3>1. n \in DOMAIN alias   BY <2>2
        <3>2. /\ Followed(n, alias)[1] \in LineageModule
              /\ Definer(n, alias, defined) =
                    IF Followed(n, alias) \in DOMAIN alias THEN {} ELSE defined \cap {Followed(n, alias)}
            BY <3>1, <1>2, <1>3, FollowedIsDefiner
        <3>3. Catalog(n) = {}   BY <2>2, <1>3, CatalogIs
        <3>4. target = IF Followed(n, alias) \in DOMAIN alias THEN n ELSE Followed(n, alias)
            BY <3>3 DEF ResolveTarget
        <3> QED BY <2>2, <3>2, <3>4, <1>3
    <2> QED BY <2>1, <2>2
<1>5. Catalog(target) = IF target \in defined THEN {Ids[target]} ELSE {}   BY <1>4, CatalogIs
<1>6. ASSUME NEW id \in Catalog(target)
      PROVE  /\ Catalog(target) = {id} /\ Definer(n, alias, defined) = {target}
             /\ CatalogById(id) = {target}
             /\ InterfaceFacts(id) = {s \in SignaturesOf(target) : SignaturesOf(target) = {s}}
             /\ target \notin drifted => DirectFacts(id) = Mentions(target)
    <2>1. target \in Items(canon.known) /\ id = Ids[target]   BY <1>5
    <2>2. CatalogById(id) = {target}   BY <2>1, CatalogByIdIs
    <2>3. InterfaceFacts(id) = {s \in SignaturesOf(target) : SignaturesOf(target) = {s}}   BY <2>1, InterfaceIs
    <2>4. target \notin drifted => DirectFacts(id) = Mentions(target)   BY <2>1, DirectFactsAre
    <2> QED BY <2>1, <2>2, <2>3, <2>4, <1>4, <1>5
<1>7. (Catalog(target) # {}) = (Definer(n, alias, defined) # {})   BY <1>4, <1>5
<1> QED BY <1>6, <1>7

LEMMA IdentitiesHold == LineageInv => IdentitiesStand
<1> SUFFICES ASSUME LineageInv, NEW d \in denoted, NEW e \in denoted, d[1] = e[1], d[2] = e[2]
             PROVE  d[3] = e[3]
    BY DEF IdentitiesStand
<1> DEFINE k == d[1]
           h == <<d[2], d[3]>>
           g == <<e[2], e[3]>>
<1>1. k \in Kind /\ RegistrySound(registry, denoted)   BY DEF LineageInv, IdentitiesInv
<1>2. Sound(registry[k], Published(denoted, k))   BY <1>1 DEF RegistrySound
<1>3. h \in Published(denoted, k) /\ g \in Published(denoted, k)   BY DEF Published
<1>4. h[1] = g[1] => h[2] = g[2]
    <2> HIDE DEF h, g
    <2> QED BY <1>2, <1>3 DEF Sound
<1> QED BY <1>4

(* What is asked of fresh facts is what the texts say, found by the        *)
(* identities names have, and no identity is published for two items, for  *)
(* every set of modules, texts and slots, any number of edits, failures    *)
(* and collected orphans, and aliases of any length (resolve_target,       *)
(* direct_facts, target_interface_facts; _allocate_slot).                  *)
THEOREM AnswersAndIdentities == LineageSpec => []LineageIsTrue
<1>1. LineageInv => LineageIsTrue   BY AnswersHold, IdentitiesHold DEF LineageIsTrue
<1> QED BY <1>1, LineageInvariant, PTL
=============================================================================
