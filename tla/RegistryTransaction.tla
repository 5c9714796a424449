------------------------- MODULE RegistryTransaction -------------------------
(***************************************************************************)
(* Transactions of the persistent identity registry,                       *)
(* contextor/core/reporting_engine/persistent_registry.py: seven files     *)
(* that belong together, replaced one after the other under a lock of the  *)
(* operating system.  A transaction writes a temporary file beside each of *)
(* them, then the transaction file that says "committing", then replaces   *)
(* the seven, then removes the transaction file.  Whoever opens the        *)
(* registry next finishes what it finds begun.                             *)
(*                                                                         *)
(* A content is the number of the transaction that wrote it.  A write      *)
(* leaves an unreadable file until it is complete.                         *)
(***************************************************************************)
EXTENDS Naturals

CONSTANTS
    User,               \* registry objects, each in a process of its own
    NoOne,
    Files,              \* how many files there are: seven in the code
    Absent, Torn,       \* no file; a file cut short
    Closed,             \* the view of who has no session
    MaxTransactions,    \* bound
    Faults              \* calls that may raise in a live process

ASSUME RegistryAssumption ==
    /\ NoOne \notin User
    /\ Files \in Nat \ {0}
    /\ Absent \notin Nat /\ Torn \notin Nat /\ Absent # Torn
    /\ MaxTransactions \in Nat
    /\ Faults \subseteq {"write", "replace", "recover", "remove"}

VARIABLES
    file,       \* the files, in the order of self.files
    tmp,        \* the temporary file beside each
    marker,     \* transaction.tmp
    lock,       \* who holds the lock of the registry
    last,       \* transactions begun so far
    pc,
    mode,       \* _transaction_mode of each session
    at,         \* the file its loop has come to
    loaded,     \* what it loaded from the files
    txn,        \* the transaction it began
    outcome,    \* what the last transaction of each user came to
    swallowed   \* history: a recovery went on after a replacement, or the
                \* removal of the transaction file, that raised

disk == <<file, tmp, marker>>
locals == <<mode, at, loaded, txn>>
vars == <<disk, lock, last, pc, locals, outcome>>

File == 1 .. Files
Points == {"idle", "recover", "roll", "discard", "load", "read", "body",
           "write", "fill", "mark", "fillMark", "replace", "unmark"}

(* Points between _load_all and the end of the session's reading. *)
Seeing == {"read", "body", "write", "fill", "mark", "fillMark"}

Nothing == [f \in File |-> 0]

Goto(u, point) == pc' = [pc EXCEPT ![u] = point]

Init ==
    /\ file = Nothing
    /\ tmp = [f \in File |-> Absent]
    /\ marker = "absent"
    /\ lock = NoOne
    /\ last = 0
    /\ pc = [u \in User |-> "idle"]
    /\ mode = [u \in User |-> "none"]
    /\ at = [u \in User |-> 1]
    /\ loaded = [u \in User |-> Nothing]
    /\ txn = [u \in User |-> 0]
    /\ outcome = [u \in User |-> "none"]

-----------------------------------------------------------------------------
(* The constructor and read_transaction read; transaction writes. *)
Begin(u) ==
    /\ pc[u] = "idle" /\ lock = NoOne
    /\ \E m \in {"read", "write"} : mode' = [mode EXCEPT ![u] = m]
    /\ lock' = u
    /\ Goto(u, "recover")
    /\ UNCHANGED <<disk, last, at, loaded, txn, outcome>>

(* The finally clause: whatever came of it, the lock is given back. *)
End(u) ==
    /\ lock' = NoOne
    /\ Goto(u, "idle")
    /\ mode' = [mode EXCEPT ![u] = "none"]
    /\ at' = [at EXCEPT ![u] = 1]
    /\ loaded' = [loaded EXCEPT ![u] = Nothing]

-----------------------------------------------------------------------------
(* _recover_transaction. *)

(* Mutant of AfterMarker: a begun transaction is dropped. *)
AfterMarkerDrop == IF marker = "absent" THEN "load" ELSE "discard"

AfterMarker ==
    CASE marker = "absent" -> "load"
      [] marker = "torn" -> "discard"
      [] marker = "committing" -> "roll"

ReadMarker(u) ==
    /\ pc[u] = "recover"
    /\ Goto(u, AfterMarker)
    /\ UNCHANGED <<disk, lock, last, locals, outcome>>

(* A temporary file that is gone was moved before. *)
RollForward(u) ==
    LET f == at[u] IN
    /\ pc[u] = "roll"
    /\ IF tmp[f] = Absent THEN UNCHANGED <<file, tmp>>
       ELSE /\ file' = [file EXCEPT ![f] = tmp[f]]
            /\ tmp' = [tmp EXCEPT ![f] = Absent]
    /\ IF f < Files THEN at' = [at EXCEPT ![u] = f + 1] /\ UNCHANGED pc
       ELSE at' = [at EXCEPT ![u] = 1] /\ Goto(u, "discard")
    /\ UNCHANGED <<marker, lock, last, mode, loaded, txn, outcome>>

(* Its exception is swallowed. *)
RollForwardFails(u) ==
    /\ "recover" \in Faults
    /\ pc[u] = "roll" /\ tmp[at[u]] # Absent
    /\ at' = [at EXCEPT ![u] = 1]
    /\ Goto(u, "discard")
    /\ UNCHANGED <<disk, lock, last, mode, loaded, txn, outcome>>

(* Removing the transaction file; an OSError is swallowed. *)
Discard(u) ==
    /\ pc[u] = "discard"
    /\ \/ marker' = "absent"
       \/ "remove" \in Faults /\ UNCHANGED marker
    /\ Goto(u, "load")
    /\ UNCHANGED <<file, tmp, lock, last, locals, outcome>>

-----------------------------------------------------------------------------
(* An unreadable file counts as an empty one. *)
Readable(content) == IF content = Torn THEN 0 ELSE content

Load(u) ==
    /\ pc[u] = "load"
    /\ loaded' = [loaded EXCEPT ![u] = [f \in File |-> Readable(file[f])]]
    /\ Goto(u, IF mode[u] = "read" THEN "read" ELSE "body")
    /\ UNCHANGED <<disk, lock, last, mode, at, txn, outcome>>

EndRead(u) ==
    /\ pc[u] = "read"
    /\ End(u)
    /\ UNCHANGED <<disk, last, txn, outcome>>

(* The body of the with statement, which may raise. *)
Body(u) ==
    /\ pc[u] = "body" /\ last < MaxTransactions
    /\ last' = last + 1
    /\ txn' = [txn EXCEPT ![u] = last + 1]
    /\ outcome' = [outcome EXCEPT ![u] = "none"]
    /\ Goto(u, "write")
    /\ UNCHANGED <<disk, lock, mode, at, loaded>>

BodyRaises(u) ==
    /\ pc[u] = "body"
    /\ End(u)
    /\ UNCHANGED <<disk, last, txn, outcome>>

-----------------------------------------------------------------------------
(* The commit. *)

OpenTmp(u) ==
    /\ pc[u] = "write"
    /\ tmp' = [tmp EXCEPT ![at[u]] = Torn]
    /\ Goto(u, "fill")
    /\ UNCHANGED <<file, marker, lock, last, locals, outcome>>

AfterFill(f) == IF f < Files THEN "write" ELSE "mark"

FillTmp(u) ==
    LET f == at[u] IN
    /\ pc[u] = "fill"
    /\ tmp' = [tmp EXCEPT ![f] = txn[u]]
    /\ Goto(u, AfterFill(f))
    /\ at' = [at EXCEPT ![u] = IF AfterFill(f) = "write" THEN f + 1 ELSE 1]
    /\ UNCHANGED <<file, marker, lock, last, mode, loaded, txn, outcome>>

OpenMarker(u) ==
    /\ pc[u] = "mark"
    /\ marker' = "torn"
    /\ Goto(u, "fillMark")
    /\ UNCHANGED <<file, tmp, lock, last, locals, outcome>>

FillMarker(u) ==
    /\ pc[u] = "fillMark"
    /\ marker' = "committing"
    /\ Goto(u, "replace")
    /\ UNCHANGED <<file, tmp, lock, last, locals, outcome>>

Replace(u) ==
    LET f == at[u] IN
    /\ pc[u] = "replace"
    /\ file' = [file EXCEPT ![f] = tmp[f]]
    /\ tmp' = [tmp EXCEPT ![f] = Absent]
    /\ IF f < Files THEN at' = [at EXCEPT ![u] = f + 1] /\ UNCHANGED pc
       ELSE at' = [at EXCEPT ![u] = 1] /\ Goto(u, "unmark")
    /\ UNCHANGED <<marker, lock, last, mode, loaded, txn, outcome>>

Unmark(u) ==
    /\ pc[u] = "unmark"
    /\ marker' = "absent"
    /\ End(u)
    /\ outcome' = [outcome EXCEPT ![u] = "committed"]
    /\ UNCHANGED <<file, tmp, last, txn>>

(* A write, an fsync, a replacement or the final removal raises. *)
CommitRaises(u) ==
    /\ \/ "write" \in Faults /\ pc[u] \in {"write", "fill", "mark", "fillMark"}
       \/ "write" \in Faults /\ pc[u] = "replace" /\ at[u] = 1
       \/ "replace" \in Faults /\ pc[u] = "replace"
       \/ "remove" \in Faults /\ pc[u] = "unmark"
    /\ End(u)
    /\ outcome' = [outcome EXCEPT ![u] = "raised"]
    /\ UNCHANGED <<disk, last, txn>>

(* The process ends; the system closes its lock file. *)
Crash(u) ==
    /\ lock = u
    /\ End(u)
    /\ outcome' = [outcome EXCEPT ![u] = "none"]
    /\ UNCHANGED <<disk, last, txn>>

-----------------------------------------------------------------------------
Recover(u) == ReadMarker(u) \/ RollForward(u) \/ RollForwardFails(u) \/ Discard(u)
Commit(u) == OpenTmp(u) \/ FillTmp(u) \/ OpenMarker(u) \/ FillMarker(u) \/ Replace(u) \/ Unmark(u)

Next ==
    \E u \in User :
        \/ Begin(u) \/ Recover(u) \/ Load(u) \/ EndRead(u)
        \/ Body(u) \/ BodyRaises(u) \/ Commit(u) \/ CommitRaises(u) \/ Crash(u)

Spec == Init /\ [][Next]_vars

Swallows == \E u \in User : RollForwardFails(u) \/ (Discard(u) /\ UNCHANGED marker)

RegistryInit == Init /\ swallowed = FALSE
RegistryNext == Next /\ swallowed' = (swallowed \/ Swallows)

(* The same, with a record of swallowed exceptions. *)
RegistrySpec == RegistryInit /\ [][RegistryNext]_<<vars, swallowed>>

-----------------------------------------------------------------------------
Content == Nat \cup {Torn}

(* Files, temporary files and the locals of every session. *)
TypeOK ==
    /\ file \in [File -> Content]
    /\ tmp \in [File -> Content \cup {Absent}]
    /\ marker \in {"absent", "torn", "committing"}
    /\ lock \in User \cup {NoOne}
    /\ last \in Nat
    /\ pc \in [User -> Points]
    /\ mode \in [User -> {"none", "read", "write"}]
    /\ at \in [User -> File]
    /\ loaded \in [User -> [File -> Nat]]
    /\ txn \in [User -> Nat]
    /\ outcome \in [User -> {"none", "committed", "raised"}]

(* Only who holds the lock is in a session, and whatever fails or crashes, *)
(* the lock of a session that ended is free again.                         *)
OneSession == \A u \in User : pc[u] # "idle" <=> lock = u

(* What the files hold once a begun transaction is finished. *)
Durable == [f \in File |-> IF marker = "committing" /\ tmp[f] # Absent THEN tmp[f] ELSE file[f]]

(* "strict atomicity ... even during parallel runs or abrupt crashes"       *)
(* (CHANGELOG.md:1385): what a session loads from the seven files was      *)
(* written by one transaction.                                             *)
SeesOneTransaction ==
    \A u \in User : pc[u] \in Seeing => \A f, g \in File : loaded[u][f] = loaded[u][g]

(* A session sees what is durable, and it stays so until the session       *)
(* commits or ends: nobody else's commit comes between (the lock held from *)
(* _recover_transaction to the end).                                       *)
SessionsSeeDurable == \A u \in User : pc[u] \in Seeing => loaded[u] = Durable

(* A transaction that was reported as committed is what every session      *)
(* loads until a later one commits, whoever crashes or fails.              *)
CommittedStays ==
    \A u, v \in User : outcome[u] = "committed" /\ pc[v] \in Seeing =>
        \A f \in File : loaded[v][f] >= txn[u]

(* "A failed write transaction leaves no persisted commit"                 *)
(* (analysis/incremental/engine.py): no session ever loads what a          *)
(* transaction that raised has written.                                    *)
FailedLeavesNothing ==
    \A u, v \in User : outcome[u] = "raised" /\ pc[v] \in Seeing =>
        \A f \in File : loaded[v][f] # txn[u]

Register == INSTANCE RegistryRegister WITH
    value <- Durable,
    view <- [u \in User |->
               CASE pc[u] \in Seeing -> loaded[u]
                 [] pc[u] \in {"replace", "unmark"} -> [f \in File |-> txn[u]]
                 [] OTHER -> Closed]

(* Seven files and a transaction file are one register: no session sees a  *)
(* mixture, and no commit overwrites one it has not seen.                  *)
ImplementsRegister == Register!Spec

(* Until a recovery swallows a call that raised, every session loads the   *)
(* files of one transaction (persistent_registry.py, transaction and       *)
(* _recover_transaction), whatever else crashes or raises.                 *)
ReadsOneTransaction == swallowed \/ SeesOneTransaction

(* Until then the files, the temporary files and the transaction file are  *)
(* together one register that sessions open, commit and close.             *)
ImplementsRegisterUntilSwallowed ==
    Register!Init /\ [][swallowed' \/ Register!Next]_(Register!vars)
=============================================================================
