------------------------------ MODULE HostsProofs ------------------------------
(***************************************************************************)
(* What holds of the process pools, of the engine caches, of the analysis  *)
(* jobs, of who owns the persistent MCP backend and of the incremental     *)
(* engine, for every set of threads, keys, processes, modules and sources  *)
(* and every bound: for each component an inductive invariant, the lemmas  *)
(* that keep it, and the theorem that its runs check on a small instance.  *)
(***************************************************************************)
EXTENDS ProcessPools, EngineCache, AnalysisJobs, BackendOwner, IncrementalEngine,
        SequenceTheorems, FiniteSetTheorems, TLAPS

-----------------------------------------------------------------------------
(* The process pools.  A thread that is about to register a pool is the    *)
(* only one that knows it, and whoever leases a key has its use lock.       *)

LeasePoint == {"look", "rotate", "replace", "create", "register", "submit", "collect", "raise",
               "drop", "leave", "unregister"}
LeaseOf == [at : LeasePoint, key : PoolKey \cup {NoKey}, scope : Scope, pool : Nat]

PoolTypeOK ==
    /\ Made = 1 .. Cardinality(Made) /\ Cardinality(Made) \in Nat
    /\ scope \in Scope
    /\ leases \in [PoolThread -> {Out} \cup LeaseOf]
    /\ use \in [PoolKey -> PoolThread \cup {Nobody}]
    /\ \A p \in Made : pools[p].key \in PoolKey \cup {NoKey}
    /\ reusable \in [PoolKey -> Made \cup {0}]
    /\ active \subseteq Made
    /\ sweep \in {NoSweep} \cup [todo : SUBSET Made, all : SUBSET Made]

(* The use lock of a key is with the thread that leases it. *)
UseInv ==
    /\ \A t \in PoolThread : ~ At(t, "out") /\ leases[t].key # NoKey => use[leases[t].key] = t
    /\ \A k \in PoolKey : use[k] # Nobody =>
         ~ At(use[k], "out") /\ leases[use[k]].key = k

(* What a thread knows of the pool it leases. *)
LeaseOK(t) ==
    LET step == leases[t].at  p == leases[t].pool  k == leases[t].key IN
    /\ step # "out" => p \in Made \cup {0}
    /\ step \notin {"out", "look", "create"} => p \in Made /\ pools[p].key = k
    /\ step \in {"register", "submit", "collect"} => pools[p].scope = leases[t].scope
    /\ step \in {"replace", "drop", "leave", "unregister"} => p \notin Alive
    /\ step = "register" => p \in Alive
    /\ step # "out" /\ k = NoKey =>
         step \in {"create", "register", "submit", "collect", "raise", "unregister"}
    /\ step # "out" /\ k # NoKey =>
         /\ step # "unregister"
         /\ step \in {"create", "register", "leave"} => reusable[k] = 0
         /\ step \notin {"look", "create", "register", "leave"} => reusable[k] \in {0, p}

LeaseInv == \A t \in PoolThread : LeaseOK(t)

(* A pool that waits to be registered is known to its maker only. *)
MakerInv ==
    \A t \in PoolThread : At(t, "register") =>
        /\ leases[t].pool \notin active
        /\ sweep # NoSweep => leases[t].pool \notin sweep.all
        /\ \A k \in PoolKey : reusable[k] # leases[t].pool
        /\ \A u \in PoolThread : u # t /\ ~ At(u, "out") => leases[u].pool # leases[t].pool

(* A living pool of a key is its reusable pool, or about to be. *)
LivingInv ==
    /\ \A k \in PoolKey : reusable[k] # 0 => pools[reusable[k]].key = k
    /\ \A p \in Alive : pools[p].key # NoKey =>
         \/ reusable[pools[p].key] = p
         \/ \E t \in PoolThread : At(t, "register") /\ leases[t].pool = p

SweepInv ==
  sweep # NoSweep =>
    sweep.todo \subseteq sweep.all /\ \A p \in sweep.all : p \in Alive => p \in sweep.todo

PoolInv ==
    /\ PoolTypeOK /\ UseInv /\ LeaseInv /\ MakerInv /\ LivingInv /\ SweepInv
    /\ LivingAreRegistered /\ DeadLeave

LEMMA PoolInit0 == PoolInit => PoolInv
<1> SUFFICES ASSUME PoolInit PROVE PoolInv
  OBVIOUS
<1> USE PoolAssumption DEF PoolInit
<1>1. Made = {} /\ Made = 1 .. 0 /\ Cardinality(Made) = 0 /\ Alive = {}
  BY FS_Interval DEF Made, Alive
<1>2. PoolTypeOK
  BY <1>1 DEF PoolTypeOK
<1>3. UseInv
  BY DEF UseInv, At, Out
<1>4. LeaseInv /\ MakerInv
  BY DEF LeaseInv, LeaseOK, MakerInv, At, Out
<1>5. LivingInv /\ SweepInv /\ LivingAreRegistered /\ DeadLeave
  BY <1>1 DEF LivingInv, SweepInv, LivingAreRegistered, DeadLeave
<1> QED
  BY <1>2, <1>3, <1>4, <1>5 DEF PoolInv

(* What a step does to the lease of one thread, and to the pools. *)
OthersKeep(t) == \A u \in PoolThread : u # t => leases'[u] = leases[u]

Moves(t, step, p) ==
    /\ leases' \in [PoolThread -> {Out} \cup LeaseOf]
    /\ leases[t] \in LeaseOf /\ leases[t].at # "out"
    /\ leases'[t].at = step /\ leases'[t].key = leases[t].key
    /\ leases'[t].scope = leases[t].scope /\ leases'[t].pool = p
    /\ OthersKeep(t)

PoolsKept(gone) ==
    /\ Made' = Made /\ Alive' = Alive \ gone
    /\ \A q \in Made : pools'[q].key = pools[q].key /\ pools'[q].scope = pools[q].scope

LEMMA InALease ==
  ASSUME PoolTypeOK, NEW t \in PoolThread, leases[t].at # "out"
  PROVE  leases[t] \in LeaseOf
  BY DEF PoolTypeOK, Out

LEMMA Moved ==
  ASSUME PoolTypeOK, NEW t \in PoolThread, leases[t].at # "out", NEW step \in LeasePoint,
         leases' = [leases EXCEPT ![t].at = step]
  PROVE  Moves(t, step, leases[t].pool)
<1>1. leases[t] \in LeaseOf
  BY InALease
<1>2. [leases[t] EXCEPT !.at = step] \in LeaseOf
  BY <1>1 DEF LeaseOf
<1>3. leases' \in [PoolThread -> {Out} \cup LeaseOf] /\ OthersKeep(t)
  BY <1>2 DEF PoolTypeOK, OthersKeep
<1>4. leases'[t] = [leases[t] EXCEPT !.at = step]
  BY DEF PoolTypeOK
<1> QED
  BY <1>1, <1>3, <1>4 DEF Moves, LeaseOf

LEMMA MovedTo ==
  ASSUME PoolTypeOK, NEW t \in PoolThread, leases[t].at # "out", NEW step \in LeasePoint, NEW p \in Nat,
         leases' = [leases EXCEPT ![t].pool = p, ![t].at = step]
  PROVE  Moves(t, step, p)
<1>1. leases[t] \in LeaseOf
  BY InALease
<1> DEFINE next == [[leases[t] EXCEPT !.pool = p] EXCEPT !.at = step]
<1>2. next \in LeaseOf
  BY <1>1 DEF LeaseOf
<1>3. leases' = [leases EXCEPT ![t] = next]
  BY DEF PoolTypeOK
<1>4. leases' \in [PoolThread -> {Out} \cup LeaseOf] /\ OthersKeep(t) /\ leases'[t] = next
  BY <1>2, <1>3 DEF PoolTypeOK, OthersKeep
<1> QED
  BY <1>1, <1>4 DEF Moves, LeaseOf

LEMMA Terminates ==
  ASSUME NEW p \in Made, Terminated(p)
  PROVE  PoolsKept({p})
<1>1. Made' = Made /\ \A q \in Made : q # p => pools'[q] = pools[q]
  BY DEF Terminated, Made
<1>2. pools'[p] = [pools[p] EXCEPT !.alive = FALSE]
  BY DEF Terminated, Made
<1>3. pools'[p].key = pools[p].key /\ pools'[p].scope = pools[p].scope
  BY <1>2
<1>4. Alive' = Alive \ {p}
  <2>1. \A q \in Made : pools'[q].alive <=> pools[q].alive /\ q # p
    <3>1. pools'[p].alive = FALSE
      BY <1>2
    <3> QED
      BY <3>1, <1>1, Zenon
  <2> QED
    BY <2>1, <1>1, Zenon DEF Alive
<1> QED
  BY <1>1, <1>3, <1>4 DEF PoolsKept

LEMMA PoolsUnchanged ==
  ASSUME UNCHANGED pools
  PROVE  PoolsKept({}) /\ Made' = Made /\ Alive' = Alive
  BY DEF PoolsKept, Made, Alive

(* A step of thread t that makes, registers and unregisters no living pool, *)
(* but may terminate the pools of "gone" and forget dead ones.              *)
Quiet(t, gone) ==
    /\ leases' \in [PoolThread -> {Out} \cup LeaseOf]
    /\ OthersKeep(t) /\ leases[t].at # "register" /\ leases'[t].at # "register"
    /\ PoolsKept(gone)
    /\ \A u \in PoolThread : At(u, "register") => leases[u].pool \notin gone
    /\ UNCHANGED <<scope, sweep>>
    /\ active' \subseteq active /\ \A p \in active : p \in Alive' => p \in active'
    /\ reusable' \in [PoolKey -> Made \cup {0}]
    /\ \A k \in PoolKey : reusable'[k] = reusable[k]
                          \/ (reusable'[k] = 0 /\ reusable[k] \notin Alive')
    /\ leases'[t].at # "out" =>
         \A u \in PoolThread : At(u, "register") => leases'[t].pool # leases[u].pool

LEMMA QuietKeeps ==
  ASSUME PoolInv, NEW t \in PoolThread, NEW gone, Quiet(t, gone),
         use' \in [PoolKey -> PoolThread \cup {Nobody}]
  PROVE  PoolTypeOK' /\ MakerInv' /\ LivingInv' /\ SweepInv' /\ LivingAreRegistered'
<1> USE DEF PoolInv
<1>1. /\ Made' = Made /\ Alive' \subseteq Alive
      /\ \A p \in Alive : p \notin gone => p \in Alive'
      /\ \A p \in Made : pools'[p].key = pools[p].key
  BY DEF Quiet, PoolsKept
<1>2. /\ \A u \in PoolThread : At(u, "register")' <=> At(u, "register")
      /\ \A u \in PoolThread : At(u, "register") => u # t /\ leases'[u] = leases[u]
  BY DEF Quiet, OthersKeep, At
<1>3. PoolTypeOK'
  BY <1>1 DEF Quiet, PoolTypeOK
<1>4. MakerInv'
  <2> SUFFICES ASSUME NEW v \in PoolThread, At(v, "register")
               PROVE  /\ leases[v].pool \notin active'
                      /\ sweep' # NoSweep => leases[v].pool \notin sweep'.all
                      /\ \A k \in PoolKey : reusable'[k] # leases[v].pool
                      /\ \A u \in PoolThread : u # v /\ ~ At(u, "out")'
                                               => leases'[u].pool # leases[v].pool
    BY <1>2, Zenon DEF MakerInv
  <2>1. leases[v].pool \notin active' /\ (sweep' # NoSweep => leases[v].pool \notin sweep'.all)
    BY DEF Quiet, MakerInv
  <2>2. leases[v].pool # 0
    BY DEF LeaseInv, LeaseOK, At, PoolTypeOK
  <2>3. \A k \in PoolKey : reusable'[k] # leases[v].pool
    BY <2>2 DEF Quiet, MakerInv
  <2>4. ASSUME NEW u \in PoolThread, u # v, ~ At(u, "out")'
        PROVE  leases'[u].pool # leases[v].pool
    <3>1. CASE u = t
      BY <2>4, <3>1 DEF Quiet, At
    <3>2. CASE u # t
      BY <2>4, <3>2 DEF Quiet, OthersKeep, MakerInv, At
    <3> QED
      BY <3>1, <3>2
  <2> QED
    BY <2>1, <2>3, <2>4
<1>5. LivingInv'
  <2>1. \A k \in PoolKey : reusable'[k] # 0 => pools'[reusable'[k]].key = k
    BY <1>1 DEF Quiet, LivingInv, PoolTypeOK
  <2>2. ASSUME NEW p \in Alive', pools'[p].key # NoKey
        PROVE  \/ reusable'[pools'[p].key] = p
               \/ \E u \in PoolThread : At(u, "register")' /\ leases'[u].pool = p
    <3>1. p \in Alive /\ p \in Made /\ pools'[p].key = pools[p].key
      BY <1>1, <2>2 DEF Alive
    <3>2. CASE \E u \in PoolThread : At(u, "register") /\ leases[u].pool = p
      BY <1>2, <3>2
    <3>3. CASE reusable[pools[p].key] = p
      <4>1. pools[p].key \in PoolKey
        BY <2>2, <3>1 DEF PoolTypeOK
      <4> QED
        BY <2>2, <3>1, <3>3, <4>1 DEF Quiet
    <3> QED
      BY <2>2, <3>1, <3>2, <3>3 DEF LivingInv
  <2> QED
    BY <2>1, <2>2 DEF LivingInv
<1>6. SweepInv'
  BY <1>1 DEF SweepInv, Quiet
<1>7. LivingAreRegistered'
  <2> SUFFICES ASSUME NEW p \in Alive'
               PROVE  p \in active' \/ \E u \in PoolThread : At(u, "register")' /\ leases'[u].pool = p
    BY DEF LivingAreRegistered
  <2>1. p \in Alive
    BY <1>1
  <2>2. CASE p \in active
    BY <2>2 DEF Quiet
  <2>3. CASE \E u \in PoolThread : At(u, "register") /\ leases[u].pool = p
    BY <1>2, <2>3
  <2> QED
    BY <2>1, <2>2, <2>3 DEF LivingAreRegistered
<1> QED
  BY <1>3, <1>4, <1>5, <1>6, <1>7

(* What a lease that is not touched by a step still knows. *)
LEMMA LeaseKept ==
  ASSUME PoolInv, NEW u \in PoolThread, NEW gone, leases'[u] = leases[u], PoolsKept(gone),
         At(u, "register") => leases[u].pool \notin gone,
         \A k \in PoolKey : reusable'[k] \in {reusable[k], 0}
  PROVE  LeaseOK(u)'
<1>1. CASE leases[u].at = "out"
  BY <1>1 DEF LeaseOK
<1>2. CASE leases[u].at # "out"
  <2>1. leases[u] \in LeaseOf
    BY <1>2, InALease DEF PoolInv
  <2>2. LeaseOK(u) /\ (0 \notin Made)
    BY DEF PoolInv, LeaseInv, PoolTypeOK
  <2> QED
    BY <2>1, <2>2, <1>2 DEF LeaseOK, PoolsKept, At, LeaseOf
<1> QED
  BY <1>1, <1>2

(* The use lock of a key that a step does not touch stays with its holder. *)
LEMMA UseKept ==
  ASSUME PoolInv, NEW t \in PoolThread, NEW step, step # "out", NEW p, Moves(t, step, p), UNCHANGED use
  PROVE  UseInv' /\ use' \in [PoolKey -> PoolThread \cup {Nobody}]
<1>1. \A u \in PoolThread : /\ leases'[u].at = "out" <=> leases[u].at = "out"
                            /\ leases[u].at # "out" => leases'[u].key = leases[u].key
  BY DEF Moves, OthersKeep
<1>2. \A u \in PoolThread : leases'[u].at # "out" /\ leases'[u].key # NoKey => use'[leases'[u].key] = u
  BY <1>1 DEF PoolInv, UseInv, At
<1>3. ASSUME NEW k \in PoolKey, use[k] # Nobody
      PROVE  leases'[use[k]].at # "out" /\ leases'[use[k]].key = k
  <2>1. use[k] \in PoolThread /\ leases[use[k]].at # "out" /\ leases[use[k]].key = k
    BY <1>3 DEF PoolInv, PoolTypeOK, UseInv, At
  <2> QED
    BY <1>1, <2>1
<1> QED
  BY <1>2, <1>3 DEF PoolInv, PoolTypeOK, UseInv, At

(* A thread that leaves gives its use lock back. *)
LEMMA UseReleased ==
  ASSUME PoolInv, NEW t \in PoolThread, leases[t].at # "out", Released(t)
  PROVE  /\ UseInv' /\ use' \in [PoolKey -> PoolThread \cup {Nobody}]
         /\ leases' \in [PoolThread -> {Out} \cup LeaseOf] /\ OthersKeep(t) /\ leases'[t] = Out
<1>1. leases' \in [PoolThread -> {Out} \cup LeaseOf] /\ OthersKeep(t) /\ leases'[t] = Out
  BY DEF Released, OthersKeep, PoolInv, PoolTypeOK
<1>2. use' \in [PoolKey -> PoolThread \cup {Nobody}]
  BY DEF Released, PoolInv, PoolTypeOK
<1>3. ASSUME NEW u \in PoolThread, ~ At(u, "out")', leases'[u].key # NoKey
      PROVE  use'[leases'[u].key] = u
  <2>1. u # t /\ leases'[u] = leases[u] /\ ~ At(u, "out")
    BY <1>1, <1>3 DEF OthersKeep, At, Out
  <2>2. leases[u].key \in PoolKey
    BY <1>3, <2>1, InALease DEF PoolInv, LeaseOf, At
  <2>3. use[leases[u].key] = u
    BY <1>3, <2>1 DEF PoolInv, UseInv
  <2> QED
    BY <2>1, <2>2, <2>3 DEF Released
<1>4. ASSUME NEW k \in PoolKey, use'[k] # Nobody
      PROVE  leases'[use'[k]].at # "out" /\ leases'[use'[k]].key = k
  <2>1. use'[k] = use[k] /\ use[k] # t /\ use[k] # Nobody
    BY <1>4 DEF Released
  <2>2. use[k] \in PoolThread /\ leases'[use[k]] = leases[use[k]]
    BY <1>1, <2>1 DEF OthersKeep, PoolInv, PoolTypeOK
  <2>3. leases[use[k]].at # "out" /\ leases[use[k]].key = k
    BY <2>1 DEF PoolInv, UseInv, At
  <2> QED
    BY <2>1, <2>2, <2>3
<1> QED
  BY <1>1, <1>2, <1>3, <1>4 DEF UseInv, At

(* A pool of a thread's lease is not one that another thread has just made. *)
LEMMA NotAnothers ==
  ASSUME PoolInv, NEW t \in PoolThread, leases[t].at # "out", leases[t].at # "register"
  PROVE  \A u \in PoolThread : At(u, "register") => leases[t].pool # leases[u].pool
  BY DEF PoolInv, MakerInv, At

(* The reusable pools of other keys are not the pool of this lease. *)
LEMMA PoolOfItsKey ==
  ASSUME PoolInv, NEW t \in PoolThread, leases[t].at \notin {"out", "look", "create"}
  PROVE  /\ leases[t].pool \in Made /\ leases[t].pool # 0
         /\ \A k \in PoolKey : reusable[k] = leases[t].pool => k = leases[t].key
<1>1. leases[t].pool \in Made /\ pools[leases[t].pool].key = leases[t].key
  BY DEF PoolInv, LeaseInv, LeaseOK
<1>2. leases[t].pool # 0
  BY <1>1 DEF PoolInv, PoolTypeOK
<1> QED
  BY <1>1, <1>2 DEF PoolInv, LivingInv

(* The dead pool of a key leaves while the thread that leases the key is *)
(* about to drop it, or the sweep that terminated it is about to end.     *)
LEMMA DeadStillLeave ==
  ASSUME PoolInv, NEW t \in PoolThread, OthersKeep(t), UNCHANGED sweep, Alive' = Alive,
         \A k \in PoolKey : reusable'[k] \in {reusable[k], 0},
         \A k \in PoolKey : use[k] # Nobody /\ use[k] # t => use'[k] = use[k],
         leases[t].at \notin {"replace", "drop"}
  PROVE  DeadLeave'
<1> SUFFICES ASSUME NEW k \in PoolKey, reusable'[k] # 0, reusable'[k] \notin Alive'
             PROVE  \/ sweep' # NoSweep /\ reusable'[k] \in sweep'.all
                    \/ use'[k] # Nobody /\ leases'[use'[k]].at \in {"replace", "drop"}
  BY DEF DeadLeave
<1>1. reusable'[k] = reusable[k] /\ reusable[k] # 0 /\ reusable[k] \notin Alive
  OBVIOUS
<1>2. CASE use[k] # Nobody /\ leases[use[k]].at \in {"replace", "drop"}
  BY <1>2 DEF OthersKeep, PoolInv, PoolTypeOK
<1> QED
  BY <1>1, <1>2 DEF PoolInv, DeadLeave

(* A quiet step keeps the invariant if it keeps what is said of its thread. *)
LEMMA QuietStep ==
  ASSUME PoolInv, NEW t \in PoolThread, NEW gone, Quiet(t, gone),
         UseInv', use' \in [PoolKey -> PoolThread \cup {Nobody}], LeaseOK(t)', DeadLeave'
  PROVE  PoolInv'
<1>1. PoolTypeOK' /\ MakerInv' /\ LivingInv' /\ SweepInv' /\ LivingAreRegistered'
  BY QuietKeeps
<1>2. \A u \in PoolThread : u # t => LeaseOK(u)'
  BY LeaseKept DEF Quiet, OthersKeep
<1> QED
  BY <1>1, <1>2 DEF PoolInv, LeaseInv

(* The steps of a lease that touch nothing but the lease. *)
LEMMA LeaseOnly ==
  ASSUME PoolInv, NEW t \in PoolThread, NEW step, NEW p, Moves(t, step, p),
         step \notin {"out", "register"}, leases[t].at \notin {"register", "replace", "drop"},
         \A u \in PoolThread : At(u, "register") => p # leases[u].pool,
         UNCHANGED <<scope, use, pools, reusable, active, sweep>>,
         LeaseOK(t)'
  PROVE  PoolInv'
<1>1. PoolsKept({}) /\ Made' = Made /\ Alive' = Alive
  BY PoolsUnchanged
<1>2. Quiet(t, {})
  <2>1. /\ leases' \in [PoolThread -> {Out} \cup LeaseOf] /\ OthersKeep(t)
        /\ leases[t].at # "register" /\ leases'[t].at # "register" /\ leases'[t].pool = p
    BY DEF Moves
  <2>2. reusable' \in [PoolKey -> Made \cup {0}]
    BY DEF PoolInv, PoolTypeOK
  <2> QED
    BY <1>1, <2>1, <2>2 DEF Quiet
<1>3. UseInv' /\ use' \in [PoolKey -> PoolThread \cup {Nobody}]
  BY UseKept
<1>4. DeadLeave'
  BY <1>1, DeadStillLeave DEF Moves
<1> QED
  BY <1>2, <1>3, <1>4, QuietStep

LEMMA LookUpKeeps ==
  ASSUME PoolInv, NEW t \in PoolThread, LookUp(t)
  PROVE  PoolInv'
<1> USE DEF LookUp
<1>1. leases[t].at = "look" /\ leases[t] \in LeaseOf
  BY InALease DEF At, PoolInv
<1>2. leases[t].key \in PoolKey
  BY <1>1, PoolAssumption DEF PoolInv, LeaseInv, LeaseOK, LeaseOf
<1> DEFINE p == reusable[leases[t].key]
<1>3. p \in Made \cup {0} /\ p \in Nat /\ (p # 0 => pools[p].key = leases[t].key)
  BY <1>2 DEF PoolInv, PoolTypeOK, LivingInv
<1>4. PICK step \in {"create", "rotate", "submit"} :
        /\ leases' = [leases EXCEPT ![t].pool = p, ![t].at = step]
        /\ p = 0 <=> step = "create"
        /\ step = "submit" => pools[p].scope = leases[t].scope
  <2>1. CASE p = 0
    BY <2>1
  <2>2. CASE p # 0 /\ pools[p].scope # leases[t].scope
    BY <2>2
  <2>3. CASE p # 0 /\ pools[p].scope = leases[t].scope
    BY <2>3
  <2> QED
    BY <2>1, <2>2, <2>3
<1>5. Moves(t, step, p)
  <2> HIDE DEF p
  <2>1. PoolTypeOK /\ step \in LeasePoint /\ p \in Nat
    BY <1>3 DEF PoolInv, LeasePoint
  <2> QED
    BY <1>1, <1>4, <2>1, MovedTo
<1>6. \A u \in PoolThread : At(u, "register") => p # leases[u].pool
  BY <1>2 DEF PoolInv, MakerInv
<1>7. LeaseOK(t)'
  <2>1. Made' = Made /\ Alive' = Alive
    BY PoolsUnchanged
  <2> QED
    BY <2>1, <1>2, <1>3, <1>4, <1>5, PoolAssumption DEF LeaseOK, Moves
<1> QED
  <2> HIDE DEF p
  <2> QED
    BY <1>1, <1>4, <1>5, <1>6, <1>7, LeaseOnly

LEMMA SubmitKeeps ==
  ASSUME PoolInv, NEW t \in PoolThread, Submit(t)
  PROVE  PoolInv'
<1> USE DEF Submit
<1>1. leases[t].at = "submit"
  BY DEF At
<1>2. PICK step \in {"collect", "raise"} : leases' = [leases EXCEPT ![t].at = step]
  OBVIOUS
<1>3. Moves(t, step, leases[t].pool)
  BY <1>1, <1>2, Moved DEF PoolInv, LeasePoint
<1>4. LeaseOK(t)'
  <2>1. Made' = Made /\ Alive' = Alive
    BY PoolsUnchanged
  <2> QED
    BY <2>1, <1>1, <1>3 DEF LeaseOK, Moves, PoolInv, LeaseInv
<1> QED
  BY <1>1, <1>3, <1>4, NotAnothers, LeaseOnly

LEMMA LeaseRaisesKeeps ==
  ASSUME PoolInv, NEW t \in PoolThread, LeaseRaises(t)
  PROVE  PoolInv'
<1> USE DEF LeaseRaises
<1>1. leases[t].at = "collect"
  BY DEF At
<1>2. Moves(t, "raise", leases[t].pool)
  BY <1>1, Moved DEF PoolInv, LeasePoint
<1>3. LeaseOK(t)'
  <2>1. Made' = Made /\ Alive' = Alive
    BY PoolsUnchanged
  <2> QED
    BY <2>1, <1>1, <1>2 DEF LeaseOK, Moves, PoolInv, LeaseInv
<1> QED
  BY <1>1, <1>2, <1>3, NotAnothers, LeaseOnly

(* The steps in which a thread terminates the pool of its lease. *)
LEMMA TerminatingLease ==
  ASSUME PoolInv, NEW t \in PoolThread, NEW step, Moves(t, step, leases[t].pool),
         leases[t].at \in {"rotate", "collect", "raise"},
         \/ step \in {"replace", "drop"} /\ leases[t].key # NoKey
         \/ step = "unregister" /\ leases[t].key = NoKey,
         Terminated(leases[t].pool), UNCHANGED <<scope, use, reusable, active, sweep>>
  PROVE  PoolInv'
<1> DEFINE p == leases[t].pool
<1>1. p \in Made /\ p # 0 /\ \A k \in PoolKey : reusable[k] = p => k = leases[t].key
  BY PoolOfItsKey
<1>2. PoolsKept({p})
  BY <1>1, Terminates
<1>3. \A u \in PoolThread : At(u, "register") => p # leases[u].pool
  BY NotAnothers
<1>4. UseInv' /\ use' \in [PoolKey -> PoolThread \cup {Nobody}]
  BY UseKept
<1>5. Quiet(t, {p})
  <2>1. /\ leases' \in [PoolThread -> {Out} \cup LeaseOf] /\ OthersKeep(t)
        /\ leases[t].at # "register" /\ leases'[t].at # "register" /\ leases'[t].pool = p
    BY DEF Moves
  <2>2. reusable' \in [PoolKey -> Made \cup {0}]
    BY DEF PoolInv, PoolTypeOK
  <2> QED
    BY <1>2, <1>3, <2>1, <2>2 DEF Quiet
<1>6. LeaseOK(t)'
  BY <1>2 DEF LeaseOK, Moves, PoolsKept, PoolInv, LeaseInv
<1>7. DeadLeave'
  <2> SUFFICES ASSUME NEW k \in PoolKey, reusable[k] # 0, reusable[k] \notin Alive'
               PROVE  \/ sweep # NoSweep /\ reusable[k] \in sweep.all
                      \/ use[k] # Nobody /\ leases'[use[k]].at \in {"replace", "drop"}
    BY DEF DeadLeave
  <2>1. CASE reusable[k] = p
    <3>1. k = leases[t].key /\ use[k] = t /\ leases[t].key # NoKey
      BY <1>1, <2>1, PoolAssumption DEF PoolInv, UseInv, At, Moves
    <3> QED
      BY <3>1, PoolAssumption DEF Moves
  <2>2. CASE reusable[k] # p
    <3>1. reusable[k] \notin Alive
      BY <1>2, <2>2 DEF PoolsKept
    <3>2. use[k] # t \/ leases[t].at \notin {"replace", "drop"}
      OBVIOUS
    <3>3. use[k] # Nobody => use[k] \in PoolThread
      BY DEF PoolInv, PoolTypeOK
    <3> QED
      BY <3>1, <3>2, <3>3 DEF PoolInv, DeadLeave, Moves, OthersKeep
  <2> QED
    BY <2>1, <2>2
<1> QED
  BY <1>4, <1>5, <1>6, <1>7, QuietStep

LEMMA TerminationsKeep ==
  ASSUME PoolInv, NEW t \in PoolThread, Rotate(t) \/ Invalidate(t) \/ EndTemporary(t)
  PROVE  PoolInv'
<1>0. \A step \in {"replace", "drop", "unregister"} : step \in LeasePoint
  BY DEF LeasePoint
<1>1. CASE Rotate(t)
  <2>1. leases[t].at = "rotate" /\ leases[t].key # NoKey
    BY <1>1 DEF Rotate, At, PoolInv, LeaseInv, LeaseOK
  <2>2. Moves(t, "replace", leases[t].pool)
    BY <1>0, <1>1, <2>1, Moved DEF Rotate, PoolInv
  <2> QED
    BY <1>1, <2>1, <2>2, TerminatingLease DEF Rotate
<1>2. CASE Invalidate(t)
  <2>1. leases[t].at = "raise" /\ leases[t].key # NoKey
    BY <1>2 DEF Invalidate, At
  <2>2. Moves(t, "drop", leases[t].pool)
    BY <1>0, <1>2, <2>1, Moved DEF Invalidate, PoolInv
  <2> QED
    BY <1>2, <2>1, <2>2, TerminatingLease DEF Invalidate
<1>3. CASE EndTemporary(t)
  <2>1. leases[t].at \in {"collect", "raise"} /\ leases[t].key = NoKey
    BY <1>3 DEF EndTemporary
  <2>2. Moves(t, "unregister", leases[t].pool)
    BY <1>0, <1>3, <2>1, Moved DEF EndTemporary, PoolInv
  <2> QED
    BY <1>3, <2>1, <2>2, TerminatingLease DEF EndTemporary
<1> QED
  BY <1>1, <1>2, <1>3

(* The steps in which a thread forgets the dead pool of its key. *)
LEMMA DroppingLease ==
  ASSUME PoolInv, NEW t \in PoolThread, NEW step, Moves(t, step, leases[t].pool),
         leases[t].at \in {"replace", "drop"}, step \in {"create", "leave"},
         Drop(leases[t].key, leases[t].pool), UNCHANGED <<scope, use, pools, sweep>>
  PROVE  PoolInv'
<1> DEFINE p == leases[t].pool
           k == leases[t].key
<1>1. /\ p \in Made /\ p # 0 /\ \A i \in PoolKey : reusable[i] = p => i = k
      /\ p \notin Alive /\ k \in PoolKey /\ use[k] = t /\ reusable[k] \in {0, p}
  <2>1. p \in Made /\ p # 0 /\ \A i \in PoolKey : reusable[i] = p => i = k
    BY PoolOfItsKey
  <2>2. p \notin Alive /\ k # NoKey
    BY DEF PoolInv, LeaseInv, LeaseOK
  <2>3. k \in PoolKey
    BY <2>2 DEF Moves, LeaseOf
  <2> QED
    BY <2>1, <2>2, <2>3 DEF PoolInv, LeaseInv, LeaseOK, UseInv, At
<1>2. PoolsKept({}) /\ Made' = Made /\ Alive' = Alive
  BY PoolsUnchanged
<1>3. /\ reusable' = [reusable EXCEPT ![k] = 0]
      /\ active' \subseteq active /\ \A q \in active : q # p => q \in active'
  <2>1. CASE reusable[k] = p
    BY <2>1 DEF Drop
  <2>2. CASE reusable[k] # p
    BY <1>1, <2>2 DEF Drop, PoolInv, PoolTypeOK
  <2> QED
    BY <2>1, <2>2
<1>4. UseInv' /\ use' \in [PoolKey -> PoolThread \cup {Nobody}]
  BY UseKept
<1>5. /\ reusable' \in [PoolKey -> Made \cup {0}] /\ reusable'[k] = 0
      /\ \A i \in PoolKey : i # k => reusable'[i] = reusable[i]
  BY <1>1, <1>3 DEF PoolInv, PoolTypeOK
<1>6. Quiet(t, {})
  <2>1. /\ leases' \in [PoolThread -> {Out} \cup LeaseOf] /\ OthersKeep(t)
        /\ leases[t].at # "register" /\ leases'[t].at # "register" /\ leases'[t].pool = p
    BY DEF Moves
  <2>2. \A i \in PoolKey : reusable'[i] = reusable[i]
                           \/ (reusable'[i] = 0 /\ reusable[i] \notin Alive')
    <3>1. 0 \notin Alive
      BY DEF PoolInv, PoolTypeOK, Alive
    <3> QED
      BY <1>1, <1>2, <1>5, <3>1
  <2>3. \A q \in active : q \in Alive' => q \in active'
    BY <1>1, <1>2, <1>3
  <2>4. \A u \in PoolThread : At(u, "register") => p # leases[u].pool
    BY NotAnothers
  <2> QED
    BY <1>2, <1>3, <1>5, <2>1, <2>2, <2>3, <2>4 DEF Quiet
<1>7. LeaseOK(t)'
  BY <1>1, <1>2, <1>5, PoolAssumption DEF LeaseOK, Moves, PoolsKept, PoolInv, LeaseInv
<1>8. DeadLeave'
  <2> SUFFICES ASSUME NEW i \in PoolKey, reusable'[i] # 0, reusable'[i] \notin Alive
               PROVE  \/ sweep # NoSweep /\ reusable'[i] \in sweep.all
                      \/ use[i] # Nobody /\ leases'[use[i]].at \in {"replace", "drop"}
    BY <1>2 DEF DeadLeave
  <2>1. i # k /\ reusable'[i] = reusable[i]
    BY <1>5
  <2>2. use[i] # t
    BY <2>1, PoolAssumption DEF PoolInv, UseInv, Moves, PoolTypeOK
  <2>3. use[i] # Nobody => use[i] \in PoolThread
    BY DEF PoolInv, PoolTypeOK
  <2> QED
    BY <2>1, <2>2, <2>3 DEF PoolInv, DeadLeave, Moves, OthersKeep
<1> QED
  BY <1>4, <1>6, <1>7, <1>8, QuietStep

LEMMA DropsKeep ==
  ASSUME PoolInv, NEW t \in PoolThread, Replace(t) \/ DropInvalid(t)
  PROVE  PoolInv'
<1>0. "create" \in LeasePoint /\ "leave" \in LeasePoint
  BY DEF LeasePoint
<1>1. CASE Replace(t)
  <2>1. leases[t].at = "replace"
    BY <1>1 DEF Replace, At
  <2>2. Moves(t, "create", leases[t].pool)
    BY <1>0, <1>1, <2>1, Moved DEF Replace, PoolInv
  <2> QED
    BY <1>1, <2>1, <2>2, DroppingLease DEF Replace
<1>2. CASE DropInvalid(t)
  <2>1. leases[t].at = "drop"
    BY <1>2 DEF DropInvalid, At
  <2>2. Moves(t, "leave", leases[t].pool)
    BY <1>0, <1>2, <2>1, Moved DEF DropInvalid, PoolInv
  <2> QED
    BY <1>2, <2>1, <2>2, DroppingLease DEF DropInvalid
<1> QED
  BY <1>1, <1>2

(* The steps in which a thread leaves the lifecycle of its pool. *)
LEMMA ReleasesKeep ==
  ASSUME PoolInv, NEW t \in PoolThread, EndLease(t) \/ Leave(t) \/ Unregister(t)
  PROVE  PoolInv'
<1>1. /\ leases[t].at \in {"collect", "leave", "unregister"} /\ Released(t)
      /\ UNCHANGED <<scope, pools, reusable, sweep>>
      /\ active' \in {active, active \ {leases[t].pool}}
      /\ leases[t].at # "unregister" => active' = active
  BY DEF EndLease, Leave, Unregister, At
<1>2. /\ UseInv' /\ use' \in [PoolKey -> PoolThread \cup {Nobody}]
      /\ leases' \in [PoolThread -> {Out} \cup LeaseOf] /\ OthersKeep(t) /\ leases'[t] = Out
  BY <1>1, UseReleased
<1>3. PoolsKept({}) /\ Made' = Made /\ Alive' = Alive
  BY <1>1, PoolsUnchanged
<1>4. Quiet(t, {})
  <2>1. \A q \in active : q \in Alive' => q \in active'
    BY <1>1, <1>3 DEF PoolInv, LeaseInv, LeaseOK
  <2>2. leases'[t].at = "out" /\ reusable' \in [PoolKey -> Made \cup {0}]
    BY <1>1, <1>2 DEF Out, PoolInv, PoolTypeOK
  <2> QED
    BY <1>1, <1>2, <1>3, <2>1, <2>2 DEF Quiet
<1>5. LeaseOK(t)'
  BY <1>2 DEF LeaseOK, Out
<1>6. DeadLeave'
  <2>1. \A k \in PoolKey : use[k] # Nobody /\ use[k] # t => use'[k] = use[k]
    BY <1>1 DEF Released
  <2> QED
    BY <1>1, <1>2, <1>3, <2>1, DeadStillLeave
<1> QED
  BY <1>2, <1>4, <1>5, <1>6, QuietStep

(* The steps in which a thread asks for a pool. *)
LEMMA AsksKeep ==
  ASSUME PoolInv, NEW t \in PoolThread, (\E k \in PoolKey : AskFor(t, k)) \/ AskTemporary(t)
  PROVE  PoolInv'
<1>1. PICK k \in PoolKey \cup {NoKey}, step \in {"look", "create"} :
        /\ leases' = [leases EXCEPT ![t] = [at |-> step, key |-> k, scope |-> scope, pool |-> 0]]
        /\ leases[t].at = "out" /\ UNCHANGED <<scope, pools, reusable, active, sweep>>
        /\ \/ k \in PoolKey /\ step = "look" /\ use[k] = Nobody /\ use' = [use EXCEPT ![k] = t]
           \/ k = NoKey /\ step = "create" /\ use' = use
  <2>1. CASE \E k \in PoolKey : AskFor(t, k)
    BY <2>1 DEF AskFor, At
  <2>2. CASE AskTemporary(t)
    BY <2>2 DEF AskTemporary, At
  <2> QED
    BY <2>1, <2>2
<1> DEFINE asked == [at |-> step, key |-> k, scope |-> scope, pool |-> 0]
<1>2. asked \in LeaseOf
  BY DEF LeaseOf, LeasePoint, PoolInv, PoolTypeOK
<1>3. leases' \in [PoolThread -> {Out} \cup LeaseOf] /\ OthersKeep(t) /\ leases'[t] = asked
  BY <1>1, <1>2 DEF PoolInv, PoolTypeOK, OthersKeep
<1>4. leases'[t].at = step /\ leases'[t].key = k /\ leases'[t].pool = 0
  BY <1>3
<1>5. PoolsKept({}) /\ Made' = Made /\ Alive' = Alive
  BY <1>1, PoolsUnchanged
<1>6. use' \in [PoolKey -> PoolThread \cup {Nobody}]
  BY <1>1 DEF PoolInv, PoolTypeOK
<1>7. UseInv'
  <2>1. ASSUME NEW u \in PoolThread, leases'[u].at # "out", leases'[u].key # NoKey
        PROVE  use'[leases'[u].key] = u
    <3>1. CASE u = t
      BY <1>1, <1>4, <2>1, <3>1 DEF PoolInv, PoolTypeOK
    <3>2. CASE u # t
      <4>1. leases[u].at # "out" /\ leases'[u] = leases[u]
        BY <1>3, <2>1, <3>2 DEF OthersKeep
      <4>2. leases[u].key \in PoolKey /\ use[leases[u].key] = u
        BY <2>1, <4>1, InALease DEF PoolInv, UseInv, At, LeaseOf
      <4> QED
        BY <1>1, <4>1, <4>2, PoolAssumption DEF PoolInv, PoolTypeOK
    <3> QED
      BY <3>1, <3>2
  <2>2. ASSUME NEW i \in PoolKey, use'[i] # Nobody
        PROVE  leases'[use'[i]].at # "out" /\ leases'[use'[i]].key = i
    <3>1. CASE k \in PoolKey /\ i = k
      <4>1. use'[i] = t
        BY <1>1, <3>1, PoolAssumption DEF PoolInv, PoolTypeOK
      <4> QED
        BY <1>4, <3>1, <4>1, <1>1
    <3>2. CASE ~ (k \in PoolKey /\ i = k)
      <4>1. use'[i] = use[i]
        BY <1>1, <3>2 DEF PoolInv, PoolTypeOK
      <4>2. use[i] \in PoolThread /\ leases[use[i]].at # "out" /\ leases[use[i]].key = i
        BY <2>2, <4>1 DEF PoolInv, PoolTypeOK, UseInv, At
      <4> QED
        BY <1>1, <1>3, <4>1, <4>2 DEF OthersKeep
    <3> QED
      BY <3>1, <3>2
  <2> QED
    BY <2>1, <2>2 DEF UseInv, At
<1>8. Quiet(t, {})
  <2>1. reusable' \in [PoolKey -> Made \cup {0}]
    BY <1>1 DEF PoolInv, PoolTypeOK
  <2>2. \A u \in PoolThread : At(u, "register") => 0 # leases[u].pool
    BY DEF PoolInv, PoolTypeOK, LeaseInv, LeaseOK, At
  <2> HIDE DEF asked
  <2> QED
    BY <1>1, <1>3, <1>4, <1>5, <2>1, <2>2 DEF Quiet
<1>9. LeaseOK(t)'
  BY <1>1, <1>4, <1>5, PoolAssumption DEF LeaseOK
<1>10. DeadLeave'
  <2>1. \A i \in PoolKey : use[i] # Nobody /\ use[i] # t => use'[i] = use[i]
    BY <1>1 DEF PoolInv, PoolTypeOK
  <2> HIDE DEF asked
  <2> QED
    BY <1>1, <1>3, <1>5, <2>1, DeadStillLeave
<1> QED
  BY <1>6, <1>7, <1>8, <1>9, <1>10, QuietStep

(* A pool is made under the next number, which nobody else knows. *)
LEMMA CreateKeeps ==
  ASSUME PoolInv, NEW t \in PoolThread, Create(t)
  PROVE  PoolInv'
<1>1. PICK p : p = Cardinality(Made) + 1
  OBVIOUS
<1>2. /\ leases[t].at = "create" /\ leases[t] \in LeaseOf
      /\ UNCHANGED <<scope, use, reusable, active, sweep>>
      /\ leases' = [leases EXCEPT ![t].pool = p, ![t].at = "register"]
      /\ pools' = [q \in Made \cup {p} |->
                     IF q = p THEN [key |-> leases[t].key, scope |-> leases[t].scope, alive |-> TRUE]
                     ELSE pools[q]]
  BY <1>1, InALease DEF Create, At, PoolInv
<1>3. p \in Nat /\ p # 0 /\ p \notin Made /\ Made \cup {p} = 1 .. p
  BY <1>1 DEF PoolInv, PoolTypeOK
<1>4. /\ Made' = Made \cup {p} /\ \A q \in Made : pools'[q] = pools[q]
      /\ pools'[p].key = leases[t].key /\ pools'[p].scope = leases[t].scope /\ pools'[p].alive
  <2>1. Made' = Made \cup {p}
    BY <1>2 DEF Made
  <2> QED
    BY <1>2, <1>3, <2>1
<1>5. Alive' = Alive \cup {p}
  BY <1>3, <1>4, Zenon DEF Alive
<1>6. Moves(t, "register", p)
  <2>1. "register" \in LeasePoint /\ leases[t].at # "out"
    BY <1>2 DEF LeasePoint
  <2> QED
    BY <1>2, <1>3, <2>1, MovedTo DEF PoolInv
<1>7. PoolTypeOK'
  <2>1. Cardinality(Made') = p
    <3>1. Cardinality(1 .. p) = p
      BY <1>3, FS_Interval
    <3> QED
      BY <1>3, <1>4, <3>1
  <2>2. \A q \in Made' : pools'[q].key \in PoolKey \cup {NoKey}
    BY <1>2, <1>4 DEF PoolInv, PoolTypeOK, LeaseOf
  <2> QED
    BY <1>2, <1>3, <1>4, <1>6, <2>1, <2>2 DEF PoolInv, PoolTypeOK, Moves
<1>8. UseInv'
  BY <1>2, <1>6, UseKept
<1>9. LeaseInv'
  <2>1. LeaseOK(t)'
    BY <1>2, <1>4, <1>5, <1>6 DEF LeaseOK, Moves, PoolInv, LeaseInv
  <2>2. ASSUME NEW u \in PoolThread, u # t
        PROVE  LeaseOK(u)'
    <3>1. LeaseOK(u) /\ leases'[u] = leases[u]
      BY <1>6, <2>2 DEF Moves, OthersKeep, PoolInv, LeaseInv
    <3>2. p \notin Alive /\ (leases[u].at = "out" \/ leases[u].pool # p)
      BY <1>3, <3>1 DEF LeaseOK, Alive
    <3> QED
      BY <1>2, <1>4, <1>5, <3>1, <3>2 DEF LeaseOK
  <2> QED
    BY <2>1, <2>2 DEF LeaseInv
<1>10. MakerInv'
  <2>1. p \notin active /\ (sweep # NoSweep => p \notin sweep.all) /\ \A k \in PoolKey : reusable[k] # p
    BY <1>3 DEF PoolInv, PoolTypeOK, NoSweep
  <2>2. \A u \in PoolThread : u # t => leases'[u] = leases[u] /\ (leases[u].at # "out" => leases[u].pool # p)
    BY <1>3, <1>6 DEF Moves, OthersKeep, PoolInv, LeaseInv, LeaseOK
  <2> QED
    BY <1>2, <1>6, <2>1, <2>2 DEF MakerInv, Moves, At, PoolInv
<1>11. LivingInv'
  <2>1. \A k \in PoolKey : reusable'[k] # 0 => pools'[reusable'[k]].key = k
    BY <1>2, <1>4 DEF PoolInv, PoolTypeOK, LivingInv
  <2>2. ASSUME NEW q \in Alive', pools'[q].key # NoKey
        PROVE  \/ reusable'[pools'[q].key] = q
               \/ \E u \in PoolThread : leases'[u].at = "register" /\ leases'[u].pool = q
    <3>1. CASE q = p
      BY <1>6, <3>1 DEF Moves
    <3>2. CASE q # p
      <4>1. q \in Alive /\ pools'[q] = pools[q]
        BY <1>4, <1>5, <3>2 DEF Alive
      <4>2. \A u \in PoolThread : leases[u].at = "register" => leases'[u] = leases[u]
        BY <1>2, <1>6 DEF Moves, OthersKeep
      <4>3. \/ reusable[pools[q].key] = q
            \/ \E u \in PoolThread : leases[u].at = "register" /\ leases[u].pool = q
        BY <2>2, <4>1 DEF PoolInv, LivingInv, At
      <4> QED
        BY <1>2, <4>1, <4>2, <4>3
    <3> QED
      BY <3>1, <3>2
  <2> QED
    BY <2>1, <2>2 DEF LivingInv, At
<1>12. SweepInv'
  BY <1>2, <1>3, <1>5 DEF PoolInv, PoolTypeOK, SweepInv, NoSweep
<1>13. LivingAreRegistered'
  <2> SUFFICES ASSUME NEW q \in Alive'
               PROVE  q \in active \/ \E u \in PoolThread : leases'[u].at = "register" /\ leases'[u].pool = q
    BY <1>2 DEF LivingAreRegistered, At
  <2>1. CASE q = p
    BY <1>6, <2>1 DEF Moves
  <2>2. CASE q # p
    <3>1. \A u \in PoolThread : leases[u].at = "register" => leases'[u] = leases[u]
      BY <1>2, <1>6 DEF Moves, OthersKeep
    <3> QED
      BY <1>5, <2>2, <3>1 DEF PoolInv, LivingAreRegistered, At
  <2> QED
    BY <2>1, <2>2
<1>14. DeadLeave'
  <2> SUFFICES ASSUME NEW k \in PoolKey, reusable[k] # 0, reusable[k] \notin Alive'
               PROVE  \/ sweep # NoSweep /\ reusable[k] \in sweep.all
                      \/ use[k] # Nobody /\ leases'[use[k]].at \in {"replace", "drop"}
    BY <1>2 DEF DeadLeave
  <2>1. use[k] # Nobody => use[k] \in PoolThread
    BY DEF PoolInv, PoolTypeOK
  <2> QED
    BY <1>2, <1>5, <1>6, <2>1 DEF PoolInv, DeadLeave, Moves, OthersKeep
<1> QED
  BY <1>7, <1>8, <1>9, <1>10, <1>11, <1>12, <1>13, <1>14 DEF PoolInv

(* The pool of a key is the only living one: the thread has its use lock. *)
LEMMA RegisterKeeps ==
  ASSUME PoolInv, NEW t \in PoolThread, Register(t)
  PROVE  PoolInv'
<1> DEFINE p == leases[t].pool
           k == leases[t].key
<1>1. /\ leases[t].at = "register" /\ leases[t] \in LeaseOf
      /\ UNCHANGED <<scope, use, pools, sweep>> /\ active' = active \cup {p}
      /\ reusable' = IF k = NoKey THEN reusable ELSE [reusable EXCEPT ![k] = p]
  BY InALease DEF Register, At, PoolInv
<1>2. Moves(t, "submit", p)
  <2>1. "submit" \in LeasePoint /\ leases[t].at # "out"
    BY <1>1 DEF LeasePoint
  <2> QED
    BY <2>1, Moved DEF Register, PoolInv
<1>3. Made' = Made /\ Alive' = Alive /\ pools' = pools
  BY <1>1, PoolsUnchanged
<1>4. /\ p \in Made /\ p # 0 /\ p \in Alive /\ pools[p].key = k /\ pools[p].scope = leases[t].scope
      /\ (k # NoKey => k \in PoolKey /\ reusable[k] = 0 /\ use[k] = t)
  BY <1>1 DEF PoolInv, PoolTypeOK, LeaseInv, LeaseOK, UseInv, At, LeaseOf
<1>5. /\ reusable' \in [PoolKey -> Made \cup {0}]
      /\ \A i \in PoolKey : reusable'[i] = IF i = k THEN p ELSE reusable[i]
  BY <1>1, <1>4, PoolAssumption DEF PoolInv, PoolTypeOK
<1>6. /\ \A u \in PoolThread : u # t => leases'[u] = leases[u]
      /\ \A u \in PoolThread : leases'[u].at = "register" => u # t /\ leases[u].at = "register"
  BY <1>2 DEF Moves, OthersKeep
<1>7. PoolTypeOK'
  BY <1>1, <1>2, <1>3, <1>4, <1>5 DEF PoolInv, PoolTypeOK, Moves
<1>8. UseInv'
  BY <1>1, <1>2, UseKept
<1>9. LeaseInv'
  <2>1. LeaseOK(t)'
    BY <1>1, <1>2, <1>3, <1>4, <1>5, PoolAssumption DEF LeaseOK, Moves
  <2>2. ASSUME NEW u \in PoolThread, u # t
        PROVE  LeaseOK(u)'
    <3>1. LeaseOK(u) /\ leases'[u] = leases[u]
      BY <1>6, <2>2 DEF PoolInv, LeaseInv
    <3>2. leases[u].at # "out" /\ leases[u].key # NoKey => leases[u].key \in PoolKey /\ leases[u].key # k
      BY <1>4, <2>2, InALease, PoolAssumption DEF PoolInv, UseInv, At, LeaseOf
    <3> QED
      BY <1>3, <1>5, <3>1, <3>2 DEF LeaseOK
  <2> QED
    BY <2>1, <2>2 DEF LeaseInv
<1>10. MakerInv'
  <2> SUFFICES ASSUME NEW v \in PoolThread, leases'[v].at = "register"
               PROVE  /\ leases'[v].pool \notin active'
                      /\ sweep' # NoSweep => leases'[v].pool \notin sweep'.all
                      /\ \A i \in PoolKey : reusable'[i] # leases'[v].pool
                      /\ \A u \in PoolThread : u # v /\ leases'[u].at # "out"
                                               => leases'[u].pool # leases'[v].pool
    BY DEF MakerInv, At
  <2>1. v # t /\ leases[v].at = "register" /\ leases'[v] = leases[v] /\ leases[v].pool # p
    BY <1>1, <1>6 DEF PoolInv, MakerInv, At
  <2>2. leases'[t].pool = p
    BY <1>2 DEF Moves
  <2> QED
    BY <1>1, <1>5, <1>6, <2>1, <2>2 DEF PoolInv, MakerInv, At
<1>11. LivingInv'
  <2>1. \A i \in PoolKey : reusable'[i] # 0 => pools'[reusable'[i]].key = i
    BY <1>3, <1>4, <1>5 DEF PoolInv, LivingInv
  <2>2. ASSUME NEW q \in Alive, pools[q].key # NoKey
        PROVE  \/ reusable'[pools[q].key] = q
               \/ \E u \in PoolThread : leases'[u].at = "register" /\ leases'[u].pool = q
    <3>1. CASE q = p
      BY <1>4, <1>5, <2>2, <3>1
    <3>2. CASE q # p /\ reusable[pools[q].key] = q
      <4>1. pools[q].key \in PoolKey /\ q # 0
        BY <2>2 DEF PoolInv, PoolTypeOK, Alive
      <4>2. pools[q].key # k
        BY <1>4, <2>2, <3>2, <4>1
      <4> QED
        BY <1>5, <3>2, <4>1, <4>2
    <3>3. CASE q # p /\ \E u \in PoolThread : leases[u].at = "register" /\ leases[u].pool = q
      BY <1>6, <3>3
    <3> QED
      BY <2>2, <3>1, <3>2, <3>3 DEF PoolInv, LivingInv, At
  <2> QED
    BY <1>3, <2>1, <2>2 DEF LivingInv, At
<1>12. SweepInv'
  BY <1>1, <1>3 DEF PoolInv, SweepInv
<1>13. LivingAreRegistered'
  BY <1>1, <1>3, <1>6 DEF PoolInv, LivingAreRegistered, At
<1>14. DeadLeave'
  <2> SUFFICES ASSUME NEW i \in PoolKey, reusable'[i] # 0, reusable'[i] \notin Alive
               PROVE  \/ sweep # NoSweep /\ reusable'[i] \in sweep.all
                      \/ use[i] # Nobody /\ leases'[use[i]].at \in {"replace", "drop"}
    BY <1>1, <1>3 DEF DeadLeave
  <2>1. i # k /\ reusable'[i] = reusable[i]
    BY <1>4, <1>5
  <2>2. use[i] # Nobody => use[i] \in PoolThread
    BY DEF PoolInv, PoolTypeOK
  <2> QED
    BY <1>1, <1>6, <2>1, <2>2 DEF PoolInv, DeadLeave
<1> QED
  BY <1>7, <1>8, <1>9, <1>10, <1>11, <1>12, <1>13, <1>14 DEF PoolInv

(* A sweep terminates what was registered, and forgets it when it is done. *)
LEMMA SweepsKeep ==
  ASSUME PoolInv, SweepBegins \/ SweepTerminates \/ SweepEnds
  PROVE  PoolInv'
<1>0. UNCHANGED <<scope, leases, use>>
  BY DEF SweepBegins, SweepTerminates, SweepEnds
<1>1. CASE SweepBegins
  <2>1. sweep' # NoSweep /\ sweep'.todo = active /\ sweep'.all = active
        /\ sweep = NoSweep /\ UNCHANGED <<pools, reusable, active>>
    BY <1>1 DEF SweepBegins, NoSweep
  <2>2. Made' = Made /\ Alive' = Alive
    BY <2>1, PoolsUnchanged
  <2>3. PoolTypeOK'
    <3>1. sweep' \in [todo : SUBSET Made, all : SUBSET Made]
      BY <1>1 DEF SweepBegins, PoolInv, PoolTypeOK
    <3> QED
      BY <1>0, <2>1, <2>2, <3>1 DEF PoolInv, PoolTypeOK
  <2>4. UseInv' /\ LeaseInv' /\ LivingInv' /\ LivingAreRegistered'
    BY <1>0, <2>1, <2>2 DEF PoolInv, UseInv, LeaseInv, LeaseOK, LivingInv, LivingAreRegistered, At
  <2>5. MakerInv' /\ SweepInv'
    BY <1>0, <2>1, <2>2 DEF PoolInv, MakerInv, SweepInv, At
  <2>6. DeadLeave'
    BY <1>0, <2>1, <2>2 DEF PoolInv, DeadLeave
  <2> QED
    BY <2>3, <2>4, <2>5, <2>6 DEF PoolInv
<1>2. CASE SweepTerminates
  <2>1. PICK p \in sweep.todo : Terminated(p) /\ sweep' = [sweep EXCEPT !.todo = @ \ {p}]
    BY <1>2 DEF SweepTerminates
  <2>2. sweep # NoSweep /\ sweep \in [todo : SUBSET Made, all : SUBSET Made]
        /\ UNCHANGED <<reusable, active>>
    BY <1>2 DEF SweepTerminates, PoolInv, PoolTypeOK
  <2>3. /\ p \in Made /\ sweep' \in [todo : SUBSET Made, all : SUBSET Made]
        /\ sweep'.all = sweep.all /\ sweep'.todo = sweep.todo \ {p}
    BY <2>1, <2>2
  <2>4. PoolsKept({p})
    BY <2>1, <2>3, Terminates
  <2>5. Made' = Made /\ Alive' = Alive \ {p} /\ \A q \in Made : pools'[q].key = pools[q].key
    BY <2>4 DEF PoolsKept
  <2>6. p \in sweep.all /\ sweep' # NoSweep
    BY <2>2, <2>3 DEF PoolInv, SweepInv, NoSweep
  <2>7. PoolTypeOK'
    BY <1>0, <2>2, <2>3, <2>5 DEF PoolInv, PoolTypeOK
  <2>8. UseInv' /\ MakerInv'
    BY <1>0, <2>2, <2>3 DEF PoolInv, UseInv, MakerInv, At
  <2>9. LeaseInv'
    <3>1. \A u \in PoolThread : At(u, "register") => leases[u].pool # p
      BY <2>2, <2>6 DEF PoolInv, MakerInv
    <3> QED
      BY <1>0, <2>2, <2>4, <3>1, LeaseKept DEF LeaseInv
  <2>10. LivingInv'
    <3>1. \A k \in PoolKey : reusable'[k] # 0 => pools'[reusable'[k]].key = k
      BY <2>2, <2>5 DEF PoolInv, PoolTypeOK, LivingInv
    <3>2. \A q \in Alive' : q \in Alive /\ q \in Made /\ pools'[q].key = pools[q].key
      BY <2>5 DEF Alive
    <3> QED
      BY <1>0, <2>2, <3>1, <3>2 DEF PoolInv, LivingInv, At
  <2>11. SweepInv'
    BY <2>2, <2>3, <2>5 DEF PoolInv, SweepInv
  <2>12. LivingAreRegistered'
    BY <1>0, <2>2, <2>5 DEF PoolInv, LivingAreRegistered, At
  <2>13. DeadLeave'
    BY <1>0, <2>2, <2>3, <2>5, <2>6 DEF PoolInv, DeadLeave
  <2> QED
    BY <2>7, <2>8, <2>9, <2>10, <2>11, <2>12, <2>13 DEF PoolInv
<1>3. CASE SweepEnds
  <2>1. /\ sweep # NoSweep /\ sweep' = NoSweep /\ UNCHANGED pools
        /\ active' = active \ sweep.all
        /\ reusable' = [k \in PoolKey |-> IF reusable[k] \in sweep.all THEN 0 ELSE reusable[k]]
    BY <1>3 DEF SweepEnds
  <2>2. \A p \in sweep.all : p \notin Alive
    BY <1>3 DEF SweepEnds, PoolInv, SweepInv
  <2>3. Made' = Made /\ Alive' = Alive /\ PoolsKept({})
    BY <2>1, PoolsUnchanged
  <2>4. /\ reusable' \in [PoolKey -> Made \cup {0}]
        /\ \A k \in PoolKey : \/ reusable'[k] = reusable[k] /\ reusable[k] \notin sweep.all
                              \/ reusable'[k] = 0 /\ reusable[k] \in sweep.all
    BY <2>1 DEF PoolInv, PoolTypeOK
  <2>5. PoolTypeOK' /\ UseInv'
    BY <1>0, <2>1, <2>3, <2>4 DEF PoolInv, PoolTypeOK, UseInv, At
  <2>6. LeaseInv'
    BY <1>0, <2>3, <2>4, LeaseKept DEF LeaseInv
  <2>7. MakerInv'
    <3>1. \A u \in PoolThread : At(u, "register") => leases[u].pool # 0
      BY DEF PoolInv, PoolTypeOK, LeaseInv, LeaseOK, At
    <3> QED
      BY <1>0, <2>1, <2>4, <3>1 DEF PoolInv, MakerInv, At
  <2>8. LivingInv'
    <3>1. \A k \in PoolKey : reusable'[k] # 0 => pools'[reusable'[k]].key = k
      BY <2>1, <2>4 DEF PoolInv, LivingInv
    <3>2. \A q \in Alive : pools[q].key # NoKey /\ reusable[pools[q].key] = q
                          => reusable'[pools[q].key] = q
      BY <2>2, <2>4 DEF PoolInv, PoolTypeOK, Alive
    <3> QED
      BY <1>0, <2>1, <2>3, <3>1, <3>2 DEF PoolInv, LivingInv, At
  <2>9. SweepInv' /\ LivingAreRegistered'
    BY <1>0, <2>1, <2>2, <2>3 DEF PoolInv, SweepInv, LivingAreRegistered, At
  <2>10. DeadLeave'
    BY <1>0, <2>1, <2>3, <2>4 DEF PoolInv, DeadLeave
  <2> QED
    BY <2>5, <2>6, <2>7, <2>8, <2>9, <2>10 DEF PoolInv
<1> QED
  BY <1>1, <1>2, <1>3

LEMMA PoolStep == PoolInv /\ [PoolNext]_poolVars => PoolInv'
<1> SUFFICES ASSUME PoolInv, [PoolNext]_poolVars PROVE PoolInv'
  OBVIOUS
<1>1. CASE UNCHANGED poolVars \/ ChangeScope
  <2>1. UNCHANGED <<leases, use, pools, reusable, active, sweep>> /\ scope' \in Scope
    BY <1>1 DEF poolVars, ChangeScope, PoolInv, PoolTypeOK
  <2>2. Made' = Made /\ Alive' = Alive
    BY <2>1, PoolsUnchanged
  <2>3. PoolTypeOK' /\ UseInv' /\ LeaseInv' /\ MakerInv'
    BY <2>1, <2>2 DEF PoolInv, PoolTypeOK, UseInv, LeaseInv, LeaseOK, MakerInv, At
  <2>4. LivingInv' /\ SweepInv' /\ LivingAreRegistered' /\ DeadLeave'
    BY <2>1, <2>2 DEF PoolInv, LivingInv, SweepInv, LivingAreRegistered, DeadLeave, At
  <2> QED
    BY <2>3, <2>4 DEF PoolInv
<1>2. ASSUME NEW t \in PoolThread,
             \/ \E k \in PoolKey : AskFor(t, k)
             \/ LookUp(t) \/ Rotate(t) \/ Replace(t) \/ Create(t) \/ Register(t)
             \/ Submit(t) \/ LeaseRaises(t) \/ EndLease(t)
             \/ Invalidate(t) \/ DropInvalid(t) \/ Leave(t)
             \/ AskTemporary(t) \/ EndTemporary(t) \/ Unregister(t)
      PROVE  PoolInv'
  BY <1>2, AsksKeep, LookUpKeeps, TerminationsKeep, DropsKeep, CreateKeeps, RegisterKeeps,
     SubmitKeeps, LeaseRaisesKeeps, ReleasesKeep
<1>3. CASE SweepBegins \/ SweepTerminates \/ SweepEnds
  BY <1>3, SweepsKeep
<1> QED
  BY <1>1, <1>2, <1>3 DEF PoolNext

LEMMA PoolInvAlways == PoolSpec => []PoolInv
  BY PoolInit0, PoolStep, PTL DEF PoolSpec

LEMMA OnePool == PoolInv => OnePoolPerKey
<1> SUFFICES ASSUME PoolInv, NEW k \in PoolKey
             PROVE  Cardinality({p \in Alive : pools[p].key = k}) <= 1
  BY DEF OnePoolPerKey
<1> DEFINE S == {p \in Alive : pools[p].key = k}
<1>1. \A p \in S : \/ reusable[k] = p
                   \/ \E t \in PoolThread : At(t, "register") /\ leases[t].pool = p
                                            /\ use[k] = t /\ reusable[k] = 0
  <2> SUFFICES ASSUME NEW p \in S, reusable[k] # p
               PROVE  \E t \in PoolThread : At(t, "register") /\ leases[t].pool = p
                                            /\ use[k] = t /\ reusable[k] = 0
    OBVIOUS
  <2>1. k # NoKey /\ pools[p].key = k /\ p \in Alive
    BY PoolAssumption
  <2>2. PICK t \in PoolThread : At(t, "register") /\ leases[t].pool = p
    BY <2>1 DEF PoolInv, LivingInv
  <2>3. leases[t].key = k
    BY <2>1, <2>2 DEF PoolInv, LeaseInv, LeaseOK, At
  <2> QED
    BY <2>1, <2>2, <2>3 DEF PoolInv, LeaseInv, LeaseOK, UseInv, At
<1>2. \A p, q \in S : p = q
  <2>1. 0 \notin Alive
    BY DEF PoolInv, PoolTypeOK, Alive
  <2> QED
    BY <1>1, <2>1
<1>3. S = {} \/ \E p : S = {p}
  BY <1>2
<1>4. S = {} => Cardinality(S) = 0
  BY FS_EmptySet
<1>5. \A p : S = {p} => Cardinality(S) = 1
  BY FS_Singleton
<1>6. Cardinality(S) = 0 \/ Cardinality(S) = 1
  <2> HIDE DEF S
  <2> QED
    BY <1>3, <1>4, <1>5
<1> QED
  BY <1>6

(* The pools of the process are accounted for, in whatever order leases    *)
(* are taken, raise and end, the registry of the workers changes and       *)
(* shutdowns sweep (analysis/process_pool_lifecycle.py).                   *)
THEOREM PoolsAreAccounted == PoolSpec => []PoolsAccounted
<1>1. PoolInv => PoolsAccounted
  <2>1. PoolInv => WorkersOfScope
    BY DEF PoolInv, LeaseInv, LeaseOK, WorkersOfScope, At
  <2> QED
    BY <2>1, OnePool DEF PoolsAccounted, PoolInv
<1> QED
  BY <1>1, PoolInvAlways, PTL

-----------------------------------------------------------------------------
(* The engine caches.  An engine is behind only while a fence says so.      *)

Solo == {"ping", "alone", "local", "leased", "update"}
Served == {"snapshot", "got"}
Task == {AtRest} \cup [at : Solo, session : Nat]
        \cup [at : Served, session : Nat, journal : Nat, rev : Nat]

CacheTypeOK ==
    /\ history \in Seq(Int)
    /\ live \in [up : BOOLEAN, session : Nat, journal : Nat, rev : Nat]
    /\ cache \in [Mcp -> [rev : Int, session : Nat, journal : Nat]]
    /\ task \in [Mcp -> Task]
    /\ writer \in Mcp \cup {Nobody0} /\ fence \in Mcp \cup {Nobody0}
    /\ troubles \in Nat

(* Under the fence one process updates what is committed, and no service   *)
(* begins; a service that is up serves what is committed.                  *)
FenceInv ==
    /\ \A m \in Mcp : At0(m, "update") => fence = m /\ cache[m].rev = Committed
    /\ fence # Nobody0 => ~ live.up
    /\ live.up => live.rev = Committed /\ live.session > 0

(* An engine kept for the running session lags behind by no more commits   *)
(* than the journal has entries it was not kept for.                       *)
LagInv ==
    \A m \in Mcp :
        /\ cache[m].session <= live.session
        /\ cache[m].session = live.session /\ cache[m].session # NoSession =>
            /\ cache[m].journal <= live.journal
            /\ live.rev - cache[m].rev <= live.journal - cache[m].journal

(* What a process was answered is not ahead of the session it asked. *)
AnswerInv ==
    \A m \in Mcp : task[m] # AtRest =>
        /\ Connected(m) <= live.session
        /\ At0(m, "snapshot") /\ Connected(m) = live.session =>
            /\ task[m].journal <= live.journal
            /\ task[m].rev <= live.rev

CacheInv ==
    CacheTypeOK /\ FenceInv /\ LagInv /\ AnswerInv /\ EnginesFollowService

LEMMA CacheInit0 == CacheInit => CacheInv
<1> SUFFICES ASSUME CacheInit PROVE CacheInv
  OBVIOUS
<1> USE CacheAssumption DEF CacheInit, NoEngine, NoSession, Committed, At0, AtRest
<1>1. CacheTypeOK
  <2>1. \A m \in Mcp : task[m] \in Task
    BY DEF Task
  <2>2. live \in [up : BOOLEAN, session : Nat, journal : Nat, rev : Nat]
    OBVIOUS
  <2> QED
    BY <2>1, <2>2 DEF CacheTypeOK
<1>2. FenceInv /\ LagInv /\ AnswerInv
  BY DEF FenceInv, LagInv, AnswerInv, Connected
<1>3. EnginesFollowService
  BY DEF EnginesFollowService, DerivedFromLast, EngineIsCurrent
<1> QED
  BY <1>1, <1>2, <1>3 DEF CacheInv

LEMMA TaskType ==
  ASSUME CacheTypeOK, NEW m \in Mcp
  PROVE  /\ At0(m, "ping") \/ At0(m, "alone") \/ At0(m, "local") \/ At0(m, "leased") \/ At0(m, "update")
              => task[m] \in [at : Solo, session : Nat]
         /\ At0(m, "snapshot") \/ At0(m, "got")
              => task[m] \in [at : Served, session : Nat, journal : Nat, rev : Nat]
         /\ At0(m, "rest") => task[m] = AtRest
  BY DEF CacheTypeOK, Task, At0, AtRest, Solo, Served

LEMMA FieldTypes ==
  ASSUME CacheTypeOK
  PROVE  /\ live.session \in Nat /\ live.journal \in Nat /\ live.rev \in Nat
         /\ Committed \in Nat
         /\ \A m \in Mcp : /\ cache[m].rev \in Int /\ cache[m].session \in Nat
                            /\ cache[m].journal \in Nat
<1>1. live.session \in Nat /\ live.journal \in Nat /\ live.rev \in Nat
  BY DEF CacheTypeOK
<1>2. Committed \in Nat
  BY DEF CacheTypeOK, Committed
<1>3. ASSUME NEW m \in Mcp
      PROVE  cache[m].rev \in Int /\ cache[m].session \in Nat /\ cache[m].journal \in Nat
  <2>1. cache[m] \in [rev : Int, session : Nat, journal : Nat]
    BY DEF CacheTypeOK
  <2> QED
    BY <2>1
<1> QED
  BY <1>1, <1>2, <1>3

LEMMA CacheTypeStep == CacheInv /\ [CacheNext]_cacheVars => CacheTypeOK'
<1> SUFFICES ASSUME CacheInv, [CacheNext]_cacheVars
             PROVE  CacheTypeOK'
  OBVIOUS
<1>0. CacheTypeOK /\ FenceInv /\ Committed \in Nat
  BY DEF CacheInv, CacheTypeOK, Committed
<1> USE <1>0, CacheAssumption
<1>1. CASE UNCHANGED cacheVars
  BY <1>1 DEF cacheVars, CacheTypeOK
<1>2. CASE ServiceBegins \/ ServiceStops \/ ServiceCommits
  <2>1. live' \in [up : BOOLEAN, session : Nat, journal : Nat, rev : Nat]
    <3>1. CASE ServiceBegins
      BY <3>1, FieldTypes DEF ServiceBegins
    <3>2. CASE ServiceStops
      BY <3>2 DEF ServiceStops, CacheTypeOK
    <3>3. CASE ServiceCommits
      <4>1. Committed + 1 \in Nat /\ live.journal + 1 \in Nat
        BY FieldTypes
      <4> QED
        BY <3>3, <4>1 DEF ServiceCommits, CacheTypeOK
    <3> QED
      BY <1>2, <3>1, <3>2, <3>3
  <2>2. history' \in Seq(Int)
    <3>1. history \in Seq(Int) /\ live.rev \in Int
      BY FieldTypes DEF CacheTypeOK
    <3>2. history' = history \/ history' = Append(history, live.rev)
      BY <1>2 DEF ServiceBegins, ServiceStops, ServiceCommits
    <3> QED
      BY <3>1, <3>2, AppendProperties
  <2> QED
    BY <1>2, <2>1, <2>2 DEF ServiceBegins, ServiceStops, ServiceCommits, CacheTypeOK
<1>3. ASSUME NEW m \in Mcp, Connect(m)
      PROVE  CacheTypeOK'
  BY <1>3 DEF Connect, CacheTypeOK, Task, Solo
<1>4. ASSUME NEW m \in Mcp, Ping(m)
      PROVE  CacheTypeOK'
  <2>1. [at |-> IF NeedsRefresh(m) THEN "snapshot" ELSE "got",
         session |-> task[m].session, journal |-> live.journal, rev |-> live.rev] \in Task
    BY <1>4, TaskType DEF Ping, Task, Served, CacheTypeOK
  <2> QED
    BY <1>4, <2>1 DEF Ping, CacheTypeOK
<1>5. ASSUME NEW m \in Mcp, TakeSnapshot(m)
      PROVE  CacheTypeOK'
  <2>1. task[m] \in [at : Served, session : Nat, journal : Nat, rev : Nat]
    BY <1>5, TaskType DEF TakeSnapshot
  <2>2. [task[m] EXCEPT !.at = "got"] \in Task
    BY <2>1 DEF Task, Served
  <2>3. [rev |-> live.rev, session |-> live.session, journal |-> task[m].journal]
           \in [rev : Int, session : Nat, journal : Nat]
    BY <2>1 DEF CacheTypeOK
  <2> QED
    BY <1>5, <2>2, <2>3 DEF TakeSnapshot, CacheTypeOK
<1>6. ASSUME NEW m \in Mcp, LosesService(m) \/ Answered(m)
      PROVE  CacheTypeOK'
  BY <1>6 DEF LosesService, Answered, CacheTypeOK, Task
<1>7. ASSUME NEW m \in Mcp, UseSnapshot(m)
      PROVE  CacheTypeOK'
  <2>1. task[m] \in [at : Solo, session : Nat]
    BY <1>7, TaskType DEF UseSnapshot
  <2>2. [task[m] EXCEPT !.at = "local"] \in Task
    BY <2>1 DEF Task, Solo
  <2>3. [NoEngine EXCEPT !.rev = Committed] \in [rev : Int, session : Nat, journal : Nat]
    BY DEF NoEngine, NoSession
  <2>4. [cache[m] EXCEPT !.session = NoSession, !.journal = 0] \in [rev : Int, session : Nat, journal : Nat]
    BY DEF CacheTypeOK, NoSession
  <2> QED
    BY <1>7, <2>2, <2>3, <2>4 DEF UseSnapshot, CacheTypeOK
<1>8. ASSUME NEW m \in Mcp, TakeWriterLease(m)
      PROVE  CacheTypeOK'
  <2>1. task[m] \in [at : Solo, session : Nat]
    BY <1>8, TaskType DEF TakeWriterLease
  <2>2. [task[m] EXCEPT !.at = "leased"] \in Task
    BY <2>1 DEF Task, Solo
  <2> QED
    BY <1>8, <2>2 DEF TakeWriterLease, CacheTypeOK
<1>9. ASSUME NEW m \in Mcp, EnterFence(m)
      PROVE  CacheTypeOK'
  <2>1. task[m] \in [at : Solo, session : Nat]
    BY <1>9, TaskType DEF EnterFence
  <2>2. [task[m] EXCEPT !.at = "update"] \in Task /\ AtRest \in Task
    BY <2>1 DEF Task, Solo
  <2> QED
    BY <1>9, <2>2 DEF EnterFence, CacheTypeOK
<1>10. ASSUME NEW m \in Mcp, CommitCandidate(m)
       PROVE  CacheTypeOK'
  <2>1. cache' \in [Mcp -> [rev : Int, session : Nat, journal : Nat]]
    <3>1. [cache[m] EXCEPT !.rev = Committed + 1] \in [rev : Int, session : Nat, journal : Nat]
      <4>1. cache[m] \in [rev : Int, session : Nat, journal : Nat] /\ Committed + 1 \in Int
        BY FieldTypes DEF CacheTypeOK
      <4> QED
        BY <4>1
    <3> QED
      BY <1>10, <3>1 DEF CommitCandidate, CacheTypeOK
  <2>2. history' \in Seq(Int)
    BY <1>10, FieldTypes DEF CommitCandidate, CacheTypeOK
  <2>3. task' \in [Mcp -> Task]
    BY <1>10 DEF CommitCandidate, LeaveFence, CacheTypeOK, Task
  <2> QED
    BY <1>10, <2>1, <2>2, <2>3 DEF CommitCandidate, LeaveFence, CacheTypeOK
<1>11. ASSUME NEW m \in Mcp, CandidateRaises(m)
       PROVE  CacheTypeOK'
  <2>1. cache' \in [Mcp -> [rev : Int, session : Nat, journal : Nat]]
    <3>1. NoEngine \in [rev : Int, session : Nat, journal : Nat]
      BY DEF NoEngine, NoSession
    <3> QED
      BY <1>11, <3>1 DEF CandidateRaises, CacheTypeOK
  <2>2. history' \in Seq(Int)
    <3>1. history \in Seq(Int) /\ cache[m].rev \in Int
      BY FieldTypes DEF CacheTypeOK
    <3>2. history' = history \/ history' = Append(history, cache[m].rev)
      BY <1>11 DEF CandidateRaises
    <3> QED
      BY <3>1, <3>2, AppendProperties
  <2>3. task' \in [Mcp -> Task]
    BY <1>11 DEF CandidateRaises, LeaveFence, CacheTypeOK, Task
  <2>4. live' = live /\ writer' = Nobody0 /\ fence' = Nobody0 /\ troubles' \in Nat
    BY <1>11 DEF CandidateRaises, LeaveFence, Trouble, CacheTypeOK
  <2> QED
    BY <2>1, <2>2, <2>3, <2>4 DEF CacheTypeOK
<1> QED
  BY <1>1, <1>2, <1>3, <1>4, <1>5, <1>6, <1>7, <1>8, <1>9, <1>10, <1>11 DEF CacheNext

(* One process has the fence; a service begins and commits without one. *)
LEMMA FenceStep == CacheInv /\ [CacheNext]_cacheVars => FenceInv'
<1> SUFFICES ASSUME CacheInv, [CacheNext]_cacheVars
             PROVE  FenceInv'
  OBVIOUS
<1>0. CacheTypeOK /\ FenceInv
  BY DEF CacheInv
<1> USE <1>0, CacheAssumption, FieldTypes
<1>1. CASE UNCHANGED cacheVars
  BY <1>1 DEF cacheVars, FenceInv, At0, Committed
<1>2. CASE ServiceBegins \/ ServiceStops
  BY <1>2 DEF ServiceBegins, ServiceStops, FenceInv, At0, Committed, CacheTypeOK
<1>3. CASE ServiceCommits
  <2>1. fence = Nobody0 /\ \A m \in Mcp : ~ At0(m, "update")
    BY <1>3 DEF ServiceCommits, FenceInv
  <2>2. Committed' = Committed + 1 /\ live'.rev = Committed + 1 /\ live'.session = live.session
    BY <1>3 DEF ServiceCommits, Committed, CacheTypeOK
  <2> QED
    BY <1>3, <2>1, <2>2 DEF ServiceCommits, FenceInv, At0
<1>4. ASSUME NEW m \in Mcp, Connect(m) \/ Ping(m) \/ TakeSnapshot(m) \/ LosesService(m)
                            \/ UseSnapshot(m) \/ Answered(m) \/ TakeWriterLease(m)
      PROVE  FenceInv'
  <2>1. UNCHANGED <<history, live, fence>> /\ ~ At0(m, "update")
    BY <1>4 DEF Connect, Ping, TakeSnapshot, LosesService, UseSnapshot, Answered, TakeWriterLease, At0
  <2>2. \A n \in Mcp : n # m => task'[n] = task[n] /\ cache'[n] = cache[n]
    BY <1>4 DEF CacheTypeOK, Connect, Ping, TakeSnapshot, LosesService, UseSnapshot, Answered,
                TakeWriterLease
  <2>3. ~ At0(m, "update")'
    <3>2. CASE Connect(m) \/ Ping(m) \/ LosesService(m) \/ Answered(m)
      BY <3>2 DEF CacheTypeOK, Connect, Ping, LosesService, Answered, At0, AtRest
    <3>3. CASE TakeSnapshot(m) \/ UseSnapshot(m) \/ TakeWriterLease(m)
      <4>1. \E p \in {"got", "local", "leased"} : task' = [task EXCEPT ![m].at = p]
        BY <3>3 DEF TakeSnapshot, UseSnapshot, TakeWriterLease
      <4>2. \/ task[m] \in [at : Solo, session : Nat]
            \/ task[m] \in [at : Served, session : Nat, journal : Nat, rev : Nat]
        BY <3>3, TaskType DEF TakeSnapshot, UseSnapshot, TakeWriterLease
      <4> QED
        BY <4>1, <4>2 DEF At0, CacheTypeOK
    <3> QED
      BY <1>4, <3>2, <3>3
  <2> QED
    BY <2>1, <2>2, <2>3 DEF FenceInv, At0, Committed
<1>5. ASSUME NEW m \in Mcp, EnterFence(m)
      PROVE  FenceInv'
  <2>1. UNCHANGED <<history, live, cache>> /\ fence = Nobody0 /\ \A n \in Mcp : ~ At0(n, "update")
    BY <1>5 DEF EnterFence, FenceInv
  <2>2. \A n \in Mcp : n # m => task'[n] = task[n]
    BY <1>5 DEF CacheTypeOK, EnterFence
  <2>3. CASE ~ live.up /\ AtBaseline(m)
    BY <1>5, <2>1, <2>2, <2>3 DEF EnterFence, FenceInv, At0, AtBaseline, Committed
  <2>4. CASE ~ (~ live.up /\ AtBaseline(m))
    <3>1. task'[m] = AtRest /\ fence' = fence
      BY <1>5, <2>4 DEF EnterFence, CacheTypeOK
    <3> QED
      BY <2>1, <2>2, <3>1 DEF FenceInv, At0, AtRest, Committed
  <2> QED
    BY <2>3, <2>4
<1>6. ASSUME NEW m \in Mcp, CommitCandidate(m) \/ CandidateRaises(m)
      PROVE  FenceInv'
  <2>1. fence = m /\ fence' = Nobody0 /\ UNCHANGED live /\ task' = [task EXCEPT ![m] = AtRest]
    BY <1>6 DEF CommitCandidate, CandidateRaises, LeaveFence, FenceInv
  <2>2. \A n \in Mcp : ~ At0(n, "update")'
    BY <2>1 DEF FenceInv, At0, AtRest, CacheTypeOK
  <2>3. ~ live.up
    BY <2>1 DEF FenceInv
  <2> QED
    BY <2>1, <2>2, <2>3 DEF FenceInv
<1> QED
  BY <1>1, <1>2, <1>3, <1>4, <1>5, <1>6 DEF CacheNext

LEMMA LagStep == CacheInv /\ [CacheNext]_cacheVars => LagInv'
<1> SUFFICES ASSUME CacheInv, [CacheNext]_cacheVars
             PROVE  LagInv'
  OBVIOUS
<1>0. CacheTypeOK /\ CacheTypeOK' /\ FenceInv /\ LagInv /\ AnswerInv
  BY CacheTypeStep DEF CacheInv
<1> USE <1>0, FieldTypes
<1>1. CASE UNCHANGED cacheVars
  BY <1>1 DEF cacheVars, LagInv
<1>2. CASE ServiceBegins \/ ServiceStops
  <2>1. /\ cache' = cache
        /\ \/ /\ live'.session = live.session /\ live'.journal = live.journal
              /\ live'.rev = live.rev
           \/ live'.session = live.session + 1
    BY <1>2 DEF ServiceBegins, ServiceStops, CacheTypeOK
  <2> QED
    BY <2>1 DEF LagInv
<1>3. CASE ServiceCommits
  <2>1. live.rev = Committed /\ live'.rev = Committed + 1 /\ live'.session = live.session
        /\ live'.journal = live.journal + 1 /\ cache' = cache
    BY <1>3 DEF ServiceCommits, FenceInv, CacheTypeOK
  <2> QED
    BY <2>1 DEF LagInv
<1>4. ASSUME NEW m \in Mcp, TakeSnapshot(m)
      PROVE  LagInv'
  <2>1. cache' = [cache EXCEPT ![m] = [rev |-> live.rev, session |-> live.session,
                                      journal |-> task[m].journal]] /\ live' = live
    BY <1>4 DEF TakeSnapshot
  <2>2. task[m].journal \in Nat
    BY <1>4, TaskType DEF TakeSnapshot
  <2>3. task[m].journal <= live.journal
    BY <1>4 DEF TakeSnapshot, AnswerInv, Reaches, At0, AtRest
  <2>4. /\ cache'[m].rev = live.rev /\ cache'[m].session = live.session
        /\ cache'[m].journal = task[m].journal /\ \A n \in Mcp : n # m => cache'[n] = cache[n]
    BY <2>1 DEF CacheTypeOK
  <2> QED
    BY <2>1, <2>2, <2>3, <2>4 DEF LagInv
<1>5. ASSUME NEW m \in Mcp, UseSnapshot(m)
      PROVE  LagInv'
  <2>1. live' = live /\ \A n \in Mcp : n # m => cache'[n] = cache[n]
    BY <1>5 DEF UseSnapshot, CacheTypeOK
  <2>2. cache'[m].session = NoSession
    <3>1. cache[m] \in [rev : Int, session : Nat, journal : Nat]
      BY DEF CacheTypeOK
    <3> QED
      BY <1>5, <3>1 DEF UseSnapshot, CacheTypeOK, NoEngine
  <2> QED
    BY <2>1, <2>2 DEF LagInv, NoSession
<1>6. ASSUME NEW m \in Mcp, CommitCandidate(m) \/ CandidateRaises(m)
      PROVE  LagInv'
  <2>1. live' = live /\ \A n \in Mcp : n # m => cache'[n] = cache[n]
    BY <1>6 DEF CommitCandidate, CandidateRaises, CacheTypeOK
  <2>2. \/ cache'[m] = cache[m] \/ cache'[m] = NoEngine
        \/ /\ cache'[m].session = cache[m].session /\ cache'[m].journal = cache[m].journal
           /\ cache'[m].rev = cache[m].rev + 1
    <3>1. cache[m] \in [rev : Int, session : Nat, journal : Nat] /\ cache[m].rev = Committed
      BY <1>6 DEF CacheTypeOK, FenceInv, CommitCandidate, CandidateRaises
    <3>2. \/ cache' = cache \/ cache' = [cache EXCEPT ![m] = NoEngine]
          \/ cache' = [cache EXCEPT ![m].rev = cache[m].rev + 1]
      BY <1>6, <3>1 DEF CommitCandidate, CandidateRaises
    <3>3. CASE cache' = cache \/ cache' = [cache EXCEPT ![m] = NoEngine]
      BY <3>3 DEF CacheTypeOK
    <3>4. CASE cache' = [cache EXCEPT ![m].rev = cache[m].rev + 1]
      <4>1. cache'[m] = [cache[m] EXCEPT !.rev = cache[m].rev + 1]
        BY <3>4 DEF CacheTypeOK
      <4> QED
        BY <3>1, <4>1
    <3> QED
      BY <3>2, <3>3, <3>4
  <2> QED
    BY <2>1, <2>2 DEF LagInv, NoEngine, NoSession
<1>7. ASSUME NEW m \in Mcp, Connect(m) \/ Ping(m) \/ LosesService(m) \/ Answered(m)
                            \/ TakeWriterLease(m) \/ EnterFence(m)
      PROVE  LagInv'
  BY <1>7 DEF Connect, Ping, LosesService, Answered, TakeWriterLease, EnterFence, LagInv
<1> QED
  BY <1>1, <1>2, <1>3, <1>4, <1>5, <1>6, <1>7 DEF CacheNext

LEMMA AnswerStep == CacheInv /\ [CacheNext]_cacheVars => AnswerInv'
<1> SUFFICES ASSUME CacheInv, [CacheNext]_cacheVars
             PROVE  AnswerInv'
  OBVIOUS
<1>0. CacheTypeOK /\ CacheTypeOK' /\ FenceInv /\ AnswerInv
  BY CacheTypeStep DEF CacheInv
<1> USE <1>0, FieldTypes
<1>T. \A m \in Mcp : task[m] # AtRest => task[m].session \in Nat
  BY DEF CacheTypeOK, Task
<1>S. \A m \in Mcp : At0(m, "snapshot") => task[m].journal \in Nat /\ task[m].rev \in Nat
  BY TaskType
<1>1. CASE UNCHANGED cacheVars
  BY <1>1 DEF cacheVars, AnswerInv, At0, Connected
<1>2. CASE ServiceBegins \/ ServiceStops
  <2>1. /\ task' = task
        /\ \/ /\ live'.session = live.session /\ live'.journal = live.journal
              /\ live'.rev = live.rev
           \/ live'.session = live.session + 1
    BY <1>2 DEF ServiceBegins, ServiceStops, CacheTypeOK
  <2> QED
    BY <1>T, <2>1 DEF AnswerInv, Connected, At0
<1>3. CASE ServiceCommits
  <2>1. live.rev = Committed /\ live'.rev = Committed + 1 /\ live'.session = live.session
        /\ live'.journal = live.journal + 1 /\ task' = task
    BY <1>3 DEF ServiceCommits, FenceInv, CacheTypeOK
  <2> QED
    BY <1>T, <1>S, <2>1 DEF AnswerInv, Connected, At0
<1>4. ASSUME NEW m \in Mcp, Connect(m) \/ Ping(m)
      PROVE  AnswerInv'
  <2>1. live' = live /\ \A n \in Mcp : n # m => task'[n] = task[n]
    BY <1>4 DEF Connect, Ping, CacheTypeOK
  <2>2. \/ task'[m] = [at |-> IF live.up THEN "ping" ELSE "alone", session |-> live.session]
        \/ /\ task'[m].session = live.session
           /\ task'[m].journal = live.journal /\ task'[m].rev = live.rev
    BY <1>4 DEF Connect, Ping, CacheTypeOK, Reaches, Connected
  <2> QED
    BY <2>1, <2>2 DEF AnswerInv, Connected, At0
<1>5. ASSUME NEW m \in Mcp, TakeSnapshot(m) \/ LosesService(m) \/ UseSnapshot(m) \/ Answered(m)
                            \/ TakeWriterLease(m) \/ EnterFence(m) \/ CommitCandidate(m)
                            \/ CandidateRaises(m)
      PROVE  AnswerInv'
  <2>1. live' = live /\ \A n \in Mcp : n # m => task'[n] = task[n]
    BY <1>5 DEF TakeSnapshot, LosesService, UseSnapshot, Answered, TakeWriterLease, EnterFence,
                CommitCandidate, CandidateRaises, LeaveFence, CacheTypeOK
  <2>2. \/ task'[m] = AtRest
        \/ /\ task[m] # AtRest /\ task'[m].session = task[m].session /\ ~ At0(m, "snapshot")'
    <3>1. \/ task'[m] = AtRest
          \/ /\ \/ At0(m, "snapshot") \/ At0(m, "alone") \/ At0(m, "local") \/ At0(m, "leased")
             /\ \E p \in {"got", "local", "leased", "update"} : task'[m] = [task[m] EXCEPT !.at = p]
      BY <1>5 DEF TakeSnapshot, LosesService, UseSnapshot, Answered, TakeWriterLease, EnterFence,
                  CommitCandidate, CandidateRaises, LeaveFence, CacheTypeOK
    <3> QED
      BY <3>1, TaskType DEF At0, AtRest
  <2> QED
    BY <2>1, <2>2 DEF AnswerInv, Connected, At0
<1> QED
  BY <1>1, <1>2, <1>3, <1>4, <1>5 DEF CacheNext

(* The engine a call uses is kept up by the ping, or taken after it. *)
LEMMA EnginesStep == CacheInv /\ [CacheNext]_cacheVars => EnginesFollowService'
<1> SUFFICES ASSUME CacheInv, [CacheNext]_cacheVars
             PROVE  DerivedFromLast' /\ EngineIsCurrent'
  BY DEF EnginesFollowService
<1>0. CacheTypeOK /\ FenceInv /\ LagInv /\ AnswerInv /\ DerivedFromLast /\ EngineIsCurrent
  BY DEF CacheInv, EnginesFollowService
<1> USE <1>0, FieldTypes
<1>1. DerivedFromLast'
  <2>1. ASSUME history' = Append(history, Committed)
        PROVE  DerivedFromLast'
    <3>1. /\ Len(history) \in Nat /\ DOMAIN history = 1 .. Len(history)
          /\ DOMAIN history' = 1 .. Len(history) + 1 /\ history'[Len(history) + 1] = Committed
          /\ \A r \in 1 .. Len(history) : history'[r] = history[r]
      BY <2>1, AppendProperties DEF CacheTypeOK
    <3> QED
      BY <3>1 DEF DerivedFromLast, Committed
  <2>2. history' = history \/ history' = Append(history, Committed)
    <3>1. CASE ServiceCommits
      BY <3>1 DEF ServiceCommits, FenceInv
    <3>2. ASSUME NEW m \in Mcp, CommitCandidate(m) \/ CandidateRaises(m)
          PROVE  history' = history \/ history' = Append(history, Committed)
      BY <3>2 DEF CommitCandidate, CandidateRaises, FenceInv
    <3> QED
      BY <3>1, <3>2
      DEF CacheNext, cacheVars, ServiceBegins, ServiceStops, Connect, Ping, TakeSnapshot,
          LosesService, UseSnapshot, Answered, TakeWriterLease, EnterFence
  <2> QED
    BY <2>1, <2>2 DEF DerivedFromLast
<1>2. EngineIsCurrent'
  <2>1. ASSUME NEW m \in Mcp, task'[m] = task[m], cache'[m] = cache[m]
        PROVE  At0(m, "got")' => cache'[m].rev >= task'[m].rev
    BY <2>1 DEF EngineIsCurrent, At0
  <2>2. ASSUME NEW m \in Mcp, Ping(m), At0(m, "got")'
        PROVE  cache'[m].rev >= task'[m].rev
    <3>1. task' = [task EXCEPT ![m] =
                     [at |-> IF NeedsRefresh(m) THEN "snapshot" ELSE "got",
                      session |-> task[m].session, journal |-> live.journal, rev |-> live.rev]]
      BY <2>2 DEF Ping
    <3>2. task'[m].rev = live.rev /\ ~ NeedsRefresh(m)
      BY <2>2, <3>1 DEF At0, CacheTypeOK
    <3>3. live.up /\ cache'[m] = cache[m]
      BY <2>2 DEF Ping, Reaches
    <3>4. cache[m].session = live.session /\ cache[m].journal = live.journal /\ live.session > 0
      BY <3>2, <3>3 DEF NeedsRefresh, FenceInv
    <3> QED
      BY <3>2, <3>3, <3>4 DEF LagInv, NoSession
  <2>3. ASSUME NEW m \in Mcp, TakeSnapshot(m)
        PROVE  cache'[m].rev >= task'[m].rev
    <3>1. task[m] \in [at : Served, session : Nat, journal : Nat, rev : Nat]
      BY <2>3, TaskType DEF TakeSnapshot
    <3>2. task'[m].rev = task[m].rev /\ cache'[m].rev = live.rev
      BY <2>3, <3>1 DEF TakeSnapshot, CacheTypeOK
    <3>3. task[m].rev <= live.rev
      BY <2>3 DEF TakeSnapshot, AnswerInv, Reaches, At0, AtRest
    <3> QED
      BY <3>1, <3>2, <3>3
  <2>4. ASSUME NEW m \in Mcp,
               \/ Connect(m) \/ LosesService(m) \/ UseSnapshot(m) \/ Answered(m)
               \/ TakeWriterLease(m) \/ EnterFence(m) \/ CommitCandidate(m) \/ CandidateRaises(m)
        PROVE  ~ At0(m, "got")'
    <3>1. \/ task'[m] = AtRest
          \/ task'[m].at \in {"ping", "alone"}
          \/ /\ At0(m, "alone") \/ At0(m, "local") \/ At0(m, "leased")
             /\ \E p \in {"local", "leased", "update"} : task'[m] = [task[m] EXCEPT !.at = p]
      <4>1. CASE Connect(m) \/ LosesService(m) \/ Answered(m)
        BY <4>1 DEF Connect, LosesService, Answered, CacheTypeOK
      <4>2. CASE UseSnapshot(m) \/ TakeWriterLease(m)
        BY <4>2 DEF UseSnapshot, TakeWriterLease, CacheTypeOK
      <4>3. CASE EnterFence(m)
        BY <4>3 DEF EnterFence, CacheTypeOK
      <4>4. CASE CommitCandidate(m) \/ CandidateRaises(m)
        BY <4>4 DEF CommitCandidate, CandidateRaises, LeaveFence, CacheTypeOK
      <4> QED
        BY <2>4, <4>1, <4>2, <4>3, <4>4
    <3> QED
      BY <3>1, TaskType DEF At0, AtRest
  <2>5. ASSUME NEW m \in Mcp, NEW n \in Mcp, m # n,
               \/ Connect(m) \/ Ping(m) \/ TakeSnapshot(m) \/ LosesService(m) \/ UseSnapshot(m)
               \/ Answered(m) \/ TakeWriterLease(m) \/ EnterFence(m)
               \/ CommitCandidate(m) \/ CandidateRaises(m)
        PROVE  task'[n] = task[n] /\ cache'[n] = cache[n]
    BY <2>5 DEF Connect, Ping, TakeSnapshot, LosesService, UseSnapshot, Answered, TakeWriterLease,
                EnterFence, CommitCandidate, CandidateRaises, LeaveFence, CacheTypeOK
  <2>6. CASE ServiceBegins \/ ServiceStops \/ ServiceCommits \/ UNCHANGED cacheVars
    BY <2>1, <2>6 DEF ServiceBegins, ServiceStops, ServiceCommits, cacheVars, EngineIsCurrent
  <2> QED
    BY <2>1, <2>2, <2>3, <2>4, <2>5, <2>6 DEF EngineIsCurrent, CacheNext
<1> QED
  BY <1>1, <1>2

(* For every number of servers, commits and starts of the service: no      *)
(* update overwrites one it was not derived from, and no call is answered  *)
(* with an engine older than the service it pinged                         *)
(* (_get_or_init_engine_locked, _assert_local_committed_baseline).         *)
THEOREM EnginesAreCurrent == CacheSpec => []EnginesFollowService
<1>1. CacheInv /\ [CacheNext]_cacheVars => CacheInv'
  BY CacheTypeStep, FenceStep, LagStep, AnswerStep, EnginesStep DEF CacheInv
<1>2. CacheInv => EnginesFollowService
  BY DEF CacheInv
<1> QED
  BY <1>1, <1>2, CacheInit0, PTL DEF CacheSpec

-----------------------------------------------------------------------------
(* The analysis jobs.  A record ends only after the work of its job.        *)

AskRead == [at : {"read", "correct"}, server : Server, pid : Server \X Nat, job : Nat,
            status : Pending \cup JobEnded \cup {"interrupted"}, owner : Server \X Nat]
AskAnswer == [at : {"answer"}, job : Nat, pid : Server \X Nat,
              answer : Pending \cup JobEnded \cup {"interrupted"}]

JobTypeOK ==
    /\ AllJobs = 1 .. Cardinality(AllJobs) /\ Cardinality(AllJobs) \in Nat
    /\ record \in [AllJobs -> [status : Pending \cup JobEnded \cup {"interrupted"},
                               owner : Server \X Nat]]
    /\ work \in [AllJobs -> {"queued", "waiting", "working", "concluded", "over"} \cup JobEnded]
    /\ table \in [Server -> SUBSET AllJobs]
    /\ byRepo \in [Server -> AllJobs \cup {NoJobId}]
    /\ up \subseteq Server
    /\ starts \in [Server -> Nat]
    /\ stopping \subseteq Server
    /\ ask \in [Asker -> {Idle} \cup AskRead \cup AskAnswer]
    /\ refusals \in Nat

(* The threads of a job are in the table of the process that owns it. *)
TableInv ==
    /\ \A s \in Server : s \notin up => table[s] = {}
    /\ \A s \in Server : \A j \in table[s] : record[j].owner = Pid(s)
    /\ \A j \in AllJobs : work[j] # "over" => j \in table[Home(j)]

(* A record says that its job has ended only after it did. *)
EndedInv ==
    \A j \in AllJobs : record[j].status \in JobEnded => work[j] \in {"concluded", "over"}

(* What a status call remembers. *)
AskInv ==
    \A a \in Asker : ask[a] \in AskRead =>
        /\ ask[a].job \in AllJobs /\ ask[a].owner = record[ask[a].job].owner
        /\ ask[a].pid[1] = ask[a].server
        /\ ask[a].at = "correct" => ask[a].status \in Pending

JobsRealInv == JobTypeOK /\ TableInv /\ EndedInv /\ AskInv /\ NewestIsReused

LEMMA JobInit0 == JobInit => JobsRealInv
<1> SUFFICES ASSUME JobInit PROVE JobsRealInv
  OBVIOUS
<1> USE JobAssumption DEF JobInit
<1>1. AllJobs = {} /\ AllJobs = 1 .. 0 /\ Cardinality(AllJobs) = 0
  BY FS_Interval DEF AllJobs
<1>2. JobTypeOK
  <2>1. record \in [AllJobs -> [status : Pending \cup JobEnded \cup {"interrupted"},
                               owner : Server \X Nat]]
    BY <1>1 DEF AllJobs
  <2>2. work \in [AllJobs -> {"queued", "waiting", "working", "concluded", "over"} \cup JobEnded]
    BY <1>1 DEF AllJobs
  <2> QED
    BY <1>1, <2>1, <2>2 DEF JobTypeOK
<1>3. TableInv /\ EndedInv /\ NewestIsReused
  BY <1>1 DEF TableInv, EndedInv, NewestIsReused
<1>4. AskInv
  BY DEF AskInv, AskRead, Idle
<1> QED
  BY <1>2, <1>3, <1>4 DEF JobsRealInv

(* Writing the record of a job keeps its owner and every other record. *)
LEMMA RecordKept ==
  ASSUME JobTypeOK, NEW j \in AllJobs,
         NEW status \in Pending \cup JobEnded \cup {"interrupted"},
         SetRecord(j, status, record[j].owner)
  PROVE  /\ AllJobs' = AllJobs
         /\ record' \in [AllJobs -> [status : Pending \cup JobEnded \cup {"interrupted"},
                                     owner : Server \X Nat]]
         /\ \A i \in AllJobs : record'[i].owner = record[i].owner
         /\ \A i \in AllJobs : i # j => record'[i] = record[i]
         /\ record'[j].status = status
<1>1. AllJobs \cup {j} = AllJobs
  OBVIOUS
<1>2. record' = [i \in AllJobs |-> IF i = j THEN [status |-> status, owner |-> record[j].owner]
                                   ELSE record[i]]
  BY <1>1 DEF SetRecord
<1>3. AllJobs' = AllJobs
  BY <1>2 DEF AllJobs
<1>4. record[j] \in [status : Pending \cup JobEnded \cup {"interrupted"}, owner : Server \X Nat]
  BY DEF JobTypeOK
<1>5. record' \in [AllJobs -> [status : Pending \cup JobEnded \cup {"interrupted"},
                               owner : Server \X Nat]]
  BY <1>2, <1>4 DEF JobTypeOK
<1> QED
  BY <1>2, <1>3, <1>5

(* A new job is the next number, owned by the process that accepts it. *)
LEMMA RecordAdded ==
  ASSUME JobTypeOK, NEW s \in Server, NEW j, j = Cardinality(AllJobs) + 1,
         SetRecord(j, "queued", Pid(s))
  PROVE  /\ j \in Nat /\ AllJobs' = 1 .. j /\ AllJobs' = AllJobs \cup {j} /\ j \notin AllJobs
         /\ Cardinality(AllJobs') = j
         /\ \A i \in AllJobs : i < j /\ record'[i] = record[i]
         /\ record'[j] = [status |-> "queued", owner |-> Pid(s)]
         /\ record' \in [AllJobs' -> [status : Pending \cup JobEnded \cup {"interrupted"},
                                      owner : Server \X Nat]]
<1>1. Cardinality(AllJobs) \in Nat /\ AllJobs = 1 .. Cardinality(AllJobs)
  BY DEF JobTypeOK
<1>2. j \in Nat /\ j \notin AllJobs /\ AllJobs \cup {j} = 1 .. j /\ \A i \in AllJobs : i < j
  BY <1>1
<1>3. record' = [i \in AllJobs \cup {j} |-> IF i = j THEN [status |-> "queued", owner |-> Pid(s)]
                                             ELSE record[i]]
  BY DEF SetRecord
<1>4. AllJobs' = AllJobs \cup {j}
  BY <1>3 DEF AllJobs
<1>5. Cardinality(AllJobs') = j
  <2>1. Cardinality(1 .. j) = j
    BY <1>1, <1>2, FS_Interval
  <2> QED
    BY <1>2, <1>4, <2>1
<1>6. Pid(s) \in Server \X Nat
  BY DEF Pid, JobTypeOK
<1>7. record' \in [AllJobs' -> [status : Pending \cup JobEnded \cup {"interrupted"},
                                      owner : Server \X Nat]]
  BY <1>2, <1>3, <1>4, <1>6 DEF JobTypeOK, Pending
<1> QED
  BY <1>2, <1>3, <1>4, <1>5, <1>7

(* What the steps that write no new record leave of the records. *)
RecordsKept(j, status) ==
    /\ AllJobs' = AllJobs
    /\ record' \in [AllJobs -> [status : Pending \cup JobEnded \cup {"interrupted"},
                                owner : Server \X Nat]]
    /\ \A i \in AllJobs : record'[i].owner = record[i].owner
    /\ \A i \in AllJobs : i # j => record'[i] = record[i]
    /\ record'[j] = record[j] \/ record'[j].status = status

LEMMA Unwritten ==
  ASSUME JobTypeOK, UNCHANGED record, NEW j, NEW status
  PROVE  RecordsKept(j, status)
<1>1. AllJobs' = AllJobs
  BY DEF AllJobs
<1> QED
  BY <1>1 DEF RecordsKept, JobTypeOK

LEMMA PersistKeeps ==
  ASSUME JobTypeOK, NEW j \in AllJobs, NEW status \in Pending \cup JobEnded, Persist(j, status)
  PROVE  RecordsKept(j, status) /\ refusals' \in Nat
<1>1. CASE SetRecord(j, status, record[j].owner) /\ UNCHANGED refusals
  BY <1>1, RecordKept DEF RecordsKept, JobTypeOK
<1>2. CASE JobRefused /\ UNCHANGED record
  BY <1>2, Unwritten DEF JobRefused, JobTypeOK
<1> QED
  BY <1>1, <1>2 DEF Persist

LEMMA CorrectKeeps ==
  ASSUME JobsRealInv, NEW a \in Asker, Correct(a)
  PROVE  /\ ask[a] \in AskRead /\ ask[a].job \in AllJobs
         /\ RecordsKept(ask[a].job, "interrupted") /\ refusals' \in Nat
<1>0. JobTypeOK /\ AskInv
  BY DEF JobsRealInv
<1>1. ask[a] \in AskRead
  BY <1>0 DEF JobTypeOK, Correct, Idle, AskAnswer
<1>2. ask[a].job \in AllJobs /\ ask[a].owner = record[ask[a].job].owner
  BY <1>0, <1>1 DEF AskInv
<1>3. refusals \in Nat
  BY <1>0 DEF JobTypeOK
<1>4. CASE SetRecord(ask[a].job, "interrupted", record[ask[a].job].owner) /\ UNCHANGED refusals
  BY <1>0, <1>1, <1>2, <1>3, <1>4, RecordKept DEF RecordsKept, JobTypeOK
<1>5. CASE JobRefused /\ UNCHANGED record
  <2>1. RecordsKept(ask[a].job, "interrupted")
    BY <1>0, <1>5, Unwritten
  <2> QED
    BY <1>1, <1>2, <1>3, <1>5, <2>1 DEF JobRefused
<1> QED
  BY <1>1, <1>2, <1>4, <1>5 DEF Correct

(* What the owner of a job has to do with it. *)
LEMMA HomeType ==
  ASSUME JobTypeOK, TableInv, NEW j \in AllJobs
  PROVE  /\ Home(j) \in Server
         /\ \A s \in Server : j \in table[s] => Home(j) = s
         /\ \A s \in Server : Pid(s)[1] = s /\ Pid(s) \in Server \X Nat
<1>1. record[j].owner \in Server \X Nat
  BY DEF JobTypeOK
<1>2. \A s \in Server : Pid(s)[1] = s /\ Pid(s) \in Server \X Nat
  BY DEF Pid, JobTypeOK
<1>3. \A s \in Server : j \in table[s] => Home(j) = s
  BY <1>2 DEF TableInv, Home
<1> QED
  BY <1>1, <1>2, <1>3 DEF Home

JobStepOf(j) == BeginJob(j) \/ RunAnalysis(j) \/ EndAnalysis(j) \/ Conclude(j) \/ LeaveTable(j)

LEMMA JobTypeStep == JobsRealInv /\ [JobNext]_jobVars => JobTypeOK'
<1> SUFFICES ASSUME JobsRealInv, [JobNext]_jobVars
             PROVE  JobTypeOK'
  OBVIOUS
<1>0. JobTypeOK /\ TableInv /\ AskInv
  BY DEF JobsRealInv
<1> USE <1>0
<1>1. CASE UNCHANGED jobVars
  BY <1>1 DEF jobVars, JobTypeOK, AllJobs
<1>2. ASSUME NEW s \in Server, StartJob(s)
      PROVE  JobTypeOK'
  <2> DEFINE j == Cardinality(AllJobs) + 1
  <2>1. /\ SetRecord(j, "queued", Pid(s))
        /\ work' = [i \in AllJobs \cup {j} |-> IF i = j THEN "queued" ELSE work[i]]
        /\ table' = [table EXCEPT ![s] = @ \cup {j}]
        /\ byRepo' = [byRepo EXCEPT ![s] = j]
        /\ UNCHANGED <<up, starts, stopping, ask>> /\ refusals' \in Nat
    BY <1>2 DEF StartJob, JobRefused, JobTypeOK
  <2>2. /\ AllJobs' = AllJobs \cup {j} /\ AllJobs' = 1 .. j /\ Cardinality(AllJobs') = j /\ j \in Nat
        /\ record' \in [AllJobs' -> [status : Pending \cup JobEnded \cup {"interrupted"},
                                      owner : Server \X Nat]]
    BY <2>1, RecordAdded
  <2> HIDE DEF j
  <2>3. work' \in [AllJobs' -> {"queued", "waiting", "working", "concluded", "over"} \cup JobEnded]
    BY <2>1, <2>2 DEF JobTypeOK
  <2>4. table' \in [Server -> SUBSET AllJobs'] /\ byRepo' \in [Server -> AllJobs' \cup {NoJobId}]
    BY <2>1, <2>2 DEF JobTypeOK
  <2> QED
    BY <2>1, <2>2, <2>3, <2>4 DEF JobTypeOK
<1>3. ASSUME NEW j \in AllJobs, BeginJob(j) \/ Conclude(j)
      PROVE  JobTypeOK'
  <2>1. PICK status \in Pending \cup JobEnded : Persist(j, status)
    BY <1>3 DEF BeginJob, Conclude, Pending
  <2>2. /\ UNCHANGED <<table, byRepo, up, starts, stopping, ask>>
        /\ work' \in [AllJobs -> {"queued", "waiting", "working", "concluded", "over"} \cup JobEnded]
    BY <1>3 DEF BeginJob, Conclude, JobTypeOK
  <2> QED
    BY <2>1, <2>2, PersistKeeps DEF RecordsKept, JobTypeOK
<1>4. ASSUME NEW j \in AllJobs, RunAnalysis(j) \/ EndAnalysis(j) \/ LeaveTable(j)
      PROVE  JobTypeOK'
  <2>1. AllJobs' = AllJobs /\ record' = record /\ UNCHANGED <<up, starts, stopping, ask, refusals>>
    BY <1>4 DEF RunAnalysis, EndAnalysis, LeaveTable, AllJobs
  <2>2. work' \in [AllJobs -> {"queued", "waiting", "working", "concluded", "over"} \cup JobEnded]
    <3>1. \E p \in {"working", "over"} \cup JobEnded : work' = [work EXCEPT ![j] = p]
      BY <1>4 DEF RunAnalysis, EndAnalysis, LeaveTable, JobEnded
    <3> QED
      BY <3>1 DEF JobTypeOK
  <2>3. table' \in [Server -> SUBSET AllJobs] /\ byRepo' \in [Server -> AllJobs \cup {NoJobId}]
    <3>1. \/ UNCHANGED <<table, byRepo>>
          \/ /\ table' = [table EXCEPT ![Home(j)] = @ \ {j}]
             /\ byRepo' = [byRepo EXCEPT ![Home(j)] = IF @ = j THEN NoJobId ELSE @]
      BY <1>4 DEF RunAnalysis, EndAnalysis, LeaveTable
    <3>2. Home(j) \in Server
      BY HomeType
    <3>3. table[Home(j)] \ {j} \subseteq AllJobs /\ byRepo[Home(j)] \in AllJobs \cup {NoJobId}
      BY <3>2 DEF JobTypeOK
    <3>4. table \in [Server -> SUBSET AllJobs] /\ byRepo \in [Server -> AllJobs \cup {NoJobId}]
      BY DEF JobTypeOK
    <3>5. table' \in [Server -> SUBSET AllJobs]
      BY <3>1, <3>3, <3>4
    <3>6. byRepo' \in [Server -> AllJobs \cup {NoJobId}]
      BY <3>1, <3>4
    <3> QED
      BY <3>5, <3>6
  <2> QED
    BY <2>1, <2>2, <2>3 DEF JobTypeOK
<1>5. ASSUME NEW a \in Asker, NEW s \in Server, NEW j \in AllJobs, Ask(a, s, j)
      PROVE  JobTypeOK'
  <2>1. record[j].status \in Pending \cup JobEnded \cup {"interrupted"}
        /\ record[j].owner \in Server \X Nat /\ j \in Nat /\ Pid(s) \in Server \X Nat
    <3>1. record[j] \in [status : Pending \cup JobEnded \cup {"interrupted"}, owner : Server \X Nat]
      BY DEF JobTypeOK
    <3>2. j \in Nat
      BY DEF JobTypeOK
    <3> QED
      BY <3>1, <3>2, HomeType
  <2>2. [at |-> "read", server |-> s, pid |-> Pid(s), job |-> j,
         status |-> record[j].status, owner |-> record[j].owner] \in AskRead
    BY <2>1 DEF AskRead
  <2> QED
    BY <1>5, <2>2 DEF Ask, JobTypeOK, AllJobs
<1>6. ASSUME NEW a \in Asker, Check(a)
      PROVE  JobTypeOK'
  <2>1. ask[a] \in AskRead
    <3>1. ask[a].at = "read" /\ ask[a] \in {Idle} \cup AskRead \cup AskAnswer
      BY <1>6 DEF Check, JobTypeOK
    <3> QED
      BY <3>1 DEF Idle, AskAnswer
  <2>2. /\ [ask[a] EXCEPT !.at = "correct"] \in AskRead
        /\ [at |-> "answer", job |-> ask[a].job, pid |-> ask[a].pid, answer |-> ask[a].status] \in AskAnswer
    BY <2>1 DEF AskRead, AskAnswer
  <2>3. ask' \in [Asker -> {Idle} \cup AskRead \cup AskAnswer]
    BY <1>6, <2>2 DEF Check, Answer, JobTypeOK
  <2> QED
    BY <1>6, <2>3 DEF Check, JobTypeOK, AllJobs
<1>7. ASSUME NEW a \in Asker, Correct(a)
      PROVE  JobTypeOK'
  <2>1. ask[a] \in AskRead /\ RecordsKept(ask[a].job, "interrupted") /\ refusals' \in Nat
    BY <1>7, CorrectKeeps
  <2>2. [at |-> "answer", job |-> ask[a].job, pid |-> ask[a].pid, answer |-> "interrupted"] \in AskAnswer
    BY <2>1 DEF AskRead, AskAnswer
  <2> QED
    BY <1>7, <2>1, <2>2 DEF Correct, Answer, RecordsKept, JobTypeOK
<1>8. ASSUME NEW a \in Asker, EndAsk(a)
      PROVE  JobTypeOK'
  BY <1>8 DEF EndAsk, JobTypeOK, AllJobs
<1>9. ASSUME NEW s \in Server, RequestShutdown(s) \/ StartServer(s)
      PROVE  JobTypeOK'
  <2>1. AllJobs' = AllJobs /\ UNCHANGED <<record, work, table, byRepo, ask, refusals>>
    BY <1>9 DEF RequestShutdown, StartServer, AllJobs
  <2>2. up' \subseteq Server /\ stopping' \subseteq Server /\ starts' \in [Server -> Nat]
    <3>1. up \subseteq Server /\ stopping \subseteq Server /\ starts \in [Server -> Nat]
          /\ starts[s] + 1 \in Nat
      BY DEF JobTypeOK
    <3> QED
      BY <1>9, <3>1 DEF RequestShutdown, StartServer
  <2> QED
    BY <2>1, <2>2 DEF JobTypeOK
<1>10. ASSUME NEW s \in Server, Exit(s)
       PROVE  JobTypeOK'
  <2>1. AllJobs' = AllJobs /\ record' = record /\ UNCHANGED <<starts, refusals>>
    BY <1>10 DEF Exit, AllJobs
  <2>2. /\ work' \in [AllJobs -> {"queued", "waiting", "working", "concluded", "over"} \cup JobEnded]
        /\ table' \in [Server -> SUBSET AllJobs] /\ byRepo' \in [Server -> AllJobs \cup {NoJobId}]
        /\ up' \subseteq Server /\ stopping' \subseteq Server
        /\ ask' \in [Asker -> {Idle} \cup AskRead \cup AskAnswer]
    BY <1>10 DEF Exit, JobTypeOK
  <2> QED
    BY <2>1, <2>2 DEF JobTypeOK
<1> QED
  BY <1>1, <1>2, <1>3, <1>4, <1>5, <1>6, <1>7, <1>8, <1>9, <1>10, JobAssumption DEF JobNext

(* A process loses its table when it ends, and a job its place in it when  *)
(* its thread does.                                                        *)
LEMMA TableStep == JobsRealInv /\ [JobNext]_jobVars => TableInv'
<1> SUFFICES ASSUME JobsRealInv, [JobNext]_jobVars
             PROVE  TableInv'
  OBVIOUS
<1>0. JobTypeOK /\ TableInv /\ AskInv
  BY DEF JobsRealInv
<1>H. \A j \in AllJobs : Home(j) \in Server
  BY <1>0, HomeType
<1> USE <1>0
<1>1. ASSUME UNCHANGED <<work, table, up, starts>>, AllJobs' = AllJobs,
             \A i \in AllJobs : record'[i].owner = record[i].owner
      PROVE  TableInv'
  BY <1>1 DEF TableInv, Pid, Home, JobTypeOK
<1>2. ASSUME UNCHANGED jobVars
      PROVE  TableInv'
  BY <1>1, <1>2 DEF jobVars, AllJobs
<1>3. ASSUME NEW s \in Server, StartJob(s)
      PROVE  TableInv'
  <2>1. PICK j :
        /\ j = Cardinality(AllJobs) + 1 /\ SetRecord(j, "queued", Pid(s)) /\ s \in up
        /\ work' = [i \in AllJobs \cup {j} |-> IF i = j THEN "queued" ELSE work[i]]
        /\ table' = [table EXCEPT ![s] = @ \cup {j}]
        /\ UNCHANGED <<up, starts>>
    BY <1>3 DEF StartJob, Up
  <2>2. /\ AllJobs' = AllJobs \cup {j} /\ j \notin AllJobs
        /\ \A i \in AllJobs : record'[i] = record[i]
        /\ record'[j].owner = Pid(s)
    <3>1. /\ AllJobs' = AllJobs \cup {j} /\ j \notin AllJobs
          /\ \A i \in AllJobs : i < j /\ record'[i] = record[i]
          /\ record'[j] = [status |-> "queued", owner |-> Pid(s)]
      BY <2>1, RecordAdded
    <3> QED
      BY <3>1
  <2>3. \A r \in Server : r # s => table'[r] = table[r]
    BY <2>1 DEF JobTypeOK
  <2>4. table'[s] = table[s] \cup {j}
    BY <2>1 DEF JobTypeOK
  <2>5. ASSUME NEW r \in Server, NEW i \in table'[r]
        PROVE  record'[i].owner = Pid(r)'
    <3>1. Pid(r)' = Pid(r)
      BY <2>1 DEF Pid
    <3>2. CASE i = j
      <4>1. r = s
        BY <2>2, <2>3, <2>5, <3>2 DEF JobTypeOK
      <4> QED
        BY <2>2, <3>1, <3>2, <4>1
    <3>3. CASE i # j
      <4>1. i \in table[r]
        BY <2>3, <2>4, <2>5, <3>3
      <4>2. i \in AllJobs
        BY <4>1 DEF JobTypeOK
      <4> QED
        BY <2>2, <3>1, <4>1, <4>2 DEF TableInv
    <3> QED
      BY <3>2, <3>3
  <2>6. ASSUME NEW i \in AllJobs', work'[i] # "over"
        PROVE  i \in table'[Home(i)']
    <3>1. CASE i = j
      BY <2>2, <2>4, <3>1, HomeType DEF Home, Pid
    <3>2. CASE i # j
      <4>1. i \in AllJobs /\ Home(i)' = Home(i) /\ i \in table[Home(i)]
        BY <2>1, <2>2, <2>6, <3>2 DEF Home, TableInv
      <4> QED
        BY <1>H, <2>3, <2>4, <4>1
    <3> QED
      BY <3>1, <3>2
  <2>7. \A r \in Server : r \notin up' => table'[r] = {}
    BY <2>1, <2>3 DEF TableInv
  <2> QED
    BY <2>5, <2>6, <2>7 DEF TableInv, Home
<1>4. ASSUME NEW j \in AllJobs, JobStepOf(j)
      PROVE  TableInv'
  <2>1. /\ AllJobs' = AllJobs /\ UNCHANGED <<up, starts>>
        /\ \A i \in AllJobs : record'[i].owner = record[i].owner
    <3>1. CASE BeginJob(j) \/ Conclude(j)
      <4>1. PICK status \in Pending \cup JobEnded : Persist(j, status)
        BY <3>1 DEF BeginJob, Conclude, Pending
      <4> QED
        BY <3>1, <4>1, PersistKeeps DEF RecordsKept, BeginJob, Conclude
    <3>2. CASE RunAnalysis(j) \/ EndAnalysis(j) \/ LeaveTable(j)
      BY <3>2 DEF RunAnalysis, EndAnalysis, LeaveTable, AllJobs
    <3> QED
      BY <1>4, <3>1, <3>2 DEF JobStepOf
  <2>2. work[j] # "over" /\ \A i \in AllJobs : i # j => work'[i] = work[i]
    BY <1>4 DEF JobStepOf, BeginJob, Conclude, RunAnalysis, EndAnalysis, LeaveTable, JobTypeOK, JobEnded
  <2>3. \/ table' = table
        \/ /\ table' = [table EXCEPT ![Home(j)] = @ \ {j}] /\ work'[j] = "over"
    BY <1>4 DEF JobStepOf, BeginJob, Conclude, RunAnalysis, EndAnalysis, LeaveTable, JobTypeOK
  <2>4. \A i \in AllJobs : Home(i)' = Home(i)
    BY <2>1 DEF Home
  <2>5. \A s \in Server : /\ table'[s] \subseteq table[s] /\ Pid(s)' = Pid(s)
                          /\ \A i \in table[s] : i # j => i \in table'[s]
    BY <1>H, <2>1, <2>3 DEF Pid, JobTypeOK
  <2>6. \A i \in AllJobs : work'[i] # "over" => i \in table'[Home(i)']
    BY <1>H, <2>2, <2>3, <2>4, <2>5 DEF TableInv
  <2>7. \A s \in Server : \A i \in table'[s] : record'[i].owner = Pid(s)'
    BY <2>1, <2>5 DEF TableInv, JobTypeOK
  <2> QED
    BY <2>1, <2>4, <2>5, <2>6, <2>7 DEF TableInv
<1>5. ASSUME NEW a \in Asker, Check(a) \/ EndAsk(a) \/ (\E s \in Server, j \in AllJobs : Ask(a, s, j))
      PROVE  TableInv'
  BY <1>1, <1>5 DEF Check, EndAsk, Ask, AllJobs
<1>6. ASSUME NEW a \in Asker, Correct(a)
      PROVE  TableInv'
  BY <1>1, <1>6, CorrectKeeps DEF Correct, RecordsKept
<1>7. ASSUME NEW s \in Server, RequestShutdown(s)
      PROVE  TableInv'
  BY <1>1, <1>7 DEF RequestShutdown, AllJobs
<1>8. ASSUME NEW s \in Server, StartServer(s)
      PROVE  TableInv'
  <2>1. UNCHANGED <<record, work, table>> /\ table[s] = {} /\ up' = up \cup {s}
        /\ \A r \in Server : r # s => Pid(r)' = Pid(r)
    BY <1>8 DEF StartServer, TableInv, Up, Pid, JobTypeOK
  <2> QED
    BY <2>1 DEF TableInv, Home, AllJobs
<1>9. ASSUME NEW s \in Server, Exit(s)
      PROVE  TableInv'
  <2>1. UNCHANGED <<record, starts>> /\ table' = [table EXCEPT ![s] = {}] /\ up' = up \ {s}
        /\ work' = [j \in AllJobs |-> IF j \in table[s] THEN "over" ELSE work[j]]
    BY <1>9 DEF Exit
  <2>2. AllJobs' = AllJobs /\ \A r \in Server : Pid(r)' = Pid(r)
    BY <2>1 DEF AllJobs, Pid
  <2>3. \A r \in Server : table'[r] = IF r = s THEN {} ELSE table[r]
    BY <2>1 DEF JobTypeOK
  <2>4. ASSUME NEW j \in AllJobs, work'[j] # "over"
        PROVE  j \in table'[Home(j)']
    <3>1. j \notin table[s] /\ work'[j] = work[j] /\ Home(j)' = Home(j)
      BY <2>1, <2>4 DEF Home
    <3>2. j \in table[Home(j)] /\ Home(j) # s
      BY <2>4, <3>1 DEF TableInv
    <3> QED
      BY <1>H, <2>3, <3>1, <3>2
  <2> QED
    BY <2>1, <2>2, <2>3, <2>4 DEF TableInv
<1> QED
  BY <1>2, <1>3, <1>4, <1>5, <1>6, <1>7, <1>8, <1>9, JobAssumption DEF JobNext, JobStepOf

LEMMA EndedStep == JobsRealInv /\ [JobNext]_jobVars => EndedInv'
<1> SUFFICES ASSUME JobsRealInv, [JobNext]_jobVars
             PROVE  EndedInv'
  OBVIOUS
<1>0. JobTypeOK /\ TableInv /\ EndedInv /\ AskInv
  BY DEF JobsRealInv
<1> USE <1>0
<1>1. ASSUME UNCHANGED <<record, work>>
      PROVE  EndedInv'
  BY <1>1 DEF EndedInv, AllJobs
<1>2. ASSUME NEW s \in Server, StartJob(s)
      PROVE  EndedInv'
  <2>1. PICK j :
        /\ j = Cardinality(AllJobs) + 1 /\ SetRecord(j, "queued", Pid(s))
        /\ work' = [i \in AllJobs \cup {j} |-> IF i = j THEN "queued" ELSE work[i]]
    BY <1>2 DEF StartJob
  <2>2. /\ AllJobs' = AllJobs \cup {j} /\ j \notin AllJobs
        /\ \A i \in AllJobs : i < j /\ record'[i] = record[i]
        /\ record'[j] = [status |-> "queued", owner |-> Pid(s)]
    BY <2>1, RecordAdded
  <2> QED
    BY <2>1, <2>2 DEF EndedInv, JobEnded
<1>3. ASSUME NEW j \in AllJobs, BeginJob(j)
      PROVE  EndedInv'
  <2>1. Persist(j, "running") /\ work' = [work EXCEPT ![j] = "waiting"] /\ work[j] = "queued"
    BY <1>3 DEF BeginJob
  <2>2. RecordsKept(j, "running")
    BY <2>1, PersistKeeps DEF Pending
  <2>3. record[j].status \notin JobEnded
    BY <2>1 DEF EndedInv
  <2> QED
    BY <2>1, <2>2, <2>3 DEF RecordsKept, EndedInv, JobTypeOK, JobEnded
<1>4. ASSUME NEW j \in AllJobs, RunAnalysis(j) \/ EndAnalysis(j) \/ LeaveTable(j)
      PROVE  EndedInv'
  <2>1. record' = record /\ \A i \in AllJobs : i # j => work'[i] = work[i]
    BY <1>4 DEF RunAnalysis, EndAnalysis, LeaveTable, JobTypeOK
  <2>2. \/ work[j] \in {"waiting", "working"}
        \/ work'[j] = "over"
    BY <1>4 DEF RunAnalysis, EndAnalysis, LeaveTable, JobTypeOK
  <2>3. work[j] \in {"waiting", "working"} => record[j].status \notin JobEnded
    BY DEF EndedInv
  <2> QED
    BY <2>1, <2>2, <2>3 DEF EndedInv, AllJobs
<1>5. ASSUME NEW j \in AllJobs, Conclude(j)
      PROVE  EndedInv'
  <2>1. Persist(j, work[j]) /\ work' = [work EXCEPT ![j] = "concluded"] /\ work[j] \in JobEnded
    BY <1>5 DEF Conclude
  <2>2. RecordsKept(j, work[j])
    BY <2>1, PersistKeeps
  <2> QED
    BY <2>1, <2>2 DEF RecordsKept, EndedInv, JobTypeOK
<1>6. ASSUME NEW a \in Asker, Correct(a)
      PROVE  EndedInv'
  <2>1. RecordsKept(ask[a].job, "interrupted") /\ work' = work
    BY <1>6, CorrectKeeps DEF Correct
  <2> QED
    BY <2>1 DEF RecordsKept, EndedInv, JobEnded
<1>7. ASSUME NEW s \in Server, Exit(s)
      PROVE  EndedInv'
  BY <1>7 DEF Exit, EndedInv, AllJobs
<1>8. ASSUME NEW a \in Asker, Check(a) \/ EndAsk(a) \/ (\E s \in Server, j \in AllJobs : Ask(a, s, j))
      PROVE  EndedInv'
  BY <1>1, <1>8 DEF Check, EndAsk, Ask
<1>9. ASSUME NEW s \in Server, RequestShutdown(s) \/ StartServer(s)
      PROVE  EndedInv'
  BY <1>1, <1>9 DEF RequestShutdown, StartServer
<1>10. CASE UNCHANGED jobVars
  BY <1>1, <1>10 DEF jobVars
<1> QED
  BY <1>2, <1>3, <1>4, <1>5, <1>6, <1>7, <1>8, <1>9, <1>10, JobAssumption DEF JobNext

LEMMA AskStep == JobsRealInv /\ [JobNext]_jobVars => AskInv'
<1> SUFFICES ASSUME JobsRealInv, [JobNext]_jobVars
             PROVE  AskInv'
  OBVIOUS
<1>0. JobTypeOK /\ TableInv /\ EndedInv /\ AskInv
  BY DEF JobsRealInv
<1> USE <1>0
<1>K. AskRead' = AskRead
  BY DEF AskRead
<1>1. ASSUME \A a \in Asker : ask'[a] = ask[a] \/ ask'[a] \notin AskRead,
             AllJobs \subseteq AllJobs', \A j \in AllJobs : record'[j].owner = record[j].owner
      PROVE  AskInv'
  BY <1>K, <1>1 DEF AskInv
<1>2. ASSUME NEW s \in Server, StartJob(s)
      PROVE  AskInv'
  <2>1. PICK j : j = Cardinality(AllJobs) + 1 /\ SetRecord(j, "queued", Pid(s)) /\ ask' = ask
    BY <1>2 DEF StartJob
  <2>2. /\ AllJobs' = AllJobs \cup {j}
        /\ \A i \in AllJobs : i < j /\ record'[i] = record[i]
    BY <2>1, RecordAdded
  <2> QED
    BY <1>1, <2>1, <2>2
<1>3. ASSUME NEW j \in AllJobs, JobStepOf(j)
      PROVE  AskInv'
  <2>1. ask' = ask /\ AllJobs' = AllJobs /\ \A i \in AllJobs : record'[i].owner = record[i].owner
    <3>1. CASE BeginJob(j) \/ Conclude(j)
      <4>1. PICK status \in Pending \cup JobEnded : Persist(j, status)
        BY <3>1 DEF BeginJob, Conclude, Pending
      <4> QED
        BY <3>1, <4>1, PersistKeeps DEF RecordsKept, BeginJob, Conclude
    <3>2. CASE RunAnalysis(j) \/ EndAnalysis(j) \/ LeaveTable(j)
      BY <3>2 DEF RunAnalysis, EndAnalysis, LeaveTable, AllJobs
    <3> QED
      BY <1>3, <3>1, <3>2 DEF JobStepOf
  <2> QED
    BY <1>1, <2>1
<1>4. ASSUME NEW a \in Asker, NEW s \in Server, NEW j \in AllJobs, Ask(a, s, j)
      PROVE  AskInv'
  <2>1. /\ ask'[a] = [at |-> "read", server |-> s, pid |-> Pid(s), job |-> j,
                      status |-> record[j].status, owner |-> record[j].owner]
        /\ \A b \in Asker : b # a => ask'[b] = ask[b]
        /\ AllJobs' = AllJobs /\ record' = record /\ Pid(s)[1] = s
    BY <1>4 DEF Ask, JobTypeOK, AllJobs, Pid
  <2> QED
    BY <1>K, <2>1 DEF AskInv
<1>5. ASSUME NEW a \in Asker, Check(a)
      PROVE  AskInv'
  <2>1. ask[a] \in AskRead
    <3>1. ask[a].at = "read" /\ ask[a] \in {Idle} \cup AskRead \cup AskAnswer
      BY <1>5 DEF Check, JobTypeOK
    <3> QED
      BY <3>1 DEF Idle, AskAnswer
  <2>2. /\ \/ ask' = [ask EXCEPT ![a].at = "correct"] /\ ask[a].status \in Pending
           \/ ask' = [ask EXCEPT ![a] = [at |-> "answer", job |-> ask[a].job, pid |-> ask[a].pid,
                                        answer |-> ask[a].status]]
        /\ record' = record /\ AllJobs' = AllJobs
    BY <1>5 DEF Check, Answer, AllJobs
  <2>3. \A b \in Asker : b # a => ask'[b] = ask[b]
    BY <2>2 DEF JobTypeOK
  <2>4. \/ /\ ask'[a] = [ask[a] EXCEPT !.at = "correct"] /\ ask[a].status \in Pending
        \/ ask'[a] \notin AskRead
    <3>1. ask \in [Asker -> {Idle} \cup AskRead \cup AskAnswer]
      BY DEF JobTypeOK
    <3>2. [at |-> "answer", job |-> ask[a].job, pid |-> ask[a].pid, answer |-> ask[a].status]
            \notin AskRead
      BY DEF AskRead
    <3> QED
      BY <2>2, <3>1, <3>2
  <2>5. CASE ask'[a] \notin AskRead
    BY <1>1, <2>2, <2>3, <2>5
  <2>6. CASE ask'[a] = [ask[a] EXCEPT !.at = "correct"] /\ ask[a].status \in Pending
    <3>1. /\ ask'[a].job = ask[a].job /\ ask'[a].owner = ask[a].owner /\ ask'[a].pid = ask[a].pid
          /\ ask'[a].server = ask[a].server /\ ask'[a].status = ask[a].status
      BY <2>1, <2>6 DEF AskRead
    <3>2. /\ ask[a].job \in AllJobs /\ ask[a].owner = record[ask[a].job].owner
          /\ ask[a].pid[1] = ask[a].server
      BY <2>1 DEF AskInv
    <3>3. /\ ask'[a].job \in AllJobs /\ ask'[a].owner = record[ask'[a].job].owner
          /\ ask'[a].pid[1] = ask'[a].server /\ ask'[a].status \in Pending
      BY <2>6, <3>1, <3>2
    <3>4. ASSUME NEW b \in Asker, ask'[b] \in AskRead
          PROVE  /\ ask'[b].job \in AllJobs /\ ask'[b].owner = record[ask'[b].job].owner
                 /\ ask'[b].pid[1] = ask'[b].server
                 /\ ask'[b].at = "correct" => ask'[b].status \in Pending
      <4>1. CASE b = a
        BY <3>3, <4>1
      <4>2. CASE b # a
        BY <2>3, <3>4, <4>2 DEF AskInv
      <4> QED
        BY <4>1, <4>2
    <3> QED
      BY <1>K, <2>2, <3>4 DEF AskInv
  <2> QED
    BY <2>4, <2>5, <2>6
<1>6. ASSUME NEW a \in Asker, Correct(a)
      PROVE  AskInv'
  <2>1. RecordsKept(ask[a].job, "interrupted")
    BY <1>6, CorrectKeeps
  <2>2. \A b \in Asker : ask'[b] = ask[b] \/ ask'[b] \notin AskRead
    BY <1>6 DEF Correct, Answer, JobTypeOK, AskRead
  <2> QED
    BY <1>1, <2>1, <2>2 DEF RecordsKept
<1>7. ASSUME NEW a \in Asker, EndAsk(a)
      PROVE  AskInv'
  <2>1. \A b \in Asker : ask'[b] = ask[b] \/ ask'[b] = Idle
    BY <1>7 DEF EndAsk, JobTypeOK
  <2> QED
    BY <1>1, <1>7, <2>1 DEF EndAsk, AskRead, Idle, AllJobs
<1>8. ASSUME NEW s \in Server, Exit(s)
      PROVE  AskInv'
  <2>1. \A b \in Asker : ask'[b] = ask[b] \/ ask'[b] = Idle
    BY <1>8 DEF Exit, JobTypeOK
  <2> QED
    BY <1>1, <1>8, <2>1 DEF Exit, AskRead, Idle, AllJobs
<1>9. CASE UNCHANGED jobVars \/ \E s \in Server : RequestShutdown(s) \/ StartServer(s)
  BY <1>1, <1>9 DEF jobVars, RequestShutdown, StartServer, AllJobs
<1> QED
  BY <1>2, <1>3, <1>4, <1>5, <1>6, <1>7, <1>8, <1>9, JobAssumption DEF JobNext, JobStepOf

(* A newer job hides every older one, and only a job that leaves its table *)
(* is forgotten.                                                           *)
LEMMA NewestStep == JobsRealInv /\ [JobNext]_jobVars => NewestIsReused'
<1> SUFFICES ASSUME JobsRealInv, [JobNext]_jobVars
             PROVE  NewestIsReused'
  OBVIOUS
<1>0. JobTypeOK /\ TableInv /\ AskInv /\ NewestIsReused /\ up \subseteq Server
  BY DEF JobsRealInv, JobTypeOK
<1> USE <1>0
<1>1. ASSUME UNCHANGED <<table, byRepo, up, starts>>, AllJobs' = AllJobs,
             \A i \in AllJobs : record'[i].owner = record[i].owner
      PROVE  NewestIsReused'
  BY <1>1 DEF NewestIsReused, Pid
<1>2. CASE UNCHANGED jobVars
  BY <1>1, <1>2 DEF jobVars, AllJobs
<1>3. ASSUME NEW s \in Server, StartJob(s)
      PROVE  NewestIsReused'
  <2>1. PICK j :
        /\ j = Cardinality(AllJobs) + 1 /\ SetRecord(j, "queued", Pid(s)) /\ s \in up
        /\ table' = [table EXCEPT ![s] = @ \cup {j}]
        /\ byRepo' = [byRepo EXCEPT ![s] = j]
        /\ UNCHANGED <<up, starts>>
    BY <1>3 DEF StartJob, Up
  <2>2. /\ AllJobs' = AllJobs \cup {j} /\ j \notin AllJobs /\ j \in Nat
        /\ \A i \in AllJobs : i < j /\ record'[i] = record[i] /\ i \in Nat
        /\ record'[j] = [status |-> "queued", owner |-> Pid(s)]
    BY <2>1, RecordAdded DEF JobTypeOK
  <2>3. ASSUME NEW r \in up, NEW i \in table'[r],
               \A k \in AllJobs' : record'[k].owner = Pid(r)' => k <= i
        PROVE  byRepo'[r] = i
    <3>1. Pid(r)' = Pid(r)
      BY <2>1 DEF Pid
    <3>2. CASE r = s
      <4>1. record'[j].owner = Pid(r)' /\ j \in AllJobs'
        BY <2>2, <3>1, <3>2
      <4>2. j <= i
        BY <2>3, <4>1
      <4>3. i \in AllJobs \cup {j}
        BY <2>1, <2>3, <3>2 DEF JobTypeOK
      <4> QED
        BY <2>1, <2>2, <3>2, <4>2, <4>3 DEF JobTypeOK
    <3>3. CASE r # s
      <4>1. table'[r] = table[r] /\ byRepo'[r] = byRepo[r]
        BY <2>1, <3>3 DEF JobTypeOK
      <4>2. \A k \in AllJobs : record[k].owner = Pid(r) => k <= i
        BY <2>2, <2>3, <3>1
      <4> QED
        BY <2>3, <4>1, <4>2 DEF NewestIsReused
    <3> QED
      BY <3>2, <3>3
  <2> QED
    BY <2>1, <2>3 DEF NewestIsReused
<1>4. ASSUME NEW j \in AllJobs, BeginJob(j) \/ Conclude(j)
      PROVE  NewestIsReused'
  <2>1. PICK status \in Pending \cup JobEnded : Persist(j, status)
    BY <1>4 DEF BeginJob, Conclude, Pending
  <2> QED
    BY <1>1, <1>4, <2>1, PersistKeeps DEF RecordsKept, BeginJob, Conclude
<1>5. ASSUME NEW j \in AllJobs, RunAnalysis(j) \/ EndAnalysis(j)
      PROVE  NewestIsReused'
  BY <1>1, <1>5 DEF RunAnalysis, EndAnalysis, AllJobs
<1>6. ASSUME NEW j \in AllJobs, LeaveTable(j)
      PROVE  NewestIsReused'
  <2> DEFINE h == Home(j)
  <2>1. /\ UNCHANGED <<record, up, starts>> /\ h \in Server
        /\ table' = [table EXCEPT ![h] = @ \ {j}]
        /\ byRepo' = [byRepo EXCEPT ![h] = IF @ = j THEN NoJobId ELSE @]
    BY <1>6, HomeType DEF LeaveTable
  <2> HIDE DEF h
  <2>2. AllJobs' = AllJobs /\ \A r \in up : Pid(r)' = Pid(r)
    BY <2>1 DEF AllJobs, Pid
  <2>3. ASSUME NEW r \in up, NEW i \in table'[r],
               \A k \in AllJobs : record[k].owner = Pid(r) => k <= i
        PROVE  byRepo'[r] = i
    <3>1. i \in table[r] /\ (r = h => i # j)
      BY <2>1, <2>3 DEF JobTypeOK
    <3>2. byRepo[r] = i
      BY <2>3, <3>1 DEF NewestIsReused
    <3> QED
      BY <2>1, <3>1, <3>2 DEF JobTypeOK
  <2> QED
    BY <2>1, <2>2, <2>3 DEF NewestIsReused
<1>7. ASSUME NEW a \in Asker, Check(a) \/ EndAsk(a) \/ (\E s \in Server, j \in AllJobs : Ask(a, s, j))
      PROVE  NewestIsReused'
  BY <1>1, <1>7 DEF Check, EndAsk, Ask, AllJobs
<1>8. ASSUME NEW a \in Asker, Correct(a)
      PROVE  NewestIsReused'
  BY <1>1, <1>8, CorrectKeeps DEF Correct, RecordsKept
<1>9. ASSUME NEW s \in Server, RequestShutdown(s)
      PROVE  NewestIsReused'
  BY <1>1, <1>9 DEF RequestShutdown, AllJobs
<1>10. ASSUME NEW s \in Server, StartServer(s)
       PROVE  NewestIsReused'
  <2>1. /\ UNCHANGED <<record, table, byRepo>> /\ table[s] = {} /\ up' = up \cup {s}
        /\ \A r \in Server : r # s => Pid(r)' = Pid(r)
    BY <1>10 DEF StartServer, TableInv, Up, Pid, JobTypeOK
  <2> QED
    BY <2>1 DEF NewestIsReused, AllJobs
<1>11. ASSUME NEW s \in Server, Exit(s)
       PROVE  NewestIsReused'
  <2>1. /\ UNCHANGED <<record, starts>> /\ up' = up \ {s}
        /\ \A r \in up' : table'[r] = table[r] /\ byRepo'[r] = byRepo[r]
    BY <1>11 DEF Exit, JobTypeOK
  <2> QED
    BY <2>1 DEF NewestIsReused, AllJobs, Pid
<1> QED
  BY <1>2, <1>3, <1>4, <1>5, <1>6, <1>7, <1>8, <1>9, <1>10, <1>11, JobAssumption DEF JobNext

(* What StatusIsSound says of one step. *)
StatusStep ==
    /\ \A a \in Asker : PendingLives(a)
    /\ \A j \in AllJobs : record[j].status \in JobEnded =>
          record'[j].status = record[j].status \/ ReadBefore(j)

LEMMA StatusSteps == JobsRealInv /\ [JobNext]_jobVars => StatusStep \/ UNCHANGED jobVars
<1> SUFFICES ASSUME JobsRealInv, JobNext
             PROVE  StatusStep
  OBVIOUS
<1>0. JobTypeOK /\ TableInv /\ EndedInv /\ AskInv
  BY DEF JobsRealInv
<1> USE <1>0
<1>1. ASSUME ask' = ask, \A j \in AllJobs : record'[j] = record[j]
      PROVE  StatusStep
  BY <1>1 DEF StatusStep, PendingLives
<1>2. ASSUME NEW s \in Server, StartJob(s)
      PROVE  StatusStep
  <2>1. PICK j : j = Cardinality(AllJobs) + 1 /\ SetRecord(j, "queued", Pid(s)) /\ ask' = ask
    BY <1>2 DEF StartJob
  <2>2. \A i \in AllJobs : i < j /\ record'[i] = record[i]
    BY <2>1, RecordAdded
  <2> QED
    BY <1>1, <2>1, <2>2
<1>3. ASSUME NEW j \in AllJobs, BeginJob(j) \/ Conclude(j)
      PROVE  StatusStep
  <2>1. PICK status \in Pending \cup JobEnded : Persist(j, status)
    BY <1>3 DEF BeginJob, Conclude, Pending
  <2>2. ask' = ask /\ work[j] \in {"queued"} \cup JobEnded
    BY <1>3 DEF BeginJob, Conclude
  <2>3. record[j].status \notin JobEnded
    BY <2>2 DEF EndedInv, JobEnded
  <2>4. \A i \in AllJobs : i # j => record'[i] = record[i]
    BY <2>1, PersistKeeps DEF RecordsKept
  <2> QED
    BY <2>2, <2>3, <2>4 DEF StatusStep, PendingLives
<1>4. ASSUME NEW j \in AllJobs, RunAnalysis(j) \/ EndAnalysis(j) \/ LeaveTable(j)
      PROVE  StatusStep
  BY <1>1, <1>4 DEF RunAnalysis, EndAnalysis, LeaveTable
<1>5. ASSUME NEW a \in Asker, NEW s \in Server, NEW j \in AllJobs, Ask(a, s, j)
      PROVE  StatusStep
  <2>1. record' = record /\ \A b \in Asker : ask'[b] = ask[b] \/ ask'[b].at = "read"
    BY <1>5 DEF Ask, JobTypeOK
  <2> QED
    BY <2>1 DEF StatusStep, PendingLives
<1>6. ASSUME NEW a \in Asker, Check(a)
      PROVE  StatusStep
  <2>1. ask[a] \in AskRead
    <3>1. ask[a].at = "read" /\ ask[a] \in {Idle} \cup AskRead \cup AskAnswer
      BY <1>6 DEF Check, JobTypeOK
    <3> QED
      BY <3>1 DEF Idle, AskAnswer
  <2>2. ask[a].status \in Pending /\ ask'[a] # ask[a] /\ ask'[a].at = "answer" =>
          ask[a].job \in table[ask[a].server] /\ ask'[a].job = ask[a].job
    BY <1>6, <2>1 DEF Check, Answer, JobTypeOK, AskRead
  <2>3. ask'[a].at = "answer" => ask'[a].answer = ask[a].status
    BY <1>6, <2>1 DEF Check, Answer, JobTypeOK, AskRead
  <2>4. ask[a].job \in AllJobs /\ ask[a].server \in Server
    BY <2>1 DEF AskInv, AskRead
  <2>5. ask[a].job \in table[ask[a].server] => ThreadLives(ask[a].job)
    BY <2>4, HomeType DEF ThreadLives
  <2>6. record' = record /\ \A b \in Asker : b # a => ask'[b] = ask[b]
    BY <1>6 DEF Check, Answer, JobTypeOK
  <2>7. PendingLives(a)
    BY <2>2, <2>3, <2>5 DEF PendingLives
  <2>8. \A b \in Asker : b # a => PendingLives(b)
    BY <2>6 DEF PendingLives
  <2> QED
    BY <2>6, <2>7, <2>8 DEF StatusStep
<1>7. ASSUME NEW a \in Asker, Correct(a)
      PROVE  StatusStep
  <2>1. ask[a] \in AskRead /\ ask[a].job \in AllJobs /\ RecordsKept(ask[a].job, "interrupted")
    BY <1>7, CorrectKeeps
  <2>2. ReadBefore(ask[a].job)
    <3>1. ask[a].at = "correct" /\ ask[a] # Idle
      BY <1>7 DEF Correct, Idle
    <3>2. ask[a].status \in Pending
      BY <2>1, <3>1 DEF AskInv
    <3> QED
      BY <3>1, <3>2 DEF ReadBefore
  <2>3. \A b \in Asker : ask'[b] = ask[b] \/ ask'[b].answer = "interrupted"
    BY <1>7 DEF Correct, Answer, JobTypeOK
  <2> QED
    BY <2>1, <2>2, <2>3 DEF StatusStep, PendingLives, RecordsKept, Pending
<1>8. ASSUME NEW a \in Asker, EndAsk(a)
      PROVE  StatusStep
  <2>1. record' = record /\ \A b \in Asker : ask'[b] = ask[b] \/ ask'[b] = Idle
    BY <1>8 DEF EndAsk, JobTypeOK
  <2> QED
    BY <2>1 DEF StatusStep, PendingLives
<1>9. ASSUME NEW s \in Server, Exit(s)
      PROVE  StatusStep
  <2>1. record' = record /\ \A b \in Asker : ask'[b] = ask[b] \/ ask'[b] = Idle
    BY <1>9 DEF Exit, JobTypeOK
  <2> QED
    BY <2>1 DEF StatusStep, PendingLives
<1>10. ASSUME NEW s \in Server, RequestShutdown(s) \/ StartServer(s)
       PROVE  StatusStep
  BY <1>1, <1>10 DEF RequestShutdown, StartServer
<1> QED
  BY <1>2, <1>3, <1>4, <1>5, <1>6, <1>7, <1>8, <1>9, <1>10, JobAssumption DEF JobNext

(* For every number of servers, jobs, calls, crashes and failing writes:   *)
(* the newest job of a process is the one a second request is given, no    *)
(* call is told that a dead thread's job is pending, and the record of an  *)
(* ended job is overwritten only by a call that had read it before         *)
(* (_start_analysis_job, _execute_analysis_job, get_analysis_status).      *)
THEOREM JobsAreRealAlways == JobSpec => JobsAreReal
<1>1. JobsRealInv /\ [JobNext]_jobVars => JobsRealInv'
  BY JobTypeStep, TableStep, EndedStep, AskStep, NewestStep DEF JobsRealInv
<1>2. JobSpec => []JobsRealInv
  BY <1>1, JobInit0, PTL DEF JobSpec
<1>3. JobsRealInv => NewestIsReused
  BY DEF JobsRealInv
<1>4. JobsRealInv /\ [JobNext]_jobVars => [StatusStep]_jobVars
  BY StatusSteps
<1>5. JobSpec => [][StatusStep]_jobVars
  BY <1>2, <1>4, PTL DEF JobSpec
<1>6. [][StatusStep]_jobVars <=> StatusIsSound
  BY DEF StatusStep, StatusIsSound
<1> QED
  BY <1>2, <1>3, <1>5, <1>6, PTL DEF JobsAreReal

-----------------------------------------------------------------------------
(* The owner of the persistent MCP backend, for every number of desktops,  *)
(* processes, attempts and faults.  The invariant says who holds the       *)
(* control lock and the lifetime lock, what a desktop knows of the         *)
(* processes it works with, and that a backend granted once is the one of  *)
(* the claim on disk, or gone: so no claim is ever made for it again.      *)

BackendStep == {"spawned", "locked", "recorded", "serving", "leaving", "cleaned", "unrecorded", "gone"}
DeskStep == {"startup", "look", "spawn", "wait", "claim", "claiming", "revoked", "idle", "stop",
             "stopped", "restart", "dead"}
Backend == [at : BackendStep, pin : Desktop \cup {NoHost}, child : BOOLEAN]
DeskState == [at : DeskStep, attempt : Nat, goal : {"own", "restart", "replace"},
              inst : Nat, before : Nat, asked : Nat]

BackTypeOK ==
    /\ backends \in Seq(Backend) /\ Len(backends) <= MaxBackends
    /\ named \in Instance \cup {NoInstance}
    /\ claim \in [inst : Nat, host : Desktop \cup {NoHost}]
    /\ desk \in [Desktop -> DeskState]
    /\ granted \in [1..MaxBackends -> SUBSET Desktop]

(* The control lock is with the desktop that works under it. *)
ControlInv ==
    \A d \in Desktop :
        desk[d].at \in {"look", "spawn", "wait", "claiming", "stop", "stopped"} => control = d

(* One process at a time has the lifetime lock, and the record is of the   *)
(* one that wrote it; a process that never had the lock has no children.   *)
LockInv ==
    /\ \A i, j \in Instance : Locking(i) /\ Locking(j) => i = j
    /\ \A i \in Instance : backends[i].at \in {"recorded", "serving", "leaving", "cleaned"} => named = i
    /\ \A i \in Instance : backends[i].at = "spawned" => ~ backends[i].child

Gone(i) == i \in Instance /\ backends[i].at = "gone"

(* What a desktop knows of the instances it works with. *)
DeskOK(d) ==
    /\ desk[d].at \in {"spawn", "stopped"} => desk[d].inst = NoInstance \/ Gone(desk[d].inst)
    /\ desk[d].at = "wait" => desk[d].inst \in Instance
    /\ desk[d].at = "claiming" =>
         /\ desk[d].asked \in Instance /\ backends[desk[d].asked].at # "spawned"
         /\ \A i \in 1..MaxBackends : granted[i] # {} => i = desk[d].asked \/ Gone(i)

DeskInv == \A d \in Desktop : DeskOK(d)

(* A granted backend is the one of the claim on disk, or it is gone. *)
GrantInv ==
    \A i \in 1..MaxBackends : granted[i] # {} =>
        /\ i \in Instance /\ backends[i].at # "spawned"
        /\ \A d, e \in granted[i] : d = e
        /\ claim.inst # i =>
             Gone(i) /\ \A d \in Desktop : ~ (desk[d].at = "claiming" /\ desk[d].asked = i)

OwnerInv ==
    BackTypeOK /\ ControlInv /\ LockInv /\ DeskInv /\ GrantInv /\ ServesAlone

LEMMA OwnerInit0 == BackendInit => OwnerInv
<1> SUFFICES ASSUME BackendInit PROVE OwnerInv
  OBVIOUS
<1> USE BackendAssumption DEF BackendInit
<1>1. backends \in Seq(Backend) /\ Len(backends) = 0 /\ Instance = {}
  BY EmptySeq DEF Instance
<1>2. BackTypeOK
  <2>1. desk \in [Desktop -> DeskState]
    <3>1. [at |-> "startup", attempt |-> 1, goal |-> "own", inst |-> NoInstance,
                  before |-> NoInstance, asked |-> NoInstance] \in DeskState
      BY DEF DeskState, DeskStep, NoInstance
    <3> QED
      BY <3>1
  <2>2. claim \in [inst : Nat, host : Desktop \cup {NoHost}]
    BY DEF NoClaim, NoInstance
  <2> QED
    BY <1>1, <2>1, <2>2 DEF BackTypeOK
<1>3. ControlInv /\ DeskInv
  BY DEF ControlInv, DeskInv, DeskOK
<1>4. LockInv /\ GrantInv /\ ServesAlone
  BY <1>1 DEF LockInv, GrantInv, ServesAlone
<1> QED
  BY <1>2, <1>3, <1>4 DEF OwnerInv

(* What a step does to one process, and to one desktop. *)
Became(i, step) ==
    /\ backends' \in Seq(Backend) /\ Len(backends') = Len(backends) /\ Instance' = Instance
    /\ backends'[i].at = step
    /\ \A j \in Instance : j # i => backends'[j] = backends[j]

Does(d, step, inst, asked) ==
    /\ desk' \in [Desktop -> DeskState]
    /\ desk'[d].at = step /\ desk'[d].inst = inst /\ desk'[d].asked = asked
    /\ \A e \in Desktop : e # d => desk'[e] = desk[e]

LEMMA InstanceIs ==
  ASSUME BackTypeOK
  PROVE  /\ Instance = 1..Len(backends) /\ Len(backends) \in Nat
         /\ NoInstance \notin Instance /\ Instance \subseteq 1..MaxBackends
         /\ \A i \in Instance : backends[i] \in Backend
<1>1. Len(backends) \in Nat /\ Instance = 1..Len(backends)
  BY LenProperties DEF BackTypeOK, Instance
<1>2. \A i \in Instance : backends[i] \in Backend
  BY <1>1, ElementOfSeq DEF BackTypeOK
<1> QED
  BY <1>1, <1>2, BackendAssumption DEF BackTypeOK, NoInstance

LEMMA PoolReplaced ==
  ASSUME BackTypeOK, NEW i \in Instance, NEW b \in Backend, backends' = [backends EXCEPT ![i] = b]
  PROVE  Became(i, b.at) /\ backends'[i] = b
<1>1. i \in 1..Len(backends)
  BY InstanceIs
<1>2. /\ backends' \in Seq(Backend) /\ Len(backends') = Len(backends)
      /\ \A j \in 1..Len(backends) : backends'[j] = IF j = i THEN b ELSE backends[j]
  BY <1>1, ExceptSeq DEF BackTypeOK
<1>3. Instance' = Instance
  BY DEF Instance
<1> QED
  BY <1>1, <1>2, <1>3, InstanceIs DEF Became

LEMMA ToBecomes ==
  ASSUME BackTypeOK, NEW i \in Instance, NEW step \in BackendStep, To(i, step)
  PROVE  Became(i, step) /\ backends'[i].child = backends[i].child
<1> DEFINE b == [backends[i] EXCEPT !.at = step]
<1>1. backends[i] \in Backend
  BY InstanceIs
<1>2. b \in Backend /\ b.at = step /\ b.child = backends[i].child
  BY <1>1 DEF Backend
<1>3. backends' = [backends EXCEPT ![i] = b]
  BY DEF To
<1> HIDE DEF b
<1> QED
  BY <1>2, <1>3, PoolReplaced

(* No process that ended comes back, and none that began has not begun. *)
Ages ==
    /\ Instance \subseteq Instance' /\ Instance' \subseteq 1..MaxBackends
    /\ \A i \in Instance :
         /\ backends[i].at = "gone" => backends'[i].at = "gone"
         /\ backends'[i].at = "spawned" => backends[i].at = "spawned"

LEMMA BecameAges ==
  ASSUME BackTypeOK, NEW i \in Instance, NEW step, Became(i, step),
         backends[i].at # "gone" \/ step = "gone", step # "spawned"
  PROVE  Ages
  BY InstanceIs DEF Became, Ages

LEMMA Unaged ==
  ASSUME BackTypeOK, UNCHANGED backends
  PROVE  Ages /\ Instance' = Instance
  BY InstanceIs DEF Ages, Instance

LEMMA DeskKept ==
  ASSUME BackTypeOK, NEW d \in Desktop, DeskOK(d), Ages, UNCHANGED granted, desk'[d] = desk[d]
  PROVE  DeskOK(d)'
<1>1. \A i : Gone(i) => i \in Instance' /\ backends'[i].at = "gone"
  BY DEF Gone, Ages
<1>2. \A i \in Instance : i \in Instance' /\ (backends[i].at # "spawned" => backends'[i].at # "spawned")
  BY DEF Ages
<1> QED
  BY <1>1, <1>2 DEF DeskOK, Gone

LEMMA GrantKept ==
  ASSUME OwnerInv, Ages, UNCHANGED <<granted, claim>>,
         \A d \in Desktop : desk'[d].at = "claiming" =>
           \/ desk[d].at = "claiming" /\ desk'[d].asked = desk[d].asked
           \/ ~ Gone(desk'[d].asked)
  PROVE  GrantInv'
<1> SUFFICES ASSUME NEW i \in 1..MaxBackends, granted[i] # {}
             PROVE  /\ i \in Instance' /\ backends'[i].at # "spawned"
                    /\ \A d, e \in granted[i] : d = e
                    /\ claim.inst # i =>
                         /\ backends'[i].at = "gone"
                         /\ \A d \in Desktop : ~ (desk'[d].at = "claiming" /\ desk'[d].asked = i)
  BY DEF GrantInv, Gone
<1>1. /\ i \in Instance /\ backends[i].at # "spawned"
      /\ \A d, e \in granted[i] : d = e
      /\ claim.inst # i =>
           Gone(i) /\ \A d \in Desktop : ~ (desk[d].at = "claiming" /\ desk[d].asked = i)
  BY DEF OwnerInv, GrantInv
<1> QED
  BY <1>1 DEF Ages, Gone

(* A step of one process, which may begin to lock only when none does.      *)
LEMMA LockKept ==
  ASSUME OwnerInv, NEW i \in Instance, NEW step \in BackendStep \ {"spawned"}, Became(i, step),
         step = "gone" \/ Locking(i) \/ \A j \in Instance : ~ Locking(j),
         step \in {"recorded", "serving", "leaving", "cleaned"} => named' = i,
         \A j \in Instance : j # i /\ Locking(j) => named' = named,
         step = "serving" => backends[i].at = "serving",
         backends'[i].child => backends[i].child \/ Locking(i)
  PROVE  LockInv' /\ ServesAlone'
<1>1. /\ Instance' = Instance /\ backends'[i].at = step /\ step # "spawned"
      /\ \A j \in Instance : j # i => backends'[j] = backends[j]
  BY DEF Became
<1>2. \A j, k \in Instance : Locking(j)' /\ Locking(k)' => j = k
  BY <1>1 DEF OwnerInv, LockInv, Locking
<1>3. \A j \in Instance : backends'[j].at \in {"recorded", "serving", "leaving", "cleaned"} => named' = j
  BY <1>1 DEF OwnerInv, LockInv, Locking
<1>4. \A j \in Instance : backends'[j].at = "spawned" => ~ backends'[j].child
  BY <1>1 DEF OwnerInv, LockInv
<1>5. ASSUME NEW j \in Instance, backends'[j].at = "serving"
      PROVE  named' = j /\ \A k \in Instance \ {j} : ~ backends'[k].child
  <2>1. named' = j /\ backends[j].at = "serving" /\ Locking(j)
    BY <1>1, <1>3, <1>5 DEF Locking
  <2>2. \A k \in Instance \ {j} : ~ backends[k].child /\ ~ Locking(k)
    BY <2>1 DEF OwnerInv, ServesAlone, LockInv
  <2> QED
    BY <1>1, <2>1, <2>2
<1> QED
  BY <1>1, <1>2, <1>3, <1>4, <1>5 DEF LockInv, ServesAlone

LEMMA ProcessStep ==
  ASSUME OwnerInv, NEW i \in Instance, NEW step \in BackendStep \ {"spawned"}, Became(i, step),
         backends[i].at # "gone", UNCHANGED <<claim, control, desk, granted>>,
         named' \in Instance \cup {NoInstance}, LockInv', ServesAlone'
  PROVE  OwnerInv'
<1>1. Ages
  BY BecameAges DEF OwnerInv
<1>2. BackTypeOK' /\ ControlInv'
  BY DEF OwnerInv, BackTypeOK, ControlInv, Became
<1>3. DeskInv'
  BY <1>1, DeskKept DEF OwnerInv, DeskInv
<1>4. GrantInv'
  BY <1>1, GrantKept
<1> QED
  BY <1>2, <1>3, <1>4 DEF OwnerInv

LEMMA ProcessesKeep ==
  ASSUME OwnerInv, NEW i \in Instance,
         \/ TakeLifetime(i) \/ WriteRecord(i) \/ SweepFails(i)
         \/ ReleaseRecord(i) \/ ReleaseLifetime(i) \/ BackendDies(i)
  PROVE  OwnerInv'
<1>0. BackTypeOK /\ \A step \in {"locked", "recorded", "cleaned", "unrecorded", "gone"} : step \in BackendStep
  BY DEF OwnerInv, BackendStep
<1> DEFINE Kept(step) ==
             /\ To(i, step) /\ backends[i].at # "gone" /\ UNCHANGED <<claim, control, desk, granted>>
             /\ step = "gone" \/ Locking(i) \/ \A j \in Instance : ~ Locking(j)
             /\ step \in {"recorded", "serving", "leaving", "cleaned"} => named' = i
             /\ \A j \in Instance : j # i /\ Locking(j) => named' = named
             /\ named' \in Instance \cup {NoInstance}
<1>1. ASSUME NEW step \in {"locked", "recorded", "cleaned", "unrecorded", "gone"}, Kept(step)
      PROVE  OwnerInv'
  <2>1. Became(i, step) /\ backends'[i].child = backends[i].child
    BY <1>0, <1>1, ToBecomes
  <2>2. LockInv' /\ ServesAlone'
    BY <1>0, <1>1, <2>1, LockKept
  <2> QED
    BY <1>0, <1>1, <2>1, <2>2, ProcessStep
<1>2. CASE TakeLifetime(i)
  <2>1. CASE \E j \in Instance : Locking(j)
    <3>1. Kept("gone")
      BY <1>2, <2>1 DEF TakeLifetime, OwnerInv, BackTypeOK
    <3> QED
      BY <1>1, <3>1
  <2>2. CASE ~ \E j \in Instance : Locking(j)
    <3>1. Kept("locked")
      BY <1>2, <2>2 DEF TakeLifetime, OwnerInv, BackTypeOK
    <3> QED
      BY <1>1, <3>1
  <2> QED
    BY <2>1, <2>2
<1>3. CASE WriteRecord(i)
  <2>1. Kept("recorded")
    BY <1>3 DEF WriteRecord, OwnerInv, LockInv, Locking
  <2> QED
    BY <1>1, <2>1
<1>4. CASE SweepFails(i)
  <2>1. Kept("cleaned")
    BY <1>4 DEF SweepFails, OwnerInv, LockInv, Locking, BackTypeOK
  <2> QED
    BY <1>1, <2>1
<1>5. CASE ReleaseRecord(i)
  <2>1. Kept("unrecorded")
    BY <1>5 DEF ReleaseRecord, RecordGone, OwnerInv, LockInv, Locking, BackTypeOK
  <2> QED
    BY <1>1, <2>1
<1>6. CASE ReleaseLifetime(i)
  <2>1. Kept("gone")
    BY <1>6 DEF ReleaseLifetime, OwnerInv, BackTypeOK
  <2> QED
    BY <1>1, <2>1
<1>7. CASE BackendDies(i)
  <2>1. Kept("gone")
    BY <1>7 DEF BackendDies, Lives, OwnerInv, BackTypeOK
  <2> QED
    BY <1>1, <2>1
<1> QED
  BY <1>2, <1>3, <1>4, <1>5, <1>6, <1>7

(* Children and the watchdog: the process that serves or leaves has the lock. *)
LEMMA WatchKeeps ==
  ASSUME OwnerInv, NEW i \in Instance, ChildBegins(i) \/ Watch(i) \/ CleanOwn(i)
  PROVE  OwnerInv'
<1>0. BackTypeOK /\ backends[i] \in Backend
  BY InstanceIs DEF OwnerInv
<1>1. PICK b \in Backend :
        /\ backends' = [backends EXCEPT ![i] = b]
        /\ \/ b.at = backends[i].at /\ backends[i].at = "serving"
           \/ b.at = "leaving" /\ backends[i].at = "serving"
           \/ b.at = "cleaned" /\ backends[i].at = "leaving"
  <2>1. CASE ChildBegins(i)
    <3>1. [backends[i] EXCEPT !.child = TRUE] \in Backend
      BY <1>0 DEF Backend
    <3> QED
      BY <1>0, <2>1, <3>1 DEF ChildBegins, Backend
  <2>2. CASE Watch(i)
    <3>1. [backends[i] EXCEPT !.at = "leaving"] \in Backend
      BY <1>0 DEF Backend, BackendStep
    <3>2. [backends[i] EXCEPT !.pin = claim.host] \in Backend
      BY <1>0 DEF Backend, BackTypeOK
    <3>3. [backends[i] EXCEPT !.at = "leaving"].at = "leaving"
          /\ [backends[i] EXCEPT !.pin = claim.host].at = backends[i].at
      BY <1>0 DEF Backend
    <3>4. backends[i].at = "serving"
          /\ \/ backends' = [backends EXCEPT ![i] = [backends[i] EXCEPT !.at = "leaving"]]
             \/ backends' = [backends EXCEPT ![i] = [backends[i] EXCEPT !.pin = claim.host]]
      BY <2>2 DEF Watch, To
    <3> QED
      BY <3>1, <3>2, <3>3, <3>4
  <2>3. CASE CleanOwn(i)
    <3> DEFINE b == [[backends[i] EXCEPT !.at = "cleaned"] EXCEPT !.child = FALSE]
    <3>1. b \in Backend /\ b.at = "cleaned"
      BY <1>0 DEF Backend, BackendStep
    <3>2. backends' = [backends EXCEPT ![i] = b] /\ backends[i].at = "leaving"
      BY <2>3 DEF CleanOwn, BackTypeOK, OwnerInv
    <3> QED
      BY <3>1, <3>2
  <2> QED
    BY <2>1, <2>2, <2>3
<1>2. Became(i, b.at)
  BY <1>0, <1>1, PoolReplaced
<1>3. Locking(i) /\ UNCHANGED <<named, claim, control, desk, granted>> /\ b.at \in BackendStep \ {"spawned"}
  BY <1>1 DEF ChildBegins, Watch, CleanOwn, Locking, BackendStep
<1>4. LockInv' /\ ServesAlone'
  <2>1. named = i
    BY <1>1 DEF OwnerInv, LockInv
  <2> QED
    BY <1>1, <1>2, <1>3, <2>1, LockKept
<1>5. named' \in Instance \cup {NoInstance} /\ backends[i].at # "gone"
  BY <1>1, <1>3 DEF OwnerInv, BackTypeOK
<1> QED
  BY <1>2, <1>3, <1>4, <1>5, ProcessStep

(* A step that may change every process keeps how many there are. *)
LEMMA Mapped ==
  ASSUME BackTypeOK, backends' \in [Instance -> Backend]
  PROVE  backends' \in Seq(Backend) /\ Len(backends') = Len(backends) /\ Instance' = Instance
<1>1. Instance = 1..Len(backends) /\ Len(backends) \in Nat
  BY InstanceIs
<1>2. backends' \in Seq(Backend)
  BY <1>1, SeqDef
<1>3. Instance' = Instance
  BY DEF Instance
<1>4. Len(backends') \in Nat /\ DOMAIN backends' = 1..Len(backends')
  BY <1>2, LenProperties
<1>5. 1..Len(backends') = 1..Len(backends)
  BY <1>1, <1>3, <1>4 DEF Instance
<1> QED
  BY <1>1, <1>2, <1>3, <1>4, <1>5

(* The children of the processes that ended are ended before the server     *)
(* listens.                                                                 *)
LEMMA SweepOrphansKeeps ==
  ASSUME OwnerInv, NEW i \in Instance, SweepOrphans(i)
  PROVE  OwnerInv'
<1>0. BackTypeOK /\ \A j \in Instance : backends[j] \in Backend
  BY InstanceIs DEF OwnerInv
<1> DEFINE swept(j) == [backends[j] EXCEPT !.child = @ /\ Lives(j)]
<1>1. \A j \in Instance : swept(j) \in Backend /\ swept(j).at = backends[j].at
                       /\ (swept(j).child => Lives(j))
  <2> SUFFICES ASSUME NEW j \in Instance
               PROVE  swept(j) \in Backend /\ swept(j).at = backends[j].at
                      /\ (swept(j).child => Lives(j))
    OBVIOUS
  <2>1. backends[j] \in Backend
    BY <1>0
  <2>2. (backends[j].child /\ Lives(j)) \in BOOLEAN
    BY DEF Lives
  <2> QED
    BY <2>1, <2>2 DEF Backend
<1>2. Swept = [j \in Instance |-> swept(j)]
  BY DEF Swept
<1> HIDE DEF swept
<1>3. backends' = [Swept EXCEPT ![i].at = "serving"] /\ backends[i].at = "recorded"
      /\ UNCHANGED <<named, claim, control, desk, granted>>
  BY DEF SweepOrphans
<1> DEFINE own == [swept(i) EXCEPT !.at = "serving"]
<1>4. own \in Backend /\ own.at = "serving"
  BY <1>1 DEF Backend, BackendStep
<1>5. backends' = [j \in Instance |-> IF j = i THEN own ELSE swept(j)]
  BY <1>2, <1>3
<1> HIDE DEF own
<1>6. backends' \in [Instance -> Backend]
  BY <1>1, <1>4, <1>5
<1>7. backends' \in Seq(Backend) /\ Len(backends') = Len(backends) /\ Instance' = Instance
  BY <1>0, <1>6, Mapped
<1>8. /\ backends'[i].at = "serving"
      /\ \A j \in Instance : j # i => backends'[j].at = backends[j].at
                                      /\ (backends'[j].child => backends[j].at # "gone")
  BY <1>1, <1>4, <1>5 DEF Lives
<1>9. Locking(i) /\ named = i /\ \A j \in Instance : j # i => ~ Locking(j)
  BY <1>3 DEF OwnerInv, LockInv, Locking
<1>10. LockInv'
  <2>1. \A j, k \in Instance : Locking(j)' /\ Locking(k)' => j = k
    BY <1>8, <1>9 DEF Locking
  <2>2. \A j \in Instance : backends'[j].at \in {"recorded", "serving", "leaving", "cleaned"} => j = i
    BY <1>8, <1>9 DEF Locking
  <2>3. \A j \in Instance : backends'[j].at = "spawned" => j # i /\ ~ backends'[j].child
    <3> SUFFICES ASSUME NEW j \in Instance, backends'[j].at = "spawned"
                 PROVE  j # i /\ ~ backends'[j].child
      OBVIOUS
    <3>1. j # i /\ backends[j].at = "spawned" /\ ~ backends[j].child
      BY <1>8 DEF OwnerInv, LockInv
    <3>2. ~ swept(j).child
      <4>1. backends[j] \in Backend
        BY <1>0
      <4> QED
        BY <3>1, <4>1 DEF swept, Backend
    <3> QED
      BY <1>5, <3>1, <3>2
  <2> QED
    BY <1>3, <1>7, <1>9, <2>1, <2>2, <2>3 DEF LockInv
<1>11. ServesAlone'
  <2>1. \A j \in Instance : backends'[j].at = "serving" => j = i
    BY <1>8, <1>9 DEF Locking
  <2>2. \A k \in Instance \ {i} : ~ backends'[k].child
    <3> SUFFICES ASSUME NEW k \in Instance, k # i, backends'[k].child PROVE FALSE
      OBVIOUS
    <3>1. backends'[k].at = "spawned" /\ backends[k].at = "spawned"
      BY <1>8, <1>9 DEF Locking
    <3> QED
      BY <1>7, <1>10, <3>1 DEF LockInv
  <2> QED
    BY <1>3, <1>7, <1>9, <2>1, <2>2 DEF ServesAlone
<1>12. Ages
  BY <1>0, <1>3, <1>7, <1>8, InstanceIs DEF Ages
<1>13. BackTypeOK' /\ ControlInv'
  BY <1>3, <1>7 DEF OwnerInv, BackTypeOK, ControlInv
<1>14. DeskInv'
  BY <1>3, <1>12, DeskKept DEF OwnerInv, DeskInv
<1>15. GrantInv'
  BY <1>3, <1>12, GrantKept
<1> QED
  BY <1>10, <1>11, <1>13, <1>14, <1>15 DEF OwnerInv

(* A step of a desktop that touches no process: what it makes of its own    *)
(* state, of the control lock and of the record.                            *)
LEMMA DeskStepKeeps ==
  ASSUME OwnerInv, NEW d \in Desktop, UNCHANGED <<backends, named, claim, granted>>,
         NEW step, NEW inst, NEW asked, Does(d, step, inst, asked),
         \/ control' = control
         \/ control' = d /\ control = NoHost
         \/ control' = NoHost /\ control = d,
         step \in {"look", "spawn", "wait", "claiming", "stop", "stopped"} => control' = d,
         DeskOK(d)',
         step = "claiming" => ~ Gone(asked)
  PROVE  OwnerInv'
<1>0. d # NoHost /\ Ages /\ Instance' = Instance
  BY Unaged, BackendAssumption DEF OwnerInv
<1>1. BackTypeOK' /\ LockInv' /\ ServesAlone'
  BY <1>0 DEF OwnerInv, BackTypeOK, LockInv, ServesAlone, Locking, Does
<1>2. ControlInv'
  BY <1>0, BackendAssumption DEF OwnerInv, ControlInv, Does
<1>3. DeskInv'
  BY <1>0, DeskKept DEF OwnerInv, DeskInv, Does
<1>4. GrantInv'
  BY <1>0, GrantKept DEF Does
<1> QED
  BY <1>1, <1>2, <1>3, <1>4 DEF OwnerInv

LEMMA RaisedDoes ==
  ASSUME OwnerInv, NEW d \in Desktop, Raised(d)
  PROVE  /\ control' = control \/ (control' = NoHost /\ control = d)
         /\ \E step \in {"idle", "startup"} : \E inst, asked : Does(d, step, inst, asked)
<1>1. desk[d] \in DeskState /\ desk \in [Desktop -> DeskState]
  BY DEF OwnerInv, BackTypeOK
<1> DEFINE idle == [desk[d] EXCEPT !.at = "idle"]
           again == [desk[d] EXCEPT !.at = "startup", !.attempt = desk[d].attempt + 1, !.goal = "own"]
<1>2. idle \in DeskState /\ idle.at = "idle"
  BY <1>1 DEF DeskState, DeskStep
<1>3. again \in DeskState /\ again.at = "startup"
  <2>1. desk[d].attempt + 1 \in Nat
    BY <1>1 DEF DeskState
  <2> QED
    BY <1>1, <2>1 DEF DeskState, DeskStep
<1>4. desk' = [desk EXCEPT ![d] = idle] \/ desk' = [desk EXCEPT ![d] = again]
  <2>1. CASE desk[d].goal = "restart" \/ desk[d].attempt = MaxAttempts
    BY <1>1, <2>1 DEF Raised
  <2>2. CASE ~ (desk[d].goal = "restart" \/ desk[d].attempt = MaxAttempts)
    BY <1>1, <2>2 DEF Raised
  <2> QED
    BY <2>1, <2>2
<1>5. control' = control \/ (control' = NoHost /\ control = d)
  BY DEF Raised
<1>6. CASE desk' = [desk EXCEPT ![d] = idle]
  <2> HIDE DEF idle
  <2>1. desk' \in [Desktop -> DeskState] /\ desk'[d] = idle /\ \A e \in Desktop : e # d => desk'[e] = desk[e]
    BY <1>1, <1>2, <1>6
  <2>2. Does(d, "idle", desk'[d].inst, desk'[d].asked)
    BY <1>2, <2>1 DEF Does
  <2> QED
    BY <1>5, <2>2
<1>7. CASE desk' = [desk EXCEPT ![d] = again]
  <2> HIDE DEF again
  <2>1. desk' \in [Desktop -> DeskState] /\ desk'[d] = again /\ \A e \in Desktop : e # d => desk'[e] = desk[e]
    BY <1>1, <1>3, <1>7
  <2>2. Does(d, "startup", desk'[d].inst, desk'[d].asked)
    BY <1>3, <2>1 DEF Does
  <2> QED
    BY <1>5, <2>2
<1> QED
  BY <1>4, <1>6, <1>7

LEMMA RaisedKeeps ==
  ASSUME OwnerInv, NEW d \in Desktop, Raised(d), UNCHANGED <<backends, named, claim, granted>>
  PROVE  OwnerInv'
<1>0. PICK step \in {"idle", "startup"} : \E inst, asked : Does(d, step, inst, asked)
  BY RaisedDoes
<1>1. PICK inst, asked : Does(d, step, inst, asked)
  BY <1>0
<1>2. DeskOK(d)'
  BY <1>1 DEF DeskOK, Does
<1> QED
  BY <1>1, <1>2, RaisedDoes, DeskStepKeeps

LEMMA DeskBecomes ==
  ASSUME OwnerInv, NEW d \in Desktop, NEW s \in DeskState, desk' = [desk EXCEPT ![d] = s]
  PROVE  Does(d, s.at, s.inst, s.asked)
  BY DEF OwnerInv, BackTypeOK, Does

LEMMA AtBecomes ==
  ASSUME OwnerInv, NEW d \in Desktop, NEW step \in DeskStep, DeskTo(d, step)
  PROVE  Does(d, step, desk[d].inst, desk[d].asked)
<1>1. desk[d] \in DeskState /\ desk \in [Desktop -> DeskState]
  BY DEF OwnerInv, BackTypeOK
<1> DEFINE s == [desk[d] EXCEPT !.at = step]
<1>2. s \in DeskState /\ s.at = step /\ s.inst = desk[d].inst /\ s.asked = desk[d].asked
  BY <1>1 DEF DeskState
<1>3. desk' = [desk EXCEPT ![d] = s]
  BY <1>1 DEF DeskTo
<1> HIDE DEF s
<1>4. Does(d, s.at, s.inst, s.asked)
  BY <1>2, <1>3, DeskBecomes
<1> QED
  BY <1>2, <1>4

LEMMA InstBecomes ==
  ASSUME OwnerInv, NEW d \in Desktop, NEW step \in DeskStep, NEW i \in Nat,
         desk' = [desk EXCEPT ![d].at = step, ![d].inst = i]
  PROVE  Does(d, step, i, desk[d].asked)
<1>1. desk[d] \in DeskState /\ desk \in [Desktop -> DeskState]
  BY DEF OwnerInv, BackTypeOK
<1> DEFINE s == [[desk[d] EXCEPT !.at = step] EXCEPT !.inst = i]
<1>2. s \in DeskState /\ s.at = step /\ s.inst = i /\ s.asked = desk[d].asked
  BY <1>1 DEF DeskState
<1>3. desk' = [desk EXCEPT ![d] = s]
  BY <1>1
<1> HIDE DEF s
<1>4. Does(d, s.at, s.inst, s.asked)
  BY <1>2, <1>3, DeskBecomes
<1> QED
  BY <1>2, <1>4

LEMMA NamedIsNat == OwnerInv => named \in Nat /\ (named # NoInstance => named \in Instance)
  BY InstanceIs DEF OwnerInv, BackTypeOK, NoInstance

(* The steps of a desktop that begin, wait and give up. *)
LEMMA StartsKeep ==
  ASSUME OwnerInv, NEW d \in Desktop,
         \/ BeginStart(d) \/ LookFirst(d) \/ BackendReady(d) \/ DesktopDies(d)
         \/ RevokedStays(d) \/ StopUnconfirmed(d) \/ RestartAfterStop(d)
  PROVE  OwnerInv'
<1>0. /\ \A step \in {"look", "claim", "spawn", "startup", "dead"} : step \in DeskStep
      /\ d # NoHost /\ named \in Nat
  BY NamedIsNat, BackendAssumption DEF DeskStep
<1>1. CASE BeginStart(d)
  <2>1. Does(d, "look", desk[d].inst, desk[d].asked)
    BY <1>0, <1>1, AtBecomes DEF BeginStart
  <2>2. DeskOK(d)'
    BY <2>1 DEF DeskOK, Does
  <2> QED
    BY <1>1, <2>1, <2>2, DeskStepKeeps DEF BeginStart
<1>2. CASE LookFirst(d)
  <2>1. control = d /\ UNCHANGED <<backends, named, claim, granted>>
    BY <1>2 DEF LookFirst, OwnerInv, ControlInv
  <2>2. CASE desk' = [desk EXCEPT ![d].at = "claim", ![d].inst = named] /\ control' = NoHost
    <3>1. Does(d, "claim", named, desk[d].asked)
      BY <1>0, <2>2, InstBecomes
    <3>2. DeskOK(d)'
      BY <3>1 DEF DeskOK, Does
    <3> QED
      BY <2>1, <2>2, <3>1, <3>2, DeskStepKeeps
  <2>3. CASE Raised(d)
    BY <2>1, <2>3, RaisedKeeps
  <2>4. CASE /\ desk' = [desk EXCEPT ![d].at = "spawn", ![d].inst = named] /\ control' = control
             /\ {"stale", "stopped"} \cap StatusOf(named) # {}
    <3>1. Does(d, "spawn", named, desk[d].asked)
      BY <1>0, <2>4, InstBecomes
    <3>2. named = NoInstance \/ Gone(named)
      BY <2>4, NamedIsNat DEF StatusOf, Gone, Lives
    <3>3. DeskOK(d)'
      BY <2>1, <3>1, <3>2 DEF DeskOK, Does, Gone, Instance
    <3> QED
      BY <2>1, <2>4, <3>1, <3>3, DeskStepKeeps
  <2> QED
    BY <1>2, <2>2, <2>3, <2>4 DEF LookFirst
<1>3. CASE BackendReady(d)
  <2>1. control = d
    BY <1>3 DEF BackendReady, OwnerInv, ControlInv
  <2>2. Does(d, "claim", named, desk[d].asked)
    BY <1>0, <1>3, InstBecomes DEF BackendReady
  <2>3. DeskOK(d)'
    BY <2>2 DEF DeskOK, Does
  <2> QED
    BY <1>3, <2>1, <2>2, <2>3, DeskStepKeeps DEF BackendReady
<1>4. CASE DesktopDies(d)
  <2>1. Does(d, "dead", desk[d].inst, desk[d].asked)
    BY <1>0, <1>4, AtBecomes DEF DesktopDies
  <2>2. DeskOK(d)'
    BY <2>1 DEF DeskOK, Does
  <2> QED
    BY <1>4, <2>1, <2>2, DeskStepKeeps DEF DesktopDies
<1>5. CASE RevokedStays(d) \/ StopUnconfirmed(d)
  BY <1>5, RaisedKeeps DEF RevokedStays, StopUnconfirmed
<1>6. CASE RestartAfterStop(d)
  <2>1. CASE named = NoInstance
    <3>1. Does(d, "startup", desk[d].inst, desk[d].asked)
      BY <1>0, <1>6, <2>1, AtBecomes DEF RestartAfterStop
    <3>2. DeskOK(d)'
      BY <3>1 DEF DeskOK, Does
    <3> QED
      BY <1>6, <2>1, <3>1, <3>2, DeskStepKeeps DEF RestartAfterStop
  <2>2. CASE named # NoInstance
    BY <1>6, <2>2, RaisedKeeps DEF RestartAfterStop
  <2> QED
    BY <2>1, <2>2
<1> QED
  BY <1>1, <1>2, <1>3, <1>4, <1>5, <1>6

(* A desktop that replaces or restarts a backend notes why. *)
LEMMA GoalsKeep ==
  ASSUME OwnerInv, NEW d \in Desktop, RevokedStopped(d) \/ BeginRestart(d)
  PROVE  OwnerInv'
<1>1. desk[d] \in DeskState /\ desk \in [Desktop -> DeskState] /\ named \in Nat
  BY NamedIsNat DEF OwnerInv, BackTypeOK
<1>2. CASE RevokedStopped(d)
  <2> DEFINE s == [[desk[d] EXCEPT !.at = "startup"] EXCEPT !.goal = "replace"]
  <2>1. s \in DeskState /\ s.at = "startup"
    BY <1>1 DEF DeskState, DeskStep
  <2>2. desk' = [desk EXCEPT ![d] = s]
    BY <1>1, <1>2 DEF RevokedStopped
  <2> HIDE DEF s
  <2>3. Does(d, "startup", s.inst, s.asked)
    BY <2>1, <2>2, DeskBecomes
  <2>4. DeskOK(d)'
    BY <2>3 DEF DeskOK, Does
  <2> QED
    BY <1>2, <2>3, <2>4, DeskStepKeeps DEF RevokedStopped
<1>3. CASE BeginRestart(d)
  <2> DEFINE s == [[[desk[d] EXCEPT !.at = "stop"] EXCEPT !.goal = "restart"] EXCEPT !.before = named]
  <2>1. s \in DeskState /\ s.at = "stop"
    BY <1>1 DEF DeskState, DeskStep
  <2>2. desk' = [desk EXCEPT ![d] = s]
    BY <1>1, <1>3 DEF BeginRestart
  <2> HIDE DEF s
  <2>3. Does(d, "stop", s.inst, s.asked)
    BY <2>1, <2>2, DeskBecomes
  <2>4. DeskOK(d)'
    BY <2>3 DEF DeskOK, Does
  <2> QED
    BY <1>3, <2>3, <2>4, DeskStepKeeps DEF BeginRestart
<1> QED
  BY <1>2, <1>3

(* A claim begins with the backend that is ready: every other one that was  *)
(* ever granted has ended, as one process at a time has the lifetime lock.  *)
LEMMA BeginClaimKeeps ==
  ASSUME OwnerInv, NEW d \in Desktop, BeginClaim(d)
  PROVE  OwnerInv'
<1>1. UNCHANGED <<backends, named, claim, granted>> /\ control = NoHost
  BY DEF BeginClaim
<1>2. CASE Raised(d)
  BY <1>1, <1>2, RaisedKeeps
<1>3. CASE /\ "running" \in StatusOf(named) /\ control' = d
           /\ desk' = [desk EXCEPT ![d].at = "claiming", ![d].asked = named]
  <2>1. named \in Instance /\ Locking(named) /\ named \in Nat
    BY <1>3, NamedIsNat DEF StatusOf, Locking, Lives
  <2>2. Does(d, "claiming", desk[d].inst, named)
    <3>1. desk[d] \in DeskState /\ desk \in [Desktop -> DeskState]
      BY DEF OwnerInv, BackTypeOK
    <3> DEFINE s == [[desk[d] EXCEPT !.at = "claiming"] EXCEPT !.asked = named]
    <3>2. s \in DeskState /\ s.at = "claiming" /\ s.inst = desk[d].inst /\ s.asked = named
      BY <2>1, <3>1 DEF DeskState, DeskStep
    <3>3. desk' = [desk EXCEPT ![d] = s]
      BY <1>3, <3>1
    <3> HIDE DEF s
    <3>4. Does(d, s.at, s.inst, s.asked)
      BY <3>2, <3>3, DeskBecomes
    <3> QED
      BY <3>2, <3>4
  <2>3. \A i \in 1..MaxBackends : granted[i] # {} => i = named \/ Gone(i)
    BY <2>1 DEF OwnerInv, GrantInv, LockInv, Locking, Gone
  <2>4. DeskOK(d)'
    BY <1>1, <2>1, <2>2, <2>3 DEF DeskOK, Does, Gone, Instance, Locking
  <2>5. ~ Gone(named)
    BY <2>1 DEF Gone, Locking
  <2> QED
    BY <1>1, <1>3, <2>2, <2>4, <2>5, DeskStepKeeps
<1> QED
  BY <1>2, <1>3 DEF BeginClaim

LEMMA IdleKeeps ==
  ASSUME OwnerInv, NEW d \in Desktop, UNCHANGED <<backends, named, claim, granted>>,
         NEW step \in {"idle", "revoked"}, DeskTo(d, step), control = d, control' = NoHost
  PROVE  OwnerInv'
<1>1. Does(d, step, desk[d].inst, desk[d].asked)
  BY AtBecomes DEF DeskStep
<1>2. DeskOK(d)'
  BY <1>1 DEF DeskOK, Does
<1> QED
  BY <1>1, <1>2, DeskStepKeeps

(* The claim is written over that of an instance that has ended. *)
LEMMA ClaimedKeeps ==
  ASSUME OwnerInv, NEW d \in Desktop, desk[d].at = "claiming",
         claim.inst # desk[d].asked, Claimed(d, desk[d].asked), Owns(d), UNCHANGED <<backends, named>>
  PROVE  OwnerInv'
<1> DEFINE i == desk[d].asked
<1>1. /\ control = d /\ i \in Instance /\ backends[i].at # "spawned" /\ i \in 1..MaxBackends
      /\ \A j \in 1..MaxBackends : granted[j] # {} => j = i \/ Gone(j)
  BY InstanceIs DEF OwnerInv, ControlInv, DeskInv, DeskOK
<1>2. granted[i] = {}
  BY <1>1 DEF OwnerInv, GrantInv
<1>3. PICK step \in {"idle", "startup"} : \E inst, asked : Does(d, step, inst, asked)
  <2>1. CASE Raised(d)
    BY <2>1, RaisedDoes
  <2>2. CASE DeskTo(d, "idle")
    BY <2>2, AtBecomes DEF DeskStep
  <2> QED
    BY <2>1, <2>2 DEF Owns
<1>4. PICK inst, asked : Does(d, step, inst, asked)
  BY <1>3
<1>5. control' = NoHost \/ control' = control
  BY <1>1 DEF Owns, Raised
<1>6. /\ Instance' = Instance /\ claim'.inst = i
      /\ claim' \in [inst : Nat, host : Desktop \cup {NoHost}]
      /\ granted' = [granted EXCEPT ![i] = {d}]
  <2>1. i \in Nat
    BY <1>1
  <2> QED
    BY <1>2, <2>1 DEF Claimed, Instance
<1>7. granted' \in [1..MaxBackends -> SUBSET Desktop] /\ granted'[i] = {d}
      /\ \A j \in 1..MaxBackends : j # i => granted'[j] = granted[j]
  BY <1>1, <1>6 DEF OwnerInv, BackTypeOK
<1> HIDE DEF i
<1>8. BackTypeOK' /\ LockInv' /\ ServesAlone'
  BY <1>4, <1>6, <1>7 DEF OwnerInv, BackTypeOK, LockInv, ServesAlone, Locking, Does
<1>9. ControlInv'
  BY <1>1, <1>4, <1>5, BackendAssumption DEF OwnerInv, ControlInv, Does
<1>10. \A e \in Desktop : desk'[e].at # "claiming"
  BY <1>1, <1>4 DEF OwnerInv, ControlInv, Does
<1>11. DeskInv'
  <2> SUFFICES ASSUME NEW e \in Desktop PROVE DeskOK(e)'
    BY DEF DeskInv
  <2>1. CASE e = d
    BY <1>4, <2>1 DEF DeskOK, Does
  <2>2. CASE e # d
    BY <1>4, <1>6, <1>10, <2>2 DEF DeskOK, Does, Gone, OwnerInv, DeskInv
  <2> QED
    BY <2>1, <2>2
<1>12. GrantInv'
  <2> SUFFICES ASSUME NEW j \in 1..MaxBackends, granted'[j] # {}
               PROVE  /\ j \in Instance /\ backends[j].at # "spawned"
                      /\ \A e, f \in granted'[j] : e = f
                      /\ claim'.inst # j => Gone(j)
    BY <1>6, <1>10 DEF GrantInv, Gone
  <2>1. CASE j = i
    BY <1>1, <1>6, <1>7, <2>1
  <2>2. CASE j # i
    BY <1>1, <1>7, <2>2 DEF OwnerInv, GrantInv, i
  <2> QED
    BY <2>1, <2>2
<1> QED
  BY <1>8, <1>9, <1>11, <1>12 DEF OwnerInv

LEMMA WriteClaimKeeps ==
  ASSUME OwnerInv, NEW d \in Desktop, WriteClaim(d)
  PROVE  OwnerInv'
<1>1. control = d /\ desk[d].at = "claiming" /\ UNCHANGED <<backends, named>>
  BY DEF WriteClaim, OwnerInv, ControlInv
<1>2. CASE UNCHANGED <<claim, granted>> /\ Owns(d)
  BY <1>1, <1>2, IdleKeeps, RaisedKeeps DEF Owns
<1>3. CASE /\ UNCHANGED <<claim, granted>> /\ control' = NoHost
           /\ DeskTo(d, "idle") \/ DeskTo(d, "revoked")
  BY <1>1, <1>3, IdleKeeps
<1>4. CASE UNCHANGED <<claim, granted>> /\ Raised(d)
  BY <1>1, <1>4, RaisedKeeps
<1>5. CASE /\ claim.inst # desk[d].asked /\ Claimed(d, desk[d].asked) /\ Owns(d)
  BY <1>1, <1>5, ClaimedKeeps
<1> QED
  BY <1>2, <1>3, <1>4, <1>5 DEF WriteClaim, LivingClaim, RevokedClaim

(* A step of a desktop that begins or ends processes. *)
LEMMA DeskEndsKeep ==
  ASSUME OwnerInv, NEW d \in Desktop, UNCHANGED <<claim, granted>>, Ages,
         backends' \in Seq(Backend), Len(backends') <= MaxBackends,
         named' \in Instance' \cup {NoInstance},
         NEW step, NEW inst, NEW asked, Does(d, step, inst, asked), step # "claiming",
         \/ control' = control
         \/ control' = NoHost /\ control = d,
         step \in {"look", "spawn", "wait", "stop", "stopped"} => control' = d,
         DeskOK(d)', LockInv', ServesAlone'
  PROVE  OwnerInv'
<1>1. BackTypeOK'
  BY DEF OwnerInv, BackTypeOK, Does
<1>2. ControlInv'
  BY BackendAssumption DEF OwnerInv, ControlInv, Does
<1>3. DeskInv'
  BY DeskKept DEF OwnerInv, DeskInv, Does
<1>4. GrantInv'
  BY GrantKept DEF Does
<1> QED
  BY <1>1, <1>2, <1>3, <1>4 DEF OwnerInv

(* A process that ended takes no lock and no record with it. *)
LEMMA EndedLock ==
  ASSUME OwnerInv, Instance' = Instance,
         \A j \in Instance : /\ backends'[j].at \in {backends[j].at, "gone"}
                             /\ backends'[j].child => backends[j].child,
         \A j \in Instance : backends'[j].at \in {"recorded", "serving", "leaving", "cleaned"}
                             => named' = named
  PROVE  LockInv' /\ ServesAlone' /\ Ages
<1>1. \A j \in Instance : Locking(j)' => Locking(j) /\ backends'[j].at = backends[j].at
  BY DEF Locking
<1>2. \A j, k \in Instance : Locking(j)' /\ Locking(k)' => j = k
  BY <1>1 DEF OwnerInv, LockInv
<1>3. \A j \in Instance : backends'[j].at \in {"recorded", "serving", "leaving", "cleaned"} => named' = j
  BY DEF OwnerInv, LockInv
<1>4. \A j \in Instance : backends'[j].at = "spawned" => ~ backends'[j].child
  BY DEF OwnerInv, LockInv
<1>5. ASSUME NEW j \in Instance, backends'[j].at = "serving"
      PROVE  named' = j /\ \A k \in Instance \ {j} : ~ backends'[k].child
  <2>1. backends[j].at = "serving"
    BY <1>5
  <2> QED
    BY <1>3, <1>5, <2>1 DEF OwnerInv, ServesAlone
<1>6. Ages
  BY InstanceIs DEF Ages, OwnerInv
<1> QED
  BY <1>2, <1>3, <1>4, <1>5, <1>6 DEF LockInv, ServesAlone

LEMMA SpawnKeeps ==
  ASSUME OwnerInv, NEW d \in Desktop, SpawnBackend(d)
  PROVE  OwnerInv'
<1>1. PICK n : n = Len(backends) + 1
  OBVIOUS
<1>2. /\ desk[d].at = "spawn" /\ n <= MaxBackends /\ n \in Nat /\ n # 0
      /\ backends' = Append(backends, Spawned) /\ UNCHANGED <<claim, control, granted>>
      /\ named' = (IF named = desk[d].inst THEN NoInstance ELSE named)
      /\ desk' = [desk EXCEPT ![d].at = "wait", ![d].inst = n]
  <2>1. Len(backends) \in Nat
    BY InstanceIs DEF OwnerInv
  <2> QED
    BY <1>1, <2>1, BackendAssumption DEF SpawnBackend, RecordGone
<1>3. Spawned \in Backend /\ Spawned.at = "spawned" /\ ~ Spawned.child
  BY DEF Spawned, Backend, BackendStep
<1>4. /\ backends' \in Seq(Backend) /\ Len(backends') = n /\ backends'[n] = Spawned
      /\ \A j \in 1..Len(backends) : backends'[j] = backends[j]
  BY <1>1, <1>2, <1>3, AppendProperties DEF OwnerInv, BackTypeOK
<1>5. Instance = 1..Len(backends) /\ Len(backends) \in Nat /\ Instance' = Instance \cup {n} /\ n \notin Instance
  <2>1. Instance' = 1..n
    BY <1>4, LenProperties DEF Instance
  <2> QED
    BY <1>1, <2>1, InstanceIs DEF OwnerInv
<1>6. Ages
  BY <1>2, <1>4, <1>5, InstanceIs, BackendAssumption DEF OwnerInv, Ages
<1>7. Does(d, "wait", n, desk[d].asked)
  BY <1>2, InstBecomes DEF DeskStep
<1>8. desk[d].inst = NoInstance \/ Gone(desk[d].inst)
  BY <1>2 DEF OwnerInv, DeskInv, DeskOK
<1>9. LockInv'
  <2>1. \A i, j \in Instance' : Locking(i)' /\ Locking(j)' => i = j
    BY <1>3, <1>4, <1>5 DEF OwnerInv, LockInv, Locking
  <2>2. ASSUME NEW i \in Instance', backends'[i].at \in {"recorded", "serving", "leaving", "cleaned"}
        PROVE  named' = i
    <3>1. i \in Instance /\ backends[i].at = backends'[i].at
      BY <1>3, <1>4, <1>5, <2>2
    <3>2. named = i
      BY <2>2, <3>1 DEF OwnerInv, LockInv
    <3> QED
      BY <1>2, <1>8, <2>2, <3>1, <3>2, InstanceIs DEF Gone, OwnerInv
  <2>3. \A i \in Instance' : backends'[i].at = "spawned" => ~ backends'[i].child
    BY <1>3, <1>4, <1>5 DEF OwnerInv, LockInv
  <2> QED
    BY <2>1, <2>2, <2>3 DEF LockInv
<1>10. ServesAlone'
  <2> SUFFICES ASSUME NEW i \in Instance', backends'[i].at = "serving"
               PROVE  named' = i /\ \A j \in Instance' \ {i} : ~ backends'[j].child
    BY DEF ServesAlone
  <2>1. i \in Instance /\ backends[i].at = "serving"
    BY <1>3, <1>4, <1>5
  <2> QED
    BY <1>3, <1>4, <1>5, <1>9, <2>1 DEF OwnerInv, ServesAlone, LockInv
<1>11. DeskOK(d)'
  BY <1>5, <1>7 DEF DeskOK, Does
<1>12. named' \in Instance' \cup {NoInstance} /\ control = d
  BY <1>2, <1>5 DEF OwnerInv, BackTypeOK, ControlInv
<1> QED
  BY <1>2, <1>4, <1>6, <1>7, <1>9, <1>10, <1>11, <1>12, DeskEndsKeep

LEMMA BackendFailsKeeps ==
  ASSUME OwnerInv, NEW d \in Desktop, BackendFails(d)
  PROVE  OwnerInv'
<1>1. /\ desk[d].at = "wait" /\ To(desk[d].inst, "gone") /\ Raised(d)
      /\ UNCHANGED <<named, claim, granted>>
  BY DEF BackendFails
<1>2. desk[d].inst \in Instance /\ BackTypeOK
  BY <1>1 DEF OwnerInv, DeskInv, DeskOK
<1>3. Became(desk[d].inst, "gone") /\ backends'[desk[d].inst].child = backends[desk[d].inst].child
  BY <1>1, <1>2, ToBecomes DEF BackendStep
<1>4. PICK step \in {"idle", "startup"} : \E inst, asked : Does(d, step, inst, asked)
  BY <1>1, RaisedDoes
<1>5. PICK inst, asked : Does(d, step, inst, asked)
  BY <1>4
<1>6. LockInv' /\ ServesAlone' /\ Ages
  BY <1>1, <1>2, <1>3, EndedLock DEF Became
<1>7. DeskOK(d)'
  BY <1>5 DEF DeskOK, Does
<1>8. /\ backends' \in Seq(Backend) /\ Len(backends') <= MaxBackends
      /\ named' \in Instance' \cup {NoInstance}
  BY <1>1, <1>2, <1>3 DEF Became, BackTypeOK
<1> QED
  BY <1>1, <1>5, <1>6, <1>7, <1>8, RaisedDoes, DeskEndsKeep

LEMMA StopKeeps ==
  ASSUME OwnerInv, NEW d \in Desktop, StopBackend(d)
  PROVE  OwnerInv'
<1>1. desk[d].at = "stop" /\ control = d /\ UNCHANGED <<named, claim, control, granted>>
  BY DEF StopBackend, OwnerInv, ControlInv
<1>2. BackTypeOK /\ \A j \in Instance : backends[j] \in Backend
  BY InstanceIs DEF OwnerInv
<1> DEFINE stopped(j) == [backends[j] EXCEPT !.at = "gone"]
<1>3. \A j \in Instance : stopped(j) \in Backend /\ stopped(j).at = "gone"
                       /\ stopped(j).child = backends[j].child
  BY <1>2 DEF Backend, BackendStep
<1>4. backends' = [j \in Instance |-> IF j = named THEN stopped(j) ELSE backends[j]]
  BY DEF StopBackend
<1> HIDE DEF stopped
<1>5. backends' \in [Instance -> Backend]
  BY <1>2, <1>3, <1>4
<1>6. backends' \in Seq(Backend) /\ Len(backends') = Len(backends) /\ Instance' = Instance
  BY <1>2, <1>5, Mapped
<1>7. \A j \in Instance : /\ backends'[j].at \in {backends[j].at, "gone"}
                          /\ backends'[j].child => backends[j].child
  BY <1>3, <1>4
<1>8. LockInv' /\ ServesAlone' /\ Ages
  BY <1>1, <1>6, <1>7, EndedLock
<1>9. Does(d, "stopped", named, desk[d].asked)
  BY InstBecomes, NamedIsNat DEF StopBackend, DeskStep
<1>10. named = NoInstance \/ (named \in Instance /\ backends'[named].at = "gone")
  BY <1>3, <1>4, NamedIsNat
<1>11. DeskOK(d)'
  BY <1>6, <1>9, <1>10 DEF DeskOK, Does, Gone
<1>12. Len(backends') <= MaxBackends /\ named' \in Instance' \cup {NoInstance}
  BY <1>1, <1>2, <1>6 DEF BackTypeOK
<1> QED
  BY <1>1, <1>6, <1>8, <1>9, <1>11, <1>12, DeskEndsKeep

LEMMA StopChildrenKeeps ==
  ASSUME OwnerInv, NEW d \in Desktop, StopChildren(d)
  PROVE  OwnerInv'
<1>1. /\ desk[d].at = "stopped" /\ control = d /\ control' = NoHost /\ UNCHANGED <<claim, granted>>
      /\ named' = (IF named = desk[d].inst THEN NoInstance ELSE named)
      /\ DeskTo(d, "restart")
  BY DEF StopChildren, RecordGone, OwnerInv, ControlInv
<1>2. BackTypeOK /\ \A j \in Instance : backends[j] \in Backend
  BY InstanceIs DEF OwnerInv
<1> DEFINE childless(j) == [backends[j] EXCEPT !.child = FALSE]
<1>3. \A j \in Instance : childless(j) \in Backend /\ childless(j).at = backends[j].at
                       /\ ~ childless(j).child
  BY <1>2 DEF Backend
<1>4. backends' = [j \in Instance |-> IF j = desk[d].inst THEN childless(j) ELSE backends[j]]
  BY DEF StopChildren
<1> HIDE DEF childless
<1>5. backends' \in [Instance -> Backend]
  BY <1>2, <1>3, <1>4
<1>6. backends' \in Seq(Backend) /\ Len(backends') = Len(backends) /\ Instance' = Instance
  BY <1>2, <1>5, Mapped
<1>7. \A j \in Instance : /\ backends'[j].at = backends[j].at
                          /\ backends'[j].child => backends[j].child
  BY <1>3, <1>4
<1>8. \A j \in Instance : backends[j].at \in {"recorded", "serving", "leaving", "cleaned"} => named' = named
  <2>1. desk[d].inst = NoInstance \/ Gone(desk[d].inst)
    BY <1>1 DEF OwnerInv, DeskInv, DeskOK
  <2> QED
    BY <1>1, <2>1, InstanceIs DEF Gone, OwnerInv, LockInv
<1>9. LockInv' /\ ServesAlone' /\ Ages
  BY <1>6, <1>7, <1>8, EndedLock
<1>10. Does(d, "restart", desk[d].inst, desk[d].asked)
  BY <1>1, AtBecomes DEF DeskStep
<1>11. DeskOK(d)'
  BY <1>10 DEF DeskOK, Does
<1>12. Len(backends') <= MaxBackends /\ named' \in Instance' \cup {NoInstance}
  BY <1>1, <1>2, <1>6 DEF BackTypeOK
<1> QED
  BY <1>1, <1>6, <1>9, <1>10, <1>11, <1>12, DeskEndsKeep

LEMMA OwnerStep == OwnerInv /\ [BackendNext]_backendVars => OwnerInv'
<1> SUFFICES ASSUME OwnerInv, [BackendNext]_backendVars PROVE OwnerInv'
  OBVIOUS
<1>1. CASE UNCHANGED backendVars
  <2>1. UNCHANGED <<backends, named, claim, control, desk, granted>>
    BY <1>1 DEF backendVars
  <2>2. Ages /\ Instance' = Instance
    BY <2>1, Unaged DEF OwnerInv
  <2>3. BackTypeOK' /\ ControlInv' /\ LockInv' /\ ServesAlone'
    BY <2>1, <2>2 DEF OwnerInv, BackTypeOK, ControlInv, LockInv, ServesAlone, Locking
  <2>4. DeskInv' /\ GrantInv'
    BY <2>1, <2>2, DeskKept, GrantKept DEF OwnerInv, DeskInv
  <2> QED
    BY <2>3, <2>4 DEF OwnerInv
<1>2. ASSUME NEW i \in Instance,
             \/ TakeLifetime(i) \/ WriteRecord(i) \/ SweepOrphans(i) \/ SweepFails(i)
             \/ ChildBegins(i) \/ Watch(i) \/ CleanOwn(i) \/ ReleaseRecord(i)
             \/ ReleaseLifetime(i) \/ BackendDies(i)
      PROVE  OwnerInv'
  BY <1>2, ProcessesKeep, WatchKeeps, SweepOrphansKeeps
<1>3. ASSUME NEW d \in Desktop,
             \/ BeginStart(d) \/ LookFirst(d) \/ SpawnBackend(d) \/ BackendReady(d)
             \/ BackendFails(d) \/ BeginClaim(d) \/ WriteClaim(d) \/ RevokedStopped(d)
             \/ RevokedStays(d) \/ BeginRestart(d) \/ StopBackend(d) \/ StopChildren(d)
             \/ StopUnconfirmed(d) \/ RestartAfterStop(d) \/ DesktopDies(d)
      PROVE  OwnerInv'
  BY <1>3, StartsKeep, GoalsKeep, BeginClaimKeeps, WriteClaimKeeps, SpawnKeeps, BackendFailsKeeps,
     StopKeeps, StopChildrenKeeps
<1> QED
  BY <1>1, <1>2, <1>3 DEF BackendNext

(* For every number of desktops, backends, attempts and faults: a backend   *)
(* is granted to one desktop for good, and one that serves is the one on    *)
(* record, beside no registered child of another (start_backend,            *)
(* claim_backend_owner, stop_backend, main of mcp_server.py).               *)
THEOREM BackendsAreOwned == BackendSpec => []OneOwnerServed
<1>1. OwnerInv => OneOwnerServed
  <2> SUFFICES ASSUME OwnerInv PROVE OneOwnerServed
    OBVIOUS
  <2>1. ASSUME NEW i \in DOMAIN granted PROVE Cardinality(granted[i]) <= 1
    <3>1. i \in 1..MaxBackends
      BY <2>1 DEF OwnerInv, BackTypeOK
    <3>2. \A d, e \in granted[i] : d = e
      BY <3>1 DEF OwnerInv, GrantInv
    <3>3. granted[i] = {} \/ \E d : granted[i] = {d}
      BY <3>2
    <3>4. Cardinality(granted[i]) = 0 \/ Cardinality(granted[i]) = 1
      BY <3>3, FS_EmptySet, FS_Singleton
    <3> QED
      BY <3>4
  <2> QED
    BY <2>1 DEF OneOwnerServed, OneOwnerEver, OwnerInv
<1> QED
  BY <1>1, OwnerInit0, OwnerStep, PTL DEF BackendSpec

-----------------------------------------------------------------------------
(* The incremental engine: what a state holds of the sources it was made   *)
(* of, whatever plan brought it there.                                     *)

Field == {"imports", "artifacts", "usages", "facts", "order", "trie", "root", "graph", "targets",
          "slices", "collisions", "marker", "current", "layers", "parse", "lineage", "lineageState"}

\* The facts a state has of the files themselves.
FileFactsOf(c, k) ==
    /\ DOMAIN c.imports = DOMAIN k
    /\ c.artifacts = [m \in DOMAIN k |-> Definitions(k[m])]
    /\ c.usages = [m \in DOMAIN k |-> UsageFacts(m, k[m])]
    /\ c.facts = [m \in DOMAIN k |-> ReexportFacts(m, k[m])]
    /\ c.targets = TargetsOf(DefsOf(c.artifacts))
    /\ c.collisions = c.artifacts

\* What is derived from them.
DerivedOf(c) ==
    /\ \A s \in c.slices : s[1] \in c.targets
    /\ c.marker = [f \in Families |-> c.marker[f]]
    /\ \A f \in Families : c.marker[f] = "fresh" => f \in c.current

LineageOf(c, k) ==
    /\ c.lineage = [m \in DOMAIN c.lineage |-> c.lineage[m]]
    /\ DOMAIN c.lineage \subseteq DOMAIN k
    /\ \A m \in DOMAIN c.lineage : c.lineage[m] = k[m]
    /\ c.lineageState = "fresh" => DOMAIN c.lineage = DOMAIN k

StateOf(c, k) ==
    /\ c = [x \in Field |-> c[x]]
    /\ FileFactsOf(c, k) /\ DerivedOf(c) /\ LineageOf(c, k)

KnownAfter(m, source) ==
    IF source = Absent THEN [x \in DOMAIN known \ {m} |-> known[x]] ELSE With(known, m, source)

\* An update that runs was planned from the state there is; one that is
\* published can be finished and can be taken back.
JobInv ==
    \/ job = NoJob
    \/ /\ job.at = "execute" /\ job.module \in Modules
       /\ job.delta = NewDelta(job.module, job.source)
       /\ job.plan = Plan(job.delta, canon.usages)
    \/ /\ job.at = "acknowledge" /\ job.module \in Modules
       /\ StateOf(canon, KnownAfter(job.module, job.source))
       /\ StateOf(job.canon, known)
       /\ Identities(job.canon) \subseteq job.ids /\ job.ids \subseteq ids

\* The inductive invariant.
EngineInv ==
    /\ disk = [m \in Modules |-> disk[m]]
    /\ known = [m \in DOMAIN known |-> known[m]] /\ DOMAIN known \subseteq Modules
    /\ \A m \in stat \ raced : m \in DOMAIN known => known[m] = disk[m]
    /\ Identities(canon) \subseteq ids
    /\ job.at # "acknowledge" => StateOf(canon, known)
    /\ JobInv

-----------------------------------------------------------------------------
(* What a plan leaves out did not change *)

LEMMA PlanOfStructure ==
    ASSUME NEW d, NEW u, d.isNew \/ d.isDeleted
    PROVE  /\ {"modules", "definitions", "module_usages", "reexport_facts", "dependency_graph",
               "artifact_consumption", "cached_analytics", "collision_facts", "collisions"}
                 \subseteq Plan(d, u).families
           /\ Plan(d, u).graph
<1>1. ~IsEmptyDelta(d)   BY DEF IsEmptyDelta
<1>2. Plan(d, u) = StructurePlan(d, u)   BY <1>1 DEF Plan
<1> QED BY <1>2 DEF StructurePlan

\* The families a plan names together.
Covers(p, d) ==
    /\ "definitions" \notin p.families => ~d.payload
    /\ "module_usages" \notin p.families => ~d.usage
    /\ "reexport_facts" \notin p.families => ~d.reexports
    /\ "collision_facts" \notin p.families => ~d.collisions
    /\ "collision_facts" \in p.families => "collisions" \in p.families
    /\ "dependency_graph" \in p.families => p.graph
    /\ "artifact_consumption" \notin p.families =>
          /\ "cached_analytics" \notin p.families /\ "dependency_graph" \notin p.families
          /\ p.recompute = {} /\ ~d.artifacts
    /\ "cached_analytics" \notin p.families => "artifact_consumption" \notin p.families

LEMMA PlanCovers ==
    ASSUME NEW d, NEW u, ~d.isNew, ~d.isDeleted
    PROVE  Covers(Plan(d, u), d)
<1>1. CASE IsEmptyDelta(d)
    <2>1. Plan(d, u) = NoPlan   BY <1>1 DEF Plan
    <2> QED BY <2>1, <1>1 DEF NoPlan, Covers, IsEmptyDelta
<1>2. CASE ~IsEmptyDelta(d) /\ d.aliases
    <2> DEFINE p == AliasPlan(d, u)
    <2>1. Plan(d, u) = p   BY <1>2 DEF Plan
    <2>2. {"definitions", "module_usages", "artifact_consumption", "cached_analytics"} \subseteq p.families
        BY DEF AliasPlan
    <2>3. "reexport_facts" \notin p.families => ~d.reexports   BY DEF AliasPlan, If
    <2>4. "collision_facts" \notin p.families => ~d.collisions   BY DEF AliasPlan, CollisionFamilies, If
    <2>5. "collision_facts" \in p.families => "collisions" \in p.families
        BY DEF AliasPlan, CollisionFamilies, IdentityFamily, If
    <2>6. "dependency_graph" \in p.families => p.graph
        BY DEF AliasPlan, CollisionFamilies, IdentityFamily, If
    <2> HIDE DEF p
    <2> QED BY <2>1, <2>2, <2>3, <2>4, <2>5, <2>6 DEF Covers
<1>3. CASE ~IsEmptyDelta(d) /\ ~d.aliases /\ d.imports
    <2>1. Plan(d, u) = ImportPlan(d)   BY <1>3 DEF Plan
    <2> QED BY <2>1 DEF ImportPlan, Covers, CollisionFamilies, IdentityFamily, If
<1>4. CASE ~IsEmptyDelta(d) /\ ~d.aliases /\ ~d.imports /\ d.artifacts
    <2>1. Plan(d, u) = DefinitionPlan(d, u)   BY <1>4 DEF Plan
    <2> QED BY <2>1 DEF DefinitionPlan, Covers, CollisionFamilies, IdentityFamily, If
<1>5. CASE ~IsEmptyDelta(d) /\ ~d.aliases /\ ~d.imports /\ ~d.artifacts
    <2> DEFINE p == BodyPlan(d, u)
    <2>1. Plan(d, u) = p   BY <1>5 DEF Plan
    <2>2. "definitions" \notin p.families => ~d.payload   BY DEF BodyPlan, If
    <2>3. /\ "artifact_consumption" \notin p.families => ~(d.usage \/ d.reexports)
          /\ "cached_analytics" \notin p.families => ~(d.usage \/ d.reexports)
          /\ "module_usages" \notin p.families => ~d.usage
        BY DEF BodyPlan, If
    <2>4. ~(d.usage \/ d.reexports) =>
            /\ "artifact_consumption" \notin p.families /\ "cached_analytics" \notin p.families
            /\ "dependency_graph" \notin p.families /\ p.recompute = {}
        BY DEF BodyPlan, If, CollisionFamilies, InitializerChanged
    <2>5. "reexport_facts" \notin p.families => ~d.reexports   BY DEF BodyPlan, If
    <2>6. "collision_facts" \notin p.families => ~d.collisions   BY DEF BodyPlan, CollisionFamilies, If
    <2>7. "collision_facts" \in p.families => "collisions" \in p.families
        BY DEF BodyPlan, CollisionFamilies, If
    <2>8. "dependency_graph" \in p.families => p.graph
        BY DEF BodyPlan, CollisionFamilies, If
    <2> HIDE DEF p
    <2> QED BY <2>1, <2>2, <2>3, <2>4, <2>5, <2>6, <2>7, <2>8, <1>5 DEF Covers
<1> QED BY <1>1, <1>2, <1>3, <1>4, <1>5

(* What a full analysis makes *)

\* A slice is of symbols that are there.
LEMMA SlicesAreOfTargets ==
    ASSUME NEW usage, NEW defs, NEW exports
    PROVE  \A t \in ConsumerSlice(usage, defs, exports) : t[1] \in TargetsOf(defs)
<1>1. ASSUME NEW n PROVE Matching(n, defs) \subseteq TargetsOf(defs)
    <2>1. CASE Len(n) > 1 /\ Front(n) \in DOMAIN defs /\ Last(n) \in defs[Front(n)]
        <3> DEFINE m == Front(n)
                   d == Last(n)
        <3>1. Matching(n, defs) = {<<m, d>>}   BY <2>1 DEF Matching
        <3>2. m \in DOMAIN defs /\ d \in defs[m]   BY <2>1
        <3> HIDE DEF m, d
        <3>3. d \in UNION {defs[x] : x \in DOMAIN defs}   BY <3>2
        <3>4. <<m, d>> \in UNION {{y} \X defs[y] : y \in DOMAIN defs}   BY <3>2
        <3> QED BY <3>1, <3>2, <3>3, <3>4 DEF TargetsOf
    <2>2. CASE ~(Len(n) > 1 /\ Front(n) \in DOMAIN defs /\ Last(n) \in defs[Front(n)])
        BY <2>2 DEF Matching
    <2> QED BY <2>1, <2>2
<1>2. ASSUME NEW names PROVE Matches(names, defs) \subseteq TargetsOf(defs)
    BY <1>1, Zenon DEF Matches
<1>3. ASSUME NEW A, NEW B, A \subseteq TargetsOf(defs), B \subseteq TargetsOf(defs)
      PROVE  \A t \in (A \X {"direct_calls"}) \cup (B \X {"api_imports"}) : t[1] \in TargetsOf(defs)
    BY <1>3
<1> DEFINE surface == exports.surface
           map == ReexportMap(exports.raw)
<1>4. ConsumerSlice(usage, defs, exports) =
        (Matches(Meant(usage.calls, usage, map), defs) \X {"direct_calls"})
        \cup (Matches(Starred(usage, surface, map)
                \cup {n \in Meant(usage.imports, usage, map) : Last(n) # STAR /\ n \notin DOMAIN defs},
                defs) \X {"api_imports"})
    BY DEF ConsumerSlice, SliceFrom
<1> HIDE DEF surface, map
<1> QED BY <1>2, <1>3, <1>4

\* The fields of two records that share none.
LEMMA JoinedFields ==
    ASSUME NEW f, NEW g
    PROVE  /\ DOMAIN Joined(f, g) = DOMAIN f \cup DOMAIN g
           /\ Joined(f, g) = [x \in DOMAIN f \cup DOMAIN g |-> Joined(f, g)[x]]
           /\ \A x \in DOMAIN f : Joined(f, g)[x] = f[x]
           /\ \A x \in DOMAIN g \ DOMAIN f : Joined(f, g)[x] = g[x]
BY DEF Joined

\* The fields of what a full analysis makes.
LEMMA FullFields ==
    ASSUME NEW s
    PROVE  /\ DOMAIN Full(s) = {"imports", "artifacts", "usages", "facts", "order", "trie", "root", "graph",
                                "targets", "slices", "collisions"}
           /\ Full(s).imports = [m \in DOMAIN s |-> s[m].imports]
           /\ Full(s).artifacts = [m \in DOMAIN s |-> Definitions(s[m])]
           /\ Full(s).usages = [m \in DOMAIN s |-> UsageFacts(m, s[m])]
           /\ Full(s).facts = [m \in DOMAIN s |-> ReexportFacts(m, s[m])]
           /\ Full(s).targets = TargetsOf(DefsOf(Full(s).artifacts))
           /\ Full(s).collisions = Full(s).artifacts
           /\ \A t \in Full(s).slices : t[1] \in Full(s).targets
<1> DEFINE f == FactsOfAll(s)
           order == InOrder(DOMAIN f.imports)
           root == DetectPackageRoot(f.imports)
           g == [order |-> order, trie |-> DOMAIN f.imports, root |-> root,
                 graph |-> BuildGraph(f.imports, root, BoundNames(f.facts)),
                 targets |-> TargetsOf(DefsOf(f.artifacts)),
                 slices |-> SlicesOf(f.usages, DefsOf(f.artifacts), ExportState(f.facts, order)),
                 collisions |-> f.artifacts]
           c == Joined(f, g)
<1>1. Full(s) = c   BY DEF Full, FullOf, WithGraph
<1>2. /\ DOMAIN f = {"imports", "artifacts", "usages", "facts"}
      /\ f.imports = [m \in DOMAIN s |-> s[m].imports]
      /\ f.artifacts = [m \in DOMAIN s |-> Definitions(s[m])]
      /\ f.usages = [m \in DOMAIN s |-> UsageFacts(m, s[m])]
      /\ f.facts = [m \in DOMAIN s |-> ReexportFacts(m, s[m])]
    BY DEF FactsOfAll
<1> HIDE DEF f
<1> DEFINE exports == ExportState(f.facts, order)
           slices == SlicesOf(f.usages, DefsOf(f.artifacts), exports)
<1>3. /\ DOMAIN g = {"order", "trie", "root", "graph", "targets", "slices", "collisions"}
      /\ g.targets = TargetsOf(DefsOf(f.artifacts)) /\ g.collisions = f.artifacts
      /\ g.slices = slices
    BY Zenon
<1>4. \A t \in slices : t[1] \in TargetsOf(DefsOf(f.artifacts))
    <2> HIDE DEF exports
    <2>1. \A u \in DOMAIN f.usages : \A t \in ConsumerSlice(f.usages[u], DefsOf(f.artifacts), exports) :
             <<t[1], u, t[2]>>[1] \in TargetsOf(DefsOf(f.artifacts))
        BY SlicesAreOfTargets
    <2> QED BY <2>1 DEF SlicesOf
<1> HIDE DEF g, slices
<1>5. DOMAIN c = DOMAIN f \cup DOMAIN g   BY JoinedFields
<1>6. /\ c.imports = f.imports /\ c.artifacts = f.artifacts /\ c.usages = f.usages /\ c.facts = f.facts
      /\ c.targets = g.targets /\ c.collisions = g.collisions /\ c.slices = g.slices
    <2>1. \A x \in DOMAIN f : c[x] = f[x]   BY JoinedFields
    <2>2. \A x \in DOMAIN g \ DOMAIN f : c[x] = g[x]   BY JoinedFields
    <2> HIDE DEF c
    <2> QED BY <1>2, <1>3, <2>1, <2>2
<1> HIDE DEF c
<1> QED BY <1>1, <1>2, <1>3, <1>4, <1>5, <1>6

\* A full analysis leaves a state of the sources it read.
LEMMA AnalysedIsState ==
    ASSUME NEW s, s = [m \in DOMAIN s |-> s[m]], NEW layers
    PROVE  /\ StateOf([Analysed(s) EXCEPT !.layers = layers], s)
           /\ DOMAIN [Analysed(s) EXCEPT !.layers = layers].imports = DOMAIN s
<1> DEFINE full == Full(s)
           g == [marker |-> AllFresh, current |-> Families, layers |-> TRUE,
                 parse |-> {}, lineage |-> s, lineageState |-> "fresh"]
           a == Joined(full, g)
           c == [a EXCEPT !.layers = layers]
<1>1. Analysed(s) = a   BY DEF Analysed
<1>2. /\ DOMAIN g = {"marker", "current", "layers", "parse", "lineage", "lineageState"}
      /\ g.marker = AllFresh /\ g.current = Families /\ g.lineage = s /\ g.lineageState = "fresh"
    OBVIOUS
<1>3. DOMAIN full = {"imports", "artifacts", "usages", "facts", "order", "trie", "root", "graph",
                     "targets", "slices", "collisions"}
    BY FullFields
<1> HIDE DEF g, full
<1>4. DOMAIN a = Field /\ a = [x \in Field |-> a[x]]
    <2>1. DOMAIN a = DOMAIN full \cup DOMAIN g /\ a = [x \in DOMAIN full \cup DOMAIN g |-> a[x]]
        BY JoinedFields
    <2>2. DOMAIN full \cup DOMAIN g = Field   BY <1>2, <1>3 DEF Field
    <2> HIDE DEF a
    <2> QED BY <2>1, <2>2
<1>5. /\ a.imports = full.imports /\ a.artifacts = full.artifacts /\ a.usages = full.usages /\ a.facts = full.facts
      /\ a.targets = full.targets /\ a.collisions = full.collisions /\ a.slices = full.slices
      /\ a.marker = g.marker /\ a.current = g.current /\ a.lineage = g.lineage /\ a.lineageState = g.lineageState
    <2>1. \A x \in DOMAIN full : a[x] = full[x]   BY DEF Joined
    <2>2. \A x \in DOMAIN g \ DOMAIN full : a[x] = g[x]   BY JoinedFields
    <2> HIDE DEF a
    <2> QED BY <1>2, <1>3, <2>1, <2>2
<1> HIDE DEF a
<1>6. /\ c = [x \in Field |-> c[x]]
      /\ c.imports = a.imports /\ c.artifacts = a.artifacts /\ c.usages = a.usages /\ c.facts = a.facts
      /\ c.targets = a.targets /\ c.collisions = a.collisions /\ c.slices = a.slices
      /\ c.marker = a.marker /\ c.current = a.current /\ c.lineage = a.lineage /\ c.lineageState = a.lineageState
    BY <1>4 DEF Field
<1> HIDE DEF c
<1>7. FileFactsOf(c, s)
    <2>1. /\ full.imports = [m \in DOMAIN s |-> s[m].imports]
          /\ full.artifacts = [m \in DOMAIN s |-> Definitions(s[m])]
          /\ full.usages = [m \in DOMAIN s |-> UsageFacts(m, s[m])]
          /\ full.facts = [m \in DOMAIN s |-> ReexportFacts(m, s[m])]
          /\ full.targets = TargetsOf(DefsOf(full.artifacts))
          /\ full.collisions = full.artifacts
        BY FullFields DEF full
    <2>2. c.imports = full.imports /\ DOMAIN c.imports = DOMAIN s   BY <1>5, <1>6, <2>1
    <2>3. c.artifacts = full.artifacts /\ c.usages = full.usages /\ c.facts = full.facts
          /\ c.targets = full.targets /\ c.collisions = full.collisions
        BY <1>5, <1>6
    <2> QED BY <2>1, <2>2, <2>3, Zenon DEF FileFactsOf
<1>8. DerivedOf(c)
    <2>1. \A t \in c.slices : t[1] \in c.targets   BY <1>5, <1>6, FullFields DEF full
    <2>2. c.marker = [f \in Families |-> "fresh"] /\ c.current = Families
        BY <1>2, <1>5, <1>6 DEF AllFresh
    <2> QED BY <2>1, <2>2 DEF DerivedOf
<1>9. LineageOf(c, s)   BY <1>2, <1>5, <1>6 DEF LineageOf
<1>10. StateOf(c, s)   BY <1>6, <1>7, <1>8, <1>9 DEF StateOf
<1> QED BY <1>1, <1>10 DEF c, FileFactsOf, StateOf

(* The steps of an update, field by field *)

Same(c, d, changed) == \A x \in Field \ changed : d[x] = c[x]
IsState(c) == c = [x \in Field |-> c[x]]

LEMMA PatchedFields ==
    ASSUME NEW c, IsState(c), NEW j
    PROVE  LET new == Read(j.module, j.source)
               p == Patched(c, j)
           IN /\ IsState(p)
              /\ p.imports = Patch(j, "modules", c.imports, new.imports)
              /\ p.artifacts = Patch(j, "definitions", c.artifacts, new.artifacts)
              /\ p.usages = Patch(j, "module_usages", c.usages, new.usage)
              /\ p.facts = Patch(j, "reexport_facts", c.facts, new.facts)
              /\ p.targets = TargetsOf(DefsOf(p.artifacts))
              /\ p.slices = {s \in c.slices : s[1] \in p.targets}
              /\ Same(c, p, {"imports", "artifacts", "usages", "facts", "order", "targets", "slices"})
<1> DEFINE new == Read(j.module, j.source)
           order == IF j.source = Absent THEN SelectSeq(c.order, LAMBDA x : x # j.module)
                    ELSE IF j.module \in Range(c.order) THEN c.order ELSE Append(c.order, j.module)
           q == PatchedWith(c, j, new)
           p == Patched(c, j)
           ts == TargetsOf(DefsOf(q.artifacts))
<1>1. q = [c EXCEPT !.imports = Patch(j, "modules", c.imports, new.imports),
                    !.artifacts = Patch(j, "definitions", c.artifacts, new.artifacts),
                    !.usages = Patch(j, "module_usages", c.usages, new.usage),
                    !.facts = Patch(j, "reexport_facts", c.facts, new.facts),
                    !.order = order]
    BY DEF PatchedWith, IsState, Field
<1>2. p = [q EXCEPT !.targets = ts, !.slices = {s \in q.slices : s[1] \in ts}]
    BY <1>1 DEF Patched, Retarget, Targeted, IsState, Field
<1> HIDE DEF q, p, new, order
<1>3. /\ IsState(q)
      /\ q.imports = Patch(j, "modules", c.imports, new.imports)
      /\ q.artifacts = Patch(j, "definitions", c.artifacts, new.artifacts)
      /\ q.usages = Patch(j, "module_usages", c.usages, new.usage)
      /\ q.facts = Patch(j, "reexport_facts", c.facts, new.facts)
      /\ Same(c, q, {"imports", "artifacts", "usages", "facts", "order"})
    BY <1>1 DEF IsState, Field, Same
<1> HIDE DEF ts
<1>4. /\ IsState(p) /\ p.targets = ts /\ p.slices = {s \in q.slices : s[1] \in ts}
      /\ Same(q, p, {"targets", "slices"})
    BY <1>2, <1>3 DEF IsState, Field, Same
<1>5. /\ p.imports = q.imports /\ p.artifacts = q.artifacts /\ p.usages = q.usages /\ p.facts = q.facts
      /\ q.slices = c.slices
    BY <1>3, <1>4 DEF Same, Field
<1>6. Same(c, p, {"imports", "artifacts", "usages", "facts", "order", "targets", "slices"})
    BY <1>3, <1>4 DEF Same
<1> QED BY <1>3, <1>4, <1>5, <1>6, Zenon DEF ts, p, new

LEMMA RebuiltFields ==
    ASSUME NEW c, IsState(c), NEW j
    PROVE  /\ IsState(Rebuilt(c, j)) /\ Same(c, Rebuilt(c, j), {"slices"})
           /\ Rebuilt(c, j).slices = RebuiltFrom(c, j, CurrentSlices(c))
<1> DEFINE slices == RebuiltFrom(c, j, CurrentSlices(c))
<1>1. Rebuilt(c, j) = [c EXCEPT !.slices = slices]   BY DEF Rebuilt
<1> HIDE DEF slices
<1>2. /\ IsState([c EXCEPT !.slices = slices]) /\ [c EXCEPT !.slices = slices].slices = slices
      /\ Same(c, [c EXCEPT !.slices = slices], {"slices"})
    BY DEF IsState, Same, Field
<1> QED BY <1>1, <1>2 DEF slices

LEMMA RegraphedFields ==
    ASSUME NEW c, IsState(c), NEW j
    PROVE  /\ IsState(Regraphed(c, j)) /\ Same(c, Regraphed(c, j), {"graph", "trie", "root"})
           /\ "dependency_graph" \notin j.plan.families => Regraphed(c, j) = c
<1>2. ASSUME NEW graph
      PROVE  LET g == [c EXCEPT !.graph = graph]
             IN IsState(g) /\ Same(c, g, {"graph", "trie", "root"})
    BY DEF IsState, Same, Field
<1>3. CASE "dependency_graph" \notin j.plan.families
    BY <1>3 DEF Regraphed, Same
<1>4. CASE "dependency_graph" \in j.plan.families /\ Restructured(j)
    <2> DEFINE root == DetectPackageRoot(c.imports)
               trie == DOMAIN c.imports
               graph == BuildGraph(c.imports, root, BoundNames(c.facts))
    <2>1. Regraphed(c, j) = [c EXCEPT !.trie = trie, !.root = root, !.graph = graph]
        BY <1>4 DEF Regraphed, GraphFrom
    <2> DEFINE g == [c EXCEPT !.trie = trie, !.root = root, !.graph = graph]
    <2> HIDE DEF root, trie, graph
    <2>2. IsState(g) /\ Same(c, g, {"graph", "trie", "root"})   BY DEF IsState, Same, Field
    <2> HIDE DEF g
    <2> QED BY <2>1, <2>2, <1>4 DEF g
<1>5. CASE "dependency_graph" \in j.plan.families /\ ~Restructured(j)
    <2> DEFINE graph == WithModuleEdges(c.graph, j.module,
                  ResolveModuleEdges(j.module, c.imports[j.module], c.trie, c.root, BoundNames(c.facts)))
    <2>1. Regraphed(c, j) = [c EXCEPT !.graph = graph]
        BY <1>5 DEF Regraphed, IsState, Field
    <2> HIDE DEF graph
    <2> QED BY <2>1, <1>2, <1>5
<1> QED BY <1>3, <1>4, <1>5

LEMMA CollisionsFields ==
    ASSUME NEW c, IsState(c), NEW j
    PROVE  /\ IsState(WithCollisions(c, j)) /\ Same(c, WithCollisions(c, j), {"collisions"})
           /\ "collision_facts" \notin j.plan.families => WithCollisions(c, j) = c
           /\ "collision_facts" \in j.plan.families =>
                WithCollisions(c, j).collisions =
                  Put(c.collisions, j.module, Read(j.module, j.source).artifacts, j.source = Absent)
<1> DEFINE value == Put(c.collisions, j.module, Read(j.module, j.source).artifacts, j.source = Absent)
           d == [c EXCEPT !.collisions = value]
<1>1. "collision_facts" \in j.plan.families => WithCollisions(c, j) = d
    BY DEF WithCollisions, IsState, Field
<1>2. "collision_facts" \notin j.plan.families => WithCollisions(c, j) = c
    BY DEF WithCollisions
<1> HIDE DEF value
<1>3. IsState(d) /\ Same(c, d, {"collisions"}) /\ d.collisions = value
    BY DEF IsState, Same, Field
<1> HIDE DEF d
<1> QED BY <1>1, <1>2, <1>3 DEF Same, value

LEMMA MarkedFields ==
    ASSUME NEW before, NEW after, IsState(after), NEW j, NEW raising, NEW marker
    PROVE  LET d == MarkedBy(before, after, j, raising, marker)
           IN /\ IsState(d) /\ Same(after, d, {"marker", "current"})
              /\ d.marker = marker
              /\ d.current = {f \in Families : marker[f] = "fresh"
                               /\ (f \in Recomputed(j) \ raising \/ StillCurrent(before, after, f))}
<1> DEFINE current == {f \in Families : marker[f] = "fresh"
                               /\ (f \in Recomputed(j) \ raising \/ StillCurrent(before, after, f))}
           d == [after EXCEPT !.marker = marker, !.current = current]
<1>1. MarkedBy(before, after, j, raising, marker) = d   BY DEF MarkedBy
<1> HIDE DEF current
<1>2. IsState(d) /\ Same(after, d, {"marker", "current"}) /\ d.marker = marker /\ d.current = current
    BY DEF IsState, Same, Field
<1> HIDE DEF d
<1> QED BY <1>1, <1>2 DEF current

LEMMA LineageFields ==
    ASSUME NEW c, IsState(c), NEW m, NEW source
    PROVE  LET d == WithLineage(c, m, source)
           IN /\ IsState(d) /\ Same(c, d, {"lineage", "lineageState"})
              /\ d.lineage = IF source = Absent THEN [s \in DOMAIN c.lineage \ {m} |-> c.lineage[s]]
                             ELSE With(c.lineage, m, source)
              /\ d.lineageState = "fresh" => DOMAIN d.lineage = DOMAIN d.imports
<1> DEFINE lineage == IF source = Absent THEN [s \in DOMAIN c.lineage \ {m} |-> c.lineage[s]]
                      ELSE With(c.lineage, m, source)
           e == [c EXCEPT !.lineage = lineage]
           d == [e EXCEPT !.lineageState = LineageMarker(e)]
<1>1. WithLineage(c, m, source) = d
    BY DEF WithLineage, Marked, IsState, Field
<1> HIDE DEF lineage
<1>2. IsState(e) /\ Same(c, e, {"lineage"}) /\ e.lineage = lineage
    BY DEF IsState, Same, Field
<1>3. LineageMarker(e) = "fresh" => DOMAIN e.lineage = DOMAIN e.imports
    BY DEF LineageMarker
<1> HIDE DEF e
<1> DEFINE mark == LineageMarker(e)
<1> HIDE DEF mark
<1>4. IsState([e EXCEPT !.lineageState = mark]) /\ Same(e, [e EXCEPT !.lineageState = mark], {"lineageState"})
      /\ [e EXCEPT !.lineageState = mark].lineageState = mark
    BY <1>2 DEF IsState, Same, Field
<1>5. IsState(d) /\ Same(e, d, {"lineageState"}) /\ d.lineageState = mark   BY <1>4 DEF mark
<1> HIDE DEF d
<1>6. Same(c, d, {"lineage", "lineageState"})   BY <1>2, <1>5 DEF Same
<1>7. d.lineage = e.lineage /\ d.imports = e.imports   BY <1>5 DEF Same, Field
<1> QED BY <1>1, <1>2, <1>3, <1>5, <1>6, <1>7 DEF lineage, mark

\* One round of the consumers downstream: x is the state, the update and the
\* new slices.
Spread(queue, x) ==
    queue \cup (UNION {DependentConsumers(m, x.c.usages) :
                         m \in {y \in queue : x.slice[y] # Stored(x.c, y)}} \ {x.j.module})
SpreadFold == INSTANCE FoldLaws WITH Op <- Spread

\* With nothing to recompute nothing is downstream of it.
LEMMA NothingDownstream ==
    ASSUME NEW c, NEW j, NEW slice, IsFiniteSet(DOMAIN c.usages), j.plan.recompute = {}
    PROVE  Downstream(c, j, slice) = {}
<1> DEFINE N == Cardinality(DOMAIN c.usages)
           x == [c |-> c, j |-> j, slice |-> slice]
           start == j.plan.recompute \cap DOMAIN c.usages
           Goes(h) == h = [n \in 0 .. N |-> IF n = 0 THEN start
                             ELSE h[n - 1] \cup (UNION {DependentConsumers(m, c.usages) :
                                     m \in {y \in h[n - 1] : slice[y] # Stored(c, y)}} \ {j.module})]
           queue == CHOOSE h : Goes(h)
<1>1. N \in Nat   BY FS_CardinalityType
<1>2. Goes(queue)
    <2>1. \E h : SpreadFold!Repeats(h, start, x, N)
        <3> HIDE DEF N
        <3> QED BY <1>1, SpreadFold!Iteration, Zenon
    <2>2. x.c = c /\ x.j = j /\ x.slice = slice   OBVIOUS
    <2> HIDE DEF x, N
    <2>3. ASSUME NEW q
          PROVE  Spread(q, x) = q \cup (UNION {DependentConsumers(m, c.usages) :
                                     m \in {y \in q : slice[y] # Stored(c, y)}} \ {j.module})
        <3>1. {y \in q : x.slice[y] # Stored(x.c, y)} = {y \in q : slice[y] # Stored(c, y)}
            BY <2>2
        <3> QED BY <2>2, <3>1 DEF Spread
    <2>4. PICK h : SpreadFold!Repeats(h, start, x, N)   BY <2>1
    <2>5. h = [n \in 0 .. N |-> IF n = 0 THEN start ELSE Spread(h[n - 1], x)]
        BY <2>4 DEF SpreadFold!Repeats
    <2>6. Goes(h)   BY <2>3, <2>5
    <2> HIDE DEF Goes
    <2> QED BY <2>6
<1>3. Downstream(c, j, slice) = queue[N]   BY DEF Downstream
<1> HIDE DEF queue, N
<1>4. queue[0] = {}   BY <1>1, <1>2
<1>5. \A n \in 1 .. N : queue[n - 1] = {} => queue[n] = {}
    <2> TAKE n \in 1 .. N
    <2> HAVE queue[n - 1] = {}
    <2>1. n \in 0 .. N /\ n # 0   BY <1>1
    <2>2. queue[n] = queue[n - 1] \cup (UNION {DependentConsumers(m, c.usages) :
                                     m \in {y \in queue[n - 1] : slice[y] # Stored(c, y)}} \ {j.module})
        BY <1>2, <2>1, Zenon
    <2> QED BY <2>2
<1> DEFINE T == {n \in Nat : n <= N => queue[n] = {}}
<1>6. 0 \in T   BY <1>4
<1>7. \A n \in T : n + 1 \in T
    <2> TAKE n \in T
    <2>1. n + 1 \in Nat /\ n + 1 - 1 = n   OBVIOUS
    <2>2. n + 1 <= N => n + 1 \in 1 .. N   BY <1>1, <2>1
    <2>3. n + 1 <= N => queue[n + 1] = {}   BY <1>1, <1>5, <2>1, <2>2
    <2> QED BY <2>1, <2>3
<1>8. T \in SUBSET Nat   OBVIOUS
<1> HIDE DEF T
<1>9. \A n \in Nat : n \in T   BY <1>6, <1>7, <1>8, SpreadFold!NumbersByInduction
<1>10. N \in T   BY <1>1, <1>9
<1> QED BY <1>1, <1>3, <1>10 DEF T

\* What the difference says of the facts there are.
LEMMA DeltaSays ==
    ASSUME StateOf(canon, known), NEW m, NEW source, NEW d, d = NewDelta(m, source)
    PROVE  /\ d.module = m /\ (d.isDeleted <=> source = Absent)
           /\ source # Absent /\ ~d.isNew => m \in DOMAIN known
           /\ source # Absent /\ m \in DOMAIN known =>
                /\ ~d.payload => canon.artifacts[m] = Definitions(source)
                /\ ~d.collisions => canon.artifacts[m] = Definitions(source)
                /\ ~d.artifacts => canon.artifacts[m].defs = Definitions(source).defs
                /\ ~d.usage => canon.usages[m] = UsageFacts(m, source)
                /\ ~d.isNew /\ ~d.reexports => canon.facts[m] = ReexportFacts(m, source)
<1> DEFINE old == FactsOf(canon, m)
           new == Read(m, source)
           isNew == source # Absent /\ (Itself(m) \notin ids \/ m \notin DOMAIN canon.imports)
<1>1. DOMAIN canon.imports = DOMAIN known /\ DOMAIN canon.artifacts = DOMAIN known
      /\ DOMAIN canon.usages = DOMAIN known /\ DOMAIN canon.facts = DOMAIN known
    BY DEF StateOf, FileFactsOf
<1>2. m \in DOMAIN known =>
        old.artifacts = canon.artifacts[m] /\ old.usage = canon.usages[m] /\ old.facts = canon.facts[m]
    BY <1>1 DEF FactsOf
<1>3. source # Absent =>
        new.artifacts = Definitions(source) /\ new.usage = UsageFacts(m, source)
        /\ new.facts = ReexportFacts(m, source)
    BY DEF Read
<1> HIDE DEF old, new
<1>4. d = Delta(m, old, new, isNew, source = Absent)   BY DEF NewDelta, old, new
<1>5. /\ d.module = m /\ (d.isNew <=> isNew) /\ (d.isDeleted <=> source = Absent)
      /\ d.artifacts <=> old.artifacts.defs # new.artifacts.defs
      /\ d.payload <=> old.artifacts # new.artifacts
      /\ d.reexports <=> ~isNew /\ ~(source = Absent) /\ old.facts # new.facts
      /\ d.usage <=> old.usage # new.usage
      /\ d.collisions <=> old.artifacts # new.artifacts
    <2>1. d.module = m /\ d.isNew = isNew /\ d.isDeleted = (source = Absent)
          /\ d.reexports = (~isNew /\ ~(source = Absent) /\ old.facts # new.facts)
        BY <1>4 DEF Delta
    <2>2. /\ d.artifacts = (old.artifacts.defs # new.artifacts.defs)
          /\ d.payload = (old.artifacts # new.artifacts)
          /\ d.usage = (old.usage # new.usage)
          /\ d.collisions = (old.artifacts # new.artifacts)
        BY <1>4 DEF Delta
    <2> QED BY <2>1, <2>2
<1> HIDE DEF isNew
<1>6. source # Absent /\ ~d.isNew => m \in DOMAIN known   BY <1>1, <1>5 DEF isNew
<1> QED BY <1>2, <1>3, <1>5, <1>6

\* A change of one entry of a map of facts, and the same change of the map of
\* sources the facts are of.
Left(set, m, source) == IF source = Absent THEN set \ {m} ELSE set \cup {m}

Changed(map, m, source, value) == [x \in Left(DOMAIN map, m, source) |-> IF x = m THEN value ELSE map[x]]
IsMap(map) == map = [x \in DOMAIN map |-> map[x]]

LEMMA PatchIs ==
    ASSUME NEW j, NEW family, NEW map, IsMap(map), NEW value,
           Takes(j, family) \/ (j.source # Absent /\ j.module \in DOMAIN map /\ map[j.module] = value)
    PROVE  Patch(j, family, map, value) = Changed(map, j.module, j.source, value)
<1>1. CASE Takes(j, family)   BY <1>1 DEF Patch, Put, With, Left, Changed
<1>2. CASE ~Takes(j, family)
    <2>1. Patch(j, family, map, value) = map   BY <1>2 DEF Patch
    <2>2. Left(DOMAIN map, j.module, j.source) = DOMAIN map   BY <1>2 DEF Left
    <2>3. map = [x \in DOMAIN map |-> IF x = j.module THEN value ELSE map[x]]   BY <1>2 DEF IsMap
    <2> QED BY <2>1, <2>2, <2>3 DEF Changed
<1> QED BY <1>1, <1>2

LEMMA KnownAfterIs ==
    ASSUME NEW m, NEW source
    PROVE  KnownAfter(m, source) = [x \in Left(DOMAIN known, m, source) |-> IF x = m THEN source ELSE known[x]]
BY DEF KnownAfter, With, Left

\* An update under way that was planned from the state there is.
Planned(j) ==
    /\ j.delta = NewDelta(j.module, j.source)
    /\ j.plan = Plan(j.delta, canon.usages)

LEMMA PlanOfUpdate ==
    ASSUME StateOf(canon, known), NEW j, Planned(j)
    PROVE  /\ \/ j.source = Absent \/ j.delta.isNew
              \/ j.source # Absent /\ ~j.delta.isNew /\ j.module \in DOMAIN known
           /\ j.source = Absent \/ j.delta.isNew =>
                /\ {"modules", "definitions", "module_usages", "reexport_facts", "dependency_graph",
                    "artifact_consumption", "cached_analytics", "collision_facts", "collisions"}
                      \subseteq j.plan.families
                /\ j.plan.graph
           /\ j.source # Absent /\ ~j.delta.isNew => Covers(j.plan, j.delta)
<1>1. /\ j.delta.isDeleted <=> j.source = Absent
      /\ j.source # Absent /\ ~j.delta.isNew => j.module \in DOMAIN known
    BY DeltaSays DEF Planned
<1>2. j.source = Absent \/ j.delta.isNew =>
                /\ {"modules", "definitions", "module_usages", "reexport_facts", "dependency_graph",
                    "artifact_consumption", "cached_analytics", "collision_facts", "collisions"}
                      \subseteq j.plan.families
                /\ j.plan.graph
    BY <1>1, PlanOfStructure DEF Planned
<1>3. j.source # Absent /\ ~j.delta.isNew => Covers(j.plan, j.delta)
    BY <1>1, PlanCovers DEF Planned
<1> QED BY <1>1, <1>2, <1>3

\* The patched copy has the facts of the sources with the new one.
LEMMA PatchedFacts ==
    ASSUME StateOf(canon, known), NEW j, Planned(j)
    PROVE  LET p == Patched(canon, j)
               k == KnownAfter(j.module, j.source)
           IN /\ DOMAIN p.imports = DOMAIN k
              /\ p.artifacts = [m \in DOMAIN k |-> Definitions(k[m])]
              /\ p.usages = [m \in DOMAIN k |-> UsageFacts(m, k[m])]
              /\ p.facts = [m \in DOMAIN k |-> ReexportFacts(m, k[m])]
              /\ Patch(j, "collision_facts", canon.artifacts, Read(j.module, j.source).artifacts)
                   = [m \in DOMAIN k |-> Definitions(k[m])]
<1> DEFINE p == Patched(canon, j)
           m == j.module
           source == j.source
           k == KnownAfter(m, source)
           new == Read(m, source)
           D == Left(DOMAIN known, m, source)
<1>0. IsState(canon)   BY DEF StateOf, IsState
<1>1. /\ DOMAIN canon.imports = DOMAIN known
      /\ canon.artifacts = [x \in DOMAIN known |-> Definitions(known[x])]
      /\ canon.usages = [x \in DOMAIN known |-> UsageFacts(x, known[x])]
      /\ canon.facts = [x \in DOMAIN known |-> ReexportFacts(x, known[x])]
    BY DEF StateOf, FileFactsOf
<1>2. /\ p.imports = Patch(j, "modules", canon.imports, new.imports)
      /\ p.artifacts = Patch(j, "definitions", canon.artifacts, new.artifacts)
      /\ p.usages = Patch(j, "module_usages", canon.usages, new.usage)
      /\ p.facts = Patch(j, "reexport_facts", canon.facts, new.facts)
    BY <1>0, PatchedFields
<1>3. source # Absent =>
        new.artifacts = Definitions(source) /\ new.usage = UsageFacts(m, source)
        /\ new.facts = ReexportFacts(m, source)
    BY DEF Read
<1> HIDE DEF new, p
<1>4. /\ Takes(j, "modules") \/ (j.source # Absent /\ j.module \in DOMAIN known)
      /\ Takes(j, "definitions") \/ (j.source # Absent /\ j.module \in DOMAIN known
                                     /\ canon.artifacts[j.module] = new.artifacts)
      /\ Takes(j, "module_usages") \/ (j.source # Absent /\ j.module \in DOMAIN known
                                       /\ canon.usages[j.module] = new.usage)
      /\ Takes(j, "reexport_facts") \/ (j.source # Absent /\ j.module \in DOMAIN known
                                        /\ canon.facts[j.module] = new.facts)
      /\ Takes(j, "collision_facts") \/ (j.source # Absent /\ j.module \in DOMAIN known
                                         /\ canon.artifacts[j.module] = new.artifacts)
    <2>1. CASE j.source = Absent \/ j.delta.isNew
        <3>1. {"modules", "definitions", "module_usages", "reexport_facts", "collision_facts"} \subseteq j.plan.families
            BY <2>1, PlanOfUpdate
        <3> QED BY <3>1 DEF Takes
    <2>2. CASE j.source # Absent /\ ~j.delta.isNew
        <3>1. j.module \in DOMAIN known /\ Covers(j.plan, j.delta)   BY <2>2, PlanOfUpdate
        <3>2. j.delta = NewDelta(j.module, j.source)   BY DEF Planned
        <3>3. /\ j.source # Absent /\ j.module \in DOMAIN known
              /\ ~j.delta.payload => canon.artifacts[j.module] = Definitions(j.source)
              /\ ~j.delta.collisions => canon.artifacts[j.module] = Definitions(j.source)
              /\ ~j.delta.usage => canon.usages[j.module] = UsageFacts(j.module, j.source)
              /\ ~j.delta.isNew /\ ~j.delta.reexports => canon.facts[j.module] = ReexportFacts(j.module, j.source)
            BY <2>2, <3>1, <3>2, DeltaSays
        <3>4. /\ "definitions" \notin j.plan.families => ~j.delta.payload
              /\ "collision_facts" \notin j.plan.families => ~j.delta.collisions
              /\ "module_usages" \notin j.plan.families => ~j.delta.usage
              /\ "reexport_facts" \notin j.plan.families => ~j.delta.reexports
            BY <3>1 DEF Covers
        <3> QED BY <1>3, <2>2, <3>1, <3>3, <3>4 DEF Takes
    <2> QED BY <2>1, <2>2
<1>5. /\ p.artifacts = [x \in D |-> IF x = m THEN new.artifacts ELSE canon.artifacts[x]]
      /\ p.usages = [x \in D |-> IF x = m THEN new.usage ELSE canon.usages[x]]
      /\ p.facts = [x \in D |-> IF x = m THEN new.facts ELSE canon.facts[x]]
      /\ Patch(j, "collision_facts", canon.artifacts, new.artifacts)
           = [x \in D |-> IF x = m THEN new.artifacts ELSE canon.artifacts[x]]
    <2>1. /\ canon.artifacts = [x \in DOMAIN canon.artifacts |-> canon.artifacts[x]]
          /\ canon.usages = [x \in DOMAIN canon.usages |-> canon.usages[x]]
          /\ canon.facts = [x \in DOMAIN canon.facts |-> canon.facts[x]]
          /\ DOMAIN canon.artifacts = DOMAIN known /\ DOMAIN canon.usages = DOMAIN known
          /\ DOMAIN canon.facts = DOMAIN known
        BY <1>1
    <2>6. /\ Takes(j, "definitions") \/ (j.source # Absent /\ j.module \in DOMAIN canon.artifacts
                                     /\ canon.artifacts[j.module] = new.artifacts)
          /\ Takes(j, "module_usages") \/ (j.source # Absent /\ j.module \in DOMAIN canon.usages
                                       /\ canon.usages[j.module] = new.usage)
          /\ Takes(j, "reexport_facts") \/ (j.source # Absent /\ j.module \in DOMAIN canon.facts
                                        /\ canon.facts[j.module] = new.facts)
        BY <1>4, <2>1
    <2>2. Patch(j, "definitions", canon.artifacts, new.artifacts) = Changed(canon.artifacts, j.module, j.source, new.artifacts)
        <3>1. IsMap(canon.artifacts)   BY <2>1 DEF IsMap
        <3>2. Takes(j, "definitions") \/ (j.source # Absent /\ j.module \in DOMAIN canon.artifacts
                /\ canon.artifacts[j.module] = new.artifacts)
            BY <2>6
        <3> QED BY <3>1, <3>2, PatchIs
    <2>3. Patch(j, "module_usages", canon.usages, new.usage) = Changed(canon.usages, j.module, j.source, new.usage)
        <3>1. IsMap(canon.usages)   BY <2>1 DEF IsMap
        <3>2. Takes(j, "module_usages") \/ (j.source # Absent /\ j.module \in DOMAIN canon.usages
                /\ canon.usages[j.module] = new.usage)
            BY <2>6
        <3> QED BY <3>1, <3>2, PatchIs
    <2>4. Patch(j, "reexport_facts", canon.facts, new.facts) = Changed(canon.facts, j.module, j.source, new.facts)
        <3>1. IsMap(canon.facts)   BY <2>1 DEF IsMap
        <3>2. Takes(j, "reexport_facts") \/ (j.source # Absent /\ j.module \in DOMAIN canon.facts
                /\ canon.facts[j.module] = new.facts)
            BY <2>6
        <3> QED BY <3>1, <3>2, PatchIs
    <2>5. Patch(j, "collision_facts", canon.artifacts, new.artifacts)
            = Changed(canon.artifacts, j.module, j.source, new.artifacts)
        <3>1. IsMap(canon.artifacts)   BY <2>1 DEF IsMap
        <3>2. Takes(j, "collision_facts") \/ (j.source # Absent /\ j.module \in DOMAIN canon.artifacts
                /\ canon.artifacts[j.module] = new.artifacts)
            BY <1>4, <2>1
        <3> QED BY <3>1, <3>2, PatchIs
    <2> QED BY <1>2, <2>1, <2>2, <2>3, <2>4, <2>5 DEF Changed
<1>6. DOMAIN p.imports = D
    <2>1. CASE Takes(j, "modules")
        <3>1. p.imports = Put(canon.imports, j.module, new.imports, j.source = Absent)   BY <2>1, <1>2 DEF Patch
        <3>2. DOMAIN Put(canon.imports, j.module, new.imports, j.source = Absent)
                = Left(DOMAIN canon.imports, j.module, j.source)
            BY DEF Put, With, Left
        <3> QED BY <3>1, <3>2, <1>1, Zenon
    <2>2. CASE ~Takes(j, "modules")
        <3>1. p.imports = canon.imports   BY <2>2, <1>2 DEF Patch
        <3>2. Left(DOMAIN known, j.module, j.source) = DOMAIN known   BY <1>4, <2>2 DEF Left
        <3> QED BY <3>1, <3>2, <1>1
    <2> QED BY <2>1, <2>2
<1>7. /\ DOMAIN k = D
      /\ \A x \in D : k[x] = IF x = m THEN source ELSE known[x]
      /\ \A x \in D : x # m => x \in DOMAIN known
      /\ m \in D => source # Absent
    <2>1. k = [x \in D |-> IF x = m THEN source ELSE known[x]]   BY KnownAfterIs
    <2> HIDE DEF k
    <2> QED BY <2>1 DEF Left
<1> HIDE DEF k, m, source, D
<1>8. /\ \A x \in D : Definitions(k[x]) = IF x = m THEN new.artifacts ELSE canon.artifacts[x]
      /\ \A x \in D : UsageFacts(x, k[x]) = IF x = m THEN new.usage ELSE canon.usages[x]
      /\ \A x \in D : ReexportFacts(x, k[x]) = IF x = m THEN new.facts ELSE canon.facts[x]
    <2>1. ASSUME NEW x \in D, x = m
          PROVE  /\ Definitions(k[x]) = new.artifacts /\ UsageFacts(x, k[x]) = new.usage
                 /\ ReexportFacts(x, k[x]) = new.facts
        <3>1. k[x] = source /\ source # Absent   BY <1>7, <2>1
        <3> QED BY <1>3, <2>1, <3>1
    <2>2. ASSUME NEW x \in D, x # m
          PROVE  /\ Definitions(k[x]) = canon.artifacts[x] /\ UsageFacts(x, k[x]) = canon.usages[x]
                 /\ ReexportFacts(x, k[x]) = canon.facts[x]
        <3>1. k[x] = known[x] /\ x \in DOMAIN known   BY <1>7, <2>2
        <3> QED BY <1>1, <3>1
    <2> QED BY <2>1, <2>2
<1>9. p.artifacts = [x \in D |-> Definitions(k[x])]   BY <1>5, <1>8
<1>10. p.usages = [x \in D |-> UsageFacts(x, k[x])]   BY <1>5, <1>8
<1>11. p.facts = [x \in D |-> ReexportFacts(x, k[x])]   BY <1>5, <1>8
<1>12. Patch(j, "collision_facts", canon.artifacts, new.artifacts) = [x \in DOMAIN k |-> Definitions(k[x])]
    BY <1>5, <1>7, <1>8
<1>13. DOMAIN p.imports = DOMAIN k /\ p.artifacts = [x \in DOMAIN k |-> Definitions(k[x])]
       /\ p.usages = [x \in DOMAIN k |-> UsageFacts(x, k[x])] /\ p.facts = [x \in DOMAIN k |-> ReexportFacts(x, k[x])]
    BY <1>6, <1>7, <1>9, <1>10, <1>11, Zenon
<1> QED BY <1>12, <1>13 DEF p, k, m, source, new

\* The slices that are replaced are of symbols there are.
LEMMA RebuiltSlices ==
    ASSUME NEW c, NEW j, c.targets = TargetsOf(DefsOf(c.artifacts)), \A s \in c.slices : s[1] \in c.targets
    PROVE  \A s \in RebuiltFrom(c, j, CurrentSlices(c)) : s[1] \in c.targets
<1> DEFINE exports == ExportState(c.facts, c.order)
           slice == SlicesFrom(c, exports)
<1>1. ASSUME NEW m \in DOMAIN c.usages
      PROVE  \A s \in slice[m] : s[1] \in c.targets
    <2> HIDE DEF exports
    <2>1. slice[m] = {<<t[1], m, t[2]>> : t \in ConsumerSlice(c.usages[m], DefsOf(c.artifacts), exports)}
        BY DEF SlicesFrom
    <2>2. \A t \in ConsumerSlice(c.usages[m], DefsOf(c.artifacts), exports) : t[1] \in c.targets
        BY SlicesAreOfTargets
    <2> QED BY <2>1, <2>2
<1>2. DOMAIN slice = DOMAIN c.usages   BY DEF SlicesFrom
<1> HIDE DEF slice
<1>3. ASSUME NEW set
      PROVE  \A s \in Replaced(c, slice, set) : s[1] \in c.targets
    BY <1>1, <1>2 DEF Replaced
<1>4. CurrentSlices(c) = slice   BY DEF CurrentSlices, slice
<1> QED BY <1>3, <1>4 DEF RebuiltFrom

\* An update that leaves the consumption alone: nothing it is computed from
\* changes.
LEMMA QuietUpdate ==
    ASSUME StateOf(canon, known), NEW j, Planned(j), DOMAIN known \subseteq Modules,
           "artifact_consumption" \notin j.plan.families
    PROVE  LET r == Rebuilt(Patched(canon, j), j)
           IN /\ DefsOf(r.artifacts) = DefsOf(canon.artifacts)
              /\ r.slices = canon.slices
              /\ "dependency_graph" \notin j.plan.families
<1> DEFINE p == Patched(canon, j)
           r == Rebuilt(p, j)
           slice == CurrentSlices(p)
<1>0. IsState(canon)   BY DEF StateOf, IsState
<1>1. /\ j.source # Absent /\ ~j.delta.isNew /\ j.module \in DOMAIN known /\ Covers(j.plan, j.delta)
    BY PlanOfUpdate
<1>2. /\ "dependency_graph" \notin j.plan.families /\ j.plan.recompute = {} /\ ~j.delta.artifacts
    BY <1>1 DEF Covers
<1>3. KnownAfter(j.module, j.source) = [x \in DOMAIN known |-> IF x = j.module THEN j.source ELSE known[x]]
    BY <1>1, KnownAfterIs DEF Left
<1>4. p.artifacts = [x \in DOMAIN known |-> IF x = j.module THEN Definitions(j.source) ELSE Definitions(known[x])]
      /\ DOMAIN p.usages = DOMAIN known
    <2> DEFINE k == KnownAfter(j.module, j.source)
    <2>1. p.artifacts = [x \in DOMAIN k |-> Definitions(k[x])] /\ p.usages = [x \in DOMAIN k |-> UsageFacts(x, k[x])]
        BY PatchedFacts
    <2> HIDE DEF p
    <2>2. k = [x \in DOMAIN known |-> IF x = j.module THEN j.source ELSE known[x]]   BY <1>3
    <2> HIDE DEF k
    <2>3. DOMAIN k = DOMAIN known   BY <2>2
    <2>4. \A x \in DOMAIN known :
             Definitions(k[x]) = IF x = j.module THEN Definitions(j.source) ELSE Definitions(known[x])
        BY <2>2
    <2> QED BY <2>1, <2>3, <2>4
<1>5. canon.artifacts = [x \in DOMAIN known |-> Definitions(known[x])]
      /\ canon.artifacts[j.module].defs = Definitions(j.source).defs
    <2>1. j.delta = NewDelta(j.module, j.source)   BY DEF Planned
    <2>2. canon.artifacts[j.module].defs = Definitions(j.source).defs   BY <1>1, <1>2, <2>1, DeltaSays
    <2> QED BY <2>2 DEF StateOf, FileFactsOf
<1>6. DefsOf(p.artifacts) = DefsOf(canon.artifacts)
    <2> HIDE DEF p
    <2>1. DOMAIN p.artifacts = DOMAIN known /\ DOMAIN canon.artifacts = DOMAIN known   BY <1>4, <1>5
    <2>2. \A x \in DOMAIN known : p.artifacts[x].defs = canon.artifacts[x].defs
        <3> TAKE x \in DOMAIN known
        <3>1. CASE x = j.module   BY <3>1, <1>4, <1>5
        <3>2. CASE x # j.module   BY <3>2, <1>4, <1>5
        <3> QED BY <3>1, <3>2
    <2> QED BY <2>1, <2>2 DEF DefsOf
<1>7. p.targets = TargetsOf(DefsOf(p.artifacts)) /\ p.slices = {s \in canon.slices : s[1] \in p.targets}
    BY <1>0, PatchedFields
<1>8. canon.targets = TargetsOf(DefsOf(canon.artifacts)) /\ \A s \in canon.slices : s[1] \in canon.targets
    BY DEF StateOf, FileFactsOf, DerivedOf
<1>9. p.slices = canon.slices
    <2>1. p.targets = canon.targets   BY <1>6, <1>7, <1>8, Zenon
    <2> HIDE DEF p
    <2> QED BY <1>7, <1>8, <2>1
<1>10. r.slices = p.slices /\ r.artifacts = p.artifacts
    <2>1. IsState(p)   BY <1>0, PatchedFields
    <2> HIDE DEF p
    <2>2. r.slices = RebuiltFrom(p, j, slice) /\ Same(p, r, {"slices"})   BY <2>1, RebuiltFields
    <2>3. IsFiniteSet(DOMAIN p.usages)   BY <1>4, FS_Subset, EngineAssumption
    <2> HIDE DEF slice, r
    <2>4. Downstream(p, j, slice) = {}   BY <1>2, <2>3, NothingDownstream
    <2>5. OwnRefresh(j) = {}   BY DEF OwnRefresh, If
    <2>6. RebuiltFrom(p, j, slice) = p.slices   BY <2>4, <2>5 DEF RebuiltFrom, Replaced
    <2> QED BY <2>2, <2>6 DEF Same, Field
<1> QED BY <1>2, <1>6, <1>9, <1>10

\* The copy an update works on, before its families are marked.
Copy(j) == WithCollisions(Regraphed(Rebuilt(Patched(canon, j), j), j), j)

LEMMA CopyFields ==
    ASSUME StateOf(canon, known), NEW j, Planned(j)
    PROVE  LET k == KnownAfter(j.module, j.source)
               c == Copy(j)
           IN /\ IsState(c) /\ FileFactsOf(c, k)
              /\ \A s \in c.slices : s[1] \in c.targets
              /\ c.marker = canon.marker /\ c.lineage = canon.lineage
              /\ c.artifacts = Rebuilt(Patched(canon, j), j).artifacts
              /\ c.slices = Rebuilt(Patched(canon, j), j).slices
              /\ "dependency_graph" \notin j.plan.families => c.graph = canon.graph
              /\ "collision_facts" \notin j.plan.families => c.collisions = canon.collisions
<1> DEFINE k == KnownAfter(j.module, j.source)
           p == Patched(canon, j)
           r == Rebuilt(p, j)
           g == Regraphed(r, j)
           c == WithCollisions(g, j)
<1>0. IsState(canon)   BY DEF StateOf, IsState
<1>1. /\ IsState(p) /\ p.targets = TargetsOf(DefsOf(p.artifacts))
      /\ p.slices = {s \in canon.slices : s[1] \in p.targets}
      /\ Same(canon, p, {"imports", "artifacts", "usages", "facts", "order", "targets", "slices"})
    BY <1>0, PatchedFields
<1>2. /\ DOMAIN p.imports = DOMAIN k
      /\ p.artifacts = [m \in DOMAIN k |-> Definitions(k[m])]
      /\ p.usages = [m \in DOMAIN k |-> UsageFacts(m, k[m])]
      /\ p.facts = [m \in DOMAIN k |-> ReexportFacts(m, k[m])]
      /\ Patch(j, "collision_facts", canon.artifacts, Read(j.module, j.source).artifacts)
           = [m \in DOMAIN k |-> Definitions(k[m])]
    BY PatchedFacts
<1> HIDE DEF p
<1>3. IsState(r) /\ Same(p, r, {"slices"}) /\ r.slices = RebuiltFrom(p, j, CurrentSlices(p))
    BY <1>1, RebuiltFields
<1>4. \A s \in r.slices : s[1] \in p.targets
    <2>1. \A s \in p.slices : s[1] \in p.targets   BY <1>1
    <2> QED BY <1>1, <1>3, <2>1, RebuiltSlices
<1> HIDE DEF r
<1>5. IsState(g) /\ Same(r, g, {"graph", "trie", "root"}) /\ ("dependency_graph" \notin j.plan.families => g = r)
    BY <1>3, RegraphedFields
<1> HIDE DEF g
<1>6. /\ IsState(c) /\ Same(g, c, {"collisions"})
      /\ "collision_facts" \notin j.plan.families => c = g
      /\ "collision_facts" \in j.plan.families =>
           c.collisions = Put(g.collisions, j.module, Read(j.module, j.source).artifacts, j.source = Absent)
    BY <1>5, CollisionsFields
<1> HIDE DEF c
<1>7. /\ c.imports = p.imports /\ c.artifacts = p.artifacts /\ c.usages = p.usages /\ c.facts = p.facts
      /\ c.targets = p.targets /\ c.slices = r.slices /\ c.artifacts = r.artifacts
      /\ c.marker = p.marker /\ c.lineage = p.lineage /\ g.collisions = p.collisions
      /\ "dependency_graph" \notin j.plan.families => c.graph = p.graph
      /\ "collision_facts" \notin j.plan.families => c.collisions = g.collisions
    BY <1>3, <1>5, <1>6 DEF Same, Field
<1>8. /\ p.marker = canon.marker /\ p.lineage = canon.lineage /\ p.collisions = canon.collisions
      /\ p.graph = canon.graph
    BY <1>1 DEF Same, Field
<1>9. c.collisions = Patch(j, "collision_facts", canon.collisions, Read(j.module, j.source).artifacts)
    <2>1. j.source = Absent => "collision_facts" \in j.plan.families   BY PlanOfUpdate
    <2>2. CASE "collision_facts" \in j.plan.families
        <3>1. c.collisions = Put(canon.collisions, j.module, Read(j.module, j.source).artifacts, j.source = Absent)
            BY <2>2, <1>6, <1>7, <1>8, Zenon
        <3> QED BY <3>1, <2>2 DEF Patch, Takes
    <2>3. CASE "collision_facts" \notin j.plan.families
        <3>1. c.collisions = canon.collisions   BY <2>3, <1>7, <1>8
        <3> QED BY <3>1, <2>1, <2>3 DEF Patch, Takes
    <2> QED BY <2>2, <2>3
<1>10. canon.collisions = canon.artifacts   BY DEF StateOf, FileFactsOf
<1>11. FileFactsOf(c, k)
    <2>1. c.collisions = c.artifacts   BY <1>2, <1>7, <1>9, <1>10, Zenon
    <2>2. c.targets = TargetsOf(DefsOf(c.artifacts))   BY <1>1, <1>7, Zenon
    <2> HIDE DEF k
    <2> QED BY <1>2, <1>7, <2>1, <2>2, Zenon DEF FileFactsOf
<1>12. \A s \in c.slices : s[1] \in c.targets   BY <1>4, <1>7
<1>13. /\ c.marker = canon.marker /\ c.lineage = canon.lineage
       /\ c.artifacts = r.artifacts /\ c.slices = r.slices
       /\ "dependency_graph" \notin j.plan.families => c.graph = canon.graph
       /\ "collision_facts" \notin j.plan.families => c.collisions = canon.collisions
    BY <1>7, <1>8
<1> QED BY <1>6, <1>11, <1>12, <1>13, Zenon DEF c, g, r, p, Copy

\* A family that is not recomputed has the inputs it was computed from.
LEMMA UntouchedInputs ==
    ASSUME StateOf(canon, known), NEW j, Planned(j), DOMAIN known \subseteq Modules,
           NEW f \in Families \ Recomputed(j)
    PROVE  Inputs(Copy(j), f) = Inputs(canon, f)
<1> DEFINE c == Copy(j)
<1>1. /\ c.artifacts = Rebuilt(Patched(canon, j), j).artifacts
      /\ c.slices = Rebuilt(Patched(canon, j), j).slices
      /\ "dependency_graph" \notin j.plan.families => c.graph = canon.graph
      /\ "collision_facts" \notin j.plan.families => c.collisions = canon.collisions
    BY CopyFields
<1>2. /\ "dependency_graph" \in j.plan.families => j.plan.graph
      /\ "collision_facts" \in j.plan.families => "collisions" \in j.plan.families
      /\ "cached_analytics" \notin j.plan.families => "artifact_consumption" \notin j.plan.families
    <2>1. CASE j.source = Absent \/ j.delta.isNew   BY <2>1, PlanOfUpdate
    <2>2. CASE j.source # Absent /\ ~j.delta.isNew
        <3>1. Covers(j.plan, j.delta)   BY <2>2, PlanOfUpdate
        <3> QED BY <3>1 DEF Covers
    <2> QED BY <2>1, <2>2
<1>3. "artifact_consumption" \notin j.plan.families =>
        /\ DefsOf(c.artifacts) = DefsOf(canon.artifacts) /\ c.slices = canon.slices /\ c.graph = canon.graph
    <2> SUFFICES ASSUME "artifact_consumption" \notin j.plan.families
                 PROVE  DefsOf(c.artifacts) = DefsOf(canon.artifacts) /\ c.slices = canon.slices
                        /\ c.graph = canon.graph
        OBVIOUS
    <2>1. /\ DefsOf(Rebuilt(Patched(canon, j), j).artifacts) = DefsOf(canon.artifacts)
          /\ Rebuilt(Patched(canon, j), j).slices = canon.slices
          /\ "dependency_graph" \notin j.plan.families
        BY QuietUpdate
    <2> HIDE DEF c
    <2> QED BY <1>1, <2>1
<1> HIDE DEF c
<1>4. CASE f \in GraphFamilies
    <2>1. ~j.plan.graph   BY <1>4 DEF Recomputed, If
    <2>2. c.graph = canon.graph   BY <2>1, <1>1, <1>2
    <2> QED BY <1>4, <2>2 DEF Inputs, c
<1>5. CASE f = "collisions"
    <2>1. "collisions" \notin j.plan.families   BY <1>5 DEF Recomputed, If
    <2>2. c.collisions = canon.collisions   BY <2>1, <1>1, <1>2
    <2> QED BY <1>5, <2>2 DEF Inputs, GraphFamilies, c
<1>6. CASE f \in {"cached", "consumption", "matrix", "clusters"}
    <2>1. "artifact_consumption" \notin j.plan.families
        <3>1. CASE f = "cached"   BY <3>1, <1>2 DEF Recomputed, If
        <3>2. CASE f = "consumption"   BY <3>2 DEF Recomputed, If
        <3>3. CASE f \in {"matrix", "clusters"}   BY <3>3 DEF Recomputed, If
        <3> QED BY <3>1, <3>2, <3>3, <1>6
    <2>2. DefsOf(c.artifacts) = DefsOf(canon.artifacts) /\ c.slices = canon.slices
          /\ c.graph.hard = canon.graph.hard
        BY <2>1, <1>3
    <2> QED BY <1>6, <2>2 DEF Inputs, GraphFamilies, c
<1> QED BY <1>4, <1>5, <1>6 DEF Families, GraphFamilies

\* A state that differs in other fields only has the same facts.
LEMMA SameFileFacts ==
    ASSUME NEW c, NEW d, NEW changed, Same(c, d, changed), NEW k,
           changed \cap {"imports", "artifacts", "usages", "facts", "targets", "collisions"} = {}
    PROVE  /\ FileFactsOf(c, k) => FileFactsOf(d, k)
           /\ Identities(d) = Identities(c)
<1>1. /\ d.imports = c.imports /\ d.artifacts = c.artifacts /\ d.usages = c.usages /\ d.facts = c.facts
      /\ d.targets = c.targets /\ d.collisions = c.collisions
    BY DEF Same, Field
<1>2. Identities(d) = Identities(c)   BY <1>1 DEF Identities
<1>3. ASSUME FileFactsOf(c, k) PROVE FileFactsOf(d, k)
    <2>1. /\ DOMAIN c.imports = DOMAIN k
          /\ c.artifacts = [m \in DOMAIN k |-> Definitions(k[m])]
          /\ c.usages = [m \in DOMAIN k |-> UsageFacts(m, k[m])]
          /\ c.facts = [m \in DOMAIN k |-> ReexportFacts(m, k[m])]
          /\ c.targets = TargetsOf(DefsOf(c.artifacts))
          /\ c.collisions = c.artifacts
        BY <1>3 DEF FileFactsOf
    <2> QED BY <1>1, <2>1, Zenon DEF FileFactsOf
<1> QED BY <1>2, <1>3

LEMMA SameDerived ==
    ASSUME NEW c, NEW d, NEW changed, Same(c, d, changed), DerivedOf(c),
           changed \cap {"slices", "targets", "marker", "current"} = {}
    PROVE  DerivedOf(d)
<1>1. d.slices = c.slices /\ d.targets = c.targets /\ d.marker = c.marker /\ d.current = c.current
    BY DEF Same, Field
<1> QED BY <1>1 DEF DerivedOf

\* The families of the executed copy.
LEMMA ExecutedFields ==
    ASSUME StateOf(canon, known), NEW j, Planned(j), DOMAIN known \subseteq Modules, NEW raising
    PROVE  LET d == Executed(canon, j, raising)
           IN /\ IsState(d) /\ FileFactsOf(d, KnownAfter(j.module, j.source)) /\ DerivedOf(d)
              /\ d.lineage = canon.lineage
<1> DEFINE k == KnownAfter(j.module, j.source)
           c == Copy(j)
           marker == [f \in Families |-> NextMarker(c, j, raising, f)]
           d == MarkedBy(canon, c, j, raising, marker)
<1>1. Executed(canon, j, raising) = d   BY DEF Executed, WithFamilies, Copy
<1>2. /\ IsState(c) /\ FileFactsOf(c, k) /\ \A s \in c.slices : s[1] \in c.targets
      /\ c.marker = canon.marker /\ c.lineage = canon.lineage
    BY CopyFields
<1>3. \A f \in Families \ Recomputed(j) : Inputs(c, f) = Inputs(canon, f)   BY UntouchedInputs
<1> HIDE DEF c, k
<1>4. /\ IsState(d) /\ Same(c, d, {"marker", "current"}) /\ d.marker = marker
      /\ d.current = {f \in Families : marker[f] = "fresh"
                       /\ (f \in Recomputed(j) \ raising \/ StillCurrent(canon, c, f))}
    <2> HIDE DEF marker
    <2>1. IsState(c)   BY <1>2
    <2>2. IsState(d)   BY <2>1, MarkedFields
    <2>3. Same(c, d, {"marker", "current"})   BY <2>1, MarkedFields
    <2>4. d.marker = marker   BY <2>1, MarkedFields
    <2>5. d.current = {f \in Families : marker[f] = "fresh"
                       /\ (f \in Recomputed(j) \ raising \/ StillCurrent(canon, c, f))}
        BY <2>1, MarkedFields
    <2> QED BY <2>2, <2>3, <2>4, <2>5
<1>5. \A f \in Families : canon.marker[f] = "fresh" => f \in canon.current
    BY DEF StateOf, DerivedOf
<1>6. ASSUME NEW f \in Families, marker[f] = "fresh"
      PROVE  f \in Recomputed(j) \ raising \/ StillCurrent(canon, c, f)
    <2>1. NextMarker(c, j, raising, f) = "fresh"   BY <1>6
    <2>2. CASE f \in Recomputed(j)
        <3>1. f \notin raising
            <4> SUFFICES ASSUME f \in raising PROVE FALSE
                OBVIOUS
            <4> QED BY <2>1, <2>2 DEF NextMarker
        <3> QED BY <2>2, <3>1
    <2>3. CASE f \notin Recomputed(j)
        <3>1. c.marker[f] = "fresh"   BY <2>1, <2>3 DEF NextMarker
        <3>2. f \in canon.current   BY <3>1, <1>2, <1>5
        <3> QED BY <3>2, <2>3, <1>3 DEF StillCurrent
    <2> QED BY <2>2, <2>3
<1>7. marker = [f \in Families |-> marker[f]]   OBVIOUS
<1> HIDE DEF marker
<1>8. DerivedOf(d)
    <2>1. d.slices = c.slices /\ d.targets = c.targets   BY <1>4 DEF Same, Field
    <2>2. \A f \in Families : d.marker[f] = "fresh" => f \in d.current   BY <1>4, <1>6
    <2>3. d.marker = [f \in Families |-> d.marker[f]]   BY <1>4, <1>7
    <2> HIDE DEF d
    <2> QED BY <1>2, <2>1, <2>2, <2>3 DEF DerivedOf
<1>9. FileFactsOf(d, k)   BY <1>2, <1>4, SameFileFacts
<1>10. d.lineage = canon.lineage   BY <1>2, <1>4 DEF Same, Field
<1> QED BY <1>1, <1>4, <1>8, <1>9, <1>10, Zenon DEF k

LEMMA ParsedFields ==
    ASSUME NEW d, IsState(d), NEW parse
    PROVE  IsState([d EXCEPT !.parse = parse]) /\ Same(d, [d EXCEPT !.parse = parse], {"parse"})
BY DEF IsState, Same, Field

\* The lineage taken from the source, and the file's parse state.
LEMMA LineageIsState ==
    ASSUME NEW d, NEW q, IsState(q), Same(d, q, {"parse"}), NEW m, NEW source,
           FileFactsOf(d, KnownAfter(m, source)), DerivedOf(d),
           LineageOf(canon, known), d.lineage = canon.lineage
    PROVE  /\ StateOf(WithLineage(q, m, source), KnownAfter(m, source))
           /\ Identities(WithLineage(q, m, source)) = Identities(d)
<1> DEFINE k == KnownAfter(m, source)
           e == WithLineage(q, m, source)
<1>1. IsState(q) /\ Same(d, q, {"parse"})   OBVIOUS
<1>2. /\ IsState(e) /\ Same(q, e, {"lineage", "lineageState"})
      /\ e.lineage = IF source = Absent THEN [s \in DOMAIN q.lineage \ {m} |-> q.lineage[s]]
                     ELSE With(q.lineage, m, source)
      /\ e.lineageState = "fresh" => DOMAIN e.lineage = DOMAIN e.imports
    BY <1>1, LineageFields
<1> HIDE DEF e
<1>3. Same(d, e, {"parse", "lineage", "lineageState"})   BY <1>1, <1>2 DEF Same
<1>4. FileFactsOf(e, k) /\ Identities(e) = Identities(d)   BY <1>3, SameFileFacts
<1>5. DerivedOf(e)   BY <1>3, SameDerived
<1>6. q.lineage = canon.lineage   BY <1>1 DEF Same, Field
<1>7. /\ canon.lineage = [x \in DOMAIN canon.lineage |-> canon.lineage[x]]
      /\ DOMAIN canon.lineage \subseteq DOMAIN known
      /\ \A x \in DOMAIN canon.lineage : canon.lineage[x] = known[x]
    BY DEF LineageOf
<1>8. e.lineage = Changed(canon.lineage, m, source, source)
    BY <1>2, <1>6 DEF Changed, Left, With
<1>9. k = Changed(known, m, source, source)   BY KnownAfterIs DEF Changed
<1>10. DOMAIN e.imports = DOMAIN k   BY <1>4 DEF FileFactsOf
<1> HIDE DEF k
<1>11. LineageOf(e, k)
    <2>1. e.lineage = [x \in DOMAIN e.lineage |-> e.lineage[x]]   BY <1>8 DEF Changed
    <2>2. DOMAIN e.lineage = Left(DOMAIN canon.lineage, m, source) /\ DOMAIN k = Left(DOMAIN known, m, source)
        BY <1>8, <1>9 DEF Changed
    <2>3. DOMAIN e.lineage \subseteq DOMAIN k   BY <2>2, <1>7 DEF Left
    <2>4. \A x \in DOMAIN e.lineage : e.lineage[x] = k[x]
        <3> TAKE x \in DOMAIN e.lineage
        <3>1. e.lineage[x] = IF x = m THEN source ELSE canon.lineage[x]   BY <1>8, <2>2 DEF Changed
        <3>2. k[x] = IF x = m THEN source ELSE known[x]   BY <1>9, <2>2, <2>3 DEF Changed
        <3>3. x # m => x \in DOMAIN canon.lineage   BY <2>2 DEF Left
        <3> QED BY <3>1, <3>2, <3>3, <1>7
    <2> QED BY <2>1, <2>3, <2>4, <1>2, <1>10 DEF LineageOf
<1>12. StateOf(e, k)   BY <1>2, <1>4, <1>5, <1>11 DEF StateOf, IsState
<1> QED BY <1>4, <1>12 DEF e, k

LEMMA DistrustedIsState ==
    ASSUME NEW k, StateOf(canon, k)
    PROVE  /\ StateOf(Distrusted(canon), k)
           /\ Same(canon, Distrusted(canon), {"marker"})
           /\ Identities(Distrusted(canon)) = Identities(canon)
<1> DEFINE d == [canon EXCEPT !.marker["consumption"] = "stale"]
<1>1. IsState(canon) /\ FileFactsOf(canon, k) /\ DerivedOf(canon) /\ LineageOf(canon, k)
    BY DEF StateOf, IsState
<1>2. IsState(d) /\ Same(canon, d, {"marker"}) /\ d.marker = [canon.marker EXCEPT !["consumption"] = "stale"]
    BY <1>1 DEF IsState, Same, Field
<1> HIDE DEF d
<1>3. FileFactsOf(d, k) /\ Identities(d) = Identities(canon)
    BY <1>1, <1>2, SameFileFacts
<1>4. /\ d.slices = canon.slices /\ d.targets = canon.targets /\ d.current = canon.current
      /\ d.lineage = canon.lineage /\ d.lineageState = canon.lineageState
    BY <1>2 DEF Same, Field
<1>5. DerivedOf(d)
    <2>1. canon.marker = [f \in Families |-> canon.marker[f]]
          /\ \A f \in Families : canon.marker[f] = "fresh" => f \in canon.current
        BY <1>1 DEF DerivedOf
    <2>2. d.marker = [f \in Families |-> IF f = "consumption" THEN "stale" ELSE canon.marker[f]]
        BY <1>2, <2>1
    <2>3. \A f \in Families : d.marker[f] = "fresh" => f \in d.current   BY <1>4, <2>1, <2>2
    <2>4. d.marker = [f \in Families |-> d.marker[f]]   BY <2>2
    <2>5. \A s \in d.slices : s[1] \in d.targets   BY <1>1, <1>4 DEF DerivedOf
    <2> QED BY <2>3, <2>4, <2>5 DEF DerivedOf
<1>6. LineageOf(d, k)   BY <1>1, <1>4 DEF LineageOf
<1>7. StateOf(d, k)   BY <1>2, <1>3, <1>5, <1>6 DEF StateOf, IsState
<1>8. Same(canon, canon, {"marker"})   BY DEF Same
<1>9. CASE resync   BY <1>9, <1>2, <1>3, <1>7 DEF Distrusted, d
<1>10. CASE ~resync   BY <1>10, <1>8 DEF Distrusted
<1> QED BY <1>9, <1>10

LEMMA SameJob ==
    ASSUME JobInv, canon' = canon, ids' = ids, known' = known, job' = job
    PROVE  JobInv'
BY DEF JobInv, NewDelta, KnownAfter

LEMMA NoJobInv == NoJob.at = "idle" /\ (job' = NoJob => JobInv' /\ job'.at # "acknowledge")
BY DEF NoJob, JobInv

\* Steps that leave the canonical state and the update alone.
LEMMA SameCanon ==
    ASSUME EngineInv, UNCHANGED <<canon, job, known>>, ids' = ids,
           disk' = [m \in Modules |-> disk'[m]],
           \A m \in stat' \ raced' : m \in DOMAIN known => known[m] = disk'[m]
    PROVE  EngineInv'
<1>1. JobInv'   BY SameJob DEF EngineInv
<1>2. Identities(canon)' \subseteq ids'   BY DEF EngineInv
<1>3. job'.at # "acknowledge" => StateOf(canon', known')   BY DEF EngineInv
<1>4. known' = [m \in DOMAIN known' |-> known'[m]] /\ DOMAIN known' \subseteq Modules   BY DEF EngineInv
<1>5. \A m \in stat' \ raced' : m \in DOMAIN known' => known'[m] = disk'[m]   OBVIOUS
<1> QED BY <1>1, <1>2, <1>3, <1>4, <1>5 DEF EngineInv

LEMMA EngineChangesFile ==
    ASSUME EngineInv, NEW m, ChangeFile(m)
    PROVE  EngineInv'
<1>1. PICK file : disk' = [disk EXCEPT ![m] = file]   BY DEF ChangeFile
<1>2. disk' = [x \in Modules |-> disk'[x]] /\ \A x \in Modules : x # m => disk'[x] = disk[x]
    BY <1>1 DEF EngineInv
<1>3. \A x \in stat' \ raced' : x \in DOMAIN known => known[x] = disk'[x]
    <2> TAKE x \in stat' \ raced'
    <2>1. x \in stat \ raced /\ x # m   BY DEF ChangeFile
    <2>2. x \in DOMAIN known => known[x] = disk[x] /\ x \in Modules   BY <2>1 DEF EngineInv
    <2> QED BY <2>1, <2>2, <1>2
<1> QED BY <1>2, <1>3, SameCanon DEF ChangeFile

LEMMA EngineRestoresFile ==
    ASSUME EngineInv, NEW m, RestoreFile(m)
    PROVE  EngineInv'
<1>1. disk' = [disk EXCEPT ![m] = known[m]] /\ m \in Modules   BY DEF RestoreFile, EngineInv
<1>2. /\ disk' = [x \in Modules |-> disk'[x]]
      /\ disk'[m] = known[m]
      /\ \A x \in Modules : x # m => disk'[x] = disk[x]
    BY <1>1 DEF EngineInv
<1>3. \A x \in stat' \ raced' : x \in DOMAIN known => known[x] = disk'[x]
    <2> TAKE x \in stat' \ raced'
    <2>1. x = m \/ x \in stat \ raced   BY DEF RestoreFile
    <2>2. x # m /\ x \in DOMAIN known => known[x] = disk[x] /\ x \in Modules   BY <2>1 DEF EngineInv
    <2>3. \A y \in Modules : y # m => disk'[y] = disk[y]   BY <1>2
    <2>4. disk'[m] = known[m]   BY <1>2
    <2> QED BY <2>1, <2>2, <2>3, <2>4
<1> QED BY <1>2, <1>3, SameCanon DEF RestoreFile

\* Steps that change the canonical state, with no update under way.
LEMMA NewCanon ==
    ASSUME EngineInv, job' = NoJob, disk' = disk, StateOf(canon', known'),
           known' = [m \in DOMAIN known' |-> known'[m]], DOMAIN known' \subseteq Modules,
           Identities(canon') \subseteq ids',
           \A m \in stat' \ raced' : m \in DOMAIN known' => known'[m] = disk[m]
    PROVE  EngineInv'
<1>1. JobInv'   BY NoJobInv
<1>2. disk' = [m \in Modules |-> disk'[m]]   BY DEF EngineInv
<1> QED BY <1>1, <1>2 DEF EngineInv

LEMMA IdleState ==
    ASSUME EngineInv, job = NoJob \/ job.at = "execute"
    PROVE  StateOf(canon, known) /\ IsState(canon)
BY NoJobInv DEF EngineInv, StateOf, IsState

LEMMA EngineUnchanged ==
    ASSUME EngineInv, NEW m, UpdateUnchanged(m)
    PROVE  EngineInv'
<1>1. StateOf(canon, known)   BY IdleState DEF UpdateUnchanged
<1>2. StateOf(canon', known') /\ Identities(canon') = Identities(canon)
    BY <1>1, DistrustedIsState DEF UpdateUnchanged
<1> QED BY <1>2, NewCanon DEF UpdateUnchanged, EngineInv

LEMMA EngineParseFails ==
    ASSUME EngineInv, NEW m, ParseFails(m)
    PROVE  EngineInv'
<1> DEFINE d == Distrusted(canon)
           lineage == [s \in DOMAIN d.lineage \ {m} |-> d.lineage[s]]
           parse == d.parse \cup {m}
           e == [d EXCEPT !.parse = parse, !.lineage = lineage, !.lineageState = "stale"]
<1>1. StateOf(canon, known)   BY IdleState DEF ParseFails
<1>2. StateOf(d, known) /\ Identities(d) = Identities(canon)   BY <1>1, DistrustedIsState
<1> HIDE DEF d
<1>3. canon' = e   BY <1>2 DEF ParseFails, StateOf, Field, d
<1> HIDE DEF lineage, parse
<1>4. IsState(e) /\ Same(d, e, {"parse", "lineage", "lineageState"})
      /\ e.lineage = lineage /\ e.lineageState = "stale"
    BY <1>2 DEF StateOf, IsState, Same, Field
<1> HIDE DEF e
<1>5. FileFactsOf(e, known) /\ Identities(e) = Identities(d)
    BY <1>2, <1>4, SameFileFacts DEF StateOf
<1>6. DerivedOf(e)   BY <1>2, <1>4, SameDerived DEF StateOf
<1>7. LineageOf(e, known)   BY <1>2, <1>4 DEF StateOf, LineageOf, lineage
<1>8. StateOf(canon', known') /\ Identities(canon') = Identities(canon)
    BY <1>2, <1>3, <1>4, <1>5, <1>6, <1>7 DEF StateOf, IsState, ParseFails
<1> QED BY <1>8, NewCanon DEF ParseFails, EngineInv

\* Nothing the plan cares about changed: the facts there are, are those of
\* the new source.
LEMMA EngineHasNothingToDo ==
    ASSUME EngineInv, NEW m \in Modules, NothingToDo(m)
    PROVE  EngineInv'
<1> DEFINE source == disk[m]
           delta == NewDelta(m, source)
           j == [at |-> "execute", module |-> m, source |-> source, delta |-> delta, plan |-> NoPlan]
           k == KnownAfter(m, source)
           d == Distrusted(canon)
           p == Patched(canon, j)
           parse == d.parse \ {m}
           q == [d EXCEPT !.parse = parse]
           e == WithLineage(q, m, source)
<1>1. StateOf(canon, known)   BY IdleState DEF NothingToDo
<1>2. StateOf(d, known) /\ Same(canon, d, {"marker"}) /\ Identities(d) = Identities(canon)
    BY <1>1, DistrustedIsState
<1>3. j.module = m /\ j.source = source /\ j.delta = delta /\ j.plan = NoPlan /\ source # Absent
    BY DEF NothingToDo
<1> HIDE DEF j
<1>4. Planned(j)   BY <1>3 DEF Planned, NothingToDo
<1>5. j.plan.families = {}   BY <1>3 DEF NoPlan
<1>6. m \in DOMAIN known /\ DOMAIN k = DOMAIN known
    <2>1. m \in DOMAIN known   BY <1>1, <1>3, <1>4, <1>5, PlanOfUpdate
    <2> QED BY <2>1, <1>3 DEF KnownAfter, With
<1>7. FileFactsOf(d, k)
    <2>1. /\ p.artifacts = [x \in DOMAIN k |-> Definitions(k[x])]
          /\ p.usages = [x \in DOMAIN k |-> UsageFacts(x, k[x])]
          /\ p.facts = [x \in DOMAIN k |-> ReexportFacts(x, k[x])]
        BY <1>1, <1>3, <1>4, PatchedFacts
    <2> HIDE DEF k
    <2>2. /\ p.artifacts = canon.artifacts /\ p.usages = canon.usages /\ p.facts = canon.facts
        <3>1. IsState(canon)   BY <1>1 DEF StateOf, IsState
        <3>2. /\ p.artifacts = Patch(j, "definitions", canon.artifacts, Read(j.module, j.source).artifacts)
              /\ p.usages = Patch(j, "module_usages", canon.usages, Read(j.module, j.source).usage)
              /\ p.facts = Patch(j, "reexport_facts", canon.facts, Read(j.module, j.source).facts)
            BY <3>1, PatchedFields
        <3> HIDE DEF p
        <3>3. \A family : ~Takes(j, family)   BY <1>3, <1>5 DEF Takes
        <3> QED BY <3>2, <3>3 DEF Patch
    <2>3. /\ canon.targets = TargetsOf(DefsOf(canon.artifacts)) /\ canon.collisions = canon.artifacts
          /\ DOMAIN canon.imports = DOMAIN k
        BY <1>1, <1>6 DEF StateOf, FileFactsOf
    <2>4. FileFactsOf(canon, k)
        <3> HIDE DEF p
        <3> QED BY <2>1, <2>2, <2>3, Zenon DEF FileFactsOf
    <2> HIDE DEF d
    <2> QED BY <2>4, <1>2, SameFileFacts
<1>8. d.lineage = canon.lineage   BY <1>2 DEF Same, Field
<1>9. IsState(d) /\ DerivedOf(d) /\ LineageOf(canon, known)   BY <1>1, <1>2 DEF StateOf, IsState
<1> HIDE DEF d, parse
<1>10. StateOf(e, k) /\ Identities(e) = Identities(d)
    <2>1. FileFactsOf(d, KnownAfter(m, source))   BY <1>7
    <2>2. IsState(q) /\ Same(d, q, {"parse"})   BY <1>9, ParsedFields
    <2> HIDE DEF q
    <2>3. StateOf(e, KnownAfter(m, source)) /\ Identities(e) = Identities(d)
        BY <2>1, <2>2, <1>8, <1>9, LineageIsState
    <2> QED BY <2>3
<1>11. canon' = e   BY <1>9 DEF NothingToDo, IsState, Field, d, parse
<1>12. known' = k   BY <1>3 DEF NothingToDo, KnownAfter
<1> HIDE DEF e
<1>13. StateOf(canon', known') /\ Identities(canon') = Identities(canon)
    BY <1>2, <1>10, <1>11, <1>12
<1>14. k = [x \in DOMAIN known |-> IF x = m THEN source ELSE known[x]]
    BY <1>3, <1>6, KnownAfterIs DEF Left
<1> HIDE DEF k
<1>15. known' = [x \in DOMAIN known' |-> known'[x]] /\ DOMAIN known' \subseteq Modules
    BY <1>12, <1>14 DEF EngineInv
<1>16. \A x \in stat' \ raced' : x \in DOMAIN known' => known'[x] = disk[x]
    <2> TAKE x \in stat' \ raced'
    <2> HAVE x \in DOMAIN known'
    <2>1. known'[x] = IF x = m THEN source ELSE known[x]   BY <1>12, <1>14
    <2>2. x # m => x \in stat \ raced /\ x \in DOMAIN known   BY <1>12, <1>14 DEF NothingToDo
    <2>3. x # m => known[x] = disk[x]   BY <2>2 DEF EngineInv
    <2> QED BY <2>1, <2>3
<1>17. Identities(canon') \subseteq ids'   BY <1>13 DEF NothingToDo, EngineInv
<1> QED BY <1>13, <1>15, <1>16, <1>17, NewCanon DEF NothingToDo

LEMMA EngineBeginsUpdate ==
    ASSUME EngineInv, NEW m \in Modules, BeginUpdate(m)
    PROVE  EngineInv'
<1> DEFINE d == Distrusted(canon)
<1>1. StateOf(canon, known)   BY IdleState DEF BeginUpdate
<1>2. StateOf(d, known) /\ Same(canon, d, {"marker"}) /\ Identities(d) = Identities(canon)
    BY <1>1, DistrustedIsState
<1>3. /\ job'.at = "execute" /\ job'.module = m /\ job'.source = disk[m]
      /\ job'.delta = NewDelta(m, disk[m]) /\ job'.plan = Plan(NewDelta(m, disk[m]), canon.usages)
    BY DEF BeginUpdate
<1>4. canon' = d /\ ids' = ids /\ known' = known   BY DEF BeginUpdate
<1> HIDE DEF d
<1>5. /\ canon'.imports = canon.imports /\ canon'.artifacts = canon.artifacts
      /\ canon'.usages = canon.usages /\ canon'.facts = canon.facts
    BY <1>2, <1>4 DEF Same, Field
<1>6. NewDelta(m, disk[m])' = NewDelta(m, disk[m])
    <2>1. FactsOf(canon, m)' = FactsOf(canon, m)   BY <1>5 DEF FactsOf
    <2>2. disk' = disk   BY DEF BeginUpdate
    <2> QED BY <2>1, <2>2, <1>4, <1>5 DEF NewDelta
<1>7. JobInv'
    <2>1. job'.delta = NewDelta(job.module, job.source)'
        <3>1. NewDelta(job.module, job.source)' = NewDelta(m, disk[m])'   BY <1>3 DEF BeginUpdate, NewDelta
        <3> QED BY <3>1, <1>3, <1>6
    <2>2. job'.plan = Plan(job'.delta, canon'.usages)   BY <1>3, <1>5
    <2> QED BY <2>1, <2>2, <1>3 DEF JobInv
<1>8. StateOf(canon', known') /\ Identities(canon') \subseteq ids'   BY <1>2, <1>4 DEF EngineInv
<1>9. disk' = disk /\ stat' = stat /\ raced' = raced   BY DEF BeginUpdate
<1> QED BY <1>4, <1>7, <1>8, <1>9 DEF EngineInv

LEMMA EngineExecutes ==
    ASSUME EngineInv, Execute
    PROVE  EngineInv'
<1> DEFINE m == job.module
           source == job.source
           k == KnownAfter(m, source)
<1>1. PICK raising :
        /\ Identities(Executed(canon, job, raising)) \subseteq ids'
        /\ ids' = Synced(Executed(canon, job, raising), job)
        /\ canon' = WithLineage([Executed(canon, job, raising) EXCEPT
                                   !.parse = Executed(canon, job, raising).parse \ {m}], m, source)
    <2>1. PICK raising : \E new \in {Executed(canon, job, raising)}, x \in {m} :
            /\ ids' = Synced(new, job) /\ Identities(new) \subseteq ids'
            /\ canon' = WithLineage([new EXCEPT !.parse = @ \ {x}], x, source)
        BY DEF Execute
    <2> DEFINE new == Executed(canon, job, raising)
    <2>2. IsState(new)
        <3>1. StateOf(canon, known) /\ Planned(job) /\ DOMAIN known \subseteq Modules
            BY IdleState DEF Execute, EngineInv, JobInv, NoJob, Planned
        <3> QED BY <3>1, ExecutedFields
    <2>3. ids' = Synced(new, job) /\ Identities(new) \subseteq ids'
          /\ canon' = WithLineage([new EXCEPT !.parse = @ \ {m}], m, source)
        BY <2>1
    <2> HIDE DEF new
    <2>4. [new EXCEPT !.parse = @ \ {m}] = [new EXCEPT !.parse = new.parse \ {m}]
        BY <2>2 DEF IsState, Field
    <2>5. canon' = WithLineage([new EXCEPT !.parse = new.parse \ {m}], m, source)   BY <2>3, <2>4
    <2> QED BY <2>3, <2>5 DEF new
<1> DEFINE new == Executed(canon, job, raising)
           parse == new.parse \ {m}
           q == [new EXCEPT !.parse = parse]
           e == WithLineage(q, m, source)
<1>2. /\ StateOf(canon, known) /\ Planned(job) /\ job.module \in Modules
      /\ LineageOf(canon, known) /\ DOMAIN known \subseteq Modules
    <2>1. job # NoJob /\ job.at # "acknowledge"   BY DEF Execute, NoJob
    <2> QED BY <2>1 DEF EngineInv, JobInv, Planned, StateOf
<1>3. IsState(new) /\ FileFactsOf(new, k) /\ DerivedOf(new) /\ new.lineage = canon.lineage
    <2>1. IsState(new)   BY <1>2, ExecutedFields
    <2>2. FileFactsOf(new, k)   BY <1>2, ExecutedFields
    <2>3. DerivedOf(new)   BY <1>2, ExecutedFields
    <2>4. new.lineage = canon.lineage   BY <1>2, ExecutedFields
    <2> QED BY <2>1, <2>2, <2>3, <2>4
<1>4. Identities(new) \subseteq ids' /\ ids' = Synced(new, job) /\ canon' = e   BY <1>1
<1> HIDE DEF new, parse
<1>5. IsState(q) /\ Same(new, q, {"parse"})   BY <1>3, ParsedFields
<1> HIDE DEF q
<1>6. StateOf(e, k) /\ Identities(e) = Identities(new)
    BY <1>2, <1>3, <1>5, LineageIsState
<1> HIDE DEF e
<1>7. job' = [at |-> "acknowledge", module |-> m, source |-> source,
              canon |-> canon, ids |-> ids, synced |-> "identity_registry" \in job.plan.families]
    BY DEF Execute
<1>8. /\ job'.at = "acknowledge" /\ job'.module = m /\ job'.source = source
      /\ job'.canon = canon /\ job'.ids = ids
    BY <1>7
<1>9. UNCHANGED <<disk, stat, known, raced>>   BY DEF Execute
<1>10. KnownAfter(job.module, job.source)' = k   BY <1>8, <1>9 DEF KnownAfter
<1>11. Identities(canon) \subseteq ids /\ ids \subseteq ids'
    BY <1>4 DEF EngineInv, Synced
<1>12. JobInv'
    <2>1. StateOf(canon', KnownAfter(job.module, job.source)')   BY <1>4, <1>6, <1>10
    <2>2. StateOf(job'.canon, known')   BY <1>2, <1>8, <1>9
    <2>3. Identities(job'.canon) \subseteq job'.ids /\ job'.ids \subseteq ids'   BY <1>8, <1>11
    <2>4. job'.at = "acknowledge" /\ job'.module \in Modules   BY <1>2, <1>8
    <2> QED BY <2>1, <2>2, <2>3, <2>4 DEF JobInv
<1>13. Identities(canon') \subseteq ids'   BY <1>4, <1>6
<1> QED BY <1>8, <1>9, <1>12, <1>13 DEF EngineInv

LEMMA EngineAcknowledges ==
    ASSUME EngineInv, Acknowledge
    PROVE  EngineInv'
<1> DEFINE m == job.module
           source == job.source
           k == KnownAfter(m, source)
<1>1. StateOf(canon, k) /\ m \in Modules
    BY NoJobInv DEF Acknowledge, EngineInv, JobInv
<1>2. k = [x \in Left(DOMAIN known, m, source) |-> IF x = m THEN source ELSE known[x]]
    BY KnownAfterIs
<1>3. known' = k /\ job' = NoJob /\ canon' = canon /\ ids' = ids /\ disk' = disk
    BY DEF Acknowledge, Accepted, KnownAfter
<1>4. raced' = IF disk[m] = source THEN raced \ {m} ELSE raced \cup {m}
    BY DEF Acknowledge, Accepted
<1>5. \A x \in stat' : x # m => x \in stat   BY DEF Acknowledge
<1> HIDE DEF k, m, source
<1>6. /\ DOMAIN k = Left(DOMAIN known, m, source) /\ k = [x \in DOMAIN k |-> k[x]]
      /\ \A x \in DOMAIN k : k[x] = IF x = m THEN source ELSE known[x]
    BY <1>2
<1>7. DOMAIN k \subseteq Modules   BY <1>1, <1>6 DEF EngineInv, Left
<1>8. \A x \in stat' \ raced' : x \in DOMAIN known' => known'[x] = disk[x]
    <2> TAKE x \in stat' \ raced'
    <2> HAVE x \in DOMAIN known'
    <2>1. x \in DOMAIN k /\ known'[x] = k[x]   BY <1>3
    <2>2. CASE x = m
        <3>1. disk[m] = source   BY <2>2, <1>4
        <3> QED BY <2>1, <2>2, <3>1, <1>6
    <2>3. CASE x # m
        <3>1. x \in stat \ raced   BY <2>3, <1>4, <1>5
        <3>2. x \in DOMAIN known   BY <2>1, <2>3, <1>6 DEF Left
        <3>3. known[x] = disk[x]   BY <3>1, <3>2 DEF EngineInv
        <3> QED BY <2>1, <2>3, <3>3, <1>6
    <2> QED BY <2>2, <2>3
<1>9. StateOf(canon', known') /\ Identities(canon') \subseteq ids'   BY <1>1, <1>3 DEF EngineInv
<1>10. known' = [x \in DOMAIN known' |-> known'[x]] /\ DOMAIN known' \subseteq Modules   BY <1>3, <1>6, <1>7
<1> QED BY <1>3, <1>8, <1>9, <1>10, NewCanon

LEMMA EngineExecuteRaises ==
    ASSUME EngineInv, ExecuteRaises
    PROVE  EngineInv'
<1>1. StateOf(canon, known)   BY IdleState DEF ExecuteRaises
<1> QED BY <1>1, NewCanon DEF ExecuteRaises, EngineInv

LEMMA EngineCommitFails ==
    ASSUME EngineInv, FailedCommit
    PROVE  EngineInv'
<1>1. StateOf(job.canon, known) /\ Identities(job.canon) \subseteq job.ids /\ job.ids \subseteq ids
    BY NoJobInv DEF FailedCommit, EngineInv, JobInv
<1>2. job.ids \subseteq ids'   BY <1>1 DEF FailedCommit, If
<1>3. StateOf(canon', known') /\ Identities(canon') \subseteq ids'   BY <1>1, <1>2 DEF FailedCommit
<1> QED BY <1>3, NewCanon DEF FailedCommit, EngineInv

LEMMA EngineLosesContinuity ==
    ASSUME EngineInv, LoseContinuity
    PROVE  EngineInv'
<1>1. StateOf(canon, known)   BY IdleState DEF LoseContinuity
<1> QED BY <1>1, NewCanon DEF LoseContinuity, EngineInv

LEMMA EngineAnalysesAll ==
    ASSUME EngineInv, FullAnalysis
    PROVE  EngineInv'
<1> DEFINE s == [m \in {x \in Modules : disk[x] # Absent} |-> disk[m]]
           c == [Analysed(s) EXCEPT !.layers = canon.layers]
<1>1. canon' = c /\ ids' = ids \cup Identities(canon') /\ known' = s /\ stat' = DOMAIN s
    BY DEF FullAnalysis
<1>2. s = [m \in DOMAIN s |-> s[m]] /\ DOMAIN s \subseteq Modules /\ \A m \in DOMAIN s : s[m] = disk[m]
    OBVIOUS
<1> HIDE DEF s
<1>3. StateOf(c, s)   BY <1>2, AnalysedIsState
<1>4. StateOf(canon', known') /\ Identities(canon') \subseteq ids'   BY <1>1, <1>3
<1>5. \A m \in stat' \ raced' : m \in DOMAIN known' => known'[m] = disk[m]   BY <1>1, <1>2
<1>6. known' = [m \in DOMAIN known' |-> known'[m]] /\ DOMAIN known' \subseteq Modules   BY <1>1, <1>2
<1> QED BY <1>4, <1>5, <1>6, NewCanon DEF FullAnalysis

LEMMA EngineStarts ==
    ASSUME EngineInv, StartEngine
    PROVE  EngineInv'
<1> DEFINE marker == [f \in Families |-> Healed(canon, Covered(canon), f)]
           current == {f \in Families : marker[f] = "fresh" /\ (f \in canon.current \/ canon.marker[f] # "fresh")}
           d == [canon EXCEPT !.marker = marker, !.current = current]
<1>1. StateOf(canon, known) /\ IsState(canon)   BY IdleState DEF StartEngine
<1>2. canon' = d   BY <1>1 DEF StartEngine, Materialized, HealedFrom, HealedAs, IsState, Field
<1>3. marker = [f \in Families |-> marker[f]]   OBVIOUS
<1>4. \A f \in Families : canon.marker[f] = "fresh" => f \in canon.current   BY <1>1 DEF StateOf, DerivedOf
<1> HIDE DEF marker
<1>5. \A f \in Families : marker[f] = "fresh" => f \in current   BY <1>4
<1> HIDE DEF current
<1>6. IsState(d) /\ Same(canon, d, {"marker", "current"}) /\ d.marker = marker /\ d.current = current
    BY <1>1 DEF IsState, Same, Field
<1> HIDE DEF d
<1>7. FileFactsOf(d, known) /\ Identities(d) = Identities(canon)
    BY <1>1, <1>6, SameFileFacts DEF StateOf
<1>8. /\ d.slices = canon.slices /\ d.targets = canon.targets /\ d.lineage = canon.lineage
      /\ d.lineageState = canon.lineageState
    BY <1>6 DEF Same, Field
<1>9. DerivedOf(d)
    <2>1. \A x \in d.slices : x[1] \in d.targets   BY <1>1, <1>8 DEF StateOf, DerivedOf
    <2>2. d.marker = [f \in Families |-> d.marker[f]]   BY <1>3, <1>6
    <2> QED BY <2>1, <2>2, <1>5, <1>6 DEF DerivedOf
<1>10. LineageOf(d, known)   BY <1>1, <1>8 DEF StateOf, LineageOf
<1>11. StateOf(d, known)   BY <1>6, <1>7, <1>9, <1>10 DEF StateOf, IsState
<1>12. job = NoJob /\ job' = NoJob /\ UNCHANGED <<disk, stat, ids, known, raced>>   BY DEF StartEngine
<1>13. StateOf(canon', known') /\ Identities(canon') \subseteq ids'   BY <1>2, <1>7, <1>11, <1>12 DEF EngineInv
<1> QED BY <1>12, <1>13, NewCanon DEF EngineInv

LEMMA EngineInitInv == EngineInit => EngineInv
<1> SUFFICES ASSUME EngineInit PROVE EngineInv
    OBVIOUS
<1>1. PICK layers \in BOOLEAN : canon = [Analysed(Initial) EXCEPT !.layers = layers]   BY DEF EngineInit
<1>2. /\ Initial = [m \in DOMAIN Initial |-> Initial[m]] /\ DOMAIN Initial \subseteq Modules
    BY EngineAssumption
<1>3. StateOf([Analysed(Initial) EXCEPT !.layers = layers], Initial)   BY <1>2, AnalysedIsState
<1>4. StateOf(canon, known)   BY <1>1, <1>3 DEF EngineInit
<1>5. disk = [m \in Modules |-> disk[m]] /\ \A m \in DOMAIN Initial : disk[m] = Initial[m]
    BY <1>2 DEF EngineInit
<1>6. job = NoJob /\ known = Initial /\ ids = Identities(canon)   BY DEF EngineInit
<1>7. JobInv   BY <1>6 DEF JobInv
<1> QED BY <1>2, <1>4, <1>5, <1>6, <1>7 DEF EngineInv

LEMMA EngineStep == EngineInv /\ [EngineNext]_engineVars => EngineInv'
<1> SUFFICES ASSUME EngineInv, [EngineNext]_engineVars PROVE EngineInv'
    OBVIOUS
<1>1. CASE UNCHANGED engineVars
    <2>1. UNCHANGED <<disk, stat, canon, ids, job, known, raced>>   BY <1>1 DEF engineVars
    <2>2. disk' = [m \in Modules |-> disk'[m]]   BY <2>1 DEF EngineInv
    <2>3. \A m \in stat' \ raced' : m \in DOMAIN known => known[m] = disk'[m]   BY <2>1 DEF EngineInv
    <2> QED BY <2>1, <2>2, <2>3, SameCanon
<1>2. ASSUME NEW m \in Edited, ChangeFile(m) \/ RestoreFile(m) PROVE EngineInv'
    BY <1>2, EngineChangesFile, EngineRestoresFile
<1>3. ASSUME NEW m \in Modules, UpdateUnchanged(m) \/ ParseFails(m) \/ NothingToDo(m) \/ BeginUpdate(m)
      PROVE  EngineInv'
    BY <1>3, EngineUnchanged, EngineParseFails, EngineHasNothingToDo, EngineBeginsUpdate
<1>4. CASE Execute   BY <1>4, EngineExecutes
<1>5. CASE Acknowledge   BY <1>5, EngineAcknowledges
<1>6. CASE ExecuteRaises   BY <1>6, EngineExecuteRaises
<1>7. CASE FailedCommit   BY <1>7, EngineCommitFails
<1>8. CASE LoseContinuity   BY <1>8, EngineLosesContinuity
<1>9. CASE FullAnalysis   BY <1>9, EngineAnalysesAll
<1>10. CASE StartEngine   BY <1>10, EngineStarts
<1> QED BY <1>1, <1>2, <1>3, <1>4, <1>5, <1>6, <1>7, <1>8, <1>9, <1>10 DEF EngineNext

LEMMA EngineInvFaithful == EngineInv => EngineIsFaithful
<1> SUFFICES ASSUME EngineInv, job = NoJob
             PROVE  EngineIsFaithful
    BY DEF EngineIsFaithful, TakesFileFacts, FreshMeansCurrent, UnchangedIsKnown
<1>1. StateOf(canon, known)   BY IdleState
<1>2. TakesFileFacts
    <2> DEFINE full == Full(known)
    <2>1. /\ full.imports = [m \in DOMAIN known |-> known[m].imports]
          /\ full.artifacts = [m \in DOMAIN known |-> Definitions(known[m])]
          /\ full.usages = [m \in DOMAIN known |-> UsageFacts(m, known[m])]
          /\ full.facts = [m \in DOMAIN known |-> ReexportFacts(m, known[m])]
          /\ full.targets = TargetsOf(DefsOf(full.artifacts))
          /\ full.collisions = full.artifacts
        BY FullFields
    <2>2. /\ DOMAIN canon.imports = DOMAIN known
          /\ canon.artifacts = [m \in DOMAIN known |-> Definitions(known[m])]
          /\ canon.usages = [m \in DOMAIN known |-> UsageFacts(m, known[m])]
          /\ canon.facts = [m \in DOMAIN known |-> ReexportFacts(m, known[m])]
          /\ canon.targets = TargetsOf(DefsOf(canon.artifacts))
          /\ canon.collisions = canon.artifacts
        BY <1>1 DEF StateOf, FileFactsOf
    <2> HIDE DEF full
    <2>3. DOMAIN canon.imports = DOMAIN full.imports   BY <2>1, <2>2
    <2>4. /\ canon.artifacts = full.artifacts /\ canon.usages = full.usages /\ canon.facts = full.facts
          /\ canon.targets = full.targets /\ canon.collisions = full.collisions
        BY <2>1, <2>2, Zenon
    <2> QED BY <2>3, <2>4 DEF TakesFileFacts, full
<1>3. FreshMeansCurrent
    <2>1. \A f \in Families : canon.marker[f] = "fresh" => f \in canon.current
        BY <1>1 DEF StateOf, DerivedOf
    <2>2. canon.lineageState = "fresh" => canon.lineage = known
        <3> SUFFICES ASSUME canon.lineageState = "fresh" PROVE canon.lineage = known
            OBVIOUS
        <3>1. /\ canon.lineage = [m \in DOMAIN canon.lineage |-> canon.lineage[m]]
              /\ DOMAIN canon.lineage = DOMAIN known
              /\ \A m \in DOMAIN canon.lineage : canon.lineage[m] = known[m]
            BY <1>1 DEF StateOf, LineageOf
        <3>2. known = [m \in DOMAIN known |-> known[m]]   BY DEF EngineInv
        <3> QED BY <3>1, <3>2
    <2> QED BY <2>1, <2>2 DEF FreshMeansCurrent
<1>4. UnchangedIsKnown   BY DEF EngineInv, UnchangedIsKnown
<1> QED BY <1>2, <1>3, <1>4 DEF EngineIsFaithful

\* For every repository, every set of sources and every bound: what the engine
\* has of its files, its families and its identities is sound, between updates
\* and while one is planned, executed, published or taken back.
THEOREM EngineKeepsItsFacts == EngineSpec => []EngineInv
<1> QED BY EngineInitInv, EngineStep, PTL DEF EngineSpec

\* Hence, whatever is edited, updated, fails or is restored, the facts of every
\* module are those of the source it was last read from, what is marked fresh
\* is of the facts there are, and a file called unchanged is the one that was
\* read (engine.py, update_file; plan_executor.py, execute_refresh_plan).
THEOREM EngineFaithful == EngineSpec => []EngineIsFaithful
BY EngineKeepsItsFacts, EngineInvFaithful, PTL
=================================================================================
