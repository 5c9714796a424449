----------------------------- MODULE ProcessPools -----------------------------
(***************************************************************************)
(* The process pools of one process, analysis/process_pool_lifecycle: a    *)
(* reusable pool per key, leased by one thread at a time, replaced when    *)
(* the registry its workers report to has changed or when its lease raises, *)
(* temporary pools, and the sweep that terminates them all when the        *)
(* process shuts down.  The indexer leases a pool, submits its files and   *)
(* collects the results as they complete.                                  *)
(***************************************************************************)
EXTENDS Integers, FiniteSets

CONSTANTS
    PoolThread,
    PoolKey,
    Scope,      \* values of CONTEXTOR_MCP_PROCESS_REGISTRY
    MaxPools,   \* bound: pools ever made
    MaxScopes,  \* bound: changes of the environment
    MaxSweeps   \* bound: shutdowns of the pools

NoKey == "temporary"
Nobody == "nobody"

ASSUME PoolAssumption ==
    /\ NoKey \notin PoolKey /\ Nobody \notin PoolThread
    /\ {MaxPools, MaxScopes, MaxSweeps} \subseteq Nat

Out == [at |-> "out"]
NoSweep == [at |-> "none"]

VARIABLES
    scope,      \* the environment
    leases,      \* what each thread does with a pool
    use,        \* the thread that has the use lock of a key
    pools,      \* every pool made: [key, scope, alive], by its generation
    reusable,   \* the reusable pool of each key, 0 if there is none
    active,     \* the registered pools
    sweep,      \* the pools a shutdown terminates, or NoSweep
    scopes, sweeps

poolVars == <<scope, leases, use, pools, reusable, active, sweep, scopes, sweeps>>

Made == DOMAIN pools
Alive == {p \in Made : pools[p].alive}

PoolInit ==
    /\ scope \in Scope
    /\ leases = [t \in PoolThread |-> Out]
    /\ use = [k \in PoolKey |-> Nobody]
    /\ pools = <<>>
    /\ reusable = [k \in PoolKey |-> 0]
    /\ active = {}
    /\ sweep = NoSweep
    /\ scopes = 0 /\ sweeps = 0

-----------------------------------------------------------------------------
(* A lease of a reusable pool  *)

\* An analysis sets the registry for its workers and takes it back.
ChangeScope ==
    /\ scopes < MaxScopes /\ scopes' = scopes + 1
    /\ scope' \in Scope \ {scope}
    /\ UNCHANGED <<leases, use, pools, reusable, active, sweep, sweeps>>

At(t, step) == leases[t].at = step

AskFor(t, k) ==
    /\ At(t, "out") /\ use[k] = Nobody
    /\ use' = [use EXCEPT ![k] = t]
    /\ leases' = [leases EXCEPT ![t] = [at |-> "look", key |-> k, scope |-> scope, pool |-> 0]]
    /\ UNCHANGED <<scope, pools, reusable, active, sweep, scopes, sweeps>>

\* What the registry of pools has for the key decides what follows.
LookUp(t) ==
    /\ At(t, "look")
    /\ LET p == reusable[leases[t].key]
       IN leases' = [leases EXCEPT ![t].pool = p,
                      ![t].at = IF p = 0 THEN "create"
                                ELSE IF pools[p].scope # leases[t].scope THEN "rotate" ELSE "submit"]
    /\ UNCHANGED <<scope, use, pools, reusable, active, sweep, scopes, sweeps>>

Terminated(p) == pools' = [pools EXCEPT ![p].alive = FALSE]

Rotate(t) ==
    /\ At(t, "rotate")
    /\ Terminated(leases[t].pool)
    /\ leases' = [leases EXCEPT ![t].at = "replace"]
    /\ UNCHANGED <<scope, use, reusable, active, sweep, scopes, sweeps>>

\* A pool that is not the key's pool any more is left alone.
Drop(k, p) ==
  IF reusable[k] # p THEN UNCHANGED <<reusable, active>>
  ELSE reusable' = [reusable EXCEPT ![k] = 0] /\ active' = active \ {p}

Replace(t) ==
    /\ At(t, "replace")
    /\ Drop(leases[t].key, leases[t].pool)
    /\ leases' = [leases EXCEPT ![t].at = "create"]
    /\ UNCHANGED <<scope, use, pools, sweep, scopes, sweeps>>

\* The pool exists before it is registered.
Create(t) ==
    /\ At(t, "create")
    /\ Cardinality(Made) < MaxPools
    /\ LET p == Cardinality(Made) + 1
       IN /\ pools' = [q \in Made \cup {p} |->
                         IF q = p THEN [key |-> leases[t].key, scope |-> leases[t].scope, alive |-> TRUE]
                         ELSE pools[q]]
          /\ leases' = [leases EXCEPT ![t].pool = p, ![t].at = "register"]
    /\ UNCHANGED <<scope, use, reusable, active, sweep, scopes, sweeps>>

Register(t) ==
    /\ At(t, "register")
    /\ active' = active \cup {leases[t].pool}
    /\ reusable' = IF leases[t].key = NoKey THEN reusable
                   ELSE [reusable EXCEPT ![leases[t].key] = leases[t].pool]
    /\ leases' = [leases EXCEPT ![t].at = "submit"]
    /\ UNCHANGED <<scope, use, pools, sweep, scopes, sweeps>>

\* A pool that was shut down accepts nothing.
Submit(t) ==
    /\ At(t, "submit")
    /\ leases' = [leases EXCEPT ![t].at = IF pools[leases[t].pool].alive THEN "collect" ELSE "raise"]
    /\ UNCHANGED <<scope, use, pools, reusable, active, sweep, scopes, sweeps>>

\* A broken pool, a result that raises, or a cancelled analysis.
LeaseRaises(t) ==
    /\ At(t, "collect")
    /\ leases' = [leases EXCEPT ![t].at = "raise"]
    /\ UNCHANGED <<scope, use, pools, reusable, active, sweep, scopes, sweeps>>

Released(t) ==
    /\ leases' = [leases EXCEPT ![t] = Out]
    /\ use' = [k \in PoolKey |-> IF use[k] = t THEN Nobody ELSE use[k]]

\* Every result is there: the pool and its workers stay.
EndLease(t) ==
    /\ At(t, "collect") /\ leases[t].key # NoKey
    /\ Released(t)
    /\ UNCHANGED <<scope, pools, reusable, active, sweep, scopes, sweeps>>

\* Mutant of Invalidate: the terminated pool stays the pool of its key.
InvalidateKeeps(t) ==
    /\ At(t, "raise") /\ leases[t].key # NoKey
    /\ Terminated(leases[t].pool)
    /\ leases' = [leases EXCEPT ![t].at = "leave"]
    /\ UNCHANGED <<scope, use, reusable, active, sweep, scopes, sweeps>>

Invalidate(t) ==
    /\ At(t, "raise") /\ leases[t].key # NoKey
    /\ Terminated(leases[t].pool)
    /\ leases' = [leases EXCEPT ![t].at = "drop"]
    /\ UNCHANGED <<scope, use, reusable, active, sweep, scopes, sweeps>>

DropInvalid(t) ==
    /\ At(t, "drop")
    /\ Drop(leases[t].key, leases[t].pool)
    /\ leases' = [leases EXCEPT ![t].at = "leave"]
    /\ UNCHANGED <<scope, use, pools, sweep, scopes, sweeps>>

Leave(t) ==
    /\ At(t, "leave")
    /\ Released(t)
    /\ UNCHANGED <<scope, pools, reusable, active, sweep, scopes, sweeps>>

-----------------------------------------------------------------------------
(* A temporary pool *)

AskTemporary(t) ==
    /\ At(t, "out")
    /\ leases' = [leases EXCEPT ![t] = [at |-> "create", key |-> NoKey, scope |-> scope, pool |-> 0]]
    /\ UNCHANGED <<scope, use, pools, reusable, active, sweep, scopes, sweeps>>

\* Leaving its context waits for the workers, whether or not it raised.
EndTemporary(t) ==
    /\ leases[t].at \in {"collect", "raise"} /\ leases[t].key = NoKey
    /\ Terminated(leases[t].pool)
    /\ leases' = [leases EXCEPT ![t].at = "unregister"]
    /\ UNCHANGED <<scope, use, reusable, active, sweep, scopes, sweeps>>

Unregister(t) ==
    /\ At(t, "unregister")
    /\ active' = active \ {leases[t].pool}
    /\ Released(t)
    /\ UNCHANGED <<scope, pools, reusable, sweep, scopes, sweeps>>

-----------------------------------------------------------------------------
(* terminate_active_process_pools *)

SweepBegins ==
    /\ sweep = NoSweep /\ sweeps < MaxSweeps /\ sweeps' = sweeps + 1
    /\ sweep' = [todo |-> active, all |-> active]
    /\ UNCHANGED <<scope, leases, use, pools, reusable, active, scopes>>

SweepTerminates ==
    /\ sweep # NoSweep
    /\ \E p \in sweep.todo : Terminated(p) /\ sweep' = [sweep EXCEPT !.todo = @ \ {p}]
    /\ UNCHANGED <<scope, leases, use, reusable, active, scopes, sweeps>>

SweepEnds ==
    /\ sweep # NoSweep /\ sweep.todo = {}
    /\ active' = active \ sweep.all
    /\ reusable' = [k \in PoolKey |-> IF reusable[k] \in sweep.all THEN 0 ELSE reusable[k]]
    /\ sweep' = NoSweep
    /\ UNCHANGED <<scope, leases, use, pools, scopes, sweeps>>

PoolNext ==
    \/ ChangeScope
    \/ \E t \in PoolThread :
         \/ \E k \in PoolKey : AskFor(t, k)
         \/ LookUp(t) \/ Rotate(t) \/ Replace(t) \/ Create(t) \/ Register(t)
         \/ Submit(t) \/ LeaseRaises(t) \/ EndLease(t)
         \/ Invalidate(t) \/ DropInvalid(t) \/ Leave(t)
         \/ AskTemporary(t) \/ EndTemporary(t) \/ Unregister(t)
    \/ SweepBegins \/ SweepTerminates \/ SweepEnds

PoolSpec == PoolInit /\ [][PoolNext]_poolVars

-----------------------------------------------------------------------------
(* Properties *)

(* A key never has two living pools, though a lease that raises terminates  *)
(* its pool while a sweep forgets pools by their number                    *)
(* (managed_reusable_process_pool, terminate_active_process_pools).        *)
OnePoolPerKey ==
  \A k \in PoolKey : Cardinality({p \in Alive : pools[p].key = k}) <= 1

(* Every living pool is registered, so that a sweep finds it, but one that *)
(* a thread has just made.                                                 *)
LivingAreRegistered ==
  \A p \in Alive : p \in active \/ \E t \in PoolThread : At(t, "register") /\ leases[t].pool = p

(* A dead pool is handed to no later lease: it is on its way out of the     *)
(* registry, by the lease it failed in or by a sweep.                       *)
DeadLeave ==
  \A k \in PoolKey : reusable[k] # 0 /\ reusable[k] \notin Alive =>
    \/ sweep # NoSweep /\ reusable[k] \in sweep.all
    \/ use[k] # Nobody /\ leases[use[k]].at \in {"replace", "drop"}

(* Workers report to the registry that was current when their lease began.  *)
WorkersOfScope ==
  \A t \in PoolThread : At(t, "collect") => pools[leases[t].pool].scope = leases[t].scope

(* The pools of the process are accounted for. *)
PoolsAccounted == OnePoolPerKey /\ LivingAreRegistered /\ DeadLeave /\ WorkersOfScope
===============================================================================
