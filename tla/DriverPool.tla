----------------------------- MODULE DriverPool -----------------------------
(***************************************************************************)
(* The pool that caches one started driver for each driver name and model  *)
(* (uniform/execution/driver_pool.go).  GetOrCreate looks under the lock,  *)
(* creates and starts outside of it, and looks again.                      *)
(***************************************************************************)
EXTENDS FiniteSets

CONSTANTS Gets,  \* calls of GetOrCreate
          Keys, NoDriver

\* Each call creates at most one driver, named for it.
VARIABLES pc, key,
          drivers,  \* the pool: key -> driver
          activeKey, running, got,
          stuck     \* the drivers that run although they were told to stop

held == <<running, stuck>>
vars == <<pc, key, drivers, activeKey, got, held>>

NoKey == "no key"

Init ==
  /\ pc = [g \in Gets |-> "idle"]
  /\ key = [g \in Gets |-> NoKey]
  /\ drivers = [k \in Keys |-> NoDriver] /\ activeKey = NoKey
  /\ running = {} /\ stuck = {}
  /\ got = [g \in Gets |-> NoDriver]

Goto(g, p) == pc' = [pc EXCEPT ![g] = p]

\* The pool's driver for k is the answer.
Hit(g, k) ==
  /\ drivers[k] # NoDriver
  /\ activeKey' = k
  /\ got' = [got EXCEPT ![g] = drivers[k]]
  /\ Goto(g, "done")
  /\ UNCHANGED drivers

Miss(g, k) ==
  /\ drivers[k] = NoDriver
  /\ Goto(g, "create")
  /\ UNCHANGED <<drivers, activeKey, got>>

Lookup(g, k) ==
  /\ pc[g] = "idle"
  /\ key' = [key EXCEPT ![g] = k]
  /\ Hit(g, k) \/ Miss(g, k)
  /\ UNCHANGED held

\* The factory, then Start; either may fail.
CreateFails(g) ==
  /\ pc[g] = "create"
  /\ Goto(g, "done")
  /\ UNCHANGED <<key, drivers, activeKey, got, held>>

Create(g) ==
  /\ pc[g] = "create"
  /\ running' = running \cup {g}
  /\ Goto(g, "insert")
  /\ UNCHANGED <<key, drivers, activeKey, got, stuck>>

Put(g) ==
  /\ drivers' = [drivers EXCEPT ![key[g]] = g]
  /\ activeKey' = key[g]
  /\ got' = [got EXCEPT ![g] = g]
  /\ Goto(g, "done")
  /\ UNCHANGED <<key, held>>

\* The Stop of each driver of D; those of F fail, and their errors are dropped.
Stop(D) ==
  \E F \in SUBSET D : running' = running \ (D \ F) /\ stuck' = stuck \cup F

\* Mutant of Insert: no second look.
InsertUnchecked(g) == pc[g] = "insert" /\ Put(g)

Insert(g) ==
  /\ pc[g] = "insert"
  /\ \/ drivers[key[g]] = NoDriver /\ Put(g)
     \/ Hit(g, key[g]) /\ Stop({g}) /\ UNCHANGED key

StopAll ==
  /\ Stop({drivers[k] : k \in Keys} \ {NoDriver})
  /\ drivers' = [k \in Keys |-> NoDriver] /\ activeKey' = NoKey
  /\ UNCHANGED <<pc, key, got>>

GetStep(g) == (\E k \in Keys : Lookup(g, k)) \/ CreateFails(g) \/ Create(g) \/ Insert(g)
Next == StopAll \/ \E g \in Gets : GetStep(g)

Spec == Init /\ [][Next]_vars

-----------------------------------------------------------------------------
TypeOK ==
  /\ pc \in [Gets -> {"idle", "create", "insert", "done"}]
  /\ key \in [Gets -> Keys \cup {NoKey}]
  /\ drivers \in [Keys -> Gets \cup {NoDriver}] /\ activeKey \in Keys \cup {NoKey}
  /\ running \subseteq Gets /\ stuck \subseteq running /\ got \in [Gets -> Gets \cup {NoDriver}]

\* A driver that was not told to stop runs exactly while the pool has it or the
\* call that created it is still to put it there, also when calls for one key and
\* StopAll overlap; one that was, and runs on because its Stop failed, is not in
\* the pool; and the key of the active driver is (driver_pool.go:31-66, 76-85).
PoolAccounted ==
  /\ running \ stuck
       = ({drivers[k] : k \in Keys} \ {NoDriver}) \cup {g \in Gets : pc[g] = "insert"}
  /\ activeKey # NoKey => drivers[activeKey] # NoDriver
=============================================================================
