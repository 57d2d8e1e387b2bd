------------------------------ MODULE Parts ---------------------------------
(***************************************************************************)
(* Three parts that share nothing: the context relay, the driver pool and  *)
(* the REPL's inputs (whose names stand as they are).  A behaviour is one  *)
(* of one part.                                                            *)
(***************************************************************************)
EXTENDS Repl

CONSTANTS Turns, Drivers,  \* of the relay
          Gets, Keys,      \* of the pool
          NoDriver, MaxStuck

VARIABLES state, usage, pc, new, active, activeDriver, backup, backupDriver, old,
          relayRunning, relayStuck, archived,
          poolPc, key, drivers, activeKey, poolRunning, poolStuck, got,
          part

relayVars == <<state, usage, pc, new, active, activeDriver, backup, backupDriver, old,
               relayRunning, relayStuck, archived>>
poolVars == <<poolPc, key, drivers, activeKey, poolRunning, poolStuck, got>>
partsVars == <<relayVars, poolVars, vars, part>>

Relay == INSTANCE ContextRelay WITH running <- relayRunning, stuck <- relayStuck
Pool == INSTANCE DriverPool WITH pc <- poolPc, running <- poolRunning, stuck <- poolStuck

PartsInit == Relay!Init /\ Pool!Init /\ Init /\ part \in {"relay", "pool", "repl"}

\* Only this part takes a step.
RelayAlone == part = "relay" /\ UNCHANGED <<poolVars, vars, part>>
PoolAlone == part = "pool" /\ UNCHANGED <<relayVars, vars, part>>
ReplAlone == part = "repl" /\ UNCHANGED <<relayVars, poolVars, part>>

PartsNext ==
  \/ Relay!Next /\ RelayAlone
  \/ Pool!Next /\ PoolAlone
  \/ Next /\ ReplAlone

\* The fairness of the parts.
PartsSpec ==
  /\ PartsInit /\ [][PartsNext]_partsVars
  /\ WF_partsVars(Relay!RelayStep /\ RelayAlone)
  /\ SF_partsVars(Relay!SpawnStarts /\ RelayAlone)
  /\ SF_partsVars(Relay!SpawnReady /\ RelayAlone)
  /\ \A p \in Inputs : WF_partsVars(Work(p) /\ ReplAlone)

-----------------------------------------------------------------------------
\* Of the relay: a swap finds its backup (relay.go:84-130, 204-206), and a full
\* context is relayed in the end (relay.go:115-127).
BackupReady == Relay!BackupReady
RelayCompletes == part = "relay" => Relay!RelayCompletes

\* Of the relay and the pool: no driver that runs is forgotten before its Stop was
\* called (relay.go:180-199, 238-241; driver_pool.go:31-66, 76-85).
DriversAccounted == Relay!DriversAccounted /\ Pool!PoolAccounted
=============================================================================
