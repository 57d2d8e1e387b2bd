---------------------------- MODULE ContextRelay ----------------------------
(***************************************************************************)
(* The relay from a session that fills its context window to a fresh one   *)
(* (cortex/relay.go) and the monitor of its usage (cortex/monitor.go).     *)
(*                                                                         *)
(* CheckAndRelay runs after a turn, under the relay's lock; the REPL       *)
(* records usage whenever it hears of some, under the monitor's own lock:  *)
(* between any two looks of CheckAndRelay at the monitor it may be another *)
(* one.  A session is the set of turns it holds, as entries or in the      *)
(* summary that stands for the older ones.  Usage is below both            *)
(* thresholds, between them, or above.                                     *)
(***************************************************************************)
EXTENDS Naturals, FiniteSets

CONSTANTS Turns, Drivers, NoDriver,
          MaxStuck  \* how often a Stop fails

Levels == {"low", "spawn", "swap"}

VARIABLES state, usage,     \* the monitor
          pc, new,          \* where CheckAndRelay is; the driver it creates
          active, activeDriver, backup, backupDriver,
          old,              \* the driver that executeSwap replaces
          running, archived,
          stuck             \* the drivers that run although they were told to stop

monitor == <<state, usage>>
sessions == <<active, activeDriver, backup, backupDriver, archived>>
held == <<running, stuck>>
vars == <<monitor, pc, new, old, sessions, held>>

NoSession == [is |-> FALSE, holds |-> {}]
Session(T) == [is |-> TRUE, holds |-> T]

Init ==
  /\ state = "Idle" /\ usage = "low"
  /\ pc = "idle" /\ new = NoDriver /\ old = NoDriver
  /\ active = Session({}) /\ activeDriver = CHOOSE d \in Drivers : TRUE
  /\ backup = NoSession /\ backupDriver = NoDriver
  /\ running = {activeDriver} /\ stuck = {} /\ archived = {}

-----------------------------------------------------------------------------
\* Mutant of Transition: the swap threshold does not ask for a backup.
TransitionAlways(u) ==
  CASE u = "swap" -> "Swapping"
    [] u = "spawn" /\ state = "Idle" -> "Spawning"
    [] OTHER -> state

\* What Record makes of a state when the usage is u.
Transition(u) ==
  CASE u = "swap" /\ state = "Ready" -> "Swapping"
    [] u \in {"spawn", "swap"} /\ state = "Idle" -> "Spawning"
    [] OTHER -> state

Record(u) ==
  /\ usage = "swap" => u = "swap"
  /\ usage = "spawn" => u # "low"
  /\ usage' = u /\ state' = Transition(u)
  /\ UNCHANGED <<pc, new, old, sessions, held>>

Turn(t) ==
  /\ pc = "idle" /\ t \notin active.holds
  /\ \A d \in archived : t \notin d
  /\ active' = Session(active.holds \cup {t})
  /\ UNCHANGED <<monitor, pc, new, old, activeDriver, backup, backupDriver, archived, held>>

-----------------------------------------------------------------------------
Goto(p) == pc' = p

\* Mutant of Look: a swap that Record has announced is not executed.
LookNotSwapping ==
  CASE state = "Spawning" -> "spawn"
    [] state \in {"Idle", "Ready"} -> state
    [] OTHER -> "idle"

\* CheckAndRelay reads the state once.
Look ==
  CASE state = "Spawning" -> "spawn"
    [] state = "Swapping" -> "swap"
    [] OTHER -> state

Check ==
  /\ pc = "idle"
  /\ Goto(Look)
  /\ UNCHANGED <<monitor, new, old, sessions, held>>

ShouldSpawn == usage # "low" /\ state = "Idle"
ShouldSwap == usage = "swap" /\ state = "Ready"

CheckIdle ==
  /\ pc = "Idle"
  /\ Goto(IF ShouldSpawn THEN "announce" ELSE "idle")
  /\ UNCHANGED <<monitor, new, old, sessions, held>>

Announce ==
  /\ pc = "announce"
  /\ state' = "Spawning"
  /\ Goto("spawn")
  /\ UNCHANGED <<usage, new, old, sessions, held>>

CheckReady ==
  /\ pc = "Ready"
  /\ Goto(IF ShouldSwap THEN "swap" ELSE "idle")
  /\ UNCHANGED <<monitor, new, old, sessions, held>>

-----------------------------------------------------------------------------
\* spawnBackground: the backup session is there before its driver.
Seed ==
  /\ pc = "spawn"
  /\ backup' = active
  /\ \E d \in Drivers \ running : new' = d
  /\ Goto("start")
  /\ UNCHANGED <<monitor, old, active, activeDriver, backupDriver, archived, held>>

\* The driver's Stop: its error is dropped, and with it the driver.
Stop(d) ==
  \/ running' = running \ {d} /\ UNCHANGED stuck
  \/ Cardinality(stuck) < MaxStuck /\ stuck' = stuck \cup {d} /\ UNCHANGED running

\* The factory, the driver's Start or a Send of the replay fails.
SpawnFails ==
  /\ \/ pc = "start" /\ UNCHANGED held
     \/ pc = "replay" /\ Stop(new)
  /\ new' = NoDriver
  /\ Goto("failed")
  /\ UNCHANGED <<monitor, old, sessions>>

SpawnStarts ==
  /\ pc = "start"
  /\ running' = running \cup {new}
  /\ Goto("replay")
  /\ UNCHANGED <<monitor, new, old, sessions, stuck>>

SpawnReady ==
  /\ pc = "replay"
  /\ backupDriver' = new /\ new' = NoDriver
  /\ state' = "Ready"
  /\ Goto("idle")
  /\ UNCHANGED <<usage, old, active, activeDriver, backup, archived, held>>

\* The fallback compacts the session, which still holds its turns.
Fallback ==
  /\ pc = "failed"
  /\ state' = "Idle"
  /\ Goto("idle")
  /\ UNCHANGED <<usage, new, old, sessions, held>>

-----------------------------------------------------------------------------
\* executeSwap.
SwapRefused ==
  /\ pc = "swap" /\ (backupDriver = NoDriver \/ ~backup.is)
  /\ Goto("idle")
  /\ UNCHANGED <<monitor, new, old, sessions, held>>

Swap ==
  /\ pc = "swap" /\ backupDriver # NoDriver /\ backup.is
  /\ active' = backup /\ activeDriver' = backupDriver
  /\ backup' = NoSession /\ backupDriver' = NoDriver
  /\ archived' = archived \cup {active.holds}
  /\ old' = activeDriver
  /\ Goto("stop")
  /\ UNCHANGED <<monitor, new, held>>

StopOld ==
  /\ pc = "stop"
  /\ Stop(old) /\ old' = NoDriver
  /\ Goto("reset")
  /\ UNCHANGED <<monitor, new, sessions>>

Reset ==
  /\ pc = "reset"
  /\ usage' = "low" /\ state' = "Idle"
  /\ Goto("idle")
  /\ UNCHANGED <<new, old, sessions, held>>

-----------------------------------------------------------------------------
RelayStep ==
  \/ Check \/ CheckIdle \/ CheckReady \/ Announce
  \/ Seed \/ SpawnFails \/ SpawnStarts \/ SpawnReady \/ Fallback
  \/ SwapRefused \/ Swap \/ StopOld \/ Reset

Next == RelayStep \/ (\E u \in Levels : Record(u)) \/ (\E t \in Turns : Turn(t))

Spec == Init /\ [][Next]_vars

\* CheckAndRelay is called again and again, and drivers that can be started
\* are, in the end.
FairSpec == Spec /\ WF_vars(RelayStep) /\ SF_vars(SpawnStarts) /\ SF_vars(SpawnReady)

-----------------------------------------------------------------------------
\* Ranges.
TypeOK ==
  /\ state \in {"Idle", "Spawning", "Ready", "Swapping"} /\ usage \in Levels
  /\ pc \in {"idle", "Idle", "Ready", "announce", "spawn", "start", "replay", "failed",
             "swap", "stop", "reset"}
  /\ active \in {Session(T) : T \in SUBSET Turns}
  /\ backup \in {NoSession} \cup {Session(T) : T \in SUBSET Turns}
  /\ activeDriver \in Drivers /\ {new, old, backupDriver} \subseteq Drivers \cup {NoDriver}
  /\ running \subseteq Drivers /\ stuck \subseteq running /\ archived \subseteq SUBSET Turns

\* Record moves the monitor at any moment, and still, whenever CheckAndRelay is
\* not inside, the monitor says that there is a backup exactly when there is
\* one that can take over: ErrNoBackup, which would leave it in Swapping for
\* ever, does not occur (monitor.go:94-123, relay.go:84-130, 204-206).
BackupReady ==
  pc = "idle" =>
    /\ state \in {"Ready", "Swapping"} <=> backupDriver # NoDriver
    /\ backupDriver # NoDriver => backup.is

\* Every driver that runs is the active one, the backup, in the hands of
\* CheckAndRelay, or was told to stop and did not: failed spawns and swaps forget
\* no driver before they have called its Stop, whose error they drop, and never
\* call that of the active one or the backup (relay.go:180-199, 238-241).
DriversAccounted ==
  /\ running \subseteq {activeDriver, backupDriver, new, old} \cup stuck
  /\ {activeDriver, backupDriver} \subseteq (running \ stuck) \cup {NoDriver}

\* A context that is full is relayed, whatever failed before and whoever saw
\* the threshold first (relay.go:115-127).
RelayCompletes == (usage = "swap") ~> (usage = "low")
=============================================================================
