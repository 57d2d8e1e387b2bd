---------------------------- MODULE PartsProofs -----------------------------
(***************************************************************************)
(* Safety of the three parts of Parts for any number of turns, drivers,    *)
(* calls, keys and inputs: of each part first, then of all of them.        *)
(***************************************************************************)
EXTENDS Parts, FiniteSetTheorems, SequenceTheorems, TLAPS

-----------------------------------------------------------------------------
(* The context relay.                                                      *)

\* What CheckAndRelay has seen of the monitor stays true enough while it acts
\* on it, whatever Record does in between: from its look at the monitor to the
\* step that the look leads to.
MonitorMatches ==
  /\ pc \in {"Idle", "announce"} => state \in {"Idle", "Spawning"}
  /\ pc \in {"spawn", "start", "replay", "failed"} => state = "Spawning"
  /\ pc \in {"Ready", "swap"} => state \in {"Ready", "Swapping"}
  /\ pc \notin {"stop", "reset"} =>
       (state \in {"Ready", "Swapping"} <=> backupDriver # NoDriver)

\* Where sessions are.
SessionsKept ==
  /\ active.is
  /\ pc \in {"start", "replay"} \/ backupDriver # NoDriver => backup.is

\* Who holds which driver, at which step.
DriversHeld ==
  /\ activeDriver \in relayRunning /\ relayStuck \subseteq relayRunning
  /\ relayRunning \subseteq Drivers
  /\ backupDriver # NoDriver => backupDriver \in relayRunning /\ backupDriver # activeDriver
  /\ pc \in {"stop", "reset"} => backupDriver = NoDriver
  /\ pc = "start" => new \in Drivers \ relayRunning
  /\ pc = "replay" => new \in relayRunning \ relayStuck /\ new # activeDriver
  /\ pc \notin {"start", "replay"} => new = NoDriver
  /\ pc = "stop" => old \in relayRunning \ relayStuck /\ old # activeDriver
  /\ pc # "stop" => old = NoDriver

RelayStates ==
  /\ state \in {"Idle", "Spawning", "Ready", "Swapping"}
  /\ pc \in {"idle", "Idle", "Ready", "announce", "spawn", "start", "replay", "failed",
             "swap", "stop", "reset"}

RelayInv == RelayStates /\ MonitorMatches /\ SessionsKept /\ DriversHeld /\ Relay!DriversAccounted

\* The initial state has one driver, which runs (relay.go:60-74).
LEMMA RelayInit ==
  ASSUME Drivers # {}, NoDriver \notin Drivers, Relay!Init
  PROVE  RelayInv
<1>1. activeDriver \in Drivers
  BY DEF Relay!Init
<1> QED BY <1>1 DEF Relay!Init, RelayInv, RelayStates, MonitorMatches, SessionsKept, DriversHeld,
              Relay!DriversAccounted, Relay!Session, Relay!NoSession

\* Every step of CheckAndRelay, of the REPL's recording and of a turn keeps it.
LEMMA RelayStepKeeps ==
  ASSUME NoDriver \notin Drivers, RelayInv, Relay!Next \/ UNCHANGED relayVars
  PROVE  RelayInv'
<1> USE DEF RelayInv, RelayStates, MonitorMatches, SessionsKept, DriversHeld, Relay!DriversAccounted,
            Relay!Goto, Relay!monitor, Relay!sessions, Relay!held
<1>1. ASSUME NEW u \in Relay!Levels, Relay!Record(u)
      PROVE  RelayInv'
  <2>1. \/ state' = state
        \/ state = "Ready" /\ state' = "Swapping"
        \/ state = "Idle" /\ state' = "Spawning"
    BY <1>1 DEF Relay!Record, Relay!Transition
  <2> QED BY <1>1, <2>1 DEF Relay!Record
<1>2. ASSUME NEW t \in Turns, Relay!Turn(t)
      PROVE  RelayInv'
  BY <1>2 DEF Relay!Turn, Relay!Session
<1>3. CASE Relay!Check
  BY <1>3 DEF Relay!Check, Relay!Look
<1>4. CASE Relay!CheckIdle
  BY <1>4 DEF Relay!CheckIdle, Relay!ShouldSpawn
<1>5. CASE Relay!CheckReady
  BY <1>5 DEF Relay!CheckReady, Relay!ShouldSwap
<1>6. CASE Relay!Announce
  BY <1>6 DEF Relay!Announce
<1>7. CASE Relay!Seed
  BY <1>7 DEF Relay!Seed
<1>8. CASE Relay!SpawnFails
  BY <1>8 DEF Relay!SpawnFails, Relay!Stop
<1>9. CASE Relay!SpawnStarts
  BY <1>9 DEF Relay!SpawnStarts
<1>10. CASE Relay!SpawnReady
  BY <1>10 DEF Relay!SpawnReady
<1>11. CASE Relay!Fallback
  BY <1>11 DEF Relay!Fallback
<1>12. CASE Relay!SwapRefused
  BY <1>12 DEF Relay!SwapRefused
<1>13. CASE Relay!Swap
  BY <1>13 DEF Relay!Swap, Relay!NoSession
<1>14. CASE Relay!StopOld
  BY <1>14 DEF Relay!StopOld, Relay!Stop
<1>15. CASE Relay!Reset
  BY <1>15 DEF Relay!Reset
<1>16. CASE UNCHANGED relayVars
  BY <1>16 DEF relayVars
<1> QED BY <1>1, <1>2, <1>3, <1>4, <1>5, <1>6, <1>7, <1>8, <1>9, <1>10, <1>11, <1>12,
          <1>13, <1>14, <1>15, <1>16 DEF Relay!Next, Relay!RelayStep

-----------------------------------------------------------------------------
(* The driver pool.                                                        *)

\* What a pooled driver's call is: done, with the key it was pooled under.
Pooled ==
  \A k \in Keys : drivers[k] # NoDriver =>
    drivers[k] \in poolRunning \ poolStuck /\ poolPc[drivers[k]] = "done" /\ key[drivers[k]] = k

\* A call has a key as long as it may still use it.
Keyed == \A g \in Gets : poolPc[g] \in {"create", "insert"} => key[g] \in Keys

\* Only a call that is over has a driver that was told to stop.
GivenUp == \A g \in poolStuck : poolPc[g] = "done"

PoolInv == Pool!TypeOK /\ Pooled /\ Keyed /\ GivenUp /\ Pool!PoolAccounted

\* The pool is empty (driver_pool.go:22-28).
LEMMA PoolInit ==
  ASSUME NoDriver \notin Gets, Pool!Init
  PROVE  PoolInv
BY DEF Pool!Init, PoolInv, Pool!TypeOK, Pooled, Keyed, GivenUp, Pool!PoolAccounted

\* The second look under the lock finds any driver that another call has put
\* there, and what StopAll takes from the pool it tells to stop (driver_pool.go:53-85).
LEMMA PoolStepKeeps ==
  ASSUME NoDriver \notin Gets, PoolInv, Pool!Next \/ UNCHANGED poolVars
  PROVE  PoolInv'
<1> USE DEF PoolInv, Pool!TypeOK, Pooled, Keyed, GivenUp, Pool!Goto, Pool!held
<1>1. ASSUME NEW g \in Gets, NEW k \in Keys, Pool!Lookup(g, k)
      PROVE  PoolInv'
  <2>1. CASE Pool!Hit(g, k)
    BY <1>1, <2>1 DEF Pool!Lookup, Pool!Hit, Pool!PoolAccounted
  <2>2. CASE Pool!Miss(g, k)
    BY <1>1, <2>2 DEF Pool!Lookup, Pool!Miss, Pool!PoolAccounted
  <2> QED BY <1>1, <2>1, <2>2 DEF Pool!Lookup
<1>2. ASSUME NEW g \in Gets, Pool!CreateFails(g)
      PROVE  PoolInv'
  BY <1>2 DEF Pool!CreateFails, Pool!PoolAccounted
<1>3. ASSUME NEW g \in Gets, Pool!Create(g)
      PROVE  PoolInv'
  BY <1>3 DEF Pool!Create, Pool!PoolAccounted
<1>4. ASSUME NEW g \in Gets, Pool!Insert(g)
      PROVE  PoolInv'
  <2>1. CASE drivers[key[g]] = NoDriver /\ Pool!Put(g)
    BY <1>4, <2>1 DEF Pool!Insert, Pool!Put, Pool!PoolAccounted
  <2>2. CASE Pool!Hit(g, key[g]) /\ Pool!Stop({g}) /\ UNCHANGED key
    BY <1>4, <2>2 DEF Pool!Insert, Pool!Hit, Pool!Stop, Pool!PoolAccounted
  <2> QED BY <1>4, <2>1, <2>2 DEF Pool!Insert
<1>5. CASE Pool!StopAll
  BY <1>5 DEF Pool!StopAll, Pool!Stop, Pool!PoolAccounted
<1>6. CASE UNCHANGED poolVars
  BY <1>6 DEF poolVars, Pool!PoolAccounted
<1> QED BY <1>1, <1>2, <1>3, <1>4, <1>5, <1>6 DEF Pool!Next, Pool!GetStep

-----------------------------------------------------------------------------
(* The REPL's inputs.                                                      *)

\* A prompt is queued at the tail (model_handlers.go:24).
LEMMA QueueAppend ==
  ASSUME NEW S, NEW q \in Seq(S), NEW e \in S, IsInjective(q), e \notin ToSet(q)
  PROVE  /\ Append(q, e) \in Seq(S) /\ IsInjective(Append(q, e))
         /\ ToSet(Append(q, e)) = ToSet(q) \cup {e}
<1>1. /\ Len(q) \in Nat /\ DOMAIN q = 1..Len(q)
      /\ Append(q, e) \in Seq(S)
      /\ DOMAIN Append(q, e) = 1..(Len(q) + 1)
      /\ \A i \in 1..Len(q) : Append(q, e)[i] = q[i]
      /\ Append(q, e)[Len(q) + 1] = e
  BY AppendProperties, LenProperties
<1>2. ASSUME NEW i \in DOMAIN Append(q, e), NEW j \in DOMAIN Append(q, e),
             Append(q, e)[i] = Append(q, e)[j]
      PROVE  i = j
  BY <1>1, <1>2 DEF IsInjective, ToSet
<1>3. ToSet(Append(q, e)) = ToSet(q) \cup {e}
  <2>1. ASSUME NEW x \in ToSet(Append(q, e)) PROVE x \in ToSet(q) \cup {e}
    BY <1>1, <2>1 DEF ToSet
  <2>2. ASSUME NEW x \in ToSet(q) PROVE x \in ToSet(Append(q, e))
    BY <1>1, <2>2 DEF ToSet
  <2>3. e \in ToSet(Append(q, e))
    BY <1>1 DEF ToSet
  <2> QED BY <2>1, <2>2, <2>3
<1> QED BY <1>1, <1>2, <1>3 DEF IsInjective

\* The first prompt is taken off (queue.go:43-56).
LEMMA QueueTail ==
  ASSUME NEW S, NEW q \in Seq(S), q # <<>>, IsInjective(q)
  PROVE  /\ Tail(q) \in Seq(S) /\ IsInjective(Tail(q))
         /\ Head(q) \in ToSet(q) /\ ToSet(Tail(q)) = ToSet(q) \ {Head(q)}
<1>1. /\ Len(q) \in Nat \ {0} /\ DOMAIN q = 1..Len(q)
      /\ Tail(q) \in Seq(S)
      /\ DOMAIN Tail(q) = 1..(Len(q) - 1)
      /\ \A i \in 1..(Len(q) - 1) : Tail(q)[i] = q[i + 1]
      /\ Head(q) = q[1]
  BY HeadTailProperties, LenProperties, EmptySeq
<1>2. ASSUME NEW i \in DOMAIN Tail(q), NEW j \in DOMAIN Tail(q), Tail(q)[i] = Tail(q)[j]
      PROVE  i = j
  <2>1. i + 1 \in DOMAIN q /\ j + 1 \in DOMAIN q /\ q[i + 1] = q[j + 1]
    BY <1>1, <1>2
  <2> QED BY <2>1, <1>1 DEF IsInjective
<1>3. ASSUME NEW x \in ToSet(Tail(q)) PROVE x \in ToSet(q) \ {Head(q)}
  <2>1. PICK i \in DOMAIN Tail(q) : Tail(q)[i] = x
    BY <1>3 DEF ToSet
  <2>2. i + 1 \in DOMAIN q /\ q[i + 1] = x /\ 1 \in DOMAIN q /\ i + 1 # 1
    BY <2>1, <1>1
  <2> QED BY <2>2, <1>1 DEF IsInjective, ToSet
<1>4. ASSUME NEW x \in ToSet(q), x # Head(q) PROVE x \in ToSet(Tail(q))
  <2>1. PICK i \in DOMAIN q : q[i] = x
    BY <1>4 DEF ToSet
  <2>2. i - 1 \in 1..(Len(q) - 1) /\ (i - 1) + 1 = i
    BY <2>1, <1>1, <1>4
  <2> QED BY <2>1, <2>2, <1>1 DEF ToSet
<1>5. Head(q) \in ToSet(q)
  BY <1>1 DEF ToSet
<1> QED BY <1>1, <1>2, <1>3, <1>4, <1>5 DEF IsInjective

-----------------------------------------------------------------------------
\* Every input is in the first place or behind it, and so on down the list.
Apart ==
  /\ posted \cap (ToSet(queue) \cup running \cup shells \cup dones \cup shellDones
                    \cup answered) = {}
  /\ ToSet(queue) \cap (running \cup shells \cup dones \cup shellDones \cup answered) = {}
  /\ running \cap (shells \cup dones \cup shellDones \cup answered) = {}
  /\ shells \cap (dones \cup shellDones \cup answered) = {}
  /\ dones \cap (shellDones \cup answered) = {}
  /\ shellDones \cap answered = {}

Everywhere ==
  posted \cup ToSet(queue) \cup running \cup shells \cup dones \cup shellDones \cup answered

Placed ==
  /\ queue \in Seq(Inputs) /\ IsInjective(queue)
  /\ typed = Everywhere /\ Apart

\* An input that enters, or that goes from one place to another, keeps the rest
\* apart (model.go:548-672, model_handlers.go:21-52, 121-171).
LEMMA PlacedKept ==
  ASSUME Placed, [Next]_vars
  PROVE  Placed'
<1> USE DEF Apart, Everywhere, work
<1>1. ASSUME NEW p \in Inputs, EnterPrompt(p) \/ EnterCommand(p) \/ EnterShell(p)
      PROVE  Placed'
  BY <1>1 DEF EnterPrompt, EnterCommand, EnterShell, Type, Placed
<1>2. ASSUME NEW p \in Inputs, PostTyped(p)
      PROVE  Placed'
  BY <1>2 DEF PostTyped, Type, Placed
<1>3. ASSUME NEW p \in Inputs, SubmitMsg(p)
      PROVE  Placed'
  <2>1. CASE Starts(p)
    BY <1>3, <2>1 DEF SubmitMsg, Starts, Placed
  <2>2. CASE Queues(p)
    <3>1. /\ queue' \in Seq(Inputs) /\ IsInjective(queue')
          /\ ToSet(queue') = ToSet(queue) \cup {p}
      BY <1>3, <2>2, QueueAppend DEF SubmitMsg, Queues, Placed
    <3> QED BY <1>3, <2>2, <3>1 DEF SubmitMsg, Queues, Placed
  <2> QED BY <1>3, <2>1, <2>2 DEF SubmitMsg
<1>4. ASSUME NEW p \in Inputs, ToolCall(p) \/ RunEnds(p) \/ ShellEnds(p)
      PROVE  Placed'
  BY <1>4 DEF ToolCall, RunEnds, ShellEnds, Placed
<1>5. ASSUME NEW p \in Inputs, AgentDone(p)
      PROVE  Placed'
  <2>1. CASE queue # <<>> /\ Drain
    <3>1. /\ queue' \in Seq(Inputs) /\ IsInjective(queue')
          /\ ToSet(queue') = ToSet(queue) \ {Head(queue)} /\ Head(queue) \in ToSet(queue)
      BY <2>1, QueueTail DEF Drain, Placed
    <3> QED BY <1>5, <2>1, <3>1 DEF AgentDone, Drain, Placed
  <2>2. CASE UNCHANGED <<posted, queue>>
    BY <1>5, <2>2 DEF AgentDone, Placed
  <2> QED BY <1>5, <2>1, <2>2 DEF AgentDone
<1>6. CASE HandleApproval \/ UNCHANGED vars
  BY <1>6 DEF HandleApproval, vars, Placed
<1> QED BY <1>1, <1>2, <1>3, <1>4, <1>5, <1>6
        DEF Next, Enter, Work, PostEntered, TabComplete

\* Seven places that are apart count an input once.
LEMMA PlacedOnce ==
  ASSUME Placed
  PROVE  PromptOnce
<1> SUFFICES ASSUME NEW p \in typed
             PROVE  Cardinality({i \in DOMAIN Places : p \in Places[i]}) = 1
  BY DEF Placed, PromptOnce
<1>1. /\ DOMAIN Places = 1..7
      /\ Places[1] = posted /\ Places[2] = ToSet(queue) /\ Places[3] = running
      /\ Places[4] = shells /\ Places[5] = dones /\ Places[6] = shellDones
      /\ Places[7] = answered
  BY DEF Places
<1>2. \E k \in 1..7 : \A i \in 1..7 : p \in Places[i] <=> i = k
  BY <1>1 DEF Placed, Apart, Everywhere
<1>3. PICK k \in 1..7 : \A i \in 1..7 : p \in Places[i] <=> i = k
  BY <1>2
<1>4. {i \in DOMAIN Places : p \in Places[i]} = {k}
  BY <1>1, <1>3
<1> QED BY <1>4, FS_Singleton

\* A run that ends leaves a message behind, and whatever message of an end is
\* handled takes the REPL back to input (model_handlers.go:24, 81-85, 156).
LEMMA BusyKept ==
  ASSUME BusyHasRun, [Next]_vars
  PROVE  BusyHasRun'
<1> USE DEF BusyHasRun, work
<1>1. ASSUME NEW p \in Inputs, Enter(p)
      PROVE  BusyHasRun'
  BY <1>1 DEF Enter, EnterPrompt, EnterCommand, EnterShell, PostEntered, TabComplete, PostTyped
<1>2. ASSUME NEW p \in Inputs, SubmitMsg(p)
      PROVE  BusyHasRun'
  BY <1>2 DEF SubmitMsg, Starts, Queues
<1>3. ASSUME NEW p \in Inputs, ToolCall(p) \/ RunEnds(p) \/ ShellEnds(p)
      PROVE  BusyHasRun'
  BY <1>3 DEF ToolCall, RunEnds, ShellEnds
<1>4. ASSUME NEW p \in Inputs, AgentDone(p)
      PROVE  BusyHasRun'
  BY <1>4 DEF AgentDone, NextState
<1>5. CASE HandleApproval \/ UNCHANGED vars
  BY <1>5 DEF HandleApproval, vars
<1> QED BY <1>1, <1>2, <1>3, <1>4, <1>5 DEF Next, Work

-----------------------------------------------------------------------------
(* The parts together.                                                     *)

\* A step of the parts is one of one part and leaves the others alone.
LEMMA OnePart ==
  ASSUME [PartsNext]_partsVars
  PROVE  /\ Relay!Next \/ UNCHANGED relayVars
         /\ Pool!Next \/ UNCHANGED poolVars
         /\ [Next]_vars
BY DEF PartsNext, RelayAlone, PoolAlone, ReplAlone, partsVars

\* A swap always finds its backup: between two calls of CheckAndRelay the
\* monitor asks for one exactly if there is one (relay.go:84-130, 204-206).
THEOREM BackupCorrect ==
  ASSUME Drivers # {}, NoDriver \notin Drivers
  PROVE  PartsSpec => []BackupReady
<1>1. PartsInit => RelayInv
  BY RelayInit DEF PartsInit
<1>2. RelayInv /\ [PartsNext]_partsVars => RelayInv'
  BY RelayStepKeeps, OnePart
<1>3. RelayInv => BackupReady
  BY DEF RelayInv, MonitorMatches, SessionsKept, BackupReady, Relay!BackupReady
<1> QED BY <1>1, <1>2, <1>3, PTL DEF PartsSpec

\* No driver is forgotten before its Stop was called: not by a failed spawn or a
\* swap of the relay, which never stop the active one or the backup
\* (relay.go:180-199, 238-241), and not by calls of GetOrCreate that overlap with
\* each other and with StopAll (driver_pool.go:31-85).  Any Stop may fail.
THEOREM DriversCorrect ==
  ASSUME Drivers # {}, NoDriver \notin Drivers \cup Gets
  PROVE  PartsSpec => []DriversAccounted
<1>1. PartsInit => RelayInv /\ PoolInv
  BY RelayInit, PoolInit DEF PartsInit
<1>2. RelayInv /\ PoolInv /\ [PartsNext]_partsVars => RelayInv' /\ PoolInv'
  BY RelayStepKeeps, PoolStepKeeps, OnePart
<1>3. RelayInv /\ PoolInv => DriversAccounted
  BY DEF RelayInv, PoolInv, DriversAccounted
<1> QED BY <1>1, <1>2, <1>3, PTL DEF PartsSpec

\* No input is dropped, run twice, or queued and submitted as well, whatever the
\* order of messages, for any number of inputs (model_handlers.go:22-52, 165-170).
THEOREM PromptOnceCorrect == PartsSpec => []PromptOnce
<1>1. PartsInit => Placed
  BY EmptySeq DEF PartsInit, Init, Placed, Apart, Everywhere, ToSet, IsInjective
<1>2. Placed /\ [PartsNext]_partsVars => Placed'
  BY PlacedKept, OnePart
<1>3. Placed => PromptOnce
  BY PlacedOnce
<1> QED BY <1>1, <1>2, <1>3, PTL DEF PartsSpec

\* The REPL never waits for a run that is over (model_handlers.go:24, 81-85,
\* 156).  This is inductive as it stands.
THEOREM BusyCorrect == PartsSpec => []BusyHasRun
<1>1. PartsInit => BusyHasRun
  BY DEF PartsInit, Init, BusyHasRun
<1>2. BusyHasRun /\ [PartsNext]_partsVars => BusyHasRun'
  BY BusyKept, OnePart
<1> QED BY <1>1, <1>2, PTL DEF PartsSpec

\* What the sessions hold, and the ranges that no other invariant names.
Holdings ==
  /\ usage \in Relay!Levels
  /\ active \in {Relay!Session(T) : T \in SUBSET Turns}
  /\ backup \in {Relay!NoSession} \cup {Relay!Session(T) : T \in SUBSET Turns}
  /\ archived \subseteq SUBSET Turns

LEMMA HoldingsKept ==
  ASSUME Holdings, Relay!Next \/ UNCHANGED relayVars
  PROVE  Holdings'
<1> USE DEF Holdings, Relay!sessions, Relay!monitor
<1>1. ASSUME NEW u \in Relay!Levels, Relay!Record(u)
      PROVE  Holdings'
  BY <1>1 DEF Relay!Record
<1>2. ASSUME NEW t \in Turns, Relay!Turn(t)
      PROVE  Holdings'
  <2>1. PICK T \in SUBSET Turns : active = Relay!Session(T)
    OBVIOUS
  <2>2. active' = Relay!Session(T \cup {t}) /\ T \cup {t} \in SUBSET Turns
    BY <1>2, <2>1 DEF Relay!Turn, Relay!Session
  <2> QED BY <1>2, <2>2 DEF Relay!Turn
<1>3. CASE Relay!Check \/ Relay!CheckIdle \/ Relay!CheckReady \/ Relay!Announce \/ Relay!SpawnFails
             \/ Relay!SpawnStarts \/ Relay!SpawnReady \/ Relay!Fallback \/ Relay!SwapRefused
             \/ Relay!StopOld
  BY <1>3 DEF Relay!Check, Relay!CheckIdle, Relay!CheckReady, Relay!Announce, Relay!SpawnFails,
              Relay!SpawnStarts, Relay!SpawnReady, Relay!Fallback, Relay!SwapRefused, Relay!StopOld
<1>4. CASE Relay!Seed
  BY <1>4 DEF Relay!Seed
<1>5. CASE Relay!Swap
  <2>1. backup \in {Relay!Session(T) : T \in SUBSET Turns}
    BY <1>5 DEF Relay!Swap, Relay!NoSession
  <2>2. active.holds \in SUBSET Turns
    BY DEF Relay!Session
  <2> QED BY <1>5, <2>1, <2>2 DEF Relay!Swap
<1>6. CASE Relay!Reset
  BY <1>6 DEF Relay!Reset, Relay!Levels
<1>7. CASE UNCHANGED relayVars
  BY <1>7 DEF relayVars
<1> QED BY <1>1, <1>2, <1>3, <1>4, <1>5, <1>6, <1>7 DEF Relay!Next, Relay!RelayStep

LEMMA ScreenKept ==
  ASSUME ui \in {"input", "streaming", "approval"}, [Next]_vars
  PROVE  ui' \in {"input", "streaming", "approval"}
<1> USE DEF work
<1>1. ASSUME NEW p \in Inputs, Enter(p) \/ ToolCall(p) \/ Work(p)
      PROVE  ui' \in {"input", "streaming", "approval"}
  BY <1>1 DEF Enter, EnterPrompt, EnterCommand, EnterShell, PostEntered, TabComplete, PostTyped,
              ToolCall, Work, SubmitMsg, Starts, Queues, RunEnds, ShellEnds, AgentDone, NextState
<1>2. CASE HandleApproval \/ UNCHANGED vars
  BY <1>2 DEF HandleApproval, vars
<1> QED BY <1>1, <1>2 DEF Next

\* An input is typed before it is anywhere.
LEMMA TypedKept ==
  ASSUME typed \subseteq Inputs, [Next]_vars
  PROVE  typed' \subseteq Inputs
BY DEF Next, Enter, EnterPrompt, EnterCommand, EnterShell, PostEntered, TabComplete, PostTyped, Type,
       ToolCall, Work, SubmitMsg, RunEnds, ShellEnds, AgentDone, HandleApproval, vars

\* The types of the three parts hold, for any turns, drivers, calls, keys and
\* inputs (relay.go:22-36, driver_pool.go:14-28, model.go:51-86).
THEOREM PartsTypeCorrect ==
  ASSUME Drivers # {}, NoDriver \notin Drivers \cup Gets
  PROVE  PartsSpec => [](Relay!TypeOK /\ Pool!TypeOK /\ TypeOK)
<1> DEFINE Screen == ui \in {"input", "streaming", "approval"} /\ typed \subseteq Inputs
           All == RelayInv /\ Holdings /\ PoolInv /\ Placed /\ Screen
<1>1. PartsInit => All
  <2> SUFFICES ASSUME PartsInit PROVE All
    OBVIOUS
  <2>1. RelayInv /\ PoolInv
    BY RelayInit, PoolInit DEF PartsInit
  <2>2. Holdings
    BY DEF PartsInit, Relay!Init, Holdings, Relay!Levels
  <2>3. Placed /\ Screen
    BY EmptySeq DEF PartsInit, Init, Placed, Apart, Everywhere, ToSet, IsInjective
  <2> QED BY <2>1, <2>2, <2>3
<1>2. All /\ [PartsNext]_partsVars => All'
  BY OnePart, RelayStepKeeps, HoldingsKept, PoolStepKeeps, PlacedKept, ScreenKept, TypedKept
<1>3. All => Relay!TypeOK /\ Pool!TypeOK /\ TypeOK
  <2> SUFFICES ASSUME All PROVE Relay!TypeOK /\ Pool!TypeOK /\ TypeOK
    OBVIOUS
  <2>1. Relay!TypeOK
    BY DEF RelayInv, RelayStates, DriversHeld, Holdings, Relay!TypeOK
  <2>2. Pool!TypeOK
    BY DEF PoolInv
  <2>3. \A i \in DOMAIN Places : Places[i] \subseteq typed
    BY DEF Places, Placed, Everywhere
  <2>4. TypeOK
    BY <2>3 DEF Placed, TypeOK
  <2> QED BY <2>1, <2>2, <2>4
<1> QED BY <1>1, <1>2, <1>3, PTL DEF PartsSpec
=============================================================================
