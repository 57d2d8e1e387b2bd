-------------------------- MODULE OrchestratorProofs --------------------------
(***************************************************************************)
(* Safety of Orchestrator for every number of executions and stages, every *)
(* choice of budgets and every number of permission responses.             *)
(***************************************************************************)
EXTENDS Orchestrator, SequenceTheorems, FiniteSetTheorems, TLAPS

\* Where executeStage is running: its stage is one of the plan's.
InStage == {"create", "start", "send", "recv", "gate", "emitCompleted",
            "stop", "destroy"}

StageInRange ==
  \A e \in Execs :
    /\ pc[e] \in InStage => stage[e] <= NumStages
    /\ pc[e] = "idle" => stage[e] = 1

\* The steps of one execution, and the steps that belong to none.
ExecStep(e) ==
  \/ Execute(e) \/ GoStep(e) \/ RecvMessage(e) \/ RecvClosed(e)
  \/ Expire(e) \/ Cancel(e) \/ CancelWorkstream(e)
  \/ ReadStep(e) \/ SubmitLookup(e)

\* The assumptions on the constants, and a reading of Next by executions.
LEMMA NextCases ==
  Next <=> (\E e \in Execs : ExecStep(e)) \/ SubmitSend \/ SubmitAbort \/ Shutdown
BY DEF Next, ExecStep

\* An assignment to one execution's part of a variable keeps the variable's range.
LEMMA ExceptType ==
  ASSUME NEW A, NEW B, NEW f \in [A -> B], NEW a \in A, NEW b \in B
  PROVE  [f EXCEPT ![a] = b] \in [A -> B]
OBVIOUS

\* Append and Tail keep a channel's buffer a sequence of events and change its
\* length by one: the channel operations of Execute and of HandleIntent.
LEMMA BufferSteps ==
  ASSUME NEW S, NEW q \in Seq(S)
  PROVE  /\ Len(q) \in Nat
         /\ \A x \in S : Append(q, x) \in Seq(S) /\ Len(Append(q, x)) = Len(q) + 1
         /\ q # <<>> => /\ Tail(q) \in Seq(S) /\ Head(q) \in S
                        /\ Len(Tail(q)) = Len(q) - 1
<1>1. Len(q) \in Nat
  BY LenProperties
<1>2. \A x \in S : Append(q, x) \in Seq(S) /\ Len(Append(q, x)) = Len(q) + 1
  BY AppendProperties
<1>3. q # <<>> => /\ Tail(q) \in Seq(S) /\ Head(q) \in S
                  /\ Len(Tail(q)) = Len(q) - 1
  BY HeadTailProperties, EmptySeq
<1> QED BY <1>1, <1>2, <1>3

-----------------------------------------------------------------------------
\* Every step of an execution keeps the types; a stage is only left for the
\* next one while it is within the plan (simple_orchestrator.go:79-85).
LEMMA ExecStepType ==
  ASSUME TypeOK, StageInRange, NEW e \in Execs, ExecStep(e)
  PROVE  TypeOK' /\ StageInRange'
<1> USE OrchestratorAssumption
<1> USE DEF PCs, EventKinds, InStage, Emit, outerVars, stageVars, goVars,
            chVars, rdVars, inVars, Goto, Fail, Send
<1>0. /\ events[e] \in Seq(EventKinds)
      /\ \A x \in EventKinds : Append(events[e], x) \in Seq(EventKinds)
      /\ events[e] # <<>> => /\ Tail(events[e]) \in Seq(EventKinds)
                             /\ Head(events[e]) \in EventKinds
  BY BufferSteps DEF TypeOK
<1>01. /\ pc[e] \in InStage => stage[e] \in 1..NumStages
       /\ stage[e] \in Nat /\ stage[e] + 1 # 0
       /\ stage[e] \in 1..NumStages => stage[e] + 1 \in 1..(NumStages + 1)
  BY DEF TypeOK, StageInRange
<1>02. \A X \in SUBSET (1..NumStages) :
         /\ X \ {stage[e]} \in SUBSET (1..NumStages)
         /\ stage[e] \in 1..NumStages => X \cup {stage[e]} \in SUBSET (1..NumStages)
  OBVIOUS
<1>1. CASE Execute(e)
  BY <1>1 DEF Execute, TypeOK, StageInRange
<1>2. CASE BeginStage(e)
  BY <1>0, <1>2 DEF BeginStage, TypeOK, StageInRange
<1>3. CASE FinishPlan(e)
  BY <1>0, <1>3 DEF FinishPlan, TypeOK, StageInRange
<1>4. CASE CreateSandbox(e)
  <2>1. sandboxes' \in [Execs -> SUBSET (1..NumStages)]
    <3>1. sandboxes \in [Execs -> SUBSET (1..NumStages)]
      BY DEF TypeOK
    <3>2. sandboxes[e] \cup {stage[e]} \in SUBSET (1..NumStages)
      BY <1>01, <1>02, <1>4, <3>1 DEF CreateSandbox
    <3>3. [sandboxes EXCEPT ![e] = @ \cup {stage[e]}]
            \in [Execs -> SUBSET (1..NumStages)]
      BY <3>1, <3>2, ExceptType
    <3> QED BY <3>1, <3>3, <1>4 DEF CreateSandbox
  <2> QED BY <2>1, <1>4 DEF CreateSandbox, TypeOK, StageInRange
<1>5. CASE StartDriver(e)
  <2>1. drivers' \in [Execs -> SUBSET (1..NumStages)]
    <3>1. drivers \in [Execs -> SUBSET (1..NumStages)]
      BY DEF TypeOK
    <3>2. drivers[e] \cup {stage[e]} \in SUBSET (1..NumStages)
      BY <1>01, <1>02, <1>5, <3>1 DEF StartDriver
    <3>3. [drivers EXCEPT ![e] = @ \cup {stage[e]}]
            \in [Execs -> SUBSET (1..NumStages)]
      BY <3>1, <3>2, ExceptType
    <3> QED BY <3>1, <3>3, <1>5 DEF StartDriver
  <2> QED BY <2>1, <1>5 DEF StartDriver, TypeOK, StageInRange
<1>6. CASE SendPrompt(e)
  BY <1>6 DEF SendPrompt, TypeOK, StageInRange
<1>7. CASE RecvMessage(e)
  BY <1>7 DEF RecvMessage, TypeOK, StageInRange
<1>8. CASE RecvClosed(e)
  BY <1>8 DEF RecvClosed, TypeOK, StageInRange
<1>9. CASE RecvDone(e)
  BY <1>9 DEF RecvDone, TypeOK, StageInRange
<1>10. CASE GatePass(e)
  BY <1>0, <1>10 DEF GatePass, TypeOK, StageInRange
<1>11. CASE GateFail(e)
  BY <1>0, <1>11 DEF GateFail, TypeOK, StageInRange
<1>12. CASE EmitCompleted(e)
  BY <1>0, <1>12 DEF EmitCompleted, TypeOK, StageInRange
<1>13. CASE StopDriver(e)
  <2>1. drivers' \in [Execs -> SUBSET (1..NumStages)]
    <3>1. drivers \in [Execs -> SUBSET (1..NumStages)]
      BY DEF TypeOK
    <3>2. drivers[e] \ {stage[e]} \in SUBSET (1..NumStages)
      BY <1>01, <1>02, <1>13, <3>1 DEF StopDriver
    <3>3. [drivers EXCEPT ![e] = @ \ {stage[e]}]
            \in [Execs -> SUBSET (1..NumStages)]
      BY <3>1, <3>2, ExceptType
    <3> QED BY <3>1, <3>3, <1>13 DEF StopDriver
  <2> QED BY SMTT(30), <2>1, <1>13 DEF StopDriver, TypeOK, StageInRange
<1>14. CASE DestroySandbox(e)
  <2>1. sandboxes' \in [Execs -> SUBSET (1..NumStages)]
    <3>1. sandboxes \in [Execs -> SUBSET (1..NumStages)]
      BY DEF TypeOK
    <3>2. sandboxes[e] \ {stage[e]} \in SUBSET (1..NumStages)
      BY <1>01, <1>02, <1>14, <3>1 DEF DestroySandbox
    <3>3. [sandboxes EXCEPT ![e] = @ \ {stage[e]}]
            \in [Execs -> SUBSET (1..NumStages)]
      BY <3>1, <3>2, ExceptType
    <3> QED BY <3>1, <3>3, <1>14 DEF DestroySandbox
  <2>2. stage' \in [Execs -> 1..(NumStages + 1)]
    BY <1>01, <1>14 DEF DestroySandbox, TypeOK
  <2>3. /\ pc' \in [Execs -> PCs]
        /\ msgCount' \in [Execs -> Nat] /\ expired' \in [Execs -> BOOLEAN]
    BY <1>14 DEF DestroySandbox, TypeOK, PCs
  <2>4. UNCHANGED <<failed, drivers, outerVars>>
    BY <1>14 DEF DestroySandbox
  <2>5. TypeOK'
    BY <2>1, <2>2, <2>3, <2>4 DEF TypeOK
  <2>6. StageInRange'
    BY <1>01, <1>14 DEF DestroySandbox, TypeOK, StageInRange
  <2> QED BY <2>5, <2>6
<1>15. CASE EmitStageFailed(e)
  BY <1>0, <1>15 DEF EmitStageFailed, TypeOK, StageInRange
<1>16. CASE EmitExecutionFailed(e)
  BY <1>0, <1>16 DEF EmitExecutionFailed, TypeOK, StageInRange
<1>17. CASE Unregister(e)
  BY <1>17 DEF Unregister, TypeOK, StageInRange
<1>18. CASE CloseEvents(e)
  BY <1>18 DEF CloseEvents, TypeOK, StageInRange
<1>19. CASE Expire(e)
  BY <1>19 DEF Expire, TypeOK, StageInRange
<1>20. CASE Cancel(e) \/ CancelWorkstream(e)
  BY <1>20 DEF Cancel, CancelWorkstream, CancelCtx, TypeOK, StageInRange
<1>21. CASE ReadEvent(e)
  BY SMTT(30), <1>0, <1>21 DEF ReadEvent, TypeOK, StageInRange
<1>22. CASE EndOfEvents(e)
  BY SMTT(30), <1>22 DEF EndOfEvents, TypeOK, StageInRange
<1>23. CASE SubmitLookup(e)
  BY <1>23 DEF SubmitLookup, TypeOK, StageInRange
<1> HIDE DEF PCs, EventKinds, InStage, Emit, outerVars, stageVars, goVars,
             chVars, rdVars, inVars, Goto, Fail, Send
<1> QED
  BY <1>1, <1>2, <1>3, <1>4, <1>5, <1>6, <1>7, <1>8, <1>9, <1>10, <1>11,
     <1>12, <1>13, <1>14, <1>15, <1>16, <1>17, <1>18, <1>19, <1>20, <1>21,
     <1>22, <1>23, Zenon DEF ExecStep, GoStep, ReadStep

\* Types, for every step of the specification: the variables of every execution
\* keep the ranges that Execute and executeStage give them.
THEOREM OrchestratorTypeCorrect == Spec => [](TypeOK /\ StageInRange)
<1> USE OrchestratorAssumption
<1>1. Init => TypeOK /\ StageInRange
  <2>1. 1 \in 1..(NumStages + 1) /\ {} \in SUBSET (1..NumStages) /\ 0 \in 0..1
    OBVIOUS
  <2>2. <<>> \in Seq(EventKinds)
    OBVIOUS
  <2>3. /\ [e \in Execs |-> 1] \in [Execs -> 1..(NumStages + 1)]
        /\ [e \in Execs |-> {}] \in [Execs -> SUBSET (1..NumStages)]
        /\ [e \in Execs |-> 0] \in [Execs -> 0..1]
        /\ [e \in Execs |-> <<>>] \in [Execs -> Seq(EventKinds)]
    BY <2>1, <2>2
  <2>4. Init => StageInRange
    BY DEF Init, StageInRange, InStage
  <2>5. Init => /\ stage \in [Execs -> 1..(NumStages + 1)]
                /\ sandboxes \in [Execs -> SUBSET (1..NumStages)]
                /\ drivers \in [Execs -> SUBSET (1..NumStages)]
                /\ inputs \in [Execs -> 0..1]
                /\ events \in [Execs -> Seq(EventKinds)]
    BY <2>3, Zenon DEF Init
  <2>6. Init => /\ pc \in [Execs -> PCs]
                /\ failed \in [Execs -> BOOLEAN]
                /\ msgCount \in [Execs -> Nat]
                /\ expired \in [Execs -> BOOLEAN]
                /\ ctxDone \in [Execs -> BOOLEAN]
    BY DEF Init, PCs
  <2>7. Init => /\ closed \in [Execs -> BOOLEAN]
                /\ registered \in [Execs -> BOOLEAN]
                /\ seen \in [Execs -> Nat]
                /\ last \in [Execs -> EventKinds \cup {"none"}]
                /\ verdict \in [Execs -> {"none", "success", "failure"}]
    BY DEF Init
  <2>8. Init => fwd \in Execs \cup {NoExec} /\ responses \in Nat /\ down \in BOOLEAN
    BY DEF Init
  <2> QED BY <2>4, <2>5, <2>6, <2>7, <2>8, Zenon DEF TypeOK
<1>2. TypeOK /\ StageInRange /\ [Next]_vars => TypeOK' /\ StageInRange'
  <2> SUFFICES ASSUME TypeOK, StageInRange, [Next]_vars
               PROVE  TypeOK' /\ StageInRange'
    OBVIOUS
  <2>1. CASE \E e \in Execs : ExecStep(e)
    BY <2>1, ExecStepType
  <2>2. CASE SubmitSend \/ SubmitAbort
    <3>1. inputs' \in [Execs -> 0..1] /\ fwd' = NoExec
      <4>1. fwd \in Execs /\ inputs \in [Execs -> 0..1]
        BY <2>2 DEF SubmitSend, SubmitAbort, TypeOK
      <4>2. inputs[fwd] < 1 => inputs[fwd] + 1 \in 0..1
        BY <4>1
      <4>3. SubmitSend => inputs' \in [Execs -> 0..1]
        BY <4>1, <4>2, ExceptType DEF SubmitSend
      <4> QED BY <4>1, <4>3, <2>2 DEF SubmitSend, SubmitAbort
    <3>2. UNCHANGED <<goVars, ctxDone, chVars, rdVars, registered, responses, down>>
      BY <2>2 DEF SubmitSend, SubmitAbort
    <3> QED BY <3>1, <3>2
         DEF TypeOK, StageInRange, outerVars, stageVars, goVars, chVars,
             rdVars
  <2>3. CASE Shutdown
    BY <2>3
       DEF Shutdown, TypeOK, StageInRange, outerVars, stageVars, goVars,
           chVars, rdVars
  <2>4. CASE UNCHANGED vars
    BY <2>4
       DEF TypeOK, StageInRange, vars, outerVars, stageVars, goVars,
           chVars, rdVars, inVars
  <2> QED BY <2>1, <2>2, <2>3, <2>4, NextCases
<1> QED BY <1>1, <1>2, PTL DEF Spec
-----------------------------------------------------------------------------
\* How many events the goroutine can have written, by where it is: three per
\* finished stage, at most two for a failing one before its error report.
Bounded(e) ==
  LET before == 3 * (stage[e] - 1)
      n == Len(events[e])
  IN  /\ pc[e] \in {"idle", "stage", "create", "start", "send", "recv", "gate",
                    "emitCompleted"} => ~failed[e]
      /\ pc[e] = "idle" => n = 0
      /\ pc[e] = "stage" => n <= before
      /\ pc[e] \in {"create", "start", "send", "recv", "gate"} => n <= before + 1
      /\ pc[e] = "emitCompleted" => n <= before + 2
      /\ pc[e] \in {"stop", "destroy"} =>
           n <= before + 3 /\ (failed[e] => n <= before + 2)
      /\ pc[e] = "emitFailed" => stage[e] <= NumStages /\ n <= before + 2
      /\ pc[e] = "emitDone" => stage[e] <= NumStages /\ n <= before + 3

\* What exists by where the goroutine is, while nothing has been cancelled; and
\* that the end is announced after everything else.
Clean(e) ==
  /\ ~ctxDone[e] =>
       /\ pc[e] \in PCs \ (InStage \ {"create"}) =>
            sandboxes[e] = {} /\ drivers[e] = {}
       /\ pc[e] \in {"start", "destroy"} =>
            sandboxes[e] = {stage[e]} /\ drivers[e] = {}
       /\ pc[e] \in {"send", "recv", "gate", "emitCompleted", "stop"} =>
            sandboxes[e] = {stage[e]} /\ drivers[e] = {stage[e]}
  /\ Ended(e) => pc[e] \in {"unregister", "close", "done"}

\* A step of one execution leaves the others' goroutines and channels alone:
\* nothing but o.mu's maps is shared (simple_orchestrator.go:35-37).
LEMMA OthersUnchanged ==
  ASSUME TypeOK, NEW e \in Execs, ExecStep(e), NEW d \in Execs, d # e
  PROVE  /\ pc'[d] = pc[d] /\ stage'[d] = stage[d] /\ failed'[d] = failed[d]
         /\ events'[d] = events[d] /\ ctxDone'[d] = ctxDone[d]
         /\ sandboxes'[d] = sandboxes[d] /\ drivers'[d] = drivers[d]
         /\ last'[d] = last[d] /\ closed'[d] = closed[d]
         /\ seen'[d] = seen[d] /\ verdict'[d] = verdict[d]
<1> USE DEF Emit, outerVars, stageVars, goVars, chVars, rdVars, inVars, Goto,
            Fail, Send, TypeOK
<1>1. CASE Execute(e) \/ BeginStage(e) \/ FinishPlan(e)
  BY <1>1 DEF Execute, BeginStage, FinishPlan
<1>2. CASE CreateSandbox(e) \/ StartDriver(e) \/ SendPrompt(e)
  BY <1>2 DEF CreateSandbox, StartDriver, SendPrompt
<1>3. CASE RecvMessage(e) \/ RecvClosed(e) \/ RecvDone(e)
  BY <1>3 DEF RecvMessage, RecvClosed, RecvDone
<1>4. CASE GatePass(e) \/ GateFail(e) \/ EmitCompleted(e)
  BY <1>4 DEF GatePass, GateFail, EmitCompleted
<1>5. CASE StopDriver(e) \/ DestroySandbox(e)
  BY <1>5 DEF StopDriver, DestroySandbox
<1>6. CASE EmitStageFailed(e) \/ EmitExecutionFailed(e)
  BY <1>6 DEF EmitStageFailed, EmitExecutionFailed
<1>7. CASE Unregister(e) \/ CloseEvents(e) \/ Expire(e)
  BY <1>7 DEF Unregister, CloseEvents, Expire
<1>8. CASE Cancel(e) \/ CancelWorkstream(e)
  BY <1>8 DEF Cancel, CancelWorkstream, CancelCtx
<1>9. CASE ReadEvent(e) \/ EndOfEvents(e) \/ SubmitLookup(e)
  BY <1>9 DEF ReadEvent, EndOfEvents, SubmitLookup
<1> HIDE DEF Emit, outerVars, stageVars, goVars, chVars, rdVars, inVars, Goto,
             Fail, Send, TypeOK
<1> QED BY <1>1, <1>2, <1>3, <1>4, <1>5, <1>6, <1>7, <1>8, <1>9, Zenon
           DEF ExecStep, GoStep, ReadStep

-----------------------------------------------------------------------------
\* The bound of the buffer through every step of the goroutine and its reader.
LEMMA BoundedStep ==
  ASSUME TypeOK, StageInRange, NEW e \in Execs, Bounded(e), ExecStep(e)
  PROVE  Bounded(e)'
<1> USE OrchestratorAssumption
<1> USE DEF Emit, outerVars, stageVars, goVars, chVars, rdVars, inVars, Goto,
            Fail, Send
<1>1. /\ stage[e] \in Nat /\ stage[e] >= 1
      /\ pc[e] \in InStage => stage[e] <= NumStages
      /\ pc[e] = "idle" => stage[e] = 1
      /\ failed[e] \in BOOLEAN
  BY DEF TypeOK, StageInRange
<1>2. /\ Len(events[e]) \in Nat
      /\ \A x \in EventKinds : Len(Append(events[e], x)) = Len(events[e]) + 1
      /\ events[e] # <<>> => Len(Tail(events[e])) = Len(events[e]) - 1
  BY BufferSteps DEF TypeOK
<1>3. /\ pc \in [Execs -> PCs] /\ DOMAIN stage = Execs
      /\ DOMAIN failed = Execs /\ DOMAIN events = Execs
  BY DEF TypeOK
<1>4. CASE Execute(e)
  BY <1>1, <1>2, <1>3, <1>4 DEF Execute, Bounded
<1>5. CASE BeginStage(e) \/ FinishPlan(e)
  BY <1>1, <1>2, <1>3, <1>5 DEF BeginStage, FinishPlan, Bounded, EventKinds
<1>6. CASE CreateSandbox(e) \/ StartDriver(e) \/ SendPrompt(e)
  BY <1>1, <1>2, <1>3, <1>6
     DEF CreateSandbox, StartDriver, SendPrompt, Bounded, InStage
<1>7. CASE RecvMessage(e) \/ RecvClosed(e) \/ RecvDone(e)
  BY <1>1, <1>2, <1>3, <1>7 DEF RecvMessage, RecvClosed, RecvDone, Bounded
<1>8. CASE GatePass(e) \/ GateFail(e) \/ EmitCompleted(e)
  <2>1. CASE GatePass(e)
    BY <1>1, <1>2, <1>3, <2>1 DEF GatePass, Bounded, EventKinds
  <2>2. CASE GateFail(e)
    <3>1. /\ pc'[e] = "stop" /\ failed'[e] = TRUE /\ stage'[e] = stage[e]
          /\ Len(events'[e]) = Len(events[e]) + 1
      BY <1>2, <1>3, <2>2 DEF GateFail, EventKinds
    <3>2. Len(events[e]) <= 3 * (stage[e] - 1) + 1
      BY <2>2 DEF GateFail, Bounded
    <3> QED BY <1>1, <1>2, <3>1, <3>2 DEF Bounded
  <2>3. CASE EmitCompleted(e)
    BY <1>1, <1>2, <1>3, <2>3 DEF EmitCompleted, Bounded, EventKinds
  <2> QED BY <1>8, <2>1, <2>2, <2>3
<1>9. CASE StopDriver(e)
  BY <1>1, <1>2, <1>3, <1>9 DEF StopDriver, Bounded
<1>10. CASE DestroySandbox(e)
  BY <1>1, <1>2, <1>3, <1>10 DEF DestroySandbox, Bounded, InStage
<1>11. CASE EmitStageFailed(e) \/ EmitExecutionFailed(e)
  BY <1>1, <1>2, <1>3, <1>11
     DEF EmitStageFailed, EmitExecutionFailed, Bounded, EventKinds
<1>12. CASE Unregister(e) \/ CloseEvents(e) \/ Expire(e)
  BY <1>1, <1>2, <1>3, <1>12 DEF Unregister, CloseEvents, Expire, Bounded
<1>13. CASE Cancel(e) \/ CancelWorkstream(e) \/ EndOfEvents(e) \/ SubmitLookup(e)
  BY <1>13 DEF Cancel, CancelWorkstream, CancelCtx, EndOfEvents, SubmitLookup,
               Bounded
<1>14. CASE ReadEvent(e)
  BY <1>1, <1>2, <1>3, <1>14 DEF ReadEvent, Bounded
<1> HIDE DEF Emit, outerVars, stageVars, goVars, chVars, rdVars, inVars, Goto,
             Fail, Send
<1> QED BY <1>4, <1>5, <1>6, <1>7, <1>8, <1>9, <1>10, <1>11, <1>12, <1>13,
           <1>14, Zenon DEF ExecStep, GoStep, ReadStep

\* No send to the event channel ever blocks (simple_orchestrator.go:61): the
\* goroutine ends whether or not anybody reads what it writes.
THEOREM SendNeverBlocksCorrect == Spec => []SendNeverBlocks
<1> USE OrchestratorAssumption
<1> DEFINE Inv == \A e \in Execs : Bounded(e)
<1>1. Init => Inv
  BY EmptySeq DEF Init, Bounded
<1>2. TypeOK /\ StageInRange /\ Inv /\ [Next]_vars => Inv'
  <2> SUFFICES ASSUME TypeOK, StageInRange, Inv, [Next]_vars, NEW d \in Execs
               PROVE  Bounded(d)'
    OBVIOUS
  <2>1. ASSUME NEW e \in Execs, ExecStep(e) PROVE Bounded(d)'
    <3>1. CASE d = e
      BY <2>1, <3>1, BoundedStep
    <3>2. CASE d # e
      BY <2>1, <3>2, OthersUnchanged DEF Bounded
    <3> QED BY <3>1, <3>2
  <2>2. CASE SubmitSend \/ SubmitAbort \/ Shutdown
    BY <2>2
       DEF SubmitSend, SubmitAbort, Shutdown, Bounded, outerVars,
           stageVars, goVars, chVars
  <2>3. CASE UNCHANGED vars
    BY <2>3 DEF vars, outerVars, stageVars, goVars, chVars, Bounded
  <2> QED BY <2>1, <2>2, <2>3, NextCases
<1>3. TypeOK /\ StageInRange /\ Inv => SendNeverBlocks
  <2> SUFFICES ASSUME TypeOK, StageInRange, Inv,
                      NEW e \in Execs, pc[e] \in Sending
               PROVE  Len(events[e]) < Capacity
    BY DEF SendNeverBlocks
  <2>1. /\ stage[e] \in 1..(NumStages + 1) /\ Len(events[e]) \in Nat
        /\ pc[e] \in InStage => stage[e] <= NumStages
    BY BufferSteps DEF TypeOK, StageInRange
  <2> QED BY SMTT(30), <2>1 DEF Bounded, Sending, InStage, Capacity
<1> QED BY <1>1, <1>2, <1>3, OrchestratorTypeCorrect, PTL DEF Spec
-----------------------------------------------------------------------------
\* An event is in the buffer after Append or Tail only if it was there before
\* or has just been written; Head takes one that was there.
LEMMA DoneEvents ==
  ASSUME NEW S, NEW D, NEW q \in Seq(S)
  PROVE  /\ \A x \in S : (\E i \in DOMAIN Append(q, x) : Append(q, x)[i] \in D)
                          => x \in D \/ (\E i \in DOMAIN q : q[i] \in D)
         /\ q # <<>> =>
              /\ (\E i \in DOMAIN Tail(q) : Tail(q)[i] \in D)
                   => \E i \in DOMAIN q : q[i] \in D
              /\ Head(q) \in D => \E i \in DOMAIN q : q[i] \in D
<1>1. DOMAIN q = 1..Len(q) /\ Len(q) \in Nat
  BY LenProperties
<1>2. ASSUME NEW x \in S, NEW i \in DOMAIN Append(q, x), Append(q, x)[i] \in D
      PROVE  x \in D \/ (\E j \in DOMAIN q : q[j] \in D)
  <2>1. /\ DOMAIN Append(q, x) = 1..(Len(q) + 1)
        /\ \A j \in 1..Len(q) : Append(q, x)[j] = q[j]
        /\ Append(q, x)[Len(q) + 1] = x
    BY AppendProperties, LenProperties
  <2> QED BY <1>1, <1>2, <2>1
<1>3. ASSUME q # <<>>
      PROVE  /\ 1 \in DOMAIN q /\ Head(q) = q[1]
             /\ \A i \in DOMAIN Tail(q) : i + 1 \in DOMAIN q /\ Tail(q)[i] = q[i + 1]
  <2>1. /\ Len(q) \in Nat \ {0} /\ DOMAIN Tail(q) = 1..(Len(q) - 1)
        /\ \A i \in 1..(Len(q) - 1) : Tail(q)[i] = q[i + 1]
        /\ Head(q) = q[1]
    BY <1>3, HeadTailProperties, LenProperties, EmptySeq
  <2> QED BY <1>1, <2>1
<1> QED BY <1>2, <1>3

\* One step of an execution keeps Clean: the deferred Stop and Destroy run, in
\* that order, on every way out of executeStage once the two exist.
LEMMA CleanStep ==
  ASSUME TypeOK, StageInRange, NEW e \in Execs, Clean(e), ExecStep(e)
  PROVE  Clean(e)'
<1> USE DEF Emit, outerVars, stageVars, goVars, chVars, rdVars, inVars, Goto,
            Fail, Send
<1>1. /\ pc \in [Execs -> PCs] /\ DOMAIN sandboxes = Execs
      /\ DOMAIN drivers = Execs /\ DOMAIN stage = Execs
      /\ ctxDone \in [Execs -> BOOLEAN] /\ DOMAIN last = Execs
      /\ DOMAIN events = Execs
  BY DEF TypeOK
<1>2. events[e] \in Seq(EventKinds)
  BY DEF TypeOK
<1>3. ASSUME NEW x \in EventKinds, Send(e, x), UNCHANGED last
      PROVE  Ended(e)' => Ended(e) \/ x \in DoneKinds
  BY <1>1, <1>2, <1>3, DoneEvents DEF Ended
<1>4. ASSUME UNCHANGED <<events, last>> PROVE Ended(e)' <=> Ended(e)
  BY <1>4 DEF Ended
<1>5. CASE Execute(e)
  BY <1>1, <1>4, <1>5 DEF Execute, Clean, InStage, PCs
<1>6. CASE BeginStage(e)
  BY <1>1, <1>3, <1>6 DEF BeginStage, Clean, InStage, PCs, EventKinds, DoneKinds
<1>7. CASE FinishPlan(e)
  BY <1>1, <1>3, <1>7 DEF FinishPlan, Clean, InStage, PCs, EventKinds
<1>8. CASE CreateSandbox(e)
  BY <1>1, <1>4, <1>8 DEF CreateSandbox, Clean, InStage, PCs
<1>9. CASE StartDriver(e)
  BY <1>1, <1>4, <1>9 DEF StartDriver, Clean, InStage, PCs
<1>10. CASE SendPrompt(e)
  BY <1>1, <1>4, <1>10 DEF SendPrompt, Clean, InStage, PCs
<1>11. CASE RecvMessage(e) \/ RecvClosed(e) \/ RecvDone(e)
  BY <1>1, <1>4, <1>11 DEF RecvMessage, RecvClosed, RecvDone, Clean, InStage, PCs
<1>12. CASE GatePass(e)
  BY <1>1, <1>3, <1>12 DEF GatePass, Clean, InStage, PCs, EventKinds, DoneKinds
<1>13. CASE GateFail(e)
  BY <1>1, <1>3, <1>13 DEF GateFail, Clean, InStage, PCs, EventKinds, DoneKinds
<1>14. CASE EmitCompleted(e)
  BY <1>1, <1>3, <1>14 DEF EmitCompleted, Clean, InStage, PCs, EventKinds, DoneKinds
<1>15. CASE StopDriver(e)
  BY <1>1, <1>4, <1>15 DEF StopDriver, Clean, InStage, PCs
<1>16. CASE DestroySandbox(e)
  BY <1>1, <1>4, <1>16 DEF DestroySandbox, Clean, InStage, PCs
<1>17. CASE EmitStageFailed(e)
  BY <1>1, <1>3, <1>17
     DEF EmitStageFailed, Clean, InStage, PCs, EventKinds, DoneKinds
<1>18. CASE EmitExecutionFailed(e)
  BY <1>1, <1>3, <1>18 DEF EmitExecutionFailed, Clean, InStage, PCs, EventKinds
<1>19. CASE Unregister(e) \/ CloseEvents(e) \/ Expire(e)
  BY <1>1, <1>4, <1>19 DEF Unregister, CloseEvents, Expire, Clean, InStage, PCs
<1>20. CASE Cancel(e) \/ CancelWorkstream(e)
  BY <1>1, <1>4, <1>20 DEF Cancel, CancelWorkstream, CancelCtx, Clean
<1>21. CASE EndOfEvents(e) \/ SubmitLookup(e)
  BY <1>1, <1>4, <1>21 DEF EndOfEvents, SubmitLookup, Clean
<1>22. CASE ReadEvent(e)
  <2>1. Ended(e)' => Ended(e)
    BY <1>1, <1>2, <1>22, DoneEvents DEF ReadEvent, Ended
  <2> QED BY <2>1, <1>22 DEF ReadEvent, Clean
<1> HIDE DEF Emit, outerVars, stageVars, goVars, chVars, rdVars, inVars, Goto,
             Fail, Send
<1> QED BY <1>5, <1>6, <1>7, <1>8, <1>9, <1>10, <1>11, <1>12, <1>13, <1>14,
           <1>15, <1>16, <1>17, <1>18, <1>19, <1>20, <1>21, <1>22, Zenon
           DEF ExecStep, GoStep, ReadStep

\* Whoever reads the end of a plan that was not cancelled finds its sandboxes
\* destroyed and its drivers stopped (simple_orchestrator.go:79-86, 110-120).
THEOREM CleanCorrect == Spec => []CleanUnlessCancelled
<1> DEFINE Inv == \A e \in Execs : Clean(e)
<1>1. Init => Inv
  BY EmptySeq DEF Init, Clean, Ended, DoneKinds, InStage
<1>2. TypeOK /\ StageInRange /\ Inv /\ [Next]_vars => Inv'
  <2> SUFFICES ASSUME TypeOK, StageInRange, Inv, [Next]_vars, NEW d \in Execs
               PROVE  Clean(d)'
    OBVIOUS
  <2>1. ASSUME NEW e \in Execs, ExecStep(e) PROVE Clean(d)'
    <3>1. CASE d = e
      BY <2>1, <3>1, CleanStep
    <3>2. CASE d # e
      BY <2>1, <3>2, OthersUnchanged DEF Clean, Ended
    <3> QED BY <3>1, <3>2
  <2>2. CASE SubmitSend \/ SubmitAbort
    BY <2>2
       DEF SubmitSend, SubmitAbort, Clean, Ended, outerVars, stageVars,
           goVars, chVars, rdVars
  <2>3. CASE Shutdown
    BY <2>3 DEF Shutdown, Clean, Ended, outerVars, stageVars, goVars, chVars, rdVars
  <2>4. CASE UNCHANGED vars
    BY <2>4 DEF vars, outerVars, stageVars, goVars, chVars, rdVars, Clean, Ended
  <2> QED BY <2>1, <2>2, <2>3, <2>4, NextCases
<1>3. TypeOK /\ Inv => CleanUnlessCancelled
  <2> SUFFICES ASSUME TypeOK, Inv, NEW e \in Execs, ~ctxDone[e]
               PROVE  /\ Ended(e) => sandboxes[e] = {}
                      /\ sandboxes[e] \subseteq {stage[e]}
                      /\ drivers[e] \subseteq sandboxes[e]
    BY DEF CleanUnlessCancelled
  <2>1. pc[e] \in PCs
    BY DEF TypeOK
  <2> QED BY <2>1 DEF Clean, InStage, PCs
<1> QED BY <1>1, <1>2, <1>3, OrchestratorTypeCorrect, PTL DEF Spec
-----------------------------------------------------------------------------
\* What the reader has still to hear of gates that passed.
Passes(q) == {i \in DOMAIN q : q[i] = "gatePassed"}

\* Gates whose pass has been written to the channel.
GatesWritten(e) ==
  IF pc[e] = "emitCompleted" \/ (pc[e] \in {"stop", "destroy"} /\ ~failed[e])
  THEN stage[e] ELSE stage[e] - 1

EndKind(e) == IF failed[e] THEN "doneFailed" ELSE "doneSuccess"

\* What has been read and what waits make up what was written, and the last
\* event of an execution, read or not, says whether its stages are through.
Told(e) ==
  /\ seen[e] + Cardinality(Passes(events[e])) = GatesWritten(e)
  /\ pc[e] \in {"idle", "stage", "create", "start", "send", "recv", "gate",
                "emitCompleted"} => ~failed[e]
  /\ pc[e] \in {"emitFailed", "emitDone"} => failed[e] /\ stage[e] <= NumStages
  /\ pc[e] \in {"unregister", "close", "done"} =>
       /\ failed[e] <=> stage[e] <= NumStages
       /\ events[e] = <<>> => last[e] = EndKind(e)
       /\ events[e] # <<>> => events[e][Len(events[e])] = EndKind(e)
  /\ closed[e] => pc[e] = "done"
  /\ verdict[e] # "none" => closed[e] /\ events[e] = <<>>

\* One more event in the channel, or one less, changes the passes that wait by
\* that event alone.
LEMMA PassesSteps ==
  ASSUME NEW S, NEW q \in Seq(S)
  PROVE  /\ Cardinality(Passes(q)) \in Nat
         /\ \A x \in S :
              Cardinality(Passes(Append(q, x))) =
                Cardinality(Passes(q)) + (IF x = "gatePassed" THEN 1 ELSE 0)
         /\ q # <<>> =>
              Cardinality(Passes(q)) =
                Cardinality(Passes(Tail(q))) + (IF Head(q) = "gatePassed" THEN 1 ELSE 0)
<1>1. ASSUME NEW r \in Seq(S)
      PROVE  /\ Passes(r) \subseteq 1..Len(r)
             /\ IsFiniteSet(Passes(r)) /\ Cardinality(Passes(r)) \in Nat
  <2>1. DOMAIN r = 1..Len(r) /\ Len(r) \in Nat
    BY LenProperties
  <2>2. IsFiniteSet(1..Len(r))
    BY <2>1, FS_Interval
  <2>3. Passes(r) \in SUBSET (1..Len(r))
    BY <2>1 DEF Passes
  <2> QED BY <2>2, <2>3, FS_Subset, FS_CardinalityType
<1>2. ASSUME NEW x \in S
      PROVE  Cardinality(Passes(Append(q, x))) =
               Cardinality(Passes(q)) + (IF x = "gatePassed" THEN 1 ELSE 0)
  <2>1. /\ Append(q, x) \in Seq(S) /\ DOMAIN Append(q, x) = 1..(Len(q) + 1)
        /\ Append(q, x)[Len(q) + 1] = x
        /\ \A i \in 1..Len(q) : Append(q, x)[i] = q[i]
        /\ DOMAIN q = 1..Len(q) /\ Len(q) \in Nat
    BY AppendProperties, LenProperties
  <2>2. CASE x = "gatePassed"
    <3>1. Passes(Append(q, x)) = Passes(q) \cup {Len(q) + 1}
      BY <2>1, <2>2 DEF Passes
    <3>2. Len(q) + 1 \notin Passes(q)
      BY <2>1 DEF Passes
    <3> QED BY <1>1, <2>2, <3>1, <3>2, FS_AddElement
  <2>3. CASE x # "gatePassed"
    <3>1. Passes(Append(q, x)) = Passes(q)
      BY <2>1, <2>3 DEF Passes
    <3> QED BY <1>1, <2>3, <3>1
  <2> QED BY <2>2, <2>3
<1>3. ASSUME q # <<>>
      PROVE  Cardinality(Passes(q)) =
               Cardinality(Passes(Tail(q))) + (IF Head(q) = "gatePassed" THEN 1 ELSE 0)
  <2>1. /\ Tail(q) \in Seq(S) /\ Len(q) \in Nat \ {0} /\ DOMAIN q = 1..Len(q)
        /\ DOMAIN Tail(q) = 1..(Len(q) - 1) /\ Head(q) = q[1]
        /\ \A i \in 1..(Len(q) - 1) : Tail(q)[i] = q[i + 1]
    BY <1>3, HeadTailProperties, LenProperties, EmptySeq
  <2>2. Cardinality(Passes(Tail(q))) = Cardinality(Passes(q) \ {1})
    <3> DEFINE f == [i \in Passes(Tail(q)) |-> i + 1]
    <3>1. f \in Bijection(Passes(Tail(q)), Passes(q) \ {1})
      <4>1. \A i \in Passes(Tail(q)) : i + 1 \in Passes(q) \ {1}
        BY <2>1 DEF Passes
      <4>2. \A j \in Passes(q) \ {1} : j - 1 \in Passes(Tail(q)) /\ (j - 1) + 1 = j
        BY <2>1 DEF Passes
      <4>3. \A i, j \in Passes(Tail(q)) : f[i] = f[j] => i = j
        BY <2>1 DEF Passes
      <4>4. f \in [Passes(Tail(q)) -> Passes(q) \ {1}] /\ IsInjective(f)
        BY <4>1, <4>3 DEF IsInjective
      <4>5. \A j \in Passes(q) \ {1} : \E i \in Passes(Tail(q)) : f[i] = j
        BY <4>2
      <4> QED BY <4>4, <4>5 DEF Bijection, Injection, Surjection
    <3> QED BY <1>1, <2>1, <3>1, FS_Bijection DEF ExistsBijection
  <2>3. 1 \in Passes(q) <=> Head(q) = "gatePassed"
    BY <2>1 DEF Passes
  <2>4. Cardinality(Passes(q) \ {1}) =
          IF 1 \in Passes(q) THEN Cardinality(Passes(q)) - 1 ELSE Cardinality(Passes(q))
    BY <1>1, FS_RemoveElement
  <2>5. Cardinality(Passes(q)) \in Nat /\ Cardinality(Passes(Tail(q))) \in Nat
    BY <1>1, <2>1
  <2> QED BY <2>2, <2>3, <2>4, <2>5
<1> QED BY <1>1, <1>2, <1>3

\* An empty buffer holds no gate that has passed.
LEMMA NoPasses == Cardinality(Passes(<<>>)) = 0
<1>1. Passes(<<>>) = {}
  BY DEF Passes
<1> QED BY <1>1, FS_EmptySet

\* One step of an execution or of its reader keeps Told.
LEMMA ToldStep ==
  ASSUME TypeOK, StageInRange, NEW e \in Execs, Told(e), ExecStep(e)
  PROVE  Told(e)'
<1> USE OrchestratorAssumption
<1> USE DEF Emit, outerVars, stageVars, goVars, chVars, rdVars, inVars, Goto,
            Fail, Send
<1>1. /\ pc \in [Execs -> PCs] /\ failed \in [Execs -> BOOLEAN]
      /\ closed \in [Execs -> BOOLEAN]
      /\ DOMAIN stage = Execs /\ DOMAIN events = Execs /\ DOMAIN last = Execs
      /\ DOMAIN seen = Execs /\ DOMAIN verdict = Execs
  BY DEF TypeOK
<1>2. /\ stage[e] \in 1..(NumStages + 1) /\ seen[e] \in Nat
      /\ pc[e] \in InStage => stage[e] <= NumStages
      /\ pc[e] = "idle" => stage[e] = 1
      /\ failed[e] \in BOOLEAN
  BY DEF TypeOK, StageInRange
<1>3. /\ events[e] \in Seq(EventKinds) /\ Cardinality(Passes(events[e])) \in Nat
      /\ \A x \in EventKinds :
           /\ Cardinality(Passes(Append(events[e], x))) =
                Cardinality(Passes(events[e])) + (IF x = "gatePassed" THEN 1 ELSE 0)
           /\ Append(events[e], x) # <<>>
           /\ Append(events[e], x)[Len(Append(events[e], x))] = x
      /\ events[e] # <<>> =>
           Cardinality(Passes(events[e])) =
             Cardinality(Passes(Tail(events[e])))
               + (IF Head(events[e]) = "gatePassed" THEN 1 ELSE 0)
  <2>1. events[e] \in Seq(EventKinds)
    BY DEF TypeOK
  <2>2. \A x \in EventKinds : /\ Append(events[e], x) # <<>>
                              /\ Append(events[e], x)[Len(Append(events[e], x))] = x
    BY <2>1, AppendProperties
  <2> QED BY <2>1, <2>2, PassesSteps
<1>4. CASE Execute(e)
  BY <1>1, <1>2, <1>4 DEF Execute, Told, GatesWritten
<1>5. CASE BeginStage(e)
  BY <1>1, <1>2, <1>3, <1>5 DEF BeginStage, Told, GatesWritten, EventKinds
<1>6. CASE FinishPlan(e)
  BY <1>1, <1>2, <1>3, <1>6 DEF FinishPlan, Told, GatesWritten, EventKinds, EndKind
<1>7. CASE CreateSandbox(e) \/ StartDriver(e) \/ SendPrompt(e)
  BY <1>1, <1>2, <1>7
     DEF CreateSandbox, StartDriver, SendPrompt, Told, GatesWritten, InStage
<1>8. CASE RecvMessage(e) \/ RecvClosed(e) \/ RecvDone(e)
  BY <1>1, <1>2, <1>8 DEF RecvMessage, RecvClosed, RecvDone, Told, GatesWritten, InStage
<1>9. CASE GatePass(e)
  BY <1>1, <1>2, <1>3, <1>9 DEF GatePass, Told, GatesWritten, EventKinds
<1>10. CASE GateFail(e)
  BY <1>1, <1>2, <1>3, <1>10 DEF GateFail, Told, GatesWritten, EventKinds
<1>11. CASE EmitCompleted(e)
  BY <1>1, <1>2, <1>3, <1>11 DEF EmitCompleted, Told, GatesWritten, EventKinds
<1>12. CASE StopDriver(e)
  BY <1>1, <1>2, <1>12 DEF StopDriver, Told, GatesWritten
<1>13. CASE DestroySandbox(e)
  <2>1. /\ pc[e] = "destroy" /\ UNCHANGED <<failed, events, closed, seen, last, verdict>>
        /\ stage[e] \in Nat
    BY <1>2, <1>13 DEF DestroySandbox
  <2>2. CASE failed[e]
    <3>1. pc'[e] = "emitFailed" /\ stage'[e] = stage[e]
      BY <1>1, <1>13, <2>2 DEF DestroySandbox
    <3>2. GatesWritten(e)' = GatesWritten(e)
      BY <2>1, <2>2, <3>1 DEF GatesWritten
    <3>3. stage[e] <= NumStages
      BY <1>2, <2>1 DEF InStage
    <3> QED BY <2>1, <2>2, <3>1, <3>2, <3>3 DEF Told
  <2>3. CASE ~failed[e]
    <3>1. pc'[e] = "stage" /\ stage'[e] = stage[e] + 1
      BY <1>1, <1>13, <2>3 DEF DestroySandbox
    <3>2. GatesWritten(e)' = GatesWritten(e)
      BY <2>1, <2>3, <3>1 DEF GatesWritten
    <3> QED BY <1>2, <2>1, <2>3, <3>1, <3>2 DEF Told
  <2> QED BY <2>2, <2>3
<1>14. CASE EmitStageFailed(e)
  BY <1>1, <1>2, <1>3, <1>14 DEF EmitStageFailed, Told, GatesWritten, EventKinds
<1>15. CASE EmitExecutionFailed(e)
  BY <1>1, <1>2, <1>3, <1>15 DEF EmitExecutionFailed, Told, GatesWritten, EventKinds, EndKind
<1>16. CASE Unregister(e) \/ CloseEvents(e) \/ Expire(e)
  BY <1>1, <1>2, <1>16 DEF Unregister, CloseEvents, Expire, Told, GatesWritten, EndKind
<1>17. CASE Cancel(e) \/ CancelWorkstream(e) \/ SubmitLookup(e)
  BY <1>17 DEF Cancel, CancelWorkstream, CancelCtx, SubmitLookup, Told, GatesWritten, EndKind
<1>18. CASE EndOfEvents(e)
  BY <1>1, <1>18 DEF EndOfEvents, Told, GatesWritten, EndKind
<1>19. CASE ReadEvent(e)
  <2>1. /\ events[e] # <<>> /\ events'[e] = Tail(events[e])
        /\ last'[e] = Head(events[e]) /\ verdict[e] = "none"
        /\ seen'[e] = seen[e] + (IF Head(events[e]) = "gatePassed" THEN 1 ELSE 0)
        /\ UNCHANGED <<pc, stage, failed, closed, verdict>>
    BY <1>1, <1>2, <1>19 DEF ReadEvent, Told
  <2>2. /\ Tail(events[e]) = <<>> => Head(events[e]) = events[e][Len(events[e])]
        /\ Tail(events[e]) # <<>> =>
             Tail(events[e])[Len(Tail(events[e]))] = events[e][Len(events[e])]
    <3>1. /\ Tail(events[e]) \in Seq(EventKinds) /\ Len(Tail(events[e])) = Len(events[e]) - 1
          /\ Len(events[e]) \in Nat \ {0} /\ Head(events[e]) = events[e][1]
          /\ \A i \in 1..Len(Tail(events[e])) : Tail(events[e])[i] = events[e][i + 1]
      BY <1>3, <2>1, HeadTailProperties, EmptySeq
    <3>2. Tail(events[e]) = <<>> => Len(events[e]) = 1
      <4>1. ASSUME Tail(events[e]) = <<>> PROVE Len(Tail(events[e])) = 0
        BY <4>1, EmptySeq
      <4> QED BY <3>1, <4>1
    <3>3. Tail(events[e]) # <<>> => Len(Tail(events[e])) \in 1..Len(Tail(events[e]))
      BY <3>1, EmptySeq
    <3> QED BY <3>1, <3>2, <3>3
  <2>3. Cardinality(Passes(events[e])) \in Nat /\ Cardinality(Passes(Tail(events[e]))) \in Nat
    BY <1>3, <2>1, HeadTailProperties, PassesSteps
  <2>4. seen'[e] + Cardinality(Passes(events'[e])) = GatesWritten(e)'
    BY <1>2, <1>3, <2>1, <2>3 DEF Told, GatesWritten
  <2> QED BY <2>1, <2>2, <2>4 DEF Told, EndKind
<1> HIDE DEF Emit, outerVars, stageVars, goVars, chVars, rdVars, inVars, Goto,
             Fail, Send
<1> QED BY <1>4, <1>5, <1>6, <1>7, <1>8, <1>9, <1>10, <1>11, <1>12, <1>13, <1>14,
           <1>15, <1>16, <1>17, <1>18, <1>19, Zenon DEF ExecStep, GoStep, ReadStep

\* A step of an execution or of its reader is a step of the work plan, or none.
LEMMA OutcomeStep ==
  ASSUME TypeOK, StageInRange, NEW e \in Execs, Told(e), ExecStep(e)
  PROVE  Outcome!PassGate(e) \/ Outcome!Conclude(e) \/ UNCHANGED <<seen, verdict>>
<1> USE OrchestratorAssumption
<1>1. /\ stage[e] \in 1..(NumStages + 1) /\ seen[e] \in Nat
      /\ pc[e] \in InStage => stage[e] <= NumStages
  BY DEF TypeOK, StageInRange
<1>2. CASE ReadEvent(e)
  <2>1. CASE Head(events[e]) # "gatePassed"
    BY <1>2, <2>1 DEF ReadEvent
  <2>2. CASE Head(events[e]) = "gatePassed"
    <3>1. events[e] # <<>> /\ events[e] \in Seq(EventKinds)
      BY <1>2 DEF ReadEvent, TypeOK
    <3>2. Cardinality(Passes(events[e])) = Cardinality(Passes(Tail(events[e]))) + 1
      BY <2>2, <3>1, PassesSteps
    <3>3. Cardinality(Passes(Tail(events[e]))) \in Nat
      BY <3>1, HeadTailProperties, PassesSteps
    <3>4. GatesWritten(e) <= NumStages
      BY <1>1 DEF GatesWritten, InStage
    <3>5. seen[e] < NumStages
      BY <1>1, <3>2, <3>3, <3>4 DEF Told
    <3> QED BY <1>2, <2>2, <3>1, <3>5 DEF ReadEvent, Told, Outcome!PassGate
  <2> QED BY <2>1, <2>2
<1>3. CASE EndOfEvents(e)
  <2>1. /\ closed[e] /\ events[e] = <<>> /\ verdict[e] = "none" /\ seen' = seen
        /\ verdict' = [verdict EXCEPT ![e] = IF last[e] = "doneSuccess"
                                             THEN "success" ELSE "failure"]
    BY <1>3 DEF EndOfEvents
  <2>2. pc[e] = "done" /\ last[e] = EndKind(e) /\ (failed[e] <=> stage[e] <= NumStages)
    BY <2>1 DEF Told
  <2>3. seen[e] = stage[e] - 1
    <3>1. Cardinality(Passes(events[e])) = 0
      BY <2>1, NoPasses
    <3>2. GatesWritten(e) = stage[e] - 1
      BY <2>2 DEF GatesWritten
    <3>3. seen[e] + Cardinality(Passes(events[e])) = GatesWritten(e)
      BY DEF Told
    <3> QED BY <1>1, <3>1, <3>2, <3>3
  <2>4. last[e] = "doneSuccess" <=> seen[e] = NumStages
    BY <1>1, <2>2, <2>3 DEF EndKind
  <2> QED BY <2>1, <2>4 DEF Outcome!Conclude
<1>4. CASE ~ReadStep(e)
  <2> USE DEF Emit, outerVars, stageVars, goVars, chVars, rdVars, inVars
  <2>1. CASE Execute(e) \/ RecvMessage(e) \/ RecvClosed(e) \/ Expire(e)
    BY <2>1 DEF Execute, RecvMessage, RecvClosed, Expire
  <2>2. CASE Cancel(e) \/ CancelWorkstream(e) \/ SubmitLookup(e)
    BY <2>2 DEF Cancel, CancelWorkstream, CancelCtx, SubmitLookup
  <2>3. CASE GoStep(e)
    BY <2>3 DEF GoStep, BeginStage, FinishPlan, CreateSandbox, StartDriver,
                SendPrompt, RecvDone, GatePass, GateFail, EmitCompleted, StopDriver,
                DestroySandbox, EmitStageFailed, EmitExecutionFailed, Unregister,
                CloseEvents
  <2> QED BY <1>4, <2>1, <2>2, <2>3, Zenon DEF ExecStep
<1> QED BY <1>2, <1>3, <1>4 DEF ReadStep

\* The orchestrator and its reader keep the promise of a work plan: gates pass
\* one by one and the reader concludes "success" exactly when all have, for plans
\* of every length and whatever fails or is cancelled
\* (simple_orchestrator.go:79-86, 159-176, broker.go:183-218).
THEOREM OutcomeCorrect == Spec => OutcomeSpec
<1> DEFINE Inv == \A e \in Execs : Told(e)
<1>1. Init => Inv
  <2> SUFFICES ASSUME Init, NEW e \in Execs PROVE Told(e)
    OBVIOUS
  <2>1. /\ pc[e] = "idle" /\ stage[e] = 1 /\ failed[e] = FALSE /\ events[e] = <<>>
        /\ closed[e] = FALSE /\ seen[e] = 0 /\ last[e] = "none" /\ verdict[e] = "none"
    BY DEF Init
  <2>2. Cardinality(Passes(events[e])) = 0
    BY <2>1, NoPasses
  <2>3. GatesWritten(e) = 0
    BY <2>1 DEF GatesWritten
  <2> QED BY <2>1, <2>2, <2>3 DEF Told
<1>2. TypeOK /\ StageInRange /\ Inv /\ [Next]_vars => Inv'
  <2> SUFFICES ASSUME TypeOK, StageInRange, Inv, [Next]_vars, NEW d \in Execs
               PROVE  Told(d)'
    OBVIOUS
  <2>1. ASSUME NEW e \in Execs, ExecStep(e) PROVE Told(d)'
    <3>1. CASE d = e
      BY <2>1, <3>1, ToldStep
    <3>2. CASE d # e
      BY <2>1, <3>2, OthersUnchanged DEF Told, GatesWritten, EndKind
    <3> QED BY <3>1, <3>2
  <2>2. CASE SubmitSend \/ SubmitAbort \/ Shutdown
    BY <2>2 DEF SubmitSend, SubmitAbort, Shutdown, Told, GatesWritten, EndKind,
                outerVars, stageVars, goVars, chVars, rdVars
  <2>3. CASE UNCHANGED vars
    BY <2>3 DEF vars, Told, GatesWritten, EndKind, outerVars, stageVars, goVars, chVars, rdVars
  <2> QED BY <2>1, <2>2, <2>3, NextCases
<1>3. Init => Outcome!Init
  BY DEF Init, Outcome!Init
<1>4. TypeOK /\ StageInRange /\ Inv /\ [Next]_vars => [Outcome!Next]_(Outcome!wpVars)
  <2> SUFFICES ASSUME TypeOK, StageInRange, Inv, [Next]_vars
               PROVE  [Outcome!Next]_(Outcome!wpVars)
    OBVIOUS
  <2>1. ASSUME NEW e \in Execs, ExecStep(e)
        PROVE  Outcome!Next \/ UNCHANGED <<seen, verdict>>
    BY <2>1, OutcomeStep DEF Outcome!Next
  <2>2. CASE SubmitSend \/ SubmitAbort \/ Shutdown \/ UNCHANGED vars
    BY <2>2 DEF SubmitSend, SubmitAbort, Shutdown, vars, outerVars, rdVars,
                Outcome!wpVars
  <2> QED BY <2>1, <2>2, NextCases DEF Outcome!wpVars
<1> QED BY <1>1, <1>2, <1>3, <1>4, OrchestratorTypeCorrect, PTL
        DEF Spec, OutcomeSpec, Outcome!Spec
=============================================================================
