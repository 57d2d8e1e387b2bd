---------------------------- MODULE Orchestrator ----------------------------
(***************************************************************************)
(* SimpleOrchestrator (broker/simple_orchestrator.go): one goroutine per   *)
(* execution runs the stages of its plan in order, each in a sandbox of    *)
(* its own with a driver of its own, and writes events to a buffered       *)
(* channel that HandleIntent drains.  Sandboxes, drivers and gates are     *)
(* external: each call may succeed or fail.  Submit and the broker's       *)
(* forwardPermissions loop, which calls it, are the other users.           *)
(***************************************************************************)
EXTENDS Naturals, Sequences, FiniteSets

CONSTANTS Execs,        \* executions, with distinct plan IDs
          NumStages,    \* len(plan.Stages)
          TimeBudgeted, \* stages with TimeBudget > 0
          TokenBudget,  \* per stage, 0 means no limit
          Responses,    \* bound: permission responses the operator sends
          NoExec

ASSUME OrchestratorAssumption ==
  /\ NumStages \in Nat /\ TokenBudget \in Nat /\ Responses \in Nat
  /\ TimeBudgeted \subseteq 1..NumStages
  /\ NoExec \notin Execs

VARIABLES pc,         \* where the execution's goroutine is
          stage,      \* index of the stage it is at
          failed,     \* executeStage returned an error
          sandboxes,  \* stages whose sandbox exists
          drivers,    \* stages whose driver is started and not stopped
          msgCount,   \* messages received in this stage
          expired,    \* the stage's deadline has passed
          ctxDone,    \* the execution's context is cancelled
          events,     \* the event channel's buffer
          closed,     \* the event channel is closed
          registered, \* the plan is in o.execs and o.inputs
          inputs,     \* messages in the input channel (capacity 1)
          seen,       \* gates HandleIntent has seen pass
          last,       \* HandleIntent's lastEvent
          verdict,    \* HandleIntent's conclusion after the channel's end
          fwd,        \* the execution forwardPermissions blocks on in Submit
          responses,  \* permission responses still to come
          down        \* the broker's own context is cancelled

stageVars == <<stage, failed, sandboxes, drivers, msgCount, expired>>
goVars == <<pc, stageVars>>
chVars == <<events, closed>>
rdVars == <<seen, last, verdict>>
inVars == <<registered, inputs, fwd, responses, down>>
outerVars == <<ctxDone, chVars, rdVars, inVars>>
vars == <<goVars, outerVars>>

EventKinds == {"started", "gatePassed", "completed", "gateFailed",
               "stageFailed", "doneSuccess", "doneFailed"}

PCs == {"idle", "stage", "create", "start", "send", "recv", "gate",
        "emitCompleted", "stop", "destroy", "emitFailed", "emitDone",
        "unregister", "close", "done"}

DoneKinds == {"doneSuccess", "doneFailed"}

\* The states in which the goroutine writes to the channel next.
Sending == {"stage", "gate", "emitCompleted", "emitFailed", "emitDone"}

\* Mutant of Capacity: no room for the final ExecutionDone.
CapacityWithoutEnd == 3 * NumStages

\* make(chan Event, len(plan.Stages)*3+1)
Capacity == 3 * NumStages + 1

\* Mutants of StageDone: the select watches only one of the two.
StageDoneOnTimeout(e) == expired[e]
StageDoneOnCancel(e) == ctxDone[e]

\* The stage context is done: cancelled from outside or out of time.
StageDone(e) == ctxDone[e] \/ expired[e]

\* A channel send blocks while the buffer is full.
Send(e, kind) ==
  /\ Len(events[e]) < Capacity
  /\ events' = [events EXCEPT ![e] = Append(@, kind)]
  /\ UNCHANGED closed

Goto(e, l) == pc' = [pc EXCEPT ![e] = l]

\* A statement of the goroutine that writes an event and goes on.
Emit(e, from, kind, to) ==
  /\ pc[e] = from
  /\ Send(e, kind)
  /\ Goto(e, to)
  /\ UNCHANGED <<stageVars, ctxDone, rdVars, inVars>>

Fail(e, l) ==
  /\ failed' = [failed EXCEPT ![e] = TRUE]
  /\ Goto(e, l)

-----------------------------------------------------------------------------
Init ==
  /\ pc = [e \in Execs |-> "idle"]
  /\ stage = [e \in Execs |-> 1]
  /\ failed = [e \in Execs |-> FALSE]
  /\ sandboxes = [e \in Execs |-> {}]
  /\ drivers = [e \in Execs |-> {}]
  /\ msgCount = [e \in Execs |-> 0]
  /\ expired = [e \in Execs |-> FALSE]
  /\ ctxDone = [e \in Execs |-> FALSE]
  /\ events = [e \in Execs |-> <<>>]
  /\ closed = [e \in Execs |-> FALSE]
  /\ registered = [e \in Execs |-> FALSE]
  /\ inputs = [e \in Execs |-> 0]
  /\ seen = [e \in Execs |-> 0]
  /\ last = [e \in Execs |-> "none"]
  /\ verdict = [e \in Execs |-> "none"]
  /\ fwd = NoExec
  /\ responses = Responses
  /\ down = FALSE

Execute(e) ==
  /\ pc[e] = "idle"
  /\ Goto(e, "stage")
  /\ registered' = [registered EXCEPT ![e] = TRUE]
  /\ UNCHANGED <<stageVars, ctxDone, chVars, rdVars, inputs, fwd, responses,
                 down>>

\* The stage loop: StageStarted for the next one, or the final success.
BeginStage(e) == stage[e] <= NumStages /\ Emit(e, "stage", "started", "create")
FinishPlan(e) ==
  stage[e] > NumStages /\ Emit(e, "stage", "doneSuccess", "unregister")

CreateSandbox(e) ==
  /\ pc[e] = "create"
  /\ \/ /\ sandboxes' = [sandboxes EXCEPT ![e] = @ \cup {stage[e]}]
        /\ Goto(e, "start")
        /\ UNCHANGED failed
     \/ /\ Fail(e, "emitFailed")
        /\ UNCHANGED sandboxes
  /\ UNCHANGED <<stage, drivers, msgCount, expired, outerVars>>

\* Mutant of StartDriver: when it fails, destroySandbox is not deferred yet.
StartDriverLeaks(e) ==
  /\ pc[e] = "start"
  /\ \/ /\ drivers' = [drivers EXCEPT ![e] = @ \cup {stage[e]}]
        /\ Goto(e, "send")
        /\ UNCHANGED failed
     \/ /\ Fail(e, "emitFailed")
        /\ UNCHANGED drivers
  /\ UNCHANGED <<stage, sandboxes, msgCount, expired, outerVars>>

StartDriver(e) ==
  /\ pc[e] = "start"
  /\ \/ /\ drivers' = [drivers EXCEPT ![e] = @ \cup {stage[e]}]
        /\ Goto(e, "send")
        /\ UNCHANGED failed
     \/ /\ Fail(e, "destroy")
        /\ UNCHANGED drivers
  /\ UNCHANGED <<stage, sandboxes, msgCount, expired, outerVars>>

SendPrompt(e) ==
  /\ pc[e] = "send"
  /\ \/ Goto(e, "recv") /\ UNCHANGED failed
     \/ Fail(e, "stop")
  /\ UNCHANGED <<stage, sandboxes, drivers, msgCount, expired, outerVars>>

\* The select of the receive loop; any ready case may be taken.
RecvMessage(e) ==
  /\ pc[e] = "recv"
  /\ TokenBudget > 0
  /\ msgCount' = [msgCount EXCEPT ![e] = @ + 1]
  /\ Goto(e, IF msgCount[e] + 1 >= TokenBudget THEN "gate" ELSE "recv")
  /\ UNCHANGED <<stage, failed, sandboxes, drivers, expired, outerVars>>

RecvClosed(e) ==
  /\ pc[e] = "recv"
  /\ Goto(e, "gate")
  /\ UNCHANGED <<stageVars, outerVars>>

RecvDone(e) ==
  /\ pc[e] = "recv"
  /\ StageDone(e)
  /\ Fail(e, "stop")
  /\ UNCHANGED <<stage, sandboxes, drivers, msgCount, expired, outerVars>>

\* The verdict of the gate; a pass is written to the channel at once.
GatePass(e) == Emit(e, "gate", "gatePassed", "emitCompleted")
EmitCompleted(e) == Emit(e, "emitCompleted", "completed", "stop")

\* Mutant of GateFail: the gate's error is reported but not returned.
GateFailIgnored(e) == Emit(e, "gate", "gateFailed", "stop")

GateFail(e) ==
  /\ pc[e] = "gate"
  /\ Send(e, "gateFailed")
  /\ Fail(e, "stop")
  /\ UNCHANGED <<stage, sandboxes, drivers, msgCount, expired, ctxDone, rdVars,
                 inVars>>

\* The deferred calls of executeStage, last in first out.  Both get the
\* execution's context and both errors are ignored: once it is cancelled, the
\* driver or the sandbox client may refuse the call.
StopDriver(e) ==
  /\ pc[e] = "stop"
  /\ \/ drivers' = [drivers EXCEPT ![e] = @ \ {stage[e]}]
     \/ ctxDone[e] /\ UNCHANGED drivers
  /\ Goto(e, "destroy")
  /\ UNCHANGED <<stage, failed, sandboxes, msgCount, expired, outerVars>>

\* After it the stage returns: to the error report, or to the next stage.
DestroySandbox(e) ==
  /\ pc[e] = "destroy"
  /\ \/ sandboxes' = [sandboxes EXCEPT ![e] = @ \ {stage[e]}]
     \/ ctxDone[e] /\ UNCHANGED sandboxes
  /\ msgCount' = [msgCount EXCEPT ![e] = 0]
  /\ expired' = [expired EXCEPT ![e] = FALSE]
  /\ \/ /\ failed[e]
        /\ Goto(e, "emitFailed")
        /\ UNCHANGED stage
     \/ /\ ~failed[e]
        /\ Goto(e, "stage")
        /\ stage' = [stage EXCEPT ![e] = @ + 1]
  /\ UNCHANGED <<failed, drivers, outerVars>>

EmitStageFailed(e) == Emit(e, "emitFailed", "stageFailed", "emitDone")
EmitExecutionFailed(e) == Emit(e, "emitDone", "doneFailed", "unregister")

\* The goroutine's own defers: out of the maps first, then close(ch).
Unregister(e) ==
  /\ pc[e] = "unregister"
  /\ registered' = [registered EXCEPT ![e] = FALSE]
  /\ Goto(e, "close")
  /\ UNCHANGED <<stageVars, ctxDone, chVars, rdVars, inputs, fwd, responses,
                 down>>

CloseEvents(e) ==
  /\ pc[e] = "close"
  /\ closed' = [closed EXCEPT ![e] = TRUE]
  /\ Goto(e, "done")
  /\ UNCHANGED <<stageVars, ctxDone, events, rdVars, inVars>>

-----------------------------------------------------------------------------
\* context.WithTimeout of a stage with a time budget.
Expire(e) ==
  /\ pc[e] \in {"create", "start", "send", "recv", "gate"}
  /\ stage[e] \in TimeBudgeted
  /\ ~expired[e]
  /\ expired' = [expired EXCEPT ![e] = TRUE]
  /\ UNCHANGED <<pc, stage, failed, sandboxes, drivers, msgCount, outerVars>>

CancelCtx(e) ==
  /\ ctxDone' = [ctxDone EXCEPT ![e] = TRUE]
  /\ UNCHANGED <<goVars, chVars, rdVars, inVars>>

\* Orchestrator.Cancel finds the cancel func while the plan is registered.
Cancel(e) == registered[e] /\ ~ctxDone[e] /\ CancelCtx(e)

\* The broker's CancelWorkstream may come before Execute, and until
\* HandleIntent returns.
CancelWorkstream(e) == verdict[e] = "none" /\ ~ctxDone[e] /\ CancelCtx(e)

\* djinn shuts down: the context that every other one derives from.
Shutdown ==
  /\ ~down
  /\ down' = TRUE
  /\ ctxDone' = [e \in Execs |-> TRUE]
  /\ UNCHANGED <<goVars, chVars, rdVars, registered, inputs, fwd, responses>>

\* HandleIntent: for event := range ch.
ReadEvent(e) ==
  /\ events[e] # <<>>
  /\ events' = [events EXCEPT ![e] = Tail(@)]
  /\ last' = [last EXCEPT ![e] = Head(events[e])]
  /\ seen' = IF Head(events[e]) = "gatePassed"
             THEN [seen EXCEPT ![e] = @ + 1] ELSE seen
  /\ UNCHANGED <<goVars, ctxDone, closed, verdict, inVars>>

EndOfEvents(e) ==
  /\ closed[e] /\ events[e] = <<>> /\ verdict[e] = "none"
  /\ verdict' = [verdict EXCEPT ![e] = IF last[e] = "doneSuccess"
                                       THEN "success" ELSE "failure"]
  /\ UNCHANGED <<goVars, ctxDone, chVars, seen, last, inVars>>

\* forwardPermissions takes a response; Submit finds the input channel or
\* returns ErrExecutionNotFound, which the loop drops.
SubmitLookup(e) ==
  /\ fwd = NoExec
  /\ responses > 0
  /\ responses' = responses - 1
  /\ fwd' = IF registered[e] THEN e ELSE NoExec
  /\ UNCHANGED <<goVars, ctxDone, chVars, rdVars, registered, inputs, down>>

\* Mutant of SubmitSend: the input channel has no bound.
SubmitSendUnbounded ==
  /\ fwd # NoExec
  /\ inputs' = [inputs EXCEPT ![fwd] = @ + 1]
  /\ fwd' = NoExec
  /\ UNCHANGED <<goVars, ctxDone, chVars, rdVars, registered, responses, down>>

\* The send of Submit; nothing in the orchestrator receives from the channel.
SubmitSend ==
  /\ fwd # NoExec
  /\ inputs[fwd] < 1
  /\ inputs' = [inputs EXCEPT ![fwd] = @ + 1]
  /\ fwd' = NoExec
  /\ UNCHANGED <<goVars, ctxDone, chVars, rdVars, registered, responses, down>>

SubmitAbort ==
  /\ fwd # NoExec
  /\ down
  /\ fwd' = NoExec
  /\ UNCHANGED <<goVars, ctxDone, chVars, rdVars, registered, inputs,
                 responses, down>>

\* Steps of the execution's goroutine that need nothing from the driver.
GoStep(e) ==
  \/ BeginStage(e) \/ FinishPlan(e)
  \/ CreateSandbox(e) \/ StartDriver(e) \/ SendPrompt(e) \/ RecvDone(e)
  \/ GatePass(e) \/ GateFail(e) \/ EmitCompleted(e)
  \/ StopDriver(e) \/ DestroySandbox(e)
  \/ EmitStageFailed(e) \/ EmitExecutionFailed(e)
  \/ Unregister(e) \/ CloseEvents(e)

ReadStep(e) == ReadEvent(e) \/ EndOfEvents(e)

Next ==
  \/ \E e \in Execs :
       \/ Execute(e) \/ GoStep(e) \/ RecvMessage(e) \/ RecvClosed(e)
       \/ Expire(e) \/ Cancel(e) \/ CancelWorkstream(e)
       \/ ReadStep(e) \/ SubmitLookup(e)
  \/ SubmitSend \/ SubmitAbort \/ Shutdown

Spec == Init /\ [][Next]_vars

FairSpec ==
  /\ Spec
  /\ \A e \in Execs : /\ WF_vars(GoStep(e))
                      /\ WF_vars(Expire(e))
                      /\ WF_vars(ReadStep(e))
  /\ WF_vars(SubmitSend \/ SubmitAbort)
-----------------------------------------------------------------------------
\* The types of the variables; the input channel holds at most one message
\* (simple_orchestrator.go:64), and the stages are the plan's.
TypeOK ==
  /\ pc \in [Execs -> PCs]
  /\ stage \in [Execs -> 1..(NumStages + 1)]
  /\ failed \in [Execs -> BOOLEAN]
  /\ sandboxes \in [Execs -> SUBSET (1..NumStages)]
  /\ drivers \in [Execs -> SUBSET (1..NumStages)]
  /\ msgCount \in [Execs -> Nat]
  /\ expired \in [Execs -> BOOLEAN]
  /\ ctxDone \in [Execs -> BOOLEAN]
  /\ events \in [Execs -> Seq(EventKinds)]
  /\ closed \in [Execs -> BOOLEAN]
  /\ registered \in [Execs -> BOOLEAN]
  /\ inputs \in [Execs -> 0..1]
  /\ seen \in [Execs -> Nat]
  /\ last \in [Execs -> EventKinds \cup {"none"}]
  /\ verdict \in [Execs -> {"none", "success", "failure"}]
  /\ fwd \in Execs \cup {NoExec}
  /\ responses \in Nat
  /\ down \in BOOLEAN

\* The goroutine never blocks on its event channel, even if nobody reads it
\* while the plan runs: three events per stage and one for the end always fit,
\* on every path of failure (simple_orchestrator.go:61, 81-86, 100, 162-166).
SendNeverBlocks ==
  \A e \in Execs : pc[e] \in Sending => Len(events[e]) < Capacity

\* ExecutionDone has been written: the reader may act on the end of the plan.
Ended(e) ==
  \/ last[e] \in DoneKinds
  \/ \E i \in DOMAIN events[e] : events[e][i] \in DoneKinds

\* When a plan that was not cancelled reports its end, no sandbox and no driver
\* of it is left; until then at most the current stage has them, and a driver
\* runs only where its sandbox still exists (simple_orchestrator.go:79-86,
\* 110-120).
CleanUnlessCancelled ==
  \A e \in Execs : ~ctxDone[e] =>
    /\ Ended(e) => sandboxes[e] = {}
    /\ sandboxes[e] \subseteq {stage[e]}
    /\ drivers[e] \subseteq sandboxes[e]

\* What HandleIntent makes of the events is what a work plan promises: gates
\* pass in order and it concludes "success" exactly when all of them have
\* passed, whatever fails, expires or is cancelled on the way
\* (simple_orchestrator.go:79-86, 159-176, broker.go:183-218).
Outcome == INSTANCE WorkPlanOutcome WITH passed <- seen
OutcomeSpec == Outcome!Spec

\* A cancelled execution ends and HandleIntent concludes, though the stage it
\* is at has no time budget and its driver says nothing (lines 128-140).
CancelEnds ==
  \A e \in Execs :
    (registered[e] /\ ctxDone[e]) ~> (verdict[e] # "none")

\* From a point where all stages to come have a time budget, the execution
\* ends by itself, driver or no driver (simple_orchestrator.go:94-98, 128-140).
BudgetEnds ==
  \A e \in Execs :
    (registered[e] /\ stage[e]..NumStages \subseteq TimeBudgeted)
      ~> (verdict[e] # "none")
=============================================================================
