------------------------------- MODULE Broker -------------------------------
(***************************************************************************)
(* The broker of djinn (broker/broker.go, broker/workstream.go): it        *)
(* receives intents, registers a workstream for each, runs at most         *)
(* MaxConcurrent of them, queues the others and cancels on request.        *)
(*                                                                         *)
(* Every call of HandleIntent is a goroutine and a member of Calls.  The   *)
(* *WorkstreamInfo that the call allocates is identified with the call:    *)
(* the registry's map and its pending slice hold pointers, and aliasing    *)
(* between the two is what the properties are about.  A goroutine's steps  *)
(* are cut where the code takes and releases b.mu or r.mu.                 *)
(***************************************************************************)
EXTENDS Naturals, FiniteSets, Sequences

CONSTANTS IDs,           \* plan IDs; ToWorkPlan(intent.ID) uses the intent's
          Calls,         \* goroutine slots for HandleIntent, reused when free
          Cancellers,    \* callers of CancelWorkstream
          MaxConcurrent, \* 0 means no limit
          MaxSubmits,    \* bound: how often each intent ID is handed in
          ExecFails,     \* plans for which Orchestrator.Execute returns an error
          NoCall, NoID   \* nil pointers

ASSUME BrokerAssumption ==
  /\ MaxConcurrent \in Nat
  /\ MaxSubmits \in [IDs -> Nat]
  /\ ExecFails \subseteq IDs
  /\ IsFiniteSet(IDs) /\ IsFiniteSet(Calls)
  /\ NoCall \notin Calls /\ NoID \notin IDs

VARIABLES pc,          \* where each HandleIntent goroutine is
          wsid,        \* plan.ID of the goroutine's workstream
          status,      \* WorkstreamInfo.Status
          workstreams, \* registry map: ID to info
          pending,     \* registry queue of infos
          running,     \* broker map: ID to the cancel func of a call
          cancelling,  \* CancelWorkstream between cancel() and Complete
          submitted,   \* intents handed in, per ID
          finals       \* final results (not "queued") emitted, per ID

vars == <<pc, wsid, status, workstreams, pending, running,
          cancelling, submitted, finals>>

PCs == {"idle", "register", "emitQueued", "store", "draining", "execError",
        "emitResult", "emitError", "dequeue", "cleanup"}

Statuses == {"unregistered", "pending", "running", "completed", "failed",
             "canceled"}

Terminal == {"completed", "failed", "canceled"}

\* The call has been accepted and its registry entry is not completed yet.
LivePCs == {"store", "draining", "execError"}

\* The call's cancel func is in b.running, or was and has been overwritten.
StoredPCs == (LivePCs \ {"store"})
               \cup {"emitResult", "emitError", "dequeue", "cleanup"}

Queued(c) == \E i \in DOMAIN pending : pending[i] = c

\* An idle slot whose info nothing refers to any more.
Free(c) ==
  /\ pc[c] = "idle"
  /\ ~Queued(c)
  /\ \A id \in IDs : workstreams[id] # c

\* The slot that the next go statement uses; slots have no identity in the code.
NextSlot == CHOOSE c \in Calls : Free(c)

\* activeCountLocked: the IDs whose current entry is Running.
ActiveIDs ==
  {id \in IDs : /\ workstreams[id] # NoCall
                /\ status[workstreams[id]] = "running"}

\* The active IDs whose entry belongs to a call that executes the plan.
ExecutingIDs ==
  {id \in ActiveIDs : pc[workstreams[id]] \in LivePCs}

LiveCalls == {c \in Calls : pc[c] \in LivePCs}

\* Mutant of AtLimit: the limit is taken for a maximum that may be exceeded.
AtLimitOffByOne ==
  MaxConcurrent > 0 /\ Cardinality(ActiveIDs) > MaxConcurrent

AtLimit == MaxConcurrent > 0 /\ Cardinality(ActiveIDs) >= MaxConcurrent

Goto(c, l) == pc' = [pc EXCEPT ![c] = l]

\* Mutant of Complete: without the condition that the entry is Running.
CompleteAnyStatus(id, s) ==
  status' = [c \in Calls |-> IF c = workstreams[id] THEN s ELSE status[c]]

\* Complete: only the current entry of the ID, and only from Running.
Complete(id, s) ==
  status' = [c \in Calls |->
               IF c = workstreams[id] /\ status[c] = "running"
               THEN s ELSE status[c]]

-----------------------------------------------------------------------------
Init ==
  /\ pc = [c \in Calls |-> "idle"]
  /\ wsid = [c \in Calls |-> NoID]
  /\ status = [c \in Calls |-> "unregistered"]
  /\ workstreams = [id \in IDs |-> NoCall]
  /\ pending = <<>>
  /\ running = [id \in IDs |-> NoCall]
  /\ cancelling = [k \in Cancellers |-> NoID]
  /\ submitted = [id \in IDs |-> 0]
  /\ finals = [id \in IDs |-> 0]

\* The operator's OnIntent callback or an alert starts go HandleIntent.
Submit(c, id) ==
  /\ submitted[id] < MaxSubmits[id]
  /\ Free(c) /\ c = NextSlot
  /\ submitted' = [submitted EXCEPT ![id] = @ + 1]
  /\ Goto(c, "register")
  /\ wsid' = [wsid EXCEPT ![c] = id]
  /\ status' = [status EXCEPT ![c] = "unregistered"]
  /\ UNCHANGED <<workstreams, pending, running, cancelling, finals>>

RegisterAccepted(c) ==
  /\ pc[c] = "register"
  /\ ~AtLimit
  /\ status' = [status EXCEPT ![c] = "running"]
  /\ workstreams' = [workstreams EXCEPT ![wsid[c]] = c]
  /\ Goto(c, "store")
  /\ UNCHANGED <<wsid, pending, running, cancelling, submitted, finals>>

RegisterQueued(c) ==
  /\ pc[c] = "register"
  /\ AtLimit
  /\ status' = [status EXCEPT ![c] = "pending"]
  /\ workstreams' = [workstreams EXCEPT ![wsid[c]] = c]
  /\ pending' = Append(pending, c)
  /\ Goto(c, "emitQueued")
  /\ UNCHANGED <<wsid, running, cancelling, submitted, finals>>

\* "queued at position n", and HandleIntent returns.
EmitQueued(c) ==
  /\ pc[c] = "emitQueued"
  /\ Goto(c, "idle")
  /\ UNCHANGED <<wsid, status, workstreams, pending, running, cancelling, submitted, finals>>

\* Mutant of StoreAndExecute: the cancel func is not kept.
ExecuteWithoutStore(c) ==
  /\ pc[c] = "store"
  /\ Goto(c, IF wsid[c] \in ExecFails THEN "execError" ELSE "draining")
  /\ UNCHANGED <<wsid, status, workstreams, pending, running, cancelling,
                 submitted, finals>>

\* Put the cancel func into b.running, then Orchestrator.Execute.
StoreAndExecute(c) ==
  /\ pc[c] = "store"
  /\ running' = [running EXCEPT ![wsid[c]] = c]
  /\ Goto(c, IF wsid[c] \in ExecFails THEN "execError" ELSE "draining")
  /\ UNCHANGED <<wsid, status, workstreams, pending, cancelling,
                 submitted, finals>>

\* The event channel is closed; its last event says success or not, also
\* after a cancellation, which may come too late to stop the last stage.
DrainAndComplete(c) ==
  /\ pc[c] = "draining"
  /\ \E s \in {"completed", "failed"} : Complete(wsid[c], s)
  /\ Goto(c, "emitResult")
  /\ UNCHANGED <<wsid, workstreams, pending, running, cancelling,
                 submitted, finals>>

CompleteExecError(c) ==
  /\ pc[c] = "execError"
  /\ Complete(wsid[c], "failed")
  /\ Goto(c, "emitError")
  /\ UNCHANGED <<wsid, workstreams, pending, running, cancelling,
                 submitted, finals>>

\* Mutant of EmitResult: every path returns without Dequeue.
EmitWithoutDequeue(c) ==
  /\ pc[c] \in {"emitResult", "emitError"}
  /\ Goto(c, "cleanup")
  /\ finals' = [finals EXCEPT ![wsid[c]] = @ + 1]
  /\ UNCHANGED <<wsid, status, workstreams, pending, running, cancelling, submitted>>

\* After an error of Execute the function returns without Dequeue.
EmitResult(c) ==
  /\ \/ pc[c] = "emitResult" /\ Goto(c, "dequeue")
     \/ pc[c] = "emitError" /\ Goto(c, "cleanup")
  /\ finals' = [finals EXCEPT ![wsid[c]] = @ + 1]
  /\ UNCHANGED <<wsid, status, workstreams, pending, running, cancelling, submitted>>

DequeueNone(c) ==
  /\ pc[c] = "dequeue"
  /\ pending = <<>>
  /\ Goto(c, "cleanup")
  /\ UNCHANGED <<wsid, status, workstreams, pending, running, cancelling, submitted, finals>>

\* Mutant of PopPending: the promoted info stays at the head of the queue.
PeekPending == UNCHANGED pending

\* r.pending = r.pending[1:]
PopPending == pending' = Tail(pending)

\* Mutant of Reenter: the new intent gets no ID.
ReenterWithoutID(d, info) == UNCHANGED wsid

\* The new goroutine's intent is built from the dequeued info.
Reenter(d, info) == wsid' = [wsid EXCEPT ![d] = wsid[info]]

\* Dequeue promotes the oldest info to Running, and a new goroutine d calls
\* HandleIntent for its intent again (from TryRegister, with a new info).
DequeueNext(c, d) ==
  /\ pc[c] = "dequeue"
  /\ pending # <<>>
  /\ Free(d) /\ d = NextSlot
  /\ PopPending
  /\ status' = [status EXCEPT ![Head(pending)] = "running",
                              ![d] = "unregistered"]
  /\ Reenter(d, Head(pending))
  /\ pc' = [pc EXCEPT ![c] = "cleanup", ![d] = "register"]
  /\ UNCHANGED <<workstreams, running, cancelling, submitted, finals>>

\* Mutant of Cleanup: the entry stays in b.running.
CleanupWithoutDelete(c) ==
  /\ pc[c] = "cleanup"
  /\ Goto(c, "idle")
  /\ UNCHANGED <<wsid, status, workstreams, pending, running, cancelling,
                 submitted, finals>>

\* The deferred delete(b.running, plan.ID), whoever's entry it is by now.
Cleanup(c) ==
  /\ pc[c] = "cleanup"
  /\ running' = [running EXCEPT ![wsid[c]] = NoCall]
  /\ Goto(c, "idle")
  /\ UNCHANGED <<wsid, status, workstreams, pending, cancelling, submitted,
                 finals>>

\* CancelWorkstream(id): look the cancel func up under b.mu and call it; how the
\* execution ends is open either way, and Complete comes later under r.mu.
\* When the map has no entry it returns ErrWorkstreamNotFound: no change.
CancelLookup(k, id) ==
  /\ cancelling[k] = NoID
  /\ running[id] # NoCall
  /\ cancelling' = [cancelling EXCEPT ![k] = id]
  /\ UNCHANGED <<pc, wsid, status, workstreams, pending, running, submitted,
                 finals>>

CancelComplete(k) ==
  /\ cancelling[k] # NoID
  /\ Complete(cancelling[k], "canceled")
  /\ cancelling' = [cancelling EXCEPT ![k] = NoID]
  /\ UNCHANGED <<pc, wsid, workstreams, pending, running, submitted,
                 finals>>

\* The steps of the goroutine of call c, which Go's scheduler keeps running.
CallStep(c) ==
  \/ RegisterAccepted(c)
  \/ RegisterQueued(c)
  \/ EmitQueued(c)
  \/ StoreAndExecute(c)
  \/ DrainAndComplete(c)
  \/ CompleteExecError(c)
  \/ EmitResult(c)
  \/ DequeueNone(c)
  \/ \E d \in Calls : DequeueNext(c, d)
  \/ Cleanup(c)

Next ==
  \/ \E c \in Calls, id \in IDs : Submit(c, id)
  \/ \E c \in Calls : CallStep(c)
  \/ \E k \in Cancellers, id \in IDs : CancelLookup(k, id)
  \/ \E k \in Cancellers : CancelComplete(k)

Spec == Init /\ [][Next]_vars

FairSpec ==
  /\ Spec
  /\ \A c \in Calls : WF_vars(CallStep(c))
  /\ \A k \in Cancellers : WF_vars(CancelComplete(k))
-----------------------------------------------------------------------------
\* The types of the variables, and that every goroutine and every queued info
\* knows its plan ID: the intent of a dequeued one is rebuilt from the info
\* (broker.go:221-225).
TypeOK ==
  /\ pc \in [Calls -> PCs]
  /\ wsid \in [Calls -> IDs \cup {NoID}]
  /\ status \in [Calls -> Statuses]
  /\ workstreams \in [IDs -> Calls \cup {NoCall}]
  /\ pending \in Seq(Calls)
  /\ running \in [IDs -> Calls \cup {NoCall}]
  /\ cancelling \in [Cancellers -> IDs \cup {NoID}]
  /\ submitted \in [IDs -> Nat]
  /\ finals \in [IDs -> Nat]
  /\ \A c \in Calls : pc[c] # "idle" \/ Queued(c) => wsid[c] \in IDs

\* No workstream is lost from the queue, none is queued twice, and whatever
\* Complete, CancelWorkstream and a second registration under the same ID do to
\* the map, exactly the queued infos are Pending (workstream.go:69-121).
QueueConsistent ==
  /\ \A c \in Calls : (status[c] = "pending") <=> Queued(c)
  /\ \A i, j \in DOMAIN pending : pending[i] = pending[j] => i = j

\* What QueueConsistent rests on: an info is unknown to the registry until its
\* goroutine registers it, and a queued info's goroutine executes nothing.
RegistrationOrder ==
  \A c \in Calls :
    /\ pc[c] = "register" => /\ status[c] = "unregistered"
                             /\ \A id \in IDs : workstreams[id] # c
    /\ status[c] = "pending" => pc[c] \in {"emitQueued", "idle"}

\* Among the registry's own Running entries, never more than MaxConcurrent
\* belong to a HandleIntent that really executes its plan: promotion by Dequeue
\* may raise ActiveCount above the limit, but starts nothing by itself
\* (workstream.go:72-86, 97-109).
ExecutingWithinLimit ==
  MaxConcurrent > 0 => Cardinality(ExecutingIDs) <= MaxConcurrent

\* A cancel func found in b.running belongs to a HandleIntent of that plan that
\* has not returned, even when two of them share a plan ID and each overwrites
\* and deletes the other's entry (broker.go:156-165, 231-233).
CancelHandleLive ==
  \A id \in IDs : running[id] # NoCall =>
    /\ pc[running[id]] \in StoredPCs
    /\ wsid[running[id]] = id

\* The goroutine, or the queued info, that still owes the operator an answer.
Owes(c) ==
  \/ pc[c] \in LivePCs \cup {"register", "emitResult", "emitError"}
  \/ Queued(c)

Owing(id) == {c \in Calls : wsid[c] = id /\ Owes(c)}

\* An intent handed in once gets one final result, not two: through every
\* queueing, promotion and re-entry of HandleIntent, the final results emitted
\* and the answers still owed add up to the submissions (broker.go:140-226).
OneFinalPerSubmit ==
  \A id \in IDs : finals[id] + Cardinality(Owing(id)) = submitted[id]

\* "a canceled workstream cannot be overwritten by a subsequent
\* failed/completed status" (workstream.go:111-121): an entry that is completed,
\* failed or canceled keeps its status until another info replaces it.
TerminalSticks ==
  [][\A id \in IDs :
       (/\ workstreams[id] # NoCall
        /\ status[workstreams[id]] \in Terminal
        /\ workstreams'[id] = workstreams[id])
       => status'[workstreams[id]] = status[workstreams[id]]]_vars

\* With distinct plan IDs and no cancellation, no more than MaxConcurrent plans
\* execute at a time, whatever completions, promotions and new intents interleave
\* (broker.go:54, workstream.go:44-48, 76).
LiveWithinLimit ==
  MaxConcurrent > 0 => Cardinality(LiveCalls) <= MaxConcurrent

\* CancelWorkstream "cancels a running workstream by its plan ID"
\* (broker.go:229): while a plan executes, b.running has its entry.
ExecutingCancellable ==
  \A c \in Calls : pc[c] = "draining" => running[wsid[c]] # NoCall

\* Every intent handed in is answered with a final result in the end, the
\* queued ones too (broker.go:220-226).
AllAnswered ==
  \A id \in IDs :
    (finals[id] < submitted[id]) ~> (finals[id] = submitted[id])
=============================================================================
