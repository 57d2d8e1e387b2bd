---------------------------- MODULE BrokerProofs ----------------------------
(***************************************************************************)
(* Safety of Broker for every number of plans, goroutines and cancellers,  *)
(* every limit and every number of repeated submissions.                   *)
(***************************************************************************)
EXTENDS Broker, FiniteSetTheorems, SequenceTheorems, TLAPS

\* What Append and Tail do to membership in a queue without duplicates; the
\* registry's pending slice changes in no other way (workstream.go:78, 104-105).
LEMMA AppendQueued ==
  ASSUME NEW S, NEW q \in Seq(S), NEW e \in S, NEW x
  PROVE  (\E i \in DOMAIN Append(q, e) : Append(q, e)[i] = x)
           <=> ((\E i \in DOMAIN q : q[i] = x) \/ x = e)
<1>1. /\ DOMAIN q = 1..Len(q) /\ Len(q) \in Nat
      /\ DOMAIN Append(q, e) = 1..(Len(q) + 1)
      /\ \A i \in 1..Len(q) : Append(q, e)[i] = q[i]
      /\ Append(q, e)[Len(q) + 1] = e
  BY AppendProperties, LenProperties
<1>2. ASSUME NEW i \in DOMAIN Append(q, e), Append(q, e)[i] = x
      PROVE  (\E j \in DOMAIN q : q[j] = x) \/ x = e
  BY <1>1, <1>2
<1>3. ASSUME NEW i \in DOMAIN q, q[i] = x
      PROVE  \E j \in DOMAIN Append(q, e) : Append(q, e)[j] = x
  BY <1>1, <1>3
<1>4. x = e => \E j \in DOMAIN Append(q, e) : Append(q, e)[j] = x
  BY <1>1
<1> QED BY <1>2, <1>3, <1>4

\* Tail takes exactly the head out of it and keeps it without duplicates.
LEMMA TailQueued ==
  ASSUME NEW S, NEW q \in Seq(S), q # <<>>,
         \A i, j \in DOMAIN q : q[i] = q[j] => i = j, NEW x
  PROVE  /\ (\E i \in DOMAIN Tail(q) : Tail(q)[i] = x)
              <=> ((\E i \in DOMAIN q : q[i] = x) /\ x # Head(q))
         /\ \A i, j \in DOMAIN Tail(q) : Tail(q)[i] = Tail(q)[j] => i = j
<1>1. /\ Len(q) \in Nat \ {0} /\ DOMAIN q = 1..Len(q)
      /\ DOMAIN Tail(q) = 1..(Len(q) - 1)
      /\ \A i \in 1..(Len(q) - 1) : Tail(q)[i] = q[i + 1]
      /\ Head(q) = q[1]
  BY HeadTailProperties, LenProperties, EmptySeq
<1>2. ASSUME NEW i \in DOMAIN Tail(q), Tail(q)[i] = x
      PROVE  (\E j \in DOMAIN q : q[j] = x) /\ x # Head(q)
  <2>1. i + 1 \in DOMAIN q /\ q[i + 1] = x /\ 1 \in DOMAIN q /\ i + 1 # 1
    BY <1>1, <1>2
  <2> QED BY <2>1, <1>1
<1>3. ASSUME NEW i \in DOMAIN q, q[i] = x, x # Head(q)
      PROVE  \E j \in DOMAIN Tail(q) : Tail(q)[j] = x
  <2>1. i - 1 \in 1..(Len(q) - 1) /\ (i - 1) + 1 = i
    BY <1>1, <1>3
  <2> QED BY <2>1, <1>1, <1>3
<1>4. ASSUME NEW i \in DOMAIN Tail(q), NEW j \in DOMAIN Tail(q),
             Tail(q)[i] = Tail(q)[j]
      PROVE  i = j
  <2>1. i + 1 \in DOMAIN q /\ j + 1 \in DOMAIN q /\ q[i + 1] = q[j + 1]
    BY <1>1, <1>4
  <2> QED BY <2>1, <1>1
<1> QED BY <1>2, <1>3, <1>4

-----------------------------------------------------------------------------
\* The two actions that change the queue, in terms of Queued.
LEMMA RegisterQueuedAppends ==
  ASSUME pending \in Seq(Calls), NEW c \in Calls, RegisterQueued(c)
  PROVE  \A x : Queued(x)' <=> (Queued(x) \/ x = c)
<1> SUFFICES ASSUME NEW x PROVE Queued(x)' <=> (Queued(x) \/ x = c)
  OBVIOUS
<1>1. pending' = Append(pending, c)
  BY DEF RegisterQueued
<1>2. (\E i \in DOMAIN Append(pending, c) : Append(pending, c)[i] = x)
        <=> ((\E i \in DOMAIN pending : pending[i] = x) \/ x = c)
  BY AppendQueued
<1> QED BY <1>1, <1>2, Zenon DEF Queued

\* After Dequeue the queued infos are the earlier ones but the promoted one
\* (workstream.go:101-106).
LEMMA DequeueNextTails ==
  ASSUME pending \in Seq(Calls), NEW c, NEW d, DequeueNext(c, d),
         \A i, j \in DOMAIN pending : pending[i] = pending[j] => i = j
  PROVE  /\ \A x : Queued(x)' <=> (Queued(x) /\ x # Head(pending))
         /\ \A i, j \in DOMAIN pending' : pending'[i] = pending'[j] => i = j
         /\ Queued(Head(pending))
<1>1. pending # <<>> /\ pending' = Tail(pending)
  BY DEF DequeueNext, PopPending, Reenter
<1>2. ASSUME NEW x PROVE Queued(x)' <=> (Queued(x) /\ x # Head(pending))
  <2>1. (\E i \in DOMAIN Tail(pending) : Tail(pending)[i] = x)
          <=> ((\E i \in DOMAIN pending : pending[i] = x) /\ x # Head(pending))
    BY <1>1, TailQueued
  <2> QED BY <1>1, <2>1, Zenon DEF Queued
<1>3. \A i, j \in DOMAIN Tail(pending) : Tail(pending)[i] = Tail(pending)[j] => i = j
  BY <1>1, TailQueued
<1>4. Queued(Head(pending))
  BY <1>1, HeadTailProperties, LenProperties, EmptySeq DEF Queued
<1> QED BY <1>1, <1>2, <1>3, <1>4

\* Complete writes one status and keeps the map's type (workstream.go:114-121).
LEMMA CompleteType ==
  ASSUME TypeOK, NEW id \in IDs, NEW s \in Terminal, Complete(id, s)
  PROVE  /\ status' \in [Calls -> Statuses]
         /\ \A c \in Calls : (status'[c] = "pending") <=> (status[c] = "pending")
         /\ \A c \in Calls :
              status[c] = "unregistered" => status'[c] = "unregistered"
         /\ \A c \in Calls : status'[c] = "running" => status[c] = "running"
BY DEF TypeOK, Complete, Terminal, Statuses

\* The type invariant holds for every instance (broker.go:112-247).
THEOREM TypeCorrect == Spec => []TypeOK
<1>1. Init => TypeOK
  BY BrokerAssumption DEF Init, TypeOK, PCs, Statuses, Queued
<1>2. TypeOK /\ [Next]_vars => TypeOK'
  <2> SUFFICES ASSUME TypeOK, [Next]_vars PROVE TypeOK'
    OBVIOUS
  <2> USE BrokerAssumption DEF TypeOK, PCs, Goto
  <2>q. UNCHANGED pending => \A x : Queued(x)' <=> Queued(x)
    BY DEF Queued
  <2>1. ASSUME NEW c \in Calls, NEW id \in IDs, Submit(c, id)
        PROVE  TypeOK'
    BY <2>1, <2>q DEF Submit, Statuses
  <2>2. ASSUME NEW c \in Calls, RegisterAccepted(c)
        PROVE  TypeOK'
    BY <2>2, <2>q DEF RegisterAccepted, Statuses
  <2>3. ASSUME NEW c \in Calls, RegisterQueued(c)
        PROVE  TypeOK'
    <3>1. pending' \in Seq(Calls)
      BY <2>3, AppendProperties DEF RegisterQueued
    <3>2. \A x : Queued(x)' <=> (Queued(x) \/ x = c)
      BY <2>3, RegisterQueuedAppends
    <3> QED BY <2>3, <3>1, <3>2 DEF RegisterQueued, Statuses
  <2>4. ASSUME NEW c \in Calls, EmitQueued(c)
        PROVE  TypeOK'
    BY <2>4, <2>q DEF EmitQueued
  <2>5. ASSUME NEW c \in Calls, StoreAndExecute(c)
        PROVE  TypeOK'
    BY <2>5, <2>q DEF StoreAndExecute
  <2>6. ASSUME NEW c \in Calls, DrainAndComplete(c)
        PROVE  TypeOK'
    <3>1. status' \in [Calls -> Statuses]
      BY <2>6, CompleteType DEF DrainAndComplete, Terminal
    <3> QED BY <2>6, <2>q, <3>1 DEF DrainAndComplete
  <2>7. ASSUME NEW c \in Calls, CompleteExecError(c)
        PROVE  TypeOK'
    <3>1. status' \in [Calls -> Statuses]
      BY <2>7, CompleteType DEF CompleteExecError, Terminal
    <3> QED BY <2>7, <2>q, <3>1 DEF CompleteExecError
  <2>8. ASSUME NEW c \in Calls, EmitResult(c)
        PROVE  TypeOK'
    BY <2>8, <2>q DEF EmitResult
  <2>9. ASSUME NEW c \in Calls, DequeueNone(c)
        PROVE  TypeOK'
    BY <2>9, <2>q DEF DequeueNone
  <2>10. ASSUME NEW c \in Calls, NEW d \in Calls, DequeueNext(c, d)
         PROVE  TypeOK'
    <3>1. Head(pending) \in Calls /\ Tail(pending) \in Seq(Calls)
      BY <2>10, HeadTailProperties DEF DequeueNext, PopPending, Reenter
    <3>2. status' \in [Calls -> Statuses] /\ pc' \in [Calls -> PCs]
      BY <2>10, <3>1 DEF DequeueNext, PopPending, Reenter, Statuses
    <3>3. Queued(Head(pending)) /\ \A x : Queued(x)' => Queued(x)
      BY <2>10, HeadTailProperties, LenProperties, EmptySeq
         DEF DequeueNext, PopPending, Reenter, Queued
    <3>4. wsid[Head(pending)] \in IDs
      BY <3>1, <3>3
    <3>5. wsid' \in [Calls -> IDs \cup {NoID}]
      BY <2>10, <3>4 DEF DequeueNext, PopPending, Reenter
    <3>6. \A x \in Calls : pc'[x] # "idle" \/ Queued(x)' => wsid'[x] \in IDs
      BY <2>10, <3>3, <3>4 DEF DequeueNext, PopPending, Reenter
    <3> QED BY <2>10, <3>1, <3>2, <3>5, <3>6 DEF DequeueNext, PopPending, Reenter
  <2>11. ASSUME NEW c \in Calls, Cleanup(c)
         PROVE  TypeOK'
    BY <2>11, <2>q DEF Cleanup
  <2>12. ASSUME NEW k \in Cancellers, NEW id \in IDs, CancelLookup(k, id)
         PROVE  TypeOK'
    BY <2>12, <2>q DEF CancelLookup
  <2>13. ASSUME NEW k \in Cancellers, CancelComplete(k)
         PROVE  TypeOK'
    <3>1. status' \in [Calls -> Statuses]
      BY <2>13, CompleteType DEF CancelComplete, Terminal
    <3> QED BY <2>13, <2>q, <3>1 DEF CancelComplete
  <2>14. CASE UNCHANGED vars
    BY <2>14, <2>q DEF vars
  <2> QED BY <2>1, <2>2, <2>3, <2>4, <2>5, <2>6, <2>7, <2>8, <2>9, <2>10,
             <2>11, <2>12, <2>13, <2>14 DEF Next, CallStep
<1> QED BY <1>1, <1>2, PTL DEF Spec

-----------------------------------------------------------------------------
\* The queue and the order of registration, which only hold together.
QueueInv == TypeOK /\ QueueConsistent /\ RegistrationOrder

\* Complete never touches a Pending or an unregistered info, so it preserves
\* both as long as the caller does not enter TryRegister by the same step.
LEMMA CompleteKeepsQueue ==
  ASSUME QueueInv, NEW id \in IDs, NEW s \in Terminal, Complete(id, s),
         UNCHANGED <<pending, workstreams>>,
         \A x \in Calls : \/ pc'[x] = pc[x]
                          \/ pc[x] \in LivePCs /\ pc'[x] # "register"
  PROVE  QueueConsistent' /\ RegistrationOrder'
<1>1. \A x \in Calls : /\ (status'[x] = "pending") <=> (status[x] = "pending")
                       /\ status[x] = "unregistered" => status'[x] = "unregistered"
  BY CompleteType DEF QueueInv
<1>2. \A x : Queued(x)' <=> Queued(x)
  BY DEF Queued
<1>3. QueueConsistent'
  BY <1>1, <1>2 DEF QueueInv, QueueConsistent
<1>4. RegistrationOrder'
  BY <1>1 DEF QueueInv, RegistrationOrder, LivePCs
<1> QED BY <1>3, <1>4

\* Every step preserves the queue's consistency and the registration order.
LEMMA QueueStep ==
  ASSUME QueueInv, [Next]_vars
  PROVE  QueueConsistent' /\ RegistrationOrder'
<1> USE BrokerAssumption DEF Goto
<1>q. UNCHANGED pending => \A x : Queued(x)' <=> Queued(x)
  BY DEF Queued
<1>1. ASSUME NEW c \in Calls, NEW id \in IDs, Submit(c, id)
      PROVE  QueueConsistent' /\ RegistrationOrder'
  BY <1>1, <1>q DEF Submit, Free, QueueInv, TypeOK, QueueConsistent,
                    RegistrationOrder
<1>2. ASSUME NEW c \in Calls, RegisterAccepted(c)
      PROVE  QueueConsistent' /\ RegistrationOrder'
  BY <1>2, <1>q DEF RegisterAccepted, QueueInv, TypeOK, QueueConsistent,
                    RegistrationOrder
<1>3. ASSUME NEW c \in Calls, RegisterQueued(c)
      PROVE  QueueConsistent' /\ RegistrationOrder'
  <2>1. \A x : Queued(x)' <=> (Queued(x) \/ x = c)
    BY <1>3, RegisterQueuedAppends DEF QueueInv, TypeOK
  <2>2. ~Queued(c)
    BY <1>3 DEF RegisterQueued, QueueInv, QueueConsistent, RegistrationOrder
  <2>3. \A i, j \in DOMAIN pending' : pending'[i] = pending'[j] => i = j
    <3>1. /\ DOMAIN pending = 1..Len(pending) /\ Len(pending) \in Nat
          /\ DOMAIN pending' = 1..(Len(pending) + 1)
          /\ \A i \in 1..Len(pending) : pending'[i] = pending[i]
          /\ pending'[Len(pending) + 1] = c
      BY <1>3, AppendProperties, LenProperties
         DEF RegisterQueued, QueueInv, TypeOK
    <3> QED BY <3>1, <2>2 DEF Queued, QueueInv, QueueConsistent
  <2>4. \A x \in Calls : (status'[x] = "pending") <=> Queued(x)'
    BY <1>3, <2>1 DEF RegisterQueued, QueueInv, TypeOK, QueueConsistent
  <2>5. RegistrationOrder'
    BY <1>3 DEF RegisterQueued, QueueInv, TypeOK, RegistrationOrder
  <2> QED BY <2>3, <2>4, <2>5 DEF QueueConsistent
<1>4. ASSUME NEW c \in Calls, EmitQueued(c)
      PROVE  QueueConsistent' /\ RegistrationOrder'
  BY <1>4, <1>q DEF EmitQueued, QueueInv, TypeOK, QueueConsistent,
                    RegistrationOrder
<1>5. ASSUME NEW c \in Calls, StoreAndExecute(c)
      PROVE  QueueConsistent' /\ RegistrationOrder'
  BY <1>5, <1>q DEF StoreAndExecute, QueueInv, TypeOK, QueueConsistent,
                    RegistrationOrder
<1>6. ASSUME NEW c \in Calls, DrainAndComplete(c)
      PROVE  QueueConsistent' /\ RegistrationOrder'
  <2>1. wsid[c] \in IDs
    BY <1>6 DEF DrainAndComplete, QueueInv, TypeOK
  <2>2. PICK s \in Terminal : Complete(wsid[c], s)
    BY <1>6 DEF DrainAndComplete, Terminal
  <2> QED BY <1>6, <2>1, <2>2, CompleteKeepsQueue
          DEF DrainAndComplete, LivePCs, QueueInv, TypeOK
<1>7. ASSUME NEW c \in Calls, CompleteExecError(c)
      PROVE  QueueConsistent' /\ RegistrationOrder'
  <2>1. wsid[c] \in IDs /\ "failed" \in Terminal
    BY <1>7 DEF CompleteExecError, QueueInv, TypeOK, Terminal
  <2> QED BY <1>7, <2>1, CompleteKeepsQueue
          DEF CompleteExecError, LivePCs, QueueInv, TypeOK
<1>8. ASSUME NEW c \in Calls, EmitResult(c)
      PROVE  QueueConsistent' /\ RegistrationOrder'
  BY <1>8, <1>q DEF EmitResult, QueueInv, TypeOK, QueueConsistent,
                    RegistrationOrder
<1>9. ASSUME NEW c \in Calls, DequeueNone(c)
      PROVE  QueueConsistent' /\ RegistrationOrder'
  BY <1>9, <1>q DEF DequeueNone, QueueInv, TypeOK, QueueConsistent,
                    RegistrationOrder
<1>10. ASSUME NEW c \in Calls, NEW d \in Calls, DequeueNext(c, d)
       PROVE  QueueConsistent' /\ RegistrationOrder'
  <2>1. /\ \A x : Queued(x)' <=> (Queued(x) /\ x # Head(pending))
        /\ \A i, j \in DOMAIN pending' : pending'[i] = pending'[j] => i = j
    BY <1>10, DequeueNextTails DEF QueueInv, TypeOK, QueueConsistent
  <2>2. Head(pending) \in Calls /\ ~Queued(d) /\ d # c
    BY <1>10, HeadTailProperties DEF DequeueNext, PopPending, Reenter, Free, QueueInv, TypeOK
  <2>3. \A x \in Calls : (status'[x] = "pending") <=> Queued(x)'
    BY <1>10, <2>1, <2>2 DEF DequeueNext, PopPending, Reenter, QueueInv, TypeOK, QueueConsistent
  <2>4. status[Head(pending)] = "pending"
    BY <1>10, <2>2, DequeueNextTails DEF QueueInv, TypeOK, QueueConsistent
  <2>5. RegistrationOrder'
    BY <1>10, <2>2, <2>4 DEF DequeueNext, PopPending, Reenter, Free, QueueInv, TypeOK,
                             RegistrationOrder
  <2> QED BY <2>1, <2>3, <2>5 DEF QueueConsistent
<1>11. ASSUME NEW c \in Calls, Cleanup(c)
       PROVE  QueueConsistent' /\ RegistrationOrder'
  BY <1>11, <1>q DEF Cleanup, QueueInv, TypeOK, QueueConsistent,
                     RegistrationOrder
<1>12. ASSUME NEW k \in Cancellers, NEW id \in IDs, CancelLookup(k, id)
       PROVE  QueueConsistent' /\ RegistrationOrder'
  BY <1>12, <1>q DEF CancelLookup, QueueInv, QueueConsistent,
                     RegistrationOrder
<1>13. ASSUME NEW k \in Cancellers, CancelComplete(k)
       PROVE  QueueConsistent' /\ RegistrationOrder'
  <2>1. cancelling[k] \in IDs /\ "canceled" \in Terminal
    BY <1>13 DEF CancelComplete, QueueInv, TypeOK, Terminal
  <2> QED BY <1>13, <2>1, CompleteKeepsQueue DEF CancelComplete
<1>14. CASE UNCHANGED vars
  BY <1>14, <1>q DEF vars, QueueInv, QueueConsistent, RegistrationOrder
<1> QED BY <1>1, <1>2, <1>3, <1>4, <1>5, <1>6, <1>7, <1>8, <1>9, <1>10,
           <1>11, <1>12, <1>13, <1>14 DEF Next, CallStep

\* No workstream is lost from or doubled in the queue, for every limit and every
\* interleaving of registrations, completions and cancellations.
THEOREM QueueCorrect == Spec => [](QueueConsistent /\ RegistrationOrder)
<1>1. Init => QueueConsistent /\ RegistrationOrder
  BY BrokerAssumption DEF Init, QueueConsistent, RegistrationOrder, Queued
<1>2. TypeOK /\ QueueConsistent /\ RegistrationOrder /\ [Next]_vars
        => QueueConsistent' /\ RegistrationOrder'
  BY QueueStep DEF QueueInv
<1> QED BY <1>1, <1>2, TypeCorrect, PTL DEF Spec

-----------------------------------------------------------------------------
\* CancelWorkstream never calls the cancel func of a HandleIntent that has
\* returned, nor that of another plan (broker.go:156-165, 230-237).
THEOREM CancelHandleCorrect == Spec => []CancelHandleLive
<1>1. Init => CancelHandleLive
  BY DEF Init, CancelHandleLive
<1>2. TypeOK /\ CancelHandleLive /\ [Next]_vars => CancelHandleLive'
  <2> SUFFICES ASSUME TypeOK, CancelHandleLive, [Next]_vars,
                      NEW id \in IDs, running'[id] # NoCall
               PROVE  /\ pc'[running'[id]] \in StoredPCs
                      /\ wsid'[running'[id]] = id
    BY DEF CancelHandleLive
  <2> USE BrokerAssumption DEF TypeOK, CancelHandleLive, StoredPCs, LivePCs, Goto
  <2>1. ASSUME NEW c \in Calls, NEW i \in IDs, Submit(c, i)
        PROVE  pc'[running'[id]] \in StoredPCs /\ wsid'[running'[id]] = id
    BY <2>1 DEF Submit, Free
  <2>2. ASSUME NEW c \in Calls, RegisterAccepted(c) \/ RegisterQueued(c)
                                  \/ EmitQueued(c) \/ DequeueNone(c)
        PROVE  pc'[running'[id]] \in StoredPCs /\ wsid'[running'[id]] = id
    <3>1. /\ pc[c] \notin StoredPCs \/ pc' = [pc EXCEPT ![c] = "cleanup"]
          /\ \E l \in PCs : pc' = [pc EXCEPT ![c] = l]
      BY <2>2 DEF RegisterAccepted, RegisterQueued, EmitQueued, DequeueNone,
                  PCs
    <3>2. UNCHANGED <<running, wsid>>
      BY <2>2 DEF RegisterAccepted, RegisterQueued, EmitQueued, DequeueNone
    <3>3. CASE running[id] = c
      BY <3>1, <3>2, <3>3
    <3>4. CASE running[id] # c
      BY <3>1, <3>2, <3>4
    <3> QED BY <3>3, <3>4
  <2>3. ASSUME NEW c \in Calls, StoreAndExecute(c)
        PROVE  pc'[running'[id]] \in StoredPCs /\ wsid'[running'[id]] = id
    BY <2>3 DEF StoreAndExecute
  <2>4. ASSUME NEW c \in Calls, DrainAndComplete(c) \/ CompleteExecError(c)
                                  \/ EmitResult(c)
        PROVE  pc'[running'[id]] \in StoredPCs /\ wsid'[running'[id]] = id
    <3>1. \/ pc' = [pc EXCEPT ![c] = "emitResult"]
          \/ pc' = [pc EXCEPT ![c] = "emitError"]
          \/ pc' = [pc EXCEPT ![c] = "dequeue"]
          \/ pc' = [pc EXCEPT ![c] = "cleanup"]
      BY <2>4 DEF DrainAndComplete, CompleteExecError, EmitResult
    <3>2. UNCHANGED <<running, wsid>>
      BY <2>4 DEF DrainAndComplete, CompleteExecError, EmitResult
    <3>3. /\ running[id] \in Calls
          /\ pc[running[id]] \in StoredPCs /\ wsid[running[id]] = id
      BY <3>2
    <3>4. \/ pc'[running[id]] = pc[running[id]]
          \/ pc'[running[id]] \in {"emitResult", "emitError", "dequeue", "cleanup"}
      BY <3>1, <3>3
    <3> QED BY <3>2, <3>3, <3>4
  <2>5. ASSUME NEW c \in Calls, NEW d \in Calls, DequeueNext(c, d)
        PROVE  pc'[running'[id]] \in StoredPCs /\ wsid'[running'[id]] = id
    <3>1. /\ running' = running /\ running[id] \in Calls
          /\ pc[running[id]] \in StoredPCs /\ wsid[running[id]] = id
          /\ pc[d] = "idle"
      BY <2>5 DEF DequeueNext, PopPending, Reenter, Free
    <3>2. running[id] # d
      BY <3>1
    <3>3. /\ wsid'[running[id]] = wsid[running[id]]
          /\ pc'[running[id]] = IF running[id] = c THEN "cleanup"
                                                  ELSE pc[running[id]]
      BY <2>5, <3>1, <3>2 DEF DequeueNext, PopPending, Reenter
    <3> QED BY <3>1, <3>3
  <2>6. ASSUME NEW c \in Calls, Cleanup(c)
        PROVE  pc'[running'[id]] \in StoredPCs /\ wsid'[running'[id]] = id
    BY <2>6 DEF Cleanup
  <2>7. ASSUME NEW k \in Cancellers, NEW i \in IDs, CancelLookup(k, i)
        PROVE  pc'[running'[id]] \in StoredPCs /\ wsid'[running'[id]] = id
    BY <2>7 DEF CancelLookup
  <2>8. ASSUME NEW k \in Cancellers, CancelComplete(k)
        PROVE  pc'[running'[id]] \in StoredPCs /\ wsid'[running'[id]] = id
    BY <2>8 DEF CancelComplete
  <2>9. CASE UNCHANGED vars
    BY <2>9 DEF vars
  <2> QED BY <2>1, <2>2, <2>3, <2>4, <2>5, <2>6, <2>7, <2>8, <2>9
          DEF Next, CallStep
<1> QED BY <1>1, <1>2, TypeCorrect, PTL DEF Spec

-----------------------------------------------------------------------------
\* A completed, failed or canceled registry entry keeps its status until another
\* workstream replaces it (workstream.go:111-121).
THEOREM TerminalCorrect == Spec => TerminalSticks
<1> DEFINE Sticks == \A id \in IDs :
             (/\ workstreams[id] # NoCall
              /\ status[workstreams[id]] \in Terminal
              /\ workstreams'[id] = workstreams[id])
             => status'[workstreams[id]] = status[workstreams[id]]
<1>1. QueueInv /\ [Next]_vars => Sticks
  <2> SUFFICES ASSUME QueueInv, [Next]_vars, NEW id \in IDs,
                      workstreams[id] # NoCall,
                      status[workstreams[id]] \in Terminal,
                      workstreams'[id] = workstreams[id]
               PROVE  status'[workstreams[id]] = status[workstreams[id]]
    OBVIOUS
  <2> DEFINE e == workstreams[id]
  <2>e. e \in Calls /\ status[e] # "pending" /\ status[e] # "running"
                    /\ status[e] # "unregistered"
    BY DEF QueueInv, TypeOK, Terminal
  <2> HIDE DEF e
  <2>1. ASSUME NEW c \in Calls, NEW i \in IDs, Submit(c, i)
        PROVE  status'[e] = status[e]
    BY <2>1, <2>e DEF Submit, Free, e, QueueInv, TypeOK
  <2>2. ASSUME NEW c \in Calls, RegisterAccepted(c) \/ RegisterQueued(c)
        PROVE  status'[e] = status[e]
    BY <2>2, <2>e DEF RegisterAccepted, RegisterQueued, QueueInv, TypeOK,
                      RegistrationOrder
  <2>3. ASSUME NEW c \in Calls, EmitQueued(c) \/ StoreAndExecute(c)
                 \/ EmitResult(c) \/ DequeueNone(c) \/ Cleanup(c)
        PROVE  status'[e] = status[e]
    BY <2>3 DEF EmitQueued, StoreAndExecute, EmitResult, DequeueNone, Cleanup
  <2>4. ASSUME NEW c \in Calls, DrainAndComplete(c) \/ CompleteExecError(c)
        PROVE  status'[e] = status[e]
    BY <2>4, <2>e DEF DrainAndComplete, CompleteExecError, Complete
  <2>5. ASSUME NEW c \in Calls, NEW d \in Calls, DequeueNext(c, d)
        PROVE  status'[e] = status[e]
    <3>1. status[Head(pending)] = "pending" /\ e # d
      BY <2>5, <2>e, DequeueNextTails, HeadTailProperties
         DEF DequeueNext, PopPending, Reenter, Free, e, QueueInv, TypeOK, QueueConsistent
    <3> QED BY <2>5, <2>e, <3>1 DEF DequeueNext, PopPending, Reenter, QueueInv, TypeOK
  <2>6. ASSUME NEW k \in Cancellers, NEW i \in IDs, CancelLookup(k, i)
        PROVE  status'[e] = status[e]
    BY <2>6 DEF CancelLookup
  <2>7. ASSUME NEW k \in Cancellers, CancelComplete(k)
        PROVE  status'[e] = status[e]
    BY <2>7, <2>e DEF CancelComplete, Complete
  <2>8. CASE UNCHANGED vars
    BY <2>8 DEF vars
  <2> QED BY <2>1, <2>2, <2>3, <2>4, <2>5, <2>6, <2>7, <2>8
          DEF Next, CallStep, e
<1>2. QueueInv /\ [Next]_vars => [Sticks]_vars
  BY <1>1
<1> QED BY <1>2, TypeCorrect, QueueCorrect, PTL DEF Spec, TerminalSticks, QueueInv

-----------------------------------------------------------------------------
\* The entry of id, if it executes after the step, executed before it.
ExecutedBefore(id) ==
  (/\ workstreams'[id] # NoCall
   /\ status'[workstreams'[id]] = "running"
   /\ pc'[workstreams'[id]] \in LivePCs)
  => /\ workstreams[id] # NoCall
     /\ status[workstreams[id]] = "running"
     /\ pc[workstreams[id]] \in LivePCs

\* Only TryRegister adds to the executing entries; the promotion by Dequeue
\* makes an entry Running whose goroutine has returned or is about to.
LEMMA ExecutingShrinks ==
  ASSUME QueueInv, [Next]_vars, \A c \in Calls : ~RegisterAccepted(c)
  PROVE  ExecutingIDs' \subseteq ExecutingIDs
<1> SUFFICES ASSUME NEW id \in IDs, workstreams'[id] # NoCall,
                    status'[workstreams'[id]] = "running",
                    pc'[workstreams'[id]] \in LivePCs
             PROVE  /\ workstreams[id] # NoCall
                    /\ status[workstreams[id]] = "running"
                    /\ pc[workstreams[id]] \in LivePCs
  BY DEF ExecutingIDs, ActiveIDs
<1> USE BrokerAssumption DEF QueueInv, TypeOK, Goto, LivePCs
<1>g. ExecutedBefore(id)
  <2>1. ASSUME NEW c \in Calls, NEW i \in IDs, Submit(c, i) PROVE ExecutedBefore(id)
    BY <2>1 DEF Submit, ExecutedBefore
  <2>2. ASSUME NEW c \in Calls, RegisterQueued(c) PROVE ExecutedBefore(id)
    BY <2>2 DEF RegisterQueued, ExecutedBefore
  <2>3. ASSUME NEW c \in Calls,
               EmitQueued(c) \/ StoreAndExecute(c) \/ EmitResult(c)
                 \/ DequeueNone(c) \/ Cleanup(c)
        PROVE  ExecutedBefore(id)
    <3>1. UNCHANGED <<workstreams, status>>
      BY <2>3 DEF EmitQueued, StoreAndExecute, EmitResult, DequeueNone, Cleanup
    <3>2. \A x \in Calls : pc'[x] \in LivePCs => pc[x] \in LivePCs
      BY <2>3 DEF EmitQueued, StoreAndExecute, EmitResult, DequeueNone, Cleanup
    <3> QED BY <3>1, <3>2 DEF ExecutedBefore
  <2>4. ASSUME NEW c \in Calls, DrainAndComplete(c) \/ CompleteExecError(c)
        PROVE  ExecutedBefore(id)
    <3>1. UNCHANGED workstreams
      BY <2>4 DEF DrainAndComplete, CompleteExecError
    <3>2. \A x \in Calls : status'[x] = "running" => status[x] = "running"
      BY <2>4 DEF DrainAndComplete, CompleteExecError, Complete
    <3>3. \A x \in Calls : pc'[x] \in LivePCs => pc[x] \in LivePCs
      BY <2>4 DEF DrainAndComplete, CompleteExecError
    <3> QED BY <3>1, <3>2, <3>3 DEF ExecutedBefore
  <2>5. ASSUME NEW c \in Calls, NEW d \in Calls, DequeueNext(c, d)
        PROVE  ExecutedBefore(id)
    <3>1. /\ Head(pending) \in Calls
          /\ status[Head(pending)] = "pending"
          /\ pc[Head(pending)] \in {"emitQueued", "idle"}
      BY <2>5, DequeueNextTails, HeadTailProperties
         DEF DequeueNext, PopPending, Reenter, QueueConsistent, RegistrationOrder
    <3>2. UNCHANGED workstreams
      BY <2>5 DEF DequeueNext, PopPending, Reenter
    <3>3. \A x \in Calls : pc'[x] \in LivePCs => pc[x] \in LivePCs
      BY <2>5 DEF DequeueNext, PopPending, Reenter
    <3>4. \A x \in Calls : status'[x] = "running"
                             => status[x] = "running" \/ x = Head(pending)
      BY <2>5, <3>1 DEF DequeueNext, PopPending, Reenter
    <3> QED BY <3>1, <3>2, <3>3, <3>4 DEF ExecutedBefore
  <2>6. ASSUME NEW k \in Cancellers, NEW i \in IDs, CancelLookup(k, i)
        PROVE  ExecutedBefore(id)
    BY <2>6 DEF CancelLookup, ExecutedBefore
  <2>7. ASSUME NEW k \in Cancellers, CancelComplete(k) PROVE ExecutedBefore(id)
    BY <2>7 DEF CancelComplete, Complete, ExecutedBefore
  <2>8. CASE UNCHANGED vars
    BY <2>8 DEF vars, ExecutedBefore
  <2> QED BY <2>1, <2>2, <2>3, <2>4, <2>5, <2>6, <2>7, <2>8
          DEF Next, CallStep
<1> QED BY <1>g DEF ExecutedBefore

\* The limit binds what executes under a Running registry entry, however often
\* Dequeue promotes without checking it (workstream.go:69-109).
THEOREM ExecutingLimitCorrect == Spec => []ExecutingWithinLimit
<1>1. Init => ExecutingWithinLimit
  <2> SUFFICES ASSUME Init PROVE Cardinality(ExecutingIDs) = 0
    BY BrokerAssumption DEF ExecutingWithinLimit
  <2>1. ExecutingIDs = {}
    BY DEF Init, ExecutingIDs, ActiveIDs
  <2> QED BY <2>1, FS_EmptySet
<1>2. QueueInv /\ QueueInv' /\ ExecutingWithinLimit /\ [Next]_vars
        => ExecutingWithinLimit'
  <2> SUFFICES ASSUME QueueInv, ExecutingWithinLimit, [Next]_vars,
                      MaxConcurrent > 0
               PROVE  Cardinality(ExecutingIDs') <= MaxConcurrent
    BY DEF ExecutingWithinLimit
  <2>f. /\ IsFiniteSet(ActiveIDs) /\ IsFiniteSet(ExecutingIDs)
        /\ Cardinality(ActiveIDs) \in Nat /\ Cardinality(ExecutingIDs) \in Nat
        /\ MaxConcurrent \in Nat
    BY BrokerAssumption, FS_Subset, FS_CardinalityType
       DEF ExecutingIDs, ActiveIDs
  <2>1. CASE \A c \in Calls : ~RegisterAccepted(c)
    <3>1. ExecutingIDs' \subseteq ExecutingIDs
      BY <2>1, ExecutingShrinks
    <3>2. Cardinality(ExecutingIDs') <= Cardinality(ExecutingIDs)
      BY <3>1, <2>f, FS_Subset
    <3>3. Cardinality(ExecutingIDs') \in Nat
      BY <3>1, <2>f, FS_Subset, FS_CardinalityType
    <3> QED BY <3>2, <3>3, <2>f DEF ExecutingWithinLimit
  <2>2. ASSUME NEW c \in Calls, RegisterAccepted(c)
        PROVE  Cardinality(ExecutingIDs') <= MaxConcurrent
    <3>1. Cardinality(ActiveIDs) < MaxConcurrent
      BY <2>2, <2>f DEF RegisterAccepted, AtLimit
    <3>2. ExecutingIDs' \subseteq ActiveIDs \cup {wsid[c]}
      BY <2>2 DEF RegisterAccepted, ExecutingIDs, ActiveIDs, QueueInv, TypeOK,
                  RegistrationOrder
    <3>3. /\ IsFiniteSet(ActiveIDs \cup {wsid[c]})
          /\ Cardinality(ActiveIDs \cup {wsid[c]}) <= Cardinality(ActiveIDs) + 1
      BY <2>f, FS_AddElement
    <3>4. /\ Cardinality(ExecutingIDs') <= Cardinality(ActiveIDs \cup {wsid[c]})
          /\ Cardinality(ExecutingIDs') \in Nat
          /\ Cardinality(ActiveIDs \cup {wsid[c]}) \in Nat
      BY <3>2, <3>3, FS_Subset, FS_CardinalityType
    <3> QED BY <3>1, <3>3, <3>4, <2>f
  <2> QED BY <2>1, <2>2
<1> QED BY <1>1, <1>2, TypeCorrect, QueueCorrect, PTL DEF Spec, QueueInv

-----------------------------------------------------------------------------
\* Answers owed: every action but three leaves each Owing(id) as it is.
LEMMA OwingKept ==
  ASSUME QueueInv, [Next]_vars, NEW id \in IDs,
         \A c \in Calls : /\ ~EmitResult(c)
                          /\ \A i \in IDs : ~Submit(c, i)
                          /\ \A d \in Calls : ~DequeueNext(c, d)
  PROVE  /\ Owing(id)' = Owing(id)
         /\ UNCHANGED <<finals, submitted>>
<1> USE BrokerAssumption DEF QueueInv, TypeOK, Goto, LivePCs
<1> DEFINE Same == /\ \A c \in Calls : (wsid'[c] = id /\ Owes(c)')
                                         <=> (wsid[c] = id /\ Owes(c))
                   /\ UNCHANGED <<finals, submitted>>
<1>q. UNCHANGED pending => \A x : Queued(x)' <=> Queued(x)
  BY DEF Queued
<1>1. ASSUME NEW c \in Calls, RegisterQueued(c) PROVE Same
  <2>1. \A x : Queued(x)' <=> (Queued(x) \/ x = c)
    BY <1>1, RegisterQueuedAppends
  <2> QED BY <1>1, <2>1 DEF RegisterQueued, Owes
<1>2. ASSUME NEW c \in Calls,
             RegisterAccepted(c) \/ EmitQueued(c) \/ DequeueNone(c)
      PROVE  Same
  BY <1>2, <1>q DEF RegisterAccepted, EmitQueued, DequeueNone, Owes
<1>3. ASSUME NEW c \in Calls, StoreAndExecute(c) \/ Cleanup(c) PROVE Same
  BY <1>3, <1>q DEF StoreAndExecute, Cleanup, Owes
<1>4. ASSUME NEW c \in Calls, DrainAndComplete(c) \/ CompleteExecError(c)
      PROVE  Same
  BY <1>4, <1>q DEF DrainAndComplete, CompleteExecError, Owes
<1>5. ASSUME NEW k \in Cancellers, NEW i \in IDs, CancelLookup(k, i)
      PROVE  Same
  BY <1>5, <1>q DEF CancelLookup, Owes
<1>6. ASSUME NEW k \in Cancellers, CancelComplete(k) PROVE Same
  BY <1>6, <1>q DEF CancelComplete, Owes
<1>7. ASSUME UNCHANGED vars PROVE Same
  BY <1>7, <1>q DEF vars, Owes
<1> HIDE DEF Same
<1>8. Same
  BY <1>1, <1>2, <1>3, <1>4, <1>5, <1>6, <1>7 DEF Next, CallStep
<1> QED BY <1>8, Zenon DEF Owing, Same

\* The set of goroutines that owe an answer for an ID is finite.
LEMMA OwingFinite ==
  ASSUME NEW id
  PROVE  IsFiniteSet(Owing(id)) /\ Cardinality(Owing(id)) \in Nat
BY BrokerAssumption, FS_Subset, FS_CardinalityType DEF Owing

\* One final result for each intent handed in, however often it is queued and
\* handled again (broker.go:140-226).
THEOREM FinalsCorrect == Spec => []OneFinalPerSubmit
<1>1. Init => OneFinalPerSubmit
  <2>1. ASSUME Init, NEW id \in IDs
        PROVE  finals[id] + Cardinality(Owing(id)) = submitted[id]
    <3>1. Owing(id) = {}
      BY <2>1 DEF Init, Owing, Owes, Queued, LivePCs
    <3>2. Cardinality(Owing(id)) = 0
      BY <3>1, FS_EmptySet
    <3> QED BY <2>1, <3>2 DEF Init
  <2> QED BY <2>1 DEF OneFinalPerSubmit
<1>2. QueueInv /\ OneFinalPerSubmit /\ [Next]_vars => OneFinalPerSubmit'
  <2> SUFFICES ASSUME QueueInv, OneFinalPerSubmit, [Next]_vars, NEW id \in IDs
               PROVE  finals'[id] + Cardinality(Owing(id)') = submitted'[id]
    BY DEF OneFinalPerSubmit
  <2> USE BrokerAssumption DEF QueueInv, TypeOK, Goto, LivePCs
  <2>f. /\ finals[id] + Cardinality(Owing(id)) = submitted[id]
        /\ IsFiniteSet(Owing(id)) /\ Cardinality(Owing(id)) \in Nat
        /\ finals[id] \in Nat /\ submitted[id] \in Nat
    BY OwingFinite DEF OneFinalPerSubmit
  <2>q. UNCHANGED pending => \A x : Queued(x)' <=> Queued(x)
    BY DEF Queued
  <2>1. ASSUME NEW c \in Calls, NEW i \in IDs, Submit(c, i)
        PROVE  finals'[id] + Cardinality(Owing(id)') = submitted'[id]
    <3>1. c \notin Owing(id)
      BY <2>1 DEF Submit, Free, Owing, Owes
    <3>2. Owing(id)' = IF i = id THEN Owing(id) \cup {c} ELSE Owing(id)
      BY <2>1, <2>q DEF Submit, Free, Owing, Owes
    <3>3. Cardinality(Owing(id) \cup {c}) = Cardinality(Owing(id)) + 1
      BY <2>f, <3>1, FS_AddElement
    <3>4. /\ finals' = finals
          /\ submitted'[id] = IF i = id THEN submitted[id] + 1 ELSE submitted[id]
      BY <2>1 DEF Submit
    <3> QED BY <2>f, <3>2, <3>3, <3>4
  <2>2. ASSUME NEW c \in Calls, EmitResult(c)
        PROVE  finals'[id] + Cardinality(Owing(id)') = submitted'[id]
    <3>1. ~Queued(c) /\ ~Queued(c)'
      BY <2>2, <2>q DEF EmitResult, QueueConsistent, RegistrationOrder
    <3>2. wsid[c] = id => c \in Owing(id)
      BY <2>2 DEF EmitResult, Owing, Owes
    <3>3. Owing(id)' = IF wsid[c] = id THEN Owing(id) \ {c} ELSE Owing(id)
      BY <2>2, <2>q, <3>1 DEF EmitResult, Owing, Owes
    <3>4. wsid[c] = id => Cardinality(Owing(id) \ {c}) = Cardinality(Owing(id)) - 1
      BY <2>f, <3>2, FS_RemoveElement
    <3>5. /\ submitted' = submitted
          /\ finals'[id] = IF wsid[c] = id THEN finals[id] + 1 ELSE finals[id]
      BY <2>2 DEF EmitResult
    <3> QED BY <2>f, <3>3, <3>4, <3>5
  <2>3. ASSUME NEW c \in Calls, NEW d \in Calls, DequeueNext(c, d)
        PROVE  finals'[id] + Cardinality(Owing(id)') = submitted'[id]
    <3>h. PICK h \in Calls : h = Head(pending)
      BY <2>3, HeadTailProperties DEF DequeueNext, PopPending, Reenter
    <3>1. /\ Queued(h)
          /\ \A x : Queued(x)' <=> (Queued(x) /\ x # h)
      BY <2>3, <3>h, DequeueNextTails DEF QueueConsistent
    <3>2. /\ pc[h] \in {"emitQueued", "idle"} /\ h # c
          /\ pc[d] = "idle" /\ ~Queued(d) /\ d # h /\ d # c
      BY <2>3, <3>1 DEF DequeueNext, PopPending, Reenter, Free, QueueConsistent, RegistrationOrder
    <3>3. /\ d \notin Owing(id)
          /\ wsid[h] = id => h \in Owing(id)
      BY <3>1, <3>2 DEF Owing, Owes
    <3>4. /\ wsid' = [wsid EXCEPT ![d] = wsid[h]]
          /\ pc' = [pc EXCEPT ![c] = "cleanup", ![d] = "register"]
          /\ pc[c] = "dequeue"
          /\ UNCHANGED <<finals, submitted>>
      BY <2>3, <3>h DEF DequeueNext, PopPending, Reenter
    <3>5. ASSUME NEW x \in Calls, x # d, x # h
          PROVE  (wsid'[x] = id /\ Owes(x)') <=> (wsid[x] = id /\ Owes(x))
      BY <3>1, <3>2, <3>4, <3>5 DEF Owes
    <3>6. Owes(d)' /\ wsid'[d] = wsid[h]
      BY <3>2, <3>4 DEF Owes
    <3>7. ~Owes(h)' /\ ~(Owes(d) /\ wsid[d] = id)
      BY <3>1, <3>2, <3>4 DEF Owes
    <3>8. CASE wsid[h] = id
      <4>1. Owing(id)' = (Owing(id) \ {h}) \cup {d}
        BY <3>1, <3>3, <3>5, <3>6, <3>7, <3>8 DEF Owing
      <4>2. /\ Cardinality(Owing(id) \ {h}) = Cardinality(Owing(id)) - 1
            /\ IsFiniteSet(Owing(id) \ {h})
        BY <2>f, <3>3, <3>8, FS_RemoveElement
      <4>3. Cardinality((Owing(id) \ {h}) \cup {d})
              = Cardinality(Owing(id) \ {h}) + 1
        BY <3>3, <4>2, FS_AddElement
      <4> QED BY <2>f, <3>4, <4>1, <4>2, <4>3
    <3>9. CASE wsid[h] # id
      <4>1. Owing(id)' = Owing(id)
        BY <3>1, <3>2, <3>4, <3>5, <3>6, <3>7, <3>9 DEF Owing
      <4> QED BY <2>f, <3>4, <4>1
    <3> QED BY <3>8, <3>9
  <2>4. CASE \A c \in Calls : /\ ~EmitResult(c)
                              /\ \A i \in IDs : ~Submit(c, i)
                              /\ \A d \in Calls : ~DequeueNext(c, d)
    BY <2>4, <2>f, OwingKept
  <2> QED BY <2>1, <2>2, <2>3, <2>4
<1> QED BY <1>1, <1>2, TypeCorrect, QueueCorrect, PTL DEF Spec, QueueInv

-----------------------------------------------------------------------------
\* Plan IDs are distinct: none is handed in twice.
DistinctIDs == \A id \in IDs : MaxSubmits[id] <= 1

\* No ID is handed in more often than its bound, and a call that has emitted its
\* result is counted in the results (broker.go:170-219).
Counted ==
  /\ \A id \in IDs : submitted[id] <= MaxSubmits[id]
  /\ \A c \in Calls : pc[c] \in {"dequeue", "cleanup"} => finals[wsid[c]] > 0

\* Which makes the call of an ID the only one: nobody else owes an answer for
\* it, and none has been given.
LEMMA OneOwes ==
  ASSUME DistinctIDs, TypeOK, OneFinalPerSubmit, Counted, NEW c \in Calls, Owes(c)
  PROVE  /\ wsid[c] \in IDs
         /\ finals[wsid[c]] = 0
         /\ \A d \in Calls : Owes(d) /\ wsid[d] = wsid[c] => d = c
<1> DEFINE id == wsid[c]
<1>1. id \in IDs
  BY DEF TypeOK, Owes, LivePCs
<1>2. /\ c \in Owing(id) /\ IsFiniteSet(Owing(id)) /\ Cardinality(Owing(id)) \in Nat
      /\ finals[id] + Cardinality(Owing(id)) <= 1 /\ finals[id] \in Nat
  <2>1. submitted[id] <= 1
    BY <1>1, BrokerAssumption DEF DistinctIDs, Counted, TypeOK
  <2>2. c \in Owing(id)
    BY DEF Owing
  <2> QED BY <1>1, <2>1, <2>2, OwingFinite DEF OneFinalPerSubmit, TypeOK
<1>3. Cardinality(Owing(id)) = 1 /\ finals[id] = 0
  <2>1. Cardinality(Owing(id)) # 0
    BY <1>2, FS_EmptySet
  <2> QED BY <1>2, <2>1
<1>4. \E x : Owing(id) = {x}
  BY <1>2, <1>3, FS_Singleton
<1>5. ASSUME NEW d \in Calls, Owes(d), wsid[d] = id PROVE d = c
  <2>1. d \in Owing(id)
    BY <1>5 DEF Owing
  <2> QED BY <1>2, <1>4, <2>1
<1> QED BY <1>1, <1>3, <1>5

\* Every step counts what it hands in and what it emits.
LEMMA CountedStep ==
  ASSUME TypeOK, Counted, [Next]_vars
  PROVE  Counted'
<1> USE BrokerAssumption DEF TypeOK, Goto
<1>1. ASSUME NEW c \in Calls, NEW id \in IDs, Submit(c, id) PROVE Counted'
  BY <1>1 DEF Submit, Counted
<1>2. ASSUME NEW c \in Calls, EmitResult(c) PROVE Counted'
  <2>1. /\ wsid' = wsid /\ submitted' = submitted /\ wsid[c] \in IDs
        /\ finals' = [finals EXCEPT ![wsid[c]] = @ + 1]
        /\ \A x \in Calls : x # c => pc'[x] = pc[x]
    BY <1>2 DEF EmitResult
  <2>2. \A id \in IDs : finals'[id] \in Nat /\ finals'[id] >= finals[id]
    BY <2>1
  <2>3. finals'[wsid[c]] > 0
    BY <2>1
  <2> QED BY <2>1, <2>2, <2>3 DEF Counted
<1>3. ASSUME NEW c \in Calls, NEW d \in Calls, DequeueNext(c, d) PROVE Counted'
  BY <1>3 DEF DequeueNext, PopPending, Reenter, Free, Counted
<1>4. ASSUME NEW c \in Calls,
             \/ RegisterAccepted(c) \/ RegisterQueued(c) \/ EmitQueued(c)
             \/ StoreAndExecute(c) \/ DrainAndComplete(c) \/ CompleteExecError(c)
             \/ DequeueNone(c) \/ Cleanup(c)
      PROVE  Counted'
  <2>1. /\ UNCHANGED <<wsid, submitted, finals>>
        /\ \A x \in Calls : pc'[x] \in {"dequeue", "cleanup"} => pc[x] \in {"dequeue", "cleanup"}
    BY <1>4 DEF RegisterAccepted, RegisterQueued, EmitQueued, StoreAndExecute,
                DrainAndComplete, CompleteExecError, DequeueNone, Cleanup
  <2> QED BY <2>1 DEF Counted
<1>5. ASSUME NEW k \in Cancellers, (\E id \in IDs : CancelLookup(k, id)) \/ CancelComplete(k)
      PROVE  Counted'
  BY <1>5 DEF CancelLookup, CancelComplete, Counted
<1>6. CASE UNCHANGED vars
  BY <1>6 DEF vars, Counted
<1> QED BY <1>1, <1>2, <1>3, <1>4, <1>5, <1>6 DEF Next, CallStep

\* A call that executes has its cancel func in b.running.
Stored ==
  \A c \in Calls : pc[c] \in {"draining", "execError"} => running[wsid[c]] = c

\* A workstream that executes can be cancelled by its plan ID, if no other has
\* it, for any limit and any cancellers (broker.go:156-165, 229-233).
THEOREM CancellableCorrect ==
  ASSUME DistinctIDs
  PROVE  Spec => []ExecutingCancellable
<1> USE BrokerAssumption
<1>1. Init => Counted /\ Stored
  BY DEF Init, Counted, Stored
<1>2. TypeOK /\ Counted /\ [Next]_vars => Counted'
  BY CountedStep
<1>3. TypeOK /\ OneFinalPerSubmit /\ Counted /\ Stored /\ [Next]_vars => Stored'
  <2> SUFFICES ASSUME TypeOK, OneFinalPerSubmit, Counted, Stored, [Next]_vars,
                      NEW e \in Calls, pc'[e] \in {"draining", "execError"}
               PROVE  running'[wsid'[e]] = e
    BY DEF Stored
  <2> USE DEF TypeOK, Goto
  <2>1. ASSUME NEW c \in Calls, StoreAndExecute(c) PROVE running'[wsid'[e]] = e
    <3>1. /\ wsid' = wsid /\ running' = [running EXCEPT ![wsid[c]] = c]
          /\ pc[c] = "store" /\ \A x \in Calls : x # c => pc'[x] = pc[x]
          /\ wsid[c] \in IDs
      BY <2>1 DEF StoreAndExecute
    <3>2. CASE e = c
      BY <3>1, <3>2
    <3>3. CASE e # c
      <4>1. Owes(e) /\ Owes(c)
        BY <3>1, <3>3 DEF Owes, LivePCs
      <4>2. wsid[e] # wsid[c]
        BY <3>3, <4>1, OneOwes
      <4> QED BY <3>1, <3>3, <4>2 DEF Stored
    <3> QED BY <3>2, <3>3
  <2>2. ASSUME NEW c \in Calls, Cleanup(c) PROVE running'[wsid'[e]] = e
    <3>1. /\ wsid' = wsid /\ running' = [running EXCEPT ![wsid[c]] = NoCall]
          /\ pc[c] = "cleanup" /\ pc[e] \in {"draining", "execError"}
          /\ wsid[c] \in IDs /\ wsid[e] \in IDs
      BY <2>2 DEF Cleanup
    <3>2. Owes(e)
      BY <3>1 DEF Owes, LivePCs
    <3>3. finals[wsid[e]] = 0 /\ finals[wsid[c]] > 0
      BY <3>1, <3>2, OneOwes DEF Counted
    <3> QED BY <3>1, <3>3 DEF Stored
  <2>3. ASSUME NEW c \in Calls,
               \/ \E id \in IDs : Submit(c, id)
               \/ RegisterAccepted(c) \/ RegisterQueued(c) \/ EmitQueued(c)
               \/ DrainAndComplete(c) \/ CompleteExecError(c) \/ EmitResult(c)
               \/ DequeueNone(c) \/ \E d \in Calls : DequeueNext(c, d)
        PROVE  running'[wsid'[e]] = e
    <3>1. /\ running' = running /\ pc[e] \in {"draining", "execError"}
          /\ wsid'[e] = wsid[e]
      BY <2>3 DEF Submit, RegisterAccepted, RegisterQueued, EmitQueued, DrainAndComplete,
                  CompleteExecError, EmitResult, DequeueNone, DequeueNext, PopPending,
                  Reenter, Free
    <3> QED BY <3>1 DEF Stored
  <2>4. ASSUME NEW k \in Cancellers, (\E id \in IDs : CancelLookup(k, id)) \/ CancelComplete(k)
        PROVE  running'[wsid'[e]] = e
    BY <2>4 DEF CancelLookup, CancelComplete, Stored
  <2>5. CASE UNCHANGED vars
    BY <2>5 DEF vars, Stored
  <2> QED BY <2>1, <2>2, <2>3, <2>4, <2>5 DEF Next, CallStep
<1>4. TypeOK /\ Stored => ExecutingCancellable
  BY DEF TypeOK, Stored, ExecutingCancellable
<1> QED BY <1>1, <1>2, <1>3, <1>4, TypeCorrect, FinalsCorrect, PTL DEF Spec

\* The registry's entry for the plan of a call that executes is that call's, and
\* it is Running.
LiveEntry ==
  \A c \in Calls : pc[c] \in LivePCs => workstreams[wsid[c]] = c /\ status[c] = "running"

\* Then the calls that execute are as many as the entries that do, and the limit
\* binds what really runs, whatever Dequeue promotes (broker.go:54,
\* workstream.go:44-48, 72-86).
THEOREM LiveLimitCorrect ==
  ASSUME DistinctIDs, Cancellers = {}
  PROVE  Spec => []LiveWithinLimit
<1> USE BrokerAssumption
<1>1. Init => Counted /\ LiveEntry
  BY DEF Init, Counted, LiveEntry, LivePCs
<1>2. TypeOK /\ Counted /\ [Next]_vars => Counted'
  BY CountedStep
<1>3. QueueInv /\ OneFinalPerSubmit /\ Counted /\ LiveEntry /\ [Next]_vars => LiveEntry'
  <2> SUFFICES ASSUME QueueInv, OneFinalPerSubmit, Counted, LiveEntry, [Next]_vars,
                      NEW e \in Calls, pc'[e] \in LivePCs
               PROVE  workstreams'[wsid'[e]] = e /\ status'[e] = "running"
    BY DEF LiveEntry
  <2> USE DEF QueueInv, TypeOK, Goto, LivePCs
  <2>0. \A x \in Calls : pc[x] \in LivePCs \cup {"register"} => Owes(x) /\ wsid[x] \in IDs
    BY DEF Owes
  <2>1. ASSUME NEW c \in Calls, RegisterAccepted(c) \/ RegisterQueued(c)
        PROVE  workstreams'[wsid'[e]] = e /\ status'[e] = "running"
    <3>1. /\ wsid' = wsid /\ workstreams' = [workstreams EXCEPT ![wsid[c]] = c]
          /\ pc[c] = "register" /\ \A x \in Calls : x # c => pc'[x] = pc[x] /\ status'[x] = status[x]
      BY <2>1 DEF RegisterAccepted, RegisterQueued
    <3>2. CASE e = c
      BY <2>0, <2>1, <3>1, <3>2 DEF RegisterAccepted, RegisterQueued
    <3>3. CASE e # c
      <4>1. wsid[e] # wsid[c]
        BY <2>0, <3>1, <3>3, OneOwes
      <4> QED BY <2>0, <3>1, <3>3, <4>1 DEF LiveEntry
    <3> QED BY <3>2, <3>3
  <2>2. ASSUME NEW c \in Calls, DrainAndComplete(c) \/ CompleteExecError(c)
        PROVE  workstreams'[wsid'[e]] = e /\ status'[e] = "running"
    <3>1. /\ wsid' = wsid /\ workstreams' = workstreams /\ e # c
          /\ pc[c] \in LivePCs /\ pc[e] \in LivePCs
          /\ \E s \in Terminal : Complete(wsid[c], s)
      BY <2>2 DEF DrainAndComplete, CompleteExecError, Terminal
    <3>2. workstreams[wsid[c]] = c /\ workstreams[wsid[e]] = e /\ status[e] = "running"
      BY <3>1 DEF LiveEntry
    <3> QED BY <3>1, <3>2 DEF Complete
  <2>3. ASSUME NEW c \in Calls, NEW d \in Calls, DequeueNext(c, d)
        PROVE  workstreams'[wsid'[e]] = e /\ status'[e] = "running"
    <3>1. /\ pc[c] = "dequeue" /\ pc[d] = "idle" /\ workstreams' = workstreams
          /\ pc' = [pc EXCEPT ![c] = "cleanup", ![d] = "register"]
          /\ wsid' = [wsid EXCEPT ![d] = wsid[Head(pending)]]
          /\ status' = [status EXCEPT ![Head(pending)] = "running", ![d] = "unregistered"]
      BY <2>3 DEF DequeueNext, PopPending, Reenter, Free
    <3>2. e # d /\ e # c /\ pc[e] \in LivePCs
      BY <3>1
    <3>3. workstreams[wsid[e]] = e /\ status[e] = "running"
      BY <3>2 DEF LiveEntry
    <3>4. status'[e] = "running"
      BY <3>1, <3>2, <3>3
    <3> QED BY <3>1, <3>2, <3>3, <3>4
  <2>4. ASSUME NEW c \in Calls, NEW id \in IDs, Submit(c, id)
        PROVE  workstreams'[wsid'[e]] = e /\ status'[e] = "running"
    BY <2>4 DEF Submit, Free, LiveEntry
  <2>5. ASSUME NEW c \in Calls,
               \/ EmitQueued(c) \/ StoreAndExecute(c) \/ EmitResult(c)
               \/ DequeueNone(c) \/ Cleanup(c)
        PROVE  workstreams'[wsid'[e]] = e /\ status'[e] = "running"
    <3>1. UNCHANGED <<workstreams, wsid, status>> /\ pc[e] \in LivePCs
      BY <2>5 DEF EmitQueued, StoreAndExecute, EmitResult, DequeueNone, Cleanup
    <3> QED BY <3>1 DEF LiveEntry
  <2>6. CASE UNCHANGED vars
    BY <2>6 DEF vars, LiveEntry
  <2> QED BY <2>1, <2>2, <2>3, <2>4, <2>5, <2>6 DEF Next, CallStep
<1>4. QueueInv /\ OneFinalPerSubmit /\ Counted /\ LiveEntry /\ ExecutingWithinLimit
        => LiveWithinLimit
  <2> SUFFICES ASSUME QueueInv, OneFinalPerSubmit, Counted, LiveEntry,
                      ExecutingWithinLimit, MaxConcurrent > 0
               PROVE  Cardinality(LiveCalls) <= MaxConcurrent
    BY DEF LiveWithinLimit
  <2> DEFINE f == [c \in LiveCalls |-> wsid[c]]
  <2>1. IsFiniteSet(LiveCalls) /\ IsFiniteSet(ExecutingIDs)
    BY FS_Subset DEF LiveCalls, ExecutingIDs, ActiveIDs
  <2>2. \A c \in LiveCalls : wsid[c] \in ExecutingIDs
    BY DEF LiveCalls, LiveEntry, ExecutingIDs, ActiveIDs, QueueInv, TypeOK, LivePCs
  <2>3. \A c, d \in LiveCalls : wsid[c] = wsid[d] => c = d
    BY DEF LiveCalls, LiveEntry
  <2>4. f \in Injection(LiveCalls, ExecutingIDs)
    BY <2>2, <2>3 DEF Injection, IsInjective
  <2>5. Cardinality(LiveCalls) <= Cardinality(ExecutingIDs)
    BY <2>1, <2>4, FS_Injection
  <2>6. Cardinality(LiveCalls) \in Nat /\ Cardinality(ExecutingIDs) \in Nat
    BY <2>1, FS_CardinalityType
  <2> QED BY <2>5, <2>6 DEF ExecutingWithinLimit
<1> QED BY <1>1, <1>2, <1>3, <1>4, TypeCorrect, QueueCorrect, FinalsCorrect,
           ExecutingLimitCorrect, PTL DEF Spec, QueueInv
=============================================================================
