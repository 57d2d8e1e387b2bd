------------------------------ MODULE HubProofs ------------------------------
(***************************************************************************)
(* Theorems about Hub for every set of connections and every number of     *)
(* messages: types, that the hub routes to the live connection, and that   *)
(* each message is at one place and arrives in order.                      *)
(***************************************************************************)
EXTENDS Hub, SequenceTheorems, FiniteSetTheorems, TLAPS

\* A relay that is about to forward holds a message (hub.go:203, 216).
HandFull == \A c \in Conns : relayPC[c] = "forward" => hand[c] \in Messages

TypeInv == TypeOK /\ HandFull

-----------------------------------------------------------------------------
\* Facts about the data that the steps of a relay and of Run rest on.
LEMMA Data ==
  /\ \A r \in Roles : Other(r) \in Roles
  /\ \A c \in Conns, n \in Nat : [via |-> c, n |-> n] \in Messages
  /\ "none" \notin Roles /\ "unknown" \notin Roles
BY DEF Other, Roles, Messages

\* What Head, Tail and Append do to the types of a sequence.
LEMMA SeqTypes ==
  ASSUME NEW S, NEW s \in Seq(S), NEW x \in S
  PROVE  /\ Append(s, x) \in Seq(S)
         /\ s # <<>> => Head(s) \in S /\ Tail(s) \in Seq(S)
         /\ <<>> \in Seq(S)
OBVIOUS

\* Every step preserves the types, and the message in a relay's hands.
LEMMA TypeStep == TypeInv /\ [Next]_vars => TypeInv'
<1> SUFFICES ASSUME TypeOK, HandFull, [Next]_vars
             PROVE  TypeOK' /\ HandFull'
  BY DEF TypeInv
<1> USE Data, HubAssumption
<1>1. ASSUME NEW c \in Conns, NEW r \in Roles \cup {"unknown"}, Dial(c, r)
      PROVE  TypeOK' /\ HandFull'
  BY <1>1, SeqTypes DEF Dial, TypeOK, HandFull, relayVars, hubVars
<1>2. ASSUME NEW c \in Conns, ClientSend(c) PROVE TypeOK' /\ HandFull'
  <2>1. /\ Append(sent[reg[c]], c) \in Seq(Conns)
        /\ Len(sent[reg[c]]) + 1 \in Nat
    BY <1>2, SeqTypes DEF ClientSend, TypeOK
  <2>2. Append(inbox[c], [via |-> c, n |-> Len(sent[reg[c]]) + 1]) \in Seq(Messages)
    BY <2>1, SeqTypes DEF TypeOK
  <2> QED BY <1>2, <2>1, <2>2
          DEF ClientSend, TypeOK, HandFull, clientVars, relayVars, hubVars
<1>3. ASSUME NEW c \in Conns, ClientClose(c) PROVE TypeOK' /\ HandFull'
  BY <1>3 DEF ClientClose, TypeOK, HandFull, relayVars, hubVars
<1>4. ASSUME NEW c \in Conns, Reject(c) PROVE TypeOK' /\ HandFull'
  BY <1>4, SeqTypes DEF Reject, TypeOK, HandFull, relayVars
<1>5. ASSUME NEW c \in Conns, Register(c) PROVE TypeOK' /\ HandFull'
  <2>1. /\ reg[c] \in Roles /\ queue[reg[c]] \in Seq(Messages)
        /\ Tail(backlog) \in Seq(Conns)
    BY <1>5, SeqTypes DEF Register, TypeOK
  <2>2. PICK k \in 0..Len(queue[reg[c]]) :
          /\ written' = [written EXCEPT ![c] = SubSeq(queue[reg[c]], 1, k)]
          /\ dropped' = dropped \cup {queue[reg[c]][i] : i \in (k + 1)..Len(queue[reg[c]])}
          /\ gone' = [gone EXCEPT ![c] = @ \/ k < Len(queue[reg[c]])]
    BY <1>5 DEF Register
  <2>5. /\ written' \in [Conns -> Seq(Messages)]
        /\ dropped' \in SUBSET Messages
        /\ gone' \in [Conns -> BOOLEAN]
    <3>1. SubSeq(queue[reg[c]], 1, k) \in Seq(Messages)
      BY <2>1
    <3>2. \A i \in (k + 1)..Len(queue[reg[c]]) : queue[reg[c]][i] \in Messages
      BY <2>1
    <3> QED BY <2>2, <3>1, <3>2 DEF TypeOK
  <2>3. /\ queue' \in [Roles -> Seq(Messages)]
        /\ cancelled' \in [Conns -> BOOLEAN]
        /\ closed' \in [Conns -> BOOLEAN]
        /\ current' \in [Roles -> Conns \cup {NoConn}]
    <3>1. <<>> \in Seq(Messages)
      OBVIOUS
    <3> QED BY <1>5, <2>1, <3>1
            DEF Register, ClearQueue, CancelRelay, CloseReplaced, TypeOK
  <2>4. relayPC' = [relayPC EXCEPT ![c] = "check"]
    BY <1>5 DEF Register, Goto
  <2>6. /\ backlog' = Tail(backlog)
        /\ UNCHANGED <<reg, inbox, hand, peer, sent, down>>
    BY <1>5 DEF Register
  <2>7. /\ relayPC' \in [Conns -> RelayPCs]
        /\ \A d \in Conns : relayPC'[d] # "none" => reg'[d] \in Roles
    BY <2>1, <2>4, <2>6 DEF TypeOK, RelayPCs
  <2>8. TypeOK'
    BY <2>1, <2>3, <2>5, <2>6, <2>7 DEF TypeOK
  <2>9. HandFull'
    BY <2>4, <2>6 DEF TypeOK, HandFull
  <2> QED BY <2>8, <2>9
<1>6. ASSUME NEW c \in Conns, RelayCheck(c) PROVE TypeOK' /\ HandFull'
  BY <1>6 DEF RelayCheck, Goto, TypeOK, HandFull, RelayPCs, clientVars, hubVars
<1>7. ASSUME NEW c \in Conns, RelayRecv(c) PROVE TypeOK' /\ HandFull'
  <2>1. /\ Head(inbox[c]) \in Messages /\ Tail(inbox[c]) \in Seq(Messages)
        /\ reg[c] \in Roles
        /\ current[Other(reg[c])] \in Conns \cup {NoConn}
    BY <1>7, SeqTypes DEF RelayRecv, TypeOK
  <2> QED BY <1>7, <2>1
          DEF RelayRecv, Goto, TypeOK, HandFull, RelayPCs, clientVars, hubVars
<1>8. ASSUME NEW c \in Conns, RelayDisconnect(c) PROVE TypeOK' /\ HandFull'
  BY <1>8 DEF RelayDisconnect, Forget, Goto, TypeOK, HandFull, RelayPCs, clientVars
<1>9. ASSUME NEW c \in Conns, RelaySend(c) PROVE TypeOK' /\ HandFull'
  <2>1. /\ peer[c] \in Conns /\ hand[c] \in Messages
        /\ Append(written[peer[c]], hand[c]) \in Seq(Messages)
    BY <1>9, SeqTypes DEF RelaySend, Reachable, TypeOK, HandFull
  <2> QED BY <1>9, <2>1
          DEF RelaySend, NextRound, Goto, TypeOK, HandFull, RelayPCs, clientVars
<1>10. ASSUME NEW c \in Conns, RelayQueue(c) PROVE TypeOK' /\ HandFull'
  <2>1. /\ reg[c] \in Roles /\ Other(reg[c]) \in Roles /\ hand[c] \in Messages
        /\ Append(queue[Other(reg[c])], hand[c]) \in Seq(Messages)
    BY <1>10, SeqTypes DEF RelayQueue, TypeOK, HandFull
  <2> QED BY <1>10, <2>1
          DEF RelayQueue, Enqueue, NextRound, Goto, TypeOK, HandFull, RelayPCs, clientVars
<1>11. CASE SwapBackend
  BY <1>11 DEF SwapBackend, CancelRelay, TypeOK, HandFull, clientVars, Roles
<1>12. ASSUME StopRun \/ Close PROVE TypeOK' /\ HandFull'
  <2>1. backlog \in Seq(Conns) /\ CloseListener
    BY <1>12 DEF StopRun, Close, TypeOK
  <2>2. backlog' \in Seq(Conns)
    <3>1. CASE backlog' = <<>>
      BY <3>1
    <3>2. CASE backlog # <<>> /\ backlog' = <<Head(backlog)>>
      <4>1. Head(backlog) \in Conns
        BY <2>1, <3>2
      <4> QED BY <3>2, <4>1
    <3> QED BY <2>1, <3>1, <3>2 DEF CloseListener
  <2> QED BY <1>12, <2>2 DEF StopRun, Close, TypeOK, HandFull
<1>13. CASE UNCHANGED vars
  BY <1>13 DEF vars, TypeOK, HandFull, clientVars, relayVars, hubVars
<1> QED BY <1>1, <1>2, <1>3, <1>4, <1>5, <1>6, <1>7, <1>8, <1>9, <1>10, <1>11,
           <1>12, <1>13 DEF Next, Relay

\* Nobody has connected yet.
LEMMA TypeInit == Init => TypeInv
<1>1. <<>> \in Seq(Conns) /\ <<>> \in Seq(Messages)
  OBVIOUS
<1> QED BY <1>1 DEF Init, TypeInv, TypeOK, HandFull, RelayPCs

\* The types hold for every set of connections and every traffic on them
\* (hub.go:51-270).
THEOREM HubTypeCorrect == Spec => [](TypeOK /\ HandFull)
BY TypeInit, TypeStep, PTL DEF Spec, TypeInv

-----------------------------------------------------------------------------
\* The hub routes to a role's live connection, however late the relay of the
\* one before ends (hub.go:145-195, 204-212, 242-250).
THEOREM LiveIsCurrentCorrect == Spec => []LiveIsCurrent
<1>1. Init => LiveIsCurrent
  BY DEF Init, LiveIsCurrent
<1>2. TypeOK /\ LiveIsCurrent /\ [Next]_vars => LiveIsCurrent'
  <2> SUFFICES ASSUME TypeOK, LiveIsCurrent, [Next]_vars, NEW d \in Conns,
                      relayPC'[d] # "none", Writable(d)'
               PROVE  current'[reg'[d]] = d
    BY DEF LiveIsCurrent
  <2> USE DEF Writable
  <2>1. ASSUME NEW c \in Conns, Register(c) PROVE current'[reg'[d]] = d
    <3>1. /\ reg' = reg
          /\ \E b \in BOOLEAN : gone' = [gone EXCEPT ![c] = b]
          /\ current' = [current EXCEPT ![reg[c]] = c]
          /\ relayPC' = [relayPC EXCEPT ![c] = "check"]
          /\ closed' = [x \in Conns |-> closed[x] \/ x = current[reg[c]]]
      BY <2>1 DEF Register, CloseReplaced, Goto, TypeOK
    <3>2. CASE d = c
      BY <2>1, <3>1, <3>2 DEF Register, TypeOK
    <3>3. CASE d # c
      <4>1. relayPC[d] # "none" /\ ~closed[d] /\ ~gone[d] /\ d # current[reg[c]]
        BY <3>1, <3>3 DEF TypeOK
      <4>2. current[reg[d]] = d
        BY <4>1 DEF LiveIsCurrent
      <4> QED BY <3>1, <4>1, <4>2 DEF TypeOK
    <3> QED BY <3>2, <3>3
  <2>2. ASSUME NEW c \in Conns, RelayDisconnect(c) PROVE current'[reg'[d]] = d
    <3>1. /\ reg' = reg /\ gone' = gone /\ closed' = closed
          /\ relayPC' = [relayPC EXCEPT ![c] = "ended"]
          /\ relayPC[c] = "recv" /\ (closed[c] \/ gone[c])
      BY <2>2 DEF RelayDisconnect, Goto, clientVars
    <3>2. d # c /\ relayPC[d] # "none" /\ current[reg[d]] = d /\ reg[d] \in Roles
      BY <3>1 DEF LiveIsCurrent, TypeOK
    <3> QED BY <2>2, <3>1, <3>2 DEF RelayDisconnect, Forget
  <2>3. CASE SwapBackend
    <3>1. /\ reg' = reg /\ gone' = gone /\ relayPC' = relayPC
          /\ current["backend"] \in Conns
          /\ closed' = [closed EXCEPT ![current["backend"]] = TRUE]
          /\ current' = [current EXCEPT !["backend"] = NoConn]
      BY <2>3 DEF SwapBackend, clientVars, TypeOK, Roles
    <3>2. d # current["backend"] /\ ~closed[d] /\ ~gone[d]
      BY <3>1 DEF TypeOK
    <3>3. current[reg[d]] = d
      BY <3>1, <3>2 DEF LiveIsCurrent
    <3> QED BY <3>1, <3>2, <3>3 DEF TypeOK
  <2>4. ASSUME NEW c \in Conns, NEW r \in Roles \cup {"unknown"}, Dial(c, r)
        PROVE  current'[reg'[d]] = d
    <3>1. /\ reg[c] = "none" /\ reg' = [reg EXCEPT ![c] = r]
          /\ gone' = gone /\ closed' = closed /\ relayPC' = relayPC
          /\ current' = current
      BY <2>4 DEF Dial, relayVars, hubVars
    <3>2. relayPC[c] = "none"
      BY <3>1, Data DEF TypeOK
    <3> QED BY <3>1, <3>2 DEF LiveIsCurrent, TypeOK
  <2>5. ASSUME NEW c \in Conns, Reject(c) PROVE current'[reg'[d]] = d
    BY <2>5 DEF Reject, LiveIsCurrent, TypeOK, relayVars
  <2>6. ASSUME NEW c \in Conns,
               RelayCheck(c) \/ RelayRecv(c) \/ RelaySend(c) \/ RelayQueue(c)
        PROVE  current'[reg'[d]] = d
    <3>1. /\ reg' = reg /\ gone' = gone /\ closed' = closed /\ current' = current
          /\ relayPC[c] # "none"
          /\ \E l \in RelayPCs : relayPC' = [relayPC EXCEPT ![c] = l]
      BY <2>6 DEF RelayCheck, RelayRecv, RelaySend, RelayQueue, NextRound, Goto,
                  clientVars, hubVars, RelayPCs
    <3> QED BY <3>1 DEF LiveIsCurrent, TypeOK
  <2>7. ASSUME NEW c \in Conns, ClientSend(c) \/ ClientClose(c)
        PROVE  current'[reg'[d]] = d
    BY <2>7 DEF ClientSend, ClientClose, LiveIsCurrent, TypeOK, clientVars,
                relayVars, hubVars
  <2>8. CASE StopRun \/ Close
    BY <2>8 DEF StopRun, Close, LiveIsCurrent, TypeOK
  <2>9. CASE UNCHANGED vars
    BY <2>9 DEF vars, LiveIsCurrent, clientVars, relayVars, hubVars
  <2> QED BY <2>1, <2>2, <2>3, <2>4, <2>5, <2>6, <2>7, <2>8, <2>9 DEF Next, Relay
<1> QED BY <1>1, <1>2, HubTypeCorrect, PTL DEF Spec

-----------------------------------------------------------------------------
\* Messages of one client are in the order sent.
Ordered(q) ==
  \A i, j \in DOMAIN q : (i < j /\ q[i].via = q[j].via) => q[i].n < q[j].n

\* The messages that a relay has passed on, to where they stay or wait.
Passed ==
  UNION ({Range(queue[r]) : r \in Roles} \cup {Range(written[d]) : d \in Conns}
           \cup {dropped})

\* m is one of the messages that the client of its connection has sent.
Sent(m) == reg[m.via] \in Roles /\ m.n \in 1..Len(sent[reg[m.via]])

\* A connection waits once, and until it is registered it has no relay and
\* nothing has been written to it: relays know registered connections only.
Waiting ==
  /\ \A i, j \in DOMAIN backlog : backlog[i] = backlog[j] => i = j
  /\ \A i \in DOMAIN backlog : reg[backlog[i]] # "none" /\ relayPC[backlog[i]] = "none"
  /\ \A c \in Conns : relayPC[c] = "none" => written[c] = <<>>
  /\ \A r \in Roles : current[r] # NoConn => relayPC[current[r]] # "none"
  /\ \A c \in Conns : peer[c] # NoConn => relayPC[peer[c]] # "none"

\* What comes from a client is in order, the message in the relay's hands first.
Stream ==
  \A c \in Conns :
    /\ Ordered(inbox[c])
    /\ \A m \in Range(inbox[c]) : m.via = c /\ Sent(m)
    /\ relayPC[c] # "forward" => hand[c] = NoMessage
    /\ relayPC[c] = "forward" =>
         /\ hand[c].via = c /\ Sent(hand[c])
         /\ \A m \in Range(inbox[c]) : hand[c].n < m.n

\* What has been passed on was sent before what has not.
Ahead ==
  \A m \in Passed :
    /\ Sent(m)
    /\ \A x \in Range(inbox[m.via]) : m.n < x.n
    /\ relayPC[m.via] = "forward" => m.n < hand[m.via].n

\* The queues, the connections and what was dropped share no message, and each
\* has a client's messages in order.
Apart ==
  /\ \A r \in Roles : Ordered(queue[r]) /\ Range(queue[r]) \cap dropped = {}
  /\ \A d \in Conns : Ordered(written[d]) /\ Range(written[d]) \cap dropped = {}
  /\ \A r, s \in Roles : r # s => Range(queue[r]) \cap Range(queue[s]) = {}
  /\ \A d, f \in Conns : d # f => Range(written[d]) \cap Range(written[f]) = {}
  /\ \A r \in Roles, d \in Conns : Range(queue[r]) \cap Range(written[d]) = {}

\* Every message sent is somewhere.
Complete ==
  \A r \in Roles : \A n \in DOMAIN sent[r] :
    LET m == [via |-> sent[r][n], n |-> n]
    IN  m \in Range(inbox[m.via]) \/ m = hand[m.via] \/ m \in Passed

-----------------------------------------------------------------------------
\* What the hub's operations on its queues and buffers do to the messages in
\* them and to their order.  Appending one that is later than its client's others:
LEMMA QueueAppend ==
  ASSUME NEW q \in Seq(Messages), NEW x \in Messages
  PROVE  /\ Append(q, x) \in Seq(Messages)
         /\ Range(Append(q, x)) = Range(q) \cup {x}
         /\ Ordered(q) /\ (\A m \in Range(q) : m.via = x.via => m.n < x.n)
              => Ordered(Append(q, x))
<1>1. /\ Append(q, x) \in Seq(Messages)
      /\ Len(Append(q, x)) = Len(q) + 1 /\ Len(q) \in Nat
      /\ \A i \in 1..Len(q) : Append(q, x)[i] = q[i]
      /\ Append(q, x)[Len(q) + 1] = x
      /\ DOMAIN q = 1..Len(q) /\ DOMAIN Append(q, x) = 1..(Len(q) + 1)
  BY AppendProperties, LenProperties
<1>2. Range(Append(q, x)) = Range(q) \cup {x}
  <2>1. \A y : y \in Range(Append(q, x)) => y \in Range(q) \cup {x}
    BY <1>1 DEF Range
  <2>2. \A y : y \in Range(q) => y \in Range(Append(q, x))
    BY <1>1 DEF Range
  <2>3. x \in Range(Append(q, x))
    BY <1>1 DEF Range
  <2> QED BY <2>1, <2>2, <2>3
<1>3. ASSUME Ordered(q), \A m \in Range(q) : m.via = x.via => m.n < x.n
      PROVE  Ordered(Append(q, x))
  <2> SUFFICES ASSUME NEW i \in 1..(Len(q) + 1), NEW j \in 1..(Len(q) + 1), i < j,
                      Append(q, x)[i].via = Append(q, x)[j].via
               PROVE  Append(q, x)[i].n < Append(q, x)[j].n
    BY <1>1 DEF Ordered
  <2>1. i \in 1..Len(q) /\ q[i] \in Range(q) /\ Append(q, x)[i] = q[i]
    BY <1>1 DEF Range
  <2>2. CASE j \in 1..Len(q)
    BY <1>1, <1>3, <2>1, <2>2 DEF Ordered
  <2>3. CASE j = Len(q) + 1
    BY <1>1, <1>3, <2>1, <2>3
  <2> QED BY <1>1, <2>2, <2>3
<1> QED BY <1>1, <1>2, <1>3

\* Decoding takes the first message off.
LEMMA QueueTail ==
  ASSUME NEW q \in Seq(Messages), q # <<>>
  PROVE  /\ Head(q) \in Messages /\ Tail(q) \in Seq(Messages)
         /\ Range(q) = {Head(q)} \cup Range(Tail(q))
         /\ Ordered(q) => /\ Ordered(Tail(q))
                          /\ \A m \in Range(Tail(q)) : m.via = Head(q).via => Head(q).n < m.n
<1>1. /\ Head(q) = q[1] /\ Head(q) \in Messages /\ Tail(q) \in Seq(Messages)
      /\ Len(q) \in Nat \ {0} /\ DOMAIN q = 1..Len(q)
      /\ DOMAIN Tail(q) = 1..(Len(q) - 1)
      /\ \A i \in 1..(Len(q) - 1) : Tail(q)[i] = q[i + 1]
  BY HeadTailProperties, LenProperties, EmptySeq
<1>2. Range(q) = {Head(q)} \cup Range(Tail(q))
  <2>1. ASSUME NEW i \in 1..Len(q) PROVE q[i] \in {Head(q)} \cup Range(Tail(q))
    <3>1. CASE i = 1
      BY <1>1, <3>1
    <3>2. CASE i # 1
      <4>1. i - 1 \in 1..(Len(q) - 1) /\ (i - 1) + 1 = i
        BY <1>1, <3>2
      <4>2. Tail(q)[i - 1] = q[i]
        BY <1>1, <4>1
      <4> QED BY <1>1, <4>1, <4>2 DEF Range
    <3> QED BY <3>1, <3>2
  <2>2. \A i \in 1..(Len(q) - 1) : i + 1 \in 1..Len(q)
    BY <1>1
  <2>3. \A y : y \in Range(Tail(q)) => y \in Range(q)
    BY <1>1, <2>2 DEF Range
  <2>4. Head(q) \in Range(q)
    BY <1>1 DEF Range
  <2>5. \A y : y \in Range(q) => y \in {Head(q)} \cup Range(Tail(q))
    BY <1>1, <2>1 DEF Range
  <2> QED BY <2>3, <2>4, <2>5
<1>3. ASSUME Ordered(q) PROVE Ordered(Tail(q))
  <2> SUFFICES ASSUME NEW i \in 1..(Len(q) - 1), NEW j \in 1..(Len(q) - 1), i < j,
                      Tail(q)[i].via = Tail(q)[j].via
               PROVE  Tail(q)[i].n < Tail(q)[j].n
    BY <1>1 DEF Ordered
  <2>1. i + 1 \in 1..Len(q) /\ j + 1 \in 1..Len(q) /\ i + 1 < j + 1
    BY <1>1
  <2> QED BY <1>1, <1>3, <2>1 DEF Ordered
<1>4. ASSUME Ordered(q), NEW i \in 1..(Len(q) - 1), Tail(q)[i].via = Head(q).via
      PROVE  Head(q).n < Tail(q)[i].n
  <2>1. 1 \in 1..Len(q) /\ i + 1 \in 1..Len(q) /\ 1 < i + 1
    BY <1>1
  <2> QED BY <1>1, <1>4, <2>1 DEF Ordered
<1>5. ASSUME Ordered(q)
      PROVE  \A m \in Range(Tail(q)) : m.via = Head(q).via => Head(q).n < m.n
  BY <1>1, <1>4, <1>5 DEF Range
<1> QED BY <1>1, <1>2, <1>3, <1>5

\* A drain that stops after k messages splits the queue in two.
LEMMA QueuePrefix ==
  ASSUME NEW q \in Seq(Messages), NEW k \in 0..Len(q)
  PROVE  LET rest == {q[i] : i \in (k + 1)..Len(q)}
         IN  /\ SubSeq(q, 1, k) \in Seq(Messages)
             /\ Range(SubSeq(q, 1, k)) \cup rest = Range(q)
             /\ Ordered(q) => /\ Ordered(SubSeq(q, 1, k))
                              /\ Range(SubSeq(q, 1, k)) \cap rest = {}
<1> DEFINE p == SubSeq(q, 1, k)
           rest == {q[i] : i \in (k + 1)..Len(q)}
<1>1. /\ p \in Seq(Messages) /\ Len(p) = k /\ Len(q) \in Nat
      /\ DOMAIN p = 1..k /\ DOMAIN q = 1..Len(q)
      /\ \A i \in 1..k : p[i] = q[i]
  <2>1. Len(q) \in Nat /\ DOMAIN q = 1..Len(q) /\ \A i \in 1..Len(q) : q[i] \in Messages
    BY LenProperties, ElementOfSeq
  <2>2. k \in Nat /\ \A i \in 1..k : q[i] \in Messages
    BY <2>1
  <2>3. /\ p \in Seq(Messages) /\ Len(p) = k
        /\ \A i \in 1..k : p[i] = q[i]
    BY <2>2, SubSeqProperties
  <2> QED BY <2>1, <2>3, LenProperties
<1> HIDE DEF p
<1>2. Range(p) \cup rest = Range(q)
  <2>1. \A i \in 1..Len(q) : i \in 1..k \/ i \in (k + 1)..Len(q)
    BY <1>1
  <2>2. \A i \in 1..k : i \in 1..Len(q)
    BY <1>1
  <2>3. \A i \in (k + 1)..Len(q) : i \in 1..Len(q)
    BY <1>1
  <2>4. \A y : y \in Range(q) => y \in Range(p) \cup rest
    BY <1>1, <2>1 DEF Range
  <2>5. \A y : y \in Range(p) => y \in Range(q)
    BY <1>1, <2>2 DEF Range
  <2>6. \A y : y \in rest => y \in Range(q)
    BY <1>1, <2>3 DEF Range
  <2> QED BY <2>4, <2>5, <2>6
<1>3. ASSUME Ordered(q) PROVE Ordered(p)
  BY <1>1, <1>3 DEF Ordered
<1>4. ASSUME Ordered(q) PROVE Range(p) \cap rest = {}
  <2> SUFFICES ASSUME NEW i \in 1..k, NEW j \in (k + 1)..Len(q), q[i] = q[j]
               PROVE  FALSE
    BY <1>1 DEF Range
  <2>1. i \in DOMAIN q /\ j \in DOMAIN q /\ i < j /\ q[i] \in Messages
    BY <1>1, ElementOfSeq
  <2>2. q[i].n < q[i].n /\ q[i].n \in Nat
    BY <1>4, <2>1 DEF Ordered, Messages
  <2> QED BY <2>2
<1> QED BY <1>1, <1>2, <1>3, <1>4 DEF p

\* An empty queue is a queue in order.
LEMMA QueueEmpty ==
  /\ <<>> \in Seq(Messages) /\ Range(<<>>) = {} /\ Ordered(<<>>)
BY DEF Range, Ordered

-----------------------------------------------------------------------------
\* A message that was sent stays one of those that were sent: a client has its
\* role from its registration on.
LEMMA SentStays ==
  ASSUME TypeOK, [Next]_vars, NEW m \in Messages, Sent(m)
  PROVE  Sent(m)'
<1>1. m.via \in Conns /\ m.n \in Nat
  BY DEF Messages
<1>2. ASSUME NEW c \in Conns, NEW r \in Roles \cup {"unknown"}, Dial(c, r)
      PROVE  Sent(m)'
  BY <1>1, <1>2, Data DEF Dial, Sent, TypeOK
<1>3. ASSUME NEW c \in Conns, ClientSend(c) PROVE Sent(m)'
  <2>1. reg' = reg /\ reg[c] \in Roles /\ sent' = [sent EXCEPT ![reg[c]] = Append(@, c)]
    BY <1>3 DEF ClientSend, clientVars
  <2>2. sent[reg[c]] \in Seq(Conns)
    BY <2>1 DEF TypeOK
  <2>3. /\ Len(Append(sent[reg[c]], c)) = Len(sent[reg[c]]) + 1
        /\ Len(sent[reg[c]]) \in Nat
    BY <2>2, AppendProperties, LenProperties
  <2>4. DOMAIN sent = Roles
    BY DEF TypeOK
  <2> QED BY <1>1, <2>1, <2>3, <2>4 DEF Sent
<1>4. ASSUME UNCHANGED <<reg, sent>> PROVE Sent(m)'
  BY <1>4 DEF Sent
<1>5. ASSUME NEW c \in Conns, ClientClose(c) \/ Reject(c) \/ Register(c) \/ Relay(c)
      PROVE  UNCHANGED <<reg, sent>>
  BY <1>5 DEF ClientClose, Reject, Register, Relay, RelayCheck, RelayRecv,
              RelayDisconnect, RelaySend, RelayQueue, clientVars
<1>6. CASE SwapBackend \/ StopRun \/ Close \/ UNCHANGED vars
  BY <1>4, <1>6 DEF SwapBackend, StopRun, Close, vars, clientVars
<1> QED BY <1>2, <1>3, <1>4, <1>5, <1>6 DEF Next

\* Registration takes the connections in the order dialled, each one once, and
\* only then gives them to the relays (hub.go:76-110).
LEMMA WaitingStep ==
  ASSUME TypeOK, Waiting, [Next]_vars
  PROVE  Waiting'
<1> USE HubAssumption, Data
<1> DEFINE Distinct(b) == \A i, j \in DOMAIN b : b[i] = b[j] => i = j
           Unrelayed == \A i \in DOMAIN backlog :
                          reg[backlog[i]] # "none" /\ relayPC[backlog[i]] = "none"
           Unwritten == \A c \in Conns : relayPC[c] = "none" => written[c] = <<>>
           Routes == /\ \A r \in Roles : current[r] # NoConn => relayPC[current[r]] # "none"
                     /\ \A c \in Conns : peer[c] # NoConn => relayPC[peer[c]] # "none"
<1>0. Waiting <=> Distinct(backlog) /\ Unrelayed /\ Unwritten /\ Routes
  BY DEF Waiting
<1>01. /\ backlog \in Seq(Conns) /\ DOMAIN backlog = 1..Len(backlog)
       /\ Len(backlog) \in Nat
       /\ backlog # <<>> => /\ Head(backlog) = backlog[1] /\ Len(backlog) # 0
                            /\ DOMAIN Tail(backlog) = 1..(Len(backlog) - 1)
                            /\ \A i \in 1..(Len(backlog) - 1) : Tail(backlog)[i] = backlog[i + 1]
  <2>1. backlog \in Seq(Conns)
    BY DEF TypeOK
  <2>2. ASSUME backlog # <<>>
        PROVE /\ Head(backlog) = backlog[1] /\ Len(backlog) # 0
              /\ Tail(backlog) \in Seq(Conns) /\ Len(Tail(backlog)) = Len(backlog) - 1
              /\ \A i \in 1..Len(Tail(backlog)) : Tail(backlog)[i] = backlog[i + 1]
    BY <2>1, <2>2, HeadTailProperties, EmptySeq
  <2> QED BY <2>1, <2>2, LenProperties
\* The head leaves: what stays is distinct, still waits, and is not the head.
<1>02. ASSUME backlog # <<>>, backlog' = Tail(backlog)
       PROVE  /\ Distinct(backlog')
              /\ \A i \in DOMAIN backlog' : /\ backlog'[i] \in Conns
                                            /\ backlog'[i] # Head(backlog)
                                            /\ reg[backlog'[i]] # "none"
                                            /\ relayPC[backlog'[i]] = "none"
  <2>1. \A i \in DOMAIN backlog' : /\ i + 1 \in DOMAIN backlog /\ i + 1 # 1
                                   /\ backlog'[i] = backlog[i + 1] /\ i \in Nat
    BY <1>01, <1>02
  <2>2. 1 \in DOMAIN backlog /\ Head(backlog) = backlog[1]
    BY <1>01, <1>02
  <2>3. \A i, j \in DOMAIN backlog' : backlog'[i] = backlog'[j] => i = j
    <3> SUFFICES ASSUME NEW i \in DOMAIN backlog', NEW j \in DOMAIN backlog',
                        backlog'[i] = backlog'[j]
                 PROVE  i = j
      OBVIOUS
    <3>1. i + 1 = j + 1
      BY <2>1, <1>0
    <3> QED BY <2>1, <3>1
  <2>4. \A i \in DOMAIN backlog : backlog[i] \in Conns
    BY <1>01, ElementOfSeq
  <2> QED BY <2>1, <2>2, <2>3, <2>4, <1>0
<1>1. ASSUME NEW c \in Conns, NEW r \in Roles \cup {"unknown"}, Dial(c, r)
      PROVE  Waiting'
  <2>1. /\ reg[c] = "none" /\ reg' = [reg EXCEPT ![c] = r] /\ r # "none"
        /\ backlog' = Append(backlog, c)
        /\ UNCHANGED <<relayPC, written, current, peer>>
    BY <1>1 DEF Dial, relayVars, hubVars
  <2>2. relayPC[c] = "none"
    BY <2>1 DEF TypeOK
  <2>3. /\ DOMAIN backlog' = 1..(Len(backlog) + 1)
        /\ backlog'[Len(backlog) + 1] = c
        /\ \A i \in 1..Len(backlog) : backlog'[i] = backlog[i]
    BY <1>01, <2>1, AppendProperties, LenProperties
  <2>4. \A i \in 1..Len(backlog) : backlog[i] # c
    BY <1>0, <1>01, <2>1
  <2>5. Distinct(backlog')
    BY <1>0, <1>01, <2>3, <2>4
  <2>6. Unrelayed'
    <3> SUFFICES ASSUME NEW i \in 1..(Len(backlog) + 1)
                 PROVE  reg'[backlog'[i]] # "none" /\ relayPC'[backlog'[i]] = "none"
      BY <2>3
    <3>1. CASE i \in 1..Len(backlog)
      BY <1>0, <1>01, <2>1, <2>3, <2>4, <3>1, ElementOfSeq DEF TypeOK
    <3>2. CASE i = Len(backlog) + 1
      BY <2>1, <2>2, <2>3, <3>2 DEF TypeOK
    <3> QED BY <1>01, <3>1, <3>2
  <2> QED BY <1>0, <2>1, <2>5, <2>6 DEF Waiting
<1>2. ASSUME NEW c \in Conns, Reject(c) PROVE Waiting'
  <2>1. backlog # <<>> /\ backlog' = Tail(backlog)
        /\ UNCHANGED <<reg, relayPC, written, current, peer>>
    BY <1>2 DEF Reject, relayVars
  <2> QED BY <1>0, <1>02, <2>1 DEF Waiting
<1>3. ASSUME NEW c \in Conns, Register(c) PROVE Waiting'
  <2>1. /\ backlog # <<>> /\ c = Head(backlog) /\ backlog' = Tail(backlog)
        /\ reg[c] \in Roles
        /\ current' = [current EXCEPT ![reg[c]] = c]
        /\ relayPC' = [relayPC EXCEPT ![c] = "check"]
        /\ UNCHANGED <<reg, peer>>
        /\ \E w : written' = [written EXCEPT ![c] = w]
    BY <1>3 DEF Register, Goto
  <2>2. Distinct(backlog') /\ Unrelayed'
    BY <1>02, <2>1 DEF TypeOK
  <2>3. Unwritten'
    BY <1>0, <2>1 DEF TypeOK
  <2>4. Routes'
    BY <1>0, <2>1 DEF TypeOK
  <2> QED BY <2>2, <2>3, <2>4 DEF Waiting
<1>4. ASSUME NEW c \in Conns, RelayRecv(c) PROVE Waiting'
  <2>1. /\ reg[c] \in Roles /\ relayPC[c] = "recv"
        /\ relayPC' = [relayPC EXCEPT ![c] = "forward"]
        /\ peer' = [peer EXCEPT ![c] = current[Other(reg[c])]]
        /\ UNCHANGED <<backlog, reg, written, current>>
    BY <1>4 DEF RelayRecv, Goto, clientVars, hubVars, TypeOK
  <2>2. Unrelayed'
    BY <1>0, <2>1 DEF TypeOK
  <2>3. Unwritten'
    BY <1>0, <2>1 DEF TypeOK
  <2>4. Routes'
    <3>1. /\ relayPC \in [Conns -> RelayPCs] /\ peer \in [Conns -> Conns \cup {NoConn}]
          /\ Other(reg[c]) \in Roles
          /\ current \in [Roles -> Conns \cup {NoConn}]
      BY <2>1 DEF TypeOK
    <3>2. \A d \in Conns : relayPC[d] # "none" => relayPC'[d] # "none"
      BY <2>1, <3>1
    <3>3. ASSUME NEW d \in Conns, peer'[d] # NoConn PROVE relayPC'[peer'[d]] # "none"
      <4>1. CASE d = c
        BY <1>0, <2>1, <3>1, <3>2, <3>3, <4>1
      <4>2. CASE d # c
        BY <1>0, <2>1, <3>1, <3>2, <3>3, <4>2
      <4> QED BY <4>1, <4>2
    <3> QED BY <1>0, <2>1, <3>1, <3>2, <3>3
  <2> QED BY <1>0, <2>1, <2>2, <2>3, <2>4 DEF Waiting
<1>5. ASSUME NEW c \in Conns, RelayDisconnect(c) PROVE Waiting'
  <2>1. /\ relayPC[c] = "recv" /\ relayPC' = [relayPC EXCEPT ![c] = "ended"]
        /\ UNCHANGED <<backlog, reg, written, peer>>
        /\ \A r \in Roles : current'[r] \in {current[r], NoConn}
    BY <1>5 DEF RelayDisconnect, Forget, Goto, clientVars
  <2>2. Unrelayed'
    BY <1>0, <2>1 DEF TypeOK
  <2>3. Unwritten'
    BY <1>0, <2>1 DEF TypeOK
  <2>4. Routes'
    BY <1>0, <2>1 DEF TypeOK
  <2> QED BY <1>0, <2>1, <2>2, <2>3, <2>4 DEF Waiting
<1>6. ASSUME NEW c \in Conns, RelayCheck(c) \/ RelaySend(c) \/ RelayQueue(c)
      PROVE  Waiting'
  <2>1. /\ relayPC[c] # "none"
        /\ \E l \in RelayPCs \ {"none"} : relayPC' = [relayPC EXCEPT ![c] = l]
        /\ UNCHANGED <<backlog, reg, current>>
        /\ peer' = peer \/ peer' = [peer EXCEPT ![c] = NoConn]
    BY <1>6 DEF RelayCheck, RelaySend, RelayQueue, NextRound, Goto, clientVars, hubVars,
                RelayPCs
  <2>2. Unrelayed'
    BY <1>0, <2>1 DEF TypeOK
  <2>3. Unwritten'
    <3>1. CASE UNCHANGED written
      BY <1>0, <2>1, <3>1 DEF TypeOK
    <3>2. CASE RelaySend(c)
      <4>1. /\ peer[c] # NoConn
            /\ written' = [written EXCEPT ![peer[c]] = Append(@, hand[c])]
        BY <3>2 DEF RelaySend, Reachable
      <4>2. relayPC[peer[c]] # "none"
        BY <1>0, <4>1
      <4>3. ASSUME NEW d \in Conns, relayPC'[d] = "none" PROVE written'[d] = <<>>
        BY <1>0, <2>1, <4>1, <4>2, <4>3 DEF TypeOK
      <4> QED BY <4>3
    <3> QED BY <1>6, <3>1, <3>2 DEF RelayCheck, RelayQueue, hubVars
  <2>4. Routes'
    <3>1. /\ relayPC \in [Conns -> RelayPCs] /\ peer \in [Conns -> Conns \cup {NoConn}]
          /\ current \in [Roles -> Conns \cup {NoConn}]
      BY DEF TypeOK
    <3>2. \A d \in Conns : relayPC[d] # "none" => relayPC'[d] # "none"
      BY <2>1, <3>1
    <3>3. \A d \in Conns : peer'[d] \in {peer[d], NoConn}
      BY <2>1, <3>1
    <3> QED BY <1>0, <2>1, <3>1, <3>2, <3>3
  <2> QED BY <1>0, <2>1, <2>2, <2>3, <2>4 DEF Waiting
<1>7. CASE SwapBackend
  BY <1>0, <1>7 DEF SwapBackend, Waiting, TypeOK, clientVars
<1>8. CASE StopRun \/ Close
  <2>1. CloseListener /\ UNCHANGED <<reg, relayPC, written, current, peer>>
    BY <1>8 DEF StopRun, Close
  <2>2. CASE backlog' = <<>>
    <3>1. DOMAIN backlog' = {}
      BY <2>2
    <3> QED BY <1>0, <2>1, <3>1 DEF Waiting
  <2>3. CASE backlog # <<>> /\ backlog' = <<Head(backlog)>>
    <3>1. DOMAIN backlog' = {1} /\ backlog'[1] = backlog[1] /\ 1 \in DOMAIN backlog
      BY <1>01, <2>3
    <3>2. Distinct(backlog') /\ Unrelayed'
      BY <1>0, <2>1, <3>1
    <3> QED BY <1>0, <2>1, <3>2 DEF Waiting
  <2> QED BY <2>1, <2>2, <2>3 DEF CloseListener
<1>9. CASE UNCHANGED vars
  BY <1>9 DEF vars, Waiting, clientVars, relayVars, hubVars
<1>10. ASSUME NEW c \in Conns, ClientSend(c) \/ ClientClose(c) PROVE Waiting'
  BY <1>10 DEF ClientSend, ClientClose, Waiting, clientVars, relayVars, hubVars
<1> QED BY <1>1, <1>2, <1>3, <1>4, <1>5, <1>6, <1>7, <1>8, <1>9, <1>10
        DEF Next, Relay

-----------------------------------------------------------------------------
\* A step that takes nothing from a client and hands nothing over keeps what is
\* known of the streams.
LEMMA Quiet ==
  ASSUME TypeOK, Stream, Ahead, Complete,
         UNCHANGED <<inbox, hand, sent>>, Passed' = Passed,
         \A c \in Conns : relayPC'[c] = "forward" <=> relayPC[c] = "forward",
         \A m \in Messages : Sent(m) => Sent(m)'
  PROVE  Stream' /\ Ahead' /\ Complete'
<1>1. /\ \A c \in Conns : \A m \in Range(inbox[c]) : m \in Messages
      /\ Passed \subseteq Messages /\ \A m \in Passed : m.via \in Conns
  <2>1. \A q \in Seq(Messages) : Range(q) \subseteq Messages
    BY RangeOfSeq
  <2>2. Passed \subseteq Messages
    BY <2>1 DEF Passed, TypeOK
  <2> QED BY <2>1, <2>2 DEF TypeOK, Messages
<1>2. Stream'
  <2> SUFFICES ASSUME NEW c \in Conns
               PROVE  (/\ Ordered(inbox[c])
                       /\ \A m \in Range(inbox[c]) : m.via = c /\ Sent(m)
                       /\ relayPC[c] # "forward" => hand[c] = NoMessage
                       /\ relayPC[c] = "forward" =>
                            /\ hand[c].via = c /\ Sent(hand[c])
                            /\ \A m \in Range(inbox[c]) : hand[c].n < m.n)'
    BY DEF Stream
  <2>1. /\ inbox'[c] = inbox[c] /\ hand'[c] = hand[c] /\ Ordered(inbox[c])
        /\ \A m \in Range(inbox[c]) : m.via = c /\ Sent(m)'
        /\ relayPC[c] # "forward" => hand[c] = NoMessage
        /\ relayPC[c] = "forward" =>
             /\ hand[c].via = c /\ Sent(hand[c])
             /\ \A m \in Range(inbox[c]) : hand[c].n < m.n
    BY <1>1 DEF Stream
  <2>2. relayPC[c] = "forward" => Sent(hand[c])'
    <3>1. relayPC[c] = "forward" => hand[c] \in Messages
      BY <2>1, HubAssumption DEF TypeOK, NoMessage
    <3> QED BY <2>1, <3>1 DEF Sent
  <2>3. Ordered(inbox'[c])
    BY <2>1
  <2> QED BY <2>1, <2>2, <2>3 DEF Ordered
<1>3. Ahead'
  BY <1>1 DEF Ahead
<1>4. Complete'
  BY DEF Complete
<1> QED BY <1>2, <1>3, <1>4

\* A relay that hands its message over, to a queue or to a connection, keeps
\* what is known of the streams: the message is the first of those to come.
LEMMA HandOver ==
  ASSUME TypeOK, HandFull, Stream, Ahead, Complete, NEW c \in Conns,
         relayPC[c] = "forward", NextRound(c),
         UNCHANGED <<inbox, sent, reg>>, Passed' = Passed \cup {hand[c]}
  PROVE  Stream' /\ Ahead' /\ Complete'
<1>1. /\ hand' = [hand EXCEPT ![c] = NoMessage]
      /\ relayPC' = [relayPC EXCEPT ![c] = "check"]
      /\ hand \in [Conns -> Messages \cup {NoMessage}] /\ relayPC \in [Conns -> RelayPCs]
      /\ hand[c] \in Messages
  BY DEF NextRound, Goto, TypeOK, HandFull
<1>2. \A m : Sent(m)' <=> Sent(m)
  BY DEF Sent
<1>3. Passed \subseteq Messages /\ \A m \in Passed : m.via \in Conns
  <2>1. \A q \in Seq(Messages) : Range(q) \subseteq Messages
    BY RangeOfSeq
  <2>2. Passed \subseteq Messages
    BY <2>1 DEF Passed, TypeOK
  <2> QED BY <2>2 DEF Messages
<1>4. Stream'
  <2> SUFFICES ASSUME NEW d \in Conns
               PROVE  (/\ Ordered(inbox[d])
                       /\ \A m \in Range(inbox[d]) : m.via = d /\ Sent(m)
                       /\ relayPC[d] # "forward" => hand[d] = NoMessage
                       /\ relayPC[d] = "forward" =>
                            /\ hand[d].via = d /\ Sent(hand[d])
                            /\ \A m \in Range(inbox[d]) : hand[d].n < m.n)'
    BY DEF Stream
  <2>1. /\ inbox'[d] = inbox[d] /\ Ordered(inbox[d])
        /\ \A m \in Range(inbox[d]) : m.via = d /\ Sent(m)'
        /\ relayPC[d] # "forward" => hand[d] = NoMessage
        /\ relayPC[d] = "forward" =>
             /\ hand[d].via = d /\ Sent(hand[d])
             /\ \A m \in Range(inbox[d]) : hand[d].n < m.n
    BY <1>2 DEF Stream
  <2>2. CASE d = c
    <3>1. hand'[d] = NoMessage /\ relayPC'[d] # "forward"
      BY <1>1, <2>2
    <3> QED BY <2>1, <3>1 DEF Ordered
  <2>3. CASE d # c
    <3>1. hand'[d] = hand[d] /\ relayPC'[d] = relayPC[d]
      BY <1>1, <2>3
    <3> QED BY <2>1, <3>1 DEF Ordered, Sent
  <2> QED BY <2>2, <2>3
<1>5. Ahead'
  <2> SUFFICES ASSUME NEW m \in Passed'
               PROVE  (/\ Sent(m)
                       /\ \A x \in Range(inbox[m.via]) : m.n < x.n
                       /\ relayPC[m.via] = "forward" => m.n < hand[m.via].n)'
    BY DEF Ahead
  <2>1. CASE m \in Passed
    BY <1>1, <1>2, <1>3, <2>1 DEF Ahead
  <2>2. CASE m = hand[c]
    <3>1. m.via = c /\ Sent(m) /\ \A x \in Range(inbox[c]) : m.n < x.n
      BY <2>2 DEF Stream
    <3>2. relayPC'[c] # "forward"
      BY <1>1
    <3> QED BY <1>2, <3>1, <3>2
  <2> QED BY <2>1, <2>2
<1>6. Complete'
  <2> SUFFICES ASSUME NEW r \in Roles, NEW n \in DOMAIN sent[r]
               PROVE  LET m == [via |-> sent[r][n], n |-> n]
                      IN  m \in Range(inbox[m.via]) \/ m = hand'[m.via] \/ m \in Passed'
    BY DEF Complete
  <2> DEFINE m == [via |-> sent[r][n], n |-> n]
  <2>1. m \in Range(inbox[m.via]) \/ m = hand[m.via] \/ m \in Passed
    BY DEF Complete
  <2>2. m.via \in Conns
    BY ElementOfSeq, LenProperties DEF TypeOK
  <2>3. m.via # c => hand'[m.via] = hand[m.via]
    BY <1>1, <2>2
  <2>4. m.via = c /\ m = hand[m.via] => m \in Passed'
    OBVIOUS
  <2> QED BY <2>1, <2>3, <2>4
<1> QED BY <1>4, <1>5, <1>6

-----------------------------------------------------------------------------
\* What makes every message be at one place, in order.
HubInv == TypeOK /\ HandFull /\ Waiting /\ Stream /\ Ahead /\ Apart /\ Complete

Streams == Stream /\ Ahead /\ Complete

\* What is in the queues, on the connections, dropped or not decoded is a message.
LEMMA Contents ==
  ASSUME TypeOK
  PROVE  /\ \A r \in Roles : queue[r] \in Seq(Messages) /\ Range(queue[r]) \subseteq Passed
         /\ \A c \in Conns : written[c] \in Seq(Messages) /\ Range(written[c]) \subseteq Passed
         /\ \A c \in Conns : inbox[c] \in Seq(Messages) /\ Range(inbox[c]) \subseteq Messages
         /\ dropped \subseteq Passed /\ Passed \subseteq Messages
         /\ \A m \in Messages : m.via \in Conns /\ m.n \in Nat
<1>1. \A q \in Seq(Messages) : Range(q) \subseteq Messages
  BY RangeOfSeq
<1>2. /\ \A r \in Roles : queue[r] \in Seq(Messages) /\ Range(queue[r]) \subseteq Passed
      /\ \A c \in Conns : written[c] \in Seq(Messages) /\ Range(written[c]) \subseteq Passed
      /\ dropped \subseteq Passed
  BY DEF TypeOK, Passed
<1>3. Passed \subseteq Messages
  BY <1>1 DEF Passed, TypeOK
<1> QED BY <1>1, <1>2, <1>3 DEF TypeOK, Messages

\* A client's message goes behind all that it sent before (hub.go:203, 241).
LEMMA SendStep ==
  ASSUME HubInv, NEW c \in Conns, ClientSend(c), \A m \in Messages : Sent(m) => Sent(m)'
  PROVE  Streams' /\ Apart'
<1> USE Data
<1> DEFINE r == reg[c]
<1>0. r \in Roles /\ sent[r] \in Seq(Conns)
  BY DEF HubInv, TypeOK, ClientSend
<1> PICK x \in Messages : x = [via |-> c, n |-> Len(sent[r]) + 1]
  <2>1. Len(sent[r]) + 1 \in Nat
    BY <1>0, LenProperties
  <2> QED BY <2>1, Data
<1>1. /\ TypeOK /\ Stream /\ Ahead /\ Apart /\ Complete /\ r \in Roles
      /\ sent' = [sent EXCEPT ![r] = Append(@, c)]
      /\ inbox' = [inbox EXCEPT ![c] = Append(@, x)]
      /\ UNCHANGED <<reg, relayPC, hand, queue, written, dropped>>
  BY DEF HubInv, ClientSend, clientVars, relayVars, hubVars
<1>2. /\ sent[r] \in Seq(Conns) /\ Len(sent[r]) \in Nat
      /\ Len(Append(sent[r], c)) = Len(sent[r]) + 1
      /\ DOMAIN Append(sent[r], c) = 1..(Len(sent[r]) + 1)
      /\ DOMAIN sent[r] = 1..Len(sent[r])
      /\ \A i \in 1..Len(sent[r]) : Append(sent[r], c)[i] = sent[r][i]
      /\ Append(sent[r], c)[Len(sent[r]) + 1] = c
      /\ DOMAIN sent = Roles /\ sent'[r] = Append(sent[r], c)
  <2>1. sent[r] \in Seq(Conns) /\ DOMAIN sent = Roles
    BY <1>1 DEF TypeOK
  <2>2. Append(sent[r], c) \in Seq(Conns)
    BY <2>1, AppendProperties
  <2>3. /\ Len(sent[r]) \in Nat
        /\ Len(Append(sent[r], c)) = Len(sent[r]) + 1
        /\ \A i \in 1..Len(sent[r]) : Append(sent[r], c)[i] = sent[r][i]
        /\ Append(sent[r], c)[Len(sent[r]) + 1] = c
    BY <2>1, AppendProperties, LenProperties
  <2> QED BY <1>1, <2>1, <2>2, <2>3, LenProperties
<1>3. x.via = c /\ x.n = Len(sent[r]) + 1
  OBVIOUS
<1>4. Sent(x)'
  BY <1>1, <1>2, <1>3 DEF Sent
<1>5. \A m \in Messages : Sent(m) /\ m.via = c => m.n < x.n
  BY <1>2, <1>3 DEF Sent
<1>6. Passed' = Passed
  BY <1>1 DEF Passed
<1>7. /\ inbox'[c] = Append(inbox[c], x) /\ inbox[c] \in Seq(Messages)
      /\ Range(inbox'[c]) = Range(inbox[c]) \cup {x}
      /\ \A d \in Conns : d # c => inbox'[d] = inbox[d]
  BY <1>1, <1>3, QueueAppend DEF TypeOK
<1>8. /\ Range(inbox[c]) \subseteq Messages
      /\ \A m \in Range(inbox[c]) : m.via = c /\ Sent(m)
      /\ Ordered(inbox[c])
  BY <1>1, Contents DEF Stream
<1>9. Ordered(inbox'[c])
  <2>1. \A m \in Range(inbox[c]) : m.n < x.n
    BY <1>5, <1>8
  <2> QED BY <1>3, <1>7, <1>8, <2>1, QueueAppend
<1>10. Stream'
  <2> SUFFICES ASSUME NEW d \in Conns
               PROVE  (/\ Ordered(inbox[d])
                       /\ \A m \in Range(inbox[d]) : m.via = d /\ Sent(m)
                       /\ relayPC[d] # "forward" => hand[d] = NoMessage
                       /\ relayPC[d] = "forward" =>
                            /\ hand[d].via = d /\ Sent(hand[d])
                            /\ \A m \in Range(inbox[d]) : hand[d].n < m.n)'
    BY DEF Stream
  <2>1. /\ Ordered(inbox[d])
        /\ Range(inbox[d]) \subseteq Messages
        /\ \A m \in Range(inbox[d]) : m.via = d /\ Sent(m)
        /\ relayPC[d] # "forward" => hand[d] = NoMessage
        /\ relayPC[d] = "forward" =>
             /\ hand[d].via = d /\ Sent(hand[d]) /\ hand[d] \in Messages
             /\ \A m \in Range(inbox[d]) : hand[d].n < m.n
    BY <1>1, Contents DEF Stream, HubInv, HandFull
  <2>2. relayPC[d] = "forward" => Sent(hand[d])'
    <3>1. ASSUME NEW m \in Messages, Sent(m) PROVE Sent(m)'
      BY <3>1
    <3>2. relayPC[d] = "forward" => Sent(hand[d]) /\ hand[d] \in Messages
      BY <2>1
    <3>3. ASSUME NEW m, m \in Messages, Sent(m), m = hand'[d] PROVE Sent(hand[d])'
      BY <3>1, <3>3 DEF Sent
    <3> QED BY <1>1, <3>2, <3>3
  <2>3. CASE d = c
    <3>1. \A m \in Range(inbox'[d]) : m.via = d /\ Sent(m)'
      BY <1>3, <1>4, <1>7, <1>8, <2>3
    <3>2. relayPC[d] = "forward" => \A m \in Range(inbox'[d]) : hand[d].n < m.n
      BY <1>5, <1>7, <2>1, <2>3
    <3>3. Ordered(inbox[d])'
      BY <1>9, <2>3 DEF Ordered
    <3> QED BY <1>1, <2>1, <2>2, <3>1, <3>2, <3>3
  <2>4. CASE d # c
    <3>1. inbox'[d] = inbox[d]
      BY <1>7, <2>4
    <3>2. Ordered(inbox[d])'
      BY <2>1, <3>1 DEF Ordered
    <3>3. \A m \in Range(inbox'[d]) : m.via = d /\ Sent(m)'
      BY <2>1, <3>1
    <3> QED BY <1>1, <2>1, <2>2, <3>1, <3>2, <3>3
  <2> QED BY <2>3, <2>4
<1>11. Ahead'
  <2> SUFFICES ASSUME NEW m \in Passed
               PROVE  /\ Sent(m)'
                      /\ \A y \in Range(inbox'[m.via]) : m.n < y.n
                      /\ relayPC[m.via] = "forward" => m.n < hand[m.via].n
    BY <1>1, <1>6 DEF Ahead
  <2>1. /\ Sent(m) /\ m \in Messages /\ m.via \in Conns
        /\ \A y \in Range(inbox[m.via]) : m.n < y.n
        /\ relayPC[m.via] = "forward" => m.n < hand[m.via].n
    BY <1>1, Contents DEF Ahead
  <2>2. m.via = c => m.n < x.n
    BY <1>5, <2>1
  <2> QED BY <1>7, <2>1, <2>2
<1>12. Apart'
  BY <1>1 DEF Apart, Ordered
<1>13. Complete'
  <2> SUFFICES ASSUME NEW s \in Roles, NEW n \in DOMAIN sent'[s]
               PROVE  LET m == [via |-> sent'[s][n], n |-> n]
                      IN  m \in Range(inbox'[m.via]) \/ m = hand[m.via] \/ m \in Passed
    BY <1>1, <1>6 DEF Complete
  <2> DEFINE m == [via |-> sent'[s][n], n |-> n]
  <2>1. CASE n \in DOMAIN sent[s] /\ sent'[s][n] = sent[s][n]
    <3>1. m \in Range(inbox[m.via]) \/ m = hand[m.via] \/ m \in Passed
      BY <1>1, <2>1 DEF Complete
    <3>2. m.via \in Conns
      BY <2>1, ElementOfSeq, LenProperties, <1>1 DEF TypeOK
    <3> QED BY <1>7, <3>1, <3>2
  <2>2. CASE s = r /\ n = Len(sent[r]) + 1
    <3>1. m = x
      BY <1>2, <2>2
    <3> QED BY <1>3, <1>7, <3>1
  <2>3. s # r => sent'[s] = sent[s]
    BY <1>1, <1>2
  <2>4. s = r => \/ n = Len(sent[r]) + 1
                 \/ n \in DOMAIN sent[s] /\ sent'[s][n] = sent[s][n]
    BY <1>2
  <2> QED BY <2>1, <2>2, <2>3, <2>4
<1> QED BY <1>10, <1>11, <1>12, <1>13 DEF Streams

\* A relay takes the first message that waits (hub.go:203, 241).
LEMMA RecvStep ==
  ASSUME HubInv, NEW c \in Conns, RelayRecv(c)
  PROVE  Streams' /\ Apart'
<1> USE Data
<1>1. /\ TypeOK /\ Stream /\ Ahead /\ Apart /\ Complete
      /\ relayPC[c] = "recv" /\ inbox[c] # <<>> /\ inbox[c] \in Seq(Messages)
      /\ hand' = [hand EXCEPT ![c] = Head(inbox[c])]
      /\ inbox' = [inbox EXCEPT ![c] = Tail(inbox[c])]
      /\ relayPC' = [relayPC EXCEPT ![c] = "forward"]
      /\ UNCHANGED <<reg, sent, queue, written, dropped>>
  BY DEF HubInv, TypeOK, RelayRecv, Goto, clientVars, hubVars
<1>2. /\ Ordered(inbox[c]) /\ hand[c] = NoMessage
      /\ \A m \in Range(inbox[c]) : m.via = c /\ Sent(m)
  BY <1>1 DEF Stream
<1>3. /\ Head(inbox[c]) \in Messages /\ Ordered(Tail(inbox[c]))
      /\ Range(inbox[c]) = {Head(inbox[c])} \cup Range(Tail(inbox[c]))
      /\ \A m \in Range(Tail(inbox[c])) : m.via = Head(inbox[c]).via => Head(inbox[c]).n < m.n
  BY <1>1, <1>2, QueueTail
<1>4. /\ inbox'[c] = Tail(inbox[c]) /\ hand'[c] = Head(inbox[c]) /\ relayPC'[c] = "forward"
      /\ \A d \in Conns : d # c => /\ inbox'[d] = inbox[d] /\ hand'[d] = hand[d]
                                   /\ relayPC'[d] = relayPC[d]
  BY <1>1 DEF TypeOK
<1>5. /\ \A m : Sent(m)' <=> Sent(m)
      /\ Passed' = Passed
  BY <1>1 DEF Sent, Passed
<1>6. Stream'
  <2> SUFFICES ASSUME NEW d \in Conns
               PROVE  (/\ Ordered(inbox[d])
                       /\ \A m \in Range(inbox[d]) : m.via = d /\ Sent(m)
                       /\ relayPC[d] # "forward" => hand[d] = NoMessage
                       /\ relayPC[d] = "forward" =>
                            /\ hand[d].via = d /\ Sent(hand[d])
                            /\ \A m \in Range(inbox[d]) : hand[d].n < m.n)'
    BY DEF Stream
  <2>1. CASE d = c
    <3>1. Ordered(inbox[d])'
      <4>1. Ordered(inbox'[d])
        BY <1>3, <1>4, <2>1
      <4> QED BY <4>1 DEF Ordered
    <3>2. \A m \in Range(inbox'[d]) : m.via = d /\ Sent(m)'
      BY <1>2, <1>3, <1>4, <1>5, <2>1
    <3>3. hand'[d].via = d /\ \A m \in Range(inbox'[d]) : hand'[d].n < m.n
      BY <1>2, <1>3, <1>4, <2>1
    <3>4. Sent(hand[d])'
      BY <1>1, <1>2, <1>3, <1>4, <2>1 DEF Sent
    <3> QED BY <1>4, <2>1, <3>1, <3>2, <3>3, <3>4
  <2>2. CASE d # c
    <3>1. /\ Ordered(inbox[d])
          /\ \A m \in Range(inbox[d]) : m.via = d /\ Sent(m)'
          /\ relayPC[d] # "forward" => hand[d] = NoMessage
          /\ relayPC[d] = "forward" =>
               /\ hand[d].via = d /\ Sent(hand[d])
               /\ \A m \in Range(inbox[d]) : hand[d].n < m.n
      BY <1>1, <1>5 DEF Stream
    <3>2. Ordered(inbox[d])'
      BY <1>4, <2>2, <3>1 DEF Ordered
    <3>3. relayPC[d] = "forward" => Sent(hand[d])'
      BY <1>1, <1>4, <2>2, <3>1 DEF Sent
    <3> QED BY <1>4, <2>2, <3>1, <3>2, <3>3
  <2> QED BY <2>1, <2>2
<1>7. Ahead'
  <2> SUFFICES ASSUME NEW m \in Passed
               PROVE  /\ Sent(m)'
                      /\ \A y \in Range(inbox'[m.via]) : m.n < y.n
                      /\ relayPC'[m.via] = "forward" => m.n < hand'[m.via].n
    BY <1>5 DEF Ahead
  <2>1. /\ Sent(m)' /\ m.via \in Conns
        /\ \A y \in Range(inbox[m.via]) : m.n < y.n
        /\ relayPC[m.via] = "forward" => m.n < hand[m.via].n
    BY <1>1, <1>5, Contents DEF Ahead
  <2> QED BY <1>3, <1>4, <2>1
<1>8. Apart'
  BY <1>1 DEF Apart, Ordered
<1>9. Complete'
  <2> SUFFICES ASSUME NEW r \in Roles, NEW n \in DOMAIN sent[r]
               PROVE  LET m == [via |-> sent[r][n], n |-> n]
                      IN  m \in Range(inbox'[m.via]) \/ m = hand'[m.via] \/ m \in Passed
    BY <1>1, <1>5 DEF Complete
  <2> DEFINE m == [via |-> sent[r][n], n |-> n]
  <2>1. m \in Range(inbox[m.via]) \/ m = hand[m.via] \/ m \in Passed
    BY <1>1 DEF Complete
  <2>2. m.via \in Conns
    BY <1>1, ElementOfSeq, LenProperties DEF TypeOK
  <2>3. m.via = c => m # hand[m.via]
    <3>1. hand[c].via \notin Conns
      BY <1>2, HubAssumption DEF NoMessage
    <3> QED BY <2>2, <3>1
  <2> QED BY <1>3, <1>4, <2>1, <2>2, <2>3
<1> QED BY <1>6, <1>7, <1>8, <1>9 DEF Streams

\* The message that a relay is about to hand over is new to all that it has
\* handed over before, and later than what came by the same connection.
LEMMA HandIsNew ==
  ASSUME HubInv, NEW c \in Conns, relayPC[c] = "forward"
  PROVE  /\ hand[c] \in Messages /\ hand[c] \notin Passed
         /\ \A m \in Passed : m.via = hand[c].via => m.n < hand[c].n
<1>1. /\ hand[c] \in Messages /\ hand[c].via = c
      /\ \A m \in Passed : m.via = c => m.n < hand[c].n
  BY DEF HubInv, HandFull, Stream, Ahead
<1>2. hand[c].n \in Nat
  BY <1>1 DEF Messages
<1> QED BY <1>1, <1>2

\* A message goes to the end of what a live connection was given
\* (hub.go:214-222, 252-260).
LEMMA WriteStep ==
  ASSUME HubInv, NEW c \in Conns, RelaySend(c)
  PROVE  Streams' /\ Apart'
<1>1. /\ TypeOK /\ HandFull /\ Stream /\ Ahead /\ Apart /\ Complete
      /\ relayPC[c] = "forward" /\ peer[c] \in Conns /\ NextRound(c)
      /\ written' = [written EXCEPT ![peer[c]] = Append(@, hand[c])]
      /\ UNCHANGED <<inbox, sent, reg, queue, dropped>>
  BY DEF HubInv, TypeOK, RelaySend, Reachable, clientVars
<1>2. /\ hand[c] \in Messages /\ hand[c] \notin Passed
      /\ \A m \in Passed : m.via = hand[c].via => m.n < hand[c].n
  BY <1>1, HandIsNew
<1>3. /\ written[peer[c]] \in Seq(Messages) /\ Range(written[peer[c]]) \subseteq Passed
      /\ Ordered(written[peer[c]])
  BY <1>1, Contents DEF Apart
<1>4. /\ Range(Append(written[peer[c]], hand[c])) = Range(written[peer[c]]) \cup {hand[c]}
      /\ Ordered(Append(written[peer[c]], hand[c]))
  BY <1>2, <1>3, QueueAppend
<1>5. /\ written'[peer[c]] = Append(written[peer[c]], hand[c])
      /\ \A d \in Conns : d # peer[c] => written'[d] = written[d]
  BY <1>1 DEF TypeOK
<1>6. Passed' = Passed \cup {hand[c]}
  <2>1. \A d \in Conns : /\ Range(written[d]) \subseteq Range(written'[d])
                         /\ Range(written'[d]) \subseteq Range(written[d]) \cup {hand[c]}
    BY <1>4, <1>5
  <2>2. hand[c] \in Range(written'[peer[c]])
    BY <1>4, <1>5
  <2>3. \A m : m \in Passed' <=> \/ \E r \in Roles : m \in Range(queue[r])
                                 \/ \E d \in Conns : m \in Range(written'[d])
                                 \/ m \in dropped
    BY <1>1 DEF Passed
  <2>4. \A m : m \in Passed <=> \/ \E r \in Roles : m \in Range(queue[r])
                                \/ \E d \in Conns : m \in Range(written[d])
                                \/ m \in dropped
    BY DEF Passed
  <2> QED BY <1>1, <2>1, <2>2, <2>3, <2>4
<1>7. Stream' /\ Ahead' /\ Complete'
  BY <1>1, <1>6, HandOver
<1>8. Apart'
  <2>1. /\ dropped \subseteq Passed
        /\ \A r \in Roles : Range(queue[r]) \subseteq Passed
        /\ \A d \in Conns : Range(written[d]) \subseteq Passed
    BY <1>1, Contents
  <2>2. \A r \in Roles : Ordered(queue[r])' /\ (Range(queue[r]) \cap dropped = {})'
    BY <1>1 DEF Apart, Ordered
  <2>3. \A d \in Conns : Ordered(written[d])'
    <3> TAKE d \in Conns
    <3>1. CASE d = peer[c]
      <4>1. Ordered(written'[d])
        BY <1>4, <1>5, <3>1
      <4> QED BY <4>1 DEF Ordered
    <3>2. CASE d # peer[c]
      <4>1. Ordered(written'[d])
        BY <1>1, <1>5, <3>2 DEF Apart
      <4> QED BY <4>1 DEF Ordered
    <3> QED BY <3>1, <3>2
  <2>4. \A d \in Conns : Range(written'[d]) \cap dropped = {}
    BY <1>1, <1>2, <1>4, <1>5, <2>1 DEF Apart
  <2>5. \A d, f \in Conns : d # f => Range(written'[d]) \cap Range(written'[f]) = {}
    BY <1>1, <1>2, <1>4, <1>5, <2>1 DEF Apart
  <2>6. \A r \in Roles, d \in Conns : Range(queue[r]) \cap Range(written'[d]) = {}
    BY <1>1, <1>2, <1>4, <1>5, <2>1 DEF Apart
  <2>7. \A r, s \in Roles : r # s => Range(queue[r]) \cap Range(queue[s]) = {}
    BY <1>1 DEF Apart
  <2> QED BY <1>1, <2>2, <2>3, <2>4, <2>5, <2>6, <2>7 DEF Apart
<1> QED BY <1>7, <1>8 DEF Streams

\* Without a live connection it goes to the end of the queue
\* (hub.go:224-229, 262-267).
LEMMA QueueStep ==
  ASSUME HubInv, NEW c \in Conns, RelayQueue(c)
  PROVE  Streams' /\ Apart'
<1> DEFINE o == Other(reg[c])
<1>1. /\ TypeOK /\ HandFull /\ Stream /\ Ahead /\ Apart /\ Complete
      /\ relayPC[c] = "forward" /\ o \in Roles /\ NextRound(c)
      /\ queue' = [queue EXCEPT ![o] = Append(@, hand[c])]
      /\ UNCHANGED <<inbox, sent, reg, written, dropped>>
  BY Data DEF HubInv, TypeOK, RelayQueue, Enqueue, clientVars
<1> HIDE DEF o
<1>2. /\ hand[c] \in Messages /\ hand[c] \notin Passed
      /\ \A m \in Passed : m.via = hand[c].via => m.n < hand[c].n
  BY <1>1, HandIsNew
<1>3. /\ queue[o] \in Seq(Messages) /\ Range(queue[o]) \subseteq Passed
      /\ Ordered(queue[o])
  BY <1>1, Contents DEF Apart
<1>4. /\ Range(Append(queue[o], hand[c])) = Range(queue[o]) \cup {hand[c]}
      /\ Ordered(Append(queue[o], hand[c]))
  BY <1>2, <1>3, QueueAppend
<1>5. /\ queue'[o] = Append(queue[o], hand[c])
      /\ \A r \in Roles : r # o => queue'[r] = queue[r]
  BY <1>1 DEF TypeOK
<1>6. Passed' = Passed \cup {hand[c]}
  <2>1. \A r \in Roles : /\ Range(queue[r]) \subseteq Range(queue'[r])
                         /\ Range(queue'[r]) \subseteq Range(queue[r]) \cup {hand[c]}
    BY <1>4, <1>5
  <2>2. hand[c] \in Range(queue'[o])
    BY <1>4, <1>5
  <2>3. \A m : m \in Passed' <=> \/ \E r \in Roles : m \in Range(queue'[r])
                                 \/ \E d \in Conns : m \in Range(written[d])
                                 \/ m \in dropped
    BY <1>1 DEF Passed
  <2>4. \A m : m \in Passed <=> \/ \E r \in Roles : m \in Range(queue[r])
                                \/ \E d \in Conns : m \in Range(written[d])
                                \/ m \in dropped
    BY DEF Passed
  <2> QED BY <1>1, <2>1, <2>2, <2>3, <2>4
<1>7. Stream' /\ Ahead' /\ Complete'
  BY <1>1, <1>6, HandOver
<1>8. Apart'
  <2>1. /\ dropped \subseteq Passed
        /\ \A r \in Roles : Range(queue[r]) \subseteq Passed
        /\ \A d \in Conns : Range(written[d]) \subseteq Passed
    BY <1>1, Contents
  <2>2. \A d \in Conns : Ordered(written[d])' /\ (Range(written[d]) \cap dropped = {})'
    BY <1>1 DEF Apart, Ordered
  <2>3. \A r \in Roles : Ordered(queue[r])'
    <3> TAKE r \in Roles
    <3>1. CASE r = o
      <4>1. Ordered(queue'[r])
        BY <1>4, <1>5, <3>1
      <4> QED BY <4>1 DEF Ordered
    <3>2. CASE r # o
      <4>1. Ordered(queue'[r])
        BY <1>1, <1>5, <3>2 DEF Apart
      <4> QED BY <4>1 DEF Ordered
    <3> QED BY <3>1, <3>2
  <2>4. \A r \in Roles : Range(queue'[r]) \cap dropped = {}
    BY <1>1, <1>2, <1>4, <1>5, <2>1 DEF Apart
  <2>5. \A r, s \in Roles : r # s => Range(queue'[r]) \cap Range(queue'[s]) = {}
    BY <1>1, <1>2, <1>4, <1>5, <2>1 DEF Apart
  <2>6. \A r \in Roles, d \in Conns : Range(queue'[r]) \cap Range(written[d]) = {}
    BY <1>1, <1>2, <1>4, <1>5, <2>1 DEF Apart
  <2>7. \A d, f \in Conns : d # f => Range(written[d]) \cap Range(written[f]) = {}
    BY <1>1 DEF Apart
  <2> QED BY <1>1, <2>2, <2>3, <2>4, <2>5, <2>6, <2>7 DEF Apart
<1> QED BY <1>7, <1>8 DEF Streams

\* A registration drains the queue of its role: a first part to the new
\* connection, the rest is dropped (hub.go:159-163, 185-189).
LEMMA DrainStep ==
  ASSUME HubInv, NEW c \in Conns, Register(c), \A m \in Messages : Sent(m) => Sent(m)'
  PROVE  Streams' /\ Apart'
<1> DEFINE r == reg[c]
           q == queue[r]
<1>1. /\ TypeOK /\ Stream /\ Ahead /\ Apart /\ Complete /\ Waiting
      /\ backlog # <<>> /\ c = Head(backlog) /\ r \in Roles /\ q \in Seq(Messages)
      /\ queue' = [queue EXCEPT ![r] = <<>>]
      /\ relayPC' = [relayPC EXCEPT ![c] = "check"]
      /\ UNCHANGED <<inbox, hand, sent>>
  BY DEF HubInv, TypeOK, Register, ClearQueue, Goto
<1>2. PICK k \in 0..Len(q) :
        /\ written' = [written EXCEPT ![c] = SubSeq(q, 1, k)]
        /\ dropped' = dropped \cup {q[i] : i \in (k + 1)..Len(q)}
  BY DEF Register
<1> DEFINE p == SubSeq(q, 1, k)
           rest == {q[i] : i \in (k + 1)..Len(q)}
<1>3. relayPC[c] = "none" /\ written[c] = <<>>
  <2>1. 1 \in DOMAIN backlog /\ c = backlog[1]
    <3>1. backlog \in Seq(Conns) /\ DOMAIN backlog = 1..Len(backlog) /\ Len(backlog) \in Nat
      BY <1>1, LenProperties DEF TypeOK
    <3>2. Len(backlog) # 0 /\ Head(backlog) = backlog[1]
      BY <1>1, <3>1, EmptySeq
    <3> QED BY <1>1, <3>1, <3>2
  <2> QED BY <1>1, <2>1 DEF Waiting
<1>4. Ordered(q) /\ Range(q) \subseteq Passed
  BY <1>1, Contents DEF Apart
<1>5. /\ Range(p) \cup rest = Range(q) /\ Range(p) \cap rest = {} /\ Ordered(p)
  BY <1>1, <1>4, QueuePrefix
<1> HIDE DEF p, rest
<1>6. /\ written'[c] = p /\ \A d \in Conns : d # c => written'[d] = written[d]
      /\ dropped' = dropped \cup rest
      /\ queue'[r] = <<>> /\ \A s \in Roles : s # r => queue'[s] = queue[s]
  BY <1>1, <1>2 DEF p, rest, TypeOK
<1> HIDE DEF r, q
<1>7. /\ \A m : m \in Passed' <=> \/ \E s \in Roles : m \in Range(queue'[s])
                                  \/ \E d \in Conns : m \in Range(written'[d])
                                  \/ m \in dropped'
      /\ \A m : m \in Passed <=> \/ \E s \in Roles : m \in Range(queue[s])
                                 \/ \E d \in Conns : m \in Range(written[d])
                                 \/ m \in dropped
  BY DEF Passed
<1>8. Passed' = Passed
  <2>1. ASSUME NEW m \in Passed' PROVE m \in Passed
    <3>1. Range(q) \subseteq Passed
      BY <1>4
    <3>2. ASSUME NEW s \in Roles, m \in Range(queue'[s]) PROVE m \in Passed
      BY <1>6, <1>7, <3>2, QueueEmpty
    <3>3. ASSUME NEW d \in Conns, m \in Range(written'[d]) PROVE m \in Passed
      BY <1>5, <1>6, <1>7, <3>1, <3>3
    <3>4. ASSUME m \in dropped' PROVE m \in Passed
      BY <1>5, <1>6, <1>7, <3>1, <3>4
    <3> QED BY <1>7, <2>1, <3>2, <3>3, <3>4
  <2>2. ASSUME NEW m \in Passed PROVE m \in Passed'
    <3>1. ASSUME NEW s \in Roles, m \in Range(queue[s]) PROVE m \in Passed'
      <4>1. CASE s = r
        <5>1. m \in Range(p) \/ m \in rest
          BY <1>5, <3>1, <4>1 DEF q
        <5> QED BY <1>6, <1>7, <5>1
      <4>2. CASE s # r
        BY <1>6, <1>7, <3>1, <4>2
      <4> QED BY <4>1, <4>2
    <3>2. ASSUME NEW d \in Conns, m \in Range(written[d]) PROVE m \in Passed'
      <4>1. d # c
        BY <1>3, <3>2, QueueEmpty
      <4> QED BY <1>6, <1>7, <3>2, <4>1
    <3>3. ASSUME m \in dropped PROVE m \in Passed'
      BY <1>6, <1>7, <3>3
    <3> QED BY <1>7, <2>2, <3>1, <3>2, <3>3
  <2> QED BY <2>1, <2>2
<1>9. \A d \in Conns : relayPC'[d] = "forward" <=> relayPC[d] = "forward"
  BY <1>1, <1>3 DEF TypeOK
<1>10. Stream' /\ Ahead' /\ Complete'
  BY <1>1, <1>8, <1>9, Quiet
<1>11. Apart'
  <2>1. \A s \in Roles : Ordered(queue[s])'
    <3> TAKE s \in Roles
    <3>1. Ordered(queue'[s])
      BY <1>1, <1>6, QueueEmpty DEF Apart
    <3> QED BY <3>1 DEF Ordered
  <2>2. \A d \in Conns : Ordered(written[d])'
    <3> TAKE d \in Conns
    <3>1. Ordered(written'[d])
      BY <1>1, <1>5, <1>6 DEF Apart
    <3> QED BY <3>1 DEF Ordered
  <2>3. /\ Range(q) \cap dropped = {}
        /\ \A s \in Roles : s # r => Range(queue[s]) \cap Range(q) = {}
        /\ \A d \in Conns : Range(written[d]) \cap Range(q) = {}
    BY <1>1 DEF Apart, q, r
  <2>4. \A s \in Roles : Range(queue'[s]) \cap dropped' = {}
    BY <1>1, <1>5, <1>6, <2>3, QueueEmpty DEF Apart
  <2>5. \A d \in Conns : Range(written'[d]) \cap dropped' = {}
    <3> TAKE d \in Conns
    <3>1. CASE d = c
      BY <1>5, <1>6, <2>3, <3>1
    <3>2. CASE d # c
      BY <1>1, <1>5, <1>6, <2>3, <3>2 DEF Apart
    <3> QED BY <3>1, <3>2
  <2>6. \A s, t \in Roles : s # t => Range(queue'[s]) \cap Range(queue'[t]) = {}
    BY <1>1, <1>6, QueueEmpty DEF Apart
  <2>7. \A d, f \in Conns : d # f => Range(written'[d]) \cap Range(written'[f]) = {}
    BY <1>1, <1>5, <1>6, <2>3 DEF Apart
  <2>8. \A s \in Roles, d \in Conns : Range(queue'[s]) \cap Range(written'[d]) = {}
    <3> TAKE s \in Roles, d \in Conns
    <3>1. CASE s = r
      BY <1>6, <3>1, QueueEmpty
    <3>2. CASE s # r
      BY <1>1, <1>5, <1>6, <2>3, <3>2 DEF Apart
    <3> QED BY <3>1, <3>2
  <2> QED BY <2>1, <2>2, <2>4, <2>5, <2>6, <2>7, <2>8 DEF Apart
<1> QED BY <1>10, <1>11 DEF Streams

\* Every other step of Run, the relays and the clients moves no message.
LEMMA IdleStep ==
  ASSUME HubInv, [Next]_vars, \A m \in Messages : Sent(m) => Sent(m)',
         UNCHANGED <<inbox, hand, sent, queue, written, dropped>>,
         \A c \in Conns : relayPC'[c] = "forward" <=> relayPC[c] = "forward"
  PROVE  Streams' /\ Apart'
<1>1. Passed' = Passed
  BY DEF Passed
<1>2. Stream' /\ Ahead' /\ Complete'
  BY <1>1, Quiet DEF HubInv
<1>3. Apart'
  BY DEF HubInv, Apart, Ordered
<1> QED BY <1>2, <1>3 DEF Streams

\* Every step keeps each message at its place, or moves it to the next one.
LEMMA HubStep == HubInv /\ [Next]_vars => HubInv'
<1> SUFFICES ASSUME HubInv, [Next]_vars PROVE HubInv'
  OBVIOUS
<1>1. TypeOK' /\ HandFull' /\ Waiting'
  BY TypeStep, WaitingStep DEF HubInv, TypeInv
<1>2. \A m \in Messages : Sent(m) => Sent(m)'
  BY SentStays DEF HubInv
<1>3. relayPC \in [Conns -> RelayPCs]
  BY DEF HubInv, TypeOK
<1>4. ASSUME NEW c \in Conns, ClientSend(c) PROVE Streams' /\ Apart'
  BY <1>2, <1>4, SendStep
<1>5. ASSUME NEW c \in Conns, Register(c) PROVE Streams' /\ Apart'
  BY <1>2, <1>5, DrainStep
<1>6. ASSUME NEW c \in Conns, RelayRecv(c) \/ RelaySend(c) \/ RelayQueue(c)
      PROVE  Streams' /\ Apart'
  BY <1>6, RecvStep, WriteStep, QueueStep
<1>7. ASSUME NEW c \in Conns, RelayCheck(c) \/ RelayDisconnect(c)
      PROVE  Streams' /\ Apart'
  <2>1. /\ UNCHANGED <<inbox, hand, sent, queue, written, dropped>>
        /\ relayPC[c] # "forward"
        /\ \E l \in RelayPCs \ {"forward"} : relayPC' = [relayPC EXCEPT ![c] = l]
    BY <1>7 DEF RelayCheck, RelayDisconnect, Goto, hubVars, RelayPCs
  <2> QED BY <1>2, <1>3, <2>1, IdleStep
<1>8. ASSUME NEW c \in Conns, NEW r \in Roles \cup {"unknown"}, Dial(c, r)
      PROVE  Streams' /\ Apart'
  BY <1>2, <1>8, IdleStep DEF Dial, relayVars, hubVars
<1>9. ASSUME NEW c \in Conns, ClientClose(c) \/ Reject(c) PROVE Streams' /\ Apart'
  BY <1>2, <1>9, IdleStep DEF ClientClose, Reject, relayVars, hubVars
<1>10. ASSUME SwapBackend \/ StopRun \/ Close PROVE Streams' /\ Apart'
  BY <1>2, <1>10, IdleStep DEF SwapBackend, StopRun, Close
<1>11. ASSUME UNCHANGED vars PROVE Streams' /\ Apart'
  <2>1. /\ UNCHANGED <<inbox, hand, sent, queue, written, dropped>>
        /\ relayPC' = relayPC
    BY <1>11 DEF vars, relayVars, hubVars
  <2> QED BY <1>2, <2>1, IdleStep
<1>12. Streams' /\ Apart'
  BY <1>4, <1>5, <1>6, <1>7, <1>8, <1>9, <1>10, <1>11, Zenon DEF Next, Relay
<1> QED BY <1>1, <1>12 DEF HubInv, Streams

\* At the start there is nothing anywhere.
LEMMA HubInit == Init => HubInv
<1> SUFFICES ASSUME Init PROVE HubInv
  OBVIOUS
<1>1. TypeOK /\ HandFull
  BY TypeInit DEF TypeInv
<1>2. DOMAIN <<>> = {} /\ Range(<<>>) = {} /\ Ordered(<<>>)
  BY QueueEmpty
<1>3. Waiting
  BY <1>2 DEF Init, Waiting
<1>4. Stream
  BY <1>2 DEF Init, Stream
<1>5. Passed = {}
  BY <1>2 DEF Init, Passed
<1>6. Ahead
  BY <1>5 DEF Ahead
<1>7. Apart
  BY <1>2 DEF Init, Apart
<1>8. Complete
  BY <1>2 DEF Init, Complete
<1> QED BY <1>1, <1>3, <1>4, <1>6, <1>7, <1>8 DEF HubInv

\* Messages of one connection reach a connection in the order sent, however the
\* queue, the drain and direct sends interleave (hub.go:159-163, 214-229).
THEOREM OrderedCorrect == Spec => []OrderedPerConnection
<1>1. HubInv => OrderedPerConnection
  BY DEF HubInv, Apart, Ordered, OrderedPerConnection
<1> QED BY <1>1, HubInit, HubStep, PTL DEF Spec

-----------------------------------------------------------------------------
\* In a sequence with each client's messages in order, a message has one place.
LEMMA OnePlace ==
  ASSUME NEW q \in Seq(Messages), Ordered(q), NEW i \in DOMAIN q, NEW j \in DOMAIN q,
         q[i] = q[j]
  PROVE  i = j
<1>1. i \in Nat /\ j \in Nat /\ q[i] \in Messages
  BY ElementOfSeq, LenProperties
<1>2. q[i].n \in Nat /\ q[j].n = q[i].n /\ q[j].via = q[i].via
  BY <1>1 DEF Messages
<1>3. ~(i < j) /\ ~(j < i)
  BY <1>2 DEF Ordered
<1> QED BY <1>1, <1>3

\* What comes from a client is read until it goes and has nothing left, or the
\* hub cancels its relay; only a connection so superseded is closed.
Heard ==
  /\ \A c \in Conns : reg[c] \in Roles =>
       IsRead(c) \/ (gone[c] /\ inbox[c] = <<>>) \/ Superseded(c)
  /\ \A c \in Conns : closed[c] => reg[c] # "none" /\ (reg[c] = "unknown" \/ Superseded(c))

\* The head of the backlog leaves it, and no other connection does.
LEMMA HeadLeaves ==
  ASSUME TypeOK, backlog # <<>>, backlog' = Tail(backlog), NEW d \in Conns,
         d # Head(backlog), \E i \in DOMAIN backlog : backlog[i] = d
  PROVE  \E i \in DOMAIN backlog' : backlog'[i] = d
<1>1. backlog \in Seq(Conns)
  BY DEF TypeOK
<1>2. /\ Head(backlog) = backlog[1] /\ Len(backlog) \in Nat
      /\ DOMAIN backlog = 1..Len(backlog) /\ DOMAIN backlog' = 1..(Len(backlog) - 1)
      /\ \A i \in 1..(Len(backlog) - 1) : backlog'[i] = backlog[i + 1]
  BY <1>1, HeadTailProperties, EmptySeq, LenProperties
<1>3. PICK i \in DOMAIN backlog : backlog[i] = d
  OBVIOUS
<1>4. i - 1 \in 1..(Len(backlog) - 1) /\ (i - 1) + 1 = i
  BY <1>2, <1>3
<1> QED BY <1>2, <1>3, <1>4

\* A relay ends when its client has gone, or because it was cancelled, and the
\* hub closes no connection whose relay it does not cancel (hub.go:104-119,
\* 145-212).
LEMMA HeardStep ==
  ASSUME HubInv, Heard, [Next]_vars
  PROVE  Heard'
<1> USE DEF IsRead, Superseded, Heard
<1>0. TypeOK /\ Waiting
  BY DEF HubInv
<1>1. ASSUME NEW c \in Conns, NEW r \in Roles \cup {"unknown"}, Dial(c, r) PROVE Heard'
  <2>1. /\ reg[c] = "none" /\ reg' = [reg EXCEPT ![c] = r] /\ r # "none"
        /\ backlog' = Append(backlog, c) /\ backlog \in Seq(Conns)
        /\ UNCHANGED <<relayPC, gone, closed, inbox, cancelled, down>>
    BY <1>0, <1>1, Data DEF Dial, relayVars, hubVars, TypeOK
  <2>2. /\ DOMAIN backlog' = 1..(Len(backlog) + 1) /\ DOMAIN backlog = 1..Len(backlog)
        /\ Len(backlog) \in Nat /\ backlog'[Len(backlog) + 1] = c
        /\ \A i \in 1..Len(backlog) : backlog'[i] = backlog[i]
    BY <2>1, AppendProperties, LenProperties
  <2>3. /\ \E i \in DOMAIN backlog' : backlog'[i] = c
        /\ \A d \in Conns : (\E i \in DOMAIN backlog : backlog[i] = d)
                              => \E i \in DOMAIN backlog' : backlog'[i] = d
    BY <2>2
  <2> QED BY <1>0, <2>1, <2>3 DEF TypeOK
<1>2. ASSUME NEW c \in Conns, ClientSend(c) PROVE Heard'
  <2>1. /\ ~gone[c] /\ \E s : inbox' = [inbox EXCEPT ![c] = s]
        /\ UNCHANGED <<reg, backlog, relayPC, gone, closed, cancelled, down>>
    BY <1>2 DEF ClientSend, Writable, clientVars, relayVars, hubVars
  <2> QED BY <1>0, <2>1 DEF TypeOK
<1>3. ASSUME NEW c \in Conns, ClientClose(c) PROVE Heard'
  BY <1>0, <1>3 DEF ClientClose, TypeOK, relayVars, hubVars
<1>4. ASSUME NEW c \in Conns, Reject(c) PROVE Heard'
  <2>1. /\ backlog # <<>> /\ c = Head(backlog) /\ reg[c] = "unknown"
        /\ backlog' = Tail(backlog) /\ closed' = [closed EXCEPT ![c] = TRUE]
        /\ UNCHANGED <<reg, inbox, relayPC, gone, cancelled, down>>
    BY <1>4 DEF Reject, relayVars
  <2>2. \A d \in Conns : d # c /\ (\E i \in DOMAIN backlog : backlog[i] = d)
                           => \E i \in DOMAIN backlog' : backlog'[i] = d
    BY <1>0, <2>1, HeadLeaves
  <2>3. \A d \in Conns : reg'[d] \in Roles =>
          IsRead(d)' \/ (gone'[d] /\ inbox'[d] = <<>>) \/ Superseded(d)'
    <3> SUFFICES ASSUME NEW d \in Conns, reg[d] \in Roles
                 PROVE  IsRead(d)' \/ (gone'[d] /\ inbox'[d] = <<>>) \/ Superseded(d)'
      BY <2>1
    <3>1. d # c
      BY <2>1, Data
    <3> QED BY <2>1, <2>2, <3>1
  <2>4. \A d \in Conns : closed'[d] => closed[d] \/ d = c
    BY <1>0, <2>1 DEF TypeOK
  <2>5. \A d \in Conns : closed'[d] =>
          reg'[d] # "none" /\ (reg'[d] = "unknown" \/ Superseded(d)')
    BY <2>1, <2>4
  <2> QED BY <2>3, <2>5
<1>5. ASSUME NEW c \in Conns, Register(c) PROVE Heard'
  <2>1. /\ backlog # <<>> /\ c = Head(backlog) /\ reg[c] \in Roles
        /\ backlog' = Tail(backlog) /\ relayPC' = [relayPC EXCEPT ![c] = "check"]
        /\ \E b : gone' = [gone EXCEPT ![c] = b]
        /\ cancelled' = [d \in Conns |-> cancelled[d] \/ d = current[reg[c]]]
        /\ closed' = [d \in Conns |-> closed[d] \/ d = current[reg[c]]]
        /\ UNCHANGED <<reg, inbox, down>>
    BY <1>5 DEF Register, CancelRelay, CloseReplaced, Goto
  <2>2. \A d \in Conns : d # c /\ (\E i \in DOMAIN backlog : backlog[i] = d)
                           => \E i \in DOMAIN backlog' : backlog'[i] = d
    BY <1>0, <2>1, HeadLeaves
  <2>3. \A d \in Conns : d = current[reg[c]] => reg[d] \in Roles
    BY <1>0, <2>1, HubAssumption DEF Waiting, TypeOK
  <2>4. \A d \in Conns : cancelled[d] => cancelled'[d]
    BY <2>1
  <2>5. \A d \in Conns : reg'[d] \in Roles =>
          IsRead(d)' \/ (gone'[d] /\ inbox'[d] = <<>>) \/ Superseded(d)'
    <3> TAKE d \in Conns
    <3>1. CASE d = c
      BY <1>0, <2>1, <3>1 DEF TypeOK
    <3>2. CASE d # c
      BY <1>0, <2>1, <2>2, <2>4, <3>2 DEF TypeOK
    <3> QED BY <3>1, <3>2
  <2>6. \A d \in Conns : closed'[d] =>
          reg'[d] # "none" /\ (reg'[d] = "unknown" \/ Superseded(d)')
    <3> TAKE d \in Conns
    <3>1. CASE d = current[reg[c]]
      BY <2>1, <2>3, <3>1, Data
    <3>2. CASE d # current[reg[c]]
      BY <2>1, <2>4, <3>2
    <3> QED BY <3>1, <3>2
  <2> QED BY <2>5, <2>6
<1>6. ASSUME NEW c \in Conns, RelayCheck(c) PROVE Heard'
  <2>1. /\ UNCHANGED <<reg, backlog, gone, closed, inbox, cancelled, down>>
        /\ \/ cancelled[c] /\ relayPC' = [relayPC EXCEPT ![c] = "ended"]
           \/ relayPC' = [relayPC EXCEPT ![c] = "recv"]
    BY <1>0, <1>6 DEF RelayCheck, Goto, clientVars, hubVars
  <2> QED BY <1>0, <2>1 DEF TypeOK
<1>7. ASSUME NEW c \in Conns, RelayRecv(c) PROVE Heard'
  <2>1. /\ UNCHANGED <<reg, backlog, gone, closed, cancelled, down>>
        /\ relayPC' = [relayPC EXCEPT ![c] = "forward"]
        /\ \E s : inbox' = [inbox EXCEPT ![c] = s]
    BY <1>7 DEF RelayRecv, Goto, clientVars, hubVars
  <2> QED BY <1>0, <2>1 DEF TypeOK
<1>8. ASSUME NEW c \in Conns, RelayDisconnect(c) PROVE Heard'
  <2>1. /\ UNCHANGED <<reg, backlog, gone, closed, inbox, cancelled, down>>
        /\ relayPC[c] = "recv" /\ relayPC' = [relayPC EXCEPT ![c] = "ended"]
        /\ closed[c] \/ (gone[c] /\ inbox[c] = <<>>)
    BY <1>8 DEF RelayDisconnect, Goto, clientVars
  <2>2. reg[c] \in Roles
    BY <1>0, <2>1 DEF TypeOK
  <2> QED BY <1>0, <2>1, <2>2, Data DEF TypeOK
<1>9. ASSUME NEW c \in Conns, RelaySend(c) \/ RelayQueue(c) PROVE Heard'
  <2>1. /\ UNCHANGED <<reg, backlog, gone, closed, inbox, cancelled, down>>
        /\ relayPC' = [relayPC EXCEPT ![c] = "check"]
    BY <1>9 DEF RelaySend, RelayQueue, NextRound, Goto, clientVars
  <2> QED BY <1>0, <2>1 DEF TypeOK
<1>10. ASSUME SwapBackend PROVE Heard'
  <2>1. /\ UNCHANGED <<reg, backlog, relayPC, gone, inbox, down>>
        /\ cancelled' = [d \in Conns |-> cancelled[d] \/ d = current["backend"]]
        /\ closed' = [closed EXCEPT ![current["backend"]] = TRUE]
        /\ current["backend"] # NoConn
    BY <1>10 DEF SwapBackend, CancelRelay, clientVars
  <2>2. \A d \in Conns : d = current["backend"] => reg[d] \in Roles
    BY <1>0, <2>1 DEF Waiting, TypeOK, Roles
  <2>3. /\ \A d \in Conns : cancelled[d] => cancelled'[d]
        /\ cancelled'[current["backend"]]
    BY <1>0, <2>1 DEF TypeOK, Roles
  <2>4. \A d \in Conns : reg'[d] \in Roles =>
          IsRead(d)' \/ (gone'[d] /\ inbox'[d] = <<>>) \/ Superseded(d)'
    BY <2>1, <2>3
  <2>5. \A d \in Conns : closed'[d] => closed[d] \/ d = current["backend"]
    BY <1>0, <2>1 DEF TypeOK
  <2>6. \A d \in Conns : closed'[d] =>
          reg'[d] # "none" /\ (reg'[d] = "unknown" \/ Superseded(d)')
    BY <2>1, <2>2, <2>3, <2>5, Data
  <2> QED BY <2>4, <2>6
<1>11. ASSUME StopRun \/ Close PROVE Heard'
  <2>1. /\ down' # "up" /\ UNCHANGED reg
        /\ \A d \in Conns : closed'[d] => closed[d] \/ \E r \in Roles : d = current[r]
    BY <1>11 DEF StopRun, Close
  <2>2. \A d \in Conns : (\E r \in Roles : d = current[r]) => reg[d] \in Roles
    BY <1>0, HubAssumption DEF Waiting, TypeOK
  <2> QED BY <2>1, <2>2, Data
<1>12. CASE UNCHANGED vars
  BY <1>12 DEF vars, clientVars, relayVars, hubVars
<1> QED BY <1>1, <1>2, <1>3, <1>4, <1>5, <1>6, <1>7, <1>8, <1>9, <1>10, <1>11, <1>12
        DEF Next, Relay

\* A message is decoded by the relay of its connection unless the hub supersedes
\* the connection, and is at one place at each moment, for any number of clients
\* that connect, send, are replaced or go away (hub.go:104-119, 145-270).
THEOREM ExactlyOnceCorrect == Spec => []ExactlyOnce
<1>1. HubInv /\ Heard => ExactlyOnce
  <2> SUFFICES ASSUME HubInv, Heard
               PROVE  ExactlyOnce
    OBVIOUS
  <2>20. ASSUME NEW c \in Conns, inbox[c] # <<>> PROVE IsRead(c) \/ Superseded(c)
    <3>1. inbox[c] \in Seq(Messages) /\ Stream
      BY DEF HubInv, TypeOK
    <3>2. Head(inbox[c]) \in Range(inbox[c])
      BY <2>20, <3>1, QueueTail
    <3>3. reg[c] \in Roles
      BY <3>1, <3>2 DEF Stream, Sent
    <3> QED BY <2>20, <3>3 DEF Heard
  <2> SUFFICES ASSUME NEW r \in Roles, NEW n \in DOMAIN sent[r]
               PROVE  LET m == [via |-> sent[r][n], n |-> n]
                      IN  Cardinality(
                            Places("inbox", inbox, m) \cup Places("queue", queue, m)
                            \cup Places("written", written, m)
                            \cup {<<"hand", c, 0>> : c \in {x \in Conns : hand[x] = m}}
                            \cup {<<"dropped", d, 0>> : d \in dropped \cap {m}}) = 1
    BY <2>20 DEF ExactlyOnce
  <2>1. /\ TypeOK /\ HandFull /\ Stream /\ Ahead /\ Apart /\ Complete
        /\ DOMAIN inbox = Conns /\ DOMAIN queue = Roles /\ DOMAIN written = Conns
    BY DEF HubInv, TypeOK
  <2>2. PICK m \in Messages : m = [via |-> sent[r][n], n |-> n]
    <3>1. sent[r] \in Seq(Conns)
      BY <2>1 DEF TypeOK
    <3>2. sent[r][n] \in Conns /\ n \in Nat
      BY <3>1, ElementOfSeq, LenProperties
    <3> QED BY <3>2, Data
  <2> DEFINE In == Places("inbox", inbox, m)
             Qu == Places("queue", queue, m)
             Wr == Places("written", written, m)
             Ha == {<<"hand", c, 0>> : c \in {x \in Conns : hand[x] = m}}
             Dr == {<<"dropped", d, 0>> : d \in dropped \cap {m}}
             All == In \cup Qu \cup Wr \cup Ha \cup Dr
  <2>3. /\ \A p : p \in In <=> \E c \in Conns : \E i \in DOMAIN inbox[c] :
                                 inbox[c][i] = m /\ p = <<"inbox", c, i>>
        /\ \A p : p \in Qu <=> \E s \in Roles : \E i \in DOMAIN queue[s] :
                                 queue[s][i] = m /\ p = <<"queue", s, i>>
        /\ \A p : p \in Wr <=> \E c \in Conns : \E i \in DOMAIN written[c] :
                                 written[c][i] = m /\ p = <<"written", c, i>>
        /\ \A p : p \in Ha <=> \E c \in Conns : hand[c] = m /\ p = <<"hand", c, 0>>
        /\ \A p : p \in Dr <=> m \in dropped /\ p = <<"dropped", m, 0>>
    BY <2>1 DEF Places
  <2>4. /\ \A c \in Conns : m \in Range(inbox[c]) \/ hand[c] = m => c = m.via
        /\ \A c \in Conns : m \in Range(inbox[c]) => hand[c] # m
        /\ m \in Passed => \A c \in Conns : m \notin Range(inbox[c]) /\ hand[c] # m
    <3>0. m.via \in Conns /\ m.n \in Nat /\ m # NoMessage
      BY HubAssumption DEF Messages, NoMessage
    <3>1. \A c \in Conns : hand[c] = m => relayPC[c] = "forward"
      BY <2>1, <3>0 DEF Stream
    <3>2. \A c \in Conns : m \in Range(inbox[c]) \/ hand[c] = m => c = m.via
      BY <2>1, <3>1 DEF Stream
    <3>3. \A c \in Conns : m \in Range(inbox[c]) => hand[c] # m
      BY <2>1, <3>0, <3>1 DEF Stream
    <3>4. ASSUME m \in Passed, NEW c \in Conns
          PROVE  m \notin Range(inbox[c]) /\ hand[c] # m
      BY <2>1, <3>0, <3>1, <3>2, <3>4 DEF Ahead
    <3> QED BY <3>2, <3>3, <3>4
  <2>5. /\ \A c \in Conns : /\ inbox[c] \in Seq(Messages) /\ Ordered(inbox[c])
                            /\ written[c] \in Seq(Messages) /\ Ordered(written[c])
        /\ \A s \in Roles : queue[s] \in Seq(Messages) /\ Ordered(queue[s])
    BY <2>1 DEF TypeOK, Stream, Apart
  <2>6. /\ \A c \in Conns : \A i \in DOMAIN inbox[c] : inbox[c][i] \in Range(inbox[c])
        /\ \A c \in Conns : \A i \in DOMAIN written[c] :
             written[c][i] \in Range(written[c]) /\ written[c][i] \in Passed
        /\ \A s \in Roles : \A i \in DOMAIN queue[s] :
             queue[s][i] \in Range(queue[s]) /\ queue[s][i] \in Passed
        /\ dropped \subseteq Passed
    BY <2>1, Contents DEF Range
  <2> HIDE DEF In, Qu, Wr, Ha, Dr
  <2>7. \A p, t \in In : p = t
    BY <2>3, <2>4, <2>5, <2>6, OnePlace
  <2>8. \A p, t \in Qu : p = t
    <3>1. \A s, u \in Roles : m \in Range(queue[s]) /\ m \in Range(queue[u]) => s = u
      BY <2>1 DEF Apart
    <3> QED BY <2>3, <2>5, <2>6, <3>1, OnePlace
  <2>9. \A p, t \in Wr : p = t
    <3>1. \A c, d \in Conns : m \in Range(written[c]) /\ m \in Range(written[d]) => c = d
      BY <2>1 DEF Apart
    <3> QED BY <2>3, <2>5, <2>6, <3>1, OnePlace
  <2>10. \A p, t \in Ha : p = t
    BY <2>3, <2>4
  <2>11. \A p, t \in Dr : p = t
    BY <2>3
  <2>12. /\ In # {} => Qu = {} /\ Wr = {} /\ Ha = {} /\ Dr = {}
         /\ Ha # {} => Qu = {} /\ Wr = {} /\ Dr = {}
    BY <2>3, <2>4, <2>6
  <2>13. /\ Qu # {} => Wr = {} /\ Dr = {}
         /\ Wr # {} => Dr = {}
    BY <2>1, <2>3, <2>6 DEF Apart
  <2>14. All # {}
    <3>1. m.via \in Conns
      BY DEF Messages
    <3>2. CASE m \in Range(inbox[m.via])
      BY <2>3, <3>1, <3>2 DEF Range
    <3>3. CASE hand[m.via] = m
      BY <2>3, <3>1, <3>3
    <3>4. CASE m \in Passed
      <4>1. \/ \E s \in Roles : m \in Range(queue[s])
            \/ \E d \in Conns : m \in Range(written[d])
            \/ m \in dropped
        BY <3>4 DEF Passed
      <4> QED BY <2>3, <4>1 DEF Range
    <3>5. m \in Range(inbox[m.via]) \/ m = hand[m.via] \/ m \in Passed
      BY <2>1, <2>2 DEF Complete
    <3> QED BY <3>2, <3>3, <3>4, <3>5
  <2>15. \A p, t \in All : p = t
    BY <2>7, <2>8, <2>9, <2>10, <2>11, <2>12, <2>13
  <2>16. \E p : All = {p}
    BY <2>14, <2>15
  <2>17. Cardinality(All) = 1
    BY <2>16, FS_Singleton
  <2> QED BY <2>2, <2>17 DEF In, Qu, Wr, Ha, Dr
<1>2. Init => Heard
  BY Data DEF Init, Heard
<1>3. HubInv /\ Heard /\ [Next]_vars => HubInv' /\ Heard'
  BY HubStep, HeardStep
<1> QED BY <1>1, <1>2, <1>3, HubInit, PTL DEF Spec
=============================================================================
