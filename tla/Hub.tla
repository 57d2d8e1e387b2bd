-------------------------------- MODULE Hub --------------------------------
(***************************************************************************)
(* The hub of djinn's hot swap (hotswap/hub.go): a daemon to which a shell *)
(* and a backend connect over a Unix socket.  It relays between the two    *)
(* and queues for the side that is away; either side may disconnect,       *)
(* reconnect or be replaced at any time.  The code has each function twice,*)
(* once per direction; here they are one, with the role as a parameter.    *)
(*                                                                         *)
(* A relay goroutine's steps are cut where it takes and releases h.mu;     *)
(* registration holds it from beginning to end.                            *)
(***************************************************************************)
EXTENDS Naturals, Sequences, FiniteSets

CONSTANTS Conns,    \* connections, each dialled once
          MaxSends, \* bound: messages a role's clients send, per role
          NoConn

Roles == {"shell", "backend"}

ASSUME HubAssumption ==
  /\ MaxSends \in [Roles -> Nat]
  /\ NoConn \notin Conns

VARIABLES backlog,    \* dialled connections that Run has not registered yet
          reg,        \* the role in the client's registration message
          gone,       \* the client has closed its end
          closed,     \* SocketTransport.closed: the hub has closed its end
          inbox,      \* messages from the client that the hub has not decoded
          current,    \* h.shell, h.backend
          queue,      \* h.shellQ, h.backendQ: what is queued for the role
          relayPC,    \* the relay goroutine that reads the connection
          cancelled,  \* its context is cancelled
          hand,       \* the message it has decoded
          peer,       \* the other side's transport as it last read it
          written,    \* what has been written to the connection, in order
          sent,       \* the connections of the messages sent, per role
          dropped,    \* messages whose drain to a dead connection failed
          down        \* "up", Run's context is cancelled, or Close was called

clientVars == <<backlog, reg, gone>>
relayVars == <<relayPC, cancelled, hand, peer>>
hubVars == <<closed, current, queue, written, dropped, down>>
vars == <<clientVars, inbox, relayVars, hubVars, sent>>

Other(r) == IF r = "shell" THEN "backend" ELSE "shell"

Messages == [via : Conns, n : Nat]
NoMessage == [via |-> NoConn, n |-> 0]

RelayPCs == {"none", "check", "recv", "forward", "ended"}

\* The hub can write to the connection.
Writable(c) == ~closed[c] /\ ~gone[c]

Reachable(c) == c # NoConn /\ Writable(c)

\* The relay context of the role's current connection.
CancelRelay(r) == [c \in Conns |-> cancelled[c] \/ c = current[r]]

\* The listener is closed; Run may hold one more connection it has accepted.
CloseListener ==
  \/ backlog' = <<>>
  \/ backlog # <<>> /\ backlog' = <<Head(backlog)>>

\* The connection dialled next; connections have no identity in the code.
NextConn == CHOOSE c \in Conns : reg[c] = "none"

Goto(c, l) == relayPC' = [relayPC EXCEPT ![c] = l]

-----------------------------------------------------------------------------
Init ==
  /\ backlog = <<>>
  /\ reg = [c \in Conns |-> "none"]
  /\ gone = [c \in Conns |-> FALSE]
  /\ closed = [c \in Conns |-> FALSE]
  /\ inbox = [c \in Conns |-> <<>>]
  /\ current = [r \in Roles |-> NoConn]
  /\ queue = [r \in Roles |-> <<>>]
  /\ relayPC = [c \in Conns |-> "none"]
  /\ cancelled = [c \in Conns |-> FALSE]
  /\ hand = [c \in Conns |-> NoMessage]
  /\ peer = [c \in Conns |-> NoConn]
  /\ written = [c \in Conns |-> <<>>]
  /\ sent = [r \in Roles |-> <<>>]
  /\ dropped = {}
  /\ down = "up"

-----------------------------------------------------------------------------
\* The clients' side.  A client dials and sends its registration: its role, or
\* something that the hub does not take for one.
Dial(c, r) ==
  /\ down = "up"
  /\ reg[c] = "none" /\ c = NextConn
  /\ backlog' = Append(backlog, c)
  /\ reg' = [reg EXCEPT ![c] = r]
  /\ UNCHANGED <<gone, inbox, relayVars, hubVars, sent>>

ClientSend(c) ==
  /\ reg[c] \in Roles
  /\ Writable(c)
  /\ Len(sent[reg[c]]) < MaxSends[reg[c]]
  /\ sent' = [sent EXCEPT ![reg[c]] = Append(@, c)]
  /\ inbox' = [inbox EXCEPT ![c] =
                 Append(@, [via |-> c, n |-> Len(sent[reg[c]]) + 1])]
  /\ UNCHANGED <<clientVars, relayVars, hubVars>>

\* The process ends; what it has written can still be read.  Once the hub has
\* closed its end this changes nothing more.
ClientClose(c) ==
  /\ reg[c] \in Roles /\ Writable(c)
  /\ gone' = [gone EXCEPT ![c] = TRUE]
  /\ UNCHANGED <<backlog, reg, inbox, relayVars, hubVars, sent>>

-----------------------------------------------------------------------------
\* Mutant of Reject: "continue" is missing, the connection gets its relay.
RejectStartsRelay(c) ==
  /\ backlog # <<>> /\ c = Head(backlog)
  /\ reg[c] = "unknown"
  /\ backlog' = Tail(backlog)
  /\ closed' = [closed EXCEPT ![c] = TRUE]
  /\ Goto(c, "check")
  /\ UNCHANGED <<reg, gone, inbox, cancelled, hand, peer, current, queue,
                 written, sent, dropped, down>>

\* Run: accept, then wait for the registration of that one connection.
Reject(c) ==
  /\ backlog # <<>> /\ c = Head(backlog)
  /\ reg[c] = "unknown"
  /\ backlog' = Tail(backlog)
  /\ closed' = [closed EXCEPT ![c] = TRUE]
  /\ UNCHANGED <<reg, gone, inbox, relayVars, current, queue, written, sent,
                 dropped, down>>

\* Mutant of CloseReplaced: the connection that was replaced stays open.
CloseNothing(r) == UNCHANGED closed

\* h.shell.Close(), h.backend.Close()
CloseReplaced(r) ==
  closed' = [c \in Conns |-> closed[c] \/ c = current[r]]

\* Mutant of ClearQueue: the drained messages stay queued.
KeepQueue(r) == UNCHANGED queue

\* h.shellQ = nil, h.backendQ = nil
ClearQueue(r) == queue' = [queue EXCEPT ![r] = <<>>]

\* registerShell and registerBackend: replace the role's connection, drain its
\* queue to the new one, start the relay that reads it.  Send errors are ignored:
\* of a client that has gone, or goes after k messages, the rest is dropped.
Register(c) ==
  LET r == reg[c] IN
  /\ backlog # <<>> /\ c = Head(backlog)
  /\ r \in Roles
  /\ backlog' = Tail(backlog)
  /\ cancelled' = CancelRelay(r)
  /\ CloseReplaced(r)
  /\ current' = [current EXCEPT ![r] = c]
  /\ \E k \in 0..Len(queue[r]) :
       /\ ~Writable(c) => k = 0
       /\ written' = [written EXCEPT ![c] = SubSeq(queue[r], 1, k)]
       /\ dropped' = dropped \cup {queue[r][i] : i \in (k + 1)..Len(queue[r])}
       /\ gone' = [gone EXCEPT ![c] = @ \/ k < Len(queue[r])]
  /\ ClearQueue(r)
  /\ Goto(c, "check")
  /\ UNCHANGED <<reg, inbox, hand, peer, sent, down>>

-----------------------------------------------------------------------------
\* relayShellToBackend and relayBackendToShell.
RelayCheck(c) ==
  /\ relayPC[c] = "check"
  /\ Goto(c, IF cancelled[c] THEN "ended" ELSE "recv")
  /\ UNCHANGED <<clientVars, inbox, cancelled, hand, peer, hubVars, sent>>

\* Decode a message, of which the decoder may hold some even after the
\* connection is closed, then read the other side's connection under the lock;
\* it is used outside it.
RelayRecv(c) ==
  /\ relayPC[c] = "recv"
  /\ inbox[c] # <<>>
  /\ hand' = [hand EXCEPT ![c] = Head(inbox[c])]
  /\ inbox' = [inbox EXCEPT ![c] = Tail(@)]
  /\ peer' = [peer EXCEPT ![c] = current[Other(reg[c])]]
  /\ Goto(c, "forward")
  /\ UNCHANGED <<clientVars, cancelled, hubVars, sent>>

\* Mutant of Forget: without comparing with the current connection.
ForgetCurrent(c) == current' = [current EXCEPT ![reg[c]] = NoConn]

\* if h.shell == transport { h.shell = nil }, and the same for the backend.
Forget(c) ==
  current' = [r \in Roles |-> IF r = reg[c] /\ current[r] = c
                              THEN NoConn ELSE current[r]]

\* Disconnected: forget the connection, unless it has been replaced.
RelayDisconnect(c) ==
  /\ relayPC[c] = "recv"
  /\ closed[c] \/ (gone[c] /\ inbox[c] = <<>>)
  /\ Forget(c)
  /\ Goto(c, "ended")
  /\ UNCHANGED <<clientVars, inbox, cancelled, hand, peer, closed, queue,
                 written, dropped, down, sent>>

\* The locals of the loop's body end with it.
NextRound(c) ==
  /\ hand' = [hand EXCEPT ![c] = NoMessage]
  /\ peer' = [peer EXCEPT ![c] = NoConn]
  /\ Goto(c, "check")

RelaySend(c) ==
  /\ relayPC[c] = "forward"
  /\ Reachable(peer[c])
  /\ written' = [written EXCEPT ![peer[c]] = Append(@, hand[c])]
  /\ NextRound(c)
  /\ UNCHANGED <<clientVars, inbox, cancelled, closed, current, queue, dropped,
                 down, sent>>

\* Mutant of Enqueue: the message goes to the front of the queue.
EnqueueFront(r, m) == queue' = [queue EXCEPT ![r] = <<m>> \o @]

\* h.backendQ = append(h.backendQ, msg), h.shellQ = append(h.shellQ, msg)
Enqueue(r, m) == queue' = [queue EXCEPT ![r] = Append(@, m)]

\* There was no connection, or the send fails: queue the message, under the lock
\* again.  A connection that cannot be written to stays so.
RelayQueue(c) ==
  /\ relayPC[c] = "forward"
  /\ ~Reachable(peer[c])
  /\ Enqueue(Other(reg[c]), hand[c])
  /\ NextRound(c)
  /\ UNCHANGED <<clientVars, inbox, cancelled, closed, current, written,
                 dropped, down, sent>>

-----------------------------------------------------------------------------
\* SwapBackend disconnects the backend before it starts the new binary.
SwapBackend ==
  /\ current["backend"] # NoConn
  /\ cancelled' = CancelRelay("backend")
  /\ closed' = [closed EXCEPT ![current["backend"]] = TRUE]
  /\ current' = [current EXCEPT !["backend"] = NoConn]
  /\ UNCHANGED <<clientVars, inbox, relayPC, hand, peer, queue, written,
                 dropped, down, sent>>

\* Run's context, from which every relay's derives, is cancelled.
StopRun ==
  /\ down = "up"
  /\ down' = "stopped"
  /\ cancelled' = [c \in Conns |-> TRUE]
  /\ CloseListener
  /\ UNCHANGED <<reg, gone, inbox, relayPC, hand, peer, closed, current, queue,
                 written, dropped, sent>>

Close ==
  /\ down # "closed"
  /\ down' = "closed"
  /\ cancelled' = [c \in Conns |-> cancelled[c] \/ \E r \in Roles : c = current[r]]
  /\ closed' = [c \in Conns |-> closed[c] \/ \E r \in Roles : c = current[r]]
  /\ CloseListener
  /\ UNCHANGED <<reg, gone, inbox, relayPC, hand, peer, current, queue,
                 written, dropped, sent>>

Relay(c) ==
  \/ RelayCheck(c) \/ RelayRecv(c) \/ RelayDisconnect(c)
  \/ RelaySend(c) \/ RelayQueue(c)

Next ==
  \/ \E c \in Conns :
       \/ \E r \in Roles \cup {"unknown"} : Dial(c, r)
       \/ ClientSend(c) \/ ClientClose(c)
       \/ Reject(c) \/ Register(c) \/ Relay(c)
  \/ SwapBackend \/ StopRun \/ Close

Spec == Init /\ [][Next]_vars

\* Go's scheduler keeps the relays and Run going; clients owe nothing.
FairSpec ==
  /\ Spec
  /\ \A c \in Conns : WF_vars(Relay(c)) /\ WF_vars(Register(c) \/ Reject(c))
-----------------------------------------------------------------------------
\* The types of the variables, and that only a registered role gets a relay
\* (hub.go:85-94).
TypeOK ==
  /\ backlog \in Seq(Conns)
  /\ reg \in [Conns -> Roles \cup {"none", "unknown"}]
  /\ gone \in [Conns -> BOOLEAN]
  /\ closed \in [Conns -> BOOLEAN]
  /\ inbox \in [Conns -> Seq(Messages)]
  /\ current \in [Roles -> Conns \cup {NoConn}]
  /\ queue \in [Roles -> Seq(Messages)]
  /\ relayPC \in [Conns -> RelayPCs]
  /\ cancelled \in [Conns -> BOOLEAN]
  /\ hand \in [Conns -> Messages \cup {NoMessage}]
  /\ peer \in [Conns -> Conns \cup {NoConn}]
  /\ written \in [Conns -> Seq(Messages)]
  /\ sent \in [Roles -> Seq(Conns)]
  /\ dropped \in SUBSET Messages
  /\ down \in {"up", "stopped", "closed"}
  /\ \A c \in Conns : relayPC[c] # "none" => reg[c] \in Roles

\* Where message m is in the sequences that f has.
Places(name, f, m) ==
  UNION {{<<name, x, i>> : i \in {j \in DOMAIN f[x] : f[x][j] = m}} : x \in DOMAIN f}

\* A relay decodes what comes from c, or will once Run has registered c.
IsRead(c) ==
  relayPC[c] \notin {"none", "ended"} \/ \E i \in DOMAIN backlog : backlog[i] = c

\* The hub has replaced c or swapped it out, or is shutting down.
Superseded(c) == cancelled[c] \/ down # "up"

\* Every message is at each moment in exactly one place: not decoded, in a
\* relay's hands, queued, written to one connection, or dropped by a drain.
\* What is not decoded is lost when the relay of its connection ends, as nobody
\* else reads it; that is so only of a connection that the hub itself replaced,
\* swapped out or shut down.  All that a client has sent before it goes is still
\* read, and no message is copied or, once decoded, lost but by a drain
\* (hub.go:104-119, 145-270).
ExactlyOnce ==
  /\ \A r \in Roles : \A n \in DOMAIN sent[r] :
       LET m == [via |-> sent[r][n], n |-> n]
       IN  Cardinality(Places("inbox", inbox, m) \cup Places("queue", queue, m)
                       \cup Places("written", written, m)
                       \cup {<<"hand", c, 0>> : c \in {x \in Conns : hand[x] = m}}
                       \cup {<<"dropped", d, 0>> : d \in dropped \cap {m}}) = 1
  /\ \A c \in Conns : inbox[c] # <<>> => IsRead(c) \/ Superseded(c)

\* Messages that one client sent over one connection reach a connection of the
\* other side in the order sent, however the queue, the drain at registration
\* and direct sends interleave (hub.go:159-163, 214-229).
OrderedPerConnection ==
  \A c \in Conns : \A i, j \in DOMAIN written[c] :
    (i < j /\ written[c][i].via = written[c][j].via)
      => written[c][i].n < written[c][j].n

\* A registered client that is still connected on both ends is the one the hub
\* routes to: the late end of a replaced relay never clears the connection of
\* its successor (hub.go:204-211, 242-250).
LiveIsCurrent ==
  \A c \in Conns :
    (relayPC[c] # "none" /\ Writable(c)) => current[reg[c]] = c

\* The relay goroutine of a connection that was replaced or disconnected ends:
\* reconnecting leaks no goroutine (hub.go:149-155, 198-212).
ReplacedRelayEnds ==
  \A c \in Conns :
    (relayPC[c] # "none" /\ current[reg[c]] # c) ~> (relayPC[c] = "ended")

\* The hub "queues messages when one side is temporarily disconnected"
\* (hub.go:5-6): what is queued for a side that is connected gets to it.
QueuedReachesPeer ==
  \A r \in Roles :
    (queue[r] # <<>> /\ current[r] # NoConn /\ down = "up")
      ~> (queue[r] = <<>> \/ current[r] = NoConn \/ down # "up")
=============================================================================
