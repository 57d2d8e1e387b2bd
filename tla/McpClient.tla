----------------------------- MODULE McpClient -----------------------------
(***************************************************************************)
(* The client of one MCP server (mcp/client/client.go), over the pipes of  *)
(* a subprocess or over HTTP: the handshake of a connection, tool calls    *)
(* with a timeout, and the second attempt after an error that looks like   *)
(* one of the session.                                                     *)
(*                                                                         *)
(* A request is the step of a call that sends it.  A call's own requests   *)
(* are sent by goroutines that outlive its timeout, the handshake's by the *)
(* caller.  An answer has no ID that anything looks at: over stdio the     *)
(* next line is the answer, whatever it is, and the server may also write  *)
(* lines that nobody asked for, or stop reading what it is sent.  Lines    *)
(* are whole.  Over stdio the server never answers a notification, which   *)
(* is then no request to it, over HTTP with an empty body.  A failure that *)
(* has no word of the session in it ends a call as a result does.          *)
(***************************************************************************)
EXTENDS Naturals, Sequences, FiniteSets

CONSTANTS Calls, Connect,  \* tool calls; the call that connects
          SessionNamed,    \* calls of a server or tool with such a word in its name
          Transports,      \* of "stdio", "http"
          NoRequest, NoAnswer,
          Scenarios        \* bound: the calls made, and how many lines of the server
                           \* answer nothing

Callers == Calls \cup {Connect}
Handshake == {"initialize", "initialized", "list", "listAgain"}
Steps == {"call", "callAgain"} \cup Handshake
Requests == Callers \X Steps

\* What a server answers: the result, or a failure; one about the session and
\* one of the tool whose text has such a word are the same to the client.
AnswerKinds == {"ok", "failed", "sessionText"}

\* A line that answers nothing: JSON without a result, or no JSON.
StrayKinds == {"notice", "text"}

\* What becomes of a request; "late" is the read deadline, "broken" a closed
\* pipe or connection.
Kinds == AnswerKinds \cup StrayKinds \cup {"late", "broken"}
Answers == [kind : Kinds, to : Requests \cup {NoRequest}]

VARIABLES transport,
          open,     \* the server is in c.servers
          alive,    \* the subprocess runs
          reads,    \* and has not stopped reading its stdin for good
          pc,       \* the step a caller is in
          sending,  \* a request is not sent, waits for conn.mu, is written,
                    \* has its answer read, is over
          lock,     \* the request that holds conn.mu
          answer,   \* what send returned to a caller that still needs it
          atServer, \* requests that the server has not answered
          lines,    \* lines of the server that nobody has read
          strays,   \* how many lines that answer nothing are still to come
          shifted   \* one of them came, or an answer was or may still be on its way
                    \* when a read gave up

server == <<transport, alive, reads>>
wire == <<atServer, lines>>
extra == <<strays, shifted>>
vars == <<server, open, pc, sending, lock, answer, wire, extra>>

\* isSessionError, by the words in the error: the error of send is wrapped with
\* the names, a timeout's too, the server's own is not.
SessionError(c, k) ==
  \/ k \in {"sessionText", "broken"}
  \/ k \in {"late", "text"} /\ c \in SessionNamed

\* A process that ended reads and answers nothing; an HTTP server stays.
Kill ==
  IF transport = "http" THEN UNCHANGED <<alive, reads, atServer>>
  ELSE alive' = FALSE /\ reads' = FALSE /\ atServer' = {}

Step(c, s) == pc' = [pc EXCEPT ![c] = s]

\* What a caller is done with; a request that is still out stays.
Forget(c, S) ==
  [r \in Requests |-> IF r[1] = c /\ r[2] \in S THEN NoAnswer ELSE answer[r]]
Ended(c) ==
  [r \in Requests |-> IF r[1] = c /\ sending[r] = "over" THEN "no" ELSE sending[r]]

\* The caller goes on with a request: it waits for conn.mu.
Send(c, s) ==
  /\ Step(c, s)
  /\ sending' = [Ended(c) EXCEPT ![<<c, s>>] = "lock"]
  /\ answer' = Forget(c, Handshake)

Return(c) == Step(c, "returned") /\ sending' = Ended(c) /\ answer' = Forget(c, Steps)

-----------------------------------------------------------------------------
Init ==
  /\ transport \in Transports
  /\ open = FALSE /\ alive = TRUE /\ reads = TRUE
  /\ \E x \in Scenarios :
       /\ pc = [c \in Callers |-> IF c \in x.calls \cup {Connect} THEN "idle" ELSE "returned"]
       /\ strays = x.strays
  /\ sending = [r \in Requests |-> "no"]
  /\ lock = NoRequest
  /\ answer = [r \in Requests |-> NoAnswer]
  /\ atServer = {} /\ lines = <<>>
  /\ shifted = FALSE

\* A call finds the server, or returns ErrServerNotFound.
Begin(c) ==
  /\ pc[c] = "idle"
  /\ \/ c = Connect /\ Send(c, "initialize")
     \/ c # Connect /\ open /\ Send(c, "call")
     \/ c # Connect /\ ~open /\ pc[Connect] = "returned" /\ Return(c)
  /\ UNCHANGED <<server, open, lock, wire, extra>>

-----------------------------------------------------------------------------
\* send, on its goroutine.
Awaited(r) == pc[r[1]] = r[2]

Over(r, a) ==
  /\ answer' = [answer EXCEPT ![r] = IF Awaited(r) THEN a ELSE NoAnswer]
  /\ sending' = [sending EXCEPT ![r] = IF Awaited(r) THEN "over" ELSE "no"]
  /\ lock' = IF lock = r THEN NoRequest ELSE lock

Broken(r) == [kind |-> "broken", to |-> r]

\* Mutant of Locked: conn.mu is not taken.
LockedNever(r) == FALSE

Locked(r) == lock # NoRequest

Lock(r) ==
  /\ sending[r] = "lock" /\ ~Locked(r)
  /\ lock' = r
  /\ sending' = [sending EXCEPT ![r] = "write"]
  /\ UNCHANGED <<server, open, pc, answer, wire, extra>>

Asks(r) == transport = "http" \/ r[2] # "initialized"

\* The write, which has no deadline.  One that the server does not read any more
\* ends when the pipe has room, if ever.
Write(r) ==
  /\ sending[r] = "write"
  /\ \/ /\ ~alive
        /\ Over(r, Broken(r))
        /\ UNCHANGED atServer
     \/ /\ alive
        /\ atServer' = atServer \cup {q \in {r} : reads /\ Asks(q)}
        /\ sending' = [sending EXCEPT ![r] = "read"]
        /\ UNCHANGED <<lock, answer>>
  /\ UNCHANGED <<server, open, pc, lines, extra>>

\* Over stdio the next line is the answer, whatever it answers.
ReadAnswer(r) ==
  /\ sending[r] = "read" /\ lines # <<>>
  /\ transport = "http" => Head(lines).to = r
  /\ Over(r, Head(lines))
  /\ lines' = Tail(lines)
  /\ UNCHANGED <<server, open, pc, atServer, extra>>

ReadEOF(r) ==
  /\ transport = "stdio" /\ sending[r] = "read" /\ lines = <<>> /\ ~alive
  /\ Over(r, Broken(r))
  /\ UNCHANGED <<server, open, pc, wire, extra>>

\* Mutant of ReadDeadline: the pipe has none.
ReadDeadlineNever(r) == FALSE /\ UNCHANGED vars

ReadDeadline(r) ==
  /\ transport = "stdio" /\ sending[r] = "read"
  /\ Over(r, [kind |-> "late", to |-> r])
  /\ shifted' = (shifted \/ r[2] # "initialized")
  /\ UNCHANGED <<server, open, pc, wire, strays>>

\* An HTTP request fails, before or after the server has seen to it; its answer
\* goes unread.
HttpBreak(r) ==
  /\ transport = "http" /\ sending[r] \in {"write", "read"}
  /\ Over(r, Broken(r))
  /\ atServer' = atServer \ {r}
  /\ lines' = IF lines # <<>> /\ Head(lines).to = r THEN Tail(lines) ELSE lines
  /\ UNCHANGED <<server, open, pc, extra>>

-----------------------------------------------------------------------------
\* The server answers what it has, in any order, if it does.
Respond(r) ==
  /\ alive /\ r \in atServer
  /\ atServer' = atServer \ {r}
  /\ \/ /\ r[2] = "initialized"
        /\ lines' = Append(lines, [kind |-> "failed", to |-> r])
     \/ /\ r[2] \in Handshake \ {"initialized"}
        /\ \E k \in {"ok", "failed"} : lines' = Append(lines, [kind |-> k, to |-> r])
     \/ /\ r[2] \in {"call", "callAgain"}
        /\ \E k \in {"ok", "sessionText"} : lines' = Append(lines, [kind |-> k, to |-> r])
  /\ UNCHANGED <<server, open, pc, sending, lock, answer, extra>>

\* A notification, or text that a tool prints to stdout.
Chatter(k) ==
  /\ transport = "stdio" /\ alive /\ strays > 0
  /\ lines' = Append(lines, [kind |-> k, to |-> NoRequest])
  /\ strays' = strays - 1 /\ shifted' = TRUE
  /\ UNCHANGED <<server, open, pc, sending, lock, answer, atServer>>

StopReading ==
  /\ transport = "stdio" /\ alive /\ reads
  /\ reads' = FALSE
  /\ UNCHANGED <<transport, alive, open, pc, sending, lock, answer, wire, extra>>

Die ==
  /\ transport = "stdio" /\ alive
  /\ Kill
  /\ UNCHANGED <<transport, open, pc, sending, lock, answer, lines, extra>>

-----------------------------------------------------------------------------
\* A call gives up at its timeout; its goroutine goes on.
TimeoutRetries(c) == pc[c] = "call" /\ open /\ c \in SessionNamed

CallTimeout(c) ==
  /\ pc[c] \in {"call", "callAgain"}
  /\ IF TimeoutRetries(c) THEN Send(c, "initialize") ELSE Return(c)
  /\ UNCHANGED <<server, open, lock, wire, extra>>

Answered(c, s) == pc[c] = s /\ sending[<<c, s>>] = "over"
Kind(c) == answer[<<c, pc[c]>>].kind

Retries(c) == pc[c] = "call" /\ open /\ SessionError(c, Kind(c))

CallAnswered(c) ==
  /\ Answered(c, "call") \/ Answered(c, "callAgain")
  /\ IF Retries(c) THEN Send(c, "initialize") ELSE Return(c)
  /\ UNCHANGED <<server, open, lock, wire, extra>>

\* initializeServer: it gives up at the first error, but for the notification's
\* and one refusal of the list.  It does not look at the result of initialize.
Welcomed(c) == Answered(c, "initialize") /\ Kind(c) \in {"ok", "notice"}

HandshakeFails(c) ==
  \/ Answered(c, "initialize") /\ ~Welcomed(c)
  \/ Answered(c, "list") /\ Kind(c) \in Kinds \ AnswerKinds
  \/ Answered(c, "listAgain") /\ Kind(c) # "ok"

HandshakeSends(c, s) ==
  \/ Welcomed(c) /\ s = "initialized"
  \/ Answered(c, "initialized") /\ s = "list"
  \/ Answered(c, "list") /\ Kind(c) \in AnswerKinds \ {"ok"} /\ s = "listAgain"

HandshakeDone(c) == (Answered(c, "list") \/ Answered(c, "listAgain")) /\ Kind(c) = "ok"

HandshakeStep(c) ==
  /\ \/ /\ \E s \in Handshake : HandshakeSends(c, s) /\ Send(c, s)
        /\ UNCHANGED <<open, alive, reads, atServer>>
     \/ /\ HandshakeFails(c) /\ Return(c)
        /\ IF c = Connect THEN Kill ELSE UNCHANGED <<alive, reads, atServer>>
        /\ UNCHANGED open
     \/ /\ c # Connect /\ HandshakeDone(c)
        /\ IF open THEN Send(c, "callAgain") ELSE Return(c)
        /\ UNCHANGED <<open, alive, reads, atServer>>
     \/ /\ c = Connect /\ HandshakeDone(c)
        /\ Return(c) /\ open' = TRUE
        /\ UNCHANGED <<alive, reads, atServer>>
  /\ UNCHANGED <<transport, lock, lines, extra>>

Close ==
  /\ open /\ open' = FALSE
  /\ Kill
  /\ UNCHANGED <<transport, pc, sending, lock, answer, lines, extra>>

SendStep(r) ==
  Lock(r) \/ Write(r) \/ ReadAnswer(r) \/ ReadEOF(r) \/ ReadDeadline(r) \/ HttpBreak(r)
ServerStep ==
  \/ \E r \in Requests : Respond(r)
  \/ \E k \in StrayKinds : Chatter(k)
  \/ StopReading \/ Die
CallStep(c) == Begin(c) \/ CallTimeout(c) \/ CallAnswered(c) \/ HandshakeStep(c)

Next ==
  \/ \E r \in Requests : SendStep(r)
  \/ \E c \in Callers : CallStep(c)
  \/ ServerStep \/ Close

Spec == Init /\ [][Next]_vars

\* Goroutines run, locks are granted and timers fire; a server need not answer,
\* and what is written to one that does not read need not get into the pipe.
ClientStep ==
  \/ \E r \in Requests :
       \/ Lock(r) \/ ((reads \/ ~alive) /\ Write(r))
       \/ ReadAnswer(r) \/ ReadEOF(r) \/ ReadDeadline(r)
  \/ \E c \in Callers : CallTimeout(c) \/ CallAnswered(c) \/ HandshakeStep(c)

FairSpec == Spec /\ WF_vars(ClientStep)

-----------------------------------------------------------------------------
\* Ranges; conn.mu is held by a request that is written or waits for its answer
\* (client.go:171-183).
TypeOK ==
  /\ transport \in Transports /\ open \in BOOLEAN /\ alive \in BOOLEAN /\ reads \in BOOLEAN
  /\ pc \in [Callers -> Steps \cup {"idle", "returned"}]
  /\ sending \in [Requests -> {"no", "lock", "write", "read", "over"}]
  /\ lock \in Requests \cup {NoRequest}
  /\ answer \in [Requests -> Answers \cup {NoAnswer}]
  /\ atServer \subseteq Requests /\ lines \in Seq(Answers)
  /\ \A c \in Callers : pc[c] \in Steps => sending[<<c, pc[c]>>] # "no"
  /\ \A r \in Requests : lock = r => sending[r] \in {"write", "read"}

\* Nothing compares IDs.  While the server writes nothing but answers and no read
\* has given up on one, every answer still goes to the request it answers, for
\* calls and handshakes that run at the same time share a connection one request
\* at a time.  After a line that answers nothing or an answer that comes too late
\* it may go to a later request, over stdio, but never while the one it answers
\* still waits for it (client.go:171-183, 377-408).
AnswerMatches ==
  \A r \in Requests : answer[r] # NoAnswer =>
    /\ ~shifted => answer[r].to = r
    /\ answer[r].to \notin {r, NoRequest} => sending[answer[r].to] \in {"no", "over"}

\* A call over stdio, and the connection itself, return though the server never
\* answers anything or stops reading what it is sent.  But for one case: in a
\* handshake, also that of a second attempt, which no timeout of the call covers,
\* the caller waits for as long as a server runs that does not read any more
\* (client.go:108-139, 236-247, 275-286, 384-397).
StdioCallReturns ==
  LET hangs(c) == pc[c] \in Handshake /\ alive /\ ~reads
  IN  <>[](transport = "stdio" => \A c \in Callers : pc[c] \in {"idle", "returned"} \/ hangs(c))
=============================================================================
