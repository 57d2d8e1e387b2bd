-------------------------- MODULE McpClientProofs --------------------------
(***************************************************************************)
(* Safety of McpClient for any number of calls on one connection.          *)
(***************************************************************************)
EXTENDS McpClient, SequenceTheorems, TLAPS

States == {"no", "lock", "write", "read", "over"}

Types ==
  /\ transport \in {"stdio", "http"}
  /\ pc \in [Callers -> Steps \cup {"idle", "returned"}]
  /\ sending \in [Requests -> States]
  /\ answer \in [Requests -> Answers \cup {NoAnswer}]
  /\ atServer \subseteq Requests /\ lines \in Seq(Answers)
  /\ alive \in BOOLEAN /\ reads \in BOOLEAN
  /\ transport = "http" => alive
  /\ ~alive => atServer = {}
  /\ \A r \in atServer : Asks(r)

\* The steps that a call has ahead of it are not sent: none is sent twice.
Ahead(p) ==
  CASE p = "idle" -> Steps
    [] p = "call" -> Handshake \cup {"callAgain"}
    [] p = "initialize" -> {"initialized", "list", "listAgain", "callAgain"}
    [] p = "initialized" -> {"list", "listAgain", "callAgain"}
    [] p = "list" -> {"listAgain", "callAgain"}
    [] p = "listAgain" -> {"callAgain"}
    [] OTHER -> {}

Fresh == \A c \in Callers : \A t \in Ahead(pc[c]) : sending[<<c, t>>] = "no"

\* conn.mu is held by the request that is written or waits for its answer, and by
\* no other.
Mutex ==
  /\ lock \in Requests \cup {NoRequest}
  /\ \A r \in Requests : sending[r] \in {"write", "read"} <=> lock = r

\* While no line is one too many, what the server has to answer and the line that
\* waits to be read are the lock holder's.
Wire ==
  ~shifted =>
    /\ lines # <<>> =>
         /\ Len(lines) = 1 /\ lock \in Requests /\ lines[1].to = lock /\ lock \notin atServer
         /\ sending[lock] = "read" /\ Asks(lock)
    /\ \A r \in atServer : r = lock

\* A request that the server was sent, and will not be sent again; one that waits
\* for nothing any more.
Past(r) == r[2] \notin Ahead(pc[r[1]]) /\ sending[r] \notin {"lock", "write"}
Gone(r) == Past(r) /\ sending[r] # "read"

\* What the server answers was sent; who has the answer to another's request has
\* it from one that is gone.
Origins ==
  /\ \A q \in atServer : Past(q)
  /\ \A q \in Requests : (\E k \in 1..Len(lines) : lines[k].to = q) => Past(q)
  /\ \A r, q \in Requests : answer[r] # NoAnswer /\ answer[r].to = q => q = r \/ Gone(q)

InStep == ~shifted => \A r \in Requests : answer[r] # NoAnswer => answer[r].to = r

IInv == Types /\ Fresh /\ Mutex /\ Wire /\ Origins /\ InStep

\* Of these requests, those that are over may be forgotten.
Settled(R) ==
  \A r \in R : sending'[r] = sending[r] \/ (sending[r] = "over" /\ sending'[r] = "no")

\* No request is called back.
PastStays == \A r \in Requests : (Past(r) => Past(r)') /\ (Gone(r) => Gone(r)')

-----------------------------------------------------------------------------
\* The next request of a call: the others of the call are forgotten when over.
LEMMA SendChanges ==
  ASSUME Types, NEW c \in Callers, NEW s \in Steps, Send(c, s)
  PROVE  /\ pc' = [pc EXCEPT ![c] = s]
         /\ sending' \in [Requests -> States]
         /\ answer' \in [Requests -> Answers \cup {NoAnswer}]
         /\ Settled(Requests \ {<<c, s>>})
         /\ sending'[<<c, s>>] = "lock"
         /\ \A r \in Requests : answer'[r] # NoAnswer => answer'[r] = answer[r]
<1>1. /\ pc' = [pc EXCEPT ![c] = s]
      /\ answer' \in [Requests -> Answers \cup {NoAnswer}]
      /\ \A r \in Requests : answer'[r] # NoAnswer => answer'[r] = answer[r]
  BY DEF Types, Send, Step, Forget, Requests
<1>2. /\ sending' = [Ended(c) EXCEPT ![<<c, s>>] = "lock"]
      /\ Ended(c) \in [Requests -> States] /\ <<c, s>> \in Requests /\ "lock" \in States
  BY DEF Types, Send, Ended, Requests, States
<1>3. \A r \in Requests : Ended(c)[r] = sending[r] \/ (sending[r] = "over" /\ Ended(c)[r] = "no")
  BY DEF Ended
<1>4. sending' \in [Requests -> States] /\ sending'[<<c, s>>] = "lock"
  BY <1>2
<1>5. Settled(Requests \ {<<c, s>>})
  BY <1>2, <1>3 DEF Settled
<1> QED BY <1>1, <1>4, <1>5

LEMMA ReturnChanges ==
  ASSUME Types, NEW c \in Callers, Return(c)
  PROVE  /\ pc' = [pc EXCEPT ![c] = "returned"]
         /\ sending' \in [Requests -> States]
         /\ answer' \in [Requests -> Answers \cup {NoAnswer}]
         /\ Settled(Requests)
         /\ \A r \in Requests : answer'[r] # NoAnswer => answer'[r] = answer[r]
BY DEF Types, Return, Step, Ended, Forget, Requests, States, Settled

LEMMA AheadShrinks ==
  /\ \A p : Ahead(p) \subseteq Steps
  /\ Ahead("returned") = {}
  /\ \A p, s : (\/ p = "idle" /\ s \in {"call", "initialize"}
                \/ p = "call" /\ s = "initialize"
                \/ p = "initialize" /\ s = "initialized"
                \/ p = "initialized" /\ s = "list"
                \/ p = "list" /\ s \in {"listAgain", "callAgain"}
                \/ p = "listAgain" /\ s = "callAgain")
       => s \in Ahead(p) /\ s \notin Ahead(s) /\ Ahead(s) \subseteq Ahead(p)
BY DEF Ahead, Steps, Handshake

\* A step that goes on with what is ahead calls no request back.
LEMMA PastStaysWith ==
  ASSUME \A c \in Callers : Ahead(pc'[c]) \subseteq Ahead(pc[c]),
         \A r \in Requests : \/ ~Past(r)
                             \/ sending'[r] \in {sending[r], "no", "over"}
  PROVE  PastStays
<1> SUFFICES ASSUME NEW r \in Requests, Past(r)
             PROVE  Past(r)' /\ (Gone(r) => Gone(r)')
  BY DEF PastStays, Gone
<1>1. r[1] \in Callers
  BY DEF Requests
<1> QED BY <1>1 DEF Past, Gone

\* The answers that are left, if none is new.
LEMMA AnswersKept ==
  ASSUME IInv, PastStays, shifted => shifted', atServer' \subseteq atServer, lines' = lines,
         \A r \in Requests : answer'[r] # NoAnswer => answer'[r] = answer[r]
  PROVE  Origins' /\ InStep'
<1>1. atServer \subseteq Requests
  BY DEF IInv, Types
<1>2. ASSUME NEW r \in Requests, NEW q \in Requests, answer'[r] # NoAnswer, answer'[r].to = q
      PROVE  q = r \/ Gone(q)'
  <2>1. answer'[r] = answer[r]
    BY <1>2
  <2>2. q = r \/ Gone(q)
    BY <1>2, <2>1 DEF IInv, Origins
  <2> QED BY <2>2 DEF PastStays
<1>3. \A q \in atServer' : Past(q)'
  BY <1>1 DEF IInv, Origins, PastStays
<1>4. \A q \in Requests : (\E k \in 1..Len(lines') : lines'[k].to = q) => Past(q)'
  BY DEF IInv, Origins, PastStays
<1>5. InStep'
  BY DEF IInv, InStep
<1> QED BY <1>2, <1>3, <1>4, <1>5 DEF Origins

\* A call that sends what it has not sent before, or returns, keeps everything.
LEMMA SendKeeps ==
  ASSUME IInv, NEW c \in Callers, NEW s \in Steps, Send(c, s),
         UNCHANGED <<server, lock, wire, extra>>,
         s \in Ahead(pc[c]), s \notin Ahead(s), Ahead(s) \subseteq Ahead(pc[c])
  PROVE  IInv'
<1>1. /\ pc' = [pc EXCEPT ![c] = s]
      /\ sending' \in [Requests -> States]
      /\ answer' \in [Requests -> Answers \cup {NoAnswer}]
      /\ Settled(Requests \ {<<c, s>>}) /\ sending'[<<c, s>>] = "lock"
      /\ \A r \in Requests : answer'[r] # NoAnswer => answer'[r] = answer[r]
  BY SendChanges DEF IInv
<1>2. /\ UNCHANGED <<transport, alive, reads, lock, atServer, lines, shifted>>
      /\ <<c, s>> \in Requests /\ pc \in [Callers -> Steps \cup {"idle", "returned"}]
  BY DEF server, wire, extra, Requests, IInv, Types
<1>3. sending[<<c, s>>] = "no"
  BY DEF IInv, Fresh
<1>4. \A d \in Callers : Ahead(pc'[d]) \subseteq Ahead(pc[d])
  BY <1>1, <1>2
<1>5. PastStays
  <2>1. ~Past(<<c, s>>)
    BY DEF Past
  <2>2. \A r \in Requests : r # <<c, s>> => sending'[r] \in {sending[r], "no", "over"}
    BY <1>1 DEF Settled
  <2> QED BY <1>4, <2>1, <2>2, PastStaysWith
<1>6. Types'
  BY <1>1, <1>2 DEF IInv, Types, Asks
<1>7. Fresh'
  <2> SUFFICES ASSUME NEW d \in Callers, NEW t \in Ahead(pc'[d])
               PROVE  sending'[<<d, t>>] = "no"
    BY DEF Fresh
  <2>1. pc'[d] = IF d = c THEN s ELSE pc[d]
    BY <1>1, <1>2
  <2>2. t \in Ahead(pc[d]) /\ <<d, t>> \in Requests /\ <<d, t>> # <<c, s>>
    BY <2>1, <1>4, AheadShrinks DEF Requests
  <2>3. sending[<<d, t>>] = "no"
    BY <2>2 DEF IInv, Fresh
  <2> QED BY <1>1, <2>2, <2>3 DEF Settled
<1>8. Mutex'
  <2>1. lock # <<c, s>>
    BY <1>2, <1>3 DEF IInv, Mutex
  <2>2. ASSUME NEW r \in Requests PROVE sending'[r] \in {"write", "read"} <=> lock' = r
    <3>1. CASE r = <<c, s>>
      BY <1>1, <1>2, <2>1, <3>1
    <3>2. CASE r # <<c, s>>
      <4>1. sending'[r] = sending[r] \/ (sending[r] = "over" /\ sending'[r] = "no")
        BY <1>1, <3>2 DEF Settled
      <4> QED BY <1>2, <4>1 DEF IInv, Mutex
    <3> QED BY <3>1, <3>2
  <2> QED BY <1>2, <2>2 DEF IInv, Mutex
<1>9. Wire'
  <2>1. ASSUME lock \in Requests, sending[lock] = "read" PROVE sending'[lock] = "read"
    BY <1>1, <1>3, <2>1 DEF Settled
  <2> QED BY <1>2, <2>1 DEF IInv, Wire, Asks
<1>10. Origins' /\ InStep'
  BY <1>1, <1>2, <1>5, AnswersKept
<1> QED BY <1>6, <1>7, <1>8, <1>9, <1>10 DEF IInv

\* Also when the connection fails with it and the server's process is killed.
LEMMA ReturnKeeps ==
  ASSUME IInv, NEW c \in Callers, Return(c), UNCHANGED <<transport, lock, lines, extra>>,
         Kill \/ UNCHANGED <<alive, reads, atServer>>
  PROVE  IInv'
<1>1. /\ pc' = [pc EXCEPT ![c] = "returned"]
      /\ sending' \in [Requests -> States]
      /\ answer' \in [Requests -> Answers \cup {NoAnswer}]
      /\ Settled(Requests)
      /\ \A r \in Requests : answer'[r] # NoAnswer => answer'[r] = answer[r]
  BY ReturnChanges DEF IInv
<1>2. /\ UNCHANGED <<transport, lock, lines, shifted>> /\ atServer' \subseteq atServer
      /\ pc \in [Callers -> Steps \cup {"idle", "returned"}]
  BY DEF extra, Kill, IInv, Types
<1>3. /\ alive' \in BOOLEAN /\ reads' \in BOOLEAN
      /\ transport = "http" => alive'
      /\ ~alive' => atServer' = {}
  BY DEF Kill, IInv, Types
<1>4. \A d \in Callers : Ahead(pc'[d]) \subseteq Ahead(pc[d])
  BY <1>1, <1>2, AheadShrinks
<1>5. PastStays
  BY <1>1, <1>4, PastStaysWith DEF Settled
<1>6. Types'
  BY <1>1, <1>2, <1>3 DEF IInv, Types, Asks
<1>7. Fresh'
  <2> SUFFICES ASSUME NEW d \in Callers, NEW t \in Ahead(pc'[d])
               PROVE  sending'[<<d, t>>] = "no"
    BY DEF Fresh
  <2>1. t \in Ahead(pc[d]) /\ <<d, t>> \in Requests
    BY <1>4, AheadShrinks DEF Requests
  <2>2. sending[<<d, t>>] = "no"
    BY <2>1 DEF IInv, Fresh
  <2> QED BY <1>1, <2>1, <2>2 DEF Settled
<1>8. Mutex'
  <2>1. \A r \in Requests : sending'[r] \in {"write", "read"} <=> sending[r] \in {"write", "read"}
    BY <1>1 DEF Settled
  <2> QED BY <1>2, <2>1 DEF IInv, Mutex
<1>9. Wire'
  <2>1. ASSUME lock \in Requests, sending[lock] = "read" PROVE sending'[lock] = "read"
    BY <1>1, <2>1 DEF Settled
  <2> QED BY <1>2, <2>1 DEF IInv, Wire, Asks
<1>10. Origins' /\ InStep'
  BY <1>1, <1>2, <1>5, AnswersKept
<1> QED BY <1>6, <1>7, <1>8, <1>9, <1>10 DEF IInv

\* Every step of a call is one of the two (client.go:130-169, 233-311).
LEMMA CallKeeps ==
  ASSUME IInv, NEW c \in Callers, CallStep(c)
  PROVE  IInv'
<1>1. CASE Begin(c)
  <2>1. CASE \E s \in {"call", "initialize"} : Send(c, s)
    BY <1>1, <2>1, SendKeeps, AheadShrinks DEF Begin, Steps, Handshake
  <2>2. CASE Return(c)
    BY <1>1, <2>2, ReturnKeeps DEF Begin, server, wire
  <2> QED BY <1>1, <2>1, <2>2 DEF Begin
<1>2. CASE CallTimeout(c)
  <2>1. CASE TimeoutRetries(c)
    BY <1>2, <2>1, SendKeeps, AheadShrinks DEF CallTimeout, TimeoutRetries, Steps, Handshake
  <2>2. CASE ~TimeoutRetries(c)
    BY <1>2, <2>2, ReturnKeeps DEF CallTimeout, server, wire
  <2> QED BY <2>1, <2>2
<1>3. CASE CallAnswered(c)
  <2>1. CASE Retries(c)
    BY <1>3, <2>1, SendKeeps, AheadShrinks DEF CallAnswered, Retries, Steps, Handshake
  <2>2. CASE ~Retries(c)
    BY <1>3, <2>2, ReturnKeeps DEF CallAnswered, server, wire
  <2> QED BY <2>1, <2>2
<1>4. CASE HandshakeStep(c)
  <2>1. UNCHANGED <<transport, lock, lines, extra>>
    BY <1>4 DEF HandshakeStep
  <2>2. ASSUME NEW s \in Handshake, HandshakeSends(c, s), Send(c, s),
               UNCHANGED <<alive, reads, atServer>>
        PROVE  IInv'
    <3>1. /\ s \in Steps /\ s \in Ahead(pc[c]) /\ s \notin Ahead(s)
          /\ Ahead(s) \subseteq Ahead(pc[c])
      BY <2>2, AheadShrinks DEF HandshakeSends, Welcomed, Answered, Steps
    <3> QED BY <2>1, <2>2, <3>1, SendKeeps DEF server, wire
  <2>3. CASE Return(c) /\ (Kill \/ UNCHANGED <<alive, reads, atServer>>)
    BY <2>1, <2>3, ReturnKeeps
  <2>4. CASE HandshakeDone(c) /\ Send(c, "callAgain") /\ UNCHANGED <<alive, reads, atServer>>
    <3>1. /\ "callAgain" \in Steps /\ "callAgain" \in Ahead(pc[c])
          /\ "callAgain" \notin Ahead("callAgain") /\ Ahead("callAgain") \subseteq Ahead(pc[c])
      BY <2>4, AheadShrinks DEF HandshakeDone, Answered, Steps
    <3> QED BY <2>1, <2>4, <3>1, SendKeeps DEF server, wire
  <2> QED BY <1>4, <2>2, <2>3, <2>4 DEF HandshakeStep
<1> QED BY <1>1, <1>2, <1>3, <1>4 DEF CallStep

-----------------------------------------------------------------------------
\* A request is over, and whoever waits for it gets an answer that is its own or
\* that nobody waits for.
LEMMA OverKeeps ==
  ASSUME IInv, NoRequest \notin Requests, NoAnswer \notin Answers,
         NEW r \in Requests, NEW a \in Answers, Over(r, a), lock = r,
         ~shifted => a.to = r,
         a.to \in Requests => a.to = r \/ Past(a.to),
         UNCHANGED <<transport, pc>>, shifted => shifted',
         \A q \in atServer' : q \in atServer,
         \A k \in 1..Len(lines') : \E l \in 1..Len(lines) : lines'[k] = lines[l]
  PROVE  /\ sending' \in [Requests -> States]
         /\ answer' \in [Requests -> Answers \cup {NoAnswer}]
         /\ Fresh' /\ Mutex' /\ Origins' /\ InStep'
         /\ lock' = NoRequest
<1>1. /\ sending' = [sending EXCEPT ![r] = IF Awaited(r) THEN "over" ELSE "no"]
      /\ answer' = [answer EXCEPT ![r] = IF Awaited(r) THEN a ELSE NoAnswer]
      /\ lock' = NoRequest
  BY DEF Over
<1>2. /\ sending \in [Requests -> States] /\ answer \in [Requests -> Answers \cup {NoAnswer}]
      /\ atServer \subseteq Requests /\ sending[r] \in {"write", "read"}
  BY DEF IInv, Types, Mutex
<1>3. /\ sending' \in [Requests -> States] /\ sending'[r] \in {"no", "over"}
      /\ answer' \in [Requests -> Answers \cup {NoAnswer}]
      /\ \A q \in Requests : q # r => sending'[q] = sending[q] /\ answer'[q] = answer[q]
      /\ answer'[r] \in {a, NoAnswer}
  BY <1>1, <1>2 DEF States
<1>4. Fresh'
  <2> SUFFICES ASSUME NEW d \in Callers, NEW t \in Ahead(pc'[d])
               PROVE  sending'[<<d, t>>] = "no"
    BY DEF Fresh
  <2>1. sending[<<d, t>>] = "no" /\ <<d, t>> \in Requests
    BY AheadShrinks DEF IInv, Fresh, Requests
  <2>2. <<d, t>> # r
    BY <1>2, <2>1
  <2> QED BY <1>3, <2>1, <2>2
<1>5. Mutex'
  <2>1. ASSUME NEW q \in Requests PROVE ~(sending'[q] \in {"write", "read"}) /\ lock' # q
    <3>1. CASE q = r
      BY <1>1, <1>3, <3>1
    <3>2. CASE q # r
      BY <1>1, <1>3, <3>2 DEF IInv, Mutex
    <3> QED BY <3>1, <3>2
  <2> QED BY <1>1, <2>1 DEF Mutex
<1>6. PastStays
  <2>1. \A q \in Requests : sending'[q] \in {sending[q], "no", "over"}
    BY <1>3
  <2>2. \A c \in Callers : Ahead(pc'[c]) \subseteq Ahead(pc[c])
    OBVIOUS
  <2> QED BY <2>1, <2>2, PastStaysWith
<1>7. Origins'
  <2>1. \A q \in atServer' : Past(q)'
    BY <1>2, <1>6 DEF IInv, Origins, PastStays
  <2>2. \A q \in Requests : (\E k \in 1..Len(lines') : lines'[k].to = q) => Past(q)'
    BY <1>6 DEF IInv, Origins, PastStays
  <2>3. ASSUME NEW p \in Requests, NEW q \in Requests, answer'[p] # NoAnswer, answer'[p].to = q
        PROVE  q = p \/ Gone(q)'
    <3>1. CASE p = r
      <4>1. q = r \/ Past(q)
        BY <1>3, <2>3, <3>1
      <4>2. ASSUME q # r PROVE Gone(q)
        BY <4>1, <4>2 DEF Gone, IInv, Mutex
      <4> QED BY <1>6, <3>1, <4>2 DEF PastStays
    <3>2. CASE p # r
      <4>1. answer'[p] = answer[p]
        BY <1>3, <3>2
      <4>2. q = p \/ Gone(q)
        BY <2>3, <4>1 DEF IInv, Origins
      <4> QED BY <1>6, <4>2 DEF PastStays
    <3> QED BY <3>1, <3>2
  <2> QED BY <2>1, <2>2, <2>3 DEF Origins
<1>8. InStep'
  BY <1>3 DEF IInv, InStep
<1> QED BY <1>1, <1>3, <1>4, <1>5, <1>7, <1>8

LEMMA WireTypes ==
  ASSUME Types
  PROVE  /\ lines # <<>> => /\ Head(lines) = lines[1] /\ Head(lines) \in Answers
                            /\ 1 \in 1..Len(lines) /\ Tail(lines) \in Seq(Answers)
                            /\ \A k \in 1..Len(Tail(lines)) :
                                 \E l \in 1..Len(lines) : Tail(lines)[k] = lines[l]
                            /\ (Len(lines) = 1 => Tail(lines) = <<>>)
         /\ \A r \in Requests \cup {NoRequest} : \A k \in Kinds :
              [kind |-> k, to |-> r] \in Answers
<1>1. ASSUME lines # <<>>
      PROVE  /\ Head(lines) = lines[1] /\ Head(lines) \in Answers
             /\ 1 \in 1..Len(lines) /\ Tail(lines) \in Seq(Answers)
             /\ \A k \in 1..Len(Tail(lines)) : \E l \in 1..Len(lines) : Tail(lines)[k] = lines[l]
             /\ (Len(lines) = 1 => Tail(lines) = <<>>)
  <2>1. lines \in Seq(Answers)
    BY DEF Types
  <2>2. /\ Head(lines) \in Answers /\ Tail(lines) \in Seq(Answers)
        /\ Len(Tail(lines)) = Len(lines) - 1 /\ Len(lines) \in Nat /\ Len(lines) >= 1
        /\ \A k \in 1..Len(Tail(lines)) : Tail(lines)[k] = lines[k + 1]
    BY <1>1, <2>1, HeadTailProperties, EmptySeq, LenProperties
  <2>3. Head(lines) = lines[1]
    OBVIOUS
  <2>4. ASSUME Len(lines) = 1 PROVE Tail(lines) = <<>>
    <3>1. Len(Tail(lines)) = 0
      BY <2>2, <2>4
    <3> QED BY <2>2, <3>1, EmptySeq
  <2>5. \A k \in 1..Len(Tail(lines)) : k + 1 \in 1..Len(lines)
    BY <2>2
  <2> QED BY <2>2, <2>3, <2>4, <2>5
<1>2. \A r \in Requests \cup {NoRequest} : \A k \in Kinds : [kind |-> k, to |-> r] \in Answers
  BY DEF Answers
<1> QED BY <1>1, <1>2

LEMMA LockKeeps ==
  ASSUME IInv, NoRequest \notin Requests, NEW r \in Requests, Lock(r)
  PROVE  IInv'
<1>1. /\ sending[r] = "lock" /\ lock = NoRequest /\ lock' = r
      /\ sending' = [sending EXCEPT ![r] = "write"]
      /\ UNCHANGED <<transport, alive, reads, pc, answer, atServer, lines, shifted>>
  BY DEF Lock, Locked, server, wire, extra
<1>2. sending \in [Requests -> States]
  BY DEF IInv, Types
<1>3. Types'
  BY <1>1, <1>2 DEF IInv, Types, States, Asks
<1>4. Fresh'
  <2> SUFFICES ASSUME NEW d \in Callers, NEW t \in Ahead(pc'[d])
               PROVE  sending'[<<d, t>>] = "no"
    BY DEF Fresh
  <2>1. sending[<<d, t>>] = "no" /\ <<d, t>> \in Requests
    BY <1>1, AheadShrinks DEF IInv, Fresh, Requests
  <2> QED BY <1>1, <1>2, <2>1
<1>5. \A q \in Requests : sending[q] \notin {"write", "read"}
  BY <1>1 DEF IInv, Mutex
<1>6. Mutex'
  <2>1. \A q \in Requests : sending'[q] \in {"write", "read"} <=> lock' = q
    BY <1>1, <1>2, <1>5
  <2> QED BY <1>1, <2>1 DEF Mutex
<1>7. PastStays
  <2>1. ~Past(r) /\ \A q \in Requests : q # r => sending'[q] = sending[q]
    BY <1>1, <1>2 DEF Past
  <2>2. \A c \in Callers : Ahead(pc'[c]) \subseteq Ahead(pc[c])
    BY <1>1
  <2> QED BY <2>1, <2>2, PastStaysWith
<1>8. Origins' /\ InStep'
  BY <1>1, <1>7, AnswersKept
<1>9. ~shifted => lines = <<>> /\ atServer = {}
  <2>1. lock \notin Requests /\ atServer \subseteq Requests
    BY <1>1 DEF IInv, Types
  <2> QED BY <2>1 DEF IInv, Wire
<1>10. Wire'
  BY <1>1, <1>9 DEF Wire
<1> QED BY <1>3, <1>4, <1>6, <1>8, <1>10 DEF IInv

LEMMA WriteKeeps ==
  ASSUME IInv, NoRequest \notin Requests, NoAnswer \notin Answers,
         NEW r \in Requests, Write(r)
  PROVE  IInv'
<1>1. /\ sending[r] = "write" /\ lock = r
      /\ UNCHANGED <<transport, alive, reads, pc, lines, shifted>>
  BY DEF Write, server, extra, IInv, Mutex
<1>2. ~shifted => lines = <<>>
  BY <1>1 DEF IInv, Wire
<1>3. CASE Over(r, Broken(r)) /\ UNCHANGED atServer /\ ~alive
  <2>1. Broken(r) \in Answers /\ Broken(r).to = r
    BY WireTypes DEF IInv, Kinds, Broken
  <2>2. /\ sending' \in [Requests -> States]
        /\ answer' \in [Requests -> Answers \cup {NoAnswer}]
        /\ Fresh' /\ Mutex' /\ Origins' /\ InStep'
    BY <1>1, <1>3, <2>1, OverKeeps
  <2>3. Types'
    BY <1>1, <1>3, <2>2 DEF IInv, Types, Asks
  <2>4. Wire'
    BY <1>1, <1>2, <1>3 DEF Wire, IInv, Types
  <2> QED BY <2>2, <2>3, <2>4 DEF IInv
<1>4. CASE /\ alive
           /\ atServer' = atServer \cup {q \in {r} : reads /\ Asks(q)}
           /\ sending' = [sending EXCEPT ![r] = "read"]
           /\ UNCHANGED <<lock, answer>>
  <2>1. sending \in [Requests -> States] /\ atServer \subseteq Requests
    BY DEF IInv, Types
  <2>2. /\ sending' \in [Requests -> States] /\ sending'[r] = "read"
        /\ \A q \in Requests : q # r => sending'[q] = sending[q]
    BY <1>4, <2>1 DEF States
  <2>3. Types'
    BY <1>1, <1>4, <2>2 DEF IInv, Types, Asks
  <2>4. Fresh'
    <3> SUFFICES ASSUME NEW d \in Callers, NEW t \in Ahead(pc'[d])
                 PROVE  sending'[<<d, t>>] = "no"
      BY DEF Fresh
    <3>1. sending[<<d, t>>] = "no" /\ <<d, t>> \in Requests
      BY <1>1, AheadShrinks DEF IInv, Fresh, Requests
    <3> QED BY <1>1, <2>2, <3>1
  <2>5. Mutex'
    <3>1. ASSUME NEW q \in Requests PROVE sending'[q] \in {"write", "read"} <=> lock' = q
      <4>1. CASE q = r
        BY <1>1, <1>4, <2>2, <4>1
      <4>2. CASE q # r
        BY <1>4, <2>2, <4>2 DEF IInv, Mutex
      <4> QED BY <4>1, <4>2
    <3> QED BY <1>4, <3>1 DEF IInv, Mutex
  <2>6. Wire'
    BY <1>1, <1>2, <1>4 DEF IInv, Wire
  <2>7. PastStays
    <3>1. ~Past(r)
      BY <1>1 DEF Past
    <3>2. \A c \in Callers : Ahead(pc'[c]) \subseteq Ahead(pc[c])
      BY <1>1
    <3> QED BY <2>2, <3>1, <3>2, PastStaysWith
  <2>8. Past(r)'
    <3>1. r[1] \in Callers /\ r = <<r[1], r[2]>>
      BY DEF Requests
    <3>2. r[2] \notin Ahead(pc[r[1]])
      BY <1>1, <3>1 DEF IInv, Fresh
    <3> QED BY <1>1, <2>2, <3>2 DEF Past
  <2>9. InStep'
    BY <1>1, <1>4 DEF IInv, InStep
  <2>10. Origins'
    <3>1. \A q \in atServer' : Past(q)'
      BY <1>4, <2>1, <2>7, <2>8 DEF IInv, Origins, PastStays
    <3>2. \A q \in Requests : (\E k \in 1..Len(lines') : lines'[k].to = q) => Past(q)'
      BY <1>1, <2>7 DEF IInv, Origins, PastStays
    <3>3. ASSUME NEW p \in Requests, NEW q \in Requests, answer'[p] # NoAnswer, answer'[p].to = q
          PROVE  q = p \/ Gone(q)'
      <4>1. q = p \/ Gone(q)
        BY <1>4, <3>3 DEF IInv, Origins
      <4> QED BY <2>7, <4>1 DEF PastStays
    <3> QED BY <3>1, <3>2, <3>3 DEF Origins
  <2> QED BY <2>3, <2>4, <2>5, <2>6, <2>9, <2>10 DEF IInv
<1> QED BY <1>3, <1>4 DEF Write

\* A read that gets a line, the end of them or no answer in time.
LEMMA ReadKeeps ==
  ASSUME IInv, NoRequest \notin Requests, NoAnswer \notin Answers, NEW r \in Requests,
         ReadAnswer(r) \/ ReadEOF(r) \/ ReadDeadline(r) \/ HttpBreak(r)
  PROVE  IInv'
<1>1. lock = r /\ UNCHANGED <<transport, alive, reads, pc>> /\ (shifted => shifted')
  <2>1. sending[r] \in {"write", "read"} /\ UNCHANGED <<transport, alive, reads, pc>>
    BY DEF ReadAnswer, ReadEOF, ReadDeadline, HttpBreak, server
  <2>2. shifted => shifted'
    BY DEF ReadAnswer, ReadEOF, ReadDeadline, HttpBreak, extra
  <2> QED BY <2>1, <2>2 DEF IInv, Mutex
<1>2. \A k \in Kinds : [kind |-> k, to |-> r] \in Answers
  BY WireTypes DEF IInv
<1>3. lines # <<>> => /\ Head(lines) = lines[1] /\ Head(lines) \in Answers
                      /\ 1 \in 1..Len(lines) /\ Tail(lines) \in Seq(Answers)
                      /\ \A k \in 1..Len(Tail(lines)) :
                           \E l \in 1..Len(lines) : Tail(lines)[k] = lines[l]
                      /\ (Len(lines) = 1 => Tail(lines) = <<>>)
  BY WireTypes DEF IInv
<1>4. ~shifted /\ lines # <<>> => Len(lines) = 1 /\ lines[1].to = r /\ r \notin atServer
                                  /\ Asks(r)
  BY <1>1 DEF IInv, Wire
<1>5. /\ ~shifted => \A q \in atServer : q = r
      /\ ~alive => atServer = {}
      /\ \A q \in atServer : Asks(q)
      /\ atServer \subseteq Requests /\ lines \in Seq(Answers)
  BY <1>1 DEF IInv, Wire, Types
<1>6. PICK a \in Answers : /\ Over(r, a) /\ (~shifted => a.to = r)
                           /\ a.to \in Requests => a.to = r \/ Past(a.to)
  <2>1. CASE ReadAnswer(r)
    <3>1. Over(r, Head(lines)) /\ lines # <<>>
      BY <2>1 DEF ReadAnswer
    <3>2. Head(lines).to \in Requests => Past(Head(lines).to)
      BY <1>3, <3>1 DEF IInv, Origins
    <3> QED BY <1>3, <1>4, <3>1, <3>2
  <2>2. CASE ~ReadAnswer(r)
    <3>1. \E k \in {"late", "broken"} : Over(r, [kind |-> k, to |-> r])
      BY <2>2 DEF ReadEOF, ReadDeadline, HttpBreak, Broken
    <3> QED BY <1>2, <3>1 DEF Kinds
  <2> QED BY <2>1, <2>2
<1>7. lines' = lines \/ (lines # <<>> /\ lines' = Tail(lines))
  BY DEF ReadAnswer, ReadEOF, ReadDeadline, HttpBreak, wire
<1>8. atServer' \subseteq atServer
  BY DEF ReadAnswer, ReadEOF, ReadDeadline, HttpBreak, wire
<1>9. \A k \in 1..Len(lines') : \E l \in 1..Len(lines) : lines'[k] = lines[l]
  BY <1>3, <1>7
<1>10. /\ sending' \in [Requests -> States]
       /\ answer' \in [Requests -> Answers \cup {NoAnswer}]
       /\ Fresh' /\ Mutex' /\ Origins' /\ InStep'
       /\ lock' = NoRequest
  BY <1>1, <1>6, <1>8, <1>9, OverKeeps
<1>11. Types'
  <2>1. lines' \in Seq(Answers)
    BY <1>3, <1>5, <1>7
  <2> QED BY <1>1, <1>5, <1>8, <1>10, <2>1 DEF IInv, Types, Asks
<1>12. Wire'
  <2> SUFFICES ASSUME ~shifted' PROVE lines' = <<>> /\ atServer' = {}
    BY DEF Wire
  <2>1. CASE ReadAnswer(r)
    BY <1>1, <1>3, <1>4, <1>5, <2>1 DEF ReadAnswer
  <2>2. CASE ReadEOF(r)
    BY <1>5, <2>2 DEF ReadEOF, wire
  <2>3. CASE ReadDeadline(r)
    <3>1. ~shifted /\ ~Asks(r) /\ UNCHANGED <<atServer, lines>>
      BY <2>3 DEF ReadDeadline, Asks, wire
    <3> QED BY <1>4, <1>5, <3>1
  <2>4. CASE HttpBreak(r)
    BY <1>1, <1>3, <1>4, <1>5, <2>4 DEF HttpBreak
  <2> QED BY <2>1, <2>2, <2>3, <2>4
<1> QED BY <1>10, <1>11, <1>12 DEF IInv

\* What the server writes comes after what it wrote before.
LEMMA RespondKeeps ==
  ASSUME IInv, NoRequest \notin Requests,
         (\E r \in Requests : Respond(r)) \/ \E k \in StrayKinds : Chatter(k)
  PROVE  IInv'
<1>1. UNCHANGED <<transport, alive, reads, pc, sending, lock, answer>>
  BY DEF Respond, Chatter, server
<1>2. /\ lines \in Seq(Answers) /\ atServer \subseteq Requests /\ (~alive => atServer = {})
      /\ \A q \in atServer : Asks(q)
  BY DEF IInv, Types
<1>3. PICK a \in Answers :
        /\ lines' = Append(lines, a)
        /\ \/ /\ a.to \in atServer /\ atServer' = atServer \ {a.to} /\ shifted' = shifted
           \/ a.to = NoRequest /\ atServer' = atServer /\ shifted'
  <2>1. ASSUME NEW r \in Requests, Respond(r)
        PROVE  /\ r \in atServer /\ atServer' = atServer \ {r} /\ shifted' = shifted
               /\ \E k \in Kinds : lines' = Append(lines, [kind |-> k, to |-> r])
    BY <2>1 DEF Respond, Kinds, AnswerKinds, extra
  <2>2. ASSUME NEW k \in StrayKinds, Chatter(k)
        PROVE  /\ atServer' = atServer /\ shifted' /\ k \in Kinds
               /\ lines' = Append(lines, [kind |-> k, to |-> NoRequest])
    BY <2>2 DEF Chatter, Kinds
  <2>3. \A k \in Kinds : \A r \in Requests \cup {NoRequest} :
          [kind |-> k, to |-> r] \in Answers /\ [kind |-> k, to |-> r].to = r
    BY WireTypes DEF IInv
  <2> QED BY <2>1, <2>2, <2>3
<1>4. /\ lines' \in Seq(Answers) /\ Len(lines') = Len(lines) + 1 /\ Len(lines) \in Nat
      /\ lines'[Len(lines) + 1] = a
      /\ \A k \in 1..Len(lines) : lines'[k] = lines[k]
  BY <1>2, <1>3, AppendProperties, LenProperties
<1>5. atServer' \subseteq atServer /\ (shifted => shifted')
  BY <1>3
<1>6. Types'
  BY <1>1, <1>2, <1>4, <1>5 DEF IInv, Types, Asks
<1>7. Fresh' /\ Mutex' /\ InStep'
  BY <1>1, <1>5 DEF IInv, Fresh, Mutex, InStep
<1>8. Origins'
  <2>1. \A q : (Past(q) <=> Past(q)') /\ (Gone(q) <=> Gone(q)')
    BY <1>1 DEF Past, Gone
  <2>2. a.to \in Requests => Past(a.to)
    BY <1>3 DEF IInv, Origins
  <2>3. ASSUME NEW q \in Requests, NEW k \in 1..Len(lines'), lines'[k].to = q PROVE Past(q)'
    <3>1. CASE k = Len(lines) + 1
      BY <1>4, <2>1, <2>2, <2>3, <3>1
    <3>2. CASE k # Len(lines) + 1
      <4>1. k \in 1..Len(lines)
        BY <1>4, <2>3, <3>2
      <4> QED BY <1>4, <2>1, <2>3, <4>1 DEF IInv, Origins
    <3> QED BY <3>1, <3>2
  <2>4. \A q \in atServer' : Past(q)'
    BY <1>5, <2>1 DEF IInv, Origins
  <2>5. \A r, q \in Requests : answer'[r] # NoAnswer /\ answer'[r].to = q => q = r \/ Gone(q)'
    BY <1>1, <2>1 DEF IInv, Origins
  <2> QED BY <2>3, <2>4, <2>5 DEF Origins
<1>9. Wire'
  <2> SUFFICES ASSUME ~shifted' PROVE Wire'
    BY DEF Wire
  <2>1. ~shifted /\ a.to \in atServer /\ atServer' = atServer \ {a.to}
    BY <1>3, <1>5
  <2>2. a.to = lock /\ lock \in Requests /\ lines = <<>> /\ \A q \in atServer : q = lock
    BY <1>2, <2>1 DEF IInv, Wire
  <2>3. sending[lock] = "read" /\ Asks(lock)
    BY <1>2, <2>1, <2>2 DEF IInv, Origins, Past, Mutex
  <2>4. Len(lines') = 1 /\ lines'[1] = a
    BY <1>4, <2>2, EmptySeq
  <2> QED BY <1>1, <2>1, <2>2, <2>3, <2>4 DEF Wire, Asks
<1> QED BY <1>6, <1>7, <1>8, <1>9 DEF IInv

\* The server reads no more, dies or the connection is closed.
LEMMA EndKeeps ==
  ASSUME IInv, StopReading \/ Die \/ Close
  PROVE  IInv'
<1>1. /\ UNCHANGED <<transport, pc, sending, lock, answer, lines, shifted>>
      /\ alive' \in BOOLEAN /\ reads' \in BOOLEAN /\ (transport = "http" => alive')
      /\ atServer' \subseteq atServer /\ (~alive' => atServer' = {})
  BY DEF StopReading, Die, Close, Kill, wire, extra, IInv, Types
<1>2. Types' /\ Fresh' /\ Mutex' /\ Wire'
  BY <1>1 DEF IInv, Types, Fresh, Mutex, Wire, Asks
<1>3. PastStays
  BY <1>1, PastStaysWith
<1>4. Origins' /\ InStep'
  BY <1>1, <1>3, AnswersKept
<1> QED BY <1>2, <1>4 DEF IInv

-----------------------------------------------------------------------------
LEMMA InitHolds == ASSUME Transports \subseteq {"stdio", "http"}, NoRequest \notin Requests, Init
                   PROVE  IInv
<1>1. Types
  <2>1. pc \in [Callers -> Steps \cup {"idle", "returned"}]
    BY DEF Init
  <2>2. sending \in [Requests -> States] /\ answer \in [Requests -> Answers \cup {NoAnswer}]
    BY DEF Init, States
  <2>3. lines \in Seq(Answers) /\ atServer = {}
    BY DEF Init
  <2> QED BY <2>1, <2>2, <2>3 DEF Init, Types
<1>2. Fresh /\ Mutex
  <2>1. \A c \in Callers : \A t \in Ahead(pc[c]) : <<c, t>> \in Requests
    BY AheadShrinks DEF Requests
  <2> QED BY <2>1 DEF Init, Fresh, Mutex
<1>3. Wire /\ Origins /\ InStep
  BY DEF Init, Wire, Origins, InStep
<1> QED BY <1>1, <1>2, <1>3 DEF IInv

LEMMA StepKeeps ==
  ASSUME IInv, NoRequest \notin Requests, NoAnswer \notin Answers, [Next]_vars
  PROVE  IInv'
<1>1. ASSUME NEW r \in Requests, SendStep(r) PROVE IInv'
  BY <1>1, LockKeeps, WriteKeeps, ReadKeeps DEF SendStep
<1>2. ASSUME NEW c \in Callers, CallStep(c) PROVE IInv'
  BY <1>2, CallKeeps
<1>3. CASE ServerStep \/ Close
  BY <1>3, RespondKeeps, EndKeeps DEF ServerStep
<1>4. CASE UNCHANGED vars
  <2>1. UNCHANGED <<transport, alive, reads, pc, sending, lock, answer, atServer, lines, shifted>>
    BY <1>4 DEF vars, server, wire, extra
  <2>2. Types' /\ Fresh' /\ Mutex' /\ Wire' /\ InStep'
    BY <2>1 DEF IInv, Types, Fresh, Mutex, Wire, Asks, InStep
  <2>3. Origins'
    BY <2>1 DEF IInv, Origins, Past, Gone
  <2> QED BY <2>2, <2>3 DEF IInv
<1> QED BY <1>1, <1>2, <1>3, <1>4 DEF Next

\* Of any number of calls and second attempts at the same time, each gets the
\* answer to its own request though nothing compares IDs, while the server writes
\* nothing else and no read gives up on an answer; and also after that none gets
\* an answer for which the request that it answers still waits (client.go:171-183,
\* 377-408).
THEOREM AnswersCorrect ==
  ASSUME Transports \subseteq {"stdio", "http"}, NoRequest \notin Requests, NoAnswer \notin Answers
  PROVE  Spec => []AnswerMatches
<1>1. Init => IInv
  BY InitHolds
<1>2. IInv /\ [Next]_vars => IInv'
  BY StepKeeps
<1>3. IInv => AnswerMatches
  <2> SUFFICES ASSUME IInv, NEW r \in Requests, answer[r] # NoAnswer,
                      answer[r].to \notin {r, NoRequest}
               PROVE  sending[answer[r].to] \in {"no", "over"}
    BY DEF IInv, InStep, AnswerMatches
  <2>1. answer[r] \in Answers
    BY DEF IInv, Types
  <2>2. answer[r].to \in Requests
    BY <2>1 DEF Answers
  <2>3. sending[answer[r].to] \in States /\ Gone(answer[r].to)
    BY <2>2 DEF IInv, Types, Origins
  <2> QED BY <2>3 DEF Gone, Past, States
<1> QED BY <1>1, <1>2, <1>3, PTL DEF Spec

\* A call that is at a step has sent that step's request.
Sent == \A c \in Callers : pc[c] \in Steps => sending[<<c, pc[c]>>] # "no"

LEMMA SentKept ==
  ASSUME IInv, Sent, [Next]_vars
  PROVE  Sent'
<1> USE DEF IInv
<1>1. ASSUME NEW r \in Requests, SendStep(r)
      PROVE  Sent'
  <2>1. pc' = pc /\ \A q \in Requests : q # r => sending'[q] = sending[q]
    BY <1>1 DEF SendStep, Lock, Write, ReadAnswer, ReadEOF, ReadDeadline, HttpBreak, Over, Types
  <2>2. Awaited(r) => sending'[r] # "no" \/ sending'[r] = sending[r]
    BY <1>1 DEF SendStep, Lock, Write, ReadAnswer, ReadEOF, ReadDeadline, HttpBreak, Over, Types
  <2>3. ASSUME NEW c \in Callers, pc[c] \in Steps
        PROVE  sending'[<<c, pc[c]>>] # "no"
    <3>1. <<c, pc[c]>> \in Requests /\ (<<c, pc[c]>> = r => Awaited(r))
      BY <2>3 DEF Requests, Awaited
    <3> QED BY <2>1, <2>2, <2>3, <3>1 DEF Sent
  <2> QED BY <2>1, <2>3 DEF Sent
<1>2. ASSUME NEW c \in Callers, NEW s \in Steps, Send(c, s)
      PROVE  Sent'
  <2>1. pc' = [pc EXCEPT ![c] = s] /\ sending'[<<c, s>>] = "lock"
    BY <1>2, SendChanges
  <2>2. \A d \in Callers, t \in Steps : d # c => sending'[<<d, t>>] = sending[<<d, t>>]
    BY <1>2 DEF Send, Ended, Requests, Types
  <2> QED BY <2>1, <2>2 DEF Sent, Types
<1>3. ASSUME NEW c \in Callers, Return(c)
      PROVE  Sent'
  <2>1. pc' = [pc EXCEPT ![c] = "returned"] /\ "returned" \notin Steps
    BY <1>3, ReturnChanges DEF Steps, Handshake
  <2>2. \A d \in Callers, t \in Steps : d # c => sending'[<<d, t>>] = sending[<<d, t>>]
    BY <1>3 DEF Return, Ended, Requests, Types
  <2> QED BY <2>1, <2>2 DEF Sent, Types
<1>4. ASSUME NEW c \in Callers, CallStep(c)
      PROVE  Return(c) \/ \E s \in Steps : Send(c, s)
  <2>1. {"initialize", "call", "callAgain"} \cup Handshake \subseteq Steps
    BY DEF Steps, Handshake
  <2> QED BY <1>4, <2>1 DEF CallStep, Begin, CallTimeout, CallAnswered, HandshakeStep
<1>5. CASE ServerStep \/ Close \/ UNCHANGED vars
  BY <1>5 DEF ServerStep, Respond, Chatter, StopReading, Die, Close, vars, Sent
<1> QED BY <1>1, <1>2, <1>3, <1>4, <1>5 DEF Next

\* The types hold for any number of calls; conn.mu is held by a request that is
\* written or waits for its answer, and a call is at no step it has not sent
\* (client.go:171-183, 377-408).
THEOREM ClientTypeCorrect ==
  ASSUME Transports \subseteq {"stdio", "http"}, NoRequest \notin Requests, NoAnswer \notin Answers
  PROVE  Spec => []TypeOK
<1> DEFINE Ranges == transport \in Transports /\ open \in BOOLEAN
<1>1. Init => IInv /\ Sent /\ Ranges
  <2> SUFFICES ASSUME Init PROVE IInv /\ Sent /\ Ranges
    OBVIOUS
  <2>1. "idle" \notin Steps /\ "returned" \notin Steps
    BY DEF Steps, Handshake
  <2> QED BY <2>1, InitHolds DEF Init, Sent
<1>2. IInv /\ Sent /\ Ranges /\ [Next]_vars => IInv' /\ Sent' /\ Ranges'
  <2> SUFFICES ASSUME IInv, Sent, Ranges, [Next]_vars PROVE Ranges'
    BY StepKeeps, SentKept
  <2> USE DEF Next, SendStep, Lock, Write, ReadAnswer, ReadEOF, ReadDeadline, HttpBreak,
              ServerStep, Respond, Chatter, StopReading, Die, CallStep, Begin, CallTimeout,
              CallAnswered, HandshakeStep, Close, vars, server
  <2>1. transport' = transport
    OBVIOUS
  <2>2. open' \in BOOLEAN
    OBVIOUS
  <2> QED BY <2>1, <2>2
<1>3. IInv /\ Sent /\ Ranges => TypeOK
  BY DEF IInv, Types, Mutex, Sent, TypeOK, States
<1> QED BY <1>1, <1>2, <1>3, PTL DEF Spec
=============================================================================
