------------------------------- MODULE Vezir -------------------------------
(***************************************************************************)
(* The control plane: the supervisor that restarts the substrate process   *)
(* (vezir/supervisor/supervisor.go) and the relay between its own socket   *)
(* for terminals and the substrate's socket (vezir/supervisor/relay.go).   *)
(* They meet at the process: its crash hangs up every connection to it,    *)
(* and Reconnect, called at any time, dials the next one.                  *)
(*                                                                         *)
(* An end is a connection of the relay.  A bridge is two copiers, each     *)
(* reads one end and writes the other.  The bridge's own goroutine only    *)
(* waits for one of them or for its cancellation and closes nothing, so    *)
(* bridgeCancel changes nothing here.  A copier reads and writes a chunk   *)
(* in one step: data it holds when the other end goes is lost, as data it  *)
(* reads after that is.                                                    *)
(***************************************************************************)
EXTENDS Naturals, FiniteSets

CONSTANTS Tuis, Subs,  \* connections that terminals make, that Reconnect dials
          NoConn,
          MaxRetries

Ends == Tuis \cup Subs

VARIABLES sup,        \* where Run is
          proc,       \* the process of s.cmd, "go run"
          restarts, cancelled,
          tuiConn, subConn,
          end,        \* an end is open, hung up by the other side, or closed
          accepting, acceptSub,        \* acceptLoop: the new end, r.subConn then
          reconnect, dialed, dialTui,  \* Reconnect: its step, the end, r.tuiConn then
          copiers,    \* pairs <<from, to>>
          started,    \* how often a bridge was started for <<tui, sub>>
          pending,    \* ends with a chunk to read
          lost,       \* chunks of an end that did not reach its partner
          stopped

supervisor == <<sup, proc, restarts, cancelled>>
acceptor == <<accepting, acceptSub>>
reconnector == <<reconnect, dialed, dialTui>>
relay == <<tuiConn, subConn, acceptor, reconnector, started, stopped>>
data == <<copiers, pending, lost>>
vars == <<supervisor, relay, end, data>>

Open(e) == end[e] = "open"

\* The relay closes ends; what they had to read is gone.
Close(E) ==
  /\ end' = [e \in Ends |-> IF e \in E THEN "closed" ELSE end[e]]
  /\ pending' = pending \ E

-----------------------------------------------------------------------------
Init ==
  /\ sup = "loop" /\ proc = "none" /\ restarts = 0 /\ cancelled = FALSE
  /\ tuiConn = NoConn /\ subConn = NoConn
  /\ end = [e \in Ends |-> "none"]
  /\ accepting = NoConn /\ acceptSub = NoConn
  /\ reconnect = "idle" /\ dialed = NoConn /\ dialTui = NoConn
  /\ copiers = {} /\ started = [b \in Tuis \X Subs |-> 0]
  /\ pending = {} /\ lost = [e \in Ends |-> 0]
  /\ stopped = FALSE

-----------------------------------------------------------------------------
\* A failed spawn is only logged: Run then waits for the process before.
Spawn ==
  /\ sup = "loop" /\ ~cancelled
  /\ sup' = "wait"
  /\ proc' \in {proc, "running"}
  /\ UNCHANGED <<restarts, cancelled, relay, end, data>>

ShutDown ==
  /\ cancelled
  /\ sup \in {"loop", "backoff"}
  /\ sup' = "returned"
  /\ UNCHANGED <<proc, restarts, cancelled, relay, end, data>>

\* Wait returns at once for a process that has been waited for, or for none.
Waited ==
  /\ sup = "wait" /\ proc # "running"
  /\ restarts' = restarts + 1
  /\ sup' = IF cancelled \/ restarts' > MaxRetries THEN "returned" ELSE "backoff"
  /\ UNCHANGED <<proc, cancelled, relay, end, data>>

BackoffOver ==
  /\ sup = "backoff"
  /\ sup' = "loop"
  /\ UNCHANGED <<proc, restarts, cancelled, relay, end, data>>

Cancel ==
  /\ ~cancelled /\ cancelled' = TRUE
  /\ UNCHANGED <<sup, proc, restarts, relay, end, data>>

\* The substrate ends and "go run" with it: every connection is hung up.
Dies ==
  /\ proc = "running"
  /\ proc' = "dead"
  /\ end' = [e \in Ends |-> IF e \in Subs /\ Open(e) THEN "hung" ELSE end[e]]
  /\ UNCHANGED <<sup, restarts, cancelled, relay, data>>

\* Mutant of Kill: the command is not built with the context.
KillNever == FALSE /\ UNCHANGED vars

\* The end of the context kills "go run", not the substrate that it runs.
Kill ==
  /\ cancelled /\ proc = "running"
  /\ proc' = "dead"
  /\ UNCHANGED <<sup, restarts, cancelled, relay, end, data>>

Orphaned == cancelled /\ proc = "dead"

-----------------------------------------------------------------------------
\* bridge: its two copiers.
Bridge(t, s) ==
  /\ copiers' = copiers \cup {<<t, s>>, <<s, t>>}
  /\ started' = [started EXCEPT ![<<t, s>>] = @ + 1]

Accept(t) ==
  /\ ~stopped /\ accepting = NoConn /\ end[t] = "none"
  /\ end' = [e \in Ends |-> IF e = t THEN "open" ELSE IF e = tuiConn THEN "closed" ELSE end[e]]
  /\ pending' = pending \ {tuiConn}
  /\ tuiConn' = t
  /\ acceptSub' = subConn
  /\ accepting' = IF subConn = NoConn THEN NoConn ELSE t
  /\ UNCHANGED <<supervisor, subConn, reconnector, started, stopped, copiers, lost>>

AcceptBridge ==
  /\ accepting # NoConn
  /\ Bridge(accepting, acceptSub)
  /\ accepting' = NoConn /\ acceptSub' = NoConn
  /\ UNCHANGED <<supervisor, tuiConn, subConn, reconnector, stopped, end, pending, lost>>

-----------------------------------------------------------------------------
\* Mutant of Hangup: the old connection is forgotten, not closed.
HangupNothing == UNCHANGED <<end, pending>>

Hangup == Close({subConn})

ReconnectBegin ==
  /\ reconnect = "idle"
  /\ reconnect' = "dial"
  /\ Hangup
  /\ subConn' = NoConn
  /\ UNCHANGED <<supervisor, tuiConn, acceptor, dialed, dialTui, started, stopped, copiers, lost>>

ReconnectDial(s) ==
  /\ reconnect = "dial" /\ end[s] = "none"
  /\ proc = "running" \/ Orphaned
  /\ end' = [end EXCEPT ![s] = "open"]
  /\ dialed' = s
  /\ reconnect' = "publish"
  /\ UNCHANGED <<supervisor, tuiConn, subConn, acceptor, dialTui, started, stopped, data>>

\* No try succeeded, or the caller's context ended.
ReconnectFails ==
  /\ reconnect = "dial"
  /\ reconnect' = "idle"
  /\ UNCHANGED <<supervisor, tuiConn, subConn, acceptor, dialed, dialTui, started, stopped, end, data>>

ReconnectPublish ==
  /\ reconnect = "publish"
  /\ subConn' = dialed
  /\ dialTui' = tuiConn
  /\ reconnect' = IF tuiConn = NoConn THEN "idle" ELSE "bridge"
  /\ dialed' = IF tuiConn = NoConn THEN NoConn ELSE dialed
  /\ UNCHANGED <<supervisor, tuiConn, acceptor, started, stopped, end, data>>

\* Mutant of ReconnectBridge: r.tuiConn is read again.
ReconnectBridgeNewest ==
  /\ reconnect = "bridge"
  /\ Bridge(tuiConn, dialed)
  /\ reconnect' = "idle" /\ dialed' = NoConn /\ dialTui' = NoConn
  /\ UNCHANGED <<supervisor, tuiConn, subConn, acceptor, stopped, end, pending, lost>>

ReconnectBridge ==
  /\ reconnect = "bridge"
  /\ Bridge(dialTui, dialed)
  /\ reconnect' = "idle" /\ dialed' = NoConn /\ dialTui' = NoConn
  /\ UNCHANGED <<supervisor, tuiConn, subConn, acceptor, stopped, end, pending, lost>>

Stop ==
  /\ ~stopped /\ stopped' = TRUE
  /\ Close({tuiConn, subConn})
  /\ UNCHANGED <<supervisor, tuiConn, subConn, acceptor, reconnector, started, copiers, lost>>

-----------------------------------------------------------------------------
\* A terminal or the substrate sends a chunk.
Sends(e) ==
  /\ Open(e) /\ e \notin pending
  /\ pending' = pending \cup {e}
  /\ UNCHANGED <<supervisor, relay, end, copiers, lost>>

Leaves(e) ==
  /\ Open(e)
  /\ e \in Tuis \/ Orphaned
  /\ end' = [end EXCEPT ![e] = "hung"]
  /\ UNCHANGED <<supervisor, relay, data>>

Partner(e) == IF e \in Tuis THEN subConn ELSE tuiConn

\* io.Copy: a chunk is written, or the write fails and the copier ends.
Copy(from, to) ==
  /\ <<from, to>> \in copiers /\ from \in pending
  /\ pending' = pending \ {from}
  /\ copiers' = IF Open(to) THEN copiers ELSE copiers \ {<<from, to>>}
  /\ lost' = [lost EXCEPT ![from] = IF Open(to) /\ to = Partner(from) THEN @ ELSE @ + 1]
  /\ UNCHANGED <<supervisor, relay, end>>

CopyEnds(from, to) ==
  /\ <<from, to>> \in copiers
  /\ from \notin pending /\ end[from] # "open"
  /\ copiers' = copiers \ {<<from, to>>}
  /\ UNCHANGED <<supervisor, relay, end, pending, lost>>

-----------------------------------------------------------------------------
RunStep == Spawn \/ ShutDown \/ Waited \/ BackoffOver
RelayStep ==
  \/ \E t \in Tuis : Accept(t)
  \/ \E s \in Subs : ReconnectDial(s)
  \/ AcceptBridge \/ ReconnectBegin \/ ReconnectFails \/ ReconnectPublish
  \/ ReconnectBridge \/ Stop
CopyStep == \E b \in copiers : Copy(b[1], b[2]) \/ CopyEnds(b[1], b[2])

\* The control plane ends when Run returns.
Next ==
  \/ RunStep \/ Cancel \/ Dies \/ Kill
  \/ /\ sup # "returned"
     /\ \/ RelayStep \/ CopyStep
        \/ \E e \in Ends : Sends(e) \/ Leaves(e)

Spec == Init /\ [][Next]_vars

\* Run is scheduled, its timers fire, and a kill takes effect.
FairSpec == Spec /\ WF_vars(RunStep) /\ WF_vars(Kill)

-----------------------------------------------------------------------------
\* Ranges; Run gives up after MaxRetries restarts (supervisor.go:83).
TypeOK ==
  /\ sup \in {"loop", "wait", "backoff", "returned"}
  /\ proc \in {"none", "running", "dead"}
  /\ restarts \in 0 .. MaxRetries + 1 /\ cancelled \in BOOLEAN
  /\ tuiConn \in Tuis \cup {NoConn} /\ subConn \in Subs \cup {NoConn}
  /\ end \in [Ends -> {"none", "open", "hung", "closed"}]
  /\ accepting \in Tuis \cup {NoConn} /\ acceptSub \in Subs \cup {NoConn}
  /\ accepting = NoConn <=> acceptSub = NoConn
  /\ reconnect \in {"idle", "dial", "publish", "bridge"}
  /\ dialed \in Subs \cup {NoConn} /\ dialTui \in Tuis \cup {NoConn}
  /\ copiers \subseteq (Tuis \X Subs) \cup (Subs \X Tuis)
  /\ started \in [Tuis \X Subs -> Nat]
  /\ pending \subseteq {e \in Ends : end[e] \in {"open", "hung"}} /\ lost \in [Ends -> Nat]
  /\ stopped \in BOOLEAN

\* Reconnect and the accept loop both start bridges, between their two critical
\* sections too, and still the terminal and the substrate that the relay has
\* are bridged, and bridged once: twice, and each chunk would go to either
\* bridge (relay.go:103-122, 166-182).
BridgedOnce ==
  (/\ accepting = NoConn /\ reconnect = "idle"
   /\ tuiConn # NoConn /\ subConn # NoConn)
    => started[<<tuiConn, subConn>>] = 1

\* A copier of a bridge whose other end is gone is only woken by the next chunk
\* and takes it along: an end loses at most one chunk for every end it was
\* bridged to that is gone (relay.go:72-83, 166-173, 189-205).
BridgedTo(e) == IF e \in Tuis THEN {s \in Subs : started[<<e, s>>] > 0}
                ELSE {t \in Tuis : started[<<t, e>>] > 0}
GoneFrom(e) == {f \in BridgedTo(e) : ~Open(f)}
LossBounded == \A e \in Ends : lost[e] <= Cardinality(GoneFrom(e))

\* Once its context is cancelled Run returns, and the "go run" that it started
\* does not outlive it, whatever step Run is in (supervisor.go:53-103, 117).
RunEnds == cancelled ~> (sup = "returned" /\ proc # "running")
=============================================================================
