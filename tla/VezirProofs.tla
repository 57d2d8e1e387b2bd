---------------------------- MODULE VezirProofs ----------------------------
(***************************************************************************)
(* Safety of the relay of Vezir for any number of terminals and of         *)
(* substrates, with no bound on how often either comes and goes.           *)
(***************************************************************************)
EXTENDS Vezir, FiniteSetTheorems, TLAPS

\* Terminals are not substrates, and a missing connection is neither.
EndsApart == Tuis \cap Subs = {} /\ NoConn \notin Ends

\* The bridges that the accept loop and Reconnect are about to start.
ByAccept(t, s) == accepting = t /\ acceptSub = s
ByReconnect(t, s) == reconnect = "bridge" /\ dialTui = t /\ dialed = s

\* No pair of ends is bridged twice, counting the bridges about to be started.
Once ==
  \A t \in Tuis, s \in Subs :
    /\ started[<<t, s>>] \in {0, 1}
    /\ ByAccept(t, s) => started[<<t, s>>] = 0 /\ ~ByReconnect(t, s)
    /\ ByReconnect(t, s) => started[<<t, s>>] = 0

\* The ends that the relay has are bridged, or someone is about to do it.
Current ==
  tuiConn # NoConn /\ subConn # NoConn =>
    \/ started[<<tuiConn, subConn>>] = 1
    \/ ByAccept(tuiConn, subConn)
    \/ ByReconnect(tuiConn, subConn)

\* What the accept loop and Reconnect hold between their critical sections.
Held ==
  /\ accepting # NoConn => accepting = tuiConn
  /\ accepting = NoConn <=> acceptSub = NoConn
  /\ reconnect \in {"dial", "publish"} => subConn = NoConn
  /\ reconnect \in {"publish", "bridge"} <=> dialed # NoConn
  /\ reconnect = "bridge" <=> dialTui # NoConn
  /\ reconnect = "bridge" => subConn = dialed
  /\ reconnect = "publish" => dialed # acceptSub /\ \A t \in Tuis : started[<<t, dialed>>] = 0

\* A connection that the relay has, had or is about to have is not a new one.
Used ==
  /\ \A e \in {tuiConn, subConn, acceptSub, dialed, dialTui} \ {NoConn} : end[e] # "none"
  /\ \A t \in Tuis, s \in Subs : started[<<t, s>>] > 0 => end[t] # "none" /\ end[s] # "none"

Types ==
  /\ tuiConn \in Tuis \cup {NoConn} /\ subConn \in Subs \cup {NoConn}
  /\ end \in [Ends -> {"none", "open", "hung", "closed"}]
  /\ accepting \in Tuis \cup {NoConn} /\ acceptSub \in Subs \cup {NoConn}
  /\ reconnect \in {"idle", "dial", "publish", "bridge"}
  /\ dialed \in Subs \cup {NoConn} /\ dialTui \in Tuis \cup {NoConn}
  /\ started \in [Tuis \X Subs -> Nat]

BridgeInv == Types /\ Once /\ Current /\ Held /\ Used

LEMMA BridgeInit ==
  ASSUME EndsApart, Init
  PROVE  BridgeInv
BY DEF Init, EndsApart, BridgeInv, Types, Once, Current, Held, Used, ByAccept, ByReconnect

\* Only ends change, and a new one stays new.
EndsOnly ==
  /\ UNCHANGED relay
  /\ end' \in [Ends -> {"none", "open", "hung", "closed"}]
  /\ \A e \in Ends : end[e] # "none" => end'[e] # "none"

LEMMA EndsOnlyKeeps ==
  ASSUME EndsApart, BridgeInv, EndsOnly
  PROVE  BridgeInv'
<1> USE DEF EndsOnly, relay, acceptor, reconnector, ByAccept, ByReconnect
<1>1. Types' /\ Once' /\ Current' /\ Held'
  BY DEF BridgeInv, Types, Once, Current, Held
<1>2. Used'
  BY DEF BridgeInv, Types, Used, EndsApart, Ends
<1> QED BY <1>1, <1>2 DEF BridgeInv

\* A terminal that comes is bridged to the substrate of that moment.
LEMMA AcceptKeeps ==
  ASSUME EndsApart, BridgeInv, NEW t \in Tuis, Accept(t)
  PROVE  BridgeInv'
<1> USE DEF EndsApart, Ends, ByAccept, ByReconnect
<1>1. /\ Types' /\ t # NoConn /\ tuiConn' = t /\ started' = started /\ subConn' = subConn
      /\ end' = [e \in Ends |-> IF e = t THEN "open" ELSE IF e = tuiConn THEN "closed" ELSE end[e]]
      /\ reconnect' = reconnect /\ dialed' = dialed /\ dialTui' = dialTui
  BY DEF Accept, BridgeInv, Types, reconnector
<1>2. end[t] = "none" /\ dialTui # t /\ \A s \in Subs : started[<<t, s>>] = 0
  BY <1>1 DEF Accept, BridgeInv, Types, Used, Once
<1>3. Once'
  BY <1>1, <1>2 DEF Accept, BridgeInv, Types, Once
<1>4. Current'
  BY <1>1, <1>2 DEF Accept, BridgeInv, Types, Current
<1>5. Held'
  BY <1>1, <1>2 DEF Accept, BridgeInv, Types, Held
<1>6. Used'
  BY <1>1, <1>2 DEF Accept, BridgeInv, Types, Used
<1> QED BY <1>1, <1>3, <1>4, <1>5, <1>6 DEF BridgeInv

\* What starting a bridge does to the count.
LEMMA BridgeCounts ==
  ASSUME Types, NEW t \in Tuis, NEW s \in Subs, Bridge(t, s)
  PROVE  /\ started' \in [Tuis \X Subs -> Nat]
         /\ \A u \in Tuis, r \in Subs :
              started'[<<u, r>>] =
                IF u = t /\ r = s THEN started[<<t, s>>] + 1 ELSE started[<<u, r>>]
BY DEF Types, Bridge

LEMMA AcceptBridgeKeeps ==
  ASSUME EndsApart, BridgeInv, AcceptBridge
  PROVE  BridgeInv'
<1> USE DEF EndsApart, Ends, ByAccept, ByReconnect
<1>1. /\ accepting \in Tuis /\ acceptSub \in Subs /\ accepting = tuiConn
      /\ Bridge(accepting, acceptSub)
      /\ accepting' = NoConn /\ acceptSub' = NoConn
      /\ UNCHANGED <<tuiConn, subConn, reconnect, dialed, dialTui, end>>
  BY DEF AcceptBridge, BridgeInv, Types, Held, reconnector
<1>2. /\ started' \in [Tuis \X Subs -> Nat]
      /\ \A u \in Tuis, r \in Subs :
              started'[<<u, r>>] =
                IF u = accepting /\ r = acceptSub THEN started[<<accepting, acceptSub>>] + 1
                ELSE started[<<u, r>>]
  BY <1>1, BridgeCounts DEF BridgeInv
<1>3. Types'
  BY <1>1, <1>2 DEF BridgeInv, Types
<1>4. Once'
  <2>1. started[<<accepting, acceptSub>>] = 0
    BY <1>1 DEF BridgeInv, Once
  <2> SUFFICES ASSUME NEW t \in Tuis, NEW s \in Subs
               PROVE  /\ started'[<<t, s>>] \in {0, 1}
                      /\ ByAccept(t, s)' => started'[<<t, s>>] = 0 /\ ~ByReconnect(t, s)'
                      /\ ByReconnect(t, s)' => started'[<<t, s>>] = 0
    BY DEF Once
  <2>2. /\ started[<<t, s>>] \in {0, 1}
        /\ ByAccept(t, s) => started[<<t, s>>] = 0 /\ ~ByReconnect(t, s)
        /\ ByReconnect(t, s) => started[<<t, s>>] = 0
    BY DEF BridgeInv, Once
  <2>3. CASE t = accepting /\ s = acceptSub
    BY <1>1, <1>2, <2>1, <2>2, <2>3
  <2>4. CASE ~(t = accepting /\ s = acceptSub)
    BY <1>1, <1>2, <2>2, <2>4
  <2> QED BY <2>3, <2>4
<1>5. Current'
  BY <1>1, <1>2 DEF BridgeInv, Types, Current, Once
<1>6. Held'
  BY <1>1, <1>2 DEF BridgeInv, Types, Held
<1>7. Used'
  BY <1>1, <1>2 DEF BridgeInv, Types, Used
<1> QED BY <1>3, <1>4, <1>5, <1>6, <1>7 DEF BridgeInv

LEMMA ReconnectBridgeKeeps ==
  ASSUME EndsApart, BridgeInv, ReconnectBridge
  PROVE  BridgeInv'
<1> USE DEF EndsApart, Ends, ByAccept, ByReconnect
<1>1. /\ dialTui \in Tuis /\ dialed \in Subs /\ subConn = dialed /\ reconnect = "bridge"
      /\ Bridge(dialTui, dialed)
      /\ reconnect' = "idle" /\ dialed' = NoConn /\ dialTui' = NoConn
      /\ UNCHANGED <<tuiConn, subConn, accepting, acceptSub, end>>
  BY DEF ReconnectBridge, BridgeInv, Types, Held, acceptor
<1>2. /\ started' \in [Tuis \X Subs -> Nat]
      /\ \A u \in Tuis, r \in Subs :
              started'[<<u, r>>] =
                IF u = dialTui /\ r = dialed THEN started[<<dialTui, dialed>>] + 1
                ELSE started[<<u, r>>]
  BY <1>1, BridgeCounts DEF BridgeInv
<1>3. Types'
  BY <1>1, <1>2 DEF BridgeInv, Types
<1>4. Once'
  <2>1. started[<<dialTui, dialed>>] = 0
    BY <1>1 DEF BridgeInv, Once
  <2> SUFFICES ASSUME NEW t \in Tuis, NEW s \in Subs
               PROVE  /\ started'[<<t, s>>] \in {0, 1}
                      /\ ByAccept(t, s)' => started'[<<t, s>>] = 0 /\ ~ByReconnect(t, s)'
                      /\ ByReconnect(t, s)' => started'[<<t, s>>] = 0
    BY DEF Once
  <2>2. /\ started[<<t, s>>] \in {0, 1}
        /\ ByAccept(t, s) => started[<<t, s>>] = 0 /\ ~ByReconnect(t, s)
        /\ ByReconnect(t, s) => started[<<t, s>>] = 0
    BY DEF BridgeInv, Once
  <2>3. CASE t = dialTui /\ s = dialed
    BY <1>1, <1>2, <2>1, <2>2, <2>3
  <2>4. CASE ~(t = dialTui /\ s = dialed)
    BY <1>1, <1>2, <2>2, <2>4
  <2> QED BY <2>3, <2>4
<1>5. Current'
  BY <1>1, <1>2 DEF BridgeInv, Types, Current, Once
<1>6. Held'
  BY <1>1, <1>2 DEF BridgeInv, Types, Held
<1>7. Used'
  BY <1>1, <1>2 DEF BridgeInv, Types, Used
<1> QED BY <1>3, <1>4, <1>5, <1>6, <1>7 DEF BridgeInv

\* A substrate that was dialed is a new one, that no one has a bridge to.
LEMMA DialKeeps ==
  ASSUME EndsApart, BridgeInv, NEW s \in Subs, ReconnectDial(s)
  PROVE  BridgeInv'
<1> USE DEF EndsApart, Ends, ByAccept, ByReconnect
<1>1. /\ reconnect = "dial" /\ reconnect' = "publish" /\ dialed' = s /\ s # NoConn
      /\ end' = [end EXCEPT ![s] = "open"] /\ end[s] = "none"
      /\ UNCHANGED <<tuiConn, subConn, accepting, acceptSub, dialTui, started>>
  BY DEF ReconnectDial, BridgeInv, Types, acceptor
<1>2. acceptSub # s /\ \A t \in Tuis : started[<<t, s>>] = 0
  BY <1>1 DEF BridgeInv, Types, Used, Once
<1>3. Types' /\ Once' /\ Current'
  BY <1>1, <1>2 DEF BridgeInv, Types, Once, Current, Held
<1>4. Held'
  BY <1>1, <1>2 DEF BridgeInv, Types, Held
<1>5. Used'
  BY <1>1, <1>2 DEF BridgeInv, Types, Used
<1> QED BY <1>3, <1>4, <1>5 DEF BridgeInv

\* The substrate is published with the terminal of that moment.
LEMMA PublishKeeps ==
  ASSUME EndsApart, BridgeInv, ReconnectPublish
  PROVE  BridgeInv'
<1> USE DEF EndsApart, Ends, ByAccept, ByReconnect
<1>1. /\ reconnect = "publish" /\ subConn' = dialed /\ dialTui' = tuiConn /\ dialed \in Subs
      /\ reconnect' = IF tuiConn = NoConn THEN "idle" ELSE "bridge"
      /\ dialed' = IF tuiConn = NoConn THEN NoConn ELSE dialed
      /\ UNCHANGED <<tuiConn, accepting, acceptSub, started, end>>
  BY DEF ReconnectPublish, BridgeInv, Types, Held, acceptor
<1>2. acceptSub # dialed /\ \A t \in Tuis : started[<<t, dialed>>] = 0
  BY <1>1 DEF BridgeInv, Held
<1>3. Types' /\ Once' /\ Current'
  BY <1>1, <1>2 DEF BridgeInv, Types, Once, Current
<1>4. Held'
  BY <1>1, <1>2 DEF BridgeInv, Types, Held
<1>5. Used'
  BY <1>1, <1>2 DEF BridgeInv, Types, Used
<1> QED BY <1>3, <1>4, <1>5 DEF BridgeInv

\* Every step keeps the invariant.
LEMMA BridgeStep ==
  ASSUME EndsApart, BridgeInv, [Next]_vars
  PROVE  BridgeInv'
<1>1. ASSUME UNCHANGED <<relay, end>>
      PROVE  BridgeInv'
  BY <1>1, EndsOnlyKeeps DEF EndsOnly, BridgeInv, Types
<1>2. ASSUME RunStep \/ Cancel \/ Kill
      PROVE  BridgeInv'
  BY <1>1, <1>2 DEF RunStep, Spawn, ShutDown, Waited, BackoffOver, Cancel, Kill
<1>3. CASE Dies
  <2>1. EndsOnly
    BY <1>3 DEF Dies, EndsOnly, BridgeInv, Types, Open, Ends
  <2> QED BY <2>1, EndsOnlyKeeps
<1>4. ASSUME NEW e \in Ends, Sends(e)
      PROVE  BridgeInv'
  BY <1>1, <1>4 DEF Sends
<1>5. ASSUME NEW e \in Ends, Leaves(e)
      PROVE  BridgeInv'
  <2>1. EndsOnly
    BY <1>5 DEF Leaves, EndsOnly, BridgeInv, Types, Open, Ends
  <2> QED BY <2>1, EndsOnlyKeeps
<1>6. CASE CopyStep
  BY <1>1, <1>6 DEF CopyStep, Copy, CopyEnds
<1>7. ASSUME NEW t \in Tuis, Accept(t)
      PROVE  BridgeInv'
  BY <1>7, AcceptKeeps
<1>8. ASSUME NEW s \in Subs, ReconnectDial(s)
      PROVE  BridgeInv'
  BY <1>8, DialKeeps
<1>9. CASE AcceptBridge
  BY <1>9, AcceptBridgeKeeps
<1>10. CASE ReconnectBegin
  <2> USE DEF EndsApart, ByAccept, ByReconnect
  <2>1. /\ reconnect = "idle" /\ reconnect' = "dial" /\ subConn' = NoConn
        /\ end' = [e \in Ends |-> IF e = subConn THEN "closed" ELSE end[e]]
        /\ UNCHANGED <<tuiConn, accepting, acceptSub, dialed, dialTui, started>>
    BY <1>10 DEF ReconnectBegin, Hangup, Close, acceptor
  <2>2. Types' /\ Once' /\ Current' /\ Held'
    BY <2>1 DEF BridgeInv, Types, Once, Current, Held
  <2>3. Used'
    BY <2>1 DEF BridgeInv, Types, Used, Ends
  <2> QED BY <2>2, <2>3 DEF BridgeInv
<1>11. CASE ReconnectFails
  <2> USE DEF EndsApart, ByAccept, ByReconnect
  <2>1. /\ reconnect = "dial" /\ reconnect' = "idle"
        /\ UNCHANGED <<tuiConn, subConn, end, accepting, acceptSub, dialed, dialTui, started>>
    BY <1>11 DEF ReconnectFails, acceptor
  <2> QED BY <2>1 DEF BridgeInv, Types, Once, Current, Held, Used
<1>12. CASE ReconnectPublish
  BY <1>12, PublishKeeps
<1>13. CASE ReconnectBridge
  BY <1>13, ReconnectBridgeKeeps
<1>14. CASE Stop
  <2>1. /\ end' = [e \in Ends |-> IF e \in {tuiConn, subConn} THEN "closed" ELSE end[e]]
        /\ UNCHANGED <<tuiConn, subConn, accepting, acceptSub, reconnect, dialed, dialTui, started>>
    BY <1>14 DEF Stop, Close, acceptor, reconnector
  <2>2. Types' /\ Once' /\ Current' /\ Held'
    BY <2>1 DEF BridgeInv, Types, Once, Current, Held, ByAccept, ByReconnect
  <2>3. Used'
    BY <2>1 DEF BridgeInv, Types, Used, Ends, EndsApart
  <2> QED BY <2>2, <2>3 DEF BridgeInv
<1>15. CASE UNCHANGED vars
  BY <1>1, <1>15 DEF vars
<1> QED BY <1>2, <1>3, <1>4, <1>5, <1>6, <1>7, <1>8, <1>9, <1>10, <1>11, <1>12, <1>13,
          <1>14, <1>15 DEF Next, RelayStep

\* The terminal and the substrate that the relay has are bridged, and once,
\* however the accept loop and Reconnect overlap between their critical
\* sections and whatever comes and goes meanwhile (relay.go:103-122, 166-182).
THEOREM BridgedCorrect ==
  ASSUME EndsApart
  PROVE  Spec => []BridgedOnce
<1>1. Init => BridgeInv
  BY BridgeInit
<1>2. BridgeInv /\ [Next]_vars => BridgeInv'
  BY BridgeStep
<1>3. BridgeInv => BridgedOnce
  BY DEF BridgeInv, Types, Current, BridgedOnce, ByAccept, ByReconnect
<1> QED BY <1>1, <1>2, <1>3, PTL DEF Spec

-----------------------------------------------------------------------------
\* An end that is open is in someone's hands.
OpenHeld == \A e \in Ends : Open(e) => e \in {tuiConn, subConn, dialed}

\* A copier is one of a bridge, and each end had finitely many.
CopiersBridged == \A b \in copiers : b \in Ends \X Ends /\ b[2] \in BridgedTo(b[1])
BridgedFinite == \A e \in Ends : IsFiniteSet(BridgedTo(e))

\* The ends that e was bridged to that are gone, and the copier with them: each
\* has cost e a chunk at most, and will not cost it another.
Spent(e) == {f \in GoneFrom(e) : <<e, f>> \notin copiers}
LostSpent == lost \in [Ends -> Nat] /\ \A e \in Ends : lost[e] <= Cardinality(Spent(e))

LossInv == OpenHeld /\ CopiersBridged /\ BridgedFinite /\ LostSpent

LEMMA SpentFinite ==
  ASSUME BridgedFinite, NEW e \in Ends
  PROVE  IsFiniteSet(Spent(e)) /\ IsFiniteSet(GoneFrom(e))
<1>1. GoneFrom(e) \in SUBSET BridgedTo(e)
  BY DEF GoneFrom
<1>2. IsFiniteSet(GoneFrom(e))
  BY <1>1, FS_Subset DEF BridgedFinite
<1>3. Spent(e) \in SUBSET GoneFrom(e)
  BY DEF Spent
<1> QED BY <1>2, <1>3, FS_Subset

\* What is spent stays spent, so a loss that is not added to stays bounded.
LEMMA SpentGrows ==
  ASSUME LostSpent, BridgedFinite', lost' = lost,
         \A e \in Ends : Spent(e) \subseteq Spent(e)'
  PROVE  LostSpent'
<1> SUFFICES ASSUME NEW e \in Ends
             PROVE  lost[e] <= Cardinality(Spent(e)')
  BY DEF LostSpent
<1>1. IsFiniteSet(Spent(e)')
  <2>1. GoneFrom(e)' \in SUBSET (BridgedTo(e)')
    BY DEF GoneFrom
  <2>2. IsFiniteSet(GoneFrom(e)')
    BY <2>1, FS_Subset DEF BridgedFinite
  <2>3. Spent(e)' \in SUBSET (GoneFrom(e)')
    BY DEF Spent
  <2> QED BY <2>2, <2>3, FS_Subset
<1>2. IsFiniteSet(Spent(e)) /\ Cardinality(Spent(e)) <= Cardinality(Spent(e)')
  <2>1. Spent(e) \in SUBSET (Spent(e)')
    OBVIOUS
  <2> QED BY <1>1, <2>1, FS_Subset
<1>3. Cardinality(Spent(e)) \in Nat /\ Cardinality(Spent(e)') \in Nat /\ lost[e] \in Nat
  BY <1>1, <1>2, FS_CardinalityType DEF LostSpent
<1>4. lost[e] <= Cardinality(Spent(e))
  BY DEF LostSpent
<1> QED BY <1>2, <1>3, <1>4

\* No bridge is started, copiers only end, and an end that opens is a new one.
Recede ==
  /\ copiers' \subseteq copiers /\ started' = started
  /\ \A e \in Ends : end'[e] = "open" =>
       end[e] \in {"open", "none"} /\ e \in {tuiConn', subConn', dialed'}

LEMMA RecedeBridges ==
  ASSUME EndsApart, BridgeInv, LossInv, Recede
  PROVE  /\ OpenHeld' /\ CopiersBridged' /\ BridgedFinite'
         /\ \A e \in Ends : Spent(e) \subseteq Spent(e)'
<1>1. \A e : BridgedTo(e)' = BridgedTo(e)
  BY DEF Recede, BridgedTo
<1>2. CopiersBridged' /\ BridgedFinite'
  BY <1>1 DEF LossInv, CopiersBridged, BridgedFinite, Recede
<1>3. OpenHeld'
  BY DEF Recede, OpenHeld, Open
<1>4. ASSUME NEW e \in Ends, NEW f \in Spent(e)
      PROVE  f \in Spent(e)'
  <2>1. f \in BridgedTo(e) /\ ~Open(f) /\ <<e, f>> \notin copiers
    BY <1>4 DEF Spent, GoneFrom
  <2>2. f \in Ends /\ end[f] # "none"
    BY <2>1 DEF BridgedTo, BridgeInv, Used, Ends
  <2>3. ~Open(f)'
    BY <2>1, <2>2 DEF Recede, Open
  <2> QED BY <1>1, <2>1, <2>3 DEF Spent, GoneFrom, Recede
<1> QED BY <1>2, <1>3, <1>4

LEMMA RecedeKeeps ==
  ASSUME EndsApart, BridgeInv, LossInv, Recede, lost' = lost
  PROVE  LossInv'
BY RecedeBridges, SpentGrows DEF LossInv

\* A chunk is only lost with the copier that takes it: its other end is gone.
LEMMA CopyKeeps ==
  ASSUME EndsApart, BridgeInv, LossInv, NEW b \in copiers, Copy(b[1], b[2])
  PROVE  LossInv'
<1>1. PICK from \in Ends, to \in Ends : b = <<from, to>>
  BY DEF LossInv, CopiersBridged
<1>2. /\ <<from, to>> \in copiers
      /\ copiers' = IF Open(to) THEN copiers ELSE copiers \ {<<from, to>>}
      /\ lost' = [lost EXCEPT ![from] = IF Open(to) /\ to = Partner(from) THEN @ ELSE @ + 1]
      /\ UNCHANGED <<started, end, tuiConn, subConn, dialed>>
  BY <1>1 DEF Copy, relay, reconnector
<1>3. to \in BridgedTo(from)
  BY <1>1, <1>2 DEF LossInv, CopiersBridged
<1>4. Open(to) => to = Partner(from)
  <2> SUFFICES ASSUME Open(to) PROVE to = Partner(from)
    OBVIOUS
  <2>1. to \in {tuiConn, subConn, dialed}
    BY DEF LossInv, OpenHeld
  <2>2. to = dialed => subConn = dialed
    BY <1>3 DEF BridgeInv, Held, BridgedTo, EndsApart, Ends, Types
  <2> QED BY <1>3, <2>1, <2>2 DEF Partner, BridgedTo, EndsApart, Ends, BridgeInv, Types
<1>5. Recede
  BY <1>2 DEF Recede, LossInv, OpenHeld, Open
<1>6. /\ OpenHeld' /\ CopiersBridged' /\ BridgedFinite'
      /\ \A e \in Ends : Spent(e) \subseteq Spent(e)'
  BY <1>5, RecedeBridges
<1>7. CASE Open(to)
  <2>1. lost' = lost
    BY <1>2, <1>4, <1>7 DEF LossInv, LostSpent
  <2> QED BY <1>6, <2>1, SpentGrows DEF LossInv
<1>8. CASE ~Open(to)
  <2>1. \A e \in Ends : lost'[e] = IF e = from THEN lost[e] + 1 ELSE lost[e]
    BY <1>2, <1>8 DEF LossInv, LostSpent
  <2>2. lost' \in [Ends -> Nat]
    BY <1>2, <1>8 DEF LossInv, LostSpent
  <2> SUFFICES ASSUME NEW e \in Ends
               PROVE  lost'[e] <= Cardinality(Spent(e)')
    BY <1>6, <2>2 DEF LossInv, LostSpent
  <2>3. IsFiniteSet(Spent(e)) /\ IsFiniteSet(Spent(e)')
    <3>1. IsFiniteSet(Spent(e))
      BY SpentFinite DEF LossInv
    <3>2. Spent(e)' \in SUBSET (BridgedTo(e)')
      BY DEF Spent, GoneFrom
    <3> QED BY <1>6, <3>1, <3>2, FS_Subset DEF BridgedFinite
  <2>4. lost[e] \in Nat /\ lost[e] <= Cardinality(Spent(e))
    BY DEF LossInv, LostSpent
  <2>5. Cardinality(Spent(e)) \in Nat /\ Cardinality(Spent(e)') \in Nat
    BY <2>3, FS_CardinalityType
  <2>6. CASE e # from
    <3>1. Spent(e) \in SUBSET (Spent(e)')
      BY <1>6
    <3>2. Cardinality(Spent(e)) <= Cardinality(Spent(e)')
      BY <2>3, <3>1, FS_Subset
    <3> QED BY <2>1, <2>4, <2>5, <2>6, <3>2
  <2>7. CASE e = from
    <3>1. to \notin Spent(e) /\ to \in Spent(e)'
      <4>1. to \in GoneFrom(e)' /\ <<e, to>> \notin copiers'
        BY <1>2, <1>3, <1>8, <2>7 DEF GoneFrom, BridgedTo, Open
      <4> QED BY <1>2, <2>7, <4>1 DEF Spent
    <3>2. Spent(e) \cup {to} \in SUBSET (Spent(e)')
      BY <1>6, <3>1
    <3>3. /\ IsFiniteSet(Spent(e) \cup {to})
          /\ Cardinality(Spent(e) \cup {to}) = Cardinality(Spent(e)) + 1
      BY <2>3, <3>1, FS_AddElement
    <3>4. Cardinality(Spent(e) \cup {to}) <= Cardinality(Spent(e)')
      BY <2>3, <3>2, FS_Subset
    <3> QED BY <2>1, <2>4, <2>5, <2>7, <3>3, <3>4
  <2> QED BY <2>6, <2>7
<1> QED BY <1>7, <1>8

\* A new bridge is one that neither of its ends had before.
LEMMA BridgeLoss ==
  ASSUME EndsApart, BridgeInv, LossInv, NEW t \in Tuis, NEW s \in Subs, Bridge(t, s),
         started[<<t, s>>] = 0, end' = end, lost' = lost, OpenHeld'
  PROVE  LossInv'
<1>1. /\ started' \in [Tuis \X Subs -> Nat]
      /\ \A u \in Tuis, r \in Subs :
           started'[<<u, r>>] =
             IF u = t /\ r = s THEN started[<<t, s>>] + 1 ELSE started[<<u, r>>]
  BY BridgeCounts DEF BridgeInv
<1>2. \A e \in Ends : BridgedTo(e)' = IF e = t THEN BridgedTo(e) \cup {s}
                                      ELSE IF e = s THEN BridgedTo(e) \cup {t}
                                      ELSE BridgedTo(e)
  <2> SUFFICES ASSUME NEW e \in Ends
               PROVE  BridgedTo(e)' = IF e = t THEN BridgedTo(e) \cup {s}
                                      ELSE IF e = s THEN BridgedTo(e) \cup {t}
                                      ELSE BridgedTo(e)
    OBVIOUS
  <2>1. started[<<t, s>>] + 1 > 0
    OBVIOUS
  <2>2. CASE e \in Tuis
    BY <1>1, <2>1, <2>2 DEF BridgedTo, EndsApart, Ends
  <2>3. CASE e \in Subs
    BY <1>1, <2>1, <2>3 DEF BridgedTo, EndsApart, Ends
  <2> QED BY <2>2, <2>3 DEF Ends
<1>3. s \notin BridgedTo(t) /\ t \notin BridgedTo(s)
  BY DEF BridgedTo, EndsApart, Ends
<1>4. BridgedFinite'
  BY <1>2, FS_AddElement DEF BridgedFinite, LossInv
<1>5. copiers' = copiers \cup {<<t, s>>, <<s, t>>}
  BY DEF Bridge
<1>6. CopiersBridged'
  <2> SUFFICES ASSUME NEW b \in copiers'
               PROVE  b \in Ends \X Ends /\ b[2] \in BridgedTo(b[1])'
    BY DEF CopiersBridged
  <2>1. CASE b \in copiers
    BY <1>2, <2>1 DEF LossInv, CopiersBridged
  <2>2. CASE b = <<t, s>> \/ b = <<s, t>>
    BY <1>2, <2>2 DEF Ends, EndsApart
  <2> QED BY <1>5, <2>1, <2>2
<1>7. ASSUME NEW e \in Ends
      PROVE  Spent(e) \subseteq Spent(e)'
  BY <1>2, <1>3, <1>5 DEF Spent, GoneFrom, Open
<1> QED BY <1>4, <1>6, <1>7, SpentGrows DEF LossInv

LEMMA LossInit ==
  ASSUME Init
  PROVE  LossInv
<1>1. \A e \in Ends : BridgedTo(e) = {} /\ Spent(e) = {}
  BY DEF Init, BridgedTo, Spent, GoneFrom, Ends
<1>2. BridgedFinite
  BY <1>1, FS_EmptySet DEF BridgedFinite
<1>3. \A e \in Ends : Cardinality(Spent(e)) = 0
  BY <1>1, FS_EmptySet
<1>4. LostSpent
  BY <1>3 DEF Init, LostSpent
<1>5. OpenHeld /\ CopiersBridged
  BY DEF Init, OpenHeld, CopiersBridged, Open
<1> QED BY <1>2, <1>4, <1>5 DEF LossInv

LEMMA LossStep ==
  ASSUME EndsApart, BridgeInv, LossInv, [Next]_vars
  PROVE  LossInv'
<1> USE DEF relay, acceptor, reconnector, data, Open
<1>1. ASSUME /\ copiers' \subseteq copiers /\ lost' = lost
             /\ UNCHANGED <<started, tuiConn, subConn, dialed>>
             /\ \A e \in Ends : end'[e] = "open" => end[e] = "open"
      PROVE  LossInv'
  <2>1. Recede
    BY <1>1 DEF Recede, LossInv, OpenHeld
  <2> QED BY <1>1, <2>1, RecedeKeeps
<1>2. ASSUME RunStep \/ Cancel \/ Kill
      PROVE  LossInv'
  BY <1>1, <1>2 DEF RunStep, Spawn, ShutDown, Waited, BackoffOver, Cancel, Kill
<1>3. CASE Dies
  BY <1>1, <1>3 DEF Dies
<1>4. ASSUME NEW e \in Ends, Sends(e)
      PROVE  LossInv'
  BY <1>1, <1>4 DEF Sends
<1>5. ASSUME NEW e \in Ends, Leaves(e)
      PROVE  LossInv'
  BY <1>1, <1>5 DEF Leaves, BridgeInv, Types
<1>6. ASSUME NEW b \in copiers, CopyEnds(b[1], b[2])
      PROVE  LossInv'
  BY <1>1, <1>6 DEF CopyEnds
<1>7. ASSUME NEW t \in Tuis, Accept(t)
      PROVE  LossInv'
  <2>1. Recede
    BY <1>7 DEF Accept, Recede, LossInv, OpenHeld, Ends
  <2> QED BY <1>7, <2>1, RecedeKeeps DEF Accept
<1>8. ASSUME NEW s \in Subs, ReconnectDial(s)
      PROVE  LossInv'
  <2>1. dialed = NoConn /\ dialed' = s
    BY <1>8 DEF ReconnectDial, BridgeInv, Held
  <2>2. Recede
    BY <1>8, <2>1 DEF ReconnectDial, Recede, LossInv, OpenHeld, Ends, BridgeInv, Types, EndsApart
  <2> QED BY <1>8, <2>2, RecedeKeeps DEF ReconnectDial
<1>9. CASE AcceptBridge
  <2>1. accepting \in Tuis /\ acceptSub \in Subs /\ started[<<accepting, acceptSub>>] = 0
    BY <1>9 DEF AcceptBridge, BridgeInv, Types, Held, Once, ByAccept
  <2>2. OpenHeld'
    BY <1>9 DEF AcceptBridge, OpenHeld, LossInv
  <2> QED BY <1>9, <2>1, <2>2, BridgeLoss DEF AcceptBridge
<1>10. CASE ReconnectBegin
  <2>1. dialed = NoConn
    BY <1>10 DEF ReconnectBegin, BridgeInv, Held
  <2>2. Recede
    BY <1>10, <2>1 DEF ReconnectBegin, Hangup, Close, Recede, LossInv, OpenHeld, EndsApart
  <2> QED BY <1>10, <2>2, RecedeKeeps DEF ReconnectBegin
<1>11. CASE ReconnectFails
  BY <1>1, <1>11 DEF ReconnectFails
<1>12. CASE ReconnectPublish
  <2>1. subConn = NoConn
    BY <1>12 DEF ReconnectPublish, BridgeInv, Held
  <2>2. Recede
    BY <1>12, <2>1 DEF ReconnectPublish, Recede, LossInv, OpenHeld, EndsApart
  <2> QED BY <1>12, <2>2, RecedeKeeps DEF ReconnectPublish
<1>13. CASE ReconnectBridge
  <2>1. /\ dialTui \in Tuis /\ dialed \in Subs /\ started[<<dialTui, dialed>>] = 0
        /\ subConn = dialed
    BY <1>13 DEF ReconnectBridge, BridgeInv, Types, Held, Once, ByReconnect
  <2>2. OpenHeld'
    BY <1>13, <2>1 DEF ReconnectBridge, OpenHeld, LossInv
  <2> QED BY <1>13, <2>1, <2>2, BridgeLoss DEF ReconnectBridge
<1>14. CASE Stop
  BY <1>1, <1>14 DEF Stop, Close
<1>15. CASE UNCHANGED vars
  BY <1>1, <1>15 DEF vars
<1> QED BY <1>2, <1>3, <1>4, <1>5, <1>6, <1>7, <1>8, <1>9, <1>10, <1>11, <1>12, <1>13,
          <1>14, <1>15, CopyKeeps DEF Next, RelayStep, CopyStep

\* An end loses no more chunks than it has had partners that are gone, however
\* often terminals and substrates are replaced while data flows: a copier that
\* outlives its bridge loses one chunk and ends (relay.go:72-83, 166-173,
\* 189-205).
THEOREM LossCorrect ==
  ASSUME EndsApart
  PROVE  Spec => []LossBounded
<1>1. Init => BridgeInv /\ LossInv
  BY BridgeInit, LossInit
<1>2. BridgeInv /\ LossInv /\ [Next]_vars => BridgeInv' /\ LossInv'
  BY BridgeStep, LossStep
<1>3. LossInv => LossBounded
  <2> SUFFICES ASSUME LossInv, NEW e \in Ends
               PROVE  lost[e] <= Cardinality(GoneFrom(e))
    BY DEF LossBounded
  <2>1. IsFiniteSet(Spent(e)) /\ IsFiniteSet(GoneFrom(e))
    BY SpentFinite DEF LossInv
  <2>2. Spent(e) \in SUBSET GoneFrom(e)
    BY DEF Spent
  <2>3. Cardinality(Spent(e)) <= Cardinality(GoneFrom(e))
    BY <2>1, <2>2, FS_Subset
  <2>4. Cardinality(Spent(e)) \in Nat /\ Cardinality(GoneFrom(e)) \in Nat
    BY <2>1, FS_CardinalityType
  <2> QED BY <2>3, <2>4 DEF LossInv, LostSpent
<1> QED BY <1>1, <1>2, <1>3, PTL DEF Spec

\* Run is back from MaxRetries restarts at most, but when it returns.
Ranges ==
  /\ sup \in {"loop", "wait", "backoff", "returned"} /\ proc \in {"none", "running", "dead"}
  /\ restarts \in 0..(MaxRetries + 1) /\ (sup # "returned" => restarts <= MaxRetries)
  /\ cancelled \in BOOLEAN /\ stopped \in BOOLEAN

\* Only ends that were made and not closed have a chunk to read.
Flow ==
  /\ copiers \subseteq (Tuis \X Subs) \cup (Subs \X Tuis)
  /\ pending \subseteq {e \in Ends : end[e] \in {"open", "hung"}} /\ lost \in [Ends -> Nat]

LEMMA RangesKept ==
  ASSUME MaxRetries \in Nat, Ranges, [Next]_vars
  PROVE  Ranges'
<1> USE DEF Ranges
<1>1. CASE RunStep
  BY <1>1 DEF RunStep, Spawn, ShutDown, Waited, BackoffOver, relay
<1>2. CASE Cancel \/ Dies \/ Kill
  BY <1>2 DEF Cancel, Dies, Kill, relay
<1>3. CASE UNCHANGED supervisor /\ stopped' \in BOOLEAN
  BY <1>3 DEF supervisor
<1>4. CASE RelayStep
  BY <1>3, <1>4 DEF RelayStep, Accept, AcceptBridge, ReconnectBegin, ReconnectDial, ReconnectFails,
                    ReconnectPublish, ReconnectBridge, Stop
<1>5. CASE CopyStep \/ \E e \in Ends : Sends(e) \/ Leaves(e)
  BY <1>3, <1>5 DEF CopyStep, Copy, CopyEnds, Sends, Leaves, relay
<1>6. CASE UNCHANGED vars
  BY <1>3, <1>6 DEF vars, relay
<1> QED BY <1>1, <1>2, <1>4, <1>5, <1>6 DEF Next

LEMMA FlowKept ==
  ASSUME EndsApart, BridgeInv, Flow, [Next]_vars
  PROVE  Flow'
<1> USE DEF Flow, BridgeInv, Types
<1>1. CASE UNCHANGED <<end, data>>
  BY <1>1 DEF data
<1>2. CASE RunStep \/ Cancel \/ Kill
  BY <1>1, <1>2 DEF RunStep, Spawn, ShutDown, Waited, BackoffOver, Cancel, Kill
<1>3. CASE Dies
  BY <1>3 DEF Dies, data, Open
<1>4. ASSUME NEW t \in Tuis, Accept(t)
      PROVE  Flow'
  BY <1>4 DEF Accept, Ends
<1>5. ASSUME NEW t \in Tuis, NEW s \in Subs, Bridge(t, s), UNCHANGED <<end, pending, lost>>
      PROVE  Flow'
  BY <1>5 DEF Bridge
<1>6. CASE AcceptBridge
  BY <1>5, <1>6 DEF AcceptBridge, Held
<1>7. CASE ReconnectBridge
  BY <1>5, <1>7 DEF ReconnectBridge, Held
<1>8. CASE ReconnectBegin \/ Stop
  BY <1>8 DEF ReconnectBegin, Stop, Hangup, Close
<1>9. ASSUME NEW s \in Subs, ReconnectDial(s)
      PROVE  Flow'
  BY <1>9 DEF ReconnectDial, data
<1>10. CASE ReconnectFails \/ ReconnectPublish
  BY <1>1, <1>10 DEF ReconnectFails, ReconnectPublish
<1>11. ASSUME NEW b \in copiers, Copy(b[1], b[2]) \/ CopyEnds(b[1], b[2])
       PROVE  Flow'
  BY <1>11 DEF Copy, CopyEnds
<1>12. ASSUME NEW e \in Ends, Sends(e) \/ Leaves(e)
       PROVE  Flow'
  BY <1>12 DEF Sends, Leaves, Open, data
<1>13. CASE UNCHANGED vars
  BY <1>1, <1>13 DEF vars
<1> QED BY <1>2, <1>3, <1>4, <1>6, <1>7, <1>8, <1>9, <1>10, <1>11, <1>12, <1>13
        DEF Next, RelayStep, CopyStep

\* The types hold, and Run gives up after MaxRetries restarts, for any terminals
\* and dials (supervisor.go:53-103).
THEOREM VezirTypeCorrect ==
  ASSUME EndsApart, MaxRetries \in Nat
  PROVE  Spec => []TypeOK
<1>1. Init => BridgeInv /\ Ranges /\ Flow
  <2> SUFFICES ASSUME Init PROVE Ranges /\ Flow
    BY BridgeInit
  <2>1. Ranges
    <3>1. restarts = 0 /\ 0 \in 0..(MaxRetries + 1) /\ 0 <= MaxRetries
      BY DEF Init
    <3>2. cancelled \in BOOLEAN /\ stopped \in BOOLEAN
      BY DEF Init
    <3>3. sup = "loop" /\ proc = "none"
      BY DEF Init
    <3> QED BY <3>1, <3>2, <3>3, SMT DEF Ranges
  <2>2. Flow
    BY DEF Init, Flow
  <2> QED BY <2>1, <2>2
<1>2. BridgeInv /\ Ranges /\ Flow /\ [Next]_vars => BridgeInv' /\ Ranges' /\ Flow'
  BY BridgeStep, RangesKept, FlowKept
<1>3. BridgeInv /\ Ranges /\ Flow => TypeOK
  BY DEF BridgeInv, Types, Held, Ranges, Flow, TypeOK
<1> QED BY <1>1, <1>2, <1>3, PTL DEF Spec
=============================================================================
