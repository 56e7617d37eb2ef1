---------------------------- MODULE ClientProofs ----------------------------
(***************************************************************************)
(* Theorems about module Client, for any number of loops that could be     *)
(* spawned, of threads that chat, of signals and of receivers.             *)
(***************************************************************************)
EXTENDS Client, TLAPS

LEMMA ClientTypeInit == Init => ClientTypeOK
<1> SUFFICES ASSUME Init PROVE ClientTypeOK
    OBVIOUS
<1>1. signals \in [Loops -> 0..MaxSignals] /\ receivers \in 0..MaxReceivers
    BY ClientAssumption DEF Init
<1>2. connected \in BOOLEAN /\ peerGone \in BOOLEAN /\ closed \in [Loops -> BOOLEAN]
    BY DEF Init
<1>3. QED
    BY <1>1, <1>2 DEF Init, ClientTypeOK, ConnectPlaces, LoopPlaces

\* The steps of connect(), of the loop and of the other calls, one by one.
LEMMA ClientTypeStep == ClientTypeOK /\ [Next]_vars => ClientTypeOK'
<1> SUFFICES ASSUME ClientTypeOK, [Next]_vars PROVE ClientTypeOK'
    OBVIOUS
<1> USE DEF ClientTypeOK, loopVars, connVars, Fail, ConnectPlaces, InConnect
<1>1. CASE StartConnect \/ LockForConnect \/ Authenticate \/ JoinServer \/ AbandonConnect
    BY <1>1 DEF StartConnect, LockForConnect, Authenticate, JoinServer, AbandonConnect
<1>2. CASE Dial
    BY <1>2 DEF Dial
<1>3. CASE LoginPacket
    BY <1>3 DEF LoginPacket, LoginSuccess, WrongPacket, LoopPlaces
<1>4. ASSUME NEW l \in Loops, TryRecv(l)
      PROVE  ClientTypeOK'
    <2>1. signals' \in [Loops -> 0..MaxSignals]
        BY <1>4, ClientAssumption DEF TryRecv
    <2>2. QED
        BY <1>4, <2>1 DEF TryRecv, LoopGoto, LoopPlaces
<1>5. ASSUME NEW l \in Loops, LoopLocks(l) \/ ReadTimesOut(l) \/ ReadError(l)
      PROVE  ClientTypeOK'
    BY <1>5 DEF LoopLocks, ReadTimesOut, ReadError, NothingRead, LoopGoto, LoopPlaces
<1>6. ASSUME NEW l \in Loops, ReadPacket(l)
      PROVE  ClientTypeOK'
    BY <1>6 DEF ReadPacket, LoopGoto, LoopPlaces
<1>7. ASSUME NEW l \in Loops, SendSignal(l)
      PROVE  ClientTypeOK'
    <2>1. signals' \in [Loops -> 0..MaxSignals]
        BY <1>7, ClientAssumption DEF SendSignal
    <2>2. QED
        BY <1>7, <2>1 DEF SendSignal
<1>8. ASSUME NEW l \in Loops, DropSender(l)
      PROVE  ClientTypeOK'
    BY <1>8 DEF DropSender
<1>9. ASSUME NEW k \in Callers, StartChat(k) \/ SendChat(k)
      PROVE  ClientTypeOK'
    BY <1>9 DEF StartChat, SendChat
<1>10. CASE AddPacketReceiver \/ DropReceiver
    <2>1. receivers' \in 0..MaxReceivers
        BY <1>10, ClientAssumption DEF AddPacketReceiver, DropReceiver
    <2>2. QED
        BY <1>10, <2>1 DEF AddPacketReceiver, DropReceiver
<1>11. CASE PeerCloses
    BY <1>11 DEF PeerCloses
<1>12. CASE UNCHANGED vars
    BY <1>12 DEF vars
<1>13. QED
    BY <1>1, <1>2, <1>3, <1>4, <1>5, <1>6, <1>7, <1>8, <1>9, <1>10, <1>11, <1>12
    DEF Next, Answer, LoopStep

\* The variables of the client keep their types.
THEOREM ClientTypeCorrect == Spec => []ClientTypeOK
BY ClientTypeInit, ClientTypeStep, PTL DEF Spec

-----------------------------------------------------------------------------
(* The mutex and the loop.  A login goes on only while the client is not    *)
(* connected, and a loop exists only once it is: that is why there is one.  *)

LoginMeansNotConnected ==
    connect \in {"login", "join", "encrypted", "compressed"} => ~connected

LoopMeansConnected == \A l \in Loops : loop[l] # "off" => connected

ClientInv ==
    RunnerHeld /\ OneLoop /\ LoginMeansNotConnected /\ LoopMeansConnected

LEMMA ClientInvInit == Init => ClientInv
BY ClientAssumption
DEF Init, ClientInv, RunnerHeld, OneLoop, LoginMeansNotConnected,
    LoopMeansConnected, InConnect

LEMMA ClientInvStep == ClientTypeOK /\ ClientInv /\ [Next]_vars => ClientInv'
<1> SUFFICES ASSUME ClientTypeOK, ClientInv, [Next]_vars PROVE ClientInv'
    OBVIOUS
<1> USE ClientAssumption
    DEF ClientInv, RunnerHeld, OneLoop, LoginMeansNotConnected,
        LoopMeansConnected, InConnect, loopVars, connVars, Fail
<1>a. loop \in [Loops -> LoopPlaces] /\ signals \in [Loops -> 0..MaxSignals]
    BY DEF ClientTypeOK
<1>1. CASE StartConnect \/ LockForConnect \/ Authenticate \/ JoinServer \/ AbandonConnect
    BY <1>1 DEF StartConnect, LockForConnect, Authenticate, JoinServer, AbandonConnect
<1>2. CASE Dial
    BY <1>2 DEF Dial
<1>3. CASE LoginPacket
    <2>1. CASE WrongPacket /\ connect \in {"login", "encrypted", "compressed"}
        BY <1>3, <2>1 DEF LoginPacket, WrongPacket
    <2>2. CASE connect' \in {"compressed", "join"} /\ UNCHANGED <<runner, connected, loop>>
               /\ connect \in {"login", "encrypted"}
        BY <1>3, <2>2 DEF LoginPacket
    <2>3. ASSUME NEW l \in Loops, LoginSuccess(l),
                 connect \in {"login", "encrypted", "compressed"},
                 UNCHANGED <<signals, closed>>
          PROVE  ClientInv'
        BY <1>a, <2>3 DEF LoginSuccess
    <2>4. QED
        BY <1>3, <2>1, <2>2, <2>3 DEF LoginPacket
<1>4. ASSUME NEW l \in Loops, TryRecv(l)
      PROVE  ClientInv'
    BY <1>a, <1>4 DEF TryRecv, LoopGoto
<1>5. ASSUME NEW l \in Loops, LoopLocks(l)
      PROVE  ClientInv'
    BY <1>a, <1>5 DEF LoopLocks, LoopGoto
<1>6. ASSUME NEW l \in Loops, ReadTimesOut(l) \/ ReadError(l)
      PROVE  ClientInv'
    BY <1>a, <1>6 DEF ReadTimesOut, ReadError, NothingRead, LoopGoto
<1>7. ASSUME NEW l \in Loops, ReadPacket(l)
      PROVE  ClientInv'
    BY <1>a, <1>7 DEF ReadPacket, LoopGoto
<1>8. ASSUME NEW l \in Loops, SendSignal(l)
      PROVE  ClientInv'
    BY <1>a, <1>8 DEF SendSignal
<1>9. ASSUME NEW l \in Loops, DropSender(l)
      PROVE  ClientInv'
    BY <1>9, ClientTypeStep DEF DropSender, ClientTypeOK
<1>10. ASSUME NEW k \in Callers, StartChat(k) \/ SendChat(k)
      PROVE  ClientInv'
    BY <1>10 DEF StartChat, SendChat
<1>11. CASE AddPacketReceiver \/ DropReceiver \/ PeerCloses \/ UNCHANGED vars
    BY <1>11 DEF AddPacketReceiver, DropReceiver, PeerCloses, vars
<1>12. QED
    BY <1>1, <1>2, <1>3, <1>4, <1>5, <1>6, <1>7, <1>8, <1>9, <1>10, <1>11
    DEF Next, Answer, LoopStep

\* The inductive invariant of the client: what ClientCorrect follows from.
THEOREM ClientInvariance == Spec => []ClientInv
BY ClientInvInit, ClientInvStep, ClientTypeCorrect, PTL DEF Spec

\* However often connect() is called and abandoned, one loop is spawned, and
\* the mutex is never left behind.
THEOREM ClientCorrect == Spec => [](RunnerHeld /\ OneLoop)
<1>1. ClientInv => RunnerHeld /\ OneLoop
    BY DEF ClientInv
<1>2. QED
    BY <1>1, ClientInvariance, PTL

\* Two calls of connect() that overlap spawn one client loop between them.
THEOREM ClientHasOneLoop == Spec => []OneLoop
BY ClientCorrect, PTL

LEMMA LoopEnds ==
    ASSUME ClientTypeOK, ClientInv, [Next]_vars,
           NEW l \in Loops, loop[l] # "done", loop'[l] = "done"
    PROVE  closed[l] /\ signals[l] = 0
<1> USE DEF ClientTypeOK, loopVars
<1>1. CASE \/ StartConnect \/ LockForConnect \/ Authenticate \/ Dial \/ JoinServer
           \/ AbandonConnect \/ AddPacketReceiver \/ DropReceiver \/ PeerCloses
           \/ UNCHANGED vars
    BY <1>1 DEF StartConnect, LockForConnect, Authenticate, Dial, JoinServer,
        AbandonConnect, AddPacketReceiver, DropReceiver, PeerCloses, vars
<1>2. CASE LoginPacket
    BY <1>2 DEF LoginPacket, LoginSuccess, WrongPacket
<1>3. ASSUME NEW k \in Loops, TryRecv(k)
      PROVE  closed[l] /\ signals[l] = 0
    BY <1>3 DEF TryRecv, LoopGoto
<1>4. ASSUME NEW k \in Loops, LoopLocks(k)
      PROVE  closed[l] /\ signals[l] = 0
    BY <1>4 DEF LoopLocks, LoopGoto, ClientInv, LoopMeansConnected
<1>5. ASSUME NEW k \in Loops,
             \/ ReadTimesOut(k) \/ ReadError(k) \/ ReadPacket(k)
             \/ SendSignal(k) \/ DropSender(k)
      PROVE  closed[l] /\ signals[l] = 0
    BY <1>5 DEF ReadTimesOut, ReadError, NothingRead, ReadPacket, LoopGoto,
        SendSignal, DropSender
<1>6. ASSUME NEW k \in Callers, StartChat(k) \/ SendChat(k)
      PROVE  closed[l] /\ signals[l] = 0
    BY <1>6 DEF StartChat, SendChat
<1>7. QED
    BY <1>1, <1>2, <1>3, <1>4, <1>5, <1>6 DEF Next, Answer, LoopStep

\* A client loop does not give up a connection that lives.  As the code is, a
\* loop ends by its channel alone, since it always finds the client connected.
THEOREM ClientLoopEnds == Spec => LoopEndsForCause
<1>1. ClientTypeOK /\ ClientInv /\ [Next]_vars =>
        [\A l \in Loops : loop[l] # "done" /\ loop'[l] = "done" =>
            (closed[l] /\ signals[l] = 0) \/ peerGone]_vars
    BY LoopEnds
<1>2. QED
    BY <1>1, ClientTypeCorrect, ClientInvariance, PTL DEF Spec, LoopEndsForCause
=============================================================================
