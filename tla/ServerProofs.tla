---------------------------- MODULE ServerProofs ----------------------------
(***************************************************************************)
(* Theorems about the listener, for any number of calls of start() and of  *)
(* unread shutdown signals, and about module Server, for any number of     *)
(* clients, names, players and chat messages.                              *)
(***************************************************************************)
EXTENDS Server, TLAPS

-----------------------------------------------------------------------------
(* Type correctness, of the listener alone and of what it does in Server.  *)

LEMMA ListenerTypeInit == ListenerInit => ListenerTypeOK
<1> SUFFICES ASSUME ListenerInit PROVE ListenerTypeOK
    OBVIOUS
<1>1. listen \in [Loops -> ListenPlaces] /\ signals \in 0..MaxSignals
    BY ListenerAssumption DEF ListenerInit, ListenPlaces
<1>2. running \in BOOLEAN /\ closed \in BOOLEAN /\ dropped \in BOOLEAN
    BY DEF ListenerInit
<1>3. QED
    BY <1>1, <1>2 DEF ListenerTypeOK

LEMMA ListenerTypeStep ==
    ASSUME ListenerTypeOK,
           ListenerApi \/ \E l \in Loops : ListenerStep(l) \/ AcceptReturns(l)
    PROVE  ListenerTypeOK' /\ UNCHANGED runner
<1>1. MaxSignals \in Nat
    BY ListenerAssumption
<1>2. ASSUME NEW l \in Loops, ListenerStep(l) \/ AcceptReturns(l) \/ Start(l)
      PROVE  ListenerTypeOK' /\ UNCHANGED runner
    <2>1. listen' \in [Loops -> ListenPlaces]
        BY <1>2 DEF ListenerTypeOK, ListenPlaces, ListenerStep, Start, Bind,
                    SetRunning, Poll, AfterPoll, AcceptReturns, ClearRunning
    <2>2. signals' \in 0..MaxSignals
        BY <1>1, <1>2 DEF ListenerTypeOK, ListenerStep, Start, Bind, SetRunning,
                          Poll, AcceptReturns, ClearRunning, shutdownVars
    <2>3. /\ running' \in BOOLEAN /\ closed' \in BOOLEAN /\ dropped' \in BOOLEAN
          /\ UNCHANGED runner
        BY <1>2 DEF ListenerTypeOK, ListenerStep, Start, Bind, SetRunning, Poll,
                    AcceptReturns, ClearRunning, shutdownVars
    <2>4. QED
        BY <2>1, <2>2, <2>3 DEF ListenerTypeOK
<1>3. ASSUME Stop \/ DropSender \/ SendSignal
      PROVE  ListenerTypeOK' /\ UNCHANGED runner
    <2>1. signals' \in 0..MaxSignals /\ UNCHANGED <<listen, runner>>
        BY <1>1, <1>3 DEF ListenerTypeOK, Stop, DropSender, SendSignal
    <2>2. running' \in BOOLEAN /\ closed' \in BOOLEAN /\ dropped' \in BOOLEAN
        BY <1>3 DEF ListenerTypeOK, Stop, DropSender, SendSignal
    <2>3. QED
        BY <2>1, <2>2 DEF ListenerTypeOK
<1>4. QED
    BY <1>2, <1>3 DEF ListenerApi

\* The variables of the listener keep their types, over every restart.
THEOREM ListenerTypeCorrect == ListenerSpec => []ListenerTypeOK
<1>1. ListenerTypeOK /\ [ListenerNext]_allListenerVars => ListenerTypeOK'
    <2> SUFFICES ASSUME ListenerTypeOK, [ListenerNext]_allListenerVars
                 PROVE  ListenerTypeOK'
        OBVIOUS
    <2>1. CASE ListenerApi \/ \E l \in Loops : ListenerStep(l) \/ AcceptReturns(l)
        BY <2>1, ListenerTypeStep
    <2>2. CASE OtherTakes \/ OtherDrops \/ UNCHANGED allListenerVars
        BY <2>2 DEF OtherTakes, OtherDrops, listenerVars, shutdownVars,
                    allListenerVars, ListenerTypeOK
    <2>3. QED
        BY <2>1, <2>2 DEF ListenerNext
<1>2. QED
    BY <1>1, ListenerTypeInit, PTL DEF ListenerSpec, FreeRunnerInit

-----------------------------------------------------------------------------
(* The running flag and the end of the server.                             *)

\* Only one loop has the address; and a loop stops polling only when the last
\* Sender is gone and the channel drained, which no later call can undo.
OneListens == \A k, l \in Loops : Listening(k) /\ Listening(l) => k = l

EndedForGood ==
    (\E l \in Loops : listen[l] \in {"clear_running", "done"}) => dropped /\ signals = 0

ListenerInv ==
    ListenerTypeOK /\ OneListens /\ EndedForGood /\ RunningMatchesLoop /\ ShutdownIsFinal

LEMMA ListenerInvInit == ListenerInit => ListenerInv
<1> SUFFICES ASSUME ListenerInit PROVE ListenerInv
    OBVIOUS
<1>1. \A l \in Loops : listen[l] = "idle"
    BY DEF ListenerInit
<1>2. QED
    BY <1>1, ListenerTypeInit
    DEF ListenerInit, ListenerInv, OneListens, EndedForGood, RunningMatchesLoop,
        ShutdownIsFinal, Listening

\* Every step preserves the four parts together: one loop at most listens, so
\* the flag it sets and clears is nobody else's.
LEMMA ListenerInvStep ==
    ASSUME ListenerInv, [ListenerNext]_allListenerVars, ListenerTypeOK'
    PROVE  ListenerInv'
<1> USE DEF ListenerInv, ListenerTypeOK, shutdownVars
<1>1. ASSUME NEW l \in Loops, Start(l)
      PROVE  ListenerInv'
    BY <1>1 DEF Start, OneListens, EndedForGood, RunningMatchesLoop,
                ShutdownIsFinal, Listening
<1>2. ASSUME NEW l \in Loops, Bind(l)
      PROVE  ListenerInv'
    BY <1>2 DEF Bind, OneListens, EndedForGood, RunningMatchesLoop,
                ShutdownIsFinal, Listening
<1>3. ASSUME NEW l \in Loops, SetRunning(l)
      PROVE  ListenerInv'
    BY <1>3 DEF SetRunning, OneListens, EndedForGood, RunningMatchesLoop,
                ShutdownIsFinal, Listening
<1>4. ASSUME NEW l \in Loops, Poll(l)
      PROVE  ListenerInv'
    BY <1>4 DEF Poll, AfterPoll, OneListens, EndedForGood, RunningMatchesLoop,
                ShutdownIsFinal, Listening
<1>5. ASSUME NEW l \in Loops, AcceptReturns(l)
      PROVE  ListenerInv'
    BY <1>5 DEF AcceptReturns, OneListens, EndedForGood, RunningMatchesLoop,
                ShutdownIsFinal, Listening
<1>6. ASSUME NEW l \in Loops, ClearRunning(l)
      PROVE  ListenerInv'
    BY <1>6 DEF ClearRunning, OneListens, EndedForGood, RunningMatchesLoop,
                ShutdownIsFinal, Listening
<1>7. CASE Stop \/ DropSender \/ SendSignal
    BY <1>7 DEF Stop, DropSender, SendSignal, OneListens, EndedForGood,
                RunningMatchesLoop, ShutdownIsFinal, Listening
<1>8. CASE OtherTakes \/ OtherDrops \/ UNCHANGED allListenerVars
    BY <1>8 DEF OtherTakes, OtherDrops, listenerVars, allListenerVars, OneListens,
                EndedForGood, RunningMatchesLoop, ShutdownIsFinal, Listening
<1>9. QED
    BY <1>1, <1>2, <1>3, <1>4, <1>5, <1>6, <1>7, <1>8
    DEF ListenerNext, ListenerApi, ListenerStep

\* The running flag is set exactly while a loop polls, accepts or ends, so
\* that stop() closes the channel of a server that serves, and a server that
\* ended does not accept again, whatever start() answers.
THEOREM ListenerCorrect == ListenerSpec => [](RunningMatchesLoop /\ ShutdownIsFinal)
<1>1. ListenerInv /\ ListenerTypeOK' /\ [ListenerNext]_allListenerVars => ListenerInv'
    BY ListenerInvStep
<1>2. ListenerInv => RunningMatchesLoop /\ ShutdownIsFinal
    BY DEF ListenerInv
<1>3. QED
    BY <1>1, <1>2, ListenerInvInit, ListenerTypeCorrect, PTL DEF ListenerSpec, FreeRunnerInit

\* After the shutdown the server accepts no connection, whatever its loops,
\* stop() and start() do in whatever order.
THEOREM ShutdownStaysFinal == ListenerSpec => []ShutdownIsFinal
BY ListenerCorrect, PTL

-----------------------------------------------------------------------------
(* The tasks and their places.                                             *)

\* The two tasks of a client are different, and no two clients share one.
LEMMA TaskFacts ==
    /\ \A c \in Conns : Handler(c) \in Tasks /\ PacketLoop(c) \in Tasks
    /\ \A c, d \in Conns :
        /\ Handler(c) # PacketLoop(d)
        /\ Handler(c) = Handler(d) <=> c = d
        /\ PacketLoop(c) = PacketLoop(d) <=> c = d
    /\ \A t \in Tasks : \E c \in Conns : t = Handler(c) \/ t = PacketLoop(c)
    /\ NoOne \notin Tasks
<1>1. ASSUME NEW t \in Tasks
      PROVE  \E c \in Conns : t = Handler(c) \/ t = PacketLoop(c)
    BY <1>1 DEF Tasks, Handler, PacketLoop
<1>2. QED
    BY <1>1, ServerAssumption DEF Tasks, Handler, PacketLoop

-----------------------------------------------------------------------------
(* Type correctness.                                                       *)

LEMMA TypeInit == Init => TypeOK
<1> SUFFICES ASSUME Init PROVE TypeOK
    OBVIOUS
<1>1. ListenerTypeOK
    BY ListenerTypeInit DEF Init
<1>2. outbox \in [Conns -> Seq(Packets)]
    BY DEF Init
<1>3. /\ handler \in [Conns -> HandlerPlaces]
      /\ loop \in [Conns -> LoopPlaces]
    BY DEF Init, HandlerPlaces, LoopPlaces
<1>4. receivers \in 0..MaxReceivers /\ said \in 0..MaxChats
    BY ServerAssumption DEF Init
<1>5. QED
    BY <1>1, <1>2, <1>3, <1>4 DEF Init, TypeOK

LEMMA WriteType ==
    ASSUME TypeOK, NEW c \in Conns, NEW ps \in Seq(Packets), Write(c, ps)
    PROVE  outbox' \in [Conns -> Seq(Packets)]
<1>1. outbox[c] \o ps \in Seq(Packets)
    BY DEF TypeOK
<1>2. QED
    BY <1>1 DEF TypeOK, Write

LEMMA PacketTypes ==
    /\ \A k \in {"LoginDisconnect", "EncryptionRequest", "SetCompression",
                 "LoginSuccess", "PlayDisconnect", "JoinGame", "StatusPong"} :
        <<Plain(k)>> \in Seq(Packets)
    /\ <<Plain("SetCompression"), Plain("LoginSuccess")>> \in Seq(Packets)
    /\ \A n \in Nat : <<Chat(n)>> \in Seq(Packets)
    /\ \A ps \in SUBSET Conns : <<Status(ps)>> \in Seq(Packets)
BY DEF Plain, Chat, Status, Packets

LEMMA ListenerKeepsType ==
    ASSUME TypeOK, (\E l \in Loops : Listen(l)) \/ ListenOther
    PROVE  TypeOK'
<1>1. ListenerTypeOK' /\ UNCHANGED runner
    BY ListenerTypeStep DEF TypeOK, Listen, ListenOther
<1>2. QED
    BY <1>1 DEF TypeOK, Listen, ListenOther, roomLocks, handlerVars, ids,
                loopVars, castVars, envVars

\* What a connection's task may change, and what a packet loop may change.
HandlerTypes ==
    /\ runner \in Tasks \cup {NoOne}
    /\ handler \in [Conns -> HandlerPlaces]
    /\ name \in [Conns -> Names \cup {NoOne}]
    /\ entity \in [Conns -> EntityIds \cup {NoOne}]
    /\ usedIds \subseteq EntityIds
    /\ players \subseteq Conns
    /\ outbox \in [Conns -> Seq(Packets)]

LEMMA HandlerFrame ==
    ASSUME TypeOK, HandlerOnly, HandlerTypes'
    PROVE  TypeOK'
<1>1. ListenerTypeOK'
    BY DEF TypeOK, ListenerTypeOK, HandlerOnly, listenerVars, shutdownVars
<1>2. QED
    BY <1>1 DEF TypeOK, HandlerTypes, HandlerOnly, roomLocks, loopVars, castVars,
                envVars

LEMMA HandlerKeepsType ==
    ASSUME TypeOK, NEW c \in Conns, HandlerStep(c) \/ HandlerInput(c)
    PROVE  TypeOK'
<1> USE DEF Goto, Leaves
<1>1. /\ runner \in Tasks \cup {NoOne} /\ handler \in [Conns -> HandlerPlaces]
      /\ name \in [Conns -> Names \cup {NoOne}]
      /\ entity \in [Conns -> EntityIds \cup {NoOne}] /\ usedIds \subseteq EntityIds
      /\ players \subseteq Conns /\ outbox \in [Conns -> Seq(Packets)]
    BY DEF TypeOK
<1>2. {"none", "handshake", "login", "status", "entity", "duplicate", "join",
       "insert", "done", "count", "login_start", "encryption", "verify",
       "status_request", "status_sample", "status_ping"} = HandlerPlaces
    BY DEF HandlerPlaces, HandlerInRunner
<1>3. Handler(c) \in Tasks
    BY TaskFacts
<1>4. ASSUME NEW ps \in Seq(Packets), Write(c, ps)
      PROVE  outbox' \in [Conns -> Seq(Packets)]
    BY <1>4, WriteType
<1>5. CASE ReadFails(c)
    <2>1. HandlerTypes'
        BY <1>1, <1>2, <1>5 DEF ReadFails, HandlerTypes, ids
    <2>2. QED
        BY <1>5, <2>1, HandlerFrame DEF ReadFails
<1>6. CASE Handshake(c)
    <2>1. HandlerTypes'
        BY <1>1, <1>2, <1>6 DEF Handshake, HandlerTypes, ids
    <2>2. QED
        BY <1>6, <2>1, HandlerFrame DEF Handshake
<1>7. CASE TakeRunner(c)
    <2>1. HandlerTypes'
        BY <1>1, <1>2, <1>3, <1>7 DEF TakeRunner, HandlerTypes, ids
    <2>2. QED
        BY <1>7, <2>1, HandlerFrame DEF TakeRunner
<1>8. CASE CountPlayers(c)
    <2>1. outbox' \in [Conns -> Seq(Packets)]
        BY <1>1, <1>4, <1>8, PacketTypes DEF CountPlayers
    <2>2. HandlerTypes'
        BY <1>1, <1>2, <1>8, <2>1 DEF CountPlayers, HandlerTypes, ids
    <2>3. QED
        BY <1>8, <2>2, HandlerFrame DEF CountPlayers
<1>9. ASSUME NEW n \in Names, LoginStart(c, n)
      PROVE  TypeOK'
    <2>1. outbox' \in [Conns -> Seq(Packets)]
        BY <1>4, <1>9, PacketTypes DEF LoginStart, LoggedIn
    <2>2. HandlerTypes'
        BY <1>1, <1>2, <1>9, <2>1 DEF LoginStart, LoggedIn, HandlerTypes, ids
    <2>3. QED
        BY <1>9, <2>2, HandlerFrame DEF LoginStart
<1>10. CASE EncryptionResponse(c)
    <2>1. HandlerTypes'
        BY <1>1, <1>2, <1>10 DEF EncryptionResponse, HandlerTypes, ids
    <2>2. QED
        BY <1>10, <2>1, HandlerFrame DEF EncryptionResponse
<1>11. CASE VerifyJoin(c)
    <2>1. outbox' \in [Conns -> Seq(Packets)]
        BY <1>1, <1>4, <1>11, PacketTypes DEF VerifyJoin, LoggedIn
    <2>2. HandlerTypes'
        BY <1>1, <1>2, <1>11, <2>1 DEF VerifyJoin, LoggedIn, HandlerTypes, ids
    <2>3. QED
        BY <1>11, <2>2, HandlerFrame DEF VerifyJoin
<1>12. CASE TakeEntityId(c)
    <2>1. HandlerTypes'
        BY <1>1, <1>2, <1>12 DEF TakeEntityId, HandlerTypes
    <2>2. QED
        BY <1>12, <2>1, HandlerFrame DEF TakeEntityId
<1>13. CASE CheckDuplicate(c)
    <2>1. outbox' \in [Conns -> Seq(Packets)]
        BY <1>1, <1>4, <1>13, PacketTypes DEF CheckDuplicate
    <2>2. HandlerTypes'
        BY <1>1, <1>2, <1>13, <2>1 DEF CheckDuplicate, HandlerTypes, ids
    <2>3. QED
        BY <1>13, <2>2, HandlerFrame DEF CheckDuplicate
<1>14. CASE Join(c)
    <2>1. outbox' \in [Conns -> Seq(Packets)]
        BY <1>1, <1>4, <1>14, PacketTypes DEF Join
    <2>2. loop' \in [Conns -> LoopPlaces]
        BY <1>14 DEF Join, LoopGoto, LoopPlaces, TypeOK
    <2>3. HandlerTypes'
        BY <1>1, <1>2, <1>14, <2>1 DEF Join, HandlerTypes, ids
    <2>4. ListenerTypeOK'
        BY <1>14 DEF Join, TypeOK, ListenerTypeOK, listenerVars, shutdownVars
    <2>5. QED
        BY <1>14, <2>2, <2>3, <2>4 DEF Join, TypeOK, HandlerTypes, roomLocks, castVars,
                                 envVars
<1>15. CASE Insert(c)
    <2>1. HandlerTypes'
        BY <1>1, <1>2, <1>15 DEF Insert, HandlerTypes, ids
    <2>2. QED
        BY <1>15, <2>1, HandlerFrame DEF Insert
<1>16. CASE StatusRequest(c)
    <2>1. HandlerTypes'
        BY <1>1, <1>2, <1>16 DEF StatusRequest, HandlerTypes, ids
    <2>2. QED
        BY <1>16, <2>1, HandlerFrame DEF StatusRequest
<1>17. CASE SendStatus(c)
    <2>1. outbox' \in [Conns -> Seq(Packets)]
        BY <1>1, <1>4, <1>17, PacketTypes DEF SendStatus
    <2>2. HandlerTypes'
        BY <1>1, <1>2, <1>17, <2>1 DEF SendStatus, HandlerTypes, ids
    <2>3. QED
        BY <1>17, <2>2, HandlerFrame DEF SendStatus
<1>18. CASE StatusPing(c)
    <2>1. outbox' \in [Conns -> Seq(Packets)]
        BY <1>4, <1>18, PacketTypes DEF StatusPing
    <2>2. HandlerTypes'
        BY <1>1, <1>2, <1>18, <2>1 DEF StatusPing, HandlerTypes, ids
    <2>3. QED
        BY <1>18, <2>2, HandlerFrame DEF StatusPing
<1>19. QED
    BY <1>5, <1>6, <1>7, <1>8, <1>9, <1>10, <1>11, <1>12, <1>13, <1>14, <1>15,
       <1>16, <1>17, <1>18 DEF HandlerStep, HandlerInput

\* A step of a packet loop.
LoopTypes ==
    /\ runner \in Tasks \cup {NoOne} /\ playersLock \in Tasks \cup {NoOne}
    /\ clientLock \in [Conns -> Tasks \cup {NoOne}]
    /\ loop \in [Conns -> LoopPlaces]
    /\ packet \in [Conns -> {"none", "Chat", "Other"}]
    /\ number \in [Conns -> Nat] /\ chatCount \in Nat
    /\ todo \in [Conns -> SUBSET Conns]
    /\ target \in [Conns -> Conns \cup {NoOne}]
    /\ outbox \in [Conns -> Seq(Packets)] /\ said \in 0..MaxChats

LEMMA LoopFrame ==
    ASSUME TypeOK, LoopOnly, LoopTypes'
    PROVE  TypeOK'
<1>1. ListenerTypeOK'
    BY DEF TypeOK, ListenerTypeOK, LoopOnly, listenerVars, shutdownVars
<1>2. QED
    BY <1>1 DEF TypeOK, LoopTypes, LoopOnly, handlerVars, ids, envVars

LEMMA NextTargetType ==
    ASSUME TypeOK, NEW c \in Conns, NEW rest \in SUBSET Conns, NextTarget(c, rest)
    PROVE  /\ todo' \in [Conns -> SUBSET Conns]
           /\ target' \in [Conns -> Conns \cup {NoOne}]
BY DEF NextTarget, TypeOK

LEMMA LoopKeepsType ==
    ASSUME TypeOK, NEW c \in Conns, LoopStep(c) \/ LoopInput(c)
    PROVE  TypeOK'
<1> USE DEF LoopGoto
<1>1. LoopTypes /\ players \subseteq Conns
    BY DEF TypeOK, LoopTypes
<1>2. {"off", "idle", "reading", "want_runner", "panicked", "want_self",
       "want_players", "broadcast"} = LoopPlaces
    BY DEF LoopPlaces, LoopInRunner
<1>3. PacketLoop(c) \in Tasks
    BY TaskFacts
<1>4. CASE LockSelf(c)
    <2>1. LoopTypes'
        BY <1>1, <1>2, <1>3, <1>4 DEF LockSelf, LoopTypes, castVars
    <2>2. QED
        BY <1>4, <2>1, LoopFrame DEF LockSelf
<1>5. CASE ReadPacket(c)
    <2>1. said' \in 0..MaxChats
        BY <1>1, <1>5, ServerAssumption DEF ReadPacket, LoopTypes
    <2>2. LoopTypes'
        BY <1>1, <1>2, <1>5, <2>1 DEF ReadPacket, LoopTypes, castVars
    <2>3. QED
        BY <1>5, <2>2, LoopFrame DEF ReadPacket
<1>6. CASE ReadNothing(c)
    <2>1. LoopTypes'
        BY <1>1, <1>2, <1>6 DEF ReadNothing, LoopTypes, castVars
    <2>2. QED
        BY <1>6, <2>1, LoopFrame DEF ReadNothing
<1>7. CASE LoopTakesRunner(c)
    <2>1. LoopTypes'
        BY <1>1, <1>2, <1>3, <1>7 DEF LoopTakesRunner, LoopTypes, castVars, roomLocks
    <2>2. QED
        BY <1>7, <2>1, LoopFrame DEF LoopTakesRunner
<1>8. CASE LockSender(c)
    <2>1. CASE packet[c] = "Chat"
        <3>1. LoopTypes'
            BY <1>1, <1>2, <1>8, <2>1 DEF LockSender, LoopTypes, castVars, roomLocks
        <3>2. QED
            BY <1>8, <3>1, LoopFrame DEF LockSender
    <2>2. CASE packet[c] = "Other"
        <3>1. Publish(c) /\ LoopOnly /\ UNCHANGED <<castVars, roomLocks, said, outbox>>
            BY <1>8, <2>2 DEF LockSender
        <3>2. LoopTypes'
            BY <1>1, <1>2, <3>1 DEF Publish, LoopTypes, castVars, roomLocks
        <3>3. QED
            BY <3>1, <3>2, LoopFrame
    <2>3. QED
        BY <1>8, <2>1, <2>2 DEF LockSender
<1>9. CASE StartBroadcast(c)
    <2>1. chatCount' \in Nat /\ number' \in [Conns -> Nat]
        BY <1>1, <1>9 DEF StartBroadcast, LoopTypes
    <2>2. LoopTypes'
        BY <1>1, <1>2, <1>3, <1>9, <2>1, NextTargetType DEF StartBroadcast, LoopTypes
    <2>3. QED
        BY <1>9, <2>2, LoopFrame DEF StartBroadcast
<1>10. CASE SendChat(c)
    <2>1. target[c] \in Conns /\ <<Chat(number[c])>> \in Seq(Packets)
        BY <1>1, <1>10, PacketTypes DEF SendChat, LoopTypes
    <2>2. outbox' \in [Conns -> Seq(Packets)]
        BY <1>10, <2>1, WriteType DEF SendChat
    <2>3. todo[c] \ {target[c]} \in SUBSET Conns
        BY <1>1 DEF LoopTypes
    <2>4. LoopTypes'
        BY <1>1, <1>10, <2>2, <2>3, NextTargetType DEF SendChat, LoopTypes, roomLocks
    <2>5. QED
        BY <1>10, <2>4, LoopFrame DEF SendChat
<1>11. CASE EndBroadcast(c)
    <2>1. LoopTypes'
        BY <1>1, <1>2, <1>11 DEF EndBroadcast, Publish, LoopTypes, castVars
    <2>2. QED
        BY <1>11, <2>1, LoopFrame DEF EndBroadcast
<1>12. QED
    BY <1>4, <1>5, <1>6, <1>7, <1>8, <1>9, <1>10, <1>11 DEF LoopStep, LoopInput

LEMMA EnvironmentKeepsType ==
    ASSUME TypeOK,
           \/ \E c \in Conns : Leave(c) \/ \E l \in Loops : Accept(l, c)
           \/ AddPacketReceiver \/ DropReceiver
    PROVE  TypeOK'
<1>1. ASSUME NEW c \in Conns, NEW l \in Loops, Accept(l, c)
      PROVE  TypeOK'
    <2>1. ListenerTypeOK' /\ UNCHANGED runner
        BY <1>1, ListenerTypeStep DEF Accept, TypeOK
    <2>2. handler' \in [Conns -> HandlerPlaces]
        BY <1>1 DEF Accept, Goto, TypeOK, HandlerPlaces
    <2>3. QED
        BY <1>1, <2>1, <2>2 DEF Accept, TypeOK, roomLocks, ids, loopVars, castVars,
                                envVars
<1>2. ASSUME EnvOnly, gone' \in [Conns -> BOOLEAN], receivers' \in 0..MaxReceivers
      PROVE  TypeOK'
    <2>1. ListenerTypeOK'
        BY <1>2 DEF EnvOnly, listenerVars, shutdownVars, TypeOK, ListenerTypeOK
    <2>2. QED
        BY <1>2, <2>1 DEF EnvOnly, TypeOK, roomLocks, handlerVars, ids, loopVars,
                          castVars
<1>3. ASSUME NEW c \in Conns, Leave(c)
      PROVE  TypeOK'
    <2>1. gone' \in [Conns -> BOOLEAN] /\ receivers' \in 0..MaxReceivers
        BY <1>3 DEF Leave, TypeOK
    <2>2. QED
        BY <1>2, <1>3, <2>1 DEF Leave
<1>4. CASE AddPacketReceiver \/ DropReceiver
    <2>1. receivers' \in 0..MaxReceivers
        BY <1>4, ServerAssumption DEF AddPacketReceiver, DropReceiver, TypeOK
    <2>2. gone' \in [Conns -> BOOLEAN] /\ EnvOnly
        BY <1>4 DEF AddPacketReceiver, DropReceiver, TypeOK
    <2>3. QED
        BY <1>2, <2>1, <2>2
<1>5. QED
    BY <1>1, <1>3, <1>4

LEMMA TypeStep == TypeOK /\ [Next]_vars => TypeOK'
<1> SUFFICES ASSUME TypeOK, [Next]_vars PROVE TypeOK'
    OBVIOUS
<1>1. CASE UNCHANGED vars
    <2>1. ListenerTypeOK'
        BY <1>1 DEF vars, listenerVars, shutdownVars, TypeOK, ListenerTypeOK
    <2>2. QED
        BY <1>1, <2>1 DEF vars, TypeOK, roomLocks, handlerVars, ids, loopVars,
                          castVars, envVars
<1>2. CASE Next
    BY <1>2, ListenerKeepsType, HandlerKeepsType, LoopKeepsType,
       EnvironmentKeepsType DEF Next
<1>3. QED
    BY <1>1, <1>2

\* Every variable keeps its type: in particular an entity id given is one of
\* the ids there are, and the players are clients that exist.
THEOREM TypeCorrect == Spec => []TypeOK
BY TypeInit, TypeStep, PTL DEF Spec

-----------------------------------------------------------------------------
(* The mutexes.  Who holds one stands at a place where the code has its     *)
(* guard, and conversely; a packet loop exists only once its client joined. *)

RunnerHeld ==
    \A c \in Conns :
        /\ handler[c] \in HandlerInRunner <=> runner = Handler(c)
        /\ loop[c] \in LoopInRunner <=> runner = PacketLoop(c)

PlayersHeld ==
    \A c \in Conns :
        /\ playersLock # Handler(c)
        /\ loop[c] = "broadcast" <=> playersLock = PacketLoop(c)

ClientHeld ==
    \A c \in Conns :
        clientLock[c] = IF loop[c] = "reading" THEN PacketLoop(c) ELSE NoOne

LoopAfterJoin ==
    \A c \in Conns : handler[c] \notin {"insert", "done"} => loop[c] = "off"

LockInv == RunnerHeld /\ PlayersHeld /\ ClientHeld /\ LoopAfterJoin

LEMMA LockInit == Init => LockInv
BY TaskFacts
DEF Init, LockInv, RunnerHeld, PlayersHeld, ClientHeld, LoopAfterJoin,
    HandlerInRunner, LoopInRunner

\* A task that goes to a place `p` and leaves the runner to whom it belongs.
LEMMA HandlerLocks ==
    ASSUME TypeOK, LockInv, NEW c \in Conns, NEW p,
           Goto(c, p), UNCHANGED <<loop, playersLock, clientLock>>,
           handler[c] # "done", handler[c] # "insert" \/ p = "done",
           \/ /\ runner' = runner
              /\ handler[c] \in HandlerInRunner <=> p \in HandlerInRunner
           \/ /\ handler[c] \in HandlerInRunner \/ runner = NoOne
              /\ runner' = IF p \in HandlerInRunner THEN Handler(c) ELSE NoOne
    PROVE  LockInv'
<1>1. \A d \in Conns : handler'[d] = IF d = c THEN p ELSE handler[d]
    BY DEF Goto, TypeOK
<1>2. RunnerHeld'
    BY <1>1, TaskFacts DEF LockInv, RunnerHeld
<1>3. PlayersHeld' /\ ClientHeld'
    BY DEF LockInv, PlayersHeld, ClientHeld
<1>4. LoopAfterJoin'
    BY <1>1 DEF LockInv, LoopAfterJoin
<1>5. QED
    BY <1>2, <1>3, <1>4 DEF LockInv

LEMMA HandlerKeepsLocks ==
    ASSUME TypeOK, LockInv, NEW c \in Conns, HandlerStep(c) \/ HandlerInput(c)
    PROVE  LockInv'
<1> USE DEF HandlerInRunner
<1>1. HandlerOnly => UNCHANGED <<loop, playersLock, clientLock>>
    BY DEF HandlerOnly, roomLocks, loopVars
<1>2. (runner = Handler(c) <=> handler[c] \in HandlerInRunner) /\ Handler(c) # NoOne
    BY TaskFacts DEF LockInv, RunnerHeld
<1>3. ASSUME Leaves(c), HandlerOnly, handler[c] \in HandlerInRunner \cup {"handshake"}
      PROVE  LockInv'
    BY <1>1, <1>2, <1>3, HandlerLocks DEF Leaves
<1>4. CASE ReadFails(c)
    BY <1>3, <1>4 DEF ReadFails, AwaitsPacket
<1>5. CASE Handshake(c)
    <2>1. PICK p \in {"login", "status"} : Goto(c, p)
        BY <1>5 DEF Handshake
    <2>2. QED
        BY <1>1, <1>5, <2>1, HandlerLocks DEF Handshake
<1>6. CASE TakeRunner(c)
    <2>1. CASE handler[c] = "login"
        BY <1>1, <1>6, <2>1, HandlerLocks DEF TakeRunner
    <2>2. CASE handler[c] = "status"
        BY <1>1, <1>6, <2>2, HandlerLocks DEF TakeRunner
    <2>3. QED
        BY <1>6, <2>1, <2>2 DEF TakeRunner
<1>7. CASE CountPlayers(c)
    <2>1. CASE Cardinality(players) >= MaxPlayers
        BY <1>3, <1>7, <2>1 DEF CountPlayers
    <2>2. CASE ~(Cardinality(players) >= MaxPlayers)
        BY <1>1, <1>7, <2>2, HandlerLocks DEF CountPlayers
    <2>3. QED
        BY <2>1, <2>2
<1>8. ASSUME LoggedIn(c), HandlerOnly, handler[c] \in HandlerInRunner
      PROVE  LockInv'
    BY <1>1, <1>8, HandlerLocks DEF LoggedIn
<1>9. ASSUME NEW n \in Names, LoginStart(c, n)
      PROVE  LockInv'
    <2>1. CASE Online /\ Goto(c, "encryption") /\ UNCHANGED runner
        BY <1>1, <1>9, <2>1, HandlerLocks DEF LoginStart
    <2>2. CASE LoggedIn(c)
        BY <1>8, <1>9, <2>2 DEF LoginStart
    <2>3. QED
        BY <1>9, <2>1, <2>2 DEF LoginStart
<1>10. CASE EncryptionResponse(c)
    BY <1>1, <1>10, HandlerLocks DEF EncryptionResponse
<1>11. CASE VerifyJoin(c)
    BY <1>3, <1>8, <1>11 DEF VerifyJoin
<1>12. CASE TakeEntityId(c)
    BY <1>1, <1>12, HandlerLocks DEF TakeEntityId
<1>13. CASE CheckDuplicate(c)
    <2>1. PICK p \in {"done", "join"} : Goto(c, p)
        BY <1>13 DEF CheckDuplicate
    <2>2. QED
        BY <1>1, <1>13, <2>1, HandlerLocks DEF CheckDuplicate
<1>14. CASE Join(c)
    <2>1. CASE Goto(c, "done") /\ UNCHANGED loop
        BY <1>14, <2>1, HandlerLocks DEF Join, roomLocks
    <2>2. CASE Goto(c, "insert") /\ LoopGoto(c, "idle")
        <3>1. /\ \A d \in Conns : handler'[d] = IF d = c THEN "insert" ELSE handler[d]
              /\ \A d \in Conns : loop'[d] = IF d = c THEN "idle" ELSE loop[d]
              /\ handler[c] = "join" /\ loop[c] = "off"
              /\ UNCHANGED <<runner, playersLock, clientLock>>
            BY <1>14, <2>2 DEF Join, Goto, LoopGoto, TypeOK, roomLocks, LockInv,
                               LoopAfterJoin
        <3>2. RunnerHeld'
            BY <3>1 DEF LockInv, RunnerHeld, LoopInRunner
        <3>3. PlayersHeld' /\ ClientHeld' /\ LoopAfterJoin'
            BY <3>1 DEF LockInv, PlayersHeld, ClientHeld, LoopAfterJoin
        <3>4. QED
            BY <3>2, <3>3 DEF LockInv
    <2>3. QED
        BY <1>14, <2>1, <2>2 DEF Join
<1>15. CASE Insert(c)
    BY <1>1, <1>15, HandlerLocks DEF Insert
<1>16. CASE StatusRequest(c)
    BY <1>1, <1>16, HandlerLocks DEF StatusRequest
<1>17. CASE SendStatus(c)
    <2>1. CASE Goto(c, "status_ping") /\ UNCHANGED runner
        BY <1>1, <1>17, <2>1, HandlerLocks DEF SendStatus
    <2>2. CASE Leaves(c)
        BY <1>3, <1>17, <2>2 DEF SendStatus
    <2>3. QED
        BY <1>17, <2>1, <2>2 DEF SendStatus
<1>18. CASE StatusPing(c)
    BY <1>3, <1>18 DEF StatusPing
<1>19. QED
    BY <1>4, <1>5, <1>6, <1>7, <1>9, <1>10, <1>11, <1>12, <1>13, <1>14, <1>15,
       <1>16, <1>17, <1>18 DEF HandlerStep, HandlerInput

\* A packet loop that goes to a place `p` and takes or gives back as it goes.
LEMMA LoopLocks ==
    ASSUME TypeOK, LockInv, NEW c \in Conns, NEW p, p # "off",
           LoopGoto(c, p), UNCHANGED handler, loop[c] # "off",
           \/ /\ runner' = runner
              /\ loop[c] \in LoopInRunner <=> p \in LoopInRunner
           \/ /\ loop[c] \in LoopInRunner \/ runner = NoOne
              /\ runner' = IF p \in LoopInRunner THEN PacketLoop(c) ELSE NoOne,
           \/ /\ playersLock' = playersLock
              /\ loop[c] = "broadcast" <=> p = "broadcast"
           \/ /\ loop[c] = "broadcast" \/ playersLock = NoOne
              /\ playersLock' = IF p = "broadcast" THEN PacketLoop(c) ELSE NoOne,
           \/ /\ clientLock' = clientLock
              /\ loop[c] = "reading" <=> p = "reading"
           \/ clientLock' = [clientLock EXCEPT ![c] =
                   IF p = "reading" THEN PacketLoop(c) ELSE NoOne]
    PROVE  LockInv'
<1>1. \A d \in Conns : loop'[d] = IF d = c THEN p ELSE loop[d]
    BY DEF LoopGoto, TypeOK
<1>2. RunnerHeld'
    BY <1>1, TaskFacts DEF LockInv, RunnerHeld
<1>3. PlayersHeld'
    BY <1>1, TaskFacts DEF LockInv, PlayersHeld
<1>4. ClientHeld'
    BY <1>1 DEF LockInv, ClientHeld, TypeOK
<1>5. LoopAfterJoin'
    BY <1>1 DEF LockInv, LoopAfterJoin
<1>6. QED
    BY <1>2, <1>3, <1>4, <1>5 DEF LockInv

LEMMA LoopKeepsLocks ==
    ASSUME TypeOK, LockInv, NEW c \in Conns, LoopStep(c) \/ LoopInput(c)
    PROVE  LockInv'
<1> USE DEF LoopInRunner, roomLocks
<1>1. LoopOnly => UNCHANGED handler
    BY DEF LoopOnly, handlerVars
<1>2. CASE LockSelf(c)
    BY <1>1, <1>2, LoopLocks DEF LockSelf
<1>3. CASE ReadPacket(c)
    BY <1>1, <1>3, LoopLocks DEF ReadPacket
<1>4. CASE ReadNothing(c)
    BY <1>1, <1>4, LoopLocks DEF ReadNothing
<1>5. CASE LoopTakesRunner(c)
    BY <1>1, <1>5, LoopLocks DEF LoopTakesRunner
<1>6. ASSUME Publish(c)
      PROVE  \E p \in {"idle", "panicked"} : LoopGoto(c, p) /\ runner' = NoOne
    BY <1>6 DEF Publish
<1>7. CASE LockSender(c)
    <2>1. CASE Publish(c)
        BY <1>1, <1>6, <1>7, <2>1, LoopLocks DEF LockSender
    <2>2. CASE LoopGoto(c, "want_players") /\ UNCHANGED runner
        BY <1>1, <1>7, <2>2, LoopLocks DEF LockSender
    <2>3. QED
        BY <1>7, <2>1, <2>2 DEF LockSender
<1>8. CASE StartBroadcast(c)
    BY <1>1, <1>8, LoopLocks DEF StartBroadcast
<1>9. CASE SendChat(c)
    BY <1>1, <1>9 DEF SendChat, LockInv, RunnerHeld, PlayersHeld, ClientHeld,
                      LoopAfterJoin
<1>10. CASE EndBroadcast(c)
    BY <1>1, <1>6, <1>10, LoopLocks DEF EndBroadcast
<1>11. QED
    BY <1>2, <1>3, <1>4, <1>5, <1>7, <1>8, <1>9, <1>10 DEF LoopStep, LoopInput

LEMMA LockStep == TypeOK /\ LockInv /\ [Next]_vars => LockInv'
<1> SUFFICES ASSUME TypeOK, LockInv, [Next]_vars PROVE LockInv'
    OBVIOUS
<1>1. ASSUME UNCHANGED <<runner, playersLock, clientLock, handler, loop>>
      PROVE  LockInv'
    BY <1>1 DEF LockInv, RunnerHeld, PlayersHeld, ClientHeld, LoopAfterJoin
<1>2. ASSUME NEW c \in Conns, NEW l \in Loops, Accept(l, c)
      PROVE  LockInv'
    <2>1. UNCHANGED <<runner, loop, playersLock, clientLock>>
        BY <1>2 DEF Accept, AcceptReturns, roomLocks, loopVars
    <2>2. QED
        BY <1>2, <2>1, HandlerLocks DEF Accept, HandlerInRunner
<1>3. CASE \E c \in Conns : Leave(c)
    BY <1>1, <1>3 DEF Leave, EnvOnly, roomLocks, handlerVars, loopVars
<1>4. CASE AddPacketReceiver \/ DropReceiver
    BY <1>1, <1>4 DEF AddPacketReceiver, DropReceiver, EnvOnly, roomLocks,
                      handlerVars, loopVars
<1>5. CASE (\E l \in Loops : Listen(l)) \/ ListenOther
    <2>1. UNCHANGED runner
        BY <1>5, ListenerTypeStep DEF TypeOK, Listen, ListenOther
    <2>2. QED
        BY <1>1, <1>5, <2>1 DEF Listen, ListenOther, roomLocks, handlerVars, loopVars
<1>6. CASE UNCHANGED vars
    BY <1>1, <1>6 DEF vars, roomLocks, handlerVars, loopVars
<1>7. QED
    BY <1>2, <1>3, <1>4, <1>5, <1>6, HandlerKeepsLocks, LoopKeepsLocks DEF Next

\* The owner of each mutex is the task that stands where the code has the
\* guard in scope.
THEOREM LockInvariance == Spec => [](TypeOK /\ LockInv)
BY TypeInit, LockInit, TypeStep, LockStep, PTL DEF Spec

\* What the runner protects is never handled by two tasks at once.
THEOREM RunnerIsExclusive == Spec => []RunnerExclusive
<1>1. LockInv => RunnerExclusive
    <2> SUFFICES ASSUME LockInv, NEW t \in Tasks
                 PROVE  InRunner(t) <=> runner = t
        BY DEF RunnerExclusive
    <2>1. QED
        BY TaskFacts DEF LockInv, RunnerHeld, InRunner
<1>2. QED
    BY <1>1, LockInvariance, PTL

\* No set of tasks can wait for each other's mutexes: every one is taken in
\* the order of the ranks, and a client's own is never kept for another.
THEOREM LocksAreOrdered == Spec => []LockOrder
<1>1. LockInv => LockOrder
    <2> SUFFICES ASSUME LockInv, NEW t \in Tasks, NEW h \in HeldRanks(t),
                        NEW r \in 1..3, WaitsFor(t, r)
                 PROVE  h < r
        BY DEF LockOrder
    <2>1. PICK c \in Conns : t = Handler(c) \/ t = PacketLoop(c)
        BY TaskFacts
    <2>2. CASE t = Handler(c)
        <3>1. h = 1 /\ handler[c] \in HandlerInRunner
            BY <2>2, TaskFacts
            DEF HeldRanks, LockInv, RunnerHeld, PlayersHeld, ClientHeld
        <3>2. r = 2
            BY <2>2, <3>1, TaskFacts DEF WaitsFor, HandlerInRunner
        <3>3. QED
            BY <3>1, <3>2
    <2>3. CASE t = PacketLoop(c)
        <3>1. \/ h = 1 /\ loop[c] \in LoopInRunner
              \/ h = 2 /\ loop[c] = "broadcast"
              \/ h = 3 /\ loop[c] = "reading"
            BY <2>3, TaskFacts
            DEF HeldRanks, LockInv, RunnerHeld, PlayersHeld, ClientHeld
        <3>2. \/ r = 1 /\ loop[c] = "want_runner"
              \/ r = 2 /\ loop[c] = "want_players"
              \/ r = 3 /\ loop[c] \in {"idle", "want_self", "broadcast"}
            BY <2>3, TaskFacts DEF WaitsFor
        <3>3. QED
            BY <3>1, <3>2 DEF LoopInRunner
    <2>4. QED
        BY <2>1, <2>2, <2>3
<1>2. QED
    BY <1>1, LockInvariance, PTL

-----------------------------------------------------------------------------
(* Entity ids.  Distinctness alone is not inductive: an id must also stay   *)
(* recorded for as long as a client has it.                                 *)

IdsRecorded == \A c \in Conns : entity[c] # NoOne => entity[c] \in usedIds

LEMMA IdsStep ==
    TypeOK /\ IdsRecorded /\ EntityIdsDistinct /\ [Next]_vars
        => (IdsRecorded /\ EntityIdsDistinct)'
<1> SUFFICES ASSUME TypeOK, IdsRecorded, EntityIdsDistinct, [Next]_vars
             PROVE  (IdsRecorded /\ EntityIdsDistinct)'
    OBVIOUS
<1>1. ASSUME UNCHANGED ids
      PROVE  (IdsRecorded /\ EntityIdsDistinct)'
    BY <1>1 DEF ids, IdsRecorded, EntityIdsDistinct
<1>2. ASSUME NEW c \in Conns, TakeEntityId(c)
      PROVE  (IdsRecorded /\ EntityIdsDistinct)'
    <2>1. PICK id \in EntityIds : /\ id \notin usedIds
                                 /\ entity' = [entity EXCEPT ![c] = id]
                                 /\ usedIds' = usedIds \cup {id}
        BY <1>2 DEF TakeEntityId, IsFreeId
    <2>2. \A d \in Conns : entity'[d] = IF d = c THEN id ELSE entity[d]
        BY <2>1 DEF TypeOK
    <2>3. QED
        BY <2>1, <2>2 DEF IdsRecorded, EntityIdsDistinct
<1>3. ASSUME NEW c \in Conns, HandlerStep(c) \/ HandlerInput(c)
      PROVE  TakeEntityId(c) \/ UNCHANGED ids
    BY <1>3 DEF HandlerStep, HandlerInput, TakeRunner, CountPlayers, CheckDuplicate,
        Join, Insert, SendStatus, ReadFails, Handshake, EncryptionResponse,
        VerifyJoin, LoginStart, StatusRequest, StatusPing, ids
<1>4. ASSUME NEW c \in Conns, LoopStep(c) \/ LoopInput(c)
      PROVE  UNCHANGED ids
    BY <1>4 DEF LoopStep, LoopInput, LockSelf, LoopTakesRunner, LockSender,
        StartBroadcast, SendChat, EndBroadcast, ReadNothing, ReadPacket, LoopOnly,
        handlerVars
<1>5. CASE \/ \E c \in Conns : Leave(c) \/ \E l \in Loops : Accept(l, c)
           \/ (\E l \in Loops : Listen(l)) \/ ListenOther
           \/ AddPacketReceiver \/ DropReceiver \/ UNCHANGED vars
    BY <1>1, <1>5 DEF Leave, Accept, Listen, ListenOther, AddPacketReceiver,
        DropReceiver, EnvOnly, handlerVars, vars
<1>6. QED
    BY <1>1, <1>2, <1>3, <1>4, <1>5 DEF Next

\* No two clients of a run are given the same entity id, however their logins
\* interleave.
THEOREM EntityIdsAreDistinct == Spec => []EntityIdsDistinct
<1>1. Init => IdsRecorded /\ EntityIdsDistinct
    BY DEF Init, IdsRecorded, EntityIdsDistinct
<1>2. QED
    BY <1>1, IdsStep, TypeCorrect, PTL DEF Spec
=============================================================================
