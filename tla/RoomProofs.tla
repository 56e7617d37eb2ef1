----------------------------- MODULE RoomProofs -----------------------------
(***************************************************************************)
(* Module Server implements module ChatRoom, for any number of clients,    *)
(* names and messages, and what can push a player out of the map.       *)
(***************************************************************************)
EXTENDS ChatProofs

-----------------------------------------------------------------------------
(* The chat messages of an outbox.                                         *)

LEMMA NumbersGrow ==
    ASSUME NEW s \in Seq(Packets), NEW q \in Seq(Packets)
    PROVE  ChatNumbers(s \o q) = ChatNumbers(s) \cup ChatNumbers(q)
<1> DEFINE t == s \o q
<1>1. /\ Len(t) = Len(s) + Len(q)
      /\ \A i \in 1..Len(s) : i \in 1..Len(t) /\ t[i] = s[i]
      /\ \A i \in 1..Len(q) : Len(s) + i \in 1..Len(t) /\ t[Len(s) + i] = q[i]
    OBVIOUS
<1>2. \A i \in 1..Len(t) :
        i \in 1..Len(s) \/ (i - Len(s) \in 1..Len(q) /\ t[i] = q[i - Len(s)])
    OBVIOUS
<1>3. ChatNumbers(s) \cup ChatNumbers(q) \subseteq ChatNumbers(t)
    BY <1>1 DEF ChatNumbers
<1>4. ChatNumbers(t) \subseteq ChatNumbers(s) \cup ChatNumbers(q)
    <2> SUFFICES ASSUME NEW i \in 1..Len(t), IsChat(t[i])
                 PROVE  t[i].n \in ChatNumbers(s) \cup ChatNumbers(q)
        BY DEF ChatNumbers
    <2>1. CASE i \in 1..Len(s)
        BY <1>1, <2>1 DEF ChatNumbers
    <2>2. CASE i - Len(s) \in 1..Len(q) /\ t[i] = q[i - Len(s)]
        BY <2>2 DEF ChatNumbers
    <2>3. QED
        BY <1>2, <2>1, <2>2
<1>5. QED
    BY <1>3, <1>4

LEMMA NumbersOf ==
    /\ \A s : (\A i \in 1..Len(s) : ~IsChat(s[i])) => ChatNumbers(s) = {}
    /\ \A n \in Nat : ChatNumbers(<<Chat(n)>>) = {n}
<1>1. ASSUME NEW n \in Nat
      PROVE  ChatNumbers(<<Chat(n)>>) = {n}
    <2> DEFINE s == <<Chat(n)>>
    <2>1. Len(s) = 1 /\ s[1] = Chat(n) /\ IsChat(s[1]) /\ s[1].n = n
        BY PacketKinds
    <2>2. \A i \in 1..Len(s) : i = 1
        BY <2>1
    <2> HIDE DEF s
    <2>3. QED
        BY <2>1, <2>2 DEF ChatNumbers
<1>2. QED
    BY <1>1 DEF ChatNumbers

\* A write of packets that are not chat changes nobody's conversation.
LEMMA SilentWrite ==
    ASSUME TypeOK, NEW c \in Conns, NEW q \in Seq(Packets), Write(c, q),
           \A i \in 1..Len(q) : ~IsChat(q[i])
    PROVE  \A d \in Conns : ChatNumbers(outbox'[d]) = ChatNumbers(outbox[d])
<1>1. ChatNumbers(q) = {}
    BY NumbersOf
<1>2. outbox[c] \in Seq(Packets)
    BY DEF TypeOK
<1>3. ChatNumbers(outbox[c] \o q) = ChatNumbers(outbox[c]) \cup {}
    BY <1>1, <1>2, NumbersGrow
<1>4. QED
    BY <1>3 DEF Write, TypeOK

\* The packets of a login and of a status dialogue.
LEMMA SilentPackets ==
    /\ \A k \in {"LoginDisconnect", "EncryptionRequest", "SetCompression",
                 "LoginSuccess", "PlayDisconnect", "JoinGame", "StatusPong"} :
        \A i \in 1..Len(<<Plain(k)>>) : ~IsChat(<<Plain(k)>>[i])
    /\ \A i \in 1..Len(<<Plain("SetCompression"), Plain("LoginSuccess")>>) :
        ~IsChat(<<Plain("SetCompression"), Plain("LoginSuccess")>>[i])
    /\ \A ps \in SUBSET Conns : \A i \in 1..Len(<<Status(ps)>>) : ~IsChat(<<Status(ps)>>[i])
BY DEF IsChat, Plain, Status

-----------------------------------------------------------------------------
(* The steps.                                                              *)

\* A step the chat room does not see.
LEMMA UnseenStep ==
    ASSUME UNCHANGED <<players, gone, castVars>>,
           \A d \in Conns : loop'[d] = "broadcast" <=> loop[d] = "broadcast",
           \A d \in Conns : ChatNumbers(outbox'[d]) = ChatNumbers(outbox[d])
    PROVE  UNCHANGED Room!roomVars
<1>1. StillToHear' = StillToHear
    BY DEF StillToHear, castVars
<1>2. [c \in Conns |-> ChatNumbers(outbox[c])]' = [c \in Conns |-> ChatNumbers(outbox[c])]
    OBVIOUS
<1>3. QED
    BY <1>1, <1>2 DEF Room!roomVars, castVars

\* A connection's task up to its place in the map.
LEMMA LoginIsUnseen ==
    ASSUME TypeOK, NEW c \in Conns, HandlerStep(c) \/ HandlerInput(c), ~Join(c), ~Insert(c)
    PROVE  UNCHANGED Room!roomVars
<1>1. HandlerOnly => UNCHANGED <<gone, castVars, loop>>
    BY DEF HandlerOnly, loopVars, envVars
<1>2. ASSUME HandlerOnly, UNCHANGED players,
             \/ UNCHANGED outbox
             \/ \E k \in {"LoginDisconnect", "EncryptionRequest", "SetCompression",
                          "LoginSuccess", "PlayDisconnect", "StatusPong"} :
                    Write(c, <<Plain(k)>>)
             \/ Write(c, <<Plain("SetCompression"), Plain("LoginSuccess")>>)
             \/ Write(c, <<Status(players)>>)
      PROVE  UNCHANGED Room!roomVars
    <2>1. \A d \in Conns : ChatNumbers(outbox'[d]) = ChatNumbers(outbox[d])
        <3>1. CASE UNCHANGED outbox
            BY <3>1
        <3>2. ASSUME NEW k \in {"LoginDisconnect", "EncryptionRequest", "SetCompression",
                                "LoginSuccess", "PlayDisconnect", "StatusPong"},
                     Write(c, <<Plain(k)>>)
              PROVE  \A d \in Conns : ChatNumbers(outbox'[d]) = ChatNumbers(outbox[d])
            <4>1. <<Plain(k)>> \in Seq(Packets)
                BY PacketTypes
            <4>2. \A i \in 1..Len(<<Plain(k)>>) : ~IsChat(<<Plain(k)>>[i])
                BY SilentPackets
            <4>3. QED
                BY <3>2, <4>1, <4>2, SilentWrite
        <3>3. CASE Write(c, <<Plain("SetCompression"), Plain("LoginSuccess")>>)
            BY <3>3, PacketTypes, SilentPackets, SilentWrite
        <3>4. CASE Write(c, <<Status(players)>>)
            <4>1. players \in SUBSET Conns
                BY DEF TypeOK
            <4>2. <<Status(players)>> \in Seq(Packets)
                BY <4>1, PacketTypes
            <4>3. \A i \in 1..Len(<<Status(players)>>) : ~IsChat(<<Status(players)>>[i])
                BY <4>1, SilentPackets
            <4>4. QED
                BY <3>4, <4>2, <4>3, SilentWrite
        <3>5. QED
            BY <1>2, <3>1, <3>2, <3>3, <3>4
    <2>2. QED
        BY <1>1, <1>2, <2>1, UnseenStep
<1>3. CASE ReadFails(c) \/ Handshake(c) \/ TakeRunner(c) \/ CountPlayers(c)
    BY <1>2, <1>3 DEF ReadFails, Handshake, TakeRunner, CountPlayers
<1>4. CASE EncryptionResponse(c) \/ TakeEntityId(c) \/ StatusRequest(c)
    BY <1>2, <1>4 DEF EncryptionResponse, TakeEntityId, StatusRequest
<1>5. ASSUME NEW n \in Names, LoginStart(c, n)
      PROVE  UNCHANGED Room!roomVars
    BY <1>2, <1>5 DEF LoginStart, LoggedIn
<1>6. CASE VerifyJoin(c) \/ CheckDuplicate(c)
    BY <1>2, <1>6 DEF VerifyJoin, LoggedIn, CheckDuplicate
<1>7. CASE SendStatus(c) \/ StatusPing(c)
    BY <1>2, <1>7 DEF SendStatus, StatusPing
<1>8. QED
    BY <1>3, <1>4, <1>5, <1>6, <1>7 DEF HandlerStep, HandlerInput

LEMMA JoinIsUnseen ==
    ASSUME TypeOK, LockInv, NEW c \in Conns, Join(c)
    PROVE  UNCHANGED Room!roomVars
<1>1. UNCHANGED <<players, gone, castVars>> /\ loop[c] = "off"
    BY DEF Join, envVars, LockInv, LoopAfterJoin
<1>2. \A d \in Conns : loop'[d] = "broadcast" <=> loop[d] = "broadcast"
    BY <1>1 DEF Join, LoopGoto, TypeOK
<1>3. \A d \in Conns : ChatNumbers(outbox'[d]) = ChatNumbers(outbox[d])
    <2>1. CASE UNCHANGED outbox
        BY <2>1
    <2>2. CASE Write(c, <<Plain("JoinGame")>>)
        BY <2>2, PacketTypes, SilentPackets, SilentWrite
    <2>3. QED
        BY <2>1, <2>2 DEF Join
<1>4. QED
    BY <1>1, <1>2, <1>3, UnseenStep

\* The mutex of the map keeps a client out while a message is on its way, and
\* offline its key is its own.
LEMMA InsertIsEnter ==
    ASSUME TypeOK, LockInv, ChatInv, NEW c \in Conns, Insert(c)
    PROVE  Room!Enter(c)
<1> DEFINE out == {d \in players : SameKey(c, d)}
<1>1. StillToHear = {} /\ StillToHear' = {}
    BY NoBroadcast DEF Insert, StillToHear, HandlerOnly, loopVars
<1>2. c \notin players
    BY DEF Insert, ChatInv, PlayersAreDone
<1>3. ASSUME out # {}
      PROVE  Online
    BY <1>2, <1>3 DEF SameKey, Uuid
<1>4. out \in SUBSET players /\ players' = (players \ out) \cup {c}
    BY DEF Insert
<1>5. UNCHANGED <<gone, outbox, chatCount>>
    BY DEF Insert, HandlerOnly, loopVars, castVars, envVars
<1>6. QED
    BY <1>1, <1>2, <1>3, <1>4, <1>5 DEF Room!Enter

LEMMA LeaveIsLeave ==
    ASSUME TypeOK, NEW c \in Conns, Leave(c)
    PROVE  Room!Leave(c)
<1>1. UNCHANGED <<players, outbox, castVars, loop>>
    BY DEF Leave, EnvOnly, loopVars
<1>2. {d \in Conns : gone'[d]} = {d \in Conns : gone[d]} \cup {c}
    BY DEF Leave, TypeOK
<1>3. StillToHear' = StillToHear
    BY <1>1 DEF StillToHear, castVars
<1>4. QED
    BY <1>1, <1>2, <1>3 DEF Room!Leave, castVars

LEMMA StartBroadcastIsSay ==
    ASSUME TypeOK, LockInv, NEW c \in Conns, StartBroadcast(c)
    PROVE  Room!Say
<1>1. /\ UNCHANGED <<players, gone, outbox>> /\ chatCount' = chatCount + 1
      /\ todo'[c] = players /\ players \subseteq Conns
      /\ \A d \in Conns : loop'[d] = IF d = c THEN "broadcast" ELSE loop[d]
    BY DEF StartBroadcast, NextTarget, LoopOnly, LoopGoto, envVars, TypeOK
<1>2. \A d \in Conns : loop[d] # "broadcast"
    BY NoBroadcast DEF StartBroadcast
<1>3. StillToHear = {} /\ StillToHear' = players
    BY <1>1, <1>2 DEF StillToHear
<1>4. QED
    BY <1>1, <1>3 DEF Room!Say

LEMMA SendChatIsHear ==
    ASSUME TypeOK, LockInv, ChatInv, NEW c \in Conns, SendChat(c)
    PROVE  Room!Hear(target[c])
<1> DEFINE t == target[c]
           absent == {d \in Conns : gone[d]}
           heard == [d \in Conns |-> ChatNumbers(outbox[d])]
<1>1. /\ UNCHANGED <<players, gone, loop, chatCount>>
      /\ loop[c] = "broadcast" /\ chatCount \in Nat
      /\ t \in todo[c] /\ todo[c] \subseteq Conns /\ t \in Conns
      /\ Write(t, <<Chat(chatCount)>>)
    BY DEF SendChat, LoopOnly, envVars, ChatInv, CastInRange, TypeOK
<1>2. todo' = [todo EXCEPT ![c] = @ \ {t}]
    BY DEF SendChat, NextTarget
<1>3. \A b \in Conns : loop[b] = "broadcast" <=> b = c
    BY <1>1, OneBroadcast
<1>4. StillToHear = todo[c] /\ StillToHear' = todo[c] \ {t}
    BY <1>1, <1>2, <1>3 DEF StillToHear, TypeOK
<1>5. heard' = IF t \in absent THEN heard ELSE [heard EXCEPT ![t] = @ \cup {chatCount}]
    <2>1. CASE gone[t]
        BY <1>1, <2>1 DEF Write
    <2>2. CASE ~gone[t]
        <3>1. outbox[t] \in Seq(Packets) /\ <<Chat(chatCount)>> \in Seq(Packets)
            BY <1>1, PacketTypes DEF TypeOK
        <3>2. ChatNumbers(outbox[t] \o <<Chat(chatCount)>>)
                = ChatNumbers(outbox[t]) \cup {chatCount}
            <4>1. ChatNumbers(<<Chat(chatCount)>>) = {chatCount}
                BY <1>1, NumbersOf
            <4>2. ChatNumbers(outbox[t] \o <<Chat(chatCount)>>)
                    = ChatNumbers(outbox[t]) \cup ChatNumbers(<<Chat(chatCount)>>)
                BY <3>1, NumbersGrow
            <4>3. QED
                BY <4>1, <4>2
        <3>3. /\ outbox'[t] = outbox[t] \o <<Chat(chatCount)>>
              /\ \A d \in Conns : d # t => outbox'[d] = outbox[d]
            BY <1>1, <2>2 DEF Write, TypeOK
        <3>4. \A d \in Conns : heard'[d] = IF d = t THEN heard[d] \cup {chatCount} ELSE heard[d]
            BY <3>2, <3>3
        <3>5. QED
            BY <1>1, <2>2, <3>4
    <2>3. QED
        BY <2>1, <2>2
<1>6. QED
    BY <1>1, <1>4, <1>5 DEF Room!Hear

\* A message is over when nobody is left to hear it.
LEMMA EndBroadcastIsUnseen ==
    ASSUME TypeOK, LockInv, ChatInv, NEW c \in Conns, EndBroadcast(c)
    PROVE  UNCHANGED Room!roomVars
<1>1. /\ UNCHANGED <<players, gone, outbox, castVars>>
      /\ \A d \in Conns : d # c => loop'[d] = loop[d]
      /\ loop[c] = "broadcast" /\ loop'[c] # "broadcast" /\ todo[c] = {}
    BY ServerAssumption
    DEF EndBroadcast, Publish, LoopOnly, LoopGoto, envVars, ChatInv, CastInRange, TypeOK
<1>2. StillToHear' = StillToHear
    BY <1>1 DEF StillToHear, castVars
<1>3. QED
    BY <1>1, <1>2 DEF Room!roomVars, castVars

\* What a packet loop does outside a broadcast.
LEMMA LoopIsUnseen ==
    ASSUME TypeOK, NEW c \in Conns,
           \/ LockSelf(c) \/ ReadPacket(c) \/ ReadNothing(c)
           \/ LoopTakesRunner(c) \/ LockSender(c)
    PROVE  UNCHANGED Room!roomVars
<1>1. UNCHANGED <<players, gone, outbox, castVars>> /\ loop[c] # "broadcast"
    BY DEF LockSelf, ReadPacket, ReadNothing, LoopTakesRunner, LockSender, LoopOnly, envVars
<1>2. \E p : p # "broadcast" /\ LoopGoto(c, p)
    <2>1. CASE LockSender(c)
        BY <2>1 DEF LockSender, Publish
    <2>2. CASE LockSelf(c) \/ ReadPacket(c) \/ ReadNothing(c) \/ LoopTakesRunner(c)
        BY <2>2 DEF LockSelf, ReadPacket, ReadNothing, LoopTakesRunner
    <2>3. QED
        BY <2>1, <2>2
<1>3. \A d \in Conns : loop'[d] = "broadcast" <=> loop[d] = "broadcast"
    BY <1>1, <1>2 DEF LoopGoto, TypeOK
<1>4. QED
    BY <1>1, <1>3, UnseenStep

LEMMA RoomStep ==
    TypeOK /\ LockInv /\ ChatInv /\ [Next]_vars => [Room!RoomNext]_Room!roomVars
<1> SUFFICES ASSUME TypeOK, LockInv, ChatInv, [Next]_vars
             PROVE  [Room!RoomNext]_Room!roomVars
    OBVIOUS
<1>1. ASSUME UNCHANGED <<players, gone, outbox, castVars, loop>>
      PROVE  UNCHANGED Room!roomVars
    BY <1>1, UnseenStep
<1>2. ASSUME NEW c \in Conns, NEW l \in Loops, Accept(l, c)
      PROVE  UNCHANGED Room!roomVars
    BY <1>1, <1>2 DEF Accept, loopVars, envVars
<1>3. CASE (\E l \in Loops : Listen(l)) \/ ListenOther
    BY <1>1, <1>3 DEF Listen, ListenOther, loopVars, envVars
<1>4. CASE AddPacketReceiver \/ DropReceiver
    BY <1>1, <1>4 DEF AddPacketReceiver, DropReceiver, EnvOnly, loopVars
<1>5. CASE UNCHANGED vars
    BY <1>1, <1>5 DEF vars, loopVars, envVars
<1>6. ASSUME NEW c \in Conns, HandlerStep(c) \/ HandlerInput(c)
      PROVE  [Room!RoomNext]_Room!roomVars
    BY <1>6, LoginIsUnseen, JoinIsUnseen, InsertIsEnter DEF Room!RoomNext
<1>7. ASSUME NEW c \in Conns, Leave(c)
      PROVE  Room!RoomNext
    BY <1>7, LeaveIsLeave DEF Room!RoomNext
<1>8. ASSUME NEW c \in Conns, SendChat(c)
      PROVE  Room!RoomNext
    <2>1. target[c] \in Conns
        BY <1>8 DEF SendChat, ChatInv, CastInRange, TypeOK
    <2>2. QED
        BY <1>8, <2>1, SendChatIsHear DEF Room!RoomNext
<1>9. ASSUME NEW c \in Conns, LoopStep(c) \/ LoopInput(c)
      PROVE  [Room!RoomNext]_Room!roomVars
    BY <1>8, <1>9, LoopIsUnseen, StartBroadcastIsSay, EndBroadcastIsUnseen
    DEF LoopStep, LoopInput, Room!RoomNext
<1>10. QED
    BY <1>2, <1>3, <1>4, <1>5, <1>6, <1>7, <1>9 DEF Next

\* The tasks of the server, whose steps end at every await, implement a chat
\* room in which messages are said one at a time and nobody enters during one.
THEOREM ServerImplementsRoom == Spec => ImplementsRoom
<1>1. Init => Room!RoomInit
    <2> SUFFICES ASSUME Init PROVE Room!RoomInit
        OBVIOUS
    <2>1. StillToHear = {} /\ {c \in Conns : gone[c]} = {} /\ players = {} /\ chatCount = 0
        BY DEF Init, StillToHear
    <2>2. \A c \in Conns : ChatNumbers(outbox[c]) = {}
        BY NumbersOf DEF Init
    <2>3. QED
        BY <2>1, <2>2 DEF Room!RoomInit
<1>2. QED
    BY <1>1, RoomStep, LockInvariance, ChatInvariance, PTL
    DEF Spec, ImplementsRoom, Room!RoomSpec

-----------------------------------------------------------------------------
(* The map of players.                                                     *)

\* A place in the map is lost only online, to a login with the same name:
\* offline the key of the map is random.
LEMMA NoDisplacementStep ==
    ASSUME ChatInv, [Next]_vars, NEW p \in players, p \notin players'
    PROVE  gone[p] \/ (Online /\ \E c \in players' \ players : name[c] = name[p])
<1>1. CASE UNCHANGED players
    BY <1>1
<1>2. ASSUME NEW c \in Conns, Insert(c)
      PROVE  Online /\ \E d \in players' \ players : name[d] = name[p]
    <2>1. /\ handler[c] = "insert" /\ c \in players'
          /\ SameKey(c, p) /\ p # c
        BY <1>2 DEF Insert
    <2>2. c \notin players
        BY <2>1 DEF ChatInv, PlayersAreDone
    <2>3. QED
        BY <2>1, <2>2 DEF SameKey, Uuid
<1>3. ASSUME NEW c \in Conns, HandlerStep(c) \/ HandlerInput(c), ~Insert(c)
      PROVE  UNCHANGED players
    BY <1>3
    DEF HandlerStep, HandlerInput, TakeRunner, CountPlayers, TakeEntityId, Join,
        CheckDuplicate, SendStatus, ReadFails, Handshake,
        EncryptionResponse, VerifyJoin, LoginStart, StatusRequest, StatusPing
<1>4. CASE \/ \E c \in Conns, l \in Loops : Accept(l, c)
           \/ \E c \in Conns : LoopStep(c) \/ LoopInput(c)
           \/ (\E c \in Conns : Leave(c)) \/ AddPacketReceiver \/ DropReceiver
           \/ (\E l \in Loops : Listen(l)) \/ ListenOther \/ UNCHANGED vars
    BY <1>1, <1>4
    DEF Accept, LoopStep, LoopInput, LockSelf, LockSender, LoopTakesRunner,
        StartBroadcast, SendChat, EndBroadcast, ReadNothing, ReadPacket, LoopOnly,
        Leave, AddPacketReceiver, DropReceiver, EnvOnly, Listen, ListenOther, vars,
        handlerVars
<1>5. QED
    BY <1>1, <1>2, <1>3, <1>4 DEF Next

\* A place in the map is lost only online, to a login with the same name:
\* offline the key of the map is random.
THEOREM NobodyIsDisplaced == Spec => NoDisplacement
<1>1. ChatInv /\ [Next]_vars
        => [\A p \in players \ players' :
                gone[p] \/ (Online /\ \E c \in players' \ players : name[c] = name[p])]_vars
    BY NoDisplacementStep
<1>2. QED
    BY <1>1, ChatInvariance, PTL DEF Spec, NoDisplacement

HasJoin(s) == \E i \in 1..Len(s) : s[i] = Plain("JoinGame")

\* From the write of JoinGame on.
MapInv ==
    \A c \in Conns : handler[c] = "insert" \/ c \in players =>
        /\ loop[c] # "off"
        /\ gone[c] \/ HasJoin(outbox[c])

LEMMA WriteKeepsJoin ==
    ASSUME TypeOK, NEW c \in Conns, NEW q \in Seq(Packets), Write(c, q)
    PROVE  \A d \in Conns : HasJoin(outbox[d]) => HasJoin(outbox'[d])
<1>1. outbox[c] \in Seq(Packets)
    BY DEF TypeOK
<1>2. HasJoin(outbox[c]) => HasJoin(outbox[c] \o q)
    <2> SUFFICES ASSUME NEW i \in 1..Len(outbox[c]), outbox[c][i] = Plain("JoinGame")
                 PROVE  HasJoin(outbox[c] \o q)
        BY DEF HasJoin
    <2>1. i \in 1..Len(outbox[c] \o q) /\ (outbox[c] \o q)[i] = Plain("JoinGame")
        BY <1>1
    <2>2. QED
        BY <2>1 DEF HasJoin
<1>3. QED
    BY <1>2 DEF Write, TypeOK

\* No packet is taken back, whichever task writes.
LEMMA JoinStays ==
    ASSUME TypeOK, LockInv, ChatInv, [Next]_vars
    PROVE  \A d \in Conns : HasJoin(outbox[d]) => HasJoin(outbox'[d])
<1>1. CASE UNCHANGED outbox
    BY <1>1
<1>2. ASSUME NEW c \in Conns, NEW q \in Seq(Packets), Write(c, q)
      PROVE  \A d \in Conns : HasJoin(outbox[d]) => HasJoin(outbox'[d])
    BY <1>2, WriteKeepsJoin
<1>3. ASSUME NEW c \in Conns, HandlerStep(c) \/ HandlerInput(c)
      PROVE  UNCHANGED outbox \/ \E q \in Seq(Packets) : Write(c, q)
    <2>1. CASE Join(c) \/ CountPlayers(c) \/ CheckDuplicate(c) \/ StatusPing(c)
        BY <2>1, PacketTypes DEF Join, CountPlayers, CheckDuplicate, StatusPing
    <2>2. CASE VerifyJoin(c) \/ \E n \in Names : LoginStart(c, n)
        BY <2>2, PacketTypes DEF VerifyJoin, LoginStart, LoggedIn
    <2>3. CASE SendStatus(c)
        <3>1. players \in SUBSET Conns
            BY DEF TypeOK
        <3>2. <<Status(players)>> \in Seq(Packets)
            BY <3>1, PacketTypes
        <3>3. QED
            BY <2>3, <3>2 DEF SendStatus
    <2>4. CASE \/ TakeRunner(c) \/ TakeEntityId(c) \/ Insert(c) \/ ReadFails(c)
               \/ Handshake(c) \/ EncryptionResponse(c) \/ StatusRequest(c)
        BY <2>4 DEF TakeRunner, TakeEntityId, Insert, ReadFails, Handshake,
                    EncryptionResponse, StatusRequest
    <2>5. QED
        BY <1>3, <2>1, <2>2, <2>3, <2>4 DEF HandlerStep, HandlerInput
<1>4. ASSUME NEW c \in Conns, LoopStep(c) \/ LoopInput(c)
      PROVE  UNCHANGED outbox \/ \E d \in Conns : \E q \in Seq(Packets) : Write(d, q)
    <2>1. CASE SendChat(c)
        <3>1. target[c] \in Conns /\ number[c] \in Nat
            BY <2>1 DEF SendChat, ChatInv, CastInRange, TypeOK
        <3>2. Write(target[c], <<Chat(number[c])>>) /\ <<Chat(number[c])>> \in Seq(Packets)
            BY <2>1, <3>1, PacketTypes DEF SendChat
        <3>3. QED
            BY <3>1, <3>2
    <2>2. CASE \/ LockSelf(c) \/ LoopTakesRunner(c) \/ LockSender(c) \/ StartBroadcast(c)
               \/ EndBroadcast(c) \/ ReadNothing(c) \/ ReadPacket(c)
        BY <2>2 DEF LockSelf, LoopTakesRunner, LockSender, StartBroadcast,
                    EndBroadcast, ReadNothing, ReadPacket
    <2>3. QED
        BY <1>4, <2>1, <2>2 DEF LoopStep, LoopInput
<1>5. CASE (\E c \in Conns : Leave(c)) \/ AddPacketReceiver \/ DropReceiver
    BY <1>1, <1>5 DEF Leave, AddPacketReceiver, DropReceiver, EnvOnly
<1>6. CASE (\E c \in Conns, l \in Loops : Accept(l, c))
            \/ (\E l \in Loops : Listen(l)) \/ ListenOther
    BY <1>1, <1>6 DEF Accept, Listen, ListenOther
<1>7. CASE UNCHANGED vars
    BY <1>1, <1>7 DEF vars
<1>8. QED
    BY <1>1, <1>2, <1>3, <1>4, <1>5, <1>6, <1>7 DEF Next

\* A packet loop that was spawned is never unspawned.
LEMMA LoopStays ==
    ASSUME TypeOK, [Next]_vars
    PROVE  \A d \in Conns : /\ loop[d] # "off" => loop'[d] # "off"
                            /\ gone[d] => gone'[d]
<1>1. ASSUME UNCHANGED <<loop, gone>>
      PROVE  \A d \in Conns : /\ loop[d] # "off" => loop'[d] # "off"
                              /\ gone[d] => gone'[d]
    BY <1>1
<1>2. ASSUME NEW c \in Conns, NEW p, p # "off", LoopGoto(c, p), UNCHANGED gone
      PROVE  \A d \in Conns : /\ loop[d] # "off" => loop'[d] # "off"
                              /\ gone[d] => gone'[d]
    BY <1>2 DEF LoopGoto, TypeOK
<1>3. ASSUME NEW c \in Conns, LoopStep(c) \/ LoopInput(c)
      PROVE  UNCHANGED gone /\ (UNCHANGED loop \/ \E p : p # "off" /\ LoopGoto(c, p))
    BY <1>3 DEF LoopStep, LoopInput, LockSelf, LoopTakesRunner, LockSender, Publish,
                StartBroadcast, SendChat, EndBroadcast, ReadNothing, ReadPacket,
                LoopOnly, envVars
<1>4. ASSUME NEW c \in Conns, HandlerStep(c) \/ HandlerInput(c)
      PROVE  UNCHANGED gone /\ (UNCHANGED loop \/ \E p : p # "off" /\ LoopGoto(c, p))
    <2>1. CASE Join(c)
        BY <2>1 DEF Join, envVars
    <2>2. HandlerOnly => UNCHANGED <<gone, loop>>
        BY DEF HandlerOnly, envVars, loopVars
    <2>3. QED
        BY <1>4, <2>1, <2>2
        DEF HandlerStep, HandlerInput, TakeRunner, CountPlayers, TakeEntityId,
            CheckDuplicate, Insert, SendStatus, ReadFails, Handshake,
            EncryptionResponse, VerifyJoin, LoginStart, StatusRequest, StatusPing
<1>5. CASE \E c \in Conns : Leave(c)
    BY <1>5 DEF Leave, EnvOnly, loopVars, TypeOK
<1>6. CASE AddPacketReceiver \/ DropReceiver
    BY <1>1, <1>6 DEF AddPacketReceiver, DropReceiver, EnvOnly, loopVars
<1>7. CASE (\E c \in Conns, l \in Loops : Accept(l, c))
            \/ (\E l \in Loops : Listen(l)) \/ ListenOther
    BY <1>1, <1>7 DEF Accept, Listen, ListenOther, loopVars, envVars
<1>8. CASE UNCHANGED vars
    BY <1>1, <1>8 DEF vars, loopVars, envVars
<1>9. QED
    BY <1>1, <1>2, <1>3, <1>4, <1>5, <1>6, <1>7, <1>8 DEF Next

\* Only Join brings a task to the map, only Insert a client into it.
LEMMA WayToTheMap ==
    ASSUME TypeOK, [Next]_vars, NEW d \in Conns
    PROVE  /\ handler'[d] = "insert" => handler[d] = "insert" \/ Join(d)
           /\ d \in players' => d \in players \/ handler[d] = "insert"
<1>1. CASE UNCHANGED <<handler, players>>
    BY <1>1
<1>2. ASSUME NEW c \in Conns, HandlerStep(c) \/ HandlerInput(c), ~Insert(c)
      PROVE  UNCHANGED players
    BY <1>2
    DEF HandlerStep, HandlerInput, TakeRunner, CountPlayers, TakeEntityId, Join,
        CheckDuplicate, SendStatus, ReadFails, Handshake,
        EncryptionResponse, VerifyJoin, LoginStart, StatusRequest, StatusPing
<1>3. ASSUME NEW c \in Conns, HandlerStep(c) \/ HandlerInput(c), ~Join(c)
      PROVE  \E p : p # "insert" /\ Goto(c, p)
    BY <1>3
    DEF HandlerStep, HandlerInput, TakeRunner, CountPlayers, TakeEntityId, Insert,
        CheckDuplicate, SendStatus, ReadFails, Handshake, Leaves, LoggedIn,
        EncryptionResponse, VerifyJoin, LoginStart, StatusRequest, StatusPing
<1>4. ASSUME NEW c \in Conns, HandlerStep(c) \/ HandlerInput(c)
      PROVE  /\ handler'[d] = "insert" => handler[d] = "insert" \/ Join(d)
             /\ d \in players' => d \in players \/ handler[d] = "insert"
    <2>1. CASE Join(c)
        BY <2>1 DEF Join, Goto, TypeOK
    <2>2. CASE Insert(c)
        BY <2>2 DEF Insert, Goto, TypeOK
    <2>3. CASE ~Join(c) /\ ~Insert(c)
        <3>1. UNCHANGED players
            BY <1>2, <1>4, <2>3
        <3>2. PICK p : p # "insert" /\ Goto(c, p)
            BY <1>3, <1>4, <2>3
        <3>3. QED
            BY <3>1, <3>2 DEF Goto, TypeOK
    <2>4. QED
        BY <2>1, <2>2, <2>3
<1>5. ASSUME NEW c \in Conns, NEW l \in Loops, Accept(l, c)
      PROVE  /\ handler'[d] = "insert" => handler[d] = "insert" \/ Join(d)
             /\ d \in players' => d \in players \/ handler[d] = "insert"
    BY <1>5 DEF Accept, Goto, TypeOK
<1>6. CASE \/ \E c \in Conns : LoopStep(c) \/ LoopInput(c)
           \/ (\E c \in Conns : Leave(c)) \/ AddPacketReceiver \/ DropReceiver
           \/ (\E l \in Loops : Listen(l)) \/ ListenOther \/ UNCHANGED vars
    BY <1>1, <1>6
    DEF LoopStep, LoopInput, LockSelf, LoopTakesRunner, LockSender,
        StartBroadcast, SendChat, EndBroadcast, ReadNothing, ReadPacket, LoopOnly,
        Leave, AddPacketReceiver, DropReceiver, EnvOnly, Listen, ListenOther,
        handlerVars, vars
<1>7. QED
    BY <1>4, <1>5, <1>6 DEF Next

\* Nobody has a place in the map who was not told JoinGame while there.
THEOREM PlacesAreEarned == Spec => []RegisteredHasJoined
<1>1. Init => MapInv
    BY DEF Init, MapInv
<1>2. TypeOK /\ LockInv /\ ChatInv /\ MapInv /\ [Next]_vars => MapInv'
    <2> SUFFICES ASSUME TypeOK, LockInv, ChatInv, MapInv, [Next]_vars, NEW c \in Conns,
                        handler'[c] = "insert" \/ c \in players'
                 PROVE  loop'[c] # "off" /\ (gone'[c] \/ HasJoin(outbox'[c]))
        BY DEF MapInv
    <2>1. CASE handler[c] = "insert" \/ c \in players
        <3>1. loop[c] # "off" /\ (gone[c] \/ HasJoin(outbox[c]))
            BY <2>1 DEF MapInv
        <3>2. QED
            BY <3>1, LoopStays, JoinStays
    <2>2. CASE Join(c) /\ handler'[c] = "insert"
        <3>1. Write(c, <<Plain("JoinGame")>>) /\ LoopGoto(c, "idle") /\ UNCHANGED gone
            BY <2>2 DEF Join, Goto, envVars, TypeOK
        <3>2. outbox[c] \in Seq(Packets) /\ <<Plain("JoinGame")>> \in Seq(Packets)
            BY PacketTypes DEF TypeOK
        <3>3. HasJoin(outbox[c] \o <<Plain("JoinGame")>>)
            <4>1. /\ Len(outbox[c]) + 1 \in 1..Len(outbox[c] \o <<Plain("JoinGame")>>)
                  /\ (outbox[c] \o <<Plain("JoinGame")>>)[Len(outbox[c]) + 1] = Plain("JoinGame")
                BY <3>2
            <4>2. QED
                BY <4>1 DEF HasJoin
        <3>4. QED
            BY <3>1, <3>3 DEF Write, LoopGoto, TypeOK
    <2>3. QED
        BY <2>1, <2>2, WayToTheMap
<1>3. TypeOK /\ MapInv => RegisteredHasJoined
    BY DEF TypeOK, MapInv, RegisteredHasJoined, HasJoin
<1>4. QED
    BY <1>1, <1>2, <1>3, LockInvariance, ChatInvariance, PTL DEF Spec
=============================================================================
