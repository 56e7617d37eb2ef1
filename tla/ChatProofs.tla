----------------------------- MODULE ChatProofs -----------------------------
(***************************************************************************)
(* What every client of module Server reads: its login, JoinGame, and then *)
(* consecutive messages of one conversation, whoever joins, leaves or      *)
(* speaks meanwhile.                                                       *)
(***************************************************************************)
EXTENDS ServerProofs

-----------------------------------------------------------------------------
(* Outboxes.                                                               *)

IsJoin(p) == p.kind = "JoinGame"

\* What JoinFirst and ChatOrder say of one outbox.
Orderly(s) ==
    \A i \in 1..Len(s) :
        /\ IsChat(s[i]) <=> i > 1 /\ (IsJoin(s[i - 1]) \/ IsChat(s[i - 1]))
        /\ IsChat(s[i]) /\ IsChat(s[i - 1]) => s[i].n = s[i - 1].n + 1

\* Nothing of the Play state yet.
Early(s) == \A i \in 1..Len(s) : ~IsChat(s[i]) /\ ~IsJoin(s[i])

Joined(s) == s # <<>> /\ IsJoin(s[Len(s)])
Heard(s, n) == s # <<>> /\ IsChat(s[Len(s)]) /\ s[Len(s)].n = n

LEMMA PacketKinds ==
    /\ \A p \in Packets : IsJoin(p) <=> p = Plain("JoinGame")
    /\ \A n \in Nat : IsChat(Chat(n)) /\ ~IsJoin(Chat(n)) /\ Chat(n).n = n
    /\ IsJoin(Plain("JoinGame")) /\ ~IsChat(Plain("JoinGame"))
BY DEF IsJoin, IsChat, Packets, Plain, Chat

LEMMA EarlyIsOrderly ==
    ASSUME NEW s \in Seq(Packets), Early(s)
    PROVE  Orderly(s)
<1>1. ASSUME NEW i \in 1..Len(s), i > 1
      PROVE  i - 1 \in 1..Len(s)
    BY <1>1
<1>2. QED
    BY <1>1 DEF Early, Orderly

LEMMA EarlyGrows ==
    ASSUME NEW s \in Seq(Packets), NEW q \in Seq(Packets), Early(s), Early(q)
    PROVE  Early(s \o q)
<1> SUFFICES ASSUME NEW i \in 1..Len(s \o q)
             PROVE  ~IsChat((s \o q)[i]) /\ ~IsJoin((s \o q)[i])
    BY DEF Early
<1>1. CASE i <= Len(s)
    BY <1>1 DEF Early
<1>2. CASE i > Len(s)
    <2>1. (s \o q)[i] = q[i - Len(s)] /\ i - Len(s) \in 1..Len(q)
        BY <1>2
    <2>2. QED
        BY <2>1 DEF Early
<1>3. QED
    BY <1>1, <1>2

LEMMA JoinGrows ==
    ASSUME NEW s \in Seq(Packets), Early(s)
    PROVE  /\ Orderly(s \o <<Plain("JoinGame")>>)
           /\ Joined(s \o <<Plain("JoinGame")>>)
<1> DEFINE j == Plain("JoinGame")
           t == s \o <<j>>
<1>1. /\ t \in Seq(Packets) /\ Len(t) = Len(s) + 1 /\ t[Len(s) + 1] = j
      /\ \A i \in 1..Len(s) : t[i] = s[i]
    BY PacketTypes
<1>2. IsJoin(j) /\ ~IsChat(j)
    BY PacketKinds
<1>3. \A i \in 1..Len(t) : ~IsChat(t[i]) /\ (i > 1 => ~IsJoin(t[i - 1]) /\ ~IsChat(t[i - 1]))
    BY <1>1, <1>2 DEF Early
<1>4. Joined(t)
    BY <1>1, <1>2 DEF Joined
<1>5. QED
    BY <1>3, <1>4 DEF Orderly

LEMMA ChatGrows ==
    ASSUME NEW s \in Seq(Packets), NEW n \in Nat, Orderly(s),
           Joined(s) \/ Heard(s, n - 1)
    PROVE  Orderly(s \o <<Chat(n)>>) /\ Heard(s \o <<Chat(n)>>, n)
<1> DEFINE t == s \o <<Chat(n)>>
<1>1. /\ t \in Seq(Packets) /\ Len(t) = Len(s) + 1 /\ t[Len(s) + 1] = Chat(n)
      /\ \A i \in 1..Len(s) : t[i] = s[i]
      /\ Len(s) \in Nat \ {0}
    BY PacketTypes DEF Joined, Heard
<1>2. IsChat(Chat(n)) /\ Chat(n).n = n
    BY PacketKinds
<1>3. Heard(t, n)
    BY <1>1, <1>2 DEF Heard
<1>4. ASSUME NEW i \in 1..Len(t)
      PROVE  /\ IsChat(t[i]) <=> i > 1 /\ (IsJoin(t[i - 1]) \/ IsChat(t[i - 1]))
             /\ IsChat(t[i]) /\ IsChat(t[i - 1]) => t[i].n = t[i - 1].n + 1
    <2>1. CASE i = Len(s) + 1
        <3>1. t[i] = Chat(n) /\ i > 1 /\ t[i - 1] = s[Len(s)]
            BY <1>1, <2>1
        <3>2. IsJoin(t[i - 1]) \/ (IsChat(t[i - 1]) /\ t[i - 1].n = n - 1)
            BY <3>1 DEF Joined, Heard
        <3>3. IsJoin(t[i - 1]) => ~IsChat(t[i - 1])
            BY DEF IsJoin, IsChat
        <3>4. QED
            BY <1>2, <3>1, <3>2, <3>3
    <2>2. CASE i \in 1..Len(s)
        <3>1. t[i] = s[i] /\ (i > 1 => t[i - 1] = s[i - 1])
            BY <1>1, <2>2
        <3>2. CASE i > 1
            BY <2>2, <3>1, <3>2 DEF Orderly
        <3>3. CASE i = 1
            BY <2>2, <3>1, <3>3 DEF Orderly
        <3>4. QED
            BY <2>2, <3>2, <3>3
    <2>3. QED
        BY <1>1, <2>1, <2>2
<1>5. QED
    BY <1>3, <1>4 DEF Orderly

-----------------------------------------------------------------------------
(* The invariant.  Between two broadcasts every player who is still there   *)
(* has just joined or has heard the latest message; during one, those still *)
(* to be served are one message behind the others.                          *)

OutboxesOrderly == \A c \in Conns : Orderly(outbox[c])

EarlyBeforeJoin ==
    \A c \in Conns :
        /\ handler[c] \notin {"insert", "done"} => Early(outbox[c])
        /\ handler[c] = "insert" => gone[c] \/ Joined(outbox[c])

PlayersAreDone == \A p \in players : handler[p] = "done"

CastInRange ==
    \A b \in Conns : loop[b] = "broadcast" =>
        /\ number[b] = chatCount
        /\ todo[b] \subseteq players
        /\ target[b] \in todo[b] \/ (target[b] = NoOne /\ todo[b] = {})

\* What a player who is still there has heard, as the broadcasts stand.
UpToDate(p) ==
    IF \E b \in Conns : loop[b] = "broadcast" /\ p \in todo[b]
    THEN Joined(outbox[p]) \/ Heard(outbox[p], chatCount - 1)
    ELSE IF \E b \in Conns : loop[b] = "broadcast"
         THEN Heard(outbox[p], chatCount)
         ELSE Joined(outbox[p]) \/ Heard(outbox[p], chatCount)

PlayersUpToDate == \A p \in players : gone[p] \/ UpToDate(p)

ChatInv ==
    OutboxesOrderly /\ EarlyBeforeJoin /\ PlayersAreDone /\ CastInRange /\ PlayersUpToDate

LEMMA ChatInit == Init => ChatInv
<1> SUFFICES ASSUME Init PROVE ChatInv
    OBVIOUS
<1>1. \A c \in Conns : outbox[c] = <<>> /\ Len(outbox[c]) = 0
    BY DEF Init
<1>2. QED
    BY <1>1 DEF Init, ChatInv, OutboxesOrderly, Orderly, EarlyBeforeJoin, Early,
                PlayersAreDone, CastInRange, PlayersUpToDate

\* The mutex of the players admits one broadcast at a time.
LEMMA OneBroadcast ==
    ASSUME LockInv, NEW b \in Conns, NEW d \in Conns,
           loop[b] = "broadcast", loop[d] = "broadcast"
    PROVE  b = d
BY TaskFacts DEF LockInv, PlayersHeld

LEMMA NoBroadcast ==
    ASSUME LockInv, playersLock = NoOne
    PROVE  \A b \in Conns : loop[b] # "broadcast"
BY TaskFacts DEF LockInv, PlayersHeld

\* A step that changes none of it but the places outside the broadcast.
LEMMA QuietStep ==
    ASSUME TypeOK, ChatInv, UNCHANGED <<players, outbox, gone, castVars>>,
           \A c \in Conns : loop'[c] = "broadcast" <=> loop[c] = "broadcast",
           \A c \in Conns : \/ handler'[c] = handler[c]
                            \/ handler[c] \notin {"insert", "done"} /\ handler'[c] # "insert"
    PROVE  ChatInv'
<1>1. OutboxesOrderly' /\ EarlyBeforeJoin' /\ PlayersAreDone'
    <2>1. OutboxesOrderly' /\ EarlyBeforeJoin'
        BY DEF ChatInv, OutboxesOrderly, EarlyBeforeJoin
    <2>2. PlayersAreDone'
        BY DEF TypeOK, ChatInv, PlayersAreDone
    <2>3. QED
        BY <2>1, <2>2
<1>2. CastInRange'
    BY DEF ChatInv, CastInRange, castVars
<1>3. PlayersUpToDate'
    <2> SUFFICES ASSUME NEW p \in players
                 PROVE  gone'[p] \/ UpToDate(p)'
        BY DEF PlayersUpToDate
    <2>1. UpToDate(p)' <=> UpToDate(p)
        BY DEF UpToDate, castVars
    <2>2. QED
        BY <2>1 DEF ChatInv, PlayersUpToDate
<1>4. QED
    BY <1>1, <1>2, <1>3 DEF ChatInv

\* A write to a client whose login is not over.
LEMMA EarlyStep ==
    ASSUME TypeOK, ChatInv, NEW c \in Conns, NEW q,
           handler[c] \notin {"insert", "done"}, q # "insert", Goto(c, q),
           NEW ps \in Seq(Packets), Early(ps), Write(c, ps),
           UNCHANGED <<loop, players, gone, castVars>>
    PROVE  ChatInv'
<1>1. \A d \in Conns : d # c => outbox'[d] = outbox[d] /\ handler'[d] = handler[d]
    BY DEF Write, Goto, TypeOK
<1>2. Early(outbox[c]) /\ outbox[c] \in Seq(Packets) /\ handler'[c] = q
    BY DEF ChatInv, EarlyBeforeJoin, TypeOK, Goto
<1>3. Early(outbox'[c]) /\ outbox'[c] \in Seq(Packets)
    <2>1. outbox'[c] \in {outbox[c], outbox[c] \o ps}
        BY DEF Write, TypeOK
    <2>2. outbox[c] \o ps \in Seq(Packets) /\ Early(outbox[c] \o ps)
        BY <1>2, EarlyGrows
    <2>3. QED
        BY <1>2, <2>1, <2>2
<1>4. c \notin players /\ players \subseteq Conns
    BY DEF TypeOK, ChatInv, PlayersAreDone
<1>5. OutboxesOrderly'
    BY <1>1, <1>3, EarlyIsOrderly DEF ChatInv, OutboxesOrderly
<1>6. EarlyBeforeJoin' /\ PlayersAreDone'
    <2>1. EarlyBeforeJoin'
        BY <1>1, <1>2, <1>3 DEF ChatInv, EarlyBeforeJoin
    <2>2. PlayersAreDone'
        BY <1>1, <1>4 DEF ChatInv, PlayersAreDone
    <2>3. QED
        BY <2>1, <2>2
<1>7. CastInRange'
    BY DEF ChatInv, CastInRange, castVars
<1>8. PlayersUpToDate'
    <2> SUFFICES ASSUME NEW p \in players
                 PROVE  gone'[p] \/ UpToDate(p)'
        BY DEF PlayersUpToDate
    <2>1. outbox'[p] = outbox[p]
        BY <1>1, <1>4 DEF TypeOK
    <2>2. UpToDate(p)' <=> UpToDate(p)
        BY <2>1 DEF UpToDate, castVars
    <2>3. QED
        BY <2>2 DEF ChatInv, PlayersUpToDate
<1>9. QED
    BY <1>5, <1>6, <1>7, <1>8 DEF ChatInv

LEMMA EarlyPackets ==
    /\ \A k \in {"LoginDisconnect", "EncryptionRequest", "PlayDisconnect", "StatusPong"} :
        Early(<<Plain(k)>>)
    /\ Early(<<Plain("SetCompression"), Plain("LoginSuccess")>>)
    /\ \A ps \in SUBSET Conns : Early(<<Status(ps)>>)
BY DEF Early, IsChat, IsJoin, Plain, Status

\* The steps of a connection's task before JoinGame.
LEMMA LoginKeepsChat ==
    ASSUME TypeOK, ChatInv, NEW c \in Conns, HandlerStep(c) \/ HandlerInput(c),
           ~Join(c), ~Insert(c)
    PROVE  ChatInv'
<1>1. HandlerOnly => UNCHANGED <<loop, gone, castVars>>
    BY DEF HandlerOnly, loopVars, envVars
<1>2. ASSUME HandlerOnly, UNCHANGED <<players, outbox>>,
             NEW q, q # "insert", Goto(c, q), handler[c] \notin {"insert", "done"}
      PROVE  ChatInv'
    <2>1. \A d \in Conns : handler'[d] = IF d = c THEN q ELSE handler[d]
        BY <1>2 DEF Goto, TypeOK
    <2>2. QED
        BY <1>1, <1>2, <2>1, QuietStep
<1>3. CASE ReadFails(c) \/ Handshake(c) \/ TakeRunner(c)
    BY <1>2, <1>3 DEF ReadFails, Handshake, TakeRunner, Leaves, AwaitsPacket
<1>4. CASE EncryptionResponse(c) \/ TakeEntityId(c) \/ StatusRequest(c)
    BY <1>2, <1>4 DEF EncryptionResponse, TakeEntityId, StatusRequest
<1>5. CASE CountPlayers(c)
    <2>1. CASE Write(c, <<Plain("LoginDisconnect")>>) /\ Goto(c, "done")
        BY <1>1, <1>5, <2>1, EarlyStep, EarlyPackets, PacketTypes DEF CountPlayers
    <2>2. CASE UNCHANGED outbox /\ Goto(c, "login_start")
        BY <1>2, <1>5, <2>2 DEF CountPlayers
    <2>3. QED
        BY <1>5, <2>1, <2>2 DEF CountPlayers, Leaves
<1>6. ASSUME LoggedIn(c), HandlerOnly, UNCHANGED players,
             handler[c] \notin {"insert", "done"}
      PROVE  ChatInv'
    BY <1>1, <1>6, EarlyStep, EarlyPackets, PacketTypes DEF LoggedIn
<1>7. ASSUME NEW n \in Names, LoginStart(c, n)
      PROVE  ChatInv'
    <2>1. CASE Write(c, <<Plain("EncryptionRequest")>>) /\ Goto(c, "encryption")
        BY <1>1, <1>7, <2>1, EarlyStep, EarlyPackets, PacketTypes DEF LoginStart
    <2>2. CASE LoggedIn(c)
        BY <1>6, <1>7, <2>2 DEF LoginStart
    <2>3. QED
        BY <1>7, <2>1, <2>2 DEF LoginStart
<1>8. CASE VerifyJoin(c)
    <2>1. CASE LoggedIn(c)
        BY <1>6, <1>8, <2>1 DEF VerifyJoin
    <2>2. CASE Leaves(c) /\ UNCHANGED outbox
        BY <1>2, <1>8, <2>2 DEF VerifyJoin, Leaves
    <2>3. QED
        BY <1>8, <2>1, <2>2 DEF VerifyJoin
<1>9. CASE CheckDuplicate(c)
    <2>1. CASE Write(c, <<Plain("PlayDisconnect")>>) /\ Goto(c, "done")
        BY <1>1, <1>9, <2>1, EarlyStep, EarlyPackets, PacketTypes DEF CheckDuplicate
    <2>2. CASE UNCHANGED outbox /\ Goto(c, "join")
        BY <1>2, <1>9, <2>2 DEF CheckDuplicate
    <2>3. QED
        BY <1>9, <2>1, <2>2 DEF CheckDuplicate
<1>10. CASE SendStatus(c)
    <2>1. CASE Write(c, <<Status(players)>>) /\ Goto(c, "status_ping")
        <3>1. players \in SUBSET Conns
            BY DEF TypeOK
        <3>2. QED
            BY <1>1, <1>10, <2>1, <3>1, EarlyStep, EarlyPackets, PacketTypes
            DEF SendStatus
    <2>2. CASE Leaves(c) /\ UNCHANGED outbox
        BY <1>2, <1>10, <2>2 DEF SendStatus, Leaves
    <2>3. QED
        BY <1>10, <2>1, <2>2 DEF SendStatus
<1>11. CASE StatusPing(c)
    BY <1>1, <1>11, EarlyStep, EarlyPackets, PacketTypes DEF StatusPing, Leaves
<1>12. QED
    BY <1>3, <1>4, <1>5, <1>7, <1>8, <1>9, <1>10, <1>11 DEF HandlerStep, HandlerInput

\* JoinGame ends the early packets; nobody broadcasts to the client yet.
LEMMA JoinKeepsChat ==
    ASSUME TypeOK, ChatInv, NEW c \in Conns, Join(c), LoopAfterJoin
    PROVE  ChatInv'
<1>1. /\ UNCHANGED <<players, gone, castVars>>
      /\ handler[c] = "join" /\ loop[c] = "off" /\ c \notin players
      /\ players \subseteq Conns /\ Early(outbox[c]) /\ outbox[c] \in Seq(Packets)
    BY DEF Join, envVars, LoopAfterJoin, ChatInv, PlayersAreDone, EarlyBeforeJoin,
           TypeOK
<1>2. CASE Goto(c, "done") /\ UNCHANGED <<outbox, loop>>
    BY <1>1, <1>2, QuietStep DEF Goto, TypeOK
<1>3. CASE Write(c, <<Plain("JoinGame")>>) /\ Goto(c, "insert") /\ LoopGoto(c, "idle")
    <2>1. \A d \in Conns :
            /\ d # c => outbox'[d] = outbox[d] /\ handler'[d] = handler[d]
            /\ loop'[d] = "broadcast" <=> loop[d] = "broadcast"
        BY <1>1, <1>3 DEF Write, Goto, LoopGoto, TypeOK
    <2>2. handler'[c] = "insert"
        BY <1>3 DEF Goto, TypeOK
    <2>3. Orderly(outbox'[c]) /\ (gone[c] \/ Joined(outbox'[c]))
        <3>1. CASE gone[c]
            BY <1>1, <1>3, <3>1, EarlyIsOrderly DEF Write
        <3>2. CASE ~gone[c]
            BY <1>1, <1>3, <3>2, JoinGrows DEF Write, TypeOK
        <3>3. QED
            BY <3>1, <3>2
    <2>4. OutboxesOrderly' /\ PlayersAreDone'
        BY <1>1, <2>1, <2>3 DEF ChatInv, OutboxesOrderly, PlayersAreDone
    <2>5. EarlyBeforeJoin'
        BY <1>1, <2>1, <2>2, <2>3 DEF ChatInv, EarlyBeforeJoin
    <2>6. CastInRange'
        BY <1>1, <2>1 DEF ChatInv, CastInRange, castVars
    <2>7. PlayersUpToDate'
        <3> SUFFICES ASSUME NEW p \in players
                     PROVE  gone'[p] \/ UpToDate(p)'
            BY <1>1 DEF PlayersUpToDate
        <3>1. outbox'[p] = outbox[p]
            BY <1>1, <2>1
        <3>2. UpToDate(p)' <=> UpToDate(p)
            BY <1>1, <2>1, <3>1 DEF UpToDate, castVars
        <3>3. QED
            BY <1>1, <3>2 DEF ChatInv, PlayersUpToDate
    <2>8. QED
        BY <2>4, <2>5, <2>6, <2>7 DEF ChatInv
<1>4. QED
    BY <1>2, <1>3 DEF Join

\* Nobody broadcasts while the map changes: the new player starts with the
\* next message.
LEMMA InsertKeepsChat ==
    ASSUME TypeOK, ChatInv, LockInv, NEW c \in Conns, Insert(c)
    PROVE  ChatInv'
<1>1. /\ UNCHANGED <<loop, outbox, gone, castVars>>
      /\ handler[c] = "insert" /\ players' \subseteq players \cup {c}
      /\ \A d \in Conns : handler'[d] = IF d = c THEN "done" ELSE handler[d]
      /\ players \subseteq Conns
    BY DEF Insert, HandlerOnly, loopVars, envVars, Goto, TypeOK
<1>2. \A b \in Conns : loop[b] # "broadcast"
    BY NoBroadcast DEF Insert
<1>3. OutboxesOrderly' /\ EarlyBeforeJoin' /\ CastInRange'
    BY <1>1, <1>2 DEF ChatInv, OutboxesOrderly, EarlyBeforeJoin, CastInRange
<1>4. PlayersAreDone'
    BY <1>1 DEF ChatInv, PlayersAreDone
<1>5. PlayersUpToDate'
    <2> SUFFICES ASSUME NEW p \in players', ~gone[p]
                 PROVE  UpToDate(p)'
        BY <1>1 DEF PlayersUpToDate
    <2>1. Joined(outbox[p]) \/ Heard(outbox[p], chatCount)
        <3>1. CASE p = c
            BY <1>1, <3>1 DEF ChatInv, EarlyBeforeJoin
        <3>2. CASE p \in players
            BY <1>2, <3>2 DEF ChatInv, PlayersUpToDate, UpToDate
        <3>3. QED
            BY <1>1, <3>1, <3>2
    <2>2. QED
        BY <1>1, <1>2, <2>1 DEF UpToDate, castVars
<1>6. QED
    BY <1>3, <1>4, <1>5 DEF ChatInv

\* What a client that leaves has heard no longer matters.
LEMMA LeaveKeepsChat ==
    ASSUME TypeOK, ChatInv, NEW c \in Conns, Leave(c)
    PROVE  ChatInv'
<1>1. /\ UNCHANGED <<handler, loop, players, outbox, castVars>>
      /\ \A d \in Conns : gone[d] => gone'[d]
    BY DEF Leave, EnvOnly, handlerVars, loopVars, TypeOK
<1>2. OutboxesOrderly' /\ EarlyBeforeJoin' /\ CastInRange'
    BY <1>1 DEF ChatInv, OutboxesOrderly, EarlyBeforeJoin, CastInRange, castVars
<1>3. PlayersAreDone'
    BY <1>1 DEF ChatInv, PlayersAreDone
<1>4. PlayersUpToDate'
    <2> SUFFICES ASSUME NEW p \in players
                 PROVE  gone'[p] \/ UpToDate(p)'
        BY <1>1 DEF PlayersUpToDate
    <2>1. UpToDate(p)' <=> UpToDate(p)
        BY <1>1 DEF UpToDate, castVars
    <2>2. QED
        BY <1>1, <2>1 DEF ChatInv, PlayersUpToDate, TypeOK
<1>5. QED
    BY <1>2, <1>3, <1>4 DEF ChatInv

\* The next message: from here on every player has it to come.
LEMMA StartBroadcastKeepsChat ==
    ASSUME TypeOK, ChatInv, LockInv, NEW c \in Conns, StartBroadcast(c)
    PROVE  ChatInv'
<1>1. /\ UNCHANGED <<handler, players, outbox, gone>>
      /\ \A d \in Conns : loop'[d] = IF d = c THEN "broadcast" ELSE loop[d]
      /\ chatCount' = chatCount + 1 /\ chatCount \in Nat
      /\ number'[c] = chatCount + 1 /\ todo'[c] = players /\ players \subseteq Conns
    BY DEF StartBroadcast, NextTarget, LoopOnly, LoopGoto, handlerVars, envVars, TypeOK
<1>2. target'[c] \in players \/ (target'[c] = NoOne /\ players = {})
    <2>1. PICK t \in IF players = {} THEN {NoOne} ELSE players :
                target' = [target EXCEPT ![c] = t]
        BY DEF StartBroadcast, NextTarget
    <2>2. QED
        BY <2>1 DEF TypeOK
<1>3. \A b \in Conns : loop[b] # "broadcast"
    BY NoBroadcast DEF StartBroadcast
<1>4. OutboxesOrderly' /\ EarlyBeforeJoin'
    BY <1>1 DEF ChatInv, OutboxesOrderly, EarlyBeforeJoin
<1>5. PlayersAreDone'
    BY <1>1 DEF ChatInv, PlayersAreDone
<1>6. CastInRange'
    BY <1>1, <1>2, <1>3 DEF CastInRange
<1>7. PlayersUpToDate'
    <2> SUFFICES ASSUME NEW p \in players, ~gone[p]
                 PROVE  UpToDate(p)'
        BY <1>1 DEF PlayersUpToDate
    <2>1. Joined(outbox[p]) \/ Heard(outbox[p], chatCount)
        BY <1>3 DEF ChatInv, PlayersUpToDate, UpToDate
    <2>2. chatCount' - 1 = chatCount
        BY <1>1
    <2>3. QED
        BY <1>1, <2>1, <2>2 DEF UpToDate
<1>8. QED
    BY <1>4, <1>5, <1>6, <1>7 DEF ChatInv

\* One write of a broadcast brings one player up to date.
LEMMA SendChatKeepsChat ==
    ASSUME TypeOK, ChatInv, LockInv, NEW c \in Conns, SendChat(c)
    PROVE  ChatInv'
<1> DEFINE t == target[c]
<1>1. /\ UNCHANGED <<handler, players, gone, loop, number, chatCount>>
      /\ loop[c] = "broadcast" /\ number[c] = chatCount /\ chatCount \in Nat
      /\ players \subseteq Conns /\ t \in todo[c] /\ todo[c] \subseteq players
      /\ Write(t, <<Chat(chatCount)>>)
    BY DEF SendChat, LoopOnly, handlerVars, envVars, ChatInv, CastInRange, TypeOK
<1>2. /\ todo'[c] = todo[c] \ {t}
      /\ target'[c] \in todo'[c] \/ (target'[c] = NoOne /\ todo'[c] = {})
    <2>1. PICK u \in IF todo[c] \ {t} = {} THEN {NoOne} ELSE todo[c] \ {t} :
                target' = [target EXCEPT ![c] = u]
        BY DEF SendChat, NextTarget
    <2>2. todo'[c] = todo[c] \ {t}
        BY DEF SendChat, NextTarget, TypeOK
    <2>3. target'[c] = u
        BY <2>1 DEF TypeOK
    <2>4. QED
        BY <2>1, <2>2, <2>3
<1>3. \A b \in Conns : loop[b] = "broadcast" <=> b = c
    BY <1>1, OneBroadcast
<1>4. \A d \in Conns : d # t => outbox'[d] = outbox[d]
    BY <1>1 DEF Write, TypeOK
<1>5. ASSUME ~gone[t]
      PROVE  Orderly(outbox'[t]) /\ Heard(outbox'[t], chatCount)
    <2>1. Joined(outbox[t]) \/ Heard(outbox[t], chatCount - 1)
        BY <1>1, <1>5 DEF ChatInv, PlayersUpToDate, UpToDate
    <2>2. outbox[t] \in Seq(Packets) /\ Orderly(outbox[t])
        BY <1>1 DEF TypeOK, ChatInv, OutboxesOrderly
    <2>3. outbox'[t] = outbox[t] \o <<Chat(chatCount)>>
        BY <1>1, <1>5 DEF Write, TypeOK
    <2>4. QED
        BY <1>1, <2>1, <2>2, <2>3, ChatGrows
<1>6. ASSUME gone[t]
      PROVE  outbox' = outbox
    BY <1>1, <1>6 DEF Write
<1>7. OutboxesOrderly'
    BY <1>4, <1>5, <1>6 DEF ChatInv, OutboxesOrderly
<1>8. EarlyBeforeJoin' /\ PlayersAreDone'
    <2>1. handler[t] = "done"
        BY <1>1 DEF ChatInv, PlayersAreDone
    <2>2. EarlyBeforeJoin'
        BY <1>1, <1>4, <2>1 DEF ChatInv, EarlyBeforeJoin
    <2>3. PlayersAreDone'
        BY <1>1 DEF ChatInv, PlayersAreDone
    <2>4. QED
        BY <2>2, <2>3
<1>9. CastInRange'
    BY <1>1, <1>2, <1>3 DEF ChatInv, CastInRange
<1>10. PlayersUpToDate'
    <2> SUFFICES ASSUME NEW p \in players, ~gone[p]
                 PROVE  UpToDate(p)'
        BY <1>1 DEF PlayersUpToDate
    <2>1. UpToDate(p)' <=> IF p \in todo'[c]
                           THEN Joined(outbox'[p]) \/ Heard(outbox'[p], chatCount - 1)
                           ELSE Heard(outbox'[p], chatCount)
        BY <1>1, <1>3 DEF UpToDate
    <2>2. CASE p = t
        BY <1>2, <1>5, <2>1, <2>2
    <2>3. CASE p # t
        <3>1. UpToDate(p)
            BY DEF ChatInv, PlayersUpToDate
        <3>2. UpToDate(p) <=> IF p \in todo[c]
                              THEN Joined(outbox[p]) \/ Heard(outbox[p], chatCount - 1)
                              ELSE Heard(outbox[p], chatCount)
            BY <1>1, <1>3 DEF UpToDate
        <3>3. outbox'[p] = outbox[p] /\ (p \in todo'[c] <=> p \in todo[c])
            BY <1>1, <1>2, <1>4, <2>3
        <3>4. QED
            BY <2>1, <3>1, <3>2, <3>3
    <2>4. QED
        BY <2>2, <2>3
<1>11. QED
    BY <1>7, <1>8, <1>9, <1>10 DEF ChatInv

\* A broadcast ends when nobody is left to be served.
LEMMA EndBroadcastKeepsChat ==
    ASSUME TypeOK, ChatInv, LockInv, NEW c \in Conns, EndBroadcast(c)
    PROVE  ChatInv'
<1>1. /\ UNCHANGED <<handler, players, outbox, gone, castVars>>
      /\ \A d \in Conns : d # c => loop'[d] = loop[d]
      /\ loop'[c] # "broadcast" /\ loop[c] = "broadcast" /\ target[c] = NoOne
      /\ players \subseteq Conns
    BY DEF EndBroadcast, Publish, LoopOnly, LoopGoto, handlerVars, envVars, TypeOK
<1>2. \A b \in Conns : loop[b] = "broadcast" <=> b = c
    BY <1>1, OneBroadcast
<1>3. \A b \in Conns : loop'[b] # "broadcast"
    BY <1>1, <1>2
<1>4. todo[c] = {}
    BY <1>1, ServerAssumption DEF ChatInv, CastInRange, TypeOK
<1>5. OutboxesOrderly' /\ EarlyBeforeJoin' /\ CastInRange'
    BY <1>1, <1>3 DEF ChatInv, OutboxesOrderly, EarlyBeforeJoin, CastInRange
<1>6. PlayersAreDone'
    BY <1>1 DEF ChatInv, PlayersAreDone
<1>7. PlayersUpToDate'
    <2> SUFFICES ASSUME NEW p \in players, ~gone[p]
                 PROVE  UpToDate(p)'
        BY <1>1 DEF PlayersUpToDate
    <2>1. Heard(outbox[p], chatCount)
        BY <1>1, <1>2, <1>4 DEF ChatInv, PlayersUpToDate, UpToDate
    <2>2. QED
        BY <1>1, <1>3, <2>1 DEF UpToDate, castVars
<1>8. QED
    BY <1>5, <1>6, <1>7 DEF ChatInv

LEMMA LoopKeepsChat ==
    ASSUME TypeOK, ChatInv, LockInv, NEW c \in Conns, LoopStep(c) \/ LoopInput(c)
    PROVE  ChatInv'
<1>1. LoopOnly => UNCHANGED <<handler, players, gone>>
    BY DEF LoopOnly, handlerVars, envVars
<1>2. ASSUME LoopOnly, UNCHANGED <<outbox, castVars>>, loop[c] # "broadcast",
             NEW p, p # "broadcast", LoopGoto(c, p)
      PROVE  ChatInv'
    <2>1. \A d \in Conns : loop'[d] = IF d = c THEN p ELSE loop[d]
        BY <1>2 DEF LoopGoto, TypeOK
    <2>2. QED
        BY <1>1, <1>2, <2>1, QuietStep
<1>3. CASE LockSelf(c) \/ ReadPacket(c) \/ ReadNothing(c) \/ LoopTakesRunner(c)
    BY <1>2, <1>3 DEF LockSelf, ReadPacket, ReadNothing, LoopTakesRunner
<1>4. CASE LockSender(c)
    <2>1. \E p \in {"want_players", "idle", "panicked"} : LoopGoto(c, p)
        BY <1>4 DEF LockSender, Publish
    <2>2. QED
        BY <1>2, <1>4, <2>1 DEF LockSender
<1>5. QED
    BY <1>3, <1>4, StartBroadcastKeepsChat, SendChatKeepsChat, EndBroadcastKeepsChat
    DEF LoopStep, LoopInput

LEMMA ChatStep == TypeOK /\ LockInv /\ ChatInv /\ [Next]_vars => ChatInv'
<1> SUFFICES ASSUME TypeOK, LockInv, ChatInv, [Next]_vars PROVE ChatInv'
    OBVIOUS
<1>1. ASSUME UNCHANGED <<handler, loop, players, outbox, gone, castVars>>
      PROVE  ChatInv'
    BY <1>1, QuietStep
<1>2. ASSUME NEW c \in Conns, NEW l \in Loops, Accept(l, c)
      PROVE  ChatInv'
    <2>1. /\ UNCHANGED <<players, outbox, gone, castVars, loop>>
          /\ handler[c] = "none"
          /\ \A d \in Conns : handler'[d] = IF d = c THEN "handshake" ELSE handler[d]
        BY <1>2 DEF Accept, Goto, loopVars, envVars, TypeOK
    <2>2. QED
        BY <2>1, QuietStep
<1>3. CASE (\E l \in Loops : Listen(l)) \/ ListenOther
    BY <1>1, <1>3 DEF Listen, ListenOther, handlerVars, loopVars, envVars
<1>4. CASE AddPacketReceiver \/ DropReceiver
    BY <1>1, <1>4 DEF AddPacketReceiver, DropReceiver, EnvOnly, handlerVars, loopVars
<1>5. CASE UNCHANGED vars
    BY <1>1, <1>5 DEF vars, handlerVars, loopVars, envVars
<1>6. ASSUME NEW c \in Conns, HandlerStep(c) \/ HandlerInput(c)
      PROVE  ChatInv'
    <2>1. LoopAfterJoin
        BY DEF LockInv
    <2>2. QED
        BY <1>6, <2>1, LoginKeepsChat, JoinKeepsChat, InsertKeepsChat
<1>7. QED
    BY <1>2, <1>3, <1>4, <1>5, <1>6, LoopKeepsChat, LeaveKeepsChat DEF Next

LEMMA ChatInvariance == Spec => [](TypeOK /\ ChatInv)
<1>1. Init => TypeOK /\ LockInv /\ ChatInv
    BY TypeInit, LockInit, ChatInit
<1>2. TypeOK /\ LockInv /\ ChatInv /\ [Next]_vars => (TypeOK /\ LockInv /\ ChatInv)'
    BY TypeStep, LockStep, ChatStep
<1>3. QED
    BY <1>1, <1>2, PTL DEF Spec

\* What is written to a client, by whichever tasks: its login, JoinGame, and
\* then chat messages with nothing in between.
THEOREM JoinComesFirst == Spec => []JoinFirst
<1>1. TypeOK /\ ChatInv => JoinFirst
    <2> SUFFICES ASSUME TypeOK, ChatInv, NEW c \in Conns, NEW i \in 1..Len(outbox[c])
                 PROVE  IsChat(outbox[c][i]) <=>
                            i > 1 /\ (\/ outbox[c][i - 1] = Plain("JoinGame")
                                     \/ IsChat(outbox[c][i - 1]))
        BY DEF JoinFirst
    <2>1. Orderly(outbox[c]) /\ outbox[c] \in Seq(Packets)
        BY DEF TypeOK, ChatInv, OutboxesOrderly
    <2>2. i > 1 => outbox[c][i - 1] \in Packets
        BY <2>1
    <2>3. QED
        BY <2>1, <2>2, PacketKinds DEF Orderly
<1>2. QED
    BY <1>1, ChatInvariance, PTL

\* The chat is one conversation: two messages that a client reads one after
\* the other were broadcast one after the other.
THEOREM ChatIsOrdered == Spec => []ChatOrder
<1>1. TypeOK /\ ChatInv => ChatOrder
    <2> SUFFICES ASSUME TypeOK, ChatInv, NEW c \in Conns, NEW i \in 2..Len(outbox[c]),
                        IsChat(outbox[c][i]), IsChat(outbox[c][i - 1])
                 PROVE  outbox[c][i].n = outbox[c][i - 1].n + 1
        BY DEF ChatOrder
    <2>1. Orderly(outbox[c]) /\ outbox[c] \in Seq(Packets)
        BY DEF TypeOK, ChatInv, OutboxesOrderly
    <2>2. i \in 1..Len(outbox[c])
        BY <2>1
    <2>3. QED
        BY <2>2, <2>1 DEF Orderly
<1>2. QED
    BY <1>1, ChatInvariance, PTL

\* Nobody slips in or is passed over between two writes of a broadcast.
THEOREM BroadcastsCover == Spec => []BroadcastCoverage
<1>1. TypeOK /\ LockInv /\ ChatInv => BroadcastCoverage
    <2> SUFFICES ASSUME TypeOK, LockInv, ChatInv, NEW c \in Conns,
                        loop[c] = "broadcast", NEW p \in players \ todo[c], ~gone[p]
                 PROVE  \E i \in 1..Len(outbox[p]) : outbox[p][i] = Chat(number[c])
        BY DEF BroadcastCoverage
    <2>1. number[c] = chatCount /\ chatCount \in Nat /\ outbox[p] \in Seq(Packets)
        BY DEF TypeOK, ChatInv, CastInRange
    <2>2. Heard(outbox[p], chatCount)
        <3>1. \A b \in Conns : loop[b] = "broadcast" => b = c
            BY OneBroadcast
        <3>2. QED
            BY <3>1 DEF ChatInv, PlayersUpToDate, UpToDate
    <2>3. Len(outbox[p]) \in 1..Len(outbox[p]) /\ outbox[p][Len(outbox[p])] \in Packets
        BY <2>1, <2>2 DEF Heard
    <2>4. outbox[p][Len(outbox[p])] = Chat(chatCount)
        BY <2>2, <2>3 DEF Heard, IsChat, Packets, Chat
    <2>5. QED
        BY <2>1, <2>3, <2>4
<1>2. QED
    BY <1>1, LockInvariance, ChatInvariance, PTL
=============================================================================
