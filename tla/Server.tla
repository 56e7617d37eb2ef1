------------------------------- MODULE Server -------------------------------
(***************************************************************************)
(* ServerRunner: one task per connection takes a client through handshake, *)
(* login and join (handle_client_connect, handle_login, handle_status) and *)
(* one packet loop per joined client reads its packets (packet_loop,       *)
(* handle_packet, broadcast_chat).  All of them share three kinds of tokio *)
(* mutex: the runner, the map of players, and one per client.  A step ends *)
(* where the code awaits a mutex, a packet or Mojang; what runs between    *)
(* two such points is one action.                                          *)
(*                                                                         *)
(* Clients are the environment: they send any packet, stay silent, leave.  *)
(***************************************************************************)
EXTENDS ServerListener, Sequences, FiniteSets

CONSTANTS
    Conns,        \* the TCP connections accepted during a run
    Names,        \* player names
    Online,       \* ServerRunner.online
    MaxPlayers,   \* ServerRunner.status.players.max
    EntitySpan,   \* how many entity ids there are: 2^32 in the code, here no
                  \* fewer than Conns, so that a login never runs out of them
    MaxReceivers, \* bound: listeners subscribed to packet_tx
    MaxChats      \* bound: chat messages the clients send in a run

ASSUME ServerAssumption ==
    /\ Online \in BOOLEAN
    /\ MaxPlayers \in Nat /\ EntitySpan \in Nat
    /\ MaxReceivers \in Nat /\ MaxChats \in Nat
    /\ NoOne \notin Conns /\ NoOne \notin Names
    /\ NoOne \notin {"handler", "packet_loop"} \X Conns

VARIABLES
    handler,       \* where the connection's task stands
    loop,          \* where the client's packet loop stands
    name,          \* the name the client logged in with, or NoOne
    entity,        \* ServerClient.entity_id, or NoOne
    usedIds,       \* ServerRunner.used_entity_ids
    players,       \* ServerRunner.players: the clients in the map
    playersLock,   \* the owner of the mutex of that map
    clientLock,    \* the owner of each client's mutex
    packet,        \* the packet a packet loop has read and not finished
    number,        \* history: the place of its chat message among all of them
    todo,          \* the players its broadcast has still to write to
    target,        \* the one among them it writes to next
    chatCount,     \* history: chat messages taken up for broadcast so far
    receivers,     \* live receivers of packet_tx
    outbox,        \* history: the packets written to each client
    gone,          \* the client closed its end, and all it sent has been read
    said           \* bounds the chat messages the clients send

ids         == <<entity, usedIds>>
handlerVars == <<handler, name, ids>>
castVars    == <<number, todo, target, chatCount>>
loopVars    == <<loop, packet, castVars, said>>
roomLocks   == <<playersLock, clientLock>>
envVars     == <<receivers, gone>>
vars == <<listenerVars, runner, roomLocks, handlerVars, players, loopVars,
          outbox, envVars>>

\* What the steps of a connection's task, of a packet loop and of the
\* environment have in common to leave alone.
HandlerOnly == UNCHANGED <<listenerVars, roomLocks, loopVars, envVars>>
LoopOnly    == UNCHANGED <<listenerVars, handlerVars, players, envVars>>
EnvOnly     == UNCHANGED <<listenerVars, runner, roomLocks, handlerVars, players,
                           loopVars, outbox>>

-----------------------------------------------------------------------------
(* Types and helpers.                                                      *)

Handler(c)    == <<"handler", c>>
PacketLoop(c) == <<"packet_loop", c>>
Tasks == {"handler", "packet_loop"} \X Conns

\* The places where a task holds the runner mutex over an await.
HandlerInRunner == {"count", "login_start", "encryption", "verify",
                    "status_request", "status_sample", "status_ping"}
LoopInRunner == {"want_self", "want_players", "broadcast"}

\* The places where a connection's task waits for a packet.
AwaitsPacket == {"handshake", "login_start", "encryption",
                 "status_request", "status_ping"}

HandlerPlaces == HandlerInRunner \cup
    {"none", "handshake", "login", "status", "entity", "duplicate", "join",
     "insert", "done"}
LoopPlaces == LoopInRunner \cup
    {"off", "idle", "reading", "want_runner", "panicked"}

EntityIds == 0..(EntitySpan - 1)   \* as offsets from i32::MIN

Plain(kind) == [kind |-> kind]
Chat(n)     == [kind |-> "Chat", n |-> n]
Status(ps)  == [kind |-> "StatusResponse", players |-> ps]
Packets ==
    [kind : {"LoginDisconnect", "EncryptionRequest", "SetCompression",
             "LoginSuccess", "PlayDisconnect", "JoinGame", "StatusPong"}]
    \cup [kind : {"Chat"}, n : Nat]
    \cup [kind : {"StatusResponse"}, players : SUBSET Conns]

\* Type invariant of the tasks of ServerRunner: every place a task goes to is
\* one where the code waits, every owner of a mutex is a task.
TypeOK ==
    /\ ListenerTypeOK
    /\ runner \in Tasks \cup {NoOne}
    /\ playersLock \in Tasks \cup {NoOne}
    /\ clientLock \in [Conns -> Tasks \cup {NoOne}]
    /\ handler \in [Conns -> HandlerPlaces]
    /\ name \in [Conns -> Names \cup {NoOne}]
    /\ entity \in [Conns -> EntityIds \cup {NoOne}]
    /\ usedIds \subseteq EntityIds
    /\ players \subseteq Conns
    /\ loop \in [Conns -> LoopPlaces]
    /\ packet \in [Conns -> {"none", "Chat", "Other"}]
    /\ number \in [Conns -> Nat]
    /\ todo \in [Conns -> SUBSET Conns]
    /\ target \in [Conns -> Conns \cup {NoOne}]
    /\ chatCount \in Nat
    /\ receivers \in 0..MaxReceivers
    /\ outbox \in [Conns -> Seq(Packets)]
    /\ gone \in [Conns -> BOOLEAN]
    /\ said \in 0..MaxChats

Init ==
    /\ ListenerInit
    /\ runner = NoOne
    /\ playersLock = NoOne
    /\ clientLock = [c \in Conns |-> NoOne]
    /\ handler = [c \in Conns |-> "none"]
    /\ name = [c \in Conns |-> NoOne]
    /\ entity = [c \in Conns |-> NoOne]
    /\ usedIds = {}
    /\ players = {}
    /\ loop = [c \in Conns |-> "off"]
    /\ packet = [c \in Conns |-> "none"]
    /\ number = [c \in Conns |-> 0]
    /\ todo = [c \in Conns |-> {}]
    /\ target = [c \in Conns |-> NoOne]
    /\ chatCount = 0
    /\ receivers = 0
    /\ outbox = [c \in Conns |-> <<>>]
    /\ gone = [c \in Conns |-> FALSE]
    /\ said = 0

\* The uuid of a login: Mojang's, one per account, or UUID4::random(), which
\* is taken never to repeat.
Uuid(c) == IF Online THEN name[c] ELSE c

\* Fault variant: the map is keyed by the name alone.
SameKey_NameOnly(c, d) == name[c] = name[d]

\* Two clients under one key (name, uuid) of the map of players.
SameKey(c, d) == name[c] = name[d] /\ Uuid(c) = Uuid(d)

\* A write never waits; what is written to a client that has left is lost.
Write(c, packets) ==
    outbox' = IF gone[c] THEN outbox ELSE [outbox EXCEPT ![c] = @ \o packets]

Goto(c, place) == handler' = [handler EXCEPT ![c] = place]
LoopGoto(c, place) == loop' = [loop EXCEPT ![c] = place]

-----------------------------------------------------------------------------
(* A connection's task: handle_client_connect.                             *)

\* The server loop hands a new connection to a task of its own.
Accept(l, c) ==
    /\ handler[c] = "none"
    /\ AcceptReturns(l)
    /\ Goto(c, "handshake")
    /\ UNCHANGED <<roomLocks, name, ids, players, loopVars, outbox, envVars>>

Handshake(c) ==
    /\ handler[c] = "handshake" /\ ~gone[c]
    /\ \E place \in {"login", "status"} : Goto(c, place)
    /\ UNCHANGED <<runner, ids, name, players, outbox>> /\ HandlerOnly

\* Fault variant: the guard of the runner outlives the dialogue.
Leaves_KeepsRunner(c) == Goto(c, "done") /\ UNCHANGED runner

\* The end of a task that gives the runner back if it has it.
Leaves(c) ==
    /\ Goto(c, "done")
    /\ runner' = IF runner = Handler(c) THEN NoOne ELSE runner

\* The packet the task waits for never comes, is not the one expected, cannot
\* be parsed or decrypted, or the answer to it cannot be written.
ReadFails(c) ==
    /\ handler[c] \in AwaitsPacket
    /\ Leaves(c)
    /\ UNCHANGED <<ids, name, players, outbox>> /\ HandlerOnly

TakeRunner(c) ==
    /\ runner = NoOne
    /\ \/ handler[c] = "login" /\ Goto(c, "count")
       \/ handler[c] = "status" /\ Goto(c, "status_request")
    /\ runner' = Handler(c)
    /\ UNCHANGED <<ids, name, players, outbox>> /\ HandlerOnly

\* The players mutex is held for the count only, the runner until login ends.
CountPlayers(c) ==
    /\ handler[c] = "count"
    /\ playersLock = NoOne
    /\ IF Cardinality(players) >= MaxPlayers
       THEN Leaves(c) /\ Write(c, <<Plain("LoginDisconnect")>>)
       ELSE Goto(c, "login_start") /\ UNCHANGED <<runner, outbox>>
    /\ UNCHANGED <<ids, name, players>> /\ HandlerOnly

\* The end of handle_login: the runner is free again.
LoggedIn(c) ==
    /\ Write(c, <<Plain("SetCompression"), Plain("LoginSuccess")>>)
    /\ Goto(c, "entity")
    /\ runner' = NoOne

LoginStart(c, n) ==
    /\ handler[c] = "login_start" /\ ~gone[c]
    /\ name' = [name EXCEPT ![c] = n]
    /\ \/ /\ Online
          /\ Write(c, <<Plain("EncryptionRequest")>>)
          /\ Goto(c, "encryption")
          /\ UNCHANGED runner
       \/ ~Online /\ LoggedIn(c)
    /\ UNCHANGED <<ids, players>> /\ HandlerOnly

\* Fault variant: the runner is free while Mojang is asked.
EncryptionResponse_Releases(c) ==
    /\ handler[c] = "encryption" /\ ~gone[c]
    /\ Goto(c, "verify")
    /\ runner' = NoOne
    /\ UNCHANGED <<ids, name, players, outbox>> /\ HandlerOnly

\* The client returns the verify token; any other answer is ReadFails.
EncryptionResponse(c) ==
    /\ handler[c] = "encryption" /\ ~gone[c]
    /\ Goto(c, "verify")
    /\ UNCHANGED <<runner, ids, name, players, outbox>> /\ HandlerOnly

\* Mojang knows the session, or not.
VerifyJoin(c) ==
    /\ handler[c] = "verify"
    /\ \/ LoggedIn(c)
       \/ Leaves(c) /\ UNCHANGED outbox
    /\ UNCHANGED <<ids, name, players>> /\ HandlerOnly

\* The least id not in use.  Nothing removes an id from usedIds.
IsFreeId(id) == id \notin usedIds /\ 0..(id - 1) \subseteq usedIds

\* Fault variant: the id is not marked as used.
TakeEntityId_Unrecorded(c) ==
    /\ handler[c] = "entity"
    /\ runner = NoOne
    /\ \E id \in EntityIds : IsFreeId(id) /\ entity' = [entity EXCEPT ![c] = id]
    /\ Goto(c, "duplicate")
    /\ UNCHANGED <<runner, name, players, usedIds, outbox>> /\ HandlerOnly

TakeEntityId(c) ==
    /\ handler[c] = "entity"
    /\ runner = NoOne
    /\ \E id \in EntityIds :
        /\ IsFreeId(id)
        /\ entity' = [entity EXCEPT ![c] = id]
        /\ usedIds' = usedIds \cup {id}
    /\ Goto(c, "duplicate")
    /\ UNCHANGED <<runner, name, players, outbox>> /\ HandlerOnly

\* Fault variant: the check enters the client in the map at once.
CheckDuplicate_Reserves(c) ==
    /\ handler[c] = "duplicate"
    /\ playersLock = NoOne
    /\ IF \E d \in players : name[d] = name[c] \/ Uuid(d) = Uuid(c)
       THEN Goto(c, "done") /\ Write(c, <<Plain("PlayDisconnect")>>) /\ UNCHANGED players
       ELSE Goto(c, "join") /\ players' = players \cup {c} /\ UNCHANGED outbox
    /\ UNCHANGED <<runner, ids, name>> /\ HandlerOnly

\* Under the players mutex; a refused client has its entity id all the same.
CheckDuplicate(c) ==
    /\ handler[c] = "duplicate"
    /\ playersLock = NoOne
    /\ IF \E d \in players : name[d] = name[c] \/ Uuid(d) = Uuid(c)
       THEN Goto(c, "done") /\ Write(c, <<Plain("PlayDisconnect")>>)
       ELSE Goto(c, "join") /\ UNCHANGED outbox
    /\ UNCHANGED <<runner, ids, name, players>> /\ HandlerOnly

\* Fault variant: after a failed write the login goes on without a loop.
Join_ErrorIgnored(c) ==
    /\ handler[c] = "join"
    /\ runner = NoOne
    /\ Goto(c, "insert")
    /\ \/ Write(c, <<Plain("JoinGame")>>) /\ LoopGoto(c, "idle")
       \/ gone[c] /\ UNCHANGED <<outbox, loop>>
    /\ UNCHANGED <<listenerVars, runner, roomLocks, name, ids, players, packet,
                   castVars, said, envVars>>

\* JoinGame, under the runner and the client's own mutex, which nobody else
\* knows yet; then the packet loop is spawned.  The write may fail.
Join(c) ==
    /\ handler[c] = "join"
    /\ runner = NoOne
    /\ \/ /\ Write(c, <<Plain("JoinGame")>>)
          /\ Goto(c, "insert")
          /\ LoopGoto(c, "idle")
       \/ /\ gone[c]
          /\ Goto(c, "done")
          /\ UNCHANGED <<outbox, loop>>
    /\ UNCHANGED <<listenerVars, runner, roomLocks, name, ids, players, packet,
                   castVars, said, envVars>>

\* Fault variant: the map is changed without its mutex.
Insert_NoLock(c) ==
    /\ handler[c] = "insert"
    /\ players' = {d \in players : ~SameKey(c, d)} \cup {c}
    /\ Goto(c, "done")
    /\ UNCHANGED <<runner, ids, name, outbox>> /\ HandlerOnly

\* HashMap::insert: the client takes the place of one with the same key.
Insert(c) ==
    /\ handler[c] = "insert"
    /\ playersLock = NoOne
    /\ players' = {d \in players : ~SameKey(c, d)} \cup {c}
    /\ Goto(c, "done")
    /\ UNCHANGED <<runner, ids, name, outbox>> /\ HandlerOnly

-----------------------------------------------------------------------------
(* handle_status, all of it under the runner mutex.                        *)

StatusRequest(c) ==
    /\ handler[c] = "status_request" /\ ~gone[c]
    /\ Goto(c, "status_sample")
    /\ UNCHANGED <<runner, ids, name, players, outbox>> /\ HandlerOnly

\* The players are counted and listed under their mutex.  The copy the runner
\* keeps in its status is written here and read only by the response.
SendStatus(c) ==
    /\ handler[c] = "status_sample"
    /\ playersLock = NoOne
    /\ \/ Write(c, <<Status(players)>>) /\ Goto(c, "status_ping") /\ UNCHANGED runner
       \/ gone[c] /\ Leaves(c) /\ UNCHANGED outbox
    /\ UNCHANGED <<ids, name, players>> /\ HandlerOnly

StatusPing(c) ==
    /\ handler[c] = "status_ping" /\ ~gone[c]
    /\ Write(c, <<Plain("StatusPong")>>)
    /\ Leaves(c)
    /\ UNCHANGED <<ids, name, players>> /\ HandlerOnly

-----------------------------------------------------------------------------
(* The packet loop of a joined client.                                     *)

\* The loop holds its client's mutex for as long as it waits for a packet.
LockSelf(c) ==
    /\ loop[c] = "idle"
    /\ clientLock[c] = NoOne
    /\ clientLock' = [clientLock EXCEPT ![c] = PacketLoop(c)]
    /\ LoopGoto(c, "reading")
    /\ UNCHANGED <<runner, castVars, playersLock, packet, said, outbox>> /\ LoopOnly

\* Fault variant: the guard lives until the packet has been handled.
ReadPacket_KeepsLock(c) ==
    /\ loop[c] = "reading" /\ ~gone[c]
    /\ \/ packet' = [packet EXCEPT ![c] = "Other"] /\ UNCHANGED said
       \/ /\ said < MaxChats
          /\ packet' = [packet EXCEPT ![c] = "Chat"]
          /\ said' = said + 1
    /\ LoopGoto(c, "want_runner")
    /\ UNCHANGED <<runner, roomLocks, castVars, outbox>> /\ LoopOnly

ReadPacket(c) ==
    /\ loop[c] = "reading" /\ ~gone[c]
    /\ \/ packet' = [packet EXCEPT ![c] = "Other"] /\ UNCHANGED said
       \/ /\ said < MaxChats
          /\ packet' = [packet EXCEPT ![c] = "Chat"]
          /\ said' = said + 1
    /\ clientLock' = [clientLock EXCEPT ![c] = NoOne]
    /\ LoopGoto(c, "want_runner")
    /\ UNCHANGED <<runner, castVars, playersLock, outbox>> /\ LoopOnly

\* The end of the stream, or bytes that are not a packet: the loop goes on.
ReadNothing(c) ==
    /\ loop[c] = "reading"
    /\ clientLock' = [clientLock EXCEPT ![c] = NoOne]
    /\ LoopGoto(c, "idle")
    /\ UNCHANGED <<runner, castVars, playersLock, packet, said, outbox>> /\ LoopOnly

LoopTakesRunner(c) ==
    /\ loop[c] = "want_runner"
    /\ runner = NoOne
    /\ runner' = PacketLoop(c)
    /\ LoopGoto(c, "want_self")
    /\ UNCHANGED <<roomLocks, castVars, packet, said, outbox>> /\ LoopOnly

\* The end of handle_packet: the packet goes to the receivers of packet_tx;
\* without one, send fails and its unwrap ends the task.  The runner is free.
Publish(c) ==
    /\ LoopGoto(c, IF receivers = 0 THEN "panicked" ELSE "idle")
    /\ packet' = [packet EXCEPT ![c] = "none"]
    /\ runner' = NoOne

\* Fault variant: the guard of the sender is not dropped for a chat message.
LockSender_KeepsSender(c) ==
    /\ loop[c] = "want_self"
    /\ clientLock[c] = NoOne
    /\ \/ /\ packet[c] = "Chat" /\ LoopGoto(c, "want_players")
          /\ clientLock' = [clientLock EXCEPT ![c] = PacketLoop(c)]
          /\ UNCHANGED <<packet, runner>>
       \/ packet[c] = "Other" /\ Publish(c) /\ UNCHANGED clientLock
    /\ UNCHANGED <<castVars, playersLock, said, outbox>> /\ LoopOnly

\* The client's mutex again, for handle_packet, which drops it at once for a
\* chat message and otherwise at its end.
LockSender(c) ==
    /\ loop[c] = "want_self"
    /\ clientLock[c] = NoOne
    /\ \/ packet[c] = "Chat" /\ LoopGoto(c, "want_players") /\ UNCHANGED <<packet, runner>>
       \/ packet[c] = "Other" /\ Publish(c)
    /\ UNCHANGED <<roomLocks, castVars, said, outbox>> /\ LoopOnly

\* The player the broadcast writes to next: a map's order is any order.
NextTarget(c, rest) ==
    /\ todo' = [todo EXCEPT ![c] = rest]
    /\ \E t \in IF rest = {} THEN {NoOne} ELSE rest :
        target' = [target EXCEPT ![c] = t]

\* broadcast_chat: the players mutex is held until every player is served.
StartBroadcast(c) ==
    /\ loop[c] = "want_players"
    /\ playersLock = NoOne
    /\ playersLock' = PacketLoop(c)
    /\ NextTarget(c, players)
    /\ chatCount' = chatCount + 1
    /\ number' = [number EXCEPT ![c] = chatCount + 1]
    /\ LoopGoto(c, "broadcast")
    /\ UNCHANGED <<runner, clientLock, packet, said, outbox>> /\ LoopOnly

\* Fault variant: a player whose mutex is taken is passed over.
SendChat_TryLock(c) ==
    LET t == target[c]
    IN  /\ loop[c] = "broadcast" /\ t # NoOne
        /\ IF clientLock[t] = NoOne THEN Write(t, <<Chat(number[c])>>)
                                    ELSE UNCHANGED outbox
        /\ NextTarget(c, todo[c] \ {t})
        /\ UNCHANGED <<runner, roomLocks, loop, packet, number, chatCount, said>> /\ LoopOnly

SendChat(c) ==
    LET t == target[c]
    IN  /\ loop[c] = "broadcast" /\ t # NoOne
        /\ clientLock[t] = NoOne
        /\ Write(t, <<Chat(number[c])>>)
        /\ NextTarget(c, todo[c] \ {t})
        /\ UNCHANGED <<runner, roomLocks, loop, packet, number, chatCount, said>> /\ LoopOnly

EndBroadcast(c) ==
    /\ loop[c] = "broadcast" /\ target[c] = NoOne
    /\ playersLock' = NoOne
    /\ Publish(c)
    /\ UNCHANGED <<castVars, clientLock, said, outbox>> /\ LoopOnly

-----------------------------------------------------------------------------
(* The environment: clients leave, the program subscribes to packets.      *)

Leave(c) ==
    /\ handler[c] # "none" /\ ~gone[c]
    /\ gone' = [gone EXCEPT ![c] = TRUE]
    /\ UNCHANGED receivers /\ EnvOnly

AddPacketReceiver ==
    /\ runner = NoOne
    /\ receivers < MaxReceivers
    /\ receivers' = receivers + 1
    /\ UNCHANGED gone /\ EnvOnly

\* Fault variant: a receiver is dropped twice.
DropReceiver_Twice ==
    /\ receivers' = receivers - 1
    /\ UNCHANGED gone /\ EnvOnly

DropReceiver ==
    /\ receivers > 0
    /\ receivers' = receivers - 1
    /\ UNCHANGED gone /\ EnvOnly

\* The server loop and its API, and an accept() that returns an error.
Listen(l) ==
    /\ ListenerStep(l)
    /\ UNCHANGED <<roomLocks, handlerVars, players, loopVars, outbox, envVars>>
ListenOther ==
    /\ ListenerApi \/ \E l \in Loops : AcceptReturns(l)
    /\ UNCHANGED <<roomLocks, handlerVars, players, loopVars, outbox, envVars>>

-----------------------------------------------------------------------------
(* What the server does by itself, and what waits for a client or Mojang.  *)

HandlerStep(c) ==
    \/ TakeRunner(c) \/ CountPlayers(c) \/ TakeEntityId(c) \/ CheckDuplicate(c)
    \/ Join(c) \/ Insert(c) \/ SendStatus(c)
    \/ gone[c] /\ ReadFails(c)

HandlerInput(c) ==
    \/ Handshake(c) \/ EncryptionResponse(c) \/ VerifyJoin(c)
    \/ \E n \in Names : LoginStart(c, n)
    \/ StatusRequest(c) \/ StatusPing(c)
    \/ ~gone[c] /\ ReadFails(c)

LoopStep(c) ==
    \/ LockSelf(c) \/ LoopTakesRunner(c) \/ LockSender(c)
    \/ StartBroadcast(c) \/ SendChat(c) \/ EndBroadcast(c)
    \/ gone[c] /\ ReadNothing(c)

LoopInput(c) == ReadPacket(c) \/ (~gone[c] /\ ReadNothing(c))

Next ==
    \/ \E c \in Conns :
        \/ HandlerStep(c) \/ HandlerInput(c) \/ LoopStep(c) \/ LoopInput(c)
        \/ Leave(c)
        \/ \E l \in Loops : Accept(l, c)
    \/ \E l \in Loops : Listen(l)
    \/ ListenOther
    \/ AddPacketReceiver \/ DropReceiver

Spec == Init /\ [][Next]_vars

\* tokio's mutexes are FIFO queues: a task that waits for one which is free
\* again and again gets it.  Nothing is assumed of the clients.
ServerFairSpec ==
    /\ Spec
    /\ \A c \in Conns : SF_vars(HandlerStep(c)) /\ SF_vars(LoopStep(c))
    /\ \A l \in Loops : SF_vars(Listen(l))

\* The same, and Mojang answers, and clients do not stay silent for ever: each
\* sends something, right or wrong, or leaves.
ResponsiveSpec ==
    /\ ServerFairSpec
    /\ \A c \in Conns : WF_vars(HandlerInput(c)) /\ WF_vars(LoopInput(c))

-----------------------------------------------------------------------------
(* Properties.                                                             *)

\* Of the tasks that stand at a place where the code holds the runner mutex
\* there is one at most, and it is the owner: a login or a status dialogue is
\* never interleaved with the handling of a packet.
InRunner(t) ==
    \E c \in Conns :
        \/ t = Handler(c) /\ handler[c] \in HandlerInRunner
        \/ t = PacketLoop(c) /\ loop[c] \in LoopInRunner

RunnerExclusive == \A t \in Tasks : InRunner(t) <=> runner = t

\* The mutexes are taken in one order, the runner before the players before a
\* client: no task waits for one while it holds one of the same or a later
\* rank, so no set of tasks waits for each other.
HeldRanks(t) ==
    {r \in 1..3 :
        \/ r = 1 /\ runner = t
        \/ r = 2 /\ playersLock = t
        \/ r = 3 /\ \E c \in Conns : clientLock[c] = t}

WaitsFor(t, r) ==
    \E c \in Conns :
        \/ /\ t = Handler(c)
           /\ \/ r = 1 /\ handler[c] \in {"login", "status", "entity", "join"}
              \/ r = 2 /\ handler[c] \in {"count", "duplicate", "insert", "status_sample"}
        \/ /\ t = PacketLoop(c)
           /\ \/ r = 1 /\ loop[c] = "want_runner"
              \/ r = 2 /\ loop[c] = "want_players"
              \/ r = 3 /\ loop[c] \in {"idle", "want_self", "broadcast"}

LockOrder ==
    \A t \in Tasks : \A h \in HeldRanks(t) : \A r \in 1..3 : WaitsFor(t, r) => h < r

\* Two clients that were ever given an entity id have different ones: an id
\* names one entity in every client's world.
EntityIdsDistinct ==
    \A c, d \in Conns : c # d /\ entity[c] # NoOne => entity[c] # entity[d]

IsChat(p) == p.kind = "Chat"

\* Every player sees the chat as one conversation: the messages written to a
\* client are consecutive ones of a single order, none missing in between,
\* whoever joins, leaves or speaks meanwhile.
ChatOrder ==
    \A c \in Conns : \A i \in 2..Len(outbox[c]) :
        LET before == outbox[c][i - 1]
        IN  IsChat(outbox[c][i]) /\ IsChat(before) =>
                outbox[c][i].n = before.n + 1

\* The protocol of the Play state: no chat before JoinGame, and nothing but
\* chat after it, although another task writes the chat.
JoinFirst ==
    \A c \in Conns : \A i \in 1..Len(outbox[c]) :
        LET before == outbox[c][i - 1]
        IN  IsChat(outbox[c][i]) <=> i > 1 /\ (before = Plain("JoinGame") \/ IsChat(before))

\* While a message is broadcast every player who is not still to be served has
\* it: nobody slips in or is passed over between two writes.
BroadcastCoverage ==
    \A c \in Conns : loop[c] = "broadcast" =>
        \A p \in players \ todo[c] :
            gone[p] \/ \E i \in 1..Len(outbox[p]) : outbox[p][i] = Chat(number[c])

\* A player is never pushed out of the map by another: who is taken out has
\* left, or, online, has logged in once more and entered in its own place.
NoDisplacement ==
    [][\A p \in players \ players' :
            gone[p] \/ (Online /\ \E c \in players' \ players : name[c] = name[p])]_vars

\* A place in the map is not taken for nothing: whoever is in it was told
\* JoinGame, or had left by then, and has a packet loop.
RegisteredHasJoined ==
    \A p \in players :
        /\ loop[p] # "off"
        /\ gone[p] \/ \E i \in 1..Len(outbox[p]) : outbox[p][i] = Plain("JoinGame")

\* The server is a chat room: whatever its tasks do between two mutexes, what
\* players see is messages said one at a time, each heard by all who are members
\* then and present, and nobody entering while one is on its way.
ChatNumbers(s) == {s[i].n : i \in {j \in 1..Len(s) : IsChat(s[j])}}

StillToHear == {p \in Conns : \E b \in Conns : loop[b] = "broadcast" /\ p \in todo[b]}

Room == INSTANCE ChatRoom WITH
    People <- Conns, Displaces <- Online,
    members <- players,
    absent <- {c \in Conns : gone[c]},
    said <- chatCount,
    waiting <- StillToHear,
    heard <- [c \in Conns |-> ChatNumbers(outbox[c])]

ImplementsRoom == Room!RoomSpec

\* With clients that answer or leave, every connection is dealt with, whatever
\* the other tasks do with the mutexes its handler waits for.
HandlersFinish == \A c \in Conns : handler[c] = "handshake" ~> handler[c] = "done"

\* Likewise every packet that was read is handled: the three mutexes that
\* handle_packet takes one after the other are all free again and again.
PacketsFinish ==
    \A c \in Conns : loop[c] = "want_runner" ~> loop[c] \in {"idle", "panicked"}

-----------------------------------------------------------------------------
(* What the code's own texts say and the code does not do.                 *)

\* "Server is full, wait for another player to leave." (server.rs:271): the
\* players in the game are never more than the maximum.
CapacityRespected == Cardinality(players) <= MaxPlayers

\* "Someone with the same name or UUID as you is already connected."
\* (server.rs:303): no two players have the same name.
NamesUnique == \A c, d \in players : name[c] = name[d] => c = d

\* One of the two checks at least keeps what it promises: not so, two logins
\* that overlap pass both before either of them is a player.
SomeCheckHolds == CapacityRespected \/ NamesUnique

\* "Send a chat message to all connected clients." (server.rs:555): a message
\* that is being sent reaches them, without the help of a silent one.
ChatReachesAll == \A c \in Conns : loop[c] = "broadcast" ~> loop[c] # "broadcast"
=============================================================================
