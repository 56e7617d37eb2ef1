------------------------------ MODULE Session -------------------------------
(***************************************************************************)
(* One TCP connection between a client and the server, from the moment     *)
(* both ends have it: MinecraftConnection at either end, the handshake,    *)
(* the login or the status dialogue, and the chat after it.  Each end      *)
(* keeps, for reading and for writing, the protocol state, the compression *)
(* and the cipher, and switches them by itself: both must do so at the     *)
(* same packet.  The mutexes around the two ends are the subject of        *)
(* modules Server and Client.                                              *)
(*                                                                         *)
(* A step goes from the return of one await to the next: it switches       *)
(* first and writes then.  The library's codec is external: a packet is    *)
(* readable under the compression and cipher it was written with, in the   *)
(* state its kind belongs to.                                              *)
(***************************************************************************)
EXTENDS Naturals, Sequences

CONSTANTS
    MaxChats,    \* bound: chat messages of a connected client
    MaxStrays    \* bound: those of a client whose connect() returned no Ok

ASSUME SessionAssumption == MaxChats \in Nat /\ MaxStrays \in Nat

VARIABLES
    setting,    \* what server, profile and client are; never changes
    cp,         \* where the client's program stands
    sp,         \* where the server's task and then its packet loop stand
    framing,    \* the reader and the writer of the MinecraftConnection of each end
    wire,       \* the packets on their way to each end
    open,       \* whether each end still has its socket
    broken,     \* the connection is lost, or was reset
    cut,        \* history: it is the network that has lost it
    loop,       \* the client loop
    listening,  \* somebody is subscribed to the client's packet_tx
    said,       \* chat messages written by a connected client
    strays,     \* and by one that is not
    heard,      \* chat messages the server's packet loop has read
    deaf,       \* this loop has ended in a panic
    refused     \* history: Mojang has refused one of the two

clientVars == <<cp, loop, listening, said, strays>>
serverVars == <<sp, heard, deaf>>
linkVars   == <<framing, wire, open, broken>>
history    == <<refused, cut>>
vars == <<setting, clientVars, serverVars, linkVars, history>>

Ends  == {"c", "s"}
Other(e) == IF e = "c" THEN "s" ELSE "c"

\* MinecraftClient, StatusChecker, a caller of handshake() that gives no name,
\* and a client of the game.
Peers == {"client", "checker", "nameless", "vanilla"}

\* Whether the server is online, full, and has the player's name already, and
\* whether somebody is subscribed to its packet_tx for good; whether the
\* profile is offline; what the client is, and wants.
Settings ==
    {s \in [online : BOOLEAN, full : BOOLEAN, taken : BOOLEAN, watched : BOOLEAN,
            offline : BOOLEAN, peer : Peers, next : {"Status", "Login"}] :
        /\ s.peer = "checker" => s.next = "Status"
        /\ s.peer \in {"client", "nameless"} => s.next = "Login"}

StateOf(kind) ==
    CASE kind = "Handshake" -> "Handshaking"
      [] kind \in {"StatusRequest", "StatusResponse", "StatusPing", "StatusPong"} -> "Status"
      [] kind \in {"LoginStart", "EncryptionRequest", "EncryptionResponse", "SetCompression",
                   "LoginSuccess", "LoginDisconnect"} -> "Login"
      [] OTHER -> "Play"

Kinds == {"Handshake", "StatusRequest", "StatusResponse", "StatusPing", "StatusPong",
          "LoginStart", "EncryptionRequest", "EncryptionResponse", "SetCompression",
          "LoginSuccess", "LoginDisconnect", "PlayDisconnect", "JoinGame", "Chat"}
Halves == {"reader", "writer"}
Codec  == [state : {"Handshaking", "Status", "Login", "Play"}, compressed : BOOLEAN,
           cipher : {"none", "secret", "public_key"}]
Bodies == {"none", "Status", "Login", "secret", "plain"}
Packet == {p \in [kind : Kinds, body : Bodies, codec : Codec] :
                p.kind = "Handshake" => p.body \in {"Status", "Login"}}

Connecting == {"dialed", "greeting", "login", "join", "respond", "ciphering", "encrypted",
               "compressed", "status", "ping", "pong"}
ClientAwaits == {"login", "encrypted", "compressed", "status", "pong"}
ServerAwaits == {"handshake", "login_start", "encryption", "status_request", "status_ping"}
Dialogue == ServerAwaits \cup
    {"full", "request", "verify", "compress", "compressing", "succeeding", "check", "kick",
     "join", "status_response", "status_pong"}
Playing == {"unlisted", "player"}

\* Type invariant of the two programs and of what lies between them.
SessionTypeOK ==
    /\ setting \in Settings
    /\ cp \in Connecting \cup {"connected", "answered", "failed", "abandoned"}
    /\ sp \in Dialogue \cup Playing \cup {"done"}
    /\ framing \in [Ends -> [Halves -> Codec]]
    /\ wire \in [Ends -> Seq(Packet)]
    /\ open \in [Ends -> BOOLEAN]
    /\ broken \in BOOLEAN
    /\ loop \in {"off", "running", "panicked"}
    /\ listening \in BOOLEAN
    /\ said \in 0..MaxChats
    /\ strays \in 0..MaxStrays
    /\ heard \in 0..(said + strays)
    /\ deaf \in BOOLEAN
    /\ refused \in BOOLEAN /\ cut \in BOOLEAN

Init ==
    /\ setting \in Settings
    /\ cp = "dialed"
    /\ sp = "handshake"
    /\ framing = [e \in Ends |-> [h \in Halves |->
            [state |-> "Handshaking", compressed |-> FALSE, cipher |-> "none"]]]
    /\ wire = [e \in Ends |-> <<>>]
    /\ open = [e \in Ends |-> TRUE]
    /\ broken = FALSE
    /\ loop = "off"
    /\ listening = FALSE
    /\ said = 0
    /\ strays = 0
    /\ heard = 0
    /\ deaf = FALSE
    /\ refused = FALSE
    /\ cut = FALSE

-----------------------------------------------------------------------------
(* MinecraftConnection.                                                    *)

Switch(e, field, value) ==
    framing' = [framing EXCEPT ![e] = [h \in Halves |-> [@[h] EXCEPT ![field] = value]]]

SetState(e, state) == Switch(e, "state", state)
SetCompressionThreshold(e) == Switch(e, "compressed", TRUE)
EnableEncryption(e, key) == Switch(e, "cipher", key)

Written(e, kind, body) == [kind |-> kind, body |-> body, codec |-> framing'[e]["writer"]]

\* write_packet.  It does not wait; what the other end will not read is lost.
Writes(e, kind, body) ==
    wire' = [wire EXCEPT ![Other(e)] = Append(@, Written(e, kind, body))]

WriteFails(e) == broken \/ ~open[Other(e)]

Readable(e) ==
    LET p == Head(wire[e])
        r == framing[e]["reader"]
    IN  r.state = StateOf(p.kind) /\ r.compressed = p.codec.compressed
        /\ r.cipher = p.codec.cipher

\* read_next_packet returns a packet of this kind.
Reads(e, kind) ==
    /\ open[e] /\ wire[e] # <<>>
    /\ Readable(e) /\ Head(wire[e]).kind = kind
    /\ wire' = [wire EXCEPT ![e] = Tail(@)]

\* The end of the stream, an error, or bytes that are no packet here.
ReadErrs(e) ==
    /\ open[e]
    /\ broken \/ (IF wire[e] = <<>> THEN ~open[Other(e)] ELSE ~Readable(e))

\* The socket goes.  With bytes unread the other end is reset.
Close(e) ==
    /\ open' = [open EXCEPT ![e] = FALSE]
    /\ broken' = (broken \/ wire'[e] # <<>>)
LinkStays == UNCHANGED <<open, broken>>

-----------------------------------------------------------------------------
(* The client: connect() or get_status().                                  *)

ClientGoto(place) == cp' = place /\ UNCHANGED <<loop, listening, said, strays>>
ClientOnly == UNCHANGED <<setting, serverVars, history>>

ClientWrites(place, next, kind, body) ==
    /\ cp = place /\ ClientGoto(next)
    /\ UNCHANGED framing /\ Writes("c", kind, body)
    /\ LinkStays /\ ClientOnly

\* The call ends without success.  The connection of a MinecraftClient stays in
\* its runner, and a bare one is its caller's; the others' goes with the call.
ClientEnds(place) ==
    /\ ClientGoto(place)
    /\ UNCHANGED framing
    /\ IF setting.peer \in {"client", "nameless"} THEN LinkStays ELSE Close("c")

ClientHandshake == ClientWrites("dialed", "greeting", "Handshake", setting.next)

\* Fault variant: the handshake leaves the second packet to its caller.
ClientStart_NoRequest ==
    /\ cp = "greeting"
    /\ SetState("c", setting.next) /\ UNCHANGED wire
    /\ ClientGoto(IF setting.next = "Status" THEN "status" ELSE "login")
    /\ LinkStays /\ ClientOnly

\* The second packet of handshake(); without a name only the first is written.
ClientStart ==
    /\ cp = "greeting"
    /\ SetState("c", setting.next)
    /\ \/ /\ setting.next = "Status"
          /\ ClientGoto("status") /\ Writes("c", "StatusRequest", "none")
       \/ /\ setting.next = "Login" /\ setting.peer # "nameless"
          /\ ClientGoto("login") /\ Writes("c", "LoginStart", "none")
       \/ setting.peer = "nameless" /\ ClientGoto("failed") /\ UNCHANGED wire
    /\ LinkStays /\ ClientOnly

\* Mojang is asked; an offline profile is refused here.
ClientReadsEncryptionRequest ==
    /\ cp = "login" /\ Reads("c", "EncryptionRequest")
    /\ ClientGoto(IF setting.peer = "client" /\ setting.offline THEN "failed" ELSE "join")
    /\ UNCHANGED framing /\ LinkStays /\ ClientOnly

JoinServer ==
    /\ cp = "join"
    /\ UNCHANGED wire
    /\ \/ ClientGoto("respond") /\ UNCHANGED <<framing, refused>> /\ LinkStays
       \/ ClientEnds("failed") /\ refused' = TRUE
    /\ UNCHANGED <<setting, serverVars, cut>>

\* Fault variant: the client does what the protocol says.
Ciphering_AsProtocol == [body |-> "secret", key |-> "secret"]

\* How the response is written and what the cipher is set up with: a client of
\* the game encrypts secret and token with the public key and uses the secret.
Ciphering ==
    IF setting.peer = "client" THEN [body |-> "plain", key |-> "public_key"]
                               ELSE [body |-> "secret", key |-> "secret"]

ClientResponds == ClientWrites("respond", "ciphering", "EncryptionResponse", Ciphering.body)

\* The cipher may not take the key.
ClientCiphers ==
    /\ cp = "ciphering"
    /\ UNCHANGED wire
    /\ \/ ClientGoto("encrypted") /\ EnableEncryption("c", Ciphering.key) /\ LinkStays
       \/ setting.peer = "client" /\ ClientEnds("failed")
    /\ ClientOnly

ClientReadsSetCompression ==
    /\ cp \in {"login", "encrypted"} /\ Reads("c", "SetCompression")
    /\ ClientGoto("compressed") /\ SetCompressionThreshold("c")
    /\ LinkStays /\ ClientOnly

\* Fault variant: the state is not set.
ClientReadsLoginSuccess_StaysInLogin ==
    /\ cp \in {"login", "encrypted", "compressed"} /\ Reads("c", "LoginSuccess")
    /\ cp' = "connected" /\ loop' = "running"
    /\ UNCHANGED <<framing, listening, said, strays>> /\ LinkStays /\ ClientOnly

\* login_success; then connect() spawns the client loop.
ClientReadsLoginSuccess ==
    /\ cp \in {"login", "encrypted", "compressed"} /\ Reads("c", "LoginSuccess")
    /\ SetState("c", "Play")
    /\ cp' = "connected" /\ loop' = "running"
    /\ UNCHANGED <<listening, said, strays>> /\ LinkStays /\ ClientOnly

\* Fault variant: the connection of a StatusChecker outlives the call.
ClientReadsStatus_KeepsSocket ==
    /\ cp = "status" /\ Reads("c", "StatusResponse")
    /\ ClientGoto(IF setting.peer = "checker" THEN "answered" ELSE "ping")
    /\ UNCHANGED framing /\ LinkStays /\ ClientOnly

\* A StatusChecker has its answer and drops the connection; a client of the
\* game measures the time to a pong.
ClientReadsStatus ==
    /\ cp = "status" /\ Reads("c", "StatusResponse")
    /\ IF setting.peer = "checker"
       THEN ClientGoto("answered") /\ Close("c")
       ELSE ClientGoto("ping") /\ LinkStays
    /\ UNCHANGED framing /\ ClientOnly

ClientPings == ClientWrites("ping", "pong", "StatusPing", "none")

ClientReadsPong ==
    /\ cp = "pong" /\ Reads("c", "StatusPong")
    /\ ClientGoto("answered") /\ Close("c")
    /\ UNCHANGED framing /\ ClientOnly

Expected ==
    CASE cp = "login" -> {"EncryptionRequest", "SetCompression", "LoginSuccess"}
      [] cp = "encrypted" -> {"SetCompression", "LoginSuccess"}
      [] cp = "compressed" -> {"LoginSuccess"}
      [] cp = "status" -> {"StatusResponse"}
      [] OTHER -> {"StatusPong"}

\* The one that comes is that the server is full, which the code reads as wrong.
ClientReadsWrongPacket ==
    /\ cp \in ClientAwaits /\ \E kind \in Kinds \ Expected : Reads("c", kind)
    /\ ClientEnds("failed") /\ ClientOnly

ClientErrs ==
    /\ \/ cp \in ClientAwaits /\ ReadErrs("c")
       \/ cp \in {"dialed", "greeting", "respond", "ping"} /\ WriteFails("c")
    /\ UNCHANGED wire
    /\ ClientEnds("failed") /\ ClientOnly

\* The caller drops the future of the call, and with it the connection unless
\* the runner has it.
Abandon ==
    /\ cp \in Connecting
    /\ UNCHANGED wire
    /\ ClientEnds("abandoned") /\ ClientOnly

-----------------------------------------------------------------------------
(* The client once connect() has returned.                                 *)

\* handle_packet: without a receiver of packet_tx the loop ends in a panic.
\* What is no packet is logged.
ClientLoopReads ==
    /\ loop = "running" /\ open["c"] /\ wire["c"] # <<>>
    /\ wire' = [wire EXCEPT !["c"] = Tail(@)]
    /\ loop' = IF Readable("c") /\ ~listening /\ setting.peer = "client" THEN "panicked"
                                                                     ELSE "running"
    /\ UNCHANGED <<cp, listening, said, strays, framing>> /\ LinkStays /\ ClientOnly

AddPacketReceiver ==
    /\ cp = "connected" /\ ~listening
    /\ listening' = TRUE
    /\ UNCHANGED <<cp, loop, said, strays, linkVars>> /\ ClientOnly

SendChat ==
    /\ cp = "connected" /\ open["c"] /\ said < MaxChats
    /\ said' = said + 1
    /\ UNCHANGED framing /\ Writes("c", "Chat", "none")
    /\ UNCHANGED <<cp, loop, listening, strays>> /\ LinkStays /\ ClientOnly

\* send_chat_message does not ask whether connect() has succeeded.
SendStray ==
    /\ cp \in {"failed", "abandoned"} /\ setting.peer = "client" /\ open["c"]
    /\ strays < MaxStrays
    /\ strays' = strays + 1
    /\ UNCHANGED framing /\ Writes("c", "Chat", "none")
    /\ UNCHANGED <<cp, loop, listening, said>> /\ LinkStays /\ ClientOnly

\* The client is dropped, or connects anew.
DropClient ==
    /\ cp \notin Connecting /\ open["c"]
    /\ UNCHANGED <<setting, clientVars, serverVars, framing, wire, history>>
    /\ Close("c")

-----------------------------------------------------------------------------
(* The server's task of this connection.                                   *)

ServerGoto(place) == sp' = place /\ UNCHANGED <<heard, deaf>>
ServerOnly == UNCHANGED <<setting, clientVars, history>>

ServerReads(place, kind, next) ==
    /\ sp = place /\ Reads("s", kind) /\ ServerGoto(next)
    /\ UNCHANGED framing /\ LinkStays /\ ServerOnly

ServerWrites(place, kind, next) ==
    /\ sp = place /\ ServerGoto(next)
    /\ UNCHANGED framing /\ Writes("s", kind, "none")
    /\ LinkStays /\ ServerOnly

\* Fault variant: the connection outlives its task.
ServerEnds_KeepsSocket == ServerGoto("done") /\ LinkStays

\* The task returns, or panics, and the connection goes with it.
ServerEnds == ServerGoto("done") /\ Close("s")

\* Fault variant: the state is not set.
ServerReadsHandshake_KeepsState ==
    /\ sp = "handshake" /\ Reads("s", "Handshake")
    /\ ServerGoto(IF Head(wire["s"]).body = "Status" THEN "status_request"
                  ELSE IF setting.full THEN "full" ELSE "login_start")
    /\ UNCHANGED framing /\ LinkStays /\ ServerOnly

ServerReadsHandshake ==
    /\ sp = "handshake" /\ Reads("s", "Handshake")
    /\ LET next == Head(wire["s"]).body
       IN  /\ SetState("s", next)
           /\ ServerGoto(IF next = "Status" THEN "status_request"
                         ELSE IF setting.full THEN "full" ELSE "login_start")
    /\ LinkStays /\ ServerOnly

\* login_kick, or kick: the last packet of this connection.
ServerRefuses ==
    /\ UNCHANGED framing
    /\ \/ sp = "full" /\ Writes("s", "LoginDisconnect", "none")
       \/ sp = "kick" /\ Writes("s", "PlayDisconnect", "none")
    /\ ServerEnds /\ ServerOnly

ServerReadsLoginStart ==
    ServerReads("login_start", "LoginStart", IF setting.online THEN "request" ELSE "compress")

ServerRequestsEncryption == ServerWrites("request", "EncryptionRequest", "encryption")

\* What is not encrypted does not decrypt: a panic, or the wrong token.
ServerReadsEncryptionResponse ==
    /\ sp = "encryption" /\ Reads("s", "EncryptionResponse")
    /\ IF Head(wire["s"]).body = "secret" THEN ServerGoto("verify") /\ LinkStays ELSE ServerEnds
    /\ UNCHANGED framing /\ ServerOnly

VerifyJoin ==
    /\ sp = "verify"
    /\ UNCHANGED wire
    /\ \/ ServerGoto("compress") /\ EnableEncryption("s", "secret") /\ LinkStays
          /\ UNCHANGED refused
       \/ UNCHANGED framing /\ ServerEnds /\ refused' = TRUE
    /\ UNCHANGED <<setting, clientVars, cut>>

\* Fault variant: compression begins with the packet that announces it.
ServerWritesSetCompression_TooEarly ==
    /\ sp = "compress"
    /\ ServerGoto("compressing")
    /\ SetCompressionThreshold("s") /\ Writes("s", "SetCompression", "none")
    /\ LinkStays /\ ServerOnly

ServerWritesSetCompression == ServerWrites("compress", "SetCompression", "compressing")

ServerWritesLoginSuccess ==
    /\ sp = "compressing"
    /\ ServerGoto("succeeding")
    /\ SetCompressionThreshold("s") /\ Writes("s", "LoginSuccess", "none")
    /\ LinkStays /\ ServerOnly

ServerEntersPlay ==
    /\ sp = "succeeding"
    /\ ServerGoto("check")
    /\ SetState("s", "Play")
    /\ UNCHANGED wire /\ LinkStays /\ ServerOnly

CheckDuplicate ==
    /\ sp = "check"
    /\ ServerGoto(IF setting.taken THEN "kick" ELSE "join")
    /\ UNCHANGED linkVars /\ ServerOnly

\* JoinGame; then the packet loop is spawned.
Join == ServerWrites("join", "JoinGame", "unlisted")

Insert ==
    /\ sp = "unlisted"
    /\ ServerGoto("player")
    /\ UNCHANGED linkVars /\ ServerOnly

\* packet_tx.send panics when nobody is subscribed, and with it the loop ends:
\* the packet that finds nobody was dealt with, the next one is not read.
Publish == deaf' \in IF setting.watched THEN {FALSE} ELSE BOOLEAN

\* Fault variant: what comes before the client is in the map is dropped.
ServerHears_ListedOnly ==
    /\ sp \in Playing /\ ~deaf /\ Reads("s", "Chat")
    /\ heard' = (IF sp = "player" THEN heard + 1 ELSE heard)
    /\ Publish
    /\ UNCHANGED <<sp, framing>> /\ LinkStays /\ ServerOnly

\* Fault variant: the packet stays in the buffer.
ServerHears_Again ==
    /\ sp \in Playing /\ ~deaf /\ wire["s"] # <<>> /\ Readable("s")
    /\ heard' = heard + 1
    /\ Publish
    /\ UNCHANGED <<sp, framing, wire>> /\ LinkStays /\ ServerOnly

\* The packet loop: a player hears its own messages too.
ServerHears ==
    /\ sp \in Playing /\ ~deaf /\ wire["s"] # <<>>
    /\ Readable("s") /\ Head(wire["s"]).kind = "Chat"
    /\ heard' = heard + 1 /\ UNCHANGED <<sp, framing>>
    /\ wire' = [wire EXCEPT !["s"] = Tail(@),
                            !["c"] = IF sp = "player" THEN Append(@, Written("s", "Chat", "none"))
                                                      ELSE @]
    /\ Publish
    /\ LinkStays /\ ServerOnly

\* The loop goes on after bytes that are no packet to it.
ServerSkips ==
    /\ sp \in Playing /\ ~deaf /\ wire["s"] # <<>> /\ ~Readable("s")
    /\ wire' = [wire EXCEPT !["s"] = Tail(@)]
    /\ UNCHANGED <<serverVars, framing>> /\ LinkStays /\ ServerOnly

ServerReadsStatusRequest == ServerReads("status_request", "StatusRequest", "status_response")
ServerSendsStatus == ServerWrites("status_response", "StatusResponse", "status_ping")
ServerReadsPing == ServerReads("status_ping", "StatusPing", "status_pong")

ServerPongs ==
    /\ sp = "status_pong"
    /\ UNCHANGED framing /\ Writes("s", "StatusPong", "none")
    /\ ServerEnds /\ ServerOnly

\* No packet, one that is not expected, or a write that fails.
ServerErrs ==
    /\ \/ sp \in ServerAwaits /\ ReadErrs("s")
       \/ sp \in {"full", "request", "compress", "compressing", "kick", "join",
                  "status_response", "status_pong"} /\ WriteFails("s")
    /\ UNCHANGED <<framing, wire>>
    /\ ServerEnds /\ ServerOnly

-----------------------------------------------------------------------------
Break ==
    /\ ~broken
    /\ broken' = TRUE /\ cut' = TRUE
    /\ UNCHANGED <<setting, clientVars, serverVars, framing, wire, open, refused>>

ClientStep ==
    \/ ClientHandshake \/ ClientStart \/ ClientReadsEncryptionRequest \/ JoinServer
    \/ ClientResponds \/ ClientCiphers \/ ClientReadsSetCompression
    \/ ClientReadsLoginSuccess \/ ClientReadsStatus \/ ClientPings \/ ClientReadsPong
    \/ ClientReadsWrongPacket \/ ClientErrs

ServerStep ==
    \/ ServerReadsHandshake \/ ServerRefuses \/ ServerReadsLoginStart
    \/ ServerRequestsEncryption \/ ServerReadsEncryptionResponse \/ VerifyJoin
    \/ ServerWritesSetCompression \/ ServerWritesLoginSuccess \/ ServerEntersPlay
    \/ CheckDuplicate \/ Join \/ Insert \/ ServerHears \/ ServerReadsStatusRequest
    \/ ServerSendsStatus \/ ServerReadsPing \/ ServerPongs \/ ServerErrs \/ ServerSkips

Next ==
    \/ ClientStep \/ ServerStep
    \/ ClientLoopReads \/ AddPacketReceiver \/ SendChat \/ SendStray
    \/ Abandon \/ DropClient \/ Break

Spec == Init /\ [][Next]_vars

\* Both programs run, and Mojang answers.  What the caller of the client does,
\* and the client loop, need not happen.
FairSpec == Spec /\ WF_vars(ClientStep) /\ WF_vars(ServerStep)

-----------------------------------------------------------------------------
(* Properties.                                                             *)

Awaits(e) == IF e = "c" THEN cp \in ClientAwaits \/ loop = "running"
                        ELSE sp \in ServerAwaits \/ (sp \in Playing /\ ~deaf)

\* A chat message that send_chat_message wrote before or without a success.
IsStray(p) == p.kind = "Chat" /\ p.codec.state # "Play"

\* Whatever an end waits for was written in the state of its kind, and under
\* the compression and cipher the end reads with: both have switched at the
\* same packet.
ReadsAgree ==
    \A e \in Ends : Awaits(e) /\ open[e] /\ wire[e] # <<>> =>
        LET p == Head(wire[e])
        IN  IsStray(p) \/ (Readable(e) /\ p.codec.state = StateOf(p.kind))

\* A client whose connect() has returned Ok and a server that has not ended
\* the connection agree in everything, or the server is about to.
FramingsMeet ==
    cp = "connected" /\ sp # "done" =>
        \/ framing["c"] = framing["s"]
        \/ sp = "succeeding" /\ framing["c"] =
                [h \in Halves |-> [framing["s"][h] EXCEPT !.state = "Play"]]

\* Client and server never wait for each other.
NotBothWaiting ==
    ~ /\ cp \in ClientAwaits /\ wire["c"] = <<>> /\ open["c"]
      /\ sp \in ServerAwaits /\ wire["s"] = <<>> /\ open["s"]

\* A call fails for a reason that either end or Mojang gave, or the network;
\* never because one end misread the other and hung up.
FailureExplained ==
    cp = "failed" =>
        \/ cut \/ refused \/ setting.full \/ setting.peer = "nameless"
        \/ setting.online /\ setting.peer = "client"

\* "Still WIP, does not actually work." (client.rs:283): no MinecraftClient
\* gets into a server that asks for encryption.
NeverOnline == cp = "connected" /\ setting.peer = "client" => ~setting.online

\* connect() and get_status() return, against this server: neither of the two
\* waits for a packet the other one will not send.
CallReturns == cp \in Connecting ~> cp \notin Connecting

\* The server is done with every dialogue and login, unless the client has
\* given up and keeps its socket all the same.
DialogueEnds ==
    sp \in Dialogue ~> sp \notin Dialogue \/ (cp \in {"failed", "abandoned"} /\ open["c"])

\* What a client says as soon as connect() has returned is heard, though the
\* server may still be on its way to Play, unless it refuses the player, the
\* connection is lost, or nobody is subscribed to what the server reads.
ChatHeard ==
    said > heard ~>
        said = heard \/ sp = "done" \/ broken \/ (deaf /\ ~setting.watched)
=============================================================================
