---------------------------- MODULE ReasonProofs -----------------------------
(***************************************************************************)
(* Two more theorems about module Session, for any number of chat          *)
(* messages: a call fails only for a reason that somebody gave, and the    *)
(* type invariant, by which no message is heard that was not written.      *)
(*                                                                         *)
(* The invariant is that of SessionProofs and what a client may count on:  *)
(* what is on the wire was not said too early, nothing is on its way to a  *)
(* client that is about to write, and a server that is done has said so.   *)
(***************************************************************************)
EXTENDS SessionProofs

-----------------------------------------------------------------------------
(* Why a call fails: the second invariant.                                 *)

\* Somebody has given a reason to fail.
Explained ==
    \/ cut \/ refused \/ setting.full \/ setting.peer = "nameless"
    \/ setting.online /\ setting.peer = "client"

\* Neither end loses its socket before its time.
Held ==
    /\ open \in [Ends -> BOOLEAN]
    /\ cp \in Connecting => open["c"]
    /\ sp # "done" => open["s"]

\* What is on the wire was not said too early, nor for no reason.
Meant ==
    /\ \A i \in 1..Len(wire["c"]) : LET p == wire["c"][i]
                                    IN  ~IsStray(p) /\ (p.kind = "LoginDisconnect" => setting.full)
    /\ \A i \in 1..Len(wire["s"]) : LET p == wire["s"][i]
                                    IN  /\ Live => ~IsStray(p)
                                        /\ p.kind = "EncryptionResponse" => p.body = Ciphering.body
    /\ sp = "full" => setting.full

\* Nothing is on its way to a client that is about to write, and no more than
\* one packet to a client that waits for what lets it write.
ToWrite == {"dialed", "greeting", "join", "respond", "ping"}
Asking == cp = "status" \/ (cp = "login" /\ setting.online)
Quiet ==
    ~Explained =>
        /\ cp \in ToWrite => wire["c"] = <<>>
        /\ Asking => Len(wire["c"]) <= 1

\* A server that is done while the client is connecting has said so.
Farewells == {"StatusPong", "PlayDisconnect"}
Last(w) == w[Len(w)]
Ended ==
    sp = "done" /\ cp \in Connecting /\ ~Explained =>
        wire["c"] # <<>> /\ Last(wire["c"]).kind \in Farewells

\* While the client is connecting, neither end goes with anything unread, and
\* the client has not said what belongs to Play: nobody resets the connection.
Whole ==
    cp \in Connecting =>
        /\ ~Explained => ~broken
        /\ \A i \in 1..Len(wire["s"]) : wire["s"][i].kind \notin PlayKinds

Plain == Held /\ Meant /\ Quiet /\ Ended /\ Whole /\ FailureExplained

-----------------------------------------------------------------------------
(* Where the server stands when the client is at a given place.            *)

LEMMA StreamEnd ==
    ASSUME NEW w \in Seq(Packet), NEW coming, NEW due, Stream(w, coming, due, Order), NEW k \in due
    PROVE  \/ w = <<>> /\ k \in coming
           \/ \E b \in Kinds, v \in Seq(Packet) : k \in Follows(b) /\ Stream(v, coming, {b}, Order)
<1>1. Len(w) \in Nat /\ k \in After(w, Len(w), coming, Order)
    BY DEF Stream
<1>2. CASE Len(w) = 0
    BY <1>1, <1>2 DEF After
<1>3. CASE Len(w) # 0
    <2> DEFINE n == Len(w) - 1
               v == [i \in 1..n |-> w[i]]
               b == w[Len(w)].kind
    <2>1. n \in Nat /\ Len(w) \in 1..Len(w) /\ n = Len(w) - 1
        BY <1>1, <1>3
    <2>2. ~IsStray(w[Len(w)]) /\ k \in Order[b]
        BY <1>1, <1>3 DEF After
    <2>3. b \in Kinds
        BY <2>1 DEF Packet
    <2>4. v \in Seq(Packet) /\ Len(v) = n /\ \A i \in 1..n : v[i] = w[i]
        <3>1. \A i \in 1..n : i \in 1..Len(w) /\ w[i] \in Packet
            BY <2>1
        <3>2. v \in Seq(Packet)
            BY <2>1, <3>1
        <3>3. Len(v) = n /\ \A i \in 1..n : v[i] = w[i]
            BY <2>1, <3>1
        <3>4. QED
            BY <3>2, <3>3
    <2>5. b \in After(w, n, coming, Order)
        BY <2>1, <2>2 DEF Stream
    <2> HIDE DEF n, v, b
    <2>6. \A i \in 0..n : After(v, i, coming, Order) = After(w, i, coming, Order)
        BY <2>1, <2>4 DEF After
    <2>7. \A i \in 1..Len(v) : IsStray(v[i]) \/ v[i].kind \in After(v, i - 1, coming, Order)
        <3> SUFFICES ASSUME NEW i \in 1..Len(v)
                     PROVE  IsStray(v[i]) \/ v[i].kind \in After(v, i - 1, coming, Order)
            OBVIOUS
        <3>1. i \in 1..n /\ i \in 1..Len(w) /\ i - 1 \in 0..n
            BY <2>1, <2>4
        <3>2. IsStray(w[i]) \/ w[i].kind \in After(w, i - 1, coming, Order)
            BY <3>1 DEF Stream
        <3>3. QED
            BY <2>4, <2>6, <3>1, <3>2
    <2>8. {b} \subseteq After(v, Len(v), coming, Order)
        <3>1. n \in 0..n
            BY <2>1
        <3>2. QED
            BY <2>4, <2>5, <2>6, <3>1
    <2>9. Stream(v, coming, {b}, Order)
        BY <2>7, <2>8 DEF Stream
    <2>10. k \in Follows(b)
        BY <2>2, <2>3 DEF Order
    <2>11. QED
        BY <2>3, <2>4, <2>9, <2>10
<1>4. QED
    BY <1>2, <1>3

\* What a packet can only have come after.
LEMMA Before ==
    ASSUME NEW b \in Kinds
    PROVE  /\ Follows(b) \cap {"Handshake", "EncryptionRequest", "LoginDisconnect",
                               "StatusResponse"} = {}
           /\ "LoginStart" \in Follows(b) \/ "StatusRequest" \in Follows(b) => b = "Handshake"
           /\ "EncryptionResponse" \in Follows(b) => b = "LoginStart"
           /\ "StatusPing" \in Follows(b) => b = "StatusRequest"
BY DEF Kinds, Follows, Second, Third, PlayKinds, Over

LEMMA Firsts ==
    ASSUME NEW w \in Seq(Packet), NEW coming, NEW due, Stream(w, coming, due, Order),
           NEW k \in due, k \in {"Handshake", "EncryptionRequest", "LoginDisconnect", "StatusResponse"}
    PROVE  w = <<>> /\ k \in coming
<1>1. ASSUME NEW b \in Kinds, k \in Follows(b) PROVE FALSE
    BY <1>1, Before
<1>2. \/ w = <<>> /\ k \in coming
      \/ \E b \in Kinds, v \in Seq(Packet) : k \in Follows(b) /\ Stream(v, coming, {b}, Order)
    BY StreamEnd
<1>3. QED
    BY <1>1, <1>2

LEMMA Seconds ==
    ASSUME NEW w \in Seq(Packet), NEW coming, NEW due, Stream(w, coming, due, Order),
           NEW k \in due, k \in {"LoginStart", "StatusRequest"}
    PROVE  k \in coming \/ "Handshake" \in coming
<1> SUFFICES ASSUME k \notin coming PROVE "Handshake" \in coming
    OBVIOUS
<1>1. PICK b \in Kinds, v \in Seq(Packet) : k \in Follows(b) /\ Stream(v, coming, {b}, Order)
    BY StreamEnd
<1>2. b = "Handshake"
    BY <1>1, Before
<1>3. QED
    BY <1>1, <1>2, Firsts

LEMMA Thirds ==
    ASSUME NEW w \in Seq(Packet), NEW coming, NEW due, Stream(w, coming, due, Order),
           NEW k \in due, k \in {"EncryptionResponse", "StatusPing"}
    PROVE  \/ k \in coming \/ "Handshake" \in coming
           \/ (IF k = "StatusPing" THEN "StatusRequest" ELSE "LoginStart") \in coming
<1> DEFINE b == IF k = "StatusPing" THEN "StatusRequest" ELSE "LoginStart"
<1> SUFFICES ASSUME k \notin coming PROVE b \in coming \/ "Handshake" \in coming
    OBVIOUS
<1>1. PICK a \in Kinds, v \in Seq(Packet) : k \in Follows(a) /\ Stream(v, coming, {a}, Order)
    BY StreamEnd
<1>2. a = b
    BY <1>1, Before
<1>3. QED
    BY <1>1, <1>2, Seconds

LEMMA Places ==
    ASSUME Typed, Framed, Live, sp # "done"
    PROVE  /\ cp = "dialed" => sp = "handshake"
           /\ cp = "greeting" => sp \in {"handshake", "full", "login_start", "status_request"}
           /\ cp = "login" /\ setting.online =>
                sp \in {"handshake", "full", "login_start", "request", "encryption"}
           /\ cp \in {"join", "respond"} => sp = "encryption"
           /\ cp = "status" =>
                sp \in {"handshake", "status_request", "status_response", "status_ping"}
           /\ cp = "ping" => sp = "status_ping"
           /\ sp \in {"request", "status_response"} => wire["c"] = <<>>
<1>1. wire["c"] \in Seq(Packet) /\ wire["s"] \in Seq(Packet)
      /\ setting.next \in {"Status", "Login"}
    BY DEF Typed, Ends, Settings
<1>2. /\ Stream(wire["c"], ClientComing, ServerDue, Order)
      /\ Stream(wire["s"], ServerComing, ClientDue, Order)
    BY DEF Framed, ToClient, ToServer
<1>3. /\ "Handshake" \in ServerComing => sp = "handshake"
      /\ "LoginStart" \in ServerComing => sp \in {"full", "login_start"}
      /\ "StatusRequest" \in ServerComing => sp = "status_request"
      /\ "EncryptionResponse" \in ServerComing => sp \in {"request", "encryption"}
      /\ "StatusPing" \in ServerComing => sp \in {"status_response", "status_ping"}
    BY DEF ServerComing, PlayKinds, Over
<1>4. cp = "dialed" => sp = "handshake"
    BY <1>1, <1>2, <1>3, Firsts DEF ClientDue
<1>5. cp = "greeting" => sp \in {"handshake", "full", "login_start", "status_request"}
    <2>1. cp = "greeting" => \E k \in {"LoginStart", "StatusRequest"} : k \in ClientDue
        BY DEF ClientDue, Second
    <2>2. QED
        BY <1>1, <1>2, <1>3, <2>1, Seconds
<1>6. "EncryptionResponse" \in ClientDue =>
        sp \in {"handshake", "full", "login_start", "request", "encryption"}
    BY <1>1, <1>2, <1>3, Thirds
<1>7. "StatusPing" \in ClientDue =>
        sp \in {"handshake", "status_request", "status_response", "status_ping"}
    BY <1>1, <1>2, <1>3, Thirds
<1>8. /\ sp = "handshake" => "LoginDisconnect" \in ServerDue \/ "StatusResponse" \in ServerDue
      /\ sp \in {"full", "login_start"} => "LoginDisconnect" \in ServerDue
      /\ sp = "request" => "EncryptionRequest" \in ServerDue
      /\ sp \in {"status_request", "status_response"} => "StatusResponse" \in ServerDue
    BY DEF ServerDue, Answers, LoginAnswers
<1>9. \A k \in {"EncryptionRequest", "LoginDisconnect", "StatusResponse"} :
        k \in ServerDue => wire["c"] = <<>> /\ k \in ClientComing
    BY <1>1, <1>2, Firsts
<1>10. cp \in {"join", "respond"} => sp = "encryption"
    <2>1. cp \in {"join", "respond"} =>
            "EncryptionResponse" \in ClientDue /\ ClientComing = {"SetCompression"}
        BY DEF ClientDue, ClientComing
    <2>2. QED
        BY <1>6, <1>8, <1>9, <2>1
<1>11. cp = "ping" => sp = "status_ping"
    <2>1. cp = "ping" => "StatusPing" \in ClientDue /\ ClientComing = {"StatusPong", Over}
        BY DEF ClientDue, ClientComing
    <2>2. QED
        BY <1>7, <1>8, <1>9, <2>1 DEF Over
<1>12. /\ cp = "login" /\ setting.online => "EncryptionResponse" \in ClientDue
       /\ cp = "status" => "StatusPing" \in ClientDue
    BY DEF ClientDue, Third
<1>13. QED
    BY <1>4, <1>5, <1>6, <1>7, <1>8, <1>9, <1>10, <1>11, <1>12

-----------------------------------------------------------------------------
(* What each step puts on the wire, and takes from it.                     *)

\* What the server writes at each of its places.
Says == {<<"full", "LoginDisconnect">>, <<"kick", "PlayDisconnect">>,
         <<"request", "EncryptionRequest">>, <<"compress", "SetCompression">>,
         <<"compressing", "LoginSuccess">>, <<"join", "JoinGame">>, <<"player", "Chat">>,
         <<"status_response", "StatusResponse">>, <<"status_pong", "StatusPong">>}

SaysFor(e, p) ==
    IF e = "c" THEN ~IsStray(p) /\ <<sp, p.kind>> \in Says
               ELSE /\ IsStray(p) => ~Live
                    /\ p.kind = "EncryptionResponse" => p.body = Ciphering.body
                    /\ p.kind = "Chat" => SendChat \/ SendStray
                    /\ p.kind \notin PlayKinds \ {"Chat"}

Adds(e) == Same(e) \/ \E p \in Packet : Gets(e, p) /\ SaysFor(e, p)

LEMMA ClientMoves ==
    ASSUME Typed, Framed, ClientStep
    PROVE  /\ sp' = sp /\ cp \in Connecting
           /\ Same("c") \/ Takes("c")
           /\ Adds("s")
<1>1. /\ "c" \in Ends /\ "s" \in Ends /\ Other("c") = "s" /\ Other("s") = "c"
      /\ setting.next \in {"Status", "Login"}
      /\ framing' \in [Ends -> [Halves -> Codec]]
    BY ClientShape DEF Typed, Ends, Other, Settings
<1>2. sp' = sp /\ cp \in Connecting
    BY DEF ClientStep, ClientHandshake, ClientStart, ClientReadsEncryptionRequest,
           JoinServer, ClientResponds, ClientCiphers, ClientReadsSetCompression,
           ClientReadsLoginSuccess, ClientReadsStatus, ClientPings, ClientReadsPong,
           ClientReadsWrongPacket, ClientErrs, ClientWrites, ClientOnly, serverVars,
           Connecting, ClientAwaits
<1>3. ASSUME NEW kind \in {"Handshake", "LoginStart", "StatusRequest", "StatusPing",
                           "EncryptionResponse"},
             NEW body \in Bodies, kind = "Handshake" => body \in {"Status", "Login"},
             kind = "EncryptionResponse" => body = Ciphering.body,
             Writes("c", kind, body)
      PROVE  Same("c") /\ Adds("s")
    <2>1. kind \in Kinds
        BY DEF Kinds
    <2>2. Same("c")
        BY <1>1, <1>3, <2>1, Wrote
    <2>3. PICK p \in Packet : p.kind = kind /\ p.body = body /\ Gets("s", p)
        BY <1>1, <1>3, <2>1, Wrote
    <2>4. SaysFor("s", p)
        BY <1>3, <2>3 DEF SaysFor, IsStray, PlayKinds
    <2>5. QED
        BY <2>2, <2>3, <2>4 DEF Adds
<1>4. CASE ClientHandshake \/ ClientResponds \/ ClientPings
    <2>1. Ciphering.body \in Bodies /\ "none" \in Bodies /\ setting.next \in Bodies
        BY <1>1 DEF Ciphering, Bodies
    <2>2. QED
        BY <1>1, <1>2, <1>3, <1>4, <2>1
        DEF ClientHandshake, ClientResponds, ClientPings, ClientWrites
<1>5. CASE ClientStart
    <2>1. UNCHANGED wire \/ Writes("c", "StatusRequest", "none")
          \/ Writes("c", "LoginStart", "none")
        BY <1>5 DEF ClientStart
    <2>2. "none" \in Bodies
        BY DEF Bodies
    <2>3. CASE UNCHANGED wire
        BY <1>2, <2>3 DEF Same, Adds
    <2>4. QED
        BY <1>2, <1>3, <2>1, <2>2, <2>3
<1>6. CASE JoinServer \/ ClientErrs \/ ClientCiphers
    BY <1>2, <1>6 DEF JoinServer, ClientErrs, ClientCiphers, Same, Adds
<1>7. CASE \/ ClientReadsEncryptionRequest \/ ClientReadsSetCompression
           \/ ClientReadsLoginSuccess \/ ClientReadsStatus \/ ClientReadsPong
           \/ ClientReadsWrongPacket
    <2>1. Reading("c")
        BY <1>7 DEF ClientReadsEncryptionRequest, ClientReadsSetCompression,
                    ClientReadsLoginSuccess, ClientReadsStatus, ClientReadsPong,
                    ClientReadsWrongPacket, Reads, Reading
    <2>2. QED
        BY <1>1, <1>2, <2>1, Took DEF Adds
<1>8. QED
    BY <1>4, <1>5, <1>6, <1>7 DEF ClientStep

LEMMA ServerMoves ==
    ASSUME Typed, Framed, ServerStep
    PROVE  /\ UNCHANGED <<cp, loop>> /\ sp # "done"
           /\ Same("s") \/ Takes("s")
           /\ Adds("c")
<1>1. /\ "c" \in Ends /\ "s" \in Ends /\ Other("c") = "s" /\ Other("s") = "c"
    BY DEF Ends, Other
<1>2. UNCHANGED <<cp, loop>> /\ sp # "done"
    BY DEF ServerStep, ServerReadsHandshake, ServerRefuses, ServerReadsLoginStart,
           ServerRequestsEncryption, ServerReadsEncryptionResponse, VerifyJoin,
           ServerWritesSetCompression, ServerWritesLoginSuccess, ServerEntersPlay,
           CheckDuplicate, Join, Insert, ServerHears, ServerSkips, ServerReadsStatusRequest,
           ServerSendsStatus, ServerReadsPing, ServerPongs, ServerErrs, ServerReads,
           ServerWrites, ServerOnly, clientVars, Playing, ServerAwaits
<1>3. ASSUME NEW kind \in Kinds \ {"Handshake", "Chat"}, <<sp, kind>> \in Says,
             framing' \in [Ends -> [Halves -> Codec]], Writes("s", kind, "none")
      PROVE  Same("s") /\ Adds("c")
    <2>1. Same("s")
        BY <1>1, <1>3, Wrote DEF Bodies
    <2>2. PICK p \in Packet : p.kind = kind /\ Gets("c", p)
        BY <1>1, <1>3, Wrote DEF Bodies
    <2>3. SaysFor("c", p)
        BY <1>3, <2>2 DEF SaysFor, IsStray
    <2>4. QED
        BY <2>1, <2>2, <2>3 DEF Adds
<1>4. CASE \/ ServerRefuses \/ ServerRequestsEncryption \/ ServerWritesSetCompression \/ Join
           \/ ServerSendsStatus \/ ServerPongs \/ ServerWritesLoginSuccess
    <2>1. framing' \in [Ends -> [Halves -> Codec]]
        BY <1>4, ServerShape DEF ServerStep, ServerHears, Playing, ServerRefuses,
           ServerRequestsEncryption, ServerWritesSetCompression, Join, ServerSendsStatus,
           ServerPongs, ServerWritesLoginSuccess, ServerWrites
    <2>2. \E kind \in Kinds \ {"Handshake", "Chat"} :
            <<sp, kind>> \in Says /\ Writes("s", kind, "none")
        BY <1>4 DEF ServerRefuses, ServerRequestsEncryption, ServerWritesSetCompression, Join,
           ServerSendsStatus, ServerPongs, ServerWritesLoginSuccess, ServerWrites, Says, Kinds
    <2>3. QED
        BY <1>2, <1>3, <2>1, <2>2
<1>5. CASE ServerHears
    <2> DEFINE p == Written("s", "Chat", "none")
    <2>1. /\ sp \in Playing /\ wire["s"] # <<>> /\ framing' = framing
          /\ wire' = [wire EXCEPT !["s"] = Tail(wire["s"]),
                                  !["c"] = IF sp = "player" THEN Append(wire["c"], p)
                                                            ELSE wire["c"]]
        BY <1>5 DEF ServerHears, Typed
    <2>2. /\ p \in Packet /\ p.kind = "Chat" /\ p.codec = framing["s"]["writer"]
        BY <1>1, <2>1 DEF Written, Packet, Kinds, Bodies, Halves, Typed
    <2>3. framing["s"] = Both(Code("Play", TRUE, Cipher))
        BY <2>1 DEF Framed, ServerFramed, ServerCodec, Playing
    <2>4. ~IsStray(p)
        BY <2>2, <2>3 DEF IsStray, Both, Code, Halves
    <2> HIDE DEF p
    <2>5. Takes("s") /\ (Same("c") \/ (sp = "player" /\ Gets("c", p)))
        BY <1>1, <2>1 DEF Typed, Takes, Same, Gets
    <2>6. sp = "player" => SaysFor("c", p)
        BY <2>2, <2>4 DEF SaysFor, Says
    <2>7. QED
        BY <1>2, <2>2, <2>5, <2>6 DEF Adds
<1>6. CASE \/ ServerReadsHandshake \/ ServerReadsLoginStart \/ ServerReadsEncryptionResponse
           \/ ServerReadsStatusRequest \/ ServerReadsPing \/ ServerSkips
    <2>1. Reading("s")
        BY <1>6 DEF ServerReadsHandshake, ServerReadsLoginStart, ServerReadsEncryptionResponse,
                    ServerReadsStatusRequest, ServerReadsPing, ServerSkips, ServerReads,
                    Reads, Reading
    <2>2. QED
        BY <1>1, <1>2, <2>1, Took DEF Adds
<1>7. CASE VerifyJoin \/ ServerEntersPlay \/ CheckDuplicate \/ Insert \/ ServerErrs
    BY <1>2, <1>7 DEF VerifyJoin, ServerEntersPlay, CheckDuplicate, Insert, ServerErrs,
                      linkVars, Same, Adds
<1>8. QED
    BY <1>4, <1>5, <1>6, <1>7 DEF ServerStep

LEMMA OtherMoves ==
    ASSUME Typed, Framed,
           \/ ClientLoopReads \/ AddPacketReceiver \/ SendChat \/ SendStray
           \/ Abandon \/ DropClient \/ Break
    PROVE  /\ sp' = sp /\ (cp' = cp \/ (cp \in Connecting /\ cp' = "abandoned"))
           /\ Same("c") \/ (Takes("c") /\ cp = "connected")
           /\ Adds("s")
<1>1. /\ "c" \in Ends /\ "s" \in Ends /\ Other("c") = "s"
      /\ framing \in [Ends -> [Halves -> Codec]]
    BY DEF Typed, Ends, Other
<1>2. CASE AddPacketReceiver \/ DropClient \/ Break \/ Abandon
    BY <1>2 DEF AddPacketReceiver, DropClient, Break, Abandon, ClientEnds, ClientGoto,
                ClientOnly, clientVars, serverVars, linkVars, Same, Adds
<1>3. CASE ClientLoopReads
    <2>1. Reading("c") /\ loop = "running" /\ UNCHANGED <<cp, sp>>
        BY <1>3 DEF ClientLoopReads, Reading, ClientOnly, serverVars
    <2>2. cp = "connected"
        BY <2>1 DEF Framed, Ciphered
    <2>3. QED
        BY <1>1, <2>1, <2>2, Took DEF Adds
<1>4. CASE SendChat \/ SendStray
    <2>1. /\ UNCHANGED <<cp, sp, framing>> /\ Writes("c", "Chat", "none")
          /\ cp = "connected" \/ ~Live
        BY <1>4 DEF SendChat, SendStray, ClientOnly, serverVars, Live
    <2>2. Same("c")
        BY <1>1, <2>1, Wrote DEF Kinds, Bodies
    <2>3. PICK p \in Packet : /\ p.kind = "Chat" /\ p.codec = framing["c"]["writer"]
                              /\ Gets("s", p)
        BY <1>1, <2>1, Wrote DEF Kinds, Bodies
    <2>4. cp = "connected" => framing["c"] = Both(Code("Play", TRUE, Cipher))
        BY DEF Framed, ClientFramed, Live, ClientCodec
    <2>5. cp = "connected" => ~IsStray(p)
        BY <2>3, <2>4 DEF IsStray, Both, Code, Halves
    <2>6. SaysFor("s", p)
        BY <1>4, <2>1, <2>3, <2>5 DEF SaysFor, PlayKinds
    <2>7. QED
        BY <2>1, <2>2, <2>3, <2>6 DEF Adds
<1>5. QED
    BY <1>2, <1>3, <1>4

-----------------------------------------------------------------------------
(* What is on the wire was said at its time.                               *)

LEMMA AllStay ==
    ASSUME Typed, NEW e \in Ends, NEW G, \A i \in 1..Len(wire[e]) : wire[e][i] \in G,
           Same(e) \/ Takes(e) \/ \E p \in G : Gets(e, p)
    PROVE  \A i \in 1..Len(wire'[e]) : wire'[e][i] \in G
<1> SUFFICES ASSUME NEW i \in 1..Len(wire'[e]) PROVE wire'[e][i] \in G
    OBVIOUS
<1>1. wire[e] \in Seq(Packet)
    BY DEF Typed
<1>2. CASE Same(e)
    BY <1>2 DEF Same
<1>3. CASE Takes(e)
    <2>1. i + 1 \in 1..Len(wire[e]) /\ wire'[e][i] = wire[e][i + 1]
        BY <1>1, <1>3 DEF Takes
    <2>2. QED
        BY <2>1
<1>4. ASSUME NEW p \in G, Gets(e, p)
      PROVE  wire'[e][i] \in G
    <2>1. wire'[e][i] = p \/ (i \in 1..Len(wire[e]) /\ wire'[e][i] = wire[e][i])
        BY <1>1, <1>4 DEF Gets
    <2>2. QED
        BY <2>1
<1>5. QED
    BY <1>2, <1>3, <1>4

ForClient == {p \in Packet : ~IsStray(p) /\ (p.kind = "LoginDisconnect" => setting.full)}
ForServer == {p \in Packet : /\ Live => ~IsStray(p)
                             /\ p.kind = "EncryptionResponse" => p.body = Ciphering.body}

LEMMA MeantAsSets ==
    ASSUME Typed
    PROVE  Meant <=> /\ \A i \in 1..Len(wire["c"]) : wire["c"][i] \in ForClient
                     /\ \A i \in 1..Len(wire["s"]) : wire["s"][i] \in ForServer
                     /\ sp = "full" => setting.full
<1>1. wire["c"] \in Seq(Packet) /\ wire["s"] \in Seq(Packet)
    BY DEF Typed, Ends
<1>2. /\ \A i \in 1..Len(wire["c"]) : wire["c"][i] \in Packet
      /\ \A i \in 1..Len(wire["s"]) : wire["s"][i] \in Packet
    BY <1>1
<1>3. QED
    BY <1>2 DEF Meant, ForClient, ForServer

LEMMA MeantStays ==
    ASSUME Typed, Meant, setting' = setting, Live' => Live,
           Same("c") \/ Takes("c") \/ \E p \in Packet : Gets("c", p) /\ SaysFor("c", p),
           Same("s") \/ Takes("s") \/ \E p \in Packet : Gets("s", p) /\ SaysFor("s", p),
           sp' = "full" => setting.full
    PROVE  Meant'
<1>1. /\ "c" \in Ends /\ "s" \in Ends
      /\ \A i \in 1..Len(wire["c"]) : wire["c"][i] \in ForClient
      /\ \A i \in 1..Len(wire["s"]) : wire["s"][i] \in ForServer
      /\ sp = "full" => setting.full
    BY MeantAsSets DEF Ends
<1>2. \A p \in Packet : SaysFor("c", p) => p \in ForClient
    BY <1>1 DEF SaysFor, ForClient, Says
<1>3. \A p \in Packet : SaysFor("s", p) => p \in ForServer
    BY DEF SaysFor, ForServer
<1>4. \A i \in 1..Len(wire'["c"]) : wire'["c"][i] \in ForClient
    BY <1>1, <1>2, AllStay
<1>5. \A i \in 1..Len(wire'["s"]) : wire'["s"][i] \in ForServer
    BY <1>1, <1>3, AllStay
<1>6. Ciphering' = Ciphering
    BY DEF Ciphering
<1>7. QED
    BY <1>4, <1>5, <1>6 DEF Meant, ForClient, ForServer

LEMMA MeantNext ==
    ASSUME Typed, Framed, Meant, setting' = setting, [Next]_vars
    PROVE  Meant'
<1>1. CASE ClientStep
    <2>1. Live
        BY <1>1, ClientMoves DEF Connecting, Live
    <2>2. QED
        BY <1>1, <2>1, ClientMoves, MeantStays DEF Adds, Meant
<1>2. CASE ServerStep
    <2>1. sp' = "full" => setting.full
        BY <1>2
        DEF Meant, ServerStep, ServerReadsHandshake, ServerRefuses, ServerReadsLoginStart,
           ServerRequestsEncryption, ServerReadsEncryptionResponse, VerifyJoin,
           ServerWritesSetCompression, ServerWritesLoginSuccess, ServerEntersPlay,
           CheckDuplicate, Join, Insert, ServerHears, ServerSkips, ServerReadsStatusRequest,
           ServerSendsStatus, ServerReadsPing, ServerPongs, ServerErrs, ServerReads,
           ServerWrites, ServerGoto, ServerEnds, serverVars
    <2>2. Live' <=> Live
        BY <1>2, ServerMoves DEF Live
    <2>3. QED
        BY <1>2, <2>1, <2>2, ServerMoves, MeantStays DEF Adds
<1>3. CASE \/ ClientLoopReads \/ AddPacketReceiver \/ SendChat \/ SendStray
           \/ Abandon \/ DropClient \/ Break
    <2>1. Live' => Live
        BY <1>3, OtherMoves DEF Live, Connecting
    <2>2. QED
        BY <1>3, <2>1, OtherMoves, MeantStays DEF Adds, Meant
<1>4. CASE UNCHANGED vars
    <2>1. UNCHANGED <<cp, sp, wire>>
        BY <1>4 DEF vars, clientVars, serverVars, linkVars
    <2>2. Same("c") /\ Same("s") /\ (Live' <=> Live)
        BY <2>1 DEF Same, Live
    <2>3. QED
        BY <2>1, <2>2, MeantStays DEF Meant
<1>5. QED
    BY <1>1, <1>2, <1>3, <1>4 DEF Next

-----------------------------------------------------------------------------
(* Who still has a socket, and what stays explained.                       *)

LEMMA ReasonsLast ==
    ASSUME [Next]_vars, setting' = setting, Explained
    PROVE  Explained'
<1>1. cut => cut'
    BY DEF Next, ClientStep, ClientHandshake, ClientStart, ClientReadsEncryptionRequest,
           JoinServer, ClientResponds, ClientCiphers, ClientReadsSetCompression,
           ClientReadsLoginSuccess, ClientReadsStatus, ClientPings, ClientReadsPong,
           ClientReadsWrongPacket, ClientErrs, ClientWrites, ClientOnly, history,
           ServerStep, ServerReadsHandshake, ServerRefuses, ServerReadsLoginStart,
           ServerRequestsEncryption, ServerReadsEncryptionResponse, VerifyJoin,
           ServerWritesSetCompression, ServerWritesLoginSuccess, ServerEntersPlay,
           CheckDuplicate, Join, Insert, ServerHears, ServerSkips, ServerReadsStatusRequest,
           ServerSendsStatus, ServerReadsPing, ServerPongs, ServerErrs, ServerReads,
           ServerWrites, ServerOnly, ClientLoopReads, AddPacketReceiver, SendChat, SendStray,
           Abandon, DropClient, Break, vars
<1>2. refused => refused'
    BY DEF Next, ClientStep, ClientHandshake, ClientStart, ClientReadsEncryptionRequest,
           JoinServer, ClientResponds, ClientCiphers, ClientReadsSetCompression,
           ClientReadsLoginSuccess, ClientReadsStatus, ClientPings, ClientReadsPong,
           ClientReadsWrongPacket, ClientErrs, ClientWrites, ClientOnly, history,
           ServerStep, ServerReadsHandshake, ServerRefuses, ServerReadsLoginStart,
           ServerRequestsEncryption, ServerReadsEncryptionResponse, VerifyJoin,
           ServerWritesSetCompression, ServerWritesLoginSuccess, ServerEntersPlay,
           CheckDuplicate, Join, Insert, ServerHears, ServerSkips, ServerReadsStatusRequest,
           ServerSendsStatus, ServerReadsPing, ServerPongs, ServerErrs, ServerReads,
           ServerWrites, ServerOnly, ClientLoopReads, AddPacketReceiver, SendChat, SendStray,
           Abandon, DropClient, Break, vars
<1>3. QED
    BY <1>1, <1>2 DEF Explained

LEMMA ClosedAtEnd ==
    ASSUME Held, NEW e \in Ends, Close(e)
    PROVE  open' \in [Ends -> BOOLEAN] /\ open'[Other(e)] = open[Other(e)]
BY DEF Held, Close, Other, Ends

LEMMA HeldNext ==
    ASSUME Typed, Framed, Held, [Next]_vars
    PROVE  Held'
<1>1. "c" \in Ends /\ "s" \in Ends /\ Other("c") = "s" /\ Other("s") = "c"
    BY DEF Ends, Other
<1>2. CASE ClientStep
    <2>1. LinkStays \/ (Close("c") /\ cp' \notin Connecting)
        BY <1>2 DEF ClientStep, ClientHandshake, ClientStart, ClientReadsEncryptionRequest,
           JoinServer, ClientResponds, ClientCiphers, ClientReadsSetCompression,
           ClientReadsLoginSuccess, ClientReadsStatus, ClientPings, ClientReadsPong,
           ClientReadsWrongPacket, ClientErrs, ClientWrites, ClientEnds, ClientGoto, Connecting
    <2>2. sp' = sp /\ cp \in Connecting
        BY <1>2, ClientMoves
    <2>3. QED
        BY <1>1, <2>1, <2>2, ClosedAtEnd DEF Held, LinkStays
<1>3. CASE ServerStep
    <2>1. UNCHANGED open \/ (Close("s") /\ sp' = "done")
        BY <1>3 DEF ServerStep, ServerReadsHandshake, ServerRefuses, ServerReadsLoginStart,
           ServerRequestsEncryption, ServerReadsEncryptionResponse, VerifyJoin,
           ServerWritesSetCompression, ServerWritesLoginSuccess, ServerEntersPlay,
           CheckDuplicate, Join, Insert, ServerHears, ServerSkips, ServerReadsStatusRequest,
           ServerSendsStatus, ServerReadsPing, ServerPongs, ServerErrs, ServerReads,
           ServerWrites, ServerEnds, ServerGoto, LinkStays, linkVars
    <2>2. cp' = cp /\ sp # "done"
        BY <1>3, ServerMoves
    <2>3. QED
        BY <1>1, <2>1, <2>2, ClosedAtEnd DEF Held
<1>4. CASE \/ ClientLoopReads \/ AddPacketReceiver \/ SendChat \/ SendStray
           \/ Abandon \/ DropClient \/ Break
    <2>1. \/ UNCHANGED open
          \/ Close("c") /\ cp' \notin Connecting
        BY <1>4 DEF ClientLoopReads, AddPacketReceiver, SendChat, SendStray, Abandon, DropClient,
                    Break, ClientEnds, ClientGoto, LinkStays, linkVars, clientVars, Connecting
    <2>2. sp' = sp /\ (cp' \in Connecting => cp \in Connecting)
        BY <1>4, OtherMoves DEF Connecting
    <2>3. QED
        BY <1>1, <2>1, <2>2, ClosedAtEnd DEF Held
<1>5. CASE UNCHANGED vars
    BY <1>5 DEF vars, clientVars, serverVars, linkVars, Held
<1>6. QED
    BY <1>2, <1>3, <1>4, <1>5 DEF Next

-----------------------------------------------------------------------------
(* Nothing is on its way to a client that is about to write.               *)

LEMMA Alone ==
    ASSUME NEW w \in Seq(Packet), w # <<>>, Len(w) <= 1
    PROVE  Tail(w) = <<>>
<1>1. Len(w) \in Nat /\ Len(w) # 0
    OBVIOUS
<1>2. Len(w) = 1
    <2>1. \A n \in Nat : n <= 1 /\ n # 0 => n = 1
        OBVIOUS
    <2>2. QED
        BY <1>1, <2>1
<1>3. Tail(w) \in Seq(Packet) /\ Len(Tail(w)) = Len(w) - 1
    BY <1>1
<1>4. Len(Tail(w)) = 0
    BY <1>2, <1>3
<1>5. QED
    BY <1>3, <1>4

LEMMA QuietNext ==
    ASSUME Sound, Meant, Quiet, setting' = setting, [Next]_vars, ~Explained
    PROVE  Quiet'
<1>1. /\ wire["c"] \in Seq(Packet) /\ Len(wire["c"]) \in Nat
      /\ cp \in ToWrite => wire["c"] = <<>>
      /\ Asking => Len(wire["c"]) <= 1
      /\ Typed /\ Framed
    BY DEF Quiet, Sound, Typed, Ends, ToWrite, Asking
<1>2. ASSUME cp' \in ToWrite => wire'["c"] = <<>>, Asking' => Len(wire'["c"]) <= 1
      PROVE  Quiet'
    BY <1>2 DEF Quiet, ToWrite, Asking
<1>3. Len(<<>>) = 0
    OBVIOUS
<1>4. CASE ClientStep
    <2>1. Same("c") \/ Takes("c")
        BY <1>1, <1>4, ClientMoves
    <2>2. \/ cp \in ToWrite /\ Same("c")
          \/ Asking /\ cp' = "ping" /\ Takes("c")
          \/ Asking /\ cp' = "join" /\ Takes("c")
          \/ cp' \notin ToWrite \cup {"login", "status"}
        <3>1. CASE ClientHandshake \/ ClientStart \/ JoinServer \/ ClientResponds \/ ClientPings
            <4>1. cp \in ToWrite
                BY <3>1 DEF ClientHandshake, ClientStart, JoinServer, ClientResponds, ClientPings,
                            ClientWrites, ToWrite
            <4>2. CASE ClientHandshake \/ ClientResponds \/ ClientPings
                BY <4>1, <4>2 DEF ClientHandshake, ClientResponds, ClientPings, ClientWrites,
                                  Writes, Same, Other, Sound, Typed, Ends
            <4>3. CASE ClientStart \/ JoinServer
                BY <4>1, <4>3 DEF ClientStart, JoinServer, Writes, Same, Other, Sound, Typed, Ends
            <4>4. QED
                BY <3>1, <4>2, <4>3
        <3>2. CASE ClientReadsEncryptionRequest
            <4>1. /\ cp = "login" /\ cp' \in {"failed", "join"} /\ Reading("c")
                  /\ Head(wire["c"]).kind = "EncryptionRequest" /\ wire["c"] # <<>>
                BY <3>2 DEF ClientReadsEncryptionRequest, ClientGoto, Reads, Reading
            <4>2. Takes("c") /\ setting.online
                BY <1>1, <4>1, Took, Heads
                DEF Ends, Live, ClientComing, LoginAnswers, IsStray
            <4>3. QED
                BY <4>1, <4>2 DEF ToWrite, Asking
        <3>3. CASE ClientReadsStatus
            <4>1. cp = "status" /\ cp' \in {"answered", "ping"} /\ Reading("c")
                BY <3>3 DEF ClientReadsStatus, ClientGoto, Reads, Reading
            <4>2. Takes("c")
                BY <1>1, <4>1, Took DEF Ends
            <4>3. QED
                BY <4>1, <4>2 DEF ToWrite, Asking
        <3>4. CASE \/ ClientCiphers \/ ClientReadsSetCompression \/ ClientReadsLoginSuccess
                   \/ ClientReadsPong \/ ClientReadsWrongPacket \/ ClientErrs
            BY <3>4 DEF ClientCiphers, ClientReadsSetCompression, ClientReadsLoginSuccess,
                        ClientReadsPong, ClientReadsWrongPacket, ClientErrs, ClientEnds,
                        ClientGoto, ToWrite
        <3>5. QED
            BY <1>4, <3>1, <3>2, <3>3, <3>4 DEF ClientStep
    <2>3. CASE cp \in ToWrite /\ Same("c")
        BY <1>1, <1>2, <1>3, <2>3 DEF Same
    <2>4. CASE Asking /\ cp' \in {"ping", "join"} /\ Takes("c")
        <3>1. Len(wire["c"]) <= 1 /\ wire["c"] # <<>> /\ wire'["c"] = Tail(wire["c"])
            BY <1>1, <2>4 DEF Takes
        <3>2. wire'["c"] = <<>>
            BY <1>1, <3>1, Alone
        <3>3. QED
            BY <1>2, <1>3, <3>2
    <2>5. CASE cp' \notin ToWrite \cup {"login", "status"}
        BY <1>2, <2>5 DEF Asking
    <2>6. QED
        BY <2>2, <2>3, <2>4, <2>5 DEF Asking
<1>5. CASE ServerStep
    <2>1. cp' = cp /\ sp # "done" /\ Adds("c")
        BY <1>1, <1>5, ServerMoves
    <2>2. Asking' = Asking
        BY <2>1 DEF Asking
    <2>3. CASE Same("c")
        BY <1>1, <1>2, <2>1, <2>2, <2>3 DEF Same
    <2>4. CASE cp \in ToWrite \/ Asking
        <3> SUFFICES ASSUME NEW p \in Packet, Gets("c", p), SaysFor("c", p)
                     PROVE  Quiet'
            BY <2>1, <2>3 DEF Adds
        <3>1. Live /\ sp # "full" /\ <<sp, p.kind>> \in Says
            BY <2>4 DEF Live, ToWrite, Asking, Meant, Explained, SaysFor
        <3>2. sp \in {"request", "status_response"} /\ wire["c"] = <<>> /\ cp \notin ToWrite
            BY <1>1, <2>1, <2>4, <3>1, Places DEF ToWrite, Asking, Says
        <3>3. wire'["c"] = <<p>> /\ Len(<<p>>) = 1
            BY <3>2 DEF Gets
        <3>4. QED
            BY <1>2, <2>1, <3>2, <3>3
    <2>5. QED
        BY <1>2, <2>1, <2>2, <2>4
<1>6. CASE \/ ClientLoopReads \/ AddPacketReceiver \/ SendChat \/ SendStray
           \/ Abandon \/ DropClient \/ Break
    <2>1. /\ cp' = cp \/ cp' = "abandoned"
          /\ Same("c") \/ cp = "connected"
        BY <1>1, <1>6, OtherMoves
    <2>2. QED
        BY <1>1, <1>2, <2>1 DEF Same, ToWrite, Asking
<1>7. CASE UNCHANGED vars
    <2>1. cp' = cp /\ Same("c")
        BY <1>7 DEF vars, clientVars, linkVars, Same
    <2>2. QED
        BY <1>1, <1>2, <2>1 DEF Same, Asking
<1>8. QED
    BY <1>4, <1>5, <1>6, <1>7 DEF Next

-----------------------------------------------------------------------------
(* A server that is done has said so.                                      *)

LEMMA LastOf ==
    ASSUME NEW w \in Seq(Packet)
    PROVE  /\ \A p \in Packet : Append(w, p) # <<>> /\ Last(Append(w, p)) = p
           /\ w # <<>> /\ Last(w) # Head(w) => Tail(w) # <<>> /\ Last(Tail(w)) = Last(w)
<1>1. Len(w) \in Nat
    OBVIOUS
<1>2. ASSUME NEW p \in Packet PROVE Append(w, p) # <<>> /\ Last(Append(w, p)) = p
    BY <1>1 DEF Last
<1>3. ASSUME w # <<>>, Last(w) # Head(w)
      PROVE  Tail(w) # <<>> /\ Last(Tail(w)) = Last(w)
    <2>1. Len(w) >= 2
        BY <1>3 DEF Last
    <2>2. Len(Tail(w)) = Len(w) - 1 /\ Tail(w)[Len(w) - 1] = w[Len(w)]
        BY <2>1
    <2>3. Tail(w) # <<>>
        <3>1. Len(w) - 1 # 0
            <4>1. \A n \in Nat : n >= 2 => n - 1 # 0
                OBVIOUS
            <4>2. QED
                BY <1>1, <2>1, <4>1
        <3>2. Len(<<>>) = 0
            OBVIOUS
        <3>3. QED
            BY <2>2, <3>1, <3>2
    <2>4. Last(Tail(w)) = Tail(w)[Len(w) - 1]
        BY <2>2 DEF Last
    <2>5. QED
        BY <2>2, <2>3, <2>4 DEF Last
<1>4. QED
    BY <1>2, <1>3

\* How a server that has not been broken off ends its task.
LEMMA ServerIsDone ==
    ASSUME Sound, Held, Meant, Whole, ServerStep, sp' = "done", cp \in Connecting,
           ~Explained, ~Explained', setting' = setting
    PROVE  /\ \E p \in Packet : Gets("c", p) /\ p.kind \in Farewells
           /\ wire'["s"] = <<>>
<1>1. /\ Typed /\ Framed /\ Live /\ open["c"]
      /\ "c" \in Ends /\ "s" \in Ends /\ Other("c") = "s" /\ Other("s") = "c"
      /\ wire["s"] # <<>> => ~IsStray(Head(wire["s"]))
    <2>1. Live /\ open["c"] /\ Typed /\ Framed
        BY DEF Live, Connecting, Held, Sound
    <2>2. wire["s"] # <<>> => Head(wire["s"]) = wire["s"][1] /\ 1 \in 1..Len(wire["s"])
        BY <2>1, KindsOf DEF Ends
    <2>3. QED
        BY <2>1, <2>2 DEF Meant, Ends, Other
<1>2. ASSUME NEW kind \in Farewells, UNCHANGED framing, Writes("s", kind, "none")
      PROVE  /\ \E p \in Packet : Gets("c", p) /\ p.kind \in Farewells
             /\ Same("s")
    <2>1. kind \in Kinds \ {"Handshake"} /\ framing' \in [Ends -> [Halves -> Codec]]
        BY <1>1, <1>2 DEF Farewells, Kinds, Typed
    <2>2. QED
        BY <1>1, <1>2, <2>1, Wrote DEF Bodies
<1>3. wire["s"] = <<>> \/ sp \notin {"kick", "status_pong"}
    <2> SUFFICES ASSUME wire["s"] # <<>>, sp \in {"kick", "status_pong"} PROVE FALSE
        OBVIOUS
    <2>1. Head(wire["s"]).kind \in ServerComing /\ Head(wire["s"]).kind \in Kinds
        BY <1>1, Heads
    <2>2. Head(wire["s"]).kind \notin PlayKinds
        BY <1>1, KindsOf DEF Whole
    <2>3. QED
        BY <2>1, <2>2 DEF ServerComing, Over, Kinds
<1>4. CASE ServerRefuses
    <2>1. UNCHANGED framing /\ Writes("s", "PlayDisconnect", "none") /\ sp = "kick"
        BY <1>4 DEF ServerRefuses, Meant, Explained
    <2>2. QED
        BY <1>2, <1>3, <2>1 DEF Farewells, Same
<1>5. CASE ServerPongs
    <2>1. UNCHANGED framing /\ Writes("s", "StatusPong", "none") /\ sp = "status_pong"
        BY <1>5 DEF ServerPongs
    <2>2. QED
        BY <1>2, <1>3, <2>1 DEF Farewells, Same
<1>6. CASE ServerReadsEncryptionResponse
    <2>1. /\ sp = "encryption" /\ wire["s"] # <<>> /\ Head(wire["s"]).kind = "EncryptionResponse"
          /\ Head(wire["s"]).body # "secret"
        BY <1>6 DEF ServerReadsEncryptionResponse, ServerGoto, Reads
    <2>2. Head(wire["s"]).body = Ciphering.body
        BY <1>1, <2>1, KindsOf DEF Meant
    <2>3. setting.peer = "client" /\ setting.online
        BY <1>1, <2>1, <2>2 DEF Ciphering, Framed, Ciphered
    <2>4. QED
        BY <2>3 DEF Explained
<1>7. CASE VerifyJoin
    BY <1>7 DEF VerifyJoin, ServerGoto, Explained
<1>8. CASE ServerErrs
    <2>1. broken \/ (sp \in ServerAwaits /\ wire["s"] # <<>> /\ ~Readable("s"))
        BY <1>1, <1>8 DEF ServerErrs, ReadErrs, WriteFails
    <2>2. broken
        BY <1>1, <2>1, ServerReadsWell DEF Awaits
    <2>3. QED
        BY <2>2 DEF Whole
<1>9. ~ \/ ServerReadsHandshake \/ ServerReadsLoginStart \/ ServerRequestsEncryption
        \/ ServerWritesSetCompression \/ ServerWritesLoginSuccess \/ ServerEntersPlay
        \/ CheckDuplicate \/ Join \/ Insert \/ ServerHears \/ ServerReadsStatusRequest
        \/ ServerSendsStatus \/ ServerReadsPing \/ ServerSkips
    BY DEF ServerReadsHandshake, ServerReadsLoginStart, ServerRequestsEncryption,
           ServerWritesSetCompression, ServerWritesLoginSuccess, ServerEntersPlay,
           CheckDuplicate, Join, Insert, ServerHears, ServerReadsStatusRequest,
           ServerSendsStatus, ServerReadsPing, ServerSkips, ServerReads, ServerWrites,
           ServerGoto, Playing, serverVars
<1>10. QED
    BY <1>4, <1>5, <1>6, <1>7, <1>8, <1>9 DEF ServerStep

LEMMA EndedNext ==
    ASSUME Sound, Held, Meant, Ended, Whole, setting' = setting, [Next]_vars,
           ~Explained, ~Explained'
    PROVE  Ended'
<1> SUFFICES ASSUME sp' = "done", cp' \in Connecting
             PROVE  wire'["c"] # <<>> /\ Last(wire'["c"]).kind \in Farewells
    BY DEF Ended, Farewells
<1>1. Typed /\ Framed /\ wire["c"] \in Seq(Packet)
    BY DEF Sound, Typed, Ends
<1>2. ASSUME sp = "done", cp \in Connecting
      PROVE  wire["c"] # <<>> /\ Last(wire["c"]).kind \in Farewells
    BY <1>2 DEF Ended, Farewells
<1>3. CASE ClientStep
    <2>1. sp = "done" /\ cp \in Connecting /\ (Same("c") \/ Takes("c"))
        BY <1>1, <1>3, ClientMoves
    <2>2. \/ Same("c")
          \/ /\ Takes("c")
             /\ Head(wire["c"]).kind \in {"EncryptionRequest", "SetCompression", "StatusResponse"}
        <3>1. CASE \/ ClientReadsEncryptionRequest \/ ClientReadsSetCompression
                   \/ ClientReadsStatus
            BY <2>1, <3>1 DEF ClientReadsEncryptionRequest, ClientReadsSetCompression,
                              ClientReadsStatus, Reads
        <3>2. CASE \/ ClientReadsLoginSuccess \/ ClientReadsPong \/ ClientReadsWrongPacket
                   \/ ClientErrs
            BY <3>2 DEF ClientReadsLoginSuccess, ClientReadsPong, ClientReadsWrongPacket,
                        ClientErrs, ClientEnds, ClientGoto, Connecting
        <3>3. CASE JoinServer \/ ClientCiphers
            BY <3>3 DEF JoinServer, ClientCiphers, Same
        <3>4. CASE ClientHandshake \/ ClientStart \/ ClientResponds \/ ClientPings
            BY <1>1, <3>4 DEF ClientHandshake, ClientStart, ClientResponds, ClientPings,
                              ClientWrites, Writes, Same, Other, Typed, Ends
        <3>5. QED
            BY <1>3, <3>1, <3>2, <3>3, <3>4 DEF ClientStep
    <2>3. CASE Same("c")
        BY <1>2, <2>1, <2>3 DEF Same
    <2>4. CASE /\ Takes("c")
               /\ Head(wire["c"]).kind \in {"EncryptionRequest", "SetCompression", "StatusResponse"}
        <3>1. wire["c"] # <<>> /\ Last(wire["c"]) # Head(wire["c"])
            BY <1>2, <2>1, <2>4 DEF Farewells
        <3>2. QED
            BY <1>1, <1>2, <2>1, <2>4, <3>1, LastOf DEF Takes
    <2>5. QED
        BY <2>2, <2>3, <2>4
<1>4. CASE ServerStep
    <2>1. cp \in Connecting
        BY <1>1, <1>4, ServerMoves
    <2>2. PICK p \in Packet : Gets("c", p) /\ p.kind \in Farewells
        BY <1>4, <2>1, ServerIsDone
    <2>3. QED
        BY <1>1, <2>2, LastOf DEF Gets
<1>5. CASE \/ ClientLoopReads \/ AddPacketReceiver \/ SendChat \/ SendStray
           \/ Abandon \/ DropClient \/ Break
    <2>1. sp = "done" /\ cp \in Connecting /\ Same("c")
        BY <1>1, <1>5, OtherMoves DEF Connecting
    <2>2. QED
        BY <1>2, <2>1 DEF Same
<1>6. CASE UNCHANGED vars
    <2>1. sp = "done" /\ cp \in Connecting /\ Same("c")
        BY <1>6 DEF vars, clientVars, serverVars, linkVars, Same
    <2>2. QED
        BY <1>2, <2>1 DEF Same
<1>7. QED
    BY <1>3, <1>4, <1>5, <1>6 DEF Next

-----------------------------------------------------------------------------
(* Nobody resets the connection of a client that is connecting.            *)

NotPlay == {p \in Packet : p.kind \notin PlayKinds}

LEMMA WholeNext ==
    ASSUME Sound, Held, Meant, Whole, setting' = setting, [Next]_vars
    PROVE  Whole'
<1>1. /\ Typed /\ Framed /\ "s" \in Ends /\ wire["s"] \in Seq(Packet)
      /\ ~Explained' => ~Explained
    BY ReasonsLast DEF Sound, Typed, Ends
<1> SUFFICES ASSUME cp' \in Connecting
             PROVE  /\ ~Explained' => ~broken'
                    /\ \A i \in 1..Len(wire'["s"]) : wire'["s"][i].kind \notin PlayKinds
    BY DEF Whole, PlayKinds
<1>2. cp \in Connecting
    <2>1. CASE ServerStep
        BY <1>1, <2>1, ServerMoves
    <2>2. CASE ClientStep
        BY <1>1, <2>2, ClientMoves
    <2>3. CASE \/ ClientLoopReads \/ AddPacketReceiver \/ SendChat \/ SendStray
               \/ Abandon \/ DropClient \/ Break
        BY <1>1, <2>3, OtherMoves
    <2>4. CASE UNCHANGED vars
        BY <2>4 DEF vars, clientVars
    <2>5. QED
        BY <2>1, <2>2, <2>3, <2>4 DEF Next
<1>3. ~SendChat /\ ~SendStray
    BY <1>2 DEF SendChat, SendStray, Connecting
<1>4. \A i \in 1..Len(wire["s"]) : wire["s"][i] \in NotPlay
    BY <1>1, <1>2 DEF Whole, NotPlay
<1>5. Same("s") \/ Takes("s") \/ \E p \in NotPlay : Gets("s", p)
    <2>1. Adds("s") \/ Same("s") \/ Takes("s")
        <3>1. CASE ServerStep
            BY <1>1, <3>1, ServerMoves
        <3>2. CASE ClientStep
            BY <1>1, <3>2, ClientMoves
        <3>3. CASE \/ ClientLoopReads \/ AddPacketReceiver \/ SendChat \/ SendStray
                   \/ Abandon \/ DropClient \/ Break
            BY <1>1, <3>3, OtherMoves
        <3>4. CASE UNCHANGED vars
            BY <3>4 DEF vars, linkVars, Same
        <3>5. QED
            BY <3>1, <3>2, <3>3, <3>4 DEF Next
    <2>2. \A p \in Packet : SaysFor("s", p) => p \in NotPlay
        BY <1>3 DEF SaysFor, NotPlay, PlayKinds
    <2>3. QED
        BY <2>1, <2>2 DEF Adds
<1>6. \A i \in 1..Len(wire'["s"]) : wire'["s"][i] \in NotPlay
    BY <1>1, <1>4, <1>5, AllStay
<1>7. ASSUME ~Explained', broken' PROVE FALSE
    <2>1. ~Explained /\ ~broken
        BY <1>1, <1>2, <1>7 DEF Whole
    <2>2. CASE ServerStep
        <3>1. UNCHANGED broken \/ (Close("s") /\ sp' = "done")
            BY <2>2 DEF ServerStep, ServerReadsHandshake, ServerRefuses, ServerReadsLoginStart,
               ServerRequestsEncryption, ServerReadsEncryptionResponse, VerifyJoin,
               ServerWritesSetCompression, ServerWritesLoginSuccess, ServerEntersPlay,
               CheckDuplicate, Join, Insert, ServerHears, ServerSkips, ServerReadsStatusRequest,
               ServerSendsStatus, ServerReadsPing, ServerPongs, ServerErrs, ServerReads,
               ServerWrites, ServerEnds, ServerGoto, LinkStays, linkVars
        <3>2. sp' = "done" => wire'["s"] = <<>>
            BY <1>2, <1>7, <2>1, <2>2, ServerIsDone
        <3>3. QED
            BY <1>7, <2>1, <3>1, <3>2 DEF Close
    <2>3. CASE ClientStep
        <3>1. UNCHANGED broken \/ cp' \notin Connecting
            BY <2>3 DEF ClientStep, ClientHandshake, ClientStart, ClientReadsEncryptionRequest,
               JoinServer, ClientResponds, ClientCiphers, ClientReadsSetCompression,
               ClientReadsLoginSuccess, ClientReadsStatus, ClientPings, ClientReadsPong,
               ClientReadsWrongPacket, ClientErrs, ClientWrites, ClientEnds, ClientGoto,
               LinkStays, Connecting
        <3>2. QED
            BY <1>7, <2>1, <3>1
    <2>4. CASE \/ ClientLoopReads \/ AddPacketReceiver \/ SendChat \/ SendStray
               \/ Abandon \/ DropClient \/ Break
        <3>1. UNCHANGED broken \/ cut' \/ cp' \notin Connecting
            BY <1>2, <2>4 DEF ClientLoopReads, AddPacketReceiver, SendChat, SendStray, Abandon,
                  DropClient, Break, ClientEnds, ClientGoto, LinkStays, linkVars, Connecting
        <3>2. QED
            BY <1>7, <2>1, <3>1 DEF Explained
    <2>5. CASE UNCHANGED vars
        BY <1>7, <2>1, <2>5 DEF vars, linkVars
    <2>6. QED
        BY <2>2, <2>3, <2>4, <2>5 DEF Next
<1>8. QED
    BY <1>6, <1>7 DEF NotPlay

-----------------------------------------------------------------------------
(* Why the client fails.                                                   *)

LEMMA ClientFailsForReason ==
    ASSUME Sound, Plain, ClientStep, setting' = setting, cp' = "failed"
    PROVE  Explained'
<1> SUFFICES ASSUME ~Explained PROVE Explained'
    <2>1. [Next]_vars
        BY DEF Next
    <2>2. QED
        BY <2>1, ReasonsLast
<1>1. /\ Typed /\ Framed /\ Held /\ Meant /\ Quiet /\ Ended /\ Whole
      /\ wire["c"] # <<>> => /\ ~IsStray(Head(wire["c"]))
                             /\ Head(wire["c"]).kind # "LoginDisconnect"
    <2>1. Typed /\ Framed /\ Held /\ Meant /\ Quiet /\ Ended /\ Whole
        BY DEF Sound, Plain
    <2>2. wire["c"] # <<>> => Head(wire["c"]) = wire["c"][1] /\ 1 \in 1..Len(wire["c"])
        BY <2>1, KindsOf DEF Ends
    <2>3. QED
        BY <2>1, <2>2 DEF Meant, Explained
<1>2. CASE ClientStart
    <2>1. setting.peer = "nameless"
        BY <1>2 DEF ClientStart, ClientGoto
    <2>2. QED
        BY <2>1 DEF Explained
<1>3. CASE JoinServer
    BY <1>3 DEF JoinServer, ClientGoto, Explained
<1>4. CASE ClientReadsEncryptionRequest
    <2>1. /\ setting.peer = "client" /\ cp = "login" /\ wire["c"] # <<>>
          /\ Head(wire["c"]).kind = "EncryptionRequest"
        BY <1>4 DEF ClientReadsEncryptionRequest, ClientGoto, Reads
    <2>2. setting.online
        BY <1>1, <2>1, Heads DEF Live, ClientComing, LoginAnswers
    <2>3. QED
        BY <2>1, <2>2 DEF Explained
<1>5. CASE ClientCiphers
    <2>1. setting.peer = "client" /\ cp = "ciphering"
        BY <1>5 DEF ClientCiphers, ClientGoto
    <2>2. QED
        BY <1>1, <2>1 DEF Framed, Ciphered, Explained
<1>6. CASE ClientReadsWrongPacket
    <2>1. PICK kind \in Kinds \ Expected : Reads("c", kind)
        BY <1>6 DEF ClientReadsWrongPacket
    <2>2. cp \in ClientAwaits /\ wire["c"] # <<>> /\ Head(wire["c"]).kind = kind
        BY <1>6, <2>1 DEF ClientReadsWrongPacket, Reads
    <2>3. Live /\ Over \notin Kinds
        BY <2>2 DEF Live, ClientAwaits, Over, Kinds
    <2>4. kind \in ClientComing \ {"LoginDisconnect"}
        BY <1>1, <2>2, <2>3, Heads
    <2>5. QED
        BY <2>1, <2>2, <2>3, <2>4 DEF ClientComing, LoginAnswers, Expected, ClientAwaits
<1>7. CASE ClientErrs
    <2>1. \/ broken
          \/ ~open["s"] /\ wire["c"] = <<>> /\ cp \in ClientAwaits
          \/ ~open["s"] /\ cp \in {"dialed", "greeting", "respond", "ping"}
          \/ cp \in ClientAwaits /\ wire["c"] # <<>> /\ ~Readable("c")
        BY <1>7 DEF ClientErrs, ReadErrs, WriteFails, Other
    <2>2. ~broken
        BY <1>1, <1>7, ClientMoves DEF Whole
    <2>3. ASSUME ~open["s"]
          PROVE  wire["c"] # <<>>
        BY <1>1, <1>7, <2>3 DEF Held, Ended, ClientErrs, ClientAwaits, Connecting
    <2>4. cp \in {"dialed", "greeting", "respond", "ping"} => wire["c"] = <<>>
        BY <1>1 DEF Quiet, ToWrite
    <2>5. cp \in ClientAwaits /\ wire["c"] # <<>> => Readable("c")
        BY <1>1, ClientReadsWell DEF Awaits
    <2>6. QED
        BY <2>1, <2>2, <2>3, <2>4, <2>5
<1>8. CASE \/ ClientHandshake \/ ClientResponds \/ ClientReadsSetCompression
           \/ ClientReadsLoginSuccess \/ ClientReadsStatus \/ ClientPings \/ ClientReadsPong
    BY <1>8 DEF ClientHandshake, ClientResponds, ClientReadsSetCompression,
                ClientReadsLoginSuccess, ClientReadsStatus, ClientPings, ClientReadsPong,
                ClientWrites, ClientGoto
<1>9. QED
    BY <1>2, <1>3, <1>4, <1>5, <1>6, <1>7, <1>8 DEF ClientStep

LEMMA ReasonsNext ==
    ASSUME Sound, Plain, setting' = setting, [Next]_vars
    PROVE  FailureExplained'
<1> SUFFICES ASSUME cp' = "failed" PROVE Explained'
    BY DEF FailureExplained, Explained
<1>1. Typed /\ Framed
    BY DEF Sound
<1>2. ASSUME cp' = cp PROVE Explained'
    BY <1>2, ReasonsLast DEF Plain, FailureExplained, Explained
<1>3. CASE ClientStep
    BY <1>3, ClientFailsForReason
<1>4. CASE ServerStep
    BY <1>1, <1>2, <1>4, ServerMoves
<1>5. CASE \/ ClientLoopReads \/ AddPacketReceiver \/ SendChat \/ SendStray
           \/ Abandon \/ DropClient \/ Break
    BY <1>1, <1>2, <1>5, OtherMoves
<1>6. CASE UNCHANGED vars
    BY <1>2, <1>6 DEF vars, clientVars
<1>7. QED
    BY <1>3, <1>4, <1>5, <1>6 DEF Next

LEMMA PlainInit == Init => Plain
<1> SUFFICES ASSUME Init PROVE Plain
    OBVIOUS
<1>1. /\ cp = "dialed" /\ sp = "handshake" /\ wire["c"] = <<>> /\ wire["s"] = <<>>
      /\ Len(<<>>) = 0 /\ \A e \in Ends : open[e] = TRUE
      /\ "c" \in Ends /\ "s" \in Ends
    BY DEF Init, Ends
<1>2. Held
    BY <1>1 DEF Init, Held
<1>3. QED
    BY <1>1, <1>2 DEF Init, Plain, Meant, Quiet, Ended, Whole, FailureExplained, Connecting

LEMMA PlainNext ==
    ASSUME Sound, Plain, [Next]_vars
    PROVE  Plain'
<1>1. /\ Typed /\ Framed /\ Held /\ Meant /\ Quiet /\ Ended /\ Whole
      /\ setting' = setting
    BY TypedNext DEF Sound, Plain
<1>2. Held' /\ Meant' /\ Whole' /\ FailureExplained'
    BY <1>1, HeldNext, MeantNext, WholeNext, ReasonsNext
<1>3. ~Explained' => ~Explained
    BY <1>1, ReasonsLast
<1>4. CASE Explained'
    <2>1. Quiet' /\ Ended'
        BY <1>4 DEF Quiet, Ended
    <2>2. QED
        BY <1>2, <2>1 DEF Plain
<1>5. CASE ~Explained'
    BY <1>1, <1>2, <1>3, <1>5, QuietNext, EndedNext DEF Plain
<1>6. QED
    BY <1>4, <1>5

LEMMA PlainAlways == Spec => []Plain
<1>1. Sound /\ Plain /\ [Next]_vars => Plain'
    BY PlainNext
<1>2. QED
    BY <1>1, PlainInit, SoundAlways, PTL DEF Spec

\* A call fails for a reason that either end or Mojang gave, or because the
\* network loses the connection; never because one end misread the other and
\* hung up, for any number of chat messages (client.rs:349, server.rs:383).
THEOREM FailuresHaveReasons == Spec => []FailureExplained
<1>1. Plain => FailureExplained
    BY DEF Plain
<1>2. QED
    BY <1>1, PlainAlways, PTL

-----------------------------------------------------------------------------
(* The type invariant.  The server has heard no more chat messages than    *)
(* were written, because those on the wire can be numbered: all numbers    *)
(* come after what is heard, and none is beyond what was written.          *)

Numbered(w, heardSoFar, written) ==
    \E number \in [1..Len(w) -> Nat] :
        \A i \in 1..Len(w) : w[i].kind = "Chat" =>
            /\ heardSoFar < number[i] /\ number[i] <= written
            /\ \A j \in 1..(i - 1) : w[j].kind = "Chat" => number[j] < number[i]

LEMMA NumberedTail ==
    ASSUME NEW w \in Seq(Packet), w # <<>>, NEW lo \in Nat, NEW hi \in Nat, Numbered(w, lo, hi)
    PROVE  /\ Numbered(Tail(w), lo, hi)
           /\ Head(w).kind = "Chat" => lo + 1 <= hi /\ Numbered(Tail(w), lo + 1, hi)
<1>1. PICK number \in [1..Len(w) -> Nat] :
        \A i \in 1..Len(w) : w[i].kind = "Chat" =>
            /\ lo < number[i] /\ number[i] <= hi
            /\ \A j \in 1..(i - 1) : w[j].kind = "Chat" => number[j] < number[i]
    BY DEF Numbered
<1> DEFINE v == Tail(w)
           later == [i \in 1..Len(v) |-> number[i + 1]]
<1>2. /\ Len(v) \in Nat /\ Len(v) = Len(w) - 1 /\ Head(w) = w[1] /\ 1 \in 1..Len(w)
      /\ \A i \in 1..Len(v) : v[i] = w[i + 1] /\ i + 1 \in 1..Len(w)
    OBVIOUS
<1> HIDE DEF v
<1>3. later \in [1..Len(v) -> Nat]
    BY <1>2
<1>4. \A i \in 1..Len(v) : later[i] = number[i + 1]
    OBVIOUS
<1> HIDE DEF later
<1>5. ASSUME NEW i \in 1..Len(v), v[i].kind = "Chat"
      PROVE  /\ lo < later[i] /\ later[i] <= hi
             /\ \A j \in 1..(i - 1) : v[j].kind = "Chat" => later[j] < later[i]
             /\ w[1].kind = "Chat" => lo + 1 < later[i]
    <2>1. w[i + 1].kind = "Chat" /\ i + 1 \in 1..Len(w) /\ later[i] = number[i + 1]
        BY <1>2, <1>4, <1>5
    <2>2. /\ lo < number[i + 1] /\ number[i + 1] <= hi
          /\ \A j \in 1..(i + 1 - 1) : w[j].kind = "Chat" => number[j] < number[i + 1]
        BY <1>1, <2>1
    <2>3. ASSUME NEW j \in 1..(i - 1), v[j].kind = "Chat"
          PROVE  later[j] < later[i]
        <3>1. j \in 1..Len(v) /\ j + 1 \in 1..(i + 1 - 1)
            BY <1>2
        <3>2. w[j + 1].kind = "Chat" /\ later[j] = number[j + 1]
            BY <1>2, <1>4, <2>3, <3>1
        <3>3. QED
            BY <2>1, <2>2, <3>1, <3>2
    <2>4. ASSUME w[1].kind = "Chat"
          PROVE  lo + 1 < later[i]
        <3>1. 1 \in 1..(i + 1 - 1)
            BY <1>2
        <3>2. number[1] < number[i + 1] /\ lo < number[1]
            BY <1>1, <1>2, <2>2, <2>4, <3>1
        <3>3. number[1] \in Nat /\ number[i + 1] \in Nat
            BY <1>2, <2>1
        <3>4. \A a, b \in Nat : lo < a /\ a < b => lo + 1 < b
            OBVIOUS
        <3>5. QED
            BY <2>1, <3>2, <3>3, <3>4
    <2>5. QED
        BY <2>1, <2>2, <2>3, <2>4
<1>6. Numbered(v, lo, hi)
    BY <1>3, <1>5 DEF Numbered
<1>7. ASSUME w[1].kind = "Chat"
      PROVE  lo + 1 <= hi /\ Numbered(v, lo + 1, hi)
    <2>1. lo < number[1] /\ number[1] <= hi /\ number[1] \in Nat
        BY <1>1, <1>2, <1>7
    <2>2. lo + 1 <= hi
        BY <2>1
    <2>3. Numbered(v, lo + 1, hi)
        BY <1>3, <1>5, <1>7 DEF Numbered
    <2>4. QED
        BY <2>2, <2>3
<1>8. QED
    BY <1>2, <1>6, <1>7 DEF v

LEMMA NumberedAppended ==
    ASSUME NEW w \in Seq(Packet), NEW p \in Packet, NEW lo \in Nat, NEW hi \in Nat,
           lo <= hi, Numbered(w, lo, hi)
    PROVE  /\ p.kind # "Chat" => Numbered(Append(w, p), lo, hi)
           /\ Numbered(Append(w, p), lo, hi + 1)
<1>1. PICK number \in [1..Len(w) -> Nat] :
        \A i \in 1..Len(w) : w[i].kind = "Chat" =>
            /\ lo < number[i] /\ number[i] <= hi
            /\ \A j \in 1..(i - 1) : w[j].kind = "Chat" => number[j] < number[i]
    BY DEF Numbered
<1> DEFINE v == Append(w, p)
           next == [i \in 1..Len(v) |-> IF i = Len(v) THEN hi + 1 ELSE number[i]]
<1>2. /\ Len(v) \in Nat /\ Len(v) = Len(w) + 1 /\ v[Len(v)] = p /\ Len(w) \in Nat
      /\ \A i \in 1..Len(w) : v[i] = w[i]
    OBVIOUS
<1> HIDE DEF v
<1>3. /\ \A i \in 1..Len(v) : i \in 1..Len(w) \/ i = Len(v)
      /\ \A i \in 1..Len(w) : i \in 1..Len(v) /\ i # Len(v)
      /\ Len(v) \in 1..Len(v)
    BY <1>2
<1>4. next \in [1..Len(v) -> Nat]
    BY <1>3
<1>5. next[Len(v)] = hi + 1 /\ \A i \in 1..Len(w) : next[i] = number[i]
    BY <1>3
<1> HIDE DEF next
<1>6. ASSUME NEW i \in 1..Len(w), v[i].kind = "Chat"
      PROVE  /\ lo < next[i] /\ next[i] <= hi /\ next[i] <= hi + 1
             /\ \A j \in 1..(i - 1) : v[j].kind = "Chat" => next[j] < next[i]
    <2>1. /\ lo < number[i] /\ number[i] <= hi /\ number[i] \in Nat
          /\ \A j \in 1..(i - 1) : w[j].kind = "Chat" => number[j] < number[i]
        BY <1>1, <1>2, <1>6
    <2>2. next[i] = number[i] /\ number[i] <= hi + 1
        BY <1>5, <2>1
    <2>3. \A j \in 1..(i - 1) : j \in 1..Len(w)
        BY <1>2
    <2>4. QED
        BY <1>2, <1>5, <2>1, <2>2, <2>3
<1>7. /\ lo < next[Len(v)] /\ next[Len(v)] <= hi + 1
      /\ \A j \in 1..(Len(v) - 1) : v[j].kind = "Chat" => next[j] < next[Len(v)]
    <2>1. lo < next[Len(v)] /\ next[Len(v)] <= hi + 1
        BY <1>5
    <2>2. ASSUME NEW j \in 1..(Len(v) - 1), v[j].kind = "Chat"
          PROVE  next[j] < next[Len(v)]
        <3>1. j \in 1..Len(w)
            BY <1>2
        <3>2. next[j] <= hi /\ next[j] \in Nat
            BY <1>3, <1>4, <1>6, <2>2, <3>1
        <3>3. QED
            BY <1>5, <3>2
    <2>3. QED
        BY <2>1, <2>2
<1>8. Numbered(v, lo, hi + 1)
    BY <1>3, <1>4, <1>6, <1>7 DEF Numbered
<1>9. p.kind # "Chat" => Numbered(v, lo, hi)
    BY <1>2, <1>3, <1>4, <1>6 DEF Numbered
<1>10. QED
    BY <1>8, <1>9 DEF v

Placed ==
    /\ cp \in Connecting \cup {"connected", "answered", "failed", "abandoned"}
    /\ sp \in Dialogue \cup Playing \cup {"done"}
    /\ broken \in BOOLEAN /\ listening \in BOOLEAN /\ deaf \in BOOLEAN
    /\ refused \in BOOLEAN /\ cut \in BOOLEAN
    /\ loop \in {"off", "running", "panicked"}

LEMMA ClosingIsPlaced ==
    ASSUME broken \in BOOLEAN, NEW e, LinkStays \/ Close(e)
    PROVE  broken' \in BOOLEAN
BY DEF LinkStays, Close

LEMMA PlacedNext ==
    ASSUME Placed, [Next]_vars
    PROVE  Placed'
<1>1. CASE ClientStep
    <2>1. /\ sp' = sp /\ listening' = listening
          /\ loop' = loop \/ loop' = "running"
          /\ UNCHANGED <<deaf, cut>>
          /\ refused' = refused \/ refused' = TRUE
        BY <1>1 DEF ClientStep, ClientHandshake, ClientStart, ClientReadsEncryptionRequest,
           JoinServer, ClientResponds, ClientCiphers, ClientReadsSetCompression,
           ClientReadsLoginSuccess, ClientReadsStatus, ClientPings, ClientReadsPong,
           ClientReadsWrongPacket, ClientErrs, ClientWrites, ClientEnds, ClientGoto, ClientOnly,
           serverVars, history
    <2>2. cp' \in Connecting \cup {"connected", "answered", "failed", "abandoned"}
        BY <1>1 DEF ClientStep, ClientHandshake, ClientStart, ClientReadsEncryptionRequest,
           JoinServer, ClientResponds, ClientCiphers, ClientReadsSetCompression,
           ClientReadsLoginSuccess, ClientReadsStatus, ClientPings, ClientReadsPong,
           ClientReadsWrongPacket, ClientErrs, ClientWrites, ClientEnds, ClientGoto, Connecting
    <2>3. LinkStays \/ Close("c")
        BY <1>1 DEF ClientStep, ClientHandshake, ClientStart, ClientReadsEncryptionRequest,
           JoinServer, ClientResponds, ClientCiphers, ClientReadsSetCompression,
           ClientReadsLoginSuccess, ClientReadsStatus, ClientPings, ClientReadsPong,
           ClientReadsWrongPacket, ClientErrs, ClientWrites, ClientEnds
    <2>4. QED
        BY <2>1, <2>2, <2>3, ClosingIsPlaced DEF Placed
<1>2. CASE ServerStep
    <2>1. /\ UNCHANGED <<cp, listening, loop, cut>>
          /\ refused' = refused \/ refused' = TRUE
        BY <1>2 DEF ServerStep, ServerReadsHandshake, ServerRefuses, ServerReadsLoginStart,
           ServerRequestsEncryption, ServerReadsEncryptionResponse, VerifyJoin,
           ServerWritesSetCompression, ServerWritesLoginSuccess, ServerEntersPlay,
           CheckDuplicate, Join, Insert, ServerHears, ServerSkips, ServerReadsStatusRequest,
           ServerSendsStatus, ServerReadsPing, ServerPongs, ServerErrs, ServerReads,
           ServerWrites, ServerOnly, clientVars, history
    <2>2. deaf' = deaf \/ deaf' \in BOOLEAN
        BY <1>2 DEF ServerStep, ServerReadsHandshake, ServerRefuses, ServerReadsLoginStart,
           ServerRequestsEncryption, ServerReadsEncryptionResponse, VerifyJoin,
           ServerWritesSetCompression, ServerWritesLoginSuccess, ServerEntersPlay,
           CheckDuplicate, Join, Insert, ServerHears, ServerSkips, ServerReadsStatusRequest,
           ServerSendsStatus, ServerReadsPing, ServerPongs, ServerErrs, ServerReads,
           ServerWrites, ServerEnds, ServerGoto, serverVars, Publish
    <2>3. sp' = sp \/ sp' \in Dialogue \cup Playing \cup {"done"}
        BY <1>2 DEF ServerStep, ServerReadsHandshake, ServerRefuses, ServerReadsLoginStart,
           ServerRequestsEncryption, ServerReadsEncryptionResponse, VerifyJoin,
           ServerWritesSetCompression, ServerWritesLoginSuccess, ServerEntersPlay,
           CheckDuplicate, Join, Insert, ServerHears, ServerSkips, ServerReadsStatusRequest,
           ServerSendsStatus, ServerReadsPing, ServerPongs, ServerErrs, ServerReads,
           ServerWrites, ServerEnds, ServerGoto, serverVars, Dialogue, Playing, ServerAwaits
    <2>4. broken' = broken \/ LinkStays \/ Close("s")
        BY <1>2 DEF ServerStep, ServerReadsHandshake, ServerRefuses, ServerReadsLoginStart,
           ServerRequestsEncryption, ServerReadsEncryptionResponse, VerifyJoin,
           ServerWritesSetCompression, ServerWritesLoginSuccess, ServerEntersPlay,
           CheckDuplicate, Join, Insert, ServerHears, ServerSkips, ServerReadsStatusRequest,
           ServerSendsStatus, ServerReadsPing, ServerPongs, ServerErrs, ServerReads,
           ServerWrites, ServerEnds, linkVars
    <2>5. QED
        BY <2>1, <2>3, <2>4, <2>2, ClosingIsPlaced DEF Placed
<1>3. CASE \/ ClientLoopReads \/ AddPacketReceiver \/ SendChat \/ SendStray
           \/ Abandon \/ DropClient \/ Break
    <2>1. /\ UNCHANGED <<sp, refused, deaf>> /\ (cp' = cp \/ cp' = "abandoned")
          /\ cut' = cut \/ cut' = TRUE
          /\ listening' = listening \/ listening' = TRUE
          /\ loop' = loop \/ loop' \in {"panicked", "running"}
        BY <1>3 DEF ClientLoopReads, AddPacketReceiver, SendChat, SendStray, Abandon, DropClient,
                    Break, ClientEnds, ClientGoto, ClientOnly, clientVars, serverVars, history
    <2>2. broken' = broken \/ broken' = TRUE \/ LinkStays \/ Close("c")
        BY <1>3 DEF ClientLoopReads, AddPacketReceiver, SendChat, SendStray, Abandon, DropClient,
                    Break, ClientEnds, linkVars
    <2>3. QED
        BY <2>1, <2>2, ClosingIsPlaced DEF Placed
<1>4. CASE UNCHANGED vars
    BY <1>4 DEF vars, clientVars, serverVars, linkVars, history, Placed
<1>5. QED
    BY <1>1, <1>2, <1>3, <1>4 DEF Next

Counted ==
    /\ said \in 0..MaxChats /\ strays \in 0..MaxStrays /\ heard \in 0..(said + strays)
    /\ Numbered(wire["s"], heard, said + strays)

\* What a step may do to the wire and to the three counts.
LEMMA CountStays ==
    ASSUME Typed, Counted, UNCHANGED <<said, strays>>,
           \/ heard' = heard /\ (Same("s") \/ Takes("s"))
           \/ heard' = heard + 1 /\ Takes("s") /\ Head(wire["s"]).kind = "Chat"
           \/ heard' = heard /\ \E p \in Packet : Gets("s", p) /\ p.kind # "Chat"
    PROVE  Counted'
<1> DEFINE w == wire["s"]
           hi == said + strays
<1>1. w \in Seq(Packet) /\ hi \in Nat /\ heard \in Nat /\ heard <= hi /\ Numbered(w, heard, hi)
    BY SessionAssumption DEF Typed, Counted, Ends
<1>2. ASSUME NEW n \in Nat, heard' = n, n <= hi, Numbered(wire'["s"], n, hi)
      PROVE  Counted'
    BY <1>2, SessionAssumption DEF Counted
<1> HIDE DEF w, hi
<1>3. CASE heard' = heard /\ Same("s")
    BY <1>1, <1>2, <1>3 DEF Same, w
<1>4. CASE heard' = heard /\ Takes("s")
    BY <1>1, <1>2, <1>4, NumberedTail DEF Takes, w
<1>5. CASE heard' = heard + 1 /\ Takes("s") /\ Head(wire["s"]).kind = "Chat"
    <2>1. heard + 1 <= hi /\ Numbered(Tail(w), heard + 1, hi)
        BY <1>1, <1>5, NumberedTail DEF Takes, w
    <2>2. heard + 1 \in Nat
        BY <1>1
    <2>3. QED
        BY <1>2, <1>5, <2>1, <2>2 DEF Takes, w
<1>6. ASSUME heard' = heard, NEW p \in Packet, Gets("s", p), p.kind # "Chat"
      PROVE  Counted'
    BY <1>1, <1>2, <1>6, NumberedAppended DEF Gets, w
<1>7. QED
    BY <1>3, <1>4, <1>5, <1>6

LEMMA CountSpoken ==
    ASSUME Typed, Counted, heard' = heard, SendChat \/ SendStray, Adds("s")
    PROVE  Counted'
<1>1. /\ wire["s"] \in Seq(Packet) /\ said \in Nat /\ strays \in Nat /\ heard \in Nat
      /\ heard <= said + strays /\ said + strays \in Nat
      /\ Numbered(wire["s"], heard, said + strays)
      /\ MaxChats \in Nat /\ MaxStrays \in Nat /\ said <= MaxChats /\ strays <= MaxStrays
    BY SessionAssumption DEF Typed, Counted, Ends
<1>2. /\ \/ said' = said + 1 /\ strays' = strays /\ said < MaxChats
         \/ said' = said /\ strays' = strays + 1 /\ strays < MaxStrays
    BY DEF SendChat, SendStray
<1>3. /\ said' \in 0..MaxChats /\ strays' \in 0..MaxStrays
      /\ said' + strays' = said + strays + 1 /\ heard \in 0..(said' + strays')
    BY <1>1, <1>2
<1>4. \E p \in Packet : Gets("s", p)
    <2>1. Writes("c", "Chat", "none") /\ UNCHANGED framing
        BY DEF SendChat, SendStray
    <2>2. QED
        BY <2>1, Wrote DEF Typed, Ends, Other, Kinds, Bodies
<1>5. Numbered(wire'["s"], heard, said + strays + 1)
    BY <1>1, <1>4, NumberedAppended DEF Gets
<1>6. QED
    BY <1>3, <1>5 DEF Counted

LEMMA CountedNext ==
    ASSUME Typed, Framed, Counted, [Next]_vars
    PROVE  Counted'
<1>1. CASE ClientStep
    <2>1. UNCHANGED <<said, strays, heard>>
        BY <1>1 DEF ClientStep, ClientHandshake, ClientStart, ClientReadsEncryptionRequest,
           JoinServer, ClientResponds, ClientCiphers, ClientReadsSetCompression,
           ClientReadsLoginSuccess, ClientReadsStatus, ClientPings, ClientReadsPong,
           ClientReadsWrongPacket, ClientErrs, ClientWrites, ClientEnds, ClientGoto, ClientOnly,
           serverVars
    <2>2. cp \in Connecting /\ Adds("s")
        BY <1>1, ClientMoves
    <2>3. ~SendChat /\ ~SendStray
        BY <2>2 DEF SendChat, SendStray, Connecting
    <2>4. QED
        BY <2>1, <2>2, <2>3, CountStays DEF Adds, SaysFor
<1>2. CASE ServerStep
    <2>1. UNCHANGED <<said, strays>>
        BY <1>2 DEF ServerStep, ServerReadsHandshake, ServerRefuses, ServerReadsLoginStart,
           ServerRequestsEncryption, ServerReadsEncryptionResponse, VerifyJoin,
           ServerWritesSetCompression, ServerWritesLoginSuccess, ServerEntersPlay,
           CheckDuplicate, Join, Insert, ServerHears, ServerSkips, ServerReadsStatusRequest,
           ServerSendsStatus, ServerReadsPing, ServerPongs, ServerErrs, ServerReads,
           ServerWrites, ServerOnly, clientVars
    <2>2. CASE ServerHears
        <3>1. /\ heard' = heard + 1 /\ Head(wire["s"]).kind = "Chat" /\ wire["s"] # <<>>
              /\ wire'["s"] = Tail(wire["s"])
            BY <2>2 DEF ServerHears, Typed, Ends
        <3>2. QED
            BY <2>1, <3>1, CountStays DEF Takes
    <2>3. CASE ~ServerHears
        <3>1. heard' = heard
            BY <1>2, <2>3
            DEF ServerStep, ServerReadsHandshake, ServerRefuses, ServerReadsLoginStart,
               ServerRequestsEncryption, ServerReadsEncryptionResponse, VerifyJoin,
               ServerWritesSetCompression, ServerWritesLoginSuccess, ServerEntersPlay,
               CheckDuplicate, Join, Insert, ServerSkips, ServerReadsStatusRequest,
               ServerSendsStatus, ServerReadsPing, ServerPongs, ServerErrs, ServerReads,
               ServerWrites, ServerEnds, ServerGoto, serverVars
        <3>2. Same("s") \/ Takes("s")
            BY <1>2, ServerMoves
        <3>3. QED
            BY <2>1, <3>1, <3>2, CountStays
    <2>4. QED
        BY <2>2, <2>3
<1>3. CASE SendChat \/ SendStray
    <2>1. heard' = heard
        BY <1>3 DEF SendChat, SendStray, ClientOnly, serverVars
    <2>2. Adds("s")
        BY <1>3, OtherMoves
    <2>3. QED
        BY <1>3, <2>1, <2>2, CountSpoken
<1>4. CASE ClientLoopReads \/ AddPacketReceiver \/ Abandon \/ DropClient \/ Break
    <2>1. UNCHANGED <<said, strays, heard>>
        BY <1>4 DEF ClientLoopReads, AddPacketReceiver, Abandon, DropClient, Break, ClientEnds,
                    ClientGoto, ClientOnly, clientVars, serverVars
    <2>2. Same("s")
        BY <1>4 DEF ClientLoopReads, AddPacketReceiver, Abandon, DropClient, Break, ClientOnly,
                    linkVars, Same, Typed, Ends
    <2>3. QED
        BY <2>1, <2>2, CountStays
<1>5. CASE UNCHANGED vars
    <2>1. UNCHANGED <<said, strays, heard>> /\ Same("s")
        BY <1>5 DEF vars, clientVars, serverVars, linkVars, Same
    <2>2. QED
        BY <2>1, CountStays
<1>6. QED
    BY <1>1, <1>2, <1>3, <1>4, <1>5 DEF Next

\* SessionTypeOK holds of every behaviour, for any number of chat messages: in
\* particular the packet loop hears no more messages than were written
\* (server.rs:317, client.rs:166).
THEOREM SessionIsTyped == Spec => []SessionTypeOK
<1>1. Init => Placed /\ Counted
    <2> SUFFICES ASSUME Init PROVE Placed /\ Counted
        OBVIOUS
    <2>1. Placed
        BY DEF Init, Placed, Connecting, Dialogue, ServerAwaits
    <2>2. wire["s"] = <<>> /\ Len(<<>>) = 0 /\ said = 0 /\ strays = 0 /\ heard = 0
        BY DEF Init, Ends
    <2>3. Numbered(<<>>, 0, 0)
        <3>1. [i \in 1..Len(<<>>) |-> 0] \in [1..Len(<<>>) -> Nat]
            OBVIOUS
        <3>2. \A i \in 1..Len(<<>>) : FALSE
            BY <2>2
        <3>3. QED
            BY <3>1, <3>2 DEF Numbered
    <2>4. QED
        BY <2>1, <2>2, <2>3, SessionAssumption DEF Counted
<1>2. Sound /\ Placed /\ Counted /\ [Next]_vars => Placed' /\ Counted'
    BY PlacedNext, CountedNext DEF Sound
<1>3. Sound /\ Plain /\ Placed /\ Counted => SessionTypeOK
    BY DEF Sound, Typed, Plain, Held, Placed, Counted, SessionTypeOK
<1>4. QED
    BY <1>1, <1>2, <1>3, SoundAlways, PlainAlways, PTL DEF Spec

===============================================================================
