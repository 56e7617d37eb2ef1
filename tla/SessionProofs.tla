---------------------------- MODULE SessionProofs ----------------------------
(***************************************************************************)
(* Theorems about module Session, for any number of chat messages: no      *)
(* MinecraftClient gets into a server that asks for encryption; the two    *)
(* ends switch framing at the same packet, and never wait for each other.  *)
(* The invariant says, for either direction, in which order and in which   *)
(* framing packets stand on the wire, between what the one end is still to *)
(* read and what the other is still to write.                              *)
(***************************************************************************)
EXTENDS Session, TLAPS

Typed ==
    /\ setting \in Settings
    /\ framing \in [Ends -> [Halves -> Codec]]
    /\ wire \in [Ends -> Seq(Packet)]

-----------------------------------------------------------------------------
(* What the parts of a step do to the connection.                          *)

LEMMA SwitchIsTyped ==
    ASSUME Typed, NEW e \in Ends
    PROVE  /\ \A state \in {"Handshaking", "Status", "Login", "Play"} :
                SetState(e, state) => framing' \in [Ends -> [Halves -> Codec]]
           /\ SetCompressionThreshold(e) => framing' \in [Ends -> [Halves -> Codec]]
           /\ \A key \in {"none", "secret", "public_key"} :
                EnableEncryption(e, key) => framing' \in [Ends -> [Halves -> Codec]]
<1> DEFINE half(h, field, value) == [framing[e][h] EXCEPT ![field] = value]
<1>1. ASSUME NEW field, NEW value, Switch(e, field, value),
             \A h \in Halves : half(h, field, value) \in Codec
      PROVE  framing' \in [Ends -> [Halves -> Codec]]
    <2>1. framing' = [framing EXCEPT ![e] = [h \in Halves |-> half(h, field, value)]]
        BY <1>1 DEF Switch, Typed
    <2>2. [h \in Halves |-> half(h, field, value)] \in [Halves -> Codec]
        BY <1>1
    <2>3. QED
        BY <2>1, <2>2 DEF Typed
<1>2. \A h \in Halves : framing[e][h] \in Codec
    BY DEF Typed
<1>3. /\ \A state \in {"Handshaking", "Status", "Login", "Play"} :
            \A h \in Halves : half(h, "state", state) \in Codec
      /\ \A h \in Halves : half(h, "compressed", TRUE) \in Codec
      /\ \A key \in {"none", "secret", "public_key"} :
            \A h \in Halves : half(h, "cipher", key) \in Codec
    BY <1>2 DEF Codec
<1>4. QED
    BY <1>1, <1>3 DEF SetState, SetCompressionThreshold, EnableEncryption

LEMMA WritingAppends ==
    ASSUME Typed, NEW e \in Ends, NEW kind \in Kinds,
           NEW body \in Bodies, kind = "Handshake" => body \in {"Status", "Login"},
           framing' \in [Ends -> [Halves -> Codec]], Writes(e, kind, body)
    PROVE  /\ wire' \in [Ends -> Seq(Packet)]
           /\ wire'[e] = wire[e]
           /\ \E p \in Packet : /\ p.kind = kind /\ p.body = body
                                /\ wire'[Other(e)] = Append(wire[Other(e)], p)
<1> DEFINE p == Written(e, kind, body)
<1>1. p \in Packet /\ p.kind = kind /\ p.body = body
    BY DEF Written, Packet, Halves
<1>2. Other(e) \in Ends /\ Other(e) # e
    BY DEF Other, Ends
<1>3. wire' = [wire EXCEPT ![Other(e)] = Append(wire[Other(e)], p)]
    BY DEF Writes, Typed
<1> HIDE DEF p
<1>4. Append(wire[Other(e)], p) \in Seq(Packet)
    BY <1>1, <1>2 DEF Typed
<1>5. QED
    BY <1>1, <1>2, <1>3, <1>4 DEF Typed

Reading(e) == wire[e] # <<>> /\ wire' = [wire EXCEPT ![e] = Tail(@)]

LEMMA ReadingTakes ==
    ASSUME Typed, NEW e \in Ends, Reading(e)
    PROVE  /\ wire' \in [Ends -> Seq(Packet)]
           /\ wire'[Other(e)] = wire[Other(e)]
           /\ Len(wire'[e]) = Len(wire[e]) - 1
           /\ \A i \in 1..Len(wire'[e]) : wire'[e][i] = wire[e][i + 1]
<1>1. Other(e) \in Ends /\ Other(e) # e
    BY DEF Other, Ends
<1>2. wire[e] \in Seq(Packet) /\ wire[e] # <<>>
    BY DEF Reading, Typed
<1>3. wire' = [wire EXCEPT ![e] = Tail(wire[e])] /\ Tail(wire[e]) \in Seq(Packet)
    BY <1>2 DEF Reading
<1>4. wire' \in [Ends -> Seq(Packet)] /\ wire'[e] = Tail(wire[e])
      /\ wire'[Other(e)] = wire[Other(e)]
    BY <1>1, <1>3 DEF Typed
<1>5. QED
    BY <1>2, <1>4

-----------------------------------------------------------------------------
(* The steps as reads, writes and neither.                                 *)

Writing ==
    \E e \in Ends, kind \in Kinds, body \in Bodies :
        /\ kind = "Handshake" => body \in {"Status", "Login"}
        /\ Writes(e, kind, body)

LEMMA ClientShape ==
    ASSUME Typed, ClientStep
    PROVE  /\ setting' = setting
           /\ framing' \in [Ends -> [Halves -> Codec]]
           /\ UNCHANGED wire \/ Writing \/ Reading("c")
<1>1. framing \in [Ends -> [Halves -> Codec]] /\ "c" \in Ends
      /\ setting.next \in {"Status", "Login"}
    BY DEF Typed, Ends, Settings
<1>2. ASSUME NEW place, NEW next, NEW kind \in Kinds, NEW body \in Bodies,
             kind = "Handshake" => body \in {"Status", "Login"},
             ClientWrites(place, next, kind, body)
      PROVE  setting' = setting /\ framing' = framing /\ Writing
    BY <1>1, <1>2 DEF ClientWrites, ClientOnly, Writing
<1>3. CASE ClientHandshake \/ ClientResponds \/ ClientPings
    BY <1>1, <1>2, <1>3 DEF ClientHandshake, ClientResponds, ClientPings, Ciphering, Kinds, Bodies
<1>4. CASE ClientStart
    <2>1. setting' = setting /\ SetState("c", setting.next)
        BY <1>4 DEF ClientStart, ClientOnly
    <2>2. framing' \in [Ends -> [Halves -> Codec]]
        BY <1>1, <2>1, SwitchIsTyped
    <2>3. UNCHANGED wire \/ Writing
        BY <1>1, <1>4 DEF ClientStart, Writing, Kinds, Bodies
    <2>4. QED
        BY <2>1, <2>2, <2>3
<1>5. CASE JoinServer \/ ClientErrs
    BY <1>1, <1>5 DEF JoinServer, ClientErrs, ClientEnds, ClientOnly
<1>6. CASE ClientCiphers
    <2>1. setting' = setting /\ UNCHANGED wire
          /\ (EnableEncryption("c", Ciphering.key) \/ framing' = framing)
        BY <1>6 DEF ClientCiphers, ClientEnds, ClientOnly
    <2>2. Ciphering.key \in {"none", "secret", "public_key"}
        BY DEF Ciphering
    <2>3. QED
        BY <1>1, <2>1, <2>2, SwitchIsTyped
<1>7. CASE ClientReadsSetCompression \/ ClientReadsLoginSuccess
    <2>1. setting' = setting /\ Reading("c")
          /\ (SetCompressionThreshold("c") \/ SetState("c", "Play"))
        BY <1>7 DEF ClientReadsSetCompression, ClientReadsLoginSuccess, ClientOnly, Reads, Reading
    <2>2. QED
        BY <1>1, <2>1, SwitchIsTyped
<1>8. CASE ClientReadsEncryptionRequest \/ ClientReadsStatus \/ ClientReadsPong
           \/ ClientReadsWrongPacket
    BY <1>1, <1>8 DEF ClientReadsEncryptionRequest, ClientReadsStatus, ClientReadsPong,
                      ClientReadsWrongPacket, ClientEnds, ClientOnly, Reads, Reading
<1>9. QED
    BY <1>3, <1>4, <1>5, <1>6, <1>7, <1>8 DEF ClientStep

LEMMA ServerShape ==
    ASSUME Typed, ServerStep, ~ServerHears
    PROVE  /\ setting' = setting
           /\ framing' \in [Ends -> [Halves -> Codec]]
           /\ UNCHANGED wire \/ Writing \/ Reading("s")
<1>1. framing \in [Ends -> [Halves -> Codec]] /\ "s" \in Ends
    BY DEF Typed, Ends
<1>2. ASSUME NEW place, NEW next, NEW kind \in Kinds \ {"Handshake"}, ServerWrites(place, kind, next)
      PROVE  setting' = setting /\ framing' = framing /\ Writing
    BY <1>1, <1>2 DEF ServerWrites, ServerOnly, Writing, Bodies
<1>3. CASE ServerRequestsEncryption \/ ServerWritesSetCompression \/ Join \/ ServerSendsStatus
    BY <1>1, <1>2, <1>3
    DEF ServerRequestsEncryption, ServerWritesSetCompression, Join, ServerSendsStatus, Kinds
<1>4. CASE ServerReadsLoginStart \/ ServerReadsStatusRequest \/ ServerReadsPing
           \/ ServerReadsEncryptionResponse \/ ServerSkips
    BY <1>1, <1>4 DEF ServerReadsLoginStart, ServerReadsStatusRequest, ServerReadsPing,
                      ServerReadsEncryptionResponse, ServerSkips, ServerReads, ServerOnly,
                      Reads, Reading
<1>5. CASE ServerReadsHandshake
    <2>1. setting' = setting /\ Reading("s") /\ SetState("s", Head(wire["s"]).body)
          /\ Head(wire["s"]).kind = "Handshake"
        BY <1>5 DEF ServerReadsHandshake, ServerOnly, Reads, Reading
    <2>2. Head(wire["s"]) \in Packet
        BY <1>1, <2>1 DEF Typed, Reading
    <2>3. Head(wire["s"]).body \in {"Status", "Login"}
        BY <2>1, <2>2 DEF Packet
    <2>4. QED
        BY <1>1, <2>1, <2>3, SwitchIsTyped
<1>6. CASE ServerRefuses \/ ServerPongs
    BY <1>1, <1>6 DEF ServerRefuses, ServerPongs, ServerOnly, Writing, Kinds, Bodies
<1>7. CASE VerifyJoin
    <2>1. setting' = setting /\ UNCHANGED wire
          /\ (EnableEncryption("s", "secret") \/ framing' = framing)
        BY <1>7 DEF VerifyJoin
    <2>2. QED
        BY <1>1, <2>1, SwitchIsTyped
<1>8. CASE ServerWritesLoginSuccess
    <2>1. setting' = setting /\ SetCompressionThreshold("s")
          /\ Writes("s", "LoginSuccess", "none")
        BY <1>8 DEF ServerWritesLoginSuccess, ServerOnly
    <2>2. QED
        BY <1>1, <2>1, SwitchIsTyped DEF Writing, Kinds, Bodies
<1>9. CASE ServerEntersPlay
    <2>1. setting' = setting /\ SetState("s", "Play") /\ UNCHANGED wire
        BY <1>9 DEF ServerEntersPlay, ServerOnly
    <2>2. QED
        BY <1>1, <2>1, SwitchIsTyped
<1>10. CASE CheckDuplicate \/ Insert \/ ServerErrs
    BY <1>1, <1>10 DEF CheckDuplicate, Insert, ServerErrs, ServerOnly, linkVars
<1>11. QED
    BY <1>3, <1>4, <1>5, <1>6, <1>7, <1>8, <1>9, <1>10 DEF ServerStep

-----------------------------------------------------------------------------
(* The shape of the connection is an invariant.                            *)

LEMMA TypedInit == Init => Typed
<1> SUFFICES ASSUME Init PROVE Typed
    OBVIOUS
<1>1. [state |-> "Handshaking", compressed |-> FALSE, cipher |-> "none"] \in Codec
    BY DEF Codec
<1>2. QED
    BY <1>1 DEF Init, Typed

LEMMA HearingIsTyped ==
    ASSUME Typed, ServerHears
    PROVE  UNCHANGED <<setting, framing>> /\ wire' \in [Ends -> Seq(Packet)]
<1> DEFINE p == Written("s", "Chat", "none")
<1>1. UNCHANGED <<setting, framing>> /\ sp \in Playing /\ wire["s"] # <<>>
    BY DEF ServerHears, ServerOnly
<1>2. p \in Packet
    BY <1>1 DEF Written, Packet, Kinds, Bodies, Typed, Ends, Halves
<1>3. wire' = [wire EXCEPT !["s"] = Tail(wire["s"]),
                           !["c"] = IF sp = "player" THEN Append(wire["c"], p) ELSE wire["c"]]
    BY DEF ServerHears, Typed
<1> HIDE DEF p
<1>4. wire["s"] \in Seq(Packet) /\ wire["c"] \in Seq(Packet)
    BY DEF Typed, Ends
<1>5. Tail(wire["s"]) \in Seq(Packet) /\ Append(wire["c"], p) \in Seq(Packet)
    BY <1>1, <1>2, <1>4
<1>6. QED
    BY <1>1, <1>3, <1>4, <1>5 DEF Typed, Ends

LEMMA OtherShape ==
    ASSUME Typed,
           \/ ClientLoopReads \/ AddPacketReceiver \/ SendChat \/ SendStray
           \/ Abandon \/ DropClient \/ Break
    PROVE  /\ UNCHANGED <<setting, framing>>
           /\ UNCHANGED wire \/ Writing \/ Reading("c")
<1>1. CASE ClientLoopReads \/ Abandon \/ DropClient
    BY <1>1 DEF ClientLoopReads, Abandon, DropClient, ClientEnds, ClientOnly, Reading
<1>2. CASE AddPacketReceiver \/ Break
    BY <1>2 DEF AddPacketReceiver, Break, ClientOnly, linkVars
<1>3. CASE SendChat \/ SendStray
    BY <1>3 DEF SendChat, SendStray, ClientOnly, Writing, Ends, Kinds, Bodies
<1>4. QED
    BY <1>1, <1>2, <1>3

LEMMA TypedNext ==
    ASSUME Typed, [Next]_vars
    PROVE  Typed' /\ setting' = setting
<1>1. ASSUME setting' = setting, framing' \in [Ends -> [Halves -> Codec]],
             UNCHANGED wire \/ Writing \/ Reading("c") \/ Reading("s")
      PROVE  Typed' /\ setting' = setting
    <2>1. CASE UNCHANGED wire
        BY <1>1, <2>1 DEF Typed
    <2>2. CASE Writing
        BY <1>1, <2>2, WritingAppends DEF Typed, Writing
    <2>3. CASE Reading("c") \/ Reading("s")
        BY <1>1, <2>3, ReadingTakes DEF Typed, Ends
    <2>4. QED
        BY <1>1, <2>1, <2>2, <2>3
<1>2. CASE ClientStep
    BY <1>1, <1>2, ClientShape
<1>3. CASE ServerHears
    BY <1>3, HearingIsTyped DEF Typed
<1>4. CASE ServerStep /\ ~ServerHears
    BY <1>1, <1>4, ServerShape
<1>5. CASE \/ ClientLoopReads \/ AddPacketReceiver \/ SendChat \/ SendStray
           \/ Abandon \/ DropClient \/ Break
    BY <1>1, <1>5, OtherShape DEF Typed
<1>6. CASE UNCHANGED vars
    BY <1>6 DEF Typed, vars, linkVars
<1>7. QED
    BY <1>2, <1>3, <1>4, <1>5, <1>6 DEF Next

-----------------------------------------------------------------------------
(* A MinecraftClient and a server that asks for encryption: what the one   *)
(* writes is not encrypted, so the other never gets past its answer.       *)

Hopeless == setting.peer = "client" /\ setting.online

\* Nothing on the wire leads any further.
OnlyRequests(packets) ==
    \A i \in 1..Len(packets) : packets[i].kind \in {"EncryptionRequest", "LoginDisconnect"}
NoSecret(packets) ==
    \A i \in 1..Len(packets) : packets[i].body \notin {"secret", "Status"}

ClientShut == cp \notin {"compressed", "connected"} /\ OnlyRequests(wire["c"])
ServerShut ==
    /\ sp \in {"handshake", "full", "login_start", "request", "encryption", "done"}
    /\ NoSecret(wire["s"])

Shut == Hopeless => ClientShut /\ ServerShut

LEMMA ReadingShuts ==
    ASSUME Typed, OnlyRequests(wire["c"]), NoSecret(wire["s"]),
           NEW e \in Ends, Reading(e)
    PROVE  /\ OnlyRequests(wire'["c"]) /\ NoSecret(wire'["s"])
           /\ e = "c" => Head(wire["c"]).kind \in {"EncryptionRequest", "LoginDisconnect"}
           /\ e = "s" => Head(wire["s"]).body \notin {"secret", "Status"}
<1>1. wire[e] \in Seq(Packet) /\ wire[e] # <<>>
    BY DEF Reading, Typed
<1>2. Len(wire[e]) \in Nat \ {0} /\ Head(wire[e]) = wire[e][1] /\ 1 \in 1..Len(wire[e])
    BY <1>1
<1>3. /\ wire'[Other(e)] = wire[Other(e)]
      /\ Len(wire'[e]) = Len(wire[e]) - 1
      /\ \A i \in 1..Len(wire'[e]) : wire'[e][i] = wire[e][i + 1]
    BY ReadingTakes
<1>4. \A i \in 1..Len(wire'[e]) : i + 1 \in 1..Len(wire[e])
    BY <1>2, <1>3
<1>5. CASE e = "c"
    BY <1>2, <1>3, <1>4, <1>5 DEF OnlyRequests, NoSecret, Other
<1>6. CASE e = "s"
    BY <1>2, <1>3, <1>4, <1>6 DEF OnlyRequests, NoSecret, Other
<1>7. QED
    BY <1>5, <1>6 DEF Ends

LEMMA WritingShuts ==
    ASSUME Typed, OnlyRequests(wire["c"]), NoSecret(wire["s"]),
           NEW e \in Ends, NEW kind \in Kinds, NEW body \in Bodies,
           kind = "Handshake" => body \in {"Status", "Login"},
           framing' \in [Ends -> [Halves -> Codec]], Writes(e, kind, body),
           e = "c" => body \notin {"secret", "Status"},
           e = "s" => kind \in {"EncryptionRequest", "LoginDisconnect"}
    PROVE  OnlyRequests(wire'["c"]) /\ NoSecret(wire'["s"])
<1>1. PICK p \in Packet : /\ p.kind = kind /\ p.body = body
                          /\ wire'[Other(e)] = Append(wire[Other(e)], p)
    BY WritingAppends
<1>2. wire'[e] = wire[e]
    BY WritingAppends
<1>3. Other(e) \in Ends /\ wire[Other(e)] \in Seq(Packet)
    BY DEF Typed, Other, Ends
<1>4. \A i \in 1..Len(wire'[Other(e)]) :
        \/ i \in 1..Len(wire[Other(e)]) /\ wire'[Other(e)][i] = wire[Other(e)][i]
        \/ wire'[Other(e)][i] = p
    BY <1>1, <1>3
<1>5. CASE e = "c"
    BY <1>1, <1>2, <1>4, <1>5 DEF OnlyRequests, NoSecret, Other
<1>6. CASE e = "s"
    BY <1>1, <1>2, <1>4, <1>6 DEF OnlyRequests, NoSecret, Other
<1>7. QED
    BY <1>5, <1>6 DEF Ends

LEMMA ClientStaysShut ==
    ASSUME Typed, Hopeless, ClientShut, ServerShut, ClientStep
    PROVE  ClientShut' /\ ServerShut'
<1>1. setting.peer = "client" /\ setting.online /\ setting.next = "Login"
      /\ "c" \in Ends /\ framing \in [Ends -> [Halves -> Codec]]
    BY DEF Hopeless, Typed, Settings, Ends
<1>2. sp' = sp /\ framing' \in [Ends -> [Halves -> Codec]]
    <2>1. framing' \in [Ends -> [Halves -> Codec]]
        BY ClientShape
    <2>2. sp' = sp
        BY DEF ClientStep, ClientHandshake, ClientStart, ClientReadsEncryptionRequest,
               JoinServer, ClientResponds, ClientCiphers, ClientReadsSetCompression,
               ClientReadsLoginSuccess, ClientReadsStatus, ClientPings, ClientReadsPong,
               ClientReadsWrongPacket, ClientErrs, ClientWrites, ClientOnly, serverVars
    <2>3. QED
        BY <2>1, <2>2
<1>3. ASSUME cp' \notin {"compressed", "connected"},
             OnlyRequests(wire'["c"]) /\ NoSecret(wire'["s"])
      PROVE  ClientShut' /\ ServerShut'
    BY <1>2, <1>3 DEF ClientShut, ServerShut, OnlyRequests, NoSecret
<1>4. ASSUME NEW kind \in Kinds, Reads("c", kind)
      PROVE  /\ OnlyRequests(wire'["c"]) /\ NoSecret(wire'["s"])
             /\ kind \in {"EncryptionRequest", "LoginDisconnect"}
    <2>1. Reading("c") /\ Head(wire["c"]).kind = kind
        BY <1>4 DEF Reads, Reading
    <2>2. QED
        BY <1>1, <2>1, ReadingShuts DEF ClientShut, ServerShut
<1>5. ASSUME NEW kind \in Kinds, NEW body \in {"none", "Login", "plain"},
             kind = "Handshake" => body = "Login", Writes("c", kind, body)
      PROVE  OnlyRequests(wire'["c"]) /\ NoSecret(wire'["s"])
    BY <1>1, <1>2, <1>5, WritingShuts DEF ClientShut, ServerShut, Bodies
<1>6. CASE ClientHandshake \/ ClientResponds \/ ClientPings
    BY <1>1, <1>3, <1>5, <1>6
    DEF ClientHandshake, ClientResponds, ClientPings, ClientWrites, ClientGoto, Ciphering, Kinds
<1>7. CASE ClientStart
    BY <1>1, <1>3, <1>5, <1>7 DEF ClientStart, ClientGoto, Kinds
<1>8. CASE JoinServer \/ ClientErrs \/ ClientCiphers
    <2>1. cp' \notin {"compressed", "connected"} /\ UNCHANGED wire
        BY <1>8 DEF JoinServer, ClientErrs, ClientCiphers, ClientEnds, ClientGoto
    <2>2. QED
        BY <1>3, <2>1 DEF ClientShut, ServerShut
<1>9. CASE \/ ClientReadsSetCompression \/ ClientReadsLoginSuccess \/ ClientReadsStatus
           \/ ClientReadsPong
    BY <1>4, <1>9 DEF ClientReadsSetCompression, ClientReadsLoginSuccess, ClientReadsStatus,
                      ClientReadsPong, Kinds
<1>10. CASE ClientReadsEncryptionRequest \/ ClientReadsWrongPacket
    BY <1>3, <1>4, <1>10 DEF ClientReadsEncryptionRequest, ClientReadsWrongPacket,
                             ClientEnds, ClientGoto, Kinds
<1>11. QED
    BY <1>6, <1>7, <1>8, <1>9, <1>10 DEF ClientStep

LEMMA ServerStaysShut ==
    ASSUME Typed, Hopeless, ClientShut, ServerShut, ServerStep
    PROVE  ClientShut' /\ ServerShut'
<1>1. setting.online /\ "s" \in Ends /\ framing \in [Ends -> [Halves -> Codec]]
      /\ sp \in {"handshake", "full", "login_start", "request", "encryption", "done"}
    BY DEF Hopeless, Typed, ServerShut, Ends
<1>2. ASSUME cp' = cp,
             sp' \in {"handshake", "full", "login_start", "request", "encryption", "done"},
             OnlyRequests(wire'["c"]) /\ NoSecret(wire'["s"])
      PROVE  ClientShut' /\ ServerShut'
    BY <1>2 DEF ClientShut, ServerShut, OnlyRequests, NoSecret
<1>3. ASSUME NEW kind \in Kinds, Reads("s", kind)
      PROVE  /\ OnlyRequests(wire'["c"]) /\ NoSecret(wire'["s"])
             /\ Head(wire["s"]).body \notin {"secret", "Status"}
    <2>1. Reading("s")
        BY <1>3 DEF Reads, Reading
    <2>2. QED
        BY <1>1, <2>1, ReadingShuts DEF ClientShut, ServerShut
<1>4. ASSUME NEW kind \in {"EncryptionRequest", "LoginDisconnect"},
             UNCHANGED framing, Writes("s", kind, "none")
      PROVE  OnlyRequests(wire'["c"]) /\ NoSecret(wire'["s"])
    BY <1>1, <1>4, WritingShuts DEF ClientShut, ServerShut, Kinds, Bodies
<1>5. CASE ServerReadsHandshake
    <2>1. Reads("s", "Handshake") /\ cp' = cp
          /\ sp' = IF Head(wire["s"]).body = "Status" THEN "status_request"
                   ELSE IF setting.full THEN "full" ELSE "login_start"
        BY <1>5 DEF ServerReadsHandshake, ServerGoto, ServerOnly, clientVars
    <2>2. QED
        BY <1>2, <1>3, <2>1 DEF Kinds
<1>6. CASE ServerReadsLoginStart \/ ServerReadsEncryptionResponse
    BY <1>1, <1>2, <1>3, <1>6
    DEF ServerReadsLoginStart, ServerReadsEncryptionResponse, ServerReads, ServerGoto,
        ServerEnds, ServerOnly, clientVars, Kinds
<1>7. CASE ServerRefuses \/ ServerRequestsEncryption
    BY <1>1, <1>2, <1>4, <1>7
    DEF ServerRefuses, ServerRequestsEncryption, ServerWrites, ServerGoto, ServerEnds,
        ServerOnly, clientVars
<1>8. CASE ServerErrs
    BY <1>2, <1>8 DEF ServerErrs, ServerGoto, ServerEnds, ServerOnly, clientVars,
                      ClientShut, ServerShut
<1>9. ~ \/ VerifyJoin \/ ServerWritesSetCompression \/ ServerWritesLoginSuccess
        \/ ServerEntersPlay \/ CheckDuplicate \/ Join \/ Insert \/ ServerHears
        \/ ServerReadsStatusRequest \/ ServerSendsStatus \/ ServerReadsPing \/ ServerPongs
        \/ ServerSkips
    BY <1>1 DEF VerifyJoin, ServerWritesSetCompression, ServerWritesLoginSuccess,
        ServerEntersPlay, CheckDuplicate, Join, Insert, ServerHears,
        ServerReadsStatusRequest, ServerSendsStatus, ServerReadsPing, ServerPongs,
        ServerSkips, ServerReads, ServerWrites, Playing
<1>10. QED
    BY <1>5, <1>6, <1>7, <1>8, <1>9 DEF ServerStep

LEMMA ShutNext ==
    ASSUME Typed, Shut, [Next]_vars
    PROVE  Shut'
<1>1. setting' = setting
    BY TypedNext
<1> SUFFICES ASSUME Hopeless PROVE ClientShut' /\ ServerShut'
    BY <1>1 DEF Shut, Hopeless
<1>2. ClientShut /\ ServerShut /\ "c" \in Ends /\ framing \in [Ends -> [Halves -> Codec]]
    BY DEF Shut, Typed, Ends
<1>3. CASE ClientStep
    BY <1>2, <1>3, ClientStaysShut
<1>4. CASE ServerStep
    BY <1>2, <1>4, ServerStaysShut
<1>5. CASE ClientLoopReads
    <2>1. Reading("c") /\ cp' = cp /\ sp' = sp
        BY <1>5 DEF ClientLoopReads, Reading, ClientOnly, serverVars
    <2>2. OnlyRequests(wire'["c"]) /\ NoSecret(wire'["s"])
        BY <1>2, <2>1, ReadingShuts DEF ClientShut, ServerShut
    <2>3. QED
        BY <1>2, <2>1, <2>2 DEF ClientShut, ServerShut, OnlyRequests, NoSecret
<1>6. CASE SendChat
    BY <1>2, <1>6 DEF SendChat, ClientShut
<1>7. CASE SendStray
    <2>1. Writes("c", "Chat", "none") /\ UNCHANGED framing /\ cp' = cp /\ sp' = sp
        BY <1>7 DEF SendStray, ClientOnly, serverVars
    <2>2. OnlyRequests(wire'["c"]) /\ NoSecret(wire'["s"])
        BY <1>2, <2>1, WritingShuts DEF ClientShut, ServerShut, Kinds, Bodies
    <2>3. QED
        BY <1>2, <2>1, <2>2 DEF ClientShut, ServerShut, OnlyRequests, NoSecret
<1>8. CASE AddPacketReceiver \/ Abandon \/ DropClient \/ Break \/ UNCHANGED vars
    <2>1. UNCHANGED <<wire, sp>> /\ (cp' = cp \/ cp' = "abandoned")
        BY <1>8 DEF AddPacketReceiver, Abandon, DropClient, Break, ClientEnds, ClientGoto,
                    ClientOnly, vars, clientVars, serverVars, linkVars
    <2>2. QED
        BY <1>2, <2>1 DEF ClientShut, ServerShut, OnlyRequests, NoSecret
<1>9. QED
    BY <1>3, <1>4, <1>5, <1>6, <1>7, <1>8 DEF Next

LEMMA ShutInit == Init => Shut
    BY DEF Init, Shut, Hopeless, ClientShut, ServerShut, OnlyRequests, NoSecret, Ends

\* However many chat messages are sent, no MinecraftClient ever gets into a
\* server that asks for encryption (client.rs:283).
THEOREM OnlineIsClosed == Spec => []NeverOnline
<1>1. Init => Typed /\ Shut
    BY TypedInit, ShutInit
<1>2. (Typed /\ Shut) /\ [Next]_vars => (Typed /\ Shut)'
    BY TypedNext, ShutNext
<1>3. Shut => NeverOnline
    BY DEF Shut, Hopeless, ClientShut, NeverOnline
<1>4. QED
    BY <1>1, <1>2, <1>3, PTL DEF Spec

-----------------------------------------------------------------------------
(* What follows what, and in which framing.                                *)

Over == "over"
PlayKinds == {"PlayDisconnect", "JoinGame", "Chat"}
Cipher == IF setting.online THEN "secret" ELSE "none"
Code(state, compressed, cipher) ==
    [state |-> state, compressed |-> compressed, cipher |-> cipher]

\* Reader and writer alike.
Both(codec) == [h \in Halves |-> codec]

\* The framing a packet of this kind is written in.
CodecOf(kind) ==
    CASE kind = "Handshake" -> Code("Handshaking", FALSE, "none")
      [] kind \in {"StatusRequest", "StatusResponse", "StatusPing", "StatusPong"} ->
            Code("Status", FALSE, "none")
      [] kind = "SetCompression" -> Code("Login", FALSE, Cipher)
      [] kind = "LoginSuccess" -> Code("Login", TRUE, Cipher)
      [] kind \in PlayKinds -> Code("Play", TRUE, Cipher)
      [] OTHER -> Code("Login", FALSE, "none")

LoginAnswers == {IF setting.online THEN "EncryptionRequest" ELSE "SetCompression",
                 "LoginDisconnect"}
Answers == IF setting.next = "Status" THEN {"StatusResponse"} ELSE LoginAnswers
Second == IF setting.next = "Status" THEN {"StatusRequest"} ELSE {"LoginStart"}
Third == IF setting.online THEN {"EncryptionResponse"} ELSE PlayKinds

\* The kinds that may come after a packet, from the same end.
Follows(kind) ==
    CASE kind = "Handshake" -> Second
      [] kind = "LoginStart" -> Third
      [] kind = "EncryptionRequest" -> {"SetCompression"}
      [] kind = "SetCompression" -> {"LoginSuccess"}
      [] kind \in {"EncryptionResponse", "LoginSuccess"} \cup PlayKinds -> PlayKinds
      [] kind = "StatusRequest" -> {"StatusPing"}
      [] kind = "StatusResponse" -> {"StatusPong"}
      [] OTHER -> {Over}

\* What an end is still to read, and to write, where it stands.
ClientComing ==
    CASE cp \in {"dialed", "greeting"} -> Answers
      [] cp = "login" -> LoginAnswers
      [] cp \in {"join", "respond", "ciphering", "encrypted"} -> {"SetCompression"}
      [] cp = "compressed" -> {"LoginSuccess"}
      [] cp = "connected" -> PlayKinds
      [] cp = "status" -> {"StatusResponse"}
      [] OTHER -> {"StatusPong", Over}
ClientDue ==
    CASE cp = "dialed" -> {"Handshake"}
      [] cp = "greeting" -> Second
      [] cp = "login" -> Third
      [] cp \in {"join", "respond"} -> {"EncryptionResponse"}
      [] cp \in {"ciphering", "encrypted", "compressed", "connected"} -> PlayKinds
      [] cp \in {"status", "ping"} -> {"StatusPing"}
      [] cp = "pong" -> {Over}
      [] OTHER -> {}
ServerComing ==
    CASE sp = "handshake" -> {"Handshake"}
      [] sp \in {"full", "login_start"} -> {"LoginStart"}
      [] sp \in {"request", "encryption"} -> {"EncryptionResponse"}
      [] sp = "status_request" -> {"StatusRequest"}
      [] sp \in {"status_response", "status_ping"} -> {"StatusPing"}
      [] sp = "status_pong" -> {Over}
      [] OTHER -> PlayKinds
ServerDue ==
    CASE sp = "handshake" -> Answers
      [] sp = "full" -> {"LoginDisconnect"}
      [] sp = "login_start" -> LoginAnswers
      [] sp = "request" -> {"EncryptionRequest"}
      [] sp \in {"encryption", "verify", "compress"} -> {"SetCompression"}
      [] sp = "compressing" -> {"LoginSuccess"}
      [] sp \in {"status_request", "status_response"} -> {"StatusResponse"}
      [] sp \in {"status_ping", "status_pong"} -> {"StatusPong"}
      [] sp = "done" -> {}
      [] OTHER -> PlayKinds

ClientCodec ==
    CASE cp \in {"dialed", "greeting"} -> Code("Handshaking", FALSE, "none")
      [] cp \in {"login", "join", "respond", "ciphering"} -> Code("Login", FALSE, "none")
      [] cp = "encrypted" -> Code("Login", FALSE, Ciphering.key)
      [] cp = "compressed" -> Code("Login", TRUE, Cipher)
      [] cp = "connected" -> Code("Play", TRUE, Cipher)
      [] OTHER -> Code("Status", FALSE, "none")
ServerCodec ==
    CASE sp = "handshake" -> Code("Handshaking", FALSE, "none")
      [] sp \in {"full", "login_start", "request", "encryption", "verify"} ->
            Code("Login", FALSE, "none")
      [] sp \in {"compress", "compressing"} -> Code("Login", FALSE, Cipher)
      [] sp = "succeeding" -> Code("Login", TRUE, Cipher)
      [] sp \in {"check", "kick", "join"} \cup Playing -> Code("Play", TRUE, Cipher)
      [] OTHER -> Code("Status", FALSE, "none")

\* The same as a function, so that it is a value like any other.
Order == [kind \in Kinds |-> Follows(kind)]

\* What may stand after the first i packets of w.
After(w, i, coming, order) ==
    IF i = 0 THEN coming ELSE IF IsStray(w[i]) THEN {} ELSE order[w[i].kind]

\* The packets w, on their way to an end that is to read one of coming, and from
\* one that is to write one of due.
Stream(w, coming, due, order) ==
    /\ \A i \in 1..Len(w) : IsStray(w[i]) \/ w[i].kind \in After(w, i - 1, coming, order)
    /\ due \subseteq After(w, Len(w), coming, order)

Live == cp \notin {"failed", "abandoned"}
ToClient == Live => Stream(wire["c"], ClientComing, ServerDue, Order)
ToServer == sp # "done" => Stream(wire["s"], ServerComing, ClientDue, Order)
IsWell(p) ==
    /\ IsStray(p) \/ p.codec = CodecOf(p.kind)
    /\ p.kind = "Handshake" => p.body = setting.next
WrittenWell == \A e \in Ends : \A i \in 1..Len(wire[e]) : IsWell(wire[e][i])
ClientFramed ==
    IF Live THEN framing["c"] = Both(ClientCodec)
            ELSE framing["c"]["writer"].state # "Play"
ServerFramed == sp # "done" => framing["s"] = Both(ServerCodec)
Ciphered ==
    /\ cp \in {"join", "respond", "ciphering", "encrypted"} => setting.online
    /\ sp \in {"request", "encryption", "verify"} => setting.online
    /\ loop = "running" => cp = "connected"
Late == {"succeeding", "check", "kick", "join", "unlisted", "player", "done"}
Opening == {"LoginSuccess"} \cup PlayKinds
InPlay ==
    (cp = "connected" \/ \E i \in 1..Len(wire["c"]) : wire["c"][i].kind \in Opening)
        => sp \in Late

Framed ==
    /\ ToClient /\ ToServer /\ WrittenWell
    /\ ClientFramed /\ ServerFramed /\ Ciphered /\ InPlay

-----------------------------------------------------------------------------
(* Streams.                                                                *)

LEMMA StreamKept ==
    ASSUME NEW w, NEW a, NEW b, NEW due, NEW later, NEW order,
           Stream(w, a, due, order), a \subseteq b, later \subseteq due
    PROVE  Stream(w, b, later, order)
BY DEF Stream, After

LEMMA StreamTaken ==
    ASSUME NEW w \in Seq(Packet), w # <<>>, NEW a, NEW b, NEW due, NEW order,
           Stream(w, a, due, order),
           IsStray(Head(w)) \/ order[Head(w).kind] \subseteq b
    PROVE  Stream(Tail(w), b, due, order)
<1> DEFINE v == Tail(w)
<1>1. /\ Len(w) \in Nat \ {0} /\ Head(w) = w[1] /\ Len(v) = Len(w) - 1
      /\ \A i \in 1..Len(v) : v[i] = w[i + 1] /\ i + 1 \in 1..Len(w)
    OBVIOUS
<1>2. \A i \in 1..Len(v) : After(v, i, b, order) = After(w, i + 1, a, order)
    BY <1>1 DEF After
<1>3. After(w, 1, a, order) \subseteq After(v, 0, b, order)
    BY <1>1 DEF After
<1> HIDE DEF v
<1>4. ASSUME NEW i \in 1..Len(v)
      PROVE  IsStray(v[i]) \/ v[i].kind \in After(v, i - 1, b, order)
    <2>1. v[i] = w[i + 1] /\ i + 1 \in 1..Len(w)
        BY <1>1
    <2>2. IsStray(w[i + 1]) \/ w[i + 1].kind \in After(w, i, a, order)
        BY <2>1 DEF Stream
    <2>3. CASE i = 1
        BY <1>3, <2>1, <2>2, <2>3
    <2>4. CASE i # 1
        <3>1. i - 1 \in 1..Len(v) /\ (i - 1) + 1 = i
            BY <1>1, <2>4
        <3>2. After(v, i - 1, b, order) = After(w, i, a, order)
            BY <1>2, <3>1
        <3>3. QED
            BY <2>1, <2>2, <3>2
    <2>5. QED
        BY <2>3, <2>4
<1>5. due \subseteq After(v, Len(v), b, order)
    <2>1. due \subseteq After(w, Len(w), a, order)
        BY DEF Stream
    <2>2. CASE Len(v) = 0
        <3>1. Len(w) = 1
            BY <1>1, <2>2
        <3>2. After(w, Len(w), a, order) = After(w, 1, a, order)
              /\ After(v, Len(v), b, order) = After(v, 0, b, order)
            BY <2>2, <3>1
        <3>3. QED
            BY <1>3, <2>1, <3>2
    <2>3. CASE Len(v) # 0
        <3>1. Len(v) \in 1..Len(v) /\ Len(v) + 1 = Len(w)
            BY <1>1, <2>3
        <3>2. QED
            BY <1>2, <2>1, <3>1
    <2>4. QED
        BY <2>2, <2>3
<1>6. QED
    BY <1>4, <1>5 DEF Stream, v

\* What is written next is one of due, and then one of later; or a stray.
Fits(p, due, later, order) ==
    IF IsStray(p) THEN later = {} ELSE p.kind \in due /\ later \subseteq order[p.kind]

LEMMA StreamAppended ==
    ASSUME NEW w \in Seq(Packet), NEW p \in Packet, NEW a, NEW due, NEW later, NEW order,
           Stream(w, a, due, order), Fits(p, due, later, order)
    PROVE  Stream(Append(w, p), a, later, order)
<1> DEFINE v == Append(w, p)
<1>1. /\ Len(w) \in Nat /\ Len(v) = Len(w) + 1 /\ v[Len(v)] = p
      /\ \A i \in 1..Len(w) : v[i] = w[i]
    OBVIOUS
<1> HIDE DEF v
<1>2. \A i \in 0..Len(w) : After(v, i, a, order) = After(w, i, a, order)
    BY <1>1 DEF After
<1>3. later \subseteq After(v, Len(v), a, order)
    BY <1>1 DEF After, Fits
<1>4. ASSUME NEW i \in 1..Len(v)
      PROVE  IsStray(v[i]) \/ v[i].kind \in After(v, i - 1, a, order)
    <2>1. i - 1 \in 0..Len(w)
        BY <1>1
    <2>2. CASE i \in 1..Len(w)
        BY <1>1, <1>2, <2>1, <2>2 DEF Stream
    <2>3. CASE i = Len(v)
        <3>1. v[i] = p /\ i - 1 = Len(w)
            BY <1>1, <2>3
        <3>2. IsStray(p) \/ p.kind \in After(w, Len(w), a, order)
            BY DEF Stream, Fits
        <3>3. QED
            BY <1>2, <2>1, <3>1, <3>2
    <2>4. QED
        BY <1>1, <2>2, <2>3
<1>5. QED
    BY <1>3, <1>4 DEF Stream, v

-----------------------------------------------------------------------------
(* What a step of one end does to the streams.                             *)

Same(e)    == wire'[e] = wire[e]
Takes(e)   == wire[e] # <<>> /\ wire'[e] = Tail(wire[e])
Gets(e, p) == wire'[e] = Append(wire[e], p)
Leads(e, coming) == IsStray(Head(wire[e])) \/ Follows(Head(wire[e]).kind) \subseteq coming

LEMMA ValuesStay ==
    ASSUME setting' = setting
    PROVE  Order' = Order /\ \A p : IsWell(p) <=> IsWell(p)'
BY DEF Order, Follows, Second, Third, IsWell, CodecOf, Cipher

LEMMA WellStays ==
    ASSUME Typed, WrittenWell, setting' = setting,
           \A e \in Ends : Same(e) \/ Takes(e) \/ \E p \in Packet : IsWell(p) /\ Gets(e, p)
    PROVE  WrittenWell'
<1> SUFFICES ASSUME NEW e \in Ends, NEW i \in 1..Len(wire'[e])
             PROVE  IsWell(wire'[e][i])
    BY ValuesStay DEF WrittenWell
<1>1. wire[e] \in Seq(Packet)
    BY DEF Typed
<1>2. CASE Same(e)
    BY <1>2 DEF Same, WrittenWell
<1>3. CASE Takes(e)
    <2>1. i + 1 \in 1..Len(wire[e]) /\ wire'[e][i] = wire[e][i + 1]
        BY <1>1, <1>3 DEF Takes
    <2>2. QED
        BY <2>1 DEF WrittenWell
<1>4. ASSUME NEW p \in Packet, IsWell(p), Gets(e, p)
      PROVE  IsWell(wire'[e][i])
    <2>1. wire'[e][i] = p \/ (i \in 1..Len(wire[e]) /\ wire'[e][i] = wire[e][i])
        BY <1>1, <1>4 DEF Gets
    <2>2. QED
        BY <1>4, <2>1 DEF WrittenWell
<1>5. QED
    BY <1>2, <1>3, <1>4

LEMMA KindsOf ==
    ASSUME Typed, NEW e \in Ends, wire[e] # <<>>
    PROVE  /\ wire[e] \in Seq(Packet) /\ Head(wire[e]) \in Packet
           /\ Head(wire[e]).kind \in Kinds /\ Head(wire[e]) = wire[e][1]
           /\ 1 \in 1..Len(wire[e])
           /\ Order[Head(wire[e]).kind] = Follows(Head(wire[e]).kind)
<1>1. wire[e] \in Seq(Packet)
    BY DEF Typed
<1>2. Head(wire[e]) \in Packet /\ Head(wire[e]) = wire[e][1] /\ 1 \in 1..Len(wire[e])
    BY <1>1
<1>3. Head(wire[e]).kind \in Kinds
    BY <1>2 DEF Packet
<1>4. QED
    BY <1>1, <1>2, <1>3 DEF Order

\* A step of the client: what it is, apart from the streams, and what becomes
\* of the one it reads and of the one it writes.
ClientFrame ==
    /\ sp' = sp /\ setting' = setting /\ framing'["s"] = framing["s"]
    /\ ClientFramed' /\ Ciphered'
    /\ Live' => Live
    /\ cp' = "connected" => sp \in Late
ClientIn ==
    \/ Same("c") /\ (Live' => ClientComing \subseteq ClientComing')
    \/ Takes("c") /\ (Live' => Leads("c", ClientComing'))
ClientOut ==
    \/ Same("s") /\ ClientDue' \subseteq ClientDue
    \/ \E p \in Packet : Gets("s", p) /\ IsWell(p) /\ Fits(p, ClientDue, ClientDue', Order)

LEMMA ClientKeeps ==
    ASSUME Typed, Framed, ClientFrame, ClientIn, ClientOut
    PROVE  Framed'
<1>1. Order' = Order /\ ServerDue' = ServerDue /\ ServerComing' = ServerComing
    BY ValuesStay DEF ClientFrame, ServerDue, ServerComing, Answers, LoginAnswers
<1>2. /\ "c" \in Ends /\ "s" \in Ends
      /\ wire["c"] \in Seq(Packet) /\ wire["s"] \in Seq(Packet)
    BY DEF Typed, Ends
<1>3. ToClient'
    <2> SUFFICES ASSUME Live'
                 PROVE  Stream(wire'["c"], ClientComing', ServerDue, Order)
        BY <1>1 DEF ToClient
    <2>1. Stream(wire["c"], ClientComing, ServerDue, Order)
        BY DEF Framed, ToClient, ClientFrame
    <2>2. CASE Same("c") /\ ClientComing \subseteq ClientComing'
        BY <2>1, <2>2, StreamKept DEF Same
    <2>3. CASE Takes("c") /\ Leads("c", ClientComing')
        <3>1. IsStray(Head(wire["c"])) \/ Order[Head(wire["c"]).kind] \subseteq ClientComing'
            BY <1>2, <2>3, KindsOf DEF Takes, Leads
        <3>2. QED
            BY <1>2, <2>1, <2>3, <3>1, StreamTaken DEF Takes
    <2>4. QED
        BY <2>2, <2>3 DEF ClientIn
<1>4. ToServer'
    <2> SUFFICES ASSUME sp # "done"
                 PROVE  Stream(wire'["s"], ServerComing, ClientDue', Order)
        BY <1>1 DEF ToServer, ClientFrame
    <2>1. Stream(wire["s"], ServerComing, ClientDue, Order)
        BY DEF Framed, ToServer
    <2>2. CASE Same("s") /\ ClientDue' \subseteq ClientDue
        BY <2>1, <2>2, StreamKept DEF Same
    <2>3. ASSUME NEW p \in Packet, Gets("s", p), Fits(p, ClientDue, ClientDue', Order)
          PROVE  Stream(wire'["s"], ServerComing, ClientDue', Order)
        BY <1>2, <2>1, <2>3, StreamAppended DEF Gets
    <2>4. QED
        BY <2>2, <2>3 DEF ClientOut
<1>5. WrittenWell'
    BY WellStays DEF Framed, ClientFrame, ClientIn, ClientOut, Ends
<1>6. ServerFramed'
    BY DEF Framed, ServerFramed, ClientFrame, ServerCodec, Cipher
<1>7. InPlay'
    <2>1. \A i \in 1..Len(wire'["c"]) : \E j \in 1..Len(wire["c"]) : wire'["c"][i] = wire["c"][j]
        <3>1. CASE Same("c")
            BY <3>1 DEF Same
        <3>2. CASE Takes("c")
            <4>1. \A i \in 1..Len(wire'["c"]) :
                    i + 1 \in 1..Len(wire["c"]) /\ wire'["c"][i] = wire["c"][i + 1]
                BY <1>2, <3>2 DEF Takes
            <4>2. QED
                BY <4>1
        <3>3. QED
            BY <3>1, <3>2 DEF ClientIn
    <2>2. QED
        BY <2>1 DEF Framed, InPlay, ClientFrame
<1>8. QED
    BY <1>3, <1>4, <1>5, <1>6, <1>7 DEF Framed, ClientFrame

\* The same for the server.
ServerFrame ==
    /\ cp' = cp /\ setting' = setting /\ framing'["c"] = framing["c"]
    /\ ServerFramed' /\ Ciphered'
    /\ sp # "done"
    /\ sp \in Late => sp' \in Late
ServerIn ==
    \/ Same("s") /\ (sp' # "done" => ServerComing \subseteq ServerComing')
    \/ Takes("s") /\ (sp' # "done" => Leads("s", ServerComing'))
ServerOut ==
    \/ Same("c") /\ (Live => ServerDue' \subseteq ServerDue)
    \/ \E p \in Packet :
        /\ Gets("c", p) /\ IsWell(p) /\ Fits(p, ServerDue, ServerDue', Order)
        /\ p.kind \in Opening => sp' \in Late

LEMMA ServerKeeps ==
    ASSUME Typed, Framed, ServerFrame, ServerIn, ServerOut
    PROVE  Framed'
<1>1. Order' = Order /\ ClientDue' = ClientDue /\ ClientComing' = ClientComing
    BY ValuesStay DEF ServerFrame, ClientDue, ClientComing, Answers, LoginAnswers, Second, Third
<1>2. /\ "c" \in Ends /\ "s" \in Ends
      /\ wire["c"] \in Seq(Packet) /\ wire["s"] \in Seq(Packet)
    BY DEF Typed, Ends
<1>3. ToServer'
    <2> SUFFICES ASSUME sp' # "done"
                 PROVE  Stream(wire'["s"], ServerComing', ClientDue, Order)
        BY <1>1 DEF ToServer
    <2>1. Stream(wire["s"], ServerComing, ClientDue, Order)
        BY DEF Framed, ToServer, ServerFrame
    <2>2. CASE Same("s") /\ ServerComing \subseteq ServerComing'
        BY <2>1, <2>2, StreamKept DEF Same
    <2>3. CASE Takes("s") /\ Leads("s", ServerComing')
        <3>1. IsStray(Head(wire["s"])) \/ Order[Head(wire["s"]).kind] \subseteq ServerComing'
            BY <1>2, <2>3, KindsOf DEF Takes, Leads
        <3>2. QED
            BY <1>2, <2>1, <2>3, <3>1, StreamTaken DEF Takes
    <2>4. QED
        BY <2>2, <2>3 DEF ServerIn
<1>4. ToClient'
    <2> SUFFICES ASSUME Live
                 PROVE  Stream(wire'["c"], ClientComing, ServerDue', Order)
        BY <1>1 DEF ToClient, ServerFrame, Live
    <2>1. Stream(wire["c"], ClientComing, ServerDue, Order)
        BY DEF Framed, ToClient
    <2>2. CASE Same("c") /\ ServerDue' \subseteq ServerDue
        BY <2>1, <2>2, StreamKept DEF Same
    <2>3. ASSUME NEW p \in Packet, Gets("c", p), Fits(p, ServerDue, ServerDue', Order)
          PROVE  Stream(wire'["c"], ClientComing, ServerDue', Order)
        BY <1>2, <2>1, <2>3, StreamAppended DEF Gets
    <2>4. QED
        BY <2>2, <2>3 DEF ServerOut
<1>5. WrittenWell'
    BY WellStays DEF Framed, ServerFrame, ServerIn, ServerOut, Ends
<1>6. ClientFramed'
    BY DEF Framed, ClientFramed, ServerFrame, ClientCodec, Cipher, Ciphering, Live
<1>7. InPlay'
    <2>1. CASE Same("c")
        BY <2>1 DEF Same, Framed, InPlay, ServerFrame
    <2>2. ASSUME NEW p \in Packet, Gets("c", p), p.kind \in Opening => sp' \in Late
          PROVE  InPlay'
        <3>1. \A i \in 1..Len(wire'["c"]) :
                wire'["c"][i] = p \/ (i \in 1..Len(wire["c"]) /\ wire'["c"][i] = wire["c"][i])
            BY <1>2, <2>2 DEF Gets
        <3>2. QED
            BY <2>2, <3>1 DEF Framed, InPlay, ServerFrame
    <2>3. QED
        BY <2>1, <2>2 DEF ServerOut
<1>8. QED
    BY <1>3, <1>4, <1>5, <1>6, <1>7 DEF Framed, ServerFrame

-----------------------------------------------------------------------------
(* The two tables, entry by entry.                                         *)

LEMMA Orders ==
    /\ Follows("Handshake") = Second /\ Follows("LoginStart") = Third
    /\ Follows("EncryptionRequest") = {"SetCompression"}
    /\ Follows("SetCompression") = {"LoginSuccess"}
    /\ Follows("EncryptionResponse") = PlayKinds /\ Follows("LoginSuccess") = PlayKinds
    /\ \A kind \in PlayKinds : Follows(kind) = PlayKinds
    /\ Follows("StatusRequest") = {"StatusPing"} /\ Follows("StatusResponse") = {"StatusPong"}
    /\ Follows("StatusPing") = {Over} /\ Follows("StatusPong") = {Over}
BY DEF Follows, PlayKinds

LEMMA Codecs ==
    /\ CodecOf("Handshake") = Code("Handshaking", FALSE, "none")
    /\ \A kind \in {"StatusRequest", "StatusResponse", "StatusPing", "StatusPong"} :
            CodecOf(kind) = Code("Status", FALSE, "none")
    /\ \A kind \in {"LoginStart", "EncryptionRequest", "EncryptionResponse", "LoginDisconnect"} :
            CodecOf(kind) = Code("Login", FALSE, "none")
    /\ CodecOf("SetCompression") = Code("Login", FALSE, Cipher)
    /\ CodecOf("LoginSuccess") = Code("Login", TRUE, Cipher)
    /\ \A kind \in PlayKinds : CodecOf(kind) = Code("Play", TRUE, Cipher)
BY DEF CodecOf, PlayKinds

-----------------------------------------------------------------------------
(* What a step does to a framing and to what is on the wire.               *)

LEMMA StateSwitched ==
    ASSUME Typed, NEW e \in Ends, NEW s, NEW z, NEW c, NEW state,
           framing[e] = Both(Code(s, z, c)), SetState(e, state)
    PROVE  framing'[e] = Both(Code(state, z, c)) /\ framing'[Other(e)] = framing[Other(e)]
<1>1. framing' = [framing EXCEPT ![e] =
                    [h \in Halves |-> [framing[e][h] EXCEPT !["state"] = state]]]
    BY DEF SetState, Switch, Typed
<1>2. [h \in Halves |-> [framing[e][h] EXCEPT !["state"] = state]] = Both(Code(state, z, c))
    BY DEF Both, Code
<1>3. QED
    BY <1>1, <1>2 DEF Typed, Other, Ends

LEMMA CompressionSwitched ==
    ASSUME Typed, NEW e \in Ends, NEW s, NEW z, NEW c,
           framing[e] = Both(Code(s, z, c)), SetCompressionThreshold(e)
    PROVE  framing'[e] = Both(Code(s, TRUE, c)) /\ framing'[Other(e)] = framing[Other(e)]
<1>1. framing' = [framing EXCEPT ![e] =
                    [h \in Halves |-> [framing[e][h] EXCEPT !["compressed"] = TRUE]]]
    BY DEF SetCompressionThreshold, Switch, Typed
<1>2. \A on : [h \in Halves |-> [framing[e][h] EXCEPT !["compressed"] = on]]
                = Both(Code(s, on, c))
    BY DEF Both, Code
<1>3. QED
    BY <1>1, <1>2 DEF Typed, Other, Ends

LEMMA CipherSwitched ==
    ASSUME Typed, NEW e \in Ends, NEW s, NEW z, NEW c, NEW key,
           framing[e] = Both(Code(s, z, c)), EnableEncryption(e, key)
    PROVE  framing'[e] = Both(Code(s, z, key)) /\ framing'[Other(e)] = framing[Other(e)]
<1>1. framing' = [framing EXCEPT ![e] =
                    [h \in Halves |-> [framing[e][h] EXCEPT !["cipher"] = key]]]
    BY DEF EnableEncryption, Switch, Typed
<1>2. [h \in Halves |-> [framing[e][h] EXCEPT !["cipher"] = key]] = Both(Code(s, z, key))
    BY DEF Both, Code
<1>3. QED
    BY <1>1, <1>2 DEF Typed, Other, Ends

LEMMA Wrote ==
    ASSUME Typed, NEW e \in Ends, NEW kind \in Kinds, NEW body \in Bodies,
           kind = "Handshake" => body \in {"Status", "Login"},
           framing' \in [Ends -> [Halves -> Codec]], Writes(e, kind, body)
    PROVE  /\ Same(e)
           /\ \E p \in Packet : /\ p.kind = kind /\ p.body = body
                                /\ p.codec = framing'[e]["writer"]
                                /\ Gets(Other(e), p)
<1> DEFINE p == Written(e, kind, body)
<1>1. p \in Packet /\ p.kind = kind /\ p.body = body /\ p.codec = framing'[e]["writer"]
    BY DEF Written, Packet, Halves
<1>2. Other(e) \in Ends /\ Other(e) # e
    BY DEF Other, Ends
<1>3. wire' = [wire EXCEPT ![Other(e)] = Append(wire[Other(e)], p)]
    BY DEF Writes, Typed
<1> HIDE DEF p
<1>4. QED
    BY <1>1, <1>2, <1>3 DEF Typed, Same, Gets

LEMMA Took ==
    ASSUME Typed, NEW e \in Ends, Reading(e)
    PROVE  Takes(e) /\ Same(Other(e))
<1>1. Other(e) \in Ends /\ Other(e) # e
    BY DEF Other, Ends
<1>2. wire' = [wire EXCEPT ![e] = Tail(wire[e])] /\ wire[e] # <<>>
    BY DEF Reading, Typed
<1>3. QED
    BY <1>1, <1>2 DEF Typed, Takes, Same

\* What the first packet of either wire can be.
LEMMA Heads ==
    ASSUME Typed, Framed
    PROVE  /\ wire["c"] # <<>> /\ Live => LET p == Head(wire["c"]) IN
                /\ IsStray(p) \/ p.kind \in ClientComing
                /\ IsWell(p) /\ p.kind \in Kinds
                /\ p.kind = "LoginSuccess" => sp \in Late
           /\ wire["s"] # <<>> /\ sp # "done" => LET p == Head(wire["s"]) IN
                /\ IsStray(p) \/ p.kind \in ServerComing
                /\ IsWell(p) /\ p.kind \in Kinds
<1>1. "c" \in Ends /\ "s" \in Ends
    BY DEF Ends
<1>2. ASSUME NEW e \in Ends, wire[e] # <<>>, NEW coming, NEW due,
             Stream(wire[e], coming, due, Order)
      PROVE  IsStray(Head(wire[e])) \/ Head(wire[e]).kind \in coming
    <2>1. Head(wire[e]) = wire[e][1] /\ 1 \in 1..Len(wire[e])
        BY <1>2, KindsOf
    <2>2. IsStray(wire[e][1]) \/ wire[e][1].kind \in After(wire[e], 1 - 1, coming, Order)
        BY <1>2, <2>1 DEF Stream
    <2>3. QED
        BY <2>1, <2>2 DEF After
<1>3. ASSUME NEW e \in Ends, wire[e] # <<>>
      PROVE  IsWell(Head(wire[e])) /\ Head(wire[e]).kind \in Kinds
    BY <1>3, KindsOf DEF Framed, WrittenWell
<1>4. ASSUME wire["c"] # <<>>, Head(wire["c"]).kind = "LoginSuccess"
      PROVE  sp \in Late
    BY <1>1, <1>4, KindsOf DEF Framed, InPlay, Opening
<1>5. QED
    BY <1>1, <1>2, <1>3, <1>4 DEF Framed, ToClient, ToServer

-----------------------------------------------------------------------------
(* The steps of the client.                                                *)

LEMMA FramedStays ==
    ASSUME Framed, UNCHANGED <<setting, cp, sp, framing, wire, loop>>
    PROVE  Framed'
<1>1. Order' = Order /\ \A p : IsWell(p) <=> IsWell(p)'
    BY ValuesStay
<1>2. ToClient' /\ ToServer'
    BY <1>1 DEF Framed, ToClient, ToServer, Live, ClientComing, ServerComing, ClientDue, ServerDue,
            Answers, LoginAnswers, Second, Third
<1>3. WrittenWell'
    BY <1>1 DEF Framed, WrittenWell
<1>4. ClientFramed' /\ ServerFramed'
    BY DEF Framed, ClientFramed, ServerFramed, Live, ClientCodec, ServerCodec, Cipher, Ciphering
<1>5. Ciphered' /\ InPlay'
    BY DEF Framed, Ciphered, InPlay
<1>6. QED
    BY <1>2, <1>3, <1>4, <1>5 DEF Framed

LEMMA ClientFails ==
    ASSUME Typed, Framed, cp \in Connecting, cp' \in {"failed", "abandoned"},
           UNCHANGED <<setting, sp, framing, loop>>, Same("s"), Same("c") \/ Takes("c")
    PROVE  Framed'
<1>1. Live /\ ~Live'
    BY DEF Live, Connecting
<1>2. framing["c"]["writer"].state # "Play"
    BY <1>1 DEF Framed, ClientFramed, ClientCodec, Connecting, Code, Both, Halves
<1>3. ClientFrame
    BY <1>1, <1>2 DEF ClientFrame, ClientFramed, Framed, Ciphered, Connecting
<1>4. ClientIn
    BY <1>1 DEF ClientIn
<1>5. ClientOut
    BY DEF ClientOut, ClientDue
<1>6. QED
    BY <1>3, <1>4, <1>5, ClientKeeps

LEMMA ClientPuts ==
    ASSUME Typed, NEW kind \in Kinds, NEW body \in Bodies,
           kind = "Handshake" => body = setting.next,
           framing' \in [Ends -> [Halves -> Codec]], Writes("c", kind, body),
           framing'["c"] = Both(CodecOf(kind)),
           kind \in ClientDue, ClientDue' \subseteq Follows(kind)
    PROVE  Same("c") /\ ClientOut
<1>1. "c" \in Ends /\ Other("c") = "s" /\ setting.next \in {"Status", "Login"}
    BY DEF Ends, Other, Typed, Settings
<1>2. PICK p \in Packet : /\ p.kind = kind /\ p.body = body
                          /\ p.codec = framing'["c"]["writer"] /\ Gets("s", p)
    BY <1>1, Wrote
<1>3. p.codec = CodecOf(kind)
    BY <1>2 DEF Both, Halves
<1>4. IsWell(p)
    BY <1>2, <1>3 DEF IsWell
<1>5. ~IsStray(p)
    BY <1>2, <1>3 DEF IsStray, CodecOf, PlayKinds, Code
<1>6. Fits(p, ClientDue, ClientDue', Order)
    BY <1>2, <1>5 DEF Fits, Order
<1>7. QED
    BY <1>1, <1>2, <1>4, <1>6, Wrote DEF ClientOut

\* Every step of the client, after what it reads or writes.
LEMMA ClientStepKeeps ==
    ASSUME Typed, Framed, Shut, Shut', ClientStep
    PROVE  Framed'
<1>1. /\ "c" \in Ends /\ "s" \in Ends /\ Other("c") = "s" /\ Other("s") = "c"
      /\ setting \in Settings /\ setting.next \in {"Status", "Login"}
      /\ framing \in [Ends -> [Halves -> Codec]]
    BY DEF Typed, Ends, Other, Settings
<1>2. setting' = setting /\ framing' \in [Ends -> [Halves -> Codec]]
    BY ClientShape
<1>3. ASSUME NEW kind \in Kinds, Reads("c", kind)
      PROVE  /\ Takes("c") /\ Same("s")
             /\ Head(wire["c"]).kind = kind
             /\ Live /\ kind # "Chat" => kind \in ClientComing
             /\ Live /\ kind = "LoginSuccess" => sp \in Late
    <2>1. Reading("c") /\ Head(wire["c"]).kind = kind /\ wire["c"] # <<>>
        BY <1>3 DEF Reads, Reading
    <2>2. QED
        BY <1>1, <2>1, Took, Heads DEF IsStray
<1>4. ASSUME UNCHANGED wire
      PROVE  Same("c") /\ Same("s")
    BY <1>4 DEF Same
<1>5. cp \in Connecting => loop # "running"
    BY DEF Framed, Ciphered, Connecting
<1>6. CASE ClientHandshake
    <2>1. /\ cp = "dialed" /\ cp' = "greeting" /\ Writes("c", "Handshake", setting.next)
          /\ UNCHANGED <<framing, loop, sp>>
        BY <1>6 DEF ClientHandshake, ClientWrites, ClientGoto, ClientOnly, serverVars
    <2>2. framing["c"] = Both(Code("Handshaking", FALSE, "none"))
        BY <2>1 DEF Framed, ClientFramed, Live, ClientCodec
    <2>3. ClientFrame
        BY <1>2, <1>5, <2>1, <2>2
        DEF ClientFrame, Framed, ClientFramed, ClientCodec, Ciphered, Live, Connecting
    <2>4. Same("c") /\ ClientOut
        BY <1>1, <1>2, <2>1, <2>2, ClientPuts, Orders, Codecs
        DEF Kinds, Bodies, ClientDue, Second
    <2>5. ClientIn
        BY <1>2, <2>1, <2>4 DEF ClientIn, ClientComing, Answers, LoginAnswers
    <2>6. QED
        BY <2>3, <2>4, <2>5, ClientKeeps
<1>7. CASE ClientStart
    <2>1. /\ cp = "greeting" /\ SetState("c", setting.next) /\ UNCHANGED <<loop, sp>>
          /\ \/ setting.next = "Status" /\ cp' = "status" /\ Writes("c", "StatusRequest", "none")
             \/ setting.next = "Login" /\ cp' = "login" /\ Writes("c", "LoginStart", "none")
             \/ setting.next = "Login" /\ cp' = "failed" /\ UNCHANGED wire
        BY <1>1, <1>7 DEF ClientStart, ClientGoto, ClientOnly, serverVars, Settings
    <2>2. framing["c"] = Both(Code("Handshaking", FALSE, "none"))
        BY <2>1 DEF Framed, ClientFramed, Live, ClientCodec
    <2>3. /\ framing'["c"] = Both(Code(setting.next, FALSE, "none"))
          /\ framing'[Other("c")] = framing[Other("c")]
        BY <2>1, <2>2, StateSwitched DEF Ends
    <2>4. framing'["c"]["writer"].state = setting.next
        BY <2>3 DEF Code, Both, Halves
    <2>5. ClientFrame
        BY <1>1, <1>2, <1>5, <2>1, <2>3, <2>4
        DEF ClientFrame, Framed, ClientFramed, ClientCodec, Ciphered, Live, Connecting
    <2>6. Same("c") /\ ClientOut
        <3>1. CASE setting.next = "Status"
            BY <1>1, <1>2, <2>1, <2>3, <3>1, ClientPuts, Orders, Codecs
            DEF Kinds, Bodies, ClientDue, Second
        <3>2. CASE setting.next = "Login" /\ cp' = "login"
            BY <1>1, <1>2, <2>1, <2>3, <3>2, ClientPuts, Orders, Codecs
            DEF Kinds, Bodies, ClientDue, Second, Third
        <3>3. CASE cp' = "failed"
            BY <1>4, <2>1, <3>3 DEF ClientOut, ClientDue
        <3>4. QED
            BY <1>1, <2>1, <3>1, <3>2, <3>3
    <2>7. ClientIn
        BY <1>2, <2>1, <2>6 DEF ClientIn, ClientComing, Answers, LoginAnswers, Live
    <2>8. QED
        BY <2>5, <2>6, <2>7, ClientKeeps
<1>8. CASE ClientReadsEncryptionRequest
    <2>1. /\ cp = "login" /\ Reads("c", "EncryptionRequest") /\ cp' \in {"failed", "join"}
          /\ UNCHANGED <<framing, loop, sp>>
        BY <1>8 DEF ClientReadsEncryptionRequest, ClientGoto, ClientOnly, serverVars
    <2>2. /\ Takes("c") /\ Same("s") /\ Head(wire["c"]).kind = "EncryptionRequest"
          /\ "EncryptionRequest" \in ClientComing
        BY <1>3, <2>1 DEF Kinds, Live
    <2>3. CASE cp' = "failed"
        BY <1>2, <2>1, <2>2, <2>3, ClientFails DEF Connecting
    <2>4. CASE cp' = "join"
        <3>1. setting.online
            BY <2>1, <2>2 DEF ClientComing, LoginAnswers
        <3>2. ClientFrame
            BY <1>2, <1>5, <2>1, <2>4, <3>1
            DEF ClientFrame, Framed, ClientFramed, ClientCodec, Ciphered, Live, Connecting
        <3>3. ClientIn
            BY <2>2, <2>4, Orders DEF ClientIn, ClientComing, Leads
        <3>4. ClientOut
            BY <1>2, <2>1, <2>2, <2>4, <3>1 DEF ClientOut, ClientDue, Third
        <3>5. QED
            BY <3>2, <3>3, <3>4, ClientKeeps
    <2>5. QED
        BY <2>1, <2>3, <2>4
<1>9. CASE JoinServer
    <2>1. /\ cp = "join" /\ cp' \in {"failed", "respond"}
          /\ UNCHANGED <<framing, loop, sp, wire>>
        BY <1>9 DEF JoinServer, ClientEnds, ClientGoto, serverVars
    <2>2. CASE cp' = "failed"
        BY <1>2, <1>4, <2>1, <2>2, ClientFails DEF Connecting
    <2>3. CASE cp' = "respond"
        <3>1. ClientFrame
            BY <1>2, <1>5, <2>1, <2>3
            DEF ClientFrame, Framed, ClientFramed, ClientCodec, Ciphered, Live, Connecting
        <3>2. ClientIn /\ ClientOut
            BY <1>4, <2>1, <2>3 DEF ClientIn, ClientOut, ClientComing, ClientDue
        <3>3. QED
            BY <3>1, <3>2, ClientKeeps
    <2>4. QED
        BY <2>1, <2>2, <2>3
<1>10. CASE ClientResponds
    <2>1. /\ cp = "respond" /\ cp' = "ciphering"
          /\ Writes("c", "EncryptionResponse", Ciphering.body)
          /\ UNCHANGED <<framing, loop, sp>>
        BY <1>10 DEF ClientResponds, ClientWrites, ClientGoto, ClientOnly, serverVars
    <2>2. framing["c"] = Both(Code("Login", FALSE, "none"))
        BY <2>1 DEF Framed, ClientFramed, Live, ClientCodec
    <2>3. Ciphering.body \in Bodies
        BY DEF Ciphering, Bodies
    <2>4. ClientFrame
        BY <1>2, <1>5, <2>1, <2>2
        DEF ClientFrame, Framed, ClientFramed, ClientCodec, Ciphered, Live, Connecting
    <2>5. Same("c") /\ ClientOut
        BY <1>1, <1>2, <2>1, <2>2, <2>3, ClientPuts, Orders, Codecs DEF Kinds, ClientDue
    <2>6. ClientIn
        BY <2>1, <2>5 DEF ClientIn, ClientComing
    <2>7. QED
        BY <2>4, <2>5, <2>6, ClientKeeps
<1>11. CASE ClientCiphers
    <2>1. /\ cp = "ciphering" /\ UNCHANGED <<loop, sp, wire>>
          /\ \/ cp' = "encrypted" /\ EnableEncryption("c", Ciphering.key)
             \/ cp' = "failed" /\ UNCHANGED framing
        BY <1>11 DEF ClientCiphers, ClientEnds, ClientGoto, ClientOnly, serverVars
    <2>2. CASE cp' = "failed" /\ UNCHANGED framing
        BY <1>2, <1>4, <2>1, <2>2, ClientFails DEF Connecting
    <2>3. CASE cp' = "encrypted" /\ EnableEncryption("c", Ciphering.key)
        <3>1. framing["c"] = Both(Code("Login", FALSE, "none"))
            BY <2>1 DEF Framed, ClientFramed, Live, ClientCodec
        <3>2. /\ framing'["c"] = Both(Code("Login", FALSE, Ciphering.key))
              /\ framing'[Other("c")] = framing[Other("c")]
            BY <2>3, <3>1, CipherSwitched DEF Ends
        <3>3. Ciphering' = Ciphering
            BY <1>2 DEF Ciphering
        <3>4. ClientFrame
            BY <1>1, <1>2, <1>5, <2>1, <2>3, <3>2, <3>3
            DEF ClientFrame, Framed, ClientFramed, ClientCodec, Ciphered, Live, Connecting
        <3>5. ClientIn /\ ClientOut
            BY <1>4, <2>1, <2>3 DEF ClientIn, ClientOut, ClientComing, ClientDue, PlayKinds
        <3>6. QED
            BY <3>4, <3>5, ClientKeeps
    <2>4. QED
        BY <2>1, <2>2, <2>3
<1>12. CASE ClientReadsSetCompression
    <2>1. /\ cp \in {"login", "encrypted"} /\ Reads("c", "SetCompression")
          /\ cp' = "compressed" /\ SetCompressionThreshold("c") /\ UNCHANGED <<loop, sp>>
        BY <1>12 DEF ClientReadsSetCompression, ClientGoto, ClientOnly, serverVars
    <2>2. /\ Takes("c") /\ Same("s") /\ Head(wire["c"]).kind = "SetCompression"
          /\ "SetCompression" \in ClientComing
        BY <1>3, <2>1 DEF Kinds, Live
    <2>3. cp = "login" => ~setting.online
        BY <2>2 DEF ClientComing, LoginAnswers
    <2>4. framing["c"] = Both(Code("Login", FALSE, Cipher))
        <3>1. CASE cp = "login"
            BY <2>3, <3>1 DEF Framed, ClientFramed, Live, ClientCodec, Cipher
        <3>2. CASE cp = "encrypted"
            <4>1. setting.online /\ setting.peer # "client"
                BY <1>2, <2>1, <3>2 DEF Framed, Ciphered, Shut, Hopeless, ClientShut
            <4>2. QED
                BY <3>2, <4>1 DEF Framed, ClientFramed, Live, ClientCodec, Cipher, Ciphering
        <3>3. QED
            BY <2>1, <3>1, <3>2
    <2>5. /\ framing'["c"] = Both(Code("Login", TRUE, Cipher))
          /\ framing'[Other("c")] = framing[Other("c")]
        BY <2>1, <2>4, CompressionSwitched DEF Ends
    <2>6. ClientFrame
        <3>1. Cipher' = Cipher
            BY <1>2 DEF Cipher
        <3>2. QED
            BY <1>1, <1>2, <1>5, <2>1, <2>5, <3>1
            DEF ClientFrame, Framed, ClientFramed, ClientCodec, Ciphered, Live, Connecting
    <2>7. ClientIn
        BY <2>1, <2>2, Orders DEF ClientIn, ClientComing, Leads
    <2>8. ClientOut
        BY <2>1, <2>2, <2>3 DEF ClientOut, ClientDue, Third, PlayKinds
    <2>9. QED
        BY <2>6, <2>7, <2>8, ClientKeeps
<1>13. CASE ClientReadsLoginSuccess
    <2>1. /\ cp \in {"login", "encrypted", "compressed"} /\ Reads("c", "LoginSuccess")
          /\ cp' = "connected" /\ SetState("c", "Play") /\ UNCHANGED sp
        BY <1>13 DEF ClientReadsLoginSuccess, ClientOnly, serverVars
    <2>2. /\ Takes("c") /\ Same("s") /\ Head(wire["c"]).kind = "LoginSuccess"
          /\ "LoginSuccess" \in ClientComing /\ sp \in Late
        BY <1>3, <2>1 DEF Kinds, Live
    <2>3. cp = "compressed"
        BY <2>1, <2>2 DEF ClientComing, LoginAnswers
    <2>4. framing["c"] = Both(Code("Login", TRUE, Cipher))
        BY <2>3 DEF Framed, ClientFramed, Live, ClientCodec
    <2>5. /\ framing'["c"] = Both(Code("Play", TRUE, Cipher))
          /\ framing'[Other("c")] = framing[Other("c")]
        BY <2>1, <2>4, StateSwitched DEF Ends
    <2>6. ClientFrame
        <3>1. Cipher' = Cipher
            BY <1>2 DEF Cipher
        <3>2. QED
            BY <1>1, <1>2, <2>1, <2>2, <2>3, <2>5, <3>1
            DEF ClientFrame, Framed, ClientFramed, ClientCodec, Ciphered, Live
    <2>7. ClientIn
        BY <2>1, <2>2, Orders DEF ClientIn, ClientComing, Leads, PlayKinds
    <2>8. ClientOut
        BY <2>1, <2>2, <2>3 DEF ClientOut, ClientDue, PlayKinds
    <2>9. QED
        BY <2>6, <2>7, <2>8, ClientKeeps
<1>14. CASE ClientReadsStatus \/ ClientReadsPong
    <2>1. /\ \/ cp = "status" /\ Reads("c", "StatusResponse") /\ cp' \in {"answered", "ping"}
             \/ cp = "pong" /\ Reads("c", "StatusPong") /\ cp' = "answered"
          /\ UNCHANGED <<framing, loop, sp>>
        BY <1>14 DEF ClientReadsStatus, ClientReadsPong, ClientGoto, ClientOnly, serverVars
    <2>2. /\ Takes("c") /\ Same("s")
          /\ Head(wire["c"]).kind = IF cp = "status" THEN "StatusResponse" ELSE "StatusPong"
        BY <1>3, <2>1 DEF Kinds
    <2>3. ClientFrame
        BY <1>2, <1>5, <2>1
        DEF ClientFrame, Framed, ClientFramed, ClientCodec, Ciphered, Live, Connecting
    <2>4. ClientIn
        BY <2>1, <2>2, Orders DEF ClientIn, ClientComing, Leads
    <2>5. ClientOut
        BY <2>1, <2>2 DEF ClientOut, ClientDue
    <2>6. QED
        BY <2>3, <2>4, <2>5, ClientKeeps
<1>15. CASE ClientPings
    <2>1. /\ cp = "ping" /\ cp' = "pong" /\ Writes("c", "StatusPing", "none")
          /\ UNCHANGED <<framing, loop, sp>>
        BY <1>15 DEF ClientPings, ClientWrites, ClientGoto, ClientOnly, serverVars
    <2>2. framing["c"] = Both(Code("Status", FALSE, "none"))
        BY <2>1 DEF Framed, ClientFramed, Live, ClientCodec
    <2>3. ClientFrame
        BY <1>2, <1>5, <2>1, <2>2
        DEF ClientFrame, Framed, ClientFramed, ClientCodec, Ciphered, Live, Connecting
    <2>4. Same("c") /\ ClientOut
        BY <1>1, <1>2, <2>1, <2>2, ClientPuts, Orders, Codecs DEF Kinds, Bodies, ClientDue
    <2>5. ClientIn
        BY <2>1, <2>4 DEF ClientIn, ClientComing
    <2>6. QED
        BY <2>3, <2>4, <2>5, ClientKeeps
<1>16. CASE ClientReadsWrongPacket \/ ClientErrs
    <2>1. /\ cp \in Connecting /\ cp' = "failed" /\ UNCHANGED <<framing, loop, sp>>
          /\ UNCHANGED wire \/ \E kind \in Kinds : Reads("c", kind)
        BY <1>16 DEF ClientReadsWrongPacket, ClientErrs, ClientEnds, ClientGoto, ClientOnly,
                     serverVars, Connecting, ClientAwaits
    <2>2. Same("s") /\ (Same("c") \/ Takes("c"))
        BY <1>3, <1>4, <2>1
    <2>3. QED
        BY <1>2, <2>1, <2>2, ClientFails
<1>17. QED
    BY <1>6, <1>7, <1>8, <1>9, <1>10, <1>11, <1>12, <1>13, <1>14, <1>15, <1>16 DEF ClientStep

\* The client loop, the chat messages and the end of the client.
LEMMA OthersKeep ==
    ASSUME Typed, Framed,
           \/ ClientLoopReads \/ AddPacketReceiver \/ SendChat \/ SendStray
           \/ Abandon \/ DropClient \/ Break
    PROVE  Framed'
<1>1. /\ "c" \in Ends /\ "s" \in Ends /\ Other("c") = "s"
      /\ framing \in [Ends -> [Halves -> Codec]]
    BY DEF Typed, Ends, Other
<1>2. CASE AddPacketReceiver \/ DropClient \/ Break
    BY <1>2, FramedStays DEF AddPacketReceiver, DropClient, Break, ClientOnly, clientVars,
                             serverVars, linkVars
<1>3. CASE Abandon
    <2>1. /\ cp \in Connecting /\ cp' = "abandoned"
          /\ UNCHANGED <<setting, sp, framing, loop, wire>>
        BY <1>3 DEF Abandon, ClientEnds, ClientGoto, ClientOnly, serverVars
    <2>2. Same("s") /\ Same("c")
        BY <2>1 DEF Same
    <2>3. QED
        BY <2>1, <2>2, ClientFails
<1>4. CASE ClientLoopReads
    <2>1. /\ loop = "running" /\ Reading("c") /\ UNCHANGED <<setting, cp, sp, framing>>
        BY <1>4 DEF ClientLoopReads, ClientOnly, serverVars, Reading
    <2>2. cp = "connected" /\ Live
        BY <2>1 DEF Framed, Ciphered, Live
    <2>3. Takes("c") /\ Same("s") /\ wire["c"] # <<>>
        BY <1>1, <2>1, Took DEF Reading
    <2>4. ClientFrame
        BY <2>1, <2>2, <1>1
        DEF ClientFrame, Framed, ClientFramed, ClientCodec, Cipher, Ciphered, Live, InPlay
    <2>5. IsStray(Head(wire["c"])) \/ Head(wire["c"]).kind \in PlayKinds
        BY <2>2, <2>3, Heads DEF ClientComing
    <2>6. ClientIn
        BY <2>1, <2>2, <2>3, <2>5, Orders DEF ClientIn, ClientComing, Leads
    <2>7. ClientOut
        BY <2>1, <2>2, <2>3 DEF ClientOut, ClientDue, PlayKinds
    <2>8. QED
        BY <2>4, <2>6, <2>7, ClientKeeps
<1>5. CASE SendChat
    <2>1. /\ cp = "connected" /\ Writes("c", "Chat", "none")
          /\ UNCHANGED <<setting, cp, sp, framing, loop>>
        BY <1>5 DEF SendChat, ClientOnly, serverVars
    <2>2. framing["c"] = Both(Code("Play", TRUE, Cipher))
        BY <2>1 DEF Framed, ClientFramed, Live, ClientCodec
    <2>3. ClientFrame
        BY <1>1, <2>1
        DEF ClientFrame, Framed, ClientFramed, ClientCodec, Cipher, Ciphered, Live, InPlay
    <2>4. Same("c") /\ ClientOut
        BY <1>1, <2>1, <2>2, ClientPuts, Orders, Codecs DEF Kinds, Bodies, ClientDue, PlayKinds
    <2>5. ClientIn
        BY <2>1, <2>4 DEF ClientIn, ClientComing, PlayKinds
    <2>6. QED
        BY <2>3, <2>4, <2>5, ClientKeeps
<1>6. CASE SendStray
    <2>1. /\ cp \in {"failed", "abandoned"} /\ Writes("c", "Chat", "none")
          /\ UNCHANGED <<setting, cp, sp, framing, loop>>
        BY <1>6 DEF SendStray, ClientOnly, serverVars
    <2>2. ~Live /\ ~Live' /\ framing["c"]["writer"].state # "Play"
        BY <2>1 DEF Framed, ClientFramed, Live
    <2>3. ClientFrame
        BY <2>1, <2>2 DEF ClientFrame, Framed, ClientFramed, Ciphered
    <2>4. PICK p \in Packet : /\ p.kind = "Chat" /\ p.codec = framing'["c"]["writer"]
                              /\ Gets("s", p)
        BY <1>1, <2>1, Wrote DEF Kinds, Bodies
    <2>5. IsStray(p)
        BY <2>1, <2>2, <2>4 DEF IsStray
    <2>6. Fits(p, ClientDue, ClientDue', Order)
        BY <2>1, <2>5 DEF Fits, ClientDue
    <2>7. ClientOut
        BY <2>4, <2>5, <2>6 DEF ClientOut, IsWell
    <2>8. Same("c")
        BY <1>1, <2>1, Wrote DEF Kinds, Bodies
    <2>9. ClientIn
        BY <2>2, <2>8 DEF ClientIn
    <2>10. QED
        BY <2>3, <2>7, <2>9, ClientKeeps
<1>7. QED
    BY <1>2, <1>3, <1>4, <1>5, <1>6

-----------------------------------------------------------------------------
(* The steps of the server.                                                *)

LEMMA ServerPuts ==
    ASSUME Typed, NEW kind \in Kinds \ {"Handshake"},
           framing' \in [Ends -> [Halves -> Codec]], Writes("s", kind, "none"),
           framing'["s"] = Both(CodecOf(kind)),
           kind \in ServerDue, ServerDue' \subseteq Follows(kind),
           kind \in Opening => sp' \in Late
    PROVE  Same("s") /\ ServerOut
<1>1. "s" \in Ends /\ Other("s") = "c"
    BY DEF Ends, Other
<1>2. PICK p \in Packet : /\ p.kind = kind /\ p.body = "none"
                          /\ p.codec = framing'["s"]["writer"] /\ Gets("c", p)
    BY <1>1, Wrote DEF Bodies
<1>3. p.codec = CodecOf(kind)
    BY <1>2 DEF Both, Halves
<1>4. IsWell(p)
    BY <1>2, <1>3 DEF IsWell
<1>5. ~IsStray(p)
    BY <1>2, <1>3 DEF IsStray, CodecOf, PlayKinds, Code
<1>6. Fits(p, ServerDue, ServerDue', Order)
    BY <1>2, <1>5 DEF Fits, Order
<1>7. Same("s")
    BY <1>1, Wrote DEF Bodies
<1>8. QED
    BY <1>2, <1>4, <1>6, <1>7 DEF ServerOut

LEMMA ServerEnding ==
    ASSUME Typed, Framed, sp # "done", sp' = "done",
           UNCHANGED <<setting, cp, framing, loop>>,
           Same("s") \/ Takes("s"), Same("c") \/ ServerOut
    PROVE  Framed'
<1>1. ServerFrame
    BY DEF ServerFrame, ServerFramed, Framed, Ciphered, Late
<1>2. ServerIn
    BY DEF ServerIn
<1>3. ServerOut
    BY DEF ServerOut, ServerDue
<1>4. QED
    BY <1>1, <1>2, <1>3, ServerKeeps

LEMMA ServerStepKeeps ==
    ASSUME Typed, Framed, ServerStep
    PROVE  Framed'
<1>1. /\ "c" \in Ends /\ "s" \in Ends /\ Other("c") = "s" /\ Other("s") = "c"
      /\ setting \in Settings /\ setting.next \in {"Status", "Login"}
      /\ framing \in [Ends -> [Halves -> Codec]]
    BY DEF Typed, Ends, Other, Settings
<1>2. setting' = setting /\ framing' \in [Ends -> [Halves -> Codec]]
    BY ServerShape, HearingIsTyped DEF Typed
<1>3. ASSUME NEW kind \in Kinds, Reads("s", kind), sp # "done"
      PROVE  /\ Takes("s") /\ Same("c")
             /\ Head(wire["s"]).kind = kind
             /\ kind # "Chat" => kind \in ServerComing
             /\ kind = "Handshake" => Head(wire["s"]).body = setting.next
    <2>1. Reading("s") /\ Head(wire["s"]).kind = kind /\ wire["s"] # <<>>
        BY <1>3 DEF Reads, Reading
    <2>2. QED
        BY <1>1, <1>3, <2>1, Took, Heads DEF IsStray, IsWell
<1>4. ASSUME UNCHANGED wire
      PROVE  Same("c") /\ Same("s")
    BY <1>4 DEF Same
<1>5. Cipher' = Cipher
    BY <1>2 DEF Cipher
<1>6. ASSUME UNCHANGED <<cp, loop>>, framing'["c"] = framing["c"],
             sp # "done", sp \in Late => sp' \in Late,
             framing'["s"] = Both(ServerCodec'),
             sp' \in {"request", "encryption", "verify"} => setting.online
      PROVE  ServerFrame
    BY <1>2, <1>6 DEF ServerFrame, ServerFramed, Framed, Ciphered
<1>7. CASE ServerReadsHandshake
    <2>1. /\ sp = "handshake" /\ Reads("s", "Handshake")
          /\ SetState("s", Head(wire["s"]).body)
          /\ sp' = IF Head(wire["s"]).body = "Status" THEN "status_request"
                   ELSE IF setting.full THEN "full" ELSE "login_start"
          /\ UNCHANGED <<cp, loop>>
        BY <1>7 DEF ServerReadsHandshake, ServerGoto, ServerOnly, clientVars
    <2>2. /\ Takes("s") /\ Same("c") /\ Head(wire["s"]).kind = "Handshake"
          /\ Head(wire["s"]).body = setting.next
        BY <1>3, <2>1 DEF Kinds
    <2>3. framing["s"] = Both(Code("Handshaking", FALSE, "none"))
        BY <2>1 DEF Framed, ServerFramed, ServerCodec, Playing
    <2>4. /\ framing'["s"] = Both(Code(setting.next, FALSE, "none"))
          /\ framing'[Other("s")] = framing[Other("s")]
        <3>1. SetState("s", setting.next)
            BY <2>1, <2>2
        <3>2. QED
            BY <2>3, <3>1, StateSwitched DEF Ends
    <2>5. ServerFrame
        BY <1>1, <1>6, <2>1, <2>2, <2>4 DEF ServerCodec, Playing, Late
    <2>6. ServerIn
        BY <1>1, <1>2, <2>1, <2>2, Orders DEF ServerIn, ServerComing, Leads, Second
    <2>7. ServerOut
        BY <1>1, <1>2, <2>1, <2>2 DEF ServerOut, ServerDue, Answers, LoginAnswers
    <2>8. QED
        BY <2>5, <2>6, <2>7, ServerKeeps
<1>8. CASE ServerRefuses
    <2>1. /\ UNCHANGED <<cp, loop, framing>> /\ sp' = "done"
          /\ \/ sp = "full" /\ Writes("s", "LoginDisconnect", "none")
             \/ sp = "kick" /\ Writes("s", "PlayDisconnect", "none")
        BY <1>8 DEF ServerRefuses, ServerEnds, ServerGoto, ServerOnly, clientVars
    <2>2. /\ sp = "full" => framing["s"] = Both(Code("Login", FALSE, "none"))
          /\ sp = "kick" => framing["s"] = Both(Code("Play", TRUE, Cipher))
        BY DEF Framed, ServerFramed, ServerCodec, Playing
    <2>3. Same("s") /\ ServerOut
        BY <1>1, <1>2, <2>1, <2>2, ServerPuts, Orders, Codecs DEF Kinds, ServerDue, PlayKinds, Late
    <2>4. QED
        BY <1>2, <2>1, <2>3, ServerEnding
<1>9. CASE ServerReadsLoginStart
    <2>1. /\ sp = "login_start" /\ Reads("s", "LoginStart")
          /\ sp' = IF setting.online THEN "request" ELSE "compress"
          /\ UNCHANGED <<cp, loop, framing>>
        BY <1>9 DEF ServerReadsLoginStart, ServerReads, ServerGoto, ServerOnly, clientVars
    <2>2. Takes("s") /\ Same("c") /\ Head(wire["s"]).kind = "LoginStart"
        BY <1>3, <2>1 DEF Kinds
    <2>3. ServerCodec = Code("Login", FALSE, "none") /\ ServerCodec' = ServerCodec
        BY <1>5, <2>1 DEF ServerCodec, Playing, Cipher
    <2>4. ServerFrame
        BY <1>6, <2>1, <2>3 DEF Framed, ServerFramed, Late
    <2>5. ServerIn
        BY <1>2, <2>1, <2>2, Orders DEF ServerIn, ServerComing, Leads, Third
    <2>6. ServerOut
        BY <1>2, <2>1, <2>2 DEF ServerOut, ServerDue, LoginAnswers
    <2>7. QED
        BY <2>4, <2>5, <2>6, ServerKeeps
<1>10. CASE ServerRequestsEncryption \/ ServerWritesSetCompression \/ Join \/ ServerSendsStatus
    <2>1. /\ UNCHANGED <<cp, loop, framing>>
          /\ \/ sp = "request" /\ sp' = "encryption" /\ Writes("s", "EncryptionRequest", "none")
             \/ sp = "compress" /\ sp' = "compressing" /\ Writes("s", "SetCompression", "none")
             \/ sp = "join" /\ sp' = "unlisted" /\ Writes("s", "JoinGame", "none")
             \/ sp = "status_response" /\ sp' = "status_ping"
                /\ Writes("s", "StatusResponse", "none")
        BY <1>10 DEF ServerRequestsEncryption, ServerWritesSetCompression, Join,
                     ServerSendsStatus, ServerWrites, ServerGoto, ServerOnly, clientVars
    <2>2. framing["s"] = Both(ServerCodec)
        BY <2>1 DEF Framed, ServerFramed
    <2>3. ServerCodec' = ServerCodec
        BY <1>5, <2>1 DEF ServerCodec, Playing
    <2>4. sp = "request" => setting.online
        BY DEF Framed, Ciphered
    <2>5. ServerFrame
        BY <1>6, <2>1, <2>2, <2>3, <2>4 DEF Late
    <2>6. Same("s") /\ ServerOut
        <3>1. CASE sp = "request"
            <4>1. ServerCodec = CodecOf("EncryptionRequest")
                BY <3>1, Codecs DEF ServerCodec, Playing
            <4>2. QED
                BY <1>2, <2>1, <2>2, <3>1, <4>1, ServerPuts, Orders
                DEF Kinds, ServerDue, Opening, PlayKinds
        <3>2. CASE sp = "compress"
            <4>1. ServerCodec = CodecOf("SetCompression")
                BY <3>2, Codecs DEF ServerCodec, Playing
            <4>2. QED
                BY <1>2, <2>1, <2>2, <3>2, <4>1, ServerPuts, Orders
                DEF Kinds, ServerDue, Opening, PlayKinds
        <3>3. CASE sp = "join"
            <4>1. ServerCodec = CodecOf("JoinGame")
                BY <3>3, Codecs DEF ServerCodec, Playing, PlayKinds
            <4>2. QED
                BY <1>2, <2>1, <2>2, <3>3, <4>1, ServerPuts, Orders
                DEF Kinds, ServerDue, PlayKinds, Late
        <3>4. CASE sp = "status_response"
            <4>1. ServerCodec = CodecOf("StatusResponse")
                BY <3>4, Codecs DEF ServerCodec, Playing
            <4>2. QED
                BY <1>2, <2>1, <2>2, <3>4, <4>1, ServerPuts, Orders
                DEF Kinds, ServerDue, Opening, PlayKinds
        <3>5. QED
            BY <2>1, <3>1, <3>2, <3>3, <3>4
    <2>7. ServerIn
        BY <2>1, <2>6 DEF ServerIn, ServerComing
    <2>8. QED
        BY <2>5, <2>6, <2>7, ServerKeeps
<1>11. CASE ServerReadsEncryptionResponse
    <2>1. /\ sp = "encryption" /\ Reads("s", "EncryptionResponse") /\ sp' \in {"verify", "done"}
          /\ UNCHANGED <<cp, loop, framing>>
        BY <1>11 DEF ServerReadsEncryptionResponse, ServerEnds, ServerGoto, ServerOnly, clientVars
    <2>2. Takes("s") /\ Same("c") /\ Head(wire["s"]).kind = "EncryptionResponse"
        BY <1>3, <2>1 DEF Kinds
    <2>3. CASE sp' = "done"
        BY <1>2, <2>1, <2>2, <2>3, ServerEnding
    <2>4. CASE sp' = "verify"
        <3>1. ServerCodec' = ServerCodec /\ setting.online
            BY <2>1, <2>4 DEF ServerCodec, Playing, Framed, Ciphered
        <3>2. ServerFrame
            BY <1>6, <2>1, <2>4, <3>1 DEF Framed, ServerFramed, Late
        <3>3. ServerIn /\ ServerOut
            BY <2>1, <2>2, <2>4, Orders DEF ServerIn, ServerOut, ServerComing, ServerDue, Leads
        <3>4. QED
            BY <3>2, <3>3, ServerKeeps
    <2>5. QED
        BY <2>1, <2>3, <2>4
<1>12. CASE VerifyJoin
    <2>1. /\ sp = "verify" /\ UNCHANGED <<cp, loop, wire>>
          /\ \/ sp' = "compress" /\ EnableEncryption("s", "secret")
             \/ sp' = "done" /\ UNCHANGED framing
        BY <1>12 DEF VerifyJoin, ServerEnds, ServerGoto, clientVars
    <2>2. CASE sp' = "done" /\ UNCHANGED framing
        BY <1>2, <1>4, <2>1, <2>2, ServerEnding
    <2>3. CASE sp' = "compress" /\ EnableEncryption("s", "secret")
        <3>1. framing["s"] = Both(Code("Login", FALSE, "none")) /\ Cipher = "secret"
            BY <2>1 DEF Framed, ServerFramed, ServerCodec, Playing, Ciphered, Cipher
        <3>2. /\ framing'["s"] = Both(Code("Login", FALSE, "secret"))
              /\ framing'[Other("s")] = framing[Other("s")]
            BY <2>3, <3>1, CipherSwitched DEF Ends
        <3>3. ServerFrame
            BY <1>1, <1>5, <1>6, <2>1, <2>3, <3>1, <3>2 DEF ServerCodec, Playing, Late
        <3>4. ServerIn /\ ServerOut
            BY <1>4, <2>1, <2>3 DEF ServerIn, ServerOut, ServerComing, ServerDue
        <3>5. QED
            BY <3>3, <3>4, ServerKeeps
    <2>4. QED
        BY <2>1, <2>2, <2>3
<1>13. CASE ServerWritesLoginSuccess
    <2>1. /\ sp = "compressing" /\ sp' = "succeeding" /\ UNCHANGED <<cp, loop>>
          /\ SetCompressionThreshold("s") /\ Writes("s", "LoginSuccess", "none")
        BY <1>13 DEF ServerWritesLoginSuccess, ServerGoto, ServerOnly, clientVars
    <2>2. framing["s"] = Both(Code("Login", FALSE, Cipher))
        BY <2>1 DEF Framed, ServerFramed, ServerCodec, Playing
    <2>3. /\ framing'["s"] = Both(Code("Login", TRUE, Cipher))
          /\ framing'[Other("s")] = framing[Other("s")]
        BY <2>1, <2>2, CompressionSwitched DEF Ends
    <2>4. ServerFrame
        BY <1>1, <1>5, <1>6, <2>1, <2>3 DEF ServerCodec, Playing, Late
    <2>5. Same("s") /\ ServerOut
        BY <1>2, <2>1, <2>3, ServerPuts, Orders, Codecs DEF Kinds, ServerDue, PlayKinds, Late
    <2>6. ServerIn
        BY <2>1, <2>5 DEF ServerIn, ServerComing
    <2>7. QED
        BY <2>4, <2>5, <2>6, ServerKeeps
<1>14. CASE ServerEntersPlay
    <2>1. /\ sp = "succeeding" /\ sp' = "check" /\ UNCHANGED <<cp, loop, wire>>
          /\ SetState("s", "Play")
        BY <1>14 DEF ServerEntersPlay, ServerGoto, ServerOnly, clientVars
    <2>2. framing["s"] = Both(Code("Login", TRUE, Cipher))
        BY <2>1 DEF Framed, ServerFramed, ServerCodec, Playing
    <2>3. /\ framing'["s"] = Both(Code("Play", TRUE, Cipher))
          /\ framing'[Other("s")] = framing[Other("s")]
        BY <2>1, <2>2, StateSwitched DEF Ends
    <2>4. ServerFrame
        BY <1>1, <1>5, <1>6, <2>1, <2>3 DEF ServerCodec, Playing, Late
    <2>5. ServerIn /\ ServerOut
        BY <1>4, <2>1 DEF ServerIn, ServerOut, ServerComing, ServerDue
    <2>6. QED
        BY <2>4, <2>5, ServerKeeps
<1>15. CASE CheckDuplicate \/ Insert
    <2>1. /\ \/ sp = "check" /\ sp' \in {"kick", "join"}
             \/ sp = "unlisted" /\ sp' = "player"
          /\ UNCHANGED <<cp, loop, framing, wire>>
        BY <1>15 DEF CheckDuplicate, Insert, ServerGoto, ServerOnly, clientVars, linkVars
    <2>2. ServerCodec' = ServerCodec
        BY <1>5, <2>1 DEF ServerCodec, Playing
    <2>3. ServerFrame
        BY <1>6, <2>1, <2>2 DEF Framed, ServerFramed, Late
    <2>4. ServerIn /\ ServerOut
        BY <1>4, <2>1 DEF ServerIn, ServerOut, ServerComing, ServerDue
    <2>5. QED
        BY <2>3, <2>4, ServerKeeps
<1>16. CASE ServerHears \/ ServerSkips
    <2>1. /\ sp \in Playing /\ wire["s"] # <<>> /\ UNCHANGED <<cp, sp, loop, framing>>
        BY <1>16 DEF ServerHears, ServerSkips, ServerOnly, clientVars, serverVars
    <2>2. /\ ServerComing = PlayKinds /\ ServerComing' = PlayKinds
          /\ ServerDue = PlayKinds /\ ServerDue' = PlayKinds
        BY <2>1 DEF ServerComing, ServerDue, Playing
    <2>3. ServerCodec = Code("Play", TRUE, Cipher) /\ ServerCodec' = ServerCodec
        BY <1>5, <2>1 DEF ServerCodec, Playing
    <2>4. framing["s"] = Both(ServerCodec)
        BY <2>1 DEF Framed, ServerFramed, Playing
    <2>5. ServerFrame
        BY <1>6, <2>1, <2>3, <2>4 DEF Playing
    <2>6. IsStray(Head(wire["s"])) \/ Head(wire["s"]).kind \in PlayKinds
        BY <2>1, <2>2, Heads DEF Playing
    <2>7. Leads("s", ServerComing')
        BY <2>2, <2>6, Orders DEF Leads
    <2>8. CASE ServerSkips
        <3>1. Takes("s") /\ Same("c")
            BY <1>1, <2>8, Took DEF ServerSkips, Reading
        <3>2. ServerIn /\ ServerOut
            BY <2>2, <2>7, <3>1 DEF ServerIn, ServerOut
        <3>3. QED
            BY <2>5, <3>2, ServerKeeps
    <2>9. CASE ServerHears
        <3> DEFINE p == Written("s", "Chat", "none")
        <3>1. /\ p \in Packet /\ p.kind = "Chat" /\ p.body = "none"
              /\ p.codec = framing'["s"]["writer"]
            BY <1>1, <2>1 DEF Written, Packet, Kinds, Bodies, Halves
        <3>2. wire' = [wire EXCEPT !["s"] = Tail(wire["s"]),
                                   !["c"] = IF sp = "player" THEN Append(wire["c"], p)
                                                             ELSE wire["c"]]
            BY <2>9 DEF ServerHears, Typed
        <3> HIDE DEF p
        <3>3. Takes("s") /\ (Same("c") \/ Gets("c", p))
            BY <1>1, <2>1, <3>2 DEF Typed, Takes, Same, Gets
        <3>4. p.codec = CodecOf("Chat")
            BY <2>1, <2>3, <2>4, <3>1, Codecs DEF Both, Halves, PlayKinds
        <3>5. IsWell(p) /\ ~IsStray(p)
            BY <3>1, <3>4 DEF IsWell, IsStray, CodecOf, PlayKinds, Code
        <3>6. Fits(p, ServerDue, ServerDue', Order)
            BY <2>2, <3>1, <3>5, Orders DEF Fits, Order, Kinds, PlayKinds
        <3>7. sp' \in Late
            BY <2>1 DEF Playing, Late
        <3>8. ServerIn /\ ServerOut
            BY <2>2, <2>7, <3>1, <3>3, <3>5, <3>6, <3>7 DEF ServerIn, ServerOut
        <3>9. QED
            BY <2>5, <3>8, ServerKeeps
    <2>10. QED
        BY <1>16, <2>8, <2>9
<1>17. CASE ServerReadsStatusRequest \/ ServerReadsPing
    <2>1. /\ \/ /\ sp = "status_request" /\ sp' = "status_response"
                /\ Reads("s", "StatusRequest")
             \/ sp = "status_ping" /\ sp' = "status_pong" /\ Reads("s", "StatusPing")
          /\ UNCHANGED <<cp, loop, framing>>
        BY <1>17 DEF ServerReadsStatusRequest, ServerReadsPing, ServerReads, ServerGoto,
                     ServerOnly, clientVars
    <2>2. /\ Takes("s") /\ Same("c")
          /\ Head(wire["s"]).kind = IF sp = "status_ping" THEN "StatusPing" ELSE "StatusRequest"
        BY <1>3, <2>1 DEF Kinds
    <2>3. ServerCodec' = ServerCodec
        BY <2>1 DEF ServerCodec, Playing
    <2>4. ServerFrame
        BY <1>6, <2>1, <2>3 DEF Framed, ServerFramed, Late
    <2>5. ServerIn /\ ServerOut
        BY <2>1, <2>2, Orders DEF ServerIn, ServerOut, ServerComing, ServerDue, Leads
    <2>6. QED
        BY <2>4, <2>5, ServerKeeps
<1>18. CASE ServerPongs
    <2>1. /\ sp = "status_pong" /\ sp' = "done" /\ Writes("s", "StatusPong", "none")
          /\ UNCHANGED <<cp, loop, framing>>
        BY <1>18 DEF ServerPongs, ServerEnds, ServerGoto, ServerOnly, clientVars
    <2>2. framing["s"] = Both(Code("Status", FALSE, "none"))
        BY <2>1 DEF Framed, ServerFramed, ServerCodec, Playing
    <2>3. Same("s") /\ ServerOut
        BY <1>2, <2>1, <2>2, ServerPuts, Orders, Codecs DEF Kinds, ServerDue, Late
    <2>4. QED
        BY <1>2, <2>1, <2>3, ServerEnding
<1>19. CASE ServerErrs
    <2>1. sp # "done" /\ sp' = "done" /\ UNCHANGED <<cp, loop, framing, wire>>
        BY <1>19 DEF ServerErrs, ServerAwaits, ServerEnds, ServerGoto, ServerOnly, clientVars
    <2>2. QED
        BY <1>2, <1>4, <2>1, ServerEnding
<1>20. QED
    BY <1>7, <1>8, <1>9, <1>10, <1>11, <1>12, <1>13, <1>14, <1>15, <1>16, <1>17, <1>18, <1>19
    DEF ServerStep

-----------------------------------------------------------------------------
(* The theorems.                                                           *)

LEMMA FramedInit == Init => Framed
<1> SUFFICES ASSUME Init PROVE Framed
    OBVIOUS
<1>1. /\ setting \in Settings /\ cp = "dialed" /\ sp = "handshake" /\ loop = "off"
      /\ wire["c"] = <<>> /\ wire["s"] = <<>> /\ Len(<<>>) = 0
      /\ \A e \in Ends : framing[e] = Both(Code("Handshaking", FALSE, "none"))
    BY DEF Init, Both, Code, Ends
<1>2. ToClient /\ ToServer
    BY <1>1 DEF ToClient, ToServer, Stream, After, ClientComing, ServerDue, ServerComing, ClientDue
<1>3. WrittenWell
    BY <1>1 DEF WrittenWell, Ends
<1>4. ClientFramed /\ ServerFramed /\ Ciphered
    BY <1>1 DEF ClientFramed, ServerFramed, Ciphered, Live, ClientCodec, ServerCodec, Playing, Ends
<1>5. InPlay
    BY <1>1 DEF InPlay
<1>6. QED
    BY <1>2, <1>3, <1>4, <1>5 DEF Framed

LEMMA FramedNext ==
    ASSUME Typed, Framed, Shut, Shut', [Next]_vars
    PROVE  Framed'
<1>1. CASE ClientStep
    BY <1>1, ClientStepKeeps
<1>2. CASE ServerStep
    BY <1>2, ServerStepKeeps
<1>3. CASE UNCHANGED vars
    BY <1>3, FramedStays DEF vars, clientVars, serverVars, linkVars
<1>4. QED
    BY <1>1, <1>2, <1>3, OthersKeep DEF Next

Sound == Typed /\ Shut /\ Framed

LEMMA SoundAlways == Spec => []Sound
<1>1. Init => Sound
    BY TypedInit, ShutInit, FramedInit DEF Sound
<1>2. Sound /\ [Next]_vars => Sound'
    <2> SUFFICES ASSUME Sound, [Next]_vars PROVE Sound'
        OBVIOUS
    <2>1. Typed' /\ Shut'
        BY TypedNext, ShutNext DEF Sound
    <2>2. Framed'
        BY <2>1, FramedNext DEF Sound
    <2>3. QED
        BY <2>1, <2>2 DEF Sound
<1>3. QED
    BY <1>1, <1>2, PTL DEF Spec

LEMMA CodecStates == \A kind \in Kinds : CodecOf(kind).state = StateOf(kind)
    BY DEF CodecOf, Code, StateOf, Kinds, PlayKinds

LEMMA ClientReadsWell ==
    ASSUME Sound, Awaits("c"), wire["c"] # <<>>
    PROVE  LET p == Head(wire["c"])
           IN  IsStray(p) \/ (Readable("c") /\ p.codec.state = StateOf(p.kind))
<1> DEFINE p == Head(wire["c"])
<1>1. Live /\ cp \in ClientAwaits \cup {"connected"}
    BY DEF Sound, Framed, Ciphered, Awaits, Live, ClientAwaits
<1>2. /\ IsStray(p) \/ p.kind \in ClientComing
      /\ IsStray(p) \/ p.codec = CodecOf(p.kind)
      /\ p.kind \in Kinds
    BY <1>1, Heads DEF Sound, IsWell
<1>3. framing["c"]["reader"] = ClientCodec
    BY <1>1 DEF Sound, Framed, ClientFramed, Both, Halves
<1>4. cp = "encrypted" /\ p.kind = "SetCompression" => ClientCodec = Code("Login", FALSE, Cipher)
    <2> SUFFICES ASSUME cp = "encrypted", p.kind = "SetCompression"
                 PROVE  ClientCodec = Code("Login", FALSE, Cipher)
        OBVIOUS
    <2>1. setting.online
        BY DEF Sound, Framed, Ciphered
    <2>2. 1 \in 1..Len(wire["c"]) /\ p = wire["c"][1]
        BY KindsOf DEF Sound, Ends
    <2>3. setting.peer # "client"
        BY <2>1, <2>2 DEF Sound, Shut, Hopeless, ClientShut, OnlyRequests
    <2>4. QED
        BY <2>1, <2>3 DEF ClientCodec, Cipher, Ciphering
<1> HIDE DEF p
<1>5. ASSUME ~IsStray(p)
      PROVE  ClientCodec = CodecOf(p.kind)
    <2>1. CASE cp = "login"
        BY <1>2, <1>5, <2>1, Codecs DEF ClientComing, LoginAnswers, ClientCodec, Cipher
    <2>2. CASE cp = "encrypted"
        BY <1>2, <1>4, <1>5, <2>2, Codecs DEF ClientComing
    <2>3. CASE cp = "compressed"
        BY <1>2, <1>5, <2>3, Codecs DEF ClientComing, ClientCodec
    <2>4. CASE cp = "connected"
        BY <1>2, <1>5, <2>4, Codecs DEF ClientComing, ClientCodec, PlayKinds
    <2>5. CASE cp \in {"status", "pong"}
        BY <1>2, <1>5, <2>5, Codecs DEF ClientComing, ClientCodec, Kinds, Over
    <2>6. QED
        BY <1>1, <2>1, <2>2, <2>3, <2>4, <2>5 DEF ClientAwaits
<1>6. QED
    BY <1>2, <1>3, <1>5, CodecStates DEF Readable, p

LEMMA ServerReadsWell ==
    ASSUME Sound, Awaits("s"), wire["s"] # <<>>
    PROVE  LET p == Head(wire["s"])
           IN  IsStray(p) \/ (Readable("s") /\ p.codec.state = StateOf(p.kind))
<1> DEFINE p == Head(wire["s"])
<1>1. sp \in ServerAwaits \cup Playing /\ sp # "done"
    BY DEF Awaits, ServerAwaits, Playing
<1>2. /\ IsStray(p) \/ p.kind \in ServerComing
      /\ IsStray(p) \/ p.codec = CodecOf(p.kind)
      /\ p.kind \in Kinds
    BY <1>1, Heads DEF Sound, IsWell
<1>3. framing["s"]["reader"] = ServerCodec
    BY <1>1 DEF Sound, Framed, ServerFramed, Both, Halves
<1> HIDE DEF p
<1>4. ASSUME ~IsStray(p)
      PROVE  ServerCodec = CodecOf(p.kind)
    <2>1. CASE sp \in {"handshake", "login_start", "encryption"}
        BY <1>2, <1>4, <2>1, Codecs DEF ServerComing, ServerCodec, Playing
    <2>2. CASE sp \in {"status_request", "status_ping"}
        BY <1>2, <1>4, <2>2, Codecs DEF ServerComing, ServerCodec, Playing
    <2>3. CASE sp \in Playing
        BY <1>2, <1>4, <2>3, Codecs DEF ServerComing, ServerCodec, Playing, PlayKinds
    <2>4. QED
        BY <1>1, <2>1, <2>2, <2>3 DEF ServerAwaits
<1>5. QED
    BY <1>2, <1>3, <1>4, CodecStates DEF Readable, p

\* Whatever an end waits for can be read: for any number of chat messages, the
\* two MinecraftConnections switch state, compression and cipher at the same
\* packet (connection.rs, server.rs:469, client.rs:310).
THEOREM EndsReadAlike == Spec => []ReadsAgree
<1>1. Sound => ReadsAgree
    BY ClientReadsWell, ServerReadsWell DEF ReadsAgree, Ends
<1>2. QED
    BY <1>1, SoundAlways, PTL

\* A client whose connect() has returned Ok and a server that has not ended the
\* connection read and write alike, or the server is about to enter Play
\* (server.rs:485, client.rs:345).
THEOREM EndsFramedAlike == Spec => []FramingsMeet
<1>1. Sound => FramingsMeet
    <2> SUFFICES ASSUME Sound, cp = "connected", sp # "done"
                 PROVE  \/ framing["c"] = framing["s"]
                        \/ sp = "succeeding" /\ framing["c"] =
                              [h \in Halves |-> [framing["s"][h] EXCEPT !.state = "Play"]]
        BY DEF FramingsMeet
    <2>1. framing["c"] = Both(Code("Play", TRUE, Cipher)) /\ sp \in Late
        BY DEF Sound, Framed, ClientFramed, Live, ClientCodec, InPlay
    <2>2. framing["s"] = Both(ServerCodec)
        BY DEF Sound, Framed, ServerFramed
    <2>3. CASE sp = "succeeding"
        <3>1. framing["s"] = Both(Code("Login", TRUE, Cipher))
            BY <2>2, <2>3 DEF ServerCodec, Playing
        <3>2. ASSUME NEW z, NEW c, framing["s"] = Both(Code("Login", z, c))
              PROVE  [h \in Halves |-> [framing["s"][h] EXCEPT !.state = "Play"]]
                        = Both(Code("Play", z, c))
            BY <3>2 DEF Both, Code
        <3>3. QED
            BY <2>1, <2>3, <3>1, <3>2
    <2>4. CASE sp # "succeeding"
        BY <2>1, <2>2, <2>4 DEF ServerCodec, Late, Playing
    <2>5. QED
        BY <2>3, <2>4
<1>2. QED
    BY <1>1, SoundAlways, PTL

\* Client and server never wait for each other, whatever the settings of the
\* two and however many chat messages are sent (client.rs:353, server.rs:396).
THEOREM NoMutualWait == Spec => []NotBothWaiting
<1>1. Sound => NotBothWaiting
    <2> SUFFICES ASSUME Sound, cp \in ClientAwaits, wire["c"] = <<>>,
                        sp \in ServerAwaits, wire["s"] = <<>>
                 PROVE  FALSE
        BY DEF NotBothWaiting
    <2>1. Live /\ sp # "done" /\ Len(<<>>) = 0
        BY DEF Live, ClientAwaits, ServerAwaits
    <2>2. ServerDue \subseteq ClientComing /\ ClientDue \subseteq ServerComing
        BY <2>1 DEF Sound, Framed, ToClient, ToServer, Stream, After
    <2>3. sp = "encryption" => setting.online
        BY DEF Sound, Framed, Ciphered
    <2>4. CASE cp = "login"
        BY <2>2, <2>3, <2>4 DEF ServerAwaits, ServerDue, ServerComing, ClientDue, ClientComing,
                                LoginAnswers, Third, PlayKinds
    <2>5. CASE cp \in {"encrypted", "compressed"}
        BY <2>2, <2>5 DEF ServerAwaits, ServerComing, ClientDue, PlayKinds
    <2>6. CASE cp \in {"status", "pong"}
        BY <2>2, <2>6 DEF ServerAwaits, ServerDue, ServerComing, ClientDue, ClientComing, Over
    <2>7. QED
        BY <2>4, <2>5, <2>6 DEF ClientAwaits
<1>2. QED
    BY <1>1, SoundAlways, PTL

===============================================================================
