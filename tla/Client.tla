------------------------------- MODULE Client -------------------------------
(***************************************************************************)
(* MinecraftClient and its ClientRunner: connect() authenticates, dials    *)
(* and logs in under the runner mutex and then spawns the client loop      *)
(* (start_loop), which takes the same mutex for every packet it reads;     *)
(* send_chat_message and add_packet_receiver wait for it in between.       *)
(* connect() borrows the client exclusively, the other two share it, so    *)
(* that they never overlap with connect() but may with each other.         *)
(*                                                                         *)
(* The server and Mojang are the environment: they answer anything, or     *)
(* nothing.  A caller may drop the future of a call that still waits.      *)
(***************************************************************************)
EXTENDS Naturals, FiniteSets

CONSTANTS
    Loops,        \* one element for each loop that may be spawned
    Callers,      \* threads that send chat messages
    Caller,       \* the owner of the mutex while connect() has it
    NoOne,        \* the owner of a free mutex
    Offline,      \* Profile.offline
    MaxSignals,   \* bound: unread values in a loop's channel
    MaxReceivers  \* bound: listeners subscribed to packet_tx

ASSUME ClientAssumption ==
    /\ Offline \in BOOLEAN
    /\ MaxSignals \in Nat /\ MaxReceivers \in Nat
    /\ NoOne \notin Loops /\ Caller \notin Loops /\ NoOne # Caller

VARIABLES
    runner,      \* the owner of the runner mutex
    connect,     \* where the call of connect() stands
    chat,        \* where each thread's send_chat_message() stands
    loop,        \* where each client loop stands
    signals,     \* values in the loop's channel and not read yet
    closed,      \* the caller has dropped the Sender of that channel
    connected,   \* ClientRunner.connected
    server,      \* the State of ClientRunner.server, "none" without one
    peerGone,    \* the server has closed that connection
    receivers    \* live receivers of packet_tx

loopVars == <<loop, signals, closed>>
connVars == <<connected, server, peerGone>>
vars == <<runner, connect, chat, loopVars, connVars, receivers>>

\* Where connect() waits with the mutex: for Mojang, for the TCP connection,
\* for the first packet of the login, for Mojang again (join_server), for the
\* packet after encryption and for the one after compression.
InConnect == {"authenticate", "dial", "login", "join", "encrypted", "compressed"}
ConnectPlaces == {"idle", "lock"} \cup InConnect
LoopPlaces == {"off", "poll", "want_runner", "reading", "done", "panicked"}

\* Type invariant of connect(), the client loop and the callers: the loop takes a
\* value from its channel only when there is one.
ClientTypeOK ==
    /\ runner \in Loops \cup {Caller, NoOne}
    /\ connect \in ConnectPlaces
    /\ chat \in [Callers -> {"idle", "lock", "panicked"}]
    /\ loop \in [Loops -> LoopPlaces]
    /\ signals \in [Loops -> 0..MaxSignals]
    /\ closed \in [Loops -> BOOLEAN]
    /\ connected \in BOOLEAN
    /\ server \in {"none", "Handshaking", "Login", "Play"}
    /\ peerGone \in BOOLEAN
    /\ receivers \in 0..MaxReceivers

Init ==
    /\ runner = NoOne
    /\ connect = "idle"
    /\ chat = [k \in Callers |-> "idle"]
    /\ loop = [l \in Loops |-> "off"]
    /\ signals = [l \in Loops |-> 0]
    /\ closed = [l \in Loops |-> FALSE]
    /\ connected = FALSE
    /\ server = "none"
    /\ peerGone = FALSE
    /\ receivers = 0

-----------------------------------------------------------------------------
(* connect().                                                              *)

StartConnect ==
    /\ connect = "idle"
    /\ \A k \in Callers : chat[k] # "lock"
    /\ connect' = "lock"
    /\ UNCHANGED <<runner, chat, loopVars, connVars, receivers>>

LockForConnect ==
    /\ connect = "lock"
    /\ runner = NoOne
    /\ runner' = Caller
    /\ connect' = "authenticate"
    /\ UNCHANGED <<chat, loopVars, connVars, receivers>>

\* Fault variant: the guard outlives the call.
Fail_KeepsRunner == connect' = "idle" /\ UNCHANGED runner

\* An error is returned and the mutex with it; nothing else is undone.
Fail == connect' = "idle" /\ runner' = NoOne

\* Profile::authenticate: an offline profile has nothing to ask.
Authenticate ==
    /\ connect = "authenticate"
    /\ \/ connect' = "dial" /\ UNCHANGED runner
       \/ ~Offline /\ Fail
    /\ UNCHANGED <<chat, loopVars, connVars, receivers>>

\* Fault variant: login() does not ask whether the client is connected.
Dial_Unguarded ==
    /\ connect = "dial"
    /\ \/ Fail /\ UNCHANGED <<server, peerGone>>
       \/ Fail /\ server' \in {"Handshaking", "Login"} /\ peerGone' \in BOOLEAN
       \/ /\ server' = "Login" /\ peerGone' = FALSE
          /\ connect' = "login" /\ UNCHANGED runner
    /\ UNCHANGED <<chat, loopVars, connected, receivers>>

\* The new connection takes the place of the old one, Handshake and LoginStart
\* are written, and login() begins.  TCP may fail, a write may fail, and a
\* client that is connected already is told so only now.
Dial ==
    /\ connect = "dial"
    /\ \/ Fail /\ UNCHANGED <<server, peerGone>>
       \/ Fail /\ server' \in {"Handshaking", "Login"} /\ peerGone' \in BOOLEAN
       \/ /\ server' = "Login" /\ peerGone' = FALSE
          /\ IF connected THEN Fail ELSE connect' = "login" /\ UNCHANGED runner
    /\ UNCHANGED <<chat, loopVars, connected, receivers>>

\* Fault variant: the flag is not set.
LoginSuccess_NotConnected(l) ==
    /\ server' = "Play"
    /\ connect' = "idle" /\ runner' = NoOne
    /\ loop[l] = "off" /\ loop' = [loop EXCEPT ![l] = "poll"]
    /\ UNCHANGED connected

\* login_success, after which connect() gives the mutex back, spawns the loop
\* and returns its channel.
LoginSuccess(l) ==
    /\ connected' = TRUE
    /\ server' = "Play"
    /\ connect' = "idle" /\ runner' = NoOne
    /\ loop[l] = "off" /\ loop' = [loop EXCEPT ![l] = "poll"]

\* Fault variant: a packet that is not expected is skipped.
WrongPacket_Skipped == UNCHANGED <<connect, runner, connected, server, loop>>

\* A packet that is not expected, or none: the connection is closed or broken.
WrongPacket == Fail /\ UNCHANGED <<connected, server, loop>>

\* The packets of the server in login(), enable_encryption() and
\* set_compression_threshold(), each of which reads the next one.
LoginPacket ==
    /\ \/ ~peerGone /\ connect \in {"login", "encrypted", "compressed"}
          /\ \E l \in Loops : LoginSuccess(l)
       \/ ~peerGone /\ connect \in {"login", "encrypted"}
          /\ connect' = "compressed" /\ UNCHANGED <<runner, connected, server, loop>>
       \/ ~peerGone /\ ~Offline /\ connect = "login"
          /\ connect' = "join" /\ UNCHANGED <<runner, connected, server, loop>>
       \/ connect \in {"login", "encrypted", "compressed"} /\ WrongPacket
    /\ UNCHANGED <<chat, signals, closed, peerGone, receivers>>

\* join_server, then the response is written and the cipher switched on: any
\* of the three may fail.
JoinServer ==
    /\ connect = "join"
    /\ \/ connect' = "encrypted" /\ UNCHANGED runner
       \/ Fail
    /\ UNCHANGED <<chat, loopVars, connVars, receivers>>

\* The caller drops the future, and with it the guard of the mutex.
AbandonConnect ==
    /\ connect # "idle"
    /\ connect' = "idle"
    /\ runner' = IF runner = Caller THEN NoOne ELSE runner
    /\ UNCHANGED <<chat, loopVars, connVars, receivers>>

-----------------------------------------------------------------------------
(* The client loop.                                                        *)

LoopGoto(l, place) == loop' = [loop EXCEPT ![l] = place]

\* Fault variant: any error of try_recv is taken for an empty channel.
TryRecv_NeverCloses(l) ==
    /\ loop[l] = "poll"
    /\ \/ /\ signals[l] > 0
          /\ signals' = [signals EXCEPT ![l] = @ - 1] /\ UNCHANGED loop
       \/ /\ signals[l] = 0
          /\ LoopGoto(l, "want_runner") /\ UNCHANGED signals
    /\ UNCHANGED <<runner, connect, chat, closed, connVars, receivers>>

\* Fault variant: every answer of try_recv is counted as a value.
TryRecv_Unchecked(l) ==
    /\ loop[l] = "poll"
    /\ LoopGoto(l, IF signals[l] = 0 THEN "want_runner" ELSE "poll")
    /\ signals' = [signals EXCEPT ![l] = @ - 1]
    /\ UNCHANGED <<runner, connect, chat, closed, connVars, receivers>>

\* A value is taken and the loop starts over; a closed channel ends it.
TryRecv(l) ==
    /\ loop[l] = "poll"
    /\ \/ /\ signals[l] > 0
          /\ signals' = [signals EXCEPT ![l] = @ - 1] /\ UNCHANGED loop
       \/ /\ signals[l] = 0
          /\ LoopGoto(l, IF closed[l] THEN "done" ELSE "want_runner")
          /\ UNCHANGED signals
    /\ UNCHANGED <<runner, connect, chat, closed, connVars, receivers>>

LoopLocks(l) ==
    /\ loop[l] = "want_runner"
    /\ runner = NoOne
    /\ \/ connected /\ LoopGoto(l, "reading") /\ runner' = l
       \/ ~connected /\ LoopGoto(l, "done") /\ UNCHANGED runner
    /\ UNCHANGED <<connect, chat, signals, closed, connVars, receivers>>

\* The loop has nothing to handle and gives the mutex back.
NothingRead(l) ==
    /\ loop[l] = "reading"
    /\ LoopGoto(l, "poll")
    /\ runner' = NoOne
    /\ UNCHANGED <<connect, chat, signals, closed, connVars, receivers>>

\* Fault variant: the read has no time limit.
ReadTimesOut_Never(l) == FALSE

\* After 5 ms without a packet the mutex is free for the others.
ReadTimesOut(l) == NothingRead(l)

\* The end of the stream, or bytes that are no packet: logged, and again.
ReadError(l) == NothingRead(l)

\* handle_packet: the packet goes to the receivers of packet_tx; without one
\* send fails and its unwrap ends the loop.
ReadPacket(l) ==
    /\ loop[l] = "reading" /\ ~peerGone
    /\ LoopGoto(l, IF receivers = 0 THEN "panicked" ELSE "poll")
    /\ runner' = NoOne
    /\ UNCHANGED <<connect, chat, signals, closed, connVars, receivers>>

-----------------------------------------------------------------------------
(* The other calls.                                                        *)

\* send_chat_message(): waits for the mutex, then writes to whatever
\* connection there is; an error makes the caller panic.
StartChat(k) ==
    /\ connect = "idle" /\ chat[k] = "idle"
    /\ chat' = [chat EXCEPT ![k] = "lock"]
    /\ UNCHANGED <<runner, connect, loopVars, connVars, receivers>>

SendChat(k) ==
    /\ chat[k] = "lock"
    /\ runner = NoOne
    /\ \/ server # "none" /\ chat' = [chat EXCEPT ![k] = "idle"]
       \/ /\ server = "none" \/ peerGone
          /\ chat' = [chat EXCEPT ![k] = "panicked"]
    /\ UNCHANGED <<runner, connect, loopVars, connVars, receivers>>

AddPacketReceiver ==
    /\ connect = "idle"
    /\ runner = NoOne
    /\ receivers < MaxReceivers
    /\ receivers' = receivers + 1
    /\ UNCHANGED <<runner, connect, chat, loopVars, connVars>>

DropReceiver ==
    /\ receivers > 0
    /\ receivers' = receivers - 1
    /\ UNCHANGED <<runner, connect, chat, loopVars, connVars>>

\* The Sender that connect() returned.
SendSignal(l) ==
    /\ loop[l] # "off" /\ ~closed[l]
    /\ signals[l] < MaxSignals
    /\ signals' = [signals EXCEPT ![l] = @ + 1]
    /\ UNCHANGED <<runner, connect, chat, loop, closed, connVars, receivers>>

DropSender(l) ==
    /\ loop[l] # "off" /\ ~closed[l]
    /\ closed' = [closed EXCEPT ![l] = TRUE]
    /\ UNCHANGED <<runner, connect, chat, loop, signals, connVars, receivers>>

\* The server closes the connection.
PeerCloses ==
    /\ server # "none" /\ ~peerGone
    /\ peerGone' = TRUE
    /\ UNCHANGED <<runner, connect, chat, loopVars, connected, server, receivers>>

-----------------------------------------------------------------------------
\* What the loop does by itself: its timer runs whatever the server does.
LoopStep(l) ==
    TryRecv(l) \/ LoopLocks(l) \/ ReadTimesOut(l) \/ (peerGone /\ ReadError(l))

\* What waits for the server or for Mojang.
Answer == Authenticate \/ Dial \/ LoginPacket \/ JoinServer

Next ==
    \/ StartConnect \/ LockForConnect \/ Answer \/ AbandonConnect
    \/ \E l \in Loops :
        \/ LoopStep(l) \/ ReadPacket(l) \/ ReadError(l)
        \/ SendSignal(l) \/ DropSender(l)
    \/ \E k \in Callers : StartChat(k) \/ SendChat(k)
    \/ AddPacketReceiver \/ DropReceiver \/ PeerCloses

Spec == Init /\ [][Next]_vars

\* The mutex is a FIFO queue: whoever waits for it while it is free again and
\* again gets it.  Nothing is assumed of the server, nor of Mojang.
FairSpec ==
    /\ Spec
    /\ \A l \in Loops : SF_vars(LoopStep(l))
    /\ \A k \in Callers : SF_vars(SendChat(k))
    /\ SF_vars(LockForConnect)

\* The same, and the server and Mojang answer what they are asked, or hang up.
AnsweredSpec == FairSpec /\ WF_vars(Answer)

-----------------------------------------------------------------------------
(* Properties.                                                             *)

\* The mutex belongs to the task that stands where the code has its guard; a
\* call that returned, failed or was dropped half-way does not keep it.
RunnerHeld ==
    /\ connect \in InConnect <=> runner = Caller
    /\ \A l \in Loops : loop[l] = "reading" <=> runner = l

\* However often connect() is called, one loop is spawned in all: two would
\* share the packets of the connection and the receivers between them.
OneLoop == \A k, l \in Loops : loop[k] # "off" /\ loop[l] # "off" => k = l

\* A loop does not give up a connection that lives: when it ends its channel is
\* closed and read to the end, or the server has closed the connection.
LoopEndsForCause ==
    [][\A l \in Loops : loop[l] # "done" /\ loop'[l] = "done" =>
            (closed[l] /\ signals[l] = 0) \/ peerGone]_vars

\* With a server and a Mojang that answer or hang up: connect() returns,
\* whatever the other side sends.
ConnectReturns == connect = "lock" ~> connect = "idle"

\* A message that waits for the loop to let go of the mutex is sent, or its
\* caller told, though the server may be silent: "Only attempt for 5 ms to
\* allow others to take the lock" (client.rs:194).
ChatGetsThrough == \A k \in Callers : chat[k] = "lock" ~> chat[k] # "lock"

\* When the Sender is dropped the loop ends, after the values sent before.
ClosingEndsLoop ==
    \A l \in Loops : closed[l] ~> loop[l] \in {"done", "panicked"}

-----------------------------------------------------------------------------
(* What the code's own texts say and the code does not do.                 *)

\* "When the client is connected, this holds the actual connection to the
\* server." (client.rs:32): one that has been logged in.
ConnectedMeansPlay == connected /\ runner = NoOne => server = "Play"
=============================================================================
