# Specifications of rust-mc

rust-mc is a Minecraft 1.16.3 client and server library on tokio 0.2 (`src/src`).
The specifications here describe what its tasks do between two points where they
wait, what the mutexes, channels and flags they share guarantee, and what they do
not. The modules are checked with TLC on small instances; the theorems are proved
with TLAPS for every value of the constants.

## The system

| Component | State | Operations | Specification |
|---|---|---|---|
| Server listener (`server.rs` 71-248) | `running`, the shutdown channel, the socket | `start`, its loop, `stop`, the `Sender` of `new` | `ServerListener` |
| Connection handling (`server.rs` 252-492) | `players`, `used_entity_ids`, one `ServerClient` per login | `handle_client_connect`, `handle_login`, `login_kick`, `kick`, `join` | `Server` |
| Status dialogue (`server.rs` 495-540, `status.rs` 110-142) | `status` | `handle_status`, `send_status` | `Server` |
| Packet loops and chat (`server.rs` 308-337, 555-594) | the packet in hand, the mutex of each client | `packet_loop`, `handle_packet`, `broadcast_chat` | `Server`, `ChatRoom` |
| Client (`client.rs`) | `connected`, `server`, the loop's channel | `connect`, `start_loop`, `send_chat_message`, the login procedure | `Client` |
| `MinecraftConnection` (`connection.rs`) | state, compression and cipher of reader and writer | `handshake`, `read_next_packet`, `write_packet`, three setters | `Session` |
| Packet bus (`packet_tx`) | subscribed receivers, 16 packets | `subscribe`, `send` | partly: whether there is a receiver (`Server`, `Client`, `Session`) |
| Mojang authentication (`auth.rs`) | access and client token, profile | `authenticate`, `refresh`, `join_server`, `validate`, `invalidate`, `signout`, `verify_join` | `Auth` |
| `StatusChecker` (`status.rs` 10-108) | - | `get_status` | `Session` |
| Server hash (`hash.rs`) | - | `calc_hash` | `Hash`, `Auth` |
| `Player`, `PlayerInventory` (`types.rs`) | 44 slots | slot ranges | not modelled: pure accessors |
| `main.rs`, `lib.rs`, `mod.rs` | - | the demo, re-exports, `http_post_json` | not modelled: sequence of API calls, wiring, pure I/O |

### How they interact

* `start()` spawns one task, which spawns a task for every accepted connection
  (`handle_client_connect`). That task spawns the packet loop of its client and ends.
* All of them share `Arc<Mutex<ServerRunner>>` (the *runner*), the mutex of the map of
  players and one mutex per client. The connection of a client belongs to its
  `ServerClient`, so that reading it and writing to it exclude each other.
* A chat message is read by the sender's packet loop, which then takes the runner, its
  client's mutex, the map, and each player's mutex in turn.
* Packets go to subscribers over a tokio broadcast channel, whose `send` fails when nobody
  is subscribed.
* On the client, `connect()` and the client loop share the runner mutex with
  `send_chat_message()`; the loop gives it back after 5 ms without a packet. `connect()`
  borrows the client exclusively (`&mut self`), the other calls share it.
* Client and server, or a status checker and the server, talk over one TCP connection. Each
  end switches state, compression and cipher of its reader and writer by itself.
* `connect()` authenticates its `Profile` with Mojang and joins an online server there; the
  server asks Mojang who joined (`verify_join`). Both name the login by `calc_hash`.

### What is hard about it

The guard of a mutex lives over awaits: for a packet, for Mojang, for another mutex.
Checks (capacity, names) are separated from what relies on them. The packet loop starts
before its client is in the map. Shutdown is looked for between two clients only. Flags
(`running`, `connected`) are set by one task and believed by others. Futures may be
dropped half-way. `PROJECT.json` lists each of these hazards at its line with the
properties aimed at it.

### What makes each component correct

* Listener: the flag tells whether the loop runs; the loss of the last `Sender` ends it;
  an ended server does not come back half alive. `stop()` should end it too, and does not
  (`listener_stop`).
* Connection handling: a dialogue is not interleaved with another under the runner; ids
  are distinct; a client in the map was told JoinGame and has a loop; nobody is pushed out
  of the map by another; capacity and names are respected (they are not: `server_admission`).
* Chat: everybody sees one conversation; nobody is skipped; no deadlock.
* Client: the mutex always comes back; one loop per client; callers are not starved by it;
  the flag says what the connection is.
* Connection: both ends switch at the same packet; neither waits for the other for ever; what
  is said early is heard; no call fails because one end misread the other.
* Authentication: a profile joins as the player Mojang selected; a server lets in only who
  joined that very login; a token is lost for a reason only.
* Hash: the signed hexadecimal number every other implementation of the protocol computes.

## The modules

`ServerListener` is the loop of `start()` with `Bind`, `SetRunning`, `Poll`,
`AcceptReturns` and `ClearRunning`, one action per acquisition of the runner mutex, and
the calls `Start`, `Stop`, `DropSender`, `SendSignal` of other threads. Alone, an unnamed
task takes and returns the mutex (`OtherTakes`, `OtherDrops`).

`Server` extends it: the same variable `runner` is now taken by the tasks of the
connections. `handler[c]` says where the task of connection `c` waits (the names are those
of what it waits for or does next), `loop[c]` where its packet loop does. A step reaches
from one await to the next:

| Action | Code (`server.rs` unless named) |
|---|---|
| `Accept`, `Handshake` | 197-206, `connection.rs` 273-292 |
| `TakeRunner`, `CountPlayers` | 264-276 |
| `LoginStart`, `EncryptionResponse`, `VerifyJoin`, `LoggedIn` | 396-486 |
| `ReadFails`, `Leaves` | every early return of `handle_login` and `handle_status` |
| `TakeEntityId`, `CheckDuplicate`, `Join`, `Insert` | 279-350 |
| `StatusRequest`, `SendStatus`, `StatusPing` | 495-529 |
| `LockSelf`, `ReadPacket`, `ReadNothing` | 314-325 |
| `LoopTakesRunner`, `LockSender`, `StartBroadcast`, `SendChat`, `EndBroadcast`, `Publish` | 326-333, 561-594 |

The guard of a mutex is a variable with its owner (`runner`, `playersLock`, `clientLock`)
where it is held over an await, and only a condition (`playersLock = NoOne`) where it is
taken and returned within one step. `outbox[c]`, `number` and `chatCount` are history: what
was written to a client, and the place of a chat message among all of them. They only
record.

`MCServer` adds symmetry and constraints for TLC. `Client` models `MinecraftClient` and
`ClientRunner` in the same way: `connect` is where the call stands, `loop[l]` where a
client loop does, `chat[k]` where a caller's `send_chat_message()` does.

`ChatRoom` is what the server promises its players, with no task, mutex or packet: people
enter, leave, say something, and each member hears it, in one order (`Enter`, `Leave`,
`Say`, `Hear`). `Room` in `Server` is the refinement mapping: members are the map of
players, `waiting` is the rest of the loop of `broadcast_chat`, `heard` the numbers of the
messages written to a client. `ImplementsRoom` says that every step of `Server` is a step
of the room or a stutter. Online, who enters may take the place of another login of the
same account (`Displaces`). The room need not keep a member who does not listen (`Forget`); the
server as it is never takes that step.

`Session` is one connection with both its ends. `framing[e]` is what the reader and the
writer of end `e` are set to, `wire[e]` the packets on their way to it, each with the
framing it was written in. The library below is external: a packet is readable to who has
the state of its kind and the compression and cipher it was written in (`Readable`). The peer is a
`MinecraftClient` (`client`), a `StatusChecker` (`checker`), a caller of `handshake` without a
name (`nameless`) or a client of the game (`vanilla`, which is external except that
it, too, dials with `handshake`'s two packets). The server is online or not, full or not, has the
player's name or not, and has a subscriber to its packets for good or one that may go (`setting`).

| Action | Code |
|---|---|
| `Switch`, `Writes`, `Reads`, `ReadErrs` | `connection.rs` 372-511 |
| `ClientHandshake`, `ClientStart`, `ServerReadsHandshake` | `connection.rs` 273-331 |
| `ClientReadsEncryptionRequest`, `JoinServer`, `ClientResponds`, `ClientCiphers` | `client.rs` 284-311 |
| `ClientReadsSetCompression`, `ClientReadsLoginSuccess`, `ClientReadsWrongPacket` | `client.rs` 261-280, 339-366 |
| `ClientReadsStatus`, `ClientErrs` | `status.rs` 57-79 |
| `ClientLoopReads`, `SendChat`, `SendStray`, `AddPacketReceiver` | `client.rs` 166-248, 369-384 |
| `ServerRefuses` ... `ServerEntersPlay` | `server.rs` 264-277, 396-486, 548-553 |
| `CheckDuplicate`, `Join`, `Insert`, `ServerHears`, `Publish`, `ServerSkips` | `server.rs` 300-351, 572-594 |
| `ServerReadsStatusRequest` ... `ServerPongs`, `ServerErrs`, `ServerEnds` | `server.rs` 495-540, 352-380 |

`Abandon` drops the future of `connect()` or `get_status()`, `DropClient` the client, `Break`
is the network (`cut`). `deaf` says that the packet loop of the server has ended in the
panic of line 593: the message it was dealing with is heard, the next one is not read. The
mutexes around either end are not repeated here: `Server` and `Client` have them.

`Auth` is `Profile` and `verify_join` against Mojang. A call (`Ask`) fixes its request, waits, and
takes the answer (`Returns`) or none (`NoAnswer`: an error, a text that is no JSON, or a
caller that is gone). A request that nobody waits for any more may still be done by Mojang.
`authenticate` and `refresh` borrow the profile exclusively (`MayBorrow`, which is `&mut self`). Mojang is
external: it keeps the tokens it granted and revoked, and who joined under which text. A
login goes by the name its client gave. `verify_join` (370-374) puts it into the URL as it
is, so that for a name with characters that mean something in a URL (`UrlName`) Mojang may be
asked about any name and any text (`Query`); `admitted` is the account its answer names, which
the server takes (`server.rs` 447). `Server` takes it that the name is confirmed.

`Hash` is `calc_hash` on digests of any width and radix, with the reference it is compared to
(`IsSignedHex`, Java's `BigInteger.toString(16)`). The digest zero is the one that differs: its
text is empty where Java writes 0 (`ZeroDigest`). `MCHash` compares them over all digests of three bytes of two base-four digits.

Operators called *fault variants* next to an action are that action with a plausible
mistake (a guard that ends early, a missing check). They are part of no specification; put
in the action's place each of them breaks the property that is meant to notice.

`MCAuth` picks the digests of the logins and the symmetry. `ServerProofs` (with the listener),
`ChatProofs`, `RoomProofs`, `ClientProofs`, `HashProofs`, `AuthProofs`, `SessionProofs` and
`ReasonProofs` hold the theorems.

### What the models assume and leave out

* tokio's mutexes are fair FIFO queues and are released when a task panics.
* `try_recv` of tokio 0.2 returns the values of a channel one by one, then `Closed` if its last
  `Sender` is gone and `Empty` otherwise. `receiver.close()` only stops the `Sender` from
  sending: an empty closed channel with a living `Sender` is `Empty`. Hence two variables of
  `ServerListener`, `closed` for `stop()` and `dropped` for the `Sender`, of which the loop
  sees the second only.
* A write is one step and never waits. A write to a client that left is lost or fails,
  where the code tells the two apart.
* `UUID4::random()` does not repeat. Online, Mojang's answer names the account that was
  asked for; a difference in letter case is not represented.
* `0..EntitySpan-1` stands for the 2^32 ids from `i32::MIN`; `EntitySpan` is at least the
  number of connections, so that the overflow of line 284 is not reached.
* HTTP requests end with an answer or an error or not at all; there is no time limit in
  the code.
* A panic of `unwrap()` on what a client sent (425, 429) ends the task like a failed read.
* In `Session` a socket that is closed with bytes unread resets the other end, and a write to a
  lost or closed connection fails or is lost. A packet is read as a whole: what the reader has
  taken when the 5 ms of the client loop are over it keeps (`mctokio` buffers).
* The response to an encryption request that was not encrypted with the server's key does not
  decrypt: the task of the server panics or finds another token.
* Of what Mojang makes of a name with a meaning in a URL `Auth` assumes only that its answer
  names an account that joined some login.
* In `Auth` no two logins have one digest (the RSA key is new in each), Mojang grants nothing
  that was not asked for with a token it knows, and a refresh returns a token of the same account.
* Left out: logging, the contents of packets and of the status (the set of players
  excepted), `hardcore`, the position of a chat message, the client's own name and id after
  an offline login, `get_connected_players` (it only reads).

## The runs

Passing runs:

| Run | Instance | Shows |
|---|---|---|
| `server_listener` | 3 calls of `start`, 2 values in the channel | `RunningMatchesLoop`, `ShutdownIsFinal` over restarts; with clients that keep arriving `DroppingEndsBusyServer` |
| `server_room` | 3 connections, offline, 2 names, 1 message | `EntityIdsDistinct`, `JoinFirst`, `BroadcastCoverage`, `RegisteredHasJoined`, `NoDisplacement` while logins and a broadcast interleave; `ImplementsRoom` |
| `server_online` | 2 connections, online, 3 messages | `RunnerExclusive`, `LockOrder`, `ChatOrder` with encryption, Mojang, status dialogues, broken dialogues and two logins of one account |
| `server_liveness` | 2 connections, online, 1 message | `HandlersFinish`, `PacketsFinish` over encryption, its panics, `verify_join` and status dialogues |
| `client` | 2 possible loops, 2 callers | `RunnerHeld`, `OneLoop`, `LoopEndsForCause`; `ConnectReturns`, `ChatGetsThrough`, `ClosingEndsLoop` |
| `auth` | 3 calls, an online and an offline profile, 2 logins under a profile's name or `UrlName`, 3 digests | `VerifiedHasJoined`, `HashIsSignedHex`, `JoinsAsSelected`, `TokenLossExplained` |
| `session` | 1 connection, all settings and peers, 2 chat messages, 1 stray one | `ReadsAgree`, `FramingsMeet`, `NotBothWaiting`, `FailureExplained`, `NeverOnline`; `CallReturns`, `DialogueEnds`, `ChatHeard` |

Runs in which the code does not do what its own texts say (each has an entry under
`findings`):

| Run | Property | What happens |
|---|---|---|
| `listener_close` | `ClosingStopsLoop` | without its `Sender` the loop waits in `accept()` until the next client |
| `listener_stop` | `StopEndsBusyServer` | after `stop()` the loop accepts client after client, as long as the `Sender` lives |
| `server_admission` | `SomeCheckHolds` | two logins with one name for the last place both get in: neither the maximum (`CapacityRespected`) nor the names (`NamesUnique`) hold |
| `server_silent` | `ChatReachesAll` | a broadcast waits for a silent player's packet loop |
| `client_replaced` | `ConnectedMeansPlay` | a second `connect()` replaces a working connection, then refuses |

Other behaviour the models contain, by a guard that is or is not there rather than by an
interleaving, so that no run is spent on it: a value sent on the shutdown channel is taken and
ignored (`Poll`, against `server.rs` 128); `start()` answers before it sets the flag
(`Bind`, `SetRunning`), so that a `stop()` in between does nothing; nothing removes a player
who left from the map (against the message of line 271; `NoDisplacement` allows it); without a subscriber the
first packet of a player ends its packet loop (`Publish`, against `server.rs` 47; `deaf` in
`Session`); the runner is held while a silent client logs in (against
`server.rs` 127); a chat message is written in whatever state the connection is
(`SendChat` of `Client`, against `client.rs` 241); the client loop, too, ends with the first
packet that has no subscriber (`ReadPacket` of `Client`), which the demo risks by subscribing
after `connect()` (`ClientLoopReads` of `Session`); nothing sets `connected` back when the
server closes the connection (against `client.rs` 30 and the branch at 188-191, which is
never taken; `LoopEndsForCause` allows it); `refresh` is refused only when both
tokens are empty (`AskRefresh`, against `auth.rs` 277) and `authenticate` drops the client
token it is given (`AuthenticateReturns`); the client's shared secret stays all zero, since the
loop at `client.rs` 297 assigns to a loop variable; `calc_hash` panics in a build with
overflow checks for a negative digest whose last byte is zero (`HashPanics`); a full server is
told to a `MinecraftClient` as "wrong packet" (`ClientReadsWrongPacket`); a client whose
`connect()` failed keeps its connection, and the server waits on it with the runner in hand
(the exception in `DialogueEnds`).

### Bounds

Two connections are enough for two dialogues to interleave, for two logins to pass a check
together, for one player to wait for another, and for one account to log in twice. Three
are needed for a player to join while one speaks to another, hence `server_room`. One
message suffices for coverage and JoinGame order, three for messages of two speakers to
follow each other in both orders. Names are fewer than connections where a collision is
the point. `MaxReceivers = 1` distinguishes having a subscriber from having none. A loop
that can be spawned twice has two elements to show that it is not.

`session` has no bound but the number of chat messages: two for an order to exist and one sent
too early. One connection is enough, as it shares nothing with others but what
`setting` says of the server. In `auth` three calls are enough for a refresh with a token that is invalidated by a late request, and
for two calls to borrow one profile while a third joins; the digests are a positive one, its
negative, and the one whose hash overflows. `MCHash` has every digest of its width.

`StaysOpen` leaves out states after `stop()` or the drop of the `Sender`: neither touches a connection
that is there, and `server_listener` has what becomes of the loop. `OnlyPlayers`
(in `server_room` and `server_silent`) leaves out status dialogues, packets other
than chat and the absence of a receiver; `server_online` has them. Connections and names
are interchangeable, and symmetry is used in runs without liveness only.

TLC's deadlock check is on in the runs of the server and of the client but says little there, since the channel can be closed
and `stop()` be called in every state. That no set of tasks waits for each other rests on
`LockOrder` and on the liveness runs.

### Fairness

`ServerFairSpec` and `FairSpec` are strongly fair to each task: a tokio mutex is a queue,
so a task that waits for one that is free again and again gets it. Nothing is
assumed of clients, servers or Mojang. `ResponsiveSpec` and `AnsweredSpec` add that they
answer, rightly or wrongly, or hang up, which the code needs since it has no time limits;
`HandlersFinish`, `PacketsFinish` and `ConnectReturns` hold under that condition only
(a Mojang that never answers `verify_join` is thus outside), and
`server_silent` shows what happens without it. The 5 ms limit of the client
loop (`ReadTimesOut`) belongs to the loop's own fairness: `ChatGetsThrough` holds although
the server may be silent. `BusyListenerSpec` lets clients arrive again and again.
`FairSpec` of `Session` is weakly fair to the program of either end, Mojang's answers
included, and to nothing else: the network may break, the callers may give up or not, the
client loop may lag. `CallReturns` and `ChatHeard` need no more, since neither end has to hope for
the other's good will once both run this code.

## What is proved

For any number of connections, names, players, messages, loops and callers:

* `ListenerTypeCorrect`, `ListenerCorrect`, `ShutdownStaysFinal`: the inductive invariant adds to
  `RunningMatchesLoop` and `ShutdownIsFinal` that one loop at most is between bind and
  end (`OneListens`; the flag is shared, so without it another loop could clear it) and that
  a loop ended because the `Sender` is gone and the channel empty (`EndedForGood`).
* `TypeCorrect`, `LockInvariance`: `LockInv` says for each mutex that its owner is the task
  that stands where the code has the guard in scope, and that a packet loop exists only
  for a client whose login is over (else one client could appear at two such places).
  `RunnerIsExclusive` and `LocksAreOrdered` follow from it state by state.
* `EntityIdsAreDistinct`: distinctness becomes inductive with the fact that an id
  of a client is recorded as used (`IdsRecorded`).
* `JoinComesFirst`, `ChatIsOrdered`, `BroadcastsCover` (`ChatProofs`): `ChatInv` says what the
  last packet of a player's outbox is. Between two broadcasts it is JoinGame or the latest
  message; during one, those still to be served are exactly one message behind
  (`UpToDate`). That only one broadcast runs at a time, and that nobody enters the map
  meanwhile, comes from `LockInv`.
* `ServerImplementsRoom`: `LockInv` and `ChatInv` are enough. Each action is shown to be an
  `Enter` (`Insert`), `Leave`, `Say` (`StartBroadcast`), `Hear` (`SendChat`) or a stutter of the room;
  that nobody enters while some are still to hear comes from the mutex of the map.
  `NobodyIsDisplaced`: only `Insert` takes somebody out of the map, and who has the key of the one who
  enters has its name.
* `PlacesAreEarned`: `MapInv` says the same of a client that stands between the write of
  JoinGame and the insertion, and no packet is ever taken back (`JoinStays`).
* `AuthTypeCorrect`, `JoinsUnderSelected`, `TokenLossIsExplained`: while a call waits the borrows
  keep others from the profile, so that it is what the request says (`RequestIsCurrent`, a lemma's
  invariant); a token that was granted stays its account's, and only the account's own calls
  put it to death.
* `HashIsHex`, `TextsDiffer`, `PanicsAtZero` (`HashProofs`): for digests of any width and radix.
  A digest and its complement are one less than a power of the radix apart, digit by digit, and
  the carry of `two_complement` runs through the zeros at the end and no further
  (well-founded over the digits, by the least counterexample); so the text is that
  of the signed number, and has a digit unless the digest is zero. A number has one text without leading zeros, and a text one number,
  hence no two digests share one.
* `HashesAreSigned`, `VerifiedIsMeant`: with these, and with what a call says of its profile, the
  server lets in only who joined that login, unless the name has a meaning in a URL; then the
  account has joined a login, not necessarily this one. Nothing is assumed of the digests but that
  they differ.
* `OnlineIsClosed` (`SessionProofs`): `Shut` says what may be on the wire between a
  `MinecraftClient` and an online server: requests and refusals one way, nothing encrypted the other, so that
  the server never gets past the response.
* `EndsReadAlike`, `EndsFramedAlike`, `NoMutualWait` (`SessionProofs`): `Framed` says for either
  direction what may be on the wire. An end at one place has yet to read one of `ClientComing`
  (`ServerComing`), the other has yet to write one of `ServerDue` (`ClientDue`), and the packets
  between lead from the one to the other (`Stream`), each in the framing its kind demands
  (`CodecOf`); a client in Play, or a LoginSuccess on its way, means that the server is past it
  (`InPlay`). A stray chat message is an exception at any place. With empty wires what one end
  is due is what the other waits for, hence no mutual wait. That a client at `encrypted`
  has the server's key is where `Shut` is needed.
* `FailuresHaveReasons` (`ReasonProofs`): `Framed` says in which order packets come, not when, so
  `Plain` adds five things. Neither end loses its socket before its program lets go of it (`Held`).
  What is on the wire was not said for nothing: no stray message reaches an end that is
  connecting, a refusal means a full server, an encryption response is the one its
  client writes (`Meant`). As long as nobody has given a reason to fail, nothing is on its way
  to a client that is about to write, so that no write meets a connection that the server has
  closed (`Quiet`); and a server that is done has left a StatusPong or a PlayDisconnect as
  the last packet, so that no read meets the bare end of the stream (`Ended`). And that server
  had read all there was, so that its end does not reset the connection (`Whole`): the property does
  not count a reset as a reason, only the loss by the network (`cut`). `Places` reads off
  the streams of `Framed` where the server can be when the client is at a given place,
  which `Quiet` needs.
* `SessionIsTyped` (`ReasonProofs`): the one part of the type invariant that is not plain is that
  the server hears no more messages than were written. The messages on the wire can be numbered
  (`Numbered`): every number comes after what is heard, none is beyond what was written.
* `ClientTypeCorrect`, `ClientInvariance`, `ClientCorrect`: `ClientInv` adds that a login is
  under way only while the client is not connected and that a loop exists only once it was;
  together they give one loop (`ClientHasOneLoop`, `ClientLoopEnds`).

The proofs assume `ListenerAssumption`, `ServerAssumption`, `ClientAssumption`, `HashAssumption`,
`AuthAssumption` and `SessionAssumption`: the bounds are natural numbers, and the value for
"no owner" is none of the owners. They cover the
safety part of the specifications.

Every safety property of the passing runs is a theorem. Only model-checked are the liveness
properties (`DroppingEndsBusyServer`, `ConnectReturns`, `ChatGetsThrough`, `ClosingEndsLoop`,
`HandlersFinish`, `PacketsFinish`, `CallReturns`, `DialogueEnds`, `ChatHeard`): fairness and
`ENABLED` are beyond the prover. `MCHash` counts what `HashProofs` proves.

## Not modelled

* `Player` and `PlayerInventory` (`types.rs`): accessors of one array with constant bounds and no
  state that the server changes. Several of them do panic (the ranges are one short, slot 45
  is past the end), which a test of each shows.
* The ring of 16 packets behind `packet_tx`: it is tokio's, and nothing in `src/src` reads it but
  the demo, which ignores what it missed. A `send` fails for want of a receiver only, and
  that is modelled.
* A client that does not read its socket, so that a write to it waits: `server_silent` shows the
  same hold-up for a read.
* `main.rs`, `lib.rs`, the `mod.rs` files: a sequence of calls, re-exports and one HTTP helper,
  whose failures are `NoAnswer` of `Auth`.

## What could follow

A composition of `Session` with the mutexes of `Server` on one side and of `Client` on the other,
so that a silent peer and a framing are seen together; the safety half of the liveness
properties, such as that a connecting client and a server in its dialogue always have a step
between them, as a theorem about the two programs.
