--------------------------- MODULE ServerListener ---------------------------
(***************************************************************************)
(* The life of MinecraftServer: the task that start() spawns, which binds  *)
(* the socket, polls the shutdown channel between two connections and      *)
(* accepts clients, and the API calls that reach it, stop() and the        *)
(* shutdown Sender that new() returned.  The task shares the runner mutex  *)
(* (Arc<Mutex<ServerRunner>>) with every connection of the server; what    *)
(* the connections do under it is the subject of module Server, which      *)
(* extends this one.  Alone, this module lets an unnamed task take the     *)
(* mutex.                                                                  *)
(***************************************************************************)
EXTENDS Naturals

CONSTANTS
    Loops,       \* one element for each call of start()
    NoOne,       \* the owner of a free mutex
    MaxSignals   \* bound: unread values in the shutdown channel

ASSUME ListenerAssumption == MaxSignals \in Nat

VARIABLES
    listen,      \* where each server loop stands
    running,     \* ServerRunner.running
    signals,     \* values sent on the shutdown channel and not read yet
    closed,      \* stop() has closed the receiving end of that channel
    dropped,     \* the last Sender of that channel is gone
    runner       \* the task that holds the runner mutex

shutdownVars == <<signals, closed, dropped>>
listenerVars == <<listen, running, shutdownVars>>

\* A loop is "bind" until start() has its answer: "failed" is the Err that
\* start() returns, every later place stands for Ok(handle).
ListenPlaces == {"idle", "bind", "set_running", "poll", "accept",
               "clear_running", "done", "failed"}

\* The TcpListener lives from a successful bind to the end of the task.
Listening(l) == listen[l] \in {"set_running", "poll", "accept", "clear_running"}

\* Type invariant of start() and stop(): a value is taken from the channel only
\* when there is one.
ListenerTypeOK ==
    /\ listen \in [Loops -> ListenPlaces]
    /\ running \in BOOLEAN
    /\ signals \in 0..MaxSignals
    /\ closed \in BOOLEAN /\ dropped \in BOOLEAN

ListenerInit ==
    /\ listen = [l \in Loops |-> "idle"]
    /\ running = FALSE
    /\ signals = 0
    /\ closed = FALSE
    /\ dropped = FALSE

-----------------------------------------------------------------------------
(* The server loop.                                                        *)

\* start(): spawns the loop and waits for its answer.
Start(l) ==
    /\ listen[l] = "idle"
    /\ listen' = [listen EXCEPT ![l] = "bind"]
    /\ UNCHANGED <<running, shutdownVars, runner>>

\* Under the runner mutex: bind, then answer start().  The address is free
\* only when no other loop holds it; another program may hold it too.
Bind(l) ==
    /\ listen[l] = "bind"
    /\ runner = NoOne
    /\ \/ /\ \A k \in Loops : ~Listening(k)
          /\ listen' = [listen EXCEPT ![l] = "set_running"]
       \/ listen' = [listen EXCEPT ![l] = "failed"]
    /\ UNCHANGED <<running, shutdownVars, runner>>

SetRunning(l) ==
    /\ listen[l] = "set_running"
    /\ runner = NoOne
    /\ running' = TRUE
    /\ listen' = [listen EXCEPT ![l] = "poll"]
    /\ UNCHANGED <<shutdownVars, runner>>

\* Fault variants: any signal ends the loop; the lost Sender is not noticed.
AfterPoll_AnySignal == IF signals > 0 \/ dropped THEN "clear_running" ELSE "accept"
AfterPoll_NotNoticed == "accept"

\* What try_recv of the shutdown channel leads to: a value is taken and
\* ignored; without one it reports Closed when the last Sender is gone, which
\* ends the loop, and Empty otherwise, also after receiver.close().
AfterPoll == IF signals = 0 /\ dropped THEN "clear_running" ELSE "accept"

\* Fault variant: a permit is given back although no value was there.
Poll_Unchecked(l) ==
    /\ listen[l] = "poll"
    /\ runner = NoOne
    /\ listen' = [listen EXCEPT ![l] = AfterPoll]
    /\ signals' = signals - 1
    /\ UNCHANGED <<running, closed, dropped, runner>>

Poll(l) ==
    /\ listen[l] = "poll"
    /\ runner = NoOne
    /\ listen' = [listen EXCEPT ![l] = AfterPoll]
    /\ signals' = IF signals > 0 THEN signals - 1 ELSE 0
    /\ UNCHANGED <<running, closed, dropped, runner>>

\* accept() returns: with a client, for which a task is spawned, or with an
\* error, which is ignored.  Nothing else ends the wait.
AcceptReturns(l) ==
    /\ listen[l] = "accept"
    /\ listen' = [listen EXCEPT ![l] = "poll"]
    /\ UNCHANGED <<running, shutdownVars, runner>>

\* Fault variant: the flag is left set when the loop ends.
ClearRunning_Forgotten(l) ==
    /\ listen[l] = "clear_running"
    /\ runner = NoOne
    /\ listen' = [listen EXCEPT ![l] = "done"]
    /\ UNCHANGED <<running, shutdownVars, runner>>

ClearRunning(l) ==
    /\ listen[l] = "clear_running"
    /\ runner = NoOne
    /\ running' = FALSE
    /\ listen' = [listen EXCEPT ![l] = "done"]
    /\ UNCHANGED <<shutdownVars, runner>>

-----------------------------------------------------------------------------
(* Calls from other threads.                                               *)

\* stop(): closes the receiving end for a running server, and does nothing
\* otherwise.  From then on the Sender cannot send, and that is all.
Stop ==
    /\ runner = NoOne
    /\ closed' = (closed \/ running)
    /\ UNCHANGED <<listen, running, signals, dropped, runner>>

\* The holder of the Sender drops it, or sends a value if there is room.
DropSender ==
    /\ dropped' = TRUE
    /\ UNCHANGED <<listen, running, signals, closed, runner>>

SendSignal ==
    /\ ~closed /\ ~dropped
    /\ signals < MaxSignals
    /\ signals' = signals + 1
    /\ UNCHANGED <<listen, running, closed, dropped, runner>>

-----------------------------------------------------------------------------
ListenerStep(l) == Bind(l) \/ SetRunning(l) \/ Poll(l) \/ ClearRunning(l)

ListenerApi == (\E l \in Loops : Start(l)) \/ Stop \/ DropSender \/ SendSignal

\* Any other task of the server: takes the runner mutex and gives it back.
OtherTakes == runner = NoOne /\ runner' = "other" /\ UNCHANGED listenerVars
OtherDrops == runner = "other" /\ runner' = NoOne /\ UNCHANGED listenerVars

ListenerNext ==
    \/ ListenerApi
    \/ \E l \in Loops : ListenerStep(l) \/ AcceptReturns(l)
    \/ OtherTakes \/ OtherDrops

allListenerVars == <<listenerVars, runner>>

FreeRunnerInit == ListenerInit /\ runner = NoOne

ListenerSpec == FreeRunnerInit /\ [][ListenerNext]_allListenerVars

\* tokio's mutex is a FIFO queue, so a loop that asks for it again and again
\* gets it; the other tasks give it back.  Nothing makes clients arrive.
FairListenerSpec ==
    /\ ListenerSpec
    /\ \A l \in Loops : SF_allListenerVars(ListenerStep(l))
    /\ WF_allListenerVars(OtherDrops)

\* The same, and clients keep arriving.
BusyListenerSpec ==
    /\ FairListenerSpec
    /\ \A l \in Loops : WF_allListenerVars(AcceptReturns(l))

-----------------------------------------------------------------------------
(* Properties.                                                             *)

\* The running flag tells whether a loop is between setting and clearing it,
\* over every restart: stop() relies on it to decide whether to close.
RunningMatchesLoop ==
    running <=> \E l \in Loops : listen[l] \in {"poll", "accept", "clear_running"}

\* A server that ended once never accepts again, although a later start()
\* binds the address and answers Ok: the Sender its channel lost is not back.
ShutdownIsFinal ==
    (\E l \in Loops : listen[l] = "done") => \A k \in Loops : listen[k] # "accept"

\* Once the Sender is dropped, a loop that polls or accepts ends, provided
\* that clients keep arriving: only a client wakes the loop to look.  Whether
\* stop() was called before makes no difference.
DroppingEndsBusyServer ==
    \A l \in Loops :
        dropped /\ listen[l] \in {"poll", "accept"} ~> listen[l] = "done"

-----------------------------------------------------------------------------
(* What the code's own texts say and the code does not do.                 *)

\* "sending anything or closing the channel causes this to stop looping"
\* (server.rs:128): a loop leaves accept() when its Sender is dropped, with
\* no help from an arriving client.
ClosingStopsLoop ==
    \A l \in Loops :
        dropped /\ listen[l] = "accept" ~> listen[l] # "accept"

\* "Shut the server down if we close the channel" (server.rs:190): stop(),
\* which closes it, ends a loop that polls again and again.
StopEndsBusyServer ==
    \A l \in Loops :
        closed /\ listen[l] \in {"poll", "accept"} ~> listen[l] = "done"
=============================================================================
