------------------------------ MODULE MCServer ------------------------------
(* Server for TLC: connections are interchangeable, names are too, and the  *)
(* runs about the players leave shutdown to the run of ServerListener. The   *)
(* hash, which the server computes and sends, is checked before they start. *)
EXTENDS Server, TLC, MCHash

Symmetry == Permutations(Conns) \cup Permutations(Names)

StaysOpen == ~closed /\ ~dropped

\* The run with three clients looks at players who join and chat only, with a
\* receiver subscribed from the start and for good.
OnlyPlayers ==
    /\ StaysOpen
    /\ \A c \in Conns : handler[c] # "status" /\ packet[c] # "Other"
    /\ receivers = 0 => \A c \in Conns : handler[c] = "none"
=============================================================================
