------------------------------ MODULE ChatRoom ------------------------------
(***************************************************************************)
(* What ServerRunner promises those who chat: one conversation.  Messages  *)
(* are said one after the other, each to those who are members then, and   *)
(* nobody enters between the first and the last who hear one.  No mutex,   *)
(* packet or task appears here; module Server implements it.               *)
(***************************************************************************)
EXTENDS Naturals

CONSTANTS
    People,
    Displaces    \* whether who enters may take the place of members

VARIABLES
    members,     \* those in the room
    absent,      \* those who do not listen any more, members or not
    said,        \* the number of messages said so far
    waiting,     \* those who are still to hear the latest
    heard        \* the messages each one heard

roomVars == <<members, absent, said, waiting, heard>>

RoomInit ==
    /\ members = {}
    /\ absent = {}
    /\ said = 0
    /\ waiting = {}
    /\ heard = [p \in People |-> {}]

Enter(p) ==
    /\ waiting = {}
    /\ p \notin members
    /\ \E out \in SUBSET members :
        /\ out # {} => Displaces
        /\ members' = (members \ out) \cup {p}
    /\ UNCHANGED <<absent, said, waiting, heard>>

Leave(p) ==
    /\ absent' = absent \cup {p}
    /\ UNCHANGED <<members, said, waiting, heard>>

\* The room need not keep a member who does not listen.
Forget(p) ==
    /\ p \in members \cap absent
    /\ members' = members \ {p}
    /\ UNCHANGED <<absent, said, waiting, heard>>

Say ==
    /\ waiting = {}
    /\ said' = said + 1
    /\ waiting' = members
    /\ UNCHANGED <<members, absent, heard>>

Hear(p) ==
    /\ p \in waiting
    /\ waiting' = waiting \ {p}
    /\ heard' = IF p \in absent THEN heard ELSE [heard EXCEPT ![p] = @ \cup {said}]
    /\ UNCHANGED <<members, absent, said>>

RoomNext == Say \/ \E p \in People : Enter(p) \/ Leave(p) \/ Forget(p) \/ Hear(p)

RoomSpec == RoomInit /\ [][RoomNext]_roomVars
=============================================================================
