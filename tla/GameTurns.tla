------------------------------ MODULE GameTurns ------------------------------
(***************************************************************************)
(* What a session promises its two participants while the server stays up  *)
(* (src/server/src/lib/session.ts): its games are played in turn, each     *)
(* from the lobby to its end, and the next has its turn only once the one  *)
(* before is over.  The last one stays.                                    *)
(***************************************************************************)
EXTENDS Naturals

CONSTANT NumGames     \* games of the session

VARIABLES
    turn,             \* the game whose turn it is
    phase             \* how far it is: "lobby", "playing" or "over"

vars == <<turn, phase>>

Init == turn = 1 /\ phase = "lobby"

Begin == phase = "lobby" /\ phase' = "playing" /\ UNCHANGED turn

End == phase = "playing" /\ phase' = "over" /\ UNCHANGED turn

MoveOn ==
    /\ phase = "over" /\ turn < NumGames
    /\ turn' = turn + 1 /\ phase' = "lobby"

Next == Begin \/ End \/ MoveOn

Spec == Init /\ [][Next]_vars
=============================================================================
