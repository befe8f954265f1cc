---------------------------- MODULE GameLifecycle ----------------------------
(***************************************************************************)
(* What one game promises, seen from outside: it waits in a lobby, then    *)
(* its rounds are opened and closed one after another, each exactly once,  *)
(* and then it is over.  A restart of the server may set the game back to  *)
(* an earlier point, never forward past a round that has not been played.  *)
(* Game.tla implements this specification (src/server/src/lib/game.ts).    *)
(***************************************************************************)
EXTENDS Naturals

CONSTANT NumRounds        \* rounds of the game's schedule, at least one

VARIABLES phase,          \* "lobby", "open", "closed" or "over"
          round           \* the current round; NumRounds once over

vars == <<phase, round>>

Round == 0 .. NumRounds - 1

Init == phase = "lobby" /\ round = 0

Start == /\ phase = "lobby"
         /\ phase' = "open" /\ round' = 0

Close == /\ phase = "open"
         /\ phase' = "closed" /\ UNCHANGED round

OpenNext == /\ phase = "closed" /\ round + 1 \in Round
            /\ phase' = "open" /\ round' = round + 1

Finish == /\ phase = "closed" /\ round + 1 = NumRounds
          /\ phase' = "over" /\ round' = NumRounds

(* A restart resumes from what was saved: some earlier point. *)
Rewind == \/ phase' = "lobby" /\ round' = 0
          \/ /\ phase # "lobby"
             /\ \E k \in Round : k <= round /\ phase' = "open" /\ round' = k

Next == Start \/ Close \/ OpenNext \/ Finish \/ Rewind

Spec == Init /\ [][Next]_vars

(* A game that has started is eventually over, unless a restart takes it   *)
(* back to the lobby.                                                      *)
Progress == phase \in {"open", "closed"} ~> phase \in {"over", "lobby"}
=============================================================================
