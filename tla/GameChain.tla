------------------------------ MODULE GameChain ------------------------------
(***************************************************************************)
(* The games of one session, played one after another                      *)
(* (src/server/src/lib/session.ts, src/server/src/socketio/client.ts): the *)
(* row that marks the current game, moved by a transaction that is forked  *)
(* when a game stops; the sockets that read it when they connect, and stay *)
(* with the game they found; crashes and restarts.                         *)
(*                                                                         *)
(* The rounds of a game are Game.tla's; here a game is waiting for its     *)
(* players, being played, or over.                                         *)
(***************************************************************************)
EXTENDS Naturals, FiniteSets

CONSTANTS
    Player,       \* the two participants of the session
    Socket,       \* connections
    NumGames,     \* games of the session
    MaxSaves,     \* bound: sockets act only while fewer saves are in flight
    MaxCrashes,   \* bound: crashes of the process
    MaxFailures   \* bound: queries that find the database locked

ASSUME ChainAssumption ==
    /\ Player # {}
    /\ NumGames \in Nat \ {0}
    /\ MaxSaves \in Nat
    /\ MaxCrashes \in Nat
    /\ MaxFailures \in Nat

VARIABLES
    game,         \* the games in memory, by order (last values while down)
    row,          \* their game_data columns
    saving,       \* saves in flight
    current,      \* the game whose row has is_current
    moving,       \* the games that setCurrentGame calls in flight make current
    socket,       \* the connections
    finished,     \* history: the games that have been played to the end
    up,           \* is the process running?
    crashes,      \* crashes so far
    failures      \* failed queries so far

vars == <<game, row, saving, current, moving, socket, finished, up, crashes, failures>>

-----------------------------------------------------------------------------
Order == 1 .. NumGames
Data == [phase : {"lobby", "playing", "over"}, ready : SUBSET Player]
Away == [at |-> "away"]
Connection == {Away} \cup [at : {"reading"}, player : Player]
                     \cup [at : {"binding", "bound"}, player : Player, game : Order]

NewGame == [phase |-> "lobby", ready |-> {}]

TypeOK ==
    /\ game \in [Order -> Data]
    /\ row \in [Order -> Data]
    /\ saving \subseteq [game : Order, data : Data]
    /\ current \in Order
    /\ moving \subseteq Order
    /\ socket \in [Socket -> Connection]
    /\ finished \subseteq Order
    /\ up \in BOOLEAN
    /\ crashes \in 0 .. MaxCrashes
    /\ failures \in 0 .. MaxFailures

Init ==
    /\ game = [g \in Order |-> NewGame]
    /\ row = [g \in Order |-> NewGame]
    /\ saving = {}
    /\ current = 1
    /\ moving = {}
    /\ socket = [s \in Socket |-> Away]
    /\ finished = {}
    /\ up = TRUE
    /\ crashes = 0
    /\ failures = 0

-----------------------------------------------------------------------------
(* Sockets. *)

Accepting == up /\ Cardinality(saving) < MaxSaves

(* onConnect looks the player's session up, then its current game. *)
Connect(s, p) ==
    /\ Accepting /\ socket[s] = Away
    /\ socket' = [socket EXCEPT ![s] = [at |-> "reading", player |-> p]]
    /\ UNCHANGED <<game, row, saving, current, moving, finished, up, crashes, failures>>

ReadCurrent(s) ==
    /\ up /\ socket[s].at = "reading"
    /\ socket' = [socket EXCEPT ![s] = [at |-> "binding", player |-> @.player,
                                        game |-> current]]
    /\ UNCHANGED <<game, row, saving, current, moving, finished, up, crashes, failures>>

(* The handlers are attached, with the game that was read, for good. *)
Bind(s) ==
    /\ up /\ socket[s].at = "binding"
    /\ socket' = [socket EXCEPT ![s].at = "bound"]
    /\ UNCHANGED <<game, row, saving, current, moving, finished, up, crashes, failures>>

(* playerReady starts a game whose players are all ready, and saves it. *)
SetReadyRestarts(d, p, flag) ==        \* mutant: the guard on startTime forgotten
    LET ready == IF flag THEN d.ready \cup {p} ELSE d.ready \ {p}
    IN  [phase |-> IF ready = Player THEN "playing" ELSE d.phase, ready |-> ready]
SetReady(d, p, flag) ==
    LET ready == IF flag THEN d.ready \cup {p} ELSE d.ready \ {p}
    IN  [phase |-> IF d.phase = "lobby" /\ ready = Player THEN "playing" ELSE d.phase,
         ready |-> ready]

PlayerReady(g, p, flag) ==
    /\ game' = [game EXCEPT ![g] = SetReady(@, p, flag)]
    /\ saving' = saving \cup {[game |-> g, data |-> game'[g]]}

Ready(s, flag) ==
    /\ Accepting /\ socket[s].at = "bound"
    /\ PlayerReady(socket[s].game, socket[s].player, flag)
    /\ UNCHANGED <<row, current, moving, socket, finished, up, crashes, failures>>

(* A bound socket that goes unreadies its player; one that goes before has no
   handler yet, and the handlers it gets later are never called. *)
DisconnectKeepsReady(s) ==                 \* mutant: the player stays ready
    /\ Accepting /\ socket[s] # Away
    /\ socket' = [socket EXCEPT ![s] = Away]
    /\ UNCHANGED <<game, row, saving, current, moving, finished, up, crashes, failures>>
Disconnect(s) ==
    /\ Accepting /\ socket[s] # Away
    /\ socket' = [socket EXCEPT ![s] = Away]
    /\ \/ /\ socket[s].at = "bound"
          /\ PlayerReady(socket[s].game, socket[s].player, FALSE)
       \/ /\ socket[s].at # "bound"
          /\ UNCHANGED <<game, saving>>
    /\ UNCHANGED <<row, current, moving, finished, up, crashes, failures>>

-----------------------------------------------------------------------------
(* The end of a game. *)

(* chainGames: reduceRight attaches to each game a listener for the next. *)
FollowingPastLast(g) == {g + 1}                \* mutant: the last game has one too
FollowingLast(g) == {NumGames} \ {g}           \* mutant: the callback returns acc
FollowingSelf(g) == {g}                        \* mutant: curr for acc
Following(g) == {g + 1} \cap Order

(* Past the last round: stop saves the game, then forks setCurrentGame. *)
Stop(g) ==
    /\ up /\ game[g].phase = "playing"
    /\ game' = [game EXCEPT ![g].phase = "over"]
    /\ saving' = saving \cup {[game |-> g, data |-> game'[g]]}
    /\ moving' = moving \cup Following(g)
    /\ finished' = finished \cup {g}
    /\ UNCHANGED <<row, current, socket, up, crashes, failures>>

(* setCurrentGame: one transaction. *)
SetCurrent(g) ==
    /\ g \in moving
    /\ current' = g
    /\ moving' = moving \ {g}
    /\ UNCHANGED <<game, row, saving, socket, finished, up, crashes, failures>>

(* Or one of its queries fails.  withDb does not close the connection then; if
   it was within the transaction, its lock makes later queries fail until it is
   collected, and each of those failures is one more here or in SaveFails. *)
SetCurrentFails(g) ==
    /\ g \in moving /\ failures < MaxFailures
    /\ moving' = moving \ {g}
    /\ failures' = failures + 1
    /\ UNCHANGED <<game, row, saving, current, socket, finished, up, crashes>>

(* saveGame, in any order. *)
Save(m) ==
    /\ m \in saving
    /\ row' = [row EXCEPT ![m.game] = m.data]
    /\ saving' = saving \ {m}
    /\ UNCHANGED <<game, current, moving, socket, finished, up, crashes, failures>>

SaveFails(m) ==
    /\ m \in saving /\ failures < MaxFailures
    /\ saving' = saving \ {m}
    /\ failures' = failures + 1
    /\ UNCHANGED <<game, row, current, moving, socket, finished, up, crashes>>

-----------------------------------------------------------------------------
(* Crash and restart. *)

Crash ==
    /\ up /\ crashes < MaxCrashes
    /\ up' = FALSE /\ crashes' = crashes + 1
    /\ saving' = {} /\ moving' = {}
    /\ socket' = [s \in Socket |-> Away]
    /\ UNCHANGED <<game, row, current, finished, failures>>

(* initSession: every game of the session is restored from its row.  One that
   had started is resumed and so saved; one that had stopped stops again,
   before chainGames has attached the listeners: setCurrentGame is not called. *)
Restart ==
    /\ ~up
    /\ up' = TRUE
    /\ game' = row
    /\ saving' = {[game |-> g, data |-> row[g]] : g \in {h \in Order : row[h].phase # "lobby"}}
    /\ UNCHANGED <<row, current, moving, socket, finished, crashes, failures>>

-----------------------------------------------------------------------------
Next ==
    \/ \E s \in Socket :
          \/ \E p \in Player : Connect(s, p)
          \/ ReadCurrent(s) \/ Bind(s)
          \/ \E flag \in BOOLEAN : Ready(s, flag)
          \/ Disconnect(s)
    \/ \E g \in Order : Stop(g)
    \/ \E g \in moving : SetCurrent(g) \/ SetCurrentFails(g)
    \/ \E m \in saving : Save(m) \/ SaveFails(m)
    \/ Crash
    \/ Restart

Spec == Init /\ [][Next]_vars

(* A game that is played ends (Game.tla's StartedGameEnds), a query settles,
   and pm2 restarts the server. *)
Fairness ==
    /\ \A g \in Order : WF_vars(Stop(g))
    /\ \A g \in Order : WF_vars(SetCurrent(g) \/ SetCurrentFails(g))
    /\ WF_vars(Restart)

FairSpec == Spec /\ Fairness

-----------------------------------------------------------------------------
(* Properties. *)

(* A game becomes current only once each game before it has been played to the
   end, whatever a restart resumes, and whatever sockets of old games do. *)
NoGameSkipped == \A g \in Order : g < current => g \in finished

(* Its inductive strengthening: a game is reached once all before it have been
   played; only reached games are current, become current, are read by sockets,
   or have started, in memory, in the table or in a save. *)
Reached(g) == \A h \in Order : h < g => h \in finished

ChainInv ==
    /\ TypeOK
    /\ Reached(current)
    /\ \A g \in moving : Reached(g)
    /\ \A s \in Socket : socket[s].at \in {"binding", "bound"} => Reached(socket[s].game)
    /\ \A g \in Order : game[g].phase # "lobby" \/ row[g].phase # "lobby" => Reached(g)
    /\ \A m \in saving : m.data.phase # "lobby" => Reached(m.game)

(* While the server has not crashed, the session's games are played one at a
   time: a socket bound to a game by a current game read long ago can start no
   game while another is played. *)
OneGamePlayed ==
    crashes = 0 => \A g, h \in Order :
                      game[g].phase = "playing" /\ game[h].phase = "playing" => g = h

(* Until the first crash the current game moves forward, one game at a time and
   only once it is over: the setCurrentGame calls of two games cannot overtake
   each other, though nothing orders them. *)
PointerForward ==
    [][crashes = 0 /\ current' # current =>
          current' = current + 1 /\ game[current].phase = "over"]_vars

(* A player who is ready in a game has a connection bound to it: "unready
   player when disconnecting" (client.ts:129).  True until a restart, which
   restores the ready flags of players who are gone. *)
ReadyIsConnected ==
    crashes = 0 => \A g \in Order : \A p \in game[g].ready :
        \E s \in Socket : socket[s] = [at |-> "bound", player |-> p, game |-> g]

(* The order of play until the first crash: the games played to the end are
   those that are over, all of them before the current one or itself; those
   after it wait in the lobby, with no socket bound to them yet; and the only
   transaction that can be in flight makes the next one current. *)
PlayedInOrder ==
    crashes = 0 =>
        /\ up
        /\ finished = {g \in Order : game[g].phase = "over"}
        /\ \A g \in Order : g > current => game[g].phase = "lobby"
        /\ \A g \in moving : g = current + 1 /\ game[current].phase = "over"
        /\ \A s \in Socket :
              socket[s].at \in {"binding", "bound"} => socket[s].game <= current

(* Without a crash the games are played in turn, whatever the sockets of old
   games do and whichever queries fail. *)
Turns == INSTANCE GameTurns WITH turn <- current, phase <- game[current].phase
ImplementsTurns == Turns!Spec

(* When a game has stopped, the session moves on: "after game1 stops, current
   game should be game2" (test/session.ts:297). *)
MovesOn ==
    \A g \in 1 .. NumGames - 1 : game[g].phase = "over" ~> current > g
=============================================================================
