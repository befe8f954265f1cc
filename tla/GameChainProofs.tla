--------------------------- MODULE GameChainProofs ---------------------------
(***************************************************************************)
(* Theorems about GameChain, for any number of games, players, sockets,    *)
(* saves in flight and crashes, whatever queries fail.                     *)
(***************************************************************************)
EXTENDS GameChain, TLAPS

(* What has been reached stays reached: finished only grows. *)
LEMMA ReachedStays ==
    ASSUME NEW g, Reached(g), finished \subseteq finished'
    PROVE  Reached(g)'
  BY DEF Reached

(* SetReady yields the data of a game, and starts it only from the lobby. *)
LEMMA SetReadyData ==
    ASSUME NEW d \in Data, NEW p \in Player, NEW flag \in BOOLEAN
    PROVE  /\ SetReady(d, p, flag) \in Data
           /\ d.phase # "lobby" => SetReady(d, p, flag).phase = d.phase
  BY DEF SetReady, Data

(* A bound socket's request is about a game of the session that was reached. *)
LEMMA BoundSocket ==
    ASSUME ChainInv, NEW s \in Socket, socket[s].at = "bound"
    PROVE  /\ socket[s].game \in Order /\ socket[s].player \in Player
           /\ Reached(socket[s].game)
  <1>1. socket[s] \in Connection
    BY DEF ChainInv, TypeOK
  <1>2. QED BY <1>1 DEF ChainInv, Connection, Away

(* A request to be ready, or not, in a reached game keeps the games in memory
   and the saves in order. *)
LEMMA PlayerReadyStep ==
    ASSUME ChainInv, NEW g \in Order, NEW p \in Player, NEW flag \in BOOLEAN,
           Reached(g), PlayerReady(g, p, flag)
    PROVE  /\ game' \in [Order -> Data]
           /\ saving' \subseteq [game : Order, data : Data]
           /\ \A h \in Order : game'[h].phase # "lobby" => Reached(h)
           /\ \A m \in saving' : m.data.phase # "lobby" => Reached(m.game)
  <1>1. game \in [Order -> Data] /\ saving \subseteq [game : Order, data : Data]
    BY DEF ChainInv, TypeOK
  <1>2. SetReady(game[g], p, flag) \in Data
    BY <1>1, SetReadyData
  <1>3. /\ game' = [game EXCEPT ![g] = SetReady(game[g], p, flag)]
        /\ saving' = saving \cup {[game |-> g, data |-> game'[g]]}
    BY DEF PlayerReady
  <1>4. game' \in [Order -> Data]
    BY <1>1, <1>2, <1>3
  <1>5. saving' \subseteq [game : Order, data : Data]
    BY <1>1, <1>3, <1>4
  <1>6. \A h \in Order : h # g => game'[h] = game[h]
    BY <1>1, <1>3
  <1>7. \A h \in Order : game'[h].phase # "lobby" => Reached(h)
    BY <1>6 DEF ChainInv
  <1>8. \A m \in saving' : m.data.phase # "lobby" => Reached(m.game)
    BY <1>3 DEF ChainInv
  <1>9. QED BY <1>4, <1>5, <1>7, <1>8

LEMMA ChainInvInit == Init => ChainInv
  BY ChainAssumption
     DEF Init, ChainInv, TypeOK, Order, Data, NewGame, Connection, Away, Reached

(* Each action preserves the invariant. *)
LEMMA ChainInvNext == ChainInv /\ [Next]_vars => ChainInv'
  <1> SUFFICES ASSUME ChainInv, [Next]_vars PROVE ChainInv'
    OBVIOUS
  <1>t. TypeOK
    BY DEF ChainInv
  <1>1. ASSUME NEW s \in Socket, NEW p \in Player, Connect(s, p)
        PROVE  ChainInv'
    <2>1. [at |-> "reading", player |-> p] \in Connection
      BY DEF Connection
    <2>2. TypeOK'
      BY <1>t, <1>1, <2>1 DEF Connect, TypeOK
    <2>3. QED BY <1>t, <1>1, <2>2 DEF Connect, ChainInv, TypeOK, Reached
  <1>2. ASSUME NEW s \in Socket, ReadCurrent(s)
        PROVE  ChainInv'
    <2>1. socket[s].player \in Player
      BY <1>t, <1>2 DEF ReadCurrent, TypeOK, Connection, Away
    <2>2. [at |-> "binding", player |-> socket[s].player, game |-> current] \in Connection
      BY <1>t, <2>1 DEF Connection, TypeOK
    <2>3. TypeOK'
      BY <1>t, <1>2, <2>2 DEF ReadCurrent, TypeOK
    <2>4. QED BY <1>t, <1>2, <2>3 DEF ReadCurrent, ChainInv, TypeOK, Reached
  <1>3. ASSUME NEW s \in Socket, Bind(s)
        PROVE  ChainInv'
    <2>1. /\ socket[s].player \in Player /\ socket[s].game \in Order
          /\ socket[s] = [at |-> "binding", player |-> socket[s].player,
                          game |-> socket[s].game]
      BY <1>t, <1>3 DEF Bind, TypeOK, Connection, Away
    <2> DEFINE b == [at |-> "bound", player |-> socket[s].player, game |-> socket[s].game]
    <2>2. b \in Connection
      BY <2>1 DEF Connection
    <2>3. socket' = [socket EXCEPT ![s] = b]
      <3>1. [socket[s] EXCEPT !.at = "bound"] = b
        BY <2>1
      <3>2. socket' = [socket EXCEPT ![s] = [socket[s] EXCEPT !.at = "bound"]]
        BY <1>3 DEF Bind
      <3>3. QED BY <3>1, <3>2
    <2>4. TypeOK'
      BY <1>t, <1>3, <2>2, <2>3 DEF Bind, TypeOK
    <2>5. QED BY <1>t, <1>3, <2>3, <2>4 DEF Bind, ChainInv, TypeOK, Reached
  <1>4. ASSUME NEW s \in Socket, NEW flag \in BOOLEAN, Ready(s, flag)
        PROVE  ChainInv'
    <2>1. /\ PlayerReady(socket[s].game, socket[s].player, flag)
          /\ socket[s].at = "bound"
          /\ UNCHANGED <<row, current, moving, socket, finished, up, crashes, failures>>
      BY <1>4 DEF Ready
    <2>2. /\ game' \in [Order -> Data]
          /\ saving' \subseteq [game : Order, data : Data]
          /\ \A h \in Order : game'[h].phase # "lobby" => Reached(h)
          /\ \A m \in saving' : m.data.phase # "lobby" => Reached(m.game)
      BY <2>1, BoundSocket, PlayerReadyStep
    <2>3. QED BY <2>1, <2>2 DEF ChainInv, TypeOK, Reached
  <1>5. ASSUME NEW s \in Socket, Disconnect(s)
        PROVE  ChainInv'
    <2>1. /\ socket' = [socket EXCEPT ![s] = Away]
          /\ UNCHANGED <<row, current, moving, finished, up, crashes, failures>>
      BY <1>5 DEF Disconnect
    <2>2. /\ game' \in [Order -> Data]
          /\ saving' \subseteq [game : Order, data : Data]
          /\ \A h \in Order : game'[h].phase # "lobby" => Reached(h)
          /\ \A m \in saving' : m.data.phase # "lobby" => Reached(m.game)
      <3>1. CASE socket[s].at = "bound"
        BY <1>5, <3>1, BoundSocket, PlayerReadyStep DEF Disconnect
      <3>2. CASE socket[s].at # "bound"
        BY <1>5, <3>2 DEF Disconnect, ChainInv, TypeOK
      <3>3. QED BY <3>1, <3>2
    <2>3. Away \in Connection /\ Away.at \notin {"binding", "bound"}
      BY DEF Connection, Away
    <2>4. QED BY <2>1, <2>2, <2>3 DEF ChainInv, TypeOK, Reached
  <1>6. ASSUME NEW g \in Order, Stop(g)
        PROVE  ChainInv'
    <2> DEFINE d == [game[g] EXCEPT !.phase = "over"]
    <2>1. d \in Data
      BY <1>t DEF TypeOK, Data
    <2>2. /\ game' = [game EXCEPT ![g] = d]
          /\ saving' = saving \cup {[game |-> g, data |-> game'[g]]}
          /\ moving' = moving \cup Following(g)
          /\ finished' = finished \cup {g}
          /\ UNCHANGED <<row, current, socket, up, crashes, failures>>
      BY <1>t, <1>6 DEF Stop, TypeOK
    <2>3. game'[g] = d
      BY <1>t, <2>2 DEF TypeOK
    <2>4. TypeOK'
      BY <1>t, <2>1, <2>2, <2>3 DEF TypeOK, Following
    <2>5. Reached(g)
      BY <1>6 DEF Stop, ChainInv
    <2>6. \A h \in Following(g) : Reached(h)'
      BY <2>2, <2>5, ChainAssumption DEF Reached, Following, Order
    <2>7. \A h : Reached(h) => Reached(h)'
      BY <2>2 DEF Reached
    <2>8. \A h \in moving' : Reached(h)'
      BY <2>2, <2>6, <2>7 DEF ChainInv
    <2>9. \A h \in Order : game'[h].phase # "lobby" \/ row'[h].phase # "lobby" => Reached(h)'
      BY <1>t, <2>2, <2>5, <2>7 DEF ChainInv, TypeOK
    <2>10. \A m \in saving' : m.data.phase # "lobby" => Reached(m.game)'
      BY <2>2, <2>5, <2>7 DEF ChainInv
    <2>11. Reached(current)'
      BY <2>2, <2>7 DEF ChainInv, Reached
    <2>12. \A s \in Socket : socket'[s].at \in {"binding", "bound"} => Reached(socket[s].game)'
      BY <2>2, <2>7 DEF ChainInv
    <2>13. QED BY <2>2, <2>4, <2>8, <2>9, <2>10, <2>11, <2>12 DEF ChainInv, Reached
  <1>7. ASSUME NEW g \in moving, SetCurrent(g) \/ SetCurrentFails(g)
        PROVE  ChainInv'
    <2>1. failures' \in 0 .. MaxFailures
      BY <1>t, <1>7, ChainAssumption DEF SetCurrent, SetCurrentFails, TypeOK
    <2>2. QED BY <1>t, <1>7, <2>1 DEF SetCurrent, SetCurrentFails, ChainInv, TypeOK, Reached
  <1>8. ASSUME NEW m \in saving, Save(m) \/ SaveFails(m)
        PROVE  ChainInv'
    <2>1. failures' \in 0 .. MaxFailures
      BY <1>t, <1>8, ChainAssumption DEF Save, SaveFails, TypeOK
    <2>2. QED BY <1>t, <1>8, <2>1 DEF Save, SaveFails, ChainInv, TypeOK, Reached
  <1>9. CASE Crash
    <2>1. Away \in Connection /\ Away.at \notin {"binding", "bound"}
      BY DEF Connection, Away
    <2>2. crashes' \in 0 .. MaxCrashes
      BY <1>t, <1>9, ChainAssumption DEF Crash, TypeOK
    <2>3. QED BY <1>t, <1>9, <2>1, <2>2 DEF Crash, ChainInv, TypeOK, Reached
  <1>10. CASE Restart
    BY <1>t, <1>10 DEF Restart, ChainInv, TypeOK, Reached
  <1>11. CASE UNCHANGED vars
    BY <1>11 DEF vars, ChainInv, TypeOK, Reached
  <1>12. QED
    BY <1>1, <1>2, <1>3, <1>4, <1>5, <1>6, <1>7, <1>8, <1>9, <1>10, <1>11 DEF Next

(* ChainInv holds in every reachable state. *)
THEOREM ChainInductive == Spec => []ChainInv
  BY ChainInvInit, ChainInvNext, PTL DEF Spec

(* The state has its type: no game past the last is ever made current. *)
THEOREM ChainTyped == Spec => []TypeOK
  <1>1. ChainInv => TypeOK
    BY DEF ChainInv
  <1>2. QED BY <1>1, ChainInductive, PTL

(* No game is skipped, after any number of crashes and in whatever order the
   forked transactions commit. *)
THEOREM GamesNotSkipped == Spec => []NoGameSkipped
  <1>1. ChainInv => NoGameSkipped
    BY DEF ChainInv, Reached, NoGameSkipped
  <1>2. QED BY <1>1, ChainInductive, PTL
-----------------------------------------------------------------------------
(* The order of play until the first crash. *)

(* The games before the current one are over, and it is the only one that can
   be played. *)
LEMMA CurrentInPlay ==
    ASSUME ChainInv, PlayedInOrder, crashes = 0
    PROVE  /\ \A g \in Order : g < current => game[g].phase = "over"
           /\ \A g \in Order : game[g].phase = "playing" => g = current
  <1>1. \A g \in Order : g < current => game[g].phase = "over"
    BY DEF ChainInv, Reached, PlayedInOrder
  <1>2. \A g \in Order : g < current \/ g = current \/ g > current
    BY DEF ChainInv, TypeOK, Order
  <1>3. \A g \in Order : game[g].phase = "playing" => g = current
    BY <1>1, <1>2 DEF PlayedInOrder
  <1>4. QED BY <1>1, <1>3

(* A socket's request changes no phase but that of the current game, which it
   may start. *)
LEMMA RequestInTurn ==
    ASSUME ChainInv, PlayedInOrder, crashes = 0, NEW s \in Socket, NEW flag \in BOOLEAN,
           socket[s].at = "bound", PlayerReady(socket[s].game, socket[s].player, flag)
    PROVE  /\ \A g \in Order : g # current => game'[g].phase = game[g].phase
           /\ game'[current].phase \in {game[current].phase, "playing"}
           /\ game[current].phase # "lobby" => game'[current].phase = game[current].phase
  <1> DEFINE g == socket[s].game
             d == SetReady(game[g], socket[s].player, flag)
  <1>1. g \in Order /\ socket[s].player \in Player /\ g <= current /\ current \in Order
    BY BoundSocket DEF PlayedInOrder, ChainInv, TypeOK
  <1>2. game \in [Order -> Data] /\ game' = [game EXCEPT ![g] = d]
    BY DEF ChainInv, TypeOK, PlayerReady
  <1>3. game[g].phase # "lobby" => d.phase = game[g].phase
    BY <1>1, <1>2, SetReadyData
  <1>4. d.phase \in {game[g].phase, "playing"}
    BY DEF SetReady
  <1>5. g # current => game[g].phase = "over"
    BY <1>1, CurrentInPlay DEF Order
  <1> HIDE DEF g, d
  <1>6. \A h \in Order : game'[h] = IF h = g THEN d ELSE game[h]
    BY <1>1, <1>2
  <1>7. QED BY <1>1, <1>3, <1>4, <1>5, <1>6

(* A step to a state without a crash is no crash, and no restart. *)
LEMMA UncrashedStep ==
    ASSUME ChainInv, PlayedInOrder, [Next]_vars, crashes' = 0
    PROVE  crashes = 0 /\ ~Crash /\ ~Restart
  <1>1. crashes' = crashes \/ crashes' = crashes + 1
    <2>1. Crash => crashes' = crashes + 1
      BY DEF Crash
    <2>2. ~Crash => crashes' = crashes
      BY DEF Next, vars, Connect, ReadCurrent, Bind, Ready, Disconnect, Stop,
             SetCurrent, SetCurrentFails, Save, SaveFails, Restart
    <2>3. QED BY <2>1, <2>2
  <1>2. crashes \in Nat
    BY DEF ChainInv, TypeOK
  <1>3. crashes = 0
    BY <1>1, <1>2
  <1>4. up
    BY <1>3 DEF PlayedInOrder
  <1>5. QED BY <1>2, <1>3, <1>4 DEF Crash, Restart

LEMMA PlayedInOrderInit == Init => PlayedInOrder
  BY DEF Init, PlayedInOrder, NewGame, Away

LEMMA PlayedInOrderNext == ChainInv /\ PlayedInOrder /\ [Next]_vars => PlayedInOrder'
  <1> SUFFICES ASSUME ChainInv, PlayedInOrder, [Next]_vars, crashes' = 0
               PROVE  PlayedInOrder'
    BY DEF PlayedInOrder
  <1>t. TypeOK
    BY DEF ChainInv
  <1>0. crashes = 0 /\ ~Crash /\ ~Restart
    BY UncrashedStep
  <1>p. /\ up
        /\ finished = {g \in Order : game[g].phase = "over"}
        /\ \A g \in Order : g > current => game[g].phase = "lobby"
        /\ \A g \in moving : g = current + 1 /\ game[current].phase = "over"
        /\ \A s \in Socket :
              socket[s].at \in {"binding", "bound"} => socket[s].game <= current
    BY <1>0 DEF PlayedInOrder
  <1>c. current \in Order /\ current \in Nat /\ current <= current
    BY <1>t DEF TypeOK, Order
  <1>1. ASSUME NEW s \in Socket, NEW p \in Player, Connect(s, p)
        PROVE  PlayedInOrder'
    BY <1>t, <1>p, <1>1 DEF Connect, PlayedInOrder, TypeOK
  <1>2. ASSUME NEW s \in Socket, ReadCurrent(s)
        PROVE  PlayedInOrder'
    BY <1>t, <1>p, <1>c, <1>2 DEF ReadCurrent, PlayedInOrder, TypeOK
  <1>3. ASSUME NEW s \in Socket, Bind(s)
        PROVE  PlayedInOrder'
    <2>1. \A r \in Socket : /\ r # s => socket'[r] = socket[r]
                            /\ socket'[s].game = socket[s].game
      BY <1>t, <1>3 DEF Bind, TypeOK, Connection
    <2>2. QED BY <1>p, <1>3, <2>1 DEF Bind, PlayedInOrder
  <1>4. ASSUME NEW s \in Socket, NEW flag \in BOOLEAN, socket[s].at = "bound",
               PlayerReady(socket[s].game, socket[s].player, flag),
               \A r \in Socket : socket'[r] = socket[r] \/ socket'[r] = Away,
               UNCHANGED <<row, current, moving, finished, up, crashes, failures>>
        PROVE  PlayedInOrder'
    <2>1. /\ \A g \in Order : g # current => game'[g].phase = game[g].phase
          /\ game'[current].phase \in {game[current].phase, "playing"}
          /\ game[current].phase # "lobby" => game'[current].phase = game[current].phase
      BY <1>0, <1>4, RequestInTurn
    <2>2. \A g \in Order : game'[g].phase = "over" <=> game[g].phase = "over"
      BY <1>c, <2>1
    <2>3. \A g \in Order : g > current => game'[g].phase = "lobby"
      BY <1>p, <1>c, <2>1 DEF Order
    <2>4. \A r \in Socket :
             socket'[r].at \in {"binding", "bound"} => socket'[r].game <= current
      BY <1>p, <1>4 DEF Away
    <2>5. QED BY <1>p, <1>c, <1>4, <2>2, <2>3, <2>4 DEF PlayedInOrder
  <1>5. ASSUME NEW s \in Socket, NEW flag \in BOOLEAN, Ready(s, flag)
        PROVE  PlayedInOrder'
    BY <1>4, <1>5 DEF Ready
  <1>6. ASSUME NEW s \in Socket, Disconnect(s)
        PROVE  PlayedInOrder'
    <2>1. /\ \A r \in Socket : socket'[r] = socket[r] \/ socket'[r] = Away
          /\ UNCHANGED <<row, current, moving, finished, up, crashes, failures>>
      BY <1>t, <1>6 DEF Disconnect, TypeOK
    <2>2. CASE socket[s].at = "bound"
      BY <1>4, <1>6, <2>1, <2>2 DEF Disconnect
    <2>3. CASE socket[s].at # "bound"
      <3>1. game' = game
        BY <1>6, <2>3 DEF Disconnect
      <3>2. \A r \in Socket :
               socket'[r].at \in {"binding", "bound"} => socket'[r].game <= current
        BY <1>p, <2>1 DEF Away
      <3>3. QED BY <1>p, <2>1, <3>1, <3>2 DEF PlayedInOrder
    <2>4. QED BY <2>2, <2>3
  <1>7. ASSUME NEW g \in Order, Stop(g)
        PROVE  PlayedInOrder'
    <2>1. g = current
      BY <1>0, <1>7, CurrentInPlay DEF Stop
    <2>2. /\ game'[g].phase = "over"
          /\ \A h \in Order : h # g => game'[h] = game[h]
      BY <1>t, <1>7 DEF Stop, TypeOK, Data
    <2>3. moving' \subseteq {current + 1}
      BY <1>p, <1>7, <2>1 DEF Stop, Following
    <2>4. finished' = {h \in Order : game'[h].phase = "over"}
      BY <1>p, <1>7, <2>2 DEF Stop
    <2>5. \A h \in Order : h > current => game'[h].phase = "lobby"
      BY <1>p, <1>c, <2>1, <2>2 DEF Order
    <2>6. QED BY <1>p, <1>7, <2>1, <2>2, <2>3, <2>4, <2>5 DEF Stop, PlayedInOrder
  <1>8. ASSUME NEW g \in moving, SetCurrent(g)
        PROVE  PlayedInOrder'
    <2>1. g = current + 1 /\ current' = g /\ moving' = {}
      BY <1>p, <1>8 DEF SetCurrent
    <2>2. \A s \in Socket :
             socket[s].at \in {"binding", "bound"} => socket[s].game \in Order
      BY <1>t DEF TypeOK, Connection, Away
    <2>3. \A h \in Order : h \in Nat
      BY DEF Order
    <2>4. \A h \in Order : h > current' => game[h].phase = "lobby"
      BY <1>p, <1>c, <2>1, <2>3
    <2>5. \A s \in Socket :
             socket[s].at \in {"binding", "bound"} => socket[s].game <= current'
      <3> SUFFICES ASSUME NEW s \in Socket, socket[s].at \in {"binding", "bound"}
                   PROVE  socket[s].game <= current'
        OBVIOUS
      <3>1. socket[s].game \in Nat /\ socket[s].game <= current
        BY <1>p, <2>2, <2>3
      <3>2. QED BY <1>c, <2>1, <3>1
    <2>6. QED BY <1>p, <1>8, <2>1, <2>4, <2>5 DEF SetCurrent, PlayedInOrder
  <1>9. ASSUME NEW g \in moving, SetCurrentFails(g)
        PROVE  PlayedInOrder'
    BY <1>p, <1>9 DEF SetCurrentFails, PlayedInOrder
  <1>10. ASSUME NEW m \in saving, Save(m) \/ SaveFails(m)
         PROVE  PlayedInOrder'
    BY <1>p, <1>10 DEF Save, SaveFails, PlayedInOrder
  <1>11. CASE UNCHANGED vars
    BY <1>p, <1>11 DEF vars, PlayedInOrder
  <1>12. QED
    BY <1>0, <1>1, <1>2, <1>3, <1>5, <1>6, <1>7, <1>8, <1>9, <1>10, <1>11 DEF Next

(* Until the first crash the games are played in order, whatever fails. *)
THEOREM GamesPlayedInOrder == Spec => []PlayedInOrder
  BY PlayedInOrderInit, PlayedInOrderNext, ChainInductive, PTL DEF Spec

(* Until the first crash one game is played at a time. *)
THEOREM OneGameAtATime == Spec => []OneGamePlayed
  <1>1. ChainInv /\ PlayedInOrder => OneGamePlayed
    BY CurrentInPlay DEF OneGamePlayed
  <1>2. QED BY <1>1, ChainInductive, GamesPlayedInOrder, PTL

(* Until the first crash the current game changes only to the next one, and
   only once it is over. *)
THEOREM PointerMovesForward == Spec => PointerForward
  <1>1. ChainInv /\ PlayedInOrder /\ [Next]_vars
           => [crashes = 0 /\ current' # current =>
                  current' = current + 1 /\ game[current].phase = "over"]_vars
    <2> SUFFICES ASSUME ChainInv, PlayedInOrder, Next, crashes = 0, current' # current
                 PROVE  current' = current + 1 /\ game[current].phase = "over"
      OBVIOUS
    <2>1. ASSUME NEW g \in moving, SetCurrent(g)
          PROVE  current' = current + 1 /\ game[current].phase = "over"
      BY <2>1 DEF SetCurrent, PlayedInOrder
    <2>2. QED
      BY <2>1 DEF Next, Connect, ReadCurrent, Bind, Ready, Disconnect, Stop,
                  SetCurrentFails, Save, SaveFails, Crash, Restart
  <1>2. QED
    BY <1>1, ChainInductive, GamesPlayedInOrder, PTL DEF Spec, PointerForward

-----------------------------------------------------------------------------
(* Ready players are connected. *)

(* A player's connection to a game, and what a request does to the flags. *)
Bound(p, g) == [at |-> "bound", player |-> p, game |-> g]

LEMMA BoundIs ==
    ASSUME TypeOK, NEW s \in Socket, socket[s].at = "bound"
    PROVE  socket[s] = Bound(socket[s].player, socket[s].game)
  BY DEF TypeOK, Connection, Away, Bound

LEMMA RequestReady ==
    ASSUME TypeOK, NEW g \in Order, NEW p \in Player, NEW flag \in BOOLEAN,
           PlayerReady(g, p, flag)
    PROVE  /\ \A h \in Order : h # g => game'[h].ready = game[h].ready
           /\ game'[g].ready = IF flag THEN game[g].ready \cup {p} ELSE game[g].ready \ {p}
  <1>1. game \in [Order -> Data] /\ game' = [game EXCEPT ![g] = SetReady(game[g], p, flag)]
    BY DEF TypeOK, PlayerReady
  <1>2. \A h \in Order :
           game'[h] = IF h = g THEN SetReady(game[g], p, flag) ELSE game[h]
    BY <1>1
  <1>3. SetReady(game[g], p, flag).ready
           = IF flag THEN game[g].ready \cup {p} ELSE game[g].ready \ {p}
    BY DEF SetReady
  <1>4. QED BY <1>2, <1>3

LEMMA ReadyNext == ChainInv /\ PlayedInOrder /\ ReadyIsConnected /\ [Next]_vars => ReadyIsConnected'
  <1> SUFFICES ASSUME ChainInv, PlayedInOrder, ReadyIsConnected, [Next]_vars, crashes' = 0,
                      NEW g \in Order, NEW p \in game'[g].ready
               PROVE  \E s \in Socket : socket'[s] = Bound(p, g)
    BY DEF ReadyIsConnected, Bound
  <1>t. TypeOK
    BY DEF ChainInv
  <1>0. crashes = 0 /\ ~Crash /\ ~Restart
    BY UncrashedStep
  <1>r. p \in game[g].ready => \E s \in Socket : socket[s] = Bound(p, g)
    BY <1>0 DEF ReadyIsConnected, Bound
  <1>1. ASSUME NEW r \in Socket, NEW q \in Player, Connect(r, q)
        PROVE  \E s \in Socket : socket'[s] = Bound(p, g)
    BY <1>t, <1>r, <1>1 DEF Connect, TypeOK, Bound, Away
  <1>2. ASSUME NEW r \in Socket, ReadCurrent(r)
        PROVE  \E s \in Socket : socket'[s] = Bound(p, g)
    BY <1>t, <1>r, <1>2 DEF ReadCurrent, TypeOK, Bound
  <1>3. ASSUME NEW r \in Socket, Bind(r)
        PROVE  \E s \in Socket : socket'[s] = Bound(p, g)
    BY <1>t, <1>r, <1>3 DEF Bind, TypeOK, Bound
  <1>4. ASSUME NEW r \in Socket, NEW flag \in BOOLEAN, Ready(r, flag)
        PROVE  \E s \in Socket : socket'[s] = Bound(p, g)
    <2> DEFINE q == socket[r].player
               h == socket[r].game
    <2>1. /\ socket[r] = Bound(q, h) /\ socket' = socket
          /\ h \in Order /\ q \in Player /\ PlayerReady(h, q, flag)
      BY <1>t, <1>4, BoundIs, BoundSocket DEF Ready
    <2> HIDE DEF q, h
    <2>2. p \in game[g].ready \/ (p = q /\ g = h)
      <3>1. g # h => game'[g].ready = game[g].ready
        BY <1>t, <2>1, RequestReady
      <3>2. game'[h].ready = IF flag THEN game[h].ready \cup {q} ELSE game[h].ready \ {q}
        BY <1>t, <2>1, RequestReady
      <3>3. QED BY <3>1, <3>2
    <2>3. QED BY <1>r, <2>1, <2>2
  <1>5. ASSUME NEW r \in Socket, Disconnect(r)
        PROVE  \E s \in Socket : socket'[s] = Bound(p, g)
    <2>1. \A s \in Socket : s # r => socket'[s] = socket[s]
      BY <1>t, <1>5 DEF Disconnect, TypeOK
    <2>2. CASE socket[r].at = "bound"
      <3> DEFINE q == socket[r].player
                 h == socket[r].game
      <3>1. /\ socket[r] = Bound(q, h)
            /\ h \in Order /\ q \in Player /\ PlayerReady(h, q, FALSE)
        BY <1>t, <1>5, <2>2, BoundIs, BoundSocket DEF Disconnect
      <3> HIDE DEF q, h
      <3>2. p \in game[g].ready /\ ~(p = q /\ g = h)
        <4>1. g # h => game'[g].ready = game[g].ready
          BY <1>t, <3>1, RequestReady
        <4>2. game'[h].ready = game[h].ready \ {q}
          BY <1>t, <3>1, RequestReady
        <4>3. QED BY <4>1, <4>2
      <3>3. socket[r] # Bound(p, g)
        BY <3>1, <3>2 DEF Bound
      <3>4. QED BY <1>r, <2>1, <3>2, <3>3
    <2>3. CASE socket[r].at # "bound"
      <3>1. game' = game
        BY <1>5, <2>3 DEF Disconnect
      <3>2. socket[r] # Bound(p, g)
        BY <2>3 DEF Bound
      <3>3. QED BY <1>r, <2>1, <3>1, <3>2
    <2>4. QED BY <2>2, <2>3
  <1>6. ASSUME NEW h \in Order, Stop(h)
        PROVE  \E s \in Socket : socket'[s] = Bound(p, g)
    <2>1. game'[g].ready = game[g].ready
      BY <1>t, <1>6 DEF Stop, TypeOK, Data
    <2>2. QED BY <1>r, <1>6, <2>1 DEF Stop
  <1>7. ASSUME UNCHANGED <<game, socket>>
        PROVE  \E s \in Socket : socket'[s] = Bound(p, g)
    BY <1>r, <1>7
  <1>8. QED
    BY <1>0, <1>1, <1>2, <1>3, <1>4, <1>5, <1>6, <1>7
       DEF Next, vars, SetCurrent, SetCurrentFails, Save, SaveFails

(* Until the first crash a player who is ready has a connection to the game. *)
THEOREM ReadyAreConnected == Spec => []ReadyIsConnected
  <1>1. Init => ReadyIsConnected
    BY DEF Init, ReadyIsConnected, NewGame
  <1>2. QED
    BY <1>1, ReadyNext, ChainInductive, GamesPlayedInOrder, PTL DEF Spec
-----------------------------------------------------------------------------
(* Without a crash the chain implements GameTurns. *)

LEMMA StepInTurn ==
    ASSUME ChainInv, PlayedInOrder, crashes = 0, crashes' = 0, [Next]_vars
    PROVE  [Turns!Next]_(Turns!vars)
  <1>t. TypeOK
    BY DEF ChainInv
  <1>0. ~Crash /\ ~Restart
    BY UncrashedStep
  <1>s. ASSUME current' = current, game'[current].phase = game[current].phase
        PROVE  UNCHANGED Turns!vars
    BY <1>s DEF Turns!vars
  <1>1. ASSUME NEW s \in Socket, NEW flag \in BOOLEAN, socket[s].at = "bound",
               PlayerReady(socket[s].game, socket[s].player, flag), current' = current
        PROVE  [Turns!Next]_(Turns!vars)
    <2>1. /\ game'[current].phase \in {game[current].phase, "playing"}
          /\ game[current].phase # "lobby" => game'[current].phase = game[current].phase
      BY <1>1, RequestInTurn
    <2>2. CASE game'[current].phase = game[current].phase
      BY <1>1, <1>s, <2>2
    <2>3. CASE game[current].phase = "lobby" /\ game'[current].phase = "playing"
      BY <1>1, <2>3 DEF Turns!Next, Turns!Begin
    <2>4. QED BY <2>1, <2>2, <2>3
  <1>2. ASSUME NEW s \in Socket, NEW flag \in BOOLEAN, Ready(s, flag)
        PROVE  [Turns!Next]_(Turns!vars)
    BY <1>1, <1>2 DEF Ready
  <1>3. ASSUME NEW s \in Socket, Disconnect(s)
        PROVE  [Turns!Next]_(Turns!vars)
    BY <1>1, <1>3, <1>s DEF Disconnect
  <1>4. ASSUME NEW g \in Order, Stop(g)
        PROVE  [Turns!Next]_(Turns!vars)
    <2>1. g = current
      BY <1>4, CurrentInPlay DEF Stop
    <2>2. game'[g].phase = "over" /\ game[g].phase = "playing" /\ current' = current
      BY <1>t, <1>4 DEF Stop, TypeOK, Data
    <2>3. QED BY <2>1, <2>2 DEF Turns!Next, Turns!End
  <1>5. ASSUME NEW g \in moving, SetCurrent(g)
        PROVE  [Turns!Next]_(Turns!vars)
    <2>1. /\ game' = game /\ current' = current + 1 /\ game[current].phase = "over"
          /\ current' \in Order /\ current \in Nat
      BY <1>t, <1>5 DEF SetCurrent, PlayedInOrder, TypeOK, Order
    <2>2. current < NumGames /\ game'[current'].phase = "lobby"
      BY <2>1, ChainAssumption DEF PlayedInOrder, Order
    <2>3. QED BY <2>1, <2>2 DEF Turns!Next, Turns!MoveOn
  <1>6. ASSUME UNCHANGED <<game, current>>
        PROVE  [Turns!Next]_(Turns!vars)
    BY <1>6, <1>s
  <1>7. QED
    BY <1>0, <1>2, <1>3, <1>4, <1>5, <1>6
       DEF Next, vars, Connect, ReadCurrent, Bind, SetCurrentFails, Save, SaveFails

(* While nothing crashes, the games of a session are played in turn: every
   behaviour of GameChain is one of GameTurns, whatever queries fail. *)
THEOREM TurnsImplemented == ASSUME MaxCrashes = 0 PROVE Spec => ImplementsTurns
  <1>1. Init => Turns!Init
    BY ChainAssumption DEF Init, Turns!Init, NewGame, Order
  <1>2. (ChainInv => crashes = 0) /\ (ChainInv' => crashes' = 0)
    BY DEF ChainInv, TypeOK
  <1>3. ChainInv /\ ChainInv' /\ PlayedInOrder /\ [Next]_vars => [Turns!Next]_(Turns!vars)
    BY <1>2, StepInTurn
  <1>4. QED
    BY <1>1, <1>3, ChainInductive, GamesPlayedInOrder, PTL
       DEF Spec, ImplementsTurns, Turns!Spec
=============================================================================
