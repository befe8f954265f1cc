------------------------- MODULE SessionStoreProofs -------------------------
(***************************************************************************)
(* Proofs about SessionStore: its type invariant and the progress of its   *)
(* requests, whatever interleaves and fails, and its safety invariants,    *)
(* while no query has failed and no two requests have been about one       *)
(* session.                                                                *)
(***************************************************************************)
EXTENDS SessionStore, FiniteSetTheorems, TLAPS

(* A query that fails leaves all as it is but the request's next step. *)
LEMMA TypeFails ==
    ASSUME TypeOK, NEW q \in Active, QueryFails(q)
    PROVE  TypeOK'
  <1>1. /\ UNCHANGED <<sessions, games, attacks, murmurs, memGames, container, recDir>>
        /\ UNCHANGED <<session, port, todo, game, creates, up, crashes, calm>>
        /\ \E step \in {"find", "rejected"} : pc' = [pc EXCEPT ![q] = step]
    BY DEF QueryFails, Reject, Goto, tables, voice, work, process
  <1>2. /\ pc' \in [Request -> {"idle"} \cup CreateSteps \cup RemoveSteps \cup Done]
        /\ \A r \in Request : r # q => pc'[r] = pc[r]
        /\ pc'[q] # "idle" /\ session[q] # None
    BY <1>1 DEF TypeOK, Active, RemoveSteps, Done
  <1> QED  BY <1>1, <1>2 DEF TypeOK

(* A step of a request sends it to a step of a request; a rejected one to the
   clean-up or to its end. *)
LEMMA TypeNext ==
    ASSUME TypeOK, [Next]_vars
    PROVE  TypeOK'
  <1> USE SessionAssumption
  <1> USE DEF TypeOK, tables, voice, work, process, At, Goto, CreateSteps, RemoveSteps, Done
  <1>1. ASSUME NEW q \in Request, NEW players \in Pair, NEW p \in Port,
               Create(q, players, p)
        PROVE  TypeOK'
    <2>1. \A id \in NewId : id \in Id
      BY DEF NewId, Id, SessionRow
    <2> QED  BY <1>1, <2>1 DEF Create, SessionRow, SessionAssumption
  <1>2. ASSUME NEW q \in Request, NEW s \in sessions, RequestRemove(q, s)
        PROVE  TypeOK'
    BY <1>2 DEF RequestRemove, SessionAssumption
  <1>3. ASSUME NEW q \in Request, InsertMurmur(q)  PROVE  TypeOK'
    BY <1>3 DEF InsertMurmur, Reject, SessionRow, MurmurRow
  <1>4. ASSUME NEW q \in Request, CreateRecDir(q)  PROVE  TypeOK'
    BY <1>4 DEF CreateRecDir, Reject
  <1>5. ASSUME NEW q \in Request, CreateContainer(q)  PROVE  TypeOK'
    BY <1>5 DEF CreateContainer, Reject, GameId
  <1>6. ASSUME NEW q \in Request, InsertGame(q)  PROVE  TypeOK'
    <2>1. CASE QueryFails(q)
      BY <1>6, <2>1, TypeFails DEF InsertGame, Active
    <2>2. CASE ~QueryFails(q)
      <3>1. /\ games' \subseteq GameRow
            /\ todo' \in [Request -> SUBSET GameId]
            /\ game' \in [Request -> GameId \cup {None}]
        <4>1. PICK id \in todo[q] :
                 /\ games' = games \cup {[gameId |-> id, sessionId |-> session[q].id,
                                   players |-> {session[q].players[1], session[q].players[2]}]}
                 /\ game' = [game EXCEPT ![q] = id]
                 /\ todo' = [todo EXCEPT ![q] = @ \ {id}]
          BY <1>6, <2>2 DEF InsertGame
        <4>2. session[q] \in SessionRow /\ id \in GameId
          BY <1>6 DEF InsertGame
        <4>3. [gameId |-> id, sessionId |-> session[q].id,
               players |-> {session[q].players[1], session[q].players[2]}] \in GameRow
          BY <4>2 DEF GameRow, SessionRow
        <4> QED  BY <4>1, <4>2, <4>3
      <3>2. pc' = [pc EXCEPT ![q] = "insertAttacks"]
        BY <1>6, <2>2 DEF InsertGame
      <3> QED  BY <1>6, <2>2, <3>1, <3>2 DEF InsertGame
    <2> QED  BY <2>1, <2>2
  <1>7. ASSUME NEW q \in Request, InsertAttacks(q)  PROVE  TypeOK'
    <2>1. CASE QueryFails(q)
      BY <1>7, <2>1, TypeFails DEF InsertAttacks, Active
    <2>2. session[q].id \in Id
      BY <1>7 DEF InsertAttacks, SessionRow
    <2>3. [gameId : {game[q]} \cap (Request \X Attacked), sessionId : {session[q].id}]
            \subseteq AttackRow
      BY <2>2 DEF AttackRow, GameId, SessionAssumption
    <2>4. CASE ~QueryFails(q)
      <3>1. attacks' \subseteq AttackRow
        BY <1>7, <2>3, <2>4 DEF InsertAttacks
      <3>2. \E step \in {"readGames", "insertGame"} : pc' = [pc EXCEPT ![q] = step]
        BY <1>7, <2>4 DEF InsertAttacks
      <3>3. session[q] # None
        BY <1>7 DEF InsertAttacks
      <3>4. UNCHANGED <<sessions, games, murmurs, memGames, voice, work, process>>
        BY <1>7, <2>4 DEF InsertAttacks
      <3> QED  BY <3>1, <3>2, <3>3, <3>4
    <2> QED  BY <2>1, <2>4
  <1>8. ASSUME NEW q \in Request, ReadGames(q)  PROVE  TypeOK'
    <2>1. CASE QueryFails(q)
      BY <1>8, <2>1, TypeFails DEF ReadGames, Active
    <2>2. CASE ~QueryFails(q)
      <3>1. IdsIn(RowsOf(session[q].id)) \subseteq GameId
        BY DEF IdsIn, RowsOf, GameRow
      <3>2. /\ todo' = [todo EXCEPT ![q] = IdsIn(RowsOf(session[q].id))]
            /\ pc' = [pc EXCEPT ![q] = "initGames"] /\ session[q] # None
            /\ UNCHANGED <<tables, memGames, voice, session, port, game, process>>
        BY <1>8, <2>2 DEF ReadGames
      <3> QED  BY <3>1, <3>2
    <2> QED  BY <2>1, <2>2
  <1>9. ASSUME NEW q \in Request, InitGames(q)  PROVE  TypeOK'
    BY <1>9 DEF InitGames, SetMemGames
  <1>10. ASSUME NEW q \in Request, ReadAttacks(q)  PROVE  TypeOK'
    <2>1. CASE QueryFails(q)
      BY <1>10, <2>1, TypeFails DEF ReadAttacks, Active
    <2>2. CASE ~QueryFails(q)
      <3>1. /\ \E step \in {"initMurmur", "initAttacks"} : pc' = [pc EXCEPT ![q] = step]
            /\ session[q] # None
            /\ UNCHANGED <<tables, memGames, voice, work, process>>
        BY <1>10, <2>2 DEF ReadAttacks
      <3> QED  BY <3>1
    <2> QED  BY <2>1, <2>2
  <1>11. ASSUME NEW q \in Request, InitAttacks(q)  PROVE  TypeOK'
    BY <1>11 DEF InitAttacks, Reject
  <1>12. ASSUME NEW q \in Request, InitMurmur(q)  PROVE  TypeOK'
    BY <1>12 DEF InitMurmur, Reject, MurmursOf, MurmurRow
  <1>28. ASSUME NEW q \in Request, OpenRecDir(q)  PROVE  TypeOK'
    BY <1>28 DEF OpenRecDir
  <1>13. ASSUME NEW q \in Request, StartContainer(q)  PROVE  TypeOK'
    BY <1>13 DEF StartContainer, Reject
  <1>14. ASSUME NEW q \in Request, Find(q)  PROVE  TypeOK'
    BY <1>14 DEF Find, SessionsOf, SessionAssumption
  <1>15. ASSUME NEW q \in Request, ReadRows(q)  PROVE  TypeOK'
    BY <1>15 DEF ReadRows, IdsIn, RowsOf, GameRow
  <1>16. ASSUME NEW q \in Request, CheckGames(q)  PROVE  TypeOK'
    BY <1>16 DEF CheckGames
  <1>17. ASSUME NEW q \in Request, DeleteGame(q)  PROVE  TypeOK'
    BY <1>17 DEF DeleteGame
  <1>18. ASSUME NEW q \in Request, DropGame(q)  PROVE  TypeOK'
    BY <1>18 DEF DropGame, RemoveMemGame
  <1>19. ASSUME NEW q \in Request, DeleteAttacks(q)  PROVE  TypeOK'
    BY <1>19 DEF DeleteAttacks
  <1>20. ASSUME NEW q \in Request, ReadMurmur(q)  PROVE  TypeOK'
    BY <1>20 DEF ReadMurmur, MurmursOf, MurmurRow
  <1>29. ASSUME NEW q \in Request, RemoveRecDir(q)  PROVE  TypeOK'
    BY <1>29 DEF RemoveRecDir
  <1>21. ASSUME NEW q \in Request, StopContainer(q)  PROVE  TypeOK'
    BY <1>21 DEF StopContainer
  <1>30. ASSUME NEW q \in Request, RemoveContainer(q)  PROVE  TypeOK'
    BY <1>30 DEF RemoveContainer
  <1>22. ASSUME NEW q \in Request, DeleteMurmur(q)  PROVE  TypeOK'
    BY <1>22 DEF DeleteMurmur
  <1>23. ASSUME NEW q \in Request, DeleteSession(q)  PROVE  TypeOK'
    BY <1>23 DEF DeleteSession
  <1>24. ASSUME NEW p \in Port, Record(p)  PROVE  TypeOK'
    BY <1>24 DEF Record
  <1>25. CASE Crash
    <2>1. crashes' \in 0 .. MaxCrashes
      BY <1>25 DEF Crash, SessionAssumption
    <2>2. /\ pc' \in [Request -> {"idle"} \cup Done \cup CreateSteps \cup RemoveSteps]
          /\ \A q \in Request : /\ pc'[q] = "idle" => pc[q] = "idle"
                                /\ pc'[q] \notin CreateSteps \cup RemoveSteps
      BY <1>25 DEF Crash, Active
    <2> HIDE DEF CreateSteps, RemoveSteps, Done
    <2> QED  BY <1>25, <2>1, <2>2 DEF Crash
  <1>26. CASE Restart
    BY <1>26 DEF Restart, IdsIn, GameRow
  <1>27. CASE UNCHANGED vars
    BY <1>27 DEF vars
  <1>31. CASE Disturb
    BY <1>31 DEF Disturb
  <1> QED
    BY <1>1, <1>2, <1>3, <1>4, <1>5, <1>6, <1>7, <1>8, <1>9, <1>10, <1>11, <1>12, <1>13,
       <1>14, <1>15, <1>16, <1>17, <1>18, <1>19, <1>20, <1>21, <1>22, <1>23, <1>24, <1>25,
       <1>26, <1>27, <1>28, <1>29, <1>30, <1>31 DEF Next, Step

(* Types: whatever the requests, however they interleave and whatever fails. *)
THEOREM TypeCorrect == Spec => []TypeOK
  <1>1. Init => TypeOK
    BY SessionAssumption DEF Init, TypeOK, SessionAssumption, CreateSteps, RemoveSteps
  <1>2. TypeOK /\ [Next]_vars => TypeOK'
    BY TypeNext
  <1> QED
    BY <1>1, <1>2, PTL DEF Spec

-----------------------------------------------------------------------------
(* Requests that overlap, no two about one session, on a database that is
   never locked. *)

(* A request in progress has its session to itself; the session is in the
   table, the only one there with its id or its port. *)
LEMMA Alone ==
    ASSUME StoreInv, NEW q \in Active
    PROVE  /\ up /\ q \in Request
           /\ \A r \in Active : r # q => session[r].id # session[q].id
           /\ session[q] \in sessions /\ session[q] \in SessionRow
           /\ \A t \in sessions : t # session[q] => /\ t.id # session[q].id
                                                    /\ t.port # session[q].port
           /\ Progress(q)
  <1>1. q \in Request /\ up /\ \A r \in Active : r # q => session[r].id # session[q].id
    BY DEF StoreInv, OnePerSession, Active
  <1>2. Progress(q)
    BY DEF StoreInv
  <1>3. session[q] \in sessions
    BY <1>2 DEF Progress, VoiceSteps
  <1> QED
    BY <1>1, <1>2, <1>3 DEF StoreInv, KeysUnique, TypeOK

(* What every step of a request has in common: it is a step of one in
   progress, moves no other, leaves every request its session, and rejects
   only at the end of the clean-up. *)
LEMMA StepFrame ==
    ASSUME calm, StoreInv, NEW q \in Request, Step(q)
    PROVE  /\ q \in Active
           /\ UNCHANGED <<session, process>>
           /\ \A r \in Request : r # q => /\ pc'[r] = pc[r] /\ game'[r] = game[r]
                                          /\ port'[r] = port[r] /\ todo'[r] = todo[r]
           /\ pc'[q] # "idle"
           /\ pc'[q] \in {"ok", "rejected"} => StartContainer(q) \/ DeleteSession(q)
           /\ pc'[q] = "rejected" => DeleteSession(q)
           /\ pc'[q] = "dropGame" => DeleteGame(q)
           /\ pc[q] = "dropGame" => DropGame(q)
           /\ pc'[q] \in LoadSteps => pc[q] \in LoadSteps
  <1>0. /\ pc \in [Request -> {"idle"} \cup CreateSteps \cup RemoveSteps \cup Done]
        /\ session \in [Request -> SessionRow \cup {None}]
        /\ game \in [Request -> GameId \cup {None}]
        /\ port \in [Request -> Port \cup {None}]
        /\ todo \in [Request -> SUBSET GameId]
    BY DEF StoreInv, TypeOK
  <1> USE <1>0 DEF At, Goto, Reject, QueryFails, Locked, tables, voice, work, process, LoadSteps,
                   CreateSteps, RemoveSteps
  <1>1. CASE InsertMurmur(q)
    BY <1>1 DEF InsertMurmur, Active
  <1>2. CASE CreateRecDir(q)
    BY <1>2 DEF CreateRecDir, Active
  <1>3. CASE CreateContainer(q)
    BY <1>3 DEF CreateContainer, Active
  <1>4. CASE InsertGame(q)
    BY <1>4 DEF InsertGame, Active
  <1>5. CASE InsertAttacks(q)
    BY <1>5 DEF InsertAttacks, Active
  <1>6. CASE ReadGames(q)
    BY <1>6 DEF ReadGames, Active
  <1>7. CASE InitGames(q)
    BY <1>7 DEF InitGames, Active
  <1>8. CASE ReadAttacks(q)
    BY <1>8 DEF ReadAttacks, Active
  <1>9. CASE InitAttacks(q)
    BY <1>9 DEF InitAttacks, Active
  <1>10. CASE InitMurmur(q)
    BY <1>10 DEF InitMurmur, Active
  <1>22. CASE OpenRecDir(q)
    BY <1>22 DEF OpenRecDir, Active
  <1>11. CASE StartContainer(q)
    BY <1>11 DEF StartContainer, Active
  <1>12. CASE Find(q)
    <2>1. q \in Active
      BY <1>12 DEF Find, Active
    <2>2. SessionsOf(session[q].id) = {session[q]}
      BY <2>1, Alone DEF SessionsOf
    <2>3. session' = [session EXCEPT ![q] = session[q]] /\ pc' = [pc EXCEPT ![q] = "readRows"]
      BY <1>12, <2>2 DEF Find
    <2> QED  BY <1>12, <2>1, <2>3 DEF Find, Active
  <1>13. CASE ReadRows(q)
    BY <1>13 DEF ReadRows, Active
  <1>14. CASE CheckGames(q)
    BY <1>14 DEF CheckGames, Active
  <1>15. CASE DeleteGame(q)
    BY <1>15 DEF DeleteGame, Active
  <1>16. CASE DropGame(q)
    BY <1>16 DEF DropGame, Active
  <1>17. CASE DeleteAttacks(q)
    BY <1>17 DEF DeleteAttacks, Active
  <1>18. CASE ReadMurmur(q)
    BY <1>18 DEF ReadMurmur, Active
  <1>23. CASE RemoveRecDir(q)
    BY <1>23 DEF RemoveRecDir, Active
  <1>19. CASE StopContainer(q)
    BY <1>19 DEF StopContainer, Active
  <1>24. CASE RemoveContainer(q)
    BY <1>24 DEF RemoveContainer, Active
  <1>20. CASE DeleteMurmur(q)
    BY <1>20 DEF DeleteMurmur, Active
  <1>21. CASE DeleteSession(q)
    BY <1>21 DEF DeleteSession, Active
  <1> QED
    BY <1>1, <1>2, <1>3, <1>4, <1>5, <1>6, <1>7, <1>8, <1>9, <1>10, <1>11, <1>12, <1>13,
       <1>14, <1>15, <1>16, <1>17, <1>18, <1>19, <1>20, <1>21, <1>22, <1>23, <1>24 DEF Step

(* The id of a new session is larger than every other. *)
LEMMA NewIds ==
    ASSUME TypeOK, NEW id \in NewId
    PROVE  id \in Id /\ SessionsOf(id) = {}
  <1>1. \A s \in sessions : s.id \in Nat \ {0}
    BY DEF TypeOK, SessionRow, Id
  <1>2. \A s \in sessions : s.id + 1 <= id
    BY DEF NewId
  <1>3. id \in Nat \ {0}
    BY <1>1 DEF NewId
  <1>4. \A s \in sessions : s.id # id
    BY <1>1, <1>2, <1>3
  <1> QED
    BY <1>3, <1>4 DEF SessionsOf, Id

(* Requests in progress keep apart until the crash that loses them. *)
LEMMA ApartNext ==
    ASSUME calm, StoreInv, [Next]_vars
    PROVE  OnePerSession'
  <1>0. TypeOK /\ OnePerSession
    BY DEF StoreInv
  <1>1. ASSUME NEW q \in Request, Step(q)  PROVE  OnePerSession'
    <2>1. /\ q \in Active /\ up /\ up' /\ session' = session
          /\ \A r \in Request : r # q => pc'[r] = pc[r]
      BY <1>1, StepFrame, Alone DEF process
    <2>2. Active' \subseteq Active
      BY <2>1 DEF Active
    <2> QED  BY <1>0, <2>1, <2>2 DEF OnePerSession
  <1>2. ASSUME NEW q \in Request, NEW players \in Pair, NEW p \in Port,
               Create(q, players, p)
        PROVE  OnePerSession'
    <2>1. /\ up' /\ \A r \in Request : r # q => pc'[r] = pc[r] /\ session'[r] = session[r]
      BY <1>0, <1>2 DEF Create, At, Goto, TypeOK
    <2>2. CASE pc'[q] = "rejected"
      <3>1. Active' \subseteq Active /\ \A r \in Active' : r # q
        BY <2>1, <2>2 DEF Active, CreateSteps, RemoveSteps
      <3> QED  BY <1>0, <2>1, <3>1 DEF OnePerSession, Active
    <2>3. CASE pc'[q] # "rejected"
      <3>1. session'[q].id \in NewId
        BY <1>0, <1>2, <2>3 DEF Create, Goto, TypeOK
      <3>2. \A r \in Active : session[r].id # session'[q].id
        BY <1>0, <3>1, Alone, NewIds DEF SessionsOf
      <3>3. \A r \in Active' : r = q \/ r \in Active
        BY <2>1 DEF Active
      <3> QED  BY <1>0, <2>1, <3>2, <3>3 DEF OnePerSession, Active
    <2> QED  BY <2>2, <2>3
  <1>3. ASSUME NEW q \in Request, NEW s \in sessions, RequestRemove(q, s)
        PROVE  OnePerSession'
    <2>1. /\ up' /\ session'[q] = s
          /\ \A r \in Request : r # q => pc'[r] = pc[r] /\ session'[r] = session[r]
          /\ \A r \in Active : session[r].id # s.id
      BY <1>0, <1>3 DEF RequestRemove, At, Goto, TypeOK, process, Overlapping
    <2>2. \A r \in Active' : r = q \/ r \in Active
      BY <2>1 DEF Active
    <2> QED  BY <1>0, <2>1, <2>2 DEF OnePerSession, Active
  <1>4. CASE Crash
    BY <1>4 DEF Crash, OnePerSession, Active, CreateSteps, RemoveSteps
  <1>5. CASE (\E p \in Port : Record(p)) \/ Restart \/ Disturb \/ UNCHANGED vars
    BY <1>0, <1>5 DEF Record, Restart, Disturb, vars, work, process, OnePerSession, Active
  <1> QED
    BY <1>1, <1>2, <1>3, <1>4, <1>5 DEF Next

LEMMA KeysNext ==
    ASSUME StoreInv, [Next]_vars
    PROVE  KeysUnique'
  <1>0. KeysUnique /\ TypeOK
    BY DEF StoreInv
  <1>1. ASSUME NEW q \in Request, NEW players \in Pair, NEW p \in Port,
               Create(q, players, p)
        PROVE  KeysUnique'
    <2>1. CASE UNCHANGED sessions
      BY <1>0, <2>1 DEF KeysUnique
    <2>2. CASE ~UNCHANGED sessions
      <3>1. Unique(players, p)
        BY <1>1, <2>2 DEF Create
      <3>2. PICK id \in NewId :
               sessions' = sessions \cup {[id |-> id, players |-> players, port |-> p]}
        BY <1>1, <2>2 DEF Create
      <3>3. \A t \in sessions : t.id # id /\ t.port # p
        BY <1>0, <3>1, NewIds DEF Unique, SessionsOf
      <3> QED  BY <1>0, <3>2, <3>3 DEF KeysUnique
    <2> QED  BY <2>1, <2>2
  <1>2. ASSUME sessions' \subseteq sessions
        PROVE  KeysUnique'
    BY <1>0, <1>2 DEF KeysUnique
  <1>3. ASSUME NEW q \in Request, DeleteSession(q)  PROVE  KeysUnique'
    BY <1>2, <1>3 DEF DeleteSession
  <1>4. ASSUME NEW q \in Request, Step(q), ~DeleteSession(q)  PROVE  KeysUnique'
    <2>1. UNCHANGED sessions
      BY <1>4 DEF Step, InsertMurmur, CreateRecDir, CreateContainer, InsertGame,
         InsertAttacks, ReadGames, InitGames, ReadAttacks, InitAttacks, InitMurmur,
         OpenRecDir, StartContainer, Find, ReadRows, CheckGames, DeleteGame, DropGame,
         DeleteAttacks, ReadMurmur, RemoveRecDir, StopContainer, RemoveContainer,
         DeleteMurmur, QueryFails, tables
    <2> QED  BY <1>2, <2>1
  <1>5. CASE Crash \/ Restart \/ Disturb \/ UNCHANGED vars
    BY <1>2, <1>5 DEF Crash, Restart, Disturb, vars, tables
  <1>6. ASSUME NEW p \in Port, Record(p)  PROVE  KeysUnique'
    BY <1>2, <1>6 DEF Record, tables
  <1>7. ASSUME NEW q \in Request, NEW s \in sessions, RequestRemove(q, s)
        PROVE  KeysUnique'
    BY <1>2, <1>7 DEF RequestRemove, tables
  <1> QED
    BY <1>1, <1>3, <1>4, <1>5, <1>6, <1>7 DEF Next

(* What a game row is. *)
LEMMA RowTypes ==
    ASSUME StoreInv
    PROVE  /\ \A g \in games : g.gameId \in GameId /\ g.gameId[1] \in Request
           /\ \A s \in sessions : s \in SessionRow /\ s.id \in Id /\ s.port \in Port
           /\ \A m \in murmurs : m.port \in Port
  BY DEF StoreInv, TypeOK, GameRow, GameId, SessionRow, MurmurRow

(* Rows that go leave the others fitting. *)
LEMMA RowsShrink ==
    ASSUME StoreInv, UNCHANGED <<sessions, session, creates>>,
           games' \subseteq games, attacks' \subseteq attacks, murmurs' \subseteq murmurs,
           \A r \in Request : pc'[r] = "rejected" => pc[r] = "rejected"
    PROVE  RowsFit'
  <1>1. RowsFit
    BY DEF StoreInv
  <1>2. RowsOwned'
    BY <1>1 DEF RowsFit, RowsOwned, SessionsOf
  <1> QED
    BY <1>1, <1>2, RowTypes DEF RowsFit, SessionsOf

LEMMA RowsFitNext ==
    ASSUME calm, StoreInv, [Next]_vars
    PROVE  RowsFit'
  <1>0. RowsFit /\ RowsOwned /\ TypeOK
    BY DEF StoreInv, RowsFit
  <1>1. ASSUME NEW q \in Request, Step(q)  PROVE  RowsFit'
    <2> DEFINE s == session[q]
    <2>0. /\ q \in Active /\ UNCHANGED <<session, creates>>
          /\ \A r \in Request : r # q => pc'[r] = pc[r]
          /\ pc'[q] = "rejected" => DeleteSession(q)
      BY <1>1, StepFrame DEF process
    <2>1. /\ s \in sessions /\ s # None
          /\ \A t \in sessions : t # s => t.id # s.id /\ t.port # s.port
      BY <2>0, Alone, SessionAssumption DEF SessionAssumption
    <2>2. CASE InsertMurmur(q)
      <3>1. /\ UNCHANGED <<sessions, games, attacks>>
            /\ murmurs' \subseteq murmurs \cup {[sessionId |-> s.id, port |-> s.port]}
            /\ pc'[q] # "rejected"
        BY <2>0, <2>2 DEF InsertMurmur, DeleteSession, At
      <3>2. RowsOwned'
        BY <1>0, <2>1, <3>1 DEF RowsOwned, SessionsOf
      <3>3. \A m \in murmurs' : \A t \in SessionsOf(m.sessionId)' : t.port = m.port
        BY <1>0, <2>1, <3>1 DEF RowsFit, SessionsOf
      <3> QED  BY <1>0, <2>0, <3>1, <3>2, <3>3, RowTypes DEF RowsFit, SessionsOf
    <2>3. CASE InsertGame(q)
      <3>1. PICK id \in todo[q] :
               games' = games \cup {[gameId |-> id, sessionId |-> s.id,
                                     players |-> {s.players[1], s.players[2]}]}
        BY <2>3 DEF InsertGame, QueryFails, Locked
      <3>2. UNCHANGED <<sessions, attacks, murmurs>> /\ pc'[q] # "rejected"
        BY <2>0, <2>3 DEF InsertGame, QueryFails, Locked, DeleteSession, At
      <3>3. id[1] = q /\ q \in creates /\ pc[q] = "insertGame"
        BY <2>0, <2>3, Alone DEF InsertGame, At, Progress, VoiceSteps, CreateSteps
      <3>4. RowsOwned'
        BY <1>0, <2>1, <3>1, <3>2 DEF RowsOwned, SessionsOf
      <3>5. ASSUME NEW g \in games'
            PROVE  /\ session[g.gameId[1]] # None /\ g.sessionId = session[g.gameId[1]].id
                   /\ g.gameId[1] \in creates /\ pc'[g.gameId[1]] # "rejected"
                   /\ \A t \in SessionsOf(g.sessionId) : g.players = {t.players[1], t.players[2]}
        <4>1. CASE g \in games
          BY <1>0, <2>0, <3>2, <4>1, RowTypes DEF RowsFit
        <4>2. CASE g \notin games
          BY <2>1, <3>1, <3>2, <3>3, <4>2 DEF SessionsOf
        <4> QED  BY <4>1, <4>2
      <3> QED  BY <1>0, <2>0, <3>2, <3>4, <3>5 DEF RowsFit, SessionsOf
    <2>4. CASE InsertAttacks(q)
      <3>1. /\ UNCHANGED <<sessions, games, murmurs>>
            /\ \A a \in attacks' : a \in attacks \/ a.sessionId = s.id
            /\ pc'[q] # "rejected"
        BY <2>0, <2>4 DEF InsertAttacks, QueryFails, Locked, DeleteSession, At
      <3>2. RowsOwned'
        BY <1>0, <2>1, <3>1 DEF RowsOwned, SessionsOf
      <3> QED  BY <1>0, <2>0, <3>1, <3>2, RowTypes DEF RowsFit, SessionsOf
    <2>5. CASE DeleteSession(q)
      <3>1. /\ sessions' = sessions \ {s} /\ UNCHANGED <<games, attacks, murmurs>>
            /\ pc[q] = "deleteSession"
        <4>1. SessionsOf(s.id) = {s}
          BY <2>1 DEF SessionsOf
        <4> QED  BY <2>5, <4>1 DEF DeleteSession, Locked, At
      <3>2. \A row \in games \cup attacks \cup murmurs : row.sessionId # s.id
        <4>1. IdsIn(RowsOf(s.id)) = {} /\ IdsIn(AttacksOf(s.id)) = {} /\ MurmursOf(s.id) = {}
          BY <2>0, <3>1, Alone DEF Progress, VoiceSteps
        <4>2. \A g \in games : g.sessionId # s.id
          BY <4>1 DEF IdsIn, RowsOf
        <4>3. \A a \in attacks : a.sessionId # s.id
          BY <4>1 DEF IdsIn, AttacksOf
        <4> QED  BY <4>1, <4>2, <4>3 DEF MurmursOf
      <3>3. RowsOwned'
        BY <1>0, <2>1, <3>1, <3>2 DEF RowsOwned, SessionsOf
      <3>4. \A g \in games : g.gameId[1] # q
        BY <1>0, <3>2 DEF RowsFit
      <3> QED  BY <1>0, <2>0, <3>1, <3>3, <3>4, RowTypes DEF RowsFit, SessionsOf
    <2>6. CASE ~(InsertMurmur(q) \/ InsertGame(q) \/ InsertAttacks(q) \/ DeleteSession(q))
      <3>1. /\ UNCHANGED sessions /\ games' \subseteq games
            /\ attacks' \subseteq attacks /\ murmurs' \subseteq murmurs
        BY <1>1, <2>6 DEF Step, CreateRecDir, CreateContainer, ReadGames, InitGames,
           ReadAttacks, InitAttacks, InitMurmur, OpenRecDir, StartContainer, Find, ReadRows,
           CheckGames, DeleteGame, DropGame, DeleteAttacks, ReadMurmur, RemoveRecDir,
           StopContainer, RemoveContainer, DeleteMurmur, QueryFails, tables
      <3> QED  BY <2>0, <2>6, <3>1, RowsShrink
    <2> QED  BY <2>2, <2>3, <2>4, <2>5, <2>6
  <1>2. ASSUME NEW q \in Request, NEW players \in Pair, NEW p \in Port,
               Create(q, players, p)
        PROVE  RowsFit'
    <2>1. /\ UNCHANGED <<games, attacks, murmurs>> /\ creates \subseteq creates'
          /\ pc[q] = "idle" /\ \A r \in Request : r # q => pc'[r] = pc[r] /\ session'[r] = session[r]
      BY <1>0, <1>2 DEF Create, At, Goto, TypeOK
    <2>2. \A t \in sessions' : t \in sessions \/ SessionsOf(t.id) = {}
      BY <1>0, <1>2, NewIds DEF Create
    <2>3. sessions \subseteq sessions'
      BY <1>2 DEF Create
    <2>4. RowsOwned'
      BY <1>0, <2>1, <2>3 DEF RowsOwned, SessionsOf
    <2>5. \A g \in games : g.gameId[1] # q
      BY <1>0, <2>1 DEF RowsFit, TypeOK
    <2>6. \A row \in games \cup murmurs : SessionsOf(row.sessionId)' = SessionsOf(row.sessionId)
      BY <1>0, <2>2, <2>3 DEF RowsOwned, SessionsOf
    <2> QED  BY <1>0, <2>1, <2>4, <2>5, <2>6, RowTypes DEF RowsFit
  <1>3. ASSUME NEW q \in Request, NEW s \in sessions, RequestRemove(q, s)
        PROVE  RowsFit'
    <2>1. /\ UNCHANGED <<tables, creates>>
          /\ pc[q] = "idle" /\ \A r \in Request : r # q => pc'[r] = pc[r] /\ session'[r] = session[r]
      BY <1>0, <1>3 DEF RequestRemove, At, Goto, TypeOK, process
    <2>2. \A g \in games : g.gameId[1] # q
      BY <1>0, <2>1 DEF RowsFit, TypeOK
    <2> QED  BY <1>0, <2>1, <2>2, RowTypes DEF RowsFit, RowsOwned, SessionsOf, tables
  <1>4. CASE Crash \/ Restart \/ Disturb \/ UNCHANGED vars
    BY <1>4, RowsShrink DEF Crash, Restart, Disturb, vars, tables, work, process
  <1>5. ASSUME NEW p \in Port, Record(p)  PROVE  RowsFit'
    BY <1>5, RowsShrink DEF Record, tables, work, process
  <1> QED
    BY <1>1, <1>2, <1>3, <1>4, <1>5 DEF Next

(* The games a request in progress has made are rows of its session. *)
LEMMA OwnGames ==
    ASSUME StoreInv, NEW q \in Active, NEW g \in games, g.gameId[1] = q
    PROVE  g.gameId \in IdsIn(RowsOf(session[q].id))
  BY DEF StoreInv, RowsFit, IdsIn, RowsOf

(* What one request drops from memory is of no session another one works on. *)
LEMMA DroppedApart ==
    ASSUME StoreInv, NEW q \in Active, NEW r \in Request, r # q, pc[r] = "dropGame"
    PROVE  /\ game[r] \in GameId /\ game[r][1] \in Request /\ game[r][1] # q
           /\ session[game[r][1]] # None /\ session[game[r][1]].id # session[q].id
           /\ game[r] \notin IdsIn(games)
           /\ ~(game[r][1] \in creates /\ pc[game[r][1]] = "rejected")
  <1>1. r \in Active
    BY DEF Active, RemoveSteps
  <1>2. session[game[r][1]] # None /\ session[game[r][1]].id # session[q].id
    <2>1. Progress(r) /\ session[r].id # session[q].id
      BY <1>1, Alone
    <2> QED  BY <2>1 DEF Progress
  <1>3. game[r] \in Dropping
    BY DEF Dropping
  <1>4. game[r] \in memGames /\ up
    BY <1>1, <1>3, Alone DEF StoreInv, MemoryFits
  <1> QED
    BY <1>2, <1>3, <1>4 DEF StoreInv, MemoryFits, TypeOK, GameId

(* Memory when what is loaded and what is dropped are as before. *)
LEMMA MemoryKept ==
    ASSUME StoreInv, up, up', UNCHANGED memGames,
           IdsIn(games)' \ Unloaded' = IdsIn(games) \ Unloaded, Dropping' = Dropping,
           \A id \in Dropping : /\ id \notin IdsIn(games)'
                                /\ ~(id[1] \in creates' /\ pc'[id[1]] = "rejected")
    PROVE  MemoryFits'
  BY DEF StoreInv, MemoryFits

LEMMA MemoryStep ==
    ASSUME calm, StoreInv, NEW q \in Request, Step(q)
    PROVE  MemoryFits'
  <1> DEFINE s == session[q]
  <1> DEFINE rest == {game[r] : r \in {x \in Request : x # q /\ pc[x] = "dropGame"}}
  <1>0. /\ q \in Active /\ up /\ up' /\ UNCHANGED <<session, creates>>
        /\ \A r \in Request : r # q => pc'[r] = pc[r] /\ game'[r] = game[r]
        /\ pc'[q] = "dropGame" => DeleteGame(q)
        /\ pc[q] = "dropGame" => DropGame(q)
        /\ pc'[q] \in LoadSteps => pc[q] \in LoadSteps
    BY StepFrame, Alone DEF process
  <1>1. /\ \A id \in GameId : id[1] # q => (id \in Unloaded' <=> id \in Unloaded)
        /\ \A id \in GameId : id[1] = q => /\ id \in Unloaded <=> pc[q] \in LoadSteps
                                           /\ id \in Unloaded' <=> pc'[q] \in LoadSteps
        /\ Unloaded \subseteq GameId /\ Unloaded' \subseteq GameId
    BY <1>0 DEF Unloaded, GameId
  <1>2. /\ Dropping = IF pc[q] = "dropGame" THEN rest \cup {game[q]} ELSE rest
        /\ Dropping' = IF pc'[q] = "dropGame" THEN rest \cup {game'[q]} ELSE rest
    BY <1>0 DEF Dropping
  <1>3. \A id \in rest : /\ id \in GameId /\ id[1] # q
                         /\ session[id[1]] # None /\ session[id[1]].id # s.id
                         /\ id \notin IdsIn(games)
                         /\ ~(id[1] \in creates' /\ pc'[id[1]] = "rejected")
    BY <1>0, DroppedApart
  <1>4. MemoryFits /\ memGames = (IdsIn(games) \ Unloaded) \cup Dropping
    BY <1>0 DEF StoreInv, MemoryFits
  <1>5. IdsIn(games) \subseteq GameId
    BY RowTypes DEF IdsIn
  <1> HIDE DEF rest
  <1>6. CASE InitGames(q)
    <2>1. /\ memGames' = memGames \cup todo[q] /\ games' = games
          /\ pc[q] = "initGames" /\ pc'[q] = "readAttacks"
      BY <1>6 DEF InitGames, SetMemGames, At, Goto, tables, StoreInv, TypeOK
    <2>2. todo[q] = IdsIn(RowsOf(s.id)) /\ todo[q] = {q} \X Order
      BY <1>0, <2>1, Alone DEF Progress, VoiceSteps
    <2>3. todo[q] \subseteq IdsIn(games) /\ \A id \in todo[q] : id[1] = q
      BY <2>2 DEF IdsIn, RowsOf
    <2>4. \A id \in IdsIn(games) : id[1] = q => id \in todo[q]
      BY <1>0, <2>2, OwnGames DEF IdsIn
    <2>5. Dropping = rest /\ Dropping' = rest /\ IdsIn(games)' = IdsIn(games)
      BY <1>2, <2>1 DEF IdsIn
    <2>6. IdsIn(games)' \ Unloaded' = (IdsIn(games) \ Unloaded) \cup todo[q]
      BY <1>1, <1>5, <2>1, <2>3, <2>4, <2>5 DEF LoadSteps
    <2> QED  BY <1>0, <1>3, <1>4, <2>1, <2>5, <2>6 DEF MemoryFits
  <1>7. CASE pc[q] \in LoadSteps /\ ~InitGames(q)
    <2>1. memGames' = memGames /\ Dropping = rest /\ Dropping' = rest
      <3>1. memGames' = memGames /\ pc'[q] # "dropGame"
        BY <1>0, <1>7 DEF Step, InsertMurmur, CreateRecDir, CreateContainer, InsertGame,
           InsertAttacks, ReadGames, ReadAttacks, InitAttacks, InitMurmur, OpenRecDir,
           StartContainer, Find, ReadRows, CheckGames, DeleteGame, DropGame, DeleteAttacks,
           ReadMurmur, RemoveRecDir, StopContainer, RemoveContainer, DeleteMurmur,
           DeleteSession, QueryFails, At, LoadSteps
      <3> QED  BY <1>2, <1>7, <3>1 DEF LoadSteps
    <2>2. /\ IdsIn(games)' \ Unloaded' = IdsIn(games) \ Unloaded
          /\ \A id \in rest : id \notin IdsIn(games)'
      <3>1. CASE InsertGame(q)
        <4>1. PICK id \in todo[q] : games' = games \cup
                 {[gameId |-> id, sessionId |-> session[q].id,
                   players |-> {session[q].players[1], session[q].players[2]}]}
          BY <3>1 DEF InsertGame, QueryFails, Locked
        <4>2. id[1] = q /\ id \in GameId /\ pc[q] = "insertGame" /\ pc'[q] = "insertAttacks"
          <5>1. pc[q] = "insertGame" /\ pc'[q] = "insertAttacks"
            BY <3>1 DEF InsertGame, At, Goto, QueryFails, Locked, StoreInv, TypeOK
          <5>2. todo[q] \subseteq {q} \X Order
            BY <1>0, <5>1, Alone DEF Progress, VoiceSteps
          <5> QED  BY <5>1, <5>2 DEF GameId
        <4>3. Unloaded' = Unloaded /\ id \in Unloaded
          BY <1>1, <4>2 DEF LoadSteps
        <4>4. IdsIn(games)' = IdsIn(games) \cup {id}
          <5> DEFINE row == [gameId |-> id, sessionId |-> session[q].id,
                             players |-> {session[q].players[1], session[q].players[2]}]
          <5>1. row.gameId = id /\ games' = games \cup {row}
            BY <4>1
          <5> HIDE DEF row
          <5> QED  BY <5>1 DEF IdsIn
        <4> QED  BY <1>3, <4>2, <4>3, <4>4
      <3>2. CASE ~InsertGame(q)
        <4>1. /\ games' = games
              /\ \/ pc'[q] \in LoadSteps
                 \/ pc[q] \in {"insertMurmur", "createRecDir", "createContainer"}
          BY <1>0, <1>7, <3>2 DEF Step, InsertMurmur, CreateRecDir, CreateContainer,
             InsertAttacks, ReadGames, ReadAttacks, InitAttacks, InitMurmur, OpenRecDir,
             StartContainer, Find, ReadRows, CheckGames, DeleteGame, DropGame, DeleteAttacks,
             ReadMurmur, RemoveRecDir, StopContainer, RemoveContainer, DeleteMurmur,
             DeleteSession, QueryFails, Locked, At, Goto, LoadSteps, tables, StoreInv, TypeOK
        <4>2. IdsIn(games)' = IdsIn(games)
          BY <4>1 DEF IdsIn
        <4>3. CASE pc'[q] \in LoadSteps
          <5>1. Unloaded' = Unloaded
            BY <1>1, <1>7, <4>3
          <5> QED  BY <1>3, <4>2, <5>1
        <4>4. CASE pc[q] \in {"insertMurmur", "createRecDir", "createContainer"}
          <5>1. IdsIn(RowsOf(s.id)) = {}
            BY <1>0, <4>4, Alone DEF Progress, VoiceSteps
          <5>2. \A id \in IdsIn(games) : id[1] # q
            BY <1>0, <5>1, OwnGames DEF IdsIn
          <5> QED  BY <1>1, <1>3, <1>5, <4>2, <5>2
        <4> QED  BY <4>1, <4>3, <4>4
      <3> QED  BY <3>1, <3>2
    <2> QED  BY <1>0, <1>3, <2>1, <2>2, MemoryKept
  <1>8. CASE DeleteGame(q)
    <2>1. PICK id \in todo[q] :
             /\ games' = {g \in games : g.gameId # id} /\ game'[q] = id
             /\ memGames' = memGames /\ pc[q] = "deleteGame" /\ pc'[q] = "dropGame"
      BY <1>8 DEF DeleteGame, At, Goto, Locked, StoreInv, TypeOK
    <2>2. IdsIn(games)' = IdsIn(games) \ {id}
      BY <2>1 DEF IdsIn
    <2>3. PICK g \in games : g.gameId = id /\ g.sessionId = s.id
      <3>1. id \in IdsIn(RowsOf(s.id))
        BY <1>0, <2>1, Alone DEF Progress, VoiceSteps
      <3> QED  BY <3>1 DEF IdsIn, RowsOf
    <2>4. /\ id[1] \in Request /\ session[id[1]].id = s.id
          /\ ~(id[1] \in creates /\ pc[id[1]] = "rejected")
      BY <2>3, RowTypes DEF StoreInv, RowsFit
    <2>5. id \notin Unloaded
      <3>1. pc[id[1]] \notin LoadSteps
        BY <1>0, <2>1, <2>4, Alone DEF Active, LoadSteps, CreateSteps, RemoveSteps
      <3> QED  BY <3>1 DEF Unloaded
    <2>6. Unloaded' = Unloaded /\ Dropping = rest /\ Dropping' = rest \cup {id}
      BY <1>1, <1>2, <2>1 DEF LoadSteps
    <2>7. id \in IdsIn(games)
      BY <2>3 DEF IdsIn
    <2>8. ~(id[1] \in creates' /\ pc'[id[1]] = "rejected")
      BY <1>0, <2>1, <2>4
    <2>9. memGames' = (IdsIn(games)' \ Unloaded') \cup Dropping'
      BY <1>4, <2>1, <2>2, <2>5, <2>6, <2>7
    <2>10. \A i \in Dropping' : i \notin IdsIn(games)' /\ ~(i[1] \in creates' /\ pc'[i[1]] = "rejected")
      BY <1>3, <2>2, <2>6, <2>8
    <2> QED  BY <1>0, <2>9, <2>10 DEF MemoryFits
  <1>9. CASE DropGame(q)
    <2>1. /\ games' = games /\ pc[q] = "dropGame"
          /\ RemoveMemGame(game[q]) /\ pc'[q] \in {"deleteAttacks", "deleteGame"}
      BY <1>9 DEF DropGame, At, Goto, tables, StoreInv, TypeOK
    <2>2. /\ Unloaded' = Unloaded /\ Dropping = rest \cup {game[q]} /\ Dropping' = rest
      BY <1>1, <1>2, <2>1 DEF LoadSteps
    <2>3. game[q] \in memGames /\ game[q] \notin IdsIn(games)
      BY <1>4, <2>2 DEF MemoryFits
    <2>4. game[q] \notin rest
      <3>1. session[game[q][1]].id = s.id
        BY <1>0, <2>1, Alone DEF Progress, VoiceSteps
      <3> QED  BY <1>3, <3>1
    <2>5. memGames' = memGames \ {game[q]}
      BY <2>1, <2>3 DEF RemoveMemGame
    <2>6. IdsIn(games)' = IdsIn(games)
      BY <2>1 DEF IdsIn
    <2> QED  BY <1>0, <1>3, <1>4, <2>2, <2>3, <2>4, <2>5, <2>6 DEF MemoryFits
  <1>10. CASE ~(InitGames(q) \/ DeleteGame(q) \/ DropGame(q)) /\ pc[q] \notin LoadSteps
    <2>1. UNCHANGED <<memGames, games>>
      BY <1>10 DEF Step, InsertMurmur, CreateRecDir, CreateContainer, InsertGame,
         InsertAttacks, ReadGames, ReadAttacks, InitAttacks, InitMurmur, OpenRecDir,
         StartContainer, Find, ReadRows, CheckGames, DeleteAttacks, ReadMurmur, RemoveRecDir,
         StopContainer, RemoveContainer, DeleteMurmur, DeleteSession, At, LoadSteps, tables,
         QueryFails, Locked
    <2>2. Dropping = rest /\ Dropping' = rest /\ Unloaded' = Unloaded
      BY <1>0, <1>1, <1>2, <1>10
    <2>3. IdsIn(games)' = IdsIn(games)
      BY <2>1 DEF IdsIn
    <2> QED  BY <1>0, <1>3, <2>1, <2>2, <2>3, MemoryKept
  <1> QED
    BY <1>6, <1>7, <1>8, <1>9, <1>10

LEMMA MemoryNext ==
    ASSUME calm, StoreInv, [Next]_vars
    PROVE  MemoryFits'
  <1>0. MemoryFits /\ RowsFit /\ TypeOK
    BY DEF StoreInv
  (* A request that starts: it has no games, and drops none. *)
  <1>1. ASSUME NEW q \in Request, pc[q] = "idle", pc'[q] \in {"insertMurmur", "rejected", "find"},
               up, up', UNCHANGED <<memGames, games, game>>, creates' \subseteq creates \cup {q},
               \A r \in Request : r # q => pc'[r] = pc[r]
        PROVE  MemoryFits'
    <2>1. Dropping' = Dropping
      BY <1>1 DEF Dropping
    <2>2. \A id \in IdsIn(games) : id[1] # q
      BY <1>0, <1>1 DEF RowsFit, TypeOK, IdsIn
    <2>3. IdsIn(games)' \ Unloaded' = IdsIn(games) \ Unloaded
      <3>1. \A id \in IdsIn(games) : id \in Unloaded' <=> id \in Unloaded
        BY <1>1, <2>2 DEF Unloaded, GameId
      <3> QED  BY <1>1, <3>1 DEF IdsIn
    <2>4. \A id \in Dropping : /\ id \in GameId /\ id \notin IdsIn(games)
                               /\ ~(id[1] \in creates /\ pc[id[1]] = "rejected")
      BY <1>0, <1>1 DEF MemoryFits, TypeOK
    <2>5. \A id \in Dropping : id[1] # q
      <3>1. SUFFICES ASSUME NEW r \in Request, pc[r] = "dropGame"  PROVE  game[r][1] # q
        BY DEF Dropping
      <3>2. session[game[r][1]] # None
        BY <3>1, Alone DEF Active, RemoveSteps, Progress, VoiceSteps
      <3> QED  BY <1>0, <1>1, <3>2 DEF TypeOK
    <2>6. \A id \in Dropping : /\ id \notin IdsIn(games)'
                               /\ ~(id[1] \in creates' /\ pc'[id[1]] = "rejected")
      BY <1>1, <2>4, <2>5 DEF GameId, IdsIn
    <2> QED  BY <1>1, <2>1, <2>3, <2>6, MemoryKept
  <1>2. ASSUME NEW q \in Request, NEW players \in Pair, NEW p \in Port,
               Create(q, players, p)
        PROVE  MemoryFits'
    BY <1>0, <1>1, <1>2 DEF Create, At, Goto, TypeOK
  <1>3. ASSUME NEW q \in Request, NEW s \in sessions, RequestRemove(q, s)
        PROVE  MemoryFits'
    BY <1>0, <1>1, <1>3 DEF RequestRemove, At, Goto, TypeOK, tables, process
  <1>4. ASSUME NEW p \in Port, Record(p)  PROVE  MemoryFits'
    BY <1>0, <1>4 DEF Record, MemoryFits, Unloaded, Dropping, IdsIn, tables, work, process
  <1>5. CASE Crash
    <2>1. \A r \in Request : pc'[r] # "dropGame"
      BY <1>5 DEF Crash, Active, RemoveSteps
    <2>2. Dropping' = {}
      BY <2>1 DEF Dropping
    <2> QED  BY <1>5, <2>2 DEF Crash, MemoryFits
  <1>6. CASE Restart
    <2>1. Active = {} /\ up' /\ UNCHANGED <<pc, games, sessions>>
      BY <1>6 DEF Restart, StoreInv, OnePerSession, tables
    <2>2. Unloaded' = {} /\ Dropping' = {}
      BY <2>1 DEF Active, Unloaded, Dropping, GameId, LoadSteps, CreateSteps, RemoveSteps
    <2>3. memGames' = IdsIn({g \in games : \E s \in sessions : s.id = g.sessionId})
      BY <1>6 DEF Restart, Locked
    <2>4. {g \in games : \E s \in sessions : s.id = g.sessionId} = games
      BY <1>0 DEF RowsFit, RowsOwned, SessionsOf
    <2> QED  BY <2>1, <2>2, <2>3, <2>4 DEF MemoryFits
  <1>7. CASE Disturb \/ UNCHANGED vars
    <2>1. UNCHANGED <<games, memGames, pc, game, creates, up>>
      BY <1>7 DEF Disturb, vars, tables, work, process
    <2> QED  BY <1>0, <2>1 DEF MemoryFits, Unloaded, Dropping, IdsIn
  <1> QED
    BY <1>2, <1>3, <1>4, <1>5, <1>6, <1>7, MemoryStep DEF Next

-----------------------------------------------------------------------------
(* What the step of a request does to the sessions of others: nothing. *)
LEMMA StepApart ==
    ASSUME calm, StoreInv, NEW q \in Request, Step(q), NEW t \in sessions, t # session[q]
    PROVE  /\ t \in sessions'
           /\ RowsOf(t.id)' = RowsOf(t.id)
           /\ AttacksOf(t.id)' = AttacksOf(t.id)
           /\ MurmursOf(t.id)' = MurmursOf(t.id)
           /\ \A g \in RowsOf(t.id) : g.gameId \in memGames => g.gameId \in memGames'
           /\ container'[t.port] = container[t.port]
           /\ recDir[t.port] # "none" => recDir'[t.port] # "none"
  <1> DEFINE s == session[q]
  <1>0. /\ q \in Active /\ session' = session /\ Progress(q)
        /\ s \in sessions /\ s.id # t.id /\ s.port # t.port
    BY StepFrame, Alone
  <1>1. s.port \in Port /\ t.port \in Port
    BY <1>0, RowTypes
  <1>2. /\ pc \in [Request -> {"idle"} \cup CreateSteps \cup RemoveSteps \cup Done]
        /\ port \in [Request -> Port \cup {None}]
        /\ recDir \in [Port -> {"none", "empty", "full"}]
        /\ container \in [Port -> {"none", "created", "running"}]
    BY DEF StoreInv, TypeOK
  <1>3. /\ \A m \in MurmursOf(s.id) : m.port = s.port
        /\ \A m \in MurmursOf(t.id) : m.port = t.port
    BY <1>0 DEF StoreInv, RowsFit, MurmursOf, SessionsOf
  <1>4. pc[q] \in CreateSteps \cup VoiceSteps => port[q] = s.port
    BY <1>0 DEF Progress
  <1> USE DEF At, QueryFails, Locked
  <1>5. RowsOf(t.id)' = RowsOf(t.id)
    <2>1. CASE InsertGame(q)
      <3>1. \A g \in games' : g \in games \/ g.sessionId = s.id
        BY <2>1 DEF InsertGame
      <3>2. games \subseteq games'
        BY <2>1 DEF InsertGame
      <3> QED  BY <1>0, <3>1, <3>2 DEF RowsOf
    <2>2. CASE DeleteGame(q)
      <3>1. PICK id \in todo[q] : games' = {g \in games : g.gameId # id}
        BY <2>2 DEF DeleteGame
      <3>2. id \in IdsIn(RowsOf(s.id))
        BY <1>0, <2>2, <3>1 DEF DeleteGame, Progress, VoiceSteps
      <3>3. \A g \in games : g.gameId = id => g.sessionId = s.id
        BY <3>2 DEF IdsIn, RowsOf, StoreInv, RowsFit
      <3> QED  BY <1>0, <3>1, <3>3 DEF RowsOf
    <2>3. CASE ~InsertGame(q) /\ ~DeleteGame(q)
      <3>1. UNCHANGED games
        BY <2>3 DEF Step, InsertMurmur, CreateRecDir, CreateContainer, InsertAttacks,
           ReadGames, InitGames, ReadAttacks, InitAttacks, InitMurmur, OpenRecDir,
           StartContainer, Find, ReadRows, CheckGames, DropGame, DeleteAttacks, ReadMurmur,
           RemoveRecDir, StopContainer, RemoveContainer, DeleteMurmur, DeleteSession, tables
      <3> QED  BY <3>1 DEF RowsOf
    <2> QED  BY <2>1, <2>2, <2>3
  <1>6. AttacksOf(t.id)' = AttacksOf(t.id)
    <2>1. CASE InsertAttacks(q)
      <3>1. attacks \subseteq attacks' /\ \A a \in attacks' : a \in attacks \/ a.sessionId = s.id
        BY <2>1 DEF InsertAttacks
      <3> QED  BY <1>0, <3>1 DEF AttacksOf
    <2>2. CASE DeleteAttacks(q)
      <3>1. attacks' = attacks \ AttacksOf(s.id)
        BY <2>2 DEF DeleteAttacks
      <3> QED  BY <1>0, <3>1 DEF AttacksOf
    <2>3. CASE ~InsertAttacks(q) /\ ~DeleteAttacks(q)
      <3>1. UNCHANGED attacks
        BY <2>3 DEF Step, InsertMurmur, CreateRecDir, CreateContainer, InsertGame, ReadGames,
           InitGames, ReadAttacks, InitAttacks, InitMurmur, OpenRecDir, StartContainer, Find,
           ReadRows, CheckGames, DeleteGame, DropGame, ReadMurmur, RemoveRecDir,
           StopContainer, RemoveContainer, DeleteMurmur, DeleteSession, tables
      <3> QED  BY <3>1 DEF AttacksOf
    <2> QED  BY <2>1, <2>2, <2>3
  <1>7. MurmursOf(t.id)' = MurmursOf(t.id)
    <2>1. CASE InsertMurmur(q)
      <3>1. /\ murmurs \subseteq murmurs'
            /\ \A m \in murmurs' : m \in murmurs \/ m.sessionId = s.id
        BY <2>1 DEF InsertMurmur
      <3> QED  BY <1>0, <3>1 DEF MurmursOf
    <2>2. CASE DeleteMurmur(q)
      <3>1. murmurs' = {m \in murmurs : m.port # s.port}
        BY <1>4, <2>2 DEF DeleteMurmur, VoiceSteps
      <3> QED  BY <1>0, <1>3, <3>1 DEF MurmursOf
    <2>3. CASE ~InsertMurmur(q) /\ ~DeleteMurmur(q)
      <3>1. UNCHANGED murmurs
        BY <2>3 DEF Step, CreateRecDir, CreateContainer, InsertGame, InsertAttacks, ReadGames,
           InitGames, ReadAttacks, InitAttacks, InitMurmur, OpenRecDir, StartContainer, Find,
           ReadRows, CheckGames, DeleteGame, DropGame, DeleteAttacks, ReadMurmur,
           RemoveRecDir, StopContainer, RemoveContainer, DeleteSession, tables
      <3> QED  BY <3>1 DEF MurmursOf
    <2> QED  BY <2>1, <2>2, <2>3
  <1>8. \A g \in RowsOf(t.id) : g.gameId \in memGames => g.gameId \in memGames'
    <2>1. CASE DropGame(q)
      <3>1. pc[q] = "dropGame" /\ RemoveMemGame(game[q]) /\ up
        BY <2>1 DEF DropGame
      <3>2. game[q] \in memGames
        <4>1. game[q] \in Dropping
          BY <3>1 DEF Dropping
        <4> QED  BY <3>1, <4>1 DEF StoreInv, MemoryFits
      <3>3. memGames' = memGames \ {game[q]}
        BY <3>1, <3>2 DEF RemoveMemGame
      <3>4. session[game[q][1]].id = s.id
        BY <1>0, <3>1 DEF Progress, VoiceSteps
      <3>5. \A g \in RowsOf(t.id) : g.gameId # game[q]
        BY <1>0, <3>4 DEF RowsOf, StoreInv, RowsFit
      <3> QED  BY <3>3, <3>5
    <2>2. CASE ~DropGame(q)
      <3>1. memGames \subseteq memGames'
        BY <2>2 DEF Step, InsertMurmur, CreateRecDir, CreateContainer, InsertGame,
           InsertAttacks, ReadGames, InitGames, SetMemGames, ReadAttacks, InitAttacks,
           InitMurmur, OpenRecDir, StartContainer, Find, ReadRows, CheckGames, DeleteGame,
           DeleteAttacks, ReadMurmur, RemoveRecDir, StopContainer, RemoveContainer,
           DeleteMurmur, DeleteSession
      <3> QED  BY <3>1
    <2> QED  BY <2>1, <2>2
  <1>9. container'[t.port] = container[t.port]
    <2>1. CASE \/ CreateContainer(q) \/ StartContainer(q)
               \/ StopContainer(q) \/ RemoveContainer(q)
      <3>1. port[q] = s.port
        BY <1>4, <2>1 DEF CreateContainer, StartContainer, StopContainer, RemoveContainer,
           CreateSteps, VoiceSteps
      <3> QED
        BY <1>0, <1>1, <1>2, <2>1, <3>1 DEF CreateContainer, StartContainer, StopContainer,
           RemoveContainer
    <2>2. CASE ~(\/ CreateContainer(q) \/ StartContainer(q)
                 \/ StopContainer(q) \/ RemoveContainer(q))
      BY <2>2 DEF Step, InsertMurmur, CreateRecDir, InsertGame, InsertAttacks, ReadGames,
         InitGames, ReadAttacks, InitAttacks, InitMurmur, OpenRecDir, Find, ReadRows,
         CheckGames, DeleteGame, DropGame, DeleteAttacks, ReadMurmur, RemoveRecDir,
         DeleteMurmur, DeleteSession, voice
    <2> QED  BY <2>1, <2>2
  <1>10. recDir[t.port] # "none" => recDir'[t.port] # "none"
    <2>1. CASE RemoveRecDir(q)
      <3>1. /\ port[q] = s.port
            /\ recDir' = [recDir EXCEPT ![port[q]] = IF @ = "empty" THEN "none" ELSE @]
        BY <1>4, <2>1 DEF RemoveRecDir, VoiceSteps
      <3> QED  BY <1>0, <1>1, <1>2, <3>1
    <2>2. CASE CreateRecDir(q) \/ OpenRecDir(q)
      <3>1. port[q] = s.port
        BY <1>4, <2>2 DEF CreateRecDir, OpenRecDir, CreateSteps
      <3> QED  BY <1>0, <1>1, <1>2, <2>2, <3>1 DEF CreateRecDir, OpenRecDir
    <2>3. CASE ~(RemoveRecDir(q) \/ CreateRecDir(q) \/ OpenRecDir(q))
      <3>1. UNCHANGED recDir
        BY <2>3 DEF Step, InsertMurmur, CreateContainer, InsertGame, InsertAttacks, ReadGames,
           InitGames, ReadAttacks, InitAttacks, InitMurmur, StartContainer, Find, ReadRows,
           CheckGames, DeleteGame, DropGame, DeleteAttacks, ReadMurmur, StopContainer,
           RemoveContainer, DeleteMurmur, DeleteSession, voice
      <3> QED  BY <3>1
    <2> QED  BY <2>1, <2>2, <2>3
  <1>11. t \in sessions'
    <2>1. CASE DeleteSession(q)
      BY <1>0, <2>1 DEF DeleteSession, SessionsOf
    <2>2. CASE ~DeleteSession(q)
      BY <2>2 DEF Step, InsertMurmur, CreateRecDir, CreateContainer, InsertGame,
         InsertAttacks, ReadGames, InitGames, ReadAttacks, InitAttacks, InitMurmur,
         OpenRecDir, StartContainer, Find, ReadRows, CheckGames, DeleteGame, DropGame,
         DeleteAttacks, ReadMurmur, RemoveRecDir, StopContainer, RemoveContainer,
         DeleteMurmur, tables
    <2> QED  BY <2>1, <2>2
  <1> QED
    BY <1>5, <1>6, <1>7, <1>8, <1>9, <1>10, <1>11

(* How far a request is after its step.  First a create that is
   rejected: its clean-up starts. *)
LEMMA ProgressReject ==
    ASSUME StoreInv, NEW q \in Active, pc[q] \in CreateSteps, Reject(q),
           UNCHANGED <<sessions, session, attacks, games, murmurs>>
    PROVE  Progress(q)'
  <1>1. pc'[q] = "find"
    BY DEF Reject, Goto, StoreInv, TypeOK, Active
  <1>2. session[q] \in sessions
    BY Alone
  <1> QED
    BY <1>1, <1>2 DEF Progress, VoiceSteps, CreateSteps

(* The steps that leave the tables as they are. *)
LEMMA ProgressQuiet ==
    ASSUME calm, StoreInv, NEW q \in Request, q \in Active',
           \/ CreateRecDir(q) \/ CreateContainer(q) \/ ReadGames(q) \/ InitGames(q)
           \/ ReadAttacks(q) \/ InitAttacks(q) \/ InitMurmur(q) \/ OpenRecDir(q)
           \/ StartContainer(q) \/ Find(q) \/ ReadRows(q) \/ CheckGames(q) \/ DropGame(q)
           \/ ReadMurmur(q) \/ RemoveRecDir(q) \/ StopContainer(q) \/ RemoveContainer(q)
    PROVE  Progress(q)'
  <1> DEFINE s == session[q]
  <1> DEFINE rows == IdsIn(RowsOf(s.id))
  <1> DEFINE targets == IdsIn(AttacksOf(s.id))
  <1> DEFINE servers == MurmursOf(s.id)
  <1> DEFINE owned == [sessionId |-> s.id, port |-> s.port] \in murmurs
  <1>0. /\ q \in Active /\ up /\ session' = session /\ creates' = creates
        /\ s \in sessions /\ s \in SessionRow /\ SessionsOf(s.id) = {s} /\ Progress(q)
    BY StepFrame, Alone DEF process, SessionsOf, Step
  <1>1. UNCHANGED <<sessions, games, attacks, murmurs>>
    BY DEF CreateRecDir, CreateContainer, ReadGames, InitGames, ReadAttacks, InitAttacks,
       InitMurmur, OpenRecDir, StartContainer, Find, ReadRows, CheckGames, DropGame, ReadMurmur,
       RemoveRecDir,
       StopContainer, RemoveContainer, QueryFails, Locked, tables
  <1>2. /\ s' = s /\ rows' = rows /\ targets' = targets /\ servers' = servers /\ owned' = owned
    BY <1>0, <1>1 DEF tables, IdsIn, RowsOf, AttacksOf, MurmursOf
  <1>3. /\ \A m \in servers : m.port = s.port
        /\ owned => servers # {}
    BY <1>0 DEF StoreInv, RowsFit, MurmursOf
  <1>4. /\ pc \in [Request -> {"idle"} \cup CreateSteps \cup RemoveSteps \cup Done]
        /\ todo \in [Request -> SUBSET GameId] /\ port \in [Request -> Port \cup {None}]
        /\ recDir \in [Port -> {"none", "empty", "full"}] /\ s.port \in Port
    BY <1>0 DEF StoreInv, TypeOK, SessionRow
  <1>5. pc[q] \in CreateSteps /\ Reject(q) => Progress(q)'
    BY <1>0, <1>1, ProgressReject
  <1> HIDE DEF rows, targets, servers, owned, s
  <1> USE DEF At, Goto, QueryFails, Locked
  <1>6. CASE CreateRecDir(q)
    <2>1. CASE ~Reject(q)
      <3>1. pc[q] = "createRecDir" /\ pc'[q] = "createContainer" /\ port' = port
        BY <1>4, <1>6, <2>1 DEF CreateRecDir, work
      <3> QED  BY <1>0, <1>1, <1>2, <3>1 DEF Progress, VoiceSteps, rows, targets, owned, s, CreateSteps
    <2> QED  BY <1>5, <1>6, <2>1 DEF CreateRecDir, CreateSteps
  <1>7. CASE CreateContainer(q)
    <2>1. CASE ~Reject(q)
      <3>1. /\ pc[q] = "createContainer" /\ pc'[q] = "insertGame" /\ port' = port
            /\ todo'[q] = {q} \X Order
        BY <1>4, <1>7, <2>1 DEF CreateContainer
      <3>2. /\ {q} \X Order # {} /\ ({q} \X Order) \ ({q} \X Order) = {}
            /\ ({q} \X Attacked) \ ({q} \X Order) = {}
        <4>1. 1 \in Order /\ Attacked \subseteq Order
          BY SessionAssumption DEF SessionAssumption, Order
        <4>2. <<q, 1>> \in {q} \X Order
          BY <4>1
        <4> QED  BY <4>1, <4>2
      <3> QED  BY <1>0, <1>1, <1>2, <3>1, <3>2 DEF Progress, VoiceSteps, rows, targets, owned, s, CreateSteps
    <2> QED  BY <1>5, <1>7, <2>1 DEF CreateContainer, CreateSteps
  <1>8. CASE ReadGames(q)
    <2>1. /\ pc[q] = "readGames" /\ pc'[q] = "initGames" /\ port' = port /\ todo'[q] = rows
      BY <1>4, <1>8 DEF ReadGames, rows, s
    <2> QED  BY <1>0, <1>1, <1>2, <2>1 DEF Progress, VoiceSteps, rows, targets, owned, s, CreateSteps
  <1>9. CASE InitGames(q)
    <2>1. /\ pc[q] = "initGames" /\ pc'[q] = "readAttacks" /\ port' = port
      BY <1>4, <1>9 DEF InitGames, work
    <2> QED  BY <1>0, <1>1, <1>2, <2>1 DEF Progress, VoiceSteps, rows, targets, owned, s, CreateSteps
  <1>10. CASE ReadAttacks(q)
    <2>1. /\ pc[q] = "readAttacks" /\ pc'[q] \in {"initMurmur", "initAttacks"} /\ port' = port
      BY <1>4, <1>10 DEF ReadAttacks, work
    <2> QED  BY <1>0, <1>1, <1>2, <2>1 DEF Progress, VoiceSteps, rows, targets, owned, s, CreateSteps
  <1>11. CASE InitAttacks(q)
    <2>1. /\ pc[q] = "initAttacks" /\ pc'[q] = "initMurmur" /\ port' = port
      BY <1>0, <1>4, <1>11 DEF InitAttacks, work, s
    <2> QED  BY <1>0, <1>1, <1>2, <2>1 DEF Progress, VoiceSteps, rows, targets, owned, s, CreateSteps
  <1>12. CASE InitMurmur(q)
    <2>1. pc[q] = "initMurmur" /\ owned
      BY <1>0, <1>12 DEF InitMurmur, Progress, VoiceSteps, CreateSteps, owned, s
    <2>2. PICK m \in servers :
             port' = [port EXCEPT ![q] = m.port] /\ pc' = [pc EXCEPT ![q] = "openRecDir"]
      BY <1>3, <1>12, <2>1 DEF InitMurmur, servers, s
    <2>3. pc'[q] = "openRecDir" /\ port'[q] = s.port
      BY <1>3, <1>4, <2>2
    <2> QED
      BY <1>0, <1>1, <1>2, <2>1, <2>3 DEF Progress, VoiceSteps, rows, targets, owned, s, CreateSteps
  <1>20. CASE OpenRecDir(q)
    <2>1. /\ pc[q] = "openRecDir" /\ pc'[q] = "startContainer" /\ port' = port
          /\ recDir' = [recDir EXCEPT ![port[q]] = IF @ = "none" THEN "empty" ELSE @]
      BY <1>4, <1>20 DEF OpenRecDir, work
    <2>2. port[q] = s.port
      BY <1>0, <2>1 DEF Progress, CreateSteps, s
    <2>3. recDir'[s.port] # "none"
      BY <1>4, <2>1, <2>2
    <2> QED
      BY <1>0, <1>1, <1>2, <2>1, <2>3 DEF Progress, VoiceSteps, rows, targets, owned, s, CreateSteps
  <1>13. CASE StartContainer(q)
    <2>1. pc[q] = "startContainer" /\ Reject(q)
      BY <1>4, <1>13 DEF StartContainer, Active, CreateSteps, RemoveSteps
    <2> QED  BY <1>5, <2>1 DEF CreateSteps
  <1>14. CASE Find(q)
    <2>1. pc'[q] = "readRows"
      BY <1>0, <1>4, <1>14 DEF Find, s
    <2> QED  BY <1>0, <1>1, <1>2, <2>1 DEF Progress, VoiceSteps, rows, targets, owned, s, CreateSteps
  <1>15. CASE ReadRows(q)
    <2>1. pc'[q] = "checkGames" /\ todo'[q] = rows
      BY <1>4, <1>15 DEF ReadRows, rows, s
    <2> QED  BY <1>0, <1>1, <1>2, <2>1 DEF Progress, VoiceSteps, rows, targets, owned, s, CreateSteps
  <1>16. CASE CheckGames(q)
    <2>1. /\ pc[q] = "checkGames" /\ todo' = todo
          /\ pc'[q] = IF todo[q] # {} /\ todo[q] \subseteq memGames
                      THEN "deleteGame" ELSE "deleteAttacks"
      BY <1>4, <1>16 DEF CheckGames, work
    <2>2. todo[q] = rows
      BY <1>0, <2>1 DEF Progress, VoiceSteps, rows, s
    <2>3. rows \subseteq memGames
      <3>1. rows \subseteq IdsIn(games)
        BY DEF rows, IdsIn, RowsOf
      <3>2. ASSUME NEW g \in RowsOf(s.id)  PROVE  g.gameId \notin Unloaded
        <4>1. g.gameId[1] \in Request /\ session[g.gameId[1]].id = s.id
          BY RowTypes DEF RowsOf, StoreInv, RowsFit
        <4>2. pc[g.gameId[1]] \notin LoadSteps
          BY <1>0, <2>1, <4>1, Alone DEF Active, LoadSteps, CreateSteps, RemoveSteps, s
        <4> QED  BY <4>2 DEF Unloaded
      <3> QED  BY <1>0, <3>1, <3>2 DEF StoreInv, MemoryFits, rows, IdsIn
    <2> QED
      BY <1>0, <1>1, <1>2, <2>1, <2>2, <2>3 DEF Progress, VoiceSteps, rows, targets, owned, s, CreateSteps
  <1>17. CASE DropGame(q)
    <2>1. /\ pc[q] = "dropGame" /\ todo' = todo
          /\ pc'[q] = IF todo[q] = {} THEN "deleteAttacks" ELSE "deleteGame"
      BY <1>4, <1>17 DEF DropGame, work
    <2>2. todo[q] = rows
      BY <1>0, <2>1 DEF Progress, VoiceSteps, rows, s
    <2> QED
      BY <1>0, <1>1, <1>2, <2>1, <2>2 DEF Progress, VoiceSteps, rows, targets, owned, s, CreateSteps
  <1>18. CASE ReadMurmur(q)
    <2>1. /\ pc[q] = "readMurmur"
          /\ \/ \E m \in servers : port' = [port EXCEPT ![q] = m.port] /\ pc'[q] = "removeRecDir"
             \/ servers = {} /\ pc'[q] = "deleteSession"
      BY <1>4, <1>18 DEF ReadMurmur, servers, s
    <2>2. \/ port'[q] = s.port /\ pc'[q] = "removeRecDir"
          \/ servers = {} /\ pc'[q] = "deleteSession"
      BY <1>3, <1>4, <2>1
    <2> QED
      BY <1>0, <1>1, <1>2, <2>1, <2>2
      DEF Progress, VoiceSteps, rows, targets, servers, owned, s, CreateSteps
  <1>19. CASE RemoveRecDir(q) \/ StopContainer(q) \/ RemoveContainer(q)
    <2>1. /\ pc[q] \in VoiceSteps /\ port' = port
          /\ pc'[q] \in {"stopContainer", "removeContainer", "deleteMurmur"}
      BY <1>4, <1>19 DEF RemoveRecDir, StopContainer, RemoveContainer, VoiceSteps, work
    <2> QED
      BY <1>0, <1>1, <1>2, <2>1 DEF Progress, VoiceSteps, rows, targets, owned, s, CreateSteps
  <1> QED
    BY <1>6, <1>7, <1>8, <1>9, <1>10, <1>11, <1>12, <1>13, <1>14, <1>15, <1>16, <1>17, <1>18,
       <1>19, <1>20

(* The steps that write a table. *)
LEMMA ProgressWrites ==
    ASSUME calm, StoreInv, NEW q \in Request, q \in Active',
           \/ InsertMurmur(q) \/ InsertGame(q) \/ InsertAttacks(q) \/ DeleteGame(q)
           \/ DeleteAttacks(q) \/ DeleteMurmur(q) \/ DeleteSession(q)
    PROVE  Progress(q)'
  <1> DEFINE s == session[q]
  <1> DEFINE rows == IdsIn(RowsOf(s.id))
  <1> DEFINE targets == IdsIn(AttacksOf(s.id))
  <1> DEFINE servers == MurmursOf(s.id)
  <1> DEFINE owned == [sessionId |-> s.id, port |-> s.port] \in murmurs
  <1> DEFINE own == {q} \X Order
  <1> DEFINE attacked == {q} \X Attacked
  <1>0. /\ q \in Active /\ up /\ session' = session /\ creates' = creates
        /\ s \in sessions /\ s \in SessionRow /\ Progress(q)
    BY StepFrame, Alone DEF process, Step
  <1>1. s' = s
    BY <1>0
  <1>2. \A m \in servers : m.port = s.port
    BY <1>0 DEF StoreInv, RowsFit, MurmursOf, SessionsOf
  <1>3. /\ pc \in [Request -> {"idle"} \cup CreateSteps \cup RemoveSteps \cup Done]
        /\ todo \in [Request -> SUBSET GameId] /\ port \in [Request -> Port \cup {None}]
        /\ game \in [Request -> GameId \cup {None}]
    BY DEF StoreInv, TypeOK
  <1>4. /\ games' = games => rows' = rows
        /\ attacks' = attacks => targets' = targets
        /\ murmurs' = murmurs => owned' = owned /\ servers' = servers
    BY <1>0 DEF IdsIn, RowsOf, AttacksOf, MurmursOf
  <1>5. attacked \subseteq own
    BY SessionAssumption DEF SessionAssumption
  <1> HIDE DEF rows, targets, servers, owned, s
  <1> USE DEF At, Goto, QueryFails, Locked
  <1>6. CASE InsertMurmur(q)
    <2>1. CASE Reject(q)
      <3>1. pc[q] = "insertMurmur" /\ pc'[q] = "find"
        BY <1>3, <1>6, <2>1 DEF InsertMurmur, Reject, CreateSteps
      <3>2. UNCHANGED <<sessions, session, attacks, games, murmurs>>
        BY <1>3, <1>6, <3>1 DEF InsertMurmur, work
      <3> QED  BY <1>0, <2>1, <3>1, <3>2, ProgressReject DEF CreateSteps
    <2>2. CASE ~Reject(q)
      <3>1. /\ pc[q] = "insertMurmur" /\ pc'[q] = "createRecDir" /\ port' = port
            /\ murmurs' = murmurs \cup {[sessionId |-> s.id, port |-> s.port]}
            /\ UNCHANGED <<sessions, games, attacks>>
        BY <1>3, <1>6, <2>2 DEF InsertMurmur, work, s
      <3>2. owned'
        BY <1>1, <3>1 DEF owned
      <3> QED
        BY <1>0, <1>1, <1>4, <3>1, <3>2 DEF Progress, VoiceSteps, rows, targets, owned, s, CreateSteps
    <2> QED  BY <2>1, <2>2
  <1>7. CASE InsertGame(q)
    <2>1. PICK id \in todo[q] :
             /\ games' = games \cup {[gameId |-> id, sessionId |-> s.id,
                                      players |-> {s.players[1], s.players[2]}]}
             /\ game' = [game EXCEPT ![q] = id] /\ todo' = [todo EXCEPT ![q] = @ \ {id}]
      BY <1>7 DEF InsertGame, s
    <2>2. /\ pc[q] = "insertGame" /\ pc'[q] = "insertAttacks" /\ port' = port
          /\ game'[q] = id /\ todo'[q] = todo[q] \ {id}
          /\ UNCHANGED <<sessions, attacks, murmurs>>
      BY <1>3, <1>7, <2>1 DEF InsertGame
    <2>3. rows' = rows \cup {id}
      <3> DEFINE row == [gameId |-> id, sessionId |-> s.id,
                         players |-> {s.players[1], s.players[2]}]
      <3>1. games' = games \cup {row} /\ row.gameId = id /\ row.sessionId = s.id
        BY <2>1
      <3> HIDE DEF row
      <3>2. RowsOf(s.id)' = RowsOf(s.id) \cup {row}
        BY <1>1, <3>1 DEF RowsOf
      <3> QED  BY <1>1, <3>1, <3>2 DEF rows, IdsIn
    <2>4. /\ todo[q] \subseteq own /\ rows = own \ todo[q] /\ targets = attacked \ todo[q]
      BY <1>0, <2>2 DEF Progress, VoiceSteps, rows, targets, s
    <2>5. /\ todo'[q] \subseteq own /\ rows' = own \ todo'[q] /\ game'[q] \in rows'
          /\ targets' = (attacked \ todo'[q]) \ {game'[q]}
      BY <1>4, <2>1, <2>2, <2>3, <2>4
    <2> QED
      BY <1>0, <1>1, <1>4, <2>2, <2>5 DEF Progress, VoiceSteps, rows, targets, owned, s, CreateSteps
  <1>8. CASE InsertAttacks(q)
    <2>1. /\ pc[q] = "insertAttacks" /\ port' = port /\ todo' = todo
          /\ pc'[q] = IF todo[q] = {} THEN "readGames" ELSE "insertGame"
          /\ attacks' = attacks \cup [gameId : {game[q]} \cap (Request \X Attacked),
                                      sessionId : {s.id}]
          /\ UNCHANGED <<sessions, games, murmurs>>
      BY <1>3, <1>8 DEF InsertAttacks, work, s
    <2>2. /\ todo[q] \subseteq own /\ rows = own \ todo[q] /\ game[q] \in rows
          /\ targets = (attacked \ todo[q]) \ {game[q]}
      BY <1>0, <2>1 DEF Progress, VoiceSteps, rows, targets, s
    <2>3. targets' = targets \cup ({game[q]} \cap (Request \X Attacked))
      <3> DEFINE new == [gameId : {game[q]} \cap (Request \X Attacked), sessionId : {s.id}]
      <3>1. AttacksOf(s.id)' = AttacksOf(s.id) \cup new
        BY <1>1, <2>1 DEF AttacksOf
      <3>2. IdsIn(new) = {game[q]} \cap (Request \X Attacked)
        <4>1. \A x \in {game[q]} \cap (Request \X Attacked) :
                 /\ [gameId |-> x, sessionId |-> s.id] \in new
                 /\ [gameId |-> x, sessionId |-> s.id].gameId = x
          OBVIOUS
        <4>2. \A r \in new : r.gameId \in {game[q]} \cap (Request \X Attacked)
          OBVIOUS
        <4> HIDE DEF new
        <4> QED  BY <4>1, <4>2 DEF IdsIn
      <3>3. targets' = targets \cup IdsIn(new)
        <4> HIDE DEF new
        <4> QED  BY <1>1, <3>1 DEF targets, IdsIn
      <3> QED  BY <3>2, <3>3
    <2>4. {game[q]} \cap (Request \X Attacked) = {game[q]} \cap attacked
      BY <2>2
    <2>5. targets' = attacked \ todo[q]
      BY <2>2, <2>3, <2>4
    <2>6. todo[q] = {} => rows = own /\ targets' = attacked
      BY <2>2, <2>5
    <2> QED
      BY <1>0, <1>1, <1>4, <2>1, <2>2, <2>5, <2>6
      DEF Progress, VoiceSteps, rows, targets, owned, s, CreateSteps
  <1>9. CASE DeleteGame(q)
    <2>1. PICK id \in todo[q] :
             /\ games' = {g \in games : g.gameId # id}
             /\ todo' = [todo EXCEPT ![q] = @ \ {id}] /\ game' = [game EXCEPT ![q] = id]
      BY <1>9 DEF DeleteGame
    <2>2. /\ pc[q] = "deleteGame" /\ pc'[q] = "dropGame" /\ todo'[q] = todo[q] \ {id}
          /\ game'[q] = id /\ UNCHANGED sessions
      BY <1>3, <1>9, <2>1 DEF DeleteGame
    <2>3. rows' = rows \ {id}
      BY <1>1, <2>1 DEF rows, IdsIn, RowsOf
    <2>4. todo[q] = rows
      BY <1>0, <2>2 DEF Progress, VoiceSteps, rows, s
    <2>5. session[id[1]] # None /\ session[id[1]].id = s.id
      BY <2>4 DEF rows, IdsIn, RowsOf, StoreInv, RowsFit
    <2> QED
      BY <1>0, <1>1, <2>2, <2>3, <2>4, <2>5 DEF Progress, VoiceSteps, rows, targets, owned, s, CreateSteps
  <1>10. CASE DeleteAttacks(q)
    <2>1. /\ pc[q] = "deleteAttacks" /\ pc'[q] = "readMurmur"
          /\ attacks' = attacks \ AttacksOf(s.id) /\ UNCHANGED <<sessions, games>>
      BY <1>3, <1>10 DEF DeleteAttacks, s
    <2>2. targets' = {}
      BY <1>1, <2>1 DEF targets, IdsIn, AttacksOf
    <2> QED
      BY <1>0, <1>1, <1>4, <2>1, <2>2 DEF Progress, VoiceSteps, rows, targets, owned, s, CreateSteps
  <1>11. CASE DeleteMurmur(q)
    <2>1. /\ pc[q] = "deleteMurmur" /\ pc'[q] = "deleteSession"
          /\ murmurs' = {m \in murmurs : m.port # port[q]} /\ UNCHANGED <<sessions, games, attacks>>
      BY <1>3, <1>11 DEF DeleteMurmur
    <2>2. port[q] = s.port
      BY <1>0, <2>1 DEF Progress, VoiceSteps, s
    <2>3. servers' = {}
      BY <1>1, <1>2, <2>1, <2>2 DEF servers, MurmursOf
    <2> QED
      BY <1>0, <1>1, <1>4, <2>1, <2>3 DEF Progress, VoiceSteps, rows, targets, servers, owned, s, CreateSteps
  <1>12. CASE DeleteSession(q)
    BY <1>3, <1>12 DEF DeleteSession, Active, CreateSteps, RemoveSteps
  <1> QED
    BY <1>6, <1>7, <1>8, <1>9, <1>10, <1>11, <1>12

(* A request is as far as it was while what its session has stays. *)
LEMMA ProgressFrame ==
    ASSUME NEW r, Progress(r), session'[r] = session[r], pc'[r] = pc[r], port'[r] = port[r],
           todo'[r] = todo[r], game'[r] = game[r], r \in creates => r \in creates',
           session[r] \in sessions',
           RowsOf(session[r].id)' = RowsOf(session[r].id),
           AttacksOf(session[r].id)' = AttacksOf(session[r].id),
           MurmursOf(session[r].id)' = MurmursOf(session[r].id),
           recDir[session[r].port] # "none" => recDir'[session[r].port] # "none",
           pc[r] = "dropGame" => session'[game[r][1]] = session[game[r][1]]
    PROVE  Progress(r)'
  <1> DEFINE s == session[r]
  <1>1. /\ IdsIn(RowsOf(s.id))' = IdsIn(RowsOf(s.id))
        /\ IdsIn(AttacksOf(s.id))' = IdsIn(AttacksOf(s.id))
        /\ [sessionId |-> s.id, port |-> s.port] \in murmurs' <=>
              [sessionId |-> s.id, port |-> s.port] \in murmurs
    BY DEF IdsIn, MurmursOf
  <1> QED
    BY <1>1 DEF Progress, VoiceSteps

LEMMA ProgressNext ==
    ASSUME calm, StoreInv, [Next]_vars
    PROVE  \A q \in Active' : Progress(q)'
  <1>0. TypeOK /\ \A q \in Active : Progress(q)
    BY DEF StoreInv
  <1>1. ASSUME NEW q \in Request, Step(q)  PROVE  \A r \in Active' : Progress(r)'
    <2>1. /\ q \in Active /\ session' = session /\ creates' = creates
          /\ \A r \in Request : r # q => /\ pc'[r] = pc[r] /\ game'[r] = game[r]
                                         /\ port'[r] = port[r] /\ todo'[r] = todo[r]
      BY <1>1, StepFrame DEF process
    <2>2. q \in Active' => Progress(q)'
      BY <1>1, ProgressQuiet, ProgressWrites DEF Step
    <2>3. ASSUME NEW r \in Active', r # q  PROVE  Progress(r)'
      <3>1. r \in Active /\ r \in Request
        BY <2>1, <2>3 DEF Active
      <3>2. session[r] \in sessions /\ session[r] # session[q] /\ Progress(r)
        BY <2>1, <2>3, <3>1, Alone
      <3> QED  BY <1>1, <2>1, <2>3, <3>1, <3>2, StepApart, ProgressFrame
    <2> QED  BY <2>2, <2>3
  (* A request that starts leaves the others as far as they were. *)
  <1>2. ASSUME NEW q \in Request, pc[q] = "idle", sessions \subseteq sessions',
               creates \subseteq creates',
               UNCHANGED <<games, attacks, murmurs, recDir, todo, game>>,
               \A r \in Request : r # q => /\ pc'[r] = pc[r] /\ session'[r] = session[r]
                                           /\ port'[r] = port[r],
               NEW r \in Active
        PROVE  Progress(r)'
    <2>1. r \in Request /\ r # q /\ Progress(r) /\ session[r] \in sessions
      BY <1>2, Alone DEF Active, CreateSteps, RemoveSteps
    <2>2. pc[r] = "dropGame" => session'[game[r][1]] = session[game[r][1]]
      <3>1. SUFFICES ASSUME pc[r] = "dropGame"
                     PROVE  session'[game[r][1]] = session[game[r][1]]
        OBVIOUS
      <3>2. session[game[r][1]] # None
        BY <2>1, <3>1 DEF Progress, VoiceSteps
      <3>3. game[r][1] \in Request
        <4>1. game[r] \in memGames
          BY <2>1, <3>1, Alone DEF Dropping, StoreInv, MemoryFits
        <4> QED  BY <1>0, <4>1 DEF TypeOK, GameId
      <3>4. game[r][1] # q
        BY <1>0, <1>2, <3>2 DEF TypeOK
      <3> QED  BY <1>2, <3>3, <3>4
    <2>3. /\ RowsOf(session[r].id)' = RowsOf(session[r].id)
          /\ AttacksOf(session[r].id)' = AttacksOf(session[r].id)
          /\ MurmursOf(session[r].id)' = MurmursOf(session[r].id)
      BY <1>2, <2>1 DEF RowsOf, AttacksOf, MurmursOf
    <2> QED  BY <1>2, <2>1, <2>2, <2>3, ProgressFrame
  <1>3. ASSUME NEW q \in Request, NEW players \in Pair, NEW p \in Port,
               Create(q, players, p)
        PROVE  \A r \in Active' : Progress(r)'
    <2>1. /\ \A r \in Request : r # q => /\ pc'[r] = pc[r] /\ session'[r] = session[r]
                                         /\ port'[r] = port[r]
          /\ pc[q] = "idle" /\ creates' = creates \cup {q} /\ sessions \subseteq sessions'
          /\ UNCHANGED <<games, attacks, murmurs, recDir, todo, game>>
      BY <1>0, <1>3 DEF Create, At, Goto, voice, TypeOK
    <2>2. \A r \in Active : Progress(r)'
      BY <1>2, <2>1
    <2>3. \A r \in Active' : r \in Active \/ r = q
      BY <2>1 DEF Active
    <2>4. CASE pc'[q] = "rejected"
      BY <2>2, <2>3, <2>4 DEF Active, CreateSteps, RemoveSteps
    <2>5. CASE pc'[q] # "rejected"
      <3>1. PICK id \in NewId :
               /\ sessions' = sessions \cup {[id |-> id, players |-> players, port |-> p]}
               /\ session'[q] = [id |-> id, players |-> players, port |-> p]
               /\ port'[q] = p /\ pc'[q] = "insertMurmur"
        BY <1>0, <1>3, <2>5 DEF Create, Goto, TypeOK
      <3>2. \A row \in games \cup attacks \cup murmurs : row.sessionId # id
        BY <1>0, NewIds DEF StoreInv, RowsFit, RowsOwned
      <3>3. /\ IdsIn(RowsOf(id))' = {} /\ IdsIn(AttacksOf(id))' = {} /\ MurmursOf(id)' = {}
        BY <2>1, <3>2 DEF IdsIn, RowsOf, AttacksOf, MurmursOf
      <3>4. Progress(q)'
        BY <2>1, <3>1, <3>3 DEF Progress, VoiceSteps, CreateSteps
      <3> QED  BY <2>2, <2>3, <3>4
    <2> QED  BY <2>4, <2>5
  <1>4. ASSUME NEW q \in Request, NEW s \in sessions, RequestRemove(q, s)
        PROVE  \A r \in Active' : Progress(r)'
    <2>1. /\ \A r \in Request : r # q => /\ pc'[r] = pc[r] /\ session'[r] = session[r]
                                         /\ port'[r] = port[r]
          /\ pc[q] = "idle" /\ creates' = creates /\ sessions' = sessions
          /\ UNCHANGED <<games, attacks, murmurs, recDir, todo, game>>
          /\ pc'[q] = "find" /\ session'[q] \in sessions'
      BY <1>0, <1>4 DEF RequestRemove, At, Goto, TypeOK, tables, voice, process
    <2>2. \A r \in Active : Progress(r)'
      BY <1>2, <2>1
    <2>3. Progress(q)'
      BY <2>1 DEF Progress, VoiceSteps, CreateSteps
    <2> QED  BY <2>1, <2>2, <2>3 DEF Active
  <1>5. CASE Crash
    BY <1>5 DEF Crash, Active, CreateSteps, RemoveSteps
  <1>6. CASE Restart
    BY <1>6 DEF Restart, Active, StoreInv, OnePerSession
  <1>7. ASSUME NEW p \in Port, Record(p)  PROVE  \A r \in Active' : Progress(r)'
    <2>1. /\ UNCHANGED <<sessions, games, attacks, murmurs, pc, session, port, todo, game, creates>>
          /\ \A o \in Port : recDir[o] # "none" => recDir'[o] # "none"
      BY <1>0, <1>7 DEF Record, tables, work, process, TypeOK
    <2>2. ASSUME NEW r \in Active'  PROVE  Progress(r)'
      <3>1. r \in Active /\ session[r].port \in Port /\ session[r] \in sessions /\ Progress(r)
        BY <2>1, Alone DEF Active, SessionRow
      <3>2. /\ RowsOf(session[r].id)' = RowsOf(session[r].id)
            /\ AttacksOf(session[r].id)' = AttacksOf(session[r].id)
            /\ MurmursOf(session[r].id)' = MurmursOf(session[r].id)
        BY <2>1 DEF RowsOf, AttacksOf, MurmursOf
      <3> QED  BY <2>1, <3>1, <3>2, ProgressFrame
    <2> QED  BY <2>2
  <1>8. CASE Disturb \/ UNCHANGED vars
    <2>1. /\ UNCHANGED <<sessions, games, attacks, murmurs, pc, session, port, todo, game, creates>>
          /\ UNCHANGED recDir
      BY <1>8 DEF Disturb, vars, tables, work, voice, process
    <2>2. ASSUME NEW r \in Active'  PROVE  Progress(r)'
      <3>1. Progress(r) /\ session[r] \in sessions
        BY <2>1, Alone DEF Active
      <3>2. /\ RowsOf(session[r].id)' = RowsOf(session[r].id)
            /\ AttacksOf(session[r].id)' = AttacksOf(session[r].id)
            /\ MurmursOf(session[r].id)' = MurmursOf(session[r].id)
        BY <2>1 DEF RowsOf, AttacksOf, MurmursOf
      <3> QED  BY <2>1, <3>1, <3>2, ProgressFrame
    <2> QED  BY <2>2
  <1> QED
    BY <1>1, <1>3, <1>4, <1>5, <1>6, <1>7, <1>8 DEF Next

(* A complete session stays complete while its rows, its games in memory and
   its voice server stay. *)
LEMMA CompleteFrame ==
    ASSUME NEW t, Complete(t), IdsIn(RowsOf(t.id))' = IdsIn(RowsOf(t.id)),
           IdsIn(AttacksOf(t.id))' = IdsIn(AttacksOf(t.id)),
           RowsOf(t.id)' \subseteq RowsOf(t.id),
           up' => \A g \in RowsOf(t.id) : g.gameId \in memGames',
           [sessionId |-> t.id, port |-> t.port] \in murmurs',
           container'[t.port] = container[t.port],
           recDir[t.port] # "none" => recDir'[t.port] # "none"
    PROVE  Complete(t)'
  BY DEF Complete

(* The step of a request leaves the other sessions complete. *)
LEMMA OthersKept ==
    ASSUME calm, StoreInv, NEW q \in Request, Step(q),
           NEW t \in sessions, t # session[q], Complete(t)
    PROVE  Complete(t)'
  <1>1. up /\ up'
    BY StepFrame, Alone DEF process
  <1>2. /\ IdsIn(RowsOf(t.id))' = IdsIn(RowsOf(t.id))
        /\ IdsIn(AttacksOf(t.id))' = IdsIn(AttacksOf(t.id))
    BY StepApart DEF IdsIn
  <1>3. up' => \A g \in RowsOf(t.id) : g.gameId \in memGames'
    BY <1>1, StepApart DEF Complete
  <1>4. [sessionId |-> t.id, port |-> t.port] \in murmurs'
    BY StepApart DEF Complete, MurmursOf
  <1> QED
    BY <1>2, <1>3, <1>4, StepApart, CompleteFrame

(* A create that ends well has done all it had to. *)
LEMMA CreateEnds ==
    ASSUME calm, StoreInv, NEW q \in Request, StartContainer(q), pc'[q] = "ok"
    PROVE  Complete(session[q])'
  <1> DEFINE s == session[q]
  <1>0. /\ q \in Active /\ session' = session /\ s \in sessions /\ Progress(q) /\ s.port \in Port
        /\ \A r \in Request : r # q => pc'[r] = pc[r]
    BY StepFrame, Alone, RowTypes DEF Step
  <1>1. /\ pc[q] = "startContainer" /\ container' = [container EXCEPT ![port[q]] = "running"]
        /\ UNCHANGED <<games, attacks, murmurs, recDir, memGames>>
    BY DEF StartContainer, At, Reject, Goto, StoreInv, TypeOK, tables, CreateSteps
  <1>2. /\ port[q] = s.port /\ IdsIn(RowsOf(s.id)) = {q} \X Order
        /\ IdsIn(AttacksOf(s.id)) = {q} \X Attacked
        /\ [sessionId |-> s.id, port |-> s.port] \in murmurs /\ recDir[s.port] # "none"
    BY <1>0, <1>1 DEF Progress, VoiceSteps, CreateSteps
  <1>3. container'[s.port] = "running"
    BY <1>0, <1>1, <1>2 DEF StoreInv, TypeOK
  <1>4. \A g \in RowsOf(s.id) : g.players = {s.players[1], s.players[2]}
    BY <1>0 DEF RowsOf, SessionsOf, StoreInv, RowsFit
  <1>5. \A g \in RowsOf(s.id) : up' => g.gameId \in memGames'
    <2>1. SUFFICES ASSUME NEW g \in RowsOf(s.id)  PROVE  g.gameId \in memGames
      BY <1>1
    <2>2. g.gameId \in IdsIn(games) /\ g.gameId[1] = q
      BY <1>2 DEF IdsIn, RowsOf
    <2>3. g.gameId \notin Unloaded
      BY <1>1, <2>2 DEF Unloaded, LoadSteps
    <2> QED  BY <1>0, <2>2, <2>3, Alone DEF StoreInv, MemoryFits
  <1>6. /\ s' = s /\ RowsOf(s.id)' = RowsOf(s.id) /\ AttacksOf(s.id)' = AttacksOf(s.id)
    BY <1>0, <1>1 DEF RowsOf, AttacksOf
  <1>7. /\ IdsIn(RowsOf(s.id))' = {q} \X Order /\ IdsIn(AttacksOf(s.id))' = {q} \X Attacked
    BY <1>0, <1>2, <1>6 DEF IdsIn
  <1> HIDE DEF s
  <1> QED
    BY <1>0, <1>1, <1>2, <1>3, <1>4, <1>5, <1>6, <1>7 DEF Complete, s

LEMMA CompleteNext ==
    ASSUME calm, StoreInv, [Next]_vars
    PROVE  SessionComplete'
  <1>0. TypeOK /\ SessionComplete
    BY DEF StoreInv
  <1>1. ASSUME NEW q \in Request, Step(q)  PROVE  SessionComplete'
    <2>0. /\ q \in Active /\ session' = session /\ session[q] \in sessions /\ session[q] # None
          /\ \A r \in Request : r # q => pc'[r] = pc[r]
          /\ \A t \in sessions : t # session[q] => t.id # session[q].id
          /\ pc'[q] \in {"ok", "rejected"} => StartContainer(q) \/ DeleteSession(q)
      BY <1>1, StepFrame, Alone, SessionAssumption DEF SessionAssumption
    <2>1. sessions' \subseteq sessions
      BY <1>1 DEF Step, InsertMurmur, CreateRecDir, CreateContainer, InsertGame,
         InsertAttacks, ReadGames, InitGames, ReadAttacks, InitAttacks, InitMurmur,
         OpenRecDir, StartContainer, Find, ReadRows, CheckGames, DeleteGame, DropGame,
         DeleteAttacks, ReadMurmur, RemoveRecDir, StopContainer, RemoveContainer,
         DeleteMurmur, DeleteSession, QueryFails, tables
    <2>2. SUFFICES ASSUME NEW t \in sessions', Settled(t)'  PROVE  Complete(t)'
      BY DEF SessionComplete
    <2>3. CASE t = session[q]
      <3>1. pc'[q] \in {"ok", "rejected"}
        BY <2>0, <2>2, <2>3 DEF Settled, Active
      <3>2. ~DeleteSession(q)
        BY <2>2, <2>0, <2>3 DEF DeleteSession, SessionsOf, Locked
      <3>3. StartContainer(q) /\ pc'[q] = "ok"
        BY <2>0, <3>1, <3>2, <1>1, StepFrame
      <3>4. Complete(session[q])'
        BY <3>3, CreateEnds
      <3> QED  BY <2>0, <2>3, <3>4 DEF Complete
    <2>4. CASE t # session[q]
      <3>1. Settled(t)
        BY <2>0, <2>1, <2>2, <2>4 DEF Settled
      <3>2. Complete(t)
        BY <1>0, <2>1, <3>1 DEF SessionComplete
      <3> QED  BY <1>1, <2>1, <2>4, <3>2, OthersKept
    <2> QED  BY <2>3, <2>4
  <1>2. ASSUME UNCHANGED <<games, attacks, murmurs>>,
               \A r \in Request : session[r] # None =>
                  /\ session'[r] = session[r]
                  /\ pc'[r] \in {"ok", "rejected"} => pc[r] \in {"ok", "rejected"},
               up' => \A g \in games : g.gameId \in memGames => g.gameId \in memGames',
               up' => up \/ \A g \in games : g.gameId \in memGames',
               \A p \in Port : /\ container[p] = "running" => container'[p] = "running"
                               /\ recDir[p] # "none" => recDir'[p] # "none",
               NEW t \in sessions, Settled(t)'
        PROVE  Complete(t)'
    <2>1. Settled(t)
      BY <1>2 DEF Settled
    <2>2. Complete(t) /\ t.port \in Port
      BY <1>0, <2>1, RowTypes DEF SessionComplete
    <2>3. /\ RowsOf(t.id)' = RowsOf(t.id)
          /\ IdsIn(RowsOf(t.id))' = IdsIn(RowsOf(t.id))
          /\ IdsIn(AttacksOf(t.id))' = IdsIn(AttacksOf(t.id))
      BY <1>2 DEF RowsOf, AttacksOf, IdsIn
    <2>4. up' => \A g \in RowsOf(t.id) : g.gameId \in memGames'
      BY <1>2, <2>2 DEF Complete, RowsOf
    <2>5. /\ [sessionId |-> t.id, port |-> t.port] \in murmurs'
          /\ container'[t.port] = container[t.port]
          /\ recDir[t.port] # "none" => recDir'[t.port] # "none"
      BY <1>2, <2>2 DEF Complete
    <2> QED  BY <2>2, <2>3, <2>4, <2>5, CompleteFrame
  <1>3. ASSUME NEW q \in Request, NEW players \in Pair, NEW p \in Port,
               Create(q, players, p)
        PROVE  SessionComplete'
    <2>1. /\ pc[q] = "idle" /\ session[q] = None /\ up
          /\ \A r \in Request : r # q => session'[r] = session[r] /\ pc'[r] = pc[r]
          /\ UNCHANGED <<games, attacks, murmurs, memGames, container, recDir>>
      BY <1>0, <1>3 DEF Create, At, Goto, voice, TypeOK
    <2>2. SUFFICES ASSUME NEW t \in sessions', Settled(t)'  PROVE  Complete(t)'
      BY DEF SessionComplete
    <2>3. t \in sessions
      <3>1. SUFFICES ASSUME t \notin sessions  PROVE  FALSE
        OBVIOUS
      <3>2. session'[q] = t /\ t \in SessionRow /\ pc'[q] = "insertMurmur"
        <4>1. TypeOK'
          BY <1>0, TypeNext
        <4>2. session'[q] = t /\ pc'[q] = "insertMurmur"
          BY <1>0, <1>3, <3>1 DEF Create, Goto, TypeOK
        <4> QED  BY <4>1, <4>2 DEF TypeOK
      <3> QED  BY <2>2, <3>2, SessionAssumption DEF Settled, SessionAssumption
    <2> QED  BY <1>2, <2>1, <2>2, <2>3
  <1>4. ASSUME NEW q \in Request, NEW s \in sessions, RequestRemove(q, s)
        PROVE  SessionComplete'
    <2>1. /\ pc[q] = "idle" /\ session[q] = None /\ up
          /\ \A r \in Request : r # q => session'[r] = session[r] /\ pc'[r] = pc[r]
          /\ UNCHANGED <<sessions, games, attacks, murmurs, memGames, container, recDir>>
      BY <1>0, <1>4 DEF RequestRemove, At, Goto, voice, tables, TypeOK
    <2> QED  BY <1>2, <2>1 DEF SessionComplete
  <1>5. CASE Crash
    BY <1>2, <1>5 DEF Crash, SessionComplete, tables, voice, work
  <1>6. CASE Restart
    <2>1. /\ UNCHANGED <<sessions, games, attacks, murmurs, session, pc>> /\ up' /\ ~up
      BY <1>6 DEF Restart, tables, work
    <2>2. \A p \in Port : /\ container[p] = "running" => container'[p] = "running"
                          /\ recDir[p] # "none" => recDir'[p] # "none"
      BY <1>6 DEF Restart
    <2>3. \A g \in games : g.gameId \in memGames'
      <3>1. Active = {}
        BY <2>1 DEF StoreInv, OnePerSession
      <3>2. Unloaded' = {}
        BY <2>1, <3>1 DEF Active, Unloaded, GameId, LoadSteps, CreateSteps, RemoveSteps
      <3> QED  BY <2>1, <3>2, MemoryNext DEF MemoryFits, IdsIn
    <2> QED  BY <1>2, <2>1, <2>2, <2>3 DEF SessionComplete
  <1>7. ASSUME NEW p \in Port, Record(p)  PROVE  SessionComplete'
    <2>1. /\ UNCHANGED <<sessions, games, attacks, murmurs, session, pc, memGames, container, up>>
          /\ \A o \in Port : recDir[o] # "none" => recDir'[o] # "none"
      BY <1>0, <1>7 DEF Record, tables, work, process, TypeOK
    <2> QED  BY <1>2, <2>1 DEF SessionComplete
  <1>8. CASE Disturb \/ UNCHANGED vars
    <2>1. /\ UNCHANGED <<sessions, games, attacks, murmurs, session, pc, memGames>>
          /\ UNCHANGED <<container, recDir, up>>
      BY <1>8 DEF Disturb, vars, tables, voice, work, process
    <2> QED  BY <1>2, <2>1 DEF SessionComplete
  <1> QED
    BY <1>1, <1>3, <1>4, <1>5, <1>6, <1>7, <1>8 DEF Next

LEMMA ApartInit == Init => StoreInv
  <1> SUFFICES ASSUME Init  PROVE  StoreInv
    OBVIOUS
  <1>1. TypeOK
    BY SessionAssumption DEF Init, TypeOK, SessionAssumption, CreateSteps, RemoveSteps
  <1>2. Active = {}
    BY DEF Init, Active, CreateSteps, RemoveSteps
  <1>3. OnePerSession /\ KeysUnique /\ SessionComplete
    BY <1>2 DEF Init, OnePerSession, KeysUnique, SessionComplete
  <1>4. RowsFit
    BY DEF Init, RowsFit, RowsOwned
  <1>5. MemoryFits
    BY DEF Init, MemoryFits, Dropping, IdsIn
  <1> QED
    BY <1>1, <1>2, <1>3, <1>4, <1>5 DEF StoreInv

-----------------------------------------------------------------------------
(* The results, for any number of requests, sessions, games and ports, every
   failure of a Docker call and every crash. *)

LEMMA CalmStep == CalmInv /\ TypeOK /\ [Next]_vars => CalmInv'
  <1> SUFFICES ASSUME CalmInv, TypeOK, [Next]_vars, calm'  PROVE  StoreInv'
    BY DEF CalmInv
  <1>1. calm
    <2>1. ASSUME NEW q \in Request, Step(q)  PROVE  calm
      BY <2>1 DEF Step, InsertMurmur, CreateRecDir, CreateContainer, InsertGame,
         InsertAttacks, ReadGames, InitGames, ReadAttacks, InitAttacks, InitMurmur,
         OpenRecDir, StartContainer, Find, ReadRows, CheckGames, DeleteGame, DropGame,
         DeleteAttacks, ReadMurmur, RemoveRecDir, StopContainer, RemoveContainer,
         DeleteMurmur, DeleteSession, QueryFails, process
    <2> QED
      BY <2>1 DEF Next, Create, RequestRemove, Record, Disturb, Crash, Restart, vars, process
  <1>2. StoreInv
    BY <1>1 DEF CalmInv
  <1>3. TypeOK' /\ OnePerSession' /\ KeysUnique' /\ RowsFit' /\ MemoryFits'
    BY <1>1, <1>2, TypeNext, ApartNext, KeysNext, RowsFitNext, MemoryNext
  <1>4. SessionComplete' /\ \A q \in Active' : Progress(q)'
    BY <1>1, <1>2, CompleteNext, ProgressNext
  <1> QED
    BY <1>3, <1>4 DEF StoreInv

(* While calm the inductive invariant holds: ids and ports are unique, every row
   and every game in memory is where the steps of the requests in progress have
   left it. *)
THEOREM StoreInductive == Spec => []CalmInv
  <1>1. Init => CalmInv
    BY ApartInit DEF CalmInv
  <1> QED
    BY <1>1, CalmStep, TypeCorrect, PTL DEF Spec

(* While calm, createSession and removeSession leave no row without its
   session. *)
THEOREM EveryRowOwned == Spec => []RowsStayOwned
  <1>1. CalmInv => RowsStayOwned
    BY DEF CalmInv, StoreInv, RowsFit, RowsStayOwned
  <1> QED
    BY <1>1, StoreInductive, PTL

(* While calm, memGames holds between two requests what the table of games
   holds. *)
THEOREM MemoryIsTheTable == Spec => []MemoryIsKept
  <1>1. CalmInv => MemoryIsKept
    <2> SUFFICES ASSUME StoreInv, up, Active = {}  PROVE  memGames = IdsIn(games)
      BY DEF CalmInv, MemoryIsKept, MemoryHoldsTable
    <2>1. Unloaded = {} /\ Dropping = {}
      BY DEF Active, Unloaded, Dropping, GameId, LoadSteps, CreateSteps, RemoveSteps
    <2> QED  BY <2>1 DEF StoreInv, MemoryFits
  <1> QED
    BY <1>1, StoreInductive, PTL

(* While calm, createSession and initSession leave a session whole, and what is
   done to another one does not touch it. *)
THEOREM SessionsStayComplete == Spec => []SettledIsComplete
  <1>1. CalmInv => SettledIsComplete
    BY DEF CalmInv, StoreInv, SettledIsComplete
  <1> QED
    BY <1>1, StoreInductive, PTL

(* While calm, the clean-up of a create that a conflict or Docker has rejected
   removes every game it made. *)
THEOREM RejectedIsUndone == Spec => []RejectedIsCleared
  <1>1. CalmInv => RejectedIsCleared
    <2> SUFFICES ASSUME StoreInv, NEW id \in IdsIn(games) \cup memGames
                 PROVE  ~(id[1] \in creates /\ pc[id[1]] = "rejected")
      BY DEF CalmInv, RejectedIsCleared, NoGameOfRejected
    <2>1. CASE id \in IdsIn(games)
      BY <2>1 DEF IdsIn, StoreInv, RowsFit
    <2>2. CASE id \in memGames /\ id \notin IdsIn(games)
      BY <2>2 DEF StoreInv, MemoryFits
    <2> QED  BY <2>1, <2>2
  <1> QED
    BY <1>1, StoreInductive, PTL

(* The step that answers a remove "ok" is deleteSession, reached with nothing
   left of the session but its row. *)
LEMMA LastStep ==
    ASSUME calm, StoreInv, [Next]_vars, NEW q \in Request,
           q \notin creates, pc[q] # "ok", pc'[q] = "ok"
    PROVE  Step(q) /\ DeleteSession(q)
  <1>0. TypeOK
    BY DEF StoreInv
  <1>1. ASSUME NEW r \in Request, Step(r)  PROVE  r = q
    BY <1>1, StepFrame
  <1>2. ASSUME NEW r \in Request, NEW players \in Pair, NEW p \in Port, Create(r, players, p)
        PROVE  FALSE
    BY <1>0, <1>2 DEF Create, Goto, TypeOK
  <1>3. ASSUME NEW r \in Request, NEW s \in sessions, RequestRemove(r, s)  PROVE  FALSE
    BY <1>0, <1>3 DEF RequestRemove, Goto, TypeOK
  <1>4. CASE Crash
    BY <1>4 DEF Crash
  <1>5. CASE (\E p \in Port : Record(p)) \/ Disturb \/ Restart \/ UNCHANGED vars
    BY <1>5 DEF Record, Disturb, Restart, vars
  <1>6. Step(q)
    BY <1>1, <1>2, <1>3, <1>4, <1>5 DEF Next
  <1>7. ~StartContainer(q)
    <2>1. SUFFICES ASSUME StartContainer(q)  PROVE  FALSE
      OBVIOUS
    <2>2. Progress(q) /\ pc[q] = "startContainer"
      BY <1>6, <2>1, StepFrame, Alone DEF StartContainer, At
    <2> QED  BY <2>2 DEF Progress, CreateSteps
  <1> QED
    BY <1>6, <1>7, StepFrame

(* While calm, a remove that answers "ok" has left nothing of its session. *)
THEOREM RemovedLeavesNothing == Spec => RemovedIsGone
  <1>1. CalmInv /\ [Next]_vars =>
           (calm => \A q \in Request : q \notin creates /\ pc[q] # "ok" /\ pc'[q] = "ok" =>
                                          Gone(session[q].id)')
    <2> SUFFICES ASSUME calm, StoreInv, [Next]_vars, NEW q \in Request,
                        q \notin creates, pc[q] # "ok", pc'[q] = "ok"
                 PROVE  Gone(session[q].id)'
      BY DEF CalmInv
    <2> DEFINE id == session[q].id
    <2>1. /\ Step(q) /\ DeleteSession(q) /\ q \in Active /\ session' = session
          /\ Progress(q) /\ up /\ pc[q] = "deleteSession"
          /\ \A r \in Active : r # q => session[r].id # id
      BY LastStep, StepFrame, Alone DEF DeleteSession, At
    <2>2. /\ sessions' = sessions \ SessionsOf(id)
          /\ UNCHANGED <<games, attacks, murmurs, memGames>>
      BY <2>1 DEF DeleteSession, Locked
    <2>3. RowsOf(id) = {} /\ AttacksOf(id) = {} /\ MurmursOf(id) = {}
      <3>1. IdsIn(RowsOf(id)) = {} /\ IdsIn(AttacksOf(id)) = {} /\ MurmursOf(id) = {}
        BY <2>1 DEF Progress, VoiceSteps
      <3> QED  BY <3>1 DEF IdsIn
    <2>4. ASSUME NEW g \in memGames, session[g[1]] # None  PROVE  session[g[1]].id # id
      <3>1. CASE g \in IdsIn(games)
        BY <2>3, <3>1 DEF IdsIn, RowsOf, StoreInv, RowsFit
      <3>2. CASE g \notin IdsIn(games)
        <4>1. PICK r \in Request : pc[r] = "dropGame" /\ g = game[r]
          BY <2>1, <3>2 DEF StoreInv, MemoryFits, Dropping
        <4>2. r \in Active /\ r # q
          BY <2>1, <4>1 DEF Active, RemoveSteps
        <4>3. Progress(r)
          BY <4>2, Alone
        <4>4. session[g[1]].id = session[r].id
          BY <4>1, <4>3 DEF Progress
        <4> QED  BY <2>1, <4>2, <4>4
      <3> QED  BY <3>1, <3>2
    <2>5. id' = id
      BY <2>1
    <2> HIDE DEF id
    <2>6. /\ SessionsOf(id)' = {} /\ RowsOf(id)' = {} /\ AttacksOf(id)' = {}
          /\ MurmursOf(id)' = {}
      BY <2>2, <2>3, <2>5 DEF SessionsOf, RowsOf, AttacksOf, MurmursOf
    <2>7. \A g \in memGames' : session'[g[1]] # None => session'[g[1]].id # id
      BY <2>1, <2>2, <2>4
    <2> QED  BY <2>5, <2>6, <2>7 DEF Gone, id
  <1> QED
    BY <1>1, StoreInductive, PTL DEF Spec, RemovedIsGone

-----------------------------------------------------------------------------
(* Every step of a request, whatever overlaps and whatever fails. *)

LEMMA TodoFinite ==
    ASSUME TypeOK, NEW q \in Request
    PROVE  IsFiniteSet(todo[q])
  <1>1. IsFiniteSet(Order)
    BY SessionAssumption, FS_Interval DEF SessionAssumption, Order
  <1>2. IsFiniteSet(GameId)
    BY <1>1, SessionAssumption, FS_Product DEF SessionAssumption, GameId
  <1> QED
    BY <1>2, FS_Subset DEF TypeOK

LEMMA TodoShrinks ==
    ASSUME TypeOK, NEW q \in Request, NEW id \in todo[q], todo'[q] = todo[q] \ {id}
    PROVE  /\ Cardinality(todo[q]) \in Nat /\ Cardinality(todo[q])' \in Nat
           /\ Cardinality(todo[q])' = Cardinality(todo[q]) - 1
  BY TodoFinite, FS_RemoveElement, FS_CardinalityType, FS_Subset

(* A step within a loop over games, with one game fewer to handle. *)
LEMMA OneGameFewer ==
    ASSUME TypeOK, NEW q \in Request, NEW id \in todo[q], todo'[q] = todo[q] \ {id},
           pc[q] \in {"insertGame", "deleteGame"},
           pc'[q] \in {"insertAttacks", "dropGame"},
           pc[q] = "insertGame" <=> pc'[q] = "insertAttacks"
    PROVE  Closer(q)
  <1>1. /\ Cardinality(todo[q]) \in Nat
        /\ Cardinality(todo'[q]) \in Nat
        /\ Cardinality(todo'[q]) = Cardinality(todo[q]) - 1
    BY TodoShrinks
  <1>2. Left(q) = 2 * Cardinality(todo[q]) /\ Left(q)' = 2 * Cardinality(todo'[q]) + 1
    BY <1>1 DEF Left
  <1>3. Left(q)' < Left(q)
    BY <1>1, <1>2
  <1>4. Rank[pc[q]] = Rank[pc'[q]]
    BY DEF Rank
  <1> QED  BY <1>3, <1>4 DEF Closer

(* No chain of futures loops: each step of a request is closer to its answer. *)
THEOREM RequestsAdvance == Spec => StepsAdvance
  <1>1. ASSUME TypeOK, NEW q \in Request, Step(q)  PROVE  Closer(q)
    <2>0. pc \in [Request -> {"idle"} \cup CreateSteps \cup RemoveSteps \cup Done]
          /\ todo \in [Request -> SUBSET GameId]
      BY <1>1 DEF TypeOK
    <2> USE <2>0 DEF At, Goto, Reject, QueryFails, CreateSteps, RemoveSteps, Done
    <2>1. CASE InsertGame(q)
      <3>1. CASE pc'[q] = "find"
        BY <2>1, <3>1 DEF InsertGame, Closer, Rank
      <3>2. CASE pc'[q] # "find"
        <4>1. /\ pc[q] = "insertGame" /\ pc'[q] = "insertAttacks"
              /\ \E id \in todo[q] : todo'[q] = todo[q] \ {id}
          BY <2>1, <3>2 DEF InsertGame
        <4> QED  BY <1>1, <4>1, OneGameFewer
      <3> QED  BY <3>1, <3>2
    <2>2. CASE DeleteGame(q)
      <3>1. CASE pc'[q] = "deleteAttacks"
        BY <2>2, <3>1 DEF DeleteGame, Closer, Rank
      <3>2. CASE pc'[q] # "deleteAttacks"
        <4>1. /\ pc[q] = "deleteGame" /\ pc'[q] = "dropGame"
              /\ \E id \in todo[q] : todo'[q] = todo[q] \ {id}
          BY <2>2, <3>2 DEF DeleteGame
        <4> QED  BY <1>1, <4>1, OneGameFewer
      <3> QED  BY <3>1, <3>2
    <2>3. CASE InsertAttacks(q) \/ DropGame(q)
      <3>1. /\ todo' = todo
            /\ \/ /\ pc[q] = "insertAttacks"
                  /\ pc'[q] \in {"readGames", "insertGame", "find"}
               \/ /\ pc[q] = "dropGame"
                  /\ pc'[q] \in {"deleteAttacks", "deleteGame"}
        <4>1. CASE InsertAttacks(q)
          BY <4>1 DEF InsertAttacks, work
        <4>2. CASE DropGame(q)
          BY <4>2 DEF DropGame, work
        <4> QED  BY <2>3, <4>1, <4>2
      <3>2. Cardinality(todo[q]) \in Nat
        BY <1>1, TodoFinite, FS_CardinalityType
      <3>3. CASE Rank[pc[q]] < Rank[pc'[q]]
        BY <3>3 DEF Closer
      <3>4. CASE pc'[q] \in {"insertGame", "deleteGame"}
        <4>1. /\ Left(q) = 2 * Cardinality(todo[q]) + 1
              /\ Left(q)' = 2 * Cardinality(todo[q])
          BY <3>1, <3>2, <3>4 DEF Left
        <4>2. Rank[pc[q]] = Rank[pc'[q]]
          BY <3>1, <3>4 DEF Rank
        <4>3. Left(q)' < Left(q)
          BY <3>2, <4>1
        <4> QED  BY <4>2, <4>3 DEF Closer
      <3> QED  BY <3>1, <3>3, <3>4 DEF Rank
    <2>4. CASE ~(InsertGame(q) \/ DeleteGame(q) \/ InsertAttacks(q) \/ DropGame(q))
      <3>1. Rank[pc[q]] < Rank[pc'[q]]
        BY <1>1, <2>4 DEF Step, InsertMurmur, CreateRecDir, CreateContainer, ReadGames,
           InitGames, ReadAttacks, InitAttacks, InitMurmur, OpenRecDir, StartContainer, Find,
           ReadRows, CheckGames, DeleteAttacks, ReadMurmur, RemoveRecDir, StopContainer,
           RemoveContainer, DeleteMurmur, DeleteSession, Rank
      <3> QED  BY <3>1 DEF Closer
    <2> QED  BY <2>1, <2>2, <2>3, <2>4
  <1>2. TypeOK /\ [Next]_vars => \A q \in Request : Step(q) => Closer(q)
    BY <1>1
  <1> QED
    BY <1>2, TypeCorrect, PTL DEF Spec, StepsAdvance
=============================================================================
