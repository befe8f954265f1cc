---------------------------- MODULE SessionStore ----------------------------
(***************************************************************************)
(* Sessions as the admin creates and removes them                          *)
(* (src/server/src/lib/session.ts, game.ts, murmurlib.ts): rows of the     *)
(* study_session, game, attack and murmur tables, the games in memory, the *)
(* voice server's container and recording directory.  Each request is a    *)
(* chain of futures: one step per query, Docker call or callback, and the  *)
(* steps of two requests interleave.                                       *)
(***************************************************************************)
EXTENDS Naturals, FiniteSets

CONSTANTS
    Request,      \* the admin's requests; each creates or removes one session
    Player,       \* participants
    Port,         \* a (grpcPort, murmurPort) pair; it names container and directory
    NumGames,     \* games of a session (four in the code)
    Attacked,     \* the games, by order, whose schedule has attacks
    Pair,         \* the (blue, red) participants that an admin may enter
    MaxActive,    \* bound: requests in progress at once
    MaxDisturbed, \* bound: requests made in all, once calm is over
    MaxCrashes,   \* bound: crashes of the process
    Faults,       \* what may go wrong: "db" (a locked database), "docker" (a call
                  \* that fails), "overlap" (two requests about one session)
    None          \* no session, no port, no game

Id == Nat \ {0}
Order == 1 .. NumGames
GameId == Request \X Order               \* a fresh uuid per request and game

SessionRow == [id : Id, players : Player \X Player, port : Port]
GameRow    == [gameId : GameId, sessionId : Id, players : SUBSET Player]
AttackRow  == [gameId : GameId, sessionId : Id]
MurmurRow  == [sessionId : Id, port : Port]

ASSUME SessionAssumption ==
    /\ IsFiniteSet(Request)
    /\ Pair \subseteq Player \X Player
    /\ NumGames \in Nat \ {0}
    /\ MaxActive \in Nat /\ MaxDisturbed \in Nat /\ MaxCrashes \in Nat
    /\ Attacked \subseteq Order
    /\ Faults \subseteq {"db", "docker", "overlap"}
    /\ None \notin SessionRow \cup Port \cup GameId

VARIABLES
    sessions,     \* rows of study_session
    games,        \* rows of game
    attacks,      \* rows of attack: the game they attack, and its session's id
    murmurs,      \* rows of murmur
    memGames,     \* the games in memory
    container,    \* Docker's state per port: "none", "created" or "running"
    recDir,       \* the recording directory per port: "none", "empty" or "full"
    pc,           \* the next step of each request
    creates,      \* the requests that create a session
    session,      \* the session a request is about
    port,         \* the port of the voice server it handles
    todo,         \* the games it has still to handle
    game,         \* the game it is handling
    up,           \* is the process running?
    crashes,      \* crashes so far
    calm          \* history: has no query failed yet, and have no two requests
                  \* been about one session?

tables  == <<sessions, games, attacks, murmurs>>
voice   == <<container, recDir>>
work    == <<session, port, todo, game>>
process == <<creates, up, crashes, calm>>
vars    == <<tables, memGames, voice, pc, work, process>>

-----------------------------------------------------------------------------
CreateSteps == {"insertMurmur", "createRecDir", "createContainer", "insertGame",
                "insertAttacks", "readGames", "initGames", "readAttacks", "initAttacks",
                "initMurmur", "openRecDir", "startContainer"}
RemoveSteps == {"find", "readRows", "checkGames", "deleteGame", "dropGame",
                "deleteAttacks", "readMurmur", "removeRecDir", "stopContainer",
                "removeContainer", "deleteMurmur", "deleteSession"}
Done == {"ok", "rejected", "lost"}

TypeOK ==
    /\ sessions \subseteq SessionRow
    /\ games \subseteq GameRow
    /\ attacks \subseteq AttackRow
    /\ murmurs \subseteq MurmurRow
    /\ memGames \subseteq GameId
    /\ container \in [Port -> {"none", "created", "running"}]
    /\ recDir \in [Port -> {"none", "empty", "full"}]
    /\ pc \in [Request -> {"idle"} \cup CreateSteps \cup RemoveSteps \cup Done]
    /\ creates \subseteq Request
    /\ session \in [Request -> SessionRow \cup {None}]
    /\ port \in [Request -> Port \cup {None}]
    /\ todo \in [Request -> SUBSET GameId]
    /\ game \in [Request -> GameId \cup {None}]
    /\ \A q \in Request : /\ pc[q] \in CreateSteps \cup RemoveSteps => session[q] # None
                          /\ pc[q] = "idle" => q \notin creates /\ session[q] = None
    /\ up \in BOOLEAN
    /\ crashes \in 0 .. MaxCrashes
    /\ calm \in BOOLEAN

Init ==
    /\ sessions = {} /\ games = {} /\ attacks = {} /\ murmurs = {}
    /\ memGames = {}
    /\ container = [p \in Port |-> "none"]
    /\ recDir = [p \in Port |-> "none"]
    /\ pc = [q \in Request |-> "idle"]
    /\ creates = {}
    /\ session = [q \in Request |-> None]
    /\ port = [q \in Request |-> None]
    /\ todo = [q \in Request |-> {}]
    /\ game = [q \in Request |-> None]
    /\ up = TRUE
    /\ crashes = 0
    /\ calm = TRUE

-----------------------------------------------------------------------------
Made == {q \in Request : pc[q] # "idle"}
Active == {q \in Request : pc[q] \in CreateSteps \cup RemoveSteps}

MayStart == /\ Cardinality(Active) < MaxActive
            /\ calm \/ Cardinality(Made) < MaxDisturbed

At(q, step) == up /\ pc[q] = step
Goto(q, step) == pc' = [pc EXCEPT ![q] = step]

(* A rejected create cleans up with removeSession; a rejected remove ends. *)
RejectWithoutCleanup(q) == Goto(q, "rejected")   \* mutant: clean-up forgotten
Reject(q) == Goto(q, IF pc[q] \in CreateSteps THEN "find" ELSE "rejected")

(* Another connection may hold the database's lock.  A query that fails takes no
   effect. *)
Locked == ~calm /\ "db" \in Faults

QueryFails(q) ==
    /\ Locked
    /\ Reject(q)
    /\ UNCHANGED <<tables, memGames, voice, work, process>>

(* The rows with the id of a session. *)
IdsIn(rows) == {r.gameId : r \in rows}
RowsOf(id) == {g \in games : g.sessionId = id}
AttacksOf(id) == {a \in attacks : a.sessionId = id}
MurmursOf(id) == {m \in murmurs : m.sessionId = id}
SessionsOf(id) == {s \in sessions : s.id = id}

(* initGameRows, setMemGame: a game already in memory is replaced. *)
SetMemGames(ids) == memGames \cup ids

(* removeMemGame: findIndex gives -1 for a game that is not in memory, and
   splice(-1, 1) then removes the last game, which may be any. *)
RemoveMemGameAny(id) ==                     \* mutant: the index is always -1
    \/ memGames = {} /\ memGames' = {}
    \/ \E last \in memGames : memGames' = memGames \ {last}
RemoveMemGame(id) ==
    \/ id \in memGames /\ memGames' = memGames \ {id}
    \/ id \notin memGames /\ \E last \in memGames : memGames' = memGames \ {last}
    \/ memGames = {} /\ memGames' = {}

-----------------------------------------------------------------------------
(* Create: createSession. *)

(* insertSession; each column but the id is UNIQUE, on its own. *)
Unique(players, p) ==
    \A s \in sessions : /\ s.port # p
                        /\ s.players[1] # players[1] /\ s.players[2] # players[2]

(* SQLite reuses ids: the new one is one more than the largest in the table. *)
NewIdFromZero == LET ids == {s.id + 1 : s \in sessions} \cup {0}   \* mutant
                 IN  {i \in ids : \A j \in ids : j <= i}
NewId == LET ids == {s.id + 1 : s \in sessions} \cup {1}
         IN  {i \in ids : \A j \in ids : j <= i}

Create(q, players, p) ==
    /\ At(q, "idle") /\ MayStart
    /\ creates' = creates \cup {q}
    /\ \/ /\ Unique(players, p)
          /\ \E id \in NewId :
                LET s == [id |-> id, players |-> players, port |-> p]
                IN  /\ sessions' = sessions \cup {s}
                    /\ session' = [session EXCEPT ![q] = s]
          /\ port' = [port EXCEPT ![q] = p]
          /\ Goto(q, "insertMurmur")
       \/ /\ ~Unique(players, p) \/ Locked
          /\ Goto(q, "rejected")
          /\ UNCHANGED <<sessions, session, port>>
    /\ UNCHANGED <<games, attacks, murmurs, memGames, voice, todo, game, up, crashes, calm>>

(* createMurmur: the row, the directory, the container. *)
InsertMurmur(q) ==
    LET s == session[q] IN
    /\ At(q, "insertMurmur")
    /\ \/ /\ \A m \in murmurs : m.sessionId # s.id /\ m.port # s.port
          /\ murmurs' = murmurs \cup {[sessionId |-> s.id, port |-> s.port]}
          /\ Goto(q, "createRecDir")
       \/ /\ (\E m \in murmurs : m.sessionId = s.id \/ m.port = s.port) \/ Locked
          /\ Reject(q) /\ UNCHANGED murmurs
    /\ UNCHANGED <<sessions, games, attacks, memGames, voice, work, process>>

CreateRecDir(q) ==
    LET p == port[q] IN
    /\ At(q, "createRecDir")
    /\ \/ /\ recDir[p] = "none" /\ recDir' = [recDir EXCEPT ![p] = "empty"]
          /\ Goto(q, "createContainer")
       \/ /\ recDir[p] # "none" /\ UNCHANGED recDir
          /\ Reject(q)
    /\ UNCHANGED <<tables, memGames, container, work, process>>

CreateContainer(q) ==
    LET p == port[q] IN
    /\ At(q, "createContainer")
    /\ \/ /\ container[p] = "none"
          /\ container' = [container EXCEPT ![p] = "created"]
          /\ todo' = [todo EXCEPT ![q] = {q} \X Order]
          /\ Goto(q, "insertGame")
       \/ /\ container[p] # "none" \/ "docker" \in Faults
          /\ Reject(q) /\ UNCHANGED <<container, todo>>
    /\ UNCHANGED <<tables, memGames, recDir, session, port, game, process>>

(* createSessionGames, game by game in their order: insertGame, then
   createGameAttacks. *)
InsertGame(q) ==
    LET s == session[q] IN
    /\ At(q, "insertGame")
    /\ \/ /\ \E id \in todo[q] :
                /\ \A other \in todo[q] : id[2] <= other[2]
                /\ games' = games \cup {[gameId |-> id, sessionId |-> s.id,
                                         players |-> {s.players[1], s.players[2]}]}
                /\ game' = [game EXCEPT ![q] = id]
                /\ todo' = [todo EXCEPT ![q] = @ \ {id}]
          /\ Goto(q, "insertAttacks")
          /\ UNCHANGED <<sessions, attacks, murmurs, memGames, voice, session, port, process>>
       \/ QueryFails(q)

(* One row stands for the attacks of a game. *)
InsertAttacks(q) ==
    LET id == game[q] IN
    /\ At(q, "insertAttacks")
    /\ \/ /\ attacks' = attacks \cup [gameId : {id} \cap (Request \X Attacked),
                                      sessionId : {session[q].id}]
          /\ Goto(q, IF todo[q] = {} THEN "readGames" ELSE "insertGame")
          /\ UNCHANGED <<sessions, games, murmurs, memGames, voice, work, process>>
       \/ id[2] \in Attacked /\ QueryFails(q)

(* initSession: every game row with the session's id is loaded. *)
ReadGames(q) ==
    /\ At(q, "readGames")
    /\ \/ /\ todo' = [todo EXCEPT ![q] = IdsIn(RowsOf(session[q].id))]
          /\ Goto(q, "initGames")
          /\ UNCHANGED <<tables, memGames, voice, session, port, game, process>>
       \/ QueryFails(q)

InitGames(q) ==
    /\ At(q, "initGames")
    /\ memGames' = SetMemGames(todo[q])
    /\ Goto(q, "readAttacks")
    /\ UNCHANGED <<tables, voice, work, process>>

ReadAttacks(q) ==
    /\ At(q, "readAttacks")
    /\ \/ /\ Goto(q, IF AttacksOf(session[q].id) = {} THEN "initMurmur" ELSE "initAttacks")
          /\ UNCHANGED <<tables, memGames, voice, work, process>>
       \/ QueryFails(q)

(* scheduleAttack looks the session of each attack up again. *)
InitAttacks(q) ==
    LET here == SessionsOf(session[q].id) # {} IN
    /\ At(q, "initAttacks")
    /\ \/ here /\ Goto(q, "initMurmur")
       \/ (~here \/ Locked) /\ Reject(q)
    /\ UNCHANGED <<tables, memGames, voice, work, process>>

(* initMurmur: the row found gives the port, as for removal; a directory that is
   already there is taken as it is. *)
InitMurmur(q) ==
    /\ At(q, "initMurmur")
    /\ \/ /\ \E m \in MurmursOf(session[q].id) : port' = [port EXCEPT ![q] = m.port]
          /\ Goto(q, "openRecDir")
       \/ /\ MurmursOf(session[q].id) = {} \/ Locked
          /\ Reject(q) /\ UNCHANGED port
    /\ UNCHANGED <<tables, memGames, voice, session, todo, game, process>>

OpenRecDir(q) ==
    /\ At(q, "openRecDir")
    /\ recDir' = [recDir EXCEPT ![port[q]] = IF @ = "none" THEN "empty" ELSE @]
    /\ Goto(q, "startContainer")
    /\ UNCHANGED <<tables, memGames, container, work, process>>

StartContainer(q) ==
    LET p == port[q] IN
    /\ At(q, "startContainer")
    /\ \/ /\ container[p] # "none"
          /\ container' = [container EXCEPT ![p] = "running"]
          /\ Goto(q, "ok")
       \/ /\ container[p] = "none" \/ "docker" \in Faults
          /\ Reject(q) /\ UNCHANGED container
    /\ UNCHANGED <<tables, memGames, recDir, work, process>>

-----------------------------------------------------------------------------
(* Remove: removeSession, also the clean-up of a create that failed.  Nothing
   in the server keeps two requests about one session apart: while calm, the
   admin waits for the first to be answered. *)

Overlapping == ~calm /\ "overlap" \in Faults

RequestRemove(q, s) ==
    /\ At(q, "idle") /\ MayStart
    /\ ~Overlapping => \A r \in Active : session[r].id # s.id
    /\ session' = [session EXCEPT ![q] = s]
    /\ Goto(q, "find")
    /\ UNCHANGED <<tables, memGames, voice, port, todo, game, process>>

(* getSessionById: the session as the table has it now. *)
Find(q) ==
    /\ At(q, "find")
    /\ \/ /\ \E s \in SessionsOf(session[q].id) : session' = [session EXCEPT ![q] = s]
          /\ Goto(q, "readRows")
       \/ /\ SessionsOf(session[q].id) = {} \/ Locked
          /\ Goto(q, "rejected") /\ UNCHANGED session
    /\ UNCHANGED <<tables, memGames, voice, port, todo, game, process>>

(* removeSessionGames: if one game is not in memory, or a query fails, none of
   the (remaining) games is removed, and removeSession goes on. *)
ReadRows(q) ==
    /\ At(q, "readRows")
    /\ \/ /\ todo' = [todo EXCEPT ![q] = IdsIn(RowsOf(session[q].id))]
          /\ Goto(q, "checkGames")
       \/ Locked /\ Goto(q, "deleteAttacks") /\ UNCHANGED todo
    /\ UNCHANGED <<tables, memGames, voice, session, port, game, process>>

CheckGames(q) ==
    /\ At(q, "checkGames")
    /\ Goto(q, IF todo[q] # {} /\ todo[q] \subseteq memGames
               THEN "deleteGame" ELSE "deleteAttacks")
    /\ UNCHANGED <<tables, memGames, voice, work, process>>

(* removeGame, one game after another, in whatever order the rows were read:
   first the row, then the game in memory. *)
DeleteGame(q) ==
    /\ At(q, "deleteGame")
    /\ \/ /\ \E id \in todo[q] :
                /\ games' = {g \in games : g.gameId # id}
                /\ game' = [game EXCEPT ![q] = id]
                /\ todo' = [todo EXCEPT ![q] = @ \ {id}]
          /\ Goto(q, "dropGame")
       \/ /\ Locked
          /\ Goto(q, "deleteAttacks") /\ UNCHANGED <<games, game, todo>>
    /\ UNCHANGED <<sessions, attacks, murmurs, memGames, voice, session, port, process>>

(* mutant: removeMemGame forgotten *)
DropGameFromTableOnly(q) ==
    /\ At(q, "dropGame")
    /\ Goto(q, IF todo[q] = {} THEN "deleteAttacks" ELSE "deleteGame")
    /\ UNCHANGED <<tables, memGames, voice, work, process>>

DropGame(q) ==
    /\ At(q, "dropGame")
    /\ RemoveMemGame(game[q])
    /\ Goto(q, IF todo[q] = {} THEN "deleteAttacks" ELSE "deleteGame")
    /\ UNCHANGED <<tables, voice, work, process>>

(* mutant: no DELETE FROM attack *)
DeleteAttacksSkipped(q) ==
    /\ At(q, "deleteAttacks")
    /\ Goto(q, "readMurmur")
    /\ UNCHANGED <<tables, memGames, voice, work, process>>

DeleteAttacks(q) ==
    /\ At(q, "deleteAttacks")
    /\ Goto(q, "readMurmur")
    /\ \/ attacks' = attacks \ AttacksOf(session[q].id)
       \/ Locked /\ UNCHANGED attacks
    /\ UNCHANGED <<sessions, games, murmurs, memGames, voice, work, process>>

(* removeSessionMurmur; no failure but that of the last query is passed on. *)
ReadMurmurFound(q) ==                       \* mutant: waits for a row that is not there
    /\ At(q, "readMurmur")
    /\ \E m \in MurmursOf(session[q].id) : port' = [port EXCEPT ![q] = m.port]
    /\ Goto(q, "removeRecDir")
    /\ UNCHANGED <<tables, memGames, voice, session, todo, game, process>>

ReadMurmur(q) ==
    /\ At(q, "readMurmur")
    /\ \/ /\ \E m \in MurmursOf(session[q].id) : port' = [port EXCEPT ![q] = m.port]
          /\ Goto(q, "removeRecDir")
       \/ /\ MurmursOf(session[q].id) = {} \/ Locked
          /\ Goto(q, "deleteSession") /\ UNCHANGED port
    /\ UNCHANGED <<tables, memGames, voice, session, todo, game, process>>

(* rmdirSync runs before the container is stopped, and fails on a directory
   that holds recordings. *)
RemoveRecDir(q) ==
    /\ At(q, "removeRecDir")
    /\ recDir' = [recDir EXCEPT ![port[q]] = IF @ = "empty" THEN "none" ELSE @]
    /\ Goto(q, "stopContainer")
    /\ UNCHANGED <<tables, memGames, container, work, process>>

(* docker stop succeeds on a container that does not run; rm, tried only after a
   stop that succeeded, fails on one that runs. *)
StopContainer(q) ==
    LET p == port[q] IN
    /\ At(q, "stopContainer")
    /\ \/ /\ container[p] # "none"
          /\ container' = [container EXCEPT ![p] = "created"]
          /\ Goto(q, "removeContainer")
       \/ /\ container[p] = "none" \/ "docker" \in Faults
          /\ Goto(q, "deleteMurmur") /\ UNCHANGED container
    /\ UNCHANGED <<tables, memGames, recDir, work, process>>

RemoveContainer(q) ==
    LET p == port[q] IN
    /\ At(q, "removeContainer")
    /\ Goto(q, "deleteMurmur")
    /\ \/ container[p] = "created" /\ container' = [container EXCEPT ![p] = "none"]
       \/ container[p] # "created" /\ UNCHANGED container
       \/ "docker" \in Faults /\ UNCHANGED container
    /\ UNCHANGED <<tables, memGames, recDir, work, process>>

DeleteMurmur(q) ==
    /\ At(q, "deleteMurmur")
    /\ Goto(q, "deleteSession")
    /\ \/ murmurs' = {m \in murmurs : m.port # port[q]}
       \/ Locked /\ UNCHANGED murmurs
    /\ UNCHANGED <<sessions, games, attacks, memGames, voice, work, process>>

(* mutant: a DELETE that fails starts the removal over *)
DeleteSessionRetries(q) ==
    /\ At(q, "deleteSession")
    /\ \/ /\ sessions' = sessions \ SessionsOf(session[q].id)
          /\ Goto(q, IF q \in creates THEN "rejected" ELSE "ok")
       \/ Locked /\ Goto(q, "find") /\ UNCHANGED sessions
    /\ UNCHANGED <<games, attacks, murmurs, memGames, voice, work, process>>

DeleteSession(q) ==
    /\ At(q, "deleteSession")
    /\ \/ /\ sessions' = sessions \ SessionsOf(session[q].id)
          /\ Goto(q, IF q \in creates THEN "rejected" ELSE "ok")
       \/ Locked /\ Goto(q, "rejected") /\ UNCHANGED sessions
    /\ UNCHANGED <<games, attacks, murmurs, memGames, voice, work, process>>

-----------------------------------------------------------------------------
(* Environment. *)

(* From here on a query may fail, and two requests be about one session. *)
Disturb ==
    /\ calm /\ Cardinality(Made) <= MaxDisturbed
    /\ Faults \cap {"db", "overlap"} # {}
    /\ calm' = FALSE
    /\ UNCHANGED <<tables, memGames, voice, pc, work, creates, up, crashes>>

(* A running voice server writes recordings. *)
Record(p) ==
    /\ container[p] = "running" /\ recDir[p] = "empty"
    /\ recDir' = [recDir EXCEPT ![p] = "full"]
    /\ UNCHANGED <<tables, memGames, container, pc, work, process>>

Crash ==
    /\ up /\ crashes < MaxCrashes
    /\ up' = FALSE /\ crashes' = crashes + 1
    /\ memGames' = {}
    /\ pc' = [q \in Request |-> IF q \in Active THEN "lost" ELSE pc[q]]
    /\ UNCHANGED <<tables, voice, work, creates, calm>>

(* initSessions: sessions one after another, before the server listens; the
   failure of one does not keep another from being loaded. *)
Restart ==
    /\ ~up
    /\ up' = TRUE
    /\ \E loaded \in SUBSET sessions :
          LET owned(id) == \E s \in loaded : s.id = id
              ports == {m.port : m \in {n \in murmurs : owned(n.sessionId)}}
          IN  /\ ~Locked => loaded = sessions
              /\ memGames' = IdsIn({g \in games : owned(g.sessionId)})
              /\ \E opened \in SUBSET ports : \E started \in SUBSET opened :
                    /\ ~Locked => opened = ports
                    /\ "docker" \notin Faults => started = opened
                    /\ recDir' = [p \in Port |-> IF p \in opened /\ recDir[p] = "none"
                                                 THEN "empty" ELSE recDir[p]]
                    /\ container' = [p \in Port |-> IF p \in started /\ container[p] # "none"
                                                    THEN "running" ELSE container[p]]
    /\ UNCHANGED <<tables, pc, work, creates, crashes, calm>>

Step(q) ==
    \/ InsertMurmur(q) \/ CreateRecDir(q) \/ CreateContainer(q)
    \/ InsertGame(q) \/ InsertAttacks(q)
    \/ ReadGames(q) \/ InitGames(q) \/ ReadAttacks(q) \/ InitAttacks(q)
    \/ InitMurmur(q) \/ OpenRecDir(q) \/ StartContainer(q)
    \/ Find(q) \/ ReadRows(q) \/ CheckGames(q) \/ DeleteGame(q) \/ DropGame(q) \/ DeleteAttacks(q)
    \/ ReadMurmur(q) \/ RemoveRecDir(q) \/ StopContainer(q) \/ RemoveContainer(q)
    \/ DeleteMurmur(q) \/ DeleteSession(q)

Next ==
    \/ \E q \in Request :
          \/ \E players \in Pair, p \in Port : Create(q, players, p)
          \/ \E s \in sessions : RequestRemove(q, s)
          \/ Step(q)
    \/ \E p \in Port : Record(p)
    \/ Disturb
    \/ Crash
    \/ Restart

Spec == Init /\ [][Next]_vars

-----------------------------------------------------------------------------
(* What the steps of the requests keep up. *)

(* Every game, attack and voice server row names a session of the table. *)
RowsOwned ==
    \A row \in games \cup attacks \cup murmurs : SessionsOf(row.sessionId) # {}

(* While no request is in progress, the games in memory are the table's. *)
MemoryHoldsTable ==
    up /\ Active = {} => memGames = IdsIn(games)

(* A session nobody is creating or removing, and no crash cut short, has all
   its games, each of its own players and each in memory, all their attacks,
   its voice server row, and a running voice server with a recording
   directory. *)
Settled(s) ==
    \A q \in Request :
        session[q] # None /\ session[q].id = s.id => pc[q] \in {"ok", "rejected"}

Complete(s) ==
    /\ \E q \in Request : /\ IdsIn(RowsOf(s.id)) = {q} \X Order
                          /\ IdsIn(AttacksOf(s.id)) = {q} \X Attacked
    /\ \A g \in RowsOf(s.id) : /\ g.players = {s.players[1], s.players[2]}
                               /\ up => g.gameId \in memGames
    /\ [sessionId |-> s.id, port |-> s.port] \in murmurs
    /\ container[s.port] = "running"
    /\ recDir[s.port] # "none"

SessionComplete == \A s \in sessions : Settled(s) => Complete(s)

(* No game of a rejected create is left, in the table or in memory. *)
NoGameOfRejected ==
    \A id \in IdsIn(games) \cup memGames :
        ~(id[1] \in creates /\ pc[id[1]] = "rejected")

(* Nothing in the tables or in memory belongs to the session with this id. *)
Gone(id) ==
    /\ SessionsOf(id) = {} /\ RowsOf(id) = {} /\ AttacksOf(id) = {} /\ MurmursOf(id) = {}
    /\ \A g \in memGames : session[g[1]] # None => session[g[1]].id # id

-----------------------------------------------------------------------------
(* The inductive invariant, while calm. *)

OnePerSession ==
    /\ \A q, r \in Active : session[q].id = session[r].id => q = r
    /\ ~up => Active = {}

(* No two sessions share an id or a port. *)
KeysUnique == \A s, t \in sessions : s.id = t.id \/ s.port = t.port => s = t

(* Whose a row is: a game row is of the session its request is about, with
   that session's players, and no rejected create has any; a voice server row
   is of the session with its id and its port. *)
RowsFit ==
    /\ RowsOwned
    /\ \A g \in games :
          LET q == g.gameId[1] IN
          /\ session[q] # None /\ g.sessionId = session[q].id
          /\ q \in creates /\ pc[q] # "rejected"
          /\ \A s \in SessionsOf(g.sessionId) : g.players = {s.players[1], s.players[2]}
    /\ \A m \in murmurs : \A s \in SessionsOf(m.sessionId) : s.port = m.port

(* Memory holds the games of the table, but those of a create that has not
   loaded them yet, and with the one whose row a remove has just deleted. *)
LoadSteps == {"insertMurmur", "createRecDir", "createContainer", "insertGame",
              "insertAttacks", "readGames", "initGames"}
Unloaded == {id \in GameId : pc[id[1]] \in LoadSteps}
Dropping == {game[q] : q \in {r \in Request : pc[r] = "dropGame"}}

MemoryFits ==
    /\ up => memGames = (IdsIn(games) \ Unloaded) \cup Dropping
    /\ ~up => memGames = {}
    /\ \A id \in Dropping :
          id \notin IdsIn(games) /\ ~(id[1] \in creates /\ pc[id[1]] = "rejected")

(* How far a request in progress is. *)
VoiceSteps == {"removeRecDir", "stopContainer", "removeContainer", "deleteMurmur"}

Progress(q) ==
    LET s == session[q]
        rows == IdsIn(RowsOf(s.id))
        targets == IdsIn(AttacksOf(s.id))
        own == {q} \X Order
        hasMurmur == [sessionId |-> s.id, port |-> s.port] \in murmurs
    IN
    /\ s \in sessions
    /\ pc[q] \in CreateSteps => q \in creates /\ port[q] = s.port
    /\ pc[q] \in {"insertMurmur", "createRecDir", "createContainer"} =>
          rows = {} /\ targets = {}
    /\ pc[q] = "insertMurmur" => MurmursOf(s.id) = {}
    /\ pc[q] \in CreateSteps \ {"insertMurmur"} => hasMurmur
    /\ pc[q] = "insertGame" =>
          /\ todo[q] \subseteq own /\ todo[q] # {} /\ rows = own \ todo[q]
          /\ targets = ({q} \X Attacked) \ todo[q]
    /\ pc[q] = "insertAttacks" =>
          /\ todo[q] \subseteq own /\ rows = own \ todo[q]
          /\ game[q] \in rows
          /\ targets = (({q} \X Attacked) \ todo[q]) \ {game[q]}
    /\ pc[q] \in {"readGames", "initGames", "readAttacks", "initAttacks", "initMurmur",
                  "openRecDir", "startContainer"} =>
          rows = own /\ targets = {q} \X Attacked
    /\ pc[q] \in {"initGames", "checkGames", "deleteGame", "dropGame"} => todo[q] = rows
    /\ pc[q] = "deleteGame" => todo[q] # {}
    /\ pc[q] = "dropGame" =>
          session[game[q][1]] # None /\ session[game[q][1]].id = s.id
    /\ pc[q] = "startContainer" => recDir[s.port] # "none"
    /\ pc[q] \in VoiceSteps \cup {"deleteAttacks", "readMurmur", "deleteSession"} => rows = {}
    /\ pc[q] \in VoiceSteps \cup {"readMurmur", "deleteSession"} => targets = {}
    /\ pc[q] \in VoiceSteps => port[q] = s.port
    /\ pc[q] = "deleteSession" => MurmursOf(s.id) = {}

StoreInv ==
    /\ TypeOK
    /\ OnePerSession
    /\ KeysUnique
    /\ RowsFit
    /\ MemoryFits
    /\ \A q \in Active : Progress(q)
    /\ SessionComplete

-----------------------------------------------------------------------------
(* Properties.  Those that begin with calm hold until a query fails or two
   requests are about one session, whatever Docker calls fail and wherever a
   crash comes: the code breaks each of them after that. *)

(* While calm, every row has its session.  SQLite does not enforce the FOREIGN
   KEYs of init.sql, and ids are reused: a row left behind would be adopted by a
   later session.  The order of the inserts and of the deletes sees to it. *)
RowsStayOwned == calm => RowsOwned

(* While calm, initGame, removeMemGame and initSessions keep memGames with the
   table of games. *)
MemoryIsKept == calm => MemoryHoldsTable

(* While calm, a settled session is complete, whatever Docker calls of other
   requests fail and wherever their steps come in between. *)
SettledIsComplete == calm => SessionComplete

(* While calm, the clean-up of a create that is rejected by a conflict or by
   Docker removes every game it made. *)
RejectedIsCleared == calm => NoGameOfRejected

(* While calm, a remove that answers "ok" has left nothing of its session in
   the tables or in memory: deleteSession is reached whatever the parts of
   removeSession came to, and its answer says nothing of them. *)
RemovedIsGone ==
    [][calm => \A q \in Request : q \notin creates /\ pc[q] # "ok" /\ pc'[q] = "ok" =>
                                    Gone(session[q].id)']_vars

(* While calm, every request in progress, every row and every game in memory
   is where StoreInv has it. *)
CalmInv == calm => StoreInv

(* Each step of a request brings it closer to its answer: no chain of futures
   loops, and each round of the loops over games leaves fewer of them. *)
Rank == [insertMurmur |-> 1, createRecDir |-> 2, createContainer |-> 3,
         insertGame |-> 4, insertAttacks |-> 4, readGames |-> 5, initGames |-> 6,
         readAttacks |-> 7, initAttacks |-> 8, initMurmur |-> 9, openRecDir |-> 10,
         startContainer |-> 11, find |-> 12, readRows |-> 13, checkGames |-> 14,
         deleteGame |-> 15, dropGame |-> 15, deleteAttacks |-> 16, readMurmur |-> 17,
         removeRecDir |-> 18, stopContainer |-> 19, removeContainer |-> 20,
         deleteMurmur |-> 21, deleteSession |-> 22,
         ok |-> 23, rejected |-> 23, lost |-> 23]

Left(q) == 2 * Cardinality(todo[q])
              + (IF pc[q] \in {"insertAttacks", "dropGame"} THEN 1 ELSE 0)

Closer(q) == \/ Rank[pc[q]] < Rank[pc'[q]]
             \/ Rank[pc[q]] = Rank[pc'[q]] /\ Left(q)' < Left(q)

StepsAdvance == [][\A q \in Request : Step(q) => Closer(q)]_vars

(* No request waits for what never comes: whatever rows, containers and
   directories the others and the crashes have left, its next step has an
   outcome, and with StepsAdvance it is answered. *)
NeverStuck == up => \A q \in Active : ENABLED Step(q)

-----------------------------------------------------------------------------
(* What the repository says of the program and the code does not do. *)

=============================================================================
