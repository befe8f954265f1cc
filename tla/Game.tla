-------------------------------- MODULE Game --------------------------------
(***************************************************************************)
(* One game of a session (src/server/src/lib/game.ts): the Game object in  *)
(* the memory of the Node process, its two timers, the saves it forks, and *)
(* its row of the SQLite database; with crashes and restarts of the        *)
(* process.                                                                *)
(*                                                                         *)
(* The process is single threaded, so a handler is one atomic step.  What  *)
(* a handler leaves behind is not: the timers it arms and the saves it     *)
(* forks complete in later steps, in any order.                            *)
(***************************************************************************)
EXTENDS Naturals, FiniteSets

CONSTANTS
    Player,       \* the two participants, blue and red
    NumRounds,    \* number of rounds of the schedule
    Option,       \* the answers a client may submit
    Undefined,    \* JavaScript's undefined, as an answer
    NoTimer,      \* no round timer is armed
    MaxSaves,     \* bound: clients act only while fewer saves are in flight
    MaxCrashes    \* bound: crashes of the process

ASSUME GameAssumption ==
    /\ Player # {}
    /\ NumRounds \in Nat \ {0}
    /\ Undefined \notin Option
    /\ NoTimer \notin Nat
    /\ MaxSaves \in Nat
    /\ MaxCrashes \in Nat

VARIABLES
    game,         \* the Game object in memory (its last value while down)
    roundTimer,   \* the round whose timeout is armed in gameTimers, or NoTimer
    advance,      \* the rounds that pending 1 s timeouts will go to
    saving,       \* game data of the saves in flight
    row,          \* the game_data column of the game's row
    up,           \* is the process running?
    crashes       \* crashes so far

vars == <<game, roundTimer, advance, saving, row, up, crashes>>

-----------------------------------------------------------------------------
(* Data.  A time is abstracted to whether it is defined. *)

Round == 0 .. NumRounds - 1

RoundData == [started : BOOLEAN, ended : BOOLEAN,
              answer : Option \cup {Undefined}]

GameData == [ready : [Player -> BOOLEAN], started : BOOLEAN, ended : BOOLEAN,
             currentRound : 0 .. NumRounds, rounds : [Round -> RoundData]]

(* createRound keeps the schedule's fields only: a round built from any data
   has no answer and no times. *)
BlankRound == [started |-> FALSE, ended |-> FALSE, answer |-> Undefined]

NewGame == [ready |-> [p \in Player |-> FALSE],
            started |-> FALSE, ended |-> FALSE, currentRound |-> 0,
            rounds |-> [r \in Round |-> BlankRound]]

TypeOK ==
    /\ game \in GameData
    /\ roundTimer \in Round \cup {NoTimer}
    /\ advance \subseteq 1 .. NumRounds
    /\ saving \subseteq GameData
    /\ row \in GameData
    /\ up \in BOOLEAN
    /\ crashes \in 0 .. MaxCrashes

Init ==
    /\ game = NewGame
    /\ roundTimer = NoTimer
    /\ advance = {}
    /\ saving = {}
    /\ row = NewGame
    /\ up = TRUE
    /\ crashes = 0

-----------------------------------------------------------------------------
(* The game's own computations, as functions of its data. *)

(* The guards of answer. *)
AnswerableTwice(g, r) == g.rounds[r].started            \* mutant: "round ended" forgotten
AnswerableEarly(g, r) == ~g.rounds[r].ended             \* mutant: "round not started" forgotten
Answerable(g, r) == g.rounds[r].started /\ ~g.rounds[r].ended

BothReady(g) == \A p \in Player : g.ready[p]

(* gotoRound: past the last round it stops the game. *)
GotoRoundKeepsCurrent(g, r) ==                          \* mutant: currentRound not moved
    IF r \in Round THEN [g EXCEPT !.rounds[r].started = TRUE]
                   ELSE [g EXCEPT !.ended = TRUE]
GotoRound(g, r) ==
    IF r \in Round
    THEN [g EXCEPT !.currentRound = r, !.rounds[r].started = TRUE]
    ELSE [g EXCEPT !.currentRound = r, !.ended = TRUE]

(* The round timer after gotoRound: stop leaves it alone. *)
ArmedByStopToo(r) == r                                  \* mutant: armed past the last round
ArmedByNothing(r) == roundTimer                         \* mutant: scheduleTimer forgotten
ArmedBy(r) == IF r \in Round THEN r ELSE roundTimer

(* onAnswer of a single-answer round. *)
OnAnswerLeavesOpen(rd, value) == [rd EXCEPT !.answer = value]  \* mutant: no endTime
OnAnswer(rd, value) == [rd EXCEPT !.answer = value, !.ended = TRUE]

RecordAnswer(g, r, value) == [g EXCEPT !.rounds[r] = OnAnswer(@, value)]

SetReady(g, p, flag) == [g EXCEPT !.ready[p] = flag]

(* new Game: endTime, and all that createRound drops, is not restored. *)
DeserializeDropsStart(data) ==                          \* mutant: startTime not restored
    [data EXCEPT !.started = FALSE, !.ended = FALSE,
                 !.rounds = [r \in Round |-> BlankRound]]
DeserializeDropsRound(data) ==                          \* mutant: currentRound not restored
    [data EXCEPT !.currentRound = 0, !.ended = FALSE,
                 !.rounds = [r \in Round |-> BlankRound]]
Deserialize(data) ==
    [data EXCEPT !.ended = FALSE, !.rounds = [r \in Round |-> BlankRound]]

(* "state" listeners: fork a save of the game as it now is.  Saves of equal
   data in flight together are one: which of them is last is not told apart. *)
Save(g) == saving' = saving \cup {g}

-----------------------------------------------------------------------------
(* Requests of the clients. *)

Accepting == up /\ Cardinality(saving) < MaxSaves

(* playerReady; startIfPlayersReady has nothing to do.  Also what a socket's
   disconnect does, with flag = FALSE. *)
PlayerReady(p, flag) ==
    LET g == SetReady(game, p, flag)
    IN  /\ Accepting
        /\ g.started \/ ~BothReady(g)
        /\ game' = g
        /\ Save(g)
        /\ UNCHANGED <<roundTimer, advance, row, up, crashes>>

(* playerReady of the last player to be ready starts the game in place. *)
PlayerReadyStarts(p) ==
    LET g == SetReady(game, p, TRUE)
    IN  /\ Accepting
        /\ ~g.started /\ BothReady(g)
        /\ game' = GotoRound([g EXCEPT !.started = TRUE], 0)
        /\ roundTimer' = ArmedBy(0)
        /\ Save(game')
        /\ UNCHANGED <<advance, row, up, crashes>>

(* answer: clears the round timer, saves the game before the answer is in,
   records the answer and schedules the next round. *)
Answer(r, value) ==
    /\ Answerable(game, r)
    /\ roundTimer' = NoTimer
    /\ Save(game)
    /\ game' = RecordAnswer(game, r, value)
    /\ advance' = advance \cup {r + 1}
    /\ UNCHANGED <<row, up, crashes>>

ClientAnswer(r, value) == Accepting /\ Answer(r, value)

-----------------------------------------------------------------------------
(* Timers. *)

(* The round's timeout answers the round with an undefined value. *)
RoundTimeout ==
    /\ up
    /\ roundTimer # NoTimer
    /\ Answer(roundTimer, Undefined)

(* The 1 s timeout set by answer. *)
Advance(r) ==
    /\ up
    /\ r \in advance
    /\ advance' = advance \ {r}
    /\ game' = GotoRound(game, r)
    /\ roundTimer' = ArmedBy(r)
    /\ Save(game')
    /\ UNCHANGED <<row, up, crashes>>

-----------------------------------------------------------------------------
(* Saves.  Each runs on a connection of its own, so they commit in any order;
   one that finds the database locked fails, is logged and is not retried. *)

SaveCommits(g) ==
    /\ g \in saving
    /\ row' = g
    /\ saving' = saving \ {g}
    /\ UNCHANGED <<game, roundTimer, advance, up, crashes>>

SaveFails(g) ==
    /\ g \in saving
    /\ saving' = saving \ {g}
    /\ UNCHANGED <<game, roundTimer, advance, row, up, crashes>>

-----------------------------------------------------------------------------
(* Crash and restart. *)

Crash ==
    /\ up
    /\ crashes < MaxCrashes
    /\ crashes' = crashes + 1
    /\ up' = FALSE
    /\ roundTimer' = NoTimer
    /\ advance' = {}
    /\ saving' = {}
    /\ UNCHANGED <<game, row>>

(* initGame: deserializeGame, then resumeGame re-enters the current round of a
   game that had started. *)
Restart ==
    LET g == Deserialize(row)
    IN  /\ ~up
        /\ up' = TRUE
        /\ \/ /\ ~g.started
              /\ game' = g
              /\ UNCHANGED <<roundTimer, saving>>
           \/ /\ g.started
              /\ game' = GotoRound(g, g.currentRound)
              /\ roundTimer' = ArmedBy(g.currentRound)
              /\ Save(game')
        /\ UNCHANGED <<advance, row, crashes>>

-----------------------------------------------------------------------------
Next ==
    \/ \E p \in Player :
          \/ \E flag \in BOOLEAN : PlayerReady(p, flag)
          \/ PlayerReadyStarts(p)
    \/ \E r \in Round, value \in Option : ClientAnswer(r, value)
    \/ RoundTimeout
    \/ \E r \in 1 .. NumRounds : Advance(r)
    \/ \E g \in saving : SaveCommits(g) \/ SaveFails(g)
    \/ Crash
    \/ Restart

Spec == Init /\ [][Next]_vars

(* Node fires an armed timer, SQLite settles a query, and pm2 restarts the
   server.  No client is obliged to do anything, and no save to succeed. *)
Fairness ==
    /\ WF_vars(RoundTimeout)
    /\ WF_vars(\E r \in 1 .. NumRounds : Advance(r))
    /\ WF_vars(\E g \in saving : SaveCommits(g) \/ SaveFails(g))
    /\ WF_vars(Restart)

FairSpec == Spec /\ Fairness

-----------------------------------------------------------------------------
(* Properties. *)

Running(g) == g.started /\ ~g.ended

Open(g, r) == g.rounds[r].started /\ ~g.rounds[r].ended

(* Only the current round can be open to answers, and no round after it has
   been touched: answer() itself never compares its round to currentRound. *)
OnlyCurrentRoundOpen ==
    \A r \in Round :
        /\ Open(game, r) => r = game.currentRound
        /\ r > game.currentRound => game.rounds[r] = BlankRound

(* A running game has exactly one continuation pending, and it is for the
   current round: the round timer while the round is open, the 1 s timeout to
   the next round once it is answered.  None, and the game would hang; two, and
   a round would be skipped or cut short. *)
OneContinuation ==
    IF up /\ Running(game)
    THEN IF Open(game, game.currentRound)
         THEN roundTimer = game.currentRound /\ advance = {}
         ELSE roundTimer = NoTimer /\ advance = {game.currentRound + 1}
    ELSE roundTimer = NoTimer /\ advance = {}

(* What is saved, or being saved, never runs ahead of the game the players
   have seen, so a restart can repeat a round but not skip one. *)
SavedNotAhead ==
    \A g \in saving \cup {row} :
        /\ g.currentRound <= game.currentRound
        /\ g.started => game.started
        /\ g.ended => game.ended
        /\ \A r \in Round : g.rounds[r].started => r <= game.currentRound

(* While the process lives, a round that has ended never changes again: its
   recorded answer is the first one, whatever clients and timers do later. *)
AnswersFinal ==
    [][up /\ up' =>
         \A r \in Round : game.rounds[r].ended =>
                              game'.rounds[r] = game.rounds[r]]_vars

(* While the process lives, rounds are entered one by one, and a round is left
   only once it has ended. *)
RoundsInOrder ==
    [][up /\ up' /\ game'.currentRound # game.currentRound =>
         /\ game'.currentRound = game.currentRound + 1
         /\ game.rounds[game.currentRound].ended]_vars

(* Once the row says that the game has started, and every save in flight says
   it too, the start is never lost again, through whatever is answered, saved,
   lost or restarted: resumeGame reads it back, and no later save undoes it.
   Until then it may be lost: with a crash before its save has committed, with
   a save that fails, or to an older save that commits last. *)
Durable == row.started /\ \A g \in saving : g.started

StartKept == [][Durable => Durable']_vars

-----------------------------------------------------------------------------
(* The inductive invariant. *)

(* What every value of the game's data satisfies, in memory or saved. *)
Coherent(g) ==
    /\ BothReady(g) => g.started
    /\ ~g.started => g.currentRound = 0 /\ \A r \in Round : g.rounds[r] = BlankRound
    /\ g.ended <=> g.currentRound = NumRounds
    /\ \A r \in Round : Open(g, r) => r = g.currentRound
    /\ \A r \in Round : r > g.currentRound => g.rounds[r] = BlankRound
    /\ g.currentRound \in Round /\ g.started => g.rounds[g.currentRound].started

SavedCoherent ==
    \A g \in saving \cup {row} :
        /\ Coherent(g)
        /\ g.currentRound <= game.currentRound
        /\ g.started => game.started

(* Every game that is held or saved is coherent, nothing saved is ahead,
   exactly one continuation of a running game is pending, and no save outlives
   the process. *)
IndInv == /\ TypeOK
          /\ Coherent(game)
          /\ OneContinuation
          /\ SavedCoherent
          /\ up \/ saving = {}

-----------------------------------------------------------------------------
(* What the repository says of the program and the code does not do. *)

(* "persist game state" (game.ts), "game should save progress" (test/session.ts):
   a restart brings back the answers that were saved.  It does not:
   createRound drops them. *)
RestartKeepsAnswers ==
    [][~up /\ up' => \A r \in Round : row.rounds[r].ended =>
                        game'.rounds[r].answer = row.rounds[r].answer]_vars

-----------------------------------------------------------------------------
(* Refinement. *)

Phase == IF ~game.started THEN "lobby"
         ELSE IF game.ended THEN "over"
         ELSE IF Open(game, game.currentRound) THEN "open" ELSE "closed"

Lifecycle == INSTANCE GameLifecycle
             WITH phase <- Phase, round <- game.currentRound

(* The game is played as GameLifecycle says, with a restart as a rewind. *)
ImplementsLifecycle == Lifecycle!Spec

(* Once started, a game ends, even if every client stays silent. *)
StartedGameEnds == Lifecycle!Progress
=============================================================================
