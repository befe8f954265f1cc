----------------------------- MODULE GameProofs -----------------------------
(***************************************************************************)
(* Theorems about Game, for any number of players, rounds and answers, any *)
(* number of saves in flight and any number of crashes.                    *)
(***************************************************************************)
EXTENDS Game, TLAPS

-----------------------------------------------------------------------------
(* Lemmas about the game's data. *)

(* gotoRound to a round of the schedule starts that round and touches no
   other; past the schedule it ends the game. *)
LEMMA GotoRoundOpens ==
    ASSUME NEW g \in GameData, NEW r \in Round
    PROVE  LET h == GotoRound(g, r)
           IN  /\ h \in GameData
               /\ h.ready = g.ready /\ h.started = g.started /\ h.ended = g.ended
               /\ h.currentRound = r
               /\ h.rounds[r] = [g.rounds[r] EXCEPT !.started = TRUE]
               /\ \A q \in Round \ {r} : h.rounds[q] = g.rounds[q]
  <1> DEFINE rd == [g.rounds[r] EXCEPT !.started = TRUE]
  <1>1. g.rounds \in [Round -> RoundData]
    BY DEF GameData
  <1>2. rd \in RoundData
    BY <1>1 DEF RoundData
  <1>3. [g.rounds EXCEPT ![r].started = TRUE] = [g.rounds EXCEPT ![r] = rd]
    OBVIOUS
  <1>4. GotoRound(g, r) = [g EXCEPT !.currentRound = r,
                                    !.rounds = [g.rounds EXCEPT ![r] = rd]]
    BY <1>3 DEF GotoRound, GameData
  <1>5. r \in 0 .. NumRounds
    BY GameAssumption DEF Round
  <1>6. QED
    BY <1>1, <1>2, <1>4, <1>5 DEF GameData

LEMMA GotoRoundEnds ==
    ASSUME NEW g \in GameData
    PROVE  LET h == GotoRound(g, NumRounds)
           IN  /\ h \in GameData
               /\ h.ready = g.ready /\ h.started = g.started /\ h.ended = TRUE
               /\ h.currentRound = NumRounds
               /\ h.rounds = g.rounds
  <1>1. NumRounds \notin Round /\ NumRounds \in 0 .. NumRounds
    BY GameAssumption DEF Round
  <1>2. QED
    BY <1>1 DEF GotoRound, GameData

(* Data read back from the database is coherent when what was saved is. *)
LEMMA DeserializeCoherent ==
    ASSUME NEW d \in GameData, Coherent(d)
    PROVE  /\ Deserialize(d) \in GameData
           /\ ~d.started => Coherent(Deserialize(d))
           /\ Deserialize(d).started = d.started
           /\ Deserialize(d).currentRound = d.currentRound
           /\ Deserialize(d).ended = FALSE
           /\ \A q \in Round : Deserialize(d).rounds[q] = BlankRound
  <1>1. BlankRound \in RoundData
    BY DEF BlankRound, RoundData
  <1>2. QED
    BY <1>1, GameAssumption
       DEF Deserialize, GameData, Coherent, Open, BothReady, BlankRound, Round
(* A started game that goes to a round no round beyond which has been touched,
   with no other round open, stays coherent; in particular it has ended exactly
   when it went past the last round. *)
LEMMA GotoRoundCoherent ==
    ASSUME NEW g \in GameData, NEW r \in 0 .. NumRounds,
           g.started, ~g.ended,
           \A q \in Round : ~Open(g, q) \/ q = r,
           \A q \in Round : q > r => g.rounds[q] = BlankRound
    PROVE  Coherent(GotoRound(g, r)) /\ GotoRound(g, r) \in GameData
  <1> DEFINE h == GotoRound(g, r)
  <1>1. CASE r \in Round
    <2>1. /\ h \in GameData
          /\ h.started = g.started /\ h.ended = g.ended
          /\ h.currentRound = r
          /\ h.rounds[r] = [g.rounds[r] EXCEPT !.started = TRUE]
          /\ \A q \in Round \ {r} : h.rounds[q] = g.rounds[q]
      BY <1>1, GotoRoundOpens
    <2>2. g.rounds[r] \in RoundData
      BY <1>1 DEF GameData
    <2>3. h.rounds[r].started
      BY <2>1, <2>2 DEF RoundData
    <2>4. r # NumRounds
      BY <1>1, GameAssumption DEF Round
    <2>5. \A q \in Round : Open(h, q) => q = r
      BY <2>1 DEF Open
    <2>6. \A q \in Round : q > r => h.rounds[q] = BlankRound
      BY <2>1, <1>1 DEF Round
    <2>7. QED
      BY <2>1, <2>3, <2>4, <2>5, <2>6 DEF Coherent
  <1>2. CASE r \notin Round
    <2>1. r = NumRounds
      BY <1>2, GameAssumption DEF Round
    <2>2. /\ h \in GameData
          /\ h.started = g.started /\ h.ended = TRUE
          /\ h.currentRound = NumRounds
          /\ h.rounds = g.rounds
      BY <2>1, GotoRoundEnds
    <2>3. \A q \in Round : ~Open(h, q) /\ ~(q > NumRounds)
      BY <1>2, <2>2, GameAssumption DEF Open, Round
    <2>4. QED
      BY <1>2, <2>1, <2>2, <2>3 DEF Coherent
  <1>3. QED BY <1>1, <1>2

(* Recording an answer ends the round and nothing else. *)
LEMMA AnswerRecorded ==
    ASSUME NEW g \in GameData, NEW r \in Round,
           NEW v \in Option \cup {Undefined}
    PROVE  LET h == RecordAnswer(g, r, v)
           IN  /\ h \in GameData
               /\ h.ready = g.ready /\ h.started = g.started /\ h.ended = g.ended
               /\ h.currentRound = g.currentRound
               /\ h.rounds[r].started = g.rounds[r].started
               /\ h.rounds[r].ended
               /\ \A q \in Round \ {r} : h.rounds[q] = g.rounds[q]
  <1> DEFINE rd == OnAnswer(g.rounds[r], v)
             h == RecordAnswer(g, r, v)
  <1>1. g.rounds \in [Round -> RoundData]
    BY DEF GameData
  <1>2. rd \in RoundData /\ rd.started = g.rounds[r].started /\ rd.ended
    BY <1>1 DEF RoundData, OnAnswer
  <1>3. h = [g EXCEPT !.rounds = [g.rounds EXCEPT ![r] = rd]]
    BY DEF RecordAnswer
  <1>4. QED
    BY <1>1, <1>2, <1>3 DEF GameData

LEMMA AnswerCoherent ==
    ASSUME NEW g \in GameData, NEW r \in Round,
           NEW v \in Option \cup {Undefined},
           Coherent(g), Answerable(g, r)
    PROVE  Coherent(RecordAnswer(g, r, v))
  <1> DEFINE h == RecordAnswer(g, r, v)
  <1>1. /\ h.ready = g.ready /\ h.started = g.started /\ h.ended = g.ended
        /\ h.currentRound = g.currentRound
        /\ h.rounds[r].started = g.rounds[r].started
        /\ h.rounds[r].ended
        /\ \A q \in Round \ {r} : h.rounds[q] = g.rounds[q]
    BY AnswerRecorded
  <1>2. r = g.currentRound /\ g.started
    BY DEF Coherent, Answerable, Open, BlankRound
  <1>3. QED
    BY <1>1, <1>2, GameAssumption
       DEF Coherent, Open, BothReady, Round, GameData

(* A ready flag that does not complete the pair in the lobby changes no more
   than itself. *)
LEMMA ReadyCoherent ==
    ASSUME NEW g \in GameData, NEW p \in Player, NEW flag \in BOOLEAN,
           Coherent(g)
    PROVE  LET h == SetReady(g, p, flag)
           IN  /\ h \in GameData
               /\ h.started = g.started /\ h.ended = g.ended
               /\ h.currentRound = g.currentRound /\ h.rounds = g.rounds
               /\ (h.started \/ ~BothReady(h)) => Coherent(h)
  <1> DEFINE h == SetReady(g, p, flag)
  <1>1. /\ h \in GameData
        /\ h.started = g.started /\ h.ended = g.ended
        /\ h.currentRound = g.currentRound /\ h.rounds = g.rounds
    BY DEF GameData, SetReady
  <1>2. ASSUME h.started \/ ~BothReady(h) PROVE Coherent(h)
    BY <1>1, <1>2 DEF Coherent, Open
  <1>3. QED BY <1>1, <1>2

(* A game just created is coherent. *)
LEMMA NewGameCoherent == NewGame \in GameData /\ Coherent(NewGame)
  <1>1. BlankRound \in RoundData /\ ~BlankRound.started
    BY DEF BlankRound, RoundData
  <1>2. NewGame \in GameData
    BY <1>1, GameAssumption DEF NewGame, GameData, Round
  <1>3. QED
    BY <1>1, <1>2, GameAssumption DEF NewGame, Coherent, BothReady, Open, Round

-----------------------------------------------------------------------------
(* What each handler does to a coherent game. *)

(* The ready that completes the pair opens round 0 of a blank game. *)
LEMMA StartStep ==
    ASSUME TypeOK, Coherent(game), NEW p \in Player, PlayerReadyStarts(p)
    PROVE  /\ ~game.started /\ game.currentRound = 0
           /\ \A q \in Round : game.rounds[q] = BlankRound
           /\ game' \in GameData /\ Coherent(game')
           /\ Running(game') /\ game'.currentRound = 0 /\ Open(game', 0)
           /\ roundTimer' = 0 /\ 0 \in Round
  <1> DEFINE g == SetReady(game, p, TRUE)
             s == [g EXCEPT !.started = TRUE]
  <1>1. /\ g \in GameData /\ ~g.started
        /\ g.currentRound = game.currentRound /\ g.rounds = game.rounds
        /\ g.ended = game.ended /\ g.started = game.started
    BY ReadyCoherent DEF PlayerReadyStarts, TypeOK
  <1>2. /\ ~game.started /\ ~game.ended /\ game.currentRound = 0
        /\ \A q \in Round : game.rounds[q] = BlankRound
    <2>1. ~game.started
      BY <1>1
    <2>2. game.currentRound = 0 /\ \A q \in Round : game.rounds[q] = BlankRound
      BY <2>1 DEF Coherent
    <2>3. ~game.ended
      BY <2>2, GameAssumption DEF Coherent
    <2>4. QED BY <2>1, <2>2, <2>3
  <1>3. /\ s \in GameData /\ s.started /\ s.ended = game.ended
        /\ \A q \in Round : s.rounds[q] = BlankRound
    BY <1>1, <1>2 DEF GameData
  <1>4. 0 \in Round /\ 0 \in 0 .. NumRounds
    BY GameAssumption DEF Round
  <1>5. game' = GotoRound(s, 0) /\ roundTimer' = 0
    BY <1>4 DEF PlayerReadyStarts, ArmedBy
  <1> HIDE DEF s, g
  <1>6. Coherent(GotoRound(s, 0)) /\ GotoRound(s, 0) \in GameData
    <2>1. \A q \in Round : ~Open(s, q) \/ q = 0
      BY <1>3 DEF Open, BlankRound
    <2>2. \A q \in Round : q > 0 => s.rounds[q] = BlankRound
      BY <1>3
    <2>3. s \in GameData /\ s.started /\ ~s.ended
      BY <1>2, <1>3
    <2>4. QED BY <1>4, <2>1, <2>2, <2>3, GotoRoundCoherent
  <1>7. /\ game'.started /\ ~game'.ended /\ game'.currentRound = 0
        /\ game'.rounds[0] = [BlankRound EXCEPT !.started = TRUE]
    BY <1>2, <1>3, <1>4, <1>5, GotoRoundOpens
  <1>8. Running(game') /\ Open(game', 0)
    BY <1>7 DEF Running, Open, BlankRound
  <1>9. QED BY <1>2, <1>4, <1>5, <1>6, <1>7, <1>8

(* An answer is to the open current round; it closes it. *)
LEMMA AnswerStep ==
    ASSUME TypeOK, Coherent(game), NEW r \in Round,
           NEW v \in Option \cup {Undefined}, Answer(r, v)
    PROVE  /\ r = game.currentRound /\ r + 1 \in 1 .. NumRounds
           /\ Running(game) /\ Open(game, r)
           /\ game' \in GameData /\ Coherent(game')
           /\ Running(game') /\ game'.currentRound = r /\ ~Open(game', r)
           /\ \A q \in Round \ {r} : game'.rounds[q] = game.rounds[q]
  <1>1. game' = RecordAnswer(game, r, v) /\ Answerable(game, r)
    BY DEF Answer
  <1>2. game' \in GameData /\ Coherent(game')
    BY <1>1, AnswerRecorded, AnswerCoherent DEF TypeOK
  <1>3. /\ game'.started = game.started /\ game'.ended = game.ended
        /\ game'.currentRound = game.currentRound
        /\ game'.rounds[r].ended
        /\ \A q \in Round \ {r} : game'.rounds[q] = game.rounds[q]
    BY <1>1, AnswerRecorded DEF TypeOK
  <1>4. Open(game, r)
    BY <1>1 DEF Answerable, Open
  <1>5. r = game.currentRound /\ game.started /\ ~game.ended /\ r + 1 \in 1 .. NumRounds
    BY <1>4, GameAssumption DEF Coherent, Open, BlankRound, Round
  <1>6. Running(game) /\ Running(game') /\ ~Open(game', r)
    BY <1>3, <1>5 DEF Running, Open
  <1>7. QED BY <1>2, <1>3, <1>4, <1>5, <1>6

(* The 1 s timeout opens the round after an ended one, or ends the game after
   the last. *)
LEMMA AdvanceStep ==
    ASSUME TypeOK, Coherent(game), OneContinuation,
           NEW r \in 1 .. NumRounds, Advance(r)
    PROVE  /\ Running(game) /\ ~Open(game, game.currentRound)
           /\ roundTimer = NoTimer /\ advance = {r}
           /\ game.currentRound \in Round /\ r = game.currentRound + 1
           /\ game.rounds[game.currentRound].ended
           /\ game' \in GameData /\ Coherent(game')
           /\ game'.started /\ game'.currentRound = r
           /\ r \in Round \/ r = NumRounds
           /\ r \in Round => /\ Running(game') /\ Open(game', r)
                             /\ \A q \in Round \ {r} : game'.rounds[q] = game.rounds[q]
           /\ r = NumRounds => game'.ended /\ game'.rounds = game.rounds
  <1>1. /\ Running(game) /\ ~Open(game, game.currentRound)
        /\ roundTimer = NoTimer /\ advance = {r}
        /\ r = game.currentRound + 1
        /\ game' = GotoRound(game, r)
    BY DEF Advance, OneContinuation
  <1>2. game \in GameData /\ r \in 0 .. NumRounds /\ game.currentRound \in Round
    BY <1>1, GameAssumption DEF TypeOK, GameData, Round
  <1>3. game.currentRound \in Nat /\ game.started /\ ~game.ended
    BY <1>1, <1>2 DEF Running, Round
  <1>4. game.rounds[game.currentRound].ended
    BY <1>1, <1>2, <1>3 DEF Coherent, Open
  <1>5. \A q \in Round : ~Open(game, q) \/ q = r
    BY <1>1 DEF Coherent
  <1>6. \A q \in Round : q >= r => game.rounds[q] = BlankRound
    BY <1>1, <1>3 DEF Coherent, Round
  <1>7. game' \in GameData /\ Coherent(game')
    <2>1. \A q \in Round : q > r => game.rounds[q] = BlankRound
      BY <1>1, <1>3, <1>6 DEF Round
    <2>2. QED BY <1>1, <1>2, <1>3, <1>5, <2>1, GotoRoundCoherent
  <1>8. ASSUME r \in Round
        PROVE  /\ game'.started /\ game'.currentRound = r
               /\ Running(game') /\ Open(game', r)
               /\ \A q \in Round \ {r} : game'.rounds[q] = game.rounds[q]
    <2>1. LET h == GotoRound(game, r)
          IN  /\ h.started = game.started /\ h.ended = game.ended
              /\ h.currentRound = r
              /\ h.rounds[r] = [game.rounds[r] EXCEPT !.started = TRUE]
              /\ \A q \in Round \ {r} : h.rounds[q] = game.rounds[q]
      BY <1>2, <1>8, GotoRoundOpens
    <2>2. game.rounds[r] = BlankRound
      BY <1>1, <1>3, <1>6, <1>8 DEF Round
    <2>3. game'.rounds[r] = [BlankRound EXCEPT !.started = TRUE]
      BY <1>1, <2>1, <2>2
    <2>4. Open(game', r)
      BY <2>3 DEF Open, BlankRound
    <2>5. game'.started /\ ~game'.ended
      BY <1>1, <1>3, <2>1
    <2>6. QED BY <1>1, <2>1, <2>4, <2>5 DEF Running
  <1>9. ASSUME r = NumRounds
        PROVE  /\ game'.started /\ game'.currentRound = r
               /\ game'.ended /\ game'.rounds = game.rounds
    BY <1>1, <1>2, <1>3, <1>9, GotoRoundEnds
  <1>10. r \in Round \/ r = NumRounds
    BY GameAssumption DEF Round
  <1>11. QED BY <1>1, <1>2, <1>4, <1>7, <1>8, <1>9, <1>10

(* A restart takes the game to the beginning of the round its row is at. *)
LEMMA RestartStep ==
    ASSUME TypeOK, SavedCoherent, Restart
    PROVE  /\ game' \in GameData /\ Coherent(game')
           /\ game'.started = row.started /\ game'.currentRound = row.currentRound
           /\ row.currentRound \in Round \/ row.currentRound = NumRounds
           /\ ~row.started => UNCHANGED <<roundTimer, saving>>
           /\ row.started => saving' = saving \cup {game'}
           /\ row.started /\ row.currentRound \in Round =>
                  /\ Running(game') /\ Open(game', row.currentRound)
                  /\ roundTimer' = row.currentRound
           /\ row.started /\ row.currentRound = NumRounds =>
                  game'.ended /\ roundTimer' = roundTimer
  <1> DEFINE g == Deserialize(row)
             k == row.currentRound
  <1>1. row \in GameData /\ Coherent(row) /\ k \in 0 .. NumRounds
    BY DEF TypeOK, SavedCoherent, GameData
  <1>2. /\ g \in GameData /\ (~row.started => Coherent(g))
        /\ g.started = row.started /\ g.currentRound = k
        /\ g.ended = FALSE /\ \A q \in Round : g.rounds[q] = BlankRound
    BY <1>1, DeserializeCoherent
  <1>3. /\ ~g.started => game' = g /\ UNCHANGED <<roundTimer, saving>>
        /\ g.started => /\ game' = GotoRound(g, g.currentRound)
                        /\ roundTimer' = ArmedBy(g.currentRound)
                        /\ saving' = saving \cup {game'}
    BY DEF Restart, Save
  <1>4. k \in Round \/ k = NumRounds
    BY <1>1, GameAssumption DEF Round
  <1> HIDE DEF g, k
  <1>5. CASE ~row.started
    BY <1>2, <1>3, <1>4, <1>5 DEF k
  <1>6. CASE row.started
    <2>1. g.started /\ ~g.ended /\ game' = GotoRound(g, k) /\ roundTimer' = ArmedBy(k)
      BY <1>2, <1>3, <1>6
    <2>2. game' \in GameData /\ Coherent(game')
      <3>1. \A q \in Round : ~Open(g, q) \/ q = k
        BY <1>2 DEF Open, BlankRound
      <3>2. \A q \in Round : q > k => g.rounds[q] = BlankRound
        BY <1>2
      <3>3. QED BY <1>1, <1>2, <2>1, <3>1, <3>2, GotoRoundCoherent
    <2>3. ASSUME k \in Round
          PROVE  /\ game'.started /\ game'.currentRound = k
                 /\ Running(game') /\ Open(game', k) /\ roundTimer' = k
      <3>1. /\ game'.started /\ ~game'.ended /\ game'.currentRound = k
            /\ game'.rounds[k] = [BlankRound EXCEPT !.started = TRUE]
        BY <1>2, <2>1, <2>3, GotoRoundOpens
      <3>2. QED BY <2>1, <2>3, <3>1 DEF Running, Open, BlankRound, ArmedBy
    <2>4. ASSUME k = NumRounds
          PROVE  /\ game'.started /\ game'.currentRound = k
                 /\ game'.ended /\ roundTimer' = roundTimer
      <3>1. k \notin Round
        BY <2>4, GameAssumption DEF Round
      <3>2. QED BY <1>2, <2>1, <2>4, <3>1, GotoRoundEnds DEF ArmedBy
    <2>5. saving' = saving \cup {game'}
      BY <1>2, <1>3, <1>6
    <2>6. k # NumRounds \/ k \notin Round
      BY GameAssumption DEF Round
    <2>7. QED BY <1>4, <1>6, <2>2, <2>3, <2>4, <2>5, <2>6 DEF k
  <1>7. QED BY <1>5, <1>6

-----------------------------------------------------------------------------
(* The inductive invariant. *)

(* A handler that moves the game forward and forks a save of it, before or
   after, leaves nothing saved that is incoherent or ahead. *)
LEMMA SavesFollow ==
    ASSUME TypeOK, SavedCoherent, Coherent(game),
           game' \in GameData, Coherent(game'),
           game.currentRound <= game'.currentRound,
           game.started => game'.started,
           saving' \cup {row'} \subseteq saving \cup {row, game, game'}
    PROVE  SavedCoherent'
  <1> SUFFICES ASSUME NEW g \in saving' \cup {row'}
               PROVE  /\ Coherent(g)
                      /\ g.currentRound <= game'.currentRound
                      /\ g.started => game'.started
    BY DEF SavedCoherent
  <1>1. CASE g \in saving \cup {row}
    <2>1. /\ Coherent(g)
          /\ g.currentRound <= game.currentRound
          /\ g.started => game.started
      BY <1>1 DEF SavedCoherent
    <2>2. /\ g.currentRound \in Nat
          /\ game.currentRound \in Nat
          /\ game'.currentRound \in Nat
      BY <1>1, GameAssumption DEF TypeOK, GameData
    <2>3. QED BY <2>1, <2>2
  <1>2. CASE g = game
    BY <1>2
  <1>3. CASE g = game'
    BY <1>3, GameAssumption DEF GameData
  <1>4. QED BY <1>1, <1>2, <1>3

LEMMA IndInvInit == Init => IndInv
  BY NewGameCoherent, GameAssumption
     DEF Init, IndInv, TypeOK, OneContinuation, SavedCoherent, Running, NewGame

(* Each action preserves the inductive invariant. *)
LEMMA IndInvNext == IndInv /\ [Next]_vars => IndInv'
  <1> SUFFICES ASSUME IndInv, [Next]_vars PROVE IndInv'
    OBVIOUS
  <1>t. /\ TypeOK /\ Coherent(game) /\ OneContinuation /\ SavedCoherent
        /\ up \/ saving = {}
        /\ game.currentRound \in Nat
    BY GameAssumption DEF IndInv, TypeOK, GameData
  <1>1. ASSUME NEW p \in Player, NEW flag \in BOOLEAN, PlayerReady(p, flag)
        PROVE  IndInv'
    <2>1. /\ game' \in GameData /\ Coherent(game')
          /\ game'.started = game.started /\ game'.ended = game.ended
          /\ game'.currentRound = game.currentRound /\ game'.rounds = game.rounds
      BY <1>t, <1>1, ReadyCoherent DEF PlayerReady, TypeOK
    <2>2. saving' \cup {row'} \subseteq saving \cup {row, game, game'} /\ up'
      BY <1>1 DEF PlayerReady, Save, Accepting
    <2>3. TypeOK'
      BY <1>t, <1>1, <2>1 DEF PlayerReady, Save, TypeOK
    <2>4. OneContinuation'
      BY <1>t, <1>1, <2>1 DEF PlayerReady, OneContinuation, Running, Open
    <2>5. SavedCoherent'
      BY <1>t, <2>1, <2>2, SavesFollow
    <2>6. QED BY <2>1, <2>2, <2>3, <2>4, <2>5 DEF IndInv
  <1>2. ASSUME NEW p \in Player, PlayerReadyStarts(p)
        PROVE  IndInv'
    <2>1. /\ ~game.started /\ game.currentRound = 0
          /\ game' \in GameData /\ Coherent(game')
          /\ Running(game') /\ game'.currentRound = 0 /\ Open(game', 0)
          /\ roundTimer' = 0 /\ 0 \in Round
      BY <1>t, <1>2, StartStep
    <2>2. /\ saving' = saving \cup {game'} /\ up /\ up'
          /\ UNCHANGED <<advance, row, up, crashes>>
      BY <1>2 DEF PlayerReadyStarts, Save, Accepting
    <2>3. TypeOK'
      BY <1>t, <2>1, <2>2 DEF TypeOK
    <2>4. OneContinuation'
      BY <1>t, <2>1, <2>2 DEF OneContinuation, Running
    <2>5. SavedCoherent'
      BY <1>t, <2>1, <2>2, SavesFollow
    <2>6. QED BY <2>1, <2>2, <2>3, <2>4, <2>5 DEF IndInv
  <1>3. ASSUME NEW r \in Round, NEW v \in Option \cup {Undefined},
               up, Answer(r, v)
        PROVE  IndInv'
    <2>1. /\ r = game.currentRound /\ r + 1 \in 1 .. NumRounds
          /\ Running(game) /\ Open(game, r)
          /\ game' \in GameData /\ Coherent(game')
          /\ Running(game') /\ game'.currentRound = r /\ ~Open(game', r)
      BY <1>t, <1>3, AnswerStep
    <2>2. /\ roundTimer' = NoTimer /\ advance' = advance \cup {r + 1}
          /\ saving' = saving \cup {game} /\ up' /\ UNCHANGED <<row, up, crashes>>
      BY <1>3 DEF Answer, Save
    <2>3. TypeOK'
      BY <1>t, <2>1, <2>2 DEF TypeOK
    <2>4. OneContinuation'
      BY <1>t, <1>3, <2>1, <2>2 DEF OneContinuation
    <2>5. SavedCoherent'
      <3>1. game.started => game'.started
        BY <2>1 DEF Running
      <3>2. QED BY <1>t, <2>1, <2>2, <3>1, SavesFollow
    <2>6. QED BY <2>1, <2>2, <2>3, <2>4, <2>5 DEF IndInv
  <1>4. ASSUME NEW r \in 1 .. NumRounds, Advance(r)
        PROVE  IndInv'
    <2>1. /\ roundTimer = NoTimer /\ advance = {r}
          /\ r = game.currentRound + 1
          /\ game' \in GameData /\ Coherent(game')
          /\ game'.started /\ game'.currentRound = r
          /\ r \in Round \/ r = NumRounds
          /\ r \in Round => Running(game') /\ Open(game', r)
          /\ r = NumRounds => game'.ended
      BY <1>t, <1>4, AdvanceStep
    <2>2. /\ advance' = advance \ {r} /\ roundTimer' = ArmedBy(r)
          /\ saving' = saving \cup {game'} /\ up' /\ UNCHANGED <<row, up, crashes>>
      BY <1>4 DEF Advance, Save
    <2>3. TypeOK'
      BY <1>t, <2>1, <2>2 DEF TypeOK, ArmedBy
    <2>4. OneContinuation'
      <3>1. CASE r \in Round
        BY <2>1, <2>2, <3>1 DEF OneContinuation, ArmedBy
      <3>2. CASE r = NumRounds
        <4>1. r \notin Round
          BY <3>2, GameAssumption DEF Round
        <4>2. QED BY <2>1, <2>2, <3>2, <4>1 DEF OneContinuation, Running, ArmedBy
      <3>3. QED BY <2>1, <3>1, <3>2
    <2>5. SavedCoherent'
      BY <1>t, <2>1, <2>2, SavesFollow
    <2>6. QED BY <2>1, <2>2, <2>3, <2>4, <2>5 DEF IndInv
  <1>5. ASSUME NEW g \in saving, SaveCommits(g) \/ SaveFails(g)
        PROVE  IndInv'
    <2>1. /\ UNCHANGED <<game, roundTimer, advance, up, crashes>>
          /\ saving' \cup {row'} \subseteq saving \cup {row}
          /\ saving' \subseteq saving /\ row' \in saving \cup {row}
      BY <1>5 DEF SaveCommits, SaveFails
    <2>2. TypeOK'
      BY <1>t, <2>1 DEF TypeOK
    <2>3. Coherent(game)' /\ OneContinuation'
      BY <1>t, <2>1 DEF OneContinuation
    <2>4. SavedCoherent'
      BY <1>t, <2>1 DEF SavedCoherent
    <2>5. up' \/ saving' = {}
      BY <1>t, <2>1
    <2>6. QED BY <2>2, <2>3, <2>4, <2>5 DEF IndInv
  <1>6. CASE Crash
    <2>1. TypeOK'
      <3>1. crashes' \in 0 .. MaxCrashes
        BY <1>t, <1>6, GameAssumption DEF Crash, TypeOK
      <3>2. QED BY <1>t, <1>6, <3>1 DEF Crash, TypeOK
    <2>2. OneContinuation' /\ Coherent(game)' /\ SavedCoherent'
      BY <1>t, <1>6 DEF Crash, OneContinuation, SavedCoherent
    <2>3. saving' = {}
      BY <1>6 DEF Crash
    <2>4. QED BY <2>1, <2>2, <2>3 DEF IndInv
  <1>7. CASE Restart
    <2>1. /\ roundTimer = NoTimer /\ advance = {} /\ saving = {} /\ up'
          /\ UNCHANGED <<advance, row, crashes>>
      BY <1>t, <1>7 DEF Restart, OneContinuation
    <2> DEFINE k == row.currentRound
    <2>2. /\ game' \in GameData /\ Coherent(game')
          /\ game'.started = row.started /\ game'.currentRound = k
          /\ k \in Round \/ k = NumRounds
          /\ ~row.started => UNCHANGED <<roundTimer, saving>>
          /\ row.started => saving' = saving \cup {game'}
          /\ row.started /\ k \in Round =>
                Running(game') /\ Open(game', k) /\ roundTimer' = k
          /\ row.started /\ k = NumRounds => game'.ended /\ roundTimer' = roundTimer
      BY <1>t, <1>7, RestartStep
    <2>3. Coherent(row) /\ row \in GameData /\ k \in Nat
      BY <1>t, GameAssumption DEF SavedCoherent, TypeOK, GameData
    <2> HIDE DEF k
    <2>4. TypeOK'
      BY <1>t, <2>1, <2>2 DEF TypeOK
    <2>5. OneContinuation'
      BY <2>1, <2>2 DEF OneContinuation, Running
    <2>6. SavedCoherent'
      <3>1. saving' \subseteq {game'}
        BY <2>1, <2>2
      <3>2. QED BY <2>1, <2>2, <2>3, <3>1 DEF SavedCoherent, k
    <2>7. QED BY <2>1, <2>2, <2>4, <2>5, <2>6 DEF IndInv
  <1>8. CASE UNCHANGED vars
    <2>1. TypeOK'
      BY <1>t, <1>8 DEF vars, TypeOK
    <2>2. OneContinuation' /\ Coherent(game)' /\ SavedCoherent'
      BY <1>t, <1>8 DEF vars, OneContinuation, SavedCoherent
    <2>3. up' \/ saving' = {}
      BY <1>t, <1>8 DEF vars
    <2>4. QED BY <2>1, <2>2, <2>3 DEF IndInv
  <1>9. ASSUME RoundTimeout PROVE IndInv'
    <2>1. roundTimer \in Round /\ up /\ Answer(roundTimer, Undefined)
      BY <1>t, <1>9 DEF RoundTimeout, TypeOK
    <2>2. QED BY <1>3, <2>1
  <1>10. ASSUME NEW r \in Round, NEW v \in Option, ClientAnswer(r, v)
         PROVE  IndInv'
    BY <1>3, <1>10 DEF ClientAnswer, Accepting
  <1>11. QED
    BY <1>1, <1>2, <1>4, <1>5, <1>6, <1>7, <1>8, <1>9, <1>10 DEF Next

(* IndInv holds in every reachable state. *)
THEOREM Inductive == Spec => []IndInv
  BY IndInvInit, IndInvNext, PTL DEF Spec

-----------------------------------------------------------------------------
(* The safety properties. *)

(* The state has its type. *)
THEOREM TypeCorrect == Spec => []TypeOK
  <1>1. IndInv => TypeOK
    BY DEF IndInv
  <1>2. QED BY <1>1, Inductive, PTL

(* A running game always has exactly one pending continuation: it can neither
   hang nor have a round cut short, after any number of crashes. *)
THEOREM ContinuationUnique == Spec => []OneContinuation
  <1>1. IndInv => OneContinuation
    BY DEF IndInv
  <1>2. QED BY <1>1, Inductive, PTL

(* Only the current round accepts an answer. *)
THEOREM CurrentRoundOnly == Spec => []OnlyCurrentRoundOpen
  <1>1. IndInv => OnlyCurrentRoundOpen
    BY DEF IndInv, Coherent, OnlyCurrentRoundOpen
  <1>2. QED BY <1>1, Inductive, PTL

(* The database, and every save on its way to it, is never ahead of the game,
   in whatever order the saves commit. *)
THEOREM SavesNeverAhead == Spec => []SavedNotAhead
  <1>1. ASSUME IndInv, NEW g \in saving \cup {row}
        PROVE  /\ g.currentRound <= game.currentRound
               /\ g.started => game.started
               /\ g.ended => game.ended
               /\ \A r \in Round : g.rounds[r].started => r <= game.currentRound
    <2>1. /\ Coherent(g) /\ Coherent(game)
          /\ g.currentRound <= game.currentRound /\ (g.started => game.started)
      BY <1>1 DEF IndInv, SavedCoherent
    <2>2. g.currentRound \in 0 .. NumRounds /\ game.currentRound \in 0 .. NumRounds
      BY <1>1 DEF IndInv, TypeOK, GameData
    <2>3. g.ended => game.ended
      BY <2>1, <2>2, GameAssumption DEF Coherent
    <2>4. ASSUME NEW r \in Round, g.rounds[r].started
          PROVE  r <= game.currentRound
      <3>1. ~(r > g.currentRound)
        BY <2>1, <2>4 DEF Coherent, BlankRound
      <3>2. QED BY <2>1, <2>2, <3>1, GameAssumption DEF Round
    <2>5. QED BY <2>1, <2>3, <2>4
  <1>2. IndInv => SavedNotAhead
    BY <1>1 DEF SavedNotAhead
  <1>3. QED BY <1>2, Inductive, PTL

-----------------------------------------------------------------------------
(* The action properties. *)

(* What a step of the living process does to the rounds: it records an answer
   in a round that had none, or it starts the round after an ended one. *)
LEMMA StepOfRounds ==
    ASSUME IndInv, [Next]_vars, up, up'
    PROVE  /\ \A r \in Round : game.rounds[r].ended =>
                                 game'.rounds[r] = game.rounds[r]
           /\ game'.currentRound # game.currentRound =>
                 /\ game'.currentRound = game.currentRound + 1
                 /\ game.rounds[game.currentRound].ended
  <1> DEFINE Goal == /\ \A r \in Round : game.rounds[r].ended =>
                                 game'.rounds[r] = game.rounds[r]
                     /\ game'.currentRound # game.currentRound =>
                           /\ game'.currentRound = game.currentRound + 1
                           /\ game.rounds[game.currentRound].ended
  <1>t. /\ TypeOK /\ Coherent(game) /\ OneContinuation
        /\ game \in GameData /\ roundTimer \in Round \cup {NoTimer}
    BY DEF IndInv, TypeOK
  <1>1. ASSUME NEW p \in Player, NEW flag \in BOOLEAN, PlayerReady(p, flag)
        PROVE  Goal
    <2>1. game'.rounds = game.rounds /\ game'.currentRound = game.currentRound
      BY <1>t, <1>1, ReadyCoherent DEF PlayerReady
    <2>2. QED BY <2>1
  <1>2. ASSUME NEW p \in Player, PlayerReadyStarts(p)
        PROVE  Goal
    <2>1. /\ game.currentRound = 0 /\ game'.currentRound = 0
          /\ \A r \in Round : game.rounds[r] = BlankRound
      BY <1>t, <1>2, StartStep
    <2>2. QED BY <2>1 DEF BlankRound
  <1>3. ASSUME NEW r \in Round, NEW v \in Option \cup {Undefined}, Answer(r, v)
        PROVE  Goal
    <2>1. /\ game'.currentRound = game.currentRound /\ Open(game, r)
          /\ \A q \in Round \ {r} : game'.rounds[q] = game.rounds[q]
      BY <1>t, <1>3, AnswerStep
    <2>2. QED BY <2>1 DEF Open
  <1>4. ASSUME NEW r \in 1 .. NumRounds, Advance(r)
        PROVE  Goal
    <2>1. /\ r = game.currentRound + 1 /\ game'.currentRound = r
          /\ game.rounds[game.currentRound].ended
          /\ r \in Round \/ r = NumRounds
          /\ r \in Round =>
                \A q \in Round \ {r} : game'.rounds[q] = game.rounds[q]
          /\ r = NumRounds => game'.rounds = game.rounds
      BY <1>t, <1>4, AdvanceStep
    <2>2. r \in Round => ~game.rounds[r].ended
      <3>1. r > game.currentRound
        BY <1>t, <2>1, GameAssumption DEF GameData
      <3>2. QED BY <1>t, <3>1 DEF Coherent, BlankRound
    <2>3. QED BY <2>1, <2>2
  <1>5. ASSUME game' = game PROVE Goal
    BY <1>5
  <1>6. ASSUME RoundTimeout PROVE Goal
    <2>1. roundTimer \in Round /\ Answer(roundTimer, Undefined)
      BY <1>t, <1>6 DEF RoundTimeout
    <2>2. QED BY <1>3, <2>1
  <1>7. ASSUME NEW r \in Round, NEW v \in Option, ClientAnswer(r, v)
        PROVE  Goal
    BY <1>3, <1>7 DEF ClientAnswer
  <1>8. ASSUME NEW g \in saving, SaveCommits(g) \/ SaveFails(g)
        PROVE  game' = game
    BY <1>8 DEF SaveCommits, SaveFails
  <1>9. ~Crash /\ ~Restart
    BY DEF Crash, Restart
  <1>10. QED
    <2> HIDE DEF Goal
    <2>1. Goal
      BY <1>1, <1>2, <1>4, <1>5, <1>6, <1>7, <1>8, <1>9 DEF Next, vars
    <2>2. QED BY <2>1 DEF Goal

(* A recorded answer is never overwritten while the process lives. *)
THEOREM AnswersAreFinal == Spec => AnswersFinal
  <1>1. IndInv /\ [Next]_vars =>
          [up /\ up' => \A r \in Round : game.rounds[r].ended =>
                            game'.rounds[r] = game.rounds[r]]_vars
    BY StepOfRounds
  <1>2. QED BY <1>1, Inductive, PTL DEF Spec, AnswersFinal

(* Rounds are entered one by one, each after the one before it has ended. *)
THEOREM RoundsAreInOrder == Spec => RoundsInOrder
  <1>1. IndInv /\ [Next]_vars =>
          [up /\ up' /\ game'.currentRound # game.currentRound =>
             /\ game'.currentRound = game.currentRound + 1
             /\ game.rounds[game.currentRound].ended]_vars
    BY StepOfRounds
  <1>2. QED BY <1>1, Inductive, PTL DEF Spec, RoundsInOrder

(* Once it is in the row, with no older save in flight, the start of a game is
   never lost: what is saved from then on has started, too. *)
THEOREM SavedStartKept == Spec => StartKept
  <1>1. ASSUME IndInv, Next, Durable  PROVE  Durable'
    <2>1. /\ game \in GameData /\ row \in GameData /\ game.started
          /\ row.started /\ \A g \in saving : g.started
      BY <1>1 DEF IndInv, TypeOK, SavedCoherent, Durable
    <2>2. \A g \in GameData, r \in Nat :
             GotoRound(g, r).started = g.started
      BY DEF GotoRound, GameData
    <2>3. \A p \in Player, flag \in BOOLEAN : SetReady(game, p, flag).started
      BY <2>1 DEF SetReady, GameData
    <2>4. ASSUME NEW g, g.started, saving' = saving \cup {g}, row' = row
          PROVE  Durable'
      BY <2>1, <2>4 DEF Durable
    <2>5. CASE \E p \in Player, flag \in BOOLEAN : PlayerReady(p, flag)
      BY <2>3, <2>4, <2>5 DEF PlayerReady, Save
    <2>6. CASE \E p \in Player : PlayerReadyStarts(p)
      BY <2>1, <2>3, <2>6 DEF PlayerReadyStarts
    <2>7. ASSUME NEW r \in Round, NEW v, Answer(r, v)  PROVE  Durable'
      BY <2>1, <2>4, <2>7 DEF Answer, Save
    <2>8. CASE RoundTimeout
      BY <1>1, <2>7, <2>8 DEF RoundTimeout, IndInv, TypeOK
    <2>9. CASE \E r \in 1 .. NumRounds : Advance(r)
      BY <2>1, <2>2, <2>4, <2>9, GameAssumption DEF Advance, Save
    <2>10. CASE \E g \in saving : SaveCommits(g) \/ SaveFails(g)
      BY <2>1, <2>10 DEF SaveCommits, SaveFails, Durable
    <2>11. CASE Crash
      BY <2>1, <2>11 DEF Crash, Durable
    <2>12. CASE Restart
      <3> DEFINE h == Deserialize(row)
      <3>1. h \in GameData /\ h.started /\ h.currentRound \in Nat
        <4>1. row.currentRound \in Nat /\ Coherent(row)
          BY <1>1, <2>1, GameAssumption DEF IndInv, SavedCoherent, GameData
        <4> QED  BY <2>1, <4>1, DeserializeCoherent
      <3>2. GotoRound(h, h.currentRound).started
        BY <2>2, <3>1
      <3> HIDE DEF h
      <3>3. game' = GotoRound(h, h.currentRound) /\ Save(game') /\ row' = row
        BY <2>12, <3>1 DEF Restart, h
      <3> QED  BY <2>4, <3>2, <3>3 DEF Save
    <2> QED
      BY <1>1, <2>5, <2>6, <2>7, <2>8, <2>9, <2>10, <2>11, <2>12 DEF Next, ClientAnswer
  <1>2. IndInv /\ [Next]_vars => [Durable => Durable']_vars
    BY <1>1 DEF vars, Durable
  <1> QED  BY <1>2, Inductive, PTL DEF Spec, StartKept

-----------------------------------------------------------------------------
(* The refinement. *)

(* The phase a game is in, from its data. *)
LEMMA PhaseOf ==
    /\ ~game.started => Phase = "lobby"
    /\ game.started /\ game.ended => Phase = "over"
    /\ Running(game) /\ Open(game, game.currentRound) => Phase = "open"
    /\ Running(game) /\ ~Open(game, game.currentRound) => Phase = "closed"
  BY DEF Phase, Running

LEMMA PhaseOfNext ==
    /\ ~game'.started => Phase' = "lobby"
    /\ game'.started /\ game'.ended => Phase' = "over"
    /\ Running(game') /\ Open(game', game'.currentRound) => Phase' = "open"
    /\ Running(game') /\ ~Open(game', game'.currentRound) => Phase' = "closed"
  BY DEF Phase, Running, Open

(* Every step of the game is a step of GameLifecycle, or leaves its phase and
   round alone. *)
LEMMA StepOfLifecycle ==
    ASSUME IndInv, [Next]_vars
    PROVE  [Lifecycle!Next]_(Lifecycle!vars)
  <1> DEFINE Same == Phase' = Phase /\ game'.currentRound = game.currentRound
             Goal == Lifecycle!Next \/ Same
  <1>t. /\ TypeOK /\ Coherent(game) /\ OneContinuation /\ SavedCoherent
        /\ game \in GameData /\ roundTimer \in Round \cup {NoTimer}
        /\ game.currentRound \in Nat
    BY GameAssumption DEF IndInv, TypeOK, GameData
  <1>0. Lifecycle!Round = Round
    BY DEF Lifecycle!Round, Round
  <1>1. ASSUME NEW p \in Player, NEW flag \in BOOLEAN, PlayerReady(p, flag)
        PROVE  Goal
    <2>1. /\ game'.started = game.started /\ game'.ended = game.ended
          /\ game'.currentRound = game.currentRound /\ game'.rounds = game.rounds
      BY <1>t, <1>1, ReadyCoherent DEF PlayerReady
    <2>2. QED BY <2>1 DEF Phase, Open
  <1>2. ASSUME NEW p \in Player, PlayerReadyStarts(p)
        PROVE  Goal
    <2>1. /\ ~game.started /\ Running(game') /\ Open(game', 0)
          /\ game'.currentRound = 0
      BY <1>t, <1>2, StartStep
    <2>2. Phase = "lobby" /\ Phase' = "open"
      BY <2>1, PhaseOf, PhaseOfNext
    <2>3. Lifecycle!Start
      BY <2>1, <2>2 DEF Lifecycle!Start
    <2>4. QED BY <2>3 DEF Lifecycle!Next
  <1>3. ASSUME NEW r \in Round, NEW v \in Option \cup {Undefined}, Answer(r, v)
        PROVE  Goal
    <2>1. /\ r = game.currentRound /\ game'.currentRound = r
          /\ Running(game) /\ Open(game, r) /\ Running(game') /\ ~Open(game', r)
      BY <1>t, <1>3, AnswerStep
    <2>2. Phase = "open" /\ Phase' = "closed"
      BY <2>1, PhaseOf, PhaseOfNext
    <2>3. Lifecycle!Close
      BY <2>1, <2>2 DEF Lifecycle!Close
    <2>4. QED BY <2>3 DEF Lifecycle!Next
  <1>4. ASSUME NEW r \in 1 .. NumRounds, Advance(r)
        PROVE  Goal
    <2>1. /\ Running(game) /\ ~Open(game, game.currentRound)
          /\ r = game.currentRound + 1 /\ game'.currentRound = r
          /\ game'.started /\ (r \in Round \/ r = NumRounds)
          /\ r \in Round => Running(game') /\ Open(game', r)
          /\ r = NumRounds => game'.ended
      BY <1>t, <1>4, AdvanceStep
    <2>2. Phase = "closed"
      BY <2>1, PhaseOf
    <2>3. CASE r \in Round
      <3>1. Phase' = "open"
        BY <2>1, <2>3, PhaseOfNext
      <3>2. Lifecycle!OpenNext
        BY <1>0, <2>1, <2>2, <2>3, <3>1 DEF Lifecycle!OpenNext
      <3>3. QED BY <3>2 DEF Lifecycle!Next
    <2>4. CASE r = NumRounds
      <3>1. Phase' = "over"
        BY <2>1, <2>4, PhaseOfNext
      <3>2. Lifecycle!Finish
        BY <2>1, <2>2, <2>4, <3>1 DEF Lifecycle!Finish
      <3>3. QED BY <3>2 DEF Lifecycle!Next
    <2>5. QED BY <2>1, <2>3, <2>4
  <1>5. ASSUME game' = game PROVE Goal
    BY <1>5 DEF Phase, Open
  <1>6. ASSUME RoundTimeout PROVE Goal
    <2>1. roundTimer \in Round /\ Answer(roundTimer, Undefined)
      BY <1>t, <1>6 DEF RoundTimeout
    <2>2. QED BY <1>3, <2>1
  <1>7. ASSUME NEW r \in Round, NEW v \in Option, ClientAnswer(r, v)
        PROVE  Goal
    BY <1>3, <1>7 DEF ClientAnswer
  <1>8. ASSUME NEW g \in saving, SaveCommits(g) \/ SaveFails(g)
        PROVE  game' = game
    BY <1>8 DEF SaveCommits, SaveFails
  <1>9. ASSUME Crash PROVE game' = game
    BY <1>9 DEF Crash
  <1>10. ASSUME Restart PROVE Goal
    <2>1. /\ game' \in GameData /\ Coherent(game')
          /\ game'.started = row.started /\ game'.currentRound = row.currentRound
          /\ row.currentRound \in Round \/ row.currentRound = NumRounds
          /\ row.started /\ row.currentRound \in Round =>
                Running(game') /\ Open(game', row.currentRound)
          /\ row.started /\ row.currentRound = NumRounds => game'.ended
      BY <1>t, <1>10, RestartStep
    <2>2. /\ row.currentRound <= game.currentRound /\ row.currentRound \in Nat
          /\ row.started => game.started
      BY <1>t, GameAssumption DEF SavedCoherent, TypeOK, GameData
    <2>3. CASE ~row.started
      <3>1. Phase' = "lobby" /\ game'.currentRound = 0
        BY <2>1, <2>3, PhaseOfNext DEF Coherent
      <3>2. QED BY <3>1 DEF Lifecycle!Rewind, Lifecycle!Next
    <2>4. CASE row.started /\ row.currentRound \in Round
      <3>1. Phase' = "open" /\ game'.currentRound = row.currentRound
        BY <2>1, <2>4, PhaseOfNext
      <3>2. Phase # "lobby"
        BY <2>2, <2>4 DEF Phase
      <3>3. Lifecycle!Rewind
        BY <1>0, <2>2, <2>4, <3>1, <3>2 DEF Lifecycle!Rewind
      <3>4. QED BY <3>3 DEF Lifecycle!Next
    <2>5. CASE row.started /\ row.currentRound = NumRounds
      <3>1. game.currentRound = NumRounds /\ game.started
        BY <1>t, <2>2, <2>5, GameAssumption DEF GameData
      <3>2. game.ended
        BY <1>t, <3>1 DEF Coherent
      <3>3. Phase = "over" /\ Phase' = "over"
        BY <2>1, <2>5, <3>1, <3>2, PhaseOf, PhaseOfNext
      <3>4. QED BY <2>1, <2>5, <3>1, <3>3
    <2>6. QED BY <2>1, <2>3, <2>4, <2>5
  <1>11. QED
    <2> HIDE DEF Goal
    <2>1. Goal
      BY <1>1, <1>2, <1>4, <1>5, <1>6, <1>7, <1>8, <1>9, <1>10 DEF Next, vars
    <2>2. QED BY <2>1 DEF Goal, Lifecycle!vars

(* A game is played as its lifecycle promises: rounds open and close one after
   another, and a restart rewinds it but never skips a round. *)
THEOREM Refinement == Spec => ImplementsLifecycle
  <1>1. Init => Lifecycle!Init
    BY DEF Init, NewGame, Lifecycle!Init, Phase
  <1>2. IndInv /\ [Next]_vars => [Lifecycle!Next]_(Lifecycle!vars)
    BY StepOfLifecycle
  <1>3. QED
    BY <1>1, <1>2, Inductive, PTL DEF Spec, ImplementsLifecycle, Lifecycle!Spec
=============================================================================
