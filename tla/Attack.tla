------------------------------- MODULE Attack -------------------------------
(***************************************************************************)
(* The attacks of one game (src/server/src/lib/attacklib.ts): a listener   *)
(* of the game's "round" event starts processes of mumble-cli, which ask   *)
(* the voice server to mute a player, to play a fake of his voice, and to  *)
(* unmute him.  Nobody waits for a process: only the spoof is chained to   *)
(* the mute.  Between a mute and its unmute there is the 1 s delay that    *)
(* the game puts before each next round (src/server/src/lib/game.ts), and  *)
(* a race the model runs with an explicit clock: the delay "minimizes the  *)
(* chances" of a loss, and a call may take longer.                         *)
(*                                                                         *)
(* The game itself is the abstract GameLifecycle, which Game implements.   *)
(***************************************************************************)
EXTENDS Naturals, FiniteSets

CONSTANTS
    NumRounds,    \* number of rounds of the schedule
    Attacked,     \* the rounds of the schedule that have an attack
    None,         \* nobody is muted
    Delay,        \* ticks of the delay before the next round (1 s)
    CliTimeout,   \* ticks of mumble-cli's own time limit (1 s)
    MaxCalls,     \* bound: processes running as a round opens, after a late call
    MaxFailures,  \* bound: calls of mumble-cli that fail
    MaxCrashes    \* bound: crashes of the server

Round == 0 .. NumRounds - 1

(* The schedules attack neither the last round nor two rounds in a row. *)
ASSUME AttackAssumption ==
    /\ NumRounds \in Nat \ {0}
    /\ Attacked \subseteq Round
    /\ \A a \in Attacked : a + 1 \in Round \ Attacked
    /\ None \notin Nat
    /\ Delay \in Nat \ {0} /\ CliTimeout \in Nat
    /\ MaxCalls \in Nat /\ MaxFailures \in Nat /\ MaxCrashes \in Nat

VARIABLES
    phase, round, \* the game, as in GameLifecycle
    waited,       \* ticks since the current round was closed
    procs,        \* the processes of mumble-cli that are running
    muted,        \* the attack whose mute the voice server obeys, or None
    playing,      \* the attacks whose fake is being played
    late,         \* history: has a call taken as long as the delay?
    missed,       \* the attacks whose mute or unmute failed
    failures, crashes

vars == <<phase, round, waited, procs, muted, playing, late, missed, failures, crashes>>
faults == <<late, missed, failures, crashes>>

Lifecycle == INSTANCE GameLifecycle

-----------------------------------------------------------------------------
(* Processes.  "exit" is a mute that has taken effect: the call is never ended
   by the server, so the process lives until its time limit.  A process is
   chained while the server that started it lives. *)

Command == {"mute", "exit", "spoof", "unmute"}

Process == [cmd : Command, attack : Attacked,
            age : 0 .. Delay + CliTimeout, chained : BOOLEAN]

Launch(cmd, a) == [cmd |-> cmd, attack |-> a, age |-> 0, chained |-> TRUE]

(* Ages beyond these are not told apart.  Only an "exit" ends at its limit: a
   call waits for its connection without a deadline. *)
Limit(p) == IF p.cmd = "exit" THEN CliTimeout ELSE Delay

Older(p) == [p EXCEPT !.age = IF @ < Limit(p) THEN @ + 1 ELSE @]

TypeOK ==
    /\ phase \in {"lobby", "open", "closed", "over"}
    /\ round \in 0 .. NumRounds
    /\ waited \in 0 .. Delay
    /\ procs \subseteq Process
    /\ muted \in Attacked \cup {None}
    /\ playing \subseteq Attacked
    /\ late \in BOOLEAN
    /\ missed \subseteq Attacked
    /\ failures \in 0 .. MaxFailures
    /\ crashes \in 0 .. MaxCrashes

Init ==
    /\ Lifecycle!Init
    /\ waited = 0
    /\ procs = {}
    /\ muted = None
    /\ playing = {}
    /\ late = FALSE
    /\ missed = {}
    /\ failures = 0
    /\ crashes = 0

(* Bounds.  Faults come while no call has been late, and a late call keeps the
   game waiting when too many are running: no property speaks of that time. *)
MayOpen == late => Cardinality(procs) <= MaxCalls
MayFail == ~late /\ failures < MaxFailures
MayCrash == ~late /\ crashes < MaxCrashes

-----------------------------------------------------------------------------
(* The game, and the listener scheduleAttack attaches to it. *)

(* What the "round" event of round r starts. *)
LaunchedLate(r) ==                                 \* mutant: mute a round late
    {Launch("mute", a) : a \in Attacked \cap {r - 1}}
    \cup {Launch("unmute", a) : a \in Attacked \cap {r - 1}}
LaunchedTogether(r) ==                             \* mutant: spoof not chained to the mute
    {Launch(c, a) : c \in {"mute", "spoof"}, a \in Attacked \cap {r}}
    \cup {Launch("unmute", a) : a \in Attacked \cap {r - 1}}
LaunchedUnmutesLate(r) ==                          \* mutant: unmute two rounds later
    {Launch("mute", a) : a \in Attacked \cap {r}}
    \cup {Launch("unmute", a) : a \in Attacked \cap {r - 2}}
Launched(r) ==
    {Launch("mute", a) : a \in Attacked \cap {r}}
    \cup {Launch("unmute", a) : a \in Attacked \cap {r - 1}}

OnRound(r) == procs' = procs \cup Launched(r)

(* The 1 s timeout of answer has expired. *)
DelayOverAtOnce == TRUE                            \* mutant: gotoRound without a delay
DelayOver == waited = Delay

Start == /\ Lifecycle!Start /\ MayOpen
         /\ OnRound(0)
         /\ UNCHANGED <<waited, muted, playing, faults>>

Close == /\ Lifecycle!Close
         /\ waited' = 0
         /\ UNCHANGED <<procs, muted, playing, faults>>

OpenNext == /\ Lifecycle!OpenNext
            /\ DelayOver /\ MayOpen
            /\ OnRound(round')
            /\ UNCHANGED <<waited, muted, playing, faults>>

(* stop fires no "round" event. *)
Finish == /\ Lifecycle!Finish
          /\ DelayOver
          /\ UNCHANGED <<waited, procs, muted, playing, faults>>

(* A crash and the restart after it.  initSession resumes the game, which fires
   "round", before it attaches the listeners of the attacks.  The processes of
   mumble-cli go on, but what was chained to them is lost.  A game that was
   over, and saved so, stops once more. *)
Restart ==
    /\ MayCrash
    /\ crashes' = crashes + 1
    /\ \/ Lifecycle!Rewind
       \/ phase = "over" /\ UNCHANGED <<phase, round>>
    /\ procs' = {[p EXCEPT !.chained = FALSE] : p \in procs}
    /\ UNCHANGED <<waited, muted, playing, late, missed, failures>>

-----------------------------------------------------------------------------
(* The processes, and the voice server. *)

(* shadowmuteUser: what the user says is dropped from now on. *)
Mute(p) ==
    /\ p.cmd = "mute"
    /\ muted' = p.attack
    /\ procs' = (procs \ {p})
                \cup {[Launch("exit", p.attack) EXCEPT !.chained = p.chained]}
    /\ UNCHANGED <<phase, round, waited, playing, faults>>

(* The process ends at its time limit, without an error; the spoof follows. *)
Exit(p) ==
    /\ p.cmd = "exit"
    /\ p.age = CliTimeout
    /\ procs' = (procs \ {p})
                \cup (IF p.chained THEN {Launch("spoof", p.attack)} ELSE {})
    /\ UNCHANGED <<phase, round, waited, muted, playing, faults>>

(* A thread of the voice server plays the file. *)
Spoof(p) ==
    /\ p.cmd = "spoof"
    /\ playing' = playing \cup {p.attack}
    /\ procs' = procs \ {p}
    /\ UNCHANGED <<phase, round, waited, muted, faults>>

FakeEnds(a) ==
    /\ a \in playing
    /\ playing' = playing \ {a}
    /\ UNCHANGED <<phase, round, waited, procs, muted, faults>>

Unmute(p) ==
    /\ p.cmd = "unmute"
    /\ muted' = None
    /\ procs' = procs \ {p}
    /\ UNCHANGED <<phase, round, waited, playing, faults>>

(* The server or the file is not found: an error, reported and not retried. *)
Fails(p) ==
    /\ p.cmd # "exit"
    /\ MayFail
    /\ failures' = failures + 1
    /\ missed' = IF p.cmd = "spoof" THEN missed ELSE missed \cup {p.attack}
    /\ procs' = procs \ {p}
    /\ UNCHANGED <<phase, round, waited, muted, playing, late, crashes>>

(* The user is not found: shadowmute ignores it, asks in vain and succeeds, so
   that after a mute the spoof follows at once. *)
Ignored(p) ==
    /\ p.cmd = "mute" /\ p.chained
    /\ MayFail
    /\ failures' = failures + 1
    /\ missed' = missed \cup {p.attack}
    /\ procs' = (procs \ {p}) \cup {Launch("spoof", p.attack)}
    /\ UNCHANGED <<phase, round, waited, muted, playing, late, crashes>>

-----------------------------------------------------------------------------
(* Time passes while no process is past its own time limit; timers and calls
   may be late. *)

Tick ==
    /\ \A p \in procs : p.cmd = "exit" => p.age < CliTimeout
    /\ waited' = IF phase = "closed" /\ waited < Delay THEN waited + 1 ELSE waited
    /\ procs' = {Older(p) : p \in procs}
    /\ late' = (late \/ \E p \in procs' : p.cmd # "exit" /\ p.age = Delay)
    /\ <<waited, procs>>' # <<waited, procs>>
    /\ UNCHANGED <<phase, round, muted, playing, missed, failures, crashes>>

-----------------------------------------------------------------------------
Next ==
    \/ Start \/ Close \/ OpenNext \/ Finish \/ Restart
    \/ \E p \in procs : \/ Mute(p) \/ Exit(p) \/ Spoof(p) \/ Unmute(p)
                        \/ Fails(p) \/ Ignored(p)
    \/ \E a \in playing : FakeEnds(a)
    \/ Tick

Spec == Init /\ [][Next]_vars

(* A game that has started ends (Game's StartedGameEnds), time passes, and
   mumble-cli keeps its own time limit.  No call is obliged to arrive. *)
Fairness ==
    /\ WF_vars(Close) /\ WF_vars(OpenNext) /\ WF_vars(Finish)
    /\ WF_vars(Tick)
    /\ WF_vars(\E p \in procs : Exit(p))

FairSpec == Spec /\ Fairness

-----------------------------------------------------------------------------
(* Properties.  Each speaks of the time until a call takes as long as the
   delay, which nothing prevents: a mute that slow may arrive after its unmute,
   and an unmute that slow in the round of another attack. *)

InFlight(cmd, a) == \E p \in procs : p.cmd = cmd /\ p.attack = a

(* Until a call is late, whoever is muted has his unmute still to come: the
   round after the attack lies ahead, or its unmute is on its way, or a call of
   that attack failed.  In particular no mute overtakes the unmute that was
   meant to end it, across crashes and rounds that are played again. *)
UnmuteAhead ==
    ~late /\ muted # None =>
        round <= muted \/ InFlight("unmute", muted) \/ muted \in missed

(* Until a call is late or the server crashes, a fake is heard, while its round
   lasts, only over a player who is muted: never both his voices at once. *)
FakeOverSilence ==
    ~late /\ crashes = 0 =>
        \A a \in playing : round = a => muted = a \/ a \in missed

(* Until a call is late or the server crashes: when no mute or unmute is on its
   way, and none has failed, the player is muted in the rounds of the schedule
   that have an attack, and in no other. *)
MutedAsScheduled ==
    ~late /\ crashes = 0 /\ missed = {}
    /\ (\A p \in procs : p.cmd \in {"exit", "spoof"})
        => muted = IF phase # "lobby" /\ round \in Attacked THEN round ELSE None

(* A muted player is heard again, whatever crashes, unless a call is late, or
   the mute or the unmute fails, as neither is tried again, or a restart takes
   the game back to the lobby, where it waits for its players. *)
MutedIsHeard ==
    \A a \in Attacked :
        muted = a ~> muted # a \/ late \/ a \in missed \/ phase = "lobby"

-----------------------------------------------------------------------------
(* The inductive invariant. *)

(* A mute on its way is younger than what has passed since its round closed,
   so it arrives before the next round opens. *)
MuteInTime ==
    \A p \in procs :
        p.cmd = "mute" =>
            /\ p.age < Delay
            /\ round <= p.attack
            /\ round = p.attack /\ phase = "closed" => waited <= p.age

(* The same of an unmute, while the server has not crashed. *)
UnmuteInTime ==
    \A p \in procs :
        p.cmd = "unmute" =>
            /\ p.age < Delay
            /\ round = p.attack + 1
            /\ phase \in {"open", "closed"}
            /\ phase = "closed" => waited <= p.age

Started(a) == phase # "lobby" /\ a <= round

Silenced(a) == round = a => muted = a \/ a \in missed

(* While the server has not crashed: an attack that shows has started, it
   shows over silence in its round, and its round has its mute. *)
AttackInOrder ==
    /\ UnmuteInTime
    /\ \A p \in procs : Started(p.attack)
    /\ \A p \in procs : p.cmd \in {"exit", "spoof"} => Silenced(p.attack)
    /\ \A a \in playing : Started(a) /\ Silenced(a)
    /\ muted # None => Started(muted)
    /\ phase # "lobby" /\ round \in Attacked => Silenced(round) \/ InFlight("mute", round)

(* Until a call is late, every mute arrives in its own round and has its
   unmute ahead; without a crash the whole attack is in order. *)
InOrder == /\ MuteInTime
           /\ UnmuteAhead
           /\ crashes = 0 => AttackInOrder

IndInv == TypeOK /\ (~late => InOrder)
=============================================================================
