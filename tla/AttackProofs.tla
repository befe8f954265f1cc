---------------------------- MODULE AttackProofs ----------------------------
(***************************************************************************)
(* Theorems about Attack, for any schedule without neighbouring or final   *)
(* attacks, any delay, and any number of failures and crashes: its type,   *)
(* whatever the calls do, and its safety invariants, until a call takes as *)
(* long as the delay.                                                      *)
(***************************************************************************)
EXTENDS Attack, TLAPS

(* What the assumption says of one attack. *)
LEMMA AttackedRound ==
    ASSUME NEW a \in Attacked
    PROVE  a \in Nat /\ a # None /\ a + 1 \in Round /\ a + 1 \notin Attacked
  BY AttackAssumption DEF Round

(* A process that is launched is a process. *)
LEMMA LaunchIsProcess ==
    ASSUME NEW cmd \in Command, NEW a \in Attacked
    PROVE  Launch(cmd, a) \in Process
  BY AttackAssumption DEF Launch, Process

(* What a round launches: a mute of its attack, an unmute of the last one. *)
LEMMA LaunchedProcess ==
    ASSUME NEW r \in Nat, NEW p \in Launched(r)
    PROVE  /\ p \in Process /\ p.age = 0
           /\ \/ p.cmd = "mute" /\ p.attack = r
              \/ p.cmd = "unmute" /\ r = p.attack + 1
  <1>1. PICK cmd \in {"mute", "unmute"}, a \in Attacked :
            /\ p = Launch(cmd, a)
            /\ \/ cmd = "mute" /\ a = r
               \/ cmd = "unmute" /\ r = a + 1
    BY AttackedRound DEF Launched
  <1>2. QED BY <1>1, LaunchIsProcess DEF Launch, Command

-----------------------------------------------------------------------------
(* The type, which no late call disturbs. *)

LEMMA TypeInit == Init => TypeOK
  <1> SUFFICES ASSUME Init  PROVE TypeOK
    OBVIOUS
  <1>1. late \in BOOLEAN
    BY DEF Init
  <1>2. phase = "lobby" /\ round = 0 /\ round \in 0 .. NumRounds /\ waited \in 0 .. Delay
    BY AttackAssumption DEF Init, Lifecycle!Init
  <1>3. /\ procs = {} /\ muted = None /\ playing = {} /\ missed = {}
        /\ failures \in 0 .. MaxFailures /\ crashes \in 0 .. MaxCrashes
    BY AttackAssumption DEF Init
  <1> QED  BY <1>1, <1>2, <1>3 DEF TypeOK

LEMMA TypeNext == TypeOK /\ [Next]_vars => TypeOK'
  <1> SUFFICES ASSUME TypeOK, [Next]_vars  PROVE TypeOK'
    OBVIOUS
  <1>1. CASE Start \/ OpenNext
    <2>1. PICK r \in Nat : procs' = procs \cup Launched(r)
      BY <1>1 DEF Start, OpenNext, OnRound, Lifecycle!OpenNext, TypeOK
    <2>2. procs' \subseteq Process
      BY <2>1, LaunchedProcess DEF TypeOK
    <2>3. phase' = "open" /\ round' \in 0 .. NumRounds
      BY <1>1, AttackAssumption
         DEF Start, OpenNext, Lifecycle!Start, Lifecycle!OpenNext, Lifecycle!Round, TypeOK
    <2>4. UNCHANGED <<waited, muted, playing, late, missed, failures, crashes>>
      BY <1>1 DEF Start, OpenNext, faults
    <2> QED  BY <2>2, <2>3, <2>4 DEF TypeOK
  <1>2. CASE Close \/ Finish
    BY <1>2, AttackAssumption
       DEF Close, Finish, Lifecycle!Close, Lifecycle!Finish, TypeOK, faults
  <1>3. CASE Restart
    <2>1. /\ crashes' \in 0 .. MaxCrashes
          /\ phase' \in {"lobby", "open", "closed", "over"} /\ round' \in 0 .. NumRounds
          /\ UNCHANGED <<waited, muted, playing, late, missed, failures>>
      BY <1>3, AttackAssumption
         DEF Restart, MayCrash, Lifecycle!Rewind, Lifecycle!Round, TypeOK
    <2>2. procs' \subseteq Process
      BY <1>3 DEF Restart, TypeOK, Process
    <2> QED  BY <2>1, <2>2 DEF TypeOK
  <1>4. ASSUME NEW p \in procs,
               Mute(p) \/ Exit(p) \/ Spoof(p) \/ Unmute(p) \/ Fails(p) \/ Ignored(p)
        PROVE  TypeOK'
    <2>1. p \in Process /\ p.attack \in Attacked /\ p.chained \in BOOLEAN
      BY DEF TypeOK, Process
    <2>2. /\ [Launch("exit", p.attack) EXCEPT !.chained = p.chained] \in Process
          /\ Launch("spoof", p.attack) \in Process
      BY <2>1, LaunchIsProcess DEF Command, Process
    <2>3. procs' \subseteq Process
      BY <1>4, <2>2 DEF Mute, Exit, Spoof, Unmute, Fails, Ignored, TypeOK
    <2>4. muted' \in Attacked \cup {None} /\ playing' \subseteq Attacked
      BY <1>4, <2>1 DEF Mute, Exit, Spoof, Unmute, Fails, Ignored, TypeOK
    <2>5. missed' \subseteq Attacked /\ failures' \in 0 .. MaxFailures
      BY <1>4, <2>1, AttackAssumption
         DEF Mute, Exit, Spoof, Unmute, Fails, Ignored, MayFail, TypeOK, faults
    <2>6. UNCHANGED <<phase, round, waited, late, crashes>>
      BY <1>4 DEF Mute, Exit, Spoof, Unmute, Fails, Ignored, faults
    <2> QED  BY <2>3, <2>4, <2>5, <2>6 DEF TypeOK
  <1>5. ASSUME NEW a \in playing, FakeEnds(a)  PROVE TypeOK'
    BY <1>5 DEF FakeEnds, TypeOK, faults
  <1>6. CASE Tick
    <2>1. waited' \in 0 .. Delay
      BY <1>6, AttackAssumption DEF Tick, TypeOK
    <2>2. ASSUME NEW p \in procs  PROVE Older(p) \in Process
      <3>1. p \in Process /\ p.age \in Nat /\ Limit(p) \in Nat
            /\ Limit(p) <= Delay + CliTimeout
        BY AttackAssumption DEF TypeOK, Process, Limit
      <3>2. (IF p.age < Limit(p) THEN p.age + 1 ELSE p.age) \in 0 .. Delay + CliTimeout
        BY <3>1, AttackAssumption DEF Process
      <3> QED  BY <3>1, <3>2 DEF Older, Process
    <2>3. procs' \subseteq Process
      BY <1>6, <2>2 DEF Tick
    <2>4. late' \in BOOLEAN /\ UNCHANGED <<phase, round, muted, playing, missed, failures, crashes>>
      BY <1>6 DEF Tick
    <2> QED  BY <2>1, <2>3, <2>4 DEF TypeOK
  <1>7. CASE UNCHANGED vars
    BY <1>7 DEF vars, TypeOK
  <1> QED  BY <1>1, <1>2, <1>3, <1>4, <1>5, <1>6, <1>7 DEF Next

-----------------------------------------------------------------------------
(* The game's steps. *)

(* Rounds are opened only by steps that launch what the round demands. *)
LEMMA StartStep == ASSUME IndInv, ~late, ~late', Start PROVE InOrder'
  <1>1. /\ phase = "lobby" /\ phase' = "open" /\ round' = 0
        /\ procs' = procs \cup Launched(0)
        /\ UNCHANGED <<waited, muted, playing, missed, failures, crashes>>
    BY DEF Start, Lifecycle!Start, OnRound, faults
  <1>t. TypeOK
    BY DEF IndInv, InOrder
  <1>2. \A p \in Launched(0) : p \in Process /\ p.age = 0 /\ p.cmd = "mute" /\ p.attack = 0
    BY LaunchedProcess, AttackedRound DEF Process
  <1>4. MuteInTime'
    BY <1>1, <1>2, <1>t, AttackedRound, AttackAssumption
       DEF IndInv, InOrder, MuteInTime, TypeOK, Process
  <1>5. UnmuteAhead'
    BY <1>1, <1>t, AttackedRound DEF UnmuteAhead, TypeOK
  <1>6. ASSUME crashes' = 0 PROVE AttackInOrder'
    <2>1. procs = {} /\ playing = {} /\ muted = None
      BY <1>1, <1>6 DEF IndInv, InOrder, AttackInOrder, Started
    <2>2. 0 \in Attacked => Launch("mute", 0) \in Launched(0)
      BY DEF Launched
    <2>3. QED
      BY <1>1, <1>2, <2>1, <2>2
         DEF AttackInOrder, UnmuteInTime, Started, Silenced, InFlight, Launch
  <1>7. QED BY <1>4, <1>5, <1>6 DEF InOrder

LEMMA CloseStep == ASSUME IndInv, ~late, ~late', Close PROVE InOrder'
  <1>1. /\ phase = "open" /\ phase' = "closed" /\ waited' = 0
        /\ UNCHANGED <<round, procs, muted, playing, missed, failures, crashes>>
    BY DEF Close, Lifecycle!Close, faults
  <1>3. MuteInTime'
    BY <1>1 DEF IndInv, InOrder, MuteInTime, TypeOK, Process
  <1>4. UnmuteAhead'
    BY <1>1 DEF IndInv, InOrder, UnmuteAhead, InFlight
  <1>5. crashes' = 0 => AttackInOrder'
    BY <1>1 DEF IndInv, InOrder, AttackInOrder, UnmuteInTime, Started, Silenced, InFlight, TypeOK, Process
  <1>6. QED BY <1>3, <1>4, <1>5 DEF InOrder

(* When a closed round has waited for the delay, neither a mute nor, without a
   crash, an unmute of it is still on its way. *)
LEMMA NothingLate ==
    ASSUME IndInv, ~late, ~late', phase = "closed", waited = Delay, NEW p \in procs
    PROVE  /\ p.cmd = "mute" => round < p.attack
           /\ crashes = 0 => p.cmd \in {"exit", "spoof"}
  <1>1. p.age \in Nat /\ p.attack \in Nat /\ p.cmd \in Command /\ round \in Nat
    BY AttackedRound DEF IndInv, InOrder, TypeOK, Process
  <1>2. p.cmd = "mute" => round < p.attack
    BY <1>1, AttackAssumption DEF IndInv, InOrder, MuteInTime
  <1>3. ASSUME crashes = 0 PROVE p.cmd # "mute" /\ p.cmd # "unmute"
    <2>1. AttackInOrder
      BY <1>3 DEF IndInv, InOrder
    <2>2. p.attack <= round
      BY <2>1 DEF AttackInOrder, Started
    <2>3. p.cmd # "unmute"
      BY <2>1, <1>1, AttackAssumption DEF AttackInOrder, UnmuteInTime
    <2>4. QED BY <1>1, <1>2, <2>2, <2>3
  <1>4. QED BY <1>1, <1>2, <1>3 DEF Command

(* The next round: the mute of the closed one has arrived, and its unmute is
   launched; so is the mute of the round that opens. *)
LEMMA OpenNextStep == ASSUME IndInv, ~late, ~late', OpenNext PROVE InOrder'
  <1>1. /\ phase = "closed" /\ phase' = "open"
        /\ round + 1 \in Round /\ round' = round + 1
        /\ waited = Delay
        /\ procs' = procs \cup Launched(round + 1)
        /\ UNCHANGED <<waited, muted, playing, missed, failures, crashes>>
    BY DEF OpenNext, Lifecycle!OpenNext, Lifecycle!Round, Round, OnRound, DelayOver, faults
  <1>t. TypeOK /\ round \in Nat
    BY DEF IndInv, InOrder, TypeOK
  <1>2. \A p \in Launched(round + 1) :
            /\ p \in Process /\ p.age = 0
            /\ \/ p.cmd = "mute" /\ p.attack = round + 1
               \/ p.cmd = "unmute" /\ round + 1 = p.attack + 1
    BY <1>t, LaunchedProcess
  <1>4. MuteInTime'
    <2>1. \A p \in procs : p.cmd = "mute" =>
              p.age < Delay /\ round < p.attack /\ p.attack \in Nat
      BY <1>1, NothingLate, <1>t, AttackedRound DEF IndInv, InOrder, MuteInTime, TypeOK, Process
    <2>2. QED BY <1>1, <1>2, <1>t, <2>1, AttackAssumption DEF MuteInTime
  <1>5. UnmuteAhead'
    <2>1. SUFFICES ASSUME muted # None, ~InFlight("unmute", muted), muted \notin missed,
                          round = muted
                   PROVE  InFlight("unmute", muted)'
      BY <1>1, <1>t, AttackedRound DEF IndInv, InOrder, UnmuteAhead, InFlight, TypeOK
    <2>2. Launch("unmute", muted) \in Launched(round + 1)
      BY <1>t, <2>1 DEF Launched, TypeOK
    <2>3. QED BY <1>1, <2>2 DEF InFlight, Launch
  <1>6. ASSUME crashes' = 0 PROVE AttackInOrder'
    <2>1. AttackInOrder /\ \A p \in procs : p.cmd \in {"exit", "spoof"}
      BY <1>1, <1>6, NothingLate DEF IndInv, InOrder
    <2>2. \A a \in Attacked : a \in Nat
      BY AttackedRound
    <2>3. UnmuteInTime'
      BY <1>1, <1>2, <2>1, AttackAssumption DEF UnmuteInTime
    <2>4. \A p \in procs' : Started(p.attack)'
      <3>1. \A p \in procs : Started(p.attack)' /\ p.attack < round + 1
        BY <1>1, <1>t, <2>1, <2>2 DEF AttackInOrder, Started, TypeOK, Process
      <3>2. \A p \in Launched(round + 1) : Started(p.attack)'
        BY <1>1, <1>2, <1>t, <2>2 DEF Started, Process
      <3>3. QED BY <1>1, <3>1, <3>2
    <2>5. \A p \in procs' : p.cmd \in {"exit", "spoof"} => Silenced(p.attack)'
      BY <1>1, <1>2, <1>t, <2>1, <2>2
         DEF AttackInOrder, Started, Silenced, TypeOK, Process
    <2>6. \A a \in playing' : Started(a)' /\ Silenced(a)'
      BY <1>1, <1>t, <2>1, <2>2 DEF AttackInOrder, Started, Silenced, TypeOK
    <2>7. muted' # None => Started(muted)'
      BY <1>1, <1>t, <2>1, <2>2 DEF AttackInOrder, Started, TypeOK
    <2>8. round' \in Attacked => InFlight("mute", round)'
      <3>1. round + 1 \in Attacked => Launch("mute", round + 1) \in Launched(round + 1)
        BY DEF Launched
      <3>2. QED BY <1>1, <3>1 DEF InFlight, Launch
    <2>9. QED BY <1>1, <2>3, <2>4, <2>5, <2>6, <2>7, <2>8 DEF AttackInOrder, InFlight
  <1>7. QED BY <1>4, <1>5, <1>6 DEF InOrder

LEMMA FinishStep == ASSUME IndInv, ~late, ~late', Finish PROVE InOrder'
  <1>1. /\ phase = "closed" /\ phase' = "over"
        /\ round + 1 = NumRounds /\ round' = NumRounds /\ waited = Delay
        /\ UNCHANGED <<waited, procs, muted, playing, missed, failures, crashes>>
    BY DEF Finish, Lifecycle!Finish, DelayOver, faults
  <1>t. TypeOK /\ round \in Nat /\ NumRounds \notin Attacked
    BY AttackAssumption DEF IndInv, InOrder, TypeOK, Round
  <1>3. \A a \in Attacked : a \in Nat /\ a < round
    BY <1>1, <1>t, AttackAssumption DEF Round
  <1>4. MuteInTime'
    <2>1. \A p \in procs : p.cmd # "mute"
      BY <1>1, <1>3, <1>t, NothingLate DEF TypeOK, Process
    <2>2. QED BY <1>1, <2>1 DEF MuteInTime
  <1>5. UnmuteAhead'
    BY <1>1, <1>3, <1>t DEF IndInv, InOrder, UnmuteAhead, InFlight, TypeOK
  <1>6. ASSUME crashes' = 0 PROVE AttackInOrder'
    <2>1. AttackInOrder /\ \A p \in procs : p.cmd \in {"exit", "spoof"}
      BY <1>1, <1>6, NothingLate DEF IndInv, InOrder
    <2>2. QED
      BY <1>1, <1>3, <1>t, <2>1
         DEF AttackInOrder, UnmuteInTime, Started, Silenced, InFlight, TypeOK, Process
  <1>7. QED BY <1>4, <1>5, <1>6 DEF InOrder

(* A restart takes the game back, never forward, and launches nothing. *)
LEMMA RestartStep == ASSUME IndInv, ~late, ~late', Restart PROVE InOrder'
  <1>1. /\ crashes < MaxCrashes /\ crashes' = crashes + 1
        /\ \/ phase' \in {"lobby", "open"} /\ round' \in 0 .. round /\ round' \in 0 .. NumRounds
           \/ phase = "over" /\ UNCHANGED <<phase, round>>
        /\ procs' = {[p EXCEPT !.chained = FALSE] : p \in procs}
        /\ UNCHANGED <<waited, muted, playing, missed, failures>>
    BY AttackAssumption
       DEF Restart, MayCrash, Lifecycle!Rewind, Lifecycle!Round, IndInv, TypeOK
  <1>t. TypeOK
    BY DEF IndInv, InOrder
  <1>2. \A q \in procs' : \E p \in procs :
            q \in Process /\ q.cmd = p.cmd /\ q.attack = p.attack /\ q.age = p.age
    BY <1>1, <1>t DEF TypeOK, Process
  <1>4. MuteInTime'
    <2>1. \A p \in procs : p.cmd = "mute" => p.age < Delay /\ round <= p.attack
                                             /\ p.attack \in Nat
      BY <1>t, AttackedRound DEF IndInv, InOrder, MuteInTime, TypeOK, Process
    <2>2. round' <= round /\ round' \in Nat /\ round \in Nat /\ phase' # "closed"
      BY <1>1, <1>t DEF TypeOK
    <2>3. QED BY <1>2, <2>1, <2>2 DEF MuteInTime
  <1>5. ASSUME NEW cmd, NEW a, InFlight(cmd, a)
        PROVE  \E q \in procs' : q.cmd = cmd /\ q.attack = a
    <2>1. PICK p \in procs : p.cmd = cmd /\ p.attack = a
      BY <1>5 DEF InFlight
    <2>2. [p EXCEPT !.chained = FALSE] \in procs'
      BY <1>1
    <2>3. p \in Process
      BY <1>t DEF TypeOK
    <2>4. WITNESS [p EXCEPT !.chained = FALSE] \in procs'
    <2>5. QED BY <2>1, <2>3 DEF Process
  <1>6. UnmuteAhead'
    <2>1. SUFFICES ASSUME muted # None, muted \notin missed
                   PROVE  round' <= muted \/ InFlight("unmute", muted)'
      BY <1>1 DEF UnmuteAhead
    <2>2. CASE round <= muted
      BY <1>1, <1>t, <2>1, <2>2, AttackedRound DEF TypeOK
    <2>3. CASE InFlight("unmute", muted)
      BY <1>1, <1>5, <2>3 DEF InFlight
    <2>4. QED BY <2>1, <2>2, <2>3 DEF IndInv, InOrder, UnmuteAhead
  <1>7. crashes' # 0
    BY <1>1, <1>t DEF TypeOK
  <1>8. QED BY <1>4, <1>6, <1>7 DEF InOrder

-----------------------------------------------------------------------------
(* The processes' steps. *)

(* What a step of a process leaves in order: it removes p, and puts in its
   place at most one process, of the same attack, that is no call to the
   voice server's mute. *)
LEMMA ProcessStep ==
    ASSUME IndInv, ~late, ~late', NEW p \in procs, NEW new \in SUBSET Process,
           procs' = (procs \ {p}) \cup new,
           \A q \in new : q.attack = p.attack /\ q.cmd \in {"exit", "spoof"},
           UNCHANGED <<phase, round, waited>>, missed \subseteq missed'
    PROVE  /\ procs' \subseteq Process
           /\ MuteInTime'
           /\ AttackInOrder =>
                 /\ UnmuteInTime'
                 /\ \A q \in procs' : Started(q.attack)'
  <1>t. TypeOK
    BY DEF IndInv, InOrder
  <1>1. procs' \subseteq Process
    BY <1>t DEF TypeOK
  <1>2. MuteInTime'
    BY DEF IndInv, InOrder, MuteInTime
  <1>3. AttackInOrder => UnmuteInTime'
    BY DEF AttackInOrder, UnmuteInTime
  <1>4. AttackInOrder => \A q \in procs' : Started(q.attack)'
    BY DEF AttackInOrder, Started
  <1>5. QED BY <1>1, <1>2, <1>3, <1>4

LEMMA MuteStep == ASSUME IndInv, ~late, ~late', NEW p \in procs, Mute(p) PROVE InOrder'
  <1> DEFINE exit == [Launch("exit", p.attack) EXCEPT !.chained = p.chained]
  <1>1. /\ p.cmd = "mute" /\ muted' = p.attack
        /\ procs' = (procs \ {p}) \cup {exit}
        /\ UNCHANGED <<phase, round, waited, playing, missed, failures, crashes>>
    BY DEF Mute, faults
  <1>t. TypeOK /\ p \in Process /\ p.attack \in Attacked /\ p.attack # None
    BY AttackedRound DEF IndInv, InOrder, TypeOK, Process
  <1>2. exit \in Process /\ exit.attack = p.attack /\ exit.cmd = "exit"
    <2>1. 0 \in 0 .. Delay + CliTimeout /\ "exit" \in Command
      BY AttackAssumption DEF Command
    <2>2. exit = [cmd |-> "exit", attack |-> p.attack, age |-> 0, chained |-> p.chained]
      BY DEF Launch
    <2>3. p.chained \in BOOLEAN
      BY <1>t DEF Process
    <2>4. QED BY <1>t, <2>1, <2>2, <2>3 DEF Process
  <1>3. /\ procs' \subseteq Process /\ MuteInTime'
        /\ AttackInOrder =>
              UnmuteInTime' /\ \A q \in procs' : Started(q.attack)'
    <2> HIDE DEF exit
    <2>1. {exit} \in SUBSET Process
      BY <1>2
    <2>2. QED BY <1>1, <1>2, <2>1, ProcessStep
  <1>5. UnmuteAhead'
    BY <1>1 DEF IndInv, InOrder, MuteInTime, UnmuteAhead
  <1>6. ASSUME crashes' = 0 PROVE AttackInOrder'
    <2>1. AttackInOrder /\ round = p.attack /\ phase # "lobby"
      BY <1>1, <1>6, <1>t, AttackedRound DEF IndInv, InOrder, MuteInTime, AttackInOrder, Started, TypeOK
    <2>2. \A a : Silenced(a)'
      BY <1>1, <2>1 DEF Silenced
    <2>3. QED BY <1>1, <1>3, <2>1, <2>2 DEF AttackInOrder, Started
  <1>7. QED BY <1>3, <1>5, <1>6 DEF InOrder

(* Exit and Spoof leave the mute as it is. *)
LEMMA ExitStep == ASSUME IndInv, ~late, ~late', NEW p \in procs, Exit(p) PROVE InOrder'
  <1>1. PICK new \in SUBSET {Launch("spoof", p.attack)} :
            /\ p.cmd = "exit" /\ procs' = (procs \ {p}) \cup new
            /\ UNCHANGED <<phase, round, waited, muted, playing, missed, failures, crashes>>
    BY DEF Exit, faults
  <1>t. TypeOK /\ p \in Process /\ p.attack \in Attacked
    BY DEF IndInv, InOrder, TypeOK, Process
  <1>2. \A q \in new : q \in Process /\ q.attack = p.attack /\ q.cmd = "spoof"
    BY <1>t, LaunchIsProcess DEF Launch, Command
  <1>3. /\ procs' \subseteq Process /\ MuteInTime'
        /\ AttackInOrder =>
              UnmuteInTime' /\ \A q \in procs' : Started(q.attack)'
    <2>1. new \in SUBSET Process
      BY <1>2
    <2>2. QED BY <1>1, <1>2, <2>1, ProcessStep
  <1>5. UnmuteAhead'
    BY <1>1, <1>t DEF IndInv, InOrder, UnmuteAhead, InFlight
  <1>6. ASSUME crashes' = 0 PROVE AttackInOrder'
    <2>1. AttackInOrder
      BY <1>1, <1>6 DEF IndInv, InOrder
    <2>2. InFlight("mute", round) => InFlight("mute", round)'
      BY <1>1 DEF InFlight
    <2>3. \A q \in procs' : q.cmd \in {"exit", "spoof"} => Silenced(q.attack)'
      BY <1>1, <1>2, <2>1 DEF AttackInOrder, Silenced
    <2>4. QED BY <1>1, <1>3, <2>1, <2>2, <2>3 DEF AttackInOrder, Started, Silenced
  <1>7. QED BY <1>3, <1>5, <1>6 DEF InOrder

LEMMA SpoofStep ==
    ASSUME IndInv, ~late, ~late', \/ \E p \in procs : Spoof(p)
                   \/ \E a \in playing : FakeEnds(a)
    PROVE  InOrder'
  <1>1. PICK gone \in SUBSET procs :
            /\ procs' = procs \ gone
            /\ \A p \in gone : p.cmd = "spoof"
            /\ playing' \subseteq playing \cup {p.attack : p \in gone}
            /\ UNCHANGED <<phase, round, waited, muted, missed, failures, crashes>>
    <2>1. ASSUME NEW p \in procs, Spoof(p)
          PROVE  /\ procs' = procs \ {p} /\ p.cmd = "spoof"
                 /\ playing' \subseteq playing \cup {q.attack : q \in {p}}
                 /\ UNCHANGED <<phase, round, waited, muted, missed, failures, crashes>>
      BY <2>1 DEF Spoof, faults
    <2>2. ASSUME NEW a \in playing, FakeEnds(a)
          PROVE  /\ procs' = procs \ {}
                 /\ playing' \subseteq playing \cup {q.attack : q \in {}}
                 /\ UNCHANGED <<phase, round, waited, muted, missed, failures, crashes>>
      BY <2>2 DEF FakeEnds, faults
    <2>3. CASE \E p \in procs : Spoof(p)
      <3>1. PICK p \in procs : Spoof(p)
        BY <2>3
      <3>2. WITNESS {p} \in SUBSET procs
      <3>3. QED BY <2>1, <3>1
    <2>4. CASE \E a \in playing : FakeEnds(a)
      <3>1. WITNESS {} \in SUBSET procs
      <3>2. QED BY <2>2, <2>4
    <2>5. QED BY <2>3, <2>4
  <1>t. TypeOK /\ \A p \in procs : p \in Process /\ p.attack \in Attacked
    BY DEF IndInv, InOrder, TypeOK, Process
  <1>3. MuteInTime' /\ UnmuteAhead'
    BY <1>1 DEF IndInv, InOrder, MuteInTime, UnmuteAhead, InFlight
  <1>4. ASSUME crashes' = 0 PROVE AttackInOrder'
    <2>1. AttackInOrder
      BY <1>1, <1>4 DEF IndInv, InOrder
    <2>2. \A a \in playing' : Started(a)' /\ Silenced(a)'
      BY <1>1, <2>1 DEF AttackInOrder, Started, Silenced
    <2>3. QED
      BY <1>1, <2>1, <2>2 DEF AttackInOrder, UnmuteInTime, Started, Silenced, InFlight
  <1>5. QED BY <1>3, <1>4 DEF InOrder

LEMMA UnmuteStep == ASSUME IndInv, ~late, ~late', NEW p \in procs, Unmute(p) PROVE InOrder'
  <1>1. /\ p.cmd = "unmute" /\ muted' = None /\ procs' = (procs \ {p}) \cup {}
        /\ UNCHANGED <<phase, round, waited, playing, missed, failures, crashes>>
    BY DEF Unmute, faults
  <1>t. TypeOK /\ p \in Process /\ p.attack \in Attacked
    BY DEF IndInv, InOrder, TypeOK, Process
  <1>2. /\ procs' \subseteq Process /\ MuteInTime'
        /\ AttackInOrder =>
              UnmuteInTime' /\ \A q \in procs' : Started(q.attack)'
    <2>1. {} \in SUBSET Process
      OBVIOUS
    <2>2. QED BY <1>1, <2>1, ProcessStep
  <1>3. UnmuteAhead'
    BY <1>1 DEF UnmuteAhead
  <1>4. ASSUME crashes' = 0 PROVE AttackInOrder'
    <2>1. AttackInOrder /\ round \notin Attacked
      BY <1>1, <1>4, <1>t, AttackedRound DEF IndInv, InOrder, AttackInOrder, UnmuteInTime
    <2>2. \A a \in Attacked : Silenced(a)'
      BY <1>1, <2>1 DEF Silenced
    <2>3. QED BY <1>1, <1>2, <1>t, <2>1, <2>2 DEF AttackInOrder, Started, TypeOK, Process
  <1>5. QED BY <1>2, <1>3, <1>4 DEF InOrder

(* A failed call excuses its attack. *)
LEMMA FailStep ==
    ASSUME IndInv, ~late, ~late', NEW p \in procs, Fails(p) \/ Ignored(p) PROVE InOrder'
  <1>1. PICK new \in SUBSET {Launch("spoof", p.attack)} :
            /\ missed' = IF p.cmd = "spoof" THEN missed ELSE missed \cup {p.attack}
            /\ new # {} => p.cmd = "mute"
            /\ procs' = (procs \ {p}) \cup new
            /\ UNCHANGED <<phase, round, waited, muted, playing, crashes>>
    <2>1. CASE Fails(p)
      <3>1. procs' = (procs \ {p}) \cup {} /\ {} \in SUBSET {Launch("spoof", p.attack)}
        BY <2>1 DEF Fails
      <3>2. QED BY <2>1, <3>1 DEF Fails
    <2>2. CASE Ignored(p)
      BY <2>2 DEF Ignored
    <2>3. QED BY <2>1, <2>2
  <1>t. TypeOK /\ p \in Process /\ p.attack \in Attacked
    BY DEF IndInv, InOrder, TypeOK, Process
  <1>2. \A q \in new : q \in Process /\ q.attack = p.attack /\ q.cmd = "spoof"
    BY <1>t, LaunchIsProcess DEF Launch, Command
  <1>3. /\ procs' \subseteq Process /\ MuteInTime'
        /\ AttackInOrder =>
              UnmuteInTime' /\ \A q \in procs' : Started(q.attack)'
    <2>1. new \in SUBSET Process
      BY <1>2
    <2>2. QED BY <1>1, <1>2, <2>1, ProcessStep
  <1>5. UnmuteAhead'
    BY <1>1 DEF IndInv, InOrder, UnmuteAhead, InFlight
  <1>6. ASSUME crashes' = 0 PROVE AttackInOrder'
    <2>1. AttackInOrder
      BY <1>1, <1>6 DEF IndInv, InOrder
    <2>2. \A a : Silenced(a) => Silenced(a)'
      BY <1>1 DEF Silenced
    <2>3. p.cmd # "spoof" => Silenced(p.attack)'
      BY <1>1 DEF Silenced
    <2>4. \A q \in procs' : q.cmd \in {"exit", "spoof"} => Silenced(q.attack)'
      BY <1>1, <1>2, <2>1, <2>2, <2>3 DEF AttackInOrder
    <2>5. InFlight("mute", round) => InFlight("mute", round)' \/ round = p.attack
      BY <1>1 DEF InFlight
    <2>6. phase' # "lobby" /\ round' \in Attacked => Silenced(round)' \/ InFlight("mute", round)'
      BY <1>1, <2>1, <2>5 DEF AttackInOrder, Silenced
    <2>7. QED BY <1>1, <1>3, <2>1, <2>2, <2>4, <2>6 DEF AttackInOrder, Started
  <1>7. QED BY <1>3, <1>5, <1>6 DEF InOrder

(* Time makes the processes older, and the wait at most as much. *)
LEMMA TickStep == ASSUME IndInv, ~late, ~late', Tick PROVE InOrder'
  <1>1. /\ procs' = {Older(p) : p \in procs}
        /\ waited' = IF phase = "closed" /\ waited < Delay THEN waited + 1 ELSE waited
        /\ \A p \in procs' : p.cmd # "exit" => p.age # Delay
        /\ UNCHANGED <<phase, round, muted, playing, missed, failures, crashes>>
    BY DEF Tick
  <1>t. TypeOK /\ \A p \in procs : p \in Process /\ p.age \in Nat
    BY AttackAssumption DEF IndInv, InOrder, TypeOK, Process
  <1>2. ASSUME NEW q \in procs'
        PROVE  \E p \in procs :
                 /\ q.cmd = p.cmd /\ q.attack = p.attack
                 /\ p.cmd # "exit" /\ p.age < Delay => q.age = p.age + 1 /\ q.age < Delay
    <2>1. PICK p \in procs : q = Older(p)
      BY <1>1
    <2>2. q.cmd = p.cmd /\ q.attack = p.attack
          /\ (p.age < Limit(p) => q.age = p.age + 1)
      BY <1>t, <2>1 DEF Process, Older
    <2>3. ASSUME p.cmd # "exit", p.age < Delay  PROVE q.age = p.age + 1 /\ q.age < Delay
      <3>1. q.age = p.age + 1
        BY <2>2, <2>3 DEF Limit
      <3>2. q.age # Delay
        BY <1>1, <2>2, <2>3
      <3> QED  BY <1>t, <2>3, <3>1, <3>2, AttackAssumption
    <2>4. QED BY <2>2, <2>3
  <1>4. waited' <= waited + 1 /\ waited \in Nat /\ waited' \in Nat
    BY <1>1, <1>t, AttackAssumption DEF TypeOK
  <1>5. MuteInTime'
    BY <1>1, <1>2, <1>4, <1>t DEF IndInv, InOrder, MuteInTime
  <1>6. ASSUME NEW cmd, NEW a, InFlight(cmd, a)
        PROVE  \E q \in procs' : q.cmd = cmd /\ q.attack = a
    <2>1. PICK p \in procs : p.cmd = cmd /\ p.attack = a
      BY <1>6 DEF InFlight
    <2>2. Older(p) \in procs'
      BY <1>1
    <2>3. WITNESS Older(p) \in procs'
    <2>4. QED BY <1>t, <2>1 DEF Process, Older
  <1>7. UnmuteAhead'
    BY <1>1, <1>6 DEF IndInv, InOrder, UnmuteAhead, InFlight
  <1>8. ASSUME crashes' = 0 PROVE AttackInOrder'
    <2>1. AttackInOrder
      BY <1>1, <1>8 DEF IndInv, InOrder
    <2>2. UnmuteInTime'
      BY <1>1, <1>2, <1>4, <1>t, <2>1 DEF AttackInOrder, UnmuteInTime
    <2>3. \A q \in procs' : Started(q.attack)' /\ (q.cmd \in {"exit", "spoof"} => Silenced(q.attack)')
      BY <1>1, <1>2, <2>1 DEF AttackInOrder, Started, Silenced
    <2>4. InFlight("mute", round) => InFlight("mute", round)'
      BY <1>1, <1>6 DEF InFlight
    <2>5. QED BY <1>1, <2>1, <2>2, <2>3, <2>4 DEF AttackInOrder, Started, Silenced
  <1>9. QED BY <1>5, <1>7, <1>8 DEF InOrder

-----------------------------------------------------------------------------
(* The invariant: every step keeps it. *)

LEMMA IndInvNext == IndInv /\ [Next]_vars => IndInv'
  <1> SUFFICES ASSUME IndInv, [Next]_vars, ~late'  PROVE InOrder'
    BY TypeNext DEF IndInv
  <1>1. ~late
    BY DEF Next, Start, Close, OpenNext, Finish, Restart, Mute, Exit, Spoof, Unmute, Fails,
           Ignored, FakeEnds, Tick, faults, vars
  <1>2. CASE UNCHANGED vars
    BY <1>1, <1>2 DEF vars, IndInv, InOrder, MuteInTime, UnmuteAhead, AttackInOrder,
                      UnmuteInTime, Started, Silenced, InFlight
  <1>3. QED
    BY <1>1, <1>2, StartStep, CloseStep, OpenNextStep, FinishStep, RestartStep, MuteStep,
       ExitStep, SpoofStep, UnmuteStep, FailStep, TickStep DEF Next

LEMMA IndInvInit == Init => IndInv
  BY TypeInit
     DEF Init, Lifecycle!Init, IndInv, InOrder, MuteInTime, UnmuteAhead, AttackInOrder,
         UnmuteInTime

(* IndInv holds in every reachable state: until a call is late, every mute
   arrives in its own round and has its unmute ahead. *)
THEOREM AttackInductive == Spec => []IndInv
  BY IndInvInit, IndInvNext, PTL DEF Spec

(* The state has its type, however late the calls: only the schedule's attacks
   mute, or are played. *)
THEOREM AttackTyped == Spec => []TypeOK
  BY TypeInit, TypeNext, PTL DEF Spec

(* Until a call takes as long as the delay, no player is left muted without an
   unmute to come, whatever the schedule, the crashes and the rounds played
   again, unless a call of that attack failed. *)
THEOREM MutesEnd == Spec => []UnmuteAhead
  <1>1. IndInv => UnmuteAhead
    BY DEF IndInv, InOrder, UnmuteAhead
  <1>2. QED BY <1>1, AttackInductive, PTL

(* Until a call takes as long as the delay or the server crashes, in its own
   round a fake is never heard over the player it imitates. *)
THEOREM FakesOverSilence == Spec => []FakeOverSilence
  <1>1. IndInv => FakeOverSilence
    BY DEF IndInv, InOrder, AttackInOrder, Silenced, FakeOverSilence
  <1>2. QED BY <1>1, AttackInductive, PTL

(* Until a call takes as long as the delay or the server crashes, and when none
   has failed: at rest, who is muted is who the schedule says. *)
THEOREM MutedByTheSchedule == Spec => []MutedAsScheduled
  <1>1. ASSUME IndInv PROVE MutedAsScheduled
    <2>1. SUFFICES ASSUME ~late, crashes = 0, missed = {}, \A p \in procs : p.cmd \in {"exit", "spoof"}
                   PROVE  muted = IF phase # "lobby" /\ round \in Attacked THEN round ELSE None
      BY DEF MutedAsScheduled
    <2>2. AttackInOrder /\ UnmuteAhead /\ TypeOK
      BY <1>1, <2>1 DEF IndInv, InOrder
    <2>3. CASE phase # "lobby" /\ round \in Attacked
      BY <2>1, <2>2, <2>3 DEF AttackInOrder, Silenced, InFlight
    <2>4. CASE ~(phase # "lobby" /\ round \in Attacked)
      BY <2>1, <2>2, <2>4, AttackedRound
         DEF AttackInOrder, UnmuteAhead, InFlight, Started, TypeOK
    <2>5. QED BY <2>3, <2>4
  <1>2. QED BY <1>1, AttackInductive, PTL
=============================================================================
