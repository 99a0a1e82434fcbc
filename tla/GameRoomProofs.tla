--------------------------- MODULE GameRoomProofs ---------------------------
(* Theorems about GameRoom, for every set of ids and every configuration. *)
EXTENDS GameRoom, TLAPS

USE IdsAssumption, EntryAssumption, NamedAssumption, ConfigAssumption, StrayAssumption, MaxDaysAssumption

(***************************************************************************)
(* Type correctness.                                                       *)
(***************************************************************************)

\* What a request can name has the type of an id.
LEMMA InputTypes ==
    ASSUME TypeOK
    PROVE  Callers \subseteq Ids /\ Targets \subseteq MaybeId
  BY DEF Callers, Targets, MaybeId, TypeOK

LEMMA TypeInit == Init => TypeOK
  <1> SUFFICES ASSUME Init PROVE TypeOK
    OBVIOUS
  <1>1. role \in [Ids -> Roles]
    BY DEF Init, Roles
  <1>2. nightActions \in [Ids -> EntryOrNot]
    BY DEF Init, EntryOrNot
  <1>3. votes \in [Ids -> {NoEntry} \cup [target : MaybeId, day : Nat]]
    BY DEF Init
  <1> QED
    BY <1>1, <1>2, <1>3 DEF Init, TypeOK, MaybeId

LEMMA TypeJoin ==
    ASSUME TypeOK, NEW p \in Ids, JoinRoom(p)
    PROVE  TypeOK'
  BY DEF TypeOK, JoinRoom, Roles, moment, night, potion, MaybeId, EntryOrNot, NoRpc

LEMMA TypeStart == ASSUME TypeOK, StartGame PROVE TypeOK'
  <1>1. role' \in [Ids -> Roles]
    BY DEF StartGame, Deals, TypeOK
  <1> QED
    BY <1>1 DEF TypeOK, StartGame, night, potion, GamePhases, NightPhases,
                MaybeId, EntryOrNot, NoRpc

\* The pieces the phases are built from.
LEMMA TypeLoopSends ==
    ASSUME TypeOK, LoopSendsPhaseDone, loop = "exec", phase \in GamePhases
    PROVE  /\ phaseDone' \in GamePhases \cup {"Empty"}
           /\ loop' \in {"select", "wedged"}
  BY DEF TypeOK, LoopSendsPhaseDone

LEMMA TypeWaitFor ==
    ASSUME TypeOK, NEW actors \in SUBSET players, WaitFor(actors), loop = "exec",
           phase \in GamePhases
    PROVE  /\ phaseDone' \in GamePhases \cup {"Empty"}
           /\ loop' \in {"select", "wedged"}
           /\ canAct' \in SUBSET players
  BY TypeLoopSends DEF TypeOK, WaitFor

LEMMA TypeChosen ==
    ASSUME TypeOK, NEW r, NEW c \in Chosen(r)
    PROVE  c \in SUBSET players /\ c \subseteq Living(r)
  BY DEF Chosen, Living, TypeOK

LEMMA TypeLoop == ASSUME TypeOK, StateMatchesPhase, LoopStep PROVE TypeOK'
  <1> USE DEF moment, people, night, potion, GamePhases, NightPhases, DayPhases
  <1>1. CASE EnterPhase
    BY <1>1 DEF EnterPhase, TypeOK, MaybeId, EntryOrNot, NoRpc
  <1>2. CASE FinishGame
    BY <1>2 DEF FinishGame, TypeOK, MaybeId, EntryOrNot, NoRpc
  <1>3. CASE ExecuteGuardPhase
    <2>1. PICK guard \in Chosen("GUARD") :
             WaitFor(guard) /\ guardTarget' = IF guard = {} THEN guardTarget ELSE NoOne
      BY <1>3 DEF ExecuteGuardPhase
    <2>2. /\ phaseDone' \in GamePhases \cup {"Empty"}
          /\ loop' \in {"select", "wedged"}
          /\ canAct' \in SUBSET players
      BY <1>3, <2>1, TypeWaitFor, TypeChosen DEF ExecuteGuardPhase, Executing
    <2>3. guardTarget' \in MaybeId
      BY <2>1 DEF TypeOK, MaybeId
    <2> QED
      BY <1>3, <2>2, <2>3 DEF ExecuteGuardPhase, TypeOK, MaybeId, EntryOrNot, NoRpc
  <1>4. CASE ExecuteWerewolfPhase
    <2>1. Wolves \in SUBSET players
      BY DEF Wolves, Living, TypeOK
    <2>2. /\ phaseDone' \in GamePhases \cup {"Empty"}
          /\ loop' \in {"select", "wedged"}
          /\ canAct' \in SUBSET players
      BY <1>4, <2>1, TypeWaitFor DEF ExecuteWerewolfPhase, Executing
    <2>3. werewolfTarget' \in MaybeId
      BY <1>4 DEF ExecuteWerewolfPhase, TypeOK, MaybeId
    <2> QED
      BY <1>4, <2>2, <2>3 DEF ExecuteWerewolfPhase, TypeOK, MaybeId, EntryOrNot, NoRpc
  <1>5. CASE ExecuteWitchPhase
    <2>1. PICK witch \in Chosen("WITCH") : WaitFor(witch)
      BY <1>5 DEF ExecuteWitchPhase
    <2>2. /\ phaseDone' \in GamePhases \cup {"Empty"}
          /\ loop' \in {"select", "wedged"}
          /\ canAct' \in SUBSET players
      BY <1>5, <2>1, TypeWaitFor, TypeChosen DEF ExecuteWitchPhase, Executing
    <2> QED
      BY <1>5, <2>2 DEF ExecuteWitchPhase, TypeOK, MaybeId, EntryOrNot, NoRpc
  <1>6. CASE ExecuteSeerPhase
    <2>1. PICK seer \in Chosen("SEER") : WaitFor(seer)
      BY <1>6 DEF ExecuteSeerPhase
    <2>2. /\ phaseDone' \in GamePhases \cup {"Empty"}
          /\ loop' \in {"select", "wedged"}
          /\ canAct' \in SUBSET players
      BY <1>6, <2>1, TypeWaitFor, TypeChosen DEF ExecuteSeerPhase, Executing
    <2> QED
      BY <1>6, <2>2 DEF ExecuteSeerPhase, TypeOK, MaybeId, EntryOrNot, NoRpc
  <1>7. CASE ExecuteDayDiscussion
    <2>1. /\ phaseDone' \in GamePhases \cup {"Empty"}
          /\ loop' \in {"select", "wedged"}
      BY <1>7, TypeLoopSends DEF ExecuteDayDiscussion, Executing
    <2>2. alive' \in SUBSET players /\ deadPlayers' \in SUBSET players
      BY <1>7 DEF ExecuteDayDiscussion, NewlyDead, TypeOK
    <2> QED
      BY <1>7, <2>1, <2>2 DEF ExecuteDayDiscussion, TypeOK, MaybeId, EntryOrNot, NoRpc
  <1>8. CASE ExecuteVotingPhase
    BY <1>8 DEF ExecuteVotingPhase, Executing, TypeOK, MaybeId, EntryOrNot, NoRpc
  <1>9. CASE ExecuteLastWords
    <2>1. PICK out \in VotedOut : alive' = alive \ out /\ deadPlayers' = deadPlayers \cup out
      BY <1>9 DEF ExecuteLastWords
    <2>2. out \subseteq players
      BY DEF VotedOut
    <2>3. /\ phaseDone' \in GamePhases \cup {"Empty"}
          /\ loop' \in {"select", "wedged"}
      BY <1>9, TypeLoopSends DEF ExecuteLastWords, Executing
    <2>4. alive' \in SUBSET players /\ deadPlayers' \in SUBSET players
      BY <2>1, <2>2 DEF TypeOK
    <2> QED
      BY <1>9, <2>3, <2>4 DEF ExecuteLastWords, TypeOK, MaybeId, EntryOrNot, NoRpc
  <1>10. CASE TakePhaseDone
    <2>1. phaseDone' \in GamePhases \cup {"Empty"}
      BY <1>10 DEF TakePhaseDone, StateMatchesPhase, TypeOK
    <2>2. nightActions' \in [Ids -> EntryOrNot]
      BY <1>10 DEF TakePhaseDone, TypeOK, MaybeId, EntryOrNot, NoRpc
    <2> QED
      BY <1>10, <2>1, <2>2 DEF TakePhaseDone, TypeOK
  <1>11. CASE SelectTimeout
    BY <1>11 DEF SelectTimeout, TypeOK, MaybeId, EntryOrNot, NoRpc
  <1>12. CASE NextPhase
    BY <1>12 DEF NextPhase, FollowingPhase, TimeOfDay, TypeOK, MaybeId, EntryOrNot, NoRpc
  <1>13. CASE Nightfall
    BY <1>13 DEF Nightfall, ForgetTargets, TypeOK, MaybeId, EntryOrNot, NoRpc
  <1>14. CASE WitchPhasePanics
    BY <1>14 DEF WitchPhasePanics, Panic, TypeOK, MaybeId, EntryOrNot, NoRpc
  <1>15. CASE SettlePanics
    BY <1>15 DEF SettlePanics, Panic, TypeOK, MaybeId, EntryOrNot, NoRpc
  <1> QED
    BY <1>1, <1>2, <1>3, <1>4, <1>5, <1>6, <1>7, <1>8, <1>9, <1>10, <1>11,
       <1>12, <1>13, <1>14, <1>15 DEF LoopStep

\* The tail of a handler.
LEMMA TypeSend ==
    ASSUME TypeOK, NEW op \in {"NightAction", "Vote"}, NEW p \in Ids, NEW t \in MaybeId,
           phase \in GamePhases, rpc = NoRpc, SendPhaseDone(op, p, t)
    PROVE  /\ phaseDone' \in GamePhases \cup {"Empty"}
           /\ nightActions' \in [Ids -> EntryOrNot]
           /\ rpc' \in {NoRpc} \cup [op : {"NightAction", "Vote"}, by : Ids, target : MaybeId]
  <1>1. CASE phaseDone = "Empty"
    BY <1>1 DEF TypeOK, SendPhaseDone, MaybeId, EntryOrNot
  <1>2. CASE phaseDone # "Empty"
    BY <1>2 DEF TypeOK, SendPhaseDone
  <1> QED
    BY <1>1, <1>2

LEMMA TypeNightAction == ASSUME TypeOK, NightAction PROVE TypeOK'
  <1> USE DEF moment, people, night, potion
  <1>1. PICK p \in Callers, t \in Targets :
           \/ GuardAct(p, t)
           \/ WerewolfAct(p, t)
           \/ \E actionType \in {"save", "poison", "skip"} : WitchAct(p, t, actionType)
           \/ SeerAct(p, t)
           \/ SeerActPanics(p, t)
    BY DEF NightAction
  <1>2. p \in Ids /\ t \in MaybeId
    BY <1>1, InputTypes
  <1>3. CASE GuardAct(p, t)
    <2>1. /\ phaseDone' \in GamePhases \cup {"Empty"}
          /\ nightActions' \in [Ids -> EntryOrNot]
          /\ rpc' \in {NoRpc} \cup [op : {"NightAction", "Vote"}, by : Ids, target : MaybeId]
      BY <1>2, <1>3, TypeSend DEF GuardAct, MayAct, MuFree, GamePhases, NightPhases
    <2> QED
      BY <1>2, <1>3, <2>1 DEF GuardAct, TypeOK
  <1>4. CASE WerewolfAct(p, t)
    <2>1. /\ phaseDone' \in GamePhases \cup {"Empty"}
          /\ nightActions' \in [Ids -> EntryOrNot]
          /\ rpc' \in {NoRpc} \cup [op : {"NightAction", "Vote"}, by : Ids, target : MaybeId]
      <3>1. CASE AllActed(canAct')
        BY <1>2, <1>4, <3>1, TypeSend
           DEF WerewolfAct, MayAct, MuFree, GamePhases, NightPhases
      <3>2. CASE ~AllActed(canAct')
        BY <1>2, <1>4, <3>2 DEF WerewolfAct, TypeOK, MaybeId, EntryOrNot
      <3> QED
        BY <3>1, <3>2
    <2> QED
      BY <1>2, <1>4, <2>1 DEF WerewolfAct, TypeOK
  <1>5. CASE \E actionType \in {"save", "poison", "skip"} : WitchAct(p, t, actionType)
    <2>1. PICK actionType \in {"save", "poison", "skip"} : WitchAct(p, t, actionType)
      BY <1>5
    <2>2. /\ phaseDone' \in GamePhases \cup {"Empty"}
          /\ nightActions' \in [Ids -> EntryOrNot]
          /\ rpc' \in {NoRpc} \cup [op : {"NightAction", "Vote"}, by : Ids, target : MaybeId]
      BY <1>2, <2>1, TypeSend DEF WitchAct, MayAct, MuFree, GamePhases, NightPhases
    <2>3. /\ {witchSaveTarget', witchPoisonTarget'} \subseteq MaybeId
          /\ witchSaveUsed' \in BOOLEAN /\ witchPoisonUsed' \in BOOLEAN
      BY <1>2, <2>1 DEF WitchAct, TypeOK
    <2> QED
      BY <2>1, <2>2, <2>3 DEF WitchAct, TypeOK
  <1>6. CASE SeerAct(p, t)
    <2>1. /\ phaseDone' \in GamePhases \cup {"Empty"}
          /\ nightActions' \in [Ids -> EntryOrNot]
          /\ rpc' \in {NoRpc} \cup [op : {"NightAction", "Vote"}, by : Ids, target : MaybeId]
      BY <1>2, <1>6, TypeSend DEF SeerAct, MayAct, MuFree, GamePhases, NightPhases
    <2> QED
      BY <1>6, <2>1 DEF SeerAct, TypeOK
  <1>7. CASE SeerActPanics(p, t)
    BY <1>7 DEF SeerActPanics, Panic, TypeOK
  <1> QED
    BY <1>1, <1>3, <1>4, <1>5, <1>6, <1>7

LEMMA TypeVote == ASSUME TypeOK, Vote PROVE TypeOK'
  <1> USE DEF moment, people, night, potion
  <1>1. CASE \E p \in Callers : VotePanics(p)
    BY <1>1 DEF VotePanics, Panic, TypeOK
  <1>2. CASE \E p \in Callers, t \in Targets : CastVote(p, t)
    <2>1. PICK p \in Ids, t \in MaybeId : CastVote(p, t)
      BY <1>2, InputTypes
    <2>2. /\ phaseDone' \in GamePhases \cup {"Empty"}
          /\ nightActions' \in [Ids -> EntryOrNot]
          /\ rpc' \in {NoRpc} \cup [op : {"NightAction", "Vote"}, by : Ids, target : MaybeId]
      <3>1. CASE AllVoted(votes')
        BY <2>1, <3>1, TypeSend DEF CastVote, MayVote, MuFree, GamePhases, DayPhases
      <3>2. CASE ~AllVoted(votes')
        BY <2>1, <3>2 DEF CastVote, TypeOK
      <3> QED
        BY <3>1, <3>2
    <2>3. votes' \in [Ids -> {NoEntry} \cup [target : MaybeId, day : Nat]]
      BY <2>1 DEF CastVote, TypeOK
    <2> QED
      BY <2>1, <2>2, <2>3 DEF CastVote, TypeOK
  <1> QED
    BY <1>1, <1>2 DEF Vote

LEMMA TypeNext == ASSUME TypeOK, StateMatchesPhase, [Next]_vars PROVE TypeOK'
  <1>1. CASE Next
    BY <1>1, TypeJoin, TypeStart, TypeLoop, TypeNightAction, TypeVote DEF Next, Join
  <1>2. CASE UNCHANGED vars
    BY <1>2 DEF vars, moment, people, night, potion, TypeOK, MaybeId, EntryOrNot, NoRpc
  <1> QED
    BY <1>1, <1>2

(***************************************************************************)
(* State and CurrentPhase tell the same time.                              *)
(***************************************************************************)

LEMMA MatchInit == Init => StateMatchesPhase
  BY DEF Init, StateMatchesPhase, NightPhases, DayPhases

\* Most steps leave the clock alone and move the loop between its own places.
LEMMA MatchStill ==
    ASSUME StateMatchesPhase, UNCHANGED <<state, phase>>,
           loop' = loop \/ (loop \notin {"idle", "done"} /\ loop' \notin {"idle", "done"})
    PROVE  StateMatchesPhase'
  BY DEF StateMatchesPhase

LEMMA MatchLoop == ASSUME TypeOK, StateMatchesPhase, LoopStep PROVE StateMatchesPhase'
  <1> USE DEF moment
  <1>1. CASE FinishGame
    BY <1>1 DEF FinishGame, StateMatchesPhase, NightPhases, DayPhases
  <1>2. CASE NextPhase
    BY <1>2 DEF NextPhase, TimeOfDay, FollowingPhase, StateMatchesPhase, NightPhases, DayPhases
  <1>3. CASE Nightfall
    BY <1>3 DEF Nightfall, StateMatchesPhase, NightPhases, DayPhases
  <1>4. CASE EnterPhase \/ TakePhaseDone \/ SelectTimeout \/ WitchPhasePanics \/ SettlePanics
    BY <1>4, MatchStill
       DEF EnterPhase, TakePhaseDone, SelectTimeout, WitchPhasePanics, SettlePanics,
           Panic, Executing
  <1>5. CASE ExecuteGuardPhase \/ ExecuteWerewolfPhase \/ ExecuteWitchPhase \/ ExecuteSeerPhase
    <2>1. UNCHANGED <<state, phase>> /\ loop = "exec" /\ loop' \in {"select", "wedged"}
      BY <1>5 DEF ExecuteGuardPhase, ExecuteWerewolfPhase, ExecuteWitchPhase,
                  ExecuteSeerPhase, Executing, WaitFor, LoopSendsPhaseDone
    <2> QED
      BY <2>1, MatchStill
  <1>6. CASE ExecuteDayDiscussion \/ ExecuteVotingPhase \/ ExecuteLastWords
    <2>1. UNCHANGED <<state, phase>> /\ loop = "exec" /\ loop' \in {"select", "wedged"}
      BY <1>6 DEF ExecuteDayDiscussion, ExecuteVotingPhase, ExecuteLastWords,
                  Executing, LoopSendsPhaseDone
    <2> QED
      BY <2>1, MatchStill
  <1> QED
    BY <1>1, <1>2, <1>3, <1>4, <1>5, <1>6 DEF LoopStep

LEMMA MatchNext ==
    ASSUME TypeOK, StateMatchesPhase, [Next]_vars
    PROVE  StateMatchesPhase'
  <1> USE DEF moment
  <1>1. CASE Join
    BY <1>1, MatchStill DEF Join, JoinRoom
  <1>2. CASE StartGame
    BY <1>2 DEF StartGame, StateMatchesPhase, NightPhases, DayPhases
  <1>3. CASE LoopStep
    BY <1>3, MatchLoop
  <1>4. CASE NightAction
    <2>1. UNCHANGED <<state, phase>> /\ (loop' = loop \/ (state = "NIGHT" /\ loop' = "crashed"))
      BY <1>4 DEF NightAction, GuardAct, WerewolfAct, WitchAct, SeerAct, SeerActPanics,
                  MayAct, Panic
    <2> QED
      BY <2>1, MatchStill DEF StateMatchesPhase
  <1>5. CASE Vote
    <2>1. /\ UNCHANGED <<state, phase>>
          /\ loop' = loop \/ (phase = "DAY_VOTING" /\ loop' = "crashed")
      BY <1>5 DEF Vote, CastVote, VotePanics, Panic
    <2> QED
      BY <2>1, MatchStill DEF StateMatchesPhase, DayPhases
  <1>6. CASE UNCHANGED vars
    BY <1>6, MatchStill DEF vars
  <1> QED
    BY <1>1, <1>2, <1>3, <1>4, <1>5, <1>6 DEF Next

\* State and CurrentPhase agree, and every variable has its type, in every
\* reachable state of every room.  The two are proved together: a token carries
\* the current phase, which is one of the game only because the loop runs.
THEOREM TypeAndTime == Spec => [](TypeOK /\ StateMatchesPhase)
  <1>1. Init => TypeOK /\ StateMatchesPhase
    BY TypeInit, MatchInit
  <1>2. TypeOK /\ StateMatchesPhase /\ [Next]_vars => (TypeOK /\ StateMatchesPhase)'
    BY TypeNext, MatchNext
  <1> QED
    BY <1>1, <1>2, PTL DEF Spec

\* Every variable has its type in every reachable state.
THEOREM TypeCorrect == Spec => []TypeOK
  BY TypeAndTime, PTL

\* The room's State and its CurrentPhase never disagree about the time of day,
\* though they are assigned in different places of service.go.
THEOREM TimeCorrect == Spec => []StateMatchesPhase
  BY TypeAndTime, PTL
=============================================================================
