------------------------- MODULE GameRoomRefinement -------------------------
(* GameRoom implements GameRules: every step of the room is one step of the *)
(* rules, or none.                                                          *)
EXTENDS GameRoomChannel, FiniteSetTheorems

(***************************************************************************)
(* What the mapping needs to know of a room: a night whose first phase has *)
(* begun is one of an open game; the witch has paid for what she poured;   *)
(* and the lobby is innocent.                                              *)
(***************************************************************************)

RulesInv ==
    /\ stage = "night" /\ ~(phase = "NIGHT_GUARD" /\ loop = "top") => ~Decided
    /\ phase = "NIGHT_GUARD" /\ loop = "top" => witchPoisonTarget = NoOne
    /\ witchPoisonTarget # NoOne => witchPoisonUsed
    /\ state = "WAITING" => ~witchPoisonUsed /\ \A p \in Ids : role[p] = "UNKNOWN"

RulesBase == Base /\ Base' /\ PlayedWhileOpen /\ RulesInv

\* The stage of a room, by the phase its loop is in.
LEMMA StageOf ==
    ASSUME Base
    PROVE  /\ state = "WAITING" => stage = "lobby"
           /\ phase \in NightPhases => stage = "night"
           /\ phase = "DAY_DISCUSSION" /\ ~settled => stage = "night"
           /\ phase = "DAY_DISCUSSION" /\ settled => stage = "day"
           /\ phase = "DAY_VOTING" => stage = "day"
           /\ phase = "DAY_LAST_WORDS" /\ ~settled => stage = "day"
           /\ phase = "DAY_LAST_WORDS" /\ settled => stage = "dusk"
           /\ state = "FINISHED" => stage = "over"
  BY DEF Base, StateMatchesPhase, NightPhases, DayPhases, stage

\* The operator of FiniteSets seen through the instance is the operator itself.
LEMMA SameCardinality == \A S : Rules!Cardinality(S) = Cardinality(S)
  BY DEF Rules!Cardinality, Cardinality

LEMMA RulesDecided == ASSUME Base PROVE Rules!Decided <=> Decided
  <1>1. alive \cap {p \in players : role[p] = "WEREWOLF"} = Wolves
    BY DEF Base, TypeOK, Wolves, Living
  <1>2. alive \ {p \in players : role[p] = "WEREWOLF"} = Others
    BY DEF Base, TypeOK, Wolves, Living, Others
  <1> QED
    BY <1>1, <1>2, SameCardinality DEF Rules!Decided, Decided

(***************************************************************************)
(* RulesInv is invariant.                                                  *)
(***************************************************************************)

LEMMA RulesInvLoop ==
    ASSUME Base, Base', PlayedWhileOpen, RulesInv, LoopStep
    PROVE  RulesInv'
  <1> USE DEF moment, people, night, potion, settled
  <1>1. CASE ExecuteDayDiscussion \/ ExecuteLastWords
    <2>1. stage' # "night"
      BY <1>1, StageOf DEF ExecuteDayDiscussion, ExecuteLastWords, Executing, LoopSendsPhaseDone,
                           Base, StateMatchesPhase, DayPhases, stage
    <2> QED
      BY <1>1, <2>1 DEF ExecuteDayDiscussion, ExecuteLastWords, Executing, LoopSendsPhaseDone,
                        RulesInv
  <1>2. CASE ~ExecuteDayDiscussion /\ ~ExecuteLastWords
    <2>0. UNCHANGED people /\ loop # "idle" /\ state # "WAITING" /\ state' # "WAITING"
      BY <1>2, LobbyStep
         DEF LoopStep, EnterPhase, FinishGame, ExecuteGuardPhase, ExecuteWerewolfPhase,
             ExecuteWitchPhase, WitchPhasePanics, ExecuteSeerPhase, SettlePanics,
             ExecuteVotingPhase, Executing, TakePhaseDone, SelectTimeout, NextPhase, TimeOfDay,
             Nightfall, Panic, Base, StateMatchesPhase
    <2>1. Decided' <=> Decided
      BY <2>0, DecidedSame
    <2>2. witchPoisonTarget' # NoOne => witchPoisonUsed'
      BY <1>2 DEF LoopStep, EnterPhase, FinishGame, ExecuteGuardPhase, ExecuteWerewolfPhase,
             ExecuteWitchPhase, WitchPhasePanics, ExecuteSeerPhase, SettlePanics,
             ExecuteVotingPhase, TakePhaseDone, SelectTimeout, NextPhase, Nightfall,
             ForgetTargets, Panic, RulesInv
    <2>3. phase' = "NIGHT_GUARD" /\ loop' = "top" => witchPoisonTarget' = NoOne
      BY <1>2 DEF LoopStep, EnterPhase, FinishGame, ExecuteGuardPhase, ExecuteWerewolfPhase,
             ExecuteWitchPhase, WitchPhasePanics, ExecuteSeerPhase, SettlePanics, Executing,
             ExecuteVotingPhase, TakePhaseDone, SelectTimeout, NextPhase, FollowingPhase, Nightfall,
             ForgetTargets, WaitFor, LoopSendsPhaseDone, Panic
    <2>4. stage' = "night" /\ ~(phase' = "NIGHT_GUARD" /\ loop' = "top") => ~Decided
      <3>1. CASE EnterPhase
        BY <3>1 DEF EnterPhase
      <3>2. CASE FinishGame
        BY <3>2 DEF FinishGame, stage
      <3>3. CASE Nightfall
        BY <3>3 DEF Nightfall
      <3>4. CASE NextPhase
        BY <3>4 DEF NextPhase, FollowingPhase, TimeOfDay, stage, Base, StateMatchesPhase,
                    NightPhases, DayPhases, RulesInv
      <3>5. CASE TakePhaseDone \/ SelectTimeout
        BY <3>5 DEF TakePhaseDone, SelectTimeout, stage, RulesInv
      <3>6. CASE loop = "exec"
        BY <3>6 DEF PlayedWhileOpen
      <3> QED
        BY <1>2, <3>1, <3>2, <3>3, <3>4, <3>5, <3>6
           DEF LoopStep, ExecuteGuardPhase, ExecuteWerewolfPhase, ExecuteWitchPhase,
               ExecuteSeerPhase, ExecuteVotingPhase, WitchPhasePanics, SettlePanics, Executing
    <2> QED
      BY <2>0, <2>1, <2>2, <2>3, <2>4 DEF RulesInv
  <1> QED
    BY <1>1, <1>2

LEMMA RulesInvNext ==
    ASSUME Base, Base', PlayedWhileOpen, RulesInv, [Next]_vars
    PROVE  RulesInv'
  <1> USE DEF moment, people, night, potion
  <1>1. CASE Join
    BY <1>1 DEF Join, JoinRoom, MayJoin, Base, StateMatchesPhase, TypeOK, RulesInv, stage
  <1>2. CASE StartGame
    BY <1>2 DEF StartGame, RulesInv
  <1>3. CASE LoopStep
    BY <1>3, RulesInvLoop
  <1>4. CASE NightAction
    <2>1. /\ UNCHANGED <<state, phase, people>>
          /\ state = "NIGHT"
          /\ UNCHANGED loop \/ loop' = "crashed"
          /\ phase \notin {"NIGHT_GUARD"} \/ UNCHANGED witchPoisonTarget
          /\ witchPoisonTarget' # NoOne => witchPoisonUsed'
      BY <1>4 DEF NightAction, GuardAct, WerewolfAct, WitchAct, SeerAct, SeerActPanics, Panic,
                  MayAct, RulesInv
    <2>2. Decided' <=> Decided
      BY <2>1, DecidedSame
    <2>3. stage = "night"
      BY <2>1 DEF stage, settled
    <2>4. loop' = "crashed" => phase = "NIGHT_SEER"
      BY <1>4 DEF NightAction, GuardAct, WerewolfAct, WitchAct, SeerAct, SeerActPanics, MayAct,
                  MuFree
    <2> QED
      BY <2>1, <2>2, <2>3, <2>4 DEF RulesInv
  <1>5. CASE Vote
    <2>1. /\ UNCHANGED <<state, phase, people, witchPoisonTarget, witchPoisonUsed>>
          /\ phase = "DAY_VOTING" /\ state = "DAY"
      BY <1>5 DEF Vote, CastVote, MayVote, VotePanics, Panic, Base, StateMatchesPhase, DayPhases
    <2> QED
      BY <2>1 DEF RulesInv, stage
  <1>6. CASE UNCHANGED vars
    <2>1. Decided' <=> Decided
      BY <1>6, DecidedSame DEF vars
    <2> QED
      BY <1>6, <2>1 DEF vars, RulesInv, stage, settled
  <1> QED
    BY <1>1, <1>2, <1>3, <1>4, <1>5, <1>6 DEF Next

(***************************************************************************)
(* Every step is a step of the rules.                                      *)
(***************************************************************************)

wolves == {p \in players : role[p] = "WEREWOLF"}

\* A step that the rules do not see.
LEMMA Unseen ==
    ASSUME UNCHANGED <<stage, players, wolves, alive, poison>>
    PROVE  UNCHANGED Rules!vars
  BY DEF Rules!vars, wolves

LEMMA RefineInit == Init => Rules!Init
  <1> SUFFICES ASSUME Init PROVE Rules!Init
    OBVIOUS
  <1>1. stage = "lobby" /\ poison = "full"
    BY DEF Init, stage, settled, poison
  <1> QED
    BY <1>1 DEF Init, Rules!Init

LEMMA RefineJoin == ASSUME RulesBase, NEW p \in Ids, JoinRoom(p) PROVE Rules!Enter
  <1> USE DEF moment, potion, night, settled
  <1>1. stage = "lobby" /\ stage' = "lobby"
    BY DEF JoinRoom, MayJoin, stage
  <1>2. poison' = poison
    BY <1>1 DEF JoinRoom, poison
  <1>3. wolves = {} /\ wolves' = {}
    BY DEF JoinRoom, MayJoin, RulesBase, RulesInv, Base, TypeOK, wolves
  <1> QED
    BY <1>1, <1>2, <1>3 DEF JoinRoom, wolves, Rules!Enter

LEMMA RefineStart == ASSUME RulesBase, StartGame PROVE Rules!Deal
  <1> USE DEF moment, potion, night, settled
  <1>1. stage = "lobby" /\ stage' = "night"
    BY DEF StartGame, stage
  <1>2. poison = "full" /\ poison' = "full"
    BY DEF StartGame, RulesBase, RulesInv, poison
  <1>3. wolves' \in SUBSET players
    BY DEF StartGame, wolves
  <1> QED
    BY <1>1, <1>2, <1>3 DEF StartGame, wolves, Rules!Deal

LEMMA RefineFinish == ASSUME RulesBase, FinishGame PROVE Rules!GameOver
  <1> USE DEF moment, people, potion, night, settled
  <1>1. stage' = "over" /\ wolves' = wolves
    BY DEF FinishGame, stage, wolves
  <1>2. phase \in NightPhases \cup DayPhases /\ loop = "top"
    BY DEF FinishGame, RulesBase, Base, TypeOK, StateMatchesPhase, GamePhases
  <1>3. stage \in {"night", "day"}
    BY <1>2, StageOf DEF RulesBase, DayPhases
  <1>4. Rules!Decided
    BY RulesDecided DEF FinishGame, RulesBase
  <1>5. poison' = poison
    BY <1>1, <1>3 DEF FinishGame, RulesBase, RulesInv, poison
  <1> QED
    BY <1>1, <1>3, <1>4, <1>5 DEF FinishGame, wolves, Rules!GameOver

\* Two sets of at most one member each.
LEMMA TwoAtMost ==
    /\ Cardinality({}) = 0
    /\ \A x : Cardinality({x}) = 1
    /\ \A x, y : Cardinality({x, y}) \in {1, 2}
  <1>1. Cardinality({}) = 0
    BY FS_EmptySet
  <1>2. \A x : IsFiniteSet({x}) /\ Cardinality({x}) = 1
    BY FS_Singleton
  <1>3. ASSUME NEW x, NEW y PROVE Cardinality({x, y}) \in {1, 2}
    <2>1. CASE x = y
      BY <1>2, <2>1
    <2>2. CASE x # y
      <3>1. {x, y} = {x} \cup {y} /\ y \notin {x}
        BY <2>2
      <3>2. Cardinality({x} \cup {y}) = Cardinality({x}) + 1
        BY <1>2, <3>1, FS_AddElement
      <3> QED
        BY <1>2, <3>1, <3>2
    <2> QED
      BY <2>1, <2>2
  <1> QED
    BY <1>1, <1>2, <1>3

LEMMA RefineDawn == ASSUME RulesBase, ExecuteDayDiscussion PROVE Rules!Dawn
  <1> USE DEF moment, potion, night
  <1>1. stage = "night" /\ stage' = "day"
    BY DEF ExecuteDayDiscussion, Executing, LoopSendsPhaseDone, stage, settled, RulesBase, Base,
           StateMatchesPhase, DayPhases
  <1>2. ~Rules!Decided
    BY RulesDecided DEF ExecuteDayDiscussion, Executing, RulesBase, PlayedWhileOpen
  <1>3. poison' = IF poison = "poured" THEN "empty" ELSE poison
    BY <1>1 DEF ExecuteDayDiscussion, poison
  <1>4. wolves' = wolves /\ players' = players
    BY DEF ExecuteDayDiscussion, wolves
  <1>5. PICK killed : killed = Slain \cup Poisoned
    OBVIOUS
  <1>6. killed \in SUBSET players /\ alive' = alive \ killed
    BY <1>5 DEF ExecuteDayDiscussion
  <1>7. Cardinality(killed) <= IF poison = "poured" THEN 2 ELSE 1
    <2>1. CASE witchPoisonTarget = NoOne
      <3>1. killed = {} \/ killed = {werewolfTarget}
        BY <1>5, <2>1 DEF Slain, Poisoned
      <3>2. Cardinality(killed) \in {0, 1}
        BY <3>1, TwoAtMost
      <3> QED
        BY <3>2
    <2>2. CASE witchPoisonTarget # NoOne
      <3>1. poison = "poured"
        BY <1>1, <2>2 DEF RulesBase, RulesInv, poison
      <3>2. killed = {witchPoisonTarget} \/ killed = {werewolfTarget, witchPoisonTarget}
        BY <1>5, <2>2 DEF Slain, Poisoned
      <3>3. Cardinality(killed) \in {1, 2}
        BY <3>2, TwoAtMost
      <3> QED
        BY <3>1, <3>3
    <2> QED
      BY <2>1, <2>2
  <1> QED
    BY <1>1, <1>2, <1>3, <1>4, <1>6, <1>7, SameCardinality DEF wolves, Rules!Dawn

LEMMA RefineExile == ASSUME RulesBase, ExecuteLastWords PROVE Rules!Exile
  <1> USE DEF moment, potion, night
  <1>1. stage = "day" /\ stage' = "dusk"
    BY DEF ExecuteLastWords, Executing, LoopSendsPhaseDone, stage, settled, RulesBase, Base,
           StateMatchesPhase, DayPhases
  <1>2. ~Rules!Decided
    BY RulesDecided DEF ExecuteLastWords, Executing, RulesBase, PlayedWhileOpen
  <1>3. poison' = poison
    BY <1>1 DEF ExecuteLastWords, poison
  <1>4. wolves' = wolves /\ players' = players
    BY DEF ExecuteLastWords, wolves
  <1>5. PICK out \in VotedOut : alive' = alive \ out
    BY DEF ExecuteLastWords
  <1>6. out = {} \/ \E p \in players : out = {p}
    BY DEF VotedOut
  <1>7. UNCHANGED alive \/ \E p \in players : alive' = alive \ {p}
    BY <1>5, <1>6
  <1> QED
    BY <1>1, <1>2, <1>3, <1>4, <1>7 DEF wolves, Rules!Exile

LEMMA RefineNightfall == ASSUME RulesBase, Nightfall PROVE Rules!Night
  <1> USE DEF moment, people, potion
  <1>1. stage = "dusk" /\ stage' = "night"
    BY DEF Nightfall, stage, settled, RulesBase, Base, StateMatchesPhase, DayPhases
  <1>2. poison' = poison
    BY <1>1 DEF Nightfall, ForgetTargets, poison
  <1> QED
    BY <1>1, <1>2 DEF Nightfall, Rules!Night

LEMMA RefinePour ==
    ASSUME RulesBase, NEW p, NEW t, NEW actionType, WitchAct(p, t, actionType)
    PROVE  Rules!Pour \/ UNCHANGED Rules!vars
  <1> USE DEF moment, people, potion
  <1>1. stage = "night" /\ stage' = "night"
    BY DEF WitchAct, MayAct, stage, settled
  <1>2. wolves' = wolves /\ players' = players /\ alive' = alive
    BY DEF WitchAct, wolves
  <1>3. CASE ~witchPoisonUsed /\ witchPoisonUsed'
    <2>1. poison = "full" /\ poison' \in {"poured", "empty"}
      BY <1>3, <1>1 DEF poison
    <2> QED
      BY <1>1, <1>2, <2>1 DEF wolves, Rules!Pour
  <1>4. CASE UNCHANGED <<witchPoisonUsed, witchPoisonTarget>>
    <2>1. poison' = poison
      BY <1>4, <1>1 DEF poison
    <2> QED
      BY <1>1, <1>2, <2>1, Unseen
  <1> QED
    BY <1>3, <1>4 DEF WitchAct, PoisonLeft

(***************************************************************************)
(* The steps between: the moderator's bookkeeping, the mutex, the channel, *)
(* the timer, and every request that is not the witch's.                   *)
(***************************************************************************)

Bookkeeping ==
    \/ EnterPhase
    \/ ExecuteGuardPhase \/ ExecuteWerewolfPhase
    \/ ExecuteWitchPhase \/ WitchPhasePanics \/ ExecuteSeerPhase
    \/ SettlePanics \/ ExecuteVotingPhase
    \/ TakePhaseDone \/ SelectTimeout \/ NextPhase

OtherRequest ==
    \/ \E p \in Callers, t \in Targets :
          GuardAct(p, t) \/ WerewolfAct(p, t) \/ SeerAct(p, t) \/ SeerActPanics(p, t)
    \/ Vote

LEMMA BookkeepingUnseen == ASSUME RulesBase, Bookkeeping PROVE UNCHANGED Rules!vars
  <1> USE DEF moment, people, night, potion
  <1>1. UNCHANGED <<people, witchPoisonTarget, witchPoisonUsed>>
    BY DEF Bookkeeping, EnterPhase, ExecuteGuardPhase, ExecuteWerewolfPhase, ExecuteWitchPhase,
           WitchPhasePanics, ExecuteSeerPhase, SettlePanics, ExecuteVotingPhase, TakePhaseDone,
           SelectTimeout, NextPhase, Panic
  <1>2. stage' = stage
    <2>1. CASE ExecuteGuardPhase \/ ExecuteWerewolfPhase \/ ExecuteWitchPhase \/ ExecuteSeerPhase
      BY <2>1 DEF ExecuteGuardPhase, ExecuteWerewolfPhase, ExecuteWitchPhase, ExecuteSeerPhase,
                  Executing, RulesBase, Base, StateMatchesPhase, NightPhases, stage
    <2>2. CASE ExecuteVotingPhase
      BY <2>2 DEF ExecuteVotingPhase, Executing, RulesBase, Base, StateMatchesPhase, DayPhases, stage
    <2>3. CASE EnterPhase \/ WitchPhasePanics \/ SettlePanics
      BY <2>3 DEF EnterPhase, WitchPhasePanics, SettlePanics, Panic, Executing, stage, settled
    <2>4. CASE TakePhaseDone \/ SelectTimeout
      BY <2>4 DEF TakePhaseDone, SelectTimeout, stage, settled
    <2>5. CASE NextPhase
      BY <2>5 DEF NextPhase, FollowingPhase, TimeOfDay, RulesBase, Base, StateMatchesPhase,
                  NightPhases, DayPhases, stage, settled
    <2> QED
      BY <2>1, <2>2, <2>3, <2>4, <2>5 DEF Bookkeeping
  <1>3. poison' = poison
    BY <1>1, <1>2 DEF poison
  <1> QED
    BY <1>1, <1>2, <1>3, Unseen DEF wolves

LEMMA RequestUnseen == ASSUME RulesBase, OtherRequest PROVE UNCHANGED Rules!vars
  <1> USE DEF moment, people, night, potion
  <1>1. UNCHANGED <<moment, people, witchPoisonTarget, witchPoisonUsed>>
    BY DEF OtherRequest, GuardAct, WerewolfAct, SeerAct, SeerActPanics, Vote, CastVote, VotePanics,
           Panic
  <1>2. state = "NIGHT" \/ phase = "DAY_VOTING"
    BY DEF OtherRequest, GuardAct, WerewolfAct, SeerAct, SeerActPanics, Vote, CastVote, VotePanics,
           MayAct, MayVote
  <1>3. stage' = stage
    BY <1>1, <1>2 DEF stage
  <1>4. poison' = poison
    BY <1>1, <1>3 DEF poison
  <1> QED
    BY <1>1, <1>3, <1>4, Unseen DEF wolves

LEMMA RefineNext == ASSUME RulesBase, [Next]_vars PROVE [Rules!Next]_(Rules!vars)
  <1>1. CASE Join
    BY <1>1, RefineJoin DEF Join, Rules!Next
  <1>2. CASE StartGame
    BY <1>2, RefineStart DEF Rules!Next
  <1>3. CASE LoopStep
    <2>1. CASE FinishGame
      BY <2>1, RefineFinish DEF Rules!Next
    <2>2. CASE ExecuteDayDiscussion
      BY <2>2, RefineDawn DEF Rules!Next
    <2>3. CASE ExecuteLastWords
      BY <2>3, RefineExile DEF Rules!Next
    <2>4. CASE Nightfall
      BY <2>4, RefineNightfall DEF Rules!Next
    <2>5. CASE Bookkeeping
      BY <2>5, BookkeepingUnseen
    <2> QED
      BY <1>3, <2>1, <2>2, <2>3, <2>4, <2>5 DEF LoopStep, Bookkeeping
  <1>4. CASE NightAction
    <2>1. CASE \E p \in Callers, t \in Targets, actionType \in {"save", "poison", "skip"} :
                  WitchAct(p, t, actionType)
      BY <2>1, RefinePour DEF Rules!Next
    <2>2. CASE OtherRequest
      BY <2>2, RequestUnseen
    <2> QED
      BY <1>4, <2>1, <2>2 DEF NightAction, OtherRequest
  <1>5. CASE Vote
    BY <1>5, RequestUnseen DEF OtherRequest
  <1>6. CASE UNCHANGED vars
    BY <1>6, Unseen DEF vars, moment, people, night, potion, stage, settled, poison, wolves
  <1> QED
    BY <1>1, <1>2, <1>3, <1>4, <1>5, <1>6 DEF Next

LEMMA RulesInvCorrect == Spec => []RulesInv
  <1>1. Init => RulesInv
    BY DEF Init, RulesInv, stage, settled
  <1>2. Base /\ Base' /\ PlayedWhileOpen /\ RulesInv /\ [Next]_vars => RulesInv'
    BY RulesInvNext
  <1> QED
    BY <1>1, <1>2, BaseInvariant, OpenCorrect, PTL DEF Spec

\* The room implements the rules of the game: the mutex, the channel, the timer
\* and the late answers they let through never make it deal a death, a second
\* bottle of poison or a next round that the rules do not have.
THEOREM Refinement == Spec => PlaysByTheRules
  <1>1. Init => Rules!Init
    BY RefineInit
  <1>2. RulesBase /\ [Next]_vars => [Rules!Next]_(Rules!vars)
    BY RefineNext
  <1>3. Base /\ Base' /\ PlayedWhileOpen /\ RulesInv => RulesBase
    BY DEF RulesBase
  <1> QED
    BY <1>1, <1>2, <1>3, RulesInvCorrect, BaseInvariant, OpenCorrect, PTL
       DEF Spec, PlaysByTheRules, Rules!Spec

(***************************************************************************)
(* What follows from the rules over a whole game: how many may be dead.    *)
(***************************************************************************)

Allowed ==
    (CASE stage = "lobby" -> 0
       [] stage = "night" -> 2 * (dayCount - 1)
       [] stage = "day"   -> 2 * dayCount - 1
       [] OTHER           -> 2 * dayCount)
    + (IF poison = "empty" THEN 1 ELSE 0)

DeathToll == Cardinality(players \ alive) <= Allowed

\* The days are counted as the rules' stages go round.
LEMMA DayStep ==
    ASSUME RulesBase, [Next]_vars
    PROVE  /\ stage = "lobby" /\ stage' = "night" => dayCount' = 1
           /\ stage = "dusk" /\ stage' = "night" => dayCount' = dayCount + 1
           /\ stage' = stage \/ stage' # "night" => dayCount' = dayCount
  <1>1. CASE StartGame
    <2>1. stage = "lobby" /\ stage' = "night"
      BY <1>1 DEF StartGame, stage
    <2> QED
      BY <1>1, <2>1 DEF StartGame
  <1>2. CASE Nightfall
    <2>1. stage # "lobby" /\ stage # "night" /\ stage' = "night"
      BY <1>2 DEF Nightfall, RulesBase, Base, StateMatchesPhase, DayPhases, stage, settled
    <2> QED
      BY <1>2, <2>1 DEF Nightfall
  <1>3. CASE ~StartGame /\ ~Nightfall
    <2>1. UNCHANGED dayCount
      BY <1>3 DEF Next, Join, JoinRoom, LoopStep, EnterPhase, FinishGame, ExecuteGuardPhase,
                  ExecuteWerewolfPhase, ExecuteWitchPhase, WitchPhasePanics, ExecuteSeerPhase,
                  ExecuteDayDiscussion, SettlePanics, ExecuteVotingPhase, ExecuteLastWords,
                  TakePhaseDone, SelectTimeout, NextPhase, NightAction, GuardAct, WerewolfAct,
                  WitchAct, SeerAct, SeerActPanics, Vote, CastVote, VotePanics, Panic, vars, moment
    <2>2. stage' = "night" => stage = "night"
      <3>1. CASE Join \/ LoopStep
        BY <3>1, <1>3
           DEF Join, JoinRoom, LoopStep, EnterPhase, FinishGame, ExecuteGuardPhase,
               ExecuteWerewolfPhase, ExecuteWitchPhase, WitchPhasePanics, ExecuteSeerPhase,
               ExecuteDayDiscussion, SettlePanics, ExecuteVotingPhase, ExecuteLastWords,
               Executing, LoopSendsPhaseDone, TakePhaseDone, SelectTimeout, NextPhase, TimeOfDay,
               FollowingPhase, Panic, moment, RulesBase, Base, StateMatchesPhase, NightPhases,
               DayPhases, stage, settled
      <3>2. CASE NightAction \/ Vote
        <4>1. UNCHANGED moment /\ (UNCHANGED loop \/ loop' = "crashed")
          BY <3>2 DEF NightAction, GuardAct, WerewolfAct, WitchAct, SeerAct, SeerActPanics, Panic,
                      Vote, CastVote, VotePanics
        <4>2. state = "NIGHT" \/ phase = "DAY_VOTING"
          BY <3>2 DEF NightAction, GuardAct, WerewolfAct, WitchAct, SeerAct, SeerActPanics, MayAct,
                      Vote, CastVote, VotePanics, MayVote
        <4> QED
          BY <4>1, <4>2 DEF moment, RulesBase, Base, StateMatchesPhase, DayPhases, stage
      <3>3. CASE UNCHANGED vars
        BY <3>3 DEF vars, moment, stage, settled
      <3> QED
        BY <3>1, <3>2, <3>3, <1>3 DEF Next
    <2> QED
      BY <2>1, <2>2
  <1> QED
    BY <1>1, <1>2, <1>3

LEMMA MoreDead ==
    ASSUME Base, Base', NEW killed, IsFiniteSet(killed),
           players' \ alive' \subseteq (players \ alive) \cup killed
    PROVE  /\ Cardinality(players \ alive) \in Nat /\ Cardinality(players' \ alive') \in Nat
           /\ Cardinality(players' \ alive') <= Cardinality(players \ alive) + Cardinality(killed)
  <1>1. IsFiniteSet(players \ alive) /\ IsFiniteSet(players' \ alive')
    BY FS_Subset, FiniteAssumption DEF Base, TypeOK
  <1>2. /\ Cardinality(players \ alive) \in Nat /\ Cardinality(players' \ alive') \in Nat
        /\ Cardinality(killed) \in Nat
    BY <1>1, FS_CardinalityType
  <1>3. IsFiniteSet((players \ alive) \cap killed)
    BY <1>1, FS_Intersection
  <1>4. Cardinality((players \ alive) \cap killed) \in Nat
    BY <1>3, FS_CardinalityType
  <1>5. /\ IsFiniteSet((players \ alive) \cup killed)
        /\ Cardinality((players \ alive) \cup killed)
              = Cardinality(players \ alive) + Cardinality(killed)
                - Cardinality((players \ alive) \cap killed)
    BY <1>1, FS_Union
  <1>6. Cardinality(players' \ alive') <= Cardinality((players \ alive) \cup killed)
    BY <1>5, FS_Subset
  <1> QED
    BY <1>2, <1>4, <1>5, <1>6

LEMMA TollNext == ASSUME RulesBase, DeathToll, [Next]_vars PROVE DeathToll'
  <1> USE DEF DeathToll, Allowed
  <1>0. /\ Base /\ Base' /\ dayCount \in Nat
        /\ IsFiniteSet({}) /\ Cardinality({}) = 0
    BY FS_EmptySet DEF RulesBase, Base, TypeOK
  <1>1. ASSUME players' \ alive' \subseteq players \ alive
        PROVE  /\ Cardinality(players \ alive) \in Nat /\ Cardinality(players' \ alive') \in Nat
               /\ Cardinality(players' \ alive') <= Cardinality(players \ alive)
    <2>1. players' \ alive' \subseteq (players \ alive) \cup {}
      BY <1>1
    <2>2. Cardinality(players \ alive) \in Nat /\ Cardinality(players' \ alive') \in Nat
          /\ Cardinality(players' \ alive') <= Cardinality(players \ alive) + Cardinality({})
      BY <1>0, <2>1, MoreDead
    <2> QED
      BY <1>0, <2>2
  <1>2. CASE UNCHANGED Rules!vars
    <2>1. UNCHANGED <<stage, players, alive, poison>>
      BY <1>2 DEF Rules!vars
    <2>2. dayCount' = dayCount
      BY <2>1, DayStep
    <2> QED
      BY <2>1, <2>2
  <1>3. CASE Rules!Enter
    BY <1>0, <1>1, <1>3, DayStep DEF Rules!Enter
  <1>4. CASE Rules!Deal
    BY <1>0, <1>1, <1>4, DayStep DEF Rules!Deal
  <1>5. CASE Rules!Pour
    BY <1>0, <1>1, <1>5, DayStep DEF Rules!Pour
  <1>6. CASE Rules!Dawn
    <2>1. PICK killed \in SUBSET players :
             /\ Cardinality(killed) <= IF poison = "poured" THEN 2 ELSE 1
             /\ alive' = alive \ killed
      BY <1>6, SameCardinality DEF Rules!Dawn
    <2>2. IsFiniteSet(killed) /\ Cardinality(killed) \in Nat
      BY <1>0, FiniteAssumption, FS_Subset, FS_CardinalityType DEF Base, TypeOK
    <2>3. players' = players /\ stage = "night" /\ stage' = "day" /\ dayCount' = dayCount
          /\ poison' = IF poison = "poured" THEN "empty" ELSE poison
      BY <1>6, DayStep DEF Rules!Dawn
    <2>4. Cardinality(players' \ alive') <= Cardinality(players \ alive) + Cardinality(killed)
          /\ Cardinality(players \ alive) \in Nat /\ Cardinality(players' \ alive') \in Nat
      BY <1>0, <2>1, <2>2, <2>3, MoreDead
    <2> QED
      BY <1>0, <2>1, <2>2, <2>3, <2>4
  <1>7. CASE Rules!Exile
    <2>1. PICK out \in SUBSET players :
             alive' = alive \ out /\ (out = {} \/ \E p \in players : out = {p})
      <3>1. CASE UNCHANGED alive
        <4>1. {} \in SUBSET players /\ alive' = alive \ {}
          BY <3>1
        <4> QED
          BY <4>1
      <3>2. ASSUME NEW p \in players, alive' = alive \ {p}
            PROVE  {p} \in SUBSET players
        OBVIOUS
      <3> QED
        BY <1>7, <3>1, <3>2 DEF Rules!Exile
    <2>2. IsFiniteSet(out) /\ Cardinality(out) \in Nat /\ Cardinality(out) <= 1
      <3>1. CASE out = {}
        BY <1>0, <3>1
      <3>2. ASSUME NEW p \in players, out = {p}
            PROVE  IsFiniteSet(out) /\ Cardinality(out) = 1
        BY <3>2, FS_Singleton
      <3> QED
        BY <2>1, <3>1, <3>2
    <2>3. players' = players /\ stage = "day" /\ stage' = "dusk" /\ dayCount' = dayCount
          /\ poison' = poison
      BY <1>7, DayStep DEF Rules!Exile
    <2>4. Cardinality(players' \ alive') <= Cardinality(players \ alive) + Cardinality(out)
          /\ Cardinality(players \ alive) \in Nat /\ Cardinality(players' \ alive') \in Nat
      BY <1>0, <2>1, <2>2, <2>3, MoreDead
    <2>5. Allowed' = Allowed + 1
      BY <1>0, <2>3
    <2>6. Allowed \in Int
      BY <1>0
    <2> HIDE DEF Allowed
    <2> QED
      BY <2>2, <2>4, <2>5, <2>6
  <1>8. CASE Rules!Night
    BY <1>0, <1>1, <1>8, DayStep DEF Rules!Night
  <1>9. CASE Rules!GameOver
    BY <1>0, <1>1, <1>9, DayStep DEF Rules!GameOver
  <1> QED
    BY <1>2, <1>3, <1>4, <1>5, <1>6, <1>7, <1>8, <1>9, RefineNext DEF Rules!Next

\* However many timeouts, late answers and days a game takes, a night and the day
\* after it cost two lives at most, and the poison one more in the whole game.
THEOREM TollCorrect == Spec => []DeathToll
  <1>1. Init => DeathToll
    <2> SUFFICES ASSUME Init
                 PROVE  DeathToll
      OBVIOUS
    <2>1. stage = "lobby" /\ poison = "full" /\ players \ alive = {}
      BY DEF Init, stage, poison
    <2> QED
      BY <2>1, FS_EmptySet DEF DeathToll, Allowed
  <1>2. RulesBase /\ DeathToll /\ [Next]_vars => DeathToll'
    BY TollNext
  <1>3. Base /\ Base' /\ PlayedWhileOpen /\ RulesInv => RulesBase
    BY DEF RulesBase
  <1> QED
    BY <1>1, <1>2, <1>3, RulesInvCorrect, BaseInvariant, OpenCorrect, PTL DEF Spec
=============================================================================
