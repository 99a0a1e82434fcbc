--------------------------- MODULE GameRoomSafety ---------------------------
(* Who is alive, who is counted and when the game is over, for every room. *)
EXTENDS GameRoomProofs

Base == TypeOK /\ StateMatchesPhase

LEMMA BaseInvariant == Spec => []Base
  BY TypeAndTime DEF Base

\* The few steps that change who is in the room and who is alive in it.
LEMMA PeopleStep ==
    ASSUME TypeOK, [Next]_vars
    PROVE  \/ UNCHANGED people
           \/ \E p \in Ids : JoinRoom(p)
           \/ StartGame
           \/ ExecuteDayDiscussion
           \/ ExecuteLastWords
  <1>1. CASE Join \/ StartGame
    BY <1>1 DEF Join
  <1>2. CASE LoopStep
    BY <1>2 DEF LoopStep, EnterPhase, FinishGame, ExecuteGuardPhase, ExecuteWerewolfPhase,
                ExecuteWitchPhase, WitchPhasePanics, ExecuteSeerPhase, SettlePanics,
                ExecuteVotingPhase, TakePhaseDone, SelectTimeout, NextPhase, Nightfall, Panic
  <1>3. CASE NightAction
    BY <1>3 DEF NightAction, GuardAct, WerewolfAct, WitchAct, SeerAct, SeerActPanics, Panic
  <1>4. CASE Vote
    BY <1>4 DEF Vote, CastVote, VotePanics, Panic
  <1>5. CASE UNCHANGED vars
    BY <1>5 DEF vars
  <1> QED
    BY <1>1, <1>2, <1>3, <1>4, <1>5 DEF Next

\* Only StartGame leaves the lobby, and nothing returns to it.
LEMMA LobbyStep ==
    ASSUME Base, [Next]_vars
    PROVE  StartGame \/ (state' = "WAITING" <=> state = "WAITING")
  <1> USE DEF moment, Base
  <1>1. CASE Join
    BY <1>1 DEF Join, JoinRoom
  <1>2. CASE LoopStep
    BY <1>2 DEF LoopStep, EnterPhase, FinishGame, ExecuteGuardPhase, ExecuteWerewolfPhase,
                ExecuteWitchPhase, WitchPhasePanics, ExecuteSeerPhase, SettlePanics,
                ExecuteDayDiscussion, ExecuteVotingPhase, ExecuteLastWords, Executing,
                TakePhaseDone, SelectTimeout, NextPhase, TimeOfDay, Nightfall, Panic,
                StateMatchesPhase
  <1>3. CASE NightAction
    BY <1>3 DEF NightAction, GuardAct, WerewolfAct, WitchAct, SeerAct, SeerActPanics, Panic
  <1>4. CASE Vote
    BY <1>4 DEF Vote, CastVote, VotePanics, Panic
  <1>5. CASE UNCHANGED vars
    BY <1>5 DEF vars
  <1> QED
    BY <1>1, <1>2, <1>3, <1>4, <1>5 DEF Next

(***************************************************************************)
(* The two records of the dead.  In the lobby nobody is dead yet, so that  *)
(* a player who joins again is not counted twice.                          *)
(***************************************************************************)

DeadInv == DeadAreDead /\ (state = "WAITING" => deadPlayers = {})

LEMMA DeadNext == ASSUME Base, Base', DeadInv, [Next]_vars PROVE DeadInv'
  <1> USE DEF people, moment, Base
  <1>1. CASE UNCHANGED people
    BY <1>1, LobbyStep DEF StartGame, DeadInv, DeadAreDead
  <1>2. ASSUME NEW p \in Ids, JoinRoom(p) PROVE DeadInv'
    BY <1>2 DEF JoinRoom, MayJoin, DeadInv, DeadAreDead
  <1>3. CASE StartGame
    BY <1>3 DEF StartGame, DeadInv, DeadAreDead
  <1>4. CASE ExecuteDayDiscussion
    BY <1>4 DEF ExecuteDayDiscussion, Executing, NewlyDead, StateMatchesPhase, DeadInv,
                DeadAreDead, TypeOK
  <1>5. CASE ExecuteLastWords
    <2>1. PICK out \in VotedOut : alive' = alive \ out /\ deadPlayers' = deadPlayers \cup out
      BY <1>5 DEF ExecuteLastWords
    <2>2. out \subseteq players
      BY DEF VotedOut
    <2> QED
      BY <1>5, <2>1, <2>2 DEF ExecuteLastWords, Executing, StateMatchesPhase, DeadInv,
                              DeadAreDead, TypeOK
  <1> QED
    BY <1>1, <1>2, <1>3, <1>4, <1>5, PeopleStep

\* DeadPlayers and IsAlive never disagree: whoever the wolves, the poison or
\* the vote kills is dead in both, and once only.
THEOREM DeadCorrect == Spec => []DeadAreDead
  <1>1. Init => DeadInv
    BY DEF Init, DeadInv, DeadAreDead
  <1>2. Base /\ Base' /\ DeadInv /\ [Next]_vars => DeadInv'
    BY DeadNext
  <1>3. DeadInv => DeadAreDead
    BY DEF DeadInv
  <1> QED
    BY <1>1, <1>2, <1>3, BaseInvariant, PTL DEF Spec

(***************************************************************************)
(* The deal.                                                               *)
(***************************************************************************)

LEMMA DealNext ==
    ASSUME Base, DealMatchesConfig, [Next]_vars
    PROVE  DealMatchesConfig'
  <1> USE DEF people, moment, Base
  <1>1. CASE StartGame
    <2>1. PICK deal \in Deals :
             role' = [p \in Ids |-> IF p \in players THEN deal[p] ELSE role[p]]
      BY <1>1 DEF StartGame
    <2>2. \A r \in Roles : {p \in players' : role'[p] = r} = {p \in players : deal[p] = r}
      BY <1>1, <2>1 DEF StartGame, TypeOK
    <2> QED
      BY <2>1, <2>2 DEF Deals, DealMatchesConfig
  <1>2. ASSUME NEW p \in Ids, JoinRoom(p) PROVE DealMatchesConfig'
    BY <1>2 DEF JoinRoom, MayJoin, DealMatchesConfig
  <1>3. CASE ExecuteDayDiscussion \/ ExecuteLastWords
    BY <1>3 DEF ExecuteDayDiscussion, ExecuteLastWords, DealMatchesConfig
  <1>4. CASE UNCHANGED people
    BY <1>1, <1>4, LobbyStep DEF DealMatchesConfig
  <1> QED
    BY <1>1, <1>2, <1>3, <1>4, PeopleStep

\* A game that has started has exactly the roles of its configuration, whoever
\* tries to join while it is being dealt or afterwards.
THEOREM DealCorrect == Spec => []DealMatchesConfig
  <1>1. Init => DealMatchesConfig
    BY DEF Init, DealMatchesConfig
  <1>2. Base /\ DealMatchesConfig /\ [Next]_vars => DealMatchesConfig'
    BY DealNext
  <1> QED
    BY <1>1, <1>2, BaseInvariant, PTL DEF Spec

(***************************************************************************)
(* The end of the game is noticed before another phase is played.          *)
(***************************************************************************)

\* Whether the game is decided depends on who is alive and on the roles.
LEMMA DecidedSame ==
    ASSUME UNCHANGED people
    PROVE  Decided' <=> Decided
  <1>1. Wolves' = Wolves /\ Others' = Others
    BY DEF people, Wolves, Others, Living
  <1> QED
    BY <1>1 DEF Decided

LEMMA OpenNext == ASSUME Base, PlayedWhileOpen, [Next]_vars PROVE PlayedWhileOpen'
  <1> USE DEF people, moment, Base
  <1>1. CASE ExecuteDayDiscussion
    BY <1>1 DEF ExecuteDayDiscussion, Executing, LoopSendsPhaseDone, PlayedWhileOpen,
                StateMatchesPhase
  <1>2. CASE ExecuteLastWords
    BY <1>2 DEF ExecuteLastWords, Executing, LoopSendsPhaseDone, PlayedWhileOpen,
                StateMatchesPhase
  <1>3. CASE StartGame
    BY <1>3 DEF StartGame, PlayedWhileOpen
  <1>4. ASSUME NEW p \in Ids, JoinRoom(p) PROVE PlayedWhileOpen'
    BY <1>4 DEF JoinRoom, MayJoin, PlayedWhileOpen, StateMatchesPhase
  <1>5. CASE UNCHANGED people
    <2>0. Decided' <=> Decided
      BY <1>5, DecidedSame
    <2>1. CASE EnterPhase
      BY <2>0, <2>1 DEF EnterPhase, PlayedWhileOpen
    <2>2. CASE FinishGame
      BY <2>0, <2>2 DEF FinishGame, PlayedWhileOpen
    <2>3. CASE ExecuteGuardPhase \/ ExecuteWerewolfPhase \/ ExecuteWitchPhase \/ ExecuteSeerPhase
      <3>1. UNCHANGED moment /\ loop = "exec" /\ loop' # "exec"
        BY <2>3 DEF ExecuteGuardPhase, ExecuteWerewolfPhase, ExecuteWitchPhase,
                    ExecuteSeerPhase, Executing, WaitFor, LoopSendsPhaseDone
      <3> QED
        BY <2>0, <3>1 DEF PlayedWhileOpen
    <2>4. CASE ExecuteVotingPhase
      BY <2>0, <2>4 DEF ExecuteVotingPhase, Executing, PlayedWhileOpen
    <2>5. CASE TakePhaseDone \/ SelectTimeout
      BY <2>0, <2>5 DEF TakePhaseDone, SelectTimeout, PlayedWhileOpen
    <2>6. CASE NextPhase \/ Nightfall
      BY <2>0, <2>6 DEF NextPhase, TimeOfDay, Nightfall, PlayedWhileOpen, StateMatchesPhase
    <2>7. CASE NightAction \/ Vote \/ WitchPhasePanics \/ SettlePanics
      <3>1. UNCHANGED moment /\ (UNCHANGED loop \/ loop' = "crashed")
        BY <2>7 DEF NightAction, GuardAct, WerewolfAct, WitchAct, SeerAct, SeerActPanics,
                    Vote, CastVote, VotePanics, WitchPhasePanics, SettlePanics, Panic
      <3> QED
        BY <2>0, <3>1 DEF PlayedWhileOpen
    <2>8. CASE UNCHANGED vars
      BY <2>0, <2>8 DEF vars, PlayedWhileOpen
    <2> QED
      BY <1>1, <1>2, <1>3, <1>4, <2>1, <2>2, <2>3, <2>4, <2>5, <2>6, <2>7, <2>8
         DEF Next, Join, LoopStep
  <1> QED
    BY <1>1, <1>2, <1>3, <1>4, <1>5, PeopleStep

\* No phase is played in a game that is won, and no game ends that is not.
THEOREM OpenCorrect == Spec => []PlayedWhileOpen
  <1>1. Init => PlayedWhileOpen
    BY DEF Init, PlayedWhileOpen
  <1>2. Base /\ PlayedWhileOpen /\ [Next]_vars => PlayedWhileOpen'
    BY OpenNext
  <1> QED
    BY <1>1, <1>2, BaseInvariant, PTL DEF Spec

(***************************************************************************)
(* The ballots.  From the moment the vote is opened until it is counted,   *)
(* room.Votes holds votes of the living only, and of this day.             *)
(***************************************************************************)

BallotsOpen ==
    \/ phase = "DAY_VOTING" /\ loop \in {"select", "advance"}
    \/ phase = "DAY_LAST_WORDS" /\ loop \in {"top", "exec"}

BallotInv ==
    BallotsOpen =>
        \A p \in Ids : votes[p] # NoEntry => p \in alive /\ votes[p].day = dayCount

LEMMA BallotNext == ASSUME Base, BallotInv, [Next]_vars PROVE BallotInv'
  <1> USE DEF people, moment, Base, BallotsOpen
  <1>1. CASE Join \/ StartGame
    BY <1>1 DEF Join, JoinRoom, MayJoin, StartGame, BallotInv, StateMatchesPhase
  <1>2. CASE EnterPhase \/ TakePhaseDone \/ SelectTimeout \/ NextPhase
    BY <1>2 DEF EnterPhase, TakePhaseDone, SelectTimeout, NextPhase, FollowingPhase, BallotInv
  <1>3. CASE FinishGame \/ Nightfall \/ WitchPhasePanics \/ SettlePanics
    BY <1>3 DEF FinishGame, Nightfall, WitchPhasePanics, SettlePanics, Panic, BallotInv
  <1>4. CASE ExecuteVotingPhase
    BY <1>4 DEF ExecuteVotingPhase, BallotInv
  <1>5. CASE ExecuteGuardPhase \/ ExecuteWerewolfPhase \/ ExecuteWitchPhase \/ ExecuteSeerPhase
             \/ ExecuteDayDiscussion \/ ExecuteLastWords
    <2>1. UNCHANGED phase /\ phase # "DAY_VOTING" /\ loop' \in {"select", "wedged"}
      BY <1>5 DEF ExecuteGuardPhase, ExecuteWerewolfPhase, ExecuteWitchPhase, ExecuteSeerPhase,
                  ExecuteDayDiscussion, ExecuteLastWords, Executing, WaitFor, LoopSendsPhaseDone
    <2> QED
      BY <2>1 DEF BallotInv
  <1>6. CASE NightAction
    BY <1>6 DEF NightAction, GuardAct, WerewolfAct, WitchAct, SeerAct, SeerActPanics, Panic,
                BallotInv
  <1>7. CASE Vote
    <2>1. CASE \E p \in Callers : VotePanics(p)
      BY <2>1 DEF VotePanics, Panic, BallotInv
    <2>2. ASSUME NEW p \in Ids, NEW t \in MaybeId, CastVote(p, t) PROVE BallotInv'
      <3>1. \A q \in Ids : votes'[q] = IF q = p THEN [target |-> t, day |-> dayCount]
                                                ELSE votes[q]
        BY <2>2 DEF CastVote, TypeOK
      <3> QED
        BY <2>2, <3>1 DEF CastVote, MayVote, BallotInv
    <2> QED
      BY <1>7, <2>1, <2>2, InputTypes DEF Vote
  <1>8. CASE UNCHANGED vars
    BY <1>8 DEF vars, BallotInv
  <1> QED
    BY <1>1, <1>2, <1>3, <1>4, <1>5, <1>6, <1>7, <1>8 DEF Next, LoopStep

\* countVotes sees votes of this day by players still alive, never one left from
\* the day before nor one of somebody who died meanwhile.
THEOREM BallotsCorrect == Spec => []LivingBallots
  <1>1. Init => BallotInv
    BY DEF Init, BallotInv, BallotsOpen
  <1>2. Base /\ BallotInv /\ [Next]_vars => BallotInv'
    BY BallotNext
  <1>3. BallotInv => LivingBallots
    BY DEF BallotInv, BallotsOpen, LivingBallots
  <1> QED
    BY <1>1, <1>2, <1>3, BaseInvariant, PTL DEF Spec

(***************************************************************************)
(* No panic.  When requests name people of the room, every target the room *)
(* remembers is one of them, or nobody.                                    *)
(***************************************************************************)

CrashInv ==
    ~StrayRequests =>
        /\ loop # "crashed"
        /\ {werewolfTarget, witchPoisonTarget} \subseteq players \cup {NoOne}

LEMMA CrashNext == ASSUME Base, CrashInv, [Next]_vars PROVE CrashInv'
  <1> USE DEF people, moment, night, Base
  <1>0. SUFFICES ASSUME ~StrayRequests PROVE CrashInv'
    BY DEF CrashInv
  <1>1. CASE Join \/ StartGame
    BY <1>1, <1>0 DEF Join, JoinRoom, StartGame, CrashInv
  <1>2. CASE EnterPhase \/ FinishGame \/ TakePhaseDone \/ SelectTimeout \/ NextPhase \/ Nightfall
    BY <1>2, <1>0 DEF EnterPhase, FinishGame, TakePhaseDone, SelectTimeout, NextPhase, Nightfall,
                ForgetTargets, CrashInv
  <1>3. CASE ExecuteGuardPhase \/ ExecuteWerewolfPhase \/ ExecuteWitchPhase \/ ExecuteSeerPhase
    BY <1>3, <1>0 DEF ExecuteGuardPhase, ExecuteWerewolfPhase, ExecuteWitchPhase, ExecuteSeerPhase,
                WaitFor, LoopSendsPhaseDone, CrashInv
  <1>4. CASE ExecuteDayDiscussion \/ ExecuteVotingPhase \/ ExecuteLastWords
    BY <1>4, <1>0 DEF ExecuteDayDiscussion, ExecuteVotingPhase, ExecuteLastWords, LoopSendsPhaseDone,
                CrashInv
  <1>5. CASE WitchPhasePanics \/ SettlePanics
    BY <1>5, <1>0 DEF WitchPhasePanics, VictimShown, SettlePanics, Slain, Poisoned, CrashInv
  <1>6. CASE NightAction
    <2>1. Targets \subseteq players
      BY <1>0 DEF Targets
    <2> QED
      BY <1>0, <1>6, <2>1 DEF NightAction, GuardAct, WerewolfAct, WitchAct, SeerAct,
                              SeerActPanics, CrashInv
  <1>7. CASE Vote
    BY <1>0, <1>7 DEF Vote, CastVote, VotePanics, Callers, CrashInv
  <1>8. CASE UNCHANGED vars
    BY <1>8, <1>0 DEF vars, CrashInv
  <1> QED
    BY <1>1, <1>2, <1>3, <1>4, <1>5, <1>6, <1>7, <1>8 DEF Next, LoopStep

\* As long as requests name people of the room, no lookup of service.go meets a
\* nil player: the server does not go down, whatever the players leave undone.
THEOREM CrashFree == Spec => []NoCrash
  <1>1. Init => CrashInv
    BY DEF Init, CrashInv
  <1>2. Base /\ CrashInv /\ [Next]_vars => CrashInv'
    BY CrashNext
  <1>3. CrashInv => NoCrash
    BY DEF CrashInv, NoCrash
  <1> QED
    BY <1>1, <1>2, <1>3, BaseInvariant, PTL DEF Spec
=============================================================================
