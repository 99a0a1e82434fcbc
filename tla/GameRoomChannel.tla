-------------------------- MODULE GameRoomChannel --------------------------
(* The channel PhaseDone between the handlers and the loop: which token can *)
(* be in it when, who can be blocked on it, and who is still awaited.       *)
EXTENDS GameRoomSafety

(***************************************************************************)
(* A handler is blocked only in a phase that takes answers, as somebody    *)
(* alive, behind a token.                                                  *)
(***************************************************************************)

BlockedBehindToken ==
    rpc # NoRpc =>
        /\ phaseDone # "Empty"
        /\ rpc.by \in alive
        /\ phase \in NightPhases \cup {"DAY_VOTING"}
        /\ rpc.op = "Vote" <=> phase = "DAY_VOTING"

LEMMA BlockedNext ==
    ASSUME Base, BlockedBehindToken, [Next]_vars
    PROVE  BlockedBehindToken'
  <1> USE DEF people, moment, Base
  <1>1. CASE UNCHANGED rpc /\ rpc = NoRpc
    BY <1>1 DEF BlockedBehindToken, NoRpc
  <1>2. CASE Join \/ StartGame
    BY <1>2, <1>1 DEF Join, JoinRoom, MayJoin, StartGame, MuFree
  <1>3. CASE LoopStep
    <2>1. CASE TakePhaseDone
      BY <2>1 DEF TakePhaseDone, BlockedBehindToken, NoRpc
    <2>2. CASE SelectTimeout
      BY <2>2 DEF SelectTimeout, BlockedBehindToken, NoRpc
    <2>3. CASE ~TakePhaseDone /\ ~SelectTimeout
      <3>1. UNCHANGED rpc /\ rpc = NoRpc
        BY <1>3, <2>3
           DEF LoopStep, EnterPhase, FinishGame, ExecuteGuardPhase, ExecuteWerewolfPhase,
               ExecuteWitchPhase, WitchPhasePanics, ExecuteSeerPhase, SettlePanics,
               ExecuteDayDiscussion, ExecuteVotingPhase, ExecuteLastWords, Executing,
               NextPhase, Nightfall, Panic, MuFree
      <3> QED
        BY <3>1, <1>1
    <2> QED
      BY <2>1, <2>2, <2>3
  <1>4. CASE NightAction
    BY <1>4 DEF NightAction, GuardAct, WerewolfAct, WitchAct, SeerAct, SeerActPanics, Panic,
                MayAct, MuFree, SendPhaseDone, BlockedBehindToken, StateMatchesPhase,
                NightPhases, NoRpc
  <1>5. CASE Vote
    BY <1>5 DEF Vote, CastVote, MayVote, VotePanics, Panic, MuFree, SendPhaseDone,
                BlockedBehindToken, NightPhases, NoRpc
  <1>6. CASE UNCHANGED vars
    BY <1>6 DEF vars, BlockedBehindToken, NoRpc
  <1> QED
    BY <1>2, <1>3, <1>4, <1>5, <1>6 DEF Next

LEMMA BlockedInvariant == Spec => []BlockedBehindToken
  <1>1. Init => BlockedBehindToken
    BY DEF Init, BlockedBehindToken
  <1>2. Base /\ BlockedBehindToken /\ [Next]_vars => BlockedBehindToken'
    BY BlockedNext
  <1> QED
    BY <1>1, <1>2, BaseInvariant, PTL DEF Spec

(***************************************************************************)
(* Tokens.  The token of a phase the loop itself ends is gone before the   *)
(* loop moves on; one of a phase that takes answers may be sent as late as *)
(* just before the loop moves on, and is then there one phase longer.  A   *)
(* token sent before the loop executes the phase is an answer of somebody  *)
(* who holds the phase's role.                                             *)
(***************************************************************************)

Previous == phaseDone \in DOMAIN FollowingPhase /\ FollowingPhase[phaseDone] = phase

Role(ph) == CASE ph = "NIGHT_GUARD"    -> "GUARD"
              [] ph = "NIGHT_WEREWOLF" -> "WEREWOLF"
              [] ph = "NIGHT_WITCH"    -> "WITCH"
              [] OTHER -> "SEER"

TokenInv ==
    /\ loop = "idle" => phaseDone = "Empty"
    /\ loop \in {"top", "exec", "select", "crashed"} =>
          phaseDone \in {"Empty", phase} \/ Previous
    /\ loop = "advance" => phaseDone \in {"Empty", phase}
    /\ loop = "wedged" =>
          Previous /\ phase \in {"NIGHT_WITCH", "NIGHT_SEER", "DAY_DISCUSSION", "DAY_LAST_WORDS"}
    /\ phaseDone \in {"DAY_DISCUSSION", "DAY_LAST_WORDS"} => loop = "select" /\ phase = phaseDone
    /\ loop \in {"top", "exec"} /\ phaseDone = phase /\ phase \in NightPhases =>
          Living(Role(phase)) # {}

TokenBase == Base /\ PlayedWhileOpen /\ BlockedBehindToken

\* The loop's own send, in a phase it found nobody to wait for.
LEMMA TokenLoopSends ==
    ASSUME TokenBase, TokenInv, UNCHANGED phase, loop = "exec", LoopSendsPhaseDone,
           \/ phase \in {"NIGHT_GUARD", "NIGHT_WITCH", "NIGHT_SEER"} /\ Living(Role(phase)) = {}
           \/ phase \in {"DAY_DISCUSSION", "DAY_LAST_WORDS"}
    PROVE  TokenInv'
  <1>1. CASE phaseDone = "Empty"
    BY <1>1 DEF TokenInv, LoopSendsPhaseDone, Previous, NightPhases
  <1>2. CASE phaseDone # "Empty"
    <2>1. UNCHANGED phaseDone /\ loop' = "wedged"
      BY <1>2 DEF LoopSendsPhaseDone
    <2>2. phaseDone # phase
      BY DEF TokenInv, NightPhases
    <2>3. Previous /\ phase # "NIGHT_GUARD"
      BY <1>2, <2>2 DEF TokenInv, Previous, FollowingPhase
    <2> QED
      BY <2>1, <2>2, <2>3 DEF TokenInv, Previous
  <1> QED
    BY <1>1, <1>2

LEMMA TokenLoop == ASSUME TokenBase, TokenInv, LoopStep PROVE TokenInv'
  <1> USE DEF moment, people, TokenBase, Base
  <1>1. CASE EnterPhase
    BY <1>1 DEF EnterPhase, TokenInv, Previous, Living
  <1>2. CASE FinishGame
    BY <1>2 DEF FinishGame, TokenInv, NightPhases
  <1>3. CASE ExecuteGuardPhase \/ ExecuteWitchPhase \/ ExecuteSeerPhase
    <2>0. PICK r \in {"GUARD", "WITCH", "SEER"} :
             /\ \E c \in Chosen(r) : WaitFor(c)
             /\ UNCHANGED <<phase, people>> /\ loop = "exec"
             /\ phase \in {"NIGHT_GUARD", "NIGHT_WITCH", "NIGHT_SEER"} /\ Role(phase) = r
      BY <1>3 DEF ExecuteGuardPhase, ExecuteWitchPhase, ExecuteSeerPhase, Executing, Role
    <2>1. PICK c \in Chosen(r) : WaitFor(c)
      BY <2>0
    <2>2. CASE c = {}
      <3>1. Living(r) = {}
        BY <2>2 DEF Chosen
      <3> QED
        BY <2>0, <2>1, <2>2, <3>1, TokenLoopSends DEF WaitFor
    <2>3. CASE c # {}
      BY <2>0, <2>1, <2>3 DEF WaitFor, TokenInv, Previous
    <2> QED
      BY <2>2, <2>3
  <1>4. CASE ExecuteWerewolfPhase
    <2>1. Wolves # {}
      BY <1>4 DEF ExecuteWerewolfPhase, Executing, PlayedWhileOpen, Decided
    <2> QED
      BY <1>4, <2>1 DEF ExecuteWerewolfPhase, Executing, WaitFor, TokenInv, Previous
  <1>5. CASE ExecuteDayDiscussion \/ ExecuteLastWords
    BY <1>5, TokenLoopSends DEF ExecuteDayDiscussion, ExecuteLastWords, Executing
  <1>6. CASE ExecuteVotingPhase
    BY <1>6 DEF ExecuteVotingPhase, Executing, TokenInv, Previous
  <1>7. CASE TakePhaseDone
    BY <1>7 DEF TakePhaseDone, TokenInv, BlockedBehindToken, NightPhases
  <1>8. CASE SelectTimeout
    BY <1>8 DEF SelectTimeout, TokenInv
  <1>9. CASE NextPhase
    BY <1>9 DEF NextPhase, FollowingPhase, TokenInv, Previous, NightPhases
  <1>10. CASE Nightfall
    BY <1>10 DEF Nightfall, TokenInv, Previous, NightPhases
  <1>11. CASE WitchPhasePanics \/ SettlePanics
    BY <1>11 DEF WitchPhasePanics, SettlePanics, Executing, Panic, TokenInv, Previous
  <1> QED
    BY <1>1, <1>2, <1>3, <1>4, <1>5, <1>6, <1>7, <1>8, <1>9, <1>10, <1>11 DEF LoopStep

\* A handler that sends does so in a running phase, and leaves the loop alone.
LEMMA TokenSend ==
    ASSUME TokenBase, TokenInv, UNCHANGED <<phase, people, loop>>,
           MuFree, loop # "idle", phaseDone' \in {phaseDone, phase},
           \/ UNCHANGED phaseDone
           \/ phaseDone = "Empty" /\ phase = "DAY_VOTING"
           \/ phaseDone = "Empty" /\ phase \in NightPhases /\ Living(Role(phase)) # {}
    PROVE  TokenInv'
  <1>1. Living(Role(phase))' = Living(Role(phase))
    BY DEF people, Living
  <1>2. CASE UNCHANGED phaseDone
    BY <1>1, <1>2 DEF TokenInv, Previous
  <1>3. CASE phaseDone = "Empty" /\ phaseDone' = phase
    BY <1>1, <1>3 DEF TokenInv, Previous, MuFree, NightPhases
  <1> QED
    BY <1>2, <1>3

LEMMA TokenNext == ASSUME TokenBase, TokenInv, [Next]_vars PROVE TokenInv'
  <1> USE DEF moment, people, TokenBase, Base
  <1>1. CASE Join
    BY <1>1 DEF Join, JoinRoom, MayJoin, TokenInv, StateMatchesPhase
  <1>2. CASE StartGame
    BY <1>2 DEF StartGame, TokenInv, StateMatchesPhase, NightPhases
  <1>3. CASE LoopStep
    BY <1>3, TokenLoop
  <1>4. CASE NightAction
    <2>1. PICK p \in Callers, t \in Targets :
             \/ GuardAct(p, t)
             \/ WerewolfAct(p, t)
             \/ \E actionType \in {"save", "poison", "skip"} : WitchAct(p, t, actionType)
             \/ SeerAct(p, t)
             \/ SeerActPanics(p, t)
      BY <1>4 DEF NightAction
    <2>2. CASE SeerActPanics(p, t)
      BY <2>2 DEF SeerActPanics, MayAct, TypeOK, MuFree, Panic, TokenInv, Previous, StateMatchesPhase,
                    NightPhases
    <2>3. CASE ~SeerActPanics(p, t)
      <3>1. /\ UNCHANGED <<phase, people, loop>>
            /\ MuFree /\ state = "NIGHT" /\ phase \in NightPhases
            /\ p \in Living(Role(phase))
            /\ UNCHANGED phaseDone \/ (phaseDone = "Empty" /\ phaseDone' = phase)
        BY <2>1, <2>3 DEF GuardAct, WerewolfAct, WitchAct, SeerAct, MayAct, SendPhaseDone,
                          Living, Role, NightPhases
      <3>2. loop # "idle" /\ Living(Role(phase)) # {} /\ phaseDone' \in {phaseDone, phase}
        BY <3>1 DEF StateMatchesPhase
      <3> QED
        BY <3>1, <3>2, TokenSend
    <2> QED
      BY <2>2, <2>3
  <1>5. CASE Vote
    <2>1. CASE \E p \in Callers : VotePanics(p)
      BY <2>1 DEF VotePanics, TypeOK, MuFree, Panic, TokenInv, Previous, StateMatchesPhase, DayPhases
    <2>2. CASE \E p \in Callers, t \in Targets : CastVote(p, t)
      <3>1. /\ UNCHANGED <<phase, people, loop>>
            /\ MuFree /\ phase = "DAY_VOTING"
            /\ UNCHANGED phaseDone \/ (phaseDone = "Empty" /\ phaseDone' = phase)
        BY <2>2 DEF CastVote, MayVote, SendPhaseDone
      <3>2. loop # "idle" /\ phaseDone' \in {phaseDone, phase}
        BY <3>1 DEF StateMatchesPhase, DayPhases
      <3> QED
        BY <3>1, <3>2, TokenSend
    <2> QED
      BY <1>5, <2>1, <2>2 DEF Vote
  <1>6. CASE UNCHANGED vars
    BY <1>6 DEF vars, TokenInv, Previous, Living
  <1> QED
    BY <1>1, <1>2, <1>3, <1>4, <1>5, <1>6 DEF Next

LEMMA TokenInvariant == Spec => [](TokenBase /\ TokenInv)
  <1>1. Init => TokenInv
    BY DEF Init, TokenInv
  <1>2. TokenBase /\ TokenInv /\ [Next]_vars => TokenInv'
    BY TokenNext
  <1>3. Spec => []TokenBase
    BY BaseInvariant, OpenCorrect, BlockedInvariant, PTL DEF TokenBase
  <1> QED
    BY <1>1, <1>2, <1>3, PTL DEF Spec

\* A token ends its own phase or the one after it, never a later one.
THEOREM StaleCorrect == Spec => []StaleByOnePhase
  <1>1. TokenBase /\ TokenInv => StaleByOnePhase
    BY DEF TokenBase, Base, TypeOK, StateMatchesPhase, TokenInv, Previous, StaleByOnePhase
  <1> QED
    BY <1>1, TokenInvariant, PTL

\* A blocked loop is the work of one late answer, in one of four phases; the
\* guard's, the werewolves' and the voting phase never block it.
THEOREM WedgeCorrect == Spec => []WedgedByLateAnswer
  <1>1. TokenInv => WedgedByLateAnswer
    BY DEF TokenInv, Previous, WedgedByLateAnswer
  <1> QED
    BY <1>1, TokenInvariant, PTL

(***************************************************************************)
(* A handler that blocks while the loop is not at its select spoke out of  *)
(* turn.  In the first night CanAct is handed out phase by phase, so that  *)
(* nobody can act before the loop has called upon the role; a vote leaves  *)
(* everybody alive with CanAct.                                            *)
(***************************************************************************)

CalledBefore(ph) ==
    CASE ph = "NIGHT_GUARD"    -> {}
      [] ph = "NIGHT_WEREWOLF" -> {"GUARD"}
      [] ph = "NIGHT_WITCH"    -> {"GUARD", "WEREWOLF"}
      [] OTHER                 -> {"GUARD", "WEREWOLF", "WITCH"}

Called ==
    IF loop \in {"top", "exec"} THEN CalledBefore(phase)
                               ELSE CalledBefore(phase) \cup {Role(phase)}

TurnInv ==
    /\ state = "WAITING" => canAct = {} /\ dayCount = 0
    /\ state # "WAITING" => dayCount > 0
    /\ dayCount = 1 /\ phase \in NightPhases => \A p \in canAct : role[p] \in Called
    /\ loop \in {"wedged", "crashed"} => rpc = NoRpc
    /\ rpc # NoRpc /\ loop \in {"top", "exec"} => phase = "DAY_VOTING" \/ dayCount > 1

\* The loop asks the living holders of the role whose phase it is, and only them.
LEMMA TurnAsked ==
    ASSUME TokenBase, NEW c \in SUBSET Living(Role(phase)), WaitFor(c),
           UNCHANGED <<moment, people, rpc>>, TurnInv, loop = "exec", MuFree,
           phase \in NightPhases
    PROVE  TurnInv'
  <1> USE DEF moment, people, TokenBase, Base
  <1>1. loop' \in {"select", "wedged"} /\ rpc = NoRpc
    BY DEF WaitFor, LoopSendsPhaseDone, MuFree
  <1>2. canAct' = canAct \cup c
    BY DEF WaitFor
  <1>3. \A p \in c : role[p] = Role(phase)
    BY DEF Living
  <1>4. state # "WAITING"
    BY DEF StateMatchesPhase
  <1>5. Called' = Called \cup {Role(phase)}
    BY <1>1 DEF Called, CalledBefore, Role
  <1> QED
    BY <1>1, <1>2, <1>3, <1>4, <1>5 DEF TurnInv

LEMMA TurnLoop == ASSUME TokenBase, TurnInv, LoopStep PROVE TurnInv'
  <1> USE DEF moment, people, TokenBase, Base
  <1>1. CASE ExecuteGuardPhase \/ ExecuteWerewolfPhase \/ ExecuteWitchPhase \/ ExecuteSeerPhase
    <2>1. \E c \in SUBSET Living(Role(phase)) : WaitFor(c)
      BY <1>1 DEF ExecuteGuardPhase, ExecuteWerewolfPhase, ExecuteWitchPhase, ExecuteSeerPhase,
                  Executing, Chosen, Role, Wolves
    <2>2. /\ UNCHANGED <<moment, people, rpc>>
          /\ loop = "exec" /\ MuFree /\ phase \in NightPhases
      BY <1>1 DEF ExecuteGuardPhase, ExecuteWerewolfPhase, ExecuteWitchPhase, ExecuteSeerPhase,
                  Executing, NightPhases
    <2> QED
      BY <2>1, <2>2, TurnAsked
  <1>2. CASE EnterPhase
    BY <1>2 DEF EnterPhase, TurnInv, Called
  <1>3. CASE FinishGame
    BY <1>3 DEF FinishGame, TurnInv, NightPhases, StateMatchesPhase
  <1>4. CASE ExecuteDayDiscussion \/ ExecuteLastWords
    BY <1>4 DEF ExecuteDayDiscussion, ExecuteLastWords, Executing, LoopSendsPhaseDone, MuFree,
                TurnInv, NightPhases, StateMatchesPhase
  <1>5. CASE ExecuteVotingPhase
    BY <1>5 DEF ExecuteVotingPhase, Executing, MuFree, TurnInv, NightPhases, StateMatchesPhase
  <1>6. CASE TakePhaseDone \/ SelectTimeout
    <2>1. rpc # NoRpc => TakePhaseDone
      BY <1>6 DEF SelectTimeout, BlockedBehindToken
    <2> QED
      BY <1>6, <2>1 DEF TakePhaseDone, SelectTimeout, TurnInv, Called
  <1>7. CASE NextPhase
    <2>1. phase' \in NightPhases => phase \in NightPhases /\ Called \subseteq Called'
      BY <1>7 DEF NextPhase, FollowingPhase, NightPhases, Called, CalledBefore, Role
    <2> QED
      BY <1>7, <2>1 DEF NextPhase, TimeOfDay, MuFree, TurnInv, StateMatchesPhase
  <1>8. CASE Nightfall
    BY <1>8 DEF Nightfall, MuFree, TurnInv, TypeOK, StateMatchesPhase, DayPhases
  <1>9. CASE WitchPhasePanics \/ SettlePanics
    BY <1>9 DEF WitchPhasePanics, SettlePanics, Executing, MuFree, Panic, TurnInv, Called,
                CalledBefore, Role
  <1> QED
    BY <1>1, <1>2, <1>3, <1>4, <1>5, <1>6, <1>7, <1>8, <1>9 DEF LoopStep

LEMMA TurnNext == ASSUME TokenBase, TurnInv, [Next]_vars PROVE TurnInv'
  <1> USE DEF moment, people, TokenBase, Base
  <1>1. CASE Join
    BY <1>1 DEF Join, JoinRoom, MayJoin, MuFree, TurnInv, StateMatchesPhase
  <1>2. CASE StartGame
    BY <1>2 DEF StartGame, MuFree, TurnInv
  <1>3. CASE LoopStep
    BY <1>3, TurnLoop
  <1>4. CASE NightAction
    <2>1. PICK p \in Callers, t \in Targets :
             \/ GuardAct(p, t)
             \/ WerewolfAct(p, t)
             \/ \E actionType \in {"save", "poison", "skip"} : WitchAct(p, t, actionType)
             \/ SeerAct(p, t)
             \/ SeerActPanics(p, t)
      BY <1>4 DEF NightAction
    <2>2. /\ MuFree /\ state = "NIGHT" /\ p \in canAct
          /\ phase \in NightPhases /\ role[p] = Role(phase)
          /\ UNCHANGED <<moment, people>> /\ canAct' \subseteq canAct
      BY <2>1 DEF GuardAct, WerewolfAct, WitchAct, SeerAct, SeerActPanics, Panic, MayAct,
                  NightPhases, Role
    <2>3. dayCount = 1 => loop \notin {"top", "exec"}
      BY <2>2 DEF TurnInv, Called, CalledBefore, Role, NightPhases
    <2>4. \/ UNCHANGED loop
          \/ loop' = "crashed" /\ UNCHANGED rpc
      BY <2>1 DEF GuardAct, WerewolfAct, WitchAct, SeerAct, SeerActPanics, Panic
    <2>5. dayCount = 1 => Called \subseteq Called'
      BY <2>2, <2>3, <2>4 DEF Called
    <2> QED
      BY <2>2, <2>3, <2>4, <2>5 DEF TurnInv, MuFree, TypeOK
  <1>5. CASE Vote
    BY <1>5 DEF Vote, CastVote, MayVote, VotePanics, Panic, MuFree, TurnInv, NightPhases,
                StateMatchesPhase, DayPhases
  <1>6. CASE UNCHANGED vars
    BY <1>6 DEF vars, TurnInv, Called
  <1> QED
    BY <1>1, <1>2, <1>3, <1>4, <1>5, <1>6 DEF Next

\* A handler that keeps the mutex for ever answered once too often or too early,
\* and in the first night never too early: CanAct is not out yet.
THEOREM BlockedCorrect == Spec => []BlockedOutOfTurn
  <1>1. Init => TurnInv
    BY DEF Init, TurnInv, NightPhases
  <1>2. TokenBase /\ TurnInv /\ [Next]_vars => TurnInv'
    BY TurnNext
  <1>3. TokenBase /\ TokenInv /\ TurnInv => BlockedOutOfTurn
    <2> SUFFICES ASSUME TokenBase, TokenInv, TurnInv, rpc # NoRpc, loop # "select"
                 PROVE  \/ loop = "advance" /\ phaseDone = phase
                        \/ loop \in {"top", "exec"} /\ (phase = "DAY_VOTING" \/ dayCount > 1)
      BY DEF BlockedOutOfTurn
    <2>1. phaseDone # "Empty" /\ phase # "GAME_OVER" /\ state # "FINISHED"
      BY DEF TokenBase, Base, BlockedBehindToken, StateMatchesPhase, NightPhases
    <2>2. loop \in {"top", "exec", "advance"}
      BY <2>1 DEF TokenBase, Base, TypeOK, StateMatchesPhase, TokenInv, TurnInv
    <2> QED
      BY <2>1, <2>2 DEF TokenInv, TurnInv
  <1> QED
    BY <1>1, <1>2, <1>3, TokenInvariant, PTL DEF Spec

(***************************************************************************)
(* No lost wakeup.                                                         *)
(***************************************************************************)

\* A phase that is a role's turn: the loop waits for a living holder of it, or
\* has sent the token itself.
LEMMA WakeupTurn ==
    ASSUME NEW r, NEW c \in Chosen(r), WaitFor(c), UNCHANGED <<phase, people>>, phase # "Empty",
           loop' = "select", phaseDone' = "Empty"
    PROVE  StillAwaited(r)'
  <1>1. Living(r)' = Living(r)
    BY DEF people, Living
  <1>2. c # {}
    BY DEF WaitFor, LoopSendsPhaseDone
  <1>3. c \subseteq Living(r) /\ c \subseteq canAct'
    BY DEF Chosen, WaitFor
  <1> QED
    BY <1>1, <1>2, <1>3 DEF StillAwaited

LEMMA WakeupExecute ==
    ASSUME TokenBase, NoLostWakeup,
           \/ ExecuteGuardPhase \/ ExecuteWerewolfPhase \/ ExecuteWitchPhase
           \/ ExecuteSeerPhase \/ ExecuteVotingPhase
    PROVE  NoLostWakeup'
  <1> USE DEF moment, people
  <1>0. SUFFICES ASSUME loop' = "select", phaseDone' = "Empty" PROVE NoLostWakeup'
    BY DEF NoLostWakeup
  <1>1. CASE ExecuteGuardPhase
    <2>1. StillAwaited("GUARD")'
      BY <1>0, <1>1, WakeupTurn DEF ExecuteGuardPhase, Executing
    <2> QED
      BY <1>1, <2>1 DEF ExecuteGuardPhase, Executing, NoLostWakeup
  <1>2. CASE ExecuteWerewolfPhase
    <2>1. Wolves # {}
      BY <1>2 DEF ExecuteWerewolfPhase, Executing, TokenBase, PlayedWhileOpen, Decided
    <2>2. StillAwaited("WEREWOLF")'
      BY <1>2, <2>1 DEF ExecuteWerewolfPhase, WaitFor, Wolves, Living, StillAwaited
    <2> QED
      BY <1>2, <2>2 DEF ExecuteWerewolfPhase, Executing, NoLostWakeup
  <1>3. CASE ExecuteWitchPhase
    <2>1. StillAwaited("WITCH")'
      BY <1>0, <1>3, WakeupTurn DEF ExecuteWitchPhase, Executing
    <2> QED
      BY <1>3, <2>1 DEF ExecuteWitchPhase, Executing, NoLostWakeup
  <1>4. CASE ExecuteSeerPhase
    <2>1. StillAwaited("SEER")'
      BY <1>0, <1>4, WakeupTurn DEF ExecuteSeerPhase, Executing
    <2> QED
      BY <1>4, <2>1 DEF ExecuteSeerPhase, Executing, NoLostWakeup
  <1>5. CASE ExecuteVotingPhase
    <2>1. alive # {}
      BY <1>5 DEF ExecuteVotingPhase, Executing, TokenBase, PlayedWhileOpen, Decided, Wolves, Living
    <2> QED
      BY <1>5, <2>1 DEF ExecuteVotingPhase, Executing, NoLostWakeup, TokenBase, Base, TypeOK
  <1> QED
    BY <1>1, <1>2, <1>3, <1>4, <1>5

LEMMA WakeupNext == ASSUME TokenBase, NoLostWakeup, [Next]_vars PROVE NoLostWakeup'
  <1> USE DEF moment, people
  <1>1. CASE Join \/ StartGame
    BY <1>1 DEF Join, JoinRoom, MayJoin, StartGame, NoLostWakeup, TokenBase, Base, StateMatchesPhase
  <1>2. CASE \/ ExecuteGuardPhase \/ ExecuteWerewolfPhase \/ ExecuteWitchPhase
             \/ ExecuteSeerPhase \/ ExecuteVotingPhase
    BY <1>2, WakeupExecute
  <1>3. CASE ExecuteDayDiscussion \/ ExecuteLastWords
    BY <1>3 DEF ExecuteDayDiscussion, ExecuteLastWords, Executing, LoopSendsPhaseDone, NoLostWakeup
  <1>4. CASE \/ EnterPhase \/ FinishGame \/ WitchPhasePanics \/ SettlePanics
             \/ TakePhaseDone \/ SelectTimeout \/ NextPhase \/ Nightfall
    BY <1>4 DEF EnterPhase, FinishGame, WitchPhasePanics, SettlePanics, Panic, TakePhaseDone,
                SelectTimeout, NextPhase, Nightfall, NoLostWakeup
  <1>5. CASE NightAction
    <2>0. SUFFICES ASSUME loop' = "select", phaseDone' = "Empty" PROVE NoLostWakeup'
      BY DEF NoLostWakeup
    <2>1. PICK p \in Ids, t \in MaybeId :
             \/ GuardAct(p, t)
             \/ WerewolfAct(p, t)
             \/ \E actionType \in {"save", "poison", "skip"} : WitchAct(p, t, actionType)
             \/ SeerAct(p, t)
             \/ SeerActPanics(p, t)
      BY <1>5, InputTypes DEF NightAction, TokenBase, Base
    <2>2. WerewolfAct(p, t) /\ ~AllActed(canAct')
      \* anybody else's answer is a token, and so is the last wolf's
      BY <2>0, <2>1 DEF GuardAct, WerewolfAct, WitchAct, SeerAct, SeerActPanics, Panic,
                        MayAct, SendPhaseDone
    <2>3. StillAwaited("WEREWOLF")'
      BY <2>2 DEF WerewolfAct, AllActed, Wolves, Living, StillAwaited
    <2> QED
      BY <2>2, <2>3 DEF WerewolfAct, MayAct, NoLostWakeup
  <1>6. CASE Vote
    <2>0. SUFFICES ASSUME loop' = "select", phaseDone' = "Empty" PROVE NoLostWakeup'
      BY DEF NoLostWakeup
    <2>1. PICK p \in Ids, t \in MaybeId : CastVote(p, t)
      BY <1>6, <2>0, InputTypes DEF Vote, VotePanics, Panic, TokenBase, Base
    <2>2. ~AllVoted(votes')
      BY <2>0, <2>1 DEF CastVote, MayVote, SendPhaseDone
    <2> QED
      BY <2>1, <2>2 DEF CastVote, MayVote, AllVoted, NoLostWakeup
  <1>7. CASE UNCHANGED vars
    BY <1>7 DEF vars, NoLostWakeup, StillAwaited, Living
  <1> QED
    BY <1>1, <1>2, <1>3, <1>4, <1>5, <1>6, <1>7 DEF Next, LoopStep

\* Whenever the loop waits with an empty channel, somebody alive can still end
\* the phase: no answer is counted without the token it owes.
THEOREM WakeupCorrect == Spec => []NoLostWakeup
  <1>1. Init => NoLostWakeup
    BY DEF Init, NoLostWakeup
  <1>2. TokenBase /\ NoLostWakeup /\ [Next]_vars => NoLostWakeup'
    BY WakeupNext
  <1> QED
    BY <1>1, <1>2, TokenInvariant, PTL DEF Spec

(***************************************************************************)
(* The targets and the log of the night.                                   *)
(***************************************************************************)

\* The handler that is blocked before it logs is the one that named the target.
LogInv ==
    /\ TargetsAreLogged
    /\ state = "WAITING" => guardTarget = NoOne /\ werewolfTarget = NoOne
    /\ rpc.op = "NightAction" /\ role[rpc.by] = "GUARD"    => guardTarget = rpc.target
    /\ rpc.op = "NightAction" /\ role[rpc.by] = "WEREWOLF" => werewolfTarget = rpc.target

\* A step that leaves the night's records alone.
LEMMA LogStill ==
    ASSUME Base, LogInv, UNCHANGED <<players, role, rpc, nightActions>>, state' # "WAITING",
           guardTarget' \in {guardTarget, NoOne}, werewolfTarget' \in {werewolfTarget, NoOne},
           UNCHANGED <<guardTarget, werewolfTarget>> \/ rpc = NoRpc
    PROVE  LogInv'
  BY DEF LogInv, TargetsAreLogged, LoggedBy, NoRpc

\* A handler that names a target and then logs it, or blocks before it does.
LEMMA LogSend ==
    ASSUME Base, LogInv, NEW p \in players, NEW t \in MaybeId, rpc = NoRpc,
           UNCHANGED <<players, role>>, state' # "WAITING",
           \/ UNCHANGED rpc /\ nightActions' = [nightActions EXCEPT ![p] = t]
           \/ rpc' = [op |-> "NightAction", by |-> p, target |-> t] /\ UNCHANGED nightActions,
           guardTarget'    = IF role[p] = "GUARD"    THEN t ELSE guardTarget,
           werewolfTarget' = IF role[p] = "WEREWOLF" THEN t ELSE werewolfTarget
    PROVE  LogInv'
  <1> USE DEF Base, TypeOK
  <1>1. ASSUME NEW r \in {"GUARD", "WEREWOLF"}, role[p] = r PROVE LoggedBy(r, t)'
    BY <1>1 DEF LoggedBy
  <1>2. ASSUME NEW r \in {"GUARD", "WEREWOLF"}, NEW u \in MaybeId, role[p] # r, LoggedBy(r, u)
        PROVE  LoggedBy(r, u)'
    BY <1>2 DEF LoggedBy, NoRpc
  <1>3. guardTarget' # NoOne => LoggedBy("GUARD", guardTarget)'
    BY <1>1, <1>2 DEF LogInv, TargetsAreLogged, LoggedBy
  <1>4. werewolfTarget' # NoOne => LoggedBy("WEREWOLF", werewolfTarget)'
    BY <1>1, <1>2 DEF LogInv, TargetsAreLogged, LoggedBy
  <1> QED
    BY <1>3, <1>4 DEF LogInv, TargetsAreLogged, NoRpc

LEMMA LogNext == ASSUME Base, Base', LogInv, [Next]_vars PROVE LogInv'
  <1> USE DEF moment, people, night, potion
  <1>1. CASE Join
    BY <1>1 DEF Join, JoinRoom, MayJoin, MuFree, LogInv, TargetsAreLogged, NoRpc
  <1>2. CASE StartGame
    BY <1>2 DEF StartGame, MuFree, LogInv, TargetsAreLogged, NoRpc
  <1>3. CASE TakePhaseDone
    <2>1. CASE rpc = NoRpc
      BY <1>3, <2>1, LogStill DEF TakePhaseDone, NoRpc, Base, StateMatchesPhase
    <2>2. CASE rpc # NoRpc
      <3> USE DEF Base, TypeOK
      <3>1. rpc.by \in Ids /\ rpc.target \in MaybeId /\ rpc.op \in {"NightAction", "Vote"}
        BY <2>2
      <3>2. state' # "WAITING" /\ UNCHANGED <<players, role, guardTarget, werewolfTarget>>
        BY <1>3 DEF TakePhaseDone, StateMatchesPhase
      <3>3. ASSUME NEW r \in {"GUARD", "WEREWOLF"}, NEW u \in MaybeId, LoggedBy(r, u),
                   rpc.op = "NightAction" /\ role[rpc.by] = r => u = rpc.target
            PROVE  \E p \in players : role[p] = r /\ nightActions'[p] = u
        <4>1. PICK p \in players :
                 /\ role[p] = r
                 /\ nightActions[p] = u \/ (rpc.op = "NightAction" /\ rpc.by = p /\ rpc.target = u)
          BY <3>3 DEF LoggedBy
        <4>2. nightActions'[p] = u
          BY <1>3, <3>1, <3>3, <4>1 DEF TakePhaseDone
        <4> QED
          BY <4>1, <4>2
      <3>4. guardTarget # NoOne =>
               \E p \in players : role[p] = "GUARD" /\ nightActions'[p] = guardTarget
        BY <3>3 DEF LogInv, TargetsAreLogged
      <3>5. werewolfTarget # NoOne =>
               \E p \in players : role[p] = "WEREWOLF" /\ nightActions'[p] = werewolfTarget
        BY <3>3 DEF LogInv, TargetsAreLogged
      <3> QED
        BY <1>3, <3>2, <3>4, <3>5 DEF TakePhaseDone, LogInv, TargetsAreLogged, NoRpc, LoggedBy
    <2> QED
      BY <2>1, <2>2
  <1>4. CASE \/ EnterPhase \/ FinishGame \/ WitchPhasePanics \/ SettlePanics
             \/ SelectTimeout \/ NextPhase
    BY <1>4, LogStill DEF EnterPhase, FinishGame, WitchPhasePanics, SettlePanics, Panic, Executing,
                SelectTimeout, NextPhase, TimeOfDay, Base, StateMatchesPhase
  <1>5. CASE \/ ExecuteGuardPhase \/ ExecuteWerewolfPhase \/ ExecuteWitchPhase \/ ExecuteSeerPhase
             \/ ExecuteDayDiscussion \/ ExecuteVotingPhase \/ ExecuteLastWords
    <2>1. /\ UNCHANGED <<players, role, rpc, nightActions, state>>
          /\ rpc = NoRpc /\ loop = "exec"
          /\ guardTarget' \in {guardTarget, NoOne} /\ werewolfTarget' \in {werewolfTarget, NoOne}
      BY <1>5 DEF ExecuteGuardPhase, ExecuteWerewolfPhase, ExecuteWitchPhase, ExecuteSeerPhase,
                  ExecuteDayDiscussion, ExecuteVotingPhase, ExecuteLastWords, Executing, MuFree
    <2> QED
      BY <2>1, LogStill DEF Base, StateMatchesPhase
  <1>6. CASE Nightfall
    BY <1>6 DEF Nightfall, ForgetTargets, MuFree, LogInv, TargetsAreLogged, NoRpc
  <1>7. CASE NightAction
    <2>1. PICK p \in Ids, t \in MaybeId :
             \/ GuardAct(p, t)
             \/ WerewolfAct(p, t)
             \/ \E actionType \in {"save", "poison", "skip"} : WitchAct(p, t, actionType)
             \/ SeerAct(p, t)
             \/ SeerActPanics(p, t)
      BY <1>7, InputTypes DEF NightAction, Base
    <2>2. CASE SeerActPanics(p, t)
      BY <2>2, LogStill DEF SeerActPanics, MayAct, Panic
    <2>3. CASE ~SeerActPanics(p, t)
      <3>1. /\ p \in players /\ rpc = NoRpc
            /\ UNCHANGED <<players, role, state>> /\ state = "NIGHT"
            /\ \/ UNCHANGED rpc /\ nightActions' = [nightActions EXCEPT ![p] = t]
               \/ rpc' = [op |-> "NightAction", by |-> p, target |-> t] /\ UNCHANGED nightActions
        BY <2>1, <2>3 DEF GuardAct, WerewolfAct, WitchAct, SeerAct, MayAct, MuFree,
                          SendPhaseDone, Base, TypeOK
      <3>2. guardTarget' = IF role[p] = "GUARD" THEN t ELSE guardTarget
        BY <2>1, <2>3 DEF GuardAct, WerewolfAct, WitchAct, SeerAct, MayAct
      <3>3. werewolfTarget' = IF role[p] = "WEREWOLF" THEN t ELSE werewolfTarget
        BY <2>1, <2>3 DEF GuardAct, WerewolfAct, WitchAct, SeerAct, MayAct
      <3> QED
        BY <3>1, <3>2, <3>3, LogSend
    <2> QED
      BY <2>2, <2>3
  <1>8. CASE Vote
    <2>1. CASE \E p \in Callers : VotePanics(p)
      BY <2>1, LogStill DEF VotePanics, Panic, Base, StateMatchesPhase, DayPhases
    <2>2. CASE \E p \in Callers, t \in Targets : CastVote(p, t)
      <3>1. /\ UNCHANGED <<players, role, nightActions, state, guardTarget, werewolfTarget>>
            /\ rpc = NoRpc /\ (UNCHANGED rpc \/ rpc'.op = "Vote")
            /\ state = "DAY"
        BY <2>2 DEF CastVote, MayVote, MuFree, SendPhaseDone, Base, StateMatchesPhase, DayPhases
      <3> QED
        BY <3>1 DEF LogInv, TargetsAreLogged, LoggedBy, NoRpc
    <2> QED
      BY <1>8, <2>1, <2>2 DEF Vote
  <1>9. CASE UNCHANGED vars
    BY <1>9 DEF vars, LogInv, TargetsAreLogged, LoggedBy
  <1> QED
    BY <1>1, <1>2, <1>3, <1>4, <1>5, <1>6, <1>7, <1>8, <1>9 DEF Next, LoopStep

\* Whoever dawn spares or kills by guard or wolves was named this very night by
\* a player dealt that role.
THEOREM TargetsCorrect == Spec => []TargetsAreLogged
  <1>1. Init => LogInv
    BY DEF Init, LogInv, TargetsAreLogged, NoRpc
  <1>2. Base /\ Base' /\ LogInv /\ [Next]_vars => LogInv'
    BY LogNext
  <1>3. LogInv => TargetsAreLogged
    BY DEF LogInv
  <1> QED
    BY <1>1, <1>2, <1>3, BaseInvariant, PTL DEF Spec

(***************************************************************************)
(* Whose answer stands.                                                    *)
(***************************************************************************)

\* The log of the lobby is empty, and a blocked handler has named its target.
AnswerInv ==
    /\ AnswerStands
    /\ state = "WAITING" => \A p \in Ids : nightActions[p] = NoEntry
    /\ rpc.op = "NightAction" /\ role[rpc.by] \in {"GUARD", "WEREWOLF"} =>
          TargetOf(role[rpc.by]) = rpc.target

Sole(r, p) == {q \in players : role[q] = r} = {p}

\* A phase that asks a role erases its target and gives its living holder
\* CanAct; the other roles' answers are as before.
LEMMA AnswerAsked ==
    ASSUME Base, AnswerInv, UNCHANGED <<players, role, alive, state, nightActions, rpc>>,
           NEW r \in Roles, NEW c \in Chosen(r) \cup {Living(r)}, WaitFor(c),
           rpc = NoRpc, state # "WAITING",
           \A x \in {"GUARD", "WEREWOLF"} :
              TargetOf(x)' = IF x = r /\ c # {} THEN NoOne ELSE TargetOf(x)
    PROVE  AnswerInv'
  <1> USE DEF Base
  <1>1. ASSUME NEW x \in {"GUARD", "WEREWOLF"}, NEW p \in players, Sole(x, p), Answered(p)'
        PROVE  TargetOf(x)' = nightActions'[p]
    <2>1. canAct' = canAct \cup c
      BY DEF WaitFor
    <2>2. Answered(p)
      BY <1>1, <2>1 DEF Answered
    <2>3. TargetOf(x) = nightActions[p]
      BY <1>1, <2>2 DEF AnswerInv, AnswerStands, Sole
    <2>4. x = r => c = {}
      <3> SUFFICES ASSUME x = r, c # {} PROVE FALSE
        OBVIOUS
      <3>1. Living(r) \subseteq {p}
        BY <1>1 DEF Living, Sole, TypeOK
      <3>2. c = {p}
        BY <3>1 DEF Chosen
      <3> QED
        BY <1>1, <2>1, <3>2 DEF Answered
    <2> QED
      BY <2>3, <2>4
  <1>2. AnswerStands'
    BY <1>1 DEF AnswerStands, Sole
  <1> QED
    BY <1>2 DEF AnswerInv, NoRpc

\* A step that asks nobody and records nothing.
LEMMA AnswerStill ==
    ASSUME AnswerInv, UNCHANGED <<players, role, canAct, nightActions, guardTarget, werewolfTarget>>,
           state' = "WAITING" => state = "WAITING",
           \/ UNCHANGED rpc
           \/ rpc = NoRpc /\ rpc'.op = "Vote"
    PROVE  AnswerInv'
  <1>1. \A x : TargetOf(x)' = TargetOf(x)
    BY DEF TargetOf
  <1>2. \A p : Answered(p)' => Answered(p)
    BY DEF Answered, NoRpc
  <1> QED
    BY <1>1, <1>2 DEF AnswerInv, AnswerStands

\* A handler that names a target and then logs it, or blocks before it does.
LEMMA AnswerSend ==
    ASSUME Base, AnswerInv, NEW p \in players, NEW t \in MaybeId, rpc = NoRpc,
           UNCHANGED <<players, role>>, state' # "WAITING", canAct' = canAct \ {p},
           \/ UNCHANGED rpc /\ nightActions' = [nightActions EXCEPT ![p] = t]
           \/ rpc' = [op |-> "NightAction", by |-> p, target |-> t] /\ UNCHANGED nightActions,
           guardTarget'    = IF role[p] = "GUARD"    THEN t ELSE guardTarget,
           werewolfTarget' = IF role[p] = "WEREWOLF" THEN t ELSE werewolfTarget
    PROVE  AnswerInv'
  <1> USE DEF Base, TypeOK
  <1>1. \A x \in {"GUARD", "WEREWOLF"} :
           TargetOf(x)' = IF role[p] = x THEN t ELSE TargetOf(x)
    BY DEF TargetOf
  <1>2. ASSUME NEW x \in {"GUARD", "WEREWOLF"}, NEW q \in players, Sole(x, q), Answered(q)'
        PROVE  TargetOf(x)' = nightActions'[q]
    <2>1. role[q] = x
      BY <1>2 DEF Sole
    <2>2. CASE q = p
      BY <1>1, <1>2, <2>1, <2>2 DEF Answered
    <2>3. CASE q # p
      <3>1. role[p] # x
        BY <1>2, <2>3 DEF Sole
      <3>2. Answered(q) /\ nightActions'[q] = nightActions[q]
        BY <1>2, <2>3 DEF Answered, NoRpc
      <3> QED
        BY <1>1, <1>2, <3>1, <3>2 DEF AnswerInv, AnswerStands, Sole
    <2> QED
      BY <2>2, <2>3
  <1>3. AnswerStands'
    BY <1>2 DEF AnswerStands, Sole
  <1> QED
    BY <1>1, <1>3 DEF AnswerInv, NoRpc

LEMMA AnswerNext == ASSUME Base, Base', AnswerInv, [Next]_vars PROVE AnswerInv'
  <1> USE DEF moment, people, night, potion
  <1>1. CASE Join
    BY <1>1 DEF Join, JoinRoom, MayJoin, MuFree, Base, TypeOK, AnswerInv, AnswerStands, Answered,
                NoRpc
  <1>2. CASE StartGame
    BY <1>2 DEF StartGame, MuFree, Base, TypeOK, AnswerInv, AnswerStands, Answered, NoRpc
  <1>3. CASE TakePhaseDone
    <2>1. CASE rpc.op # "NightAction"
      <3>1. UNCHANGED nightActions /\ rpc' = NoRpc
        BY <1>3, <2>1 DEF TakePhaseDone
      <3> QED
        BY <1>3, <2>1, <3>1
           DEF TakePhaseDone, AnswerInv, AnswerStands, Answered, TargetOf, NoRpc
    <2>2. CASE rpc.op = "NightAction"
      <3> USE DEF Base, TypeOK
      <3>1. rpc.by \in Ids /\ rpc.target \in MaybeId
        BY <2>2 DEF NoRpc
      <3>2. /\ nightActions' = [nightActions EXCEPT ![rpc.by] = rpc.target]
            /\ rpc' = NoRpc /\ state' = state /\ state # "WAITING"
            /\ UNCHANGED <<players, role, canAct, guardTarget, werewolfTarget>>
        BY <1>3, <2>2 DEF TakePhaseDone, StateMatchesPhase
      <3>3. ASSUME NEW x \in {"GUARD", "WEREWOLF"}, NEW p \in players, Sole(x, p), Answered(p)'
            PROVE  TargetOf(x) = nightActions'[p]
        <4>0. role[p] = x
          BY <3>3 DEF Sole
        <4>1. CASE p = rpc.by
          BY <2>2, <3>1, <3>2, <3>3, <4>0, <4>1 DEF AnswerInv
        <4>2. CASE p # rpc.by
          BY <3>1, <3>2, <3>3, <4>2 DEF Answered, AnswerInv, AnswerStands, Sole
        <4> QED
          BY <4>1, <4>2
      <3>4. AnswerStands'
        BY <3>2, <3>3 DEF AnswerStands, Sole, TargetOf
      <3> QED
        BY <3>2, <3>4 DEF AnswerInv, NoRpc
    <2> QED
      BY <2>1, <2>2
  <1>4. CASE \/ EnterPhase \/ FinishGame \/ WitchPhasePanics \/ SettlePanics
             \/ SelectTimeout \/ NextPhase \/ ExecuteDayDiscussion \/ ExecuteLastWords
    BY <1>4, AnswerStill
       DEF EnterPhase, FinishGame, WitchPhasePanics, SettlePanics, Panic, Executing, SelectTimeout,
           NextPhase, TimeOfDay, ExecuteDayDiscussion, ExecuteLastWords, Base, StateMatchesPhase
  <1>5. CASE ExecuteGuardPhase \/ ExecuteWerewolfPhase \/ ExecuteWitchPhase \/ ExecuteSeerPhase
    <2>0. PICK r \in Roles : \E c \in Chosen(r) \cup {Living(r)} :
             /\ WaitFor(c)
             /\ guardTarget' = IF r = "GUARD" /\ c # {} THEN NoOne ELSE guardTarget
             /\ werewolfTarget' = IF r = "WEREWOLF" /\ c # {} THEN NoOne ELSE werewolfTarget
      BY <1>5 DEF ExecuteGuardPhase, ExecuteWerewolfPhase, ExecuteWitchPhase, ExecuteSeerPhase,
                  Roles, Wolves
    <2>1. PICK c \in Chosen(r) \cup {Living(r)} :
             /\ WaitFor(c)
             /\ guardTarget' = IF r = "GUARD" /\ c # {} THEN NoOne ELSE guardTarget
             /\ werewolfTarget' = IF r = "WEREWOLF" /\ c # {} THEN NoOne ELSE werewolfTarget
      BY <2>0
    <2>2. /\ UNCHANGED <<players, role, alive, state, nightActions, rpc>>
          /\ rpc = NoRpc /\ state # "WAITING"
      BY <1>5 DEF ExecuteGuardPhase, ExecuteWerewolfPhase, ExecuteWitchPhase, ExecuteSeerPhase,
                  Executing, MuFree, Base, StateMatchesPhase
    <2>3. \A x \in {"GUARD", "WEREWOLF"} :
             TargetOf(x)' = IF x = r /\ c # {} THEN NoOne ELSE TargetOf(x)
      BY <2>1 DEF TargetOf
    <2> QED
      BY <2>1, <2>2, <2>3, AnswerAsked
  <1>6. CASE ExecuteVotingPhase
    BY <1>6 DEF ExecuteVotingPhase, Executing, MuFree, AnswerInv, AnswerStands, Answered, TargetOf,
                NoRpc
  <1>7. CASE Nightfall
    BY <1>7 DEF Nightfall, MuFree, Base, TypeOK, AnswerInv, AnswerStands, Answered, NoRpc
  <1>8. CASE NightAction
    <2>1. PICK p \in Ids, t \in MaybeId :
             \/ GuardAct(p, t)
             \/ WerewolfAct(p, t)
             \/ \E actionType \in {"save", "poison", "skip"} : WitchAct(p, t, actionType)
             \/ SeerAct(p, t)
             \/ SeerActPanics(p, t)
      BY <1>8, InputTypes DEF NightAction, Base
    <2>2. CASE SeerActPanics(p, t)
      BY <2>2, AnswerStill DEF SeerActPanics, MayAct, Panic
    <2>3. CASE ~SeerActPanics(p, t)
      <3>1. /\ p \in players /\ rpc = NoRpc /\ canAct' = canAct \ {p}
            /\ UNCHANGED <<players, role, state>> /\ state = "NIGHT"
            /\ \/ UNCHANGED rpc /\ nightActions' = [nightActions EXCEPT ![p] = t]
               \/ rpc' = [op |-> "NightAction", by |-> p, target |-> t] /\ UNCHANGED nightActions
        BY <2>1, <2>3 DEF GuardAct, WerewolfAct, WitchAct, SeerAct, MayAct, MuFree,
                          SendPhaseDone, Base, TypeOK
      <3>2. guardTarget' = IF role[p] = "GUARD" THEN t ELSE guardTarget
        BY <2>1, <2>3 DEF GuardAct, WerewolfAct, WitchAct, SeerAct, MayAct
      <3>3. werewolfTarget' = IF role[p] = "WEREWOLF" THEN t ELSE werewolfTarget
        BY <2>1, <2>3 DEF GuardAct, WerewolfAct, WitchAct, SeerAct, MayAct
      <3> QED
        BY <3>1, <3>2, <3>3, AnswerSend
    <2> QED
      BY <2>2, <2>3
  <1>9. CASE Vote
    <2>1. CASE \E p \in Callers : VotePanics(p)
      BY <2>1, AnswerStill DEF VotePanics, Panic
    <2>2. CASE \E p \in Callers, t \in Targets : CastVote(p, t)
      <3>1. /\ UNCHANGED <<players, role, canAct, state, guardTarget, werewolfTarget>>
            /\ UNCHANGED nightActions
            /\ UNCHANGED rpc \/ (rpc = NoRpc /\ rpc'.op = "Vote")
        BY <2>2 DEF CastVote, MayVote, MuFree, SendPhaseDone
      <3> QED
        BY <3>1, AnswerStill
    <2> QED
      BY <1>9, <2>1, <2>2 DEF Vote
  <1>10. CASE UNCHANGED vars
    BY <1>10, AnswerStill DEF vars
  <1> QED
    BY <1>1, <1>2, <1>3, <1>4, <1>5, <1>6, <1>7, <1>8, <1>9, <1>10 DEF Next, LoopStep

\* The loop forgets the answer of a role's only holder only when it asks that
\* player again: an answer nobody can correct any more is the one that counts.
THEOREM AnswerCorrect == Spec => []AnswerStands
  <1>1. Init => AnswerInv
    BY DEF Init, AnswerInv, AnswerStands, Answered, NoRpc
  <1>2. Base /\ Base' /\ AnswerInv /\ [Next]_vars => AnswerInv'
    BY AnswerNext
  <1>3. AnswerInv => AnswerStands
    BY DEF AnswerInv
  <1> QED
    BY <1>1, <1>2, <1>3, BaseInvariant, PTL DEF Spec

(***************************************************************************)
(* Why a room gets stuck, and that it stays so.                            *)
(***************************************************************************)

\* A stuck room takes no further step of any kind, whoever calls: neither the
\* timer of runGameLoop nor a later request brings it back.
THEOREM StuckIsForEver == Spec => [][~Stuck]_vars
  <1>1. ASSUME Next PROVE ~Stuck
    <2>1. CASE Join \/ StartGame
      BY <2>1 DEF Join, JoinRoom, MayJoin, StartGame, MuFree, Stuck
    <2>2. CASE LoopStep
      BY <2>2
         DEF LoopStep, EnterPhase, FinishGame, ExecuteGuardPhase, ExecuteWerewolfPhase,
             ExecuteWitchPhase, WitchPhasePanics, ExecuteSeerPhase, SettlePanics,
             ExecuteDayDiscussion, ExecuteVotingPhase, ExecuteLastWords, Executing,
             TakePhaseDone, SelectTimeout, NextPhase, Nightfall, MuFree, Stuck
    <2>3. CASE NightAction
      BY <2>3 DEF NightAction, GuardAct, WerewolfAct, WitchAct, SeerAct, SeerActPanics,
                  MayAct, MuFree, Stuck
    <2>4. CASE Vote
      BY <2>4 DEF Vote, CastVote, MayVote, VotePanics, MuFree, Stuck
    <2> QED
      BY <1>1, <2>1, <2>2, <2>3, <2>4 DEF Next
  <1>2. [Next]_vars => [~Stuck]_vars
    BY <1>1
  <1> QED
    BY <1>2, PTL DEF Spec

\* A request sends the end of a phase while the loop is not waiting for it:
\* before the loop has executed the phase, after it has left the select, or
\* although the end was sent already.
OutOfTime ==
    /\ NightAction \/ Vote
    /\ <<phaseDone, rpc>>' # <<phaseDone, rpc>>
    /\ ~(loop = "select" /\ phaseDone = "Empty")

TimelyInv ==
    /\ rpc = NoRpc
    /\ loop # "wedged"
    /\ phaseDone # "Empty" => loop \in {"select", "crashed"}

LEMMA TimelyNext ==
    ASSUME Base, TimelyInv, [Next]_vars, [~OutOfTime]_vars
    PROVE  TimelyInv'
  <1>1. CASE Join \/ StartGame
    BY <1>1 DEF Join, JoinRoom, StartGame, TimelyInv, Base, StateMatchesPhase, NightPhases,
                DayPhases
  <1>2. CASE LoopStep
    <2>1. CASE EnterPhase \/ FinishGame \/ NextPhase \/ Nightfall \/ WitchPhasePanics
               \/ SettlePanics \/ TakePhaseDone \/ SelectTimeout
      BY <2>1 DEF EnterPhase, FinishGame, NextPhase, Nightfall, WitchPhasePanics, SettlePanics,
                  Executing, Panic, TakePhaseDone, SelectTimeout, TimelyInv, NoRpc
    <2>2. CASE ExecuteGuardPhase \/ ExecuteWerewolfPhase \/ ExecuteWitchPhase
               \/ ExecuteSeerPhase \/ ExecuteDayDiscussion \/ ExecuteVotingPhase
               \/ ExecuteLastWords
      BY <2>2 DEF ExecuteGuardPhase, ExecuteWerewolfPhase, ExecuteWitchPhase, ExecuteSeerPhase,
                  ExecuteDayDiscussion, ExecuteVotingPhase, ExecuteLastWords, Executing,
                  WaitFor, LoopSendsPhaseDone, TimelyInv, NoRpc
    <2> QED
      BY <1>2, <2>1, <2>2 DEF LoopStep
  <1>3. CASE NightAction \/ Vote
    <2>1. /\ UNCHANGED loop \/ (loop' = "crashed" /\ UNCHANGED <<phaseDone, rpc>>)
          /\ phaseDone = "Empty" => UNCHANGED rpc
      BY <1>3 DEF NightAction, GuardAct, WerewolfAct, WitchAct, SeerAct, SeerActPanics, Panic,
                  Vote, CastVote, VotePanics, SendPhaseDone
    <2>2. CASE UNCHANGED <<phaseDone, rpc>>
      BY <2>1, <2>2, <1>3
         DEF TimelyInv, NoRpc, NightAction, MayAct, GuardAct, WerewolfAct, WitchAct, SeerAct,
             SeerActPanics, Vote, CastVote, VotePanics, MayVote, MuFree
    <2>3. CASE <<phaseDone, rpc>>' # <<phaseDone, rpc>>
      BY <2>1, <2>3, <1>3 DEF OutOfTime, TimelyInv, NoRpc, vars
    <2> QED
      BY <2>2, <2>3
  <1>4. CASE UNCHANGED vars
    BY <1>4 DEF vars, TimelyInv, NoRpc
  <1> QED
    BY <1>1, <1>2, <1>3, <1>4 DEF Next

\* Timeouts alone never block a room: if every answer that ends a phase is
\* given while the loop waits for it, and none is given twice, then neither the
\* loop nor a handler ever blocks on PhaseDone, whatever else is left out or
\* comes late; only a request with an id nobody has can still stop the room.
THEOREM StuckByAnswersOutOfTime ==
    Spec /\ [][~OutOfTime]_vars => [](Stuck => loop = "crashed" /\ StrayRequests)
  <1>1. Init => TimelyInv
    BY DEF Init, TimelyInv
  <1>2. Base /\ TimelyInv /\ [Next]_vars /\ [~OutOfTime]_vars => TimelyInv'
    BY TimelyNext
  <1>3. TimelyInv /\ NoCrash => (Stuck => loop = "crashed" /\ StrayRequests)
    BY DEF TimelyInv, NoCrash, Stuck
  <1> QED
    BY <1>1, <1>2, <1>3, BaseInvariant, CrashFree, PTL DEF Spec
=============================================================================
