------------------------------ MODULE GameRoom ------------------------------
(***************************************************************************)
(* One room of the werewolf server, src/services/werewolf/service.go.      *)
(*                                                                         *)
(* A room is shared by two kinds of goroutine:                             *)
(*   - the game loop (runGameLoop), started by StartGame, which plays the  *)
(*     moderator: it executes a phase, waits for PhaseDone or for 60 s and *)
(*     moves on to the next phase;                                         *)
(*   - the handlers of the RPCs NightAction and Vote, one goroutine each.  *)
(* They share room.mu and the channel PhaseDone, of capacity one.  Every   *)
(* handler, and every phase the loop executes, runs under room.mu, so each *)
(* is one action, with one exception: a send on PhaseDone while the        *)
(* channel is full blocks, and whoever sends holds the mutex meanwhile.    *)
(*   - A blocked handler is the value of rpc.                              *)
(*   - A blocked loop is loop = "wedged": the loop is the only receiver of *)
(*     PhaseDone, so it never wakes up.                                    *)
(*                                                                         *)
(* Left out: names, seats (Position) and the events broadcast to           *)
(* subscribers.  A player's camp is a function of its role.                *)
(***************************************************************************)
EXTENDS Integers, FiniteSets

CONSTANTS
    Ids,            \* the player ids a request may carry
    Named,          \* those a request may name as its target (all of Ids, or
                    \* fewer for model checking)
    NoOne,          \* the empty id, ""
    NoEntry,        \* "no such key", in the maps Votes and NightActions
    MaxPlayers,     \* room.MaxPlayers
    RoleConfig,     \* room.RoleConfig: how many of each role
    StrayRequests,  \* TRUE: a request may carry an id nobody in the room has
    MaxDays         \* bound on DayCount, for model checking only

Roles == {"UNKNOWN", "WEREWOLF", "VILLAGER", "SEER", "WITCH", "HUNTER", "GUARD"}

ASSUME IdsAssumption        == NoOne \notin Ids /\ NoEntry \notin Ids /\ NoOne # NoEntry
ASSUME EntryAssumption      == NoEntry \notin [target : Ids \cup {NoOne}, day : Nat]
ASSUME FiniteAssumption     == IsFiniteSet(Ids)
ASSUME NamedAssumption      == Named \subseteq Ids
ASSUME MaxPlayersAssumption == MaxPlayers \in Nat
ASSUME ConfigAssumption     == RoleConfig \in [Roles -> Nat]
ASSUME StrayAssumption      == StrayRequests \in BOOLEAN
ASSUME MaxDaysAssumption    == MaxDays \in Nat

NightPhases == {"NIGHT_GUARD", "NIGHT_WEREWOLF", "NIGHT_WITCH", "NIGHT_SEER"}
DayPhases   == {"DAY_DISCUSSION", "DAY_VOTING", "DAY_LAST_WORDS"}
GamePhases  == NightPhases \cup DayPhases

\* The order nextPhase walks through; the day's last phase has no successor.
FollowingPhase ==
    [NIGHT_GUARD    |-> "NIGHT_WEREWOLF",
     NIGHT_WEREWOLF |-> "NIGHT_WITCH",
     NIGHT_WITCH    |-> "NIGHT_SEER",
     NIGHT_SEER     |-> "DAY_DISCUSSION",
     DAY_DISCUSSION |-> "DAY_VOTING",
     DAY_VOTING     |-> "DAY_LAST_WORDS"]

VARIABLES
    state,              \* room.State
    phase,              \* room.CurrentPhase
    dayCount,           \* room.DayCount
    players,            \* keys of room.Players
    role,               \* Player.Role
    alive,              \* players with IsAlive
    canAct,             \* players with CanAct
    deadPlayers,        \* room.DeadPlayers
    guardTarget, werewolfTarget, witchSaveTarget, witchPoisonTarget,
    witchSaveUsed, witchPoisonUsed,
    votes,              \* room.Votes: the target voted for and, for the
                        \* properties, the day of the vote
    nightActions,       \* room.NightActions: the target recorded per actor
    phaseDone,          \* room.PhaseDone: "Empty", or the phase the token in
                        \* it was sent in (the code sends the constant true)
    loop,               \* where the game loop is
    rpc                 \* the handler blocked on PhaseDone, if any

moment == <<state, phase, dayCount>>
people == <<players, role, alive, deadPlayers>>
night  == <<guardTarget, werewolfTarget, witchSaveTarget, witchPoisonTarget>>
potion == <<witchSaveUsed, witchPoisonUsed>>
vars   == <<moment, people, canAct, night, potion, votes, nightActions,
            phaseDone, loop, rpc>>

NoRpc == [op |-> "none", by |-> NoOne, target |-> NoOne]

\* What a request may name: the gateway demands non-empty ids
\* (internal/dto/werewolf/dto.go:24-36) and does not look them up; the server
\* demands nothing.
Callers == IF StrayRequests THEN Ids ELSE players
Targets == IF StrayRequests THEN Named \cup {NoOne} ELSE Named \cap players

\* room.mu can be taken: no handler is blocked holding it, and neither is the
\* loop.  A panic in any goroutine ends the process.
MuFree == rpc = NoRpc /\ loop \notin {"wedged", "crashed"}

Living(r) == {p \in alive : role[p] = r}

-----------------------------------------------------------------------------
(* checkGameOver *)

Wolves == Living("WEREWOLF")
Others == alive \ Wolves

Decided == Wolves = {} \/ Cardinality(Wolves) >= Cardinality(Others)

-----------------------------------------------------------------------------
(* The lobby *)

Init ==
    /\ state = "WAITING" /\ phase = "WAITING" /\ dayCount = 0
    /\ players = {} /\ alive = {} /\ canAct = {} /\ deadPlayers = {}
    /\ role = [p \in Ids |-> "UNKNOWN"]
    /\ guardTarget = NoOne /\ werewolfTarget = NoOne
    /\ witchSaveTarget = NoOne /\ witchPoisonTarget = NoOne
    /\ witchSaveUsed = FALSE /\ witchPoisonUsed = FALSE
    /\ votes = [p \in Ids |-> NoEntry]
    /\ nightActions = [p \in Ids |-> NoEntry]
    /\ phaseDone = "Empty"
    /\ loop = "idle"
    /\ rpc = NoRpc

\* Mutant: the room may be joined whenever it is not full.
MayJoinAnyTime == MuFree /\ Cardinality(players) < MaxPlayers

MayJoin == MuFree /\ Cardinality(players) < MaxPlayers /\ state = "WAITING"

\* A player who joins again replaces the player it was.
JoinRoom(p) ==
    /\ MayJoin
    /\ players' = players \cup {p}
    /\ alive' = alive \cup {p}
    /\ canAct' = canAct \ {p}
    /\ role' = [role EXCEPT ![p] = "UNKNOWN"]
    /\ UNCHANGED <<moment, deadPlayers, night, potion, votes, nightActions,
                   phaseDone, loop, rpc>>

\* assignRoles: a shuffle deals every role as often as RoleConfig says, or the
\* numbers do not add up and the game does not start.
Deals ==
    {deal \in [players -> Roles] :
        \A r \in Roles : Cardinality({p \in players : deal[p] = r}) = RoleConfig[r]}

StartGame ==
    /\ MuFree
    /\ state = "WAITING"
    /\ \E deal \in Deals :
          role' = [p \in Ids |-> IF p \in players THEN deal[p] ELSE role[p]]
    /\ state' = "NIGHT" /\ phase' = "NIGHT_GUARD" /\ dayCount' = 1
    /\ loop' = "top"
    /\ UNCHANGED <<players, alive, canAct, deadPlayers, night, potion, votes,
                   nightActions, phaseDone, rpc>>

-----------------------------------------------------------------------------
(* The game loop: top -> exec -> select -> advance -> top *)

\* Mutant: the loop asks whether the game is over once a night only.
EnterPhaseCheckedNightly ==
    /\ loop = "top" /\ MuFree
    /\ phase = "NIGHT_GUARD" => ~Decided
    /\ loop' = "exec"
    /\ UNCHANGED <<moment, people, canAct, night, potion, votes, nightActions,
                   phaseDone, rpc>>

EnterPhase ==
    /\ loop = "top" /\ MuFree
    /\ ~Decided
    /\ loop' = "exec"
    /\ UNCHANGED <<moment, people, canAct, night, potion, votes, nightActions,
                   phaseDone, rpc>>

FinishGame ==
    /\ loop = "top" /\ MuFree
    /\ Decided
    /\ state' = "FINISHED" /\ phase' = "GAME_OVER"
    /\ loop' = "done"
    /\ UNCHANGED <<dayCount, people, canAct, night, potion, votes,
                   nightActions, phaseDone, rpc>>

Executing(ph) == loop = "exec" /\ phase = ph /\ MuFree

\* The loop's own send on PhaseDone, holding room.mu: with a token already
\* there it blocks, and nobody else ever receives.
LoopSendsPhaseDone ==
    IF phaseDone = "Empty"
    THEN phaseDone' = phase /\ loop' = "select"
    ELSE loop' = "wedged" /\ UNCHANGED phaseDone

\* Mutant: whoever has answered tonight is not asked again.
WaitForTheSilent(actors) ==
    /\ canAct' = canAct \cup {p \in actors : nightActions[p] = NoEntry}
    /\ IF actors = {} THEN LoopSendsPhaseDone
                      ELSE loop' = "select" /\ UNCHANGED phaseDone

\* Mutant: with nobody to wait for, the loop goes straight on to the next phase
\* and leaves the channel as it is.
WaitForOrSkip(actors) ==
    /\ canAct' = canAct \cup actors
    /\ loop' = IF actors = {} THEN "advance" ELSE "select"
    /\ UNCHANGED phaseDone

\* A phase that is somebody's turn waits for them; with nobody to wait for the
\* loop signals itself.
WaitFor(actors) ==
    /\ canAct' = canAct \cup actors
    /\ IF actors = {} THEN LoopSendsPhaseDone
                      ELSE loop' = "select" /\ UNCHANGED phaseDone

\* One living holder of the role, whichever the map iteration meets first.
Chosen(r) == IF Living(r) = {} THEN {{}} ELSE {{p} : p \in Living(r)}

ExecuteGuardPhase ==
    /\ Executing("NIGHT_GUARD")
    /\ \E guard \in Chosen("GUARD") :
          /\ WaitFor(guard)
          /\ guardTarget' = IF guard = {} THEN guardTarget ELSE NoOne
    /\ UNCHANGED <<moment, people, werewolfTarget, witchSaveTarget,
                   witchPoisonTarget, potion, votes, nightActions, rpc>>

ExecuteWerewolfPhase ==
    /\ Executing("NIGHT_WEREWOLF")
    /\ WaitFor(Wolves)
    /\ werewolfTarget' = IF Wolves = {} THEN werewolfTarget ELSE NoOne
    /\ UNCHANGED <<moment, people, guardTarget, witchSaveTarget,
                   witchPoisonTarget, potion, votes, nightActions, rpc>>

\* room.Players[id] on an id nobody has is nil, and so is its use.
Panic ==
    /\ loop' = "crashed"
    /\ UNCHANGED <<moment, people, canAct, night, potion, votes, nightActions,
                   phaseDone, rpc>>

\* The witch is told the name of the victim.
VictimShown == {werewolfTarget} \ {NoOne, guardTarget}

ExecuteWitchPhase ==
    /\ Executing("NIGHT_WITCH")
    /\ Living("WITCH") # {} => VictimShown \subseteq players
    /\ \E witch \in Chosen("WITCH") : WaitFor(witch)
    /\ UNCHANGED <<moment, people, night, potion, votes, nightActions, rpc>>

WitchPhasePanics ==
    /\ Executing("NIGHT_WITCH")
    /\ Living("WITCH") # {} /\ ~(VictimShown \subseteq players)
    /\ Panic

ExecuteSeerPhase ==
    /\ Executing("NIGHT_SEER")
    /\ \E seer \in Chosen("SEER") : WaitFor(seer)
    /\ UNCHANGED <<moment, people, night, potion, votes, nightActions, rpc>>

\* settleNightDeaths: the wolves' target dies unless guarded or saved; the
\* poisoned one dies in any case.
Slain == {werewolfTarget} \ {NoOne, guardTarget, witchSaveTarget}

\* Mutant: the poison's target is looked up without asking whether there is one.
PoisonedUnchecked == {witchPoisonTarget}

Poisoned == {witchPoisonTarget} \ {NoOne}

\* Mutants: the poisoned one is not recorded; ids are recorded unchecked.
NewlyDeadByWolves == Slain
NewlyDeadUnchecked == {werewolfTarget} \cup (Poisoned \cap alive)

NewlyDead == Slain \cup (Poisoned \cap alive)

ExecuteDayDiscussion ==
    /\ Executing("DAY_DISCUSSION")
    /\ Slain \cup Poisoned \subseteq players
    /\ alive' = alive \ (Slain \cup Poisoned)
    /\ deadPlayers' = deadPlayers \cup NewlyDead
    /\ LoopSendsPhaseDone
    /\ UNCHANGED <<moment, players, role, canAct, night, potion, votes,
                   nightActions, rpc>>

SettlePanics ==
    /\ Executing("DAY_DISCUSSION")
    /\ ~(Slain \cup Poisoned \subseteq players)
    /\ Panic

\* Mutant: the ballots of the day before stay in the box.
ExecuteVotingPhaseKeepsVotes ==
    /\ Executing("DAY_VOTING")
    /\ canAct' = canAct \cup alive
    /\ loop' = "select"
    /\ UNCHANGED <<moment, people, night, potion, votes, nightActions, phaseDone, rpc>>

ExecuteVotingPhase ==
    /\ Executing("DAY_VOTING")
    /\ canAct' = canAct \cup alive
    /\ votes' = [p \in Ids |-> NoEntry]
    /\ loop' = "select"
    /\ UNCHANGED <<moment, people, night, potion, nightActions, phaseDone, rpc>>

\* countVotes: an id with the most votes; among equals the map iteration
\* decides.  The empty id, or one nobody has, sends nobody out.
Ballots(t) == Cardinality({p \in Ids : votes[p] # NoEntry /\ votes[p].target = t})

TopVoted ==
    {t \in Ids \cup {NoOne} :
        /\ Ballots(t) > 0
        /\ \A u \in Ids \cup {NoOne} : Ballots(u) <= Ballots(t)}

VotedOut == IF TopVoted = {} THEN {{}} ELSE {{t} \cap players : t \in TopVoted}

ExecuteLastWords ==
    /\ Executing("DAY_LAST_WORDS")
    /\ \E out \in VotedOut :
          /\ alive' = alive \ out
          /\ deadPlayers' = deadPlayers \cup out
    /\ LoopSendsPhaseDone
    /\ UNCHANGED <<moment, players, role, canAct, night, potion, votes,
                   nightActions, rpc>>

\* The receive of the select.  When a handler is blocked on the full channel,
\* its value takes the place of the one received, and the handler goes on.
TakePhaseDone ==
    /\ loop = "select"
    /\ phaseDone # "Empty"
    /\ loop' = "advance"
    /\ phaseDone' = IF rpc = NoRpc THEN "Empty" ELSE phase
    /\ nightActions' = IF rpc.op = "NightAction"
                       THEN [nightActions EXCEPT ![rpc.by] = rpc.target]
                       ELSE nightActions
    /\ rpc' = NoRpc
    /\ UNCHANGED <<moment, people, canAct, night, potion, votes>>

\* Mutant: there is no time limit on the vote.
SelectTimeoutNoVote ==
    /\ loop = "select" /\ phase # "DAY_VOTING"
    /\ phaseDone = "Empty"
    /\ loop' = "advance"
    /\ UNCHANGED <<moment, people, canAct, night, potion, votes, nightActions,
                   phaseDone, rpc>>

\* 60 s passed.  A select that finds a token on entry takes it, and one that
\* waits is woken by the first of the two: the timer wins only while there is
\* no token.
SelectTimeout ==
    /\ loop = "select"
    /\ phaseDone = "Empty"
    /\ loop' = "advance"
    /\ UNCHANGED <<moment, people, canAct, night, potion, votes, nightActions,
                   phaseDone, rpc>>

\* Mutant: the day begins one phase late.
TimeOfDayLate(next) == IF next = "DAY_VOTING" THEN "DAY" ELSE state

TimeOfDay(next) == IF next = "DAY_DISCUSSION" THEN "DAY" ELSE state

NextPhase ==
    /\ loop = "advance" /\ MuFree
    /\ phase \in DOMAIN FollowingPhase
    /\ phase' = FollowingPhase[phase]
    /\ state' = TimeOfDay(phase')
    /\ loop' = "top"
    /\ UNCHANGED <<dayCount, people, canAct, night, potion, votes,
                   nightActions, phaseDone, rpc>>

\* Mutant: whom the guard protects is not forgotten at nightfall.
ForgetAllButGuard ==
    /\ werewolfTarget' = NoOne
    /\ witchSaveTarget' = NoOne /\ witchPoisonTarget' = NoOne
    /\ UNCHANGED guardTarget

ForgetTargets ==
    /\ guardTarget' = NoOne /\ werewolfTarget' = NoOne
    /\ witchSaveTarget' = NoOne /\ witchPoisonTarget' = NoOne

Nightfall ==
    /\ loop = "advance" /\ MuFree
    /\ phase = "DAY_LAST_WORDS"
    /\ dayCount < MaxDays
    /\ dayCount' = dayCount + 1
    /\ state' = "NIGHT" /\ phase' = "NIGHT_GUARD"
    /\ nightActions' = [p \in Ids |-> NoEntry]
    /\ ForgetTargets
    /\ loop' = "top"
    /\ UNCHANGED <<people, canAct, potion, votes, phaseDone, rpc>>

LoopStep ==
    \/ EnterPhase \/ FinishGame
    \/ ExecuteGuardPhase \/ ExecuteWerewolfPhase
    \/ ExecuteWitchPhase \/ WitchPhasePanics \/ ExecuteSeerPhase
    \/ ExecuteDayDiscussion \/ SettlePanics
    \/ ExecuteVotingPhase \/ ExecuteLastWords
    \/ TakePhaseDone \/ SelectTimeout
    \/ NextPhase \/ Nightfall

-----------------------------------------------------------------------------
(* The handlers *)

\* The tail of a handler that ends the phase: send on PhaseDone, then record
\* the action.  On a full channel the handler stops here, room.mu in hand.
SendPhaseDone(op, p, t) ==
    IF phaseDone = "Empty"
    THEN /\ phaseDone' = phase
         /\ nightActions' = IF op = "NightAction"
                            THEN [nightActions EXCEPT ![p] = t] ELSE nightActions
         /\ UNCHANGED rpc
    ELSE /\ rpc' = [op |-> op, by |-> p, target |-> t]
         /\ UNCHANGED <<phaseDone, nightActions>>

\* Mutants: a player may act again; a player with CanAct may act in any phase.
MayActAgain(p, r, ph) ==
    MuFree /\ state = "NIGHT" /\ p \in alive /\ role[p] = r /\ phase = ph
MayActAnyTime(p, r, ph) == MuFree /\ p \in alive \cap canAct /\ role[p] = r

MayAct(p, r, ph) ==
    /\ MuFree
    /\ state = "NIGHT"
    /\ p \in alive
    /\ p \in canAct
    /\ role[p] = r
    /\ phase = ph

GuardAct(p, t) ==
    /\ MayAct(p, "GUARD", "NIGHT_GUARD")
    /\ guardTarget' = t
    /\ canAct' = canAct \ {p}
    /\ SendPhaseDone("NightAction", p, t)
    /\ UNCHANGED <<moment, people, werewolfTarget, witchSaveTarget,
                   witchPoisonTarget, potion, votes, loop>>

\* Mutant: asked before the acting wolf's CanAct is cleared.
AllActedBefore(able) == Wolves \cap canAct = {}

AllActed(able) == Wolves \cap able = {}

\* The last wolf to act ends the phase; the target is the last one named.
WerewolfAct(p, t) ==
    /\ MayAct(p, "WEREWOLF", "NIGHT_WEREWOLF")
    /\ werewolfTarget' = t
    /\ canAct' = canAct \ {p}
    /\ IF AllActed(canAct')
       THEN SendPhaseDone("NightAction", p, t)
       ELSE /\ nightActions' = [nightActions EXCEPT ![p] = t]
            /\ UNCHANGED <<phaseDone, rpc>>
    /\ UNCHANGED <<moment, people, guardTarget, witchSaveTarget,
                   witchPoisonTarget, potion, votes, loop>>

\* Mutant: the bottle counts as full on every new night.
PoisonNotPouredTonight == witchPoisonTarget = NoOne

PoisonLeft == ~witchPoisonUsed

WitchAct(p, t, actionType) ==
    /\ MayAct(p, "WITCH", "NIGHT_WITCH")
    /\ \/ /\ actionType = "save" /\ ~witchSaveUsed
          /\ witchSaveTarget' = t /\ witchSaveUsed' = TRUE
          /\ UNCHANGED <<witchPoisonTarget, witchPoisonUsed>>
       \/ /\ actionType = "poison" /\ PoisonLeft
          /\ witchPoisonTarget' = t /\ witchPoisonUsed' = TRUE
          /\ UNCHANGED <<witchSaveTarget, witchSaveUsed>>
       \/ /\ actionType = "skip"
          /\ UNCHANGED <<witchSaveTarget, witchPoisonTarget, potion>>
    /\ canAct' = canAct \ {p}
    /\ SendPhaseDone("NightAction", p, t)
    /\ UNCHANGED <<moment, people, guardTarget, werewolfTarget, votes, loop>>

SeerAct(p, t) ==
    /\ MayAct(p, "SEER", "NIGHT_SEER")
    /\ t \in players
    /\ canAct' = canAct \ {p}
    /\ SendPhaseDone("NightAction", p, t)
    /\ UNCHANGED <<moment, people, night, potion, votes, loop>>

SeerActPanics(p, t) ==
    /\ MayAct(p, "SEER", "NIGHT_SEER")
    /\ t \notin players
    /\ Panic

NightAction ==
    \E p \in Callers, t \in Targets :
        \/ GuardAct(p, t)
        \/ WerewolfAct(p, t)
        \/ \E actionType \in {"save", "poison", "skip"} : WitchAct(p, t, actionType)
        \/ SeerAct(p, t)
        \/ SeerActPanics(p, t)

MayVote(p) == MuFree /\ phase = "DAY_VOTING" /\ p \in alive

\* Mutant: the votes of the dead are waited for.
AllVotedAndTheDead(ballots) == \A q \in players : ballots[q] # NoEntry

AllVoted(ballots) == \A q \in alive : ballots[q] # NoEntry

\* The vote that makes the ballots of the living complete ends the phase, and
\* so does every vote after it.
CastVote(p, t) ==
    /\ MayVote(p)
    /\ votes' = [votes EXCEPT ![p] = [target |-> t, day |-> dayCount]]
    /\ IF AllVoted(votes')
       THEN SendPhaseDone("Vote", p, t)
       ELSE UNCHANGED <<phaseDone, nightActions, rpc>>
    /\ UNCHANGED <<moment, people, canAct, night, potion, loop>>

VotePanics(p) ==
    /\ MuFree
    /\ phase = "DAY_VOTING"
    /\ p \notin players
    /\ Panic

Vote == \E p \in Callers : VotePanics(p) \/ \E t \in Targets : CastVote(p, t)

Join == \E p \in Ids : JoinRoom(p)

-----------------------------------------------------------------------------

Next == Join \/ StartGame \/ LoopStep \/ NightAction \/ Vote

Spec == Init /\ [][Next]_vars

\* The loop's goroutine is scheduled, its timer fires, and the mutex (which
\* hands over in order once a waiter starves) lets it in.  Players owe nothing.
FairSpec == Spec /\ WF_vars(LoopStep)
-----------------------------------------------------------------------------
(* Type invariant *)

MaybeId    == Ids \cup {NoOne}
EntryOrNot == Ids \cup {NoOne, NoEntry}

\* Every variable has the type the code declares for it; ids that are recorded
\* as dead, alive or able to act are ids of players of the room.
TypeOK ==
    /\ state \in {"WAITING", "NIGHT", "DAY", "FINISHED"}
    /\ phase \in GamePhases \cup {"WAITING", "GAME_OVER"}
    /\ dayCount \in Nat
    /\ players \in SUBSET Ids
    /\ role \in [Ids -> Roles]
    /\ alive \in SUBSET players
    /\ canAct \in SUBSET players
    /\ deadPlayers \in SUBSET players
    /\ {guardTarget, werewolfTarget, witchSaveTarget, witchPoisonTarget} \subseteq MaybeId
    /\ witchSaveUsed \in BOOLEAN /\ witchPoisonUsed \in BOOLEAN
    /\ votes \in [Ids -> {NoEntry} \cup [target : MaybeId, day : Nat]]
    /\ nightActions \in [Ids -> EntryOrNot]
    /\ phaseDone \in GamePhases \cup {"Empty"}
    /\ loop \in {"idle", "top", "exec", "select", "advance", "wedged", "done", "crashed"}
    /\ rpc \in {NoRpc} \cup [op : {"NightAction", "Vote"}, by : Ids, target : MaybeId]

-----------------------------------------------------------------------------
(* Safety *)

\* The two records of who is dead agree: DeadPlayers holds exactly the players
\* without IsAlive, through wolves, poison and vote, and whoever dies twice.
DeadAreDead == deadPlayers = players \ alive

\* State and CurrentPhase, assigned in different places, tell the same time of
\* day, and the loop runs exactly while a game is on.
StateMatchesPhase ==
    /\ state = "WAITING"  <=> phase = "WAITING"
    /\ state = "NIGHT"    <=> phase \in NightPhases
    /\ state = "DAY"      <=> phase \in DayPhases
    /\ state = "FINISHED" <=> phase = "GAME_OVER"
    /\ state = "WAITING"  <=> loop = "idle"
    /\ state = "FINISHED" <=> loop = "done"

\* Nobody slips into a game that was dealt: once it has started, the players
\* hold exactly the roles of RoleConfig, each as often as configured.
DealMatchesConfig ==
    state # "WAITING" =>
        \A r \in Roles : Cardinality({p \in players : role[p] = r}) = RoleConfig[r]

\* The loop plays a phase only in a game nobody has won yet, and ends only a
\* game somebody has won: deaths are noticed before the next phase is played.
PlayedWhileOpen ==
    /\ loop = "exec" => ~Decided
    /\ loop = "select" /\ phase \notin {"DAY_DISCUSSION", "DAY_LAST_WORDS"} => ~Decided
    /\ state = "FINISHED" => Decided

\* The ballots counted are ballots of this day's living: neither a vote of the
\* day before nor one of somebody dead is in room.Votes when countVotes runs.
LivingBallots ==
    phase = "DAY_LAST_WORDS" /\ loop = "exec" =>
        \A p \in Ids : votes[p] # NoEntry => p \in alive /\ votes[p].day = dayCount

\* No lost wakeup.  When the loop sits in its select with an empty channel,
\* somebody alive is still able to end the phase: the last one who could have
\* sent the token.  The phase never waits out its 60 s for nobody.
StillAwaited(r) == \E p \in Living(r) : p \in canAct

NoLostWakeup ==
    loop = "select" /\ phaseDone = "Empty" =>
        /\ phase = "NIGHT_GUARD"    => StillAwaited("GUARD")
        /\ phase = "NIGHT_WEREWOLF" => StillAwaited("WEREWOLF")
        /\ phase = "NIGHT_WITCH"    => StillAwaited("WITCH")
        /\ phase = "NIGHT_SEER"     => StillAwaited("SEER")
        /\ phase = "DAY_VOTING"     => \E p \in alive : votes[p] = NoEntry
        /\ phase \notin {"DAY_DISCUSSION", "DAY_LAST_WORDS"}

\* A token outlives the phase it was sent in by one phase at most.
StaleByOnePhase ==
    \/ phaseDone = "Empty"
    \/ phaseDone = phase
    \/ phaseDone \in DOMAIN FollowingPhase /\ FollowingPhase[phaseDone] = phase
    \/ phase = "GAME_OVER"

\* The loop blocks on its own send only behind an answer to the phase right
\* before (one that came after its timeout, or one too many), and only in
\* these four phases.
WedgedByLateAnswer ==
    loop = "wedged" =>
        /\ phase \in {"NIGHT_WITCH", "NIGHT_SEER", "DAY_DISCUSSION", "DAY_LAST_WORDS"}
        /\ phaseDone \in DOMAIN FollowingPhase /\ FollowingPhase[phaseDone] = phase

\* A handler that holds the mutex for ever, the loop being past or short of its
\* select, spoke out of turn: either once too often, behind an answer to this
\* very phase, or too early, before the loop has opened the phase.  Too early
\* is possible in the vote, which asks nobody for CanAct, and in the nights
\* after the first, with the CanAct a vote has left.
BlockedOutOfTurn ==
    rpc # NoRpc /\ loop # "select" =>
        \/ loop = "advance" /\ phaseDone = phase
        \/ loop \in {"top", "exec"} /\ (phase = "DAY_VOTING" \/ dayCount > 1)

\* A request that names people of the room never brings the process down, not
\* even after a night in which nobody answered.
NoCrash == ~StrayRequests => loop # "crashed"

\* What dawn settles was decided tonight: a guard's or a wolf's target is the
\* logged action of a holder of that role (or of the handler about to log it),
\* never one carried over from an earlier night.
LoggedBy(r, t) ==
    \E p \in players :
        /\ role[p] = r
        /\ nightActions[p] = t \/ (rpc.op = "NightAction" /\ rpc.by = p /\ rpc.target = t)

TargetsAreLogged ==
    /\ guardTarget # NoOne    => LoggedBy("GUARD", guardTarget)
    /\ werewolfTarget # NoOne => LoggedBy("WEREWOLF", werewolfTarget)

\* The answer of a role's only holder stands: what the room will settle is what
\* NightActions says of it, unless that player may still answer again (or is
\* the handler about to be logged).  An answer given before the loop executes
\* the phase is erased by it, and CanAct handed out anew.
TargetOf(r) == IF r = "GUARD" THEN guardTarget ELSE werewolfTarget

Answered(p) ==
    /\ nightActions[p] # NoEntry
    /\ p \notin canAct
    /\ ~(rpc.op = "NightAction" /\ rpc.by = p)

AnswerStands ==
    \A r \in {"GUARD", "WEREWOLF"}, p \in players :
        {q \in players : role[q] = r} = {p} /\ Answered(p) => TargetOf(r) = nightActions[p]

-----------------------------------------------------------------------------
(* The abstract specification *)

settled == loop \in {"select", "advance", "wedged"}

stage ==
    IF state = "WAITING" THEN "lobby"
    ELSE IF state = "FINISHED" THEN "over"
    ELSE IF state = "NIGHT" \/ (phase = "DAY_DISCUSSION" /\ ~settled) THEN "night"
    ELSE IF phase = "DAY_LAST_WORDS" /\ settled THEN "dusk"
    ELSE "day"

poison ==
    IF ~witchPoisonUsed THEN "full"
    ELSE IF stage = "night" /\ witchPoisonTarget # NoOne THEN "poured" ELSE "empty"

Rules == INSTANCE GameRules WITH
            People <- Ids,
            wolves <- {p \in players : role[p] = "WEREWOLF"}

\* The room, mutex, channel and timers included, plays by the rules: nobody
\* comes back to life, one death a night by the wolves, one by poison in the
\* whole game, one by each vote, and it ends as soon as it is decided.
PlaysByTheRules == Rules!Spec

-----------------------------------------------------------------------------
(* Liveness, under FairSpec *)

\* The room can never take another step of the game: the loop is blocked, or a
\* handler holds the mutex the loop needs.
Stuck ==
    \/ loop \in {"wedged", "crashed"}
    \/ rpc # NoRpc /\ loop # "select"

\* (MaxDays stops the model at the end of its last day.)
LastDayEnds == dayCount = MaxDays /\ phase = "DAY_LAST_WORDS" /\ loop = "advance"

\* Whatever the players do or fail to do, each phase ends, unless the room gets
\* stuck: the timeout covers every silence.
PhaseEndsOrStuck ==
    \A ph \in GamePhases : phase = ph ~> phase # ph \/ Stuck \/ LastDayEnds

-----------------------------------------------------------------------------
(* What the comments say *)

\* service.go:241, on the timer: "timeout, force the move to the next phase".
TimeoutForcesNextPhase ==
    \A ph \in GamePhases : phase = ph ~> phase # ph \/ LastDayEnds
=============================================================================
