------------------------------- MODULE Lobby -------------------------------
(***************************************************************************)
(* The rooms before their games: the registry of the werewolf server       *)
(* (CreateRoom, JoinRoom and StartGame of src/services/werewolf/service.go)*)
(* and the gateway in front of it, which checks a role configuration,      *)
(* gives each JoinRoom a fresh player id, and keeps the answer in cookies. *)
(*                                                                         *)
(* The registry is read under s.mu and the room it gives is used under     *)
(* room.mu, so a call is a look-up and a step on the room it found; in     *)
(* between the id may come to name another room.  An answer may be lost on *)
(* the way to the browser, and the server may end, with all its rooms.     *)
(*                                                                         *)
(* What happens in a room once its game has started is GameRoom's.         *)
(***************************************************************************)
EXTENDS Integers, FiniteSets

CONSTANTS
    Players,    \* player ids; the gateway draws one for each JoinRoom
    Rooms,      \* the rooms that CreateRoom makes, as objects
    RoomIds,    \* readings of the clock, which are the ids of rooms
    NoRoom,     \* "no such key", in the registry
    Requests,   \* the bodies of CreateRoom requests
    Half        \* 2^31: int32 holds -Half .. Half - 1

Counts == [werewolf : Int, villager : Int, seer : Int, guard : Int]

ASSUME PlayersAssumption  == IsFiniteSet(Players)
ASSUME RoomsAssumption    == NoRoom \notin Rooms
ASSUME HalfAssumption     == Half \in Nat \ {0}

\* dto.CreateRoomRequest: max_players is 4 to 12, the counts any integers.  Seer
\* and guard stand for all roles that validateRoleConfig does not name.
ASSUME RequestsAssumption == Requests \subseteq [max : 4 .. 12, counts : Counts]

VARIABLES
    registry,   \* WerewolfServer.rooms
    room,       \* each room but for its players; asked is what its creator
                \* asked for, for properties only
    seat,       \* room.Players: the Position of each player, 0 for no entry
    join,       \* each JoinRoom call, and what its browser has of it
    starting,   \* rooms found by StartGame calls that wait for room.mu
    lost        \* rooms no id leads to any more; for properties only

vars == <<registry, room, seat, join, starting, lost>>

Init ==
    /\ registry = [id \in RoomIds |-> NoRoom]
    /\ room = [r \in Rooms |-> [state |-> "NONE"]]
    /\ seat = [r \in Rooms |-> [p \in Players |-> 0]]
    /\ join = [p \in Players |-> [pc |-> "new"]]
    /\ starting = {}
    /\ lost = {}

Seated(r) == {p \in Players : seat[r][p] # 0}

-----------------------------------------------------------------------------
(* Creating a room *)

\* Of 64 bits; it overflows only for counts that RoleConfig changes as well.
Sum(c) == c.werewolf + c.villager + c.seer + c.guard

\* Mutant: the sum of the counts is not compared with max_players.
RolesPresent(req) == req.counts.werewolf >= 1 /\ req.counts.villager >= 1

validateRoleConfig(req) ==
    /\ Sum(req.counts) = req.max
    /\ req.counts.werewolf >= 1
    /\ req.counts.villager >= 1

\* int32(v), of an int of 64 bits.
Int32(v) == ((v + Half) % (2 * Half)) - Half

RoleConfig(c) ==
    [werewolf |-> Int32(c.werewolf), villager |-> Int32(c.villager),
     seer |-> Int32(c.seer), guard |-> Int32(c.guard)]

\* Any reading: two calls may be made within one tick, and the clock be set back.
generateRoomID == RoomIds

CreateRoom(r) ==
    /\ room[r].state = "NONE"
    /\ \E req \in Requests, id \in generateRoomID :
          /\ validateRoleConfig(req)
          /\ room' = [room EXCEPT ![r] =
                         [state |-> "WAITING", max |-> req.max,
                          config |-> RoleConfig(req.counts), asked |-> req.counts]]
          /\ registry' = [registry EXCEPT ![id] = r]
          /\ lost' = lost \cup ({registry[id]} \ {NoRoom})
    /\ UNCHANGED <<seat, join, starting>>

-----------------------------------------------------------------------------
(* Joining it *)

Answered(p, answer) == join' = [join EXCEPT ![p] = answer]
Gone == [pc |-> "gone"]

\* Mutant: the room is taken to be there.
FindUnchecked(p) ==
    /\ join[p].pc = "new"
    /\ \E id \in RoomIds :
          Answered(p, [pc |-> "found", id |-> id, room |-> registry[id],
                       position |-> 0])
    /\ UNCHANGED <<registry, room, seat, starting, lost>>

\* Mutant: a player id that comes with the request is kept.
FindAgain(p) ==
    /\ join[p].pc \in {"new", "seated"}
    /\ \E id \in RoomIds :
          /\ registry[id] # NoRoom
          /\ Answered(p, [pc |-> "found", id |-> id, room |-> registry[id],
                          position |-> 0])
    /\ UNCHANGED <<registry, room, seat, starting, lost>>

\* A room that is not there is an error; the player id is thrown away.
FindRoom(p) ==
    /\ join[p].pc = "new"
    /\ \E id \in RoomIds :
          /\ registry[id] # NoRoom
          /\ Answered(p, [pc |-> "found", id |-> id, room |-> registry[id],
                          position |-> 0])
    /\ UNCHANGED <<registry, room, seat, starting, lost>>

\* Mutant: the room is not asked whether it still waits.
Vacant(r) == Cardinality(Seated(r)) < room[r].max

TakesPlayers(r) == Vacant(r) /\ room[r].state = "WAITING"

\* The answer reaches the browser, which keeps it in two cookies, or is lost: the
\* seat is then held by an id that nobody knows.
SetCookies(p, position) ==
    \/ Answered(p, [join[p] EXCEPT !.pc = "seated", !.position = position])
    \/ Answered(p, Gone)

\* A refusal has no Player, whose Position WerewolfService.JoinRoom reads all the
\* same: it panics, and gin answers 500 without cookies.
JoinRoom(p) ==
    /\ join[p].pc = "found"
    /\ LET r == join[p].room
           position == Cardinality(Seated(r)) + 1
       IN  \/ /\ TakesPlayers(r)
              /\ seat' = [seat EXCEPT ![r][p] = position]
              /\ SetCookies(p, position)
           \/ ~TakesPlayers(r) /\ Answered(p, Gone) /\ UNCHANGED seat
    /\ UNCHANGED <<registry, room, starting, lost>>

\* Mutant: leaving gives back the seat of the player that the request names.
LeaveTheSeatOf(p) ==
    /\ join[p].pc = "seated"
    /\ \E q \in Players : seat' = [seat EXCEPT ![join[p].room][q] = 0]
    /\ Answered(p, Gone)
    /\ UNCHANGED <<registry, room, starting, lost>>

\* The cookies go, the seat stays: the werewolf server is not told.
LeaveRoom(p) ==
    /\ join[p].pc = "seated"
    /\ Answered(p, Gone)
    /\ UNCHANGED <<registry, room, seat, starting, lost>>

-----------------------------------------------------------------------------
(* Starting the game *)

FindToStart(id) ==
    /\ registry[id] # NoRoom
    /\ starting' = starting \cup {registry[id]}
    /\ UNCHANGED <<registry, room, seat, join, lost>>

\* The loop over a count that is not positive deals no role.
Dealt(n) == IF n > 0 THEN n ELSE 0

RolesDealt(c) ==
    Dealt(c.werewolf) + Dealt(c.villager) + Dealt(c.seer) + Dealt(c.guard)

assignRoles(r) == RolesDealt(room[r].config) = Cardinality(Seated(r))

StartGame(r) ==
    /\ r \in starting
    /\ \/ /\ room[r].state = "WAITING"
          /\ assignRoles(r)
          /\ room' = [room EXCEPT ![r].state = "STARTED"]
       \/ /\ room[r].state = "STARTED" \/ ~assignRoles(r)
          /\ UNCHANGED room
    /\ starting' = starting \ {r}
    /\ UNCHANGED <<registry, seat, join, lost>>

-----------------------------------------------------------------------------

\* The werewolf server starts anew: it keeps nothing, calls under way fail, and
\* the gateway and the cookies know nothing of it.
Restart ==
    /\ registry' = [id \in RoomIds |-> NoRoom]
    /\ join' = [p \in Players |->
                   IF join[p].pc = "found" THEN Gone ELSE join[p]]
    /\ starting' = {}
    /\ lost' = {r \in Rooms : room[r].state # "NONE"}
    /\ UNCHANGED <<room, seat>>

Next ==
    \/ \E r \in Rooms : CreateRoom(r) \/ StartGame(r)
    \/ \E p \in Players : FindRoom(p) \/ JoinRoom(p) \/ LeaveRoom(p)
    \/ \E id \in RoomIds : FindToStart(id)
    \/ Restart

Spec == Init /\ [][Next]_vars
-----------------------------------------------------------------------------

Room == [state : {"NONE"}]
    \cup [state : {"WAITING", "STARTED"}, max : 4 .. 12, config : Counts, asked : Counts]

Call == [pc : {"new", "gone"}]
    \cup [pc : {"found", "seated"}, id : RoomIds, room : Rooms, position : Nat]

TypeOK ==
    /\ registry \in [RoomIds -> Rooms \cup {NoRoom}]
    /\ room \in [Rooms -> Room]
    /\ seat \in [Rooms -> [Players -> Nat]]
    /\ join \in [Players -> Call]
    /\ starting \subseteq Rooms
    /\ lost \subseteq Rooms

\* The players of a room, who joined in any order and may have left or never heard
\* of it, are numbered from 1 without a gap, no two share a number, and there are
\* never more of them than max_players, even when many calls have found the same
\* room before one is seated (service.go:102, 125).
SeatsAreNumbered ==
    \A r \in Rooms :
        /\ room[r].state # "NONE" => Cardinality(Seated(r)) <= room[r].max
        /\ \A p, q \in Seated(r) : seat[r][p] = seat[r][q] => p = q
        /\ \A p \in Seated(r) : seat[r][p] <= Cardinality(Seated(r))

\* A browser's cookies name a room and a player that is in it, with the position
\* that the browser was told, as long as no second room was created on the same
\* reading of the clock and the server has not started anew.
CookiesHold ==
    \A p \in Players :
        join[p].pc = "seated" =>
            /\ seat[join[p].room][p] = join[p].position
            /\ registry[join[p].id] = join[p].room \/ join[p].room \in lost

\* The check of the gateway (werewolf_service.go:165) and the one of assignRoles
\* (service.go:929), which nobody made to fit, together keep a game from starting
\* before all max_players are there, without a wolf or on a negative count; but
\* for a configuration that the conversion to int32 between them has changed.
StartsAsAsked ==
    \A r \in Rooms :
        room[r].state = "STARTED" /\ room[r].config = room[r].asked =>
            /\ Cardinality(Seated(r)) = room[r].max
            /\ room[r].config.werewolf >= 1 /\ room[r].config.villager >= 1
            /\ room[r].config.seer >= 0 /\ room[r].config.guard >= 0

\* Once the game has started nobody comes or goes any more, whichever calls had
\* found the room before, and none of these calls is answered with a seat.
ClosedOnceStarted ==
    [][\A r \in Rooms : room[r].state = "STARTED" =>
          /\ seat'[r] = seat[r]
          /\ \A p \in Players : join[p].pc = "found" /\ join[p].room = r =>
                join'[p].pc # "seated"]_vars
=============================================================================
