---------------------------- MODULE LobbyProofs ----------------------------
(* What Lobby's run checks on rooms of four, proved for every number of     *)
(* players and rooms, every request and every width of the conversion.      *)
EXTENDS Lobby, FiniteSetTheorems, TLAPS

\* An int32 is an integer.
LEMMA Int32Type ==
    ASSUME NEW v \in Int
    PROVE  Int32(v) \in Int
<1>1. 2 * Half \in Nat \ {0}
  BY HalfAssumption
<1>2. (v + Half) % (2 * Half) \in Int
  BY <1>1, HalfAssumption
<1>. QED
  BY <1>2, HalfAssumption DEF Int32

LEMMA RoleConfigType ==
    ASSUME NEW c \in Counts
    PROVE  RoleConfig(c) \in Counts
<1>1. /\ c.werewolf \in Int /\ c.villager \in Int
      /\ c.seer \in Int /\ c.guard \in Int
  BY DEF Counts
<1>. QED
  BY <1>1, Int32Type DEF RoleConfig, Counts

\* The players of a room are finitely many.
LEMMA SeatedFinite ==
    ASSUME NEW r
    PROVE  /\ Seated(r) \subseteq Players
           /\ IsFiniteSet(Seated(r))
           /\ Cardinality(Seated(r)) \in Nat
<1>1. Seated(r) \subseteq Players
  BY DEF Seated
<1>2. IsFiniteSet(Seated(r))
  BY <1>1, PlayersAssumption, FS_Subset
<1>. QED
  BY <1>1, <1>2, FS_CardinalityType

-----------------------------------------------------------------------------
(* Type correctness *)

LEMMA TypeInit == Init => TypeOK
BY DEF Init, TypeOK, Room, Call

LEMMA TypeCreateRoom ==
    ASSUME TypeOK, NEW r \in Rooms, CreateRoom(r)
    PROVE  TypeOK'
<1>1. PICK req \in Requests, id \in generateRoomID :
         /\ room' = [room EXCEPT ![r] =
                        [state |-> "WAITING", max |-> req.max,
                         config |-> RoleConfig(req.counts), asked |-> req.counts]]
         /\ registry' = [registry EXCEPT ![id] = r]
         /\ lost' = lost \cup ({registry[id]} \ {NoRoom})
  BY DEF CreateRoom
<1>2. req.max \in 4 .. 12 /\ req.counts \in Counts
  BY RequestsAssumption
<1>3. RoleConfig(req.counts) \in Counts
  BY <1>2, RoleConfigType
<1>4. [state |-> "WAITING", max |-> req.max,
       config |-> RoleConfig(req.counts), asked |-> req.counts] \in Room
  BY <1>2, <1>3 DEF Room
<1>5. room' \in [Rooms -> Room]
  BY <1>1, <1>4 DEF TypeOK
<1>6. registry' \in [RoomIds -> Rooms \cup {NoRoom}] /\ lost' \subseteq Rooms
  BY <1>1 DEF TypeOK, generateRoomID
<1>. QED
  BY <1>5, <1>6 DEF CreateRoom, TypeOK

LEMMA TypeFindRoom ==
    ASSUME TypeOK, NEW p \in Players, FindRoom(p)
    PROVE  TypeOK'
<1>1. PICK id \in RoomIds :
         /\ registry[id] # NoRoom
         /\ Answered(p, [pc |-> "found", id |-> id, room |-> registry[id],
                         position |-> 0])
  BY DEF FindRoom
<1>2. registry[id] \in Rooms
  BY <1>1 DEF TypeOK
<1>3. [pc |-> "found", id |-> id, room |-> registry[id], position |-> 0] \in Call
  BY <1>2 DEF Call
<1>. QED
  BY <1>1, <1>3 DEF FindRoom, Answered, TypeOK

\* A call that is not new or over has its room.
LEMMA CallRoom ==
    ASSUME TypeOK, NEW p \in Players, join[p].pc \in {"found", "seated"}
    PROVE  join[p] \in [pc : {"found", "seated"}, id : RoomIds, room : Rooms,
                        position : Nat]
BY DEF TypeOK, Call

LEMMA TypeJoinRoom ==
    ASSUME TypeOK, NEW p \in Players, JoinRoom(p)
    PROVE  TypeOK'
<1>. DEFINE r == join[p].room
            position == Cardinality(Seated(r)) + 1
<1>1. join[p] \in [pc : {"found", "seated"}, id : RoomIds, room : Rooms,
                   position : Nat]
  BY CallRoom DEF JoinRoom
<1>2. position \in Nat
  BY SeatedFinite
<1>3. Gone \in Call
  BY DEF Gone, Call
<1>4. [join[p] EXCEPT !.pc = "seated", !.position = position] \in Call
  <2>. HIDE DEF position
  <2>. QED
    BY <1>1, <1>2 DEF Call
<1>5. seat' \in [Rooms -> [Players -> Nat]]
  <2>. HIDE DEF position
  <2>1. CASE seat' = [seat EXCEPT ![r][p] = position]
    BY <2>1, <1>1, <1>2 DEF TypeOK
  <2>2. CASE UNCHANGED seat
    BY <2>2 DEF TypeOK
  <2>. QED
    BY <2>1, <2>2 DEF JoinRoom, position
<1>6. join' \in [Players -> Call]
  BY <1>3, <1>4 DEF JoinRoom, SetCookies, Answered, TypeOK
<1>. QED
  BY <1>5, <1>6 DEF JoinRoom, TypeOK

LEMMA TypeStep == TypeOK /\ [Next]_vars => TypeOK'
<1>. SUFFICES ASSUME TypeOK, [Next]_vars
              PROVE  TypeOK'
  OBVIOUS
<1>1. ASSUME NEW p \in Players, LeaveRoom(p)
      PROVE  TypeOK'
  <2>1. Gone \in Call
    BY DEF Gone, Call
  <2>. QED
    BY <1>1, <2>1 DEF LeaveRoom, Answered, TypeOK
<1>2. ASSUME NEW id \in RoomIds, FindToStart(id)
      PROVE  TypeOK'
  BY <1>2 DEF FindToStart, TypeOK
<1>3. ASSUME NEW r \in Rooms, StartGame(r)
      PROVE  TypeOK'
  <2>1. room' \in [Rooms -> Room]
    <3>1. CASE UNCHANGED room
      BY <3>1 DEF TypeOK
    <3>2. CASE /\ room[r].state = "WAITING"
               /\ room' = [room EXCEPT ![r].state = "STARTED"]
      <4>1. [room[r] EXCEPT !.state = "STARTED"] \in Room
        BY <3>2 DEF TypeOK, Room
      <4>. QED
        BY <3>2, <4>1 DEF TypeOK
    <3>. QED
      BY <1>3, <3>1, <3>2 DEF StartGame
  <2>. QED
    BY <1>3, <2>1 DEF StartGame, TypeOK
<1>4. ASSUME Restart
      PROVE  TypeOK'
  <2>1. Gone \in Call
    BY DEF Gone, Call
  <2>. QED
    BY <1>4, <2>1 DEF Restart, TypeOK
<1>5. CASE UNCHANGED vars
  BY <1>5 DEF vars, TypeOK
<1>. QED
  BY <1>1, <1>2, <1>3, <1>4, <1>5, TypeCreateRoom, TypeFindRoom, TypeJoinRoom DEF Next

\* The state of the lobby has its type, whatever the requests ask for.
THEOREM TypeCorrect == Spec => []TypeOK
<1>. QED
  BY TypeInit, TypeStep, PTL DEF Spec
-----------------------------------------------------------------------------
(* The inductive invariant *)

Made(r) == room[r].state # "NONE"

\* What a call, an id or a cookie names has been made.
OnlyMadeRooms ==
    /\ \A id \in RoomIds : registry[id] # NoRoom => Made(registry[id])
    /\ \A r \in starting : Made(r)
    /\ \A p \in Players : join[p].pc \in {"found", "seated"} => Made(join[p].room)

\* CookiesHold begins at the look-up: the id leads to the room, or nowhere near it.
CallsLead ==
    \A p \in Players :
        join[p].pc \in {"found", "seated"} =>
            registry[join[p].id] = join[p].room \/ join[p].room \in lost

\* A player id is in no room before its one call has answered.
NotYetSeated ==
    \A p \in Players, r \in Rooms :
        join[p].pc \in {"new", "found"} \/ ~Made(r) => seat[r][p] = 0

\* What the gateway let through.
AskedWithin ==
    \A r \in Rooms : Made(r) => /\ Sum(room[r].asked) = room[r].max
                                /\ room[r].asked.werewolf >= 1
                                /\ room[r].asked.villager >= 1

\* What the server let in, and what it dealt to them.
SeatsWithin ==
    \A r \in Rooms : Made(r) => Cardinality(Seated(r)) <= room[r].max
Numbered ==
    \A r \in Rooms :
        /\ \A p, q \in Seated(r) : seat[r][p] = seat[r][q] => p = q
        /\ \A p \in Seated(r) : seat[r][p] <= Cardinality(Seated(r))
DealtToAll ==
    \A r \in Rooms :
        room[r].state = "STARTED" =>
            RolesDealt(room[r].config) = Cardinality(Seated(r))

Inv == /\ TypeOK /\ OnlyMadeRooms /\ CallsLead /\ NotYetSeated /\ AskedWithin
       /\ SeatsWithin /\ DealtToAll /\ Numbered /\ CookiesHold

LEMMA InvInit == Init => Inv
<1>. SUFFICES ASSUME Init PROVE Inv
  OBVIOUS
<1>1. \A r \in Rooms : Seated(r) = {}
  BY DEF Init, Seated
<1>2. TypeOK
  BY TypeInit
<1>3. OnlyMadeRooms /\ NotYetSeated /\ AskedWithin
  BY DEF Init, OnlyMadeRooms, NotYetSeated, AskedWithin, Made
<1>4. SeatsWithin /\ DealtToAll /\ CookiesHold
  BY DEF Init, SeatsWithin, DealtToAll, CookiesHold, Made
<1>6. CallsLead
  BY DEF Init, CallsLead
<1>5. Numbered
  BY <1>1 DEF Numbered
<1>. QED
  BY <1>2, <1>3, <1>4, <1>5, <1>6 DEF Inv

\* A step that leaves the seats alone leaves the numbers alone.
LEMMA SameSeats ==
    ASSUME seat' = seat
    PROVE  /\ \A r \in Rooms : Seated(r)' = Seated(r)
           /\ Numbered => Numbered'
<1>1. \A r \in Rooms : Seated(r)' = Seated(r)
  BY DEF Seated
<1>. QED
  BY <1>1 DEF Numbered

\* A step that leaves the rooms and the seats alone need only look to its calls.
LEMMA SameRooms ==
    ASSUME Inv, UNCHANGED <<room, seat>>
    PROVE  AskedWithin' /\ SeatsWithin' /\ DealtToAll' /\ Numbered'
<1>1. \A r \in Rooms : Seated(r)' = Seated(r)
  BY SameSeats
<1>2. \A r \in Rooms : Made(r)' = Made(r)
  BY DEF Made
<1>3. AskedWithin'
  BY <1>2 DEF Inv, AskedWithin
<1>4. SeatsWithin' /\ DealtToAll'
  BY <1>1, <1>2 DEF Inv, SeatsWithin, DealtToAll
<1>. QED
  BY <1>3, <1>4, SameSeats DEF Inv

LEMMA InvCreateRoom ==
    ASSUME Inv, NEW r \in Rooms, CreateRoom(r)
    PROVE  Inv'
<1>1. PICK req \in Requests, id \in generateRoomID :
         /\ validateRoleConfig(req)
         /\ room' = [room EXCEPT ![r] =
                        [state |-> "WAITING", max |-> req.max,
                         config |-> RoleConfig(req.counts), asked |-> req.counts]]
         /\ registry' = [registry EXCEPT ![id] = r]
         /\ lost' = lost \cup ({registry[id]} \ {NoRoom})
  BY DEF CreateRoom
<1>2. TypeOK /\ ~Made(r) /\ UNCHANGED <<seat, join, starting>>
  BY DEF CreateRoom, Made, Inv
<1>3. TypeOK'
  BY <1>2, TypeCreateRoom
<1>4. /\ room'[r].state = "WAITING" /\ room'[r].max = req.max
      /\ room'[r].asked = req.counts
      /\ \A x \in Rooms \ {r} : room'[x] = room[x]
  BY <1>1, <1>2 DEF TypeOK
<1>5. Made(r)' /\ \A x \in Rooms : Made(x) => Made(x)' /\ x # r
  BY <1>2, <1>4 DEF Made
<1>6. \A x \in Rooms : Seated(x)' = Seated(x)
  BY <1>2, SameSeats
<1>7. Seated(r) = {}
  BY <1>2 DEF Inv, NotYetSeated, Seated
<1>8. OnlyMadeRooms'
  <2>1. \A i \in RoomIds : registry'[i] # NoRoom => Made(registry[i])'
    <3>. SUFFICES ASSUME NEW i \in RoomIds, registry'[i] # NoRoom
                  PROVE  Made(registry[i])'
      OBVIOUS
    <3>1. CASE i = id
      <4>1. registry'[i] = r
        BY <3>1, <1>1, <1>2 DEF TypeOK
      <4>. QED
        BY <4>1, <1>5 DEF Made
    <3>2. CASE i # id
      <4>1. registry'[i] = registry[i] /\ registry[i] \in Rooms
        BY <3>2, <1>1, <1>2 DEF TypeOK
      <4>2. Made(registry[i])
        BY <4>1 DEF Inv, OnlyMadeRooms
      <4>. QED
        BY <4>1, <4>2, <1>5 DEF Made
    <3>. QED
      BY <3>1, <3>2
  <2>2. \A x \in starting' : Made(x)'
    BY <1>2, <1>5 DEF Inv, OnlyMadeRooms, TypeOK
  <2>3. \A p \in Players : join'[p].pc \in {"found", "seated"} => Made(join[p].room)'
    <3>. SUFFICES ASSUME NEW p \in Players, join[p].pc \in {"found", "seated"}
                  PROVE  Made(join[p].room)'
      BY <1>2
    <3>1. join[p].room \in Rooms /\ Made(join[p].room)
      BY <1>2, CallRoom DEF Inv, OnlyMadeRooms
    <3>. QED
      BY <3>1, <1>2, <1>5 DEF Made
  <2>. QED
    BY <2>1, <2>2, <2>3 DEF OnlyMadeRooms
<1>9. NotYetSeated'
  BY <1>2, <1>5 DEF Inv, NotYetSeated
<1>10. AskedWithin'
  BY <1>1, <1>4 DEF Inv, AskedWithin, Made, validateRoleConfig
<1>11. SeatsWithin'
  <2>1. Cardinality(Seated(r)') <= room'[r].max
    BY <1>3, <1>4, <1>6, <1>7, FS_EmptySet, RequestsAssumption
  <2>. QED
    BY <2>1, <1>4, <1>6 DEF Inv, SeatsWithin, Made
<1>12. DealtToAll'
  BY <1>4, <1>6 DEF Inv, DealtToAll
<1>13. Numbered'
  BY <1>2, SameSeats DEF Inv
<1>14. CallsLead'
  <2>. SUFFICES ASSUME NEW p \in Players, join[p].pc \in {"found", "seated"}
                PROVE  \/ registry'[join[p].id] = join[p].room
                       \/ join[p].room \in lost'
    BY <1>2 DEF CallsLead
  <2>1. join[p].id \in RoomIds /\ join[p].room \in Rooms
    BY <1>2, CallRoom
  <2>. QED
    BY <2>1, <1>1, <1>2, RoomsAssumption DEF Inv, CallsLead, TypeOK
<1>15. CookiesHold'
  BY <1>2, <1>14 DEF Inv, CookiesHold, CallsLead
<1>. QED
  BY <1>3, <1>8, <1>9, <1>10, <1>11, <1>12, <1>13, <1>14, <1>15 DEF Inv

LEMMA InvFindRoom ==
    ASSUME Inv, NEW p \in Players, FindRoom(p)
    PROVE  Inv'
<1>1. PICK id \in RoomIds :
         /\ registry[id] # NoRoom
         /\ join' = [join EXCEPT ![p] = [pc |-> "found", id |-> id,
                                         room |-> registry[id], position |-> 0]]
  BY DEF FindRoom, Answered
<1>2. TypeOK /\ join[p].pc = "new" /\ UNCHANGED <<registry, room, seat, starting, lost>>
  BY DEF FindRoom, Inv
<1>3. TypeOK'
  BY <1>2, TypeFindRoom
<1>4. /\ join'[p].pc = "found" /\ join'[p].room = registry[id]
      /\ \A q \in Players \ {p} : join'[q] = join[q]
  BY <1>1, <1>2 DEF TypeOK
<1>5. OnlyMadeRooms'
  BY <1>1, <1>2, <1>4 DEF Inv, OnlyMadeRooms, Made
<1>6. NotYetSeated'
  BY <1>2, <1>4 DEF Inv, NotYetSeated, Made
<1>7. CookiesHold'
  BY <1>2, <1>4 DEF Inv, CookiesHold
<1>8. CallsLead'
  <2>1. join'[p].id = id
    BY <1>1, <1>2 DEF TypeOK
  <2>. QED
    BY <1>2, <1>4, <2>1 DEF Inv, CallsLead
<1>. QED
  BY <1>2, <1>3, <1>5, <1>6, <1>7, <1>8, SameRooms DEF Inv

\* One more player, at the next number.
LEMMA OneMore ==
    ASSUME Inv, NEW p \in Players, NEW r \in Rooms, seat[r][p] = 0,
           seat' = [seat EXCEPT ![r][p] = Cardinality(Seated(r)) + 1]
    PROVE  /\ Cardinality(Seated(r)') = Cardinality(Seated(r)) + 1
           /\ \A x \in Rooms \ {r} : Seated(x)' = Seated(x)
           /\ seat'[r][p] = Cardinality(Seated(r)) + 1
           /\ \A x \in Rooms, q \in Players : x # r \/ q # p => seat'[x][q] = seat[x][q]
           /\ Numbered'
<1>. DEFINE n == Cardinality(Seated(r))
<1>1. n \in Nat
  BY SeatedFinite
<1>2. /\ seat'[r][p] = n + 1
      /\ \A x \in Rooms, q \in Players : x # r \/ q # p => seat'[x][q] = seat[x][q]
  <2>. HIDE DEF n
  <2>1. seat' = [seat EXCEPT ![r][p] = n + 1]
    BY DEF n
  <2>. QED
    BY <2>1 DEF Inv, TypeOK
<1>3. p \notin Seated(r)
  BY DEF Seated
<1>4. Seated(r)' = Seated(r) \cup {p}
  <2>. HIDE DEF n
  <2>. QED
    BY <1>1, <1>2 DEF Seated
<1>5. Cardinality(Seated(r)') = n + 1
  BY <1>3, <1>4, SeatedFinite, FS_AddElement
<1>6. \A x \in Rooms \ {r} : Seated(x)' = Seated(x)
  BY <1>2 DEF Seated
<1>7. Numbered'
  <2>. SUFFICES ASSUME NEW x \in Rooms
                PROVE  /\ \A a, b \in Seated(x)' : seat'[x][a] = seat'[x][b] => a = b
                       /\ \A a \in Seated(x)' : seat'[x][a] <= Cardinality(Seated(x)')
    BY DEF Numbered
  <2>1. CASE x # r
    <3>1. \A a \in Seated(x) : seat'[x][a] = seat[x][a]
      BY <2>1, <1>2 DEF Seated
    <3>. QED
      BY <2>1, <3>1, <1>6 DEF Inv, Numbered
  <2>2. CASE x = r
    <3>1. \A a \in Seated(r) : seat'[r][a] = seat[r][a] /\ seat[r][a] \in Nat
      BY <1>2, <1>3 DEF Seated, Inv, TypeOK
    <3>2. \A a \in Seated(r) : seat[r][a] <= n
      BY DEF Inv, Numbered
    <3>3. \A a, b \in Seated(r) : seat[r][a] = seat[r][b] => a = b
      BY DEF Inv, Numbered
    <3>. HIDE DEF n
    <3>4. \A a \in Seated(r)' : seat'[r][a] <= n + 1
      BY <1>1, <1>2, <1>4, <3>1, <3>2
    <3>5. \A a, b \in Seated(r)' : seat'[r][a] = seat'[r][b] => a = b
      BY <1>1, <1>2, <1>4, <3>1, <3>2, <3>3
    <3>. QED
      BY <2>2, <1>5, <3>4, <3>5
  <2>. QED
    BY <2>1, <2>2
<1>. QED
  BY <1>2, <1>5, <1>6, <1>7

LEMMA InvJoinRoom ==
    ASSUME Inv, NEW p \in Players, JoinRoom(p)
    PROVE  Inv'
<1>0. PICK r : r = join[p].room
  OBVIOUS
<1>. DEFINE n == Cardinality(Seated(r))
<1>1. TypeOK /\ join[p].pc = "found" /\ UNCHANGED <<registry, room, starting, lost>>
  BY DEF JoinRoom, Inv
<1>2. r \in Rooms /\ join[p].id \in RoomIds /\ join[p] \in Call
  BY <1>0, <1>1, CallRoom DEF TypeOK
<1>3. Made(r) /\ seat[r][p] = 0
  BY <1>0, <1>1, <1>2 DEF Inv, OnlyMadeRooms, NotYetSeated
<1>4. TypeOK'
  BY <1>1, TypeJoinRoom
<1>5. CASE /\ seat' = seat
           /\ Answered(p, Gone)
  <2>1. join'[p].pc = "gone" /\ \A q \in Players \ {p} : join'[q] = join[q]
    BY <1>1, <1>5 DEF Answered, Gone, TypeOK
  <2>2. OnlyMadeRooms'
    BY <1>1, <2>1 DEF Inv, OnlyMadeRooms, Made
  <2>3. NotYetSeated'
    BY <1>1, <1>5, <2>1 DEF Inv, NotYetSeated, Made
  <2>4. CookiesHold' /\ CallsLead'
    BY <1>1, <1>5, <2>1 DEF Inv, CookiesHold, CallsLead
  <2>. QED
    BY <1>1, <1>4, <1>5, <2>2, <2>3, <2>4, SameRooms DEF Inv
<1>6. CASE /\ TakesPlayers(r)
           /\ seat' = [seat EXCEPT ![r][p] = n + 1]
           /\ SetCookies(p, n + 1)
  <2>1. /\ Cardinality(Seated(r)') = n + 1
        /\ \A x \in Rooms \ {r} : Seated(x)' = Seated(x)
        /\ seat'[r][p] = n + 1
        /\ \A x \in Rooms, q \in Players : x # r \/ q # p => seat'[x][q] = seat[x][q]
        /\ Numbered'
    BY <1>2, <1>3, <1>6, OneMore
  <2>2. n \in Nat
    BY SeatedFinite
  <2>. HIDE DEF n
  <2>3. /\ \A q \in Players \ {p} : join'[q] = join[q]
        /\ \/ join'[p].pc = "gone"
           \/ /\ join'[p].pc = "seated" /\ join'[p].position = n + 1
              /\ join'[p].id = join[p].id /\ join'[p].room = r
    <3>1. join[p] \in [pc : {"found", "seated"}, id : RoomIds, room : Rooms,
                       position : Nat]
      BY <1>1, CallRoom
    <3>. DEFINE answer == [join[p] EXCEPT !.pc = "seated", !.position = n + 1]
    <3>2. /\ answer.pc = "seated" /\ answer.position = n + 1
          /\ answer.id = join[p].id /\ answer.room = r
      BY <1>0, <3>1
    <3>3. Answered(p, answer) \/ Answered(p, Gone)
      BY <1>6 DEF SetCookies
    <3>. HIDE DEF answer
    <3>. QED
      BY <1>1, <3>2, <3>3 DEF Answered, Gone, TypeOK
  <2>4. OnlyMadeRooms'
    BY <1>1, <1>3, <2>3 DEF Inv, OnlyMadeRooms, Made
  <2>5. NotYetSeated'
    BY <1>1, <1>3, <2>1, <2>3 DEF Inv, NotYetSeated, Made
  <2>6. AskedWithin'
    BY <1>1 DEF Inv, AskedWithin, Made
  <2>7. n + 1 <= room[r].max
    <3>1. room[r].max \in Int
      BY <1>1, <1>2, <1>3 DEF TypeOK, Room, Made
    <3>2. n < room[r].max
      BY <1>6 DEF TakesPlayers, Vacant, n
    <3>. QED
      BY <2>2, <3>1, <3>2
  <2>8. SeatsWithin'
    BY <1>1, <2>1, <2>7 DEF Inv, SeatsWithin, Made
  <2>9. DealtToAll'
    BY <1>1, <1>6, <2>1 DEF Inv, DealtToAll, TakesPlayers
  <2>10. CallsLead'
    BY <1>0, <1>1, <2>3 DEF Inv, CallsLead
  <2>11. CookiesHold'
    <3>. SUFFICES ASSUME NEW q \in Players, join'[q].pc = "seated"
                  PROVE  seat'[join'[q].room][q] = join'[q].position
      BY <2>10 DEF CookiesHold, CallsLead
    <3>1. CASE q = p
      BY <2>1, <2>3, <3>1
    <3>2. CASE q # p
      <4>1. join'[q] = join[q] /\ join[q].room \in Rooms
        BY <1>1, <2>3, <3>2, CallRoom
      <4>. QED
        BY <2>1, <3>2, <4>1 DEF Inv, CookiesHold
    <3>. QED
      BY <3>1, <3>2
  <2>. QED
    BY <1>4, <2>1, <2>4, <2>5, <2>6, <2>8, <2>9, <2>10, <2>11 DEF Inv
<1>. QED
  BY <1>0, <1>5, <1>6 DEF JoinRoom

LEMMA InvLeaveRoom ==
    ASSUME Inv, NEW p \in Players, LeaveRoom(p)
    PROVE  Inv'
<1>1. /\ TypeOK /\ UNCHANGED <<registry, room, seat, starting, lost>>
      /\ join[p].pc = "seated"
  BY DEF LeaveRoom, Inv
<1>2. join'[p] = Gone /\ \A q \in Players \ {p} : join'[q] = join[q]
  BY <1>1 DEF LeaveRoom, Answered, TypeOK
<1>3. join'[p].pc = "gone"
  BY <1>2 DEF Gone
<1>4. TypeOK'
  <2>1. Gone \in Call
    BY DEF Gone, Call
  <2>. QED
    BY <1>1, <2>1 DEF LeaveRoom, Answered, TypeOK
<1>5. OnlyMadeRooms' /\ CallsLead'
  BY <1>1, <1>2, <1>3 DEF Inv, OnlyMadeRooms, CallsLead, Made
<1>6. NotYetSeated' /\ CookiesHold'
  BY <1>1, <1>2, <1>3 DEF Inv, NotYetSeated, CookiesHold, Made
<1>. QED
  BY <1>1, <1>4, <1>5, <1>6, SameRooms DEF Inv

LEMMA InvFindToStart ==
    ASSUME Inv, NEW id \in RoomIds, FindToStart(id)
    PROVE  Inv'
<1>1. /\ TypeOK /\ registry[id] # NoRoom /\ starting' = starting \cup {registry[id]}
      /\ UNCHANGED <<registry, room, seat, join, lost>>
  BY DEF FindToStart, Inv
<1>2. TypeOK'
  BY <1>1 DEF TypeOK
<1>3. OnlyMadeRooms' /\ CallsLead'
  BY <1>1 DEF Inv, OnlyMadeRooms, CallsLead, Made
<1>4. NotYetSeated' /\ CookiesHold'
  BY <1>1 DEF Inv, NotYetSeated, CookiesHold, Made
<1>. QED
  BY <1>1, <1>2, <1>3, <1>4, SameRooms DEF Inv

LEMMA InvStartGame ==
    ASSUME Inv, NEW r \in Rooms, StartGame(r)
    PROVE  Inv'
<1>1. TypeOK /\ starting' = starting \ {r} /\ UNCHANGED <<registry, seat, join, lost>>
  BY DEF StartGame, Inv
<1>2. TypeOK'
  BY TypeStep, <1>1 DEF Next
<1>3. /\ \A x \in Rooms : Made(x)' = Made(x)
      /\ \A x \in Rooms : /\ room'[x].state = "STARTED" /\ room[x].state # "STARTED"
                             => x = r /\ assignRoles(r)
                          /\ Made(x) => /\ room'[x].max = room[x].max
                                        /\ room'[x].asked = room[x].asked
                                        /\ room'[x].config = room[x].config
  <2>1. CASE UNCHANGED room
    BY <2>1 DEF Made
  <2>2. CASE /\ room[r].state = "WAITING" /\ assignRoles(r)
             /\ room' = [room EXCEPT ![r].state = "STARTED"]
    BY <1>1, <2>2 DEF TypeOK, Room, Made
  <2>. QED
    BY <2>1, <2>2 DEF StartGame
<1>4. \A x \in Rooms : Seated(x)' = Seated(x)
  BY <1>1, SameSeats
<1>5. OnlyMadeRooms'
  <2>1. \A id \in RoomIds : registry[id] # NoRoom => Made(registry[id])'
    BY <1>1, <1>3 DEF Inv, OnlyMadeRooms, TypeOK
  <2>2. \A x \in starting' : Made(x)'
    BY <1>1, <1>3 DEF Inv, OnlyMadeRooms, TypeOK
  <2>3. \A p \in Players : join[p].pc \in {"found", "seated"} => Made(join[p].room)'
    <3>. SUFFICES ASSUME NEW p \in Players, join[p].pc \in {"found", "seated"}
                  PROVE  Made(join[p].room)'
      OBVIOUS
    <3>1. join[p].room \in Rooms /\ Made(join[p].room)
      BY <1>1, CallRoom DEF Inv, OnlyMadeRooms
    <3>. QED
      BY <1>1, <1>3, <3>1 DEF Made
  <2>. QED
    BY <1>1, <2>1, <2>2, <2>3 DEF OnlyMadeRooms, Made
<1>6. CallsLead' /\ CookiesHold'
  BY <1>1 DEF Inv, CallsLead, CookiesHold
<1>7. NotYetSeated'
  BY <1>1, <1>3 DEF Inv, NotYetSeated
<1>8. AskedWithin' /\ SeatsWithin'
  BY <1>3, <1>4 DEF Inv, AskedWithin, SeatsWithin
<1>9. DealtToAll'
  <2>. SUFFICES ASSUME NEW x \in Rooms, room'[x].state = "STARTED"
                PROVE  RolesDealt(room'[x].config) = Cardinality(Seated(x)')
    BY DEF DealtToAll
  <2>1. Made(x)
    <3>1. room'[x].state # "NONE"
      OBVIOUS
    <3>. QED
      BY <3>1, <1>3 DEF Made
  <2>2. RolesDealt(room[x].config) = Cardinality(Seated(x))
    BY <1>3 DEF Inv, DealtToAll, assignRoles
  <2>. QED
    BY <1>3, <1>4, <2>1, <2>2
<1>10. Numbered'
  BY <1>1, SameSeats DEF Inv
<1>. QED
  BY <1>2, <1>5, <1>6, <1>7, <1>8, <1>9, <1>10 DEF Inv

LEMMA InvRestart ==
    ASSUME Inv, Restart
    PROVE  Inv'
<1>1. /\ TypeOK
      /\ registry' = [id \in RoomIds |-> NoRoom]
      /\ join' = [p \in Players |->
                     IF join[p].pc = "found" THEN Gone ELSE join[p]]
      /\ starting' = {}
      /\ lost' = {r \in Rooms : room[r].state # "NONE"}
      /\ UNCHANGED <<room, seat>>
  BY DEF Restart, Inv
<1>2. TypeOK'
  BY TypeStep, <1>1 DEF Next
<1>3. \A p \in Players : join'[p].pc \in {"new", "found", "seated"} => join'[p] = join[p]
  BY <1>1 DEF Gone
<1>4. OnlyMadeRooms'
  BY <1>1, <1>3 DEF Inv, OnlyMadeRooms, Made
<1>5. CallsLead'
  <2>. SUFFICES ASSUME NEW p \in Players, join'[p].pc \in {"found", "seated"}
                PROVE  join'[p].room \in lost'
    BY DEF CallsLead
  <2>1. join'[p] = join[p] /\ join[p].room \in Rooms /\ Made(join[p].room)
    BY <1>1, <1>3, CallRoom DEF Inv, OnlyMadeRooms
  <2>. QED
    BY <1>1, <2>1 DEF Made
<1>6. NotYetSeated'
  BY <1>1, <1>3 DEF Inv, NotYetSeated, Made
<1>7. CookiesHold'
  BY <1>1, <1>3, <1>5 DEF Inv, CookiesHold, CallsLead
<1>. QED
  BY <1>1, <1>2, <1>4, <1>5, <1>6, <1>7, SameRooms DEF Inv

LEMMA InvStep == Inv /\ [Next]_vars => Inv'
<1>. SUFFICES ASSUME Inv, [Next]_vars
              PROVE  Inv'
  OBVIOUS
<1>1. CASE UNCHANGED vars
  <2>1. TypeOK'
    BY <1>1, TypeStep DEF Inv
  <2>2. OnlyMadeRooms' /\ CallsLead' /\ NotYetSeated' /\ CookiesHold'
    BY <1>1 DEF vars, Inv, OnlyMadeRooms, CallsLead, NotYetSeated, CookiesHold, Made
  <2>. QED
    BY <1>1, <2>1, <2>2, SameRooms DEF vars, Inv
<1>. QED
  BY <1>1, InvCreateRoom, InvFindRoom, InvJoinRoom, InvLeaveRoom, InvFindToStart,
     InvStartGame, InvRestart DEF Next

LEMMA InvHolds == Spec => []Inv
<1>. QED
  BY InvInit, InvStep, PTL DEF Spec

-----------------------------------------------------------------------------
(* What follows from it *)

\* No two players of a room share a position, there is no gap, and the room never
\* holds more players than max_players.
THEOREM SeatsNumbered == Spec => []SeatsAreNumbered
<1>1. Inv => SeatsAreNumbered
  BY DEF Inv, SeatsWithin, Numbered, Made, SeatsAreNumbered
<1>. QED
  BY <1>1, InvHolds, PTL

\* Cookies stay true until their room is lost.
THEOREM CookiesHoldProved == Spec => []CookiesHold
<1>1. Inv => CookiesHold
  BY DEF Inv
<1>. QED
  BY <1>1, InvHolds, PTL

\* Counts that sum to m, of which the positive ones sum to no more than m, are
\* none of them negative.
LEMMA NoneNegative ==
    ASSUME NEW c \in Counts, NEW m \in Int, Sum(c) = m, RolesDealt(c) <= m
    PROVE  /\ RolesDealt(c) = m
           /\ c.werewolf >= 0 /\ c.villager >= 0 /\ c.seer >= 0 /\ c.guard >= 0
<1>1. /\ c.werewolf \in Int /\ c.villager \in Int
      /\ c.seer \in Int /\ c.guard \in Int
  BY DEF Counts
<1>. QED
  BY <1>1 DEF Sum, RolesDealt, Dealt

\* The two checks fit: a game starts with everybody it was asked for.
THEOREM StartsProved == Spec => []StartsAsAsked
<1>1. Inv => StartsAsAsked
  <2>. SUFFICES ASSUME Inv, NEW r \in Rooms, room[r].state = "STARTED",
                       room[r].config = room[r].asked
                PROVE  /\ Cardinality(Seated(r)) = room[r].max
                       /\ room[r].config.werewolf >= 1
                       /\ room[r].config.villager >= 1
                       /\ room[r].config.seer >= 0
                       /\ room[r].config.guard >= 0
    BY DEF StartsAsAsked
  <2>1. room[r].config \in Counts /\ room[r].max \in Int /\ Made(r)
    BY DEF Inv, TypeOK, Room, Made
  <2>2. /\ Sum(room[r].config) = room[r].max
        /\ room[r].config.werewolf >= 1 /\ room[r].config.villager >= 1
    BY <2>1 DEF Inv, AskedWithin
  <2>3. /\ RolesDealt(room[r].config) = Cardinality(Seated(r))
        /\ Cardinality(Seated(r)) <= room[r].max
    BY <2>1 DEF Inv, DealtToAll, SeatsWithin
  <2>. QED
    BY <2>1, <2>2, <2>3, NoneNegative
<1>. QED
  BY <1>1, InvHolds, PTL

\* Whichever call had found the room before, it is closed once the game runs.
THEOREM ClosedProved == Spec => ClosedOnceStarted
<1>. DEFINE Closed == \A r \in Rooms : room[r].state = "STARTED" =>
                          /\ seat'[r] = seat[r]
                          /\ \A p \in Players :
                                join[p].pc = "found" /\ join[p].room = r =>
                                    join'[p].pc # "seated"
<1>1. Inv /\ [Next]_vars => [Closed]_vars
  <2>. SUFFICES ASSUME Inv, Next, NEW r \in Rooms, room[r].state = "STARTED"
                PROVE  /\ seat'[r] = seat[r]
                       /\ \A p \in Players :
                             join[p].pc = "found" /\ join[p].room = r =>
                                 join'[p].pc # "seated"
    OBVIOUS
  <2>1. TypeOK
    BY DEF Inv
  <2>2. ASSUME NEW q \in Players, JoinRoom(q)
        PROVE  /\ seat'[r] = seat[r]
               /\ \A p \in Players :
                     join[p].pc = "found" /\ join[p].room = r =>
                         join'[p].pc # "seated"
    <3>1. CASE seat' = seat /\ Answered(q, Gone)
      BY <2>1, <3>1 DEF Answered, Gone, TypeOK
    <3>2. CASE /\ TakesPlayers(join[q].room)
               /\ seat' = [seat EXCEPT ![join[q].room][q] =
                              Cardinality(Seated(join[q].room)) + 1]
               /\ \E answer : Answered(q, answer)
      <4>1. join[q].room # r
        BY <3>2 DEF TakesPlayers
      <4>. QED
        BY <2>1, <3>2, <4>1 DEF Answered, TypeOK
    <3>. QED
      BY <2>2, <3>1, <3>2 DEF JoinRoom, SetCookies
  <2>3. ASSUME NEW q \in Players, FindRoom(q) \/ LeaveRoom(q)
        PROVE  /\ seat'[r] = seat[r]
               /\ \A p \in Players :
                     join[p].pc = "found" /\ join[p].room = r =>
                         join'[p].pc # "seated"
    BY <2>1, <2>3 DEF FindRoom, LeaveRoom, Answered, Gone, TypeOK
  <2>4. ASSUME \/ \E x \in Rooms : CreateRoom(x) \/ StartGame(x)
               \/ \E id \in RoomIds : FindToStart(id)
        PROVE  seat' = seat /\ join' = join
    BY <2>4 DEF CreateRoom, StartGame, FindToStart
  <2>5. ASSUME Restart
        PROVE  /\ seat' = seat
               /\ \A p \in Players : join[p].pc = "found" => join'[p].pc # "seated"
    BY <2>5 DEF Restart, Gone
  <2>. QED
    BY <2>2, <2>3, <2>4, <2>5 DEF Next
<1>. QED
  BY <1>1, InvHolds, PTL DEF Spec, ClosedOnceStarted
=============================================================================
