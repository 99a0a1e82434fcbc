-------------------------- MODULE WSHandlerProofs --------------------------
(* The gateway's websockets use the event streams as EventStream says, its *)
(* map of clients holds open connections only, and what a browser hears is *)
(* what EventFeed promises.                                                *)
EXTENDS WSHandler, TLAPS

(***************************************************************************)
(* The server's subscriptions: broadcastEvent never sends on a closed      *)
(* channel.                                                                *)
(***************************************************************************)

StreamType ==
    /\ subscribers \in [Players -> Conns \cup {Nothing}]
    /\ handler \in [Conns -> {"none", "called", "serving", "leaving", "done"}]
    /\ eventChan \in [Conns -> Seq(Nat)]
    /\ wire \in [Conns -> Seq(Nat)]
    /\ lost \in SUBSET Conns
    /\ issued \in Nat

StreamInv == StreamType /\ SubscribedIsServed

\* What comes out of a queue, goes into it or is left of it has the queue's type.
LEMMA QueueType ==
    ASSUME NEW q \in Seq(Nat)
    PROVE  /\ q # <<>> => Tail(q) \in Seq(Nat) /\ Head(q) \in Nat
           /\ \A e \in Nat : Append(q, e) \in Seq(Nat)
           /\ \A n \in 0 .. Len(q) : SubSeq(q, 1, n) \in Seq(Nat)
  OBVIOUS

LEMMA StreamTypeNext == StreamType /\ [StreamNext]_streamVars => StreamType'
  <1> SUFFICES ASSUME StreamType, [StreamNext]_streamVars
               PROVE  StreamType'
    OBVIOUS
  <1> USE PlayerOfAssumption, QueueType DEF StreamType
  <1>1. CASE Broadcast
    BY <1>1 DEF Broadcast
  <1>2. ASSUME NEW c \in Conns, Call(c) \/ NotFound(c) \/ Register(c) \/ CleanUp(c)
        PROVE  StreamType'
    <2>1. CASE Call(c) \/ NotFound(c)
      BY <2>1 DEF Call, NotFound
    <2>2. CASE Register(c)
      BY <2>2 DEF Register
    <2>3. CASE CleanUp(c)
      BY <2>3 DEF CleanUp, Deregister
    <2> QED
      BY <1>2, <2>1, <2>2, <2>3
  <1>3. ASSUME NEW c \in Conns, Forward(c)
        PROVE  StreamType'
    BY <1>3 DEF Forward
  <1>4. ASSUME NEW c \in Conns, Return(c)
        PROVE  StreamType'
    <2>1. eventChan' \in [Conns -> Seq(Nat)]
      <3>1. CASE UNCHANGED eventChan
        BY <3>1
      <3>2. CASE eventChan[c] # <<>> /\ eventChan' = [eventChan EXCEPT ![c] = Tail(@)]
        <4>1. eventChan[c] \in Seq(Nat) /\ Tail(eventChan[c]) \in Seq(Nat)
          BY <3>2
        <4> QED
          BY <3>2, <4>1
      <3> QED
        BY <1>4, <3>1, <3>2 DEF Return
    <2> QED
      BY <1>4, <2>1 DEF Return
  <1>5. ASSUME NEW c \in Conns, Break(c)
        PROVE  StreamType'
    BY <1>5 DEF Break
  <1>6. ASSUME NEW c \in Conns, Receive(c)
        PROVE  StreamType'
    BY <1>6 DEF Receive
  <1>7. CASE UNCHANGED streamVars
    BY <1>7 DEF streamVars
  <1> QED
    BY <1>1, <1>2, <1>3, <1>4, <1>5, <1>6, <1>7 DEF StreamNext, ServerStep

LEMMA SubscribedNext == StreamInv /\ [StreamNext]_streamVars => SubscribedIsServed'
  <1> SUFFICES ASSUME StreamInv, [StreamNext]_streamVars
               PROVE  SubscribedIsServed'
    OBVIOUS
  <1> USE PlayerOfAssumption, NothingAssumption DEF StreamInv, StreamType, SubscribedIsServed
  <1>1. CASE Broadcast
    BY <1>1 DEF Broadcast
  <1>2. ASSUME NEW c \in Conns, Call(c) \/ NotFound(c)
        PROVE  SubscribedIsServed'
    <2>1. UNCHANGED subscribers
          /\ handler[c] \in {"none", "called"}
          /\ handler' \in [Conns -> {"none", "called", "serving", "leaving", "done"}]
          /\ \A d \in Conns : d # c => handler'[d] = handler[d]
      BY <1>2 DEF Call, NotFound
    <2>2. \A p \in Players : subscribers[p] # Nothing =>
              subscribers[p] \in Conns /\ subscribers[p] # c
      <3>1. handler[c] \notin {"serving", "leaving"}
        BY <2>1
      <3> QED
        BY <3>1
    <2>3. \A p \in Players : subscribers[p] # Nothing =>
              handler'[subscribers[p]] = handler[subscribers[p]]
      BY <2>1, <2>2
    <2> QED
      BY <2>1, <2>3
  <1>3. ASSUME NEW c \in Conns, Register(c)
        PROVE  SubscribedIsServed'
    BY <1>3 DEF Register
  <1>4. ASSUME NEW c \in Conns, Forward(c) \/ Return(c) \/ Break(c) \/ Receive(c)
        PROVE  SubscribedIsServed'
    <2>1. UNCHANGED subscribers
      BY <1>4 DEF Forward, Return, Break, Receive
    <2>2. \A d \in Conns : handler[d] \in {"serving", "leaving"} =>
              handler'[d] \in {"serving", "leaving"}
      <3>1. CASE UNCHANGED handler
        BY <3>1
      <3>2. CASE Return(c)
        BY <3>2 DEF Return
      <3> QED
        BY <1>4, <3>1, <3>2 DEF Forward, Break, Receive
    <2> QED
      BY <2>1, <2>2
  <1>5. ASSUME NEW c \in Conns, CleanUp(c)
        PROVE  SubscribedIsServed'
    BY <1>5 DEF CleanUp, Deregister
  <1>6. CASE UNCHANGED streamVars
    BY <1>6 DEF streamVars
  <1> QED
    BY <1>1, <1>2, <1>3, <1>4, <1>5, <1>6 DEF StreamNext, ServerStep

LEMMA StreamInvariant == StreamSpec => []StreamInv
  <1>1. StreamInit => StreamInv
    BY DEF StreamInit, StreamInv, StreamType, SubscribedIsServed
  <1>2. StreamInv /\ [StreamNext]_streamVars => StreamInv'
    BY StreamTypeNext, SubscribedNext DEF StreamInv
  <1> QED
    BY <1>1, <1>2, PTL DEF StreamSpec

\* The channel registered for a player is never one that was closed, though each
\* clean-up deletes whatever entry its player has.
THEOREM SubscribedCorrect == StreamSpec => []SubscribedIsServed
  <1>1. StreamInv => SubscribedIsServed
    BY DEF StreamInv
  <1> QED
    BY <1>1, StreamInvariant, PTL

(***************************************************************************)
(* The composition implements its component.                               *)
(***************************************************************************)

LEMMA StreamStep == [Next]_vars => [StreamNext]_streamVars
  <1> SUFFICES ASSUME [Next]_vars
               PROVE  [StreamNext]_streamVars
    OBVIOUS
  <1>1. CASE Server
    BY <1>1 DEF Server, StreamNext
  <1>2. ASSUME NEW c \in Conns,
               Connect(c) \/ ReadPing(c) \/ Answer(c) \/ ReadFails(c) \/ Leave(c) \/ WriterStep(c)
        PROVE  UNCHANGED streamVars
    BY <1>2 DEF Connect, ReadPing, Answer, ReadFails, Leave, WriterStep, Write, WriteClose, PingFails
  <1>3. ASSUME NEW c \in Conns, Feed(c)
        PROVE  Call(c) \/ Receive(c) \/ UNCHANGED streamVars
    BY <1>3 DEF Feed, Subscribe, TakeEvent, FeedFails, SendEvent
  <1>4. CASE UNCHANGED vars
    BY <1>4 DEF vars
  <1> QED
    BY <1>1, <1>2, <1>3, <1>4 DEF Next, StreamNext

\* The gateway opens and reads its event streams as any client of the game server:
\* what is proved of EventStream holds of the two together.
THEOREM Composition == Spec => StreamSpec
  <1>1. Init => StreamInit
    BY DEF Init
  <1> QED
    BY <1>1, StreamStep, PTL DEF Spec, StreamSpec

THEOREM SubscribedInGateway == Spec => []SubscribedIsServed
  BY Composition, SubscribedCorrect, PTL

(***************************************************************************)
(* Types.                                                                  *)
(***************************************************************************)

GateType ==
    /\ clients \in [Players -> Conns \cup {Nothing}]
    /\ send \in [Conns -> Seq(Nat)]
    /\ closed \in SUBSET Conns
    /\ socket \in [Conns -> {"none", "open", "closed"}]
    /\ reader \in [Conns -> {"none", "reading", "answering", "leaving", "done"}]
    /\ writer \in [Conns -> {"none", "running", "done"}]
    /\ feeder \in [Conns -> {"none", "starting", "receiving", "sending", "done"}]
    /\ held \in [Conns -> Seq(Nat)]
    /\ crashed \in BOOLEAN
    /\ heard \in [Conns -> Seq(Nat)]

\* The feeder has an event in its hand while it sends one.
HeldWhileSending == \A c \in Conns : feeder[c] = "sending" => Len(held[c]) = 1

LEMMA GateTypeNext ==
    ASSUME StreamType, GateType, HeldWhileSending, [Next]_vars
    PROVE  GateType' /\ HeldWhileSending'
  <1> USE PlayerOfAssumption DEF GateType
  <1>1. ASSUME NEW c \in Conns, Connect(c)
        PROVE  GateType' /\ HeldWhileSending'
    <2>1. <<issued>> \in Seq(Nat)
      BY DEF StreamType
    <2>2. heard' \in [Conns -> Seq(Nat)]
      BY <1>1, <2>1 DEF Connect
    <2>3. clients' \in [Players -> Conns \cup {Nothing}]
      BY <1>1 DEF Connect
    <2> QED
      BY <1>1, <2>2, <2>3 DEF Connect, HeldWhileSending
  <1>2. ASSUME NEW c \in Conns, Subscribe(c) \/ FeedFails(c)
        PROVE  GateType' /\ HeldWhileSending'
    BY <1>2 DEF Subscribe, FeedFails, HeldWhileSending
  <1>3. ASSUME NEW c \in Conns, TakeEvent(c)
        PROVE  GateType' /\ HeldWhileSending'
    <2>1. Head(wire[c]) \in Nat
      BY <1>3, QueueType DEF TakeEvent, Receive, StreamType
    <2>2. <<Head(wire[c])>> \in Seq(Nat) /\ Len(<<Head(wire[c])>>) = 1
      BY <2>1
    <2> QED
      BY <1>3, <2>2 DEF TakeEvent, HeldWhileSending
  <1>4. ASSUME NEW c \in Conns, SendEvent(c)
        PROVE  GateType' /\ HeldWhileSending'
    <2>1. held[c][1] \in Nat
      BY <1>4 DEF SendEvent, HeldWhileSending
    <2>2. Append(send[c], held[c][1]) \in Seq(Nat) /\ <<>> \in Seq(Nat)
      BY <2>1
    <2>3. CASE c \in closed
      BY <1>4, <2>3 DEF SendEvent, Send, HeldWhileSending
    <2>4. CASE c \notin closed
      <3>1. /\ send' = [send EXCEPT ![c] = Append(send[c], held[c][1])]
            /\ held' = [held EXCEPT ![c] = <<>>]
            /\ feeder' = [feeder EXCEPT ![c] = "receiving"]
            /\ UNCHANGED <<clients, closed, socket, reader, writer, crashed, heard>>
        BY <1>4, <2>4 DEF SendEvent, Send
      <3>2. send' \in [Conns -> Seq(Nat)] /\ held' \in [Conns -> Seq(Nat)]
        BY <2>2, <3>1
      <3>3. GateType'
        BY <3>1, <3>2
      <3>4. HeldWhileSending'
        BY <3>1 DEF HeldWhileSending
      <3> QED
        BY <3>3, <3>4
    <2> QED
      BY <2>3, <2>4
  <1>5. ASSUME NEW c \in Conns, Answer(c)
        PROVE  GateType' /\ HeldWhileSending'
    <2>1. Append(send[c], Pong) \in Seq(Nat)
      BY DEF Pong
    <2> QED
      BY <1>5, <2>1 DEF Answer, Send, HeldWhileSending
  <1>6. ASSUME NEW c \in Conns, ReadPing(c) \/ ReadFails(c)
        PROVE  GateType' /\ HeldWhileSending'
    BY <1>6 DEF ReadPing, ReadFails, HeldWhileSending
  <1>7. ASSUME NEW c \in Conns, Leave(c)
        PROVE  GateType' /\ HeldWhileSending'
    BY <1>7 DEF Leave, RemoveClient, HeldWhileSending
  <1>8. ASSUME NEW c \in Conns, Write(c)
        PROVE  GateType' /\ HeldWhileSending'
    <2>1. Tail(send[c]) \in Seq(Nat) /\ Append(heard[c], Head(send[c])) \in Seq(Nat)
      BY <1>8, QueueType DEF Write
    <2>2. send' \in [Conns -> Seq(Nat)]
      BY <1>8, <2>1 DEF Write
    <2>3. heard' \in [Conns -> Seq(Nat)]
      BY <1>8, <2>1 DEF Write
    <2>4. writer' \in [Conns -> {"none", "running", "done"}]
          /\ socket' \in [Conns -> {"none", "open", "closed"}]
      BY <1>8 DEF Write, StopWriter
    <2> QED
      BY <1>8, <2>2, <2>3, <2>4 DEF Write, HeldWhileSending
  <1>9. ASSUME NEW c \in Conns, WriteClose(c) \/ PingFails(c)
        PROVE  GateType' /\ HeldWhileSending'
    BY <1>9 DEF WriteClose, PingFails, StopWriter, HeldWhileSending
  <1>10. CASE UNCHANGED gateVars
    BY <1>10 DEF gateVars, HeldWhileSending
  <1>11. ASSUME NEW c \in Conns, Feed(c) \/ WriterStep(c)
         PROVE  GateType' /\ HeldWhileSending'
    BY <1>2, <1>3, <1>4, <1>8, <1>9, <1>11 DEF Feed, WriterStep
  <1>12. CASE UNCHANGED vars
    BY <1>10, <1>12 DEF vars
  <1>13. CASE Next
    BY <1>1, <1>5, <1>6, <1>7, <1>10, <1>11, <1>13 DEF Next
  <1> QED
    BY <1>12, <1>13

LEMMA TypeInit == Init => GateType /\ HeldWhileSending
  <1> <<>> \in Seq(Nat)
    OBVIOUS
  <1> SUFFICES ASSUME Init
               PROVE  GateType /\ HeldWhileSending
    OBVIOUS
  <1>1. send \in [Conns -> Seq(Nat)] /\ held \in [Conns -> Seq(Nat)] /\ heard \in [Conns -> Seq(Nat)]
    BY DEF Init
  <1>2. GateType
    BY <1>1 DEF Init, GateType
  <1>3. HeldWhileSending
    BY DEF Init, HeldWhileSending
  <1> QED
    BY <1>2, <1>3

Typed == StreamInv /\ GateType /\ HeldWhileSending

LEMMA TypedInvariant == Spec => []Typed
  <1>1. StreamInv /\ GateType /\ HeldWhileSending /\ [Next]_vars => GateType' /\ HeldWhileSending'
    BY GateTypeNext DEF StreamInv
  <1>2. StreamInv /\ GateType /\ HeldWhileSending <=> Typed
    BY DEF Typed
  <1> QED
    BY <1>1, <1>2, TypeInit, Composition, StreamInvariant, PTL DEF Spec

\* Types, for any number of players, connections and events, and any capacities.
THEOREM GatewayTypes == Spec => []TypeOK
  <1>1. Typed => TypeOK
    BY DEF Typed, StreamInv, StreamType, GateType, TypeOK
  <1> QED
    BY <1>1, TypedInvariant, PTL

(***************************************************************************)
(* The map of clients.                                                     *)
(***************************************************************************)

\* A connection that has not come yet is nowhere.
Fresh ==
    \A c \in Conns : socket[c] = "none" =>
        /\ c \notin closed
        /\ reader[c] = "none"
        /\ \A p \in Players : clients[p] # c

ClientsInv == RegisteredIsOpen /\ GoneIsForgotten /\ CutOffInPlace /\ Fresh

LEMMA ClientsNext ==
    ASSUME GateType, ClientsInv, [Next]_vars
    PROVE  ClientsInv'
  <1> USE PlayerOfAssumption, NothingAssumption
      DEF GateType, ClientsInv, RegisteredIsOpen, GoneIsForgotten, CutOffInPlace, Fresh
  <1>1. ASSUME NEW c \in Conns, Connect(c)
        PROVE  ClientsInv'
    <2> USE <1>1 DEF Connect
    <2>1. RegisteredIsOpen'
      OBVIOUS
    <2>2. GoneIsForgotten'
      OBVIOUS
    <2>3. CutOffInPlace'
      OBVIOUS
    <2>4. Fresh'
      OBVIOUS
    <2> QED
      BY <2>1, <2>2, <2>3, <2>4
  <1>2. ASSUME NEW c \in Conns, Leave(c)
        PROVE  ClientsInv'
    <2> USE <1>2 DEF Leave, RemoveClient
    <2>1. RegisteredIsOpen'
      OBVIOUS
    <2>2. GoneIsForgotten'
      OBVIOUS
    <2>3. CutOffInPlace'
      \* a witness stays one: it is not registered, so nobody closes it any more;
      \* the connection that leaves is one, or else its own witness serves
      <3> SUFFICES ASSUME NEW k \in closed', reader'[k] # "done"
                   PROVE  \E d \in Conns \ closed' :
                             PlayerOf[d] = PlayerOf[k] /\ reader'[d] = "done"
        OBVIOUS
      <3>1. k # c /\ reader[k] # "done"
        OBVIOUS
      <3>2. ASSUME NEW d \in Conns \ closed, PlayerOf[d] = PlayerOf[k], reader[d] = "done"
            PROVE  d \notin closed' /\ reader'[d] = "done"
        BY <3>2
      <3>3. CASE k \in closed
        <4>1. PICK d \in Conns \ closed : PlayerOf[d] = PlayerOf[k] /\ reader[d] = "done"
          BY <3>1, <3>3
        <4> QED
          BY <3>2, <4>1
      <3>4. CASE k \notin closed
        <4>1. k = clients[PlayerOf[c]] /\ PlayerOf[k] = PlayerOf[c]
          BY <3>4
        <4>2. CASE c \in closed
          <5>1. PICK d \in Conns \ closed : PlayerOf[d] = PlayerOf[c] /\ reader[d] = "done"
            BY <4>2
          <5> QED
            BY <3>2, <4>1, <5>1
        <4>3. CASE c \notin closed
          BY <3>1, <4>1, <4>3
        <4> QED
          BY <4>2, <4>3
      <3> QED
        BY <3>3, <3>4
    <2>4. Fresh'
      OBVIOUS
    <2> QED
      BY <2>1, <2>2, <2>3, <2>4
  <1>3. ASSUME NEW c \in Conns, ReadPing(c) \/ Answer(c) \/ ReadFails(c)
        PROVE  ClientsInv'
    <2>1. /\ UNCHANGED <<clients, closed, socket>>
          /\ reader[c] \notin {"none", "done"}
          /\ reader'[c] \notin {"none", "done"}
          /\ \A d \in Conns : d # c => reader'[d] = reader[d]
      BY <1>3 DEF ReadPing, Answer, ReadFails, Send
    <2>2. \A d \in Conns : /\ reader'[d] = "done" => reader[d] = "done"
                          /\ reader[d] \in {"none", "done"} => reader'[d] = reader[d]
      BY <2>1
    <2>3. RegisteredIsOpen'
      BY <2>1
    <2>4. CutOffInPlace'
      <3> SUFFICES ASSUME NEW k \in closed', reader'[k] # "done"
                   PROVE  \E d \in Conns \ closed' :
                             PlayerOf[d] = PlayerOf[k] /\ reader'[d] = "done"
        OBVIOUS
      <3>1. k \in closed /\ reader[k] # "done"
        BY <2>1, <2>2
      <3>2. PICK d \in Conns \ closed : PlayerOf[d] = PlayerOf[k] /\ reader[d] = "done"
        BY <3>1
      <3>3. reader'[d] = "done" /\ d \notin closed'
        BY <2>1, <2>2, <3>2
      <3> QED
        BY <3>2, <3>3
    <2>5. Fresh'
      BY <2>1, <2>2
    <2>6. GoneIsForgotten'
      BY <2>1, <2>2
    <2> QED
      BY <2>3, <2>4, <2>5, <2>6
  <1>4. ASSUME NEW c \in Conns, WriterStep(c)
        PROVE  ClientsInv'
    <2>1. /\ UNCHANGED <<clients, closed, reader>>
          /\ \A d \in Conns : socket'[d] = "none" => socket[d] = "none"
      BY <1>4 DEF WriterStep, Write, WriteClose, PingFails, StopWriter
    <2> QED
      BY <2>1
  <1>5. CASE UNCHANGED <<clients, closed, socket, reader>>
    BY <1>5
  <1>6. ASSUME NEW c \in Conns, Feed(c)
        PROVE  UNCHANGED <<clients, closed, socket, reader>>
    BY <1>6 DEF Feed, Subscribe, TakeEvent, FeedFails, SendEvent, Send
  <1> QED
    BY <1>1, <1>2, <1>3, <1>4, <1>5, <1>6 DEF Next, vars, gateVars

LEMMA ClientsInvariant == Spec => []ClientsInv
  <1>1. Init => ClientsInv
    BY NothingAssumption
       DEF Init, ClientsInv, RegisteredIsOpen, GoneIsForgotten, CutOffInPlace, Fresh
  <1>2. Typed /\ ClientsInv /\ [Next]_vars => ClientsInv'
    BY ClientsNext DEF Typed
  <1> QED
    BY <1>1, <1>2, TypedInvariant, PTL DEF Spec

\* removeClient, which closes whatever its player has registered, never closes a
\* channel twice.
THEOREM RegisteredCorrect == Spec => []RegisteredIsOpen
  <1>1. ClientsInv => RegisteredIsOpen
    BY DEF ClientsInv
  <1> QED
    BY <1>1, ClientsInvariant, PTL

\* For any number of players and connections: a connection is cut off by its own
\* end, or in the place of one of the same player that ended and stays open.
THEOREM CutOffCorrect == Spec => []CutOffInPlace
  <1>1. ClientsInv => CutOffInPlace
    BY DEF ClientsInv
  <1> QED
    BY <1>1, ClientsInvariant, PTL

\* No connection whose reader ended stays registered.
THEOREM ForgottenCorrect == Spec => []GoneIsForgotten
  <1>1. ClientsInv => GoneIsForgotten
    BY DEF ClientsInv
  <1> QED
    BY <1>1, ClientsInvariant, PTL

(***************************************************************************)
(* Order.  An event passes the channel, the stream, the feeder's hand and  *)
(* `send`, in this direction, and is heard.  Between any two of these      *)
(* places there is a number that parts the events on either side.          *)
(***************************************************************************)

\* The events in q (what is not a Pong) rise, above lo and up to hi.
Rises(q, lo, hi) ==
    /\ lo <= hi
    /\ \A i \in 1 .. Len(q) : q[i] # Pong =>
          /\ lo < q[i] /\ q[i] <= hi
          /\ \A j \in 1 .. Len(q) : i < j /\ q[j] # Pong => q[i] < q[j]

LEMMA RisesWider ==
    ASSUME NEW q \in Seq(Nat), NEW lo \in Nat, NEW hi \in Nat, Rises(q, lo, hi),
           NEW l \in Nat, NEW h \in Nat, l <= lo, hi <= h
    PROVE  Rises(q, l, h)
  <1>1. \A i \in 1 .. Len(q) : q[i] \in Nat
    OBVIOUS
  <1> QED
    BY <1>1 DEF Rises, Pong

LEMMA RisesEmpty ==
    ASSUME NEW lo \in Nat, NEW hi \in Nat, lo <= hi
    PROVE  Rises(<<>>, lo, hi)
  BY DEF Rises

LEMMA RisesAppend ==
    ASSUME NEW q \in Seq(Nat), NEW lo \in Nat, NEW hi \in Nat, Rises(q, lo, hi),
           NEW e \in Nat, NEW h \in Nat, hi <= h, e # Pong => hi < e /\ e <= h
    PROVE  Rises(Append(q, e), lo, h)
  <1> DEFINE r == Append(q, e)
  <1>1. /\ Len(r) = Len(q) + 1 /\ r[Len(q) + 1] = e
        /\ \A i \in 1 .. Len(q) : r[i] = q[i] /\ q[i] \in Nat
        /\ Len(q) \in Nat
    OBVIOUS
  <1> HIDE DEF r
  <1>2. \A i \in 1 .. Len(r) : i \in 1 .. Len(q) \/ i = Len(q) + 1
    BY <1>1
  <1>3. lo <= h
    BY DEF Rises
  <1>4. ASSUME NEW i \in 1 .. Len(r), r[i] # Pong
        PROVE  lo < r[i] /\ r[i] <= h
    BY <1>1, <1>2, <1>4 DEF Rises
  <1>5. ASSUME NEW i \in 1 .. Len(r), NEW j \in 1 .. Len(r), r[i] # Pong, r[j] # Pong, i < j
        PROVE  r[i] < r[j]
    <2>1. i \in 1 .. Len(q)
      BY <1>1, <1>2, <1>5
    <2>2. CASE j \in 1 .. Len(q)
      BY <1>1, <1>5, <2>1, <2>2 DEF Rises
    <2>3. CASE j = Len(q) + 1
      <3>1. q[i] <= hi /\ r[i] = q[i] /\ r[j] = e /\ q[i] \in Nat
        BY <1>1, <1>5, <2>1, <2>3 DEF Rises
      <3> QED
        BY <1>5, <3>1
    <2> QED
      BY <1>2, <2>2, <2>3
  <1> QED
    BY <1>3, <1>4, <1>5 DEF Rises, r

\* Taking the head of a queue: it lies between lo and what is left.
LEMMA RisesTail ==
    ASSUME NEW q \in Seq(Nat), NEW lo \in Nat, NEW hi \in Nat, Rises(q, lo, hi), q # <<>>
    PROVE  \E m \in Nat : /\ lo <= m /\ Rises(Tail(q), m, hi)
                          /\ Head(q) # Pong => m = Head(q) /\ lo < m
                          /\ m <= hi
  <1> DEFINE r == Tail(q)
  <1>1. /\ Head(q) = q[1] /\ Head(q) \in Nat /\ Len(q) \in Nat /\ Len(q) >= 1
        /\ Len(r) = Len(q) - 1 /\ \A i \in 1 .. Len(r) : r[i] = q[i + 1] /\ q[i + 1] \in Nat
    OBVIOUS
  <1> HIDE DEF r
  <1>2. \A i \in 1 .. Len(r) : i + 1 \in 1 .. Len(q)
    BY <1>1
  <1>3. lo <= hi
    BY DEF Rises
  <1>4. ASSUME NEW i \in 1 .. Len(r), r[i] # Pong
        PROVE  /\ lo < r[i] /\ r[i] <= hi
               /\ Head(q) # Pong => Head(q) < r[i]
               /\ \A j \in 1 .. Len(r) : i < j /\ r[j] # Pong => r[i] < r[j]
    <2>1. r[i] = q[i + 1] /\ i + 1 \in 1 .. Len(q) /\ 1 \in 1 .. Len(q) /\ 1 < i + 1
      BY <1>1, <1>2
    <2>2. lo < r[i] /\ r[i] <= hi /\ (Head(q) # Pong => Head(q) < r[i])
      BY <1>1, <1>4, <2>1 DEF Rises
    <2>3. \A j \in 1 .. Len(r) : i < j /\ r[j] # Pong => r[i] < r[j]
      <3> TAKE j \in 1 .. Len(r)
      <3>1. r[j] = q[j + 1] /\ j + 1 \in 1 .. Len(q) /\ (i < j => i + 1 < j + 1)
        BY <1>1, <1>2
      <3> QED
        BY <1>4, <2>1, <3>1 DEF Rises
    <2> QED
      BY <2>2, <2>3
  <1>5. CASE Head(q) = Pong
    <2>1. Rises(r, lo, hi)
      BY <1>3, <1>4 DEF Rises
    <2> QED
      BY <1>3, <1>5, <2>1 DEF r
  <1>6. CASE Head(q) # Pong
    <2>1. lo < Head(q) /\ Head(q) <= hi
      BY <1>1, <1>6 DEF Rises
    <2>2. Rises(r, Head(q), hi)
      BY <1>4, <1>6, <2>1 DEF Rises
    <2> QED
      BY <1>1, <1>6, <2>1, <2>2 DEF r
  <1> QED
    BY <1>5, <1>6

LEMMA RisesPrefix ==
    ASSUME NEW q \in Seq(Nat), NEW lo \in Nat, NEW hi \in Nat, Rises(q, lo, hi),
           NEW n \in 0 .. Len(q)
    PROVE  Rises(SubSeq(q, 1, n), lo, hi)
  <1> DEFINE r == SubSeq(q, 1, n)
  <1>1. Len(r) = n /\ Len(q) \in Nat /\ \A i \in 1 .. n : r[i] = q[i] /\ i \in 1 .. Len(q)
    OBVIOUS
  <1> HIDE DEF r
  <1> QED
    BY <1>1 DEF Rises, r

LastHeard(c) == heard[c][Len(heard[c])]

\* The three numbers that part the four places of a connection's events.
Flow(c) ==
    \E a \in Nat, b \in Nat, d \in Nat :
        /\ Rises(send[c], LastHeard(c), a)
        /\ Rises(held[c], a, b)
        /\ Rises(wire[c], b, d)
        /\ Rises(eventChan[c], d, issued)

\* Nothing is under way for a connection that has not come.
Absent(c) ==
    /\ heard[c] = <<>> /\ send[c] = <<>> /\ held[c] = <<>>
    /\ wire[c] = <<>> /\ eventChan[c] = <<>>
    /\ handler[c] = "none" /\ reader[c] = "none" /\ writer[c] = "none"
    /\ feeder[c] = "none"

InOrder(c) == IF socket[c] = "none" THEN Absent(c) ELSE heard[c] # <<>> /\ Flow(c)

OrderInv == \A c \in Conns : InOrder(c)

\* A step leaves the order of the connections it does not touch.
LEMMA Untouched ==
    ASSUME NEW c \in Conns, InOrder(c), UNCHANGED issued,
           UNCHANGED <<socket[c], heard[c], send[c], held[c], wire[c], eventChan[c]>>,
           UNCHANGED <<handler[c], reader[c], writer[c], feeder[c]>>
    PROVE  InOrder(c)'
  BY DEF InOrder, Absent, Flow, LastHeard

LEMMA LastHeardType ==
    ASSUME Typed, NEW c \in Conns, heard[c] # <<>>
    PROVE  LastHeard(c) \in Nat
  <1>1. heard[c] \in Seq(Nat)
    BY DEF Typed, GateType
  <1>2. Len(heard[c]) \in 1 .. Len(heard[c])
    BY <1>1
  <1> QED
    BY <1>1, <1>2 DEF LastHeard

LEMMA OrderBroadcast ==
    ASSUME Typed, OrderInv, Broadcast, UNCHANGED gateVars
    PROVE  OrderInv'
  <1> USE DEF Broadcast, gateVars, Typed, StreamInv, StreamType
  <1> SUFFICES ASSUME NEW c \in Conns
               PROVE  InOrder(c)'
    BY DEF OrderInv
  <1>1. InOrder(c)
    BY DEF OrderInv
  <1>2. CASE socket[c] = "none"
    <2>1. handler[c] = "none"
      BY <1>1, <1>2 DEF InOrder, Absent
    <2>2. subscribers[PlayerOf[c]] # c
      BY <2>1, PlayerOfAssumption, NothingAssumption DEF SubscribedIsServed
    <2>3. eventChan'[c] = eventChan[c]
      BY <2>2
    <2> QED
      BY <1>1, <1>2, <2>3 DEF InOrder, Absent
  <1>3. CASE socket[c] # "none"
    <2>1. PICK a \in Nat, b \in Nat, d \in Nat :
              /\ Rises(send[c], LastHeard(c), a)
              /\ Rises(held[c], a, b)
              /\ Rises(wire[c], b, d)
              /\ Rises(eventChan[c], d, issued)
      BY <1>1, <1>3 DEF InOrder, Flow
    <2>2. eventChan[c] \in Seq(Nat) /\ issued + 1 \in Nat /\ issued + 1 # Pong /\ issued < issued + 1
      BY DEF Pong
    <2>3. Rises(eventChan[c], d, issued + 1)
      BY <2>1, <2>2, RisesWider
    <2>4. Rises(Append(eventChan[c], issued + 1), d, issued + 1)
      BY <2>1, <2>2, RisesAppend
    <2>5. Rises(eventChan'[c], d, issued')
      BY <2>3, <2>4
    <2>6. Flow(c)'
      BY <2>1, <2>5 DEF Flow, LastHeard
    <2> QED
      BY <1>1, <1>3, <2>6 DEF InOrder
  <1> QED
    BY <1>2, <1>3

LEMMA OrderConnect ==
    ASSUME Typed, OrderInv, NEW c \in Conns, Connect(c)
    PROVE  OrderInv'
  <1> USE DEF Connect, streamVars, Typed, StreamInv, StreamType, GateType
  <1>1. Absent(c)
    BY DEF OrderInv, InOrder
  <1>2. heard'[c] = <<issued>> /\ LastHeard(c)' = issued /\ heard'[c] # <<>>
    BY DEF LastHeard
  <1>3. Flow(c)'
    BY <1>1, <1>2, RisesEmpty DEF Flow, Absent
  <1>4. InOrder(c)'
    BY <1>2, <1>3 DEF InOrder
  <1>5. ASSUME NEW k \in Conns, k # c
        PROVE  InOrder(k)'
    BY <1>5, Untouched DEF OrderInv
  <1> QED
    BY <1>4, <1>5 DEF OrderInv

\* Every other step moves at most one thing of one connection, which has come.
\* What is left to show of it is where the three numbers are afterwards.
LEMMA OrderOfOne ==
    ASSUME OrderInv, NEW c \in Conns, UNCHANGED issued,
           socket[c] # "none", socket'[c] # "none", heard'[c] # <<>>, Flow(c)',
           \A k \in Conns : k # c =>
               UNCHANGED <<socket[k], heard[k], send[k], held[k], wire[k], eventChan[k],
                           handler[k], reader[k], writer[k], feeder[k]>>
    PROVE  OrderInv'
  <1>1. InOrder(c)'
    BY DEF InOrder
  <1>2. ASSUME NEW k \in Conns, k # c
        PROVE  InOrder(k)'
    BY <1>2, Untouched DEF OrderInv
  <1> QED
    BY <1>1, <1>2 DEF OrderInv

LEMMA HeadOfOne ==
    ASSUME NEW q \in Seq(Nat), Len(q) = 1
    PROVE  q # <<>> /\ q[1] = Head(q) /\ Head(q) \in Nat
  OBVIOUS

LEMMA LastOfAppend ==
    ASSUME NEW q \in Seq(Nat), NEW e \in Nat
    PROVE  Append(q, e) # <<>> /\ Append(q, e)[Len(Append(q, e))] = e
  OBVIOUS

\* A connection of which anything runs, or for which anything is under way, has come.
LEMMA HasCome ==
    ASSUME OrderInv, NEW c \in Conns, ~Absent(c)
    PROVE  socket[c] # "none" /\ heard[c] # <<>> /\ Flow(c)
  BY DEF OrderInv, InOrder

\* The steps that move no event.
LEMMA OrderStill ==
    ASSUME Typed, OrderInv, NEW c \in Conns,
           \/ (NotFound(c) \/ Register(c) \/ CleanUp(c)) /\ UNCHANGED gateVars
           \/ Subscribe(c) \/ FeedFails(c) \/ ReadPing(c) \/ ReadFails(c) \/ Leave(c)
           \/ WriteClose(c) \/ PingFails(c)
    PROVE  OrderInv'
  <1> USE DEF streamVars, gateVars, Typed, StreamInv, StreamType, GateType
  <1>1. ~Absent(c)
    BY DEF Absent, NotFound, Register, CleanUp, Subscribe, FeedFails, ReadPing, ReadFails,
           Leave, WriteClose, PingFails
  <1>2. UNCHANGED <<issued, heard, send, held, wire, eventChan>>
    BY DEF Call, NotFound, Register, CleanUp, Subscribe, FeedFails, ReadPing, ReadFails,
           Leave, WriteClose, PingFails
  <1>3. socket[c] # "none" /\ heard'[c] # <<>> /\ Flow(c)'
    BY <1>1, <1>2, HasCome DEF Flow, LastHeard
  <1>4. socket'[c] # "none"
    BY <1>3 DEF NotFound, Register, CleanUp, Subscribe, FeedFails, ReadPing, ReadFails,
           Leave, WriteClose, PingFails, StopWriter
  <1>5. ASSUME NEW k \in Conns, k # c
        PROVE  UNCHANGED <<socket[k], handler[k], reader[k], writer[k], feeder[k]>>
    <2>1. CASE (NotFound(c) \/ Register(c) \/ CleanUp(c)) /\ UNCHANGED gateVars
      BY <1>5, <2>1 DEF NotFound, Register, CleanUp
    <2>2. CASE Subscribe(c) \/ FeedFails(c)
      BY <1>5, <2>2 DEF Subscribe, FeedFails, Call
    <2>3. CASE ReadPing(c) \/ ReadFails(c) \/ Leave(c)
      BY <1>5, <2>3 DEF ReadPing, ReadFails, Leave
    <2>4. CASE WriteClose(c) \/ PingFails(c)
      BY <1>5, <2>4 DEF WriteClose, PingFails, StopWriter
    <2> QED
      BY <2>1, <2>2, <2>3, <2>4
  <1> QED
    BY <1>2, <1>3, <1>4, <1>5, OrderOfOne

\* The server's side: from the channel to the stream, or lost.
LEMMA OrderServer ==
    ASSUME Typed, OrderInv, NEW c \in Conns, Forward(c) \/ Return(c) \/ Break(c),
           UNCHANGED gateVars
    PROVE  OrderInv'
  <1> USE DEF gateVars, Typed, StreamInv, StreamType, GateType
  <1>1. ~Absent(c)
    BY DEF Absent, Forward, Return, Break
  <1>2. socket[c] # "none" /\ heard[c] # <<>> /\ Flow(c)
    BY <1>1, HasCome
  <1>3. PICK a \in Nat, b \in Nat, d \in Nat :
            /\ Rises(send[c], LastHeard(c), a)
            /\ Rises(held[c], a, b)
            /\ Rises(wire[c], b, d)
            /\ Rises(eventChan[c], d, issued)
    BY <1>2 DEF Flow
  <1>4. wire[c] \in Seq(Nat) /\ eventChan[c] \in Seq(Nat)
    OBVIOUS
  <1>5. \E e \in Nat : Rises(wire'[c], b, e) /\ Rises(eventChan'[c], e, issued)
    <2>1. CASE Forward(c)
      <3>1. eventChan[c] # <<>> /\ eventChan'[c] = Tail(eventChan[c])
            /\ wire'[c] = Append(wire[c], Head(eventChan[c]))
        BY <2>1 DEF Forward
      <3>2. PICK e \in Nat : /\ d <= e /\ Rises(Tail(eventChan[c]), e, issued)
                             /\ Head(eventChan[c]) # Pong => e = Head(eventChan[c]) /\ d < e
        BY <1>3, <1>4, <3>1, RisesTail
      <3>3. Head(eventChan[c]) \in Nat
        BY <1>4, <3>1
      <3>4. Rises(Append(wire[c], Head(eventChan[c])), b, e)
        BY <1>3, <1>4, <3>2, <3>3, RisesAppend
      <3> QED
        BY <3>1, <3>2, <3>4
    <2>2. CASE Return(c)
      <3>1. UNCHANGED wire[c]
        BY <2>2 DEF Return
      <3>2. CASE UNCHANGED eventChan[c]
        BY <1>3, <3>1, <3>2
      <3>3. CASE eventChan[c] # <<>> /\ eventChan'[c] = Tail(eventChan[c])
        <4>1. PICK e \in Nat : d <= e /\ Rises(Tail(eventChan[c]), e, issued)
          BY <1>3, <1>4, <3>3, RisesTail
        <4>2. Rises(wire[c], b, e)
          BY <1>3, <1>4, <4>1, RisesWider
        <4> QED
          BY <3>1, <3>3, <4>1, <4>2
      <3> QED
        BY <2>2, <3>2, <3>3 DEF Return
    <2>3. CASE Break(c)
      <3>1. UNCHANGED eventChan
        BY <2>3 DEF Break
      <3>2. \E n \in 0 .. Len(wire[c]) : wire'[c] = SubSeq(wire[c], 1, n)
        BY <2>3 DEF Break
      <3>3. Rises(wire'[c], b, d)
        BY <1>3, <1>4, <3>2, RisesPrefix
      <3> QED
        BY <1>3, <3>1, <3>3
    <2> QED
      BY <2>1, <2>2, <2>3
  <1>6. UNCHANGED <<issued, heard, send, held, socket>>
    BY DEF Forward, Return, Break
  <1>7. Flow(c)'
    BY <1>3, <1>5, <1>6 DEF Flow, LastHeard
  <1>8. ASSUME NEW k \in Conns, k # c
        PROVE  UNCHANGED <<wire[k], eventChan[k], handler[k]>>
    BY <1>8 DEF Forward, Return, Break
  <1> QED
    BY <1>2, <1>6, <1>7, <1>8, OrderOfOne

\* The feeder: from the stream to its hand.
LEMMA OrderTakeEvent ==
    ASSUME Typed, OrderInv, NEW c \in Conns, TakeEvent(c)
    PROVE  OrderInv'
  <1> USE DEF TakeEvent, Receive, Typed, StreamInv, StreamType, GateType
  <1>1. socket[c] # "none" /\ heard[c] # <<>> /\ Flow(c)
    BY HasCome DEF Absent
  <1>2. PICK a \in Nat, b \in Nat, d \in Nat :
            /\ Rises(send[c], LastHeard(c), a)
            /\ Rises(held[c], a, b)
            /\ Rises(wire[c], b, d)
            /\ Rises(eventChan[c], d, issued)
    BY <1>1 DEF Flow
  <1>3. wire[c] \in Seq(Nat) /\ wire[c] # <<>> /\ Head(wire[c]) \in Nat
    BY QueueType
  <1>4. PICK e \in Nat : /\ b <= e /\ Rises(Tail(wire[c]), e, d)
                         /\ Head(wire[c]) # Pong => e = Head(wire[c]) /\ b < e
    BY <1>2, <1>3, RisesTail
  <1>5. a <= b
    BY <1>2 DEF Rises
  <1>6. Rises(Append(<<>>, Head(wire[c])), a, e)
    <2>1. Rises(<<>>, a, a)
      BY RisesEmpty
    <2>2. \A q \in Seq(Nat) : Rises(q, a, a) => Rises(Append(q, Head(wire[c])), a, e)
      BY <1>3, <1>4, <1>5, RisesAppend
    <2>3. <<>> \in Seq(Nat)
      OBVIOUS
    <2> QED
      BY <2>1, <2>2, <2>3
  <1>7. held'[c] = Append(<<>>, Head(wire[c])) /\ wire'[c] = Tail(wire[c])
    OBVIOUS
  <1>8. Flow(c)'
    BY <1>2, <1>4, <1>6, <1>7 DEF Flow, LastHeard
  <1>9. ASSUME NEW k \in Conns, k # c
        PROVE  UNCHANGED <<wire[k], held[k], feeder[k]>>
    BY <1>9
  <1> QED
    BY <1>1, <1>8, <1>9, OrderOfOne

\* From its hand to the channel `send`, unless that is closed.
LEMMA OrderSendEvent ==
    ASSUME Typed, OrderInv, NEW c \in Conns, SendEvent(c)
    PROVE  OrderInv'
  <1> USE DEF SendEvent, Send, streamVars, Typed, StreamInv, StreamType, GateType
  <1>1. socket[c] # "none" /\ heard[c] # <<>> /\ Flow(c)
    BY HasCome DEF Absent
  <1>2. PICK a \in Nat, b \in Nat, d \in Nat :
            /\ Rises(send[c], LastHeard(c), a)
            /\ Rises(held[c], a, b)
            /\ Rises(wire[c], b, d)
            /\ Rises(eventChan[c], d, issued)
    BY <1>1 DEF Flow
  <1>3. Flow(c)'
    <2>1. CASE c \in closed
      BY <1>2, <2>1 DEF Flow, LastHeard
    <2>2. CASE c \notin closed
      <3>1. held[c] # <<>> /\ held[c][1] = Head(held[c]) /\ Head(held[c]) \in Nat
            /\ held[c] \in Seq(Nat) /\ send[c] \in Seq(Nat)
        <4>1. held[c] \in Seq(Nat) /\ send[c] \in Seq(Nat)
          OBVIOUS
        <4>2. Len(held[c]) = 1
          BY DEF HeldWhileSending
        <4> QED
          BY <4>1, <4>2, HeadOfOne
      <3>2. PICK e \in Nat : a <= e /\ e <= b /\ (Head(held[c]) # Pong => e = Head(held[c]) /\ a < e)
        BY <1>2, <3>1, RisesTail
      <3>3. LastHeard(c) \in Nat
        BY <1>1, LastHeardType
      <3>4. Rises(Append(send[c], Head(held[c])), LastHeard(c), e)
        BY <1>2, <3>1, <3>2, <3>3, RisesAppend
      <3>5. Rises(<<>>, e, b)
        BY <3>2, RisesEmpty
      <3>6. send'[c] = Append(send[c], Head(held[c])) /\ held'[c] = <<>>
        BY <2>2, <3>1
      <3> QED
        BY <1>2, <3>4, <3>5, <3>6 DEF Flow, LastHeard
    <2> QED
      BY <2>1, <2>2
  <1>4. ASSUME NEW k \in Conns, k # c
        PROVE  UNCHANGED <<send[k], held[k], feeder[k], reader[k]>>
    BY <1>4
  <1> QED
    BY <1>1, <1>3, <1>4, OrderOfOne

\* A Pong goes between the events.
LEMMA OrderAnswer ==
    ASSUME Typed, OrderInv, NEW c \in Conns, Answer(c)
    PROVE  OrderInv'
  <1> USE DEF Answer, Send, streamVars, Typed, StreamInv, StreamType, GateType
  <1>1. socket[c] # "none" /\ heard[c] # <<>> /\ Flow(c)
    BY HasCome DEF Absent
  <1>2. PICK a \in Nat, b \in Nat, d \in Nat :
            /\ Rises(send[c], LastHeard(c), a)
            /\ Rises(held[c], a, b)
            /\ Rises(wire[c], b, d)
            /\ Rises(eventChan[c], d, issued)
    BY <1>1 DEF Flow
  <1>3. Flow(c)'
    <2>1. CASE c \in closed
      BY <1>2, <2>1 DEF Flow, LastHeard
    <2>2. CASE c \notin closed
      <3>1. LastHeard(c) \in Nat /\ send[c] \in Seq(Nat) /\ Pong \in Nat
        BY <1>1, LastHeardType DEF Pong
      <3>2. Rises(Append(send[c], Pong), LastHeard(c), a)
        BY <1>2, <3>1, RisesAppend
      <3>3. send'[c] = Append(send[c], Pong)
        BY <2>2
      <3> QED
        BY <1>2, <2>2, <3>2, <3>3 DEF Flow, LastHeard
    <2> QED
      BY <2>1, <2>2
  <1>4. ASSUME NEW k \in Conns, k # c
        PROVE  UNCHANGED <<send[k], held[k], feeder[k], reader[k]>>
    BY <1>4
  <1> QED
    BY <1>1, <1>3, <1>4, OrderOfOne

\* What the writer takes from `send` is heard, is a Pong, or is lost; an event heard
\* is later than the last one.
LEMMA OrderWrite ==
    ASSUME Typed, OrderInv, NEW c \in Conns, Write(c)
    PROVE  /\ OrderInv'
           /\ \/ UNCHANGED heard
              \/ /\ heard[c] # <<>>
                 /\ \E e \in LastHeard(c) + 1 .. issued : heard' = [heard EXCEPT ![c] = Append(@, e)]
  <1> USE DEF Write, streamVars, Typed, StreamInv, StreamType, GateType
  <1>1. socket[c] # "none" /\ heard[c] # <<>> /\ Flow(c)
    BY HasCome DEF Absent
  <1>2. PICK a \in Nat, b \in Nat, d \in Nat :
            /\ Rises(send[c], LastHeard(c), a)
            /\ Rises(held[c], a, b)
            /\ Rises(wire[c], b, d)
            /\ Rises(eventChan[c], d, issued)
    BY <1>1 DEF Flow
  <1>3. LastHeard(c) \in Nat /\ send[c] \in Seq(Nat) /\ Head(send[c]) \in Nat /\ heard[c] \in Seq(Nat)
    BY <1>1, LastHeardType, QueueType
  <1>4. PICK e \in Nat : /\ LastHeard(c) <= e /\ Rises(Tail(send[c]), e, a) /\ e <= a
                         /\ Head(send[c]) # Pong => e = Head(send[c]) /\ LastHeard(c) < e
    BY <1>2, <1>3, RisesTail
  <1>5. a <= issued
    BY <1>2 DEF Rises
  <1>6. Tail(send[c]) \in Seq(Nat) /\ send'[c] = Tail(send[c])
    BY QueueType
  <1>7. Rises(Tail(send[c]), LastHeard(c), a)
    <2>1. \A q \in Seq(Nat) : Rises(q, e, a) => Rises(q, LastHeard(c), a)
      BY <1>3, <1>4, RisesWider
    <2> QED
      BY <1>4, <1>6, <2>1
  <1>8. ASSUME NEW k \in Conns, k # c
        PROVE  UNCHANGED <<send[k], heard[k], writer[k], socket[k]>>
    BY <1>8 DEF StopWriter
  <1>9. socket'[c] # "none"
    BY <1>1 DEF StopWriter
  <1>10. CASE UNCHANGED heard
    <2>1. Flow(c)'
      BY <1>2, <1>6, <1>7, <1>10 DEF Flow, LastHeard
    <2> QED
      BY <1>1, <1>8, <1>9, <1>10, <2>1, OrderOfOne
  <1>11. CASE Head(send[c]) # Pong /\ heard' = [heard EXCEPT ![c] = Append(@, Head(send[c]))]
    <2>1. e \in LastHeard(c) + 1 .. issued /\ heard' = [heard EXCEPT ![c] = Append(@, e)]
      <3>1. e = Head(send[c]) /\ LastHeard(c) < e /\ e <= issued
        BY <1>4, <1>5, <1>11
      <3>2. e \in LastHeard(c) + 1 .. issued
        BY <1>3, <3>1
      <3> QED
        BY <1>11, <3>1, <3>2
    <2>2. heard'[c] # <<>> /\ LastHeard(c)' = e
      <3>1. heard'[c] = Append(heard[c], e)
        BY <2>1
      <3>2. heard'[c] # <<>> /\ heard'[c][Len(heard'[c])] = e
        <4>1. Append(heard[c], e) # <<>> /\ Append(heard[c], e)[Len(Append(heard[c], e))] = e
          <5>1. heard[c] \in Seq(Nat)
            BY <1>3
          <5> QED
            BY <5>1, LastOfAppend
        <4> QED
          BY <3>1, <4>1
      <3> QED
        BY <3>2 DEF LastHeard
    <2>3. Flow(c)'
      BY <1>2, <1>4, <1>6, <2>2 DEF Flow
    <2>4. OrderInv'
      BY <1>1, <1>8, <1>9, <2>2, <2>3, OrderOfOne
    <2> QED
      BY <1>1, <2>1, <2>4
  <1> QED
    BY <1>10, <1>11

LEMMA OrderNext ==
    ASSUME Typed, OrderInv, [Next]_vars
    PROVE  OrderInv'
  <1>1. ASSUME NEW c \in Conns, ServerStep(c) \/ Break(c), UNCHANGED gateVars
        PROVE  OrderInv'
    BY <1>1, OrderStill, OrderServer DEF ServerStep
  <1>2. CASE Server /\ UNCHANGED gateVars
    BY <1>1, <1>2, OrderBroadcast DEF Server
  <1>3. ASSUME NEW c \in Conns, Feed(c)
        PROVE  OrderInv'
    BY <1>3, OrderStill, OrderTakeEvent, OrderSendEvent DEF Feed
  <1>4. ASSUME NEW c \in Conns, WriterStep(c)
        PROVE  OrderInv'
    BY <1>4, OrderStill, OrderWrite DEF WriterStep
  <1>5. ASSUME NEW c \in Conns, ReadPing(c) \/ Answer(c) \/ ReadFails(c) \/ Leave(c)
        PROVE  OrderInv'
    BY <1>5, OrderStill, OrderAnswer
  <1>6. CASE UNCHANGED vars
    BY <1>6 DEF vars, streamVars, gateVars, OrderInv, InOrder, Absent, Flow, LastHeard
  <1>7. CASE Next
    BY <1>2, <1>3, <1>4, <1>5, <1>7, OrderConnect DEF Next
  <1> QED
    BY <1>6, <1>7

LEMMA OrderInvariant == Spec => []OrderInv
  <1>1. Init => OrderInv
    BY DEF Init, StreamInit, OrderInv, InOrder, Absent
  <1>2. Typed /\ OrderInv /\ [Next]_vars => OrderInv'
    BY OrderNext
  <1> QED
    BY <1>1, <1>2, TypedInvariant, PTL DEF Spec

\* The gateway and the server's streams together implement EventFeed: whoever
\* reconnects and whatever blocks, breaks or is skipped, a browser hears the
\* events broadcast since it came in their order, each once.
THEOREM HeardInOrder == Spec => HearsInOrder
  <1>1. Init => Broadcasts!Init
    BY DEF Init, StreamInit, Broadcasts!Init
  <1>2. ASSUME Typed, OrderInv, [Next]_vars
        PROVE  [Broadcasts!Next]_<<issued, heard>>
    <2>1. CASE Server /\ UNCHANGED gateVars
      <3>1. CASE Broadcast
        BY <2>1, <3>1 DEF Broadcast, gateVars, Broadcasts!Next, Broadcasts!Publish
      <3>2. ASSUME NEW c \in Conns, ServerStep(c) \/ Break(c)
            PROVE  UNCHANGED issued
        BY <3>2 DEF ServerStep, NotFound, Register, Forward, Return, CleanUp, Break
      <3> QED
        BY <2>1, <3>1, <3>2 DEF Server, gateVars
    <2>2. ASSUME NEW c \in Conns, Connect(c)
          PROVE  Broadcasts!Next
      <3>1. heard[c] = <<>>
        BY <1>2, <2>2 DEF OrderInv, InOrder, Absent, Connect
      <3> QED
        BY <2>2, <3>1 DEF Connect, streamVars, Broadcasts!Next, Broadcasts!Listen
    <2>3. ASSUME NEW c \in Conns, Write(c)
          PROVE  Broadcasts!Next \/ UNCHANGED <<issued, heard>>
      <3>1. UNCHANGED issued
        BY <2>3 DEF Write, streamVars
      <3>2. \/ UNCHANGED heard
            \/ /\ heard[c] # <<>>
               /\ \E e \in LastHeard(c) + 1 .. issued : heard' = [heard EXCEPT ![c] = Append(@, e)]
        BY <1>2, <2>3, OrderWrite
      <3> QED
        BY <3>1, <3>2 DEF LastHeard, Broadcasts!Next, Broadcasts!Hear
    <2>4. ASSUME NEW c \in Conns,
                 \/ Feed(c) \/ ReadPing(c) \/ Answer(c) \/ ReadFails(c) \/ Leave(c)
                 \/ WriteClose(c) \/ PingFails(c)
          PROVE  UNCHANGED <<issued, heard>>
      BY <2>4 DEF Feed, Subscribe, Call, TakeEvent, Receive, FeedFails, SendEvent, ReadPing,
                  Answer, ReadFails, Leave, WriteClose, PingFails, streamVars
    <2>5. CASE UNCHANGED vars
      BY <2>5 DEF vars, streamVars, gateVars
    <2> QED
      BY <1>2, <2>1, <2>2, <2>3, <2>4, <2>5 DEF Next, WriterStep
  <1> QED
    BY <1>1, <1>2, TypedInvariant, OrderInvariant, PTL
       DEF Spec, HearsInOrder, Broadcasts!Spec

\* What a connection was written rises from event to event and never runs ahead
\* of the events there are.
Rising(c) ==
    \A j \in 1 .. Len(heard[c]) :
        /\ heard[c][j] <= issued
        /\ \A i \in 1 .. Len(heard[c]) : i < j => heard[c][i] < heard[c][j]

NoneTwice ==
    /\ issued \in Nat
    /\ heard \in [Conns -> Seq(Nat)]
    /\ \A c \in Conns : Rising(c)

\* Already the feed promises it.
LEMMA FeedRises == Broadcasts!Spec => []NoneTwice
  <1>1. Broadcasts!Init => NoneTwice
    BY DEF Broadcasts!Init, NoneTwice, Rising
  <1>2. NoneTwice /\ [Broadcasts!Next]_<<issued, heard>> => NoneTwice'
    <2> SUFFICES ASSUME NoneTwice, [Broadcasts!Next]_<<issued, heard>>
                 PROVE  NoneTwice'
      OBVIOUS
    <2> USE DEF NoneTwice
    <2>1. CASE UNCHANGED <<issued, heard>>
      BY <2>1 DEF Rising
    <2>2. CASE Broadcasts!Publish
      <3>1. issued' = issued + 1 /\ UNCHANGED heard
        BY <2>2 DEF Broadcasts!Publish
      <3>2. ASSUME NEW c \in Conns, NEW j \in 1 .. Len(heard[c])
            PROVE  heard[c][j] <= issued'
        <4>1. heard[c][j] \in Nat /\ heard[c][j] <= issued
          BY DEF Rising
        <4> QED
          BY <3>1, <4>1
      <3> QED
        BY <3>1, <3>2 DEF Rising
    <2>3. ASSUME NEW c \in Conns, NEW e \in Nat, UNCHANGED issued, e <= issued,
                 heard' = [heard EXCEPT ![c] = Append(@, e)],
                 \A i \in 1 .. Len(heard[c]) : heard[c][i] < e
          PROVE  NoneTwice'
      <3> DEFINE told == heard[c]
      <3>1. told \in Seq(Nat) /\ heard'[c] = Append(told, e)
            /\ \A d \in Conns \ {c} : heard'[d] = heard[d]
        BY <2>3
      <3>2. PICK n \in Nat : n = Len(told)
        BY <3>1
      <3>3. heard' \in [Conns -> Seq(Nat)]
        BY <2>3, <3>1
      <3>4. /\ Len(Append(told, e)) = n + 1 /\ Append(told, e)[n + 1] = e
            /\ \A i \in 1 .. n : Append(told, e)[i] = told[i]
        BY <3>1, <3>2
      <3>5. \A i \in 1 .. n : told[i] \in Nat /\ told[i] < e
        BY <2>3, <3>1, <3>2
      <3>6. Rising(c)'
        <4> SUFFICES ASSUME NEW j \in 1 .. n + 1, NEW i \in 1 .. n + 1
                     PROVE  /\ Append(told, e)[j] <= issued
                            /\ i < j => Append(told, e)[i] < Append(told, e)[j]
          BY <2>3, <3>1, <3>4 DEF Rising
        <4>1. CASE j = n + 1
          BY <2>3, <3>4, <3>5, <4>1
        <4>2. CASE j \in 1 .. n
          <5>1. told[j] <= issued /\ (i \in 1 .. n /\ i < j => told[i] < told[j])
            BY <3>2, <4>2 DEF Rising
          <5> QED
            BY <3>4, <4>2, <5>1
        <4>3. j = n + 1 \/ j \in 1 .. n
          OBVIOUS
        <4> QED
          BY <4>1, <4>2, <4>3
      <3>7. ASSUME NEW d \in Conns \ {c}
            PROVE  Rising(d)'
        BY <2>3, <3>1 DEF Rising
      <3> QED
        BY <2>3, <3>3, <3>6, <3>7
    <2>4. ASSUME NEW c \in Conns, Broadcasts!Listen(c)
          PROVE  NoneTwice'
      <3>1. UNCHANGED issued /\ heard[c] = <<>> /\ heard' = [heard EXCEPT ![c] = Append(@, issued)]
        BY <2>4 DEF Broadcasts!Listen
      <3>2. issued <= issued /\ \A i \in 1 .. Len(heard[c]) : heard[c][i] < issued
        BY <3>1
      <3> QED
        BY <2>3, <3>1, <3>2
    <2>5. ASSUME NEW c \in Conns, Broadcasts!Hear(c)
          PROVE  NoneTwice'
      <3>1. PICK e \in heard[c][Len(heard[c])] + 1 .. issued :
               heard' = [heard EXCEPT ![c] = Append(@, e)] /\ UNCHANGED issued
        BY <2>5 DEF Broadcasts!Hear
      <3>2. PICK n \in Nat \ {0} : n = Len(heard[c])
        BY <2>5 DEF Broadcasts!Hear
      <3>3. heard[c][n] \in Nat /\ \A i \in 1 .. n : heard[c][i] \in Nat
        BY <3>2
      <3>4. e \in Nat /\ e <= issued /\ heard[c][n] < e
        BY <3>1, <3>2, <3>3
      <3>5. ASSUME NEW i \in 1 .. n
            PROVE  heard[c][i] < e
        <4>1. i < n => heard[c][i] < heard[c][n]
          BY <3>2 DEF Rising
        <4> QED
          BY <3>3, <3>4, <4>1
      <3> QED
        BY <2>3, <3>1, <3>2, <3>4, <3>5
    <2> QED
      BY <2>1, <2>2, <2>4, <2>5 DEF Broadcasts!Next
  <1> QED
    BY <1>1, <1>2, PTL DEF Broadcasts!Spec

\* No browser is written an event twice or after a later one, nor an event of the
\* time before it came, through any number of queues, retries and broken streams.
THEOREM HeardOnce == Spec => []NoneTwice
  BY HeardInOrder, FeedRises, PTL DEF HearsInOrder
=============================================================================
