---------------------------- MODULE EventStream ----------------------------
(***************************************************************************)
(* The event streams of one room, src/services/werewolf/service.go: the    *)
(* map Subscribers, the handler goroutine of each SubscribeGameEvents call *)
(* with its channel, and broadcastEvent.  Registering, broadcasting and    *)
(* cleaning up all happen under room.mu, so each is one action.            *)
(*                                                                         *)
(* Of the gRPC stream below a call the model keeps what the code relies    *)
(* on: messages arrive in order, Send blocks while the peer does not read, *)
(* and when the transport breaks each side learns of it at its own pace.   *)
(***************************************************************************)
EXTENDS Integers, Sequences

CONSTANTS
    Players,
    Conns,          \* calls of SubscribeGameEvents
    PlayerOf,       \* PlayerOf[c]: the player id the call c carries
    Nothing,        \* no entry in a map
    ChanCap,        \* capacity of a subscriber's channel (100 in the code)
    WireCap,        \* messages that fit the stream before Send blocks
    MaxEvents       \* bound on the events broadcast, for model checking only

ASSUME PlayerOfAssumption == PlayerOf \in [Conns -> Players]
ASSUME NothingAssumption  == Nothing \notin Conns
ASSUME CapAssumption      == ChanCap \in Nat \ {0} /\ WireCap \in Nat \ {0}
ASSUME MaxEventsAssumption == MaxEvents \in Nat

VARIABLES
    subscribers,    \* room.Subscribers: the call whose channel is registered
    handler,        \* where the server's goroutine for a call is
    eventChan,      \* its channel; closed when the handler is "done"
    wire,           \* sent on the stream and not yet received
    lost,           \* the calls whose transport broke
    issued          \* how many events were broadcast; an event is its number

streamVars == <<subscribers, handler, eventChan, wire, lost, issued>>

StreamInit ==
    /\ subscribers = [p \in Players |-> Nothing]
    /\ handler = [c \in Conns |-> "none"]
    /\ eventChan = [c \in Conns |-> <<>>]
    /\ wire = [c \in Conns |-> <<>>]
    /\ lost = {}
    /\ issued = 0

\* The client's call returns before the server has seen it.
Call(c) ==
    /\ handler[c] = "none"
    /\ handler' = [handler EXCEPT ![c] = "called"]
    /\ UNCHANGED <<subscribers, eventChan, wire, lost, issued>>

\* The room id is one nobody created.
NotFound(c) ==
    /\ handler[c] = "called"
    /\ handler' = [handler EXCEPT ![c] = "done"]
    /\ UNCHANGED <<subscribers, eventChan, wire, lost, issued>>

\* A player who subscribes again takes the entry over.
Register(c) ==
    /\ handler[c] = "called"
    /\ handler' = [handler EXCEPT ![c] = "serving"]
    /\ subscribers' = [subscribers EXCEPT ![PlayerOf[c]] = c]
    /\ UNCHANGED <<eventChan, wire, lost, issued>>

\* broadcastEvent: a channel that is full is skipped.
Broadcast ==
    /\ issued < MaxEvents
    /\ issued' = issued + 1
    /\ eventChan' = [c \in Conns |->
          IF subscribers[PlayerOf[c]] = c /\ Len(eventChan[c]) < ChanCap
          THEN Append(eventChan[c], issued') ELSE eventChan[c]]
    /\ UNCHANGED <<subscribers, handler, wire, lost>>

\* Mutant: an event that cannot be sent at once is put back.
ForwardOrRequeue(c) ==
    /\ handler[c] = "serving"
    /\ eventChan[c] # <<>>
    /\ IF Len(wire[c]) < WireCap
       THEN /\ wire' = [wire EXCEPT ![c] = Append(@, Head(eventChan[c]))]
            /\ eventChan' = [eventChan EXCEPT ![c] = Tail(@)]
       ELSE /\ eventChan' = [eventChan EXCEPT ![c] = Append(Tail(@), Head(@))]
            /\ UNCHANGED wire
    /\ UNCHANGED <<subscribers, handler, lost, issued>>

\* Mutant: an event that cannot be sent at once is dropped.
ForwardOrDrop(c) ==
    /\ handler[c] = "serving"
    /\ eventChan[c] # <<>>
    /\ eventChan' = [eventChan EXCEPT ![c] = Tail(@)]
    /\ wire' = IF Len(wire[c]) < WireCap
               THEN [wire EXCEPT ![c] = Append(@, Head(eventChan[c]))] ELSE wire
    /\ UNCHANGED <<subscribers, handler, lost, issued>>

\* The event the handler receives is the event it sends.
Forward(c) ==
    /\ handler[c] = "serving"
    /\ eventChan[c] # <<>>
    /\ c \notin lost
    /\ Len(wire[c]) < WireCap
    /\ eventChan' = [eventChan EXCEPT ![c] = Tail(@)]
    /\ wire' = [wire EXCEPT ![c] = Append(@, Head(eventChan[c]))]
    /\ UNCHANGED <<subscribers, handler, lost, issued>>

\* The stream's context is done, or Send fails: the handler returns.
Return(c) ==
    /\ handler[c] = "serving"
    /\ c \in lost
    /\ handler' = [handler EXCEPT ![c] = "leaving"]
    /\ \/ UNCHANGED eventChan
       \/ eventChan[c] # <<>> /\ eventChan' = [eventChan EXCEPT ![c] = Tail(@)]
    /\ UNCHANGED <<subscribers, wire, lost, issued>>

\* Mutant: the channel is closed and its entry stays.
DeregisterNobody(p) == UNCHANGED subscribers

\* The deferred clean-up deletes by player id, whoever's the entry is by now.
Deregister(p) == subscribers' = [subscribers EXCEPT ![p] = Nothing]

CleanUp(c) ==
    /\ handler[c] = "leaving"
    /\ handler' = [handler EXCEPT ![c] = "done"]
    /\ Deregister(PlayerOf[c])
    /\ UNCHANGED <<eventChan, wire, lost, issued>>

\* The transport breaks, and what was on its way may be lost, last things first.
Break(c) ==
    /\ handler[c] # "none"
    /\ c \notin lost
    /\ lost' = lost \cup {c}
    /\ \E n \in 0 .. Len(wire[c]) : wire' = [wire EXCEPT ![c] = SubSeq(@, 1, n)]
    /\ UNCHANGED <<subscribers, handler, eventChan, issued>>

ServerStep(c) == NotFound(c) \/ Register(c) \/ Forward(c) \/ Return(c) \/ CleanUp(c)

\* The client's side: Recv returns the next message, or an error once there is
\* none left of a stream that ended.
Receive(c) ==
    /\ wire[c] # <<>>
    /\ wire' = [wire EXCEPT ![c] = Tail(@)]
    /\ UNCHANGED <<subscribers, handler, eventChan, lost, issued>>

Ended(c) == wire[c] = <<>> /\ (c \in lost \/ handler[c] = "done")

StreamNext ==
    \/ Broadcast
    \/ \E c \in Conns : Call(c) \/ ServerStep(c) \/ Break(c) \/ Receive(c)

StreamSpec == StreamInit /\ [][StreamNext]_streamVars

-----------------------------------------------------------------------------

\* broadcastEvent never sends on a closed channel (which would end the server):
\* the channel registered for a player is one of that player's whose handler
\* has not cleaned up, though every clean-up may delete another call's entry.
SubscribedIsServed ==
    \A p \in Players :
        subscribers[p] # Nothing =>
            /\ PlayerOf[subscribers[p]] = p
            /\ handler[subscribers[p]] \in {"serving", "leaving"}

\* service.go:755 and 763: the handler that "cleans up the subscription" ends its own
\* only: a player with a call still in "send the event stream" is subscribed.
ServedIsSubscribed ==
    \A c \in Conns : handler[c] = "serving" => subscribers[PlayerOf[c]] # Nothing
=============================================================================
