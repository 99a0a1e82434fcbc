----------------------------- MODULE WSHandler -----------------------------
(***************************************************************************)
(* The gateway's websockets, src/internal/websocket/websocket_ws.go, over  *)
(* the event streams of the game server (EventStream).                     *)
(*                                                                         *)
(* Each connection has a socket, a channel `send` and three goroutines: the *)
(* reader (readPump), the writer (writePump) and the feeder                *)
(* (subscribeGameEvents).  The map clients holds one connection a player,  *)
(* under h.mu; a later one takes the entry over.  The feeder's context is  *)
(* never cancelled: its call lives as long as the transport does.          *)
(***************************************************************************)
EXTENDS EventStream

CONSTANT SendCap    \* capacity of send (256 in the code)

ASSUME SendCapAssumption == SendCap \in Nat \ {0}

VARIABLES
    clients,    \* h.clients
    send,       \* what is in client.send: numbers of events, or Pong
    closed,     \* the connections whose send was closed
    socket,     \* client.conn
    reader, writer, feeder,
    held,       \* the event in the feeder's hand: <<>> or <<e>>
    crashed,    \* a goroutine sent on a closed channel: the gateway ended
    heard       \* what a connection was written: first how many events had been
                \* broadcast when it came, then each event (for properties only)

gateVars == <<clients, send, closed, socket, reader, writer, feeder, held,
              crashed, heard>>
vars == <<streamVars, gateVars>>

Pong == 0

Init ==
    /\ StreamInit
    /\ clients = [p \in Players |-> Nothing]
    /\ send = [c \in Conns |-> <<>>]
    /\ closed = {}
    /\ socket = [c \in Conns |-> "none"]
    /\ reader = [c \in Conns |-> "none"]
    /\ writer = [c \in Conns |-> "none"]
    /\ feeder = [c \in Conns |-> "none"]
    /\ held = [c \in Conns |-> <<>>]
    /\ crashed = FALSE
    /\ heard = [c \in Conns |-> <<>>]

-----------------------------------------------------------------------------
(* HandleWebSocket *)

\* Mutant: the channel of the connection it replaces is closed.
ConnectClosesOld(c) ==
    /\ ~crashed /\ socket[c] = "none"
    /\ socket' = [socket EXCEPT ![c] = "open"]
    /\ closed' = closed \cup ({clients[PlayerOf[c]]} \ {Nothing})
    /\ clients' = [clients EXCEPT ![PlayerOf[c]] = c]
    /\ reader' = [reader EXCEPT ![c] = "reading"]
    /\ writer' = [writer EXCEPT ![c] = "running"]
    /\ feeder' = [feeder EXCEPT ![c] = "starting"]
    /\ heard' = [heard EXCEPT ![c] = <<issued>>]
    /\ UNCHANGED <<streamVars, send, held, crashed>>

Connect(c) ==
    /\ ~crashed /\ socket[c] = "none"
    /\ socket' = [socket EXCEPT ![c] = "open"]
    /\ clients' = [clients EXCEPT ![PlayerOf[c]] = c]
    /\ reader' = [reader EXCEPT ![c] = "reading"]
    /\ writer' = [writer EXCEPT ![c] = "running"]
    /\ feeder' = [feeder EXCEPT ![c] = "starting"]
    /\ heard' = [heard EXCEPT ![c] = <<issued>>]
    /\ UNCHANGED <<streamVars, send, closed, held, crashed>>

\* client.send <- message: it panics on a closed channel and blocks on a full
\* one (the step is then not enabled).  Otherwise `done` is what comes next.
Send(c, message, done) ==
    IF c \in closed
    THEN crashed' = TRUE /\ UNCHANGED <<send, reader, feeder, held>>
    ELSE /\ Len(send[c]) < SendCap
         /\ send' = [send EXCEPT ![c] = Append(@, message)]
         /\ done
         /\ UNCHANGED crashed

-----------------------------------------------------------------------------
(* subscribeGameEvents *)

Subscribe(c) ==
    /\ ~crashed /\ feeder[c] = "starting"
    /\ \/ Call(c) /\ feeder' = [feeder EXCEPT ![c] = "receiving"]
       \/ UNCHANGED streamVars /\ feeder' = [feeder EXCEPT ![c] = "done"]
    /\ UNCHANGED <<clients, send, closed, socket, reader, writer, held, crashed,
                   heard>>

TakeEvent(c) ==
    /\ ~crashed /\ feeder[c] = "receiving"
    /\ Receive(c)
    /\ held' = [held EXCEPT ![c] = <<Head(wire[c])>>]
    /\ feeder' = [feeder EXCEPT ![c] = "sending"]
    /\ UNCHANGED <<clients, send, closed, socket, reader, writer, crashed, heard>>

FeedFails(c) ==
    /\ ~crashed /\ feeder[c] = "receiving"
    /\ Ended(c)
    /\ feeder' = [feeder EXCEPT ![c] = "done"]
    /\ UNCHANGED <<streamVars, clients, send, closed, socket, reader, writer,
                   held, crashed, heard>>

SendEvent(c) ==
    /\ ~crashed /\ feeder[c] = "sending"
    /\ Send(c, held[c][1],
            /\ feeder' = [feeder EXCEPT ![c] = "receiving"]
            /\ held' = [held EXCEPT ![c] = <<>>]
            /\ UNCHANGED reader)
    /\ UNCHANGED <<streamVars, clients, closed, socket, writer, heard>>

Feed(c) == Subscribe(c) \/ TakeEvent(c) \/ FeedFails(c) \/ SendEvent(c)

-----------------------------------------------------------------------------
(* readPump *)

\* A message "ping" is answered through the channel; others change nothing.
ReadPing(c) ==
    /\ ~crashed /\ reader[c] = "reading" /\ socket[c] = "open"
    /\ reader' = [reader EXCEPT ![c] = "answering"]
    /\ UNCHANGED <<streamVars, clients, send, closed, socket, writer, feeder,
                   held, crashed, heard>>

Answer(c) ==
    /\ ~crashed /\ reader[c] = "answering"
    /\ Send(c, Pong,
            /\ reader' = [reader EXCEPT ![c] = "reading"]
            /\ UNCHANGED <<feeder, held>>)
    /\ UNCHANGED <<streamVars, clients, closed, socket, writer, heard>>

\* The browser leaves, 60 s pass without a pong, or the writer closed the socket.
ReadFails(c) ==
    /\ ~crashed /\ reader[c] = "reading"
    /\ reader' = [reader EXCEPT ![c] = "leaving"]
    /\ UNCHANGED <<streamVars, clients, send, closed, socket, writer, feeder,
                   held, crashed, heard>>

\* Mutants: only the socket goes away; the channel is closed and its entry stays;
\* the entry is used without asking whether there is one.
RemoveNothing(p) == UNCHANGED <<clients, closed>>
RemoveUnchecked(p) ==
    /\ closed' = closed \cup {clients[p]}
    /\ clients' = [clients EXCEPT ![p] = Nothing]
RemoveKeepsEntry(p) ==
    /\ closed' = closed \cup ({clients[p]} \ {Nothing})
    /\ UNCHANGED clients

\* removeClient closes and deletes whichever connection the player has now.
RemoveClient(p) ==
    /\ closed' = closed \cup ({clients[p]} \ {Nothing})
    /\ clients' = [clients EXCEPT ![p] = Nothing]

\* The deferred calls; a second one on the same socket is harmless.
Leave(c) ==
    /\ ~crashed /\ reader[c] = "leaving"
    /\ RemoveClient(PlayerOf[c])
    /\ reader' = [reader EXCEPT ![c] = "done"]
    /\ socket' = [socket EXCEPT ![c] = "closed"]
    /\ UNCHANGED <<streamVars, send, writer, feeder, held, crashed, heard>>

-----------------------------------------------------------------------------
(* writePump *)

\* Mutant: the writer leaves the socket open.
StopWriterOnly(c) == writer' = [writer EXCEPT ![c] = "done"] /\ UNCHANGED socket

StopWriter(c) ==
    /\ writer' = [writer EXCEPT ![c] = "done"]
    /\ socket' = [socket EXCEPT ![c] = "closed"]

\* A message is written, or the peer does not take it within 10 s.
Write(c) ==
    /\ ~crashed /\ writer[c] = "running" /\ send[c] # <<>>
    /\ send' = [send EXCEPT ![c] = Tail(@)]
    /\ \/ /\ socket[c] = "open"
          /\ heard' = IF Head(send[c]) = Pong THEN heard
                      ELSE [heard EXCEPT ![c] = Append(@, Head(send[c]))]
          /\ UNCHANGED <<socket, writer>>
       \/ StopWriter(c) /\ UNCHANGED heard
    /\ UNCHANGED <<streamVars, clients, closed, reader, feeder, held, crashed>>

WriteClose(c) ==
    /\ ~crashed /\ writer[c] = "running" /\ send[c] = <<>> /\ c \in closed
    /\ StopWriter(c)
    /\ UNCHANGED <<streamVars, clients, send, closed, reader, feeder, held,
                   crashed, heard>>

\* Mutant: a ping that fails is not the end of the writer.
PingFailsUnnoticed(c) ==
    /\ ~crashed /\ writer[c] = "running"
    /\ socket' = [socket EXCEPT ![c] = "closed"]
    /\ UNCHANGED <<streamVars, clients, send, closed, reader, writer, feeder,
                   held, crashed, heard>>

\* The ping every 54 s finds the peer gone, or the socket closed.
PingFails(c) ==
    /\ ~crashed /\ writer[c] = "running"
    /\ StopWriter(c)
    /\ UNCHANGED <<streamVars, clients, send, closed, reader, feeder, held,
                   crashed, heard>>

WriterStep(c) == Write(c) \/ WriteClose(c) \/ PingFails(c)

-----------------------------------------------------------------------------

Server == Broadcast \/ \E c \in Conns : ServerStep(c) \/ Break(c)

Next ==
    \/ Server /\ UNCHANGED gateVars
    \/ \E c \in Conns :
          \/ Connect(c) \/ Feed(c)
          \/ ReadPing(c) \/ Answer(c) \/ ReadFails(c) \/ Leave(c)
          \/ WriterStep(c)

Spec == Init /\ [][Next]_vars

\* What the goroutines of a socket cannot help doing: they are scheduled, their
\* deadlines and tickers fire, and a read from a closed socket fails.  Nobody
\* has to connect, leave or ping.
ReaderMust(c) == Answer(c) \/ Leave(c) \/ (socket[c] = "closed" /\ ReadFails(c))
WriterMust(c) == Write(c) \/ WriteClose(c) \/ (socket[c] = "closed" /\ PingFails(c))

FairPumps ==
    Spec /\ \A c \in Conns : WF_vars(ReaderMust(c)) /\ WF_vars(WriterMust(c))

\* And so are the server's goroutines and the feeder; the senders blocked on a
\* channel are served in order.  The transport need not break.
FairSpec ==
    /\ FairPumps
    /\ \A c \in Conns :
          /\ WF_vars(ServerStep(c) /\ UNCHANGED gateVars)
          /\ WF_vars(Feed(c)) /\ SF_vars(SendEvent(c))
-----------------------------------------------------------------------------

TypeOK ==
    /\ subscribers \in [Players -> Conns \cup {Nothing}]
    /\ handler \in [Conns -> {"none", "called", "serving", "leaving", "done"}]
    /\ eventChan \in [Conns -> Seq(Nat)] /\ wire \in [Conns -> Seq(Nat)]
    /\ lost \in SUBSET Conns
    /\ issued \in Nat
    /\ clients \in [Players -> Conns \cup {Nothing}]
    /\ send \in [Conns -> Seq(Nat)]
    /\ closed \in SUBSET Conns
    /\ socket \in [Conns -> {"none", "open", "closed"}]
    /\ reader \in [Conns -> {"none", "reading", "answering", "leaving", "done"}]
    /\ writer \in [Conns -> {"none", "running", "done"}]
    /\ feeder \in [Conns -> {"none", "starting", "receiving", "sending", "done"}]
    /\ held \in [Conns -> Seq(Nat)]
    /\ crashed \in BOOLEAN
    /\ heard \in [Conns -> Seq(Nat)]

\* A channel is closed once: what is registered is open, so that removeClient,
\* which closes whatever is registered for its player, never closes twice.
RegisteredIsOpen ==
    \A p \in Players :
        clients[p] # Nothing => clients[p] \notin closed /\ PlayerOf[clients[p]] = p

\* Coming cuts nobody off, and leaving cuts off one's own player only.  Where
\* removeClient, which goes by the player id, has closed a connection whose
\* reader still runs, another connection of that player ended in its place,
\* and the channel of that one is open, for good.
CutOffInPlace ==
    \A c \in closed :
        \/ reader[c] = "done"
        \/ \E d \in Conns \ closed : PlayerOf[d] = PlayerOf[c] /\ reader[d] = "done"

\* The reader's end takes the player off the map: a player none of whose
\* readers runs is not registered.
GoneIsForgotten ==
    \A p \in Players :
        clients[p] # Nothing => reader[clients[p]] # "done"

\* A connection hears the events broadcast after it came, in order, each once:
\* through the subscriber's channel, the stream, the feeder and the writer,
\* whoever reconnects, whatever is dropped.
Broadcasts == INSTANCE EventFeed
HearsInOrder == Broadcasts!Spec

\* The writer of a connection that ended ends too, even where removeClient closed
\* another connection's channel instead of its own: the ping finds it out.
WriterFollowsReader ==
    \A c \in Conns : reader[c] = "done" ~> writer[c] = "done" \/ crashed

\* And the reader follows the writer, unless it is stuck in the answer to a
\* ping: nobody empties the full channel any more, and nobody closes it.
AnswerStuck(c) == reader[c] = "answering" /\ Len(send[c]) = SendCap
ReaderFollowsWriter ==
    \A c \in Conns :
        writer[c] = "done" ~> reader[c] = "done" \/ AnswerStuck(c) \/ crashed

\* An event a subscriber's channel has room for reaches the browser, as long as
\* the connection and the transport last.
Queued(c, e) == \E i \in 1 .. Len(eventChan[c]) : eventChan[c][i] = e
Heard(c, e) == \E i \in 2 .. Len(heard[c]) : heard[c][i] = e
EventArrives ==
    \A c \in Conns, e \in 1 .. MaxEvents :
        Queued(c, e) ~> Heard(c, e) \/ writer[c] = "done" \/ c \in lost \/ crashed

\* websocket_ws.go:150, before the feeder's send: "send the event to the websocket
\* client".  The client it sends to is one whose channel is open.
EventGoesToAClient == \A c \in Conns : feeder[c] = "sending" => c \notin closed
=============================================================================
