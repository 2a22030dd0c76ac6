---- MODULE Hub ----
(***************************************************************************)
(* The WebSocket hub: WebSocketHub, Broadcast and HandleWebSocket in       *)
(* src/backend/services/services.go.  The hub's goroutine, a reader and a  *)
(* writer per connection, and the channels between them.  Sending on a     *)
(* closed channel, or closing it twice, would stop the program.            *)
(***************************************************************************)
EXTENDS Integers, FiniteSets

CONSTANTS
    Conns,
    Backlog,    \* room of the broadcast channel (256)
    Room        \* room of a connection's send channel (256)

VARIABLE db

(* A connection's request sends it to the register channel before its reader *)
(* starts; the hub takes from any of its channels.                           *)
Init ==
    db = [up |-> TRUE,                              \* the hub runs
          asked |-> {}, left |-> {},                \* in the register and unregister channels
          clients |-> {}, backlog |-> 0,
          queue |-> [c \in Conns |-> 0],            \* messages in c's send channel
          reader |-> [c \in Conns |-> "none"], writer |-> [c \in Conns |-> "none"],
          closes |-> [c \in Conns |-> 0],           \* history: closes of c's send channel
          lost |-> FALSE]                           \* history: a send on a closed channel

HandleWebSocket(c) ==
    /\ db.reader[c] = "none"
    /\ db' = [db EXCEPT !.asked = @ \cup {c}, !.reader[c] = "runs", !.writer[c] = "runs"]

(* Broadcast drops the message when the channel is full. *)
Broadcast(c) ==
    /\ db.reader[c] = "runs" /\ db.backlog < Backlog
    /\ db' = [db EXCEPT !.backlog = @ + 1]

(* The peer is gone: the reader asks to be unregistered and closes the       *)
(* connection.                                                               *)
StopReading(c) ==
    /\ db.reader[c] = "runs"
    /\ db' = [db EXCEPT !.reader[c] = "done", !.left = @ \cup {c}]

(* The writer takes a message; it ends when the write fails, as on a closed  *)
(* connection it does, or when the channel is closed and empty.              *)
Write(c) ==
    /\ db.writer[c] = "runs"
    /\ \/ /\ db.queue[c] > 0
          /\ \E next \in IF db.reader[c] = "done" THEN {"done"} ELSE {"runs", "done"} :
                db' = [db EXCEPT !.queue[c] = @ - 1, !.writer[c] = next]
       \/ /\ db.queue[c] = 0 /\ db.closes[c] > 0
          /\ db' = [db EXCEPT !.writer[c] = "done"]

----
(* WebSocketHub.Run *)
Closed(S) == [c \in Conns |-> IF c \in S THEN db.closes[c] + 1 ELSE db.closes[c]]

Register(c) ==
    /\ db.up /\ c \in db.asked
    /\ db' = [db EXCEPT !.asked = @ \ {c}, !.clients = @ \cup {c}]

\* Mutant of Leaving: a connection that was dropped already is closed again.
LeavingAlways(c) == {c}

Leaving(c) == {c} \cap db.clients

Unregister(c) ==
    /\ db.up /\ c \in db.left
    /\ db' = [db EXCEPT !.left = @ \ {c}, !.clients = @ \ {c}, !.closes = Closed(Leaving(c))]

(* A message goes to every client; one whose channel is full is dropped. *)
FanOut ==
    LET slow == {c \in db.clients : db.queue[c] = Room} IN
    /\ db.up /\ db.backlog > 0
    /\ db' = [db EXCEPT !.backlog = @ - 1, !.clients = @ \ slow, !.closes = Closed(slow),
                        !.queue = [c \in Conns |-> IF c \in db.clients \ slow THEN @[c] + 1 ELSE @[c]],
                        !.lost = @ \/ \E c \in db.clients : db.closes[c] > 0]

Stop ==
    /\ db.up
    /\ db' = [db EXCEPT !.up = FALSE, !.clients = {}, !.closes = Closed(db.clients)]

Next ==
    \/ FanOut \/ Stop
    \/ \E c \in Conns : \/ HandleWebSocket(c) \/ Broadcast(c) \/ StopReading(c) \/ Write(c)
                        \/ Register(c) \/ Unregister(c)

----
TypeOK == db.clients \subseteq Conns /\ db.backlog \in 0..Backlog

(* No send channel is closed twice or sent to after it was closed, in        *)
(* whatever order the hub hears of connecting, leaving, slow readers and the *)
(* end; and a registered connection's channel is open.                       *)
ChannelsSafe ==
    /\ ~db.lost
    /\ \A c \in Conns : db.closes[c] <= 1 /\ (c \in db.clients => db.closes[c] = 0)
====
