----------------------------- MODULE Broadcaster -----------------------------
(***************************************************************************)
(* src/internal/websocket/broadcaster.ts and src/routes/websocket.ts: the  *)
(* WebSocket connections of one instance, the set of those that follow     *)
(* each auction, the gauge that counts them, and the heartbeat.            *)
(*                                                                         *)
(*   absent -> open -> closing -> closed                                   *)
(*                                                                         *)
(* A socket is closing from the moment the client, an error, the heartbeat *)
(* or the server ends it to the close event.  Fan-out may meet it there.   *)
(* What a message says is in BidProcessor and LotCloser; that ws never     *)
(* throws when it sends on an open socket is taken from the library.       *)
(***************************************************************************)
EXTENDS Integers, FiniteSets

CONSTANTS
  Sockets,    \* the connections that clients may make
  RoomOf      \* socket -> the auction it follows

VARIABLES
  sock,          \* socket -> its state
  mapped,        \* the auctions that have an entry in the map connections
  connections,   \* auction -> its registered sockets
  gauge          \* websocket_connections_active

mapVars == <<mapped, connections, gauge>>
broadcasterVars == <<sock, mapVars>>

ASSUME BroadcasterAssumption == IsFiniteSet(Sockets)

Rooms == {RoomOf[s] : s \in Sockets}

(* pinged: the pong timeout is pending.  silent: the client is gone and    *)
(* will not say so.  failed and swept record that the error event came and *)
(* that fan-out found the socket dead.                                     *)
Socket ==
  [state: {"absent", "open", "closing", "closed"}, alive: BOOLEAN,
   pinged: BOOLEAN, silent: BOOLEAN, failed: BOOLEAN, swept: BOOLEAN]

Absent ==
  [state |-> "absent", alive |-> TRUE, pinged |-> FALSE, silent |-> FALSE,
   failed |-> FALSE, swept |-> FALSE]

BroadcasterInit ==
  /\ sock = [s \in Sockets |-> Absent]
  /\ mapped = {}
  /\ connections = [a \in Rooms |-> {}]
  /\ gauge = 0

Up(s) == sock[s].state \in {"open", "closing"}

(* addConnection, and the heartbeat is set up.                             *)
Connect(s) ==
  /\ sock[s].state = "absent"
  /\ sock' = [sock EXCEPT ![s].state = "open"]
  /\ mapped' = mapped \cup {RoomOf[s]}
  /\ connections' = [connections EXCEPT ![RoomOf[s]] = @ \cup {s}]
  /\ gauge' = gauge + 1

(* Mutant: the gauge is forgotten.                                         *)
RemoveUncounted(s) ==
  /\ connections' = [connections EXCEPT ![RoomOf[s]] = @ \ {s}]
  /\ mapped' = mapped \ {a \in {RoomOf[s]} : connections[a] \subseteq {s}}
  /\ UNCHANGED gauge

(* removeConnection: if the auction has an entry the gauge falls, whether  *)
(* or not the socket is in the set, and an empty entry is deleted.         *)
RemoveConnection(s) ==
  /\ connections' = [connections EXCEPT ![RoomOf[s]] = @ \ {s}]
  /\ mapped' = mapped \ {a \in {RoomOf[s]} : connections[a] \subseteq {s}}
  /\ gauge' = IF RoomOf[s] \in mapped THEN gauge - 1 ELSE gauge

(* The interval pings a client that answered the last ping; the pong       *)
(* timeout, which is shorter, has already dealt with one that did not.     *)
Heartbeat(s) ==
  /\ Up(s) /\ ~sock[s].failed
  /\ sock[s].alive /\ ~sock[s].pinged
  /\ sock' = [sock EXCEPT ![s].alive = FALSE, ![s].pinged = TRUE]
  /\ UNCHANGED mapVars

Pong(s) ==
  /\ sock[s].state = "open"
  /\ ~sock[s].silent /\ ~sock[s].alive
  /\ sock' = [sock EXCEPT ![s].alive = TRUE, ![s].pinged = FALSE]
  /\ UNCHANGED mapVars

(* Mutant: the timeout does not end the connection.                        *)
PongTimeoutIgnored(s) ==
  /\ Up(s) /\ sock[s].pinged
  /\ sock' = [sock EXCEPT ![s].pinged = FALSE]
  /\ UNCHANGED mapVars

(* socket.terminate()                                                      *)
PongTimeout(s) ==
  /\ Up(s) /\ sock[s].pinged
  /\ sock' = [sock EXCEPT ![s].pinged = FALSE, ![s].state = "closing"]
  /\ UNCHANGED mapVars

(* The client's network is lost, without a word.                           *)
GoSilent(s) ==
  /\ sock[s].state = "open"
  /\ ~sock[s].silent
  /\ sock' = [sock EXCEPT ![s].silent = TRUE]
  /\ UNCHANGED mapVars

ClientCloses(s) ==
  /\ sock[s].state = "open"
  /\ ~sock[s].silent
  /\ sock' = [sock EXCEPT ![s].state = "closing"]
  /\ UNCHANGED mapVars

(* The error event; the close event follows.                               *)
SocketError(s) ==
  /\ Up(s) /\ ~sock[s].failed
  /\ sock' = [sock EXCEPT ![s].failed = TRUE, ![s].pinged = FALSE, ![s].state = "closing"]
  /\ RemoveConnection(s)

CloseEvent(s) ==
  /\ sock[s].state = "closing"
  /\ sock' = [sock EXCEPT ![s].state = "closed", ![s].pinged = FALSE]
  /\ RemoveConnection(s)

(* Mutant: fan-out takes a socket for dead that does not answer a ping.    *)
DeadIfUnanswered(a) ==
  {s \in connections[a] : sock[s].state # "open" \/ ~sock[s].alive}

Dead(a) == {s \in connections[a] : sock[s].state # "open"}

(* A message is fanned out, and the dead sockets it meets are removed; the *)
(* entry of the auction stays even if it is empty.                         *)
FanOut(a) ==
  /\ Dead(a) # {}
  /\ connections' = [connections EXCEPT ![a] = @ \ Dead(a)]
  /\ gauge' = gauge - Cardinality(Dead(a))
  /\ sock' = [s \in Sockets |-> [sock[s] EXCEPT !.swept = @ \/ s \in Dead(a)]]
  /\ UNCHANGED mapped

(* Mutant: the server leaves its clients connected when it closes.         *)
KeepSockets == UNCHANGED sock

(* app.close() closes every client.                                        *)
CloseAllSockets ==
  sock' = [s \in Sockets |->
             [sock[s] EXCEPT !.state = IF @ = "open" THEN "closing" ELSE @]]

SocketTimers(s) == Heartbeat(s) \/ PongTimeout(s) \/ CloseEvent(s)

SocketStep(s) ==
  \/ SocketTimers(s)
  \/ Pong(s) \/ GoSilent(s) \/ ClientCloses(s) \/ SocketError(s)

-----------------------------------------------------------------------------
(* Properties.                                                             *)

Registered == UNION {connections[a] : a \in Rooms}

BroadcasterTypeOK ==
  /\ sock \in [Sockets -> Socket]
  /\ mapped \subseteq Rooms
  /\ connections \in [Rooms -> SUBSET Sockets]
  /\ gauge \in Int

(* Fan-out reaches every open connection of an auction, and the server     *)
(* keeps no connection whose close event has come.                         *)
OpenSocketsAreRegistered ==
  /\ \A s \in Sockets : sock[s].state = "open" => s \in Registered
  /\ \A a \in Rooms : \A s \in connections[a] : a \in mapped /\ RoomOf[s] = a /\ Up(s)

(* The gauge never shows more connections than there are, and falls short  *)
(* only by those that an error or fan-out removed before their close event *)
(* removed them again.                                                     *)
GaugeErrsLow ==
  LET count == Cardinality(Registered) IN
  /\ gauge <= count
  /\ gauge >= count - Cardinality({s \in Sockets : sock[s].failed})
                    - Cardinality({s \in Sockets : sock[s].swept})

(* A client that is gone without a word is found out by the heartbeat.     *)
SilentClientsAreDropped ==
  \A s \in Sockets : sock[s].silent ~> sock[s].state = "closed"
=============================================================================
