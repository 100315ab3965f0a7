----------------------- MODULE PersistentConnections -----------------------
(***************************************************************************)
(* The command relay of blind-eternities.                                  *)
(*                                                                         *)
(* Every device runs a spark daemon that keeps one socket.io connection to *)
(* the server (spark/src/daemon/persistent_conn.rs).  The server numbers   *)
(* the connections with a process-wide Generation counter and keeps them   *)
(* in the socket.io namespace (server/src/persistent_connections/).  An    *)
(* HTTP request to /persistent-connections/ws/send/{hostname} is relayed   *)
(* to the connection of that host with the highest generation, and waits   *)
(* at most sixty seconds for the acknowledgement that carries the answer   *)
(* (server/src/routes/persistent_connections.rs).                          *)
(*                                                                         *)
(* socketioxide and rust_socketio are not part of the repository.  They    *)
(* appear here as the code uses them: a registry of connected sockets, a   *)
(* bounded outgoing channel per socket, an acknowledgement matched by its  *)
(* number, a disconnection noticed some time after it happened, and a      *)
(* client that reconnects.                                                 *)
(***************************************************************************)
EXTENDS Integers, Sequences, FiniteSets

CONSTANTS
  Hosts,         \* the devices, by hostname
  Requests,      \* the HTTP requests sent to the relay, one command each
  Garbled,       \* requests whose command the device's build cannot decode
  Opaque,        \* requests whose response the server's build cannot decode
  ChannelSize,   \* capacity of a socket's outgoing channel
  MaxSockets,    \* bound: connection attempts, over all devices
  MaxRestarts,   \* bound: restarts of the server process
  None           \* no host, no request

ASSUME RelayAssumption ==
  /\ Garbled \subseteq Requests
  /\ Opaque \subseteq Requests
  /\ ChannelSize \in Nat \ {0}
  /\ MaxSockets \in Nat
  /\ MaxRestarts \in Nat
  /\ None \notin Hosts \cup Requests

\* Connection attempts are numbered in the order the devices make them.
Sockets == 1 .. MaxSockets

NoSocket == 0
NoGen    == -1
NoAck    == -1

VARIABLES
  sock,      \* where the server stands with each connection
  peer,      \* the hostname in the connection's query string
  gen,       \* its Generation extension
  before,    \* history: sockets already connected when this attempt began
  nextGen,   \* the static counter behind Generation::next
  gauge,     \* the persistent_connections metric
  restarts,  \* restarts of the server so far
  opened,    \* connection attempts so far
  link,      \* the connection each device holds, or NoSocket
  inbox,     \* per socket, commands emitted and not yet handled
  acks,      \* per socket, acknowledgements on their way to the server
  nextAck,   \* per socket, the next acknowledgement number
  phase,     \* progress of each request through ws_send
  dest,      \* the hostname each request names
  target,    \* the socket ws_send chose for it
  ackId,     \* the acknowledgement number it waits for, once emitted
  answer,    \* the HTTP answer
  body,      \* the request whose response the answer carries
  runs       \* history: the hosts that executed the command, in order

serverVars  == <<sock, peer, gen, before, nextGen, gauge, restarts>>
deviceVars  == <<opened, link>>
wireVars    == <<inbox, acks, nextAck>>
requestVars == <<phase, dest, target, ackId, answer, body>>
vars == <<serverVars, deviceVars, wireVars, requestVars, runs>>

SocketStates == {"unused", "handshake", "named", "connected", "closed"}
Phases       == {"idle", "chosen", "waiting", "answered"}
Answers      == {"none", "ok", "not_found", "closed", "too_many", "timeout",
                 "undecodable", "abandoned", "reset"}
Command      == [ack : Nat, req : Requests]

ServerTypes ==
  /\ sock     \in [Sockets -> SocketStates]
  /\ peer     \in [Sockets -> Hosts \cup {None}]
  /\ gen      \in [Sockets -> Nat \cup {NoGen}]
  /\ before   \in [Sockets -> SUBSET Sockets]
  /\ nextGen  \in Nat
  /\ gauge    \in Int
  /\ restarts \in 0 .. MaxRestarts

DeviceTypes ==
  /\ opened   \in 0 .. MaxSockets
  /\ link     \in [Hosts -> Sockets \cup {NoSocket}]

WireTypes ==
  /\ inbox    \in [Sockets -> Seq(Command)]
  /\ acks     \in [Sockets -> SUBSET Command]
  /\ nextAck  \in [Sockets -> Nat]

RequestTypes ==
  /\ phase    \in [Requests -> Phases]
  /\ dest     \in [Requests -> Hosts \cup {None}]
  /\ target   \in [Requests -> Sockets \cup {NoSocket}]
  /\ ackId    \in [Requests -> Nat \cup {NoAck}]
  /\ answer   \in [Requests -> Answers]
  /\ body     \in [Requests -> Requests \cup {None}]
  /\ runs     \in [Requests -> Seq(Hosts)]

TypeOK == ServerTypes /\ DeviceTypes /\ WireTypes /\ RequestTypes

Init ==
  /\ sock     = [s \in Sockets |-> "unused"]
  /\ peer     = [s \in Sockets |-> None]
  /\ gen      = [s \in Sockets |-> NoGen]
  /\ before   = [s \in Sockets |-> {}]
  /\ nextGen  = 0
  /\ gauge    = 0
  /\ restarts = 0
  /\ opened   = 0
  /\ link     = [h \in Hosts |-> NoSocket]
  /\ inbox    = [s \in Sockets |-> <<>>]
  /\ acks     = [s \in Sockets |-> {}]
  /\ nextAck  = [s \in Sockets |-> 0]
  /\ phase    = [r \in Requests |-> "idle"]
  /\ dest     = [r \in Requests |-> None]
  /\ target   = [r \in Requests |-> NoSocket]
  /\ ackId    = [r \in Requests |-> NoAck]
  /\ answer   = [r \in Requests |-> "none"]
  /\ body     = [r \in Requests |-> None]
  /\ runs     = [r \in Requests |-> <<>>]

-----------------------------------------------------------------------------
\* The namespace's registry, as sockets() lists it.
Connected == {s \in Sockets : sock[s] = "connected"}

\* The connections ws_send finds for a hostname.
Of(h) == {s \in Connected : peer[s] = h}

\* The connection is the one its device holds.
Held(s) == \E h \in Hosts : link[h] = s

\* The devices that still have to make a new connection attempt.
Disconnected == {h \in Hosts : \/ link[h] = NoSocket
                               \/ sock[link[h]] = "closed"}

\* Bound: a connection is only lost while attempts remain to replace it.
AttemptsLeft(n) == opened + Cardinality(Disconnected) + n <= MaxSockets

\* ws_send returns the HTTP answer a.
Answer(r, a) ==
  /\ phase'  = [phase EXCEPT ![r] = "answered"]
  /\ answer' = [answer EXCEPT ![r] = a]

-----------------------------------------------------------------------------
(***************************************************************************)
(* Faulty variants of the actions below, each a mistake the code avoids.   *)
(* No specification uses them: they show that the properties at the end    *)
(* of this module can fail.                                                *)
(***************************************************************************)

\* A command that timed out is sent again.
RetryAfterTimeout(r) ==
  /\ phase[r] = "waiting"
  /\ phase' = [phase EXCEPT ![r] = "chosen"]
  /\ UNCHANGED <<serverVars, deviceVars, wireVars, dest, target, ackId, answer,
                 body, runs>>

\* No timeout on the acknowledgement.
WaitForEver(r) == FALSE /\ UNCHANGED vars

\* Acknowledgement numbers are reused.
EmitSameAck(r) ==
  LET s == target[r]
  IN /\ phase[r] = "chosen"
     /\ sock[s] = "connected"
     /\ inbox' = [inbox EXCEPT ![s] = Append(@, [ack |-> nextAck[s], req |-> r])]
     /\ ackId' = [ackId EXCEPT ![r] = nextAck[s]]
     /\ phase' = [phase EXCEPT ![r] = "waiting"]
     /\ UNCHANGED <<serverVars, deviceVars, acks, nextAck, dest, target, answer,
                    body, runs>>

\* Every end of a connection takes the gauge down, counted or not.
AbortTakesGauge(s) ==
  /\ sock[s] \in {"handshake", "named"}
  /\ ~Held(s)
  /\ sock'  = [sock EXCEPT ![s] = "closed"]
  /\ gauge' = gauge - 1
  /\ UNCHANGED <<peer, gen, before, nextGen, restarts, deviceVars, wireVars,
                 requestVars, runs>>

\* Any connection of the host will do.
AnyOf(h, s) == s \in Of(h)

\* The device acknowledges what it could not decode as if it had executed it.
HandlerAlwaysAcks(s) ==
  /\ inbox[s] # <<>>
  /\ Held(s)
  /\ inbox' = [inbox EXCEPT ![s] = Tail(@)]
  /\ acks'  = [acks EXCEPT ![s] = @ \cup {Head(inbox[s])}]
  /\ runs'  = IF Head(inbox[s]).req \in Garbled THEN runs
              ELSE [runs EXCEPT ![Head(inbox[s]).req] = Append(@, peer[s])]
  /\ UNCHANGED <<serverVars, deviceVars, nextAck, requestVars>>

\* A command that does not decode takes the whole event loop down.
HandlerDiesOnGarbled(s) ==
  /\ inbox[s] # <<>>
  /\ Held(s)
  /\ Head(inbox[s]).req \notin Garbled
  /\ inbox' = [inbox EXCEPT ![s] = Tail(@)]
  /\ acks'  = [acks EXCEPT ![s] = @ \cup {Head(inbox[s])}]
  /\ runs'  = [runs EXCEPT ![Head(inbox[s]).req] = Append(@, peer[s])]
  /\ UNCHANGED <<serverVars, deviceVars, nextAck, requestVars>>

\* The daemon connects once and never again.
ConnectOnce(h) ==
  /\ link[h] = NoSocket
  /\ \A s \in Sockets : peer[s] # h
  /\ opened < MaxSockets
  /\ LET s == opened + 1
     IN /\ link'   = [link EXCEPT ![h] = s]
        /\ sock'   = [sock EXCEPT ![s] = "handshake"]
        /\ peer'   = [peer EXCEPT ![s] = h]
        /\ before' = [before EXCEPT ![s] = Connected]
        /\ opened' = s
  /\ UNCHANGED <<gen, nextGen, gauge, restarts, wireVars, requestVars, runs>>

-----------------------------------------------------------------------------
(***************************************************************************)
(* Connections.                                                            *)
(***************************************************************************)

\* The one it picks: filter by hostname, then max_by_key(generation).
Newest(h, s) == /\ s \in Of(h)
                /\ \A t \in Of(h) : gen[t] <= gen[s]

\* A daemon without a connection starts one, in run at start-up or in the
\* client library after a loss.
Connect(h) ==
  /\ link[h] = NoSocket
  /\ opened < MaxSockets
  /\ LET s == opened + 1
     IN /\ link'   = [link EXCEPT ![h] = s]
        /\ sock'   = [sock EXCEPT ![s] = "handshake"]
        /\ peer'   = [peer EXCEPT ![s] = h]
        /\ before' = [before EXCEPT ![s] = Connected]
        /\ opened' = s
  /\ UNCHANGED <<gen, nextGen, gauge, restarts, wireVars, requestVars, runs>>

\* auth_middleware waits for the database and lets everyone through; then
\* hostname_middleware counts the connection and numbers it.  Every spark gives
\* its hostname; a connection without one is refused uncounted, before it is in
\* any list, and is left out.
HostnameMiddleware(s) ==
  /\ sock[s] = "handshake"
  /\ sock'    = [sock EXCEPT ![s] = "named"]
  /\ gauge'   = gauge + 1
  /\ gen'     = [gen EXCEPT ![s] = nextGen]
  /\ nextGen' = nextGen + 1
  /\ UNCHANGED <<peer, before, restarts, deviceVars, wireVars, requestVars, runs>>

\* The middlewares passed: the socket enters the namespace and on_connect
\* installs the disconnect handler.
OnConnect(s) ==
  /\ sock[s] = "named"
  /\ sock' = [sock EXCEPT ![s] = "connected"]
  /\ UNCHANGED <<peer, gen, before, nextGen, gauge, restarts, deviceVars,
                 wireVars, requestVars, runs>>

\* The device left during the handshake and the library gives the connection
\* up.  on_connect never runs, so nothing takes back the gauge.
AbortHandshake(s) ==
  /\ sock[s] \in {"handshake", "named"}
  /\ ~Held(s)
  /\ sock' = [sock EXCEPT ![s] = "closed"]
  /\ UNCHANGED <<peer, gen, before, nextGen, gauge, restarts, deviceVars,
                 wireVars, requestVars, runs>>

\* The server drops a connection from the namespace: the on_disconnect closure.
OnDisconnect(s) ==
  /\ sock[s] = "connected"
  /\ sock'  = [sock EXCEPT ![s] = "closed"]
  /\ gauge' = gauge - 1
  /\ UNCHANGED <<peer, gen, before, nextGen, restarts, deviceVars, wireVars,
                 requestVars, runs>>

\* The heartbeat finds that the device is gone, or misses a device that is not.
PeerGone(s)        == ~Held(s) /\ OnDisconnect(s)
HeartbeatMissed(s) == Held(s) /\ AttemptsLeft(1) /\ OnDisconnect(s)

\* The device crashes or loses the network: what it had not handled is lost,
\* and so may be acknowledgements it had already sent.
LoseLink(h) ==
  /\ link[h] # NoSocket
  /\ AttemptsLeft(1)
  /\ link'  = [link EXCEPT ![h] = NoSocket]
  /\ inbox' = [inbox EXCEPT ![link[h]] = <<>>]
  /\ \E kept \in SUBSET acks[link[h]] : acks' = [acks EXCEPT ![link[h]] = kept]
  /\ UNCHANGED <<serverVars, opened, nextAck, requestVars, runs>>

\* The device notices that the server closed its connection.
NoticeClosed(h) ==
  /\ link[h] # NoSocket
  /\ sock[link[h]] = "closed"
  /\ link'  = [link EXCEPT ![h] = NoSocket]
  /\ inbox' = [inbox EXCEPT ![link[h]] = <<>>]
  /\ UNCHANGED <<serverVars, opened, acks, nextAck, requestVars, runs>>

\* The server process restarts.  The generation counter and the gauge are
\* process state; the HTTP clients of unfinished requests see a reset.
ServerRestart ==
  /\ restarts < MaxRestarts
  /\ opened + Cardinality(Hosts) <= MaxSockets
  /\ restarts' = restarts + 1
  /\ sock'     = [s \in Sockets |-> IF sock[s] = "unused" THEN "unused" ELSE "closed"]
  /\ nextGen'  = 0
  /\ gauge'    = 0
  /\ phase'    = [r \in Requests |-> IF phase[r] = "idle" THEN "idle" ELSE "answered"]
  /\ answer'   = [r \in Requests |-> IF phase[r] \in {"chosen", "waiting"}
                                     THEN "reset" ELSE answer[r]]
  /\ UNCHANGED <<peer, gen, before, deviceVars, wireVars, dest, target, ackId,
                 body, runs>>

-----------------------------------------------------------------------------
(***************************************************************************)
(* ws_send, the HTTP handler.                                              *)
(***************************************************************************)

\* A request for h arrives and reads the namespace: a socket, or 404.
SelectSocket(r, h) ==
  /\ phase[r] = "idle"
  /\ dest' = [dest EXCEPT ![r] = h]
  /\ \/ \E s \in Sockets :
          /\ Newest(h, s)
          /\ target' = [target EXCEPT ![r] = s]
          /\ phase'  = [phase EXCEPT ![r] = "chosen"]
          /\ UNCHANGED answer
     \/ /\ Of(h) = {}
        /\ Answer(r, "not_found")
        /\ UNCHANGED target
  /\ UNCHANGED <<serverVars, deviceVars, wireVars, ackId, body, runs>>

\* emit_with_ack on the chosen socket.  Nothing holds the namespace since it
\* was read: the socket may have closed, and its channel may be full.  The
\* library takes a place in the channel before it puts the command there, so
\* that a full one is told here, as a SendError, and never by the future: the
\* arm of ws_send for AckError::Socket(InternalChannelFull), which would answer
\* 429 for a command that was sent, is taken to be out of reach.
Emit(r) ==
  LET s == target[r]
  IN /\ phase[r] = "chosen"
     /\ \/ /\ sock[s] = "closed"
           /\ Answer(r, "closed")
           /\ UNCHANGED <<inbox, nextAck, ackId>>
        \/ /\ sock[s] = "connected"
           /\ Len(inbox[s]) >= ChannelSize
           /\ Answer(r, "too_many")
           /\ UNCHANGED <<inbox, nextAck, ackId>>
        \/ /\ sock[s] = "connected"
           /\ Len(inbox[s]) < ChannelSize
           /\ inbox'   = [inbox EXCEPT ![s] = Append(@, [ack |-> nextAck[s], req |-> r])]
           /\ nextAck' = [nextAck EXCEPT ![s] = @ + 1]
           /\ ackId'   = [ackId EXCEPT ![r] = nextAck[s]]
           /\ phase'   = [phase EXCEPT ![r] = "waiting"]
           /\ UNCHANGED answer
     /\ UNCHANGED <<serverVars, deviceVars, acks, dest, target, body, runs>>

\* An acknowledgement reaches the server.  It answers the request that waits
\* for its number on its socket; one that nobody waits for is dropped.
ReceiveAck(s, a) ==
  /\ a \in acks[s]
  /\ acks' = [acks EXCEPT ![s] = @ \ {a}]
  /\ LET waiting == {r \in Requests : /\ phase[r] = "waiting"
                                      /\ target[r] = s
                                      /\ ackId[r] = a.ack
                                      /\ sock[s] = "connected"}
     IN \/ /\ waiting = {}
           /\ UNCHANGED <<phase, answer, body>>
        \/ \E r \in waiting :
             \/ /\ a.req \in Opaque
                /\ Answer(r, "undecodable")
                /\ UNCHANGED body
             \/ /\ a.req \notin Opaque
                /\ Answer(r, "ok")
                /\ body' = [body EXCEPT ![r] = a.req]
  /\ UNCHANGED <<serverVars, deviceVars, inbox, nextAck, dest, target, ackId, runs>>

\* Sixty seconds went by without an acknowledgement.
AckTimeout(r) ==
  /\ phase[r] = "waiting"
  /\ Answer(r, "timeout")
  /\ UNCHANGED <<serverVars, deviceVars, wireVars, dest, target, ackId, body, runs>>

\* The library may tell a waiting request that its socket closed: of the errors
\* in AckError::Socket the only one that can come once the command was sent.
AckClosed(r) ==
  /\ phase[r] = "waiting"
  /\ sock[target[r]] = "closed"
  /\ Answer(r, "closed")
  /\ UNCHANGED <<serverVars, deviceVars, wireVars, dest, target, ackId, body, runs>>

\* The HTTP client hangs up while the handler awaits; the handler is dropped.
ClientGone(r) ==
  /\ phase[r] = "waiting"
  /\ Answer(r, "abandoned")
  /\ UNCHANGED <<serverVars, deviceVars, wireVars, dest, target, ackId, body, runs>>

-----------------------------------------------------------------------------
(***************************************************************************)
(* handler, on the device.                                                 *)
(***************************************************************************)

\* The next command is decoded, executed and acknowledged under the number it
\* came with.  One that does not decode is logged and not acknowledged.
Handler(s) ==
  /\ inbox[s] # <<>>
  /\ Held(s)
  /\ inbox' = [inbox EXCEPT ![s] = Tail(@)]
  /\ LET command == Head(inbox[s])
     IN \/ /\ command.req \in Garbled
           /\ UNCHANGED <<acks, runs>>
        \/ /\ command.req \notin Garbled
           /\ runs' = [runs EXCEPT ![command.req] = Append(@, peer[s])]
           /\ acks' = [acks EXCEPT ![s] = @ \cup {command}]
  /\ UNCHANGED <<serverVars, deviceVars, nextAck, requestVars>>

-----------------------------------------------------------------------------

Next ==
  \/ \E h \in Hosts : Connect(h) \/ LoseLink(h) \/ NoticeClosed(h)
  \/ \E s \in Sockets : \/ HostnameMiddleware(s) \/ OnConnect(s) \/ AbortHandshake(s)
                        \/ PeerGone(s) \/ HeartbeatMissed(s) \/ Handler(s)
  \/ \E s \in Sockets : \E a \in acks[s] : ReceiveAck(s, a)
  \/ \E r \in Requests : \E h \in Hosts : SelectSocket(r, h)
  \/ \E r \in Requests : Emit(r) \/ AckTimeout(r) \/ AckClosed(r) \/ ClientGone(r)
  \/ ServerRestart

Spec == Init /\ [][Next]_vars

\* Timers fire, spawned tasks run, and a daemon keeps trying to connect: start
\* loops for ever and so does the client's reconnection.  Requests, losses and
\* restarts are not promised.
Fairness ==
  /\ \A h \in Hosts : WF_vars(Connect(h)) /\ WF_vars(NoticeClosed(h))
  /\ \A s \in Sockets : /\ WF_vars(HostnameMiddleware(s)) /\ WF_vars(OnConnect(s))
                        /\ WF_vars(PeerGone(s)) /\ WF_vars(Handler(s))
  /\ \A r \in Requests : WF_vars(Emit(r)) /\ WF_vars(AckTimeout(r))

FairSpec == Spec /\ Fairness

-----------------------------------------------------------------------------
(***************************************************************************)
(* Properties.                                                             *)
(***************************************************************************)

\* Lost links, late acknowledgements and restarts never make a command run
\* twice, and it only runs on the host the request named.
RunsOnceWhereAsked ==
  \A r \in Requests : /\ Len(runs[r]) <= 1
                      /\ \A i \in 1 .. Len(runs[r]) : runs[r][i] = dest[r]

\* A 200 answer carries the response the device computed for that very
\* command, also when acknowledgements arrive late or out of order.
OkAnswersAsked ==
  \A r \in Requests : answer[r] = "ok" => body[r] = r /\ runs[r] # <<>>

\* A client told 404 or 429 may try again: its command has not run and never
\* will.  (A 500 "socket closed" is given before and after sending alike.)
RefusedNeverRuns ==
  \A r \in Requests : answer[r] \in {"not_found", "too_many"} => runs[r] = <<>>

\* The persistent_connections metric never undercounts.  It may overcount: a
\* device that leaves during its handshake is never taken back.
GaugeCoversConnections == gauge >= Cardinality(Connected)

\* A request is never given a connection when the server has, from the same
\* host, another that began after the first was established: a connection the
\* device has replaced gets no new commands, noticed dead or not.
NewestConnectionServes ==
  [][\A r \in Requests : \A s, t \in Sockets :
       (phase[r] = "idle" /\ phase'[r] = "chosen" /\ target'[r] = s
          /\ t \in Connected /\ peer[t] = peer[s])
       => s \notin before[t]]_vars

\* Every request the relay accepted is answered.
EveryRequestAnswered ==
  \A r \in Requests : phase[r] \in {"chosen", "waiting"} ~> phase[r] = "answered"

\* A command sent on the connection its device holds is executed unless the
\* device loses that connection first or cannot decode the command; a command
\* that does not decode holds up none behind it.
DeliveredUnlessDropped ==
  \A r \in Requests \ Garbled : \A h \in Hosts : \A s \in Sockets :
    (ackId[r] # NoAck /\ target[r] = s /\ link[h] = s)
       ~> (runs[r] # <<>> \/ link[h] # s)

\* Once connections stop failing, requests for a host find the connection its
\* device holds, even if an abandoned handshake got a higher generation.
ReachableAtLast ==
  <>[](\A h \in Hosts : link[h] # NoSocket /\ Newest(h, link[h]))

\* The relay keeps the promises of CommandRelay.
Relay == INSTANCE CommandRelay WITH
  status   <- [r \in Requests |-> IF ackId[r] # NoAck THEN "sent"
                                  ELSE IF answer[r] # "none" THEN "refused"
                                  ELSE "new"],
  executed <- [r \in Requests |-> runs[r] # <<>>],
  outcome  <- answer

RelaySpec == Relay!Spec
=============================================================================
