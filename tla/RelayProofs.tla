---------------------------- MODULE RelayProofs -----------------------------
(***************************************************************************)
(* Proofs about PersistentConnections, for any hosts, requests, channel    *)
(* size and bounds.  The invariants are established in layers, each used   *)
(* by the next: types and connection attempts, then the generations and    *)
(* the gauge, then the commands: they run at most once and where they were *)
(* sent, answers are those of the request's own command, and the relay     *)
(* implements CommandRelay.                                                *)
(***************************************************************************)
EXTENDS PersistentConnections, FiniteSetTheorems, TLAPS

\* Connection attempts are made in order, and by devices.
AttemptsInOrder ==
  /\ \A s \in Sockets : sock[s] # "unused" <=> s <= opened
  /\ \A s \in Sockets : s <= opened => peer[s] \in Hosts
  /\ \A h \in Hosts : link[h] <= opened

\* ws_send has a socket when it emits.
ChosenHaveTargets ==
  \A r \in Requests : phase[r] \in {"chosen", "waiting"} => target[r] \in Sockets

TypeInv == TypeOK /\ AttemptsInOrder /\ ChosenHaveTargets

LEMMA InitTypeInv == Init => TypeInv
BY RelayAssumption
   DEF Init, TypeInv, TypeOK, ServerTypes, DeviceTypes, WireTypes, RequestTypes,
       AttemptsInOrder, ChosenHaveTargets, Sockets, SocketStates, Phases, Answers, Command,
       NoSocket, NoGen, NoAck

\* Each action preserves the types of the variables it changes.
LEMMA NextServerTypes ==
  TypeInv /\ [Next]_vars => ServerTypes'
<1> SUFFICES ASSUME TypeInv, [Next]_vars PROVE ServerTypes'
  OBVIOUS
<1> USE RelayAssumption DEF TypeInv, TypeOK, ServerTypes, SocketStates, NoGen
<1>1. ASSUME UNCHANGED serverVars PROVE ServerTypes'
  BY <1>1 DEF serverVars
<1>2. ASSUME NEW h \in Hosts, Connect(h) PROVE ServerTypes'
  <2>1. opened + 1 \in Sockets /\ Connected \in SUBSET Sockets
    BY <1>2 DEF Connect, Connected, DeviceTypes, Sockets
  <2> QED BY <1>2, <2>1 DEF Connect
<1>3. ASSUME NEW s \in Sockets,
             \/ HostnameMiddleware(s) \/ OnConnect(s) \/ AbortHandshake(s)
             \/ PeerGone(s) \/ HeartbeatMissed(s)
      PROVE  ServerTypes'
  BY <1>3 DEF HostnameMiddleware, OnConnect, AbortHandshake, PeerGone, HeartbeatMissed,
              OnDisconnect
<1>4. CASE ServerRestart
  BY <1>4 DEF ServerRestart
<1> QED
  BY <1>1, <1>2, <1>3, <1>4
  DEF Next, vars, LoseLink, NoticeClosed, Handler, ReceiveAck, SelectSocket, Emit,
      AckTimeout, AckClosed, ClientGone

LEMMA NextDeviceTypes ==
  TypeInv /\ [Next]_vars => DeviceTypes' /\ AttemptsInOrder'
<1> SUFFICES ASSUME TypeInv, [Next]_vars PROVE DeviceTypes' /\ AttemptsInOrder'
  OBVIOUS
<1> USE RelayAssumption
    DEF TypeInv, TypeOK, ServerTypes, DeviceTypes, AttemptsInOrder, Sockets, NoSocket,
        SocketStates
<1>1. ASSUME UNCHANGED <<serverVars, deviceVars>> PROVE DeviceTypes' /\ AttemptsInOrder'
  BY <1>1 DEF serverVars, deviceVars
<1>2. ASSUME NEW h \in Hosts, Connect(h) PROVE DeviceTypes' /\ AttemptsInOrder'
  BY <1>2 DEF Connect
<1>3. ASSUME NEW s \in Sockets,
             \/ HostnameMiddleware(s) \/ OnConnect(s) \/ AbortHandshake(s)
             \/ PeerGone(s) \/ HeartbeatMissed(s)
      PROVE  DeviceTypes' /\ AttemptsInOrder'
  BY <1>3 DEF HostnameMiddleware, OnConnect, AbortHandshake, PeerGone, HeartbeatMissed,
              OnDisconnect, deviceVars
<1>4. ASSUME NEW h \in Hosts, LoseLink(h) \/ NoticeClosed(h)
      PROVE  DeviceTypes' /\ AttemptsInOrder'
  <2>1. link' = [link EXCEPT ![h] = NoSocket] /\ UNCHANGED <<sock, peer, opened>>
    BY <1>4 DEF LoseLink, NoticeClosed, serverVars
  <2> QED BY <2>1
<1>5. CASE ServerRestart
  BY <1>5 DEF ServerRestart, deviceVars
<1> QED
  BY <1>1, <1>2, <1>3, <1>4, <1>5
  DEF Next, vars, Handler, ReceiveAck, SelectSocket, Emit, AckTimeout, AckClosed,
      ClientGone

LEMMA NextWireTypes ==
  TypeInv /\ [Next]_vars => WireTypes'
<1> SUFFICES ASSUME TypeInv, [Next]_vars PROVE WireTypes'
  OBVIOUS
<1> USE DEF TypeInv, TypeOK, WireTypes
<1>1. ASSUME UNCHANGED wireVars PROVE WireTypes'
  BY <1>1 DEF wireVars
<1>2. ASSUME NEW h \in Hosts, LoseLink(h) \/ NoticeClosed(h) PROVE WireTypes'
  <2> DEFINE s == link[h]
  <2>1. s \in Sockets
    BY <1>2 DEF LoseLink, NoticeClosed, DeviceTypes
  <2>2. inbox' = [inbox EXCEPT ![s] = <<>>] /\ nextAck' = nextAck
    BY <1>2 DEF LoseLink, NoticeClosed
  <2>3. \/ acks' = acks
        \/ \E kept \in SUBSET acks[s] : acks' = [acks EXCEPT ![s] = kept]
    BY <1>2 DEF LoseLink, NoticeClosed
  <2> HIDE DEF s
  <2>4. inbox' \in [Sockets -> Seq(Command)]
    BY <2>1, <2>2
  <2>5. acks' \in [Sockets -> SUBSET Command]
    BY <2>1, <2>3
  <2> QED BY <2>2, <2>4, <2>5
<1>3. ASSUME NEW s \in Sockets, Handler(s) PROVE WireTypes'
  <2>1. inbox[s] \in Seq(Command) /\ inbox[s] # <<>>
    BY <1>3 DEF Handler
  <2>2. Head(inbox[s]) \in Command /\ Tail(inbox[s]) \in Seq(Command)
    BY <2>1
  <2>3. inbox' = [inbox EXCEPT ![s] = Tail(inbox[s])] /\ nextAck' = nextAck
    BY <1>3 DEF Handler
  <2>4. \/ acks' = acks
        \/ acks' = [acks EXCEPT ![s] = acks[s] \cup {Head(inbox[s])}]
    BY <1>3 DEF Handler
  <2>5. inbox' \in [Sockets -> Seq(Command)]
    BY <2>2, <2>3
  <2>6. acks' \in [Sockets -> SUBSET Command]
    BY <2>2, <2>4
  <2> QED BY <2>3, <2>5, <2>6
<1>4. ASSUME NEW s \in Sockets, NEW a \in acks[s], ReceiveAck(s, a) PROVE WireTypes'
  BY <1>4 DEF ReceiveAck
<1>5. ASSUME NEW r \in Requests, Emit(r) PROVE WireTypes'
  <2>1. CASE UNCHANGED wireVars
    BY <1>1, <2>1
  <2>2. CASE ~UNCHANGED wireVars
    <3> DEFINE s == target[r]
    <3>1. s \in Sockets
      BY <1>5 DEF Emit, ChosenHaveTargets
    <3>2. [ack |-> nextAck[s], req |-> r] \in Command
      BY <3>1 DEF Command
    <3>3. /\ inbox' = [inbox EXCEPT ![s] = Append(@, [ack |-> nextAck[s], req |-> r])]
          /\ nextAck' = [nextAck EXCEPT ![s] = @ + 1]
          /\ acks' = acks
      BY <1>5, <2>2 DEF Emit, wireVars
    <3> QED BY <3>1, <3>2, <3>3
  <2> QED BY <2>1, <2>2
<1> QED
  BY <1>1, <1>2, <1>3, <1>4, <1>5
  DEF Next, vars, Connect, HostnameMiddleware, OnConnect, AbortHandshake, PeerGone,
      HeartbeatMissed, OnDisconnect, SelectSocket, AckTimeout, AckClosed, ClientGone,
      ServerRestart

LEMMA NextRequestTypes ==
  TypeInv /\ [Next]_vars => RequestTypes' /\ ChosenHaveTargets'
<1> DEFINE Goal == RequestTypes' /\ ChosenHaveTargets'
<1> SUFFICES ASSUME TypeInv, [Next]_vars PROVE Goal
  OBVIOUS
<1> USE DEF TypeInv, TypeOK, RequestTypes, ChosenHaveTargets, Phases, Answers, NoAck,
            Answer
<1>1. ASSUME UNCHANGED <<requestVars, runs>> PROVE Goal
  BY <1>1 DEF requestVars
<1>2. ASSUME NEW s \in Sockets, Handler(s) PROVE Goal
  <2>1. peer[s] \in Hosts
    BY <1>2, RelayAssumption
    DEF Handler, Held, AttemptsInOrder, DeviceTypes, Sockets, NoSocket
  <2>2. inbox[s] \in Seq(Command) /\ inbox[s] # <<>>
    BY <1>2 DEF Handler, WireTypes
  <2> DEFINE r == Head(inbox[s]).req
  <2>3. Head(inbox[s]) \in Command
    BY <2>2
  <2>4. r \in Requests
    BY <2>3 DEF Command
  <2>5. \/ runs' = runs
        \/ runs' = [runs EXCEPT ![r] = Append(runs[r], peer[s])]
    BY <1>2 DEF Handler
  <2> HIDE DEF r
  <2>6. runs \in [Requests -> Seq(Hosts)] /\ Append(runs[r], peer[s]) \in Seq(Hosts)
    BY <2>1, <2>4
  <2>7. runs' \in [Requests -> Seq(Hosts)]
    BY <2>4, <2>5, <2>6
  <2> QED BY <1>2, <2>7 DEF Handler, requestVars
<1>3. ASSUME NEW s \in Sockets, NEW a \in acks[s], ReceiveAck(s, a) PROVE Goal
  <2>1. a.req \in Requests
    BY DEF Command, WireTypes
  <2> QED BY <1>3, <2>1 DEF ReceiveAck
<1>4. ASSUME NEW r \in Requests, NEW h \in Hosts, SelectSocket(r, h) PROVE Goal
  BY <1>4 DEF SelectSocket
<1>5. ASSUME NEW r \in Requests, Emit(r) PROVE Goal
  <2>1. target[r] \in Sockets /\ nextAck[target[r]] \in Nat
    BY <1>5 DEF Emit, WireTypes
  <2>2. \/ ackId' = ackId
        \/ ackId' = [ackId EXCEPT ![r] = nextAck[target[r]]]
    BY <1>5 DEF Emit
  <2>3. ackId' \in [Requests -> Nat \cup {NoAck}]
    BY <2>1, <2>2
  <2>4. \/ Answer(r, "closed") \/ Answer(r, "too_many")
        \/ phase' = [phase EXCEPT ![r] = "waiting"] /\ answer' = answer
    BY <1>5 DEF Emit
  <2>5. UNCHANGED <<dest, target, body, runs>>
    BY <1>5 DEF Emit
  <2> QED BY <2>1, <2>3, <2>4, <2>5
<1>6. ASSUME NEW r \in Requests, AckTimeout(r) \/ AckClosed(r) \/ ClientGone(r)
      PROVE  Goal
  BY <1>6 DEF AckTimeout, AckClosed, ClientGone
<1>7. CASE ServerRestart
  BY <1>7 DEF ServerRestart
<1> HIDE DEF Goal
<1> QED
  BY <1>1, <1>2, <1>3, <1>4, <1>5, <1>6, <1>7
  DEF Next, vars, Connect, HostnameMiddleware, OnConnect, AbortHandshake, PeerGone,
      HeartbeatMissed, OnDisconnect, LoseLink, NoticeClosed

\* The types hold, whatever the number of hosts, requests and connections.
THEOREM TypeCorrect == Spec => []TypeInv
<1>1. TypeInv /\ [Next]_vars => TypeInv'
  BY NextServerTypes, NextDeviceTypes, NextWireTypes, NextRequestTypes
  DEF TypeInv, TypeOK
<1> QED BY <1>1, InitTypeInv, PTL DEF Spec

-----------------------------------------------------------------------------
(***************************************************************************)
(* Generations.                                                            *)
(***************************************************************************)

\* Numbered connections are older than the next number; a connection another
\* one found in the namespace has been there; and of two that are numbered, the
\* one that found the other has the higher number.
GenerationsGrow ==
  /\ \A s \in Sockets : sock[s] \in {"named", "connected"} =>
       gen[s] \in Nat /\ gen[s] < nextGen
  /\ \A t \in Sockets : \A s \in before[t] : sock[s] \in {"connected", "closed"}
  /\ \A t \in Sockets : \A s \in before[t] :
       (sock[s] = "connected" /\ sock[t] \in {"named", "connected"}) => gen[s] < gen[t]

LEMMA NextGenerationsGrow ==
  TypeInv /\ GenerationsGrow /\ [Next]_vars => GenerationsGrow'
<1> SUFFICES ASSUME TypeInv, GenerationsGrow, [Next]_vars PROVE GenerationsGrow'
  OBVIOUS
<1> USE DEF TypeInv, TypeOK, ServerTypes, SocketStates, GenerationsGrow
<1>1. ASSUME UNCHANGED <<sock, gen, before, nextGen>> PROVE GenerationsGrow'
  BY <1>1
<1>2. ASSUME NEW h \in Hosts, Connect(h) PROVE GenerationsGrow'
  <2> DEFINE s == opened + 1
  <2>1. /\ s \in Sockets /\ sock[s] = "unused"
        /\ sock' = [sock EXCEPT ![s] = "handshake"]
        /\ before' = [before EXCEPT ![s] = Connected]
        /\ UNCHANGED <<gen, nextGen>>
    BY <1>2, RelayAssumption DEF Connect, DeviceTypes, AttemptsInOrder, Sockets
  <2>2. \A t \in Connected : t \in Sockets /\ sock[t] = "connected" /\ t # s
    BY <2>1 DEF Connected
  <2> HIDE DEF s
  <2> QED BY <2>1, <2>2
<1>3. ASSUME NEW s \in Sockets, HostnameMiddleware(s) PROVE GenerationsGrow'
  <2>1. /\ sock[s] = "handshake"
        /\ sock' = [sock EXCEPT ![s] = "named"]
        /\ gen' = [gen EXCEPT ![s] = nextGen]
        /\ nextGen' = nextGen + 1
        /\ before' = before
    BY <1>3 DEF HostnameMiddleware
  <2>2. \A t \in Sockets : sock'[t] \in {"named", "connected"} =>
          gen'[t] \in Nat /\ gen'[t] < nextGen'
    BY <2>1
  <2>3. \A t, u \in Sockets : u \in before'[t] => sock'[u] \in {"connected", "closed"}
    BY <2>1
  <2>4. \A t, u \in Sockets :
          (u \in before'[t] /\ sock'[u] = "connected" /\ sock'[t] \in {"named", "connected"})
            => gen'[u] < gen'[t]
    BY <2>1
  <2> QED BY <2>1, <2>2, <2>3, <2>4
<1>4. ASSUME NEW s \in Sockets, OnConnect(s) PROVE GenerationsGrow'
  BY <1>4 DEF OnConnect
<1>5. ASSUME NEW s \in Sockets, AbortHandshake(s) \/ PeerGone(s) \/ HeartbeatMissed(s)
      PROVE  GenerationsGrow'
  BY <1>5 DEF AbortHandshake, PeerGone, HeartbeatMissed, OnDisconnect
<1>6. CASE ServerRestart
  BY <1>6 DEF ServerRestart
<1> QED
  BY <1>1, <1>2, <1>3, <1>4, <1>5, <1>6
  DEF Next, vars, serverVars, LoseLink, NoticeClosed, Handler, ReceiveAck, SelectSocket,
      Emit, AckTimeout, AckClosed, ClientGone

LEMMA GenerationsGrowAlways == Spec => []GenerationsGrow
<1>1. Init => GenerationsGrow
  BY DEF Init, GenerationsGrow
<1> QED BY <1>1, TypeCorrect, NextGenerationsGrow, PTL DEF Spec

\* Once a device has a connection that began after another was established,
\* the older one is given no request, whether or not the server knows it dead,
\* and across restarts that begin the numbering anew.
THEOREM NewestServes == Spec => NewestConnectionServes
<1> DEFINE Step == \A r \in Requests : \A s, t \in Sockets :
                     (phase[r] = "idle" /\ phase'[r] = "chosen" /\ target'[r] = s
                        /\ t \in Connected /\ peer[t] = peer[s])
                     => s \notin before[t]
<1>1. TypeInv /\ GenerationsGrow /\ [Next]_vars => [Step]_vars
  <2> SUFFICES ASSUME TypeInv, GenerationsGrow, Next,
                      NEW r \in Requests, NEW s \in Sockets, NEW t \in Sockets,
                      phase[r] = "idle", phase'[r] = "chosen", target'[r] = s,
                      t \in Connected, peer[t] = peer[s], s \in before[t]
               PROVE  FALSE
    OBVIOUS
  <2>1. \E h \in Hosts : SelectSocket(r, h)
    BY DEF Next, Connect, LoseLink, NoticeClosed, HostnameMiddleware, OnConnect,
           AbortHandshake, PeerGone, HeartbeatMissed, OnDisconnect, Handler, ReceiveAck,
           SelectSocket, Emit, AckTimeout, AckClosed, ClientGone, ServerRestart, Answer,
           requestVars, TypeInv, TypeOK, RequestTypes
  <2>2. PICK h \in Hosts : SelectSocket(r, h)
    BY <2>1
  <2>3. Newest(h, s)
    BY <2>2 DEF SelectSocket, Answer, TypeInv, TypeOK, RequestTypes
  <2>4. s \in Connected /\ t \in Of(h) /\ gen[t] <= gen[s]
    BY <2>3 DEF Newest, Of
  <2>5. gen[s] \in Nat /\ gen[t] \in Nat /\ gen[s] < gen[t]
    BY <2>4 DEF GenerationsGrow, Connected
  <2> QED BY <2>4, <2>5
<1> QED BY <1>1, TypeCorrect, GenerationsGrowAlways, PTL DEF Spec, NewestConnectionServes

-----------------------------------------------------------------------------
(***************************************************************************)
(* The gauge.                                                              *)
(***************************************************************************)

\* The connections the middleware has counted and on_disconnect may take back.
Counted == {s \in Sockets : sock[s] \in {"named", "connected"}}

GaugeInv == gauge >= Cardinality(Counted)

LEMMA CountedFinite ==
  ASSUME TypeInv
  PROVE  /\ IsFiniteSet(Counted) /\ Cardinality(Counted) \in Nat
         /\ IsFiniteSet(Connected) /\ Cardinality(Connected) \in Nat
         /\ Cardinality(Connected) <= Cardinality(Counted)
<1>1. IsFiniteSet(Sockets)
  BY FS_Interval, RelayAssumption DEF Sockets
<1>2. Counted \subseteq Sockets /\ Connected \subseteq Counted
  BY DEF Counted, Connected
<1>3. IsFiniteSet(Counted)
  BY <1>1, <1>2, FS_Subset
<1>4. IsFiniteSet(Connected) /\ Cardinality(Connected) <= Cardinality(Counted)
  BY <1>2, <1>3, FS_Subset
<1> QED BY <1>3, <1>4, FS_CardinalityType

LEMMA NextGaugeInv == TypeInv /\ GaugeInv /\ [Next]_vars => GaugeInv'
<1> SUFFICES ASSUME TypeInv, GaugeInv, [Next]_vars PROVE GaugeInv'
  OBVIOUS
<1>1. IsFiniteSet(Counted) /\ Cardinality(Counted) \in Nat /\ gauge \in Int
  BY CountedFinite DEF TypeInv, TypeOK, ServerTypes
<1>2. sock \in [Sockets -> SocketStates]
  BY DEF TypeInv, TypeOK, ServerTypes
<1>3. ASSUME Counted' = Counted, gauge' = gauge PROVE GaugeInv'
  BY <1>3 DEF GaugeInv
<1>4. ASSUME NEW h \in Hosts, Connect(h) PROVE GaugeInv'
  <2>1. opened + 1 \in Sockets /\ sock[opened + 1] = "unused"
    BY <1>4, RelayAssumption
    DEF Connect, TypeInv, TypeOK, DeviceTypes, ServerTypes, AttemptsInOrder, Sockets
  <2> QED BY <1>2, <1>3, <1>4, <2>1 DEF Connect, Counted
<1>5. ASSUME NEW s \in Sockets, HostnameMiddleware(s) PROVE GaugeInv'
  <2>1. s \notin Counted /\ Counted' = Counted \cup {s} /\ gauge' = gauge + 1
    BY <1>2, <1>5 DEF HostnameMiddleware, Counted
  <2>2. Cardinality(Counted') = Cardinality(Counted) + 1
    BY <1>1, <2>1, FS_AddElement
  <2> QED BY <1>1, <2>1, <2>2 DEF GaugeInv
<1>6. ASSUME NEW s \in Sockets, OnConnect(s) PROVE GaugeInv'
  BY <1>2, <1>3, <1>6 DEF OnConnect, Counted
<1>7. ASSUME NEW s \in Sockets, AbortHandshake(s) PROVE GaugeInv'
  <2>1. Counted' = Counted \ {s} /\ gauge' = gauge
    BY <1>2, <1>7 DEF AbortHandshake, Counted
  <2>2. Cardinality(Counted') <= Cardinality(Counted) /\ Cardinality(Counted') \in Nat
    BY <1>1, <2>1, FS_Subset, FS_CardinalityType
  <2> QED BY <1>1, <2>1, <2>2 DEF GaugeInv
<1>8. ASSUME NEW s \in Sockets, PeerGone(s) \/ HeartbeatMissed(s) PROVE GaugeInv'
  <2>1. s \in Counted /\ Counted' = Counted \ {s} /\ gauge' = gauge - 1
    BY <1>2, <1>8 DEF PeerGone, HeartbeatMissed, OnDisconnect, Counted
  <2>2. Cardinality(Counted') = Cardinality(Counted) - 1
    BY <1>1, <2>1, FS_RemoveElement
  <2> QED BY <1>1, <2>1, <2>2 DEF GaugeInv
<1>9. CASE ServerRestart
  <2>1. Counted' = {} /\ gauge' = 0
    BY <1>9 DEF ServerRestart, Counted
  <2> QED BY <2>1, FS_EmptySet DEF GaugeInv
<1>10. CASE UNCHANGED <<sock, gauge>>
  BY <1>3, <1>10 DEF Counted
<1> QED
  BY <1>4, <1>5, <1>6, <1>7, <1>8, <1>9, <1>10
  DEF Next, vars, serverVars, LoseLink, NoticeClosed, Handler, ReceiveAck, SelectSocket,
      Emit, AckTimeout, AckClosed, ClientGone

\* The metric never undercounts the connections in the namespace, whatever the
\* order in which handshakes end, fail and are given up.
THEOREM GaugeNeverUndercounts == Spec => []GaugeCoversConnections
<1>1. Init => GaugeInv
  <2>1. Init => Counted = {} /\ gauge = 0
    BY DEF Init, Counted
  <2> QED BY <2>1, FS_EmptySet DEF GaugeInv
<1>2. TypeInv /\ GaugeInv => GaugeCoversConnections
  BY CountedFinite DEF GaugeInv, GaugeCoversConnections, TypeInv, TypeOK, ServerTypes
<1> QED BY <1>1, <1>2, TypeCorrect, NextGaugeInv, PTL DEF Spec

-----------------------------------------------------------------------------
\* Where a request stands, and that a command goes to a host's own connection.
RequestsWellFormed ==
  \A r \in Requests :
    /\ phase[r] = "answered" <=> answer[r] # "none"
    /\ phase[r] \in {"idle", "chosen"} => ackId[r] = NoAck
    /\ phase[r] = "waiting" => ackId[r] # NoAck
    /\ answer[r] \in {"not_found", "too_many"} => ackId[r] = NoAck
    /\ (phase[r] = "chosen" \/ ackId[r] # NoAck) =>
         /\ target[r] \in Sockets
         /\ target[r] <= opened
         /\ peer[target[r]] = dest[r]

\* The acknowledgement numbers of a socket are used once.
AckNumbersUnique ==
  /\ \A r \in Requests : ackId[r] # NoAck => ackId[r] < nextAck[target[r]]
  /\ \A q, r \in Requests :
       (ackId[q] # NoAck /\ ackId[q] = ackId[r] /\ target[q] = target[r]) => q = r

\* What a device has yet to handle was emitted to it, once, and has not run.
InboxOwn ==
  \A s \in Sockets : \A i \in 1 .. Len(inbox[s]) :
    /\ target[inbox[s][i].req] = s
    /\ ackId[inbox[s][i].req] = inbox[s][i].ack
    /\ runs[inbox[s][i].req] = <<>>
    /\ \A j \in 1 .. Len(inbox[s]) : inbox[s][i].req = inbox[s][j].req => i = j

\* An acknowledgement is that of a command that ran.
AcksOwn ==
  \A s \in Sockets : \A a \in acks[s] :
    target[a.req] = s /\ ackId[a.req] = a.ack /\ runs[a.req] # <<>>

\* A command runs after it was emitted, once, where it was asked to.
RunsAfterEmit ==
  \A r \in Requests : /\ ackId[r] = NoAck => runs[r] = <<>>
                      /\ runs[r] = <<>> \/ runs[r] = <<dest[r]>>

CommandInv ==
  /\ RequestsWellFormed
  /\ AckNumbersUnique
  /\ InboxOwn
  /\ AcksOwn
  /\ RunsAfterEmit
  /\ OkAnswersAsked

LEMMA InitCommandInv == Init => CommandInv
BY DEF Init, CommandInv, RequestsWellFormed, AckNumbersUnique, InboxOwn, AcksOwn,
       RunsAfterEmit, OkAnswersAsked, Answers, NoSocket, Sockets

\* Entries of inboxes and acknowledgements are commands that were emitted.
LEMMA CommandsEmitted ==
  ASSUME TypeInv, CommandInv, NEW s \in Sockets
  PROVE  /\ \A i \in 1 .. Len(inbox[s]) : /\ inbox[s][i] \in Command
                                          /\ inbox[s][i].req \in Requests
                                          /\ inbox[s][i].ack \in Nat
                                          /\ ackId[inbox[s][i].req] # NoAck
         /\ \A a \in acks[s] : /\ a.req \in Requests
                               /\ a.ack \in Nat
                               /\ ackId[a.req] # NoAck
<1>1. inbox[s] \in Seq(Command) /\ acks[s] \subseteq Command
  BY DEF TypeInv, TypeOK, WireTypes
<1>2. \A i \in 1 .. Len(inbox[s]) : inbox[s][i] \in Command
  BY <1>1
<1>3. \A m \in Command : m.req \in Requests /\ m.ack \in Nat /\ m.ack # NoAck
  BY DEF Command, NoAck
<1> QED BY <1>1, <1>2, <1>3 DEF CommandInv, InboxOwn, AcksOwn

\* Steps of connections leave commands alone, but for those that are lost.
LEMMA ConnectionCommandInv ==
  ASSUME TypeInv, CommandInv,
         UNCHANGED <<requestVars, runs, nextAck>>,
         opened <= opened', opened' \in Nat,
         \A s \in Sockets : s <= opened => peer'[s] = peer[s],
         \A s \in Sockets : inbox'[s] \in {inbox[s], <<>>} /\ acks'[s] \subseteq acks[s]
  PROVE  CommandInv'
<1>1. RequestsWellFormed'
  <2>1. UNCHANGED <<phase, answer, ackId, target, dest>> /\ opened \in Nat
    BY DEF requestVars, TypeInv, TypeOK, DeviceTypes
  <2> QED BY <2>1 DEF CommandInv, RequestsWellFormed, Sockets
<1>2. AckNumbersUnique' /\ RunsAfterEmit' /\ OkAnswersAsked'
  BY DEF CommandInv, AckNumbersUnique, RunsAfterEmit, OkAnswersAsked, requestVars
<1>3. InboxOwn'
  BY DEF CommandInv, InboxOwn, requestVars
<1>4. AcksOwn'
  BY DEF CommandInv, AcksOwn, requestVars
<1> QED BY <1>1, <1>2, <1>3, <1>4 DEF CommandInv

\* A device handles the next command.
LEMMA HandlerCommandInv ==
  ASSUME TypeInv, CommandInv, NEW s \in Sockets, Handler(s)
  PROVE  CommandInv'
<1> DEFINE m == Head(inbox[s])
           r == m.req
<1>1. inbox[s] \in Seq(Command) /\ inbox[s] # <<>>
  BY DEF Handler, TypeInv, TypeOK, WireTypes
<1>2. /\ Len(inbox[s]) >= 1 /\ m = inbox[s][1] /\ 1 \in 1 .. Len(inbox[s])
      /\ Len(Tail(inbox[s])) = Len(inbox[s]) - 1
      /\ \A i \in 1 .. Len(Tail(inbox[s])) : /\ Tail(inbox[s])[i] = inbox[s][i + 1]
                                             /\ i + 1 \in 1 .. Len(inbox[s])
  BY <1>1
<1>3. r \in Requests /\ ackId[r] = m.ack /\ ackId[r] # NoAck /\ target[r] = s
  BY <1>2, CommandsEmitted DEF CommandInv, InboxOwn
<1>4. runs[r] = <<>>
  BY <1>2 DEF CommandInv, InboxOwn
<1>5. peer[s] = dest[r]
  BY <1>3 DEF CommandInv, RequestsWellFormed
<1>6. /\ inbox' = [inbox EXCEPT ![s] = Tail(inbox[s])]
      /\ \/ acks' = acks /\ runs' = runs
         \/ /\ acks' = [acks EXCEPT ![s] = acks[s] \cup {m}]
            /\ runs' = [runs EXCEPT ![r] = Append(runs[r], peer[s])]
      /\ UNCHANGED <<opened, peer, nextAck, phase, dest, target, ackId, answer, body>>
  BY DEF Handler, serverVars, deviceVars, requestVars
<1>7. /\ inbox \in [Sockets -> Seq(Command)] /\ acks \in [Sockets -> SUBSET Command]
      /\ runs \in [Requests -> Seq(Hosts)]
  BY DEF TypeInv, TypeOK, WireTypes, RequestTypes
<1>8. Append(runs[r], peer[s]) = <<dest[r]>>
  BY <1>4, <1>5
<1>9. \A q \in Requests : /\ q # r => runs'[q] = runs[q]
                          /\ runs[q] # <<>> => runs'[q] # <<>>
                          /\ runs'[q] = runs[q] \/ (q = r /\ runs'[q] = <<dest[q]>>)
  BY <1>3, <1>4, <1>6, <1>7, <1>8
<1> HIDE DEF m, r
<1>10. RequestsWellFormed' /\ AckNumbersUnique'
  BY <1>6 DEF CommandInv, RequestsWellFormed, AckNumbersUnique
<1>11. InboxOwn'
  <2> SUFFICES ASSUME NEW t \in Sockets, NEW i \in 1 .. Len(inbox'[t])
               PROVE  /\ target[inbox'[t][i].req] = t
                      /\ ackId[inbox'[t][i].req] = inbox'[t][i].ack
                      /\ runs'[inbox'[t][i].req] = <<>>
                      /\ \A j \in 1 .. Len(inbox'[t]) :
                           inbox'[t][i].req = inbox'[t][j].req => i = j
    <3>1. target' = target /\ ackId' = ackId
      BY <1>6
    <3> QED BY <3>1 DEF InboxOwn
  <2>1. CASE t = s
    <3>1. inbox'[t] = Tail(inbox[s])
      BY <1>6, <1>7, <2>1
    <3>2. /\ i \in Nat /\ i + 1 \in 1 .. Len(inbox[s])
          /\ inbox'[t][i] = inbox[s][i + 1]
      BY <1>2, <3>1
    <3>3. \A j \in 1 .. Len(inbox'[t]) :
            j + 1 \in 1 .. Len(inbox[s]) /\ inbox'[t][j] = inbox[s][j + 1]
      BY <1>2, <3>1
    <3>4. inbox[s][i + 1].req \in Requests /\ inbox[s][i + 1].req # inbox[s][1].req
      BY <3>2, <1>2, CommandsEmitted DEF CommandInv, InboxOwn
    <3>5. runs'[inbox'[t][i].req] = <<>>
      BY <1>2, <1>9, <3>2, <3>4 DEF CommandInv, InboxOwn, r, m
    <3>6. \A j \in 1 .. Len(inbox'[t]) : inbox'[t][i].req = inbox'[t][j].req => i = j
      <4> SUFFICES ASSUME NEW j \in 1 .. Len(inbox'[t]),
                          inbox'[t][i].req = inbox'[t][j].req
                   PROVE  i = j
        OBVIOUS
      <4>1. /\ i + 1 \in 1 .. Len(inbox[s]) /\ j + 1 \in 1 .. Len(inbox[s])
            /\ inbox[s][i + 1].req = inbox[s][j + 1].req
        BY <3>2, <3>3
      <4>2. i + 1 = j + 1
        BY <4>1 DEF CommandInv, InboxOwn
      <4>3. i \in Int /\ j \in Int
        OBVIOUS
      <4> QED BY <4>2, <4>3
    <3> QED BY <2>1, <3>2, <3>5, <3>6 DEF CommandInv, InboxOwn
  <2>2. CASE t # s
    <3>1. inbox'[t] = inbox[t]
      BY <1>6, <1>7, <2>2
    <3>2. inbox[t][i].req \in Requests /\ inbox[t][i].req # r
      BY <1>3, <2>2, <3>1, CommandsEmitted DEF CommandInv, InboxOwn
    <3> QED BY <1>9, <3>1, <3>2 DEF CommandInv, InboxOwn
  <2> QED BY <2>1, <2>2
<1>12. AcksOwn'
  <2> SUFFICES ASSUME NEW t \in Sockets, NEW a \in acks'[t]
               PROVE  target[a.req] = t /\ ackId[a.req] = a.ack /\ runs'[a.req] # <<>>
    BY <1>6 DEF AcksOwn
  <2>1. CASE a \in acks[t]
    BY <1>9, <2>1, CommandsEmitted DEF CommandInv, AcksOwn
  <2>2. CASE a \notin acks[t]
    <3>1. t = s /\ a = m /\ runs' = [runs EXCEPT ![r] = Append(runs[r], peer[s])]
      BY <1>6, <1>7, <2>2
    <3>2. runs'[r] = <<dest[r]>> /\ <<dest[r]>> # <<>>
      BY <1>3, <1>7, <1>8, <3>1
    <3> QED BY <1>3, <3>1, <3>2 DEF r
  <2> QED BY <2>1, <2>2
<1>13. RunsAfterEmit'
  BY <1>3, <1>6, <1>9 DEF CommandInv, RunsAfterEmit
<1>14. OkAnswersAsked'
  BY <1>6, <1>9 DEF CommandInv, OkAnswersAsked
<1> QED BY <1>10, <1>11, <1>12, <1>13, <1>14 DEF CommandInv
\* An acknowledgement answers the request whose command it acknowledges.
LEMMA AckedIsWaiting ==
  ASSUME TypeInv, CommandInv, NEW s \in Sockets, NEW a \in acks[s],
         NEW r \in Requests, target[r] = s, ackId[r] = a.ack
  PROVE  r = a.req /\ runs[r] # <<>>
<1>1. a.req \in Requests /\ ackId[a.req] # NoAck
  BY CommandsEmitted
<1>2. target[a.req] = s /\ ackId[a.req] = a.ack /\ runs[a.req] # <<>>
  BY DEF CommandInv, AcksOwn
<1> QED BY <1>1, <1>2 DEF CommandInv, AckNumbersUnique

\* A request is answered, without a body.
LEMMA AnsweredCommandInv ==
  ASSUME TypeInv, CommandInv, NEW r \in Requests, phase[r] # "answered",
         NEW a \in Answers \ {"none", "ok"}, Answer(r, a),
         a \in {"not_found", "too_many"} => ackId[r] = NoAck,
         UNCHANGED <<serverVars, deviceVars, inbox, nextAck, target, ackId, body, runs>>,
         \A s \in Sockets : acks'[s] \subseteq acks[s],
         dest' = dest \/ (phase[r] = "idle" /\ \A q \in Requests : q # r => dest'[q] = dest[q])
  PROVE  CommandInv'
<1> USE DEF TypeInv, TypeOK, RequestTypes, Answer, serverVars, deviceVars
<1>1. RequestsWellFormed'
  BY DEF CommandInv, RequestsWellFormed
<1>2. AckNumbersUnique' /\ InboxOwn'
  BY DEF CommandInv, AckNumbersUnique, InboxOwn
<1>3. AcksOwn'
  BY DEF CommandInv, AcksOwn
<1>4. RunsAfterEmit'
  BY DEF CommandInv, RunsAfterEmit, RequestsWellFormed
<1>5. OkAnswersAsked'
  BY DEF CommandInv, OkAnswersAsked
<1> QED BY <1>1, <1>2, <1>3, <1>4, <1>5 DEF CommandInv

\* An acknowledgement is received.
LEMMA ReceiveAckCommandInv ==
  ASSUME TypeInv, CommandInv, NEW s \in Sockets, NEW a \in acks[s], ReceiveAck(s, a)
  PROVE  CommandInv'
<1>1. /\ \A t \in Sockets : acks'[t] \subseteq acks[t]
      /\ UNCHANGED <<opened, peer, inbox, nextAck, dest, target, ackId, runs>>
  BY DEF ReceiveAck, serverVars, deviceVars, TypeInv, TypeOK, WireTypes
<1>2. AckNumbersUnique' /\ InboxOwn' /\ AcksOwn' /\ RunsAfterEmit'
  BY <1>1 DEF CommandInv, AckNumbersUnique, InboxOwn, AcksOwn, RunsAfterEmit
<1>3. CASE UNCHANGED <<phase, answer, body>>
  BY <1>1, <1>2, <1>3 DEF CommandInv, RequestsWellFormed, OkAnswersAsked
<1>4. CASE ~UNCHANGED <<phase, answer, body>>
  <2>1. PICK r \in Requests :
          /\ phase[r] = "waiting" /\ target[r] = s /\ ackId[r] = a.ack
          /\ \/ Answer(r, "undecodable") /\ body' = body
             \/ Answer(r, "ok") /\ body' = [body EXCEPT ![r] = a.req]
    BY <1>4 DEF ReceiveAck
  <2>2. r = a.req /\ runs[r] # <<>>
    BY <2>1, AckedIsWaiting
  <2>3. RequestsWellFormed'
    BY <1>1, <2>1 DEF CommandInv, RequestsWellFormed, Answer, TypeInv, TypeOK, RequestTypes
  <2>4. OkAnswersAsked'
    BY <1>1, <2>1, <2>2 DEF CommandInv, OkAnswersAsked, Answer, TypeInv, TypeOK,
                            RequestTypes
  <2> QED BY <1>2, <2>3, <2>4 DEF CommandInv
<1> QED BY <1>3, <1>4

\* ws_send chooses a socket of the host.
LEMMA SelectSocketCommandInv ==
  ASSUME TypeInv, CommandInv, NEW r \in Requests, NEW h \in Hosts, SelectSocket(r, h)
  PROVE  CommandInv'
<1>1. /\ phase[r] = "idle" /\ ackId[r] = NoAck /\ answer[r] = "none" /\ runs[r] = <<>>
      /\ dest' = [dest EXCEPT ![r] = h]
      /\ UNCHANGED <<serverVars, deviceVars, wireVars, ackId, body, runs>>
  BY DEF SelectSocket, CommandInv, RequestsWellFormed, RunsAfterEmit
<1>2. \A q \in Requests : q # r => dest'[q] = dest[q]
  BY <1>1 DEF TypeInv, TypeOK, RequestTypes
<1>3. CASE Answer(r, "not_found") /\ target' = target
  BY <1>1, <1>2, <1>3, AnsweredCommandInv DEF Answers, wireVars
<1>4. CASE \E s \in Sockets : /\ Newest(h, s)
                              /\ target' = [target EXCEPT ![r] = s]
                              /\ phase'  = [phase EXCEPT ![r] = "chosen"]
                              /\ answer' = answer
  <2>1. PICK s \in Sockets : /\ sock[s] = "connected" /\ peer[s] = h
                             /\ target' = [target EXCEPT ![r] = s]
                             /\ phase'  = [phase EXCEPT ![r] = "chosen"]
                             /\ answer' = answer
    BY <1>4 DEF Newest, Of, Connected
  <2>2. s <= opened
    BY <2>1 DEF TypeInv, AttemptsInOrder
  <2>3. \A q \in Requests : q # r => target'[q] = target[q] /\ phase'[q] = phase[q]
    BY <2>1 DEF TypeInv, TypeOK, RequestTypes
  <2>4. target'[r] = s /\ phase'[r] = "chosen" /\ dest'[r] = h
    BY <1>1, <2>1 DEF TypeInv, TypeOK, RequestTypes
  <2>5. RequestsWellFormed'
    BY <1>1, <1>2, <2>1, <2>2, <2>3, <2>4
    DEF CommandInv, RequestsWellFormed, serverVars, deviceVars
  <2>6. AckNumbersUnique'
    BY <1>1, <2>3 DEF CommandInv, AckNumbersUnique, wireVars
  <2>7. InboxOwn'
    <3>1. \A t \in Sockets : \A i \in 1 .. Len(inbox[t]) :
            inbox[t][i].req \in Requests /\ inbox[t][i].req # r
      BY <1>1, CommandsEmitted
    <3> QED BY <1>1, <2>3, <3>1 DEF CommandInv, InboxOwn, wireVars
  <2>8. AcksOwn'
    <3>1. \A t \in Sockets : \A a \in acks[t] : a.req \in Requests /\ a.req # r
      BY <1>1, CommandsEmitted
    <3> QED BY <1>1, <2>3, <3>1 DEF CommandInv, AcksOwn, wireVars
  <2>9. RunsAfterEmit' /\ OkAnswersAsked'
    BY <1>1, <1>2, <2>1 DEF CommandInv, RunsAfterEmit, OkAnswersAsked
  <2> QED BY <2>5, <2>6, <2>7, <2>8, <2>9 DEF CommandInv
<1> QED BY <1>3, <1>4 DEF SelectSocket

\* ws_send emits the command, or finds the socket closed or its channel full.
LEMMA EmitCommandInv ==
  ASSUME TypeInv, CommandInv, NEW r \in Requests, Emit(r)
  PROVE  CommandInv'
<1> DEFINE s == target[r]
           m == [ack |-> nextAck[s], req |-> r]
<1>1. /\ phase[r] = "chosen" /\ ackId[r] = NoAck /\ runs[r] = <<>>
      /\ answer[r] = "none" /\ s \in Sockets /\ s <= opened /\ peer[s] = dest[r]
      /\ UNCHANGED <<serverVars, deviceVars, acks, dest, target, body, runs>>
  BY DEF Emit, CommandInv, RequestsWellFormed, RunsAfterEmit
<1>2. CASE /\ Answer(r, "closed") \/ Answer(r, "too_many")
           /\ UNCHANGED <<inbox, nextAck, ackId>>
  BY <1>1, <1>2, AnsweredCommandInv DEF Answers
<1>3. CASE /\ inbox'   = [inbox EXCEPT ![s] = Append(@, m)]
           /\ nextAck' = [nextAck EXCEPT ![s] = @ + 1]
           /\ ackId'   = [ackId EXCEPT ![r] = nextAck[s]]
           /\ phase'   = [phase EXCEPT ![r] = "waiting"]
           /\ answer'  = answer
  <2>1. /\ nextAck[s] \in Nat /\ nextAck[s] # NoAck /\ nextAck'[s] = nextAck[s] + 1
        /\ \A t \in Sockets : t # s => nextAck'[t] = nextAck[t] /\ inbox'[t] = inbox[t]
        /\ \A t \in Sockets : nextAck[t] \in Nat
        /\ inbox[s] \in Seq(Command) /\ inbox'[s] = Append(inbox[s], m)
    BY <1>1, <1>3 DEF TypeInv, TypeOK, WireTypes, NoAck
  <2>2. /\ ackId'[r] = nextAck[s] /\ phase'[r] = "waiting"
        /\ \A q \in Requests : q # r => ackId'[q] = ackId[q] /\ phase'[q] = phase[q]
        /\ \A q \in Requests : ackId[q] \in Nat \cup {NoAck}
    BY <1>3 DEF TypeInv, TypeOK, RequestTypes
  <2>3. m.req = r /\ m.ack = nextAck[s]
    OBVIOUS
  <2>4. /\ Len(inbox'[s]) = Len(inbox[s]) + 1 /\ Len(inbox[s]) \in Nat
        /\ \A i \in 1 .. Len(inbox[s]) : inbox'[s][i] = inbox[s][i]
        /\ inbox'[s][Len(inbox[s]) + 1] = m
    BY <2>1
  <2>5. \A t \in Sockets : \A i \in 1 .. Len(inbox[t]) :
          inbox[t][i].req \in Requests /\ inbox[t][i].req # r
    BY <1>1, CommandsEmitted
  <2>6. \A t \in Sockets : \A a \in acks[t] : a.req \in Requests /\ a.req # r
    BY <1>1, CommandsEmitted
  <2> HIDE DEF m
  <2>7. RequestsWellFormed'
    BY <1>1, <1>3, <2>1, <2>2
    DEF CommandInv, RequestsWellFormed, serverVars, deviceVars
  <2>8. AckNumbersUnique'
    <3>1. \A q \in Requests : ackId'[q] # NoAck => ackId'[q] < nextAck'[target[q]]
      <4> SUFFICES ASSUME NEW q \in Requests, ackId'[q] # NoAck
                   PROVE  ackId'[q] < nextAck'[target[q]]
        OBVIOUS
      <4>1. CASE q = r
        BY <2>1, <2>2, <4>1
      <4>2. CASE q # r
        <5>1. ackId'[q] = ackId[q] /\ ackId[q] \in Nat /\ target[q] \in Sockets
          BY <2>2, <4>2 DEF CommandInv, RequestsWellFormed
        <5>2. ackId[q] < nextAck[target[q]]
          BY <5>1, <2>2, <4>2 DEF CommandInv, AckNumbersUnique
        <5> QED BY <2>1, <5>1, <5>2
      <4> QED BY <4>1, <4>2
    <3>2. \A q \in Requests : (ackId[q] # NoAck /\ target[q] = s) => ackId[q] # nextAck[s]
      BY <2>1, <2>2 DEF CommandInv, AckNumbersUnique
    <3> QED BY <1>1, <2>1, <2>2, <3>1, <3>2 DEF CommandInv, AckNumbersUnique
  <2>9. InboxOwn'
    <3> SUFFICES ASSUME NEW t \in Sockets, NEW i \in 1 .. Len(inbox'[t])
                 PROVE  /\ target[inbox'[t][i].req] = t
                        /\ ackId'[inbox'[t][i].req] = inbox'[t][i].ack
                        /\ runs[inbox'[t][i].req] = <<>>
                        /\ \A j \in 1 .. Len(inbox'[t]) :
                             inbox'[t][i].req = inbox'[t][j].req => i = j
      <4>1. target' = target /\ runs' = runs
        BY <1>1
      <4> QED BY <4>1 DEF InboxOwn
    <3>1. CASE t # s
      <4>1. /\ inbox'[t] = inbox[t] /\ i \in 1 .. Len(inbox[t])
            /\ inbox[t][i].req \in Requests /\ inbox[t][i].req # r
        BY <2>1, <2>5, <3>1
      <4>2. ackId'[inbox[t][i].req] = ackId[inbox[t][i].req]
        BY <2>2, <4>1
      <4> QED BY <4>1, <4>2 DEF CommandInv, InboxOwn
    <3>2. CASE t = s /\ i \in 1 .. Len(inbox[s])
      <4>1. inbox'[t][i] = inbox[s][i] /\ inbox[s][i].req # r /\ inbox[s][i].req \in Requests
        BY <1>1, <2>4, <2>5, <3>2
      <4>2. /\ target[inbox[s][i].req] = s
            /\ ackId[inbox[s][i].req] = inbox[s][i].ack
            /\ runs[inbox[s][i].req] = <<>>
        BY <1>1, <3>2 DEF CommandInv, InboxOwn
      <4>3. ASSUME NEW j \in 1 .. Len(inbox'[t]), inbox'[t][i].req = inbox'[t][j].req
            PROVE  i = j
        <5>1. CASE j \in 1 .. Len(inbox[s])
          <6>1. inbox[s][i].req = inbox[s][j].req
            BY <2>4, <3>2, <4>3, <5>1
          <6> QED BY <1>1, <3>2, <5>1, <6>1 DEF CommandInv, InboxOwn
        <5>2. CASE j = Len(inbox[s]) + 1
          BY <2>3, <2>4, <3>2, <4>1, <4>3, <5>2
        <5> QED BY <2>4, <3>2, <5>1, <5>2
      <4> QED BY <2>2, <3>2, <4>1, <4>2, <4>3
    <3>3. CASE t = s /\ i = Len(inbox[s]) + 1
      <4>1. inbox'[t][i] = m
        BY <2>4, <3>3
      <4>2. ASSUME NEW j \in 1 .. Len(inbox'[t]), inbox'[t][i].req = inbox'[t][j].req
            PROVE  i = j
        <5>1. inbox'[s][j].req = r
          BY <2>3, <3>3, <4>1, <4>2
        <5>2. j \notin 1 .. Len(inbox[s])
          BY <1>1, <2>4, <2>5, <5>1
        <5> QED BY <2>4, <3>3, <5>2
      <4> QED BY <1>1, <2>2, <2>3, <3>3, <4>1, <4>2
    <3>4. t = s => i \in 1 .. Len(inbox[s]) \/ i = Len(inbox[s]) + 1
      <4>1. t = s => i \in 1 .. Len(inbox[s]) + 1
        BY <2>4
      <4> QED BY <2>4, <4>1
    <3> QED BY <3>1, <3>2, <3>3, <3>4
  <2>10. AcksOwn'
    BY <1>1, <2>2, <2>6 DEF CommandInv, AcksOwn
  <2>11. RunsAfterEmit' /\ OkAnswersAsked'
    BY <1>1, <1>3, <2>2 DEF CommandInv, RunsAfterEmit, OkAnswersAsked
  <2> QED BY <2>7, <2>8, <2>9, <2>10, <2>11 DEF CommandInv
<1> HIDE DEF m
<1> QED BY <1>2, <1>3 DEF Emit, m
\* The server restarts: commands already emitted stay with their devices.
LEMMA RestartCommandInv ==
  ASSUME TypeInv, CommandInv, ServerRestart
  PROVE  CommandInv'
<1>1. /\ UNCHANGED <<opened, peer, inbox, acks, nextAck, dest, target, ackId, body, runs>>
      /\ \A r \in Requests : \/ /\ phase'[r] = phase[r] /\ answer'[r] = answer[r]
                               /\ phase[r] \in {"idle", "answered"}
                            \/ /\ phase'[r] = "answered" /\ answer'[r] = "reset"
                               /\ phase[r] \in {"chosen", "waiting"}
  BY DEF ServerRestart, deviceVars, wireVars, TypeInv, TypeOK, RequestTypes, Phases
<1>2. RequestsWellFormed'
  BY <1>1 DEF CommandInv, RequestsWellFormed
<1>3. AckNumbersUnique' /\ InboxOwn' /\ AcksOwn' /\ RunsAfterEmit'
  BY <1>1 DEF CommandInv, AckNumbersUnique, InboxOwn, AcksOwn, RunsAfterEmit
<1>4. OkAnswersAsked'
  BY <1>1 DEF CommandInv, OkAnswersAsked
<1> QED BY <1>2, <1>3, <1>4 DEF CommandInv

LEMMA NextCommandInv == TypeInv /\ TypeInv' /\ CommandInv /\ [Next]_vars => CommandInv'
<1> SUFFICES ASSUME TypeInv, TypeInv', CommandInv, [Next]_vars PROVE CommandInv'
  OBVIOUS
<1>1. /\ opened \in Nat /\ opened' \in Nat /\ inbox \in [Sockets -> Seq(Command)]
      /\ acks \in [Sockets -> SUBSET Command] /\ peer \in [Sockets -> Hosts \cup {None}]
  BY DEF TypeInv, TypeOK, ServerTypes, DeviceTypes, WireTypes
<1>2. ASSUME NEW h \in Hosts, Connect(h) PROVE CommandInv'
  <2>1. /\ opened' = opened + 1
        /\ peer' = [peer EXCEPT ![opened + 1] = h]
        /\ UNCHANGED <<wireVars, requestVars, runs>>
    BY <1>2 DEF Connect
  <2>2. \A s \in Sockets : s <= opened => peer'[s] = peer[s]
    BY <1>1, <2>1 DEF Sockets
  <2> QED BY <1>1, <2>1, <2>2, ConnectionCommandInv DEF wireVars
<1>3. ASSUME NEW h \in Hosts, LoseLink(h) \/ NoticeClosed(h) PROVE CommandInv'
  <2>1. /\ UNCHANGED <<requestVars, runs, nextAck, opened, peer>>
        /\ inbox' = [inbox EXCEPT ![link[h]] = <<>>]
        /\ \/ acks' = acks
           \/ \E kept \in SUBSET acks[link[h]] : acks' = [acks EXCEPT ![link[h]] = kept]
    BY <1>3 DEF LoseLink, NoticeClosed, serverVars
  <2>2. \A s \in Sockets : inbox'[s] \in {inbox[s], <<>>} /\ acks'[s] \subseteq acks[s]
    BY <1>1, <2>1
  <2> QED BY <1>1, <2>1, <2>2, ConnectionCommandInv
<1>4. ASSUME NEW s \in Sockets,
             \/ HostnameMiddleware(s) \/ OnConnect(s) \/ AbortHandshake(s)
             \/ PeerGone(s) \/ HeartbeatMissed(s)
      PROVE  CommandInv'
  <2>1. UNCHANGED <<requestVars, runs, wireVars, deviceVars, peer>>
    BY <1>4 DEF HostnameMiddleware, OnConnect, AbortHandshake, PeerGone, HeartbeatMissed,
                OnDisconnect
  <2> QED BY <1>1, <2>1, ConnectionCommandInv DEF wireVars, deviceVars
<1>5. ASSUME NEW s \in Sockets, Handler(s) PROVE CommandInv'
  BY <1>5, HandlerCommandInv
<1>6. ASSUME NEW s \in Sockets, NEW a \in acks[s], ReceiveAck(s, a) PROVE CommandInv'
  BY <1>6, ReceiveAckCommandInv
<1>7. ASSUME NEW r \in Requests, NEW h \in Hosts, SelectSocket(r, h) PROVE CommandInv'
  BY <1>7, SelectSocketCommandInv
<1>8. ASSUME NEW r \in Requests, Emit(r) PROVE CommandInv'
  BY <1>8, EmitCommandInv
<1>9. ASSUME NEW r \in Requests, AckTimeout(r) \/ AckClosed(r) \/ ClientGone(r)
      PROVE  CommandInv'
  <2>1. \E a \in {"timeout", "closed", "abandoned"} : Answer(r, a)
    BY <1>9 DEF AckTimeout, AckClosed, ClientGone
  <2>2. /\ phase[r] = "waiting"
        /\ UNCHANGED <<serverVars, deviceVars, wireVars, dest, target, ackId, body, runs>>
    BY <1>9 DEF AckTimeout, AckClosed, ClientGone
  <2> QED BY <2>1, <2>2, AnsweredCommandInv DEF Answers, wireVars
<1>10. CASE ServerRestart
  BY <1>10, RestartCommandInv
<1>11. CASE UNCHANGED vars
  BY <1>1, <1>11, ConnectionCommandInv DEF vars, serverVars, deviceVars, wireVars
<1> QED
  BY <1>2, <1>3, <1>4, <1>5, <1>6, <1>7, <1>8, <1>9, <1>10, <1>11 DEF Next

LEMMA CommandsAlways == Spec => [](TypeInv /\ CommandInv)
BY InitCommandInv, TypeCorrect, NextCommandInv, PTL DEF Spec

\* Whatever is lost, late or restarted, a command runs at most once and only
\* on the host its request named.
THEOREM CommandsRunOnce == Spec => []RunsOnceWhereAsked
<1>1. CommandInv => RunsOnceWhereAsked
  <2> SUFFICES ASSUME CommandInv, NEW r \in Requests
               PROVE  /\ Len(runs[r]) <= 1
                      /\ \A i \in 1 .. Len(runs[r]) : runs[r][i] = dest[r]
    BY DEF RunsOnceWhereAsked
  <2>1. runs[r] = <<>> \/ runs[r] = <<dest[r]>>
    BY DEF CommandInv, RunsAfterEmit
  <2>2. CASE runs[r] = <<>>
    BY <2>2
  <2>3. CASE runs[r] = <<dest[r]>>
    <3>1. Len(<<dest[r]>>) = 1 /\ <<dest[r]>>[1] = dest[r]
      OBVIOUS
    <3> QED BY <2>3, <3>1
  <2> QED BY <2>1, <2>2, <2>3
<1> QED BY <1>1, CommandsAlways, PTL

\* A successful answer carries the response to the request's own command.
THEOREM AnswersAreOwn == Spec => []OkAnswersAsked
<1>1. CommandInv => OkAnswersAsked
  BY DEF CommandInv
<1> QED BY <1>1, CommandsAlways, PTL

\* A command refused with 404 or 429 has not run and never will.
THEOREM RefusedNeverRun == Spec => []RefusedNeverRuns
<1>1. CommandInv => RefusedNeverRuns
  BY DEF CommandInv, RequestsWellFormed, RunsAfterEmit, RefusedNeverRuns
<1> QED BY <1>1, CommandsAlways, PTL
-----------------------------------------------------------------------------
(***************************************************************************)
(* The relay implements CommandRelay.                                      *)
(***************************************************************************)

\* The refinement mapping.
Status   == [r \in Requests |-> IF ackId[r] # NoAck THEN "sent"
                                ELSE IF answer[r] # "none" THEN "refused"
                                ELSE "new"]
Executed == [r \in Requests |-> runs[r] # <<>>]

\* A step that neither emits, executes nor answers is a stutter.
LEMMA Stutters ==
  ASSUME UNCHANGED <<ackId, answer, runs>>
  PROVE  UNCHANGED Relay!vars
BY DEF Relay!vars

\* An answer refuses a command that was not sent, and fails one that was.
LEMMA AnswerRefines ==
  ASSUME TypeInv, CommandInv, NEW r \in Requests, phase[r] # "answered",
         NEW a \in {"not_found", "too_many", "closed", "timeout", "abandoned"},
         Answer(r, a), UNCHANGED <<ackId, runs>>,
         ackId[r] = NoAck => a \in {"not_found", "too_many", "closed"},
         ackId[r] # NoAck => a \in {"closed", "timeout", "abandoned"}
  PROVE  Relay!Next
<1>1. /\ answer[r] = "none" /\ answer' = [answer EXCEPT ![r] = a]
      /\ answer \in [Requests -> Answers]
      /\ UNCHANGED Executed
  BY DEF CommandInv, RequestsWellFormed, Answer, TypeInv, TypeOK, RequestTypes, Executed
<1>2. CASE ackId[r] = NoAck
  <2>1. Status[r] = "new" /\ Status' = [Status EXCEPT ![r] = "refused"]
    BY <1>1, <1>2 DEF Status
  <2>2. a \in {"not_found", "too_many", "closed", "reset"}
    BY <1>2
  <2>3. Relay!Refuse(r, a)
    BY <1>1, <2>1 DEF Relay!Refuse, Status, Executed
  <2> QED BY <2>2, <2>3 DEF Relay!Next, Relay!Refusals
<1>3. CASE ackId[r] # NoAck
  <2>1. Status[r] = "sent" /\ Status' = Status
    BY <1>1, <1>3 DEF Status
  <2>2. a # "undecodable" /\ a \in {"timeout", "closed", "undecodable", "abandoned", "reset"}
    BY <1>3
  <2>3. Relay!Fail(r, a)
    BY <1>1, <2>1, <2>2 DEF Relay!Fail, Status, Executed
  <2> QED BY <2>2, <2>3 DEF Relay!Next, Relay!Failures
<1> QED BY <1>2, <1>3

\* Emitting a command sends it, unless it is refused.
LEMMA EmitRefines ==
  ASSUME TypeInv, CommandInv, NEW r \in Requests, Emit(r)
  PROVE  Relay!Next
<1>1. phase[r] = "chosen" /\ ackId[r] = NoAck /\ answer[r] = "none" /\ runs' = runs
  BY DEF Emit, CommandInv, RequestsWellFormed
<1>2. CASE (Answer(r, "closed") \/ Answer(r, "too_many")) /\ ackId' = ackId
  BY <1>1, <1>2, AnswerRefines
<1>3. CASE ackId' = [ackId EXCEPT ![r] = nextAck[target[r]]] /\ answer' = answer
  <2>1. nextAck[target[r]] # NoAck
    BY <1>1 DEF TypeInv, TypeOK, WireTypes, ChosenHaveTargets, NoAck
  <2>2. Status[r] = "new" /\ Status' = [Status EXCEPT ![r] = "sent"]
    BY <1>1, <1>3, <2>1 DEF Status, TypeInv, TypeOK, RequestTypes
  <2>3. Executed' = Executed
    BY <1>1 DEF Executed
  <2>4. Relay!Send(r)
    BY <1>3, <2>2, <2>3 DEF Relay!Send, Status, Executed
  <2> QED BY <2>4 DEF Relay!Next
<1> QED BY <1>2, <1>3 DEF Emit

\* A device executes a command that was sent to it.
LEMMA HandlerRefines ==
  ASSUME TypeInv, CommandInv, NEW s \in Sockets, Handler(s)
  PROVE  Relay!Next \/ UNCHANGED Relay!vars
<1>1. inbox[s] \in Seq(Command) /\ inbox[s] # <<>>
  BY DEF Handler, TypeInv, TypeOK, WireTypes
<1>2. 1 \in 1 .. Len(inbox[s]) /\ Head(inbox[s]) = inbox[s][1]
  BY <1>1
<1>3. PICK r \in Requests : r = Head(inbox[s]).req
  BY <1>2, CommandsEmitted
<1>4. ackId[r] # NoAck /\ runs[r] = <<>>
  BY <1>2, <1>3, CommandsEmitted DEF CommandInv, InboxOwn
<1>5. UNCHANGED <<ackId, answer>>
  BY DEF Handler, requestVars
<1>6. CASE runs' = runs
  BY <1>5, <1>6, Stutters
<1>7. CASE runs' = [runs EXCEPT ![r] = Append(runs[r], peer[s])]
  <2>1. Append(runs[r], peer[s]) # <<>>
    BY <1>4
  <2>2. Status' = Status /\ Status[r] = "sent"
    BY <1>4, <1>5 DEF Status
  <2>3. Executed[r] = FALSE /\ Executed' = [Executed EXCEPT ![r] = TRUE]
    BY <1>4, <1>7, <2>1 DEF Executed, TypeInv, TypeOK, RequestTypes
  <2>4. Relay!Execute(r)
    BY <1>5, <2>2, <2>3 DEF Relay!Execute, Status, Executed
  <2> QED BY <2>4 DEF Relay!Next
<1> QED BY <1>3, <1>6, <1>7 DEF Handler

\* An acknowledgement makes its request succeed, or fail undecoded.
LEMMA ReceiveAckRefines ==
  ASSUME TypeInv, CommandInv, NEW s \in Sockets, NEW a \in acks[s], ReceiveAck(s, a)
  PROVE  Relay!Next \/ UNCHANGED Relay!vars
<1>1. UNCHANGED <<ackId, runs>>
  BY DEF ReceiveAck
<1>2. CASE answer' = answer
  BY <1>1, <1>2, Stutters
<1>3. CASE answer' # answer
  <2>1. PICK r \in Requests :
          /\ phase[r] = "waiting" /\ target[r] = s /\ ackId[r] = a.ack
          /\ Answer(r, "undecodable") \/ Answer(r, "ok")
    BY <1>3 DEF ReceiveAck
  <2>2. runs[r] # <<>> /\ ackId[r] # NoAck /\ answer[r] = "none"
    BY <2>1, AckedIsWaiting DEF CommandInv, RequestsWellFormed
  <2>3. Status' = Status /\ Executed' = Executed /\ Status[r] = "sent" /\ Executed[r]
    <3>1. Status' = Status
      BY <1>1, <2>1, <2>2 DEF Status, Answer, TypeInv, TypeOK, RequestTypes
    <3> QED BY <1>1, <2>2, <3>1 DEF Status, Executed
  <2>4. CASE Answer(r, "ok")
    <3>1. Relay!Succeed(r)
      BY <2>2, <2>3, <2>4 DEF Relay!Succeed, Status, Executed, Answer
    <3> QED BY <3>1 DEF Relay!Next
  <2>5. CASE Answer(r, "undecodable")
    <3>1. Relay!Fail(r, "undecodable")
      BY <2>2, <2>3, <2>5 DEF Relay!Fail, Status, Executed, Answer
    <3> QED BY <3>1 DEF Relay!Next, Relay!Failures
  <2> QED BY <2>1, <2>4, <2>5
<1> QED BY <1>2, <1>3

\* A restart resets the requests under way together.
LEMMA RestartRefines ==
  ASSUME TypeInv, CommandInv, ServerRestart
  PROVE  Relay!Next
<1>0. PICK lost \in SUBSET Requests :
       lost = {r \in Requests : phase[r] \in {"chosen", "waiting"}}
  OBVIOUS
<1>1. \A r \in lost : answer[r] = "none"
  BY <1>0 DEF CommandInv, RequestsWellFormed
<1>2. UNCHANGED <<ackId, runs>>
  BY DEF ServerRestart
<1>3. answer' = [r \in Requests |-> IF r \in lost THEN "reset" ELSE answer[r]]
  BY <1>0 DEF ServerRestart
<1>4. Status' = [r \in Requests |-> IF r \in lost /\ Status[r] = "new"
                                    THEN "refused" ELSE Status[r]]
  BY <1>1, <1>2, <1>3 DEF Status
<1>5. Executed' = Executed
  BY <1>2 DEF Executed
<1>6. Relay!Reset(lost)
  BY <1>1, <1>3, <1>4, <1>5 DEF Relay!Reset, Status, Executed
<1> QED BY <1>6 DEF Relay!Next

\* Whatever the hosts, requests, channel size and bounds, the HTTP clients see
\* what CommandRelay promises.
THEOREM Implements == Spec => RelaySpec
<1>1. Init => Relay!Init
  BY DEF Init, Relay!Init
<1>2. TypeInv /\ CommandInv /\ [Next]_vars => [Relay!Next]_(Relay!vars)
  <2> SUFFICES ASSUME TypeInv, CommandInv, [Next]_vars
               PROVE  Relay!Next \/ UNCHANGED Relay!vars
    OBVIOUS
  <2>1. ASSUME NEW r \in Requests, NEW h \in Hosts, SelectSocket(r, h)
        PROVE  Relay!Next \/ UNCHANGED Relay!vars
    <3>1. phase[r] = "idle" /\ ackId[r] = NoAck /\ UNCHANGED <<ackId, runs>>
      BY <2>1 DEF SelectSocket, CommandInv, RequestsWellFormed
    <3>2. CASE Answer(r, "not_found")
      BY <3>1, <3>2, AnswerRefines
    <3>3. CASE answer' = answer
      BY <3>1, <3>3, Stutters
    <3> QED BY <2>1, <3>2, <3>3 DEF SelectSocket
  <2>2. ASSUME NEW r \in Requests, AckTimeout(r) \/ AckClosed(r) \/ ClientGone(r)
        PROVE  Relay!Next
    <3>1. \E a \in {"closed", "timeout", "abandoned"} : Answer(r, a)
      BY <2>2 DEF AckTimeout, AckClosed, ClientGone
    <3>2. phase[r] = "waiting" /\ ackId[r] # NoAck /\ UNCHANGED <<ackId, runs>>
      BY <2>2 DEF AckTimeout, AckClosed, ClientGone, CommandInv, RequestsWellFormed
    <3> QED BY <3>1, <3>2, AnswerRefines
  <2>3. ASSUME UNCHANGED <<requestVars, runs>> PROVE UNCHANGED Relay!vars
    BY <2>3, Stutters DEF requestVars
  <2>4. CASE UNCHANGED vars
    BY <2>3, <2>4 DEF vars
  <2>5. CASE Next
    BY <2>1, <2>2, <2>3, <2>5, EmitRefines, HandlerRefines, ReceiveAckRefines,
       RestartRefines
    DEF Next, Connect, LoseLink, NoticeClosed, HostnameMiddleware, OnConnect,
        AbortHandshake, PeerGone, HeartbeatMissed, OnDisconnect
  <2> QED BY <2>4, <2>5
<1> QED BY <1>1, <1>2, CommandsAlways, PTL DEF Spec, RelaySpec, Relay!Spec

=============================================================================
