-------------------------- MODULE RequestCoalescing --------------------------
(***************************************************************************)
(* request_coalesced of planar-bridge (src/music/request_coalescing.rs):   *)
(* HTTP handlers that ask the same player the same thing at the same time  *)
(* share one request to the backend.                                       *)
(*                                                                         *)
(* The first caller for a key, a (Target, MusicCmdKind) pair, enters a     *)
(* watch channel in the inflight map and spawns a task that makes the      *)
(* request, publishes the result in the channel and takes the entry out.   *)
(* Later callers find the entry and wait on a clone of the receiver.  Any  *)
(* caller is dropped at an await when its HTTP client hangs up.            *)
(*                                                                         *)
(* What a request returns is abstracted to the version of the player's     *)
(* state that it saw; an error is a result like another.                   *)
(***************************************************************************)
EXTENDS Naturals

CONSTANTS
  Callers,      \* calls of request_coalesced, each made once
  Keys,         \* the (Target, MusicCmdKind) pairs asked for
  MaxFlights,   \* bound: backend requests started
  MaxVersion,   \* bound: versions of a player's state
  None          \* the key of a task not spawned yet

ASSUME CoalescingAssumption ==
  /\ MaxFlights \in Nat
  /\ MaxVersion \in Nat \ {0}
  /\ None \notin Keys

Flights  == 1 .. MaxFlights
Versions == 1 .. MaxVersion

NoFlight == 0   \* no entry in the inflight map
NoResult == 0   \* the channel holds Option::None

VARIABLES
  inflight,   \* the map, from keys to the channel of a flight
  started,    \* tasks spawned so far
  stage,      \* progress of each task
  key,        \* the key each task asks for
  seen,       \* the result a task's backend request came back with
  channel,    \* the value in each task's watch channel
  pc,         \* progress of each caller
  on,         \* the flight each caller waits for
  got,        \* what request_coalesced returned to it
  player,     \* the current version of each player's state
  floor,      \* history: the version when the key's last task ended
  since       \* history: floor of the caller's key when it called

taskVars   == <<inflight, started, stage, key, seen, channel>>
callerVars == <<pc, on, got, since>>
vars       == <<taskVars, callerVars, player, floor>>

Stages == {"unused", "requesting", "answered", "published", "ended"}

TypeOK ==
  /\ inflight \in [Keys -> Flights \cup {NoFlight}]
  /\ started  \in 0 .. MaxFlights
  /\ stage    \in [Flights -> Stages]
  /\ key      \in [Flights -> Keys \cup {None}]
  /\ seen     \in [Flights -> Versions \cup {NoResult}]
  /\ channel  \in [Flights -> Versions \cup {NoResult}]
  /\ pc       \in [Callers -> {"idle", "leading", "waiting", "done",
                               "cancelled", "panicked"}]
  /\ on       \in [Callers -> Flights \cup {NoFlight}]
  /\ got      \in [Callers -> Versions \cup {NoResult}]
  /\ \A c \in Callers : pc[c] = "done" => got[c] # NoResult
  /\ player   \in [Keys -> Versions]
  /\ floor    \in [Keys -> Versions]
  /\ since    \in [Callers -> Versions]

Init ==
  /\ inflight = [k \in Keys |-> NoFlight]
  /\ started  = 0
  /\ stage    = [f \in Flights |-> "unused"]
  /\ key      = [f \in Flights |-> None]
  /\ seen     = [f \in Flights |-> NoResult]
  /\ channel  = [f \in Flights |-> NoResult]
  /\ pc       = [c \in Callers |-> "idle"]
  /\ on       = [c \in Callers |-> NoFlight]
  /\ got      = [c \in Callers |-> NoResult]
  /\ player   = [k \in Keys |-> 1]
  /\ floor    = [k \in Keys |-> 1]
  /\ since    = [c \in Callers |-> 1]

-----------------------------------------------------------------------------
(***************************************************************************)
(* Faulty variants of the actions below, each a mistake the code avoids.   *)
(* No specification uses them: they show that the properties at the end    *)
(* of this module can fail.                                                *)
(***************************************************************************)

\* Without the spawn: the request lives in the leader's own future, and is
\* dropped with it.  The entry is taken out, as a drop guard would.
CancelTakesRequest(c) ==
  /\ pc[c] \in {"leading", "waiting"}
  /\ pc' = [pc EXCEPT ![c] = "cancelled"]
  /\ IF pc[c] = "leading" /\ stage[on[c]] # "ended"
     THEN /\ stage'    = [stage EXCEPT ![on[c]] = "ended"]
          /\ inflight' = [inflight EXCEPT ![key[on[c]]] = NoFlight]
     ELSE UNCHANGED <<stage, inflight>>
  /\ UNCHANGED <<started, key, seen, channel, on, got, since, player, floor>>

\* The same, without the drop guard: the entry stays in the map for ever.
CancelLeavesEntry(c) ==
  /\ pc[c] \in {"leading", "waiting"}
  /\ pc' = [pc EXCEPT ![c] = "cancelled"]
  /\ stage' = IF pc[c] = "leading" THEN [stage EXCEPT ![on[c]] = "ended"] ELSE stage
  /\ UNCHANGED <<inflight, started, key, seen, channel, on, got, since, player,
                 floor>>

\* The entry is only made once the answer is there.
EnterWhenAnswered(c, k) ==
  /\ pc[c] = "idle"
  /\ started < MaxFlights
  /\ LET f == started + 1
     IN /\ started' = f
        /\ stage'   = [stage EXCEPT ![f] = "requesting"]
        /\ key'     = [key EXCEPT ![f] = k]
        /\ on'      = [on EXCEPT ![c] = f]
        /\ pc'      = [pc EXCEPT ![c] = "leading"]
        /\ since'   = [since EXCEPT ![c] = floor[k]]
  /\ UNCHANGED <<inflight, seen, channel, got, player, floor>>

\* The task ends without taking its entry out.
EndKeepingEntry(f) ==
  /\ stage[f] = "published"
  /\ stage' = [stage EXCEPT ![f] = "ended"]
  /\ floor' = [floor EXCEPT ![key[f]] = player[key[f]]]
  /\ UNCHANGED <<inflight, started, key, seen, channel, callerVars, player>>

-----------------------------------------------------------------------------
(***************************************************************************)
(* The callers.                                                            *)
(***************************************************************************)

\* Under the lock: clone the receiver of the entry, or make one and spawn the
\* task.  Nothing is awaited between the insertion and the spawn.
RequestCoalesced(c, k) ==
  /\ pc[c] = "idle"
  /\ since' = [since EXCEPT ![c] = floor[k]]
  /\ \/ /\ inflight[k] # NoFlight
        /\ on' = [on EXCEPT ![c] = inflight[k]]
        /\ pc' = [pc EXCEPT ![c] = "waiting"]
        /\ UNCHANGED taskVars
     \/ /\ inflight[k] = NoFlight
        /\ started < MaxFlights
        /\ LET f == started + 1
           IN /\ started'  = f
              /\ inflight' = [inflight EXCEPT ![k] = f]
              /\ stage'    = [stage EXCEPT ![f] = "requesting"]
              /\ key'      = [key EXCEPT ![f] = k]
              /\ on'       = [on EXCEPT ![c] = f]
        /\ pc' = [pc EXCEPT ![c] = "leading"]
        /\ UNCHANGED <<seen, channel>>
  /\ UNCHANGED <<got, player, floor>>

\* handle.await: the leader returns the task's own result.
JoinTask(c) ==
  /\ pc[c] = "leading"
  /\ stage[on[c]] = "ended"
  /\ pc'  = [pc EXCEPT ![c] = "done"]
  /\ got' = [got EXCEPT ![c] = seen[on[c]]]
  /\ UNCHANGED <<on, since, taskVars, player, floor>>

\* wait_for(Option::is_some) on the channel: it returns the value, if there is
\* one, before it looks whether the sender is gone; then the expect fails.
WaitFor(c) ==
  /\ pc[c] = "waiting"
  /\ channel[on[c]] # NoResult \/ stage[on[c]] = "ended"
  /\ pc'  = [pc EXCEPT ![c] = IF channel[on[c]] # NoResult THEN "done" ELSE "panicked"]
  /\ got' = [got EXCEPT ![c] = channel[on[c]]]
  /\ UNCHANGED <<on, since, taskVars, player, floor>>

\* The caller's HTTP client hangs up and its future is dropped.
Cancel(c) ==
  /\ pc[c] \in {"leading", "waiting"}
  /\ pc' = [pc EXCEPT ![c] = "cancelled"]
  /\ UNCHANGED <<on, got, since, taskVars, player, floor>>

-----------------------------------------------------------------------------
(***************************************************************************)
(* The spawned task.                                                       *)
(***************************************************************************)

\* request_from_backend: the player answers from the state it has then.
RequestFromBackend(f) ==
  /\ stage[f] = "requesting"
  /\ stage' = [stage EXCEPT ![f] = "answered"]
  /\ seen'  = [seen EXCEPT ![f] = player[key[f]]]
  /\ UNCHANGED <<inflight, started, key, channel, callerVars, player, floor>>

\* channel.send(Some(result)).
Publish(f) ==
  /\ stage[f] = "answered"
  /\ stage'   = [stage EXCEPT ![f] = "published"]
  /\ channel' = [channel EXCEPT ![f] = seen[f]]
  /\ UNCHANGED <<inflight, started, key, seen, callerVars, player, floor>>

\* Under the lock again: remove the entry.  The task returns and drops the sender.
RemoveEntry(f) ==
  /\ stage[f] = "published"
  /\ stage'    = [stage EXCEPT ![f] = "ended"]
  /\ inflight' = [inflight EXCEPT ![key[f]] = NoFlight]
  /\ floor'    = [floor EXCEPT ![key[f]] = player[key[f]]]
  /\ UNCHANGED <<started, key, seen, channel, callerVars, player>>

\* The player goes on playing.
PlayerChanges(k) ==
  /\ player[k] < MaxVersion
  /\ player' = [player EXCEPT ![k] = @ + 1]
  /\ UNCHANGED <<taskVars, callerVars, floor>>

-----------------------------------------------------------------------------

Next ==
  \/ \E c \in Callers : \/ \E k \in Keys : RequestCoalesced(c, k)
                        \/ JoinTask(c) \/ WaitFor(c) \/ Cancel(c)
  \/ \E f \in Flights : RequestFromBackend(f) \/ Publish(f) \/ RemoveEntry(f)
  \/ \E k \in Keys : PlayerChanges(k)

Spec == Init /\ [][Next]_vars

\* The runtime polls what is ready, and a request ends: with an answer, or with
\* the error of the server's sixty-second timeout.
Fairness ==
  /\ \A c \in Callers : WF_vars(JoinTask(c)) /\ WF_vars(WaitFor(c))
  /\ \A f \in Flights : /\ WF_vars(RequestFromBackend(f)) /\ WF_vars(Publish(f))
                        /\ WF_vars(RemoveEntry(f))

FairSpec == Spec /\ Fairness

-----------------------------------------------------------------------------
(***************************************************************************)
(* Properties.                                                             *)
(***************************************************************************)

\* "channel should never be closed": no waiting caller finds the sender gone
\* and the channel empty, whoever hangs up and when.
ChannelNeverClosedEmpty == \A c \in Callers : pc[c] # "panicked"

\* The backend never works on two requests for the same key.
OneRequestPerKey ==
  \A f, g \in Flights :
    (stage[f] = "requesting" /\ stage[g] = "requesting" /\ key[f] = key[g]) => f = g

\* A caller that joins late may get an answer computed before it called, but
\* never one from before the end of an earlier request for its key.
FreshAnswer == \A c \in Callers : pc[c] = "done" => got[c] >= since[c]

\* Every call returns or is dropped.
EveryCallEnds ==
  \A c \in Callers : pc[c] \in {"leading", "waiting"} ~> pc[c] \in {"done", "cancelled"}
=============================================================================
