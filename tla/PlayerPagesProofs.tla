------------------------- MODULE PlayerPagesProofs --------------------------
(***************************************************************************)
(* Proofs about RequestCoalescing and PlayerPages, for any callers, pages, *)
(* keys, durations, clocks and bounds.  What is shown of shared requests on *)
(* their own (Spec) holds of them under the pages' cache (PagesSpec), too, *)
(* and with it how old a page can be.                                      *)
(***************************************************************************)
EXTENDS PlayerPages, TLAPS

Active == {"requesting", "answered", "published"}

\* The map and the tasks mirror each other: an entry leads to the task that
\* will take it out, and a task that has not ended has its entry.
EntriesMatchTasks ==
  /\ \A k \in Keys : inflight[k] # NoFlight =>
       key[inflight[k]] = k /\ stage[inflight[k]] \in Active
  /\ \A f \in Flights : stage[f] \in Active =>
       key[f] \in Keys /\ inflight[key[f]] = f

\* Flights are numbered as they are spawned.
SpawnedInOrder == \A f \in Flights : stage[f] # "unused" <=> f <= started

\* A task publishes before it ends.
PublishedBeforeEnd ==
  \A f \in Flights :
    /\ stage[f] \in {"answered", "published", "ended"} => seen[f] \in Versions
    /\ stage[f] \in {"published", "ended"} => channel[f] = seen[f]
    /\ channel[f] # NoResult => stage[f] \in {"published", "ended"}

\* Callers wait for spawned tasks.
WaitForSpawned ==
  \A c \in Callers : pc[c] \in {"leading", "waiting"} =>
    on[c] \in Flights /\ stage[on[c]] # "unused" /\ key[on[c]] \in Keys

\* What a task saw is no older than the end of the task before it.
SeenAfterFloor ==
  /\ \A k \in Keys : floor[k] <= player[k]
  /\ \A f \in Flights : stage[f] \in {"answered", "published"} =>
       floor[key[f]] <= seen[f]

\* What a caller will get is no older than what it may expect.
WillBeFresh ==
  \A c \in Callers : pc[c] \in {"leading", "waiting"} =>
    /\ stage[on[c]] = "requesting" => since[c] <= player[key[on[c]]]
    /\ stage[on[c]] # "requesting" => since[c] <= seen[on[c]]

IInv ==
  /\ TypeOK
  /\ EntriesMatchTasks
  /\ SpawnedInOrder
  /\ PublishedBeforeEnd
  /\ WaitForSpawned
  /\ SeenAfterFloor
  /\ WillBeFresh
  /\ ChannelNeverClosedEmpty
  /\ FreshAnswer

LEMMA InitIInv == Init => IInv
BY CoalescingAssumption
   DEF Init, IInv, TypeOK, EntriesMatchTasks, SpawnedInOrder, PublishedBeforeEnd,
       WaitForSpawned, SeenAfterFloor, WillBeFresh, ChannelNeverClosedEmpty,
       FreshAnswer, Active, Stages, Flights, Versions, NoFlight, NoResult

\* A call joins the flight of its key or becomes the leader of a new one.
LEMMA RequestCoalescedIInv ==
  ASSUME IInv, NEW c \in Callers, NEW k \in Keys, RequestCoalesced(c, k)
  PROVE  IInv'
<1> USE CoalescingAssumption
    DEF IInv, TypeOK, EntriesMatchTasks, SpawnedInOrder, PublishedBeforeEnd,
        WaitForSpawned, SeenAfterFloor, WillBeFresh, ChannelNeverClosedEmpty,
        FreshAnswer, Active, Stages, Flights, Versions, NoFlight, NoResult
<1>1. CASE inflight[k] # NoFlight
  <2> DEFINE g == inflight[k]
  <2>1. /\ g \in Flights
        /\ stage[g] \in Active
        /\ key[g] = k
        /\ on' = [on EXCEPT ![c] = g]
        /\ pc' = [pc EXCEPT ![c] = "waiting"]
        /\ since' = [since EXCEPT ![c] = floor[k]]
        /\ pc[c] = "idle"
        /\ UNCHANGED <<inflight, started, stage, key, seen, channel, got, player, floor>>
    BY <1>1 DEF RequestCoalesced, taskVars
  <2> HIDE DEF g
  <2>2. TypeOK'
    BY <2>1
  <2>3. EntriesMatchTasks' /\ SpawnedInOrder' /\ PublishedBeforeEnd' /\ SeenAfterFloor'
    BY <2>1
  <2>4. WaitForSpawned'
    BY <2>1
  <2>5. /\ stage[g] = "requesting" => floor[k] <= player[k]
        /\ stage[g] # "requesting" => floor[k] <= seen[g]
    BY <2>1
  <2>6. WillBeFresh'
    BY <2>1, <2>5
  <2>7. ChannelNeverClosedEmpty' /\ FreshAnswer'
    BY <2>1
  <2> QED BY <2>2, <2>3, <2>4, <2>6, <2>7
<1>2. CASE inflight[k] = NoFlight
  <2> DEFINE f == started + 1
  <2>1. /\ f \in Flights
        /\ stage[f] = "unused"
        /\ started' = f
        /\ inflight' = [inflight EXCEPT ![k] = f]
        /\ stage' = [stage EXCEPT ![f] = "requesting"]
        /\ key' = [key EXCEPT ![f] = k]
        /\ on' = [on EXCEPT ![c] = f]
        /\ pc' = [pc EXCEPT ![c] = "leading"]
        /\ since' = [since EXCEPT ![c] = floor[k]]
        /\ pc[c] = "idle"
        /\ UNCHANGED <<seen, channel, got, player, floor>>
    BY <1>2 DEF RequestCoalesced, taskVars
  <2> HIDE DEF f
  <2>2. TypeOK'
    BY <2>1
  <2>3. EntriesMatchTasks'
    BY <2>1, <1>2
  <2>4. SpawnedInOrder'
    BY <2>1 DEF f
  <2>5. PublishedBeforeEnd' /\ SeenAfterFloor'
    BY <2>1
  <2>6. WaitForSpawned' /\ WillBeFresh'
    BY <2>1
  <2>7. ChannelNeverClosedEmpty' /\ FreshAnswer'
    BY <2>1
  <2> QED BY <2>2, <2>3, <2>4, <2>5, <2>6, <2>7
<1> QED BY <1>1, <1>2

\* A caller returns, or is dropped.
LEMMA CallerIInv ==
  ASSUME IInv, NEW c \in Callers, JoinTask(c) \/ WaitFor(c) \/ Cancel(c)
  PROVE  IInv'
<1> USE CoalescingAssumption
    DEF IInv, TypeOK, EntriesMatchTasks, SpawnedInOrder, PublishedBeforeEnd,
        WaitForSpawned, SeenAfterFloor, WillBeFresh, ChannelNeverClosedEmpty,
        FreshAnswer, Active, Stages, Flights, Versions, NoFlight, NoResult, taskVars
<1>1. CASE JoinTask(c) \/ WaitFor(c)
  <2> DEFINE f == on[c]
  <2>1. pc[c] \in {"leading", "waiting"} /\ f \in Flights
    BY <1>1 DEF JoinTask, WaitFor
  <2>2. stage[f] \in {"published", "ended"}
    BY <1>1, <2>1 DEF JoinTask, WaitFor
  <2>3. channel[f] = seen[f] /\ seen[f] \in Versions
    BY <2>1, <2>2
  <2>4. since[c] <= seen[f]
    BY <2>1, <2>2
  <2>5. /\ pc' = [pc EXCEPT ![c] = "done"]
        /\ got' = [got EXCEPT ![c] = seen[f]]
        /\ UNCHANGED <<on, since, inflight, started, stage, key, seen, channel,
                       player, floor>>
    BY <1>1, <2>1, <2>3 DEF JoinTask, WaitFor
  <2> HIDE DEF f
  <2>6. TypeOK'
    BY <2>3, <2>5
  <2>7. EntriesMatchTasks' /\ SpawnedInOrder' /\ PublishedBeforeEnd' /\ SeenAfterFloor'
    BY <2>5
  <2>8. WaitForSpawned' /\ WillBeFresh' /\ ChannelNeverClosedEmpty'
    BY <2>5
  <2>9. FreshAnswer'
    BY <2>4, <2>5
  <2> QED BY <2>6, <2>7, <2>8, <2>9
<1>2. CASE Cancel(c)
  BY <1>2 DEF Cancel
<1> QED BY <1>1, <1>2

\* A task makes its request, publishes the answer and takes its entry out.
LEMMA TaskIInv ==
  ASSUME IInv, NEW f \in Flights,
         RequestFromBackend(f) \/ Publish(f) \/ RemoveEntry(f)
  PROVE  IInv'
<1> USE CoalescingAssumption
    DEF IInv, TypeOK, EntriesMatchTasks, SpawnedInOrder, PublishedBeforeEnd,
        WaitForSpawned, SeenAfterFloor, WillBeFresh, ChannelNeverClosedEmpty,
        FreshAnswer, Active, Stages, Flights, Versions, NoFlight, NoResult, callerVars
<1>1. key[f] \in Keys /\ inflight[key[f]] = f
  BY DEF RequestFromBackend, Publish, RemoveEntry
<1>2. CASE RequestFromBackend(f)
  <2>1. TypeOK' /\ EntriesMatchTasks' /\ SpawnedInOrder'
    BY <1>1, <1>2 DEF RequestFromBackend
  <2>2. PublishedBeforeEnd' /\ WaitForSpawned' /\ SeenAfterFloor'
    BY <1>1, <1>2 DEF RequestFromBackend
  <2>3. ASSUME NEW c \in Callers, pc[c] \in {"leading", "waiting"}
        PROVE  /\ stage'[on[c]] = "requesting" => since[c] <= player[key[on[c]]]
               /\ stage'[on[c]] # "requesting" => since[c] <= seen'[on[c]]
    <3>1. CASE on[c] = f
      BY <1>1, <1>2, <2>3, <3>1 DEF RequestFromBackend
    <3>2. CASE on[c] # f
      BY <1>2, <2>3, <3>2 DEF RequestFromBackend
    <3> QED BY <3>1, <3>2
  <2>4. WillBeFresh' /\ ChannelNeverClosedEmpty' /\ FreshAnswer'
    BY <1>2, <2>3 DEF RequestFromBackend
  <2> QED BY <2>1, <2>2, <2>4
<1>3. CASE Publish(f)
  <2>1. TypeOK' /\ EntriesMatchTasks' /\ SpawnedInOrder'
    BY <1>1, <1>3 DEF Publish
  <2>2. PublishedBeforeEnd' /\ WaitForSpawned' /\ SeenAfterFloor'
    BY <1>1, <1>3 DEF Publish
  <2>3. WillBeFresh' /\ ChannelNeverClosedEmpty' /\ FreshAnswer'
    BY <1>1, <1>3 DEF Publish
  <2> QED BY <2>1, <2>2, <2>3
<1>4. CASE RemoveEntry(f)
  <2>1. TypeOK' /\ EntriesMatchTasks' /\ SpawnedInOrder'
    BY <1>1, <1>4 DEF RemoveEntry
  <2>2. PublishedBeforeEnd' /\ WaitForSpawned'
    BY <1>1, <1>4 DEF RemoveEntry
  <2>3. SeenAfterFloor'
    BY <1>1, <1>4 DEF RemoveEntry
  <2>4. WillBeFresh' /\ ChannelNeverClosedEmpty' /\ FreshAnswer'
    BY <1>1, <1>4 DEF RemoveEntry
  <2> QED BY <2>1, <2>2, <2>3, <2>4
<1> QED BY <1>2, <1>3, <1>4

\* The player only moves forward.
LEMMA PlayerIInv ==
  ASSUME IInv, NEW k \in Keys, PlayerChanges(k)
  PROVE  IInv'
BY CoalescingAssumption
   DEF PlayerChanges, taskVars, callerVars, IInv, TypeOK, EntriesMatchTasks,
       SpawnedInOrder, PublishedBeforeEnd, WaitForSpawned, SeenAfterFloor, WillBeFresh,
       ChannelNeverClosedEmpty, FreshAnswer, Active, Stages, Flights, Versions,
       NoFlight, NoResult

\* Every step of the module keeps the inductive invariant.
LEMMA StepIInv ==
  ASSUME IInv, [Next]_vars
  PROVE  IInv'
<1>1. ASSUME NEW c \in Callers, NEW k \in Keys, RequestCoalesced(c, k) PROVE IInv'
  BY <1>1, RequestCoalescedIInv
<1>2. ASSUME NEW c \in Callers, JoinTask(c) \/ WaitFor(c) \/ Cancel(c) PROVE IInv'
  BY <1>2, CallerIInv
<1>3. ASSUME NEW f \in Flights,
             RequestFromBackend(f) \/ Publish(f) \/ RemoveEntry(f)
      PROVE  IInv'
  BY <1>3, TaskIInv
<1>4. ASSUME NEW k \in Keys, PlayerChanges(k) PROVE IInv'
  BY <1>4, PlayerIInv
<1>5. CASE UNCHANGED vars
  BY <1>5 DEF vars, taskVars, callerVars, IInv, TypeOK, EntriesMatchTasks,
     SpawnedInOrder, PublishedBeforeEnd, WaitForSpawned, SeenAfterFloor, WillBeFresh,
     ChannelNeverClosedEmpty, FreshAnswer
<1> QED BY <1>1, <1>2, <1>3, <1>4, <1>5 DEF Next

\* The inductive invariant holds of every behaviour.
THEOREM Invariance == Spec => []IInv
BY InitIInv, StepIInv, PTL DEF Spec

\* The types hold, for any number of callers, keys and requests.
THEOREM TypeCorrect == Spec => []TypeOK
BY Invariance, PTL DEF IInv

\* "channel should never be closed": the expect of a waiting caller never
\* fails, since a task publishes before it ends and no caller can stop it.
THEOREM NeverClosedEmpty == Spec => []ChannelNeverClosedEmpty
BY Invariance, PTL DEF IInv

\* The backend never works on two requests for one key: the map holds the key
\* from before the request until after it.
THEOREM OneRequest == Spec => []OneRequestPerKey
<1>1. IInv => OneRequestPerKey
  BY DEF IInv, EntriesMatchTasks, OneRequestPerKey, Active
<1> QED BY <1>1, Invariance, PTL

\* A caller that joins a running request never gets an answer from before the
\* end of the request that preceded it.
THEOREM AnswersAreFresh == Spec => []FreshAnswer
BY Invariance, PTL DEF IInv

-----------------------------------------------------------------------------
\* A page that asks on its own, as now does, shares no request.
AsksAlone ==
  \A c \in Callers :
    /\ load[c].step = "new" => pc[c] = "idle"
    /\ load[c].step \in {"missed", "fetched"} =>
         load[c].key \in Keys /\ load[c].by = load[c].key
    /\ load[c].step = "missed" /\ load[c].key \in Direct => pc[c] = "idle"

\* A load waits for the request of its own key.
WaitsForItsKey ==
  \A c \in Callers : pc[c] \in {"leading", "waiting"} =>
    load[c].step = "missed" /\ key[on[c]] = load[c].key

\* An entry's created_at is no later than its insertion.
EntriesInPast ==
  \A p \in Pages : cache[p] # NoEntry =>
    /\ cache[p].created <= cache[p].born
    /\ cache[p].born <= real

\* Nothing is newer than the player, nor than the answer of a request that
\* others may still join.
Reached(k, v) ==
  /\ v <= player[k]
  /\ k \notin Direct =>
       \A f \in Flights :
         key[f] = k /\ stage[f] \in {"answered", "published"} => v <= seen[f]

Current ==
  /\ \A k \in Keys : Reached(k, newest[k])
  /\ \A f \in Flights : key[f] \in Keys /\ seen[f] # NoResult => Reached(key[f], seen[f])
  /\ \A p \in Pages : cache[p] # NoEntry => Reached(cache[p].by, cache[p].value)
  /\ \A c \in Callers : load[c].step = "fetched" => Reached(load[c].by, load[c].value)

\* A request that has not been answered has no answer.
SeenWhenAnswered ==
  \A f \in Flights : stage[f] \in {"unused", "requesting"} => seen[f] = NoResult

\* What is fetched is no older than what had been shown when its load came.
SinceBase ==
  /\ \A c \in Callers :
       /\ load[c].step = "missed" => load[c].base <= newest[load[c].by]
       /\ pc[c] \in {"leading", "waiting"} /\ stage[on[c]] # "requesting" =>
            load[c].base <= seen[on[c]]
       /\ load[c].step = "fetched" =>
            load[c].value \in Versions /\ load[c].base <= load[c].value
  /\ \A p \in Pages : cache[p] # NoEntry => cache[p].base <= cache[p].value

PagesInv ==
  /\ IInv
  /\ PagesTypeOK
  /\ AsksAlone
  /\ WaitsForItsKey
  /\ EntriesInPast
  /\ SeenWhenAnswered
  /\ Current
  /\ SinceBase

LEMMA PagesInitInv == PagesInit => PagesInv
<1> SUFFICES ASSUME PagesInit PROVE PagesInv
  OBVIOUS
<1>1. IInv
  BY InitIInv DEF PagesInit
<1> USE PagesAssumption, CoalescingAssumption DEF PagesInit
<1>2. PagesTypeOK
  <2>1. NewLoad \in Loads /\ NewLoad.step = "new"
    BY DEF Loads, NewLoad, Versions
  <2>2. load \in [Callers -> Loads] /\ \A c \in Callers : load[c].step = "new"
    BY <2>1
  <2>3. newest \in [Keys -> Versions]
    BY DEF Versions
  <2> QED BY <1>1, <2>2, <2>3 DEF PagesTypeOK, IInv
<1>3. AsksAlone /\ WaitsForItsKey /\ EntriesInPast /\ SeenWhenAnswered
  BY DEF AsksAlone, WaitsForItsKey, EntriesInPast, SeenWhenAnswered, Init, NewLoad
<1>4. Current
  BY DEF Current, Reached, Init, NewLoad, NoResult
<1>5. SinceBase
  BY DEF SinceBase, Init, NewLoad
<1> QED BY <1>1, <1>2, <1>3, <1>4, <1>5 DEF PagesInv

\* A load that ends with a page shows an entry, which is in the cache or goes there.
Shows(c, k, e) ==
  /\ pc[c] \notin {"leading", "waiting"}
  /\ e \in Entry
  /\ e.created <= e.born /\ e.born <= real
  /\ Reached(e.by, e.value)
  /\ e.base <= e.value
  /\ cache' = cache \/ cache' = [cache EXCEPT ![PageOf[k]] = e]
  /\ Show(c, k, e)
  /\ UNCHANGED <<vars, real, setBack>>

LEMMA ShowInv ==
  ASSUME PagesInv, NEW c \in Callers, NEW k \in Keys, NEW e, Shows(c, k, e)
  PROVE  PagesInv'
<1> USE PagesAssumption DEF PagesInv
<1> DEFINE new == [step |-> "shown", key |-> k, value |-> e.value, by |-> e.by,
                   base |-> e.base]
<1>1. /\ new \in Loads /\ new.step = "shown" /\ new.value \in Versions
      /\ load' = [load EXCEPT ![c] = new]
  BY DEF Shows, Show, Entry, Loads
<1>2. IInv'
  BY StepIInv DEF Shows
<1>3. UNCHANGED <<pc, on, stage, key, seen, player, real, setBack>>
  BY DEF Shows, vars, taskVars, callerVars
<1>4. /\ e \in Entry /\ e.by \in Keys /\ e.value \in Nat /\ e.base <= e.value
      /\ newest' = [newest EXCEPT ![e.by] = IF e.value > @ THEN e.value ELSE @]
      /\ e.value \in Versions
  BY DEF Shows, Show, Entry, Versions
<1>5. /\ cache' \in [Pages -> Entry \cup {NoEntry}]
      /\ \A p \in Pages : cache'[p] = cache[p] \/ cache'[p] = e
  BY <1>4 DEF Shows, PagesTypeOK
<1> HIDE DEF new
<1>6. /\ newest' \in [Keys -> Versions]
      /\ \A j \in Keys : newest'[j] = newest[j] \/ (j = e.by /\ newest'[j] = e.value)
      /\ \A j \in Keys : newest[j] <= newest'[j]
  BY <1>4 DEF PagesTypeOK, Versions
<1>7. PagesTypeOK'
  BY <1>1, <1>2, <1>3, <1>5, <1>6, CoalescingAssumption
     DEF PagesTypeOK, IInv, Versions, NoResult
<1>8. AsksAlone' /\ WaitsForItsKey' /\ SeenWhenAnswered'
  BY <1>1, <1>3 DEF PagesTypeOK, AsksAlone, WaitsForItsKey, SeenWhenAnswered, Shows
<1>9. EntriesInPast'
  BY <1>3, <1>5 DEF Shows, EntriesInPast
<1>10. Current'
  <2>1. \A j, v : Reached(j, v) => Reached(j, v)'
    BY <1>3 DEF Reached
  <2>2. \A j \in Keys : Reached(j, newest'[j])
    BY <1>6 DEF Current, Shows
  <2>3. \A p \in Pages : cache'[p] # NoEntry => Reached(cache'[p].by, cache'[p].value)
    BY <1>5 DEF Current, Shows
  <2>4. \A b \in Callers : load'[b].step = "fetched" =>
          Reached(load'[b].by, load'[b].value)
    BY <1>1 DEF Current, PagesTypeOK
  <2>5. \A f \in Flights : key[f] \in Keys /\ seen[f] # NoResult =>
          Reached(key[f], seen[f])
    BY DEF Current
  <2> QED BY <1>3, <2>1, <2>2, <2>3, <2>4, <2>5 DEF Current, Reached
<1>11. SinceBase'
  <2>1. ASSUME NEW b \in Callers, load'[b].step = "missed"
        PROVE  load'[b].base <= newest'[load'[b].by]
    <3>1. b # c /\ load'[b] = load[b] /\ load[b].by \in Keys
      BY <1>1, <2>1 DEF PagesTypeOK, AsksAlone
    <3>2. load[b].base \in Nat /\ load[b].base <= newest[load[b].by]
      BY <2>1, <3>1 DEF SinceBase, PagesTypeOK, Loads, Versions
    <3>3. newest[load[b].by] \in Nat /\ newest'[load[b].by] \in Nat
      BY <1>6, <3>1 DEF PagesTypeOK, Versions
    <3> QED BY <1>6, <3>1, <3>2, <3>3
  <2>2. ASSUME NEW b \in Callers, pc'[b] \in {"leading", "waiting"},
               stage'[on'[b]] # "requesting"
        PROVE  load'[b].base <= seen'[on'[b]]
    BY <1>1, <1>3, <2>2 DEF Shows, SinceBase, PagesTypeOK
  <2>3. ASSUME NEW b \in Callers, load'[b].step = "fetched"
        PROVE  load'[b].value \in Versions /\ load'[b].base <= load'[b].value
    BY <1>1, <2>3 DEF SinceBase, PagesTypeOK
  <2>4. \A p \in Pages : cache'[p] # NoEntry => cache'[p].base <= cache'[p].value
    BY <1>4, <1>5 DEF SinceBase
  <2> QED BY <2>1, <2>2, <2>3, <2>4 DEF SinceBase
<1> QED BY <1>2, <1>7, <1>8, <1>9, <1>10, <1>11

\* A hit returns what is cached, and a miss goes on to fetch.
LEMMA LookUpInv ==
  ASSUME PagesInv, NEW c \in Callers, NEW k \in Keys, LookUp(c, k)
  PROVE  PagesInv'
<1> USE PagesAssumption DEF PagesInv
<1>1. load[c].step = "new" /\ pc[c] = "idle" /\ UNCHANGED <<vars, cache, real, setBack>>
  BY DEF LookUp, AsksAlone
<1>2. IInv'
  BY <1>1, StepIInv
<1>3. CASE Good(cache[PageOf[k]])
  <2>1. cache[PageOf[k]] \in Entry /\ cache[PageOf[k]] # NoEntry /\ PageOf[k] \in Pages
    BY <1>3 DEF Good, PagesTypeOK
  <2>2. Shows(c, k, cache[PageOf[k]])
    BY <1>1, <1>3, <2>1 DEF Shows, LookUp, EntriesInPast, Current, SinceBase
  <2> QED BY <2>2, ShowInv
<1>4. CASE ~ Good(cache[PageOf[k]])
  <2> DEFINE new == [step |-> "missed", key |-> k, value |-> NoResult, by |-> k,
                     base |-> newest[k]]
  <2>1. /\ new \in Loads /\ new.step = "missed" /\ new.key = k /\ new.by = k
        /\ new.base = newest[k]
    BY DEF Loads, PagesTypeOK
  <2>2. load' = [load EXCEPT ![c] = new] /\ UNCHANGED newest
    BY <1>4 DEF LookUp, Miss
  <2>3. UNCHANGED <<pc, on, stage, key, seen, player>>
    BY <1>1 DEF vars, taskVars, callerVars
  <2> HIDE DEF new
  <2>4. PagesTypeOK'
    BY <1>1, <1>2, <2>1, <2>2 DEF PagesTypeOK, IInv
  <2>5. AsksAlone' /\ WaitsForItsKey' /\ EntriesInPast' /\ SeenWhenAnswered'
    BY <1>1, <2>1, <2>2, <2>3 DEF AsksAlone, WaitsForItsKey, EntriesInPast, SeenWhenAnswered, PagesTypeOK
  <2>6. Current'
    BY <1>1, <2>1, <2>2, <2>3 DEF Current, Reached, PagesTypeOK
  <2>7. SinceBase'
    BY <1>1, <2>1, <2>2, <2>3 DEF SinceBase, PagesTypeOK, Versions
  <2> QED BY <1>2, <2>4, <2>5, <2>6, <2>7
<1> QED BY <1>3, <1>4

\* A load gets the answer to a request for its key.
Gets(c, v) ==
  /\ load[c].step = "missed"
  /\ v \in Versions
  /\ Reached(load[c].by, v)
  /\ load[c].base <= v
  /\ Fetched(c, v)
  /\ \A b \in Callers \ {c} : pc'[b] = pc[b]
  /\ (pc'[c] = pc[c] /\ pc[c] = "idle") \/ pc'[c] = "done"
  /\ UNCHANGED <<on, taskVars, player, cache, real, setBack, newest>>

LEMMA FetchedInv ==
  ASSUME PagesInv, IInv', NEW c \in Callers, NEW v, Gets(c, v)
  PROVE  PagesInv'
<1> DEFINE new == IF v \in Failing THEN Ended("failed")
                  ELSE [load[c] EXCEPT !.step = "fetched", !.value = v]
<1>1. /\ load' = [load EXCEPT ![c] = new] /\ load \in [Callers -> Loads]
      /\ load[c].by \in Keys /\ load[c].by = load[c].key
  BY DEF Fetched, PagesInv, PagesTypeOK, AsksAlone, Gets
<1>2. /\ new \in Loads /\ new.step \in {"failed", "fetched"}
      /\ new.step = "fetched" =>
           new.value = v /\ new.by = load[c].by /\ new.base = load[c].base
  <2>1. Ended("failed") \in Loads /\ Ended("failed").step = "failed"
    BY CoalescingAssumption DEF Loads, Ended, NewLoad, Versions
  <2>2. v \in Versions /\ load[c] \in Loads
    BY <1>1 DEF Gets
  <2> QED BY <2>1, <2>2 DEF Loads
<1>3. UNCHANGED <<on, stage, key, seen, player, cache, real, setBack, newest>>
  BY DEF Gets, taskVars
<1>4. /\ \A b \in Callers \ {c} : pc'[b] = pc[b] /\ load'[b] = load[b]
      /\ pc'[c] \notin {"leading", "waiting"} /\ load'[c] = new
      /\ new.step = "fetched" => new.key = load[c].key
  BY <1>1 DEF Gets, Ended, NewLoad
<1> HIDE DEF new
<1>5. PagesTypeOK'
  BY <1>1, <1>2, <1>3 DEF PagesInv, PagesTypeOK, IInv
<1>6. AsksAlone' /\ WaitsForItsKey' /\ EntriesInPast' /\ SeenWhenAnswered'
  BY <1>1, <1>2, <1>3, <1>4 DEF PagesInv, AsksAlone, WaitsForItsKey, EntriesInPast, SeenWhenAnswered
<1>7. Current'
  <2>1. \A b \in Callers : load'[b].step = "fetched" =>
          Reached(load'[b].by, load'[b].value)
    BY <1>2, <1>4 DEF Gets, PagesInv, Current
  <2> QED BY <1>3, <2>1 DEF PagesInv, Current, Reached
<1>8. SinceBase'
  <2>1. \A b \in Callers : load'[b].step = "fetched" =>
          load'[b].value \in Versions /\ load'[b].base <= load'[b].value
    BY <1>1, <1>2, <1>4 DEF Gets, PagesInv, SinceBase
  <2> QED BY <1>2, <1>3, <1>4, <2>1 DEF PagesInv, SinceBase
<1> QED BY <1>5, <1>6, <1>7, <1>8 DEF PagesInv

\* A result is there when it is taken, and is that of a request for the load's key.
LEMMA GetCurrentInv ==
  ASSUME PagesInv, NEW c \in Callers, GetCurrent(c)
  PROVE  PagesInv'
<1>1. /\ load[c].step = "missed" /\ load[c].key \notin Direct /\ load[c].key \in Keys
      /\ load[c].by = load[c].key
      /\ UNCHANGED <<cache, real, setBack, newest>>
  BY DEF GetCurrent, PagesInv, AsksAlone
<1>2. CASE RequestCoalesced(c, load[c].key) /\ UNCHANGED load
  <2> DEFINE k == load[c].key
  <2>1. IInv'
    BY <1>1, <1>2, StepIInv DEF Next, PagesInv
  <2>2. /\ \A b \in Callers \ {c} : pc'[b] = pc[b] /\ on'[b] = on[b]
        /\ pc'[c] \in {"leading", "waiting"} /\ on'[c] \in Flights
        /\ key'[on'[c]] = k /\ stage'[on'[c]] \in Active
        /\ stage'[on'[c]] # "requesting" => stage[on'[c]] = stage'[on'[c]]
                                            /\ key[on'[c]] = k
        /\ UNCHANGED <<seen, player>>
        /\ \A f \in Flights : stage[f] # "unused" => stage'[f] = stage[f] /\ key'[f] = key[f]
        /\ \A f \in Flights : stage'[f] \in {"answered", "published"} => stage[f] = stage'[f]
    <3> USE DEF PagesInv, IInv, TypeOK, EntriesMatchTasks, SpawnedInOrder
    <3>1. CASE inflight[k] # NoFlight
      BY <1>1, <1>2, <3>1 DEF RequestCoalesced, taskVars, Active
    <3>2. CASE inflight[k] = NoFlight
      <4> DEFINE f == started + 1
      <4>1. /\ f \in Flights /\ stage[f] = "unused"
            /\ stage' = [stage EXCEPT ![f] = "requesting"]
            /\ key' = [key EXCEPT ![f] = k]
            /\ on' = [on EXCEPT ![c] = f]
            /\ pc' = [pc EXCEPT ![c] = "leading"]
            /\ UNCHANGED <<seen, player>>
        BY <1>2, <3>2, CoalescingAssumption DEF RequestCoalesced, Flights, NoFlight
      <4> HIDE DEF f
      <4> QED BY <4>1 DEF Active
    <3> QED BY <3>1, <3>2
  <2> HIDE DEF k
  <2>3. PagesTypeOK'
    BY <1>1, <1>2, <2>1 DEF PagesInv, PagesTypeOK, IInv
  <2>4. AsksAlone' /\ EntriesInPast' /\ SeenWhenAnswered'
    BY <1>1, <1>2, <2>2 DEF PagesInv, AsksAlone, EntriesInPast, SeenWhenAnswered, k
  <2>5. WaitsForItsKey'
    <3>1. ASSUME NEW b \in Callers, pc'[b] \in {"leading", "waiting"}
          PROVE  load[b].step = "missed" /\ key'[on'[b]] = load[b].key
      <4>1. CASE b = c
        BY <1>1, <2>2, <4>1 DEF k
      <4>2. CASE b # c
        BY <2>2, <3>1, <4>2 DEF PagesInv, WaitsForItsKey, IInv, WaitForSpawned
      <4> QED BY <4>1, <4>2
    <3> QED BY <1>2, <3>1 DEF WaitsForItsKey
  <2>6. \A f \in Flights : seen[f] # NoResult => stage[f] # "unused" /\ key'[f] = key[f]
    BY <2>2 DEF PagesInv, SeenWhenAnswered
  <2>7. Current'
    <3>1. ASSUME NEW j, NEW v, Reached(j, v)
          PROVE  Reached(j, v)'
      BY <2>2, <3>1 DEF Reached, Active
    <3>2. \A f \in Flights : key'[f] \in Keys /\ seen[f] # NoResult =>
            Reached(key'[f], seen[f])
      BY <2>6 DEF PagesInv, Current
    <3> QED BY <1>1, <1>2, <2>2, <3>1, <3>2 DEF PagesInv, Current, Reached
  <2>8. SinceBase'
    <3>1. ASSUME NEW b \in Callers, pc'[b] \in {"leading", "waiting"},
                 stage'[on'[b]] # "requesting"
          PROVE  load[b].base <= seen[on'[b]]
      <4>1. CASE b = c
        <5>1. /\ Reached(k, newest[k]) /\ load[c].base <= newest[k]
              /\ stage[on'[c]] \in {"answered", "published"} /\ key[on'[c]] = k
          BY <1>1, <2>2, <3>1, <4>1 DEF PagesInv, Current, SinceBase, k, Active
        <5>2. newest[k] <= seen[on'[c]]
          BY <1>1, <2>2, <5>1 DEF Reached, k
        <5>3. load[c].base \in Nat /\ newest[k] \in Nat /\ seen[on'[c]] \in Nat
          BY <1>1, <2>2, CoalescingAssumption
             DEF PagesInv, PagesTypeOK, Loads, Versions, IInv, TypeOK, NoResult, k
        <5> QED BY <4>1, <5>1, <5>2, <5>3
      <4>2. CASE b # c
        BY <2>2, <3>1, <4>2 DEF PagesInv, SinceBase, IInv, WaitForSpawned
      <4> QED BY <4>1, <4>2
    <3> QED BY <1>1, <1>2, <2>2, <3>1 DEF PagesInv, SinceBase
  <2> QED BY <2>1, <2>3, <2>4, <2>5, <2>7, <2>8 DEF PagesInv
<1>3. ASSUME NEW v, (JoinTask(c) /\ v = seen[on[c]]) \/ (WaitFor(c) /\ v = channel[on[c]]),
             Fetched(c, v)
      PROVE  PagesInv'
  <2>1. IInv' /\ pc[c] \in {"leading", "waiting"}
    BY <1>3, StepIInv DEF Next, PagesInv, JoinTask, WaitFor
  <2>2. /\ on[c] \in Flights /\ key[on[c]] = load[c].key
        /\ stage[on[c]] \in {"published", "ended"}
    BY <1>3, <2>1 DEF PagesInv, IInv, TypeOK, WaitForSpawned, WaitsForItsKey,
       PublishedBeforeEnd, JoinTask, WaitFor
  <2>3. v = seen[on[c]] /\ v \in Versions
    BY <1>3, <2>2 DEF PagesInv, IInv, PublishedBeforeEnd
  <2>4. v # NoResult
    BY <2>3 DEF Versions, NoResult
  <2>5. Reached(load[c].by, v) /\ load[c].base <= v
    BY <1>1, <2>1, <2>2, <2>3, <2>4 DEF PagesInv, Current, SinceBase
  <2>6. /\ pc' = [pc EXCEPT ![c] = "done"]
        /\ UNCHANGED <<on, taskVars, player>>
    BY <1>3, <2>4 DEF JoinTask, WaitFor
  <2>7. Gets(c, v)
    BY <1>1, <1>3, <2>3, <2>5, <2>6 DEF Gets, PagesInv, IInv, TypeOK
  <2> QED BY <2>1, <2>7, FetchedInv
<1>4. CASE JoinTask(c) /\ Fetched(c, seen[on[c]])
  BY <1>4, <1>3, Zenon
<1>5. CASE WaitFor(c) /\ Fetched(c, channel[on[c]])
  BY <1>5, <1>3, Zenon
<1> QED BY <1>2, <1>4, <1>5 DEF GetCurrent

LEMMA NowInv ==
  ASSUME PagesInv, NEW c \in Callers, Now(c)
  PROVE  PagesInv'
<1> DEFINE k == load[c].key
<1>1. /\ load[c].step = "missed" /\ k \in Direct /\ k \in Keys /\ load[c].by = k
      /\ UNCHANGED <<vars, cache, real, setBack, newest>> /\ pc[c] = "idle"
      /\ Fetched(c, player[k])
  BY DEF Now, PagesInv, AsksAlone
<1>2. IInv'
  BY <1>1, StepIInv DEF PagesInv
<1> HIDE DEF k
<1>3. player[k] \in Versions /\ Reached(k, player[k])
  BY <1>1 DEF PagesInv, IInv, TypeOK, Versions, Reached
<1>4. load[c].base <= newest[k] /\ newest[k] <= player[k]
  BY <1>1 DEF PagesInv, SinceBase, Current, Reached
<1>5. load[c].base \in Nat /\ newest[k] \in Nat /\ player[k] \in Nat
  BY <1>1 DEF PagesInv, PagesTypeOK, Loads, Versions, IInv, TypeOK
<1>6. load[c].base <= player[k]
  BY <1>4, <1>5
<1>7. Gets(c, player[k])
  BY <1>1, <1>3, <1>6 DEF Gets, vars, callerVars, taskVars
<1> QED BY <1>2, <1>7, FetchedInv

\* What is inserted was asked for by the load that inserts it.
LEMMA InsertInv ==
  ASSUME PagesInv, NEW c \in Callers, Insert(c)
  PROVE  PagesInv'
<1> USE PagesAssumption DEF PagesInv
<1> DEFINE e == [value |-> load[c].value, created |-> SystemTime, born |-> real,
                 by |-> load[c].by, base |-> load[c].base]
           k == load[c].key
<1>1. /\ load[c].step = "fetched" /\ UNCHANGED <<vars, real, setBack>>
      /\ cache' = [cache EXCEPT ![PageOf[k]] = e] /\ Show(c, k, e)
  BY DEF Insert
<1>2. /\ load[c].by \in Keys /\ load[c].base <= load[c].value
      /\ load[c] \in Loads /\ pc[c] \notin {"leading", "waiting"}
      /\ Reached(load[c].by, load[c].value)
      /\ k \in Keys /\ load[c].value \in Versions
  <2>1. load[c].value # NoResult => load[c].value \in Versions
    BY DEF PagesTypeOK, Loads
  <2> QED BY <1>1, <2>1 DEF SinceBase, PagesTypeOK, WaitsForItsKey, Current, AsksAlone
<1>3. e \in Entry /\ e.created <= e.born /\ e.born <= real
  BY <1>2 DEF Entry, SystemTime, PagesTypeOK, Loads
<1>4. e.by = load[c].by /\ e.value = load[c].value /\ e.base = load[c].base
  OBVIOUS
<1> HIDE DEF e, k
<1>5. Shows(c, k, e)
  BY <1>1, <1>2, <1>3, <1>4 DEF Shows
<1> QED BY <1>2, <1>5, ShowInv

\* A dropped load shows nothing.
LEMMA DropInv ==
  ASSUME PagesInv, NEW c \in Callers, Drop(c)
  PROVE  PagesInv'
<1> USE DEF PagesInv
<1> DEFINE new == Ended("dropped")
<1>1. new \in Loads /\ new.step = "dropped"
  BY CoalescingAssumption DEF Loads, Ended, NewLoad, Versions
<1>2. load' = [load EXCEPT ![c] = new] /\ UNCHANGED <<cache, real, setBack, newest>>
  BY DEF Drop
<1>3. [Next]_vars
  BY DEF Drop, Next
<1>4. IInv'
  BY <1>3, StepIInv
<1>5. /\ \A b \in Callers \ {c} : pc'[b] = pc[b]
      /\ pc'[c] \notin {"leading", "waiting"}
      /\ UNCHANGED <<on, stage, key, seen, player>>
  BY DEF Drop, Cancel, vars, callerVars, taskVars, IInv, TypeOK
<1> HIDE DEF new
<1>6. PagesTypeOK'
  BY <1>1, <1>2, <1>4 DEF PagesTypeOK, IInv
<1>7. AsksAlone' /\ WaitsForItsKey' /\ EntriesInPast' /\ SeenWhenAnswered'
  BY <1>1, <1>2, <1>5 DEF PagesTypeOK, AsksAlone, WaitsForItsKey, EntriesInPast, SeenWhenAnswered
<1>8. Current' /\ SinceBase'
  BY <1>1, <1>2, <1>5 DEF PagesTypeOK, Current, Reached, SinceBase
<1> QED BY <1>4, <1>6, <1>7, <1>8

\* The tasks: a request is answered from the state the player has by then.
LEMMA TaskInv ==
  ASSUME PagesInv, NEW f \in Flights, Task(f)
  PROVE  PagesInv'
<1> USE DEF PagesInv
<1>1. IInv' /\ UNCHANGED <<cache, load, real, setBack, newest, pc, on, key, player>>
  BY StepIInv DEF Task, Next, pageVars, RequestFromBackend, Publish, RemoveEntry, callerVars
<1>2. PagesTypeOK' /\ AsksAlone' /\ WaitsForItsKey' /\ EntriesInPast'
  BY <1>1 DEF PagesTypeOK, IInv, AsksAlone, WaitsForItsKey, EntriesInPast
<1>3. CASE RequestFromBackend(f)
  <2> DEFINE k == key[f]
  <2>1. /\ k \in Keys /\ stage[f] = "requesting"
        /\ stage' = [stage EXCEPT ![f] = "answered"]
        /\ seen' = [seen EXCEPT ![f] = player[k]]
        /\ \A g \in Flights : key[g] = k /\ stage[g] \in {"answered", "published"} => FALSE
    BY <1>3 DEF RequestFromBackend, IInv, EntriesMatchTasks, Active
  <2>2. /\ \A g \in Flights \ {f} : stage'[g] = stage[g] /\ seen'[g] = seen[g]
        /\ stage'[f] = "answered" /\ seen'[f] = player[k] /\ player[k] \in Nat
    BY <2>1 DEF IInv, TypeOK, Versions
  <2> HIDE DEF k
  <2>3. SeenWhenAnswered'
    BY <2>2 DEF SeenWhenAnswered
  <2>4. ASSUME NEW j, NEW v, Reached(j, v)
        PROVE  Reached(j, v)'
    BY <1>1, <2>2, <2>4 DEF Reached, k
  <2>5. Reached(k, player[k])
    BY <2>1, <2>2 DEF Reached, k
  <2>6. \A g \in Flights : key[g] \in Keys /\ seen'[g] # NoResult => Reached(key[g], seen'[g])
    BY <2>2, <2>5 DEF Current, k
  <2>7. Current'
    BY <1>1, <2>4, <2>6 DEF Current, Reached
  <2>8. ASSUME NEW c \in Callers, pc[c] \in {"leading", "waiting"},
               stage'[on[c]] # "requesting"
        PROVE  load[c].base <= seen'[on[c]]
    <3>1. CASE on[c] = f
      <4>1. load[c].by = k /\ load[c].base <= newest[k] /\ newest[k] <= player[k]
        BY <2>1, <2>8, <3>1 DEF WaitsForItsKey, AsksAlone, SinceBase, Current, Reached, k
      <4>2. load[c].base \in Nat /\ newest[k] \in Nat
        BY <2>1 DEF PagesTypeOK, Loads, Versions
      <4> QED BY <2>2, <3>1, <4>1, <4>2
    <3>2. CASE on[c] # f
      BY <2>2, <2>8, <3>2 DEF SinceBase, IInv, WaitForSpawned
    <3> QED BY <3>1, <3>2
  <2>9. SinceBase'
    BY <1>1, <2>8 DEF SinceBase
  <2> QED BY <1>1, <1>2, <2>3, <2>7, <2>9
<1>4. CASE Publish(f) \/ RemoveEntry(f)
  <2>1. /\ \A g \in Flights : stage'[g] = stage[g] \/ (g = f /\ stage[f] \in {"answered", "published"}
                                                     /\ stage'[f] \in {"published", "ended"})
        /\ seen' = seen
    BY <1>4 DEF Publish, RemoveEntry, IInv, TypeOK
  <2>2. SeenWhenAnswered'
    BY <2>1 DEF SeenWhenAnswered
  <2>3. ASSUME NEW j, NEW v, Reached(j, v)
        PROVE  Reached(j, v)'
    BY <1>1, <2>1, <2>3 DEF Reached
  <2>4. Current'
    BY <1>1, <2>1, <2>3 DEF Current, Reached
  <2>5. SinceBase'
    BY <1>1, <2>1 DEF SinceBase, IInv, WaitForSpawned
  <2> QED BY <1>1, <1>2, <2>2, <2>4, <2>5
<1> QED BY <1>3, <1>4 DEF Task

\* The players and the clocks touch neither the cache nor the loads.
LEMMA OtherPagesInv ==
  ASSUME PagesInv, (\E k \in Keys : Ctl(k)) \/ Tick \/ SetBack \/ UNCHANGED allVars
  PROVE  PagesInv'
<1>1. /\ UNCHANGED <<cache, load, newest, pc, on, stage, key, seen>> /\ [Next]_vars
      /\ \A j \in Keys : player[j] <= player'[j]
  BY DEF Ctl, Tick, SetBack, allVars, pageVars, Next, PlayerChanges, vars, callerVars,
         taskVars, PagesInv, IInv, TypeOK, Versions
<1>2. /\ real \in 0 .. MaxTime /\ real' \in 0 .. MaxTime /\ real <= real'
      /\ setBack' \in 0 .. MaxSetBack
  BY PagesAssumption DEF Ctl, Tick, SetBack, allVars, pageVars, PagesInv, PagesTypeOK
<1>3. IInv'
  BY <1>1, StepIInv DEF PagesInv
<1>4. PagesTypeOK'
  BY <1>1, <1>2, <1>3 DEF PagesInv, PagesTypeOK, IInv
<1>5. AsksAlone' /\ WaitsForItsKey' /\ SeenWhenAnswered' /\ SinceBase'
  BY <1>1 DEF PagesInv, AsksAlone, WaitsForItsKey, SeenWhenAnswered, SinceBase
<1>6. EntriesInPast'
  <2>1. \A p \in Pages : cache[p] # NoEntry => cache[p].born \in 0 .. MaxTime
    BY DEF PagesInv, PagesTypeOK, Entry
  <2> QED BY <1>1, <1>2, <2>1, PagesAssumption DEF PagesInv, EntriesInPast
<1>7. Current'
  <2>1. ASSUME NEW j \in Keys, NEW v \in Nat, Reached(j, v)
        PROVE  Reached(j, v)'
    <3>1. player[j] \in Nat /\ player'[j] \in Nat /\ player[j] <= player'[j]
      BY <1>1, <1>3 DEF PagesInv, IInv, TypeOK, Versions
    <3>2. v <= player'[j]
      BY <2>1, <3>1 DEF Reached
    <3> QED BY <1>1, <2>1, <3>2 DEF Reached
  <2>2. \A j \in Keys : newest[j] \in Nat
    BY DEF PagesInv, PagesTypeOK, Versions
  <2>3. \A f \in Flights : seen[f] \in Nat
    BY DEF PagesInv, IInv, TypeOK, Versions, NoResult
  <2>4. \A p \in Pages : cache[p] # NoEntry => cache[p].by \in Keys /\ cache[p].value \in Nat
    BY DEF PagesInv, PagesTypeOK, Entry, Versions
  <2>5. \A c \in Callers : load[c].step = "fetched" =>
          load[c].by \in Keys /\ load[c].value \in Nat
    BY DEF PagesInv, SinceBase, AsksAlone, Versions
  <2>6. \A j \in Keys : Reached(j, newest[j])'
    BY <1>1, <2>1, <2>2 DEF PagesInv, Current
  <2> QED BY <1>1, <2>1, <2>2, <2>3, <2>4, <2>5, <2>6 DEF PagesInv, Current, Reached
<1> QED BY <1>3, <1>4, <1>5, <1>6, <1>7 DEF PagesInv

THEOREM PagesInvariance == PagesSpec => []PagesInv
<1>1. PagesInv /\ [PagesNext]_allVars => PagesInv'
  BY LookUpInv, GetCurrentInv, NowInv, InsertInv, DropInv, TaskInv, OtherPagesInv
     DEF PagesNext
<1> QED BY <1>1, PagesInitInv, PTL DEF PagesSpec

\* What holds of shared requests holds of those of the pages: nobody finds a
\* closed channel, the backend works on one request per key, and answers are fresh.
THEOREM PagesShareSafely ==
  PagesSpec => [](ChannelNeverClosedEmpty /\ OneRequestPerKey /\ FreshAnswer)
<1>1. IInv => OneRequestPerKey
  BY DEF IInv, EntriesMatchTasks, OneRequestPerKey, Active
<1> QED BY <1>1, PagesInvariance, PTL DEF PagesInv, IInv

\* A load that begins to show a page shows an entry, of the cache or its own.
LEMMA ShownFrom ==
  ASSUME PagesInv, PagesNext, NEW c \in Callers,
         load[c].step # "shown", load'[c].step = "shown"
  PROVE  \/ /\ load[c].step = "new"
            /\ \E k \in Keys : Good(cache[PageOf[k]]) /\ Show(c, k, cache[PageOf[k]])
         \/ /\ load[c].step = "fetched"
            /\ load'[c].value = load[c].value
            /\ load'[c].by = load[c].by /\ load'[c].base = load[c].base
<1> USE DEF PagesInv, PagesTypeOK
<1>1. CASE \E k \in Keys : LookUp(c, k)
  BY <1>1 DEF LookUp, Miss
<1>2. CASE Insert(c)
  BY <1>2 DEF Insert, Show
<1>3. CASE GetCurrent(c) \/ Now(c)
  <2>1. load[c].step = "missed"
    BY <1>3 DEF GetCurrent, Now
  <2>2. load' # load
    BY <2>1
  <2>3. PICK v : Fetched(c, v)
    BY <1>3, <2>2 DEF GetCurrent, Now
  <2>4. load'[c] = IF v \in Failing THEN Ended("failed")
                   ELSE [load[c] EXCEPT !.step = "fetched", !.value = v]
    BY <2>3 DEF Fetched
  <2>5. Ended("failed").step # "shown"
    BY DEF Ended, NewLoad
  <2>6. load[c] \in Loads
    OBVIOUS
  <2> QED BY <2>4, <2>5, <2>6 DEF Loads
<1>4. CASE Drop(c)
  BY <1>4 DEF Drop, Ended, NewLoad
<1>5. CASE (\E f \in Flights : Task(f)) \/ (\E k \in Keys : Ctl(k)) \/ Tick \/ SetBack
  BY <1>5 DEF Task, Ctl, Tick, SetBack, pageVars
<1>6. ASSUME NEW b \in Callers, b # c,
             \/ \E k \in Keys : LookUp(b, k)
             \/ GetCurrent(b) \/ Now(b) \/ Insert(b) \/ Drop(b)
      PROVE  FALSE
  BY <1>6 DEF LookUp, Miss, Show, GetCurrent, Now, Fetched, Insert, Drop
<1> QED BY <1>1, <1>2, <1>3, <1>4, <1>5, <1>6 DEF PagesNext

\* Only a late load takes a page back behind an earlier one, for any loads that
\* end in whatever order.
THEOREM BackOnlyLate == PagesSpec => BackOnlyByLateLoad
<1> DEFINE Late ==
      \A c \in Callers :
        (load[c].step # "shown" /\ load'[c].step = "shown") =>
          LET shown == load'[c]
          IN shown.value < newest[shown.by] => shown.base < newest[shown.by]
<1>1. PagesInv /\ [PagesNext]_allVars => [Late]_allVars
  <2> SUFFICES ASSUME PagesInv, PagesNext, NEW c \in Callers,
                      load[c].step # "shown", load'[c].step = "shown",
                      load'[c].value < newest[load'[c].by]
               PROVE  load'[c].base < newest[load'[c].by]
    OBVIOUS
  <2>1. load'[c].base <= load'[c].value /\ load'[c].by \in Keys
    <3>1. CASE load[c].step = "new"
      <4>1. PICK k \in Keys : Good(cache[PageOf[k]]) /\ Show(c, k, cache[PageOf[k]])
        BY <3>1, ShownFrom
      <4>2. PageOf[k] \in Pages /\ cache[PageOf[k]] \in Entry
            /\ cache[PageOf[k]] # NoEntry
        BY <4>1, PagesAssumption DEF PagesInv, PagesTypeOK, Good
      <4> QED BY <4>1, <4>2 DEF Show, PagesInv, PagesTypeOK, SinceBase, Entry
    <3>2. CASE load[c].step = "fetched"
      BY <3>2, ShownFrom DEF PagesInv, SinceBase, AsksAlone
    <3> QED BY <3>1, <3>2, ShownFrom
  <2>2. PagesTypeOK'
    <3>1. PagesInv'
      BY LookUpInv, GetCurrentInv, NowInv, InsertInv, DropInv, TaskInv, OtherPagesInv
         DEF PagesNext
    <3> QED BY <3>1 DEF PagesInv
  <2>3. load'[c].base \in Nat /\ load'[c].value \in Nat /\ newest[load'[c].by] \in Nat
    BY <2>1, <2>2, CoalescingAssumption DEF PagesInv, PagesTypeOK, Loads, Versions, NoResult
  <2> QED BY <2>1, <2>3
<1> QED BY <1>1, PagesInvariance, PTL DEF PagesSpec, BackOnlyByLateLoad

\* A hit is younger than Duration, and what the clock was set back by.
THEOREM HitsStayRecent == PagesSpec => HitsAreRecent
<1> DEFINE Recent ==
      \A c \in Callers : load[c].step = "new" /\ load'[c].step = "shown" =>
        real - cache[PageOf[load'[c].key]].born < Duration + setBack
<1>1. PagesInv /\ [PagesNext]_allVars => [Recent]_allVars
  <2> SUFFICES ASSUME PagesInv, PagesNext, NEW c \in Callers,
                      load[c].step = "new", load'[c].step = "shown"
               PROVE  real - cache[PageOf[load'[c].key]].born < Duration + setBack
    OBVIOUS
  <2>1. PICK k \in Keys : Good(cache[PageOf[k]]) /\ Show(c, k, cache[PageOf[k]])
    BY ShownFrom
  <2>2. load'[c].key = k
    BY <2>1 DEF Show, PagesInv, PagesTypeOK
  <2> DEFINE e == cache[PageOf[k]]
  <2>3. /\ e \in Entry /\ e.created <= e.born /\ SystemTime - e.created < Duration
    BY <2>1, PagesAssumption DEF Good, PagesInv, PagesTypeOK, EntriesInPast
  <2>4. /\ real \in Int /\ setBack \in Int /\ Duration \in Int
        /\ e.created \in Int /\ e.born \in Int
    BY <2>3, PagesAssumption DEF Entry, PagesInv, PagesTypeOK
  <2> HIDE DEF e
  <2>5. real - e.born < Duration + setBack
    BY <2>3, <2>4 DEF SystemTime
  <2> QED BY <2>2, <2>5 DEF e
<1> QED BY <1>1, PagesInvariance, PTL DEF PagesSpec, HitsAreRecent

=============================================================================
