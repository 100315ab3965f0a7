------------------------- MODULE MusicSessionsProofs -------------------------
(***************************************************************************)
(* Proofs about MusicSessions and MusicControl, for any creators, hosts,   *)
(* ids and requests.                                                       *)
(***************************************************************************)
EXTENDS MusicControl, TLAPS

\* A row that has not expired is a row.
LiveRowsExist == \A h \in Hosts : live[h] => id[h] # None

\* What a creation knows while it runs and when it is done.
CreationsWellFormed ==
  \A c \in Creators : /\ pc[c] # "idle" => for[c] \in Hosts
                      /\ pc[c] = "done" => returned[c] \in Ids
                      /\ valid[c] => /\ pc[c] \in {"done", "failed"}
                                     /\ returned[c] \in Ids

\* Creations for one host that run at the same time have raced.
OverlapsRace ==
  \A c, d \in Creators :
    (c # d /\ Running(c) /\ Running(d) /\ for[c] = for[d]) => raced[c]

\* What UnracedSessionStands says, of ids whose caller was not told, too.
UnracedStand ==
  \A c \in Creators : valid[c] /\ ~raced[c] => Resolves(returned[c], for[c])

\* Nobody is about to overwrite the row of a session that still stands.
NoneOverwrites ==
  \A c, d \in Creators :
    (valid[c] /\ ~raced[c] /\ pc[d] = "overwrite") => for[d] # for[c]

\* A creation that found its host's row finds it again, or it was deleted.
RowFoundStays ==
  \A c \in Creators : pc[c] \in {"update", "overwrite"} =>
    id[for[c]] # None \/ deleted[c]

IInv ==
  /\ TypeOK
  /\ LiveRowsExist
  /\ CreationsWellFormed
  /\ UniqueIds
  /\ OverlapsRace
  /\ NoneOverwrites
  /\ RowFoundStays
  /\ UnracedStand
  /\ RowNotFoundOnlyIfDeleted

LEMMA InitIInv == Init => IInv
BY SessionsAssumption
   DEF Init, IInv, TypeOK, LiveRowsExist, CreationsWellFormed, UniqueIds, OverlapsRace,
       NoneOverwrites, RowFoundStays, UnracedStand, RowNotFoundOnlyIfDeleted, Running

\* A creation starts: it and those that run for its host have raced.
LEMMA StartIInv ==
  ASSUME IInv, NEW c \in Creators, NEW h \in Hosts, NEW future \in BOOLEAN,
         Start(c, h, future)
  PROVE  IInv'
<1> USE SessionsAssumption DEF IInv, TypeOK, CreationsWellFormed, Running, tableVars, Start
<1>1. TypeOK'
  OBVIOUS
<1>2. LiveRowsExist' /\ CreationsWellFormed' /\ UniqueIds'
  BY DEF LiveRowsExist, UniqueIds
<1>3. OverlapsRace'
  BY DEF OverlapsRace
<1>4. NoneOverwrites' /\ RowFoundStays'
  BY DEF NoneOverwrites, RowFoundStays
<1>5. UnracedStand' /\ RowNotFoundOnlyIfDeleted'
  BY DEF UnracedStand, RowNotFoundOnlyIfDeleted, Resolves
<1> QED BY <1>1, <1>2, <1>3, <1>4, <1>5

\* A creation returns the id i, which the row of its host then has: a new id
\* where there was no row or the row is overwritten, or the id of a live row.
LEMMA ReturnIInv ==
  ASSUME IInv, NEW c \in Creators, Running(c), NEW i \in Ids, Return(c, i),
         id' = [id EXCEPT ![for[c]] = i],
         live' = [live EXCEPT ![for[c]] = lifetime[c]],
         UNCHANGED <<for, lifetime, raced, deleted>>,
         \/ i \notin Taken /\ (id[for[c]] = None \/ pc[c] = "overwrite")
         \/ i = id[for[c]]
  PROVE  IInv'
<1> USE SessionsAssumption DEF IInv, TypeOK, CreationsWellFormed, Return
<1>1. /\ for[c] \in Hosts
      /\ ~valid[c]
  BY DEF Running
<1>2. TypeOK'
  BY <1>1
<1>3. LiveRowsExist' /\ CreationsWellFormed'
  BY <1>1 DEF LiveRowsExist
<1>4. \A h \in Hosts : id[h] = i => h = for[c]
  BY <1>1 DEF Taken, UniqueIds
<1>5. UniqueIds'
  BY <1>1, <1>4 DEF UniqueIds
<1>6. OverlapsRace'
  BY DEF OverlapsRace, Running
<1>7. \A d \in Creators : d # c /\ Running(d) /\ for[d] = for[c] => raced[c]
  BY DEF OverlapsRace
<1>8. NoneOverwrites'
  BY <1>1, <1>7 DEF NoneOverwrites, Running
<1>9. RowFoundStays'
  BY <1>1 DEF RowFoundStays
<1>10. UnracedStand'
  <2> SUFFICES ASSUME NEW d \in Creators, valid'[d], ~raced[d]
               PROVE  id'[for[d]] = returned'[d] /\ live'[for[d]]
    BY DEF UnracedStand, Resolves
  <2>1. CASE d = c
    BY <1>1, <2>1
  <2>2. CASE d # c
    <3>1. /\ valid[d] /\ returned'[d] = returned[d]
          /\ for[d] \in Hosts /\ returned[d] \in Ids
          /\ returned[d] = i => lifetime[c]
      BY <2>2
    <3>2. id[for[d]] = returned[d] /\ live[for[d]]
      BY <3>1 DEF UnracedStand, Resolves
    <3>3. CASE for[d] # for[c]
      BY <1>1, <3>1, <3>2, <3>3
    <3>4. CASE for[d] = for[c]
      <4>1. pc[c] # "overwrite"
        BY <3>1, <3>4 DEF NoneOverwrites
      <4>2. i = id[for[c]]
        BY <4>1, <3>1, <3>2, <3>4
      <4> QED BY <4>2, <1>1, <3>1, <3>2, <3>4
    <3> QED BY <3>3, <3>4
  <2> QED BY <2>1, <2>2
<1>11. RowNotFoundOnlyIfDeleted'
  BY DEF RowNotFoundOnlyIfDeleted
<1> QED BY <1>2, <1>3, <1>5, <1>6, <1>8, <1>9, <1>10, <1>11

\* A creation goes on to its next statement, or fails.
LEMMA ContinueIInv ==
  ASSUME IInv, NEW c \in Creators, Running(c), NEW next,
         \/ next = "update" /\ id[for[c]] # None
         \/ next = "overwrite" /\ pc[c] = "update" /\ ~live[for[c]]
         \/ next = "row_not_found" /\ pc[c] = "overwrite" /\ id[for[c]] = None
         \/ next = "failed",
         pc' = [pc EXCEPT ![c] = next],
         UNCHANGED <<tableVars, for, lifetime, returned, historyVars>>
  PROVE  IInv'
<1> USE SessionsAssumption
    DEF IInv, TypeOK, CreationsWellFormed, Running, tableVars, historyVars
<1>1. TypeOK' /\ LiveRowsExist' /\ CreationsWellFormed' /\ UniqueIds'
  BY DEF LiveRowsExist, UniqueIds
<1>2. OverlapsRace'
  BY DEF OverlapsRace
<1>3. NoneOverwrites'
  BY DEF NoneOverwrites, UnracedStand, Resolves
<1>4. RowFoundStays' /\ RowNotFoundOnlyIfDeleted'
  BY DEF RowFoundStays, RowNotFoundOnlyIfDeleted
<1>5. UnracedStand'
  BY DEF UnracedStand, Resolves
<1> QED BY <1>1, <1>2, <1>3, <1>4, <1>5

\* The three statements of create_for, and their errors.
LEMMA StatementIInv ==
  ASSUME IInv, NEW c \in Creators,
         Insert(c) \/ UpdateExistingToken(c) \/ OverwriteWithNewToken(c) \/ Abort(c)
  PROVE  IInv'
<1>1. TypeOK /\ LiveRowsExist /\ CreationsWellFormed
  BY DEF IInv
<1>2. Running(c) /\ for[c] \in Hosts
  BY <1>1 DEF Running, CreationsWellFormed, Insert, UpdateExistingToken,
              OverwriteWithNewToken, Abort
<1>3. CASE Insert(c)
  <2>1. CASE id[for[c]] = None
    <3>1. PICK i \in Ids \ Taken : id' = [id EXCEPT ![for[c]] = i] /\ Return(c, i)
      BY <1>3, <2>1 DEF Insert
    <3> QED BY <1>2, <1>3, <2>1, <3>1, ReturnIInv DEF Insert
  <2>2. CASE id[for[c]] # None
    BY <1>2, <1>3, <2>2, ContinueIInv DEF Insert, historyVars
  <2> QED BY <2>1, <2>2
<1>4. CASE UpdateExistingToken(c)
  <2>1. CASE live[for[c]]
    <3>1. id[for[c]] \in Ids /\ id' = [id EXCEPT ![for[c]] = id[for[c]]]
      BY <1>1, <1>2, <1>4, <2>1 DEF UpdateExistingToken, LiveRowsExist, TypeOK
    <3>2. /\ Return(c, id[for[c]])
          /\ live' = [live EXCEPT ![for[c]] = lifetime[c]]
          /\ UNCHANGED <<for, lifetime, raced, deleted>>
      BY <1>4, <2>1, <3>1, SessionsAssumption DEF UpdateExistingToken
    <3> QED BY <1>2, <3>1, <3>2, ReturnIInv
  <2>2. CASE ~live[for[c]]
    BY <1>2, <1>4, <2>2, ContinueIInv DEF UpdateExistingToken, historyVars
  <2> QED BY <2>1, <2>2
<1>5. CASE OverwriteWithNewToken(c)
  <2>1. CASE id[for[c]] # None
    <3>1. PICK i \in Ids \ (Taken \ {id[for[c]]}) :
            id' = [id EXCEPT ![for[c]] = i] /\ Return(c, i)
      BY <1>5, <2>1 DEF OverwriteWithNewToken
    <3> QED BY <1>2, <1>5, <2>1, <3>1, ReturnIInv DEF OverwriteWithNewToken
  <2>2. CASE id[for[c]] = None
    BY <1>2, <1>5, <2>2, ContinueIInv DEF OverwriteWithNewToken, historyVars
  <2> QED BY <2>1, <2>2
<1>6. CASE Abort(c)
  BY <1>2, <1>6, ContinueIInv DEF Abort
<1> QED BY <1>3, <1>4, <1>5, <1>6

\* A row expires or is deleted: the sessions that had its id no longer stand.
LEMMA RowEndsIInv ==
  ASSUME IInv, NEW h \in Hosts, Expire(h) \/ Delete(h)
  PROVE  IInv'
<1> USE SessionsAssumption DEF IInv, TypeOK, CreationsWellFormed, creationVars, Revoke
<1>1. /\ \A g \in Hosts : g # h => id'[g] = id[g] /\ live'[g] = live[g]
      /\ \A c \in Creators : valid'[c] => valid[c] /\ returned[c] # id[h]
      /\ \A c \in Creators : valid'[c] \in BOOLEAN /\ (deleted[c] => deleted'[c])
      /\ UNCHANGED <<pc, for, lifetime, returned, raced>>
  BY DEF Expire, Delete
<1>2. TypeOK'
  BY DEF Expire, Delete
<1>3. LiveRowsExist' /\ UniqueIds'
  BY DEF LiveRowsExist, UniqueIds, Expire, Delete
<1>4. CreationsWellFormed' /\ OverlapsRace' /\ NoneOverwrites'
  BY <1>1 DEF OverlapsRace, NoneOverwrites, Running
<1>5. RowNotFoundOnlyIfDeleted'
  BY <1>1 DEF RowNotFoundOnlyIfDeleted
<1>6. RowFoundStays'
  <2> SUFFICES ASSUME NEW c \in Creators, pc[c] \in {"update", "overwrite"}
               PROVE  id'[for[c]] # None \/ deleted'[c]
    BY <1>1 DEF RowFoundStays
  <2>1. for[c] \in Hosts /\ (id[for[c]] # None \/ deleted[c])
    BY DEF RowFoundStays
  <2>2. CASE Delete(h) /\ for[c] = h
    BY <2>2 DEF Delete, Running
  <2>3. CASE Expire(h) \/ for[c] # h
    BY <1>1, <2>1, <2>3 DEF Expire
  <2> QED BY <2>2, <2>3
<1>7. UnracedStand'
  <2> SUFFICES ASSUME NEW c \in Creators, valid'[c], ~raced[c]
               PROVE  id'[for[c]] = returned[c] /\ live'[for[c]]
    BY <1>1 DEF UnracedStand, Resolves
  <2>1. id[for[c]] = returned[c] /\ live[for[c]] /\ for[c] \in Hosts
    BY <1>1 DEF UnracedStand, Resolves
  <2> QED BY <1>1, <2>1
<1> QED BY <1>2, <1>3, <1>4, <1>5, <1>6, <1>7

LEMMA StepIInv == IInv /\ [Next]_vars => IInv'
<1> SUFFICES ASSUME IInv, [Next]_vars PROVE IInv'
  OBVIOUS
<1>1. ASSUME NEW c \in Creators, NEW h \in Hosts, NEW future \in BOOLEAN,
             Start(c, h, future)
      PROVE  IInv'
  BY <1>1, StartIInv
<1>2. ASSUME NEW c \in Creators,
             \/ Insert(c) \/ UpdateExistingToken(c)
             \/ OverwriteWithNewToken(c) \/ Abort(c)
      PROVE  IInv'
  BY <1>2, StatementIInv
<1>3. ASSUME NEW h \in Hosts, Expire(h) \/ Delete(h) PROVE IInv'
  BY <1>3, RowEndsIInv
<1>4. CASE UNCHANGED vars
  BY <1>4 DEF vars, tableVars, creationVars, historyVars, IInv, TypeOK, LiveRowsExist,
    CreationsWellFormed, UniqueIds, OverlapsRace, NoneOverwrites, RowFoundStays,
    UnracedStand, RowNotFoundOnlyIfDeleted, Running, Resolves
<1> QED BY <1>1, <1>2, <1>3, <1>4 DEF Next

\* The inductive invariant holds of every behaviour.
THEOREM Invariance == Spec => []IInv
BY InitIInv, StepIInv, PTL DEF Spec

\* A session id stands for one host at most, whatever ids the database draws.
THEOREM IdsAreUnique == Spec => []UniqueIds
BY Invariance, PTL DEF IInv

\* Without another creation for its host at the same time, the id create_for
\* returned stands for its host until it expires or is deleted.
THEOREM UnracedSessionsStand == Spec => []UnracedSessionStands
<1>1. IInv => UnracedSessionStands
  BY DEF IInv, UnracedStand, UnracedSessionStands
<1> QED BY <1>1, Invariance, PTL

\* create_for misses the row it is to overwrite only if it was deleted between two
\* of its statements.
THEOREM OnlyDeletionLosesRow == Spec => []RowNotFoundOnlyIfDeleted
BY Invariance, PTL DEF IInv
-----------------------------------------------------------------------------
(***************************************************************************)
(* MusicControl: commands that are sent with a session's id.               *)
(***************************************************************************)

\* The id of a row that has not expired was returned by a statement of a creation
\* for the row's host, and was not revoked since.
LiveRowsHeld ==
  \A h \in Hosts : live[h] =>
    \E c \in Creators : valid[c] /\ returned[c] = id[h] /\ for[c] = h

\* What is returned is the id of a live row, and nobody held it for another host.
LEMMA ReturnHeld ==
  ASSUME IInv, LiveRowsHeld, NEW c \in Creators, Running(c), NEW i \in Ids, Return(c, i),
         id' = [id EXCEPT ![for[c]] = i],
         live' = [live EXCEPT ![for[c]] = lifetime[c]],
         UNCHANGED for,
         i \notin Taken \/ i = id[for[c]]
  PROVE  LiveRowsHeld'
<1> USE DEF IInv, TypeOK, CreationsWellFormed, Return
<1>1. for[c] \in Hosts /\ ~valid[c]
  BY DEF Running
<1> SUFFICES ASSUME NEW h \in Hosts, live'[h]
             PROVE  \E d \in Creators : valid'[d] /\ returned'[d] = id'[h] /\ for[d] = h
  BY DEF LiveRowsHeld
<1>2. CASE h = for[c]
  BY <1>1, <1>2
<1>3. CASE h # for[c]
  <2>1. live[h] /\ id'[h] = id[h] /\ id[h] # None
    BY <1>1, <1>3 DEF LiveRowsExist
  <2>2. PICK d \in Creators : valid[d] /\ returned[d] = id[h] /\ for[d] = h
    BY <2>1 DEF LiveRowsHeld
  <2>3. id[h] # i
    BY <1>1, <1>3, <2>1 DEF Taken, UniqueIds
  <2>4. d # c
    BY <1>1, <2>2
  <2> QED BY <2>1, <2>2, <2>3, <2>4
<1> QED BY <1>2, <1>3

LEMMA StepHeld == IInv /\ LiveRowsHeld /\ [Next]_vars => LiveRowsHeld'
<1> SUFFICES ASSUME IInv, LiveRowsHeld, [Next]_vars PROVE LiveRowsHeld'
  OBVIOUS
<1>1. ASSUME NEW c \in Creators, NEW h \in Hosts, NEW future \in BOOLEAN,
             Start(c, h, future)
      PROVE  LiveRowsHeld'
  BY <1>1 DEF Start, LiveRowsHeld, IInv, TypeOK, CreationsWellFormed, tableVars
<1>2. ASSUME NEW c \in Creators, Running(c), UNCHANGED <<tableVars, for, returned, valid>>
      PROVE  LiveRowsHeld'
  BY <1>2 DEF LiveRowsHeld, tableVars
<1>3. ASSUME NEW c \in Creators,
             \/ Insert(c) \/ UpdateExistingToken(c)
             \/ OverwriteWithNewToken(c) \/ Abort(c)
      PROVE  LiveRowsHeld'
  <2>1. Running(c) /\ for[c] \in Hosts /\ UNCHANGED for
    BY <1>3 DEF IInv, Running, CreationsWellFormed, Insert, UpdateExistingToken,
                OverwriteWithNewToken, Abort
  <2>2. \/ UNCHANGED <<tableVars, for, returned, valid>>
        \/ /\ \E i \in Ids : /\ i \notin Taken \/ i = id[for[c]]
                             /\ id' = [id EXCEPT ![for[c]] = i]
                             /\ Return(c, i)
           /\ live' = [live EXCEPT ![for[c]] = lifetime[c]]
    <3>1. CASE Insert(c)
      BY <3>1 DEF Insert
    <3>2. CASE UpdateExistingToken(c)
      BY <2>1, <3>2 DEF UpdateExistingToken, IInv, TypeOK
    <3>3. CASE OverwriteWithNewToken(c)
      BY <3>3 DEF OverwriteWithNewToken
    <3>4. CASE Abort(c)
      BY <3>4 DEF Abort, historyVars
    <3> QED BY <1>3, <3>1, <3>2, <3>3, <3>4
  <2> QED BY <1>2, <2>1, <2>2, ReturnHeld
<1>4. ASSUME NEW h \in Hosts, Expire(h) \/ Delete(h) PROVE LiveRowsHeld'
  <2> SUFFICES ASSUME NEW g \in Hosts, live'[g]
               PROVE  \E c \in Creators : valid'[c] /\ returned'[c] = id'[g] /\ for'[c] = g
    BY DEF LiveRowsHeld
  <2>1. /\ g # h /\ live[g] /\ id'[g] = id[g]
        /\ UNCHANGED <<returned, for>> /\ Revoke(id[h])
    BY <1>4 DEF Expire, Delete, creationVars, IInv, TypeOK
  <2>2. id[g] # id[h]
    BY <2>1 DEF IInv, LiveRowsExist, UniqueIds
  <2>3. PICK c \in Creators : valid[c] /\ returned[c] = id[g] /\ for[c] = g
    BY <2>1 DEF LiveRowsHeld
  <2> QED BY <2>1, <2>2, <2>3 DEF Revoke
<1>5. CASE UNCHANGED vars
  BY <1>5 DEF vars, tableVars, creationVars, historyVars, LiveRowsHeld
<1> QED BY <1>1, <1>3, <1>4, <1>5 DEF Next

\* A creation that is over keeps what it was for and what it returned.
LEMMA OverIsOver ==
  ASSUME IInv, [Next]_vars, NEW c \in Creators, pc[c] \in {"done", "failed"}
  PROVE  /\ pc'[c] \in {"done", "failed"}
         /\ for'[c] = for[c] /\ returned'[c] = returned[c]
         /\ raced[c] => raced'[c]
<1> USE DEF IInv, TypeOK
<1>1. ASSUME NEW d \in Creators, NEW h \in Hosts, NEW future \in BOOLEAN,
             Start(d, h, future)
      PROVE  d # c /\ UNCHANGED returned /\ for'[c] = for[c] /\ pc'[c] = pc[c]
             /\ (raced[c] => raced'[c])
  BY <1>1 DEF Start
<1>2. ASSUME NEW d \in Creators,
             \/ Insert(d) \/ UpdateExistingToken(d)
             \/ OverwriteWithNewToken(d) \/ Abort(d)
      PROVE  d # c /\ for' = for /\ raced' = raced /\ pc'[c] = pc[c]
             /\ returned'[c] = returned[c]
  BY <1>2 DEF Insert, UpdateExistingToken, OverwriteWithNewToken, Abort, Return, Running,
              historyVars
<1>3. ASSUME NEW h \in Hosts, Expire(h) \/ Delete(h)
      PROVE  UNCHANGED <<pc, for, returned, raced>>
  BY <1>3 DEF Expire, Delete, creationVars
<1>4. CASE UNCHANGED vars
  BY <1>4 DEF vars, creationVars, historyVars
<1> QED BY <1>1, <1>2, <1>3, <1>4 DEF Next

\* What was found for a request when it was looked up.
Found(r) ==
  /\ stood[r] \subseteq Creators
  /\ \E c \in stood[r] : for[c] = dest[r] /\ returned[c] = presented[r]
  /\ \A c \in stood[r] : /\ pc[c] \in {"done", "failed"}
                         /\ for[c] = dest[r] \/ raced[c]

FoundInv ==
  /\ dest \in [Controls -> Hosts \cup {None}]
  /\ DOMAIN presented = Controls /\ DOMAIN stood = Controls
  /\ \A r \in Controls : dest[r] # None => Found(r)

\* The look-up finds a host that a session with the id stands for.
LEMMA LookUpFound ==
  ASSUME IInv, LiveRowsHeld, FoundInv, NEW r \in Controls, NEW i \in Ids, LookUp(r, i)
  PROVE  FoundInv'
<1>1. PICK h \in Hosts : id[h] = i /\ live[h] /\ dest' = [dest EXCEPT ![r] = h]
  BY DEF LookUp, Hostname, Resolves
<1>2. /\ dest' \in [Controls -> Hosts \cup {None}] /\ dest'[r] = h
      /\ DOMAIN presented' = Controls /\ presented'[r] = i
      /\ DOMAIN stood' = Controls /\ stood'[r] = Holders(i)
      /\ \A q \in Controls \ {r} : /\ dest'[q] = dest[q] /\ presented'[q] = presented[q]
                                   /\ stood'[q] = stood[q]
      /\ UNCHANGED vars
  BY <1>1 DEF LookUp, FoundInv
<1>3. UNCHANGED <<for, returned, pc, raced>>
  BY <1>2 DEF vars, creationVars, historyVars
<1>4. \E c \in Holders(i) : for[c] = h /\ returned[c] = i
  BY <1>1 DEF LiveRowsHeld, Holders
<1>5. ASSUME NEW c \in Holders(i)
      PROVE  c \in Creators /\ pc[c] \in {"done", "failed"} /\ (for[c] = h \/ raced[c])
  <2>1. /\ c \in Creators /\ valid[c] /\ returned[c] = i
        /\ pc[c] \in {"done", "failed"} /\ for[c] \in Hosts
    BY DEF Holders, IInv, CreationsWellFormed
  <2>2. ~ raced[c] => id[for[c]] = i
    BY <2>1 DEF IInv, UnracedStand, Resolves
  <2>3. i # None
    BY SessionsAssumption
  <2> QED BY <1>1, <2>1, <2>2, <2>3 DEF IInv, UniqueIds
<1>6. Found(r)'
  BY <1>2, <1>3, <1>4, <1>5 DEF Found
<1>7. ASSUME NEW q \in Controls, q # r, dest'[q] # None PROVE Found(q)'
  BY <1>2, <1>3, <1>7 DEF Found, FoundInv
<1> QED BY <1>2, <1>6, <1>7 DEF FoundInv

LEMMA StepFound ==
  ASSUME IInv, LiveRowsHeld, FoundInv, [ControlNext]_allVars
  PROVE  FoundInv'
<1>1. ASSUME NEW r \in Controls, NEW i \in Ids, LookUp(r, i) PROVE FoundInv'
  BY <1>1, LookUpFound
<1>2. ASSUME NEW r \in Controls, WsSend(r) PROVE FoundInv'
  <2>1. /\ dest' \in [Controls -> Hosts \cup {None}] /\ dest'[r] = None
        /\ DOMAIN presented' = Controls /\ DOMAIN stood' = Controls
        /\ \A q \in Controls \ {r} : /\ dest'[q] = dest[q] /\ presented'[q] = presented[q]
                                     /\ stood'[q] = stood[q]
        /\ UNCHANGED <<for, returned, pc, raced>>
    BY <1>2 DEF WsSend, FoundInv, vars, creationVars, historyVars
  <2>2. ASSUME NEW q \in Controls, dest'[q] # None PROVE Found(q)'
    BY <2>1, <2>2 DEF Found, FoundInv
  <2> QED BY <2>1, <2>2 DEF FoundInv
<1>3. CASE [Next]_vars /\ UNCHANGED controlVars
  <2>1. UNCHANGED <<dest, presented, stood>>
    BY <1>3 DEF controlVars
  <2>2. ASSUME NEW r \in Controls, dest[r] # None PROVE Found(r)'
    <3>1. Found(r)
      BY <2>2 DEF FoundInv
    <3>2. \A c \in stood[r] : /\ pc'[c] \in {"done", "failed"}
                              /\ for'[c] = for[c] /\ returned'[c] = returned[c]
                              /\ raced[c] => raced'[c]
      BY <1>3, <3>1, OverIsOver DEF Found
    <3> QED BY <2>1, <3>1, <3>2 DEF Found
  <2> QED BY <2>1, <2>2 DEF FoundInv
<1> QED BY <1>1, <1>2, <1>3 DEF ControlNext, allVars

\* Requests read the table and do not change it.
THEOREM ControlInvariance == ControlSpec => [](IInv /\ LiveRowsHeld /\ FoundInv)
<1>1. ControlInit => IInv /\ LiveRowsHeld /\ FoundInv
  BY InitIInv DEF ControlInit, Init, LiveRowsHeld, FoundInv
<1>2. [ControlNext]_allVars => [Next]_vars
  BY DEF ControlNext, allVars, LookUp, WsSend
<1> QED BY <1>1, <1>2, StepFound, StepIInv, StepHeld, PTL DEF ControlSpec

\* A command goes where the id it came with pointed: to a host for which a session
\* with that id stood at the look-up.  A session that stands when the command is
\* sent is for another host only if it got the id since, or overlapped another.
THEOREM CommandsFollow == ControlSpec => CommandsFollowSession
<1> DEFINE Follows ==
      \A r \in Controls : dest[r] # None /\ dest'[r] = None =>
        /\ \E c \in stood[r] : for[c] = dest[r] /\ returned[c] = presented[r]
        /\ \A c \in Holders(presented[r]) :
             for[c] = dest[r] \/ c \notin stood[r] \/ raced[c]
<1>1. FoundInv /\ [ControlNext]_allVars => [Follows]_allVars
  BY DEF FoundInv, Found
<1> QED BY <1>1, ControlInvariance, PTL DEF ControlSpec, CommandsFollowSession
=============================================================================
