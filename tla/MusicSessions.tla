---------------------------- MODULE MusicSessions ----------------------------
(***************************************************************************)
(* Music sessions of blind-eternities (server/src/auth/music_session.rs):  *)
(* a session is a short random id that stands for a hostname until it      *)
(* expires.  The table music_sessions has a unique index on the ids and    *)
(* one on the hostnames; every statement runs on its own, so the creations *)
(* of several administrators interleave between statements.                *)
(*                                                                         *)
(* Any statement may fail, and the handler is dropped where it waits if    *)
(* its client hangs up: what the statement did in the database then stands *)
(* and nobody is told.  A creation runs until its statement has ended.     *)
(*                                                                         *)
(* Time is abstracted to whether a row's expires_at has passed.            *)
(***************************************************************************)
EXTENDS Naturals, FiniteSets

CONSTANTS
  Creators,   \* calls of create_for, each made once
  Hosts,      \* hostnames
  Ids,        \* session ids the database may draw
  None        \* no id, no host

\* random() finds an id that no row has.
ASSUME SessionsAssumption ==
  /\ None \notin Ids \cup Hosts
  /\ IsFiniteSet(Ids) /\ IsFiniteSet(Hosts)
  /\ Cardinality(Ids) > Cardinality(Hosts)

VARIABLES
  id,        \* the table: per hostname the id of its row, or None
  live,      \* per hostname, whether its row's expires_at is in the future
  pc,        \* progress of each creation
  for,       \* the hostname it is for
  lifetime,  \* whether the expires_at it was given is in the future
  returned,  \* the id its statement returned, if its caller was told or not
  valid,     \* history: that id was neither let expire nor deleted
  raced,     \* history: another creation for its host overlapped it
  deleted    \* history: its host's row was deleted while it ran

tableVars    == <<id, live>>
creationVars == <<pc, for, lifetime, returned>>
historyVars  == <<valid, raced, deleted>>
vars == <<tableVars, creationVars, historyVars>>

TypeOK ==
  /\ id       \in [Hosts -> Ids \cup {None}]
  /\ live     \in [Hosts -> BOOLEAN]
  /\ pc       \in [Creators -> {"idle", "insert", "update", "overwrite", "done",
                                "row_not_found", "failed"}]
  /\ for      \in [Creators -> Hosts \cup {None}]
  /\ lifetime \in [Creators -> BOOLEAN]
  /\ returned \in [Creators -> Ids \cup {None}]
  /\ valid    \in [Creators -> BOOLEAN]
  /\ raced    \in [Creators -> BOOLEAN]
  /\ deleted  \in [Creators -> BOOLEAN]

Init ==
  /\ id       = [h \in Hosts |-> None]
  /\ live     = [h \in Hosts |-> FALSE]
  /\ pc       = [c \in Creators |-> "idle"]
  /\ for      = [c \in Creators |-> None]
  /\ lifetime = [c \in Creators |-> FALSE]
  /\ returned = [c \in Creators |-> None]
  /\ valid    = [c \in Creators |-> FALSE]
  /\ raced    = [c \in Creators |-> FALSE]
  /\ deleted  = [c \in Creators |-> FALSE]

-----------------------------------------------------------------------------
\* The ids the unique index music_session_unique_ids holds.
Taken == {id[h] : h \in Hosts} \ {None}

\* MusicSession::hostname: the host an id stands for.
Resolves(i, h) == id[h] = i /\ live[h]

Running(c) == pc[c] \in {"insert", "update", "overwrite"}

\* A statement returned the id in the row of its host: create_for returns it, or
\* the answer is lost with the connection to the database or with the handler.
Return(c, i) ==
  /\ pc' \in {[pc EXCEPT ![c] = "done"], [pc EXCEPT ![c] = "failed"]}
  /\ returned' = [returned EXCEPT ![c] = i]
  /\ valid'    = [d \in Creators |->
                    IF d = c THEN lifetime[c]
                    ELSE valid[d] /\ (returned[d] = i => lifetime[c])]

\* The holders of an id learn that it is no longer theirs.
Revoke(i) == valid' = [c \in Creators |-> valid[c] /\ returned[c] # i]

-----------------------------------------------------------------------------
(***************************************************************************)
(* Faulty variants of the actions below, each a mistake the code avoids.   *)
(* No specification uses them: they show that the properties at the end    *)
(* of this module can fail.                                                *)
(***************************************************************************)

\* A host that has a row always gets a new id.
UpdateNever(c) ==
  /\ pc[c] = "update"
  /\ pc' = [pc EXCEPT ![c] = "overwrite"]
  /\ UNCHANGED <<tableVars, for, lifetime, returned, historyVars>>

\* The overwriting statement keeps the condition on the expiry.
OverwriteExpired(c) ==
  /\ pc[c] = "overwrite"
  /\ \/ /\ id[for[c]] # None /\ ~live[for[c]]
        /\ \E i \in Ids \ (Taken \ {id[for[c]]}) :
             /\ id' = [id EXCEPT ![for[c]] = i]
             /\ Return(c, i)
        /\ live' = [live EXCEPT ![for[c]] = lifetime[c]]
     \/ /\ id[for[c]] = None \/ live[for[c]]
        /\ pc' = [pc EXCEPT ![c] = "row_not_found"]
        /\ UNCHANGED <<tableVars, returned, valid>>
  /\ UNCHANGED <<for, lifetime, raced, deleted>>

-----------------------------------------------------------------------------
(***************************************************************************)
(* create_for.                                                             *)
(***************************************************************************)

\* A request for a session reaches the server, with the expiry it asks for.
Start(c, h, future) ==
  LET rivals == {d \in Creators : Running(d) /\ for[d] = h}
  IN /\ pc[c] = "idle"
     /\ pc'       = [pc EXCEPT ![c] = "insert"]
     /\ for'      = [for EXCEPT ![c] = h]
     /\ lifetime' = [lifetime EXCEPT ![c] = future]
     /\ raced'    = [d \in Creators |-> \/ raced[d]
                                        \/ d \in rivals
                                        \/ d = c /\ rivals # {}]
     /\ UNCHANGED <<tableVars, returned, valid, deleted>>

\* INSERT with a random id.  An id that is taken violates one index and the
\* statement is tried again, a step that changes nothing; a host that has a
\* row violates the other.  Any other error is Abort, as for the statements below.
Insert(c) ==
  /\ pc[c] = "insert"
  /\ \/ /\ id[for[c]] = None
        /\ \E i \in Ids \ Taken : /\ id' = [id EXCEPT ![for[c]] = i]
                                  /\ Return(c, i)
        /\ live' = [live EXCEPT ![for[c]] = lifetime[c]]
     \/ /\ id[for[c]] # None
        /\ pc' = [pc EXCEPT ![c] = "update"]
        /\ UNCHANGED <<tableVars, returned, valid>>
  /\ UNCHANGED <<for, lifetime, raced, deleted>>

\* update_existing_token: a row that has not expired is extended.
UpdateExistingToken(c) ==
  /\ pc[c] = "update"
  /\ \/ /\ id[for[c]] # None /\ live[for[c]]
        /\ live' = [live EXCEPT ![for[c]] = lifetime[c]]
        /\ Return(c, id[for[c]])
        /\ UNCHANGED id
     \/ /\ id[for[c]] = None \/ ~live[for[c]]
        /\ pc' = [pc EXCEPT ![c] = "overwrite"]
        /\ UNCHANGED <<tableVars, returned, valid>>
  /\ UNCHANGED <<for, lifetime, raced, deleted>>

\* overwrite_with_new_token: the row gets a new id, whatever became of it
\* since.  Without a row fetch_one has none to return: RowNotFound.
OverwriteWithNewToken(c) ==
  /\ pc[c] = "overwrite"
  /\ \/ /\ id[for[c]] # None
        /\ \E i \in Ids \ (Taken \ {id[for[c]]}) :
             /\ id' = [id EXCEPT ![for[c]] = i]
             /\ Return(c, i)
        /\ live' = [live EXCEPT ![for[c]] = lifetime[c]]
     \/ /\ id[for[c]] = None
        /\ pc' = [pc EXCEPT ![c] = "row_not_found"]
        /\ UNCHANGED <<tableVars, returned, valid>>
  /\ UNCHANGED <<for, lifetime, raced, deleted>>

\* A statement fails and changes nothing, or never reaches the database.
Abort(c) ==
  /\ Running(c)
  /\ pc' = [pc EXCEPT ![c] = "failed"]
  /\ UNCHANGED <<tableVars, for, lifetime, returned, historyVars>>

-----------------------------------------------------------------------------
\* Time passes the expires_at of a row.
Expire(h) ==
  /\ live[h]
  /\ live' = [live EXCEPT ![h] = FALSE]
  /\ Revoke(id[h])
  /\ UNCHANGED <<id, creationVars, raced, deleted>>

\* MusicSession::delete, by the id.
Delete(h) ==
  /\ id[h] # None
  /\ id'      = [id EXCEPT ![h] = None]
  /\ live'    = [live EXCEPT ![h] = FALSE]
  /\ deleted' = [c \in Creators |-> deleted[c] \/ (Running(c) /\ for[c] = h)]
  /\ Revoke(id[h])
  /\ UNCHANGED <<creationVars, raced>>

Next ==
  \/ \E c \in Creators : \/ \E h \in Hosts : \E future \in BOOLEAN : Start(c, h, future)
                         \/ Insert(c) \/ UpdateExistingToken(c)
                         \/ OverwriteWithNewToken(c) \/ Abort(c)
  \/ \E h \in Hosts : Expire(h) \/ Delete(h)

Spec == Init /\ [][Next]_vars

-----------------------------------------------------------------------------
(***************************************************************************)
(* Properties.                                                             *)
(***************************************************************************)

\* A session id stands for one host at most.
UniqueIds == \A g, h \in Hosts : (id[g] = id[h] /\ id[g] # None) => g = h

\* A creation that no other for its host overlapped returned an id that stands
\* for its host until it expires or is deleted, whatever creations follow.
UnracedSessionStands ==
  \A c \in Creators :
    (pc[c] = "done" /\ valid[c] /\ ~raced[c]) => Resolves(returned[c], for[c])

\* create_for finds no row to give a new id to only if the row of its host was
\* deleted between its statements, not because of what others create or of time.
RowNotFoundOnlyIfDeleted ==
  \A c \in Creators : pc[c] = "row_not_found" => deleted[c]

\* Two sessions created for the same host are the same session: an id that
\* create_for returned stands for its host until it expires or is deleted.
SessionStands ==
  \A c \in Creators : (pc[c] = "done" /\ valid[c]) => Resolves(returned[c], for[c])
=============================================================================
