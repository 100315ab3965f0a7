---------------------------- MODULE MusicControl ----------------------------
(***************************************************************************)
(* Control of a player by the holder of a music session                    *)
(* (server/src/routes/music.rs): ws_message_music_player looks up the host *)
(* the session stands for, then hands the command to ws_send.  Between the *)
(* two the session may expire, be deleted or get a new id, and ws_send     *)
(* knows nothing of sessions.  What the relay does with a command that is  *)
(* sent to a host is the subject of PersistentConnections.                 *)
(***************************************************************************)
EXTENDS MusicSessions

CONSTANT Controls   \* requests to /music/ws/{id}

VARIABLES
  dest,       \* the host a request was resolved to, until it is sent there
  presented,  \* the id the request came with
  stood       \* history: the creations that held this id when it was looked up

controlVars == <<dest, presented, stood>>
allVars     == <<vars, controlVars>>

ControlInit ==
  /\ Init
  /\ dest      = [r \in Controls |-> None]
  /\ presented = [r \in Controls |-> None]
  /\ stood     = [r \in Controls |-> {}]

-----------------------------------------------------------------------------
\* A faulty variant: the query without its condition on expires_at.
HostnameEvenExpired(i) == {h \in Hosts : id[h] = i}

\* MusicSession::hostname, one query.
Hostname(i) == {h \in Hosts : Resolves(i, h)}

\* The creations whose id is i, and was neither deleted nor let expire.
Holders(i) == {c \in Creators : valid[c] /\ returned[c] = i}

\* The first half of ws_message_music_player.  Without a row the answer is 401,
\* if the query fails it is 500: nothing is sent.
LookUp(r, i) ==
  /\ dest[r] = None
  /\ \E h \in Hostname(i) : dest' = [dest EXCEPT ![r] = h]
  /\ presented' = [presented EXCEPT ![r] = i]
  /\ stood'     = [stood EXCEPT ![r] = Holders(i)]
  /\ UNCHANGED vars

\* The second half: ws_send to the host that was found, whatever became of the
\* session since.
WsSend(r) ==
  /\ dest[r] # None
  /\ dest'      = [dest EXCEPT ![r] = None]
  /\ presented' = [presented EXCEPT ![r] = None]
  /\ stood'     = [stood EXCEPT ![r] = {}]
  /\ UNCHANGED vars

ControlNext ==
  \/ Next /\ UNCHANGED controlVars
  \/ \E r \in Controls : (\E i \in Ids : LookUp(r, i)) \/ WsSend(r)

ControlSpec == ControlInit /\ [][ControlNext]_allVars

-----------------------------------------------------------------------------
\* When a command is sent, it goes to a host for which a session with the id that
\* the request presented stood when it was looked up; and of all the sessions with
\* this id that stand by now, each is for that host, but one that was created
\* after the look-up (the first having ended between the two steps) and one that
\* another creation overlapped.
CommandsFollowSession ==
  [][\A r \in Controls : dest[r] # None /\ dest'[r] = None =>
       /\ \E c \in stood[r] : for[c] = dest[r] /\ returned[c] = presented[r]
       /\ \A c \in Holders(presented[r]) :
            for[c] = dest[r] \/ c \notin stood[r] \/ raced[c]]_allVars
=============================================================================
