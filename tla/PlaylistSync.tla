---------------------------- MODULE PlaylistSync ----------------------------
(***************************************************************************)
(* The m playlist, kept in step with a Navidrome playlist by several       *)
(* devices: `spark backend sync-playlists` makes the remote playlist equal *)
(* to the device's own, `spark backend upgrade-song` records the Navidrome *)
(* id of a song on the server and appends it to the remote playlist.  Each *)
(* call to the server or to Navidrome is a step, and calls of different    *)
(* devices interleave; nothing locks the playlist.                         *)
(*                                                                         *)
(* Navidrome is external and modelled from its use: songs are appended,    *)
(* removed by index, and may be in a playlist more than once.              *)
(***************************************************************************)
EXTENDS FiniteSets, Naturals, Sequences, SequencesExt

CONSTANTS Devices,
          Songs,         \* songs of the local playlists, with a row on the server
          NavIds,        \* ids of songs in Navidrome
          NoId,          \* navidrome_id IS NULL
          InitialLocal,  \* the local playlist that devices may share at first
          InitialLists,  \* the remote playlists called m there may be at first
          InitialNav,    \* the Navidrome ids the server may know at first
          MaxJobs,       \* bound: commands run
          MaxEdits       \* bound: edits of the local playlists

ASSUME SyncAssumption ==
  /\ NoId \notin NavIds
  /\ InitialLocal \subseteq SUBSET Songs
  /\ InitialLists \subseteq Seq(Seq(NavIds))
  /\ InitialNav \subseteq [Songs -> NavIds \union {NoId}]
  /\ MaxJobs \in Nat /\ MaxEdits \in Nat

Ended == {"idle", "synced", "upgraded", "failed"}

VARIABLES local,     \* the local playlist of each device
          nav,       \* the server's songs: their Navidrome ids
          lists,     \* Navidrome's playlists called m
          pc, job,
          song, navId,           \* of an upgrade
          unresolved, wanted,    \* of a synchronisation: songs left, ids found
          playlist, listed,      \* the chosen playlist, and its tracks as read
          toAdd, toRemove,
          victim, position,      \* of remove_from_playlist
          others,    \* what others changed since a device's command began
          moved,     \* they removed a track since the position was looked up
          jobs, edits

argVars == <<song, navId>>
syncVars == <<unresolved, wanted, listed, toAdd, toRemove>>
removeVars == <<victim, position>>
boundVars == <<jobs, edits>>
vars == <<local, nav, lists, pc, job, argVars, playlist, syncVars, removeVars,
          others, moved, boundVars>>

Init ==
  /\ \E songs \in InitialLocal : local = [d \in Devices |-> songs]
  /\ nav \in InitialNav
  /\ lists \in InitialLists
  /\ pc = [d \in Devices |-> "idle"]
  /\ job = [d \in Devices |-> "none"]
  /\ song = [d \in Devices |-> CHOOSE s \in Songs : TRUE]
  /\ navId = [d \in Devices |-> NoId]
  /\ unresolved = [d \in Devices |-> {}] /\ wanted = [d \in Devices |-> {}]
  /\ playlist = [d \in Devices |-> 0]
  /\ listed = [d \in Devices |-> <<>>]
  /\ toAdd = [d \in Devices |-> {}] /\ toRemove = [d \in Devices |-> {}]
  /\ victim = [d \in Devices |-> NoId] /\ position = [d \in Devices |-> 0]
  /\ others = [d \in Devices |-> {}] /\ moved = [d \in Devices |-> FALSE]
  /\ jobs = 0 /\ edits = 0

Goto(d, step) == pc' = [pc EXCEPT ![d] = step]
TellOthers(d, what) ==
  others' = [e \in Devices |-> IF e = d THEN others[e] ELSE others[e] \union {what}]
-----------------------------------------------------------------------------
(* Local playlists *)

\* A song is added to the playlist of a device, or dropped from it.
Edit(d) ==
  /\ edits < MaxEdits
  /\ edits' = edits + 1
  /\ \E s \in Songs :
       local' = [local EXCEPT ![d] = IF s \in @ THEN @ \ {s} ELSE @ \union {s}]
  /\ others' = [others EXCEPT ![d] = @ \union {"edit"}]
  /\ UNCHANGED <<nav, lists, pc, job, argVars, playlist, syncVars, removeVars, moved, jobs>>
-----------------------------------------------------------------------------
(* get_m_playlist, for both commands. *)

AfterPlaylist(d) == IF job[d] = "sync" THEN "tracks" ELSE "append"

\* managed_playlists: any playlist with the name, or none.
FindPlaylist(d) ==
  /\ pc[d] = "playlists"
  /\ \/ \E k \in DOMAIN lists :
          /\ playlist' = [playlist EXCEPT ![d] = k]
          /\ Goto(d, AfterPlaylist(d))
     \/ lists = <<>> /\ Goto(d, "create") /\ UNCHANGED playlist
  /\ UNCHANGED <<local, nav, lists, job, argVars, syncVars, removeVars, others, moved,
                 boundVars>>

\* Navidrome makes a new playlist whether or not one has the name.
CreatePlaylist(d) ==
  /\ pc[d] = "create"
  /\ lists' = Append(lists, <<>>)
  /\ playlist' = [playlist EXCEPT ![d] = Len(lists) + 1]
  /\ Goto(d, AfterPlaylist(d))
  /\ TellOthers(d, "create")
  /\ UNCHANGED <<local, nav, job, argVars, syncVars, removeVars, moved, boundVars>>
-----------------------------------------------------------------------------
(* upgrade_song *)

UpgradeStart(d, s, n, strict) ==
  /\ pc[d] \in Ended /\ jobs < MaxJobs /\ jobs' = jobs + 1
  /\ s \in local[d]
  /\ strict => nav[s] = NoId
  /\ job' = [job EXCEPT ![d] = "upgrade"]
  /\ song' = [song EXCEPT ![d] = s] /\ navId' = [navId EXCEPT ![d] = n]
  /\ others' = [others EXCEPT ![d] = {}]
  /\ Goto(d, "patch")       \* once the user has heard it and agreed
  /\ UNCHANGED <<local, nav, lists, playlist, syncVars, removeVars, moved, edits>>

Patch(d) ==
  /\ pc[d] = "patch"
  /\ nav' = [nav EXCEPT ![song[d]] = navId[d]]
  /\ Goto(d, "playlists")
  /\ TellOthers(d, "edit")
  /\ UNCHANGED <<local, lists, job, argVars, playlist, syncVars, removeVars, moved, boundVars>>

\* add_to_playlist does not look whether the song is there.
AppendUpgraded(d) ==
  /\ pc[d] = "append"
  /\ lists' = [lists EXCEPT ![playlist[d]] = Append(@, navId[d])]
  /\ Goto(d, "upgraded")
  /\ TellOthers(d, "add")
  /\ UNCHANGED <<local, nav, job, argVars, playlist, syncVars, removeVars, moved, boundVars>>
-----------------------------------------------------------------------------
(* sync_playlists *)

AfterResolving(left) == IF left = {} THEN "playlists" ELSE "resolve"

SyncStart(d) ==
  /\ pc[d] \in Ended /\ jobs < MaxJobs /\ jobs' = jobs + 1
  /\ job' = [job EXCEPT ![d] = "sync"]
  /\ unresolved' = [unresolved EXCEPT ![d] = local[d]]
  /\ wanted' = [wanted EXCEPT ![d] = {}]
  /\ others' = [others EXCEPT ![d] = {}]
  /\ Goto(d, AfterResolving(local[d]))
  /\ UNCHANGED <<local, nav, lists, argVars, playlist, listed, toAdd, toRemove,
                 removeVars, moved, edits>>

\* navidrome_id_of, all at once, answered in any order.
Resolve(d) ==
  /\ pc[d] = "resolve"
  /\ \E s \in unresolved[d] :
       /\ unresolved' = [unresolved EXCEPT ![d] = @ \ {s}]
       /\ wanted' = [wanted EXCEPT ![d] = @ \union ({nav[s]} \ {NoId})]
       /\ Goto(d, AfterResolving(unresolved[d] \ {s}))
  /\ UNCHANGED <<local, nav, lists, job, argVars, playlist, listed, toAdd, toRemove,
                 removeVars, others, moved, boundVars>>

\* The map of the tracks by their id knows each once.
GetTracks(d) ==
  /\ pc[d] = "tracks"
  /\ LET tracks == lists[playlist[d]] IN
       /\ listed' = [listed EXCEPT ![d] = tracks]
       /\ toAdd' = [toAdd EXCEPT ![d] = wanted[d] \ Range(tracks)]
       /\ toRemove' = [toRemove EXCEPT ![d] = Range(tracks) \ wanted[d]]
  /\ Goto(d, "write")
  /\ UNCHANGED <<local, nav, lists, job, argVars, playlist, unresolved, wanted,
                 removeVars, others, moved, boundVars>>

Add(d) ==
  /\ pc[d] = "write"
  /\ \E n \in toAdd[d] :
       /\ lists' = [lists EXCEPT ![playlist[d]] = Append(@, n)]
       /\ toAdd' = [toAdd EXCEPT ![d] = @ \ {n}]
  /\ TellOthers(d, "add")
  /\ UNCHANGED <<local, nav, pc, job, argVars, playlist, unresolved, wanted, listed,
                 toRemove, removeVars, moved, boundVars>>

\* remove_from_playlist reads the tracks again for the position of the song.
FindPosition(d) ==
  /\ pc[d] = "write" /\ toAdd[d] = {}
  /\ \E n \in toRemove[d] :
       LET tracks == lists[playlist[d]] IN
       \/ /\ n \in Range(tracks)
          /\ victim' = [victim EXCEPT ![d] = n]
          /\ position' = [position EXCEPT ![d] = SelectInSeq(tracks, LAMBDA t : t = n)]
          /\ moved' = [moved EXCEPT ![d] = FALSE]
          /\ Goto(d, "remove")
          /\ UNCHANGED toRemove
       \/ /\ n \notin Range(tracks)
          /\ toRemove' = [toRemove EXCEPT ![d] = @ \ {n}]
          /\ UNCHANGED <<pc, removeVars, moved>>
  /\ UNCHANGED <<local, nav, lists, job, argVars, playlist, unresolved, wanted, listed,
                 toAdd, others, boundVars>>

\* Removes the track at index i of d's playlist, if there is one.
Drop(d, i) ==
  /\ LET tracks == lists[playlist[d]] IN
       \/ /\ i \in DOMAIN tracks
          /\ lists' = [lists EXCEPT ![playlist[d]] = RemoveAt(tracks, i)]
          /\ moved' = [e \in Devices |-> moved[e] \/ (e # d /\ playlist[e] = playlist[d])]
          /\ TellOthers(d, "remove")
       \/ i \notin DOMAIN tracks /\ UNCHANGED <<lists, moved, others>>
  /\ toRemove' = [toRemove EXCEPT ![d] = @ \ {victim[d]}]
  /\ Goto(d, "write")
  /\ UNCHANGED <<local, nav, job, argVars, playlist, unresolved, wanted, listed, toAdd,
                 removeVars, boundVars>>

\* Faulty: the position comes from the tracks read before the loops.  Nothing
\* uses it: it shows that OnlyRacesRemoveWanted can fail.
RemoveFromListed(d) ==
  pc[d] = "remove" /\ Drop(d, SelectInSeq(listed[d], LAMBDA t : t = victim[d]))

RemoveFromPlaylist(d) == pc[d] = "remove" /\ Drop(d, position[d])

Finish(d) ==
  /\ pc[d] = "write" /\ toAdd[d] = {} /\ toRemove[d] = {}
  /\ Goto(d, "synced")
  /\ UNCHANGED <<local, nav, lists, job, argVars, playlist, syncVars, removeVars, others,
                 moved, boundVars>>

\* A call fails, before or after it took effect, or the user gives up.
Fail(d) ==
  /\ pc[d] \notin Ended
  /\ Goto(d, "failed")
  /\ UNCHANGED <<local, nav, lists, job, argVars, playlist, syncVars, removeVars, others,
                 moved, boundVars>>
-----------------------------------------------------------------------------
Step(d) ==
  \/ FindPlaylist(d) \/ CreatePlaylist(d) \/ Patch(d) \/ AppendUpgraded(d)
  \/ Resolve(d) \/ GetTracks(d) \/ Add(d) \/ FindPosition(d)
  \/ RemoveFromPlaylist(d) \/ Finish(d)

Next ==
  \E d \in Devices :
    \/ Edit(d) \/ SyncStart(d) \/ Step(d) \/ Fail(d)
    \/ \E s \in Songs, n \in NavIds, strict \in BOOLEAN : UpgradeStart(d, s, n, strict)

Spec == Init /\ [][Next]_vars
-----------------------------------------------------------------------------
Count(tracks, n) == Cardinality({i \in DOMAIN tracks : tracks[i] = n})

\* What d's playlist wants to see in Navidrome now.
Wanted(d) == {nav[s] : s \in local[d]} \ {NoId}

\* A track that the device's playlist wants is removed only if the playlist
\* or the server's ids changed since its command began, or if somebody else
\* removed a track since it looked up the position; additions of others, in
\* particular, never make it hit the wrong one.  (sync_playlists,
\* remove_from_playlist)
OnlyRacesRemoveWanted ==
  [][\A d \in Devices :
       pc[d] = "remove" /\ lists' # lists /\ pc'[d] # pc[d] =>
         \/ "edit" \in others[d] \/ moved[d]
         \/ \A n \in Wanted(d) :
              Count(lists'[playlist[d]], n) = Count(lists[playlist[d]], n)]_vars

\* After a synchronisation that nobody disturbed the remote playlist has the
\* songs of the local one and no other, but for songs that it had more than
\* once, of which one is removed at a time.  (sync_playlists)
UndisturbedSyncSettles ==
  \A d \in Devices :
    pc[d] = "synced" /\ others[d] = {} =>
      LET tracks == lists[playlist[d]] IN
      /\ Wanted(d) \subseteq Range(tracks)
      /\ \A n \in Range(tracks) \ Wanted(d) :
           Count(listed[d], n) > 1 /\ Count(tracks, n) = Count(listed[d], n) - 1
=============================================================================
