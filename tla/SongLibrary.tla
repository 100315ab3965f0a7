---------------------------- MODULE SongLibrary ----------------------------
(***************************************************************************)
(* The server's library of songs: a table with a row per song and, for     *)
(* those without a Navidrome id, an audio file, a metadata file and a      *)
(* thumbnail, all named after the song's id.  Nothing ties them together   *)
(* but the order in which `add_song` and its client, `spark backend        *)
(* add-song`, make them, and both may stop at any point.                   *)
(*                                                                         *)
(* The contents of a file are abstracted to the upload they came from and  *)
(* whether they are all there.  The library may have files from before     *)
(* the table existed.                                                      *)
(***************************************************************************)
EXTENDS Integers, FiniteSets

CONSTANTS Uploads,      \* runs of `spark backend add-song`
          Ids,          \* song ids
          Exts,         \* extensions of audio files
          NavIds,       \* ids of songs in Navidrome
          OldFiles,     \* audio of the library from before the table: <<id, ext>>
          OldOthers,    \* ids with a metadata file and a thumbnail from then
          MaxUpgrades   \* bound: calls of add_navidrome_song and upgrade_to_navidrome

ASSUME LibraryAssumption ==
  /\ Uploads \intersect {"before"} = {}
  /\ Ids # {} /\ OldFiles \subseteq Ids \X Exts /\ OldOthers \subseteq Ids
  /\ MaxUpgrades \in Nat
  /\ "file" \notin NavIds /\ "no row" \notin NavIds
  /\ "unknown" \notin Exts

NoRow  == "no row"
InFile == "file"       \* navidrome_id IS NULL
NoFile == [song |-> "none", whole |-> FALSE]
NoExt  == "unknown"    \* no entry in AUDIO_PATH_CACHE

Part(u)  == [song |-> u, whole |-> FALSE]
Whole(u) == [song |-> u, whole |-> TRUE]

Old(i) == IF i \in OldOthers THEN Whole("before") ELSE NoFile

VARIABLES songs,      \* the table: NoRow, InFile or a Navidrome id
          audio,      \* the audio file of each id and extension
          meta, thumb,
          cache,      \* AUDIO_PATH_CACHE
          pc, id, ext,\* the uploads
          m,          \* the songs that uploads have put into the m playlist
          upgrades

uploadVars == <<pc, id, ext>>
fileVars == <<audio, meta, thumb>>
vars == <<songs, fileVars, cache, uploadVars, m, upgrades>>

Init ==
  /\ songs = [i \in Ids |-> NoRow]
  /\ audio = [i \in Ids |-> [e \in Exts |->
                IF <<i, e>> \in OldFiles THEN Whole("before") ELSE NoFile]]
  /\ meta = [i \in Ids |-> Old(i)] /\ thumb = [i \in Ids |-> Old(i)]
  /\ cache = [i \in Ids |-> NoExt]
  /\ pc = [u \in Uploads |-> "idle"]
  /\ id = [u \in Uploads |-> CHOOSE i \in Ids : TRUE]   \* not drawn yet
  /\ ext \in [Uploads -> Exts]
  /\ m = {}
  /\ upgrades = 0

Goto(u, step) == pc' = [pc EXCEPT ![u] = step]
-----------------------------------------------------------------------------
(* Looking for a song's file, as song_audio and add_thumb do. *)

\* Faulty: remembers that nothing was found.  Nothing uses it: it shows that
\* ReturnedSongsPlay can fail.
SearchCachingMisses(i, found) ==
  LET there == {e \in Exts : audio[i][e] # NoFile} IN
  IF cache[i] # NoExt
  THEN /\ found = (IF cache[i] \in Exts THEN audio[i][cache[i]] ELSE NoFile)
       /\ UNCHANGED cache
  ELSE IF there = {} THEN found = NoFile /\ cache' = [cache EXCEPT ![i] = "nothing"]
  ELSE \E e \in there : found = audio[i][e] /\ cache' = [cache EXCEPT ![i] = e]

\* The first file with the id in the order of the directory, whose extension
\* is remembered.
Search(i, found) ==
  LET there == {e \in Exts : audio[i][e] # NoFile} IN
  IF cache[i] # NoExt THEN found = audio[i][cache[i]] /\ UNCHANGED cache
  ELSE IF there = {} THEN found = NoFile /\ UNCHANGED cache
  ELSE \E e \in there : found = audio[i][e] /\ cache' = [cache EXCEPT ![i] = e]

Files == {NoFile} \union {audio[i][e] : i \in Ids, e \in Exts}

\* GET song/audio of a song in a file.
SongAudio(i) ==
  /\ songs[i] = InFile
  /\ \E found \in Files : Search(i, found)
  /\ UNCHANGED <<songs, fileVars, uploadVars, m, upgrades>>
-----------------------------------------------------------------------------
(* add_song, which draws an id and writes, and add_song_file, its client. *)

Start(u) ==
  /\ pc[u] = "idle"
  /\ Goto(u, "insert")
  /\ UNCHANGED <<songs, fileVars, cache, id, ext, m, upgrades>>

\* A collision of ids is an error: the primary key is not the constraint
\* songs_unique_id that the loop looks for.
Insert(u) ==
  /\ pc[u] = "insert"
  /\ \E i \in Ids :
       /\ id' = [id EXCEPT ![u] = i]
       /\ \/ /\ songs[i] = NoRow
             /\ songs' = [songs EXCEPT ![i] = InFile]
             /\ Goto(u, "create")
          \/ /\ songs[i] # NoRow
             /\ Goto(u, "failed")
             /\ UNCHANGED songs
  /\ UNCHANGED <<fileVars, cache, ext, m, upgrades>>

\* Faulty: File::create.  Nothing uses it: it shows that NeverOverwritten can
\* fail.
CreateOrTruncate(u) ==
  /\ pc[u] = "create"
  /\ audio' = [audio EXCEPT ![id[u]][ext[u]] = Part(u)]
  /\ Goto(u, "copy")
  /\ UNCHANGED <<songs, meta, thumb, cache, id, ext, m, upgrades>>

\* Faulty: tries the same file again.  Nothing uses it: it shows that
\* UploadsEnd can fail.
CreateSameAgain(u) ==
  /\ pc[u] = "create"
  /\ audio[id[u]][ext[u]] = NoFile
  /\ audio' = [audio EXCEPT ![id[u]][ext[u]] = Part(u)]
  /\ Goto(u, "copy")
  /\ UNCHANGED <<songs, meta, thumb, cache, id, ext, m, upgrades>>

\* File::create_new, or another turn of the loop.
CreateFile(u) ==
  /\ pc[u] = "create"
  /\ \/ /\ audio[id[u]][ext[u]] = NoFile
        /\ audio' = [audio EXCEPT ![id[u]][ext[u]] = Part(u)]
        /\ Goto(u, "copy")
     \/ /\ audio[id[u]][ext[u]] # NoFile
        /\ Goto(u, "insert")
        /\ UNCHANGED audio
  /\ UNCHANGED <<songs, meta, thumb, cache, id, ext, m, upgrades>>

\* Faulty: the answer does not wait for the metadata.  Nothing uses it: it
\* shows that PlaylistSongsComplete can fail.
CopyAndAnswer(u) ==
  /\ pc[u] = "copy"
  /\ audio' = [audio EXCEPT ![id[u]][ext[u]] = Whole(u)]
  /\ Goto(u, "uploaded")
  /\ UNCHANGED <<songs, meta, thumb, cache, id, ext, m, upgrades>>

Copy(u) ==
  /\ pc[u] = "copy"
  /\ audio' = [audio EXCEPT ![id[u]][ext[u]] = Whole(u)]
  /\ Goto(u, "meta")
  /\ UNCHANGED <<songs, meta, thumb, cache, id, ext, m, upgrades>>

\* tokio::fs::write: the file is created, or one that is there is truncated,
\* then written.
CreateMeta(u) ==
  /\ pc[u] = "meta"
  /\ meta' = [meta EXCEPT ![id[u]] = Part(u)]
  /\ Goto(u, "fill")
  /\ UNCHANGED <<songs, audio, thumb, cache, id, ext, m, upgrades>>

WriteMeta(u) ==
  /\ pc[u] = "fill"
  /\ meta' = [meta EXCEPT ![id[u]] = Whole(u)]
  /\ Goto(u, "uploaded")
  /\ UNCHANGED <<songs, audio, thumb, cache, id, ext, m, upgrades>>

\* The client has the id and posts the thumbnail, for which add_thumb wants
\* to see the song's audio.
CreateThumb(u) ==
  /\ pc[u] = "uploaded"
  /\ \E found \in Files :
       /\ Search(id[u], found)
       /\ \/ /\ found # NoFile
             /\ thumb' = [thumb EXCEPT ![id[u]] = Part(u)]
             /\ Goto(u, "thumb")
          \/ /\ found = NoFile
             /\ Goto(u, "failed")
             /\ UNCHANGED thumb
  /\ UNCHANGED <<songs, audio, meta, id, ext, m, upgrades>>

CopyThumb(u) ==
  /\ pc[u] = "thumb"
  /\ thumb' = [thumb EXCEPT ![id[u]] = Whole(u)]
  /\ Goto(u, "new")
  /\ UNCHANGED <<songs, audio, meta, cache, id, ext, m, upgrades>>

\* `m new` puts the song into the playlist; that it failed is only logged.
MNew(u) ==
  /\ pc[u] = "new"
  /\ m' \in {m, m \union {id[u]}}
  /\ Goto(u, "done")
  /\ UNCHANGED <<songs, fileVars, cache, id, ext, upgrades>>

\* The client, the server or the connection between them dies, or a write
\* fails.  What was written stays.
Abandon(u) ==
  /\ pc[u] \notin {"idle", "done", "failed"}
  /\ Goto(u, "failed")
  /\ UNCHANGED <<songs, fileVars, cache, id, ext, m, upgrades>>

\* The cache lives as long as the server.
ServerRestart ==
  /\ cache' = [i \in Ids |-> NoExt]
  /\ pc' = [u \in Uploads |-> IF pc[u] \in {"idle", "done", "new", "uploaded"}
                              THEN pc[u] ELSE "failed"]
  /\ UNCHANGED <<songs, fileVars, id, ext, m, upgrades>>
-----------------------------------------------------------------------------
AddNavidromeSong(nav) ==
  /\ upgrades < MaxUpgrades
  /\ upgrades' = upgrades + 1
  /\ \E i \in Ids : /\ songs[i] = NoRow    \* or an error, as in Insert
                    /\ songs' = [songs EXCEPT ![i] = nav]
  /\ UNCHANGED <<fileVars, cache, uploadVars, m>>

\* No row, no update, and still an answer of 200.
UpgradeToNavidrome(i, nav) ==
  /\ upgrades < MaxUpgrades
  /\ upgrades' = upgrades + 1
  /\ songs' = [songs EXCEPT ![i] = IF @ = NoRow THEN NoRow ELSE nav]
  /\ UNCHANGED <<fileVars, cache, uploadVars, m>>
-----------------------------------------------------------------------------
Step(u) ==
  \/ Insert(u) \/ CreateFile(u) \/ Copy(u) \/ CreateMeta(u) \/ WriteMeta(u)
  \/ CreateThumb(u) \/ CopyThumb(u) \/ MNew(u)

Next ==
  \/ \E u \in Uploads : Start(u) \/ Step(u) \/ Abandon(u)
  \/ \E i \in Ids : SongAudio(i)
  \/ \E nav \in NavIds : AddNavidromeSong(nav)
  \/ \E i \in Ids, nav \in NavIds : UpgradeToNavidrome(i, nav)
  \/ ServerRestart

Fairness == \A u \in Uploads : WF_vars(Step(u))

Spec == Init /\ [][Next]_vars /\ Fairness
-----------------------------------------------------------------------------
IsOld(i) == \E e \in Exts : <<i, e>> \in OldFiles

\* What song_audio may play for an id that has a row.
Playable(i) ==
  LET there == {e \in Exts : audio[i][e] # NoFile} IN
  CASE songs[i] # InFile -> {}
    [] songs[i] = InFile /\ cache[i] \in Exts -> {audio[i][cache[i]]}
    [] songs[i] = InFile /\ cache[i] = NoExt /\ there # {} -> {audio[i][e] : e \in there}
    [] OTHER -> {NoFile}

HasId(u) == pc[u] \in {"uploaded", "thumb", "new", "done"}

\* The id that add_song returned plays this upload's song, all of it, until
\* it is upgraded to Navidrome; but for an id that also names a file from
\* before the table.  (add_song, search and its cache)
ReturnedSongsPlay ==
  \A u \in Uploads :
    HasId(u) => /\ songs[id[u]] # NoRow
                /\ IsOld(id[u]) \/ Playable(id[u]) \subseteq {Whole(u)}

\* A song that add_song_file has put into the m playlist has a row, and its
\* audio, metadata and thumbnail are whole and of one upload: sync_playlists,
\* which asks for the metadata of all songs in it and panics if one has none,
\* can rely on them.  (add_song_file, add_song, add_thumb)
PlaylistSongsComplete ==
  \A i \in m :
    /\ songs[i] # NoRow
    /\ \E u \in Uploads, e \in Exts :
         audio[i][e] = Whole(u) /\ meta[i] = Whole(u) /\ thumb[i] = Whole(u)

\* Nobody writes to an audio file that is whole, nor to metadata or a thumbnail
\* that an upload has completed: not an upload that drew the same id, nor one
\* that tries again.  Of a song from before the table only the audio is safe:
\* an upload with another extension that draws its id replaces the rest.
\* (add_song, add_thumb)
NeverOverwritten ==
  [][\A i \in Ids :
       /\ \A e \in Exts : audio[i][e].whole => audio'[i][e] = audio[i][e]
       /\ \A u \in Uploads : /\ meta[i] = Whole(u) => meta'[i] = Whole(u)
                            /\ thumb[i] = Whole(u) => thumb'[i] = Whole(u)]_vars

\* add_song always comes to an end: its loop runs out of old files.
UploadsEnd == \A u \in Uploads : pc[u] = "insert" ~> pc[u] \in {"done", "failed"}
=============================================================================
