-------------------------- MODULE SongLibraryProofs --------------------------
(***************************************************************************)
(* Proofs about SongLibrary, for any uploads, ids, extensions and old      *)
(* files.                                                                  *)
(***************************************************************************)
EXTENDS SongLibrary, TLAPS

Contents == [song : Uploads \union {"none", "before"}, whole : BOOLEAN]

TypeOK ==
  /\ songs \in [Ids -> NavIds \union {NoRow, InFile}]
  /\ audio \in [Ids -> [Exts -> Contents]]
  /\ meta \in [Ids -> Contents] /\ thumb \in [Ids -> Contents]
  /\ cache \in [Ids -> Exts \union {NoExt}]
  /\ pc \in [Uploads -> {"idle", "insert", "create", "copy", "meta", "fill", "uploaded",
                         "thumb", "new", "done", "failed"}]
  /\ id \in [Uploads -> Ids] /\ ext \in [Uploads -> Exts]
  /\ m \in SUBSET Ids

OldAudio(i, e) == IF <<i, e>> \in OldFiles THEN Whole("before") ELSE NoFile

HasRow(u) == pc[u] \in {"create", "copy", "meta", "fill"} \/ HasId(u)

\* An upload's row is there and is its own.
RowsAreOwn ==
  /\ \A u \in Uploads : HasRow(u) => songs[id[u]] # NoRow
  /\ \A u, v \in Uploads : HasRow(u) /\ HasRow(v) /\ id[u] = id[v] => u = v

\* Nothing but old audio has the name of an id without a row.
UnusedIdsHaveNoFiles ==
  \A i \in Ids : songs[i] = NoRow =>
    /\ \A e \in Exts : audio[i][e] = OldAudio(i, e)
    /\ meta[i] = Old(i) /\ thumb[i] = Old(i)

\* The audio files with the name of an upload's id are old, or its own as far
\* as it has got.
AudioIsOwn ==
  \A u \in Uploads : HasRow(u) =>
    /\ \A e \in Exts \ {ext[u]} : audio[id[u]][e] = OldAudio(id[u], e)
    /\ pc[u] = "create" => audio[id[u]][ext[u]] = OldAudio(id[u], ext[u])
    /\ pc[u] = "copy" => audio[id[u]][ext[u]] = Part(u)
    /\ pc[u] \notin {"create", "copy"} => audio[id[u]][ext[u]] = Whole(u)

MetaIsOwn ==
  \A u \in Uploads :
    /\ pc[u] \in {"create", "copy", "meta"} => meta[id[u]] = Old(id[u])
    /\ pc[u] = "fill" => meta[id[u]] = Part(u)
    /\ HasId(u) => meta[id[u]] = Whole(u)

\* Until its upload makes one, an id has no thumbnail but an old one.
ThumbIsOwn ==
  \A u \in Uploads :
    /\ pc[u] \in {"create", "copy", "meta", "fill", "uploaded"} => thumb[id[u]] = Old(id[u])
    /\ pc[u] = "thumb" => thumb[id[u]] = Part(u)
    /\ pc[u] \in {"new", "done"} => thumb[id[u]] = Whole(u)

\* What the cache remembers of an id is the extension of a file.
CacheNamesFiles ==
  \A i \in Ids : cache[i] # NoExt => audio[i][cache[i]] # NoFile

PlaylistFromUploads == \A i \in m : \E u \in Uploads : pc[u] = "done" /\ id[u] = i

IInv == TypeOK /\ RowsAreOwn /\ UnusedIdsHaveNoFiles /\ AudioIsOwn /\ MetaIsOwn
        /\ ThumbIsOwn /\ CacheNamesFiles /\ PlaylistFromUploads

\* What NeverOverwritten says of a step.
KeepsWhole ==
  \A i \in Ids :
    /\ \A e \in Exts : audio[i][e].whole => audio'[i][e] = audio[i][e]
    /\ \A u \in Uploads : /\ meta[i] = Whole(u) => meta'[i] = Whole(u)
                         /\ thumb[i] = Whole(u) => thumb'[i] = Whole(u)
-----------------------------------------------------------------------------
LEMMA PartIsNotWhole == \A u : ~Part(u).whole /\ \A v : Part(u) # Whole(v)
  BY DEF Part, Whole

LEMMA OldIsNotUploaded == \A i : \A u \in Uploads : Old(i) # Whole(u)
<1> SUFFICES ASSUME NEW i, NEW u \in Uploads PROVE Old(i) # Whole(u)
  OBVIOUS
<1>1. Old(i).song # u \/ ~Old(i).whole
  BY LibraryAssumption DEF Old, Whole, NoFile
<1>2. Whole(u).song = u /\ Whole(u).whole
  BY DEF Whole
<1> QED BY <1>1, <1>2

LEMMA InitIInv == Init => IInv
<1> SUFFICES ASSUME Init PROVE IInv
  OBVIOUS
<1> USE DEF Init
<1>1. TypeOK
  <2>1. (CHOOSE i \in Ids : TRUE) \in Ids
    BY LibraryAssumption
  <2> QED BY <2>1 DEF TypeOK, Contents, Whole, NoFile, Old
<1>2. RowsAreOwn /\ UnusedIdsHaveNoFiles /\ AudioIsOwn /\ MetaIsOwn /\ ThumbIsOwn
  BY DEF RowsAreOwn, UnusedIdsHaveNoFiles, AudioIsOwn, MetaIsOwn, ThumbIsOwn, HasRow, HasId,
         OldAudio
<1>3. CacheNamesFiles /\ PlaylistFromUploads
  BY DEF CacheNamesFiles, PlaylistFromUploads
<1> QED BY <1>1, <1>2, <1>3 DEF IInv

\* Actions that leave the rows and the files alone, and in which an upload at
\* most begins or gives up.
LEMMA QuietIInv ==
  ASSUME IInv, UNCHANGED <<songs, fileVars, id, ext, m>>,
         TypeOK', CacheNamesFiles',
         \A u \in Uploads : pc'[u] = pc[u] \/ (pc'[u] \in {"insert", "failed"} /\ pc[u] # "done")
  PROVE  IInv' /\ KeepsWhole
<1> USE DEF IInv, fileVars
<1>1. RowsAreOwn' /\ AudioIsOwn'
  BY DEF RowsAreOwn, AudioIsOwn, HasRow, HasId, OldAudio
<1>2. UnusedIdsHaveNoFiles'
  BY DEF UnusedIdsHaveNoFiles, OldAudio
<1>3. MetaIsOwn' /\ ThumbIsOwn'
  BY DEF MetaIsOwn, ThumbIsOwn, HasId
<1>4. PlaylistFromUploads'
  BY DEF PlaylistFromUploads
<1> QED BY <1>1, <1>2, <1>3, <1>4 DEF KeepsWhole

\* What the cache takes up is the extension of a file.
LEMMA SearchCaches ==
  ASSUME IInv, NEW i \in Ids, NEW found, Search(i, found), UNCHANGED audio
  PROVE  CacheNamesFiles' /\ cache' \in [Ids -> Exts \union {NoExt}]
  BY DEF IInv, TypeOK, CacheNamesFiles, Search

LEMMA SongAudioIInv ==
  ASSUME IInv, NEW i \in Ids, SongAudio(i)
  PROVE  IInv' /\ KeepsWhole
<1>1. CacheNamesFiles' /\ cache' \in [Ids -> Exts \union {NoExt}]
  BY SearchCaches DEF SongAudio, fileVars
<1>2. TypeOK'
  BY <1>1 DEF SongAudio, fileVars, uploadVars, IInv, TypeOK
<1> QED BY <1>1, <1>2, QuietIInv DEF SongAudio, fileVars, uploadVars, IInv

LEMMA StartIInv ==
  ASSUME IInv, NEW u \in Uploads, Start(u)
  PROVE  IInv' /\ KeepsWhole
<1>1. TypeOK' /\ CacheNamesFiles'
  BY DEF Start, Goto, fileVars, IInv, TypeOK, CacheNamesFiles
<1> QED BY <1>1, QuietIInv DEF Start, Goto, fileVars, IInv, TypeOK

LEMMA AbandonIInv ==
  ASSUME IInv, NEW u \in Uploads, Abandon(u)
  PROVE  IInv' /\ KeepsWhole
<1>1. TypeOK' /\ CacheNamesFiles'
  BY DEF Abandon, Goto, fileVars, IInv, TypeOK, CacheNamesFiles
<1> QED BY <1>1, QuietIInv DEF Abandon, Goto, fileVars, IInv, TypeOK

LEMMA RestartIInv ==
  ASSUME IInv, ServerRestart
  PROVE  IInv' /\ KeepsWhole
<1>1. TypeOK' /\ CacheNamesFiles'
  BY DEF ServerRestart, fileVars, IInv, TypeOK, CacheNamesFiles
<1> QED BY <1>1, QuietIInv DEF ServerRestart, fileVars, IInv, TypeOK

\* A row that is there stays, and only an id without a row is given away.
LEMMA InsertIInv ==
  ASSUME IInv, NEW u \in Uploads, Insert(u)
  PROVE  IInv' /\ KeepsWhole
<1> USE DEF IInv, fileVars
<1>1. PICK i \in Ids :
        /\ pc[u] = "insert" /\ id' = [id EXCEPT ![u] = i]
        /\ \/ /\ songs[i] = NoRow
              /\ songs' = [songs EXCEPT ![i] = InFile]
              /\ pc' = [pc EXCEPT ![u] = "create"]
           \/ /\ songs[i] # NoRow
              /\ pc' = [pc EXCEPT ![u] = "failed"]
              /\ UNCHANGED songs
        /\ UNCHANGED <<audio, meta, thumb, cache, ext, m>>
  BY DEF Insert, Goto
<1>2. TypeOK'
  BY <1>1 DEF TypeOK
<1>3. RowsAreOwn'
  <2>1. pc'[u] \in {"create", "failed"} /\ id'[u] = i
    BY <1>1 DEF TypeOK
  <2>2. \A v \in Uploads \ {u} : pc'[v] = pc[v] /\ id'[v] = id[v]
    BY <1>1 DEF TypeOK
  <2>3. \A j \in Ids : songs[j] # NoRow => songs'[j] # NoRow
    BY <1>1 DEF TypeOK, NoRow, InFile
  <2>4. pc'[u] = "create" => songs[i] = NoRow /\ songs'[i] # NoRow
    BY <1>1 DEF TypeOK, NoRow, InFile
  <2>5. \A v \in Uploads : HasRow(v)' => songs'[id'[v]] # NoRow
    BY <2>1, <2>2, <2>3, <2>4 DEF RowsAreOwn, TypeOK, HasRow, HasId
  <2>6. \A v, w \in Uploads : HasRow(v)' /\ HasRow(w)' /\ id'[v] = id'[w] => v = w
    BY <2>1, <2>2, <2>4 DEF RowsAreOwn, TypeOK, HasRow, HasId
  <2> QED BY <2>5, <2>6 DEF RowsAreOwn
<1>4. UnusedIdsHaveNoFiles'
  BY <1>1 DEF UnusedIdsHaveNoFiles, TypeOK, OldAudio, NoRow, InFile
<1>5. AudioIsOwn'
  BY <1>1 DEF AudioIsOwn, UnusedIdsHaveNoFiles, TypeOK, HasRow, HasId, OldAudio
<1>6. MetaIsOwn' /\ ThumbIsOwn'
  BY <1>1 DEF MetaIsOwn, ThumbIsOwn, UnusedIdsHaveNoFiles, TypeOK, HasId
<1>7. CacheNamesFiles'
  BY <1>1 DEF CacheNamesFiles
<1>8. PlaylistFromUploads'
  BY <1>1 DEF PlaylistFromUploads, TypeOK
<1>9. KeepsWhole
  BY <1>1 DEF KeepsWhole
<1> QED BY <1>2, <1>3, <1>4, <1>5, <1>6, <1>7, <1>8, <1>9

\* Steps of an upload after its audio was copied leave row and audio its own.
LEMMA LaterStepsKeepAudio ==
  ASSUME IInv, NEW u \in Uploads, pc[u] \in {"meta", "fill"} \/ HasId(u),
         NEW next \in {"fill", "uploaded", "thumb", "new", "done", "failed"},
         pc' = [pc EXCEPT ![u] = next],
         UNCHANGED <<songs, audio, id, ext>>
  PROVE  RowsAreOwn' /\ AudioIsOwn'
<1> USE DEF IInv
<1>1. pc'[u] = next /\ \A v \in Uploads \ {u} : pc'[v] = pc[v]
  BY DEF TypeOK
<1>2. HasRow(u) /\ \A v \in Uploads : HasRow(v)' => HasRow(v)
  BY <1>1 DEF HasRow, HasId
<1>3. RowsAreOwn'
  BY <1>2 DEF RowsAreOwn
<1>4. pc[u] \notin {"create", "copy"} /\ pc'[u] \notin {"create", "copy"}
  BY <1>1 DEF HasId
<1>5. AudioIsOwn'
  BY <1>1, <1>2, <1>4 DEF AudioIsOwn, OldAudio
<1> QED BY <1>3, <1>5

\* So do steps in which an upload writes its audio file, those of the others.
LEMMA AudioStepsKeepOthers ==
  ASSUME IInv, NEW u \in Uploads, HasRow(u), NEW file, NEW next,
         pc' = [pc EXCEPT ![u] = next],
         audio' = [audio EXCEPT ![id[u]][ext[u]] = file],
         UNCHANGED <<id, ext>>,
         \/ next = "copy" /\ file = Part(u)
         \/ next = "meta" /\ file = Whole(u)
  PROVE  AudioIsOwn'
<1> USE DEF IInv
<1> SUFFICES ASSUME NEW v \in Uploads, HasRow(v)'
             PROVE  /\ \A e \in Exts \ {ext[v]} : audio'[id[v]][e] = OldAudio(id[v], e)
                    /\ pc'[v] = "create" => audio'[id[v]][ext[v]] = OldAudio(id[v], ext[v])
                    /\ pc'[v] = "copy" => audio'[id[v]][ext[v]] = Part(v)
                    /\ pc'[v] \notin {"create", "copy"} => audio'[id[v]][ext[v]] = Whole(v)
  BY DEF AudioIsOwn, OldAudio
<1>1. CASE v = u
  <2>1. pc'[u] = next /\ audio'[id[u]] = [audio[id[u]] EXCEPT ![ext[u]] = file]
    BY DEF TypeOK
  <2>2. \A e \in Exts \ {ext[u]} : audio'[id[u]][e] = OldAudio(id[u], e)
    BY <2>1 DEF AudioIsOwn, TypeOK
  <2>3. audio'[id[u]][ext[u]] = file
    BY <2>1 DEF TypeOK
  <2> QED BY <1>1, <2>1, <2>2, <2>3
<1>2. CASE v # u
  <2>1. pc'[v] = pc[v] /\ HasRow(v)
    BY <1>2 DEF TypeOK, HasRow, HasId
  <2>2. audio'[id[v]] = audio[id[v]]
    BY <1>2, <2>1 DEF RowsAreOwn, TypeOK
  <2> QED BY <2>1, <2>2 DEF AudioIsOwn
<1> QED BY <1>1, <1>2

LEMMA CreateFileIInv ==
  ASSUME IInv, NEW u \in Uploads, CreateFile(u)
  PROVE  IInv' /\ KeepsWhole
<1> USE DEF IInv, CreateFile, Goto
<1>1. CASE audio[id[u]][ext[u]] # NoFile
  <2>1. /\ UNCHANGED <<songs, fileVars, cache, id, ext, m>>
        /\ pc' = [pc EXCEPT ![u] = "insert"]
    BY <1>1 DEF fileVars
  <2>2. TypeOK' /\ CacheNamesFiles'
    BY <2>1 DEF TypeOK, CacheNamesFiles, fileVars
  <2> QED BY <2>1, <2>2, QuietIInv DEF TypeOK
<1>2. CASE audio[id[u]][ext[u]] = NoFile
  <2>1. /\ pc[u] = "create" /\ pc' = [pc EXCEPT ![u] = "copy"]
        /\ audio' = [audio EXCEPT ![id[u]][ext[u]] = Part(u)]
        /\ UNCHANGED <<songs, meta, thumb, cache, id, ext, m>>
    BY <1>2
  <2>2. TypeOK'
    BY <2>1 DEF TypeOK, Contents, Part
  <2>3. RowsAreOwn' /\ MetaIsOwn' /\ ThumbIsOwn'
    BY <2>1 DEF RowsAreOwn, MetaIsOwn, ThumbIsOwn, TypeOK, HasRow, HasId
  <2>4. UnusedIdsHaveNoFiles'
    BY <2>1 DEF UnusedIdsHaveNoFiles, RowsAreOwn, TypeOK, OldAudio, HasRow
  <2>5. AudioIsOwn'
    BY <2>1, AudioStepsKeepOthers DEF HasRow
  <2>6. CacheNamesFiles'
    BY <1>2, <2>1 DEF CacheNamesFiles, TypeOK
  <2>7. PlaylistFromUploads'
    BY <2>1 DEF PlaylistFromUploads, TypeOK
  <2>8. KeepsWhole
    BY <1>2, <2>1 DEF KeepsWhole, TypeOK, NoFile
  <2> QED BY <2>2, <2>3, <2>4, <2>5, <2>6, <2>7, <2>8
<1> QED BY <1>1, <1>2

LEMMA CopyIInv ==
  ASSUME IInv, NEW u \in Uploads, Copy(u)
  PROVE  IInv' /\ KeepsWhole
<1> USE DEF IInv, Copy, Goto
<1>1. TypeOK'
  BY DEF TypeOK, Contents, Whole
<1>2. RowsAreOwn' /\ MetaIsOwn' /\ ThumbIsOwn'
  BY DEF RowsAreOwn, MetaIsOwn, ThumbIsOwn, TypeOK, HasRow, HasId
<1>3. UnusedIdsHaveNoFiles'
  BY DEF UnusedIdsHaveNoFiles, RowsAreOwn, TypeOK, OldAudio, HasRow
<1>4. AudioIsOwn'
  BY AudioStepsKeepOthers DEF HasRow
<1>5. CacheNamesFiles'
  BY DEF CacheNamesFiles, TypeOK, Whole, NoFile
<1>6. PlaylistFromUploads'
  BY DEF PlaylistFromUploads, TypeOK
<1>7. KeepsWhole
  <2>1. audio[id[u]][ext[u]] = Part(u)
    BY DEF AudioIsOwn, HasRow
  <2> QED BY <2>1, PartIsNotWhole DEF KeepsWhole, TypeOK
<1> QED BY <1>1, <1>2, <1>3, <1>4, <1>5, <1>6, <1>7

LEMMA CreateMetaIInv ==
  ASSUME IInv, NEW u \in Uploads, CreateMeta(u)
  PROVE  IInv' /\ KeepsWhole
<1> USE DEF IInv, CreateMeta, Goto
<1>1. TypeOK'
  BY DEF TypeOK, Contents, Part
<1>2. RowsAreOwn' /\ AudioIsOwn'
  BY LaterStepsKeepAudio
<1>7. ThumbIsOwn'
  BY DEF ThumbIsOwn, TypeOK
<1>3. UnusedIdsHaveNoFiles'
  BY DEF UnusedIdsHaveNoFiles, RowsAreOwn, TypeOK, OldAudio, HasRow
<1>4. MetaIsOwn'
  BY DEF MetaIsOwn, RowsAreOwn, TypeOK, HasRow, HasId
<1>5. CacheNamesFiles' /\ PlaylistFromUploads'
  BY DEF CacheNamesFiles, PlaylistFromUploads, TypeOK
<1>6. KeepsWhole
  BY OldIsNotUploaded DEF KeepsWhole, MetaIsOwn, TypeOK
<1> QED BY <1>1, <1>2, <1>3, <1>4, <1>5, <1>6, <1>7

LEMMA WriteMetaIInv ==
  ASSUME IInv, NEW u \in Uploads, WriteMeta(u)
  PROVE  IInv' /\ KeepsWhole
<1> USE DEF IInv, WriteMeta, Goto
<1>1. TypeOK'
  BY DEF TypeOK, Contents, Whole
<1>2. RowsAreOwn' /\ AudioIsOwn'
  BY LaterStepsKeepAudio
<1>7. ThumbIsOwn'
  BY DEF ThumbIsOwn, TypeOK
<1>3. UnusedIdsHaveNoFiles'
  BY DEF UnusedIdsHaveNoFiles, RowsAreOwn, TypeOK, OldAudio, HasRow
<1>4. MetaIsOwn'
  BY DEF MetaIsOwn, RowsAreOwn, TypeOK, HasRow, HasId
<1>5. CacheNamesFiles' /\ PlaylistFromUploads'
  BY DEF CacheNamesFiles, PlaylistFromUploads, TypeOK
<1>6. KeepsWhole
  <2>1. meta[id[u]] = Part(u)
    BY DEF MetaIsOwn
  <2> QED BY <2>1, PartIsNotWhole DEF KeepsWhole, TypeOK
<1> QED BY <1>1, <1>2, <1>3, <1>4, <1>5, <1>6, <1>7

LEMMA CreateThumbIInv ==
  ASSUME IInv, NEW u \in Uploads, CreateThumb(u)
  PROVE  IInv' /\ KeepsWhole
<1> USE DEF IInv, Goto
<1>1. /\ pc[u] = "uploaded"
      /\ UNCHANGED <<songs, audio, meta, id, ext, m>>
      /\ \/ /\ thumb' = [thumb EXCEPT ![id[u]] = Part(u)]
            /\ pc' = [pc EXCEPT ![u] = "thumb"]
         \/ pc' = [pc EXCEPT ![u] = "failed"] /\ UNCHANGED thumb
  BY DEF CreateThumb
<1>2. CacheNamesFiles' /\ cache' \in [Ids -> Exts \union {NoExt}]
  <2>1. id[u] \in Ids
    BY DEF TypeOK
  <2> QED BY <2>1, SearchCaches DEF CreateThumb
<1>3. TypeOK'
  <2>1. Part(u) \in Contents
    BY DEF Contents, Part
  <2>2. thumb' \in [Ids -> Contents]
    BY <1>1, <2>1 DEF TypeOK
  <2>3. pc' \in [Uploads -> {"idle", "insert", "create", "copy", "meta", "fill", "uploaded",
                            "thumb", "new", "done", "failed"}]
    BY <1>1 DEF TypeOK
  <2> QED BY <1>1, <1>2, <2>2, <2>3 DEF TypeOK
<1>4. RowsAreOwn' /\ AudioIsOwn'
  BY <1>1, LaterStepsKeepAudio DEF HasId
<1>8. MetaIsOwn'
  BY <1>1 DEF MetaIsOwn, TypeOK, HasId
<1>5. UnusedIdsHaveNoFiles'
  BY <1>1 DEF UnusedIdsHaveNoFiles, RowsAreOwn, TypeOK, OldAudio, HasRow, HasId
<1>6. ThumbIsOwn'
  BY <1>1 DEF ThumbIsOwn, RowsAreOwn, TypeOK, HasRow, HasId
<1>7. PlaylistFromUploads'
  BY <1>1 DEF PlaylistFromUploads, TypeOK
<1>9. KeepsWhole
  <2>1. thumb[id[u]] = Old(id[u])
    BY <1>1 DEF ThumbIsOwn
  <2>2. \A v \in Uploads : thumb[id[u]] # Whole(v)
    BY <2>1, OldIsNotUploaded
  <2> QED BY <1>1, <2>2 DEF KeepsWhole, TypeOK
<1> QED BY <1>2, <1>3, <1>4, <1>5, <1>6, <1>7, <1>8, <1>9

LEMMA CopyThumbIInv ==
  ASSUME IInv, NEW u \in Uploads, CopyThumb(u)
  PROVE  IInv' /\ KeepsWhole
<1> USE DEF IInv, CopyThumb, Goto
<1>1. TypeOK'
  BY DEF TypeOK, Contents, Whole
<1>2. RowsAreOwn' /\ AudioIsOwn'
  BY LaterStepsKeepAudio DEF HasId
<1>7. MetaIsOwn'
  BY DEF MetaIsOwn, TypeOK, HasId
<1>3. UnusedIdsHaveNoFiles'
  BY DEF UnusedIdsHaveNoFiles, RowsAreOwn, TypeOK, OldAudio, HasRow, HasId
<1>4. ThumbIsOwn'
  BY DEF ThumbIsOwn, RowsAreOwn, TypeOK, HasRow, HasId
<1>5. CacheNamesFiles' /\ PlaylistFromUploads'
  BY DEF CacheNamesFiles, PlaylistFromUploads, TypeOK
<1>6. KeepsWhole
  <2>1. \A v \in Uploads : thumb[id[u]] # Whole(v)
    BY PartIsNotWhole DEF ThumbIsOwn
  <2> QED BY <2>1 DEF KeepsWhole, TypeOK
<1> QED BY <1>1, <1>2, <1>3, <1>4, <1>5, <1>6, <1>7

LEMMA MNewIInv ==
  ASSUME IInv, NEW u \in Uploads, MNew(u)
  PROVE  IInv' /\ KeepsWhole
<1> USE DEF IInv, MNew, Goto, fileVars
<1>1. TypeOK'
  BY DEF TypeOK
<1>2. RowsAreOwn' /\ AudioIsOwn'
  BY LaterStepsKeepAudio DEF HasId
<1>7. MetaIsOwn' /\ ThumbIsOwn'
  BY DEF MetaIsOwn, ThumbIsOwn, TypeOK, HasId
<1>3. UnusedIdsHaveNoFiles' /\ CacheNamesFiles'
  BY DEF UnusedIdsHaveNoFiles, CacheNamesFiles, OldAudio
<1>4. PlaylistFromUploads'
  BY DEF PlaylistFromUploads, TypeOK
<1>5. KeepsWhole
  BY DEF KeepsWhole
<1> QED BY <1>1, <1>2, <1>3, <1>4, <1>5, <1>7

\* Rows get a Navidrome id, and stay rows.
LEMMA NavidromeIInv ==
  ASSUME IInv, NEW i \in Ids, NEW nav \in NavIds,
         songs' \in {songs, [songs EXCEPT ![i] = nav]},
         UNCHANGED <<fileVars, cache, uploadVars, m>>
  PROVE  IInv' /\ KeepsWhole
<1> USE DEF IInv, fileVars, uploadVars
<1>1. TypeOK'
  BY DEF TypeOK
<1>2. RowsAreOwn'
  BY LibraryAssumption DEF RowsAreOwn, TypeOK, HasRow, HasId, NoRow
<1>3. UnusedIdsHaveNoFiles'
  BY LibraryAssumption DEF UnusedIdsHaveNoFiles, TypeOK, OldAudio, NoRow
<1>4. AudioIsOwn' /\ MetaIsOwn' /\ ThumbIsOwn'
  BY DEF AudioIsOwn, MetaIsOwn, ThumbIsOwn, HasRow, HasId, OldAudio
<1>5. CacheNamesFiles' /\ PlaylistFromUploads' /\ KeepsWhole
  BY DEF CacheNamesFiles, PlaylistFromUploads, KeepsWhole
<1> QED BY <1>1, <1>2, <1>3, <1>4, <1>5

LEMMA NextIInv == IInv /\ [Next]_vars => IInv' /\ (KeepsWhole \/ UNCHANGED vars)
<1> SUFFICES ASSUME IInv, [Next]_vars PROVE IInv' /\ (KeepsWhole \/ UNCHANGED vars)
  OBVIOUS
<1>1. ASSUME NEW nav \in NavIds, AddNavidromeSong(nav) PROVE IInv' /\ KeepsWhole
  BY <1>1, NavidromeIInv DEF AddNavidromeSong
<1>2. ASSUME NEW i \in Ids, NEW nav \in NavIds, UpgradeToNavidrome(i, nav)
      PROVE  IInv' /\ KeepsWhole
  <2>1. songs' \in {songs, [songs EXCEPT ![i] = nav]}
    BY <1>2 DEF UpgradeToNavidrome, IInv, TypeOK
  <2> QED BY <1>2, <2>1, NavidromeIInv DEF UpgradeToNavidrome
<1>3. CASE UNCHANGED vars
  <2>1. TypeOK' /\ CacheNamesFiles'
    BY <1>3 DEF vars, fileVars, uploadVars, IInv, TypeOK, CacheNamesFiles
  <2> QED BY <1>3, <2>1, QuietIInv DEF vars, uploadVars
<1> QED BY <1>1, <1>2, <1>3, SongAudioIInv, StartIInv, AbandonIInv, RestartIInv, InsertIInv,
           CreateFileIInv, CopyIInv, CreateMetaIInv, WriteMetaIInv, CreateThumbIInv,
           CopyThumbIInv, MNewIInv DEF Next, Step
-----------------------------------------------------------------------------
\* The id that add_song returned plays the upload's song.
THEOREM SongsPlay == Spec => []ReturnedSongsPlay
<1>1. ASSUME IInv PROVE ReturnedSongsPlay
  <2> SUFFICES ASSUME NEW u \in Uploads, HasId(u)
               PROVE  /\ songs[id[u]] # NoRow
                      /\ IsOld(id[u]) \/ Playable(id[u]) \subseteq {Whole(u)}
    BY DEF ReturnedSongsPlay
  <2> DEFINE i == id[u]
  <2>1. songs[i] # NoRow
    BY <1>1 DEF IInv, RowsAreOwn, HasRow
  <2>2. i \in Ids /\ ext[u] \in Exts /\ pc[u] \notin {"create", "copy"}
    BY <1>1 DEF IInv, TypeOK, HasId
  <2>3. audio[i][ext[u]] = Whole(u) /\ Whole(u) # NoFile
    BY <1>1, <2>2 DEF IInv, AudioIsOwn, HasRow, Whole, NoFile
  <2>4. ASSUME ~IsOld(i), NEW e \in Exts, audio[i][e] # NoFile PROVE e = ext[u]
    BY <1>1, <2>2, <2>4 DEF IInv, AudioIsOwn, HasRow, IsOld, OldAudio
  <2>5. cache[i] \in Exts => audio[i][cache[i]] # NoFile
    BY <1>1, <2>2, LibraryAssumption DEF IInv, CacheNamesFiles, NoExt
  <2>6. cache[i] \in Exts \/ cache[i] = NoExt
    BY <1>1, <2>2 DEF IInv, TypeOK
  <2>7. ~IsOld(i) => Playable(i) \subseteq {Whole(u)}
    BY <2>2, <2>3, <2>4, <2>5, <2>6 DEF Playable
  <2> QED BY <2>1, <2>7
<1> QED BY <1>1, InitIInv, NextIInv, PTL DEF Spec

\* A song in the m playlist has all its files, of one upload.
THEOREM PlaylistIsComplete == Spec => []PlaylistSongsComplete
<1>1. ASSUME IInv PROVE PlaylistSongsComplete
  <2> SUFFICES ASSUME NEW i \in m
               PROVE  /\ songs[i] # NoRow
                      /\ \E u \in Uploads, e \in Exts :
                           audio[i][e] = Whole(u) /\ meta[i] = Whole(u) /\ thumb[i] = Whole(u)
    BY DEF PlaylistSongsComplete
  <2>1. PICK u \in Uploads : pc[u] = "done" /\ id[u] = i
    BY <1>1 DEF IInv, PlaylistFromUploads
  <2>2. songs[i] # NoRow /\ audio[i][ext[u]] = Whole(u)
    BY <1>1, <2>1 DEF IInv, RowsAreOwn, AudioIsOwn, HasRow, HasId
  <2>3. meta[i] = Whole(u) /\ thumb[i] = Whole(u)
    BY <1>1, <2>1 DEF IInv, MetaIsOwn, ThumbIsOwn, HasId
  <2>4. ext[u] \in Exts
    BY <1>1 DEF IInv, TypeOK
  <2> QED BY <2>1, <2>2, <2>3, <2>4
<1> QED BY <1>1, InitIInv, NextIInv, PTL DEF Spec

\* No step writes to an audio file that is whole, nor to metadata or a thumbnail that an
\* upload has completed.
THEOREM WholeFilesStay == Spec => NeverOverwritten
<1>1. IInv /\ [Next]_vars => [KeepsWhole]_vars
  BY NextIInv DEF vars
<1>2. NeverOverwritten <=> [][KeepsWhole]_vars
  BY PTL DEF NeverOverwritten, KeepsWhole
<1> QED BY <1>1, <1>2, InitIInv, NextIInv, PTL DEF Spec
=============================================================================
