--------------------------- MODULE ServicesProofs ---------------------------
(***************************************************************************)
(* Proofs about the parts that MCServices puts together, each for itself:  *)
(* thumbnails, downloads of songs, mod packs, the playlist page, the logs  *)
(* and deaths of the game, for any numbers of requests, songs, releases    *)
(* and lines.                                                              *)
(***************************************************************************)
EXTENDS WallThumbs, SongDownload, PlaylistPage, MinecraftMods, MinecraftLogs,
        MinecraftDeaths, FiniteSetTheorems, SequenceTheorems, WellFoundedInduction, TLAPS

-----------------------------------------------------------------------------
(***************************************************************************)
(* WallThumbs.                                                             *)
(***************************************************************************)

\* How far a request's task can be, and what it has written.
ViewsMatchTasks ==
  \A v \in Viewers :
    /\ view[v] = "new" => task[v] = "none" /\ written[v] = 0
    /\ view[v] = "streaming" => task[v] \in {"none", "ended"}
    /\ task[v] = "opening" => written[v] = 0
    /\ task[v] = "writing" => written[v] \in Nat /\ written[v] < PiecesOf[source[v]]
    /\ task[v] \in {"writing", "ended"} => thumb.exists

\* The file is of source d alone, and so is every task that writes it; a piece
\* that it lacks will still be written.
ComesFrom(d) ==
  /\ \A v \in Viewers : task[v] = "writing" => source[v] = d
  /\ thumb.pieces \subseteq Picture(d)
  /\ \A p \in 1 .. PiecesOf[d] :
       <<p, d>> \in thumb.pieces \/ \E v \in Viewers : task[v] = "writing" /\ written[v] < p

MissingIsComing == (thumb.exists /\ ~spoilt) => \E d \in Dirs : ComesFrom(d)

\* What is served undisturbed is a whole picture.
ServesWhole(v) ==
  /\ thumb.exists /\ ~spoilt
  /\ \E d \in Dirs : length[v] = PiecesOf[d] /\ thumb.pieces = Picture(d)

StreamsWhole == \A v \in Viewers : (view[v] = "streaming" /\ ~disturbed[v]) => ServesWhole(v)

ThumbInv ==
  /\ ThumbTypeOK
  /\ ViewsMatchTasks
  /\ MissingIsComing
  /\ StreamsWhole
  /\ PartialOnlyIfDisturbed

LEMMA ThumbInitInv == ThumbInit => ThumbInv
<1> SUFFICES ASSUME ThumbInit PROVE ThumbInv
  OBVIOUS
<1> USE ThumbsAssumption DEF ThumbInit
<1>1. ThumbTypeOK
  <2>1. thumb \in [exists : BOOLEAN, pieces : SUBSET (Offsets \X Dirs)]
    OBVIOUS
  <2>2. /\ supported \in BOOLEAN /\ spoilt \in BOOLEAN
        /\ length \in [Viewers -> {0} \union Offsets] /\ disturbed \in [Viewers -> BOOLEAN]
        /\ written \in [Viewers -> {0} \union Offsets]
    OBVIOUS
  <2>3. crashes \in 0 .. MaxCrashes
    OBVIOUS
  <2> QED BY <2>1, <2>2, <2>3 DEF ThumbTypeOK
<1>2. ViewsMatchTasks /\ MissingIsComing /\ StreamsWhole /\ PartialOnlyIfDisturbed
  BY DEF ViewsMatchTasks, MissingIsComing, StreamsWhole, PartialOnlyIfDisturbed
<1> QED BY <1>1, <1>2 DEF ThumbInv

\* At rest no piece is missing, as nobody is left to write it.
LEMMA RestIsWhole == ThumbInv => ThumbWholeAtRest
<1> SUFFICES ASSUME ThumbInv, thumb.exists, Writing = {}, ~spoilt
             PROVE  \E d \in Dirs : thumb.pieces = Picture(d)
  BY DEF ThumbWholeAtRest
<1>1. PICK d \in Dirs : ComesFrom(d)
  BY DEF ThumbInv, MissingIsComing
<1>2. \A p \in 1 .. PiecesOf[d] : <<p, d>> \in thumb.pieces
  BY <1>1 DEF ComesFrom, Writing
<1>3. thumb.pieces = Picture(d)
  BY <1>1, <1>2 DEF ComesFrom, Picture
<1> QED BY <1>3

\* A whole picture is as long as it has pieces.
LEMMA LengthOfWhole ==
  ASSUME NEW d \in Dirs, thumb.pieces = Picture(d), NEW l, l \in {0} \union Offsets, IsLength(l)
  PROVE  l = PiecesOf[d]
<1> DEFINE n == PiecesOf[d]
<1>1. n \in Nat \ {0}
  BY ThumbsAssumption
<1>2. l \in Nat
  BY ThumbsAssumption DEF Offsets
<1> HIDE DEF n
<1>3. thumb.pieces = (1 .. n) \X {d}
  BY DEF n, Picture
<1>4. <<n, d>> \in thumb.pieces
  BY <1>1, <1>3
<1>5. n <= l
  <2>1. <<n, d>>[1] <= l
    BY <1>4 DEF IsLength
  <2> QED BY <2>1
<1>6. PICK q \in thumb.pieces : q[1] = l
  BY <1>1, <1>2, <1>5 DEF IsLength
<1>7. l \in 1 .. n
  BY <1>3, <1>6
<1>8. l = n
  BY <1>1, <1>2, <1>5, <1>7
<1> QED BY <1>8 DEF n

\* A request serves the file, which no task of its own writes.
LEMMA NamedFileInv ==
  ASSUME ThumbInv, NEW v \in Viewers, NamedFile(v),
         \/ view[v] = "new" /\ thumb.exists
         \/ view[v] = "making" /\ task[v] = "ended",
         UNCHANGED <<supported, source, thumb, task, written, crashes, spoilt>>
  PROVE  ThumbInv'
<1> USE ThumbsAssumption DEF ThumbInv
<1>0. PICK l \in {0} \union Offsets :
        /\ IsLength(l) /\ length' = [length EXCEPT ![v] = l]
        /\ view' = [view EXCEPT ![v] = "streaming"]
        /\ disturbed' = [disturbed EXCEPT ![v] = spoilt \/ Writing \ {v} # {}]
  BY DEF NamedFile
<1>1. ThumbTypeOK'
  BY <1>0 DEF ThumbTypeOK
<1>2. ViewsMatchTasks' /\ MissingIsComing'
  BY <1>0 DEF ThumbTypeOK, ViewsMatchTasks, MissingIsComing, ComesFrom
<1>3. StreamsWhole'
  <2> SUFFICES ASSUME NEW w \in Viewers, view'[w] = "streaming", ~disturbed'[w]
               PROVE  ServesWhole(w)'
    BY DEF StreamsWhole
  <2>1. CASE w = v
    <3>1. ~spoilt /\ Writing \ {v} = {}
      BY <1>0, <2>1 DEF ThumbTypeOK
    <3>2. Writing = {} /\ thumb.exists
      BY <3>1 DEF Writing, ViewsMatchTasks
    <3>3. PICK d \in Dirs : thumb.pieces = Picture(d)
      BY <3>1, <3>2, RestIsWhole DEF ThumbWholeAtRest
    <3>4. l = PiecesOf[d]
      BY <1>0, <3>3, LengthOfWhole
    <3>5. length'[v] = l
      BY <1>0 DEF ThumbTypeOK
    <3> QED BY <2>1, <3>1, <3>2, <3>3, <3>4, <3>5 DEF ServesWhole
  <2>2. CASE w # v
    <3>1. view[w] = "streaming" /\ ~disturbed[w] /\ length'[w] = length[w]
      BY <1>0, <2>2 DEF ThumbTypeOK
    <3>2. ServesWhole(w)
      BY <3>1 DEF StreamsWhole
    <3> QED BY <3>1, <3>2 DEF ServesWhole
  <2> QED BY <2>1, <2>2
<1>4. PartialOnlyIfDisturbed'
  BY <1>0 DEF ThumbTypeOK, PartialOnlyIfDisturbed
<1> HIDE DEF ThumbInv
<1> QED BY <1>1, <1>2, <1>3, <1>4 DEF ThumbInv

\* Without a file the request starts a task.
LEMMA ThumbStepInv ==
  ASSUME ThumbInv, NEW v \in Viewers, Thumb(v)
  PROVE  ThumbInv'
<1>1. CASE thumb.exists
  BY <1>1, NamedFileInv DEF Thumb
<1>2. CASE ~thumb.exists
  <2> USE <1>2, ThumbsAssumption DEF Thumb, ThumbInv
  <2>1. ThumbTypeOK'
    BY DEF ThumbTypeOK
  <2>2. ViewsMatchTasks' /\ MissingIsComing'
    BY DEF ThumbTypeOK, ViewsMatchTasks, MissingIsComing
  <2>3. StreamsWhole' /\ PartialOnlyIfDisturbed'
    BY DEF ThumbTypeOK, StreamsWhole, ServesWhole, PartialOnlyIfDisturbed
  <2> QED BY <2>1, <2>2, <2>3
<1> QED BY <1>1, <1>2

\* A task truncates the file: all of it is missing, and the task will write it.
LEMMA CompressInv ==
  ASSUME ThumbInv, NEW v \in Viewers, Compress(v)
  PROVE  ThumbInv'
<1> USE ThumbsAssumption DEF ThumbInv
<1>1. CASE task' = [task EXCEPT ![v] = "failed"] /\ UNCHANGED <<thumb, spoilt, disturbed>>
  <2>1. ThumbTypeOK' /\ ViewsMatchTasks' /\ PartialOnlyIfDisturbed'
    BY <1>1 DEF Compress, ThumbTypeOK, ViewsMatchTasks, PartialOnlyIfDisturbed
  <2>2. \A d : ComesFrom(d) => ComesFrom(d)'
    BY <1>1 DEF Compress, ThumbTypeOK, ComesFrom, Picture
  <2>3. MissingIsComing'
    BY <1>1, <2>2 DEF MissingIsComing
  <2>4. StreamsWhole'
    BY <1>1 DEF Compress, StreamsWhole, ServesWhole, Picture
  <2> QED BY <2>1, <2>3, <2>4
<1>2. CASE /\ task' = [task EXCEPT ![v] = "writing"]
           /\ thumb' = [exists |-> TRUE, pieces |-> {}]
           /\ spoilt' = (Writing # {} /\ (spoilt \/ \E w \in Writing : source[w] # source[v]))
           /\ Disturb(v)
  <2>1. ThumbTypeOK'
    BY <1>2 DEF Compress, Disturb, ThumbTypeOK
  <2>2. ViewsMatchTasks'
    <3>1. source[v] \in Dirs /\ written[v] = 0
      BY DEF Compress, ThumbTypeOK, ViewsMatchTasks
    <3>2. written[v] \in Nat /\ written[v] < PiecesOf[source[v]]
      BY <3>1
    <3> QED BY <1>2, <3>2 DEF Compress, ThumbTypeOK, ViewsMatchTasks
  <2>3. MissingIsComing'
    <3> SUFFICES ASSUME ~spoilt' PROVE \E d \in Dirs : ComesFrom(d)'
      BY DEF MissingIsComing
    <3>1. source[v] \in Dirs /\ written[v] = 0
      BY DEF Compress, ThumbTypeOK, ViewsMatchTasks
    <3>2. \A w \in Viewers : task[w] = "writing" => source[w] = source[v]
      BY <1>2 DEF Writing
    <3>3. UNCHANGED <<source, written>>
      BY DEF Compress
    <3>4. \A w \in Viewers : task'[w] = "writing" => source'[w] = source[v]
      BY <1>2, <3>2, <3>3 DEF ThumbTypeOK
    <3>5. task'[v] = "writing" /\ written'[v] = 0 /\ thumb'.pieces = {}
      BY <1>2, <3>1, <3>3 DEF ThumbTypeOK
    <3>6. PICK d \in Dirs : d = source[v]
      BY <3>1
    <3>7. \A p \in 1 .. PiecesOf[d] : 0 < p
      BY <3>1, <3>6
    <3>8. \A p \in 1 .. PiecesOf[d] :
            \E w \in Viewers : task'[w] = "writing" /\ written'[w] < p
      BY <3>5, <3>7
    <3>9. ComesFrom(d)'
      BY <3>4, <3>5, <3>6, <3>8 DEF ComesFrom
    <3> QED BY <3>9
  <2>4. StreamsWhole'
    BY <1>2 DEF Compress, Disturb, StreamsWhole, ViewsMatchTasks, ThumbTypeOK
  <2>5. PartialOnlyIfDisturbed'
    BY <1>2 DEF Compress, Disturb, PartialOnlyIfDisturbed
  <2> QED BY <2>1, <2>2, <2>3, <2>4, <2>5
<1> QED BY <1>1, <1>2 DEF Compress

\* A task writes a piece, the next of those that were its to write, or fails.
LEMMA EncodeInv ==
  ASSUME ThumbInv, NEW v \in Viewers, Encode(v)
  PROVE  ThumbInv'
<1> USE ThumbsAssumption DEF ThumbInv
<1> DEFINE p == written[v] + 1
           n == PiecesOf[source[v]]
<1>0. /\ UNCHANGED <<supported, source, view, length, crashes>> /\ Disturb(v)
      /\ task[v] = "writing"
      /\ \/ /\ thumb' = [thumb EXCEPT !.pieces = {q \in @ : q[1] # p} \cup {<<p, source[v]>>}]
            /\ written' = [written EXCEPT ![v] = p]
            /\ task' = [task EXCEPT ![v] = IF p = n THEN "ended" ELSE "writing"]
            /\ UNCHANGED spoilt
         \/ /\ task' = [task EXCEPT ![v] = "failed"]
            /\ spoilt' = TRUE
            /\ UNCHANGED <<thumb, written>>
  BY DEF Encode
<1>1. source[v] \in Dirs /\ n \in Nat \ {0} /\ p \in 1 .. n /\ p \in Offsets /\ p \in Nat
  <2>1. source[v] \in Dirs /\ n \in Nat \ {0}
    BY DEF ThumbTypeOK
  <2>2. p \in 1 .. n
    BY <1>0, <2>1 DEF ViewsMatchTasks
  <2> QED BY <2>1, <2>2 DEF Offsets
<1> HIDE DEF p, n
<1>2. ThumbTypeOK'
  <2>1. thumb' \in [exists : BOOLEAN, pieces : SUBSET (Offsets \X Dirs)]
    BY <1>0, <1>1 DEF ThumbTypeOK
  <2>2. disturbed' \in [Viewers -> BOOLEAN]
    BY <1>0 DEF Disturb, ThumbTypeOK
  <2>3. task' \in [Viewers -> {"none", "opening", "writing", "ended", "failed"}]
    BY <1>0 DEF ThumbTypeOK
  <2>4. written' \in [Viewers -> {0} \union Offsets]
    BY <1>0, <1>1 DEF ThumbTypeOK
  <2>5. spoilt' \in BOOLEAN
    BY <1>0 DEF ThumbTypeOK
  <2> QED BY <1>0, <2>1, <2>2, <2>3, <2>4, <2>5 DEF ThumbTypeOK
<1>3. ViewsMatchTasks'
  <2>1. thumb'.exists = thumb.exists
    BY <1>0 DEF ThumbTypeOK
  <2>2. ASSUME NEW w \in Viewers, w # v
        PROVE  /\ view'[w] = view[w] /\ task'[w] = task[w] /\ written'[w] = written[w]
               /\ source'[w] = source[w]
    BY <1>0, <2>2 DEF ThumbTypeOK
  <2>3. task'[v] = "writing" => written'[v] = p /\ p # n
    BY <1>0 DEF ThumbTypeOK
  <2>4. p # n => p < n
    BY <1>1
  <2>5. task'[v] \in {"writing", "ended", "failed"} /\ view'[v] # "new" /\ view'[v] # "streaming"
    BY <1>0 DEF ViewsMatchTasks, ThumbTypeOK
  <2>6. thumb.exists /\ source'[v] = source[v]
    BY <1>0 DEF ViewsMatchTasks
  <2> QED BY <1>1, <2>1, <2>2, <2>3, <2>4, <2>5, <2>6 DEF ViewsMatchTasks, n
<1>4. MissingIsComing'
  <2> SUFFICES ASSUME thumb'.exists, ~spoilt' PROVE \E d \in Dirs : ComesFrom(d)'
    BY DEF MissingIsComing
  <2>1. /\ ~spoilt /\ thumb.exists
        /\ thumb' = [thumb EXCEPT !.pieces = {q \in @ : q[1] # p} \cup {<<p, source[v]>>}]
        /\ written' = [written EXCEPT ![v] = p]
        /\ task' = [task EXCEPT ![v] = IF p = n THEN "ended" ELSE "writing"]
    BY <1>0 DEF ViewsMatchTasks
  <2>2. PICK d \in Dirs : ComesFrom(d)
    BY <2>1 DEF MissingIsComing
  <2>3. source[v] = d
    BY <1>0, <2>2 DEF ComesFrom
  <2>4. thumb'.pieces = {q \in thumb.pieces : q[1] # p} \cup {<<p, d>>}
    BY <2>1, <2>3 DEF ThumbTypeOK
  <2>5. thumb'.pieces \subseteq Picture(d)
    BY <1>1, <2>2, <2>3, <2>4 DEF ComesFrom, Picture, n
  <2>6. \A w \in Viewers : task'[w] = "writing" => source'[w] = d
    BY <1>0, <2>1, <2>2, <2>3 DEF ThumbTypeOK, ComesFrom
  <2>7. ASSUME NEW x \in 1 .. PiecesOf[d], <<x, d>> \notin thumb'.pieces
        PROVE  \E w \in Viewers : task'[w] = "writing" /\ written'[w] < x
    <3>1. x # p /\ <<x, d>> \notin thumb.pieces
      BY <2>4, <2>7
    <3>2. PICK w \in Viewers : task[w] = "writing" /\ written[w] < x
      BY <2>2, <3>1 DEF ComesFrom
    <3>3. CASE w # v
      BY <2>1, <3>2, <3>3 DEF ThumbTypeOK
    <3>4. CASE w = v
      <4>1. n = PiecesOf[d]
        BY <2>3 DEF n
      <4>2. written[v] \in Nat
        BY <1>0 DEF ViewsMatchTasks
      <4>3. p < x /\ p # n
        BY <1>1, <3>1, <3>2, <3>4, <4>1, <4>2 DEF p
      <4> QED BY <2>1, <4>3 DEF ThumbTypeOK
    <3> QED BY <3>3, <3>4
  <2> QED BY <2>5, <2>6, <2>7 DEF ComesFrom, Picture
<1>5. StreamsWhole'
  <2>1. \A w \in Viewers : view'[w] = "streaming" => disturbed'[w]
    BY <1>0 DEF Disturb, ViewsMatchTasks
  <2> QED BY <2>1 DEF StreamsWhole
<1>6. PartialOnlyIfDisturbed'
  BY <1>0 DEF Disturb, PartialOnlyIfDisturbed
<1> QED BY <1>2, <1>3, <1>4, <1>5, <1>6

\* The other steps leave the file alone.
LEMMA OtherThumbStepsInv ==
  ASSUME ThumbInv,
         \/ \E v \in Viewers : CreateThumb(v) \/ Stream(v) \/ HangUp(v)
         \/ Crash \/ UNCHANGED thumbVars
  PROVE  ThumbInv'
<1> USE ThumbsAssumption DEF ThumbInv
<1>0. ASSUME UNCHANGED <<source, thumb, task, written, spoilt>>
      PROVE  MissingIsComing'
  <2>1. \A d : ComesFrom(d) => ComesFrom(d)'
    BY <1>0 DEF ComesFrom, Picture
  <2> QED BY <1>0, <2>1 DEF MissingIsComing
<1>1. ASSUME NEW v \in Viewers, CreateThumb(v) PROVE ThumbInv'
  <2>1. CASE task[v] = "ended"
    BY <1>1, <2>1, NamedFileInv DEF CreateThumb
  <2>2. CASE task[v] = "failed"
    <3>1. ThumbTypeOK' /\ ViewsMatchTasks'
      BY <1>1, <2>2 DEF CreateThumb, ThumbTypeOK, ViewsMatchTasks
    <3>2. MissingIsComing'
      BY <1>0, <1>1 DEF CreateThumb
    <3>3. StreamsWhole' /\ PartialOnlyIfDisturbed'
      BY <1>1, <2>2 DEF CreateThumb, ThumbTypeOK, StreamsWhole, ServesWhole, Picture,
                        PartialOnlyIfDisturbed
    <3> QED BY <3>1, <3>2, <3>3
  <2> QED BY <1>1, <2>1, <2>2 DEF CreateThumb
<1>2. ASSUME NEW v \in Viewers, Stream(v) PROVE ThumbInv'
  <2>0. /\ view[v] = "streaming"
        /\ UNCHANGED <<supported, source, thumb, length, task, written, crashes, spoilt, disturbed>>
        /\ \E r \in {"whole", "partial"} : view' = [view EXCEPT ![v] = r]
    BY <1>2 DEF Stream
  <2>1. ThumbTypeOK' /\ ViewsMatchTasks'
    BY <2>0 DEF ThumbTypeOK, ViewsMatchTasks
  <2>2. MissingIsComing'
    BY <1>0, <2>0
  <2>3. StreamsWhole'
    BY <2>0 DEF ThumbTypeOK, StreamsWhole, ServesWhole, Picture
  <2>4. ASSUME view'[v] = "partial" PROVE disturbed[v]
    <3> SUFFICES ASSUME ~disturbed[v] PROVE FALSE
      OBVIOUS
    <3>1. PICK d \in Dirs : length[v] = PiecesOf[d] /\ thumb.pieces = Picture(d)
      BY <2>0 DEF StreamsWhole, ServesWhole
    <3>2. {q \in thumb.pieces : q[1] <= length[v]} = Picture(d)
      BY <3>1 DEF Picture
    <3>3. view'[v] = "whole"
      BY <1>2, <3>1, <3>2 DEF Stream, ThumbTypeOK
    <3> QED BY <2>4, <3>3
  <2>5. PartialOnlyIfDisturbed'
    BY <2>0, <2>4 DEF ThumbTypeOK, PartialOnlyIfDisturbed
  <2> QED BY <2>1, <2>2, <2>3, <2>5
<1>3. ASSUME NEW v \in Viewers, HangUp(v) PROVE ThumbInv'
  <2>1. ThumbTypeOK' /\ ViewsMatchTasks'
    BY <1>3 DEF HangUp, ThumbTypeOK, ViewsMatchTasks
  <2>2. MissingIsComing'
    BY <1>0, <1>3 DEF HangUp
  <2>3. StreamsWhole' /\ PartialOnlyIfDisturbed'
    BY <1>3 DEF HangUp, ThumbTypeOK, StreamsWhole, ServesWhole, Picture, PartialOnlyIfDisturbed
  <2> QED BY <2>1, <2>2, <2>3
<1>4. CASE Crash
  <2>1. ThumbTypeOK' /\ ViewsMatchTasks'
    BY <1>4 DEF Crash, ThumbTypeOK, ViewsMatchTasks
  <2>2. \A d : Writing = {} /\ ComesFrom(d) => ComesFrom(d)'
    BY <1>4 DEF Crash, Writing, ComesFrom, Picture
  <2>3. MissingIsComing'
    BY <1>4, <2>2 DEF Crash, MissingIsComing
  <2>4. StreamsWhole' /\ PartialOnlyIfDisturbed'
    BY <1>4 DEF Crash, StreamsWhole, PartialOnlyIfDisturbed
  <2> QED BY <2>1, <2>3, <2>4
<1>5. CASE UNCHANGED thumbVars
  <2>1. MissingIsComing'
    BY <1>0, <1>5 DEF thumbVars
  <2>2. StreamsWhole'
    BY <1>5 DEF thumbVars, StreamsWhole, ServesWhole, Picture
  <2> QED BY <1>5, <2>1, <2>2 DEF thumbVars, ThumbTypeOK, ViewsMatchTasks, PartialOnlyIfDisturbed
<1> QED BY <1>1, <1>2, <1>3, <1>4, <1>5

THEOREM ThumbInvariance == ThumbSpec => []ThumbInv
<1>1. ThumbInv /\ [ThumbNext]_thumbVars => ThumbInv'
  BY ThumbStepInv, CompressInv, EncodeInv, OtherThumbStepsInv DEF ThumbNext
<1> QED BY <1>1, ThumbInitInv, PTL DEF ThumbSpec

\* However many requests, of whichever sources, make one thumbnail at a time, and
\* wherever each is, it is one whole picture at last unless one failed at it or
\* two wrote it from different sources.  (create_thumb)
THEOREM ThumbsEndWhole == ThumbSpec => []ThumbWholeAtRest
BY ThumbInvariance, RestIsWhole, PTL

\* Only a concurrent task, or a file that tasks have spoilt, lets a request have
\* anything but a whole picture.  (thumb)
THEOREM PartialDisturbed == ThumbSpec => []PartialOnlyIfDisturbed
BY ThumbInvariance, PTL DEF ThumbInv

-----------------------------------------------------------------------------
(***************************************************************************)
(* SongDownload.                                                           *)
(***************************************************************************)

BegunJobs == [step : Begun \union {"removing", "done", "failed"}, local : BOOLEAN,
              made : SUBSET Files, path : Files]

DownloadTypeOK ==
  /\ dir \in SUBSET Files
  /\ tmp \in SUBSET (Jobs \X {"thumb", "audio", "mka"})
  /\ job \in [Jobs -> BegunJobs \union {NotBegun}]

\* What is removed was probed and uploaded, what ffmpeg writes is renamed, and only
\* yt-dlp makes songs.
JobsTidy ==
  \A j \in Jobs :
    /\ job[j].step \in {"illustrating", "packing", "renaming", "uploading", "dressing",
                        "removing"} => IsSong(job[j].path)
    /\ job[j].step \in {"dressing", "removing"} => job[j].path \in uploaded
    /\ job[j].step = "removing" => ~job[j].local
    /\ <<j, "mka">> \in tmp => job[j].step \in {"renaming", "failed"}
    /\ job[j].step \in {"removing", "done"} => \A file \in tmp : file[1] # j
    /\ job[j].step = "downloading" => job[j].made = {} /\ ~job[j].local
    /\ job[j] # NotBegun /\ job[j].local => job[j].made = {}

\* Job j answers for file f: it made it, and has not removed it.
AnswersFor(j, f) ==
  /\ job[j] # NotBegun
  /\ f \in job[j].made
  /\ job[j].step = "done" => job[j].path # f

Accounted == \A f \in dir \ own : IsSong(f) => \E j \in Jobs : AnswersFor(j, f)

DownloadInv == DownloadTypeOK /\ JobsTidy /\ Accounted

\* What a step of one job does to the jobs.
LEMMA StepMoves ==
  ASSUME DownloadTypeOK, NEW j \in Jobs, NEW from, NEW to, from # "new",
         to \in Begun \union {"removing", "done", "failed"},
         Step(j, from, to)
  PROVE  /\ job' \in [Jobs -> BegunJobs \union {NotBegun}]
         /\ job[j] \in BegunJobs /\ job'[j] \in BegunJobs
         /\ job'[j].step = to /\ job'[j].path = job[j].path /\ job'[j].local = job[j].local
         /\ job'[j].made = job[j].made
         /\ \A i \in Jobs \ {j} : job'[i] = job[i]
<1>1. job[j] \in BegunJobs
  BY DEF DownloadTypeOK, Step, NotBegun
<1>2. job' = [job EXCEPT ![j] = [job[j] EXCEPT !.step = to]]
  BY DEF Step
<1>3. [job[j] EXCEPT !.step = to] \in BegunJobs
  BY <1>1 DEF BegunJobs
<1> QED BY <1>1, <1>2, <1>3 DEF DownloadTypeOK, BegunJobs

\* A job that has begun is not one that has not.
LEMMA BegunIsBegun == NotBegun \notin BegunJobs
BY DEF NotBegun, BegunJobs

\* A step that adds no file leaves each accounted for, unless its job is done and
\* leaves its own.
LEMMA StillAccounted ==
  ASSUME Accounted, NEW j \in Jobs, dir' \subseteq dir, own' = own,
         \A i \in Jobs \ {j} : job'[i] = job[i],
         job[j] # NotBegun =>
           /\ job'[j] # NotBegun
           /\ job[j].made \subseteq job'[j].made
           /\ job'[j].step = "done" => \A f \in job[j].made \cap dir' : job'[j].path # f
  PROVE  Accounted'
<1> SUFFICES ASSUME NEW f \in dir' \ own', IsSong(f)
             PROVE  \E i \in Jobs : AnswersFor(i, f)'
  BY DEF Accounted
<1>1. PICK i \in Jobs : AnswersFor(i, f)
  BY DEF Accounted
<1>2. AnswersFor(i, f)'
  BY <1>1 DEF AnswersFor
<1> QED BY <1>2

LEMMA AddSongInv ==
  ASSUME DownloadInv, NEW j \in Jobs, AddSong(j)
  PROVE  DownloadInv'
<1> USE DEF DownloadInv, AddSong
<1>1. /\ UNCHANGED <<own, dir, tmp, uploaded>>
      /\ \E new \in BegunJobs : /\ job' = [job EXCEPT ![j] = new]
                                /\ new.step \in {"downloading", "probing"}
                                /\ new.made = {} /\ (new.step = "downloading" => ~new.local)
  <2>1. CASE \E f \in dir :
               job' = [job EXCEPT ![j] = [step |-> "probing", local |-> TRUE,
                                          made |-> {}, path |-> f]]
    <3>1. PICK f \in dir :
             job' = [job EXCEPT ![j] = [step |-> "probing", local |-> TRUE,
                                        made |-> {}, path |-> f]]
      BY <2>1
    <3>2. [step |-> "probing", local |-> TRUE, made |-> {}, path |-> f] \in BegunJobs
      BY DEF DownloadTypeOK, BegunJobs, Begun
    <3> QED BY <3>1, <3>2
  <2>2. CASE \E t \in Titles :
               job' = [job EXCEPT ![j] = [step |-> "downloading", local |-> FALSE, made |-> {},
                                          path |-> [stem |-> t, ext |-> Printed]]]
    <3>1. PICK t \in Titles :
             job' = [job EXCEPT ![j] = [step |-> "downloading", local |-> FALSE, made |-> {},
                                        path |-> [stem |-> t, ext |-> Printed]]]
      BY <2>2
    <3>2. [stem |-> t, ext |-> Printed] \in Files
      BY DEF Files, Exts
    <3>3. [step |-> "downloading", local |-> FALSE, made |-> {},
           path |-> [stem |-> t, ext |-> Printed]] \in BegunJobs
      BY <3>2 DEF BegunJobs, Begun
    <3> QED BY <3>1, <3>3
  <2> QED BY <2>1, <2>2
<1>2. <<j, "mka">> \notin tmp
  BY DEF JobsTidy, NotBegun
<1>3. DownloadTypeOK'
  BY <1>1 DEF DownloadTypeOK
<1>4. JobsTidy'
  BY <1>1, <1>2 DEF DownloadTypeOK, JobsTidy
<1>5. Accounted'
  BY <1>1, StillAccounted DEF DownloadTypeOK
<1> QED BY <1>3, <1>4, <1>5

\* The steps before the upload leave what was uploaded, and name no other file
\* than dl_song finds.
LEMMA FindFileInv ==
  ASSUME DownloadInv, NEW j \in Jobs, FindFile(j)
  PROVE  DownloadInv'
<1> USE DEF DownloadInv
<1>1. job[j].step = "finding" /\ job[j] \in BegunJobs
  BY DEF FindFile, DownloadTypeOK, NotBegun
<1>2. PICK f \in Files : job' = [job EXCEPT ![j].step = "probing", ![j].path = f]
  BY <1>1 DEF FindFile, DownloadTypeOK, BegunJobs
<1>3. /\ job'[j] \in BegunJobs /\ job'[j].step = "probing"
      /\ job'[j].made = job[j].made /\ job'[j].local = job[j].local
      /\ job' \in [Jobs -> BegunJobs \union {NotBegun}]
      /\ \A i \in Jobs \ {j} : job'[i] = job[i]
      /\ UNCHANGED <<own, dir, tmp, uploaded>>
  BY <1>1, <1>2 DEF FindFile, DownloadTypeOK, BegunJobs, Begun
<1>4. DownloadTypeOK'
  BY <1>3 DEF DownloadTypeOK
<1>5. JobsTidy'
  BY <1>1, <1>3, BegunIsBegun DEF JobsTidy
<1>6. Accounted'
  BY <1>1, <1>3, BegunIsBegun, StillAccounted
<1> QED BY <1>4, <1>5, <1>6

\* yt-dlp makes files, and its job answers for them.
LEMMA DlSongInv ==
  ASSUME DownloadInv, NEW j \in Jobs, DlSong(j)
  PROVE  DownloadInv'
<1> USE DEF DownloadInv
<1>0. job[j].step = "downloading"
  BY DEF DlSong
<1>1. job[j].step = "downloading" /\ job[j] \in BegunJobs /\ job[j].made = {} /\ ~job[j].local
  <2>1. job[j] # NotBegun
    BY <1>0 DEF NotBegun
  <2> QED BY <1>0, <2>1 DEF DownloadTypeOK, JobsTidy
<1>2. PICK fs \in SUBSET Files :
        /\ dir' = dir \union fs
        /\ job' = [job EXCEPT ![j].step = "finding", ![j].made = fs]
  <2>1. job[j].path \in Files
    BY <1>1 DEF BegunJobs
  <2>2. \A e \in Exts : [job[j].path EXCEPT !.ext = e] \in Files
    BY <2>1 DEF Files
  <2>3. Downloads(job[j].path) \subseteq SUBSET Files
    BY <2>2 DEF Downloads
  <2>4. \E fs \in IF job[j].path \in dir THEN {{}} ELSE Downloads(job[j].path) :
          /\ dir' = dir \union fs
          /\ job' = [job EXCEPT ![j].step = "finding", ![j].made = fs]
    BY DEF DlSong
  <2> QED BY <2>3, <2>4
<1>3. /\ job'[j] \in BegunJobs /\ job'[j].step = "finding"
      /\ job'[j].made = fs /\ job'[j].local = job[j].local
      /\ job' \in [Jobs -> BegunJobs \union {NotBegun}]
      /\ \A i \in Jobs \ {j} : job'[i] = job[i]
      /\ UNCHANGED <<own, tmp, uploaded>>
  BY <1>1, <1>2 DEF DlSong, DownloadTypeOK, BegunJobs, Begun
<1>4. DownloadTypeOK'
  BY <1>2, <1>3 DEF DownloadTypeOK
<1>5. JobsTidy'
  BY <1>1, <1>3, BegunIsBegun DEF JobsTidy
<1>6. Accounted'
  <2> SUFFICES ASSUME NEW f \in dir' \ own', IsSong(f)
               PROVE  \E i \in Jobs : AnswersFor(i, f)'
    BY DEF Accounted
  <2>1. CASE f \in fs
    BY <1>3, <2>1, BegunIsBegun DEF AnswersFor
  <2>2. CASE f \notin fs
    <3>1. PICK i \in Jobs : AnswersFor(i, f)
      BY <1>2, <1>3, <2>2 DEF Accounted
    <3>2. i # j
      BY <1>1, <3>1 DEF AnswersFor
    <3>3. AnswersFor(i, f)'
      BY <1>3, <3>1, <3>2 DEF AnswersFor
    <3> QED BY <3>3
  <2> QED BY <2>1, <2>2
<1> QED BY <1>4, <1>5, <1>6

\* A step that makes no song and does not end the job keeps the invariant, when it
\* keeps the job tidy.
LEMMA StepAccounted ==
  ASSUME DownloadInv, NEW j \in Jobs, NEW from, NEW to, from # "new",
         to \in Begun \union {"removing", "done", "failed"},
         Step(j, from, to), dir' \subseteq dir, own' = own,
         to = "done" => \A f \in job[j].made \cap dir' : job[j].path # f
  PROVE  Accounted'
<1>1. /\ job[j] # NotBegun /\ job'[j] # NotBegun
      /\ job'[j].made = job[j].made /\ job'[j].step = to /\ job'[j].path = job[j].path
      /\ \A i \in Jobs \ {j} : job'[i] = job[i]
  BY StepMoves, BegunIsBegun DEF DownloadInv
<1> QED BY <1>1, StillAccounted DEF DownloadInv

LEMMA MakingInv ==
  ASSUME DownloadInv, NEW j \in Jobs,
         AudioDuration(j) \/ ExtractThumbnail(j) \/ ExtractAudio(j) \/ Rename(j)
  PROVE  DownloadInv'
<1>0. Accounted'
  <2>1. PICK from, to : /\ Step(j, from, to) /\ from # "new" /\ to # "done" /\ to \in Begun
    BY DEF AudioDuration, ExtractThumbnail, ExtractAudio, Rename, Step, Begun
  <2>2. UNCHANGED <<own, dir>>
    BY DEF AudioDuration, ExtractThumbnail, ExtractAudio, Rename
  <2> QED BY <2>1, <2>2, StepAccounted
<1> USE DEF DownloadInv
<1>2. CASE AudioDuration(j)
  <2>1. Step(j, "probing", "illustrating") /\ job[j].step = "probing" /\ IsSong(job[j].path)
        /\ UNCHANGED <<dir, tmp, uploaded>>
    BY <1>2 DEF AudioDuration, Step
  <2> QED BY <1>0, <2>1, StepMoves, BegunIsBegun DEF DownloadTypeOK, JobsTidy, Begun
<1>3. CASE ExtractThumbnail(j)
  <2>1. Step(j, "illustrating", "packing") /\ job[j].step = "illustrating"
        /\ UNCHANGED <<dir, uploaded>>
    BY <1>3 DEF ExtractThumbnail, Step
  <2>2. CASE UNCHANGED tmp
    BY <1>0, <2>1, <2>2, StepMoves, BegunIsBegun DEF DownloadTypeOK, JobsTidy, Begun
  <2>3. CASE tmp' = tmp \union {<<j, "thumb">>}
    BY <1>0, <2>1, <2>3, StepMoves, BegunIsBegun DEF DownloadTypeOK, JobsTidy, Begun
  <2> QED BY <1>3, <2>2, <2>3 DEF ExtractThumbnail
<1>4. CASE ExtractAudio(j)
  <2>1. Step(j, "packing", "renaming") /\ job[j].step = "packing"
        /\ UNCHANGED <<dir, uploaded>>
        /\ tmp' = tmp \union {<<j, "audio">>, <<j, "mka">>}
    BY <1>4 DEF ExtractAudio, Step
  <2> QED BY <1>0, <2>1, StepMoves, BegunIsBegun DEF DownloadTypeOK, JobsTidy, Begun
<1>5. CASE Rename(j)
  <2>1. Step(j, "renaming", "uploading") /\ job[j].step = "renaming"
        /\ UNCHANGED <<dir, uploaded>>
        /\ tmp' = tmp \ {<<j, "mka">>}
    BY <1>5 DEF Rename, Step
  <2> QED BY <1>0, <2>1, StepMoves, BegunIsBegun DEF DownloadTypeOK, JobsTidy, Begun
<1> QED BY <1>2, <1>3, <1>4, <1>5

LEMMA EndingInv ==
  ASSUME DownloadInv, NEW j \in Jobs,
         UploadAudio(j) \/ UploadThumb(j) \/ RemoveFile(j) \/ Fail(j)
  PROVE  DownloadInv'
<1> USE DEF DownloadInv
<1>1. CASE UploadAudio(j)
  <2>1. Step(j, "uploading", "dressing") /\ job[j].step = "uploading"
        /\ uploaded' = uploaded \union {job[j].path}
        /\ UNCHANGED <<own, dir, tmp>>
    BY <1>1 DEF UploadAudio, Step
  <2>2. Accounted'
    <3> HIDE DEF DownloadInv
    <3> QED BY <2>1, StepAccounted DEF Begun
  <2> QED BY <2>1, <2>2, StepMoves, BegunIsBegun DEF DownloadTypeOK, JobsTidy, Begun
<1>2. CASE UploadThumb(j)
  <2> DEFINE to == IF job[j].local THEN "done" ELSE "removing"
  <2>1. Step(j, "dressing", to) /\ job[j].step = "dressing" /\ UNCHANGED <<own, dir, uploaded>>
        /\ tmp' = tmp \ {<<j, "thumb">>, <<j, "audio">>}
    BY <1>2 DEF UploadThumb, Step, Dropped
  <2>2. <<j, "mka">> \notin tmp
    BY <2>1 DEF JobsTidy
  <2>3. \A file \in tmp' : file[1] # j
    BY <2>1, <2>2 DEF DownloadTypeOK
  <2>4. to = "done" => job[j].made = {}
    <3>1. job[j] # NotBegun
      BY <2>1 DEF NotBegun
    <3> QED BY <3>1 DEF JobsTidy
  <2>5. to \in Begun \union {"removing", "done", "failed"}
    OBVIOUS
  <2>6. Accounted'
    <3> HIDE DEF DownloadInv, to
    <3> QED BY <2>1, <2>4, <2>5, StepAccounted
  <2> QED BY <2>1, <2>3, <2>6, StepMoves, BegunIsBegun DEF DownloadTypeOK, JobsTidy, Begun
<1>3. CASE RemoveFile(j)
  <2> DEFINE to == IF job[j].path \in dir THEN "done" ELSE "failed"
  <2>1. Step(j, "removing", to) /\ job[j].step = "removing" /\ UNCHANGED <<own, tmp, uploaded>>
        /\ dir' = dir \ {job[j].path}
    BY <1>3 DEF RemoveFile, Step
  <2>2. to \in Begun \union {"removing", "done", "failed"}
    OBVIOUS
  <2>3. Accounted'
    <3> HIDE DEF DownloadInv, to
    <3> QED BY <2>1, <2>2, StepAccounted
  <2> QED BY <2>1, <2>3, StepMoves, BegunIsBegun DEF DownloadTypeOK, JobsTidy, Begun
<1>4. CASE Fail(j)
  <2>1. Step(j, job[j].step, "failed") /\ job[j].step # "new"
        /\ UNCHANGED <<own, dir, uploaded>>
        /\ tmp' = tmp \ {<<j, "thumb">>, <<j, "audio">>}
    BY <1>4 DEF Fail, Step, Dropped, Begun
  <2>2. Accounted'
    <3> HIDE DEF DownloadInv
    <3> QED BY <2>1, StepAccounted
  <2> QED BY <2>1, <2>2, StepMoves, BegunIsBegun DEF DownloadTypeOK, JobsTidy, Begun
<1> QED BY <1>1, <1>2, <1>3, <1>4

THEOREM DownloadInvariance == DownloadSpec => []DownloadInv
<1>1. DownloadInit => DownloadInv
  BY DEF DownloadInit, DownloadInv, DownloadTypeOK, JobsTidy, Accounted, NotBegun, Files, Exts
<1>2. DownloadInv /\ [DownloadNext]_downloadVars => DownloadInv'
  <2>1. DownloadInv /\ UNCHANGED downloadVars => DownloadInv'
    BY DEF DownloadInv, DownloadTypeOK, JobsTidy, Accounted, AnswersFor, downloadVars
  <2> QED BY <2>1, AddSongInv, FindFileInv, DlSongInv, MakingInv, EndingInv DEF DownloadNext
<1> QED BY <1>1, <1>2, PTL DEF DownloadSpec

\* add_song removes a file only when the server has it, whichever jobs share the
\* directory and whichever file dl_song takes for the download.
THEOREM RemovalsAreSafe == DownloadSpec => RemovedAreUploaded
<1> DEFINE Safe == \A f \in dir \ dir' : IsSong(f) /\ f \in uploaded
<1>1. DownloadInv /\ [DownloadNext]_downloadVars => [Safe]_downloadVars
  <2> SUFFICES ASSUME DownloadInv, DownloadNext, NEW f \in dir \ dir'
               PROVE  IsSong(f) /\ f \in uploaded
    OBVIOUS
  <2>1. PICK j \in Jobs : RemoveFile(j)
    BY DEF DownloadNext, AddSong, DlSong, FindFile, AudioDuration, ExtractThumbnail,
           ExtractAudio, Rename, UploadAudio, UploadThumb, Fail
  <2>2. f = job[j].path /\ job[j].step = "removing"
    BY <2>1 DEF RemoveFile, Step
  <2> QED BY <2>2 DEF DownloadInv, JobsTidy
<1> QED BY <1>1, DownloadInvariance, PTL DEF DownloadSpec, RemovedAreUploaded

\* What add_song leaves behind is of jobs that run, failed, or uploaded another file
\* that begins alike, and pictures.
THEOREM AddSongIsClean == DownloadSpec => []AddSongCleansUp
<1>1. DownloadInv => AddSongCleansUp
  <2> SUFFICES ASSUME DownloadInv PROVE AddSongCleansUp
    OBVIOUS
  <2>1. \A file \in tmp : job[file[1]].step # "done"
    BY DEF DownloadInv, DownloadTypeOK, JobsTidy
  <2> QED BY <2>1 DEF DownloadInv, Accounted, AnswersFor, AddSongCleansUp
<1> QED BY <1>1, DownloadInvariance, PTL

-----------------------------------------------------------------------------
(***************************************************************************)
(* MinecraftMods.                                                          *)
(***************************************************************************)

Mods    == (ServerMods \X Releases) \cup (ClientMods \X {LATEST})
Asks    == [mod : Mods, since : Releases]
PackFiles == [mod : Mods, release : 0 .. MaxRelease]

ModsTypeOK ==
  /\ jars \in SUBSET (ServerMods \X Releases)
  /\ published \in [Slugs -> Releases]
  /\ mod_info \in [Slugs -> [version : 0 .. MaxRelease, release : 0 .. MaxRelease,
                             young : BOOLEAN]]
  /\ pack \in [Packs -> [step  : {"new", "making", "served", "failed"},
                         mods  : SUBSET Mods,
                         asked : SUBSET Asks,
                         files : SUBSET PackFiles]]

\* A server mod is only ever asked for in the version of a jar, so that what the
\* cache has for its slug fits whichever version it was asked for in.
CacheFits ==
  \A s \in ServerMods :
    \/ mod_info[s] = NoProject
    \/ /\ mod_info[s].version # LATEST
       /\ mod_info[s].version \in Contains[mod_info[s].release]

FilesFit ==
  \A p \in Packs : \A f \in pack[p].files :
    f.mod[1] \in ServerMods => f.mod[2] \in Contains[f.release]

ModsInv == ModsTypeOK /\ CacheFits /\ FilesFit

LEMMA ModOfServer ==
  ASSUME NEW m \in Mods
  PROVE  /\ m[1] \in Slugs /\ m[2] \in 0 .. MaxRelease
         /\ m[1] \in ServerMods => m[2] \in Releases /\ m[2] # LATEST
BY ModsAssumption DEF Mods, Releases, Slugs, LATEST

\* Whatever release is picked contains the text that was asked for.
LEMMA NewestSuits ==
  ASSUME NEW n \in Releases, NEW version, NEW r \in Newest(Suitable(n, version))
  PROVE  /\ r \in Releases
         /\ version = LATEST \/ version \in Contains[r]
BY ModsAssumption DEF Newest, Suitable, Releases

LEMMA ModsInitInv == ModsInit => ModsInv
<1> SUFFICES ASSUME ModsInit PROVE ModsInv
  OBVIOUS
<1> USE ModsAssumption DEF ModsInit
<1>1. ModsTypeOK
  <2>1. 1 \in Releases /\ NoProject \in [version : 0 .. MaxRelease, release : 0 .. MaxRelease,
                                         young : BOOLEAN]
    BY DEF Releases, NoProject, LATEST
  <2>2. NoPack \in [step  : {"new", "making", "served", "failed"}, mods  : SUBSET Mods,
                    asked : SUBSET Asks, files : SUBSET PackFiles]
    BY DEF NoPack
  <2> QED BY <2>1, <2>2 DEF ModsTypeOK
<1>2. CacheFits
  <2>1. ServerMods \subseteq Slugs
    BY DEF Slugs
  <2>2. \A s \in Slugs : mod_info[s] = NoProject
    OBVIOUS
  <2> QED BY <2>1, <2>2 DEF CacheFits
<1>3. FilesFit
  <2>1. \A p \in Packs : pack[p].files = {}
    BY DEF NoPack
  <2> QED BY <2>1 DEF FilesFit
<1> QED BY <1>1, <1>2, <1>3 DEF ModsInv

\* What a pack gets from the cache fits, as the cache does.
LEMMA LookUpInv ==
  ASSUME ModsInv, NEW p \in Packs, NEW m \in pack[p].mods, LookUpMod(p, m)
  PROVE  ModsInv'
<1> USE ModsAssumption DEF ModsInv, LookUpMod
<1>1. m \in Mods /\ m[1] \in Slugs /\ m[2] \in 0 .. MaxRelease
      /\ (m[1] \in ServerMods => m[2] # LATEST)
  BY ModOfServer DEF ModsTypeOK
<1>2. CASE UpToDate(mod_info[m[1]], m[2])
  <2> DEFINE file == [mod |-> m, release |-> mod_info[m[1]].release]
  <2>1. file \in PackFiles
    BY <1>1 DEF ModsTypeOK, PackFiles
  <2>2. m[1] \in ServerMods => m[2] \in Contains[file.release]
    BY <1>1, <1>2 DEF UpToDate, CacheFits
  <2>3. /\ pack' = [pack EXCEPT ![p].files = @ \cup {file}]
        /\ UNCHANGED <<jars, published, mod_info>>
    BY <1>2
  <2> HIDE DEF file
  <2>4. ModsTypeOK'
    BY <2>1, <2>3 DEF ModsTypeOK
  <2>5. FilesFit'
    <3>1. file.mod = m
      BY DEF file
    <3>2. pack'[p].files = pack[p].files \cup {file}
      BY <2>3 DEF ModsTypeOK
    <3>3. \A q \in Packs \ {p} : pack'[q] = pack[q]
      BY <2>3 DEF ModsTypeOK
    <3> HIDE DEF LookUpMod
    <3> QED BY <2>2, <3>1, <3>2, <3>3 DEF FilesFit
  <2>6. CacheFits'
    BY <2>3 DEF CacheFits
  <2> QED BY <2>4, <2>5, <2>6
<1>3. CASE ~UpToDate(mod_info[m[1]], m[2])
  <2> DEFINE ask == [mod |-> m, since |-> published[m[1]]]
  <2>1. ask \in Asks
    BY <1>1 DEF ModsTypeOK, Asks, Releases
  <2>2. /\ pack' = [pack EXCEPT ![p].asked = @ \cup {ask}]
        /\ UNCHANGED <<jars, published, mod_info>>
    BY <1>3
  <2> HIDE DEF ask
  <2>3. ModsTypeOK'
    BY <2>1, <2>2 DEF ModsTypeOK
  <2>4. FilesFit' /\ CacheFits'
    BY <2>2 DEF ModsTypeOK, FilesFit, CacheFits
  <2> QED BY <2>3, <2>4
<1> QED BY <1>2, <1>3

\* The answer fits what was asked for, in the pack and in the cache.
LEMMA GetVersionsInv ==
  ASSUME ModsInv, NEW p \in Packs, NEW a \in pack[p].asked, GetVersions(p, a)
  PROVE  ModsInv'
<1> USE ModsAssumption DEF ModsInv
<1>1. /\ a \in Asks /\ a.mod \in Mods /\ a.mod[1] \in Slugs /\ a.mod[2] \in 0 .. MaxRelease
      /\ a.mod[1] \in ServerMods => a.mod[2] # LATEST
      /\ published[a.mod[1]] \in Releases
  BY ModOfServer DEF ModsTypeOK, Asks
<1> DEFINE project(r) == [version |-> a.mod[2], release |-> r, young |-> TRUE]
           file(r)    == [mod |-> a.mod, release |-> r]
           Put(r) == /\ mod_info' = [mod_info EXCEPT ![a.mod[1]] = project(r)]
                     /\ pack' = [pack EXCEPT ![p].asked = @ \ {a},
                                             ![p].files = @ \cup {file(r)}]
<1>2. PICK n \in a.since .. published[a.mod[1]] :
        \E r \in Newest(Suitable(n, a.mod[2])) : Put(r)
  BY DEF GetVersions
<1>3. PICK r \in Newest(Suitable(n, a.mod[2])) : Put(r)
  BY <1>2
<1>4. /\ r \in Releases
      /\ a.mod[1] \in ServerMods => a.mod[2] \in Contains[r]
  <2>1. n \in Releases
    BY <1>1 DEF Releases, Asks
  <2> QED BY <1>1, <2>1, NewestSuits
<1>5. /\ project(r) \in [version : 0 .. MaxRelease, release : 0 .. MaxRelease,
                         young : BOOLEAN]
      /\ file(r) \in PackFiles
      /\ project(r).version = a.mod[2] /\ project(r).release = r
      /\ file(r).mod = a.mod /\ file(r).release = r
  BY <1>1, <1>4 DEF PackFiles, Releases
<1>6. UNCHANGED <<jars, published>>
  BY DEF GetVersions
<1> HIDE DEF project, file
<1>7. ModsTypeOK'
  <2>1. mod_info' \in [Slugs -> [version : 0 .. MaxRelease, release : 0 .. MaxRelease,
                                 young : BOOLEAN]]
    BY <1>1, <1>3, <1>5 DEF ModsTypeOK
  <2>2. pack' \in [Packs -> [step  : {"new", "making", "served", "failed"},
                             mods  : SUBSET Mods,
                             asked : SUBSET Asks,
                             files : SUBSET PackFiles]]
    <3>1. /\ pack[p].asked \ {a} \in SUBSET Asks
          /\ pack[p].files \cup {file(r)} \in SUBSET PackFiles
      BY <1>5 DEF ModsTypeOK
    <3> HIDE DEF ModsInv
    <3>2. pack \in [Packs -> [step  : {"new", "making", "served", "failed"},
                             mods  : SUBSET Mods,
                             asked : SUBSET Asks,
                             files : SUBSET PackFiles]]
      BY DEF ModsInv, ModsTypeOK
    <3> QED BY <1>3, <3>1, <3>2
  <2> QED BY <1>6, <2>1, <2>2 DEF ModsTypeOK
<1>8. CacheFits'
  BY <1>1, <1>3, <1>4, <1>5 DEF CacheFits, ModsTypeOK, Slugs
<1>9. FilesFit'
  <2>1. pack'[p].files = pack[p].files \cup {file(r)}
    BY <1>3 DEF ModsTypeOK
  <2>2. \A q \in Packs \ {p} : pack'[q] = pack[q]
    BY <1>3 DEF ModsTypeOK
  <2> QED BY <1>4, <1>5, <2>1, <2>2 DEF FilesFit
<1> QED BY <1>7, <1>8, <1>9

LEMMA OtherModsStepsInv ==
  ASSUME ModsInv,
         \/ \E p \in Packs : GenerateModPack(p) \/ GetVersionsFails(p) \/ ServePack(p)
         \/ \E s \in Slugs : Publish(s) \/ Age(s)
         \/ ChangeJars \/ UNCHANGED modsVars
  PROVE  ModsInv'
<1>1. ASSUME NEW p \in Packs, GenerateModPack(p) PROVE ModsInv'
  <2> DEFINE fresh == [pack[p] EXCEPT !.step = "making",
                                      !.mods = jars \cup (ClientMods \X {LATEST})]
  <2> DEFINE PackStates == [step  : {"new", "making", "served", "failed"},
                            mods  : SUBSET Mods,
                            asked : SUBSET Asks,
                            files : SUBSET PackFiles]
  <2>1. pack \in [Packs -> PackStates] /\ jars \cup (ClientMods \X {LATEST}) \in SUBSET Mods
    BY DEF ModsInv, ModsTypeOK, Mods
  <2>2. pack' = [pack EXCEPT ![p] = fresh] /\ UNCHANGED <<jars, published, mod_info>>
    BY <1>1 DEF GenerateModPack
  <2>3. fresh \in PackStates /\ fresh.files = pack[p].files
    <3>1. pack[p] \in PackStates
      BY <2>1
    <3> QED BY <2>1, <3>1
  <2>4. pack' \in [Packs -> PackStates] /\ \A q \in Packs : pack'[q].files = pack[q].files
    <3> HIDE DEF fresh, PackStates
    <3> QED BY <2>1, <2>2, <2>3
  <2>5. ModsTypeOK'
    BY <2>2, <2>4 DEF ModsInv, ModsTypeOK
  <2> QED
    <3> HIDE DEF fresh, PackStates
    <3> QED BY <2>2, <2>4, <2>5 DEF ModsInv, CacheFits, FilesFit
<1> USE ModsAssumption DEF ModsInv, ModsTypeOK
<1>2. ASSUME NEW p \in Packs, GetVersionsFails(p) PROVE ModsInv'
  BY <1>2 DEF GetVersionsFails, NoPack, CacheFits, FilesFit
<1>3. ASSUME NEW p \in Packs, ServePack(p) PROVE ModsInv'
  BY <1>3 DEF ServePack, CacheFits, FilesFit
<1>4. ASSUME NEW s \in Slugs, Publish(s) PROVE ModsInv'
  BY <1>4 DEF Publish, CacheFits, FilesFit, Releases
<1>5. ASSUME NEW s \in Slugs, Age(s) PROVE ModsInv'
  <2>1. ModsTypeOK'
    BY <1>5 DEF Age
  <2>2. CacheFits'
    <3>1. mod_info[s] # NoProject
      BY <1>5 DEF Age, NoProject
    <3> QED BY <1>5, <3>1 DEF Age, CacheFits, Slugs
  <2>3. FilesFit'
    BY <1>5 DEF Age, FilesFit
  <2> QED BY <2>1, <2>2, <2>3
<1>6. CASE ChangeJars
  BY <1>6 DEF ChangeJars, CacheFits, FilesFit, Releases, Slugs
<1>7. CASE UNCHANGED modsVars
  BY <1>7 DEF modsVars, CacheFits, FilesFit
<1> QED BY <1>1, <1>2, <1>3, <1>4, <1>5, <1>6, <1>7

\* A pack fits the server: for any mods, releases and requests, and however
\* releases contain one another's numbers.
THEOREM PacksFit == ModsSpec => []PackFitsServer
<1>1. ModsInv /\ [ModsNext]_modsVars => ModsInv'
  BY LookUpInv, GetVersionsInv, OtherModsStepsInv DEF ModsNext
<1>2. ModsInv => PackFitsServer
  BY DEF ModsInv, FilesFit, PackFitsServer
<1> QED BY <1>1, <1>2, ModsInitInv, PTL DEF ModsSpec

-----------------------------------------------------------------------------
(***************************************************************************)
(* PlaylistPage.                                                           *)
(***************************************************************************)

\* What is on the page was rendered from its filter, whose categories are of one
\* kind and listed, as long as no song is lost.
PageInv ==
  /\ stored \subseteq Songs /\ playlist.songs \subseteq Songs /\ page.of \subseteq Songs
  /\ page.open =>
       /\ page = Render(page.filter, page.of)
       /\ page.filter.disabled \cap page.filter.must_have = {}
       /\ ~lost => page.filter.disabled \cup page.filter.must_have \subseteq page.listed

\* More songs list more categories.
LEMMA CategoriesGrow ==
  ASSUME NEW some \in SUBSET Songs, NEW more \in SUBSET Songs, some \subseteq more
  PROVE  Categories(some) \subseteq Categories(more)
<1> SUFFICES ASSUME NEW t \in Categories(some) PROVE t \in Categories(more)
  OBVIOUS
<1> DEFINE With(songs) == {s \in songs : t \in TagsOf[s]}
<1>1. With(some) \subseteq With(more) /\ With(more) \subseteq Songs
  OBVIOUS
<1>2. IsFiniteSet(With(more))
  BY <1>1, FS_Subset, PageAssumption
<1>3. Cardinality(With(some)) <= Cardinality(With(more)) /\ IsFiniteSet(With(some))
  BY <1>1, <1>2, FS_Subset
<1>4. Cardinality(With(some)) \in Nat /\ Cardinality(With(more)) \in Nat
  BY <1>2, <1>3, FS_CardinalityType
<1>5. t \in Tags \ Balao /\ Cardinality(With(some)) > 2
  BY DEF Categories
<1>6. Cardinality(With(more)) > 2
  BY <1>3, <1>4, <1>5
<1> QED BY <1>5, <1>6 DEF Categories

\* A toggled filter has no category of both kinds, and none but the old ones and
\* the one that was clicked.
LEMMA ToggleFilter ==
  ASSUME NEW f, f.disabled \cap f.must_have = {}, NEW t, NEW listed,
         t \in listed, f.disabled \cup f.must_have \subseteq listed
  PROVE  /\ Toggle(f, t).disabled \cap Toggle(f, t).must_have = {}
         /\ Toggle(f, t).disabled \cup Toggle(f, t).must_have \subseteq listed
BY DEF Toggle

\* The colours of a page whose filter is listed are the filter.
LEMMA InvExplains == PageInv => PageExplainsSongs
<1> SUFFICES ASSUME PageInv, page.open, ~lost
             PROVE  page.songs = {s \in page.of :
                      /\ TagsOf[s] \cap page.red = {}
                      /\ page.green = {} \/ TagsOf[s] \cap page.green # {}}
  BY DEF PageExplainsSongs
<1>1. /\ page = Render(page.filter, page.of)
      /\ page.filter.disabled \cap page.filter.must_have = {}
      /\ page.filter.disabled \cup page.filter.must_have \subseteq page.listed
  BY DEF PageInv
<1>2. /\ page.songs = {s \in page.of : IncludeSong(s, page.filter)}
      /\ page.red = Categories(page.of) \cap page.filter.disabled
      /\ page.green = (Categories(page.of) \cap page.filter.must_have) \ page.filter.disabled
      /\ page.listed = Categories(page.of)
  BY <1>1 DEF Render
<1>3. page.red = page.filter.disabled /\ page.green = page.filter.must_have
  BY <1>1, <1>2
<1> QED BY <1>2, <1>3 DEF IncludeSong

\* Each answer of the handler renders the filter it was sent.
LEMMA RenderedInv ==
  ASSUME PageInv, NEW f, f.disabled \cap f.must_have = {}, Playlist(f),
         ~lost' => f.disabled \cup f.must_have \subseteq Categories(LoadPlaylist)
  PROVE  PageInv'
<1>1. LoadPlaylist \subseteq Songs
  BY DEF PageInv, LoadPlaylist
<1>2. /\ page' = Render(f, LoadPlaylist) /\ playlist'.songs = LoadPlaylist
      /\ stored' = stored
  BY DEF Playlist
<1>3. /\ page'.filter = f /\ page'.of = LoadPlaylist
      /\ page'.listed = Categories(LoadPlaylist)
  BY <1>2 DEF Render
<1> HIDE DEF LoadPlaylist
<1> QED BY <1>1, <1>2, <1>3 DEF PageInv

LEMMA ClickInv ==
  ASSUME PageInv, Click
  PROVE  PageInv'
<1>1. /\ page.open
      /\ page = Render(page.filter, page.of)
      /\ page.filter.disabled \cap page.filter.must_have = {}
      /\ ~lost => page.filter.disabled \cup page.filter.must_have \subseteq page.listed
  BY DEF PageInv, Click
<1>2. page.listed = Categories(page.of)
  BY <1>1 DEF Render
<1>3. ~lost' => page.listed \subseteq Categories(LoadPlaylist)
  <2>1. LoadPlaylist \in SUBSET Songs /\ page.of \in SUBSET Songs
    BY DEF PageInv, LoadPlaylist
  <2>2. ~lost' => page.of \subseteq LoadPlaylist
    BY DEF Click
  <2> QED BY <1>2, <2>1, <2>2, CategoriesGrow
<1>4. ~lost' => ~lost
  BY DEF Click
<1>5. CASE Playlist(page.filter)
  BY <1>1, <1>3, <1>4, <1>5, RenderedInv
<1>6. ASSUME NEW t \in page.listed, Playlist(Toggle(page.filter, t)) PROVE PageInv'
  <2> DEFINE f == page.filter
             g == Toggle(page.filter, t)
  <2>1. g.disabled \cap g.must_have = {}
    BY <1>1 DEF Toggle
  <2>2. ~lost' => g.disabled \cup g.must_have \subseteq page.listed
    BY <1>1, <1>4, <1>6, ToggleFilter
  <2>3. ~lost' => g.disabled \cup g.must_have \subseteq Categories(LoadPlaylist)
    BY <1>3, <2>2
  <2> QED BY <1>6, <2>1, <2>3, RenderedInv
<1> QED BY <1>5, <1>6 DEF Click

\* The colours explain the songs, for any songs, tags, and edits of the playlist.
THEOREM PageExplained == PlaylistSpec => []PageExplainsSongs
<1>1. PlaylistInit => PageInv
  BY DEF PlaylistInit, PageInv, NotCached, NoPage
<1>2. PageInv /\ [PlaylistNext]_playlistVars => PageInv'
  <2> SUFFICES ASSUME PageInv, [PlaylistNext]_playlistVars PROVE PageInv'
    OBVIOUS
  <2>1. CASE Open
    <3>1. NoPage.filter.disabled = {} /\ NoPage.filter.must_have = {}
      BY DEF NoPage
    <3> QED BY <2>1, <3>1, RenderedInv DEF Open
  <2>2. CASE Click
    BY <2>2, ClickInv
  <2>3. CASE Expire
    BY <2>3 DEF Expire, PageInv, NotCached
  <2>4. CASE Edit
    BY <2>4 DEF Edit, PageInv
  <2>5. CASE UNCHANGED playlistVars
    BY <2>5 DEF playlistVars, PageInv
  <2> QED BY <2>1, <2>2, <2>3, <2>4, <2>5 DEF PlaylistNext
<1> QED BY <1>1, <1>2, InvExplains, PTL DEF PlaylistSpec
-----------------------------------------------------------------------------
(***************************************************************************)
(* MinecraftLogs.                                                          *)
(***************************************************************************)

LogLines == [n : Nat, player : Players]

VisitSteps == {"new", "listing", "listed", "reading", "counted"}

LogVisits ==
  [step : VisitSteps, whitelist : SUBSET Players, files : SUBSET (1 .. MaxRotated),
   missed : SUBSET (1 .. MaxRotated), parsed : SUBSET LogLines, latest : SUBSET LogLines,
   upto : Nat, disturbed : BOOLEAN]

LogsTypeOK ==
  /\ debug \in BOOLEAN
  /\ excused \in BOOLEAN
  /\ whitelist \subseteq Players
  /\ latest \subseteq LogLines
  /\ rotated \in Seq([lines : SUBSET LogLines, whole : BOOLEAN])
  /\ Len(rotated) <= MaxRotated
  /\ log_cache \in [1 .. MaxRotated -> [known : BOOLEAN, lines : SUBSET LogLines]]
  /\ visit \in [Visits -> LogVisits]

\* Lines are numbered as they are logged, and a rotated line has left latest.log.
LinesNumbered ==
  /\ IsFiniteSet(Logged)
  /\ {l.n : l \in Logged} = 1 .. Cardinality(Logged)
  /\ \A i \in DOMAIN rotated : rotated[i].lines \cap latest = {}

CacheIsOfFiles ==
  \A i \in 1 .. MaxRotated : log_cache[i].known =>
    i \in DOMAIN rotated /\ log_cache[i].lines \subseteq rotated[i].lines

\* What a request has read of latest.log is in none of the files it has listed,
\* as it lists them first.
ReadApart ==
  \A v \in Visits :
    /\ visit[v].missed \subseteq visit[v].files
    /\ visit[v].files \subseteq DOMAIN rotated
    /\ visit[v].step \notin {"reading", "counted"} => visit[v].parsed = {} /\ visit[v].latest = {}
    /\ visit[v].step \in {"new", "listing", "counted"} => visit[v].files = {}
    /\ visit[v].parsed \cap visit[v].latest = {}
    /\ \A i \in visit[v].files : rotated[i].lines \cap visit[v].latest = {}

\* Nobody who has played is missing from a whitelist that matters, so that files
\* are cached with all their lines.
AllPlayersKnown ==
  ~excused =>
    /\ \A l \in Logged : l.player \in whitelist
    /\ \A i \in 1 .. MaxRotated : log_cache[i].known => log_cache[i].lines = rotated[i].lines
    /\ \A v \in Visits :
         /\ visit[v].step = "listing" => visit[v].whitelist = whitelist
         /\ \A i \in visit[v].files : \A l \in rotated[i].lines : l.player \in visit[v].whitelist

\* The lines of the files that a request has still to count.
Remaining(v) == UNION {rotated[i].lines : i \in visit[v].files}

\* A request has counted what it has not still to count.
MissesNothing(v) ==
  /\ visit[v].step = "listed" =>
       visit[v].files = DOMAIN rotated /\ visit[v].whitelist = whitelist
  /\ \A i \in visit[v].files : rotated[i].whole
  /\ visit[v].step \in {"reading", "counted"} =>
       {l.n : l \in visit[v].parsed \cup visit[v].latest \cup Remaining(v)} = 1 .. visit[v].upto

UndisturbedMissNothing ==
  (debug /\ ~excused) => \A v \in Visits : ~visit[v].disturbed => MissesNothing(v)

LogsInv ==
  LogsTypeOK /\ LinesNumbered /\ CacheIsOfFiles /\ ReadApart /\ AllPlayersKnown
  /\ UndisturbedMissNothing

LEMMA LogsInitInv == LogsInit => LogsInv
<1> SUFFICES ASSUME LogsInit PROVE LogsInv
  OBVIOUS
<1>1. rotated = <<>> /\ Len(rotated) = 0 /\ DOMAIN rotated = {}
  BY DEF LogsInit
<1>2. Logged = {}
  BY <1>1 DEF LogsInit, Logged
<1>3. LogsTypeOK
  <2>1. rotated \in Seq([lines : SUBSET LogLines, whole : BOOLEAN])
    BY <1>1
  <2>2. NotRead \in [known : BOOLEAN, lines : SUBSET LogLines]
    BY DEF NotRead
  <2>3. NoVisit \in LogVisits
    BY DEF NoVisit, LogVisits, VisitSteps
  <2>4. /\ log_cache \in [1 .. MaxRotated -> [known : BOOLEAN, lines : SUBSET LogLines]]
        /\ visit \in [Visits -> LogVisits]
    BY <2>2, <2>3 DEF LogsInit
  <2>5. latest \subseteq LogLines /\ Len(rotated) <= MaxRotated
    BY <1>1, LogsAssumption DEF LogsInit
  <2> QED BY <2>1, <2>4, <2>5 DEF LogsInit, LogsTypeOK
<1>4. LinesNumbered
  <2>1. IsFiniteSet(Logged) /\ Cardinality(Logged) = 0
    BY <1>2, FS_EmptySet
  <2> QED BY <1>1, <1>2, <2>1 DEF LinesNumbered
<1>5. CacheIsOfFiles /\ ReadApart /\ AllPlayersKnown
  BY <1>1, <1>2 DEF LogsInit, NotRead, NoVisit, CacheIsOfFiles, ReadApart, AllPlayersKnown
<1>6. UndisturbedMissNothing
  BY DEF LogsInit, NoVisit, UndisturbedMissNothing, MissesNothing
<1> QED BY <1>3, <1>4, <1>5, <1>6 DEF LogsInv

\* What a request keeps of a file are lines of the file, or the file's lines if all
\* of its players are known.
LEMMA ParseLogKeeps ==
  ASSUME NEW lines, NEW players
  PROVE  /\ ParseLog(lines, players) \subseteq lines
         /\ (\A l \in lines : l.player \in players) => ParseLog(lines, players) = lines
BY DEF ParseLog

LEMMA LogTypes ==
  ASSUME LogsInv
  PROVE  /\ \A i \in DOMAIN rotated :
              /\ i \in 1 .. MaxRotated
              /\ rotated[i].lines \subseteq LogLines
              /\ rotated[i].lines \subseteq Logged
              /\ rotated[i].whole \in BOOLEAN
         /\ DOMAIN rotated = 1 .. Len(rotated) /\ Len(rotated) \in Nat
         /\ DOMAIN rotated \subseteq 1 .. MaxRotated
         /\ latest \subseteq Logged /\ Logged \subseteq LogLines
<1>1. DOMAIN rotated = 1 .. Len(rotated) /\ Len(rotated) \in Nat
  BY DEF LogsInv, LogsTypeOK
<1>2. DOMAIN rotated \subseteq 1 .. MaxRotated
  BY <1>1, LogsAssumption DEF LogsInv, LogsTypeOK
<1>3. ASSUME NEW i \in DOMAIN rotated
      PROVE  rotated[i] \in [lines : SUBSET LogLines, whole : BOOLEAN]
  BY <1>1, ElementOfSeq DEF LogsInv, LogsTypeOK
<1>4. \A i \in DOMAIN rotated : rotated[i].lines \subseteq Logged
  BY DEF Logged
<1>5. latest \subseteq Logged /\ Logged \subseteq LogLines
  BY <1>3 DEF Logged, LogsInv, LogsTypeOK
<1> QED BY <1>1, <1>2, <1>3, <1>4, <1>5

\* A request's own steps, but those in which it reads a file or the cache.
LEMMA QuietVisitInv ==
  ASSUME LogsInv, NEW v \in Visits, ReadWhitelist(v) \/ ListLogs(v) \/ CountLines(v)
  PROVE  LogsInv'
<1>1. /\ UNCHANGED <<debug, whitelist, latest, rotated, log_cache, excused>>
      /\ Logged' = Logged
  BY DEF ReadWhitelist, ListLogs, CountLines, Logged
<1>2. LogsTypeOK'
  <2>1. visit'[v] \in LogVisits
    <3>1. /\ visit[v] \in LogVisits /\ whitelist \subseteq Players
          /\ DOMAIN rotated \subseteq 1 .. MaxRotated
          /\ {"listing", "listed", "counted"} \subseteq VisitSteps
      BY LogTypes DEF LogsInv, LogsTypeOK, VisitSteps
    <3>2. CASE ReadWhitelist(v)
      BY <3>1, <3>2 DEF ReadWhitelist, LogVisits, LogsInv, LogsTypeOK
    <3>3. CASE ListLogs(v)
      BY <3>1, <3>3 DEF ListLogs, LogVisits, LogsInv, LogsTypeOK
    <3>4. CASE CountLines(v)
      BY <3>1, <3>4 DEF CountLines, LogVisits, LogsInv, LogsTypeOK
    <3> QED BY <3>2, <3>3, <3>4
  <2>2. visit' = [visit EXCEPT ![v] = visit'[v]]
    BY DEF ReadWhitelist, ListLogs, CountLines, LogsInv, LogsTypeOK
  <2> QED BY <1>1, <2>1, <2>2 DEF LogsInv, LogsTypeOK
<1>3. LinesNumbered' /\ CacheIsOfFiles'
  BY <1>1 DEF LogsInv, LinesNumbered, CacheIsOfFiles
<1>4. \A w \in Visits : w # v => visit'[w] = visit[w] /\ MissesNothing(w)' = MissesNothing(w)
  <2>1. \A w \in Visits : w # v => visit'[w] = visit[w]
    BY DEF ReadWhitelist, ListLogs, CountLines, LogsInv, LogsTypeOK
  <2> QED BY <1>1, <2>1 DEF MissesNothing, Remaining
<1>5. CASE ReadWhitelist(v)
  <2>1. visit'[v] = [visit[v] EXCEPT !.step = "listing", !.whitelist = whitelist]
        /\ visit[v].step = "new" /\ visit[v] \in LogVisits
    BY <1>5 DEF ReadWhitelist, LogsInv, LogsTypeOK
  <2>2. /\ visit'[v].step = "listing" /\ visit'[v].whitelist = whitelist
        /\ visit'[v].files = {} /\ visit'[v].missed = {}
        /\ visit'[v].parsed = {} /\ visit'[v].latest = {}
    BY <2>1 DEF LogVisits, LogsInv, ReadApart
  <2>3. ReadApart'
    BY <1>1, <1>4, <2>2 DEF LogsInv, ReadApart
  <2>4. AllPlayersKnown'
    BY <1>1, <1>4, <2>2 DEF LogsInv, AllPlayersKnown
  <2>5. MissesNothing(v)'
    BY <2>2 DEF MissesNothing
  <2>6. UndisturbedMissNothing'
    BY <1>1, <1>4, <2>5 DEF LogsInv, UndisturbedMissNothing
  <2> QED BY <1>2, <1>3, <2>3, <2>4, <2>6 DEF LogsInv
<1>6. CASE ListLogs(v)
  <2>1. /\ visit[v].step = "listing" /\ visit[v] \in LogVisits
        /\ visit'[v].step = "listed" /\ visit'[v].whitelist = visit[v].whitelist
        /\ visit'[v].files = IF debug THEN DOMAIN rotated ELSE DOMAIN rotated \ {Len(rotated)}
        /\ visit'[v].disturbed = (visit[v].disturbed \/ \E i \in DOMAIN rotated : ~rotated[i].whole)
        /\ visit'[v].missed = visit[v].missed
        /\ visit'[v].parsed = visit[v].parsed /\ visit'[v].latest = visit[v].latest
    BY <1>6 DEF ListLogs, LogsInv, LogsTypeOK, LogVisits
  <2>2. /\ visit'[v].files \subseteq DOMAIN rotated
        /\ visit'[v].missed = {} /\ visit'[v].parsed = {} /\ visit'[v].latest = {}
    BY <2>1 DEF LogsInv, ReadApart
  <2>3. ReadApart'
    BY <1>1, <1>4, <2>1, <2>2 DEF LogsInv, ReadApart
  <2>4. AllPlayersKnown'
    <3>1. ~excused => \A i \in DOMAIN rotated : \A l \in rotated[i].lines : l.player \in visit[v].whitelist
      BY <2>1, LogTypes DEF LogsInv, AllPlayersKnown
    <3> QED BY <1>1, <1>4, <2>1, <2>2, <3>1 DEF LogsInv, AllPlayersKnown
  <2>5. (debug /\ ~excused /\ ~visit'[v].disturbed) => MissesNothing(v)'
    <3>1. ~excused => visit[v].whitelist = whitelist
      BY <2>1 DEF LogsInv, AllPlayersKnown
    <3> QED BY <1>1, <2>1, <3>1 DEF MissesNothing
  <2>6. UndisturbedMissNothing'
    BY <1>1, <1>4, <2>5 DEF LogsInv, UndisturbedMissNothing
  <2> QED BY <1>2, <1>3, <2>3, <2>4, <2>6 DEF LogsInv
<1>7. CASE CountLines(v)
  <2>1. /\ visit[v].step = "reading" /\ visit[v].files = {} /\ visit[v] \in LogVisits
        /\ visit'[v] = [visit[v] EXCEPT !.step = "counted"]
    BY <1>7 DEF CountLines, LogsInv, LogsTypeOK
  <2>2. /\ visit'[v].step = "counted" /\ visit'[v].files = {}
        /\ visit'[v].missed = visit[v].missed /\ visit'[v].whitelist = visit[v].whitelist
        /\ visit'[v].parsed = visit[v].parsed /\ visit'[v].latest = visit[v].latest
        /\ visit'[v].upto = visit[v].upto /\ visit'[v].disturbed = visit[v].disturbed
    BY <2>1 DEF LogVisits
  <2>3. ReadApart'
    BY <1>1, <1>4, <2>1, <2>2 DEF LogsInv, ReadApart
  <2>4. AllPlayersKnown'
    BY <1>1, <1>4, <2>1, <2>2 DEF LogsInv, AllPlayersKnown
  <2>5. MissesNothing(v) => MissesNothing(v)'
    BY <1>1, <2>1, <2>2 DEF MissesNothing, Remaining
  <2>6. UndisturbedMissNothing'
    BY <1>1, <1>4, <2>2, <2>5 DEF LogsInv, UndisturbedMissNothing
  <2> QED BY <1>2, <1>3, <2>3, <2>4, <2>6 DEF LogsInv
<1> QED BY <1>5, <1>6, <1>7

LEMMA ReadLatestInv ==
  ASSUME LogsInv, NEW v \in Visits, ReadLatest(v)
  PROVE  LogsInv'
<1> DEFINE kept == ParseLog(latest, visit[v].whitelist)
<1>1. /\ UNCHANGED <<debug, whitelist, latest, rotated, log_cache, excused>>
      /\ Logged' = Logged
  BY DEF ReadLatest, Logged
<1>2. /\ visit[v] \in LogVisits /\ visit[v].step = "listed"
      /\ Cardinality(Logged) \in Nat
      /\ kept \subseteq latest /\ kept \subseteq LogLines
  BY ParseLogKeeps, FS_CardinalityType DEF ReadLatest, LogsInv, LogsTypeOK, LinesNumbered
<1>3. visit' = [visit EXCEPT ![v] =
                  [visit[v] EXCEPT !.step = "reading", !.latest = kept, !.upto = Cardinality(Logged)]]
  BY DEF ReadLatest
<1> HIDE DEF kept
<1>4. /\ visit'[v] \in LogVisits
      /\ visit'[v].step = "reading" /\ visit'[v].latest = kept /\ visit'[v].upto = Cardinality(Logged)
      /\ visit'[v].files = visit[v].files /\ visit'[v].missed = visit[v].missed
      /\ visit'[v].parsed = visit[v].parsed /\ visit'[v].whitelist = visit[v].whitelist
      /\ visit'[v].disturbed = visit[v].disturbed
  BY <1>2, <1>3 DEF LogVisits, VisitSteps, LogsInv, LogsTypeOK
<1>5. LogsTypeOK'
  BY <1>1, <1>3, <1>4 DEF LogsInv, LogsTypeOK
<1>6. LinesNumbered' /\ CacheIsOfFiles'
  BY <1>1 DEF LogsInv, LinesNumbered, CacheIsOfFiles
<1>7. \A w \in Visits : w # v => visit'[w] = visit[w] /\ MissesNothing(w)' = MissesNothing(w)
  <2>1. \A w \in Visits : w # v => visit'[w] = visit[w]
    BY <1>3 DEF LogsInv, LogsTypeOK
  <2> QED BY <1>1, <2>1 DEF MissesNothing, Remaining
<1>8. ReadApart'
  <2>1. /\ visit[v].parsed = {}
        /\ visit[v].files \subseteq DOMAIN rotated /\ visit[v].missed \subseteq visit[v].files
    BY <1>2 DEF LogsInv, ReadApart
  <2>2. \A i \in visit[v].files : rotated[i].lines \cap kept = {}
    BY <1>2, <2>1 DEF LogsInv, LinesNumbered
  <2> QED BY <1>1, <1>4, <1>7, <2>1, <2>2 DEF LogsInv, ReadApart
<1>9. AllPlayersKnown'
  BY <1>1, <1>4, <1>7 DEF LogsInv, AllPlayersKnown
<1>10. ASSUME debug, ~excused, MissesNothing(v)
       PROVE  MissesNothing(v)'
  <2>1. visit[v].files = DOMAIN rotated /\ visit[v].whitelist = whitelist /\ visit[v].parsed = {}
    BY <1>2, <1>10 DEF MissesNothing, LogsInv, ReadApart
  <2>2. kept = latest
    BY <1>10, <2>1, ParseLogKeeps, LogTypes DEF kept, LogsInv, AllPlayersKnown
  <2>3. visit'[v].parsed \cup visit'[v].latest \cup Remaining(v)' = Logged
    BY <1>1, <1>4, <2>1, <2>2 DEF Remaining, Logged
  <2>4. {l.n : l \in Logged} = 1 .. visit'[v].upto
    BY <1>4 DEF LogsInv, LinesNumbered
  <2>5. \A i \in visit[v].files : rotated[i].whole
    BY <1>10 DEF MissesNothing
  <2> QED BY <1>1, <1>4, <2>3, <2>4, <2>5 DEF MissesNothing
<1>11. UndisturbedMissNothing'
  BY <1>1, <1>4, <1>7, <1>10 DEF LogsInv, UndisturbedMissNothing
<1> QED BY <1>5, <1>6, <1>8, <1>9, <1>11 DEF LogsInv

\* A request counts a file: with lines of it, and all of them if no player is unknown
\* and it is whole.
CountsFile(v, i, records) ==
  /\ visit[v].step = "reading"
  /\ i \in visit[v].files
  /\ records \subseteq rotated[i].lines
  /\ (~excused /\ rotated[i].whole) => records = rotated[i].lines
  /\ \/ log_cache' = log_cache
     \/ /\ rotated[i].whole
        /\ log_cache' = [log_cache EXCEPT ![i] = [known |-> TRUE, lines |-> records]]
  /\ visit' = [visit EXCEPT ![v].missed = @ \ {i}, ![v].files = @ \ {i},
                            ![v].parsed = @ \cup records]
  /\ UNCHANGED <<debug, whitelist, latest, rotated, excused>>

LEMMA CountFileInv ==
  ASSUME LogsInv, NEW v \in Visits, NEW i, NEW records, CountsFile(v, i, records)
  PROVE  LogsInv'
<1>0. /\ visit[v].step = "reading" /\ i \in visit[v].files
      /\ records \subseteq rotated[i].lines
      /\ (~excused /\ rotated[i].whole) => records = rotated[i].lines
  BY DEF CountsFile
<1>1. /\ debug' = debug /\ whitelist' = whitelist /\ latest' = latest
      /\ rotated' = rotated /\ excused' = excused
      /\ Logged' = Logged
  BY DEF CountsFile, Logged
<1>2. /\ visit[v] \in LogVisits /\ i \in DOMAIN rotated /\ i \in 1 .. MaxRotated
      /\ rotated[i].lines \subseteq LogLines
  BY <1>0, LogTypes DEF LogsInv, LogsTypeOK, ReadApart
<1>3. /\ visit'[v].files = visit[v].files \ {i} /\ visit'[v].missed = visit[v].missed \ {i}
      /\ visit'[v].parsed = visit[v].parsed \cup records
      /\ visit'[v].step = "reading" /\ visit'[v].latest = visit[v].latest
      /\ visit'[v].upto = visit[v].upto /\ visit'[v].whitelist = visit[v].whitelist
      /\ visit'[v].disturbed = visit[v].disturbed
  BY <1>0, <1>2 DEF CountsFile, LogVisits, LogsInv, LogsTypeOK
<1>4. LogsTypeOK'
  <2>1. visit'[v] \in LogVisits
    BY <1>0, <1>2 DEF CountsFile, LogVisits, LogsInv, LogsTypeOK
  <2>2. visit' \in [Visits -> LogVisits]
    BY <2>1 DEF CountsFile, LogsInv, LogsTypeOK
  <2>3. log_cache' \in [1 .. MaxRotated -> [known : BOOLEAN, lines : SUBSET LogLines]]
    <3>1. [known |-> TRUE, lines |-> records] \in [known : BOOLEAN, lines : SUBSET LogLines]
      BY <1>0, <1>2
    <3> QED BY <3>1 DEF CountsFile, LogsInv, LogsTypeOK
  <2> QED BY <1>1, <2>2, <2>3 DEF LogsInv, LogsTypeOK
<1>5. LinesNumbered'
  BY <1>1 DEF LogsInv, LinesNumbered
<1>6. /\ \A j \in 1 .. MaxRotated : j # i => log_cache'[j] = log_cache[j]
      /\ \/ log_cache'[i] = log_cache[i]
         \/ rotated[i].whole /\ log_cache'[i] = [known |-> TRUE, lines |-> records]
  BY <1>2 DEF CountsFile, LogsInv, LogsTypeOK
<1>7. CacheIsOfFiles'
  BY <1>0, <1>1, <1>2, <1>6 DEF LogsInv, CacheIsOfFiles
<1>8. \A w \in Visits : w # v => visit'[w] = visit[w] /\ MissesNothing(w)' = MissesNothing(w)
  <2>1. \A w \in Visits : w # v => visit'[w] = visit[w]
    BY DEF CountsFile, LogsInv, LogsTypeOK
  <2> QED BY <1>1, <2>1 DEF MissesNothing, Remaining
<1>9. ReadApart'
  <2>1. rotated[i].lines \cap visit[v].latest = {}
    BY <1>0 DEF LogsInv, ReadApart
  <2>2. (visit[v].parsed \cup records) \cap visit[v].latest = {}
    BY <1>0, <2>1 DEF LogsInv, ReadApart
  <2>3. /\ visit'[v].missed \subseteq visit'[v].files /\ visit'[v].files \subseteq DOMAIN rotated'
        /\ \A j \in visit'[v].files : rotated'[j].lines \cap visit'[v].latest = {}
    BY <1>1, <1>3 DEF LogsInv, ReadApart
  <2> QED BY <1>1, <1>3, <1>8, <2>2, <2>3 DEF LogsInv, ReadApart
<1>10. AllPlayersKnown'
  <2>1. ~excused => \A j \in 1 .. MaxRotated :
          log_cache'[j].known => log_cache'[j].lines = rotated[j].lines
    BY <1>0, <1>6 DEF LogsInv, AllPlayersKnown
  <2>2. ~excused => \A j \in visit'[v].files : \A l \in rotated[j].lines : l.player \in visit[v].whitelist
    BY <1>3 DEF LogsInv, AllPlayersKnown
  <2> QED BY <1>1, <1>3, <1>8, <2>1, <2>2 DEF LogsInv, AllPlayersKnown
<1>11. ASSUME ~excused, MissesNothing(v)
       PROVE  MissesNothing(v)'
  <2>1. records = rotated[i].lines /\ \A j \in visit[v].files : rotated[j].whole
    BY <1>0, <1>11 DEF MissesNothing
  <2>2. Remaining(v) = Remaining(v)' \cup rotated[i].lines
    BY <1>0, <1>1, <1>3 DEF Remaining
  <2>3. visit'[v].parsed \cup visit'[v].latest \cup Remaining(v)'
          = visit[v].parsed \cup visit[v].latest \cup Remaining(v)
    BY <1>3, <2>1, <2>2
  <2> QED BY <1>0, <1>1, <1>3, <1>11, <2>1, <2>3 DEF MissesNothing
<1>12. UndisturbedMissNothing'
  BY <1>1, <1>3, <1>8, <1>11 DEF LogsInv, UndisturbedMissNothing
<1> QED BY <1>4, <1>5, <1>7, <1>9, <1>10, <1>12 DEF LogsInv

LEMMA LookUpLogInv ==
  ASSUME LogsInv, NEW v \in Visits, NEW i \in 1 .. MaxRotated, LookUpLog(v, i)
  PROVE  LogsInv'
<1>1. i \in visit[v].files /\ visit[v] \in LogVisits /\ visit[v].step = "reading"
  BY DEF LookUpLog, LogsInv, LogsTypeOK
<1>2. CASE log_cache[i].known
  <2>1. visit' = [visit EXCEPT ![v].missed = @ \ {i}, ![v].files = @ \ {i},
                               ![v].parsed = @ \cup log_cache[i].lines]
    <3>1. visit' = [visit EXCEPT ![v] = [visit[v] EXCEPT !.files = @ \ {i},
                                                         !.parsed = @ \cup log_cache[i].lines]]
      BY <1>2 DEF LookUpLog
    <3>2. visit[v] = [visit[v] EXCEPT !.missed = @ \ {i}]
      BY <1>1 DEF LookUpLog, LogVisits
    <3> QED BY <3>1, <3>2
  <2>2. /\ log_cache[i].lines \subseteq rotated[i].lines
        /\ ~excused => log_cache[i].lines = rotated[i].lines
    BY <1>2 DEF LogsInv, CacheIsOfFiles, AllPlayersKnown
  <2>3. UNCHANGED <<debug, whitelist, latest, rotated, log_cache, excused>>
    BY DEF LookUpLog
  <2>4. CountsFile(v, i, log_cache[i].lines)
    BY <1>1, <2>1, <2>2, <2>3 DEF CountsFile
  <2> QED BY <2>4, CountFileInv
<1>3. CASE ~log_cache[i].known
  <2>1. /\ UNCHANGED <<debug, whitelist, latest, rotated, log_cache, excused>>
        /\ Logged' = Logged
    BY DEF LookUpLog, Logged
  <2>2. visit' = [visit EXCEPT ![v].missed = @ \cup {i}]
    BY <1>3 DEF LookUpLog
  <2>3. \A w \in Visits :
          /\ visit'[w].files = visit[w].files /\ visit'[w].step = visit[w].step
          /\ visit'[w].whitelist = visit[w].whitelist /\ visit'[w].parsed = visit[w].parsed
          /\ visit'[w].latest = visit[w].latest /\ visit'[w].upto = visit[w].upto
          /\ visit'[w].disturbed = visit[w].disturbed
          /\ visit'[w].missed \subseteq visit[w].missed \cup visit[w].files
    BY <1>1, <2>2 DEF LogsInv, LogsTypeOK, LogVisits
  <2>4. LogsTypeOK'
    <3>1. visit' \in [Visits -> LogVisits]
      BY <1>1, <2>2 DEF LogsInv, LogsTypeOK, LogVisits
    <3> QED BY <2>1, <3>1 DEF LogsInv, LogsTypeOK
  <2>5. LinesNumbered' /\ CacheIsOfFiles'
    BY <2>1 DEF LogsInv, LinesNumbered, CacheIsOfFiles
  <2>6. ReadApart' /\ AllPlayersKnown'
    BY <2>1, <2>3 DEF LogsInv, ReadApart, AllPlayersKnown
  <2>7. \A w \in Visits : MissesNothing(w)' = MissesNothing(w)
    BY <2>1, <2>3 DEF MissesNothing, Remaining
  <2>8. UndisturbedMissNothing'
    BY <2>1, <2>3, <2>7 DEF LogsInv, UndisturbedMissNothing
  <2> QED BY <2>4, <2>5, <2>6, <2>8 DEF LogsInv
<1> QED BY <1>2, <1>3

LEMMA ParseRotatedInv ==
  ASSUME LogsInv, NEW v \in Visits, NEW i \in 1 .. MaxRotated, ParseRotated(v, i)
  PROVE  LogsInv'
<1> DEFINE records == IF rotated[i].whole THEN ParseLog(rotated[i].lines, visit[v].whitelist) ELSE {}
<1>1. i \in visit[v].files /\ visit[v].step = "reading"
  BY DEF ParseRotated, LogsInv, ReadApart
<1>2. records \subseteq rotated[i].lines
  BY ParseLogKeeps
<1>3. (~excused /\ rotated[i].whole) => records = rotated[i].lines
  BY <1>1, ParseLogKeeps DEF LogsInv, AllPlayersKnown
<1>4. /\ UNCHANGED <<debug, whitelist, latest, rotated, excused>>
      /\ log_cache' = IF rotated[i].whole
                      THEN [log_cache EXCEPT ![i] = [known |-> TRUE, lines |-> records]]
                      ELSE log_cache
      /\ visit' = [visit EXCEPT ![v].missed = @ \ {i}, ![v].files = @ \ {i},
                                ![v].parsed = @ \cup records]
  BY DEF ParseRotated
<1> HIDE DEF records
<1>5. CountsFile(v, i, records)
  BY <1>1, <1>2, <1>3, <1>4 DEF CountsFile
<1> QED BY <1>5, CountFileInv

\* Files that change only disturb the requests that are reading.
LEMMA DisturbsOnly ==
  ASSUME LogsInv, visit' = DisturbVisits(visit)
  PROVE  /\ visit' \in [Visits -> LogVisits]
         /\ \A v \in Visits :
              /\ visit'[v].files = visit[v].files /\ visit'[v].step = visit[v].step
              /\ visit'[v].whitelist = visit[v].whitelist /\ visit'[v].parsed = visit[v].parsed
              /\ visit'[v].latest = visit[v].latest /\ visit'[v].upto = visit[v].upto
              /\ visit'[v].missed = visit[v].missed
              /\ visit[v].step \in {"listing", "listed", "reading"} => visit'[v].disturbed
              /\ ~visit'[v].disturbed => ~visit[v].disturbed
<1>1. ASSUME NEW v \in Visits
      PROVE  /\ visit'[v] = IF v \in Reading THEN [visit[v] EXCEPT !.disturbed = TRUE] ELSE visit[v]
             /\ visit[v] \in LogVisits
             /\ v \in Reading <=> visit[v].step \in {"listing", "listed", "reading"}
  BY DEF DisturbVisits, Reading, LogsInv, LogsTypeOK
<1>2. DOMAIN visit' = Visits /\ visit' = [v \in Visits |-> visit'[v]]
  BY DEF DisturbVisits
<1>3. ASSUME NEW v \in Visits
      PROVE  visit'[v] \in LogVisits
  <2>1. visit[v] \in LogVisits => [visit[v] EXCEPT !.disturbed = TRUE] \in LogVisits
    BY DEF LogVisits
  <2> QED BY <1>1, <2>1
<1>4. visit' \in [Visits -> LogVisits]
  BY <1>2, <1>3
<1> QED BY <1>1, <1>4 DEF LogVisits

LEMMA DisturbedMissNothing ==
  ASSUME LogsInv, visit' = DisturbVisits(visit), debug' = debug, excused => excused'
  PROVE  UndisturbedMissNothing'
<1> SUFFICES ASSUME debug, ~excused, NEW v \in Visits, ~visit'[v].disturbed
             PROVE  MissesNothing(v)'
  BY DEF UndisturbedMissNothing
<1>1. /\ ~visit[v].disturbed /\ visit[v].step \notin {"listing", "listed", "reading"}
      /\ visit'[v].step = visit[v].step /\ visit'[v].files = visit[v].files
      /\ visit'[v].parsed = visit[v].parsed /\ visit'[v].latest = visit[v].latest
      /\ visit'[v].upto = visit[v].upto
  BY DisturbsOnly
<1>2. MissesNothing(v) /\ visit[v].files = {}
  BY <1>1 DEF LogsInv, UndisturbedMissNothing, ReadApart, LogsTypeOK, LogVisits, VisitSteps
<1> QED BY <1>1, <1>2 DEF MissesNothing, Remaining

LEMMA LogInv ==
  ASSUME LogsInv, Log
  PROVE  LogsInv'
<1>1. PICK p \in whitelist : latest' = latest \cup {[n |-> Cardinality(Logged) + 1, player |-> p]}
  BY DEF Log
<1> DEFINE new == [n |-> Cardinality(Logged) + 1, player |-> p]
<1>2. /\ UNCHANGED <<debug, whitelist, rotated, log_cache, visit, excused>>
      /\ latest' = latest \cup {new}
      /\ Logged' = Logged \cup {new}
  BY <1>1 DEF Log, Logged
<1>3. Cardinality(Logged) \in Nat /\ IsFiniteSet(Logged) /\ Logged \subseteq LogLines
  BY FS_CardinalityType, LogTypes DEF LogsInv, LinesNumbered
<1>4. new \in LogLines /\ new.n = Cardinality(Logged) + 1 /\ new.player = p
  BY <1>3 DEF LogLines, LogsInv, LogsTypeOK
<1>5. new \notin Logged
  <2>1. new.n \notin {l.n : l \in Logged}
    BY <1>3, <1>4 DEF LogsInv, LinesNumbered
  <2> QED BY <2>1
<1> HIDE DEF new
<1>6. LogsTypeOK'
  BY <1>2, <1>4 DEF LogsInv, LogsTypeOK
<1>7. LinesNumbered'
  <2>1. IsFiniteSet(Logged') /\ Cardinality(Logged') = Cardinality(Logged) + 1
    BY <1>2, <1>3, <1>5, FS_AddElement
  <2>2. {l.n : l \in Logged'} = {l.n : l \in Logged} \cup {new.n}
    BY <1>2
  <2>3. {l.n : l \in Logged'} = 1 .. (Cardinality(Logged) + 1)
    <3>1. {l.n : l \in Logged} = 1 .. Cardinality(Logged)
      BY DEF LogsInv, LinesNumbered
    <3>2. \A c \in Nat : (1 .. c) \cup {c + 1} = 1 .. (c + 1)
      OBVIOUS
    <3> QED BY <1>3, <1>4, <2>2, <3>1, <3>2
  <2>4. \A i \in DOMAIN rotated : rotated[i].lines \cap latest' = {}
    BY <1>2, <1>5, LogTypes DEF LogsInv, LinesNumbered
  <2> QED BY <1>2, <2>1, <2>3, <2>4 DEF LinesNumbered
<1>8. CacheIsOfFiles' /\ ReadApart'
  BY <1>2 DEF LogsInv, CacheIsOfFiles, ReadApart
<1>9. AllPlayersKnown'
  BY <1>2, <1>4 DEF LogsInv, AllPlayersKnown
<1>10. UndisturbedMissNothing'
  BY <1>2 DEF LogsInv, UndisturbedMissNothing, MissesNothing, Remaining
<1> QED BY <1>6, <1>7, <1>8, <1>9, <1>10 DEF LogsInv

LEMMA RotateInv ==
  ASSUME LogsInv, Rotate
  PROVE  LogsInv'
<1> DEFINE file == [lines |-> latest, whole |-> FALSE]
<1>1. /\ UNCHANGED <<debug, whitelist, log_cache, excused>>
      /\ rotated' = Append(rotated, file) /\ latest' = {}
      /\ Len(rotated) < MaxRotated
      /\ visit' = DisturbVisits(visit)
  BY DEF Rotate
<1>2. /\ rotated \in Seq([lines : SUBSET LogLines, whole : BOOLEAN])
      /\ file \in [lines : SUBSET LogLines, whole : BOOLEAN]
      /\ file.lines = latest
  BY DEF LogsInv, LogsTypeOK
<1> HIDE DEF file
<1>3. /\ rotated' \in Seq([lines : SUBSET LogLines, whole : BOOLEAN])
      /\ Len(rotated) \in Nat /\ Len(rotated') = Len(rotated) + 1
      /\ DOMAIN rotated = 1 .. Len(rotated)
      /\ DOMAIN rotated' = DOMAIN rotated \cup {Len(rotated) + 1}
      /\ \A i \in DOMAIN rotated : rotated'[i] = rotated[i]
      /\ rotated'[Len(rotated) + 1] = file
  BY <1>1, <1>2, AppendProperties
<1>4. Logged' = Logged
  <2>1. {rotated'[i].lines : i \in DOMAIN rotated'} = {rotated[i].lines : i \in DOMAIN rotated} \cup {latest}
    BY <1>2, <1>3
  <2> QED BY <1>1, <2>1 DEF Logged
<1>5. LogsTypeOK'
  <2>1. Len(rotated') <= MaxRotated
    BY <1>1, <1>3, LogsAssumption
  <2> QED BY <1>1, <1>3, <2>1, DisturbsOnly DEF LogsInv, LogsTypeOK
<1>6. LinesNumbered'
  BY <1>1, <1>4 DEF LogsInv, LinesNumbered
<1>7. CacheIsOfFiles'
  BY <1>1, <1>3 DEF LogsInv, CacheIsOfFiles
<1>8. ReadApart'
  <2>1. \A v \in Visits : visit[v].files \subseteq DOMAIN rotated
    BY DEF LogsInv, ReadApart
  <2> QED BY <1>1, <1>3, <2>1, DisturbsOnly DEF LogsInv, ReadApart
<1>9. AllPlayersKnown'
  <2>1. \A v \in Visits : visit[v].files \subseteq DOMAIN rotated
    BY DEF LogsInv, ReadApart
  <2>2. \A i \in 1 .. MaxRotated : log_cache[i].known => i \in DOMAIN rotated
    BY DEF LogsInv, CacheIsOfFiles
  <2> QED BY <1>1, <1>3, <1>4, <2>1, <2>2, DisturbsOnly DEF LogsInv, AllPlayersKnown
<1>10. UndisturbedMissNothing'
  BY <1>1, DisturbedMissNothing
<1> QED BY <1>5, <1>6, <1>7, <1>8, <1>9, <1>10 DEF LogsInv

LEMMA CompressedInv ==
  ASSUME LogsInv, Compressed
  PROVE  LogsInv'
<1>1. PICK k \in DOMAIN rotated : rotated' = [rotated EXCEPT ![k].whole = TRUE]
  BY DEF Compressed
<1>2. /\ UNCHANGED <<debug, whitelist, latest, log_cache, excused>>
      /\ visit' = DisturbVisits(visit)
  BY DEF Compressed
<1>3. /\ rotated \in Seq([lines : SUBSET LogLines, whole : BOOLEAN])
      /\ k \in 1 .. Len(rotated) /\ Len(rotated) \in Nat
      /\ rotated[k] \in [lines : SUBSET LogLines, whole : BOOLEAN]
  <2>1. rotated \in Seq([lines : SUBSET LogLines, whole : BOOLEAN])
    BY DEF LogsInv, LogsTypeOK
  <2>2. k \in 1 .. Len(rotated) /\ Len(rotated) \in Nat
    BY <2>1
  <2> QED BY <2>1, <2>2, ElementOfSeq
<1>4. /\ rotated' \in Seq([lines : SUBSET LogLines, whole : BOOLEAN])
      /\ Len(rotated') = Len(rotated) /\ DOMAIN rotated' = DOMAIN rotated
      /\ \A i \in DOMAIN rotated : rotated'[i].lines = rotated[i].lines
  <2>1. [rotated[k] EXCEPT !.whole = TRUE] \in [lines : SUBSET LogLines, whole : BOOLEAN]
    BY <1>3
  <2>2. rotated' = [rotated EXCEPT ![k] = [rotated[k] EXCEPT !.whole = TRUE]]
    BY <1>1
  <2> QED BY <1>3, <2>1, <2>2, ExceptSeq
<1>5. Logged' = Logged
  BY <1>2, <1>4 DEF Logged
<1>6. LogsTypeOK'
  BY <1>2, <1>4, DisturbsOnly DEF LogsInv, LogsTypeOK
<1>7. LinesNumbered' /\ CacheIsOfFiles'
  BY <1>2, <1>4, <1>5 DEF LogsInv, LinesNumbered, CacheIsOfFiles
<1>8. ReadApart'
  BY <1>4, <1>2, DisturbsOnly DEF LogsInv, ReadApart
<1>9. AllPlayersKnown'
  <2>1. \A v \in Visits : visit[v].files \subseteq DOMAIN rotated
    BY DEF LogsInv, ReadApart
  <2>2. \A i \in 1 .. MaxRotated : log_cache[i].known => i \in DOMAIN rotated
    BY DEF LogsInv, CacheIsOfFiles
  <2> QED BY <1>2, <1>4, <1>5, <2>1, <2>2, DisturbsOnly DEF LogsInv, AllPlayersKnown
<1>10. UndisturbedMissNothing'
  BY <1>2, DisturbedMissNothing
<1> QED BY <1>6, <1>7, <1>8, <1>9, <1>10 DEF LogsInv

LEMMA ChangeWhitelistInv ==
  ASSUME LogsInv, ChangeWhitelist
  PROVE  LogsInv'
<1>1. /\ UNCHANGED <<debug, latest, rotated, log_cache>> /\ Logged' = Logged
      /\ visit' = DisturbVisits(visit)
      /\ whitelist' \subseteq Players
      /\ excused' \in BOOLEAN
      /\ ~excused' => /\ ~excused /\ whitelist \subseteq whitelist'
                      /\ \A v \in Visits : visit[v].step # "listing"
  BY DEF ChangeWhitelist, Logged, LogsInv, LogsTypeOK
<1>2. LogsTypeOK'
  BY <1>1, DisturbsOnly DEF LogsInv, LogsTypeOK
<1>3. LinesNumbered' /\ CacheIsOfFiles'
  BY <1>1 DEF LogsInv, LinesNumbered, CacheIsOfFiles
<1>4. ReadApart'
  BY <1>1, DisturbsOnly DEF LogsInv, ReadApart
<1>5. AllPlayersKnown'
  BY <1>1, DisturbsOnly DEF LogsInv, AllPlayersKnown
<1>6. UndisturbedMissNothing'
  BY <1>1, DisturbedMissNothing
<1> QED BY <1>2, <1>3, <1>4, <1>5, <1>6 DEF LogsInv

LEMMA LogsStepInv == LogsInv /\ [LogsNext]_logVars => LogsInv'
<1> SUFFICES ASSUME LogsInv, [LogsNext]_logVars
             PROVE  LogsInv'
  OBVIOUS
<1>1. ASSUME NEW v \in Visits, ReadWhitelist(v) \/ ListLogs(v) \/ CountLines(v)
      PROVE  LogsInv'
  BY <1>1, QuietVisitInv
<1>2. ASSUME NEW v \in Visits, ReadLatest(v)
      PROVE  LogsInv'
  BY <1>2, ReadLatestInv
<1>3. ASSUME NEW v \in Visits, NEW i \in 1 .. MaxRotated, LookUpLog(v, i) \/ ParseRotated(v, i)
      PROVE  LogsInv'
  BY <1>3, LookUpLogInv, ParseRotatedInv
<1>4. CASE Log
  BY <1>4, LogInv
<1>5. CASE Rotate
  BY <1>5, RotateInv
<1>6. CASE Compressed
  BY <1>6, CompressedInv
<1>7. CASE ChangeWhitelist
  BY <1>7, ChangeWhitelistInv
<1>8. CASE UNCHANGED logVars
  BY <1>8 DEF logVars, LogsInv, LogsTypeOK, LinesNumbered, CacheIsOfFiles, ReadApart,
              AllPlayersKnown, UndisturbedMissNothing, MissesNothing, Remaining, Logged
<1> QED BY <1>1, <1>2, <1>3, <1>4, <1>5, <1>6, <1>7, <1>8 DEF LogsNext

\* However often the logs are rotated while requests read them (logs.rs, parse_logs), and
\* whatever is cached, no line is counted twice; and a request that nothing disturbs
\* counts every line, for any requests, players, lines and rotations.
THEOREM LogsAreCounted == LogsSpec => []LogsCountedOnce
<1>1. LogsInv => LogsCountedOnce
  <2> SUFFICES ASSUME LogsInv, NEW v \in Visits, visit[v].step = "counted"
               PROVE  /\ visit[v].parsed \cap visit[v].latest = {}
                      /\ (debug /\ ~excused /\ ~visit[v].disturbed) =>
                           {l.n : l \in visit[v].parsed \cup visit[v].latest} = 1 .. visit[v].upto
    BY DEF LogsCountedOnce
  <2>1. visit[v].parsed \cap visit[v].latest = {} /\ visit[v].files = {}
    BY DEF LogsInv, ReadApart
  <2>2. Remaining(v) = {}
    BY <2>1 DEF Remaining
  <2> QED BY <2>1, <2>2 DEF LogsInv, UndisturbedMissNothing, MissesNothing
<1> QED BY <1>1, LogsInitInv, LogsStepInv, PTL DEF LogsSpec

-----------------------------------------------------------------------------
(***************************************************************************)
(* MinecraftDeaths.                                                        *)
(***************************************************************************)

LEMMA LeastNat ==
  ASSUME NEW T \in SUBSET Nat, T # {}
  PROVE  \E m \in T : \A n \in T : m <= n
<1>1. PICK m \in T : \A n \in T : ~(<<n, m>> \in OpToRel(<, Nat))
  BY NatLessThanWellFounded, WFMin
<1>2. ASSUME NEW n \in T PROVE m <= n
  <2>1. <<n, m>> \notin {p \in Nat \X Nat : p[1] < p[2]}
    BY <1>1, Zenon DEF OpToRel
  <2> QED BY <2>1
<1> QED BY <1>2

\* How Total adds up a chart: label by label, in any order.
Any(s) == CHOOSE x \in s : TRUE

AddUp(f, g, s) == IF s = {} THEN 0 ELSE f[Any(s)] + g[s \ {Any(s)}]

Sums(f) == CHOOSE g : g = [s \in SUBSET DOMAIN f |-> AddUp(f, g, s)]

LEMMA TotalIsSum == ASSUME NEW f PROVE Total(f) = Sums(f)[DOMAIN f]
BY DEF Total, MapThenSumSet, MapThenFoldSet, Sums, AddUp, Any

\* Sums is by recursion on the labels, of which there are finitely many.
UpTo(f, n) == {s \in SUBSET DOMAIN f : Cardinality(s) <= n}

SumsUpTo(f, g, n) == g = [s \in UpTo(f, n) |-> AddUp(f, g, s)]

LEMMA RemoveAny ==
  ASSUME NEW s, IsFiniteSet(s), s # {}
  PROVE  /\ Any(s) \in s /\ IsFiniteSet(s \ {Any(s)})
         /\ Cardinality(s) \in Nat /\ Cardinality(s \ {Any(s)}) \in Nat
         /\ Cardinality(s \ {Any(s)}) + 1 = Cardinality(s)
<1>1. Any(s) \in s
  BY DEF Any
<1> DEFINE x == Any(s)
<1> HIDE DEF x
<1>2. /\ IsFiniteSet(s \ {x}) /\ Cardinality(s \ {x}) = Cardinality(s) - 1
      /\ Cardinality(s) \in Nat
  BY <1>1, FS_RemoveElement, FS_CardinalityType DEF x
<1>3. Cardinality(s \ {x}) \in Nat
  BY <1>2, FS_CardinalityType
<1> QED BY <1>1, <1>2, <1>3 DEF x

LEMMA SumsStep ==
  ASSUME NEW f, IsFiniteSet(DOMAIN f), NEW n \in Nat, NEW g, SumsUpTo(f, g, n)
  PROVE  SumsUpTo(f, [s \in UpTo(f, n + 1) |-> AddUp(f, g, s)], n + 1)
<1> DEFINE h == [s \in UpTo(f, n + 1) |-> AddUp(f, g, s)]
<1>1. \A s \in UpTo(f, n) : g[s] = AddUp(f, g, s)
  BY DEF SumsUpTo
<1>2. UpTo(f, n) \subseteq UpTo(f, n + 1)
  <2> SUFFICES ASSUME NEW s \in UpTo(f, n)
               PROVE  s \in UpTo(f, n + 1)
    OBVIOUS
  <2>1. Cardinality(s) \in Nat /\ Cardinality(s) <= n
    BY FS_Subset, FS_CardinalityType DEF UpTo
  <2> QED BY <2>1 DEF UpTo
<1>3. \A s \in UpTo(f, n) : h[s] = g[s]
  BY <1>1, <1>2
<1>4. ASSUME NEW s \in UpTo(f, n + 1), s # {}
      PROVE  s \ {Any(s)} \in UpTo(f, n)
  <2>1. s \subseteq DOMAIN f /\ Cardinality(s) <= n + 1 /\ IsFiniteSet(s)
    BY FS_Subset DEF UpTo
  <2>2. Cardinality(s \ {Any(s)}) <= n
    BY <1>4, <2>1, RemoveAny
  <2> QED BY <2>1, <2>2 DEF UpTo
<1>5. \A s \in UpTo(f, n + 1) : AddUp(f, h, s) = AddUp(f, g, s)
  <2> HIDE DEF h
  <2> SUFFICES ASSUME NEW s \in UpTo(f, n + 1), s # {}
               PROVE  AddUp(f, h, s) = AddUp(f, g, s)
    BY DEF AddUp
  <2>1. h[s \ {Any(s)}] = g[s \ {Any(s)}]
    BY <1>3, <1>4
  <2> QED BY <2>1 DEF AddUp
<1> QED BY <1>5 DEF SumsUpTo

LEMMA SumsExist ==
  ASSUME NEW f, IsFiniteSet(DOMAIN f), NEW n \in Nat
  PROVE  \E g : SumsUpTo(f, g, n)
<1> DEFINE Without == {k \in Nat : ~\E g : SumsUpTo(f, g, k)}
<1> SUFFICES ASSUME Without # {} PROVE FALSE
  OBVIOUS
<1>1. PICK m \in Without : \A k \in Without : m <= k
  BY LeastNat
<1>2. m # 0
  <2> DEFINE g == [s \in UpTo(f, 0) |-> 0]
  <2>1. ASSUME NEW s \in UpTo(f, 0) PROVE s = {}
    <3>1. IsFiniteSet(s) /\ Cardinality(s) \in Nat /\ Cardinality(s) <= 0
      BY FS_Subset, FS_CardinalityType DEF UpTo
    <3>2. Cardinality(s) = 0
      BY <3>1
    <3> QED BY <3>1, <3>2, FS_EmptySet
  <2>2. SumsUpTo(f, g, 0)
    BY <2>1 DEF SumsUpTo, AddUp
  <2> QED BY <2>2
<1>3. m - 1 \in Nat /\ m - 1 \notin Without /\ (m - 1) + 1 = m
  BY <1>1, <1>2
<1>4. PICK g : SumsUpTo(f, g, m - 1)
  BY <1>3
<1>5. SumsUpTo(f, [s \in UpTo(f, m) |-> AddUp(f, g, s)], m)
  BY <1>3, <1>4, SumsStep
<1> QED BY <1>1, <1>5

LEMMA SumsAddUp ==
  ASSUME NEW f, IsFiniteSet(DOMAIN f)
  PROVE  \A s \in SUBSET DOMAIN f : Sums(f)[s] = AddUp(f, Sums(f), s)
<1>1. Cardinality(DOMAIN f) \in Nat
  BY FS_CardinalityType
<1>2. UpTo(f, Cardinality(DOMAIN f)) = SUBSET DOMAIN f
  BY FS_Subset DEF UpTo
<1>3. PICK g : SumsUpTo(f, g, Cardinality(DOMAIN f))
  BY <1>1, SumsExist
<1>4. g = [s \in SUBSET DOMAIN f |-> AddUp(f, g, s)]
  BY <1>2, <1>3 DEF SumsUpTo
<1>5. Sums(f) = [s \in SUBSET DOMAIN f |-> AddUp(f, Sums(f), s)]
  BY <1>4, Zenon DEF Sums
<1> DEFINE S == Sums(f)
<1> HIDE DEF S
<1>6. S = [s \in SUBSET DOMAIN f |-> AddUp(f, S, s)]
  BY <1>5 DEF S
<1>7. \A s \in SUBSET DOMAIN f : S[s] = AddUp(f, S, s)
  BY <1>6
<1> QED BY <1>7 DEF S

\* A chart that counts, for each label, those of D that have it adds up to all of D.
LEMMA TotalCounts ==
  ASSUME NEW f, IsFiniteSet(DOMAIN f), NEW D, IsFiniteSet(D), NEW label,
         \A i \in D : label[i] \in DOMAIN f,
         \A l \in DOMAIN f : f[l] = Cardinality({i \in D : label[i] = l})
  PROVE  Total(f) = Cardinality(D)
<1> DEFINE With(s) == {i \in D : label[i] \in s}
           Wrong == {n \in Nat : \E s \in SUBSET DOMAIN f :
                       Cardinality(s) = n /\ Sums(f)[s] # Cardinality(With(s))}
<1>1. ASSUME Wrong # {} PROVE FALSE
  <2>1. PICK n \in Wrong : \A k \in Wrong : n <= k
    BY <1>1, LeastNat
  <2>2. PICK s \in SUBSET DOMAIN f : Cardinality(s) = n /\ Sums(f)[s] # Cardinality(With(s))
    BY <2>1
  <2>3. Sums(f)[s] = AddUp(f, Sums(f), s) /\ IsFiniteSet(s)
    BY SumsAddUp, FS_Subset
  <2>4. CASE s = {}
    <3>1. With(s) = {}
      BY <2>4
    <3>2. Cardinality(With(s)) = 0
      BY <3>1, FS_EmptySet
    <3> QED BY <2>2, <2>3, <2>4, <3>2 DEF AddUp
  <2>5. CASE s # {}
    <3> DEFINE x == Any(s)
               rest == s \ {Any(s)}
               its == {i \in D : label[i] = x}
    <3>1. /\ x \in s /\ rest \in SUBSET DOMAIN f
          /\ Cardinality(rest) \in Nat /\ Cardinality(rest) + 1 = n
      BY <2>2, <2>3, <2>5, RemoveAny
    <3>2. Sums(f)[s] = f[x] + Sums(f)[rest]
      BY <2>3, <2>5 DEF AddUp
    <3>3. With(s) = its \cup With(rest) /\ its \cap With(rest) = {}
      BY <3>1
    <3> HIDE DEF x, rest
    <3>4. Sums(f)[rest] = Cardinality(With(rest))
      <4>1. Cardinality(rest) \notin Wrong
        BY <2>1, <3>1
      <4> QED BY <3>1, <4>1
    <3>5. f[x] = Cardinality(its)
      BY <3>1
    <3>6. IsFiniteSet(its) /\ IsFiniteSet(With(rest))
      BY FS_Subset
    <3> HIDE DEF its, With
    <3>7. /\ Cardinality(With(s)) = Cardinality(its) + Cardinality(With(rest)) - Cardinality({})
          /\ Cardinality(its) \in Nat /\ Cardinality(With(rest)) \in Nat
      BY <3>3, <3>6, FS_Union, FS_CardinalityType
    <3>8. Cardinality({}) = 0
      BY FS_EmptySet
    <3> QED BY <2>2, <3>2, <3>4, <3>5, <3>7, <3>8
  <2> QED BY <2>4, <2>5
<1>2. DOMAIN f \in SUBSET DOMAIN f /\ Cardinality(DOMAIN f) \in Nat
  BY FS_CardinalityType
<1>3. Sums(f)[DOMAIN f] = Cardinality(With(DOMAIN f))
  BY <1>1, <1>2
<1>4. With(DOMAIN f) = D
  OBVIOUS
<1> QED BY <1>3, <1>4, TotalIsSum

Places == DOMAIN died

DeathsTypeOK == died \in Seq([name : Names, day : DOMAIN YearOf, message : Messages])

\* The logs are in the order of time, so that the first death is on the first day.
InOrder == \A i, j \in Places : i <= j => died[i].day <= died[j].day

LEMMA PlacesFinite ==
  ASSUME DeathsTypeOK, NEW ds \in SUBSET Places
  PROVE  /\ ds \in SUBSET Nat /\ IsFiniteSet(ds)
         /\ \A i \in ds : died[i] \in [name : Names, day : DOMAIN YearOf, message : Messages]
<1>1. Places = 1 .. Len(died) /\ Len(died) \in Nat
  BY DEF DeathsTypeOK, Places
<1>2. IsFiniteSet(1 .. Len(died))
  BY <1>1, FS_Interval
<1>3. ASSUME NEW i \in ds
      PROVE  died[i] \in [name : Names, day : DOMAIN YearOf, message : Messages]
  BY <1>1, ElementOfSeq DEF DeathsTypeOK
<1>4. IsFiniteSet(ds)
  BY <1>1, <1>2, FS_Subset
<1>5. ds \in SUBSET Nat
  BY <1>1
<1> QED BY <1>3, <1>4, <1>5

LEMMA FirstAndLast ==
  ASSUME DeathsTypeOK, NEW ds \in SUBSET Places, ds # {}
  PROVE  /\ Min(ds) \in ds /\ Max(ds) \in ds
         /\ \A i \in ds : Min(ds) <= i /\ i <= Max(ds)
<1>1. ds \in SUBSET Nat /\ Places = 1 .. Len(died) /\ Len(died) \in Nat
  BY PlacesFinite DEF DeathsTypeOK, Places
<1>2. PICK m \in ds : \A i \in ds : m <= i
  BY <1>1, LeastNat
<1>3. PICK l \in ds : \A i \in ds : i <= l
  <2> DEFINE bounds == {b \in Nat : \A i \in ds : i <= b}
  <2>1. PICK b \in bounds : \A c \in bounds : b <= c
    <3>1. Len(died) \in bounds
      BY <1>1
    <3> QED BY <3>1, LeastNat
  <2>2. b \in ds
    <3> SUFFICES ASSUME b \notin ds PROVE FALSE
      OBVIOUS
    <3>1. b \in Nat /\ \A i \in ds : i \in Nat /\ i <= b /\ i # b
      BY <1>1
    <3>2. b - 1 \in Nat /\ \A i \in ds : i <= b - 1
      BY <1>2, <3>1
    <3> QED BY <2>1, <3>1, <3>2
  <2> QED BY <2>2
<1>4. Min(ds) \in ds /\ \A i \in ds : Min(ds) <= i
  BY <1>2 DEF Min
<1>5. Max(ds) \in ds /\ \A i \in ds : i <= Max(ds)
  BY <1>3 DEF Max
<1> QED BY <1>4, <1>5

\* The walk over the days meets every day somebody died, and comes to an end.
LEMMA WalkMeetsAll ==
  ASSUME DeathsTypeOK, InOrder, NEW ds \in SUBSET Places, ds # {}
  PROVE  /\ \A i \in ds : died[i].day \in DayRange(ds)
         /\ IsFiniteSet(DayRange(ds))
<1>1. \A i \in ds : died[i].day \in DOMAIN YearOf /\ i \in Places
  BY PlacesFinite
<1>2. \A i \in ds : died[Min(ds)].day <= died[i].day /\ died[i].day <= died[Max(ds)].day
  BY FirstAndLast DEF InOrder
<1>3. \A i \in ds : died[i].day \in DayRange(ds)
  BY <1>1, <1>2 DEF DayRange
<1>4. DayRange(ds) \in SUBSET Nat /\ died[Max(ds)].day \in Nat
      /\ \A d \in DayRange(ds) : d <= died[Max(ds)].day
  BY <1>1, FirstAndLast, DeathsAssumption DEF DayRange
<1>5. IsFiniteSet(DayRange(ds))
  BY <1>4, FS_BoundedSetOfNaturals
<1> QED BY <1>3, <1>5

LEMMA CountByName ==
  ASSUME NEW ds, NEW x
  PROVE  Count(ds, [name |-> x]) = Cardinality({i \in ds : died[i].name = x})
<1>1. {i \in ds : \A f \in DOMAIN [name |-> x] : died[i][f] = [name |-> x][f]}
        = {i \in ds : died[i].name = x}
  OBVIOUS
<1> QED BY <1>1 DEF Count

LEMMA CountByDay ==
  ASSUME NEW ds, NEW x
  PROVE  Count(ds, [day |-> x]) = Cardinality({i \in ds : died[i].day = x})
<1>1. {i \in ds : \A f \in DOMAIN [day |-> x] : died[i][f] = [day |-> x][f]}
        = {i \in ds : died[i].day = x}
  OBVIOUS
<1> QED BY <1>1 DEF Count

LEMMA CountByMessage ==
  ASSUME NEW ds, NEW x
  PROVE  Count(ds, [message |-> x]) = Cardinality({i \in ds : died[i].message = x})
<1>1. {i \in ds : \A f \in DOMAIN [message |-> x] : died[i][f] = [message |-> x][f]}
        = {i \in ds : died[i].message = x}
  OBVIOUS
<1> QED BY <1>1 DEF Count

LEMMA CountByBoth ==
  ASSUME NEW ds, NEW n, NEW d
  PROVE  Count(ds, [name |-> n, day |-> d])
           = Cardinality({i \in ds : died[i].name = n /\ died[i].day = d})
<1>1. {i \in ds : \A f \in DOMAIN [name |-> n, day |-> d] : died[i][f] = [name |-> n, day |-> d][f]}
        = {i \in ds : died[i].name = n /\ died[i].day = d}
  OBVIOUS
<1> QED BY <1>1 DEF Count

\* The labels of finitely many deaths are finitely many.
LEMMA LabelsFinite ==
  ASSUME NEW D, IsFiniteSet(D), NEW label
  PROVE  IsFiniteSet({label[i] : i \in D})
<1> DEFINE L == {label[i] : i \in D}
           f == [i \in D |-> label[i]]
<1>1. f \in Surjection(D, L)
  BY DEF Surjection
<1> HIDE DEF f, L
<1>2. IsFiniteSet(L)
  BY <1>1, FS_Surjection
<1> QED BY <1>2 DEF L

\* What people died of, and each of its parts.
LEMMA PieAddsUp ==
  ASSUME DeathsTypeOK, NEW ds \in SUBSET Places
  PROVE  Total(PieChart(ds)) = Cardinality(ds)
<1> DEFINE label == [i \in ds |-> died[i].message]
<1>1. IsFiniteSet(ds)
  BY PlacesFinite
<1>2. DOMAIN PieChart(ds) = {label[i] : i \in ds}
  BY DEF PieChart
<1>3. ASSUME NEW m \in DOMAIN PieChart(ds)
      PROVE  PieChart(ds)[m] = Cardinality({i \in ds : label[i] = m})
  <2>1. PieChart(ds)[m] = Cardinality({i \in ds : died[i].message = m})
    <3>1. PieChart(ds)[m] = Count(ds, [message |-> m])
      BY DEF PieChart
    <3> QED BY <3>1, CountByMessage
  <2>2. {i \in ds : label[i] = m} = {i \in ds : died[i].message = m}
    OBVIOUS
  <2> QED BY <2>1, <2>2
<1> HIDE DEF label
<1>4. IsFiniteSet(DOMAIN PieChart(ds))
  BY <1>1, <1>2, LabelsFinite
<1>5. \A i \in ds : label[i] \in DOMAIN PieChart(ds)
  BY <1>2
<1> QED BY <1>1, <1>3, <1>4, <1>5, TotalCounts

LEMMA DaysAddUp ==
  ASSUME DeathsTypeOK, InOrder, NEW ds \in SUBSET Places, ds # {}
  PROVE  Total(OverTime(ds)) = Cardinality(ds)
<1> DEFINE label == [i \in ds |-> died[i].day]
<1>1. IsFiniteSet(ds)
  BY PlacesFinite
<1>2. DOMAIN OverTime(ds) = DayRange(ds)
  BY DEF OverTime
<1>3. ASSUME NEW d \in DOMAIN OverTime(ds)
      PROVE  OverTime(ds)[d] = Cardinality({i \in ds : label[i] = d})
  <2>1. OverTime(ds)[d] = Cardinality({i \in ds : died[i].day = d})
    <3>1. OverTime(ds)[d] = Count(ds, [day |-> d])
      BY DEF OverTime
    <3> QED BY <3>1, CountByDay
  <2>2. {i \in ds : label[i] = d} = {i \in ds : died[i].day = d}
    OBVIOUS
  <2> QED BY <2>1, <2>2
<1>4. IsFiniteSet(DOMAIN OverTime(ds)) /\ \A i \in ds : label[i] \in DOMAIN OverTime(ds)
  BY <1>2, WalkMeetsAll
<1> HIDE DEF label
<1> QED BY <1>1, <1>3, <1>4, TotalCounts

LEMMA PlayerDaysAddUp ==
  ASSUME DeathsTypeOK, InOrder, NEW ds \in SUBSET Places, ds # {}, NEW n
  PROVE  Total(OverTimeOf(ds, n)) = Cardinality(Of(ds, n))
<1> DEFINE label == [i \in Of(ds, n) |-> died[i].day]
           days == {d \in DayRange(ds) : d \notin Days(ds) \/ \E i \in ds : died[i].name = n /\ died[i].day = d}
<1>1. IsFiniteSet(Of(ds, n))
  BY PlacesFinite, FS_Subset DEF Of
<1>2. DOMAIN OverTimeOf(ds, n) = days
  BY DEF OverTimeOf
<1>3. ASSUME NEW d \in DOMAIN OverTimeOf(ds, n)
      PROVE  OverTimeOf(ds, n)[d] = Cardinality({i \in Of(ds, n) : label[i] = d})
  <2>1. OverTimeOf(ds, n)[d] = Cardinality({i \in ds : died[i].name = n /\ died[i].day = d})
    <3>1. OverTimeOf(ds, n)[d] = Count(ds, [name |-> n, day |-> d])
      BY DEF OverTimeOf
    <3> QED BY <3>1, CountByBoth
  <2>2. {i \in Of(ds, n) : label[i] = d} = {i \in ds : died[i].name = n /\ died[i].day = d}
    BY DEF Of
  <2> QED BY <2>1, <2>2
<1>4. \A i \in Of(ds, n) : label[i] \in DOMAIN OverTimeOf(ds, n)
  BY <1>2, WalkMeetsAll DEF Of
<1>5. IsFiniteSet(DOMAIN OverTimeOf(ds, n))
  <2>1. days \in SUBSET DayRange(ds)
    OBVIOUS
  <2> QED BY <1>2, <2>1, WalkMeetsAll, FS_Subset
<1> HIDE DEF label, days
<1> QED BY <1>1, <1>3, <1>4, <1>5, TotalCounts

LEMMA PlayersAddUp ==
  ASSUME DeathsTypeOK, NEW ds \in SUBSET Places, NEW f,
         DOMAIN f = {died[i].name : i \in ds},
         \A n \in DOMAIN f : f[n] = Cardinality(Of(ds, n))
  PROVE  Total(f) = Cardinality(ds)
<1> DEFINE label == [i \in ds |-> died[i].name]
<1>1. IsFiniteSet(ds)
  BY PlacesFinite
<1>2. DOMAIN f = {label[i] : i \in ds}
  OBVIOUS
<1>3. ASSUME NEW n \in DOMAIN f
      PROVE  f[n] = Cardinality({i \in ds : label[i] = n})
  <2>1. {i \in ds : label[i] = n} = Of(ds, n)
    BY DEF Of
  <2> QED BY <2>1
<1> HIDE DEF label
<1>4. IsFiniteSet(DOMAIN f)
  BY <1>1, <1>2, LabelsFinite
<1>5. \A i \in ds : label[i] \in DOMAIN f
  BY <1>2
<1> QED BY <1>1, <1>3, <1>4, <1>5, TotalCounts

\* Every page adds up, of whichever deaths it is.
LEMMA PageAddsUp ==
  ASSUME DeathsTypeOK, InOrder, NEW ds \in SUBSET Places, ds # {},
         shown' = DeathsTemplate(ds)
  PROVE  DeathsAddUp'
<1> DEFINE names == {died[i].name : i \in ds}
<1>1. /\ shown'.total = Cardinality(ds)
      /\ shown'.players = [n \in names |-> Player(ds, n)]
      /\ shown'.unique = PieChart(ds) /\ shown'.over_time = OverTime(ds)
  BY DEF DeathsTemplate
<1>2. \A n \in names :
        /\ shown'.players[n].total = Cardinality(Of(ds, n))
        /\ shown'.players[n].over_time = OverTimeOf(ds, n)
        /\ shown'.players[n].unique = PieChart(Of(ds, n))
        /\ shown'.players[n].exclusive =
             {m \in DOMAIN PieChart(Of(ds, n)) : \A i \in ds : died[i].message = m => died[i].name = n}
  <2>1. \A n \in names : Count(ds, [name |-> n]) = Cardinality(Of(ds, n))
    BY CountByName DEF Of
  <2> SUFFICES ASSUME NEW n \in names
               PROVE  /\ shown'.players[n].total = Cardinality(Of(ds, n))
                      /\ shown'.players[n].over_time = OverTimeOf(ds, n)
                      /\ shown'.players[n].unique = PieChart(Of(ds, n))
                      /\ shown'.players[n].exclusive =
                           {m \in DOMAIN PieChart(Of(ds, n)) :
                              \A i \in ds : died[i].message = m => died[i].name = n}
    OBVIOUS
  <2>2. shown'.players[n] = Player(ds, n)
    BY <1>1
  <2> QED BY <2>1, <2>2 DEF Player
<1>3. DOMAIN shown'.players = names
  BY <1>1
<1>4. shown'.total = Total([n \in DOMAIN shown'.players |-> shown'.players[n].total])
  <2> DEFINE f == [n \in DOMAIN shown'.players |-> shown'.players[n].total]
  <2>1. DOMAIN f = {died[i].name : i \in ds} /\ \A n \in DOMAIN f : f[n] = Cardinality(Of(ds, n))
    BY <1>2, <1>3
  <2> HIDE DEF f
  <2>2. Total(f) = Cardinality(ds)
    BY <2>1, PlayersAddUp
  <2> QED BY <1>1, <2>2 DEF f
<1>5. shown'.total = Total(shown'.over_time) /\ shown'.total = Total(shown'.unique)
  BY <1>1, DaysAddUp, PieAddsUp
<1>6. ASSUME NEW n \in names
      PROVE  /\ shown'.players[n].total = Total(shown'.players[n].over_time)
             /\ shown'.players[n].total = Total(shown'.players[n].unique)
  <2>1. Of(ds, n) \in SUBSET Places
    BY DEF Of
  <2> QED BY <1>2, <2>1, PlayerDaysAddUp, PieAddsUp
<1>7. ASSUME NEW n \in names, NEW o \in names \ {n}
      PROVE  shown'.players[n].exclusive \cap DOMAIN shown'.players[o].unique = {}
  <2> SUFFICES ASSUME NEW m \in shown'.players[n].exclusive,
                      m \in DOMAIN shown'.players[o].unique
               PROVE  FALSE
    OBVIOUS
  <2>1. \A i \in ds : died[i].message = m => died[i].name = n
    BY <1>2
  <2>2. m \in DOMAIN PieChart(Of(ds, o))
    BY <1>2
  <2>3. PICK i \in ds : died[i].name = o /\ died[i].message = m
    BY <2>2 DEF PieChart, Of
  <2> QED BY <2>1, <2>3
<1> HIDE DEF names
<1> QED BY <1>3, <1>4, <1>5, <1>6, <1>7 DEF DeathsAddUp

DeathsInv == DeathsTypeOK /\ InOrder /\ DeathsAddUp

LEMMA DieInv ==
  ASSUME DeathsInv, Die
  PROVE  DeathsInv'
<1>1. PICK n \in Names, d \in DOMAIN YearOf, m \in Messages :
        /\ died # <<>> => died[Len(died)].day <= d
        /\ died' = Append(died, [name |-> n, day |-> d, message |-> m])
  BY DEF Die
<1> DEFINE new == [name |-> n, day |-> d, message |-> m]
           Death == [name : Names, day : DOMAIN YearOf, message : Messages]
<1>2. died \in Seq(Death) /\ new \in Death /\ new.day = d /\ died' = Append(died, new)
  BY <1>1 DEF DeathsInv, DeathsTypeOK
<1> HIDE DEF new, Death
<1>3. /\ died' \in Seq(Death)
      /\ Len(died) \in Nat
      /\ DOMAIN died = 1 .. Len(died) /\ DOMAIN died' = 1 .. (Len(died) + 1)
      /\ \A i \in 1 .. Len(died) : died'[i] = died[i]
      /\ died'[Len(died) + 1] = new
  BY <1>2, AppendProperties
<1>4. \A i \in 1 .. Len(died) : died[i].day \in Nat /\ d \in Nat
  <2> SUFFICES ASSUME NEW i \in 1 .. Len(died)
               PROVE  died[i].day \in Nat /\ d \in Nat
    OBVIOUS
  <2>1. died[i] \in Death
    BY <1>2, ElementOfSeq
  <2> QED BY <2>1, DeathsAssumption DEF Death
<1>5. ASSUME NEW i \in 1 .. Len(died)
      PROVE  died[i].day <= d
  <2>1. died # <<>> /\ Len(died) \in 1 .. Len(died) /\ i <= Len(died)
    BY <1>2, <1>3
  <2>2. died[Len(died)].day <= d /\ died[i].day <= died[Len(died)].day
    BY <1>1, <1>3, <2>1 DEF DeathsInv, InOrder, Places
  <2> QED BY <1>4, <2>1, <2>2
<1>6. InOrder'
  <2> SUFFICES ASSUME NEW i \in DOMAIN died', NEW j \in DOMAIN died', i <= j
               PROVE  died'[i].day <= died'[j].day
    BY DEF InOrder, Places
  <2>1. CASE j \in 1 .. Len(died)
    <3>1. i \in 1 .. Len(died)
      BY <1>3, <2>1
    <3> QED BY <1>3, <2>1, <3>1 DEF DeathsInv, InOrder, Places
  <2>2. CASE j = Len(died) + 1 /\ i \in 1 .. Len(died)
    BY <1>2, <1>3, <1>5, <2>2
  <2>3. CASE j = Len(died) + 1 /\ i = Len(died) + 1
    <3>1. new.day \in Nat
      BY <1>2, DeathsAssumption
    <3> QED BY <1>3, <2>3, <3>1
  <2>4. j \in 1 .. Len(died) \/ j = Len(died) + 1
    BY <1>3
  <2>5. i \in 1 .. Len(died) \/ i = Len(died) + 1
    BY <1>3
  <2> QED BY <2>1, <2>2, <2>3, <2>4, <2>5
<1>7. DeathsTypeOK'
  BY <1>3 DEF DeathsTypeOK, Death
<1>8. DeathsAddUp'
  <2>1. shown' = shown
    BY DEF Die
  <2> QED BY <2>1 DEF DeathsInv, DeathsAddUp
<1> QED BY <1>6, <1>7, <1>8 DEF DeathsInv

\* The numbers of the deaths page, which deaths.rs counts in passes of their own, come
\* to the same, for any players, messages, days and years.
THEOREM PagesAddUp == DeathsSpec => []DeathsAddUp
<1>1. DeathsInit => DeathsInv
  <2> SUFFICES ASSUME DeathsInit PROVE DeathsInv
    OBVIOUS
  <2>1. DeathsTypeOK /\ DOMAIN died = {}
    BY DEF DeathsInit, DeathsTypeOK
  <2>2. DeathsAddUp
    BY DEF DeathsInit, Empty, DeathsAddUp
  <2> QED BY <2>1, <2>2 DEF DeathsInv, InOrder, Places
<1>2. DeathsInv /\ [DeathsNext]_deathVars => DeathsInv'
  <2> SUFFICES ASSUME DeathsInv, [DeathsNext]_deathVars
               PROVE  DeathsInv'
    OBVIOUS
  <2>1. ASSUME NEW years, Deaths(years)
        PROVE  DeathsInv'
    <3> DEFINE ds == {i \in DOMAIN died : YearOf[died[i].day] \in years}
    <3>1. /\ died' = died
          /\ shown' = CASE died = <<>> -> Empty
                        [] died # <<>> /\ ds = {} -> Panicked
                        [] OTHER -> DeathsTemplate(ds)
      BY <2>1 DEF Deaths
    <3>2. ds \in SUBSET Places
      BY DEF Places
    <3>3. died = <<>> => ds = {}
      OBVIOUS
    <3> HIDE DEF ds
    <3>4. CASE ds = {}
      <4>1. shown'.outcome # "page"
        BY <3>1, <3>4 DEF Empty, Panicked
      <4> QED BY <3>1, <4>1 DEF DeathsInv, DeathsTypeOK, InOrder, Places, DeathsAddUp
    <3>5. CASE ds # {}
      <4>1. shown' = DeathsTemplate(ds)
        BY <3>1, <3>3, <3>5
      <4>2. DeathsAddUp'
        BY <3>2, <3>5, <4>1, PageAddsUp DEF DeathsInv
      <4> QED BY <3>1, <4>2 DEF DeathsInv, DeathsTypeOK, InOrder, Places
    <3> QED BY <3>4, <3>5
  <2>2. CASE Die
    BY <2>2, DieInv
  <2>3. CASE UNCHANGED deathVars
    BY <2>3 DEF deathVars, DeathsInv, DeathsTypeOK, InOrder, Places, DeathsAddUp
  <2> QED BY <2>1, <2>2, <2>3 DEF DeathsNext
<1> QED BY <1>1, <1>2, PTL DEF DeathsSpec, DeathsInv

=============================================================================
