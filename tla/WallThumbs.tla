----------------------------- MODULE WallThumbs -----------------------------
(***************************************************************************)
(* Thumbnails of wallpapers (server/src/routes/walls.rs): thumb serves the *)
(* file in the thumbnail directory, or makes it when there is none.  It is *)
(* made by a blocking task, which goes on when the browser hangs up,       *)
(* directly under its final name: File::create truncates what another task *)
(* has written, and each task writes on at its own offset.                 *)
(*                                                                         *)
(* One file name is modelled.  The routes of small (also the root's), all  *)
(* and phone take the picture from directories of their own, but have one  *)
(* thumbnail directory, so that a name has one thumbnail.  The picture of  *)
(* each source is a number of pieces, written one after the other.         *)
(***************************************************************************)
EXTENDS Naturals

CONSTANTS
  Viewers,     \* requests for the thumbnail
  PiecesOf,    \* directory :> the pieces of the thumbnail of its picture
  MaxCrashes   \* bound: restarts of the server

Dirs   == DOMAIN PiecesOf
Offsets == UNION {1 .. PiecesOf[d] : d \in Dirs}

ASSUME ThumbsAssumption ==
  /\ PiecesOf \in [Dirs -> Nat \ {0}]
  /\ MaxCrashes \in Nat

VARIABLES
  supported,   \* whether the extension is one create_thumb knows
  source,      \* the directory whose route each request came by
  thumb,       \* the thumbnail file: <<offset, source>> of each piece in it,
               \* and whether it exists
  view,        \* progress of each request
  length,      \* the Content-Length it is answered with, in pieces
  task,        \* progress of each request's blocking task
  written,     \* pieces the task has written
  crashes,     \* restarts so far
  spoilt,      \* history: since a task last began the file alone, one did not
               \* finish, or two wrote it from different sources
  disturbed    \* history: the file the request served was spoilt, or another's
               \* task wrote it meanwhile

thumbVars == <<supported, source, thumb, view, length, task, written, crashes, spoilt,
               disturbed>>

ThumbTypeOK ==
  /\ supported \in BOOLEAN
  /\ source    \in [Viewers -> Dirs]
  /\ thumb     \in [exists : BOOLEAN, pieces : SUBSET (Offsets \X Dirs)]
  /\ view      \in [Viewers -> {"new", "making", "streaming", "whole", "partial",
                                "refused", "failed", "gone"}]
  /\ length    \in [Viewers -> {0} \union Offsets]
  /\ task      \in [Viewers -> {"none", "opening", "writing", "ended", "failed"}]
  /\ written   \in [Viewers -> {0} \union Offsets]
  /\ crashes   \in 0 .. MaxCrashes
  /\ spoilt    \in BOOLEAN
  /\ disturbed \in [Viewers -> BOOLEAN]

ThumbInit ==
  /\ supported \in BOOLEAN
  /\ source    \in [Viewers -> Dirs]
  /\ thumb     = [exists |-> FALSE, pieces |-> {}]
  /\ view      = [v \in Viewers |-> "new"]
  /\ length    = [v \in Viewers |-> 0]
  /\ task      = [v \in Viewers |-> "none"]
  /\ written   = [v \in Viewers |-> 0]
  /\ crashes   = 0
  /\ spoilt    = FALSE
  /\ disturbed = [v \in Viewers |-> FALSE]

-----------------------------------------------------------------------------
Writing == {v \in Viewers : task[v] = "writing"}

Picture(d) == (1 .. PiecesOf[d]) \X {d}

\* A file is as long as its last piece reaches; what lies before a piece is
\* there, if only as a hole.
IsLength(l) ==
  /\ \A q \in thumb.pieces : q[1] <= l
  /\ l = 0 \/ \E q \in thumb.pieces : q[1] = l

\* named_file: the length is that of the file when it is opened.
NamedFile(v) ==
  /\ view'      = [view EXCEPT ![v] = "streaming"]
  /\ \E l \in {0} \union Offsets : IsLength(l) /\ length' = [length EXCEPT ![v] = l]
  /\ disturbed' = [disturbed EXCEPT ![v] = spoilt \/ Writing \ {v} # {}]

\* A step of v's task on the file: whoever streams it is disturbed.
Disturb(v) ==
  disturbed' = [w \in Viewers |-> disturbed[w] \/ (w # v /\ view[w] = "streaming")]

\* Faulty variants, for the properties to refute.

\* Without spawn_blocking the picture is made in the handler, and dropped with it.
HangUpDroppingTask(v) ==
  /\ view[v] \in {"making", "streaming"}
  /\ view' = [view EXCEPT ![v] = "gone"]
  /\ task' = [task EXCEPT ![v] = "none"]
  /\ UNCHANGED <<supported, source, thumb, length, written, crashes, spoilt, disturbed>>

\* The task is spawned and not waited for.
AnswerAtOnce(v) ==
  /\ view[v] = "making"
  /\ thumb.exists
  /\ NamedFile(v)
  /\ UNCHANGED <<supported, source, thumb, task, written, crashes, spoilt>>

-----------------------------------------------------------------------------
\* thumb: an extension that create_thumb does not know is 400.
Thumb(v) ==
  /\ view[v] = "new"
  /\ \/ /\ thumb.exists
        /\ NamedFile(v)
        /\ UNCHANGED task
     \/ /\ ~thumb.exists
        /\ view' = [view EXCEPT ![v] = IF supported THEN "making" ELSE "refused"]
        /\ task' = [task EXCEPT ![v] = IF supported THEN "opening" ELSE "none"]
        /\ UNCHANGED <<length, disturbed>>
  /\ UNCHANGED <<supported, source, thumb, written, crashes, spoilt>>

\* compress_image decodes the picture, compress_gif its header, and then
\* creates the file; without a picture there is no file.
Compress(v) ==
  /\ task[v] = "opening"
  /\ \/ /\ task'  = [task EXCEPT ![v] = "writing"]
        /\ thumb' = [exists |-> TRUE, pieces |-> {}]
        /\ spoilt' = (Writing # {} /\ (spoilt \/ \E w \in Writing : source[w] # source[v]))
        /\ Disturb(v)
     \/ /\ task'  = [task EXCEPT ![v] = "failed"]
        /\ UNCHANGED <<thumb, spoilt, disturbed>>
  /\ UNCHANGED <<supported, source, view, length, written, crashes>>

\* The encoder writes over what is at its offset; a frame of a gif that cannot be
\* decoded, or a full disk, leaves the file as it is.
Encode(v) ==
  /\ task[v] = "writing"
  /\ \/ LET p == written[v] + 1
        IN /\ thumb'   = [thumb EXCEPT !.pieces = {q \in @ : q[1] # p} \cup {<<p, source[v]>>}]
           /\ written' = [written EXCEPT ![v] = p]
           /\ task'    = [task EXCEPT ![v] = IF p = PiecesOf[source[v]] THEN "ended" ELSE "writing"]
           /\ UNCHANGED spoilt
     \/ /\ task' = [task EXCEPT ![v] = "failed"]
        /\ spoilt' = TRUE
        /\ UNCHANGED <<thumb, written>>
  /\ Disturb(v)
  /\ UNCHANGED <<supported, source, view, length, crashes>>

\* create_thumb, when its task is over.
CreateThumb(v) ==
  /\ view[v] = "making"
  /\ \/ task[v] = "ended" /\ NamedFile(v)
     \/ /\ task[v] = "failed"
        /\ view' = [view EXCEPT ![v] = "failed"]
        /\ UNCHANGED <<length, disturbed>>
  /\ UNCHANGED <<supported, source, thumb, task, written, crashes, spoilt>>

\* The body is read from the file as it is by now, up to the length.
Stream(v) ==
  /\ view[v] = "streaming"
  /\ view' = [view EXCEPT ![v] =
       IF \E d \in Dirs : /\ length[v] = PiecesOf[d]
                          /\ {q \in thumb.pieces : q[1] <= length[v]} = Picture(d)
       THEN "whole" ELSE "partial"]
  /\ UNCHANGED <<supported, source, thumb, length, task, written, crashes, spoilt, disturbed>>

\* The browser hangs up.
HangUp(v) ==
  /\ view[v] \in {"making", "streaming"}
  /\ view' = [view EXCEPT ![v] = "gone"]
  /\ UNCHANGED <<supported, source, thumb, length, task, written, crashes, spoilt, disturbed>>

\* The server is stopped, its tasks with it, and started again.
Crash ==
  /\ crashes < MaxCrashes
  /\ crashes' = crashes + 1
  /\ view'    = [v \in Viewers |-> IF view[v] \in {"making", "streaming"} THEN "gone" ELSE view[v]]
  /\ task'    = [v \in Viewers |-> "none"]
  /\ spoilt'  = (spoilt \/ Writing # {})
  /\ UNCHANGED <<supported, source, thumb, length, written, disturbed>>

-----------------------------------------------------------------------------
ThumbNext ==
  \/ \E v \in Viewers : \/ Thumb(v) \/ Compress(v) \/ Encode(v)
                        \/ CreateThumb(v) \/ Stream(v) \/ HangUp(v)
  \/ Crash

ThumbSpec == ThumbInit /\ [][ThumbNext]_thumbVars

-----------------------------------------------------------------------------
\* However many tasks truncate and write one thumbnail over each other, it is the
\* whole picture of one source when the last of them is done, if they have one
\* source and none of them failed or was killed at it.  Otherwise what there is
\* stays, a part or a mixture, and is served from then on.
\* (thumb, create_thumb, compress_image, compress_gif)
ThumbWholeAtRest ==
  (thumb.exists /\ Writing = {} /\ ~spoilt) => \E d \in Dirs : thumb.pieces = Picture(d)

\* A request that is answered with anything but a whole picture, be it another
\* source's, came while another request's task wrote it, or after tasks had
\* spoilt it.  (thumb, named_file)
PartialOnlyIfDisturbed ==
  \A v \in Viewers : view[v] = "partial" => disturbed[v]
=============================================================================
