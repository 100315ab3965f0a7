---------------------------- MODULE SongDownload ----------------------------
(***************************************************************************)
(* `spark backend add-song`, on the device: a song is downloaded by yt-dlp *)
(* to the working directory, or is a file there already, probed, packed    *)
(* with a picture into a temporary file, uploaded, and only then removed,  *)
(* if it was downloaded.  Any step may fail, and several devices' users    *)
(* may run it side by side in one directory.  What the server does with an *)
(* upload is in SongLibrary.                                               *)
(*                                                                         *)
(* A file of the directory is [stem, ext]: yt-dlp names the extension      *)
(* Printed, and may have written another.  It puts the id of the video in  *)
(* the stem, so that files of one name are of one song.                    *)
(***************************************************************************)
EXTENDS FiniteSets

CONSTANTS
  Jobs,      \* runs of add-song
  Titles,    \* stems of the songs' files
  Begins     \* t :> stems that begin with t, t among them

ASSUME DownloadAssumption ==
  Begins \in [Titles -> SUBSET Titles] /\ \A t \in Titles : t \in Begins[t]

Printed == "mkv"
Exts    == {Printed, "opus", "jpg"}
Files   == [stem : Titles, ext : Exts]
IsSong(f) == f.ext # "jpg"

VARIABLES
  own,         \* the files that the user has there from before
  dir,         \* the files in the working directory
  tmp,         \* temporary files, by job and kind
  job,         \* each job: its step, path, what its yt-dlp wrote, and whether
               \* the uri was a path
  uploaded     \* the files that the server has whole

downloadVars == <<own, dir, tmp, job, uploaded>>

NotBegun == [step |-> "new"]

DownloadInit ==
  /\ own \in {{}, {[stem |-> t, ext |-> "opus"] : t \in Titles}}
  /\ dir = own
  /\ tmp = {}
  /\ job = [j \in Jobs |-> NotBegun]
  /\ uploaded = {}

-----------------------------------------------------------------------------
Step(j, from, to) == job[j].step = from /\ job' = [job EXCEPT ![j].step = to]

\* The temporary files are dropped with add_song_file; the file that ffmpeg
\* wrote is not one of them until it is renamed.
Dropped(j) == tmp' = tmp \ {<<j, "thumb">>, <<j, "audio">>}

\* add_song: a uri with http in it goes to dl_song, any other is a path.
AddSong(j) ==
  /\ job[j] = NotBegun
  /\ \/ \E t \in Titles :
          job' = [job EXCEPT ![j] = [step |-> "downloading", local |-> FALSE, made |-> {},
                                     path |-> [stem |-> t, ext |-> Printed]]]
     \/ \E f \in dir : job' = [job EXCEPT ![j] = [step |-> "probing", local |-> TRUE,
                                                 made |-> {}, path |-> f]]
  /\ UNCHANGED <<own, dir, tmp, uploaded>>

\* What yt-dlp may leave for the file it names p: a song, and perhaps the picture
\* it embeds.
Downloads(p) ==
  {fs \in SUBSET {[p EXCEPT !.ext = e] : e \in Exts} : Cardinality({f \in fs : IsSong(f)}) = 1}

\* yt-dlp: a file that is there already is not downloaded again.
DlSong(j) ==
  /\ job[j].step = "downloading"
  /\ \E fs \in IF job[j].path \in dir THEN {{}} ELSE Downloads(job[j].path) :
       /\ dir' = dir \union fs
       /\ job' = [job EXCEPT ![j].step = "finding", ![j].made = fs]
  /\ UNCHANGED <<own, tmp, uploaded>>

\* Without the file that was named: the first in the directory that begins with
\* its stem, or none.
FindFile(j) ==
  LET p == job[j].path
      candidates == IF p \in dir THEN {p} ELSE {f \in dir : f.stem \in Begins[p.stem]}
  IN  /\ job[j].step = "finding"
      /\ \E f \in candidates \union {p} :
           /\ f \in candidates \/ candidates = {}
           /\ job' = [job EXCEPT ![j].step = "probing", ![j].path = f]
      /\ UNCHANGED <<own, dir, tmp, uploaded>>

AudioDuration(j) ==
  /\ Step(j, "probing", "illustrating")
  /\ job[j].path \in dir /\ IsSong(job[j].path)
  /\ UNCHANGED <<own, dir, tmp, uploaded>>

\* With a thumbnail given on the command line none is extracted.
ExtractThumbnail(j) ==
  /\ Step(j, "illustrating", "packing")
  /\ \/ UNCHANGED tmp
     \/ job[j].path \in dir /\ tmp' = tmp \union {<<j, "thumb">>}
  /\ UNCHANGED <<own, dir, uploaded>>

\* extract_audio_and_embed_thumb_cli: ffmpeg writes beside the temporary file.
ExtractAudio(j) ==
  /\ Step(j, "packing", "renaming")
  /\ job[j].path \in dir
  /\ tmp' = tmp \union {<<j, "audio">>, <<j, "mka">>}
  /\ UNCHANGED <<own, dir, uploaded>>

Rename(j) ==
  /\ Step(j, "renaming", "uploading")
  /\ tmp' = tmp \ {<<j, "mka">>}
  /\ UNCHANGED <<own, dir, uploaded>>

UploadAudio(j) ==
  /\ Step(j, "uploading", "dressing")
  /\ uploaded' = uploaded \union {job[j].path}
  /\ UNCHANGED <<own, dir, tmp>>

\* `m new` may fail, and the command succeeds; add_song_file ends.
UploadThumb(j) ==
  /\ Step(j, "dressing", IF job[j].local THEN "done" ELSE "removing")
  /\ Dropped(j)
  /\ UNCHANGED <<own, dir, uploaded>>

\* Faulty: the file that yt-dlp named is removed, if it is there.  No
\* specification uses it: it shows that AddSongCleansUp can fail.
RemoveNamed(j) ==
  /\ Step(j, "removing", "done")
  /\ dir' = dir \ {[job[j].path EXCEPT !.ext = Printed]}
  /\ UNCHANGED <<own, tmp, uploaded>>

\* Only what dl_song returned is removed, the file that was uploaded; it may be
\* gone.  A picture beside it stays.
RemoveFile(j) ==
  /\ Step(j, "removing", IF job[j].path \in dir THEN "done" ELSE "failed")
  /\ dir' = dir \ {job[j].path}
  /\ UNCHANGED <<own, tmp, uploaded>>

Begun == {"downloading", "finding", "probing", "illustrating", "packing", "renaming",
          "uploading", "dressing"}

\* Faulty: the file is removed however add_song_file ended.  No specification
\* uses it: it shows that RemovedAreUploaded can fail.
FailRemoving(j) ==
  /\ job[j].step \in Begun
  /\ job' = [job EXCEPT ![j].step = "failed"]
  /\ Dropped(j)
  /\ dir' = IF job[j].local THEN dir ELSE dir \ {job[j].path}
  /\ UNCHANGED <<own, uploaded>>

\* A program or a request fails: what was downloaded stays, and so does what
\* ffmpeg has written.
Fail(j) ==
  /\ job[j].step \in Begun
  /\ job' = [job EXCEPT ![j].step = "failed"]
  /\ Dropped(j)
  /\ UNCHANGED <<own, dir, uploaded>>

DownloadNext ==
  \E j \in Jobs : \/ AddSong(j) \/ DlSong(j) \/ FindFile(j) \/ AudioDuration(j)
                  \/ ExtractThumbnail(j) \/ ExtractAudio(j) \/ Rename(j)
                  \/ UploadAudio(j) \/ UploadThumb(j) \/ RemoveFile(j) \/ Fail(j)

DownloadSpec == DownloadInit /\ [][DownloadNext]_downloadVars

-----------------------------------------------------------------------------
\* No file leaves the working directory, whether it was downloaded for this job
\* or another, or was the user's and mistaken for a download, before the server
\* has that very file's song.  (add_song, dl_song)
RemovedAreUploaded ==
  [][\A f \in dir \ dir' : IsSong(f) /\ f \in uploaded]_downloadVars

\* A song that is in the directory and was not there from before is the download
\* of a job that still runs, that failed, or that took another file that begins
\* alike for it and uploaded and removed that one; and the temporary files are of
\* jobs that run or failed.  Pictures stay.  (add_song, dl_song, add_song_file)
AddSongCleansUp ==
  /\ \A f \in dir \ own : IsSong(f) =>
       \E j \in Jobs : /\ job[j] # NotBegun
                      /\ f \in job[j].made
                      /\ job[j].step = "done" => job[j].path # f
  /\ \A file \in tmp : job[file[1]].step # "done"
=============================================================================
