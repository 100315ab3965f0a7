----------------------------- MODULE AudioStream -----------------------------
(***************************************************************************)
(* The audio of a song (planar-bridge/src/playlist/mod.rs, audio): passed  *)
(* on as it comes when it is navidrome's, else transcoded by an ffmpeg     *)
(* between two pipes.  A task of its own feeds ffmpeg, so that the answer  *)
(* can be read while it is made; nobody waits for the task or for ffmpeg.  *)
(*                                                                         *)
(* One request is modelled, and the sound as chunks; ffmpeg (external)     *)
(* turns a chunk into a chunk, and dies when nobody reads what it writes.  *)
(***************************************************************************)
EXTENDS Naturals

CONSTANTS
  Chunks,     \* chunks of the song
  PipeSize    \* chunks a pipe holds

ASSUME AudioAssumption == Chunks \in Nat \ {0} /\ PipeSize \in Nat \ {0}

VARIABLES
  upstream,   \* the backend's answer: none, streaming, ended or broken
  sent,       \* chunks the backend has sent
  feeder,     \* the task: none, reading, writing (a chunk in hand) or ended
  stdin,      \* chunks in the pipe to ffmpeg
  ffmpeg,     \* none, running or ended
  stdout,     \* chunks in the pipe from ffmpeg
  listener    \* the browser: waiting, listening, ended, failed or gone

audioVars == <<upstream, sent, feeder, stdin, ffmpeg, stdout, listener>>

AudioInit ==
  /\ upstream = "none" /\ feeder = "none" /\ ffmpeg = "none"
  /\ sent = 0 /\ stdin = 0 /\ stdout = 0
  /\ listener = "waiting"

-----------------------------------------------------------------------------
\* Faulty variant, for the property to refute: ffmpeg is fed before the answer.
AnsweredWhenFed == feeder = "ended"

\* From when on the body can be read.
Answered == feeder # "none"

\* audio: the request fails, is navidrome's, or needs ffmpeg, which may not start.
Audio ==
  /\ upstream = "none" /\ listener = "waiting"
  /\ \/ /\ listener' \in {"failed", "ended"}
        /\ UNCHANGED <<upstream, feeder, ffmpeg>>
     \/ /\ upstream' = "streaming"
        /\ feeder'   = "reading"
        /\ ffmpeg'   = "running"
        /\ listener' = "listening"
  /\ UNCHANGED <<sent, stdin, stdout>>

\* A chunk, the end, or an error, at which the task gives up, dropping stdin.
FeederReads ==
  /\ feeder = "reading"
  /\ \/ /\ upstream = "streaming" /\ sent < Chunks
        /\ sent'   = sent + 1
        /\ feeder' = "writing"
        /\ UNCHANGED upstream
     \/ /\ upstream' = IF sent = Chunks THEN "ended" ELSE "broken"
        /\ feeder'   = "ended"
        /\ UNCHANGED sent
  /\ UNCHANGED <<stdin, ffmpeg, stdout, listener>>

\* write_all waits for room; without ffmpeg it fails, which is ignored.
FeederWrites ==
  /\ feeder = "writing"
  /\ \/ ffmpeg = "running" /\ stdin < PipeSize /\ stdin' = stdin + 1
     \/ ffmpeg = "ended" /\ UNCHANGED stdin
  /\ feeder' = "reading"
  /\ UNCHANGED <<upstream, sent, ffmpeg, stdout, listener>>

Ffmpeg ==
  /\ ffmpeg = "running"
  /\ \/ /\ stdin > 0 /\ stdout < PipeSize /\ listener = "listening"
        /\ stdin'  = stdin - 1
        /\ stdout' = stdout + 1
        /\ UNCHANGED ffmpeg
     \/ /\ \/ stdin = 0 /\ feeder = "ended"
           \/ stdin > 0 /\ listener = "gone"
        /\ ffmpeg' = "ended"
        /\ stdin'  = 0
        /\ UNCHANGED stdout
  /\ UNCHANGED <<upstream, sent, feeder, listener>>

\* The browser reads on, and is done when ffmpeg has closed the pipe.
Listen ==
  /\ listener = "listening" /\ Answered
  /\ \/ stdout > 0 /\ stdout' = stdout - 1 /\ UNCHANGED listener
     \/ stdout = 0 /\ ffmpeg = "ended" /\ listener' = "ended" /\ UNCHANGED stdout
  /\ UNCHANGED <<upstream, sent, feeder, stdin, ffmpeg>>

\* The body is dropped, and the pipe from ffmpeg with it.
Leave ==
  /\ listener = "listening" /\ Answered
  /\ listener' = "gone"
  /\ stdout'   = 0
  /\ UNCHANGED <<upstream, sent, feeder, stdin, ffmpeg>>

AudioNext == Audio \/ FeederReads \/ FeederWrites \/ Ffmpeg \/ Listen \/ Leave

\* A task and a process go on when they can; a browser reads on or leaves.
AudioFairness ==
  /\ WF_audioVars(FeederReads)
  /\ WF_audioVars(FeederWrites)
  /\ WF_audioVars(Ffmpeg)
  /\ WF_audioVars(Listen \/ Leave)

AudioSpec == AudioInit /\ [][AudioNext]_audioVars /\ AudioFairness

-----------------------------------------------------------------------------
\* Wherever the song, ffmpeg or the browser stops, everything does: no task is
\* left writing to a full pipe, and no ffmpeg is left running.
EveryTranscodingEnds ==
  (ffmpeg = "running") ~> (feeder = "ended" /\ ffmpeg = "ended" /\ listener \in {"ended", "gone"})
=============================================================================
