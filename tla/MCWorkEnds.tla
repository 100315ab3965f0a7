----------------------------- MODULE MCWorkEnds -----------------------------
(***************************************************************************)
(* Instance for TLC of three parts that promise an end and share no state: *)
(* coalesced requests, transcoded audio, and spark's reload command.  A    *)
(* behaviour is of one part, chosen at the start.                          *)
(***************************************************************************)
EXTENDS RequestCoalescing, AudioStream, DaemonReload

VARIABLE part

workVars == <<vars, audioVars, reloadVars>>

WorkInit ==
  /\ part \in {"requests", "audio", "reload"}
  /\ Init /\ AudioInit /\ ReloadInit

WorkNext ==
  /\ UNCHANGED part
  /\ \/ part = "requests" /\ Next /\ UNCHANGED <<audioVars, reloadVars>>
     \/ part = "audio" /\ AudioNext /\ UNCHANGED <<vars, reloadVars>>
     \/ part = "reload" /\ ReloadNext /\ UNCHANGED <<vars, audioVars>>

\* In a behaviour of one part nothing of the others' fairness is ever enabled.
WorkSpec ==
  /\ WorkInit
  /\ [][WorkNext]_<<part, workVars>>
  /\ Fairness
  /\ AudioFairness
  /\ ReloadFairness
=============================================================================
