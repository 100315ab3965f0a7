---------------------------- MODULE DaemonReload ----------------------------
(***************************************************************************)
(* The command that makes a spark daemon run its binary anew               *)
(* (spark/src/daemon/handle_message/mod.rs).  reload checks RELOADING with *)
(* try_lock, whose guard is dropped at once, and rxtx answers and leaves   *)
(* the rest to a thread: it sleeps, so that the answer goes out, takes the *)
(* lock and execs the binary, or failing that arg0.  An exec replaces the  *)
(* process, with its threads and its lock.                                 *)
(***************************************************************************)
CONSTANTS
  Reloads,    \* reload commands
  Nobody      \* who holds a free lock

ASSUME ReloadAssumption == Nobody \notin Reloads

VARIABLES
  command,    \* each command: new, accepted or refused
  thread,     \* its thread: none, sleeping, locked, retrying, ended, replaced
  reloading   \* who holds RELOADING

reloadVars == <<command, thread, reloading>>

ReloadInit ==
  /\ command   = [r \in Reloads |-> "new"]
  /\ thread    = [r \in Reloads |-> "none"]
  /\ reloading = Nobody

-----------------------------------------------------------------------------
\* Faulty variant, for the property to refute: the guard of try_lock is kept for
\* the thread, which takes the lock once more.
ReloadKeepingGuard(r) ==
  /\ command[r] = "new"
  /\ reloading = Nobody
  /\ reloading' = r
  /\ command'   = [command EXCEPT ![r] = "accepted"]
  /\ thread'    = [thread EXCEPT ![r] = "sleeping"]

\* rxtx with reload: refused when current_exe fails or the lock is taken.
Reload(r) ==
  /\ command[r] = "new"
  /\ \/ /\ reloading = Nobody
        /\ command' = [command EXCEPT ![r] = "accepted"]
        /\ thread'  = [thread EXCEPT ![r] = "sleeping"]
     \/ /\ command' = [command EXCEPT ![r] = "refused"]
        /\ UNCHANGED thread
  /\ UNCHANGED reloading

\* One second later, and however long the lock takes.
Wake(r) ==
  /\ thread[r] = "sleeping"
  /\ reloading = Nobody
  /\ reloading' = r
  /\ thread'    = [thread EXCEPT ![r] = "locked"]
  /\ UNCHANGED command

\* The new process has none of the threads.
Replace ==
  /\ thread'    = [r \in Reloads |-> IF thread[r] = "none" THEN "none" ELSE "replaced"]
  /\ reloading' = Nobody

\* exec of the binary, then of arg0 if there is one.
Exec(r) ==
  /\ \/ thread[r] \in {"locked", "retrying"} /\ Replace
     \/ /\ thread[r] = "locked"
        /\ thread' = [thread EXCEPT ![r] = "retrying"]
        /\ UNCHANGED reloading
     \/ /\ thread[r] \in {"locked", "retrying"}
        /\ thread'    = [thread EXCEPT ![r] = "ended"]
        /\ reloading' = Nobody
  /\ UNCHANGED command

ReloadNext == \E r \in Reloads : Reload(r) \/ Wake(r) \/ Exec(r)

\* A thread that can go on does.
ReloadFairness == \A r \in Reloads : WF_reloadVars(Wake(r)) /\ WF_reloadVars(Exec(r))

ReloadSpec == ReloadInit /\ [][ReloadNext]_reloadVars /\ ReloadFairness

-----------------------------------------------------------------------------
\* However many reloads are accepted before the first of them has the lock, each
\* ends: in a new process, its own or another's, or with both execs failed and
\* the lock let go.
AcceptedReloadEnds ==
  \A r \in Reloads :
    command[r] = "accepted" ~>
      /\ thread[r] \in {"ended", "replaced"}
      /\ reloading # r
=============================================================================
