---------------------------- MODULE CommandRelay ----------------------------
(***************************************************************************)
(* What the relay promises to the HTTP clients that send commands to       *)
(* devices, whatever happens to connections, devices and the server:       *)
(*                                                                         *)
(*   - a command that is refused is never executed;                        *)
(*   - a command that is sent is executed at most once;                    *)
(*   - a successful answer means that it was executed;                     *)
(*   - any other answer to a command that was sent says nothing about its  *)
(*     execution, which may even come after the answer.                    *)
(***************************************************************************)
CONSTANT Requests

VARIABLES
  status,    \* new, refused or sent
  executed,  \* whether a device executed the command
  outcome    \* the answer, or none

vars == <<status, executed, outcome>>

Refusals == {"not_found", "too_many", "closed", "reset"}
Failures == {"timeout", "closed", "undecodable", "abandoned", "reset"}

Init == /\ status   = [r \in Requests |-> "new"]
        /\ executed = [r \in Requests |-> FALSE]
        /\ outcome  = [r \in Requests |-> "none"]

Refuse(r, a) == /\ status[r] = "new"
                /\ status'  = [status EXCEPT ![r] = "refused"]
                /\ outcome' = [outcome EXCEPT ![r] = a]
                /\ UNCHANGED executed

Send(r) == /\ status[r] = "new"
           /\ status' = [status EXCEPT ![r] = "sent"]
           /\ UNCHANGED <<executed, outcome>>

Execute(r) == /\ status[r] = "sent"
              /\ ~executed[r]
              /\ executed' = [executed EXCEPT ![r] = TRUE]
              /\ UNCHANGED <<status, outcome>>

Succeed(r) == /\ executed[r]
              /\ outcome[r] = "none"
              /\ outcome' = [outcome EXCEPT ![r] = "ok"]
              /\ UNCHANGED <<status, executed>>

\* Once sent, a request is not answered "too_many": PersistentConnections tells at
\* Emit why the code's arm for it there is out of reach.
Fail(r, a) == /\ status[r] = "sent"
              /\ outcome[r] = "none"
              /\ a = "undecodable" => executed[r]
              /\ outcome' = [outcome EXCEPT ![r] = a]
              /\ UNCHANGED <<status, executed>>

\* The relay restarts: any requests it had not answered are lost together,
\* those not sent yet for good.
Reset(lost) ==
  /\ \A r \in lost : outcome[r] = "none"
  /\ status'  = [r \in Requests |-> IF r \in lost /\ status[r] = "new"
                                    THEN "refused" ELSE status[r]]
  /\ outcome' = [r \in Requests |-> IF r \in lost THEN "reset" ELSE outcome[r]]
  /\ UNCHANGED executed

Next == \/ \E r \in Requests : Send(r) \/ Execute(r) \/ Succeed(r)
        \/ \E r \in Requests : \E a \in Refusals : Refuse(r, a)
        \/ \E r \in Requests : \E a \in Failures : Fail(r, a)
        \/ \E lost \in SUBSET Requests : Reset(lost)

Spec == Init /\ [][Next]_vars
=============================================================================
