---------------------------- MODULE TaskPublishing ----------------------------
(***************************************************************************)
(* What PublishDispatch of a task producer promises its caller: the        *)
(* message of a call that returned nil has reached its queue, or was lost  *)
(* with the connection; the message of a call that returned an error may   *)
(* have reached it too.  Nothing happens to a message after the return.    *)
(***************************************************************************)
CONSTANT Messages

VARIABLES
  requests,  \* messages that have reached their queue
  dropped,   \* messages that got lost behind the caller's back
  result     \* what the call for a message has returned

Init ==
  /\ requests = {} /\ dropped = {}
  /\ result = [m \in Messages |-> "pending"]

Pending(m) == result[m] = "pending"
Returns(m, r) == result' = [result EXCEPT ![m] = r]

(* An attempt that reports an error after the broker has the message.      *)
Arrive(m) ==
  /\ Pending(m)
  /\ requests' = requests \cup {m}
  /\ UNCHANGED <<dropped, result>>

Accept(m) ==
  /\ Pending(m)
  /\ requests' = requests \cup {m}
  /\ Returns(m, "done")
  /\ UNCHANGED dropped

Lose(m) ==
  /\ Pending(m)
  /\ dropped' = dropped \cup {m}
  /\ Returns(m, "done")
  /\ UNCHANGED requests

Refuse(m) ==
  /\ Pending(m)
  /\ requests' \in {requests, requests \cup {m}}
  /\ Returns(m, "failed")
  /\ UNCHANGED dropped

Next == \E m \in Messages : Arrive(m) \/ Accept(m) \/ Lose(m) \/ Refuse(m)

Spec == Init /\ [][Next]_<<requests, dropped, result>>
==============================================================================
