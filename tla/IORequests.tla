----------------------------- MODULE IORequests -----------------------------
(***************************************************************************)
(* What the unit promises the callers of SendIO, DoIO and AbortIO: every   *)
(* accepted request is replied exactly once; a reply without an error      *)
(* comes after all of the request's commands have been carried out; and    *)
(* the controller works on a request only between its acceptance and its   *)
(* reply, because the reply hands the buffer back to the caller.           *)
(***************************************************************************)
CONSTANTS Req, Commands(_)

VARIABLES
  status,  \* status[r]: unused, pending, done or failed
  media    \* the commands the controller has carried out

reqvars == <<status, media>>

Init == status = [r \in Req |-> "unused"] /\ media = {}

Accept(r) ==
  /\ status[r] = "unused"
  /\ status' = [status EXCEPT ![r] = "pending"]
  /\ UNCHANGED media

CarryOut(r, k) ==
  /\ status[r] = "pending"
  /\ media' = media \cup {<<r, k>>}
  /\ UNCHANGED status

Finish(r) ==
  /\ status[r] = "pending"
  /\ \A k \in Commands(r) : <<r, k>> \in media
  /\ status' = [status EXCEPT ![r] = "done"]
  /\ UNCHANGED media

Fail(r) ==
  /\ status[r] = "pending"
  /\ status' = [status EXCEPT ![r] = "failed"]
  /\ UNCHANGED media

Next == \E r \in Req :
  Accept(r) \/ Finish(r) \/ Fail(r) \/ \E k \in Commands(r) : CarryOut(r, k)

Spec == Init /\ [][Next]_reqvars

=============================================================================
