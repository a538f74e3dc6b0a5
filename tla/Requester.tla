----------------------------- MODULE Requester -----------------------------
(***************************************************************************)
(* What SendRequest of control-center/backend/client/client.go promises    *)
(* its callers: every call returns, with an answer, or because it could    *)
(* not be sent, timed out, or the manager shut down.  PendingRequests      *)
(* implements this contract; Application and Batches are built on it.      *)
(***************************************************************************)
CONSTANT Requests   \* the callers; one request at a time each

VARIABLES
    req,    \* for each caller: "idle", "open", or how its last request ended
    down    \* CloseAll has cancelled the manager's context

requesterVars == <<req, down>>

RequesterInit ==
    /\ req = [r \in Requests |-> "idle"]
    /\ down = FALSE

(* SendRequest is called.                                                  *)
Begin(r) ==
    /\ req[r] # "open"
    /\ req' = [req EXCEPT ![r] = "open"]
    /\ UNCHANGED down

(* SendRequest returns.  After CloseAll a request that waits sees the      *)
(* cancelled context, and one that is about to be sent finds no agent.     *)
Return(r) ==
    /\ req[r] = "open"
    /\ \E outcome \in {"answer", "unsent", "timeout", "shutdown"} :
         /\ outcome = "shutdown" => down
         /\ req' = [req EXCEPT ![r] = outcome]
    /\ UNCHANGED down

(* CloseAll.                                                               *)
TakeDown ==
    /\ ~down
    /\ down' = TRUE
    /\ UNCHANGED req

RequesterNext ==
    \/ \E r \in Requests : Begin(r) \/ Return(r)
    \/ TakeDown

RequesterFairness == \A r \in Requests : WF_requesterVars(Return(r))

RequesterSpec == RequesterInit /\ [][RequesterNext]_requesterVars /\ RequesterFairness

============================================================================
