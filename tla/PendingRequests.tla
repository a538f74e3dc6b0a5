-------------------------- MODULE PendingRequests --------------------------
(***************************************************************************)
(* Requests that wait for their answer (SendRequest, the matching of       *)
(* answers in readPump and the clean-up of CloseAll in                     *)
(* control-center/backend/client/client.go).                               *)
(*                                                                         *)
(* Every request runs in its own goroutine; the answers are read by the    *)
(* read pumps of the agents' connections.  An answer is followed through   *)
(* the pump that reads it: looking up the entry and handing it the answer  *)
(* are two steps, because pendingMu is released in between.  A request and *)
(* its answer share an ID, which is the request here.                      *)
(***************************************************************************)
CONSTANT Requests   \* SendRequest calls

VARIABLES
    pending,    \* m.pending, as the set of its keys
    spc,        \* SendRequest: its step
    result,     \* what it returned
    timer,      \* pr.timer: "off", "running" or "stopped"
    full,       \* pr.ch holds the answer
    answer,     \* where the answer is
    apc         \* CloseAll: its step

vars == <<pending, spc, result, timer, full, answer, apc>>

InProgress == {"registered", "sending", "waiting", "leaving"}

TypeOK ==
    /\ pending \subseteq Requests
    /\ spc \in [Requests -> InProgress \cup {"idle", "returned"}]
    /\ result \in [Requests -> {"none", "answer", "unsent", "timeout", "shutdown"}]
    /\ timer \in [Requests -> {"off", "running", "stopped"}]
    /\ full \in [Requests -> BOOLEAN]
    /\ answer \in [Requests -> {"none", "asked", "wire", "found", "handed", "forwarded"}]
    /\ apc \in {"off", "emptied", "cancelled", "cleared"}

Init ==
    /\ pending = {}
    /\ spc = [r \in Requests |-> "idle"]
    /\ result = [r \in Requests |-> "none"]
    /\ timer = [r \in Requests |-> "off"]
    /\ full = [r \in Requests |-> FALSE]
    /\ answer = [r \in Requests |-> "none"]
    /\ apc = "off"

(* m.globalCtx.                                                            *)
GlobalDone == apc \in {"cancelled", "cleared"}

----------------------------------------------------------------------------
(* SendRequest                                                             *)

Register(r) ==
    /\ spc[r] = "idle"
    /\ spc' = [spc EXCEPT ![r] = "registered"]
    /\ timer' = [timer EXCEPT ![r] = "running"]
    /\ pending' = pending \cup {r}
    /\ UNCHANGED <<result, full, answer, apc>>

(* SendMessage finds the agent and its current connection.  CloseAll does  *)
(* not rule this out: a Connect may have added the agent after CloseAll    *)
(* emptied the map (ClientManager).                                        *)
FindAgent(r) ==
    /\ spc[r] = "registered"
    /\ spc' = [spc EXCEPT ![r] = "sending"]
    /\ UNCHANGED <<pending, result, timer, full, answer, apc>>

Send(r) ==
    /\ spc[r] = "sending"
    /\ spc' = [spc EXCEPT ![r] = "waiting"]
    /\ answer' = [answer EXCEPT ![r] = "asked"]
    /\ UNCHANGED <<pending, result, timer, full, apc>>

(* The body of SendRequest is left with a result; the deferred function is *)
(* still to run.                                                           *)
Conclude(r, verdict) ==
    /\ spc' = [spc EXCEPT ![r] = "leaving"]
    /\ result' = [result EXCEPT ![r] = verdict]
    /\ UNCHANGED <<pending, timer, full, answer, apc>>

(* The agent is unknown or not connected, or the write fails.              *)
SendFails(r) == spc[r] \in {"registered", "sending"} /\ Conclude(r, "unsent")

(* Mutant: the select does not listen to the manager's context.            *)
SeesShutdownMutant(r) == FALSE /\ Conclude(r, "shutdown")

(* The three cases of the select; an answer may itself report an error.    *)
TakesAnswer(r) == spc[r] = "waiting" /\ full[r] /\ Conclude(r, "answer")
TimesOut(r) == spc[r] = "waiting" /\ timer[r] = "running" /\ Conclude(r, "timeout")
SeesShutdown(r) == spc[r] = "waiting" /\ GlobalDone /\ Conclude(r, "shutdown")

(* Mutant: only an answered request removes its entry.                     *)
LeaveMutant(r) ==
    /\ spc[r] = "leaving"
    /\ spc' = [spc EXCEPT ![r] = "returned"]
    /\ pending' = IF result[r] = "answer" THEN pending \ {r} ELSE pending
    /\ timer' = [timer EXCEPT ![r] = "stopped"]
    /\ UNCHANGED <<result, full, answer, apc>>

Leave(r) ==
    /\ spc[r] = "leaving"
    /\ spc' = [spc EXCEPT ![r] = "returned"]
    /\ pending' = pending \ {r}
    /\ timer' = [timer EXCEPT ![r] = "stopped"]
    /\ UNCHANGED <<result, full, answer, apc>>

----------------------------------------------------------------------------
(* The answer: written by the agent (AgentServer), or never.               *)

AgentAnswers(r) ==
    /\ answer[r] = "asked"
    /\ answer' = [answer EXCEPT ![r] = "wire"]
    /\ UNCHANGED <<pending, spc, result, timer, full, apc>>

(* readPump looks the ID up, and forwards what nobody waits for.           *)
PumpLooksUp(r) ==
    /\ answer[r] = "wire"
    /\ answer' = [answer EXCEPT ![r] = IF r \in pending THEN "found" ELSE "forwarded"]
    /\ UNCHANGED <<pending, spc, result, timer, full, apc>>

(* Mutant: a matched answer is forwarded as well.                          *)
PumpHandsOverMutant(r) ==
    /\ answer[r] = "found"
    /\ answer' = [answer EXCEPT ![r] = "forwarded"]
    /\ full' = [full EXCEPT ![r] = TRUE]
    /\ UNCHANGED <<pending, spc, result, timer, apc>>

(* The channel has room for the one answer, whether or not its request     *)
(* still waits.                                                            *)
PumpHandsOver(r) ==
    /\ answer[r] = "found"
    /\ answer' = [answer EXCEPT ![r] = "handed"]
    /\ full' = [full EXCEPT ![r] = TRUE]
    /\ UNCHANGED <<pending, spc, result, timer, apc>>

----------------------------------------------------------------------------
(* CloseAll                                                                *)

CloseAllEmpties ==
    /\ apc = "off"
    /\ apc' = "emptied"
    /\ UNCHANGED <<pending, spc, result, timer, full, answer>>

CloseAllCancels ==
    /\ apc = "emptied"
    /\ apc' = "cancelled"
    /\ UNCHANGED <<pending, spc, result, timer, full, answer>>

CloseAllClears ==
    /\ apc = "cancelled"
    /\ apc' = "cleared"
    /\ pending' = {}
    /\ timer' = [r \in Requests |-> IF r \in pending THEN "stopped" ELSE timer[r]]
    /\ UNCHANGED <<spc, result, full, answer>>

----------------------------------------------------------------------------

Requesting(r) ==
    \/ FindAgent(r) \/ Send(r) \/ SendFails(r)
    \/ TakesAnswer(r) \/ TimesOut(r) \/ SeesShutdown(r)
    \/ Leave(r)

Next ==
    \/ \E r \in Requests :
         Register(r) \/ Requesting(r) \/ AgentAnswers(r) \/ PumpLooksUp(r) \/ PumpHandsOver(r)
    \/ CloseAllEmpties
    \/ CloseAllCancels
    \/ CloseAllClears

Spec == Init /\ [][Next]_vars

(* A request that has begun is run by the scheduler and its timer fires.   *)
(* Neither the agent nor the pumps nor CloseAll have to do anything.       *)
Fairness == \A r \in Requests : WF_vars(Requesting(r))

FairSpec == Spec /\ Fairness

----------------------------------------------------------------------------

(* The table holds exactly the requests in progress, except those CloseAll *)
(* has thrown out: whichever way a request ends, nothing of it stays       *)
(* (client.go:570-579, 670-676).                                           *)
TableIsExact ==
    /\ \A r \in pending : spc[r] \in InProgress
    /\ \A r \in Requests : spc[r] \in InProgress /\ apc # "cleared" => r \in pending

(* An answer reaches the message callback, which takes it for an event of  *)
(* the agent, only when its request is over or the manager has shut down   *)
(* (client.go:776-795).                                                    *)
ForwardedIsLate ==
    \A r \in Requests : answer[r] = "forwarded" => spc[r] = "returned" \/ apc = "cleared"

(* An answer exists only for a request that went out.                      *)
AskedWasSent ==
    \A r \in Requests : answer[r] # "none" => spc[r] \in {"waiting", "leaving", "returned"}

(* What callers of SendRequest rely on (Requester), seen from here.        *)
Promise == INSTANCE Requester WITH
    req <- [r \in Requests |->
              CASE spc[r] = "idle"     -> "idle"
                [] spc[r] = "returned" -> result[r]
                [] OTHER               -> "open"],
    down <- GlobalDone

(* SendRequest keeps its contract: it reports a shutdown only after one,   *)
(* never changes what it returned, and always returns, also when the agent *)
(* never answers and when CloseAll stops the timer it is waiting for       *)
(* (client.go:565-597).                                                    *)
ImplementsRequester == Promise!RequesterSpec

============================================================================
