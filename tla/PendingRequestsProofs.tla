----------------------- MODULE PendingRequestsProofs -----------------------
(***************************************************************************)
(* For any set of requests: the table of pending requests is exact, and an *)
(* answer is forwarded only when nobody waits for it.                      *)
(***************************************************************************)
EXTENDS PendingRequests, TLAPS

RequestInv == TypeOK /\ TableIsExact /\ AskedWasSent /\ ForwardedIsLate

(* The initial state has no request.                                       *)
LEMMA RequestInit == Init => RequestInv
  BY DEF Init, RequestInv, TypeOK, TableIsExact, AskedWasSent, ForwardedIsLate, InProgress

(* A step of SendRequest itself.                                           *)
LEMMA RequestingStep ==
  ASSUME RequestInv, NEW r \in Requests, Register(r) \/ Requesting(r)
  PROVE  RequestInv'
  <1> USE DEF RequestInv, TypeOK, TableIsExact, AskedWasSent, ForwardedIsLate, InProgress
  <1>1. CASE Register(r)
    BY <1>1 DEF Register
  <1>2. CASE FindAgent(r)
    BY <1>2 DEF FindAgent
  <1>3. CASE Send(r)
    BY <1>3 DEF Send
  <1>4. ASSUME NEW verdict \in {"answer", "unsent", "timeout", "shutdown"},
               spc[r] \in {"registered", "sending", "waiting"}, Conclude(r, verdict)
        PROVE  RequestInv'
    BY <1>4 DEF Conclude
  <1>5. CASE Leave(r)
    BY <1>5 DEF Leave
  <1> QED
    BY <1>1, <1>2, <1>3, <1>4, <1>5
       DEF Requesting, SendFails, TakesAnswer, TimesOut, SeesShutdown

(* A step of an answer through the agent and the read pump.                *)
LEMMA AnswerStep ==
  ASSUME RequestInv, NEW r \in Requests, AgentAnswers(r) \/ PumpLooksUp(r) \/ PumpHandsOver(r)
  PROVE  RequestInv'
  <1> USE DEF RequestInv, TypeOK, TableIsExact, AskedWasSent, ForwardedIsLate, InProgress
  <1>1. CASE AgentAnswers(r)
    BY <1>1 DEF AgentAnswers
  <1>2. CASE PumpLooksUp(r)
    <2>1. r \notin pending => spc[r] = "returned" \/ apc = "cleared"
      BY <1>2 DEF PumpLooksUp
    <2> QED
      BY <1>2, <2>1 DEF PumpLooksUp
  <1>3. CASE PumpHandsOver(r)
    BY <1>3 DEF PumpHandsOver
  <1> QED
    BY <1>1, <1>2, <1>3

(* A step of CloseAll.                                                     *)
LEMMA CloseAllStep ==
  ASSUME RequestInv, CloseAllEmpties \/ CloseAllCancels \/ CloseAllClears
  PROVE  RequestInv'
  <1> USE DEF RequestInv, TypeOK, TableIsExact, AskedWasSent, ForwardedIsLate, InProgress
  <1>1. CASE CloseAllEmpties
    BY <1>1 DEF CloseAllEmpties
  <1>2. CASE CloseAllCancels
    BY <1>2 DEF CloseAllCancels
  <1>3. CASE CloseAllClears
    BY <1>3 DEF CloseAllClears
  <1> QED
    BY <1>1, <1>2, <1>3

(* The conjunction is an invariant.                                        *)
LEMMA RequestInvariant == Spec => []RequestInv
  <1>1. RequestInv /\ [Next]_vars => RequestInv'
    <2> SUFFICES ASSUME RequestInv, [Next]_vars
                 PROVE  RequestInv'
      OBVIOUS
    <2>1. CASE UNCHANGED vars
      BY <2>1 DEF vars, RequestInv, TypeOK, TableIsExact, AskedWasSent, ForwardedIsLate
    <2>2. CASE Next
      BY <2>2, RequestingStep, AnswerStep, CloseAllStep DEF Next
    <2> QED
      BY <2>1, <2>2
  <1> QED
    BY RequestInit, <1>1, PTL DEF Spec

(* The pending table of the manager holds the requests in progress and     *)
(* nothing else until CloseAll clears it: no way out of SendRequest leaks  *)
(* an entry (client.go:574-579).                                           *)
THEOREM TableIsExactTheorem == Spec => []TableIsExact
  BY RequestInvariant, PTL DEF RequestInv

(* readPump hands an answer to the callback only when its request has      *)
(* returned or the manager has cleared the table (client.go:776-795).      *)
THEOREM ForwardedIsLateTheorem == Spec => []ForwardedIsLate
  BY RequestInvariant, PTL DEF RequestInv

----------------------------------------------------------------------------
(* The safety part of ImplementsRequester.                                 *)

(* A request that is being left has its result, and reports a shutdown     *)
(* only after one.                                                         *)
ResultsJustified ==
    \A r \in Requests :
        /\ spc[r] \in {"leaving", "returned"} => result[r] # "none"
        /\ result[r] = "shutdown" => GlobalDone

(* Results are given once, and shutdown is never undone.                   *)
LEMMA ResultsInvariant == Spec => []ResultsJustified
  <1>1. Init => ResultsJustified
    BY DEF Init, ResultsJustified
  <1>2. RequestInv /\ ResultsJustified /\ [Next]_vars => ResultsJustified'
    <2> SUFFICES ASSUME RequestInv, ResultsJustified, [Next]_vars
                 PROVE  ResultsJustified'
      OBVIOUS
    <2> USE DEF RequestInv, TypeOK, ResultsJustified, GlobalDone
    <2>1. CASE UNCHANGED vars
      BY <2>1 DEF vars
    <2>2. ASSUME NEW r \in Requests, Register(r) \/ FindAgent(r) \/ Send(r) \/ Leave(r)
          PROVE  ResultsJustified'
      BY <2>2 DEF Register, FindAgent, Send, Leave
    <2>3. ASSUME NEW r \in Requests, NEW verdict \in {"answer", "unsent", "timeout", "shutdown"},
                 verdict = "shutdown" => GlobalDone, Conclude(r, verdict)
          PROVE  ResultsJustified'
      BY <2>3 DEF Conclude
    <2>4. ASSUME NEW r \in Requests, AgentAnswers(r) \/ PumpLooksUp(r) \/ PumpHandsOver(r)
          PROVE  ResultsJustified'
      BY <2>4 DEF AgentAnswers, PumpLooksUp, PumpHandsOver
    <2>5. CASE CloseAllEmpties \/ CloseAllCancels \/ CloseAllClears
      BY <2>5 DEF CloseAllEmpties, CloseAllCancels, CloseAllClears
    <2> QED
      BY <2>1, <2>2, <2>3, <2>4, <2>5
         DEF Next, Requesting, SendFails, TakesAnswer, TimesOut, SeesShutdown
  <1> QED
    BY <1>1, <1>2, RequestInvariant, PTL DEF Spec

(* A step that leaves every program counter, every result and the shutdown *)
(* as they are is a stutter of the contract.                               *)
LEMMA UnseenStep ==
  ASSUME spc' = spc, result' = result, GlobalDone' = GlobalDone
  PROVE  UNCHANGED Promise!requesterVars
  BY DEF Promise!requesterVars

(* Every step of the implementation is a step of the contract or hidden    *)
(* from the callers.                                                       *)
LEMMA ContractStep ==
  ASSUME RequestInv, ResultsJustified, [Next]_vars
  PROVE  [Promise!RequesterNext]_(Promise!requesterVars)
  <1> USE DEF RequestInv, TypeOK
  <1>1. CASE UNCHANGED vars
    BY <1>1, UnseenStep DEF vars, GlobalDone
  <1>2. ASSUME NEW r \in Requests, Register(r)
        PROVE  Promise!Begin(r)
    BY <1>2 DEF Register, Promise!Begin, GlobalDone
  <1>3. ASSUME NEW r \in Requests, Leave(r)
        PROVE  Promise!Return(r)
    BY <1>3 DEF Leave, Promise!Return, ResultsJustified, GlobalDone
  <1>4. ASSUME NEW r \in Requests, AgentAnswers(r) \/ PumpLooksUp(r) \/ PumpHandsOver(r)
        PROVE  UNCHANGED Promise!requesterVars
    BY <1>4, UnseenStep DEF AgentAnswers, PumpLooksUp, PumpHandsOver, GlobalDone
  <1>5. CASE CloseAllEmpties \/ CloseAllClears
    BY <1>5, UnseenStep DEF CloseAllEmpties, CloseAllClears, GlobalDone
  <1>6. CASE CloseAllCancels
    BY <1>6 DEF CloseAllCancels, GlobalDone, Promise!RequesterNext, Promise!TakeDown
  <1>7. ASSUME NEW r \in Requests, NEW verdict,
               spc[r] \in {"registered", "sending", "waiting"},
               FindAgent(r) \/ Send(r) \/ Conclude(r, verdict)
        PROVE  UNCHANGED Promise!requesterVars
    BY <1>7 DEF FindAgent, Send, Conclude, GlobalDone, Promise!requesterVars
  <1> QED
    BY <1>1, <1>2, <1>3, <1>4, <1>5, <1>6, <1>7
       DEF Next, Requesting, FindAgent, Send, SendFails, TakesAnswer, TimesOut, SeesShutdown,
           Promise!RequesterNext

(* SendRequest keeps the safety part of its contract for any number of     *)
(* callers: a call that returned keeps its result, a result is given to    *)
(* an open call only, and a shutdown is reported only after one            *)
(* (client.go:565-597).  That every call returns is checked by TLC.        *)
THEOREM RequesterSafety ==
    Spec => Promise!RequesterInit /\ [][Promise!RequesterNext]_(Promise!requesterVars)
  <1>1. Init => Promise!RequesterInit
    BY DEF Init, Promise!RequesterInit, GlobalDone
  <1> QED
    BY <1>1, ContractStep, RequestInvariant, ResultsInvariant, PTL DEF Spec

============================================================================
