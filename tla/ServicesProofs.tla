--------------------------- MODULE ServicesProofs --------------------------
(***************************************************************************)
(* The services that keep state of their own, each on its own              *)
(* specification: any number of transfers, agents, scripts, calls,         *)
(* sessions, versions, backups, entries and scans, any capacity and any    *)
(* size of the files.                                                      *)
(***************************************************************************)
EXTENDS MCServices, FiniteSetTheorems, TLAPS

----------------------------------------------------------------------------
(* Application                                                             *)

TransferSteps ==
    {"idle", "refused", "checking", "sending", "waiting", "failed", "cancelling", "ended", "logged",
     "returned"}
ShutdownSteps ==
    {"off", "waiting", "drained", "undiscovered", "down", "unsaved", "finished"}

(* The transfers that beginTransfer let in and that have not returned.     *)
UnderWay == {t \in Transfers : tpc[t] \notin {"idle", "refused", "returned"}}

AppTypeOK ==
    /\ tpc \in [Transfers -> TransferSteps]
    /\ logged \in [Transfers -> {"no", "stored"}]
    /\ req \in [Requests -> {"idle", "open", "answer", "unsent", "timeout", "shutdown"}]
    /\ downpc \in ShutdownSteps

(* The wait group counts the transfers under way, none is let in once the  *)
(* flag is up, and the manager and the audit log are closed after the      *)
(* wait; a request that is open is one that its transfer waits for.        *)
AppInv ==
    /\ AppTypeOK
    /\ IsFiniteSet(UnderWay) /\ transferWG = Cardinality(UnderWay)
    /\ shuttingDown <=> downpc # "off"
    /\ downpc \notin {"off", "waiting"} => UnderWay = {}
    /\ down => downpc \in {"down", "unsaved", "finished"}
    /\ downpc # "finished" => "audit" \in services
    /\ \A t \in Transfers : req[t] # "shutdown" /\ (req[t] = "open" => tpc[t] \in {"waiting", "cancelling"})

LEMMA AppInitInv == RequesterInit /\ AppInit => AppInv
  <1> SUFFICES ASSUME RequesterInit, AppInit PROVE AppInv
    OBVIOUS
  <1>1. UnderWay = {}
    BY DEF AppInit, UnderWay
  <1>2. IsFiniteSet(UnderWay) /\ Cardinality(UnderWay) = 0
    BY <1>1, FS_EmptySet
  <1>3. AppTypeOK
    BY AppAssumption DEF AppTypeOK, AppInit, RequesterInit, TransferSteps, ShutdownSteps
  <1> QED
    BY <1>1, <1>2, <1>3, AppAssumption DEF AppInv, AppInit, RequesterInit, Transfers

(* A step of one transfer from one place under way to another.             *)
LEMMA StillUnderWay ==
  ASSUME AppTypeOK, NEW t \in Transfers, NEW from, NEW to,
         from \in TransferSteps \ {"idle", "refused", "returned"},
         to \in TransferSteps \ {"idle", "refused", "returned"},
         Moves(t, from, to)
  PROVE  /\ UnderWay' = UnderWay /\ t \in UnderWay /\ tpc' \in [Transfers -> TransferSteps]
         /\ tpc[t] = from /\ tpc' = [tpc EXCEPT ![t] = tpc'[t]] /\ tpc'[t] = to
  BY DEF AppTypeOK, UnderWay, Moves

LEMMA AppNextInv == AppInv /\ [AppNext]_<<requesterVars, appVars>> => AppInv'
  <1> SUFFICES ASSUME AppInv, [AppNext]_<<requesterVars, appVars>> PROVE AppInv'
    OBVIOUS
  <1>0. /\ AppTypeOK /\ IsFiniteSet(UnderWay) /\ transferWG = Cardinality(UnderWay)
        /\ Transfers \subseteq Requests
    BY AppAssumption DEF AppInv, Transfers
  <1>1. ASSUME NEW t \in Transfers, BeginTransfer(t) PROVE AppInv'
    <2>1. CASE shuttingDown
      <3>1. UnderWay' = UnderWay /\ AppTypeOK'
        BY <1>0, <1>1, <2>1 DEF BeginTransfer, Moves, UnderWay, AppTypeOK, TransferSteps, requesterVars
      <3>2. \A u \in Transfers : req'[u] = "open" => tpc'[u] \in {"waiting", "cancelling"}
        BY <1>0, <1>1, <2>1 DEF BeginTransfer, Moves, AppInv, AppTypeOK, requesterVars
      <3> QED
        BY <1>0, <1>1, <2>1, <3>1, <3>2 DEF BeginTransfer, AppInv, requesterVars
    <2>2. CASE ~shuttingDown
      <3>1. UnderWay' = UnderWay \cup {t} /\ t \notin UnderWay /\ AppTypeOK'
        BY <1>0, <1>1, <2>2 DEF BeginTransfer, Moves, UnderWay, AppTypeOK, TransferSteps, requesterVars
      <3>2. IsFiniteSet(UnderWay') /\ Cardinality(UnderWay') = Cardinality(UnderWay) + 1
        BY <1>0, <3>1, FS_AddElement
      <3>3. downpc = "off"
        BY <2>2 DEF AppInv
      <3>4. \A u \in Transfers : req'[u] = "open" => tpc'[u] \in {"waiting", "cancelling"}
        BY <1>0, <1>1, <2>2 DEF BeginTransfer, Moves, AppInv, AppTypeOK, requesterVars
      <3> QED
        BY <1>0, <1>1, <2>2, <3>1, <3>2, <3>3, <3>4 DEF BeginTransfer, AppInv, requesterVars
    <2> QED
      BY <2>1, <2>2
  (* The steps that change nothing but the transfer's own state.           *)
  <1>2. ASSUME NEW t \in Transfers, UNCHANGED <<req, down, shuttingDown, transferWG, services, downpc>>,
               UnderWay' = UnderWay, tpc' \in [Transfers -> TransferSteps],
               tpc' = [tpc EXCEPT ![t] = tpc'[t]], req[t] # "open",
               logged' \in [Transfers -> {"no", "stored"}]
        PROVE  AppInv'
    BY <1>0, <1>2 DEF AppInv, AppTypeOK
  (* The steps that make a request.                                        *)
  <1>3. ASSUME NEW t \in Transfers, UNCHANGED <<shuttingDown, transferWG, services, logged, downpc>>,
               t \in UnderWay, UnderWay' = UnderWay, tpc' \in [Transfers -> TransferSteps],
               tpc' = [tpc EXCEPT ![t] = tpc'[t]], tpc'[t] \in {"waiting", "cancelling"}, Begin(t)
        PROVE  AppInv'
    BY <1>0, <1>3 DEF AppInv, AppTypeOK, Begin
  <1>4. ASSUME NEW t \in Transfers, ChecksContext(t) \/ LocalFailure(t) PROVE AppInv'
    <2>1. /\ UnderWay' = UnderWay /\ tpc' \in [Transfers -> TransferSteps]
          /\ tpc' = [tpc EXCEPT ![t] = tpc'[t]] /\ req[t] # "open"
      BY <1>0, <1>4, StillUnderWay DEF ChecksContext, LocalFailure, TransferSteps, AppInv
    <2> QED
      BY <1>0, <1>2, <1>4, <2>1 DEF ChecksContext, LocalFailure, AppTypeOK, requesterVars
  <1>5. ASSUME NEW t \in Transfers, RequestsChunk(t) PROVE AppInv'
    <2>1. /\ UnderWay' = UnderWay /\ t \in UnderWay /\ tpc' \in [Transfers -> TransferSteps]
          /\ tpc' = [tpc EXCEPT ![t] = tpc'[t]] /\ req[t] # "open"
      BY <1>0, <1>5, StillUnderWay DEF RequestsChunk, TransferSteps, AppInv
    <2> QED
      BY <1>0, <1>2, <1>3, <1>5, <2>1 DEF RequestsChunk, Moves, AppTypeOK, requesterVars
  <1>6. ASSUME NEW t \in Transfers, TakesChunk(t) \/ CancelReturns(t) PROVE AppInv'
    <2>1. /\ UnderWay' = UnderWay /\ tpc' \in [Transfers -> TransferSteps]
          /\ tpc' = [tpc EXCEPT ![t] = tpc'[t]] /\ req[t] # "open"
      BY <1>0, <1>6, StillUnderWay DEF TakesChunk, CancelReturns, TransferSteps, AppInv
    <2> QED
      BY <1>0, <1>2, <1>6, <2>1 DEF TakesChunk, CancelReturns, AppTypeOK, requesterVars
  <1>7. ASSUME NEW t \in Transfers, CleansUp(t) PROVE AppInv'
    <2>1. /\ UnderWay' = UnderWay /\ t \in UnderWay /\ tpc' \in [Transfers -> TransferSteps]
          /\ tpc' = [tpc EXCEPT ![t] = tpc'[t]] /\ req[t] # "open"
      BY <1>0, <1>7, StillUnderWay DEF CleansUp, TransferSteps, AppInv
    <2> QED
      BY <1>0, <1>2, <1>3, <1>7, <2>1 DEF CleansUp, Moves, AppTypeOK, requesterVars
  <1>8. ASSUME NEW t \in Transfers, LogsOutcome(t) PROVE AppInv'
    <2>1. /\ UnderWay' = UnderWay /\ t \in UnderWay /\ tpc' \in [Transfers -> TransferSteps]
          /\ tpc' = [tpc EXCEPT ![t] = tpc'[t]] /\ req[t] # "open"
      BY <1>0, <1>8, StillUnderWay DEF LogsOutcome, TransferSteps, AppInv
    <2>2. "audit" \in services
      BY <2>1 DEF AppInv
    <2> QED
      BY <1>0, <1>2, <1>8, <2>1, <2>2 DEF LogsOutcome, AppTypeOK, requesterVars
  <1>9. ASSUME NEW t \in Transfers, TransferReturns(t) PROVE AppInv'
    <2>1. UnderWay' = UnderWay \ {t} /\ t \in UnderWay /\ AppTypeOK'
      BY <1>0, <1>9 DEF TransferReturns, Moves, UnderWay, AppTypeOK, TransferSteps, requesterVars
    <2>2. IsFiniteSet(UnderWay') /\ Cardinality(UnderWay') = Cardinality(UnderWay) - 1
      BY <1>0, <2>1, FS_RemoveElement
    <2>3. req[t] # "open"
      BY <1>9 DEF TransferReturns, Moves, AppInv
    <2>4. \A u \in Transfers : req'[u] = "open" => tpc'[u] \in {"waiting", "cancelling"}
      BY <1>0, <1>9, <2>3 DEF TransferReturns, Moves, AppInv, AppTypeOK, requesterVars
    <2> QED
      BY <1>0, <1>9, <2>1, <2>2, <2>4 DEF TransferReturns, AppInv, requesterVars
  <1>10. ASSUME NEW t \in Transfers, Return(t), UNCHANGED appVars PROVE AppInv'
    <2>1. ~down
      BY <1>10 DEF AppInv, Return, UnderWay
    <2>2. UnderWay' = UnderWay
      BY <1>10 DEF appVars, UnderWay
    <2> QED
      BY <1>0, <1>10, <2>1, <2>2 DEF AppInv, AppTypeOK, Return, appVars
  <1>11. CASE ShutdownBegins \/ ShutsDown
    <2>1. UnderWay' = UnderWay
      BY <1>11 DEF ShutdownBegins, ShutsDown, TransfersDone, StopsDiscovery, ClosesAgents, ClosesSessions,
                   ClosesAudit, Closes, UnderWay
    <2>2. transferWG = 0 => UnderWay = {}
      BY <1>0, FS_EmptySet
    <2> QED
      BY <1>0, <1>11, <2>1, <2>2
      DEF ShutdownBegins, ShutsDown, TransfersDone, StopsDiscovery, ClosesAgents, ClosesSessions,
          ClosesAudit, Closes, AppInv, AppTypeOK, ShutdownSteps, TakeDown, requesterVars
  <1>12. CASE UNCHANGED <<requesterVars, appVars>>
    <2>1. UnderWay' = UnderWay
      BY <1>12 DEF appVars, UnderWay
    <2> QED
      BY <1>0, <1>12, <2>1 DEF AppInv, AppTypeOK, requesterVars, appVars
  <1> QED
    BY <1>1, <1>4, <1>5, <1>6, <1>7, <1>8, <1>9, <1>10, <1>11, <1>12 DEF AppNext, Transferring

LEMMA AppInvSuffices == AppInv => TransfersDrained
  BY DEF AppInv, AppTypeOK, UnderWay, TransfersDrained

(* Any number of transfers, however they and the shutdown interleave: the  *)
(* wait of shutdown lets every transfer finish before the manager and the  *)
(* audit log are closed, and lets none in later (app.go:169-196, 612-690). *)
THEOREM TransfersDrainedTheorem == AppSpec => []TransfersDrained
  BY AppInitInv, AppNextInv, AppInvSuffices, PTL DEF AppSpec

----------------------------------------------------------------------------
(* Batches                                                                 *)

Outcomes == {"none", "ok", "bad"}

LEMMA EndedFinite ==
  ASSUME NEW S, IsFiniteSet(S), NEW f \in [S -> Outcomes], NEW v
  PROVE  IsFiniteSet(Ended(f, v)) /\ Cardinality(Ended(f, v)) \in Nat
  <1>1. Ended(f, v) \subseteq S
    BY DEF Ended
  <1>2. IsFiniteSet(Ended(f, v))
    BY <1>1, FS_Subset
  <1> QED
    BY <1>2, FS_CardinalityType

(* The goroutines of ExecCommandMulti book under the lock, each once.      *)
MultiInv ==
    /\ multipc \in {"off", "running", "returned"}
    /\ workerpc \in [Workers -> {"off", "asking", "done"}]
    /\ workerOutcome \in [Workers -> Outcomes]
    /\ results \in [Agents -> Outcomes]
    /\ multipc = "off" => \A w \in Workers : workerpc[w] = "off"
    /\ multipc # "off" => agentIDs \in [Workers -> Agents]
    /\ \A w \in Workers : workerpc[w] = "done" <=> workerOutcome[w] # "none"
    /\ \A w \in Workers : workerOutcome[w] # "none" =>
         \E x \in Workers : /\ agentIDs[x] = agentIDs[w] /\ workerOutcome[x] # "none"
                            /\ results[agentIDs[w]] = workerOutcome[x]
    /\ succeeded = Cardinality(Ended(workerOutcome, "ok"))
    /\ failed = Cardinality(Ended(workerOutcome, "bad"))
    /\ multiStatus # "none" =>
         /\ \A w \in Workers : workerpc[w] = "done"
         /\ multiStatus = "error" <=> failed = Fanout
         /\ multiStatus = "success" <=> failed # Fanout /\ failed = 0

(* RunScript has booked the lines before the one it is at.                 *)
RunInv ==
    /\ line \in 0 .. ScriptLines + 1
    /\ lineOutcome \in [1..ScriptLines -> Outcomes]
    /\ line # 0 => lines \in [1..ScriptLines -> LineKinds]
    /\ \A i \in 1..ScriptLines : i >= line => lineOutcome[i] = "none"
    /\ line # 0 =>
         \A i \in 1..ScriptLines : i < line => (lineOutcome[i] = "none" <=> lines[i] = "skipped")
    /\ asking => line \in 1..ScriptLines /\ lines[line] = "command"
    /\ successCount = Cardinality(Ended(lineOutcome, "ok"))
    /\ failedCount = Cardinality(Ended(lineOutcome, "bad"))
    /\ scriptStatus # "none" =>
         /\ line = ScriptLines + 1
         /\ scriptStatus = "success" <=> failedCount = 0

BatchInv == MultiInv /\ RunInv

LEMMA WorkersFinite ==
    /\ IsFiniteSet(Workers) /\ Cardinality(Workers) = Fanout
    /\ IsFiniteSet(1..ScriptLines)
  BY BatchAssumption, FS_Interval DEF Workers

LEMMA BatchInitInv == BatchInit => BatchInv
  <1> SUFFICES ASSUME BatchInit PROVE BatchInv
    OBVIOUS
  <1>1. \A v \in {"ok", "bad"} : Ended(workerOutcome, v) = {} /\ Ended(lineOutcome, v) = {}
    BY DEF BatchInit, Ended
  <1>2. Cardinality({}) = 0
    BY FS_EmptySet
  <1>3. MultiInv
    BY <1>1, <1>2 DEF BatchInit, MultiInv, Outcomes
  <1>4. ~asking
    BY Zenon DEF BatchInit
  <1>5. RunInv
    <2>1. /\ line = 0 /\ scriptStatus = "none" /\ successCount = 0 /\ failedCount = 0
          /\ lineOutcome = [i \in 1..ScriptLines |-> "none"]
      BY DEF BatchInit
    <2>2. line \in 0 .. ScriptLines + 1
      BY <2>1, BatchAssumption
    <2> QED
      BY <1>1, <1>2, <1>4, <2>1, <2>2 DEF RunInv, Outcomes
  <1> QED
    BY <1>3, <1>5 DEF BatchInv

LEMMA MultiStays == MultiInv /\ UNCHANGED multiVars => MultiInv'
  BY DEF MultiInv, multiVars, Ended

LEMMA RunStays == RunInv /\ UNCHANGED runVars => RunInv'
  BY DEF RunInv, runVars, Ended

LEMMA MultiNextInv ==
  ASSUME MultiInv,
         MultiBegins \/ MultiReturns \/ \E w \in Workers : WorkerAsks(w) \/ WorkerBooks(w)
  PROVE  MultiInv'
  <1>1. CASE MultiBegins
    BY <1>1 DEF MultiBegins, MultiInv
  <1>2. CASE MultiReturns
    <2>1. failed \in Nat
      BY WorkersFinite, EndedFinite DEF MultiInv
    <2> QED
      BY <1>2, <2>1, BatchAssumption DEF MultiReturns, MultiInv
  <1>3. ASSUME NEW w \in Workers, WorkerAsks(w) PROVE MultiInv'
    BY <1>3 DEF WorkerAsks, MultiInv
  <1>4. ASSUME NEW w \in Workers, WorkerBooks(w) PROVE MultiInv'
    <2>0. /\ workerpc[w] = "asking" /\ multipc # "off" /\ agentIDs \in [Workers -> Agents]
          /\ workerOutcome \in [Workers -> Outcomes] /\ workerOutcome[w] = "none"
          /\ results \in [Agents -> Outcomes] /\ multiStatus = "none"
      BY <1>4 DEF WorkerBooks, MultiInv
    <2>1. PICK v \in Verdicts(w) :
            /\ results' = [results EXCEPT ![agentIDs[w]] = v]
            /\ IF v = "ok"
               THEN succeeded' = succeeded + 1 /\ UNCHANGED failed
               ELSE failed' = failed + 1 /\ UNCHANGED succeeded
            /\ workerOutcome' = [workerOutcome EXCEPT ![w] = v]
      BY <1>4 DEF WorkerBooks
    <2>2. v \in {"ok", "bad"} /\ v \in Outcomes
      BY DEF Verdicts, Outcomes
    <2>3. /\ workerOutcome' \in [Workers -> Outcomes]
          /\ Cardinality(Ended(workerOutcome', v)) = Cardinality(Ended(workerOutcome, v)) + 1
          /\ \A u \in {"ok", "bad"} : u # v => Ended(workerOutcome', u) = Ended(workerOutcome, u)
      <3>1. workerOutcome' \in [Workers -> Outcomes]
        BY <2>0, <2>1, <2>2
      <3>2. Ended(workerOutcome', v) = Ended(workerOutcome, v) \cup {w} /\ w \notin Ended(workerOutcome, v)
        BY <2>0, <2>1, <2>2 DEF Ended
      <3>3. \A u \in {"ok", "bad"} : u # v => Ended(workerOutcome', u) = Ended(workerOutcome, u)
        BY <2>0, <2>1, <2>2 DEF Ended
      <3>4. IsFiniteSet(Ended(workerOutcome, v))
        BY <2>0, WorkersFinite, EndedFinite
      <3> QED
        BY <3>1, <3>2, <3>3, <3>4, FS_AddElement
    <2>4. /\ succeeded' = Cardinality(Ended(workerOutcome', "ok"))
          /\ failed' = Cardinality(Ended(workerOutcome', "bad"))
      BY <2>1, <2>2, <2>3 DEF MultiInv
    <2>5. /\ workerpc' \in [Workers -> {"off", "asking", "done"}]
          /\ \A x \in Workers : workerpc'[x] = IF x = w THEN "done" ELSE workerpc[x]
          /\ UNCHANGED <<agentIDs, multipc, multiStatus>>
      BY <1>4 DEF WorkerBooks, MultiInv
    <2>6. \A x \in Workers : workerOutcome'[x] = IF x = w THEN v ELSE workerOutcome[x]
      BY <2>0, <2>1
    <2>7. /\ results' \in [Agents -> Outcomes]
          /\ \A a \in Agents : results'[a] = IF a = agentIDs[w] THEN v ELSE results[a]
      BY <2>0, <2>1, <2>2
    <2>8. ASSUME NEW x \in Workers, workerOutcome'[x] # "none"
          PROVE  \E y \in Workers : /\ agentIDs'[y] = agentIDs'[x] /\ workerOutcome'[y] # "none"
                                    /\ results'[agentIDs'[x]] = workerOutcome'[y]
      <3>1. CASE agentIDs[x] = agentIDs[w]
        BY <2>0, <2>2, <2>5, <2>6, <2>7, <3>1
      <3>2. CASE agentIDs[x] # agentIDs[w]
        <4>1. workerOutcome[x] # "none"
          BY <2>6, <2>8, <3>2
        <4>2. PICK y \in Workers : /\ agentIDs[y] = agentIDs[x] /\ workerOutcome[y] # "none"
                                   /\ results[agentIDs[x]] = workerOutcome[y]
          BY <4>1 DEF MultiInv
        <4> QED
          BY <2>0, <2>5, <2>6, <2>7, <3>2, <4>2
      <3> QED
        BY <3>1, <3>2
    <2>9. \A x \in Workers : workerpc'[x] = "done" <=> workerOutcome'[x] # "none"
      BY <2>2, <2>5, <2>6 DEF MultiInv
    <2>10. multipc' = "off" => \A x \in Workers : workerpc'[x] = "off"
      BY <2>0, <2>5
    <2> QED
      BY <2>0, <2>3, <2>4, <2>5, <2>7, <2>8, <2>9, <2>10 DEF MultiInv
  <1> QED
    BY <1>1, <1>2, <1>3, <1>4

(* A line is booked with the outcome v, or, skipped, with none.            *)
LEMMA LineBooked ==
  ASSUME RunInv, line \in 1..ScriptLines, lineOutcome[line] = "none", NEW v \in Outcomes,
         lineOutcome' = [lineOutcome EXCEPT ![line] = v]
  PROVE  /\ lineOutcome' \in [1..ScriptLines -> Outcomes]
         /\ \A i \in 1..ScriptLines : lineOutcome'[i] = IF i = line THEN v ELSE lineOutcome[i]
         /\ Cardinality(Ended(lineOutcome', "ok")) = IF v = "ok" THEN successCount + 1 ELSE successCount
         /\ Cardinality(Ended(lineOutcome', "bad")) = IF v = "bad" THEN failedCount + 1 ELSE failedCount
  <1>0. /\ lineOutcome \in [1..ScriptLines -> Outcomes]
        /\ successCount = Cardinality(Ended(lineOutcome, "ok"))
        /\ failedCount = Cardinality(Ended(lineOutcome, "bad"))
    BY DEF RunInv
  <1>1. /\ lineOutcome' \in [1..ScriptLines -> Outcomes]
        /\ \A i \in 1..ScriptLines : lineOutcome'[i] = IF i = line THEN v ELSE lineOutcome[i]
    BY <1>0
  <1>2. \A u \in {"ok", "bad"} : u # v => Ended(lineOutcome', u) = Ended(lineOutcome, u)
    BY <1>0, <1>1 DEF Ended
  <1>3. \A u \in {"ok", "bad"} : u = v =>
            /\ Ended(lineOutcome', u) = Ended(lineOutcome, u) \cup {line}
            /\ line \notin Ended(lineOutcome, u)
    BY <1>0, <1>1 DEF Ended
  <1>4. /\ IsFiniteSet(Ended(lineOutcome, "ok")) /\ IsFiniteSet(Ended(lineOutcome, "bad"))
    BY <1>0, WorkersFinite, EndedFinite
  <1>5. Cardinality(Ended(lineOutcome', "ok")) = IF v = "ok" THEN successCount + 1 ELSE successCount
    BY <1>0, <1>2, <1>3, <1>4, FS_AddElement
  <1>6. Cardinality(Ended(lineOutcome', "bad")) = IF v = "bad" THEN failedCount + 1 ELSE failedCount
    BY <1>0, <1>2, <1>3, <1>4, FS_AddElement
  <1> QED
    BY <1>1, <1>5, <1>6

LEMMA RunNextInv ==
  ASSUME RunInv, ScriptBegins \/ LineHandled \/ LineAsks \/ LineBooks \/ ScriptReturns
  PROVE  RunInv'
  <1>0. ScriptLines \in Nat /\ line \in 0 .. ScriptLines + 1 /\ line \in Int
    BY BatchAssumption DEF RunInv
  <1>1. CASE ScriptBegins
    <2>1. line = 0 /\ line' = 1 /\ lines' \in [1..ScriptLines -> LineKinds]
      BY <1>1 DEF ScriptBegins
    <2>2. UNCHANGED <<asking, successCount, failedCount, scriptStatus, lineOutcome>>
      BY <1>1 DEF ScriptBegins
    <2>3. ~asking /\ scriptStatus = "none"
      BY <1>0, <2>1 DEF RunInv
    <2> QED
      BY <1>0, <2>1, <2>2, <2>3 DEF RunInv
  (* The line is booked and the next one begins.                           *)
  <1>2. ASSUME line \in 1..ScriptLines, line' = line + 1, UNCHANGED lines, ~asking',
               UNCHANGED scriptStatus, NEW v \in Outcomes,
               lineOutcome' = [lineOutcome EXCEPT ![line] = v],
               v = "none" <=> lines[line] = "skipped",
               successCount' = IF v = "ok" THEN successCount + 1 ELSE successCount,
               failedCount' = IF v = "bad" THEN failedCount + 1 ELSE failedCount
        PROVE  RunInv'
    <2>1. /\ lineOutcome' \in [1..ScriptLines -> Outcomes]
          /\ \A i \in 1..ScriptLines : lineOutcome'[i] = IF i = line THEN v ELSE lineOutcome[i]
          /\ Cardinality(Ended(lineOutcome', "ok")) = successCount'
          /\ Cardinality(Ended(lineOutcome', "bad")) = failedCount'
      <3>1. lineOutcome[line] = "none"
        BY <1>0, <1>2 DEF RunInv
      <3> QED
        BY <1>2, <3>1, LineBooked
    <2>2. scriptStatus' = "none"
      BY <1>0, <1>2 DEF RunInv
    <2>3. \A i \in 1..ScriptLines : i >= line' => lineOutcome'[i] = "none"
      BY <1>0, <1>2, <2>1 DEF RunInv
    <2>4. \A i \in 1..ScriptLines : i < line' => (lineOutcome'[i] = "none" <=> lines'[i] = "skipped")
      BY <1>0, <1>2, <2>1 DEF RunInv
    <2>5. line' \in 0 .. ScriptLines + 1 /\ lines' \in [1..ScriptLines -> LineKinds]
      BY <1>0, <1>2 DEF RunInv
    <2> QED
      BY <1>2, <2>1, <2>2, <2>3, <2>4, <2>5 DEF RunInv
  <1>3. CASE LineHandled
    <2>1. /\ line \in 1..ScriptLines /\ lines[line] # "command" /\ line' = line + 1
          /\ UNCHANGED <<lines, asking, successCount, scriptStatus>>
          /\ failedCount' = IF lines[line] = "untemplated" THEN failedCount + 1 ELSE failedCount
          /\ lineOutcome' = [lineOutcome EXCEPT ![line] = IF lines[line] = "untemplated" THEN "bad" ELSE "none"]
      BY <1>3 DEF LineHandled
    <2>2. ~asking /\ ~asking'
      BY <2>1 DEF RunInv
    <2>3. lines[line] \in {"skipped", "untemplated"}
      BY <1>0, <2>1 DEF RunInv, LineKinds
    <2>4. CASE lines[line] = "untemplated"
      BY <1>2, <2>1, <2>2, <2>4 DEF Outcomes
    <2>5. CASE lines[line] = "skipped"
      BY <1>2, <2>1, <2>2, <2>5 DEF Outcomes
    <2> QED
      BY <2>3, <2>4, <2>5
  <1>4. CASE LineAsks
    BY <1>0, <1>4 DEF LineAsks, RunInv
  <1>5. CASE LineBooks
    <2>1. /\ line \in 1..ScriptLines /\ lines[line] = "command" /\ line' = line + 1 /\ ~asking'
          /\ UNCHANGED <<lines, scriptStatus>>
      BY <1>5 DEF LineBooks, RunInv
    <2>2. PICK v \in Verdicts(Runner) :
            /\ IF v = "ok"
               THEN successCount' = successCount + 1 /\ UNCHANGED failedCount
               ELSE failedCount' = failedCount + 1 /\ UNCHANGED successCount
            /\ lineOutcome' = [lineOutcome EXCEPT ![line] = v]
      BY <1>5 DEF LineBooks
    <2>3. v \in {"ok", "bad"} /\ v \in Outcomes
      BY DEF Verdicts, Outcomes
    <2> QED
      BY <1>2, <2>1, <2>2, <2>3
  <1>6. CASE ScriptReturns
    <2>1. failedCount \in Nat
      BY WorkersFinite, EndedFinite DEF RunInv
    <2> QED
      BY <1>0, <1>6, <2>1 DEF ScriptReturns, RunInv
  <1> QED
    BY <1>1, <1>3, <1>4, <1>5, <1>6

LEMMA BatchNextInv == BatchInv /\ [BatchNext]_<<requesterVars, batchVars>> => BatchInv'
  <1> SUFFICES ASSUME BatchInv, [BatchNext]_<<requesterVars, batchVars>> PROVE BatchInv'
    OBVIOUS
  <1>1. CASE MultiBegins \/ MultiReturns \/ \E w \in Workers : WorkerAsks(w) \/ WorkerBooks(w)
    <2>1. UNCHANGED runVars
      BY <1>1 DEF MultiBegins, MultiReturns, WorkerAsks, WorkerBooks
    <2> QED
      BY <1>1, <2>1, MultiNextInv, RunStays DEF BatchInv
  <1>2. CASE ScriptBegins \/ LineHandled \/ LineAsks \/ LineBooks \/ ScriptReturns
    <2>1. UNCHANGED multiVars
      BY <1>2 DEF ScriptBegins, LineHandled, LineAsks, LineBooks, ScriptReturns
    <2> QED
      BY <1>2, <2>1, RunNextInv, MultiStays DEF BatchInv
  <1>3. CASE UNCHANGED batchVars
    BY <1>3, MultiStays, RunStays DEF BatchInv, batchVars, multiVars, runVars
  <1> QED
    BY <1>1, <1>2, <1>3 DEF BatchNext

LEMMA BatchInvSuffices == BatchInv => BatchesAccounted
  <1> SUFFICES ASSUME BatchInv PROVE BatchesAccounted
    OBVIOUS
  <1>1. ASSUME multiStatus # "none"
        PROVE  /\ \A w \in Workers : \E x \in Workers :
                    /\ agentIDs[x] = agentIDs[w] /\ workerOutcome[x] # "none"
                    /\ results[agentIDs[w]] = workerOutcome[x]
               /\ succeeded = Cardinality(Ended(workerOutcome, "ok"))
               /\ failed = Cardinality(Ended(workerOutcome, "bad"))
               /\ succeeded + failed = Fanout
               /\ (multiStatus = "success") = (Ended(workerOutcome, "bad") = {})
               /\ (multiStatus = "error") = (Ended(workerOutcome, "ok") = {})
    <2>0. /\ MultiInv /\ workerOutcome \in [Workers -> Outcomes]
          /\ \A w \in Workers : workerOutcome[w] \in {"ok", "bad"}
          /\ succeeded = Cardinality(Ended(workerOutcome, "ok"))
          /\ failed = Cardinality(Ended(workerOutcome, "bad"))
          /\ multiStatus = "error" <=> failed = Fanout
          /\ multiStatus = "success" <=> failed # Fanout /\ failed = 0
      BY <1>1 DEF BatchInv, MultiInv, Outcomes
    <2>1. /\ Ended(workerOutcome, "ok") \cup Ended(workerOutcome, "bad") = Workers
          /\ Ended(workerOutcome, "ok") \cap Ended(workerOutcome, "bad") = {}
      BY <2>0 DEF Ended
    <2>2. /\ IsFiniteSet(Ended(workerOutcome, "ok")) /\ IsFiniteSet(Ended(workerOutcome, "bad"))
          /\ succeeded \in Nat /\ failed \in Nat
      BY <2>0, WorkersFinite, EndedFinite
    <2>3. /\ succeeded = 0 <=> Ended(workerOutcome, "ok") = {}
          /\ failed = 0 <=> Ended(workerOutcome, "bad") = {}
      BY <2>0, <2>2, FS_EmptySet
    <2>4. succeeded + failed = Fanout
      <3>1. /\ Cardinality(Workers) = Fanout /\ Fanout \in Nat /\ Cardinality({}) = 0
        BY WorkersFinite, FS_EmptySet, BatchAssumption
      <3>2. Cardinality(Workers) = succeeded + failed - Cardinality({})
        BY <2>0, <2>1, <2>2, FS_Union
      <3> QED
        BY <2>2, <3>1, <3>2
    <2>5. /\ multiStatus = "success" <=> failed = 0
          /\ multiStatus = "error" <=> succeeded = 0
      BY <2>0, <2>2, <2>4, BatchAssumption
    <2>6. \A w \in Workers : \E x \in Workers :
                    /\ agentIDs[x] = agentIDs[w] /\ workerOutcome[x] # "none"
                    /\ results[agentIDs[w]] = workerOutcome[x]
      BY <2>0 DEF MultiInv
    <2> QED
      BY <2>0, <2>3, <2>4, <2>5, <2>6
  <1>2. ASSUME scriptStatus # "none"
        PROVE  /\ successCount = Cardinality(Ended(lineOutcome, "ok"))
               /\ successCount + failedCount = Cardinality({i \in 1..ScriptLines : lines[i] # "skipped"})
               /\ (scriptStatus = "success") = (Ended(lineOutcome, "bad") = {})
    <2>0. /\ lineOutcome \in [1..ScriptLines -> Outcomes] /\ line = ScriptLines + 1 /\ ScriptLines \in Nat
          /\ successCount = Cardinality(Ended(lineOutcome, "ok"))
          /\ failedCount = Cardinality(Ended(lineOutcome, "bad"))
          /\ scriptStatus = "success" <=> failedCount = 0
      BY <1>2, BatchAssumption DEF BatchInv, RunInv
    <2>1. \A i \in 1..ScriptLines : lineOutcome[i] = "none" <=> lines[i] = "skipped"
      BY <2>0 DEF BatchInv, RunInv
    <2>2. /\ Ended(lineOutcome, "ok") \cup Ended(lineOutcome, "bad") = {i \in 1..ScriptLines : lines[i] # "skipped"}
          /\ Ended(lineOutcome, "ok") \cap Ended(lineOutcome, "bad") = {}
      BY <2>0, <2>1 DEF Ended, Outcomes
    <2>3. /\ IsFiniteSet(Ended(lineOutcome, "ok")) /\ IsFiniteSet(Ended(lineOutcome, "bad"))
          /\ successCount \in Nat /\ failedCount \in Nat
      BY <2>0, WorkersFinite, EndedFinite
    <2>4. failedCount = 0 <=> Ended(lineOutcome, "bad") = {}
      BY <2>0, <2>3, FS_EmptySet
    <2>5. /\ Cardinality({}) = 0
          /\ Cardinality({i \in 1..ScriptLines : lines[i] # "skipped"})
               = successCount + failedCount - Cardinality({})
      <3>1. Cardinality(Ended(lineOutcome, "ok") \cup Ended(lineOutcome, "bad"))
              = Cardinality(Ended(lineOutcome, "ok")) + Cardinality(Ended(lineOutcome, "bad"))
                - Cardinality(Ended(lineOutcome, "ok") \cap Ended(lineOutcome, "bad"))
        BY <2>3, FS_Union
      <3>2. Cardinality({}) = 0
        BY FS_EmptySet
      <3> QED
        BY <2>0, <2>2, <3>1, <3>2
    <2>6. successCount + failedCount = Cardinality({i \in 1..ScriptLines : lines[i] # "skipped"})
      BY <2>3, <2>5
    <2> QED
      BY <2>0, <2>4, <2>6
  <1> QED
    BY <1>1, <1>2 DEF BatchesAccounted

(* Any number of agents, goroutines and lines, answers in any order and a  *)
(* shutdown at any point: what ExecCommandMulti and RunScript report is    *)
(* what became of their requests (app.go:463-499, 911-920).                *)
THEOREM BatchesAccountedTheorem == BatchSpec => []BatchesAccounted
  BY BatchInitInv, BatchNextInv, BatchInvSuffices, PTL DEF BatchSpec

----------------------------------------------------------------------------
(* ScriptStore                                                             *)

CallSteps ==
    {"idle", "overwriting", "unlocked", "marshalling", "writing", "removing", "reading", "returned"}
Contents == Calls \cup {None, Torn}

StoreTypeOK ==
    /\ scripts \in [Names -> Objects \cup {None}]
    /\ heap \in [Objects -> Contents]
    /\ file \in [Names -> Contents]
    /\ latest \in [Names -> Contents]
    /\ lock \in Calls \cup {None}
    /\ callpc \in [Calls -> CallSteps]
    /\ target \in [Calls -> Names \cup {None}]
    /\ object \in [Calls -> Objects \cup {None}]
    /\ data \in [Calls -> Contents]
    /\ serial \in [Names -> BOOLEAN]

(* o is a script object of n: the one loaded for it, or one that a call    *)
(* about n made.  Objects of two names are never the same.                 *)
ObjectOf(o, n) == o = n \/ (o \in Calls /\ target[o] = n /\ callpc[o] # "idle")

(* Pointers lead to scripts of the name they were looked up for, and who   *)
(* overwrites one holds the lock.                                          *)
StoreLinks ==
    /\ \A n \in Names : scripts[n] # None => ObjectOf(scripts[n], n)
    /\ \A c \in Calls :
         /\ callpc[c] # "idle" => target[c] \in Names
         /\ callpc[c] = "idle" => target[c] = None /\ object[c] = None /\ data[c] # Torn
         /\ object[c] # None => ObjectOf(object[c], target[c])
         /\ callpc[c] \in {"marshalling", "reading"} => object[c] # None
         /\ callpc[c] = "overwriting" <=> lock = c
         /\ heap[c] # Torn
    /\ lock = None => writing = None
    /\ lock # None => \E o \in Objects : writing = <<o, lock>> /\ ObjectOf(o, target[lock])

(* While one call at a time is about n, what it has done so far.           *)
Agrees(n) ==
    serial[n] =>
        /\ \A c, d \in Calls : target[c] = n /\ target[d] = n /\ Active(c) /\ Active(d) => c = d
        /\ heap[n] # Torn
        /\ \A c \in Calls : target[c] = n =>
             /\ data[c] # Torn
             /\ callpc[c] = "overwriting" => scripts[n] # None /\ writing = <<scripts[n], c>>
             /\ callpc[c] \in {"unlocked", "marshalling", "writing"} =>
                  scripts[n] # None /\ heap[scripts[n]] = c
             /\ callpc[c] = "marshalling" => object[c] = scripts[n]
             /\ callpc[c] = "writing" => data[c] = c
             /\ callpc[c] = "removing" => scripts[n] = None
        /\ ~diskFailed /\ (\A c \in Calls : target[c] = n => callpc[c] \in {"idle", "reading", "returned"})
             => InMemory(n) = latest[n] /\ file[n] = latest[n]

StoreInv == StoreTypeOK /\ StoreLinks /\ \A n \in Names : Agrees(n)

LEMMA StoreConstants ==
    /\ \A c \in Calls : c \notin Names /\ c # None /\ c # Torn /\ c \in Objects
    /\ \A n \in Names : n \notin Calls /\ n # None /\ n # Torn /\ n \in Objects
    /\ None # Torn /\ Objects = Calls \cup Names
    /\ \A o \in Objects, c \in Calls : <<o, c>> # None
  BY ScriptAssumption DEF Objects

LEMMA StoreInitInv == ScriptInit => StoreInv
  <1> SUFFICES ASSUME ScriptInit PROVE StoreInv
    OBVIOUS
  <1>1. StoreTypeOK
    BY StoreConstants DEF ScriptInit, StoreTypeOK, Loaded, Contents, CallSteps
  <1>2. StoreLinks
    BY StoreConstants DEF ScriptInit, StoreLinks, Loaded
  <1>3. ASSUME NEW n \in Names PROVE Agrees(n)
    BY <1>3, StoreConstants DEF ScriptInit, Agrees, Active, InMemory, Loaded
  <1> QED
    BY <1>1, <1>2, <1>3 DEF StoreInv

(* A script that a step is not about.                                      *)
LEMMA OtherAgrees ==
  ASSUME NEW m \in Names, Agrees(m), serial'[m] = serial[m],
         \A d \in Calls : target'[d] = m <=> target[d] = m,
         \A d \in Calls : target[d] = m =>
             callpc'[d] = callpc[d] /\ data'[d] = data[d] /\ object'[d] = object[d],
         scripts'[m] = scripts[m], file'[m] = file[m], latest'[m] = latest[m], heap'[m] = heap[m],
         scripts[m] # None => heap'[scripts[m]] = heap[scripts[m]],
         diskFailed => diskFailed',
         \A d \in Calls : target[d] = m /\ callpc[d] = "overwriting" => writing' = writing
  PROVE  Agrees(m)'
  <1> SUFFICES ASSUME serial'[m] PROVE Agrees(m)'
    BY DEF Agrees
  <1>0. serial[m]
    OBVIOUS
  <1>1. \A c, d \in Calls : target'[c] = m /\ target'[d] = m /\ Active(c)' /\ Active(d)' => c = d
    BY <1>0 DEF Agrees, Active
  <1>2. ASSUME NEW c \in Calls, target'[c] = m
        PROVE  /\ data'[c] # Torn
               /\ callpc'[c] = "overwriting" => scripts'[m] # None /\ writing' = <<scripts'[m], c>>
               /\ callpc'[c] \in {"unlocked", "marshalling", "writing"} =>
                    scripts'[m] # None /\ heap'[scripts'[m]] = c
               /\ callpc'[c] = "marshalling" => object'[c] = scripts'[m]
               /\ callpc'[c] = "writing" => data'[c] = c
               /\ callpc'[c] = "removing" => scripts'[m] = None
    BY <1>0, <1>2 DEF Agrees
  <1>3. ASSUME ~diskFailed', \A c \in Calls : target'[c] = m => callpc'[c] \in {"idle", "reading", "returned"}
        PROVE  InMemory(m)' = latest'[m] /\ file'[m] = latest'[m]
    <2>1. InMemory(m) = latest[m] /\ file[m] = latest[m]
      BY <1>0, <1>3 DEF Agrees
    <2> QED
      BY <2>1 DEF InMemory
  <1>4. heap'[m] # Torn
    BY <1>0 DEF Agrees
  <1> QED
    BY <1>1, <1>2, <1>3, <1>4 DEF Agrees

(* Objects of two names are different.                                     *)
LEMMA Separate ==
  ASSUME StoreLinks, NEW n \in Names, NEW m \in Names, m # n, NEW o, ObjectOf(o, n)
  PROVE  o # m /\ (scripts[m] # None => o # scripts[m])
  BY StoreConstants DEF StoreLinks, ObjectOf

(* What a call that begins does whichever operation it is.                 *)
LEMMA EntersEffect ==
  ASSUME StoreTypeOK, NEW c \in Calls, NEW n \in Names, NEW operation, NEW to \in CallSteps,
         Enters(c, operation, n, to)
  PROVE  /\ lock = None /\ callpc[c] = "idle"
         /\ callpc' \in [Calls -> CallSteps] /\ target' \in [Calls -> Names \cup {None}]
         /\ serial' \in [Names -> BOOLEAN]
         /\ callpc'[c] = to /\ target'[c] = n
         /\ \A d \in Calls : d # c => callpc'[d] = callpc[d] /\ target'[d] = target[d]
         /\ \A m \in Names : m # n => serial'[m] = serial[m]
         /\ serial'[n] => serial[n] /\ \A d \in Calls : target[d] = n => ~Active(d)
  <1>1. /\ lock = None /\ callpc[c] = "idle"
        /\ callpc' \in [Calls -> CallSteps] /\ target' \in [Calls -> Names \cup {None}]
        /\ callpc'[c] = to /\ target'[c] = n
        /\ \A d \in Calls : d # c => callpc'[d] = callpc[d] /\ target'[d] = target[d]
    BY DEF Enters, Steps, StoreTypeOK
  <1>2. serial \in [Names -> BOOLEAN]
    BY DEF StoreTypeOK
  <1>3. serial' = [serial EXCEPT ![n] = serial[n] /\ \A d \in Calls : target[d] = n => ~Active(d)]
    BY DEF Enters
  <1>4. serial'[n] = (serial[n] /\ \A d \in Calls : target[d] = n => ~Active(d))
    BY <1>2, <1>3, Zenon
  <1>5. serial' \in [Names -> BOOLEAN]
    BY <1>2, <1>3
  <1>6. \A m \in Names : m # n => serial'[m] = serial[m]
    BY <1>2, <1>3, Zenon
  <1> QED
    BY <1>1, <1>4, <1>5, <1>6

(* A name on which nothing was under way.                                  *)
LEMMA QuietAgrees ==
  ASSUME NEW n \in Names, Agrees(n), serial[n], \A d \in Calls : target[d] = n => ~Active(d)
  PROVE  /\ heap[n] # Torn
         /\ \A d \in Calls : target[d] = n => data[d] # Torn /\ callpc[d] \in {"idle", "returned"}
         /\ ~diskFailed => InMemory(n) = latest[n] /\ file[n] = latest[n]
  BY DEF Agrees, Active

(* A call that begins leaves the other scripts alone.                      *)
LEMMA EntersOthers ==
  ASSUME StoreInv, NEW c \in Calls, NEW n \in Names, NEW operation, NEW to \in CallSteps,
         Enters(c, operation, n, to), UNCHANGED <<file, data, latest, diskFailed>>,
         \A m \in Names : m # n => scripts'[m] = scripts[m],
         \A o \in Objects : o # c => heap'[o] = heap[o],
         \A d \in Calls : d # c => object'[d] = object[d]
  PROVE  \A m \in Names : m # n => Agrees(m)'
  <1>0. StoreTypeOK /\ StoreLinks /\ \A m \in Names : Agrees(m)
    BY DEF StoreInv
  <1>1. /\ lock = None /\ callpc[c] = "idle" /\ target'[c] = n
        /\ \A d \in Calls : d # c => callpc'[d] = callpc[d] /\ target'[d] = target[d]
        /\ \A m \in Names : m # n => serial'[m] = serial[m]
    BY <1>0, EntersEffect
  <1> SUFFICES ASSUME NEW m \in Names, m # n PROVE Agrees(m)'
    OBVIOUS
  <1>2. \A d \in Calls : target'[d] = m <=> target[d] = m /\ d # c
    BY <1>0, <1>1, StoreConstants DEF StoreLinks
  <1>3. \A d \in Calls : target[d] = m =>
            d # c /\ callpc[d] # "overwriting"
            /\ callpc'[d] = callpc[d] /\ data'[d] = data[d] /\ object'[d] = object[d]
    BY <1>0, <1>1, StoreConstants DEF StoreLinks
  <1>4. heap'[m] = heap[m] /\ (scripts[m] # None => heap'[scripts[m]] = heap[scripts[m]])
    BY <1>0, <1>1, StoreConstants DEF StoreLinks, ObjectOf, StoreTypeOK
  <1>5. /\ Agrees(m) /\ serial'[m] = serial[m] /\ scripts'[m] = scripts[m]
        /\ file'[m] = file[m] /\ latest'[m] = latest[m] /\ (diskFailed => diskFailed')
    BY <1>0, <1>1
  <1>6. \A d \in Calls : target'[d] = m <=> target[d] = m
    BY <1>2, <1>3
  <1> QED
    BY <1>3, <1>4, <1>5, <1>6, OtherAgrees

LEMMA SaveOverwritesInv ==
  ASSUME StoreInv, NEW c \in Calls, NEW n \in Names, SaveOverwrites(c, n) PROVE StoreInv'
  <1>0. StoreTypeOK /\ StoreLinks /\ \A m \in Names : Agrees(m)
    BY DEF StoreInv
  <1>1. Enters(c, "save", n, "overwriting") /\ "overwriting" \in CallSteps
    BY DEF SaveOverwrites, CallSteps
  <1>2. /\ lock = None /\ callpc[c] = "idle"
        /\ callpc' \in [Calls -> CallSteps] /\ target' \in [Calls -> Names \cup {None}]
        /\ serial' \in [Names -> BOOLEAN]
        /\ callpc'[c] = "overwriting" /\ target'[c] = n
        /\ \A d \in Calls : d # c => callpc'[d] = callpc[d] /\ target'[d] = target[d]
        /\ \A m \in Names : m # n => serial'[m] = serial[m]
        /\ serial'[n] => serial[n] /\ \A d \in Calls : target[d] = n => ~Active(d)
    BY <1>0, <1>1, EntersEffect
  <1>3. /\ scripts[n] # None /\ lock' = c /\ writing' = <<scripts[n], c>>
        /\ UNCHANGED <<scripts, heap, file, object, data, latest, diskFailed>>
    BY DEF SaveOverwrites
  <1>4. StoreTypeOK'
    BY <1>0, <1>2, <1>3 DEF StoreTypeOK
  <1>5. \A d \in Calls : callpc[d] # "idle" => callpc'[d] # "idle" /\ target'[d] = target[d]
    BY <1>2
  <1>6. StoreLinks'
    BY <1>0, <1>2, <1>3, <1>5, StoreConstants DEF StoreLinks, ObjectOf, StoreTypeOK
  <1>7. \A m \in Names : m # n => Agrees(m)'
    BY <1>1, <1>3, EntersOthers
  <1>8. Agrees(n)'
    <2> SUFFICES ASSUME serial'[n] PROVE Agrees(n)'
      BY DEF Agrees
    <2>1. /\ heap[n] # Torn
          /\ \A d \in Calls : target[d] = n => data[d] # Torn /\ callpc[d] \in {"idle", "returned"}
      BY <1>0, <1>2, QuietAgrees
    <2> QED
      BY <1>0, <1>2, <1>3, <2>1 DEF Agrees, StoreLinks, Active
  <1> QED
    BY <1>4, <1>6, <1>7, <1>8 DEF StoreInv

LEMMA SaveCreatesInv ==
  ASSUME StoreInv, NEW c \in Calls, NEW n \in Names, SaveCreates(c, n) PROVE StoreInv'
  <1>0. StoreTypeOK /\ StoreLinks /\ \A m \in Names : Agrees(m)
    BY DEF StoreInv
  <1>1. Enters(c, "save", n, "unlocked") /\ "unlocked" \in CallSteps
    BY DEF SaveCreates, CallSteps
  <1>2. /\ lock = None /\ callpc[c] = "idle"
        /\ callpc' \in [Calls -> CallSteps] /\ target' \in [Calls -> Names \cup {None}]
        /\ serial' \in [Names -> BOOLEAN]
        /\ callpc'[c] = "unlocked" /\ target'[c] = n
        /\ \A d \in Calls : d # c => callpc'[d] = callpc[d] /\ target'[d] = target[d]
        /\ serial'[n] => serial[n] /\ \A d \in Calls : target[d] = n => ~Active(d)
    BY <1>0, <1>1, EntersEffect
  <1>3. /\ scripts' \in [Names -> Objects \cup {None}] /\ scripts'[n] = c
        /\ \A m \in Names : m # n => scripts'[m] = scripts[m]
    BY <1>0, StoreConstants DEF SaveCreates, StoreTypeOK
  <1>4. /\ heap' \in [Objects -> Contents] /\ heap'[c] = c
        /\ \A o \in Objects : o # c => heap'[o] = heap[o]
    BY <1>0, StoreConstants DEF SaveCreates, StoreTypeOK, Contents
  <1>5. UNCHANGED <<writing, lock, file, object, data, latest, diskFailed>>
    BY DEF SaveCreates
  <1>6. StoreTypeOK'
    BY <1>0, <1>2, <1>3, <1>4, <1>5 DEF StoreTypeOK
  <1>7. StoreLinks'
    <2>1. \A d \in Calls : callpc[d] # "idle" => callpc'[d] # "idle" /\ target'[d] = target[d]
      BY <1>2
    <2>2. \A m \in Names : (scripts[m] # None => ObjectOf(scripts[m], m))'
      BY <1>0, <1>2, <1>3, <2>1 DEF StoreLinks, ObjectOf
    <2>3. \A d \in Calls : heap'[d] # Torn
      BY <1>0, <1>4, StoreConstants DEF StoreLinks
    <2> QED
      BY <1>0, <1>2, <1>5, <2>1, <2>2, <2>3, StoreConstants DEF StoreLinks, ObjectOf
  <1>8. \A m \in Names : m # n => Agrees(m)'
    BY <1>1, <1>3, <1>4, <1>5, EntersOthers
  <1>9. Agrees(n)'
    <2> SUFFICES ASSUME serial'[n] PROVE Agrees(n)'
      BY DEF Agrees
    <2>1. /\ heap[n] # Torn
          /\ \A d \in Calls : target[d] = n => data[d] # Torn /\ callpc[d] \in {"idle", "returned"}
      BY <1>0, <1>2, QuietAgrees
    <2>2. data[c] # Torn /\ heap'[n] = heap[n] /\ c # None
      BY <1>0, <1>2, <1>4, StoreConstants DEF StoreLinks
    <2> QED
      BY <1>2, <1>3, <1>4, <1>5, <2>1, <2>2 DEF Agrees, Active
  <1> QED
    BY <1>6, <1>7, <1>8, <1>9 DEF StoreInv

LEMMA DeleteForgetsInv ==
  ASSUME StoreInv, NEW c \in Calls, NEW n \in Names, DeleteForgets(c, n) PROVE StoreInv'
  <1> DEFINE to == IF scripts[n] = None THEN "returned" ELSE "removing"
  <1>0. StoreTypeOK /\ StoreLinks /\ \A m \in Names : Agrees(m)
    BY DEF StoreInv
  <1>1. Enters(c, "delete", n, to) /\ to \in CallSteps /\ to \in {"returned", "removing"}
    BY DEF DeleteForgets, CallSteps
  <1>2. /\ lock = None /\ callpc[c] = "idle"
        /\ callpc' \in [Calls -> CallSteps] /\ target' \in [Calls -> Names \cup {None}]
        /\ serial' \in [Names -> BOOLEAN]
        /\ callpc'[c] = to /\ target'[c] = n
        /\ \A d \in Calls : d # c => callpc'[d] = callpc[d] /\ target'[d] = target[d]
        /\ serial'[n] => serial[n] /\ \A d \in Calls : target[d] = n => ~Active(d)
    BY <1>0, <1>1, EntersEffect
  <1>3. /\ scripts' \in [Names -> Objects \cup {None}] /\ scripts'[n] = None
        /\ \A m \in Names : m # n => scripts'[m] = scripts[m]
    BY <1>0 DEF DeleteForgets, StoreTypeOK
  <1>4. UNCHANGED <<heap, writing, lock, file, object, data, latest, diskFailed>>
    BY DEF DeleteForgets
  <1>5. StoreTypeOK'
    BY <1>0, <1>2, <1>3, <1>4 DEF StoreTypeOK
  <1>6. StoreLinks'
    <2>1. \A d \in Calls : callpc[d] # "idle" => callpc'[d] # "idle" /\ target'[d] = target[d]
      BY <1>1, <1>2
    <2>2. \A m \in Names : (scripts[m] # None => ObjectOf(scripts[m], m))'
      BY <1>0, <1>2, <1>3, <2>1 DEF StoreLinks, ObjectOf
    <2> QED
      BY <1>0, <1>1, <1>2, <1>4, <2>1, <2>2, StoreConstants DEF StoreLinks, ObjectOf
  <1>7. \A m \in Names : m # n => Agrees(m)'
    BY <1>1, <1>3, <1>4, EntersOthers
  <1>8. Agrees(n)'
    <2> SUFFICES ASSUME serial'[n] PROVE Agrees(n)'
      BY DEF Agrees
    <2>1. /\ heap[n] # Torn
          /\ \A d \in Calls : target[d] = n => data[d] # Torn /\ callpc[d] \in {"idle", "returned"}
          /\ ~diskFailed => InMemory(n) = latest[n] /\ file[n] = latest[n]
      BY <1>0, <1>2, QuietAgrees
    <2>2. data[c] # Torn
      BY <1>0, <1>2 DEF StoreLinks
    <2>3. to = "returned" /\ ~diskFailed' => InMemory(n)' = latest'[n] /\ file'[n] = latest'[n]
      BY <1>3, <1>4, <2>1 DEF InMemory
    <2> QED
      BY <1>1, <1>2, <1>3, <1>4, <2>1, <2>2, <2>3 DEF Agrees, Active
  <1> QED
    BY <1>5, <1>6, <1>7, <1>8 DEF StoreInv

LEMMA RunGetsInv ==
  ASSUME StoreInv, NEW c \in Calls, NEW n \in Names, RunGets(c, n) PROVE StoreInv'
  <1> DEFINE to == IF scripts[n] = None THEN "returned" ELSE "reading"
  <1>0. StoreTypeOK /\ StoreLinks /\ \A m \in Names : Agrees(m)
    BY DEF StoreInv
  <1>1. Enters(c, "run", n, to) /\ to \in CallSteps /\ to \in {"returned", "reading"}
    BY DEF RunGets, CallSteps
  <1>2. /\ lock = None /\ callpc[c] = "idle"
        /\ callpc' \in [Calls -> CallSteps] /\ target' \in [Calls -> Names \cup {None}]
        /\ serial' \in [Names -> BOOLEAN]
        /\ callpc'[c] = to /\ target'[c] = n
        /\ \A d \in Calls : d # c => callpc'[d] = callpc[d] /\ target'[d] = target[d]
        /\ serial'[n] => serial[n] /\ \A d \in Calls : target[d] = n => ~Active(d)
    BY <1>0, <1>1, EntersEffect
  <1>3. /\ object' \in [Calls -> Objects \cup {None}] /\ object'[c] = scripts[n]
        /\ \A d \in Calls : d # c => object'[d] = object[d]
    BY <1>0 DEF RunGets, StoreTypeOK
  <1>4. UNCHANGED <<scripts, heap, writing, lock, file, data, latest, diskFailed>>
    BY DEF RunGets
  <1>5. StoreTypeOK'
    BY <1>0, <1>2, <1>3, <1>4 DEF StoreTypeOK
  <1>6. StoreLinks'
    <2>1. \A d \in Calls : callpc[d] # "idle" => callpc'[d] # "idle" /\ target'[d] = target[d]
      BY <1>1, <1>2
    <2>2. \A d \in Calls : (object[d] # None => ObjectOf(object[d], target[d]))'
      BY <1>0, <1>2, <1>3, <2>1 DEF StoreLinks, ObjectOf
    <2>3. \A d \in Calls : callpc'[d] \in {"marshalling", "reading"} => object'[d] # None
      BY <1>0, <1>1, <1>2, <1>3 DEF StoreLinks
    <2>4. \A d \in Calls : callpc'[d] = "idle" => target'[d] = None /\ object'[d] = None /\ data'[d] # Torn
      BY <1>0, <1>1, <1>2, <1>3, <1>4 DEF StoreLinks
    <2> QED
      BY <1>0, <1>1, <1>2, <1>4, <2>1, <2>2, <2>3, <2>4, StoreConstants DEF StoreLinks, ObjectOf
  <1>7. \A m \in Names : m # n => Agrees(m)'
    BY <1>1, <1>3, <1>4, EntersOthers
  <1>8. Agrees(n)'
    <2> SUFFICES ASSUME serial'[n] PROVE Agrees(n)'
      BY DEF Agrees
    <2>1. /\ heap[n] # Torn
          /\ \A d \in Calls : target[d] = n => data[d] # Torn /\ callpc[d] \in {"idle", "returned"}
          /\ ~diskFailed => InMemory(n) = latest[n] /\ file[n] = latest[n]
      BY <1>0, <1>2, QuietAgrees
    <2>2. data[c] # Torn
      BY <1>0, <1>2 DEF StoreLinks
    <2>3. ~diskFailed' => InMemory(n)' = latest'[n] /\ file'[n] = latest'[n]
      BY <1>4, <2>1 DEF InMemory
    <2> QED
      BY <1>1, <1>2, <1>4, <2>1, <2>2, <2>3 DEF Agrees, Active
  <1> QED
    BY <1>5, <1>6, <1>7, <1>8 DEF StoreInv

(* A call that goes on leaves the other scripts alone.                     *)
LEMMA GoesOnOthers ==
  ASSUME StoreInv, NEW c \in Calls, callpc[c] # "idle", UNCHANGED <<scripts, target, serial>>,
         \A d \in Calls : d # c => callpc'[d] = callpc[d] /\ data'[d] = data[d] /\ object'[d] = object[d],
         \A m \in Names : m # target[c] => file'[m] = file[m] /\ latest'[m] = latest[m],
         \A o \in Objects : ~ObjectOf(o, target[c]) => heap'[o] = heap[o],
         diskFailed => diskFailed',
         lock = c \/ writing' = writing
  PROVE  \A m \in Names : m # target[c] => Agrees(m)'
  <1>0. StoreTypeOK /\ StoreLinks /\ \A m \in Names : Agrees(m)
    BY DEF StoreInv
  <1> SUFFICES ASSUME NEW m \in Names, m # target[c] PROVE Agrees(m)'
    OBVIOUS
  <1>1. \A d \in Calls : target'[d] = m <=> target[d] = m
    OBVIOUS
  <1>2. \A d \in Calls : target[d] = m =>
            callpc'[d] = callpc[d] /\ data'[d] = data[d] /\ object'[d] = object[d]
    OBVIOUS
  <1>3. heap'[m] = heap[m] /\ (scripts[m] # None => heap'[scripts[m]] = heap[scripts[m]])
    BY <1>0, StoreConstants DEF StoreLinks, ObjectOf, StoreTypeOK
  <1>4. \A d \in Calls : target[d] = m /\ callpc[d] = "overwriting" => writing' = writing
    BY <1>0 DEF StoreLinks
  <1>5. /\ Agrees(m) /\ serial'[m] = serial[m] /\ scripts'[m] = scripts[m]
        /\ file'[m] = file[m] /\ latest'[m] = latest[m] /\ (diskFailed => diskFailed')
    BY <1>0
  <1> QED
    BY <1>1, <1>2, <1>3, <1>4, <1>5, OtherAgrees

(* While one call at a time is about a script, nobody reads what is being  *)
(* written.                                                                *)
LEMMA ReadsWhole ==
  ASSUME StoreInv, NEW c \in Calls, callpc[c] \in {"marshalling", "reading"}, serial[target[c]]
  PROVE  ReadsFrom(object[c]) = {heap[object[c]]} /\ heap[object[c]] # Torn
  <1>0. /\ StoreTypeOK /\ StoreLinks /\ target[c] \in Names /\ Agrees(target[c])
        /\ object[c] # None /\ ObjectOf(object[c], target[c]) /\ lock # c
    BY DEF StoreInv, StoreLinks
  <1>1. ~(writing # None /\ writing[1] = object[c])
    <2> SUFFICES ASSUME writing # None, writing[1] = object[c] PROVE FALSE
      OBVIOUS
    <2>1. lock \in Calls /\ callpc[lock] = "overwriting"
      BY <1>0 DEF StoreLinks, StoreTypeOK
    <2>2. ObjectOf(object[c], target[lock])
      BY <1>0, <2>1, StoreConstants DEF StoreLinks
    <2>3. target[lock] = target[c]
      BY <1>0, <2>1, <2>2, StoreConstants DEF ObjectOf, StoreLinks
    <2> QED
      BY <1>0, <2>1, <2>3 DEF Agrees, Active
  <1>2. heap[object[c]] # Torn
    BY <1>0 DEF StoreLinks, ObjectOf, Agrees
  <1> QED
    BY <1>1, <1>2 DEF ReadsFrom

(* What is being written over a script is a call's content.                *)
LEMMA WrittenType ==
  ASSUME StoreTypeOK, StoreLinks, writing # None PROVE writing[2] \in Calls
  BY DEF StoreTypeOK, StoreLinks

LEMMA SaveOverwroteInv ==
  ASSUME StoreInv, NEW c \in Calls, SaveOverwrote(c) PROVE StoreInv'
  <1>0. StoreTypeOK /\ StoreLinks /\ \A m \in Names : Agrees(m)
    BY DEF StoreInv
  <1>1. callpc[c] = "overwriting" /\ lock = c
    BY <1>0 DEF SaveOverwrote, Steps, StoreLinks
  <1>n. PICK n \in Names : target[c] = n
    BY <1>0, <1>1 DEF StoreLinks
  <1>2. PICK o \in Objects : writing = <<o, c>> /\ ObjectOf(o, n)
    BY <1>0, <1>1, <1>n, StoreConstants DEF StoreLinks
  <1>3. /\ callpc' \in [Calls -> CallSteps] /\ callpc'[c] = "unlocked"
        /\ \A d \in Calls : d # c => callpc'[d] = callpc[d]
    BY <1>0 DEF SaveOverwrote, Steps, StoreTypeOK, CallSteps
  <1>4. /\ heap' \in [Objects -> Contents] /\ heap'[o] = c
        /\ \A q \in Objects : q # o => heap'[q] = heap[q]
    BY <1>0, <1>2 DEF SaveOverwrote, StoreTypeOK, Contents
  <1>5. /\ lock' = None /\ writing' = None
        /\ UNCHANGED <<scripts, file, target, object, data, latest, serial, diskFailed>>
    BY DEF SaveOverwrote, history
  <1>6. StoreTypeOK'
    BY <1>0, <1>3, <1>4, <1>5 DEF StoreTypeOK
  <1>7. StoreLinks'
    <2>1. \A d \in Calls : heap'[d] # Torn
      BY <1>0, <1>4, StoreConstants DEF StoreLinks
    <2> QED
      BY <1>0, <1>1, <1>3, <1>5, <2>1, StoreConstants DEF StoreLinks, ObjectOf
  <1>8. \A m \in Names : m # n => Agrees(m)'
    BY <1>1, <1>n, <1>2, <1>3, <1>4, <1>5, GoesOnOthers
  <1>9. Agrees(n)'
    <2> SUFFICES ASSUME serial'[n] PROVE Agrees(n)'
      BY DEF Agrees
    <2>1. serial[n] /\ Agrees(n)
      BY <1>0, <1>5
    <2>2. scripts[n] # None /\ scripts[n] = o
      BY <1>1, <1>n, <1>2, <2>1 DEF Agrees
    <2>3. heap'[n] # Torn
      BY <1>4, <2>1, StoreConstants DEF Agrees
    <2>4. \A d \in Calls : target[d] = n => data[d] # Torn /\ (d # c => ~Active(d))
      BY <1>1, <1>n, <2>1 DEF Agrees, Active
    <2> QED
      BY <1>n, <1>3, <1>4, <1>5, <2>2, <2>3, <2>4 DEF Agrees, Active
  <1> QED
    BY <1>6, <1>7, <1>8, <1>9 DEF StoreInv

LEMMA SaveLooksUpInv ==
  ASSUME StoreInv, NEW c \in Calls, SaveLooksUp(c) PROVE StoreInv'
  <1>0. StoreTypeOK /\ StoreLinks /\ \A m \in Names : Agrees(m)
    BY DEF StoreInv
  <1>1. callpc[c] = "unlocked" /\ lock = None
    BY DEF SaveLooksUp
  <1>n. PICK n \in Names : target[c] = n
    BY <1>0, <1>1 DEF StoreLinks
  <1>2. /\ callpc' \in [Calls -> CallSteps]
        /\ callpc'[c] = IF scripts[n] = None THEN "returned" ELSE "marshalling"
        /\ \A d \in Calls : d # c => callpc'[d] = callpc[d]
    BY <1>0, <1>n DEF SaveLooksUp, Steps, StoreTypeOK, CallSteps
  <1>3. /\ object' \in [Calls -> Objects \cup {None}]
        /\ object'[c] = IF scripts[n] = None THEN object[c] ELSE scripts[n]
        /\ \A d \in Calls : d # c => object'[d] = object[d]
    BY <1>0, <1>n DEF SaveLooksUp, StoreTypeOK
  <1>4. UNCHANGED <<scripts, heap, writing, lock, file, target, data, latest, serial, diskFailed>>
    BY DEF SaveLooksUp, history
  <1>5. StoreTypeOK'
    BY <1>0, <1>2, <1>3, <1>4 DEF StoreTypeOK
  <1>6. StoreLinks'
    <2>1. \A d \in Calls : (object[d] # None => ObjectOf(object[d], target[d]))'
      BY <1>0, <1>1, <1>n, <1>2, <1>3, <1>4 DEF StoreLinks, ObjectOf
    <2>2. \A d \in Calls : callpc'[d] \in {"marshalling", "reading"} => object'[d] # None
      BY <1>0, <1>2, <1>3 DEF StoreLinks
    <2> QED
      BY <1>0, <1>1, <1>2, <1>3, <1>4, <2>1, <2>2, StoreConstants DEF StoreLinks, ObjectOf
  <1>7. \A m \in Names : m # n => Agrees(m)'
    BY <1>1, <1>n, <1>2, <1>3, <1>4, GoesOnOthers
  <1>8. Agrees(n)'
    <2> SUFFICES ASSUME serial'[n] PROVE Agrees(n)'
      BY DEF Agrees
    <2>1. serial[n] /\ Agrees(n)
      BY <1>0, <1>4
    <2>2. scripts[n] # None /\ heap[scripts[n]] = c /\ heap[n] # Torn
      BY <1>1, <1>n, <2>1 DEF Agrees
    <2>3. \A d \in Calls : target[d] = n => data[d] # Torn /\ (d # c => ~Active(d))
      BY <1>1, <1>n, <2>1 DEF Agrees, Active
    <2> QED
      BY <1>n, <1>2, <1>3, <1>4, <2>2, <2>3 DEF Agrees, Active
  <1> QED
    BY <1>5, <1>6, <1>7, <1>8 DEF StoreInv

LEMMA SaveMarshalsInv ==
  ASSUME StoreInv, NEW c \in Calls, SaveMarshals(c) PROVE StoreInv'
  <1>0. StoreTypeOK /\ StoreLinks /\ \A m \in Names : Agrees(m)
    BY DEF StoreInv
  <1>1. callpc[c] = "marshalling"
    BY DEF SaveMarshals, Steps
  <1>n. PICK n \in Names : target[c] = n
    BY <1>0, <1>1 DEF StoreLinks
  <1>o. PICK read \in ReadsFrom(object[c]) : data' = [data EXCEPT ![c] = read]
    BY DEF SaveMarshals
  <1>2. /\ callpc' \in [Calls -> CallSteps] /\ callpc'[c] = "writing"
        /\ \A d \in Calls : d # c => callpc'[d] = callpc[d]
    BY <1>0 DEF SaveMarshals, Steps, StoreTypeOK, CallSteps
  <1>3. read \in Contents
    BY <1>0, <1>1, <1>o, StoreConstants, WrittenType DEF ReadsFrom, StoreLinks, StoreTypeOK, Contents
  <1>4. /\ data' \in [Calls -> Contents] /\ data'[c] = read
        /\ \A d \in Calls : d # c => data'[d] = data[d]
    BY <1>0, <1>3, <1>o DEF StoreTypeOK
  <1>5. UNCHANGED <<scripts, heap, writing, lock, file, target, object, latest, serial, diskFailed>>
    BY DEF SaveMarshals, history
  <1>6. StoreTypeOK'
    BY <1>0, <1>2, <1>4, <1>5 DEF StoreTypeOK
  <1>7. StoreLinks'
    BY <1>0, <1>1, <1>2, <1>4, <1>5, StoreConstants DEF StoreLinks, ObjectOf
  <1>8. \A m \in Names : m # n => Agrees(m)'
    BY <1>1, <1>n, <1>2, <1>4, <1>5, GoesOnOthers
  <1>9. Agrees(n)'
    <2> SUFFICES ASSUME serial'[n] PROVE Agrees(n)'
      BY DEF Agrees
    <2>1. serial[n] /\ Agrees(n)
      BY <1>0, <1>5
    <2>2. scripts[n] # None /\ heap[scripts[n]] = c /\ heap[n] # Torn /\ object[c] = scripts[n]
      BY <1>1, <1>n, <2>1 DEF Agrees
    <2>3. read = c /\ c # Torn
      BY <1>1, <1>n, <1>o, <2>1, <2>2, ReadsWhole, StoreConstants
    <2>4. \A d \in Calls : target[d] = n => data[d] # Torn /\ (d # c => ~Active(d))
      BY <1>1, <1>n, <2>1 DEF Agrees, Active
    <2> QED
      BY <1>n, <1>2, <1>4, <1>5, <2>2, <2>3, <2>4 DEF Agrees, Active
  <1> QED
    BY <1>6, <1>7, <1>8, <1>9 DEF StoreInv

LEMMA RunReadsInv ==
  ASSUME StoreInv, NEW c \in Calls, RunReads(c) PROVE StoreInv'
  <1>0. StoreTypeOK /\ StoreLinks /\ \A m \in Names : Agrees(m)
    BY DEF StoreInv
  <1>1. callpc[c] = "reading"
    BY DEF RunReads, Steps
  <1>n. PICK n \in Names : target[c] = n
    BY <1>0, <1>1 DEF StoreLinks
  <1>o. PICK read \in ReadsFrom(object[c]) : data' = [data EXCEPT ![c] = read]
    BY DEF RunReads
  <1>2. /\ callpc' \in [Calls -> CallSteps] /\ callpc'[c] = "returned"
        /\ \A d \in Calls : d # c => callpc'[d] = callpc[d]
    BY <1>0 DEF RunReads, Steps, StoreTypeOK, CallSteps
  <1>3. read \in Contents
    BY <1>0, <1>1, <1>o, StoreConstants, WrittenType DEF ReadsFrom, StoreLinks, StoreTypeOK, Contents
  <1>4. /\ data' \in [Calls -> Contents] /\ data'[c] = read
        /\ \A d \in Calls : d # c => data'[d] = data[d]
    BY <1>0, <1>3, <1>o DEF StoreTypeOK
  <1>5. UNCHANGED <<scripts, heap, writing, lock, file, target, object, latest, serial, diskFailed>>
    BY DEF RunReads, history
  <1>6. StoreTypeOK'
    BY <1>0, <1>2, <1>4, <1>5 DEF StoreTypeOK
  <1>7. StoreLinks'
    BY <1>0, <1>1, <1>2, <1>4, <1>5, StoreConstants DEF StoreLinks, ObjectOf
  <1>8. \A m \in Names : m # n => Agrees(m)'
    BY <1>1, <1>n, <1>2, <1>4, <1>5, GoesOnOthers
  <1>9. Agrees(n)'
    <2> SUFFICES ASSUME serial'[n] PROVE Agrees(n)'
      BY DEF Agrees
    <2>1. serial[n] /\ Agrees(n) /\ heap[n] # Torn
      BY <1>0, <1>5 DEF Agrees
    <2>2. read # Torn
      BY <1>1, <1>n, <1>o, <2>1, ReadsWhole
    <2>3. \A d \in Calls : target[d] = n => data[d] # Torn /\ (d # c => ~Active(d))
      BY <1>1, <1>n, <2>1 DEF Agrees, Active
    <2>4. ~diskFailed => InMemory(n) = latest[n] /\ file[n] = latest[n]
      BY <1>1, <1>n, <2>1, <2>3 DEF Agrees, Active
    <2>5. ~diskFailed' => InMemory(n)' = latest'[n] /\ file'[n] = latest'[n]
      BY <1>5, <2>4 DEF InMemory
    <2> QED
      BY <1>n, <1>2, <1>4, <1>5, <2>1, <2>2, <2>3, <2>5 DEF Agrees, Active
  <1> QED
    BY <1>6, <1>7, <1>8, <1>9 DEF StoreInv

LEMMA SaveRenamesInv ==
  ASSUME StoreInv, NEW c \in Calls, SaveRenames(c) PROVE StoreInv'
  <1>0. StoreTypeOK /\ StoreLinks /\ \A m \in Names : Agrees(m)
    BY DEF StoreInv
  <1>1. callpc[c] = "writing"
    BY DEF SaveRenames, Completes, Steps
  <1>n. PICK n \in Names : target[c] = n
    BY <1>0, <1>1 DEF StoreLinks
  <1>2. /\ callpc' \in [Calls -> CallSteps] /\ callpc'[c] = "returned"
        /\ \A d \in Calls : d # c => callpc'[d] = callpc[d]
    BY <1>0 DEF SaveRenames, Completes, Steps, StoreTypeOK, CallSteps
  <1>3. /\ latest' \in [Names -> Contents] /\ latest'[n] = c
        /\ \A m \in Names : m # n => latest'[m] = latest[m]
    BY <1>0, <1>n DEF SaveRenames, Completes, StoreTypeOK, Contents
  <1>4. /\ file' \in [Names -> Contents] /\ file'[n] = data[c]
        /\ \A m \in Names : m # n => file'[m] = file[m]
    BY <1>0, <1>n DEF SaveRenames, StoreTypeOK, Contents
  <1>5. UNCHANGED <<scripts, heap, writing, lock, target, object, data, serial, diskFailed>>
    BY DEF SaveRenames, Completes
  <1>6. StoreTypeOK'
    BY <1>0, <1>2, <1>3, <1>4, <1>5 DEF StoreTypeOK
  <1>7. StoreLinks'
    BY <1>0, <1>1, <1>2, <1>5, StoreConstants DEF StoreLinks, ObjectOf
  <1>8. \A m \in Names : m # n => Agrees(m)'
    BY <1>1, <1>n, <1>2, <1>3, <1>4, <1>5, GoesOnOthers
  <1>9. Agrees(n)'
    <2> SUFFICES ASSUME serial'[n] PROVE Agrees(n)'
      BY DEF Agrees
    <2>1. serial[n] /\ Agrees(n) /\ heap[n] # Torn
      BY <1>0, <1>5 DEF Agrees
    <2>2. scripts[n] # None /\ heap[scripts[n]] = c /\ data[c] = c
      BY <1>1, <1>n, <2>1 DEF Agrees
    <2>3. \A d \in Calls : target[d] = n => data[d] # Torn /\ (d # c => ~Active(d))
      BY <1>1, <1>n, <2>1 DEF Agrees, Active
    <2>4. InMemory(n)' = latest'[n] /\ file'[n] = latest'[n]
      BY <1>3, <1>4, <1>5, <2>2 DEF InMemory
    <2> QED
      BY <1>n, <1>2, <1>5, <2>1, <2>3, <2>4 DEF Agrees, Active
  <1> QED
    BY <1>6, <1>7, <1>8, <1>9 DEF StoreInv

LEMMA SaveFailsInv ==
  ASSUME StoreInv, NEW c \in Calls, SaveFails(c) PROVE StoreInv'
  <1>0. StoreTypeOK /\ StoreLinks /\ \A m \in Names : Agrees(m)
    BY DEF StoreInv
  <1>1. callpc[c] \in {"unlocked", "writing"}
    BY DEF SaveFails, Steps
  <1>n. PICK n \in Names : target[c] = n
    BY <1>0, <1>1 DEF StoreLinks
  <1>2. /\ callpc' \in [Calls -> CallSteps] /\ callpc'[c] = "returned"
        /\ \A d \in Calls : d # c => callpc'[d] = callpc[d]
    BY <1>0 DEF SaveFails, Steps, StoreTypeOK, CallSteps
  <1>3. /\ diskFailed'
        /\ UNCHANGED <<scripts, heap, writing, lock, file, target, object, data, latest, serial>>
    BY DEF SaveFails
  <1>4. StoreTypeOK'
    BY <1>0, <1>2, <1>3 DEF StoreTypeOK
  <1>5. StoreLinks'
    BY <1>0, <1>1, <1>2, <1>3, StoreConstants DEF StoreLinks, ObjectOf
  <1>6. \A m \in Names : m # n => Agrees(m)'
    BY <1>1, <1>n, <1>2, <1>3, GoesOnOthers
  <1>7. Agrees(n)'
    <2> SUFFICES ASSUME serial'[n] PROVE Agrees(n)'
      BY DEF Agrees
    <2>1. serial[n] /\ Agrees(n) /\ heap[n] # Torn
      BY <1>0, <1>3 DEF Agrees
    <2>2. \A d \in Calls : target[d] = n => data[d] # Torn /\ (d # c => ~Active(d))
      BY <1>1, <1>n, <2>1 DEF Agrees, Active
    <2> QED
      BY <1>n, <1>2, <1>3, <2>1, <2>2 DEF Agrees, Active
  <1> QED
    BY <1>4, <1>5, <1>6, <1>7 DEF StoreInv

LEMMA DeleteRemovesInv ==
  ASSUME StoreInv, NEW c \in Calls, DeleteRemoves(c) PROVE StoreInv'
  <1>0. StoreTypeOK /\ StoreLinks /\ \A m \in Names : Agrees(m)
    BY DEF StoreInv
  <1>1. callpc[c] = "removing"
    BY DEF DeleteRemoves, Completes, Steps
  <1>n. PICK n \in Names : target[c] = n
    BY <1>0, <1>1 DEF StoreLinks
  <1>2. /\ callpc' \in [Calls -> CallSteps] /\ callpc'[c] = "returned"
        /\ \A d \in Calls : d # c => callpc'[d] = callpc[d]
    BY <1>0 DEF DeleteRemoves, Completes, Steps, StoreTypeOK, CallSteps
  <1>3. /\ latest' \in [Names -> Contents] /\ latest'[n] = None
        /\ \A m \in Names : m # n => latest'[m] = latest[m]
    BY <1>0, <1>n DEF DeleteRemoves, Completes, StoreTypeOK, Contents
  <1>4. /\ file' \in [Names -> Contents] /\ file'[n] = None
        /\ \A m \in Names : m # n => file'[m] = file[m]
    BY <1>0, <1>n DEF DeleteRemoves, StoreTypeOK, Contents
  <1>5. UNCHANGED <<scripts, heap, writing, lock, target, object, data, serial, diskFailed>>
    BY DEF DeleteRemoves, Completes
  <1>6. StoreTypeOK'
    BY <1>0, <1>2, <1>3, <1>4, <1>5 DEF StoreTypeOK
  <1>7. StoreLinks'
    BY <1>0, <1>1, <1>2, <1>5, StoreConstants DEF StoreLinks, ObjectOf
  <1>8. \A m \in Names : m # n => Agrees(m)'
    BY <1>1, <1>n, <1>2, <1>3, <1>4, <1>5, GoesOnOthers
  <1>9. Agrees(n)'
    <2> SUFFICES ASSUME serial'[n] PROVE Agrees(n)'
      BY DEF Agrees
    <2>1. serial[n] /\ Agrees(n) /\ heap[n] # Torn
      BY <1>0, <1>5 DEF Agrees
    <2>2. scripts[n] = None
      BY <1>1, <1>n, <2>1 DEF Agrees
    <2>3. \A d \in Calls : target[d] = n => data[d] # Torn /\ (d # c => ~Active(d))
      BY <1>1, <1>n, <2>1 DEF Agrees, Active
    <2>4. InMemory(n)' = latest'[n] /\ file'[n] = latest'[n]
      BY <1>3, <1>4, <1>5, <2>2 DEF InMemory
    <2> QED
      BY <1>n, <1>2, <1>5, <2>1, <2>3, <2>4 DEF Agrees, Active
  <1> QED
    BY <1>6, <1>7, <1>8, <1>9 DEF StoreInv

LEMMA DeleteFailsInv ==
  ASSUME StoreInv, NEW c \in Calls, DeleteFails(c) PROVE StoreInv'
  <1>0. StoreTypeOK /\ StoreLinks /\ \A m \in Names : Agrees(m)
    BY DEF StoreInv
  <1>1. callpc[c] \in {"removing"}
    BY DEF DeleteFails, Steps
  <1>n. PICK n \in Names : target[c] = n
    BY <1>0, <1>1 DEF StoreLinks
  <1>2. /\ callpc' \in [Calls -> CallSteps] /\ callpc'[c] = "returned"
        /\ \A d \in Calls : d # c => callpc'[d] = callpc[d]
    BY <1>0 DEF DeleteFails, Steps, StoreTypeOK, CallSteps
  <1>3. /\ diskFailed'
        /\ UNCHANGED <<scripts, heap, writing, lock, file, target, object, data, latest, serial>>
    BY DEF DeleteFails
  <1>4. StoreTypeOK'
    BY <1>0, <1>2, <1>3 DEF StoreTypeOK
  <1>5. StoreLinks'
    BY <1>0, <1>1, <1>2, <1>3, StoreConstants DEF StoreLinks, ObjectOf
  <1>6. \A m \in Names : m # n => Agrees(m)'
    BY <1>1, <1>n, <1>2, <1>3, GoesOnOthers
  <1>7. Agrees(n)'
    <2> SUFFICES ASSUME serial'[n] PROVE Agrees(n)'
      BY DEF Agrees
    <2>1. serial[n] /\ Agrees(n) /\ heap[n] # Torn
      BY <1>0, <1>3 DEF Agrees
    <2>2. \A d \in Calls : target[d] = n => data[d] # Torn /\ (d # c => ~Active(d))
      BY <1>1, <1>n, <2>1 DEF Agrees, Active
    <2> QED
      BY <1>n, <1>2, <1>3, <2>1, <2>2 DEF Agrees, Active
  <1> QED
    BY <1>4, <1>5, <1>6, <1>7 DEF StoreInv

LEMMA RestartInv == StoreInv /\ Restart => StoreInv'
  <1> SUFFICES ASSUME StoreInv, Restart PROVE StoreInv'
    OBVIOUS
  <1>0. StoreTypeOK /\ StoreLinks
    BY DEF StoreInv
  <1>1. /\ \A n \in Names : scripts'[n] = IF file[n] = None THEN None ELSE n
        /\ scripts' \in [Names -> Objects \cup {None}]
    BY StoreConstants DEF Restart, Loaded
  <1>2. /\ heap' \in [Objects -> Contents]
        /\ \A n \in Names : heap'[n] = file[n]
        /\ \A c \in Calls : heap'[c] = heap[c]
    BY <1>0, StoreConstants DEF Restart, StoreTypeOK
  <1>3. /\ callpc' \in [Calls -> CallSteps]
        /\ \A c \in Calls : callpc'[c] = IF callpc[c] = "idle" THEN "idle" ELSE "returned"
    BY DEF Restart, CallSteps
  <1>4. /\ serial' \in [Names -> BOOLEAN]
        /\ \A n \in Names : serial'[n] => file[n] # Torn
    BY DEF Restart
  <1>5. /\ object' \in [Calls -> Objects \cup {None}] /\ data' \in [Calls -> Contents]
        /\ \A c \in Calls : object'[c] = None /\ data'[c] = None
    BY DEF Restart, Contents
  <1>6. writing' = None /\ lock' = None /\ latest' = file /\ UNCHANGED <<file, target>>
    BY DEF Restart
  <1>7. StoreTypeOK'
    BY <1>0, <1>1, <1>2, <1>3, <1>4, <1>5, <1>6 DEF StoreTypeOK
  <1>8. StoreLinks'
    BY <1>0, <1>1, <1>2, <1>3, <1>5, <1>6, StoreConstants DEF StoreLinks, ObjectOf
  <1>9. ASSUME NEW n \in Names PROVE Agrees(n)'
    <2>1. InMemory(n)' = latest'[n] /\ file'[n] = latest'[n]
      BY <1>1, <1>2, <1>6, StoreConstants DEF InMemory
    <2> QED
      BY <1>2, <1>3, <1>4, <1>5, <2>1, StoreConstants DEF Agrees, Active
  <1> QED
    BY <1>7, <1>8, <1>9 DEF StoreInv

LEMMA StoreNextInv == StoreInv /\ [ScriptNext]_scriptVars => StoreInv'
  <1> SUFFICES ASSUME StoreInv, [ScriptNext]_scriptVars PROVE StoreInv'
    OBVIOUS
  <1>1. ASSUME NEW c \in Calls, GoingOn(c) PROVE StoreInv'
    BY <1>1, SaveOverwroteInv, SaveLooksUpInv, SaveMarshalsInv, SaveRenamesInv, SaveFailsInv,
       DeleteRemovesInv, DeleteFailsInv, RunReadsInv DEF GoingOn
  <1>2. ASSUME NEW c \in Calls, NEW n \in Names, Calling(c, n) PROVE StoreInv'
    BY <1>2, SaveOverwritesInv, SaveCreatesInv, DeleteForgetsInv, RunGetsInv DEF Calling
  <1>3. CASE Restart
    BY <1>3, RestartInv
  <1>4. CASE UNCHANGED scriptVars
    BY <1>4 DEF scriptVars, StoreInv, StoreTypeOK, StoreLinks, ObjectOf, Agrees, Active, InMemory
  <1> QED
    BY <1>1, <1>2, <1>3, <1>4 DEF ScriptNext

LEMMA StoreInvSuffices == StoreInv => SerialScriptsAgree
  BY DEF StoreInv, Agrees, SerialScriptsAgree, Quiet, Active

(* Any number of scripts and calls, and a restart at any point: where the  *)
(* operations on one script do not overlap, memory and file agree with the *)
(* last of them, and no other script's operations can change that          *)
(* (engine.go:80-111, 141-161, 187, 312-357).                              *)
THEOREM SerialScriptsAgreeTheorem == ScriptSpec => []SerialScriptsAgree
  BY StoreInitInv, StoreNextInv, StoreInvSuffices, PTL DEF ScriptSpec

----------------------------------------------------------------------------
(* SessionStore                                                            *)

SavedTokens == Tokens \cup {NoToken}

(* Each saved session is listed once.                                      *)
Listing ==
    /\ recent \in Seq(Endpoints)
    /\ \A i, j \in DOMAIN recent : recent[i] = recent[j] => i = j
    /\ \A i \in DOMAIN recent : recent[i] \in DOMAIN rows
    /\ \A e \in DOMAIN rows : \E i \in DOMAIN recent : recent[i] = e

(* LoadAll has restored the tokens of the sessions it is done with and     *)
(* will come to the others.                                                *)
LoadProgress ==
    loadpc \in {"restoring", "returned"} =>
        /\ loading \in Seq(Endpoints)
        /\ \A i \in DOMAIN loading : loading[i] \in DOMAIN rows
        /\ \A e \in DOMAIN rows : e \in DOMAIN loaded \/ \E i \in DOMAIN loading : loading[i] = e
        /\ loaded = [e \in DOMAIN loaded |-> truth[e]]
        /\ \A e \in DOMAIN loaded : e \in DOMAIN rows /\ rows[e].plain = NoToken
        /\ loadpc = "returned" => loading = <<>>

SessionInv ==
    /\ DOMAIN rows = DOMAIN truth /\ DOMAIN rows \subseteq Endpoints
    /\ rows \in [DOMAIN rows -> [plain : SavedTokens, protected : SavedTokens]]
    /\ truth \in [DOMAIN truth -> SavedTokens]
    /\ \A e \in DOMAIN rows : Token(rows[e]) = truth[e]
    /\ Listing
    /\ LoadProgress

LEMMA SessionInitInv == SessionInit => SessionInv
  <1> SUFFICES ASSUME SessionInit PROVE SessionInv
    OBVIOUS
  <1>1. PICK old \in [Endpoints -> SavedTokens] :
          /\ rows = [e \in Endpoints |-> [plain |-> old[e], protected |-> NoToken]]
          /\ truth = old
    BY DEF SessionInit, SavedTokens
  <1>2. Cardinality(Endpoints) \in Nat
    BY SessionAssumption, FS_CardinalityType
  <1>3. Listing
    BY <1>1, <1>2 DEF SessionInit, Listing
  <1>4. LoadProgress
    BY DEF SessionInit, LoadProgress
  <1>5. \A e \in DOMAIN rows : Token(rows[e]) = truth[e]
    BY <1>1 DEF Token
  <1>6. /\ DOMAIN rows = DOMAIN truth /\ DOMAIN rows \subseteq Endpoints
        /\ rows \in [DOMAIN rows -> [plain : SavedTokens, protected : SavedTokens]]
        /\ truth \in [DOMAIN truth -> SavedTokens]
    BY <1>1 DEF SavedTokens
  <1> QED
    BY <1>3, <1>4, <1>5, <1>6 DEF SessionInv

(* The others are those that are listed, in any order, without e.          *)
LEMMA OthersForm ==
  ASSUME Listing, NEW e
  PROVE  /\ Others(e) \in Seq(Endpoints)
         /\ \A i, j \in DOMAIN Others(e) : Others(e)[i] = Others(e)[j] => i = j
         /\ \A i \in DOMAIN Others(e) : Others(e)[i] # e /\ \E j \in DOMAIN recent : recent[j] = Others(e)[i]
         /\ \A j \in DOMAIN recent : recent[j] # e => \E i \in DOMAIN Others(e) : Others(e)[i] = recent[j]
  <1>0. recent \in Seq(Endpoints) /\ Len(recent) \in Nat /\ DOMAIN recent = 1 .. Len(recent)
    BY DEF Listing
  <1>1. CASE ~\E i \in DOMAIN recent : recent[i] = e
    BY <1>1, <1>0 DEF Others, Listing
  <1>2. CASE \E i \in DOMAIN recent : recent[i] = e
    <2> DEFINE k == CHOOSE i \in DOMAIN recent : recent[i] = e
               o == [i \in 1 .. Len(recent) - 1 |-> IF i < k THEN recent[i] ELSE recent[i + 1]]
    <2>1. k \in 1 .. Len(recent) /\ recent[k] = e
      BY <1>0, <1>2
    <2>2. Others(e) = o
      BY <1>2 DEF Others
    <2> HIDE DEF k
    <2>3. \A i \in 1 .. Len(recent) - 1 :
            /\ i < k => o[i] = recent[i] /\ i \in 1 .. Len(recent)
            /\ ~(i < k) => o[i] = recent[i + 1] /\ i + 1 \in 1 .. Len(recent)
      BY <1>0, <2>1
    <2>4. o \in Seq(Endpoints) /\ DOMAIN o = 1 .. Len(recent) - 1
      BY <1>0, <2>1, <2>3
    <2> HIDE DEF o
    <2>5. \A i, j \in 1 .. Len(recent) : recent[i] = recent[j] => i = j
      BY <1>0 DEF Listing
    <2>6. \A i, j \in DOMAIN o : o[i] = o[j] => i = j
      BY <1>0, <2>1, <2>3, <2>4, <2>5
    <2>7. \A i \in DOMAIN o : o[i] # e /\ \E j \in DOMAIN recent : recent[j] = o[i]
      BY <1>0, <2>1, <2>3, <2>4, <2>5
    <2>8. ASSUME NEW j \in DOMAIN recent, recent[j] # e PROVE \E i \in DOMAIN o : o[i] = recent[j]
      <3>1. j # k /\ j \in 1 .. Len(recent)
        BY <1>0, <2>1, <2>8
      <3>2. CASE j < k
        BY <1>0, <2>1, <2>3, <2>4, <3>1, <3>2
      <3>3. CASE ~(j < k)
        <4>1. j - 1 \in DOMAIN o /\ ~(j - 1 < k) /\ (j - 1) + 1 = j
          BY <1>0, <2>1, <2>4, <3>1, <3>3
        <4> QED
          BY <2>3, <2>4, <4>1
      <3> QED
        BY <3>2, <3>3
    <2> QED
      BY <2>2, <2>4, <2>6, <2>7, <2>8
  <1> QED
    BY <1>1, <1>2

(* A session moves to the front of the list, or enters it there.           *)
Front(e) == <<e>> \o Others(e)

LEMMA FrontForm ==
  ASSUME Listing, NEW e \in Endpoints
  PROVE  /\ Front(e) \in Seq(Endpoints)
         /\ \A i, j \in DOMAIN Front(e) : Front(e)[i] = Front(e)[j] => i = j
         /\ \A i \in DOMAIN Front(e) : Front(e)[i] = e \/ \E j \in DOMAIN recent : recent[j] = Front(e)[i]
         /\ \E i \in DOMAIN Front(e) : Front(e)[i] = e
         /\ \A j \in DOMAIN recent : \E i \in DOMAIN Front(e) : Front(e)[i] = recent[j]
  <1> DEFINE o == Others(e)
             q == <<e>> \o o
  <1>1. /\ o \in Seq(Endpoints)
        /\ \A i, j \in DOMAIN o : o[i] = o[j] => i = j
        /\ \A i \in DOMAIN o : o[i] # e /\ \E j \in DOMAIN recent : recent[j] = o[i]
        /\ \A j \in DOMAIN recent : recent[j] # e => \E i \in DOMAIN o : o[i] = recent[j]
    BY OthersForm
  <1>a. Front(e) = q
    BY DEF Front
  <1> HIDE DEF o
  <1>2. /\ q \in Seq(Endpoints) /\ DOMAIN o = 1 .. Len(o) /\ Len(o) \in Nat
        /\ DOMAIN q = 1 .. Len(o) + 1 /\ q[1] = e
        /\ \A i \in DOMAIN q : i # 1 => q[i] = o[i - 1] /\ i - 1 \in DOMAIN o
        /\ \A i \in DOMAIN o : i + 1 \in DOMAIN q /\ q[i + 1] = o[i]
    BY <1>1
  <1> HIDE DEF q
  <1>3. ASSUME NEW i \in DOMAIN q, NEW j \in DOMAIN q, q[i] = q[j] PROVE i = j
    BY <1>1, <1>2, <1>3
  <1>4. \A i \in DOMAIN q : q[i] = e \/ \E j \in DOMAIN recent : recent[j] = q[i]
    BY <1>1, <1>2
  <1>5. ASSUME NEW j \in DOMAIN recent PROVE \E i \in DOMAIN q : q[i] = recent[j]
    <2>1. CASE recent[j] = e
      BY <1>2, <2>1
    <2>2. CASE recent[j] # e
      <3>1. PICK i \in DOMAIN o : o[i] = recent[j]
        BY <1>1, <2>2
      <3> QED
        BY <1>2, <3>1
    <2> QED
      BY <2>1, <2>2
  <1>6. 1 \in DOMAIN q
    BY <1>2
  <1> QED
    BY <1>a, <1>2, <1>3, <1>4, <1>5, <1>6

LEMMA SessionNextInv == SessionInv /\ [SessionNext]_sessionVars => SessionInv'
  <1> SUFFICES ASSUME SessionInv, [SessionNext]_sessionVars PROVE SessionInv'
    OBVIOUS
  <1>0. /\ DOMAIN rows = DOMAIN truth /\ DOMAIN rows \subseteq Endpoints
        /\ rows \in [DOMAIN rows -> [plain : SavedTokens, protected : SavedTokens]]
        /\ truth \in [DOMAIN truth -> SavedTokens]
        /\ \A e \in DOMAIN rows : Token(rows[e]) = truth[e]
        /\ Listing
    BY DEF SessionInv
  (* The steps that leave the table alone.                                 *)
  <1>1. ASSUME UNCHANGED <<rows, recent, truth>>, LoadProgress' PROVE SessionInv'
    BY <1>0, <1>1 DEF SessionInv, Listing, Token
  (* The operations forget the last LoadAll.                               *)
  <1>2. Forgets => LoadProgress'
    BY DEF Forgets, LoadProgress
  <1>3. CASE Opens \/ Closed \/ LoadAllFails
    BY <1>1, <1>2, <1>3 DEF Opens, Closed, LoadAllFails, tableVars
  <1>4. CASE AddsColumn \/ Opened
    <2>1. UNCHANGED <<rows, recent, truth, loading, loaded, loadpc>>
      BY <1>4 DEF AddsColumn, Opened, tableVars, loadVars
    <2> QED
      BY <1>1, <2>1 DEF SessionInv, LoadProgress
  <1>5. ASSUME NEW e \in Endpoints, NEW token \in SavedTokens, Save(e, token) PROVE SessionInv'
    <2>1. /\ DOMAIN rows' = DOMAIN rows \cup {e} /\ DOMAIN truth' = DOMAIN truth \cup {e}
          /\ rows'[e] = [plain |-> NoToken, protected |-> token] /\ truth'[e] = token
          /\ \A x \in DOMAIN rows : x # e => rows'[x] = rows[x] /\ truth'[x] = truth[x]
          /\ rows' = [x \in DOMAIN rows' |-> rows'[x]] /\ truth' = [x \in DOMAIN truth' |-> truth'[x]]
      BY <1>0, <1>5 DEF Save, With
    <2>2. \A x \in DOMAIN rows' : (Token(rows[x]) = truth[x])'
      BY <1>0, <2>1 DEF Token
    <2>3. /\ rows' \in [DOMAIN rows' -> [plain : SavedTokens, protected : SavedTokens]]
          /\ truth' \in [DOMAIN truth' -> SavedTokens]
      BY <1>0, <2>1 DEF SavedTokens
    <2>4. Listing'
      <3>1. recent' = Front(e)
        BY <1>5 DEF Save, Front
      <3>2. /\ recent' \in Seq(Endpoints)
            /\ \A i, j \in DOMAIN recent' : recent'[i] = recent'[j] => i = j
            /\ \A i \in DOMAIN recent' : recent'[i] = e \/ \E j \in DOMAIN recent : recent[j] = recent'[i]
            /\ \E i \in DOMAIN recent' : recent'[i] = e
            /\ \A j \in DOMAIN recent : \E i \in DOMAIN recent' : recent'[i] = recent[j]
        BY <1>0, <3>1, FrontForm
      <3>3. \A i \in DOMAIN recent' : recent'[i] \in DOMAIN rows'
        BY <1>0, <2>1, <3>2 DEF Listing
      <3>4. \A x \in DOMAIN rows' : \E i \in DOMAIN recent' : recent'[i] = x
        BY <1>0, <2>1, <3>2 DEF Listing
      <3> QED
        BY <3>2, <3>3, <3>4 DEF Listing
    <2>5. LoadProgress'
      BY <1>2, <1>5 DEF Save
    <2>6. DOMAIN rows' = DOMAIN truth' /\ DOMAIN rows' \subseteq Endpoints
      BY <1>0, <2>1
    <2> QED
      BY <2>2, <2>3, <2>4, <2>5, <2>6 DEF SessionInv
  <1>6. ASSUME NEW e \in Endpoints, Delete(e) PROVE SessionInv'
    <2>1. /\ DOMAIN rows' = DOMAIN rows \ {e} /\ DOMAIN truth' = DOMAIN truth \ {e}
          /\ \A x \in DOMAIN rows' : rows'[x] = rows[x] /\ truth'[x] = truth[x]
          /\ rows' = [x \in DOMAIN rows' |-> rows'[x]] /\ truth' = [x \in DOMAIN truth' |-> truth'[x]]
      BY <1>0, <1>6 DEF Delete, Without
    <2>2. \A x \in DOMAIN rows' : (Token(rows[x]) = truth[x])'
      BY <1>0, <2>1 DEF Token
    <2>3. /\ rows' \in [DOMAIN rows' -> [plain : SavedTokens, protected : SavedTokens]]
          /\ truth' \in [DOMAIN truth' -> SavedTokens]
      BY <1>0, <2>1
    <2>4. Listing'
      <3>1. recent' = Others(e)
        BY <1>6 DEF Delete
      <3>2. /\ recent' \in Seq(Endpoints)
            /\ \A i, j \in DOMAIN recent' : recent'[i] = recent'[j] => i = j
            /\ \A i \in DOMAIN recent' : recent'[i] # e /\ \E j \in DOMAIN recent : recent[j] = recent'[i]
            /\ \A j \in DOMAIN recent : recent[j] # e => \E i \in DOMAIN recent' : recent'[i] = recent[j]
        BY <1>0, <3>1, OthersForm
      <3>3. \A i \in DOMAIN recent' : recent'[i] \in DOMAIN rows'
        BY <1>0, <2>1, <3>2 DEF Listing
      <3>4. \A x \in DOMAIN rows' : \E i \in DOMAIN recent' : recent'[i] = x
        BY <1>0, <2>1, <3>2 DEF Listing
      <3> QED
        BY <3>2, <3>3, <3>4 DEF Listing
    <2>5. LoadProgress'
      BY <1>2, <1>6 DEF Delete
    <2>6. DOMAIN rows' = DOMAIN truth' /\ DOMAIN rows' \subseteq Endpoints
      BY <1>0, <2>1
    <2> QED
      BY <2>2, <2>3, <2>4, <2>5, <2>6 DEF SessionInv
  <1>7. ASSUME NEW e \in Endpoints, UpdateLastConnected(e) PROVE SessionInv'
    <2>1. recent' = Front(e) /\ UNCHANGED <<rows, truth>> /\ e \in DOMAIN rows
      BY <1>7 DEF UpdateLastConnected, Front
    <2>2. /\ recent' \in Seq(Endpoints)
          /\ \A i, j \in DOMAIN recent' : recent'[i] = recent'[j] => i = j
          /\ \A i \in DOMAIN recent' : recent'[i] = e \/ \E j \in DOMAIN recent : recent[j] = recent'[i]
          /\ \A j \in DOMAIN recent : \E i \in DOMAIN recent' : recent'[i] = recent[j]
      BY <1>0, <2>1, FrontForm
    <2>3. Listing'
      <3>1. \A i \in DOMAIN recent' : recent'[i] \in DOMAIN rows'
        BY <1>0, <2>1, <2>2 DEF Listing
      <3>2. \A x \in DOMAIN rows' : \E i \in DOMAIN recent' : recent'[i] = x
        BY <1>0, <2>1, <2>2 DEF Listing
      <3> QED
        BY <2>2, <3>1, <3>2 DEF Listing
    <2>4. LoadProgress'
      BY <1>2, <1>7 DEF UpdateLastConnected
    <2> QED
      BY <1>0, <2>1, <2>3, <2>4 DEF SessionInv, Token
  (* What restoring a token does to the table.                             *)
  <1>8. ASSUME NEW e \in DOMAIN rows, RestoresToken(e), UNCHANGED <<recent, truth>>
        PROVE  /\ DOMAIN rows' = DOMAIN rows /\ rows'[e].plain = NoToken
               /\ \A x \in DOMAIN rows : x # e => rows'[x] = rows[x]
               /\ rows' \in [DOMAIN rows' -> [plain : SavedTokens, protected : SavedTokens]]
               /\ \A x \in DOMAIN rows' : (Token(rows[x]) = truth[x])'
               /\ Listing'
    <2>1. Token(rows[e]) \in SavedTokens /\ NoToken \in SavedTokens
      BY <1>0 DEF Token, SavedTokens
    <2>2. /\ DOMAIN rows' = DOMAIN rows
          /\ rows'[e] = [plain |-> NoToken, protected |-> Token(rows[e])]
          /\ \A x \in DOMAIN rows : x # e => rows'[x] = rows[x]
      BY <1>0, <1>8 DEF RestoresToken
    <2>3. rows' \in [DOMAIN rows' -> [plain : SavedTokens, protected : SavedTokens]]
      BY <1>0, <1>8, <2>1, <2>2 DEF RestoresToken
    <2>4. \A x \in DOMAIN rows' : (Token(rows[x]) = truth[x])'
      BY <1>0, <1>8, <2>2 DEF Token
    <2>5. Listing'
      BY <1>0, <1>8, <2>2 DEF Listing
    <2> QED
      BY <2>2, <2>3, <2>4, <2>5
  <1>9. ASSUME NEW e \in Endpoints, LoadOne(e) PROVE SessionInv'
    <2>1. e \in DOMAIN rows /\ RestoresToken(e) /\ UNCHANGED <<recent, truth>> /\ LoadProgress'
      BY <1>2, <1>9 DEF LoadOne
    <2> QED
      BY <1>0, <1>8, <2>1 DEF SessionInv
  <1>10. CASE LoadAllReads
    <2>1. /\ loading' = recent /\ loaded' = <<>> /\ loadpc' = "restoring"
          /\ UNCHANGED <<rows, recent, truth>>
      BY <1>10 DEF LoadAllReads, Nothing, tableVars
    <2>2. DOMAIN loaded' = {} /\ loaded' = [e \in DOMAIN loaded' |-> truth'[e]]
      BY <2>1
    <2>3. LoadProgress'
      BY <1>0, <2>1, <2>2 DEF LoadProgress, Listing
    <2> QED
      BY <1>1, <2>1, <2>3
  <1>11. CASE LoadAllRestores
    <2>0. /\ loadpc = "restoring" /\ loading # <<>> /\ loading \in Seq(Endpoints)
          /\ \A i \in DOMAIN loading : loading[i] \in DOMAIN rows
          /\ \A x \in DOMAIN rows : x \in DOMAIN loaded \/ \E i \in DOMAIN loading : loading[i] = x
          /\ loaded = [x \in DOMAIN loaded |-> truth[x]]
          /\ \A x \in DOMAIN loaded : x \in DOMAIN rows /\ rows[x].plain = NoToken
      BY <1>11 DEF LoadAllRestores, SessionInv, LoadProgress
    <2>1. PICK e \in DOMAIN rows : e = Head(loading)
      BY <2>0
    <2>2. /\ RestoresToken(e) /\ loaded' = With(loaded, e, Token(rows[e])) /\ loading' = Tail(loading)
          /\ UNCHANGED <<recent, truth, loadpc>>
      BY <1>11, <2>1 DEF LoadAllRestores
    <2>3. /\ DOMAIN rows' = DOMAIN rows /\ rows'[e].plain = NoToken
          /\ \A x \in DOMAIN rows : x # e => rows'[x] = rows[x]
          /\ rows' \in [DOMAIN rows' -> [plain : SavedTokens, protected : SavedTokens]]
          /\ \A x \in DOMAIN rows' : (Token(rows[x]) = truth[x])'
          /\ Listing'
      BY <1>8, <2>2
    <2>4. /\ DOMAIN loaded' = DOMAIN loaded \cup {e} /\ loaded' = [x \in DOMAIN loaded' |-> truth'[x]]
      BY <1>0, <2>0, <2>2 DEF With
    <2>5. /\ loading' \in Seq(Endpoints)
          /\ \A i \in DOMAIN loading' : loading'[i] \in DOMAIN rows'
          /\ \A i \in DOMAIN loading : loading[i] = e \/ \E j \in DOMAIN loading' : loading'[j] = loading[i]
      <3>1. /\ loading' \in Seq(Endpoints) /\ Len(loading) \in Nat \ {0} /\ loading[1] = e
            /\ DOMAIN loading = 1 .. Len(loading) /\ DOMAIN loading' = 1 .. Len(loading) - 1
            /\ \A i \in DOMAIN loading' : i + 1 \in DOMAIN loading /\ loading'[i] = loading[i + 1]
        BY <2>0, <2>1, <2>2
      <3>2. ASSUME NEW i \in DOMAIN loading, i # 1
            PROVE  \E j \in DOMAIN loading' : loading'[j] = loading[i]
        <4>1. i - 1 \in DOMAIN loading' /\ (i - 1) + 1 = i
          BY <3>1, <3>2
        <4> QED
          BY <3>1, <4>1
      <3> QED
        BY <2>0, <2>3, <3>1, <3>2
    <2>6. LoadProgress'
      BY <2>0, <2>2, <2>3, <2>4, <2>5 DEF LoadProgress
    <2> QED
      BY <1>0, <2>2, <2>3, <2>6 DEF SessionInv
  <1>12. CASE LoadAllReturns
    <2>1. UNCHANGED <<rows, recent, truth, loading, loaded>> /\ loading = <<>> /\ loadpc = "restoring"
      BY <1>12 DEF LoadAllReturns, tableVars
    <2>2. LoadProgress'
      BY <2>1 DEF SessionInv, LoadProgress
    <2> QED
      BY <1>1, <2>1, <2>2
  <1>13. CASE UNCHANGED sessionVars
    <2>1. UNCHANGED <<rows, recent, truth, loading, loaded, loadpc>>
      BY <1>13 DEF sessionVars
    <2> QED
      BY <1>1, <2>1 DEF SessionInv, LoadProgress
  <1> QED
    BY <1>3, <1>4, <1>5, <1>6, <1>7, <1>9, <1>10, <1>11, <1>12, <1>13 DEF SessionNext, SavedTokens

LEMMA SessionInvSuffices == SessionInv => TokensSurvive
  <1> SUFFICES ASSUME SessionInv PROVE TokensSurvive
    OBVIOUS
  <1>1. ASSUME loadpc = "returned"
        PROVE  loaded = truth /\ \A e \in DOMAIN rows : rows[e].plain = NoToken
    <2>1. DOMAIN loaded = DOMAIN rows
      BY <1>1 DEF SessionInv, LoadProgress
    <2>2. loaded = [e \in DOMAIN loaded |-> truth[e]] /\ truth = [e \in DOMAIN truth |-> truth[e]]
      BY <1>1 DEF SessionInv, LoadProgress
    <2> QED
      BY <1>1, <2>1, <2>2 DEF SessionInv, LoadProgress
  <1> QED
    BY <1>1 DEF SessionInv, TokensSurvive

(* Any number of sessions and any tokens, wherever a migration or a        *)
(* LoadAll stops: no token is lost or mixed up, and a LoadAll that         *)
(* succeeds is complete (session.go:254-308, 368-398).                     *)
THEOREM TokensSurviveTheorem == SessionSpec => []TokensSurvive
  BY SessionInitInv, SessionNextInv, SessionInvSuffices, PTL DEF SessionSpec

----------------------------------------------------------------------------
(* Executor                                                                *)

(* What Run knows of the shell when it goes on.                            *)
ExecInv ==
    /\ shell \in {"none", "running", "ended"}
    /\ runpc \in {"off", "waiting", "draining", "returned", "reported"}
    /\ shellCode \in Nat \cup {Killed}
    /\ ~copyStopped
    /\ runpc \in {"off", "waiting"} => runErr = "nil"
    /\ runpc = "off" => shell = "none"
    /\ runpc = "waiting" => shell # "none"
    /\ runpc \in {"draining", "returned", "reported"} =>
         \/ runErr = "start" /\ shell = "none" /\ runpc # "draining"
         \/ shell = "ended" /\ runErr = "exit" /\ shellCode # 0
         \/ shell = "ended" /\ runErr = "context" /\ cancelled /\ shellCode = 0
         \/ shell = "ended" /\ runErr \in {"nil", "delay"} /\ shellCode = 0
    /\ cancelled => over
    /\ killed => shell = "ended" /\ shellCode = Killed
    /\ CodeIsHonest

LEMMA ExecInitInv == ExecInit => ExecInv
  BY DEF ExecInit, ExecInv, CodeIsHonest, Killed

LEMMA ExecNextInv == ExecInv /\ [ExecNext]_execVars => ExecInv'
  <1> SUFFICES ASSUME ExecInv, [ExecNext]_execVars PROVE ExecInv'
    OBVIOUS
  <1> USE DEF Killed
  <1>1. CASE StartsShell
    BY <1>1 DEF StartsShell, ExecInv, CodeIsHonest
  <1>2. CASE CannotStart
    BY <1>2 DEF CannotStart, ExecInv, CodeIsHonest
  <1>3. CASE ShellEnds
    BY <1>3, ExecAssumption DEF ShellEnds, ExecInv, CodeIsHonest
  <1>4. CASE \E kind \in {"group", "detached"} : Forks(kind) \/ ChildEnds(kind)
    BY <1>4 DEF Forks, ChildEnds, ExecInv, CodeIsHonest
  <1>5. ASSUME NEW n \in 1..2, Output(n)
        PROVE  ExecInv'
    <2>1. ~copyStopped'
      <3>1. ~(n < n)
        OBVIOUS
      <3>2. copyStopped' = (n < n)
        BY <1>5, Zenon DEF Output, Reported
      <3> QED
        BY <3>1, <3>2, Zenon
    <2> QED
      BY <1>5, <2>1 DEF Output, ExecInv, CodeIsHonest
  <1>6. CASE DeadlinePasses
    BY <1>6 DEF DeadlinePasses, ExecInv, CodeIsHonest
  <1>7. CASE CancelKills
    BY <1>7 DEF CancelKills, ExecInv, CodeIsHonest
  <1>8. CASE WaitReturns
    BY <1>8 DEF WaitReturns, ExecInv, CodeIsHonest
  <1>9. CASE PipesClosed \/ DelayEnds
    BY <1>9 DEF PipesClosed, DelayEnds, RunReturns, ExecInv, CodeIsHonest
  <1>10. CASE Reports
    <2>1. /\ runpc = "returned" /\ runpc' = "reported"
          /\ UNCHANGED <<shell, shellCode, killed, holders, over, cancelled, runErr, copyStopped>>
      BY <1>10 DEF Reports
    <2>2. CASE runErr = "nil"
      BY <1>10, <2>1, <2>2 DEF Reports, ExecInv, CodeIsHonest
    <2>3. CASE runErr # "nil" /\ over
      BY <1>10, <2>1, <2>3 DEF Reports, ExecInv, CodeIsHonest
    <2>4. CASE runErr \in {"exit", "delay"} /\ ~over
      BY <1>10, <2>1, <2>4 DEF Reports, ExecInv, CodeIsHonest
    <2>5. CASE runErr = "start" /\ ~over
      <3>1. exitCode' = -2
        BY <1>10, <2>5 DEF Reports
      <3> QED
        BY <2>1, <2>5, <3>1 DEF ExecInv, CodeIsHonest
    <2> QED
      BY <2>1, <2>2, <2>3, <2>4, <2>5 DEF ExecInv
  <1>11. CASE UNCHANGED execVars
    BY <1>11 DEF execVars, ExecInv, CodeIsHonest
  <1> QED
    BY <1>1, <1>2, <1>3, <1>4, <1>5, <1>6, <1>7, <1>8, <1>9, <1>10, <1>11 DEF ExecNext, Executes

(* Whatever a command prints, forks and ends with, and whenever its        *)
(* deadline passes, Execute reports the truth about it (executor.go:60-74, *)
(* 110-126).                                                               *)
THEOREM CodeIsHonestTheorem == ExecSpec => []CodeIsHonest
  <1>1. ExecInv => CodeIsHonest
    BY DEF ExecInv
  <1> QED
    BY ExecInitInv, ExecNextInv, <1>1, PTL DEF ExecSpec

----------------------------------------------------------------------------
(* DBBackup                                                                *)

BackupFiles == [version : Versions, tmp : BOOLEAN, holds : Versions, torn : BOOLEAN]

(* The newest file is the one startup works on, and startup opens the      *)
(* database only when it has a backup, needs none, or could not make one.  *)
BackupInv ==
    /\ files \in Seq(BackupFiles)
    /\ content \in Versions \cup {Absent} /\ torn \in BOOLEAN
    /\ running \in Versions \cup {Absent}
    /\ startpc \in {"off", "checking", "copying", "copied", "opening", "up"}
    /\ startpc # "off" => running \in Versions
    /\ startpc \in {"copying", "copied"} =>
         /\ Len(files) > 0
         /\ files[Len(files)].version = running
         /\ files[Len(files)].tmp <=> startpc = "copying"
         /\ running = opener => replaced = Absent
    /\ startpc = "opening" => content = Absent \/ copyFailed \/ HasBackup(running)
    /\ RollbackPossible

LEMMA BackupInitInv == BackupInit => BackupInv
  <1> SUFFICES ASSUME BackupInit PROVE BackupInv
    OBVIOUS
  <1>1. files = <<>> /\ <<>> \in Seq(BackupFiles)
    BY DEF BackupInit
  <1>2. torn \in BOOLEAN
    BY Zenon DEF BackupInit
  <1> QED
    BY <1>1, <1>2 DEF BackupInit, BackupInv, RollbackPossible

(* A step that leaves the files alone, and what was promised of them.      *)
LEMMA RollbackKept ==
  ASSUME RollbackPossible, files' = files, opener' = opener, replaced' = replaced
  PROVE  RollbackPossible'
  BY DEF RollbackPossible, IsBackup

LEMMA BackupNextInv == BackupInv /\ [BackupNext]_backupVars => BackupInv'
  <1> SUFFICES ASSUME BackupInv, [BackupNext]_backupVars PROVE BackupInv'
    OBVIOUS
  <1>0. /\ files \in Seq(BackupFiles) /\ RollbackPossible /\ Len(files) \in Nat
        /\ startpc # "off" => running \in Versions
        /\ Absent \notin Versions /\ keepBackups \in Nat \ {0}
    BY BackupAssumption DEF BackupInv
  <1>1. CASE \E v \in Versions : Starts(v)
    BY <1>0, <1>1, RollbackKept DEF Starts, BackupInv
  <1>2. CASE SkipsCopy
    BY <1>0, <1>2, RollbackKept DEF SkipsCopy, backupHistory, BackupInv, HasBackup, IsBackup
  <1>3. CASE BeginsCopy
    <2> DEFINE f == [version |-> running, tmp |-> TRUE, holds |-> content, torn |-> torn]
    <2>1. /\ startpc = "checking" /\ startpc' = "copying" /\ ~HasBackup(running)
          /\ files' = Append(files, f) /\ f \in BackupFiles
          /\ UNCHANGED <<content, torn, running, opener, replaced, copyFailed>>
      BY <1>0, <1>3 DEF BeginsCopy, BackupInv, backupHistory, BackupFiles
    <2>2. f.version = running /\ f.tmp
      OBVIOUS
    <2> HIDE DEF f
    <2>3. /\ files' \in Seq(BackupFiles) /\ Len(files') = Len(files) + 1
          /\ files'[Len(files')] = f
          /\ \A i \in DOMAIN files : i \in DOMAIN files' /\ files'[i] = files[i]
      BY <1>0, <2>1
    <2>4. running = opener => replaced = Absent
      BY <1>0, <2>1 DEF RollbackPossible, HasBackup
    <2>5. RollbackPossible'
      BY <1>0, <2>1, <2>3 DEF RollbackPossible, IsBackup
    <2> QED
      BY <1>0, <2>1, <2>2, <2>3, <2>4, <2>5 DEF BackupInv
  <1>4. CASE FailsCopy
    <2>1. /\ startpc = "copying" /\ startpc' = "opening" /\ copyFailed'
          /\ files' = SubSeq(files, 1, Len(files) - 1)
          /\ UNCHANGED <<content, torn, running, opener, replaced>>
      BY <1>4 DEF FailsCopy
    <2>2. Len(files) > 0 /\ files[Len(files)].tmp
      BY <2>1 DEF BackupInv
    <2>3. /\ files' \in Seq(BackupFiles)
          /\ \A i \in DOMAIN files \ {Len(files)} : i \in DOMAIN files' /\ files'[i] = files[i]
      BY <1>0, <2>1, <2>2
    <2>4. RollbackPossible'
      BY <1>0, <2>1, <2>2, <2>3 DEF RollbackPossible, IsBackup
    <2> QED
      BY <1>0, <2>1, <2>3, <2>4 DEF BackupInv
  <1>5. CASE PublishesCopy
    <2>1. /\ startpc = "copying" /\ startpc' = "copied"
          /\ files' = [files EXCEPT ![Len(files)].tmp = FALSE]
          /\ UNCHANGED <<content, torn, running, opener, replaced, copyFailed>>
      BY <1>5 DEF PublishesCopy, backupHistory
    <2>2. /\ Len(files) > 0 /\ files[Len(files)].tmp /\ files[Len(files)].version = running
          /\ running = opener => replaced = Absent
      BY <2>1 DEF BackupInv
    <2>3. PICK f \in BackupFiles : f = [files[Len(files)] EXCEPT !.tmp = FALSE]
      <3>1. PICK g \in BackupFiles : g = files[Len(files)]
        BY <1>0, <2>2
      <3>2. [g EXCEPT !.tmp = FALSE] \in BackupFiles
        BY DEF BackupFiles
      <3> QED
        BY <3>1, <3>2
    <2>4. f.version = running /\ ~f.tmp
      BY <1>0, <2>2, <2>3 DEF BackupFiles
    <2>5. files' = [files EXCEPT ![Len(files)] = f]
      BY <2>1, <2>3
    <2>6. /\ files' \in Seq(BackupFiles) /\ Len(files') = Len(files) /\ files'[Len(files)] = f
          /\ \A i \in DOMAIN files \ {Len(files)} : i \in DOMAIN files' /\ files'[i] = files[i]
      BY <1>0, <2>2, <2>5
    <2>7. RollbackPossible'
      BY <1>0, <2>1, <2>2, <2>6 DEF RollbackPossible, IsBackup
    <2> QED
      BY <1>0, <2>1, <2>2, <2>4, <2>6, <2>7 DEF BackupInv
  <1>6. CASE Prunes
    <2>1. /\ startpc = "copied" /\ startpc' = "opening" /\ files' = Kept
          /\ replaced' = IF running = opener THEN replaced ELSE Absent
          /\ UNCHANGED <<content, torn, running, opener, copyFailed>>
      BY <1>6 DEF Prunes
    <2>2. /\ Len(files) > 0 /\ ~files[Len(files)].tmp /\ files[Len(files)].version = running
          /\ running = opener => replaced = Absent
      BY <2>1 DEF BackupInv
    <2>3. /\ files' \in Seq(BackupFiles) /\ Len(files') \in Nat /\ Len(files') > 0
          /\ files'[Len(files')] = files[Len(files)]
      <3>1. CASE Len(files) > keepBackups
        <4>1. files' = SubSeq(files, Len(files) - keepBackups + 1, Len(files))
          BY <2>1, <3>1 DEF Kept
        <4> QED
          BY <1>0, <3>1, <4>1
      <3>2. CASE ~(Len(files) > keepBackups)
        BY <1>0, <2>1, <2>2, <3>2 DEF Kept
      <3> QED
        BY <3>1, <3>2
    <2>4. HasBackup(running)'
      BY <2>1, <2>2, <2>3 DEF HasBackup, IsBackup
    <2>5. replaced' = Absent
      BY <2>1, <2>2
    <2> QED
      BY <1>0, <2>1, <2>3, <2>4, <2>5 DEF BackupInv, RollbackPossible
  <1>7. CASE OpensDB
    <2>1. /\ startpc = "opening" /\ startpc' = "up" /\ running \in Versions
          /\ content' = running /\ torn' = FALSE /\ opener' = running
          /\ UNCHANGED <<files, running, copyFailed>>
      BY <1>0, <1>7 DEF OpensDB
    <2>2. RollbackPossible'
      <3>1. CASE opener = running
        <4>1. replaced' = replaced
          BY <1>7, <3>1 DEF OpensDB
        <4> QED
          BY <1>0, <2>1, <3>1, <4>1, RollbackKept
      <3>2. CASE opener # running
        <4> SUFFICES ASSUME replaced' # Absent
                     PROVE  \E i \in DOMAIN files :
                              IsBackup(files[i], running) /\ files[i].holds = replaced' /\ ~files[i].torn
          BY <2>1 DEF RollbackPossible, IsBackup
        <4>1. /\ content # Absent /\ ~copyFailed /\ replaced' = content
              /\ \A i \in DOMAIN files :
                   IsBackup(files[i], running) => files[i].holds = content /\ ~files[i].torn
          BY <1>7, <3>2 DEF OpensDB
        <4>2. HasBackup(running)
          BY <2>1, <4>1 DEF BackupInv
        <4> QED
          BY <4>1, <4>2 DEF HasBackup
      <3> QED
        BY <3>1, <3>2
    <2> QED
      BY <1>0, <2>1, <2>2 DEF BackupInv
  <1>8. CASE Ends
    <2>1. torn' \in BOOLEAN
      BY <1>8 DEF Ends, BackupInv
    <2> QED
      BY <1>0, <1>8, <2>1, RollbackKept DEF Ends, BackupInv, backupHistory
  <1>9. CASE UNCHANGED backupVars
    BY <1>0, <1>9, RollbackKept DEF backupVars, BackupInv, HasBackup, IsBackup
  <1> QED
    BY <1>1, <1>2, <1>3, <1>4, <1>5, <1>6, <1>7, <1>8, <1>9 DEF BackupNext

(* Any number of upgrades, downgrades, crashes and copies cut short, and   *)
(* any number of backups kept: the content an upgrade replaced is in a     *)
(* backup that is not pruned before it is superseded (dbbackup.go:22-117). *)
THEOREM RollbackPossibleTheorem == BackupSpec => []RollbackPossible
  <1>1. BackupInv => RollbackPossible
    BY DEF BackupInv
  <1> QED
    BY BackupInitInv, BackupNextInv, <1>1, PTL DEF BackupSpec

----------------------------------------------------------------------------
(* Ends of sequences, for the two audit logs                               *)

(* s is the end of w.                                                      *)
EndOf(s, w) ==
    /\ Len(s) <= Len(w)
    /\ \A i \in 1 .. Len(s) : s[i] = w[Len(w) - Len(s) + i]

LEMMA EndIsSubSeq ==
  ASSUME NEW S, NEW s \in Seq(S), NEW w \in Seq(S), EndOf(s, w)
  PROVE  s = SubSeq(w, Len(w) - Len(s) + 1, Len(w))
  BY DEF EndOf

LEMMA EndAppend ==
  ASSUME NEW S, NEW s \in Seq(S), NEW w \in Seq(S), NEW e \in S, EndOf(s, w)
  PROVE  EndOf(Append(s, e), Append(w, e))
  BY DEF EndOf

LEMMA EndOfConcat ==
  ASSUME NEW S, NEW a \in Seq(S), NEW b \in Seq(S), NEW w \in Seq(S), EndOf(a \o b, w)
  PROVE  EndOf(b, w)
  <1>1. Len(a \o b) = Len(a) + Len(b) /\ Len(a) \in Nat /\ Len(b) \in Nat /\ Len(w) \in Nat
    OBVIOUS
  <1>2. ASSUME NEW i \in 1 .. Len(b)
        PROVE  b[i] = w[Len(w) - Len(b) + i]
    <2>1. Len(a) + i \in 1 .. Len(a \o b) /\ (a \o b)[Len(a) + i] = b[i]
      BY <1>1
    <2>2. (a \o b)[Len(a) + i] = w[Len(w) - Len(a \o b) + (Len(a) + i)]
      BY <2>1 DEF EndOf
    <2>3. Len(w) - Len(a \o b) + (Len(a) + i) = Len(w) - Len(b) + i
      BY <1>1
    <2> QED
      BY <2>1, <2>2, <2>3
  <1> QED
    BY <1>1, <1>2 DEF EndOf

LEMMA ConcatEmpty ==
  ASSUME NEW S, NEW a \in Seq(S)
  PROVE  <<>> \o a = a /\ a \o <<>> = a
  OBVIOUS

----------------------------------------------------------------------------
(* AgentAudit                                                              *)

(* A rotation begins with a full file, and Log writes only to one that has *)
(* room, unless the file could not be renamed.                             *)
TrailInv ==
    /\ current \in Seq(Nat) /\ older \in Seq(Nat) /\ written \in Seq(Nat)
    /\ size \in Nat /\ events \in Nat
    /\ logpc \in {"off", "rotating", "removed", "renamed", "writing"}
    /\ open \in {"no", "yes", "nil"}
    /\ open = "no" => logpc = "off"
    /\ open = "yes" => size = Len(current)
    /\ logpc \in {"rotating", "removed", "renamed"} => open = "nil"
    /\ logpc \in {"rotating", "removed"} => Len(current) >= maxSize
    /\ logpc = "renamed" /\ ~stuck => current = <<>>
    /\ logpc = "writing" => open = "yes" /\ (~stuck => Len(current) + 1 <= maxSize)
    /\ EndOf(older \o current, written)
    /\ written # <<>> => older \o current # <<>>
    /\ ~stuck => Len(current) <= maxSize

LEMMA TrailInitInv == AgentAuditInit => TrailInv
  <1> SUFFICES ASSUME AgentAuditInit PROVE TrailInv
    OBVIOUS
  <1>1. current = <<>> /\ older = <<>> /\ written = <<>> /\ <<>> \in Seq(Nat)
    BY DEF AgentAuditInit
  <1>2. older \o current = <<>> /\ EndOf(<<>>, <<>>)
    BY <1>1 DEF EndOf
  <1> QED
    BY <1>1, <1>2, AuditAssumption DEF AgentAuditInit, TrailInv

LEMMA TrailNextInv == TrailInv /\ [AgentAuditNext]_agentAuditVars => TrailInv'
  <1> SUFFICES ASSUME TrailInv, [AgentAuditNext]_agentAuditVars PROVE TrailInv'
    OBVIOUS
  <1>0. /\ current \in Seq(Nat) /\ older \in Seq(Nat) /\ written \in Seq(Nat)
        /\ Len(current) \in Nat /\ events \in Nat /\ size \in Nat /\ maxSize \in Nat \ {0}
        /\ EndOf(older \o current, written)
        /\ written # <<>> => older \o current # <<>>
    BY AuditAssumption DEF TrailInv
  <1>1. CASE OpensLog \/ RotateOpens
    <2>1. /\ open' = "yes" /\ size' = Len(current)
          /\ UNCHANGED <<current, older, events, written, stuck>>
      BY <1>1 DEF OpensLog, RotateOpens, OpenFile, auditHistory
    <2>2. \/ logpc = "off" /\ logpc' = "off"
          \/ logpc = "renamed" /\ logpc' = "writing"
      BY <1>1 DEF OpensLog, RotateOpens, TrailInv
    <2> QED
      BY <1>0, <2>1, <2>2 DEF TrailInv
  <1>2. CASE LogDiscards \/ LogBegins
    <2>1. UNCHANGED <<current, older, size, written, stuck>> /\ events' \in Nat
      BY <1>0, <1>2 DEF LogDiscards, LogBegins, auditFiles
    <2>2. CASE LogDiscards
      BY <1>0, <2>1, <2>2 DEF LogDiscards, TrailInv
    <2>3. CASE LogBegins
      BY <1>0, <2>1, <2>3 DEF LogBegins, TrailInv
    <2> QED
      BY <1>2, <2>2, <2>3
  <1>3. CASE RotateRemoves
    <2>1. /\ logpc = "rotating" /\ logpc' = "removed"
          /\ UNCHANGED <<current, open, size, events, written, stuck>>
          /\ older' \in {<<>>, older}
      BY <1>3 DEF RotateRemoves, auditHistory
    <2>2. CASE older' = older
      BY <1>0, <2>1, <2>2 DEF TrailInv
    <2>3. CASE older' = <<>>
      <3>1. older' \o current' = current /\ <<>> \in Seq(Nat)
        BY <1>0, <2>1, <2>3, ConcatEmpty
      <3>2. EndOf(current, written)
        BY <1>0, EndOfConcat
      <3>3. current # <<>>
        BY <1>0, <2>1 DEF TrailInv
      <3> QED
        BY <1>0, <2>1, <2>3, <3>1, <3>2, <3>3 DEF TrailInv
    <2> QED
      BY <2>1, <2>2, <2>3
  <1>4. CASE RotateRenames
    <2>1. /\ logpc = "removed" /\ logpc' = "renamed" /\ older' = current /\ current' = <<>> /\ ~stuck'
          /\ UNCHANGED <<open, size, events, written>>
      BY <1>4 DEF RotateRenames
    <2>2. older' \o current' = current /\ <<>> \in Seq(Nat) /\ Len(<<>>) = 0
      BY <1>0, <2>1, ConcatEmpty
    <2>3. EndOf(current, written)
      BY <1>0, EndOfConcat
    <2>4. current # <<>>
      BY <1>0, <2>1 DEF TrailInv
    <2> QED
      BY <1>0, <2>1, <2>2, <2>3, <2>4 DEF TrailInv
  <1>5. CASE RotateKeeps
    BY <1>0, <1>5 DEF RotateKeeps, TrailInv, auditFiles
  <1>6. CASE RotateFails \/ WriteFails
    BY <1>0, <1>6 DEF RotateFails, WriteFails, TrailInv, auditFiles, auditHistory
  <1>7. CASE LogWrites
    <2>1. /\ logpc = "writing" /\ logpc' = "off"
          /\ current' = Append(current, events) /\ written' = Append(written, events)
          /\ size' = size + 1
          /\ UNCHANGED <<older, open, events, stuck>>
      BY <1>7 DEF LogWrites
    <2>2. older \o current \in Seq(Nat)
      BY <1>0
    <2>3. older' \o current' = Append(older \o current, events)
      <3>1. older \o Append(current, events) = Append(older \o current, events)
        <4>1. older \in Seq(Nat) /\ current \in Seq(Nat) /\ events \in Nat
          BY <1>0
        <4> QED
          BY <4>1
      <3> QED
        BY <2>1, <3>1
    <2>4. EndOf(older' \o current', written')
      BY <1>0, <2>1, <2>2, <2>3, EndAppend
    <2>5. older' \o current' # <<>>
      BY <2>2, <2>3
    <2>6. current' \in Seq(Nat) /\ written' \in Seq(Nat) /\ Len(current') = Len(current) + 1
      BY <1>0, <2>1
    <2>7. /\ open' = "yes" => size' = Len(current')
          /\ ~stuck' => Len(current') <= maxSize
      BY <2>1, <2>6 DEF TrailInv
    <2>8. /\ older' \in Seq(Nat) /\ size' \in Nat /\ events' \in Nat /\ open' \in {"no", "yes", "nil"}
          /\ open' # "no"
      BY <1>0, <2>1 DEF TrailInv
    <2> QED
      BY <2>1, <2>4, <2>5, <2>6, <2>7, <2>8 DEF TrailInv
  <1>8. CASE AgentEnds
    BY <1>0, <1>8 DEF AgentEnds, TrailInv, auditFiles
  <1>9. CASE UNCHANGED agentAuditVars
    BY <1>9 DEF agentAuditVars, TrailInv
  <1> QED
    BY <1>1, <1>2, <1>3, <1>4, <1>5, <1>6, <1>7, <1>8, <1>9 DEF AgentAuditNext

LEMMA TrailInvSuffices == TrailInv => TrailIsSuffix
  <1> SUFFICES ASSUME TrailInv PROVE TrailIsSuffix
    OBVIOUS
  <1>1. Trail \in Seq(Nat) /\ written \in Seq(Nat) /\ EndOf(Trail, written)
    BY DEF TrailInv, Trail
  <1>2. Trail = SubSeq(written, Len(written) - Len(Trail) + 1, Len(written))
    BY <1>1, EndIsSubSeq
  <1> QED
    BY <1>2 DEF TrailInv, TrailIsSuffix, Trail

(* Any number of events, rotations, failures and ends of the agent, and    *)
(* any maximum: the two files are the latest events, in order and without a *)
(* gap (audit.go:104-127).                                                 *)
THEOREM TrailIsSuffixTheorem == AgentAuditSpec => []TrailIsSuffix
  BY TrailInitInv, TrailNextInv, TrailInvSuffices, PTL DEF AgentAuditSpec

----------------------------------------------------------------------------
(* AuditLog                                                                *)

Rows == [what : Nat, id : Nat]
Lesser(a, b) == IF a < b THEN a ELSE b

(* LastN, position by position.                                            *)
LEMMA LastNForm ==
  ASSUME NEW S, NEW s \in Seq(S), NEW n \in Nat
  PROVE  LastN(s, n) = [i \in 1 .. Lesser(Len(s), n) |-> s[Len(s) - Lesser(Len(s), n) + i]]
  <1>1. CASE Len(s) <= n
    <2>1. Lesser(Len(s), n) = Len(s) /\ LastN(s, n) = s
      BY <1>1 DEF Lesser, LastN
    <2>2. s = [i \in 1 .. Len(s) |-> s[Len(s) - Len(s) + i]]
      OBVIOUS
    <2> QED
      BY <2>1, <2>2
  <1>2. CASE ~(Len(s) <= n)
    <2>1. Lesser(Len(s), n) = n /\ LastN(s, n) = SubSeq(s, Len(s) - n + 1, Len(s))
      BY <1>2 DEF Lesser, LastN
    <2>2. SubSeq(s, Len(s) - n + 1, Len(s)) = [i \in 1 .. n |-> s[Len(s) - n + i]]
      BY <1>2
    <2> QED
      BY <2>1, <2>2
  <1> QED
    BY <1>1, <1>2

(* What an array of rows reversed twice is.                                *)
LEMMA RecentFromDBForm ==
  ASSUME table \in Seq(Rows), NEW n \in Nat
  PROVE  RecentFromDB(n) = [i \in 1 .. Lesser(Len(table), n) |-> table[Len(table) - Lesser(Len(table), n) + i]]
  <1> DEFINE m == Lesser(Len(table), n)
             newest == [i \in 1 .. m |-> table[Len(table) + 1 - i]]
  <1>1. m \in Nat /\ Len(table) \in Nat /\ m <= Len(table)
    BY DEF Lesser
  <1>2. newest \in [1 .. m -> Rows]
    BY <1>1
  <1>3. newest \in Seq(Rows) /\ DOMAIN newest = 1 .. m
    BY <1>1, <1>2
  <1>4. Len(newest) = m
    BY <1>1, <1>3
  <1>5. RecentFromDB(n) = [i \in DOMAIN newest |-> newest[Len(newest) + 1 - i]]
    BY DEF RecentFromDB, Lesser
  <1>6. ASSUME NEW i \in 1 .. m
        PROVE  newest[m + 1 - i] = table[Len(table) - m + i]
    BY <1>1
  <1> QED
    BY <1>3, <1>4, <1>5, <1>6

(* The table is what was stored, the ring the end of what was logged; row  *)
(* IDs grow, and no two calls of Log are mistaken for each other.          *)
LogInv ==
    /\ entries \in Seq(Rows) /\ table \in Seq(Rows)
    /\ memoryLog \in Seq(Nat) /\ storedLog \in Seq(Nat)
    /\ nextID \in Nat /\ lastRowID \in Nat /\ logs \in Nat
    /\ Len(table) = Len(storedLog)
    /\ \A j \in 1 .. Len(table) : table[j].what = storedLog[j]
    /\ Len(entries) = Lesser(Len(memoryLog), capacity)
    /\ \A i \in 1 .. Len(entries) :
         entries[i].what = memoryLog[Len(memoryLog) - Len(entries) + i]
    /\ \A i \in 1 .. Len(entries) : entries[i].what < logs
    /\ \A j \in 1 .. Len(table) : table[j].what < logs /\ table[j].id <= lastRowID
    /\ \A i \in 1 .. Len(entries), j \in 1 .. Len(table) :
         entries[i].what = table[j].what => entries[i].id = table[j].id
    /\ \A i, j \in 1 .. Len(table) : i < j => table[i].id < table[j].id
    /\ dbEnabled => \A j \in 1 .. Len(table) : table[j].id < nextID

LEMMA RowFields ==
  ASSUME NEW s \in Seq(Rows), NEW j \in 1 .. Len(s)
  PROVE  s[j].what \in Nat /\ s[j].id \in Nat
  <1>1. s[j] \in Rows
    OBVIOUS
  <1> QED
    BY <1>1 DEF Rows

LEMMA LogInitInv == AuditLogInit => LogInv
  <1> SUFFICES ASSUME AuditLogInit PROVE LogInv
    OBVIOUS
  <1>1. /\ entries = <<>> /\ table = <<>> /\ memoryLog = <<>> /\ storedLog = <<>>
        /\ <<>> \in Seq(Rows) /\ <<>> \in Seq(Nat) /\ Len(<<>>) = 0
    BY DEF AuditLogInit
  <1>2. Lesser(0, capacity) = 0
    BY LogAssumption DEF Lesser
  <1> QED
    BY <1>1, <1>2 DEF AuditLogInit, LogInv

(* The ring after a Log.                                                   *)
LEMMA RingForm ==
  ASSUME entries \in Seq(Rows), NEW r \in Rows, Len(entries) <= capacity
  PROVE  /\ Ring(r) \in Seq(Rows)
         /\ Len(Ring(r)) = Lesser(Len(entries) + 1, capacity)
         /\ Ring(r)[Len(Ring(r))] = r
         /\ \A i \in 1 .. Len(Ring(r)) - 1 :
              LET k == Len(entries) + 1 - Len(Ring(r)) + i
              IN  k \in 1 .. Len(entries) /\ Ring(r)[i] = entries[k]
  <1>1. capacity \in Nat /\ capacity > 0 /\ Len(entries) \in Nat
    BY LogAssumption
  <1>2. CASE Len(entries) >= capacity
    <2>1. Ring(r) = Append(Tail(entries), r) /\ entries # <<>> /\ Len(entries) = capacity
      BY <1>1, <1>2 DEF Ring
    <2>2. /\ Tail(entries) \in Seq(Rows) /\ Len(Tail(entries)) = capacity - 1
          /\ \A i \in 1 .. capacity - 1 : Tail(entries)[i] = entries[i + 1]
      BY <1>1, <2>1
    <2>3. /\ Ring(r) \in Seq(Rows) /\ Len(Ring(r)) = capacity /\ Ring(r)[capacity] = r
          /\ \A i \in 1 .. capacity - 1 : Ring(r)[i] = entries[i + 1]
      BY <1>1, <2>1, <2>2
    <2>4. Lesser(Len(entries) + 1, capacity) = capacity
      BY <1>1, <2>1 DEF Lesser
    <2> QED
      BY <1>1, <2>1, <2>3, <2>4
  <1>3. CASE ~(Len(entries) >= capacity)
    <2>1. Ring(r) = Append(entries, r)
      BY <1>3 DEF Ring
    <2>2. Lesser(Len(entries) + 1, capacity) = Len(entries) + 1
      BY <1>1, <1>3 DEF Lesser
    <2> QED
      BY <1>1, <2>1, <2>2
  <1> QED
    BY <1>2, <1>3

LEMMA LogNextInv == LogInv /\ [AuditLogNext]_auditLogVars => LogInv'
  <1> SUFFICES ASSUME LogInv, [AuditLogNext]_auditLogVars PROVE LogInv'
    OBVIOUS
  <1>0. /\ entries \in Seq(Rows) /\ table \in Seq(Rows)
        /\ memoryLog \in Seq(Nat) /\ storedLog \in Seq(Nat)
        /\ nextID \in Nat /\ lastRowID \in Nat /\ logs \in Nat
        /\ Len(entries) \in Nat /\ Len(table) \in Nat /\ Len(memoryLog) \in Nat
        /\ capacity \in Nat \ {0}
    BY LogAssumption DEF LogInv
  <1>1. CASE OpensDatabase
    <2>1. UNCHANGED <<entries, table, lastRowID, memoryLog, storedLog, logs>>
      BY <1>1 DEF OpensDatabase
    <2>2. nextID' \in Nat /\ \A j \in 1 .. Len(table) : table[j].id < nextID'
      <3>1. CASE table = <<>>
        BY <1>0, <1>1, <3>1 DEF OpensDatabase
      <3>2. CASE table # <<>>
        <4>1. Len(table) \in 1 .. Len(table) /\ nextID' = table[Len(table)].id + 1
          BY <1>0, <1>1, <3>2 DEF OpensDatabase
        <4>2. \A j \in 1 .. Len(table) : table[j].id \in Nat
          BY <1>0, RowFields
        <4>3. \A i, j \in 1 .. Len(table) : i < j => table[i].id < table[j].id
          BY DEF LogInv
        <4>4. \A j \in 1 .. Len(table) : j = Len(table) \/ j < Len(table)
          BY <1>0
        <4> QED
          BY <4>1, <4>2, <4>3, <4>4
      <3> QED
        BY <3>1, <3>2
    <2> QED
      BY <2>1, <2>2 DEF LogInv
  <1>2. CASE ClosesDatabase
    BY <1>2 DEF ClosesDatabase, LogInv
  <1>3. ASSUME NEW id \in Nat, Logs(id), LogStored \/ LogUnstored,
               LogStored => id = lastRowID + 1
        PROVE  LogInv'
    <2> DEFINE r == [what |-> logs, id |-> id]
    <2>1. /\ entries' = Ring(r) /\ memoryLog' = Append(memoryLog, logs) /\ logs' = logs + 1
          /\ dbEnabled' = dbEnabled
      BY <1>3 DEF Logs
    <2>2. r \in Rows /\ r.what = logs /\ r.id = id
      BY <1>0, <1>3 DEF Rows
    <2> HIDE DEF r
    <2>3. Len(entries) = Lesser(Len(memoryLog), capacity) /\ Len(entries) <= capacity
      BY <1>0 DEF LogInv, Lesser
    <2>4. /\ entries' \in Seq(Rows)
          /\ Len(entries') = Lesser(Len(entries) + 1, capacity)
          /\ entries'[Len(entries')] = r
          /\ \A i \in 1 .. Len(entries') - 1 :
               LET k == Len(entries) + 1 - Len(entries') + i
               IN  k \in 1 .. Len(entries) /\ entries'[i] = entries[k]
      BY <1>0, <2>1, <2>2, <2>3, RingForm
    <2>5. /\ memoryLog' \in Seq(Nat) /\ Len(memoryLog') = Len(memoryLog) + 1
          /\ memoryLog'[Len(memoryLog) + 1] = logs
          /\ \A i \in 1 .. Len(memoryLog) : memoryLog'[i] = memoryLog[i]
      BY <1>0, <2>1
    <2>6. Len(entries') = Lesser(Len(memoryLog'), capacity) /\ Len(entries') \in Nat /\ Len(entries') > 0
      BY <1>0, <2>3, <2>4, <2>5 DEF Lesser
    <2>7. ASSUME NEW i \in 1 .. Len(entries')
          PROVE  entries'[i].what = memoryLog'[Len(memoryLog') - Len(entries') + i]
      <3>1. CASE i = Len(entries')
        BY <1>0, <2>2, <2>4, <2>5, <2>6, <3>1
      <3>2. CASE i # Len(entries')
        <4>1. PICK k \in 1 .. Len(entries) : k = Len(entries) + 1 - Len(entries') + i /\ entries'[i] = entries[k]
          <5>1. i \in 1 .. Len(entries') - 1
            BY <2>6, <3>2
          <5> QED
            BY <2>4, <5>1
        <4>2. entries[k].what = memoryLog[Len(memoryLog) - Len(entries) + k]
          BY DEF LogInv
        <4>3. Len(memoryLog) - Len(entries) + k \in 1 .. Len(memoryLog)
          BY <1>0, <2>3 DEF Lesser
        <4>4. Len(memoryLog') - Len(entries') + i = Len(memoryLog) - Len(entries) + k
          <5>1. Len(memoryLog) \in Nat /\ Len(entries) \in Nat /\ Len(entries') \in Nat
            BY <1>0, <2>6
          <5> QED
            BY <2>5, <4>1, <5>1
        <4> QED
          BY <2>5, <4>1, <4>2, <4>3, <4>4
      <3> QED
        BY <3>1, <3>2
    <2>8. \A i \in 1 .. Len(entries') :
            \/ i = Len(entries') /\ entries'[i] = r
            \/ \E k \in 1 .. Len(entries) : entries'[i] = entries[k]
      <3>1. \A i \in 1 .. Len(entries') : i = Len(entries') \/ i \in 1 .. Len(entries') - 1
        BY <2>6
      <3> QED
        BY <2>4, <3>1
    <2>9. \A i \in 1 .. Len(entries') : entries'[i].what < logs'
      <3>1. \A k \in 1 .. Len(entries) : entries[k].what \in Nat /\ entries[k].what < logs
        BY <1>0, RowFields DEF LogInv
      <3>2. logs \in Nat /\ logs' = logs + 1
        BY <1>0, <2>1
      <3>3. ASSUME NEW i \in 1 .. Len(entries') PROVE entries'[i].what < logs'
        <4>1. CASE entries'[i] = r
          BY <2>2, <3>2, <4>1
        <4>2. CASE \E k \in 1 .. Len(entries) : entries'[i] = entries[k]
          <5>1. PICK k \in 1 .. Len(entries) : entries'[i] = entries[k]
            BY <4>2
          <5>2. entries'[i].what \in Nat /\ entries'[i].what < logs
            BY <3>1, <5>1
          <5> QED
            BY <3>2, <5>2
        <4> QED
          BY <2>8, <4>1, <4>2
      <3> QED
        BY <3>3
    <2>10. \A k \in 1 .. Len(entries), j \in 1 .. Len(table) :
             entries[k].what = table[j].what => entries[k].id = table[j].id
      BY DEF LogInv
    <2>11. \A j \in 1 .. Len(table) :
             /\ table[j].what < logs /\ table[j].what \in Nat /\ table[j].id \in Nat
             /\ table[j].id <= lastRowID /\ table[j].what = storedLog[j]
      BY <1>0, RowFields DEF LogInv
    <2>12. CASE LogStored
      <3>1. /\ dbEnabled /\ lastRowID' = id /\ id = lastRowID + 1 /\ table' = Append(table, r)
            /\ storedLog' = Append(storedLog, logs) /\ nextID' = Larger(nextID, id) + 1
        BY <1>3, <2>12 DEF LogStored, r
      <3>2. /\ table' \in Seq(Rows) /\ Len(table') = Len(table) + 1 /\ table'[Len(table) + 1] = r
            /\ \A j \in 1 .. Len(table) : table'[j] = table[j]
            /\ Len(storedLog) = Len(table)
            /\ storedLog' \in Seq(Nat) /\ Len(storedLog') = Len(table')
            /\ storedLog'[Len(table) + 1] = logs
            /\ \A j \in 1 .. Len(table) : storedLog'[j] = storedLog[j]
        BY <1>0, <2>2, <3>1 DEF LogInv
      <3>3. \A j \in 1 .. Len(table') : \/ j \in 1 .. Len(table) /\ table'[j] = table[j]
                                        \/ j = Len(table) + 1 /\ table'[j] = r
        BY <1>0, <3>2
      <3>4. nextID' \in Nat /\ nextID' > id /\ id > lastRowID
        BY <1>0, <3>1 DEF Larger
      <3>5. \A j \in 1 .. Len(table') : table'[j].what = storedLog'[j]
        BY <1>0, <2>2, <2>11, <3>2, <3>3
      <3>6. \A j \in 1 .. Len(table') : /\ table'[j].what < logs' /\ table'[j].id <= lastRowID'
                                        /\ table'[j].id < nextID'
        <4>1. logs \in Nat /\ lastRowID \in Nat /\ id \in Nat /\ logs' = logs + 1
          BY <1>0, <1>3, <2>1
        <4> QED
          BY <2>2, <2>11, <3>1, <3>3, <3>4, <4>1
      <3>7. \A i \in 1 .. Len(entries'), j \in 1 .. Len(table') :
              entries'[i].what = table'[j].what => entries'[i].id = table'[j].id
        <4> SUFFICES ASSUME NEW i \in 1 .. Len(entries'), NEW j \in 1 .. Len(table'),
                            entries'[i].what = table'[j].what
                     PROVE  entries'[i].id = table'[j].id
          OBVIOUS
        <4>1. CASE entries'[i] = r /\ table'[j] = r
          BY <4>1
        <4>2. CASE entries'[i] = r /\ j \in 1 .. Len(table) /\ table'[j] = table[j]
          BY <1>0, <2>2, <2>11, <4>2
        <4>3. CASE \E k \in 1 .. Len(entries) : entries'[i] = entries[k]
          <5>1. PICK k \in 1 .. Len(entries) : entries'[i] = entries[k]
            BY <4>3
          <5>2. entries[k].what < logs /\ entries[k].what \in Nat
            BY <1>0, RowFields DEF LogInv
          <5>3. table'[j] # r
            BY <1>0, <2>2, <5>1, <5>2
          <5> QED
            BY <2>10, <3>3, <5>1, <5>3
        <4> QED
          BY <2>8, <3>3, <4>1, <4>2, <4>3
      <3>8. \A i, j \in 1 .. Len(table') : i < j => table'[i].id < table'[j].id
        <4> SUFFICES ASSUME NEW i \in 1 .. Len(table'), NEW j \in 1 .. Len(table'), i < j
                     PROVE  table'[i].id < table'[j].id
          OBVIOUS
        <4>1. i \in 1 .. Len(table) /\ table'[i] = table[i]
          BY <1>0, <3>2, <3>3
        <4>2. CASE j = Len(table) + 1
          BY <1>0, <2>2, <2>11, <3>1, <3>3, <3>4, <4>1, <4>2
        <4>3. CASE j \in 1 .. Len(table)
          BY <3>2, <4>1, <4>3 DEF LogInv
        <4> QED
          BY <3>3, <4>2, <4>3
      <3>9. lastRowID' \in Nat /\ logs' \in Nat
        BY <1>0, <2>1, <3>1
      <3> QED
        BY <2>4, <2>5, <2>6, <2>7, <2>9, <3>2, <3>4, <3>5, <3>6, <3>7, <3>8, <3>9 DEF LogInv
    <2>13. CASE LogUnstored
      <3>1. nextID' = nextID + 1 /\ UNCHANGED <<table, lastRowID, storedLog>>
        BY <2>13 DEF LogUnstored
      <3>2. \A j \in 1 .. Len(table') : table'[j].what < logs'
        <4>1. logs \in Nat /\ logs' = logs + 1
          BY <1>0, <2>1
        <4> QED
          BY <2>11, <3>1, <4>1
      <3>3. \A i \in 1 .. Len(entries'), j \in 1 .. Len(table') :
              entries'[i].what = table'[j].what => entries'[i].id = table'[j].id
        <4> SUFFICES ASSUME NEW i \in 1 .. Len(entries'), NEW j \in 1 .. Len(table),
                            entries'[i].what = table[j].what
                     PROVE  entries'[i].id = table[j].id
          BY <3>1
        <4>1. entries'[i] # r
          <5>1. logs \in Nat /\ table[j].what < logs
            BY <1>0, <2>11
          <5> QED
            BY <2>2, <5>1
        <4> QED
          BY <2>8, <2>10, <4>1
      <3>4. dbEnabled' => \A j \in 1 .. Len(table') : table'[j].id < nextID'
        BY <1>0, <2>1, <2>11, <3>1 DEF LogInv
      <3>5. nextID' \in Nat /\ logs' \in Nat
        BY <1>0, <2>1, <3>1
      <3> QED
        BY <2>4, <2>5, <2>6, <2>7, <2>9, <3>1, <3>2, <3>3, <3>4, <3>5 DEF LogInv
    <2> QED
      BY <1>3, <2>12, <2>13
  <1>4. CASE LogStored \/ LogUnstored
    <2>1. CASE LogStored
      <3>1. Logs(lastRowID + 1) /\ lastRowID + 1 \in Nat
        BY <1>0, <2>1 DEF LogStored
      <3> QED
        BY <1>3, <2>1, <3>1
    <2>2. CASE LogUnstored /\ ~LogStored
      <3>1. Logs(nextID)
        BY <2>2 DEF LogUnstored
      <3> QED
        BY <1>0, <1>3, <2>2, <3>1
    <2> QED
      BY <1>4, <2>1, <2>2
  <1>5. CASE Clears \/ Restarts
    <2>1. /\ entries' = <<>> /\ memoryLog' = <<>> /\ logs' = logs /\ lastRowID' = lastRowID
          /\ \/ table' = <<>> /\ storedLog' = <<>>
             \/ table' = table /\ storedLog' = storedLog
          /\ nextID' \in Nat
          /\ dbEnabled' => dbEnabled /\ nextID' = nextID
      BY <1>0, <1>5 DEF Clears, Restarts
    <2>2. <<>> \in Seq(Rows) /\ <<>> \in Seq(Nat) /\ Len(<<>>) = 0 /\ Lesser(0, capacity) = 0
      BY <1>0 DEF Lesser
    <2>3. CASE table' = <<>> /\ storedLog' = <<>>
      BY <1>0, <2>1, <2>2, <2>3 DEF LogInv
    <2>4. CASE table' = table /\ storedLog' = storedLog
      BY <1>0, <2>1, <2>2, <2>4 DEF LogInv
    <2> QED
      BY <2>1, <2>3, <2>4
  <1>6. CASE UNCHANGED auditLogVars
    BY <1>6 DEF auditLogVars, LogInv
  <1> QED
    BY <1>1, <1>2, <1>4, <1>5, <1>6 DEF AuditLogNext

LEMMA LogInvSuffices == LogInv => RecentIsTail
  <1> SUFFICES ASSUME LogInv PROVE RecentIsTail
    OBVIOUS
  <1>0. /\ entries \in Seq(Rows) /\ table \in Seq(Rows)
        /\ memoryLog \in Seq(Nat) /\ storedLog \in Seq(Nat)
        /\ Len(entries) \in Nat /\ Len(table) \in Nat /\ Len(memoryLog) \in Nat
        /\ Len(table) = Len(storedLog) /\ capacity \in Nat \ {0}
        /\ DOMAIN entries = 1 .. Len(entries) /\ DOMAIN table = 1 .. Len(table)
    BY LogAssumption DEF LogInv
  <1>1. ASSUME NEW n \in Nat, n <= capacity
        PROVE  /\ Whats(RecentFromDB(n)) = LastN(storedLog, n)
               /\ Whats(RecentFromMemory(n)) = LastN(memoryLog, n)
    <2>1. /\ LastN(storedLog, n)
               = [i \in 1 .. Lesser(Len(table), n) |-> storedLog[Len(table) - Lesser(Len(table), n) + i]]
          /\ LastN(memoryLog, n)
               = [i \in 1 .. Lesser(Len(memoryLog), n) |-> memoryLog[Len(memoryLog) - Lesser(Len(memoryLog), n) + i]]
          /\ RecentFromMemory(n)
               = [i \in 1 .. Lesser(Len(entries), n) |-> entries[Len(entries) - Lesser(Len(entries), n) + i]]
      BY <1>0, LastNForm DEF RecentFromMemory
    <2>2. Whats(RecentFromDB(n)) = LastN(storedLog, n)
      <3> DEFINE m == Lesser(Len(table), n)
      <3>1. m \in Nat /\ m <= Len(table)
        BY <1>0 DEF Lesser
      <3>2. RecentFromDB(n) = [i \in 1 .. m |-> table[Len(table) - m + i]]
        BY <1>0, RecentFromDBForm
      <3> HIDE DEF m
      <3>3. \A i \in 1 .. m : table[Len(table) - m + i].what = storedLog[Len(table) - m + i]
        <4>1. \A i \in 1 .. m : Len(table) - m + i \in 1 .. Len(table)
          BY <1>0, <3>1
        <4> QED
          BY <4>1 DEF LogInv
      <3>4. Whats(RecentFromDB(n)) = [i \in 1 .. m |-> table[Len(table) - m + i].what]
        BY <3>2 DEF Whats
      <3> QED
        BY <2>1, <3>3, <3>4 DEF m
    <2>3. Whats(RecentFromMemory(n)) = LastN(memoryLog, n)
      <3> DEFINE m == Lesser(Len(entries), n)
      <3>1. m \in Nat /\ m <= Len(entries) /\ m = Lesser(Len(memoryLog), n)
        <4>1. Len(entries) = Lesser(Len(memoryLog), capacity)
          BY DEF LogInv
        <4> QED
          BY <1>0, <1>1, <4>1 DEF Lesser
      <3>2. RecentFromMemory(n) = [i \in 1 .. m |-> entries[Len(entries) - m + i]]
        BY <2>1
      <3>3. LastN(memoryLog, n) = [i \in 1 .. m |-> memoryLog[Len(memoryLog) - m + i]]
        BY <2>1, <3>1
      <3> HIDE DEF m
      <3>4. \A i \in 1 .. m : entries[Len(entries) - m + i].what = memoryLog[Len(memoryLog) - m + i]
        <4>1. \A i \in 1 .. m : /\ Len(entries) - m + i \in 1 .. Len(entries)
                                /\ Len(memoryLog) - Len(entries) + (Len(entries) - m + i) = Len(memoryLog) - m + i
          BY <1>0, <3>1
        <4>2. \A k \in 1 .. Len(entries) : entries[k].what = memoryLog[Len(memoryLog) - Len(entries) + k]
          BY DEF LogInv
        <4> QED
          BY <4>1, <4>2
      <3>5. Whats(RecentFromMemory(n)) = [i \in 1 .. m |-> entries[Len(entries) - m + i].what]
        BY <3>2 DEF Whats
      <3> QED
        BY <3>3, <3>4, <3>5
    <2> QED
      BY <2>2, <2>3
  <1>2. \A limit \in 0 .. capacity + 1 : Limit(limit) \in Nat /\ Limit(limit) <= capacity
    BY <1>0 DEF Limit
  <1>3. \A limit \in 0 .. capacity + 1, readable \in BOOLEAN :
          Whats(GetRecent(limit, readable))
            = LastN(IF dbEnabled /\ readable THEN storedLog ELSE memoryLog, Limit(limit))
    BY <1>1, <1>2 DEF GetRecent
  <1> QED
    BY <1>0, <1>3 DEF LogInv, RecentIsTail

(* Any capacity, any limit, any number of entries, restarts and databases  *)
(* opened and closed: GetRecent returns the tail of what was logged, and an *)
(* ID is never handed out twice (audit.go:140-183, 211-275).               *)
THEOREM RecentIsTailTheorem == AuditLogSpec => []RecentIsTail
  BY LogInitInv, LogNextInv, LogInvSuffices, PTL DEF AuditLogSpec

----------------------------------------------------------------------------
(* Discovery                                                               *)

(* An agent is in the hands of at most one handler, from its report until  *)
(* it was dealt with.                                                      *)
MetInv ==
    /\ known \subseteq Announcers
    /\ entriesCh \in [Scans -> Seq(Announcers)]
    /\ handlerpc \in [Scans -> {"off", "taking", "listing", "loading", "connecting"}]
    /\ entry \in [Scans -> Announcers \cup {Nil}]
    /\ options \in [Scans -> {"saved", "anonymous"}]
    /\ reported \in [Announcers -> Nat]
    /\ met \in [Announcers -> {"none", "managed", "saved", "anonymous"}]
    /\ looppc = "querying" => query \in Scans
    /\ \A s \in Scans :
         /\ entry[s] = Nil <=> handlerpc[s] \in {"off", "taking"}
         /\ entry[s] # Nil => entry[s] \in known /\ met[entry[s]] = "none"
         /\ handlerpc[s] = "connecting" /\ options[s] = "anonymous" /\ entry[s] \in Restored => unloaded
    /\ \A s, t \in Scans : entry[s] = entry[t] /\ entry[s] # Nil => s = t
    /\ \A a \in Announcers :
         /\ reported[a] = IF a \in known THEN 1 ELSE 0
         /\ a \in known /\ met[a] = "none" => \E s \in Scans : entry[s] = a
         /\ met[a] # "none" => a \in known
         /\ met[a] = "anonymous" /\ a \in Restored => unloaded

LEMMA MetInitInv == DiscoveryInit => MetInv
  BY DEF DiscoveryInit, MetInv

LEMMA MetNextInv == MetInv /\ [DiscoveryNext]_discoveryVars => MetInv'
  <1> SUFFICES ASSUME MetInv, [DiscoveryNext]_discoveryVars PROVE MetInv'
    OBVIOUS
  <1>0. /\ known \subseteq Announcers
        /\ entriesCh \in [Scans -> Seq(Announcers)]
        /\ handlerpc \in [Scans -> {"off", "taking", "listing", "loading", "connecting"}]
        /\ entry \in [Scans -> Announcers \cup {Nil}]
        /\ options \in [Scans -> {"saved", "anonymous"}]
        /\ reported \in [Announcers -> Nat]
        /\ met \in [Announcers -> {"none", "managed", "saved", "anonymous"}]
        /\ Nil \notin Announcers
    BY DiscoveryAssumption DEF MetInv
  <1>1. ASSUME NEW s \in Scans, ScanBegins(s) \/ HandlerEnds(s)
        PROVE  MetInv'
    <2>1. /\ UNCHANGED <<known, entriesCh, entry, options, reported, met, unloaded>>
          /\ looppc' = "querying" => query' \in Scans
          /\ handlerpc[s] \in {"off", "taking"}
      BY <1>1 DEF ScanBegins, HandlerEnds, HandlerMoves, scanVars, MetInv
    <2>2. PICK to \in {"off", "taking"} : handlerpc' = [handlerpc EXCEPT ![s] = to]
      BY <1>1 DEF ScanBegins, HandlerEnds, HandlerMoves
    <2>3. handlerpc' \in [Scans -> {"off", "taking", "listing", "loading", "connecting"}]
      BY <1>0, <2>2
    <2>4. \A t \in Scans : \/ handlerpc'[t] = handlerpc[t]
                           \/ handlerpc[t] \in {"off", "taking"} /\ handlerpc'[t] \in {"off", "taking"}
      BY <1>0, <2>1, <2>2
    <2> QED
      BY <2>1, <2>3, <2>4 DEF MetInv
  <1>2. ASSUME NEW a \in Announcers, AgentAnnounces(a)
        PROVE  MetInv'
    <2>1. /\ UNCHANGED <<known, looppc, query, handlerpc, entry, options, reported, met, unloaded>>
          /\ query \in Scans
          /\ entriesCh' = [entriesCh EXCEPT ![query] = Append(entriesCh[query], a)]
      BY <1>2 DEF AgentAnnounces, scanVars, MetInv
    <2>2. entriesCh' \in [Scans -> Seq(Announcers)]
      BY <1>0, <2>1
    <2> QED
      BY <2>1, <2>2 DEF MetInv
  <1>3. ASSUME NEW s \in Scans, HandleEntry(s)
        PROVE  MetInv'
    <2>1. /\ UNCHANGED <<looppc, query, options, met, unloaded>>
          /\ handlerpc[s] = "taking" /\ entry[s] = Nil
          /\ entriesCh[s] # <<>> /\ entriesCh' = [entriesCh EXCEPT ![s] = Tail(entriesCh[s])]
      BY <1>3 DEF HandleEntry, HandlerMoves, scanVars, MetInv
    <2>2. PICK a \in Announcers : a = Head(entriesCh[s])
      BY <1>0, <2>1
    <2>3. entriesCh' \in [Scans -> Seq(Announcers)]
      BY <1>0, <2>1
    <2>4. CASE a \in known
      <3>1. UNCHANGED <<known, handlerpc, entry, reported>>
        BY <1>3, <2>2, <2>4 DEF HandleEntry
      <3> QED
        BY <2>1, <2>3, <3>1 DEF MetInv
    <2>5. CASE a \notin known
      <3>1. /\ handlerpc' = [handlerpc EXCEPT ![s] = "listing"]
            /\ known' = known \cup {a}
            /\ entry' = [entry EXCEPT ![s] = a]
            /\ reported' = [reported EXCEPT ![a] = @ + 1]
        BY <1>3, <2>2, <2>5 DEF HandleEntry, HandlerMoves
      <3>2. /\ handlerpc' \in [Scans -> {"off", "taking", "listing", "loading", "connecting"}]
            /\ handlerpc'[s] = "listing" /\ \A t \in Scans \ {s} : handlerpc'[t] = handlerpc[t]
        BY <1>0, <3>1
      <3>3. /\ entry' \in [Scans -> Announcers \cup {Nil}]
            /\ entry'[s] = a /\ \A t \in Scans \ {s} : entry'[t] = entry[t]
        BY <1>0, <3>1
      <3>4. /\ reported' \in [Announcers -> Nat]
            /\ reported'[a] = reported[a] + 1 /\ \A b \in Announcers \ {a} : reported'[b] = reported[b]
        BY <1>0, <3>1
      <3>5. known' \subseteq Announcers /\ a # Nil
        BY <1>0, <3>1
      <3>6. met[a] = "none" /\ reported[a] = 0 /\ \A t \in Scans : entry[t] # a
        BY <1>0, <2>5 DEF MetInv
      <3>7. \A t \in Scans :
              /\ entry'[t] = Nil <=> handlerpc'[t] \in {"off", "taking"}
              /\ entry'[t] # Nil => entry'[t] \in known' /\ met[entry'[t]] = "none"
              /\ handlerpc'[t] = "connecting" /\ options[t] = "anonymous" /\ entry'[t] \in Restored => unloaded
        BY <3>1, <3>2, <3>3, <3>5, <3>6 DEF MetInv
      <3>8. \A t, u \in Scans : entry'[t] = entry'[u] /\ entry'[t] # Nil => t = u
        <4>1. \A t, u \in Scans : entry[t] = entry[u] /\ entry[t] # Nil => t = u
          BY DEF MetInv
        <4> QED
          BY <3>3, <3>6, <4>1
      <3>9. \A b \in Announcers :
              /\ reported'[b] = IF b \in known' THEN 1 ELSE 0
              /\ met[b] # "none" => b \in known'
              /\ met[b] = "anonymous" /\ b \in Restored => unloaded
        BY <3>1, <3>4, <3>6 DEF MetInv
      <3>10. ASSUME NEW b \in Announcers, b \in known', met[b] = "none"
             PROVE  \E t \in Scans : entry'[t] = b
        <4>1. CASE b = a
          BY <3>3, <4>1
        <4>2. CASE b # a
          <5>1. PICK t \in Scans : entry[t] = b
            BY <3>1, <3>10, <4>2 DEF MetInv
          <5>2. t # s
            BY <1>0, <2>1, <5>1
          <5> QED
            BY <3>3, <5>1, <5>2
        <4> QED
          BY <4>1, <4>2
      <3> QED
        BY <1>0, <2>1, <2>3, <3>2, <3>3, <3>4, <3>5, <3>7, <3>8, <3>9, <3>10 DEF MetInv
    <2> QED
      BY <2>4, <2>5
  <1>4. ASSUME NEW s \in Scans, LoadsOptions(s) \/ (ListsAgents(s) /\ entry[s] \notin managed)
        PROVE  MetInv'
    <2>1. UNCHANGED <<known, looppc, query, entriesCh, entry, reported, met>>
      BY <1>4 DEF LoadsOptions, ListsAgents, scanVars
    <2>2. /\ handlerpc' \in [Scans -> {"off", "taking", "listing", "loading", "connecting"}]
          /\ \A t \in Scans \ {s} : handlerpc'[t] = handlerpc[t]
          /\ handlerpc[s] \notin {"off", "taking"} /\ handlerpc'[s] \notin {"off", "taking"}
      BY <1>0, <1>4 DEF LoadsOptions, ListsAgents, HandlerMoves
    <2>3. /\ options' \in [Scans -> {"saved", "anonymous"}]
          /\ \A t \in Scans \ {s} : options'[t] = options[t]
          /\ unloaded => unloaded'
          /\ handlerpc'[s] = "connecting" /\ options'[s] = "anonymous" /\ entry[s] \in Restored => unloaded'
      <3>1. CASE LoadsOptions(s)
        <4>1. PICK o \in {"saved", "anonymous"} :
                /\ options' = [options EXCEPT ![s] = o]
                /\ o = "anonymous" /\ entry[s] \in Restored => unloaded'
                /\ unloaded => unloaded'
          <5>1. CASE options' = [options EXCEPT ![s] = "anonymous"] /\ unloaded' = TRUE
            BY <5>1
          <5>2. CASE /\ options' = [options EXCEPT ![s] = IF entry[s] \in Restored THEN "saved" ELSE "anonymous"]
                     /\ UNCHANGED unloaded
            BY <5>2
          <5> QED
            BY <3>1, <5>1, <5>2 DEF LoadsOptions
        <4> QED
          BY <1>0, <4>1
      <3>2. CASE ListsAgents(s) /\ entry[s] \notin managed
        BY <1>0, <3>2 DEF ListsAgents, HandlerMoves
      <3> QED
        BY <1>4, <3>1, <3>2
    <2> QED
      BY <2>1, <2>2, <2>3 DEF MetInv
  <1>5. ASSUME NEW s \in Scans, AutoConnects(s) \/ (ListsAgents(s) /\ entry[s] \in managed)
        PROVE  MetInv'
    <2>1. /\ UNCHANGED <<known, looppc, query, entriesCh, reported, unloaded>>
          /\ handlerpc' = [handlerpc EXCEPT ![s] = "taking"]
          /\ entry' = [entry EXCEPT ![s] = Nil]
          /\ handlerpc[s] \in {"listing", "connecting"}
          /\ AutoConnects(s) => handlerpc[s] = "connecting"
      BY <1>5 DEF AutoConnects, ListsAgents, HandlerMoves, scanVars
    <2>2. PICK a \in Announcers : a = entry[s]
      BY <1>0, <2>1 DEF MetInv
    <2>3. /\ handlerpc' \in [Scans -> {"off", "taking", "listing", "loading", "connecting"}]
          /\ handlerpc'[s] = "taking" /\ \A t \in Scans \ {s} : handlerpc'[t] = handlerpc[t]
      BY <1>0, <2>1
    <2>4. /\ entry' \in [Scans -> Announcers \cup {Nil}]
          /\ entry'[s] = Nil /\ \A t \in Scans \ {s} : entry'[t] = entry[t]
      BY <1>0, <2>1
    <2>5. /\ options' \in [Scans -> {"saved", "anonymous"}]
          /\ \A t \in Scans \ {s} : options'[t] = options[t]
      BY <1>0, <1>5 DEF AutoConnects, ListsAgents
    <2>6. PICK outcome \in {"managed", "saved", "anonymous"} :
            /\ met' = [met EXCEPT ![a] = outcome]
            /\ outcome = "anonymous" => handlerpc[s] = "connecting" /\ options[s] = "anonymous"
      BY <1>0, <1>5, <2>1, <2>2 DEF AutoConnects, ListsAgents
    <2>7. /\ met' \in [Announcers -> {"none", "managed", "saved", "anonymous"}]
          /\ met'[a] = outcome /\ \A b \in Announcers \ {a} : met'[b] = met[b]
      BY <1>0, <2>6
    <2>8. a \in known /\ a # Nil /\ (outcome = "anonymous" /\ a \in Restored => unloaded)
      BY <1>0, <2>2, <2>6 DEF MetInv
    <2>9. \A t \in Scans \ {s} : entry[t] # a
      BY <1>0, <2>2 DEF MetInv
    <2>10. \A t \in Scans :
             /\ entry'[t] = Nil <=> handlerpc'[t] \in {"off", "taking"}
             /\ entry'[t] # Nil => entry'[t] \in known /\ met'[entry'[t]] = "none"
             /\ handlerpc'[t] = "connecting" /\ options'[t] = "anonymous" /\ entry'[t] \in Restored => unloaded
      <3> SUFFICES ASSUME NEW t \in Scans
                   PROVE  /\ entry'[t] = Nil <=> handlerpc'[t] \in {"off", "taking"}
                          /\ entry'[t] # Nil => entry'[t] \in known /\ met'[entry'[t]] = "none"
                          /\ handlerpc'[t] = "connecting" /\ options'[t] = "anonymous" /\ entry'[t] \in Restored => unloaded
        OBVIOUS
      <3>1. CASE t = s
        BY <2>3, <2>4, <3>1
      <3>2. CASE t # s
        <4>1. entry'[t] = entry[t] /\ handlerpc'[t] = handlerpc[t] /\ options'[t] = options[t] /\ entry[t] # a
          BY <2>3, <2>4, <2>5, <2>9, <3>2
        <4>2. entry[t] # Nil => met'[entry[t]] = met[entry[t]]
          BY <1>0, <2>7, <4>1
        <4> QED
          BY <4>1, <4>2 DEF MetInv
      <3> QED
        BY <3>1, <3>2
    <2>11. \A t, u \in Scans : entry'[t] = entry'[u] /\ entry'[t] # Nil => t = u
      <3>1. \A t, u \in Scans : entry[t] = entry[u] /\ entry[t] # Nil => t = u
        BY DEF MetInv
      <3> QED
        BY <2>4, <3>1
    <2>12. ASSUME NEW b \in Announcers
           PROVE  /\ reported'[b] = IF b \in known THEN 1 ELSE 0
                  /\ b \in known /\ met'[b] = "none" => \E t \in Scans : entry'[t] = b
                  /\ met'[b] # "none" => b \in known
                  /\ met'[b] = "anonymous" /\ b \in Restored => unloaded
      <3>1. CASE b = a
        BY <2>1, <2>6, <2>7, <2>8, <3>1 DEF MetInv
      <3>2. CASE b # a
        <4>1. met'[b] = met[b]
          BY <2>7, <3>2
        <4>2. b \in known /\ met[b] = "none" => \E t \in Scans : entry'[t] = b
          BY <2>2, <2>4, <3>2 DEF MetInv
        <4> QED
          BY <2>1, <4>1, <4>2 DEF MetInv
      <3> QED
        BY <3>1, <3>2
    <2> QED
      BY <1>0, <2>1, <2>3, <2>4, <2>5, <2>7, <2>10, <2>11, <2>12 DEF MetInv
  <1>6. CASE \/ QueryEnds \/ TickerFires \/ LoopEnds \/ RestoreLoads \/ DiscoveryStops \/ ManagerCloses
             \/ \E a \in Announcers : RestoreConnects(a)
    BY <1>6 DEF QueryEnds, TickerFires, LoopEnds, RestoreLoads, RestoreConnects, DiscoveryStops,
                ManagerCloses, handlerVars, scanVars, MetInv
  <1>7. CASE UNCHANGED discoveryVars
    BY <1>7 DEF discoveryVars, MetInv
  <1> QED
    BY <1>1, <1>2, <1>3, <1>4, <1>5, <1>6, <1>7 DEF DiscoveryNext, Handling

LEMMA MetInvSuffices == MetInv => MetOnce
  <1> SUFFICES ASSUME MetInv, NEW a \in Announcers
               PROVE  LET handled == {s \in Scans : entry[s] = a}
                      IN  /\ reported[a] = IF a \in known THEN 1 ELSE 0
                          /\ \A s, t \in handled : s = t
                          /\ a \in known <=> (handled # {} \/ met[a] # "none")
                          /\ handled # {} => met[a] = "none"
                          /\ met[a] = "anonymous" /\ a \in Restored => unloaded
    BY DEF MetOnce
  <1>1. /\ reported[a] = IF a \in known THEN 1 ELSE 0
        /\ met[a] = "anonymous" /\ a \in Restored => unloaded
        /\ a \in known /\ met[a] = "none" => \E s \in Scans : entry[s] = a
        /\ met[a] # "none" => a \in known
    BY DEF MetInv
  <1>2. \A s \in Scans : entry[s] = a => a \in known /\ met[a] = "none"
    BY DiscoveryAssumption DEF MetInv
  <1>3. \A s, t \in Scans : entry[s] = a /\ entry[t] = a => s = t
    BY DiscoveryAssumption DEF MetInv
  <1> QED
    BY <1>1, <1>2, <1>3

(* Any number of agents and of overlapping scans: an agent that announces  *)
(* itself is reported once and handed to one handler                       *)
(* (discover.go:127-148, app.go:200-254).                                  *)
THEOREM MetOnceTheorem == DiscoverySpec => []MetOnce
  BY MetInitInv, MetNextInv, MetInvSuffices, PTL DEF DiscoverySpec

----------------------------------------------------------------------------
(* DirListing                                                              *)

(* How many names of a set come before x.                                  *)
Rank(S, x) == Cardinality({y \in S : y < x})

LEMMA RankType ==
  ASSUME NEW S \in SUBSET Nat, IsFiniteSet(S), NEW x \in Nat
  PROVE  /\ Rank(S, x) \in Nat /\ Cardinality(S) \in Nat
         /\ x \in S => Rank(S, x) < Cardinality(S)
  <1> DEFINE B == {y \in S : y < x}
  <1>1. IsFiniteSet(B) /\ Cardinality(B) <= Cardinality(S) /\ (Cardinality(S) = Cardinality(B) => S = B)
    BY FS_Subset
  <1>2. Cardinality(B) \in Nat /\ Cardinality(S) \in Nat
    BY <1>1, FS_CardinalityType
  <1>3. x \in S => S # B
    OBVIOUS
  <1> QED
    BY <1>1, <1>2, <1>3 DEF Rank

(* Of two names the smaller one has the smaller rank.                      *)
LEMMA RankOrder ==
  ASSUME NEW S \in SUBSET Nat, IsFiniteSet(S), NEW x \in S, NEW y \in S
  PROVE  /\ x < y <=> Rank(S, x) < Rank(S, y)
         /\ x = y <=> Rank(S, x) = Rank(S, y)
  <1>1. ASSUME NEW a \in S, NEW b \in S, a < b
        PROVE  Rank(S, a) < Rank(S, b)
    <2> DEFINE A == {z \in S : z < a}
               B == {z \in S : z < b}
    <2>1. IsFiniteSet(B)
      <3>1. B \in SUBSET S
        OBVIOUS
      <3> QED
        BY <3>1, FS_Subset
    <2>2. A \in SUBSET B /\ a \in B /\ a \notin A
      <3>1. a \in Nat /\ b \in Nat /\ ~(a < a) /\ \A z \in S : z \in Nat /\ (z < a => z < b)
        BY <1>1
      <3> QED
        BY <1>1, <3>1
    <2>3. Cardinality(A) <= Cardinality(B) /\ (Cardinality(B) = Cardinality(A) => B = A)
      BY <2>1, <2>2, FS_Subset
    <2>4. Rank(S, a) \in Nat /\ Rank(S, b) \in Nat
      BY RankType
    <2> QED
      BY <2>2, <2>3, <2>4 DEF Rank
  <1>2. Rank(S, x) \in Nat /\ Rank(S, y) \in Nat /\ x \in Nat /\ y \in Nat
    BY RankType
  <1>3. x < y => Rank(S, x) < Rank(S, y)
    BY <1>1
  <1>4. y < x => Rank(S, y) < Rank(S, x)
    BY <1>1
  <1> QED
    BY <1>2, <1>3, <1>4

(* A larger set has more names before x.                                   *)
LEMMA RankGrows ==
  ASSUME NEW T \in SUBSET Nat, IsFiniteSet(T), NEW S \in SUBSET T, NEW x \in Nat
  PROVE  Rank(S, x) <= Rank(T, x)
  <1> DEFINE A == {z \in S : z < x}
             B == {z \in T : z < x}
  <1>1. IsFiniteSet(B) /\ A \in SUBSET B
    BY FS_Subset
  <1> QED
    BY <1>1, FS_Subset DEF Rank

(* Every rank below the size of the set is the rank of one of its names:   *)
(* ranks differ, and there are as many as names.                           *)
LEMMA RankOnto ==
  ASSUME NEW S \in SUBSET Nat, IsFiniteSet(S), NEW k \in Nat, k < Cardinality(S)
  PROVE  \E x \in S : Rank(S, x) = k
  <1> DEFINE T == 0 .. (Cardinality(S) - 1)
             f == [x \in S |-> Rank(S, x)]
  <1>1. Cardinality(S) \in Nat
    BY FS_CardinalityType
  <1>2. \A x \in S : Rank(S, x) \in T
    BY <1>1, RankType
  <1>3. f \in [S -> T]
    BY <1>2
  <1>4. \A x, y \in S : f[x] = f[y] => x = y
    BY RankOrder
  <1>5. f \in Injection(S, T)
    BY <1>3, <1>4 DEF Injection, IsInjective
  <1>6. 0 \in Int /\ Cardinality(S) - 1 \in Int
    BY <1>1
  <1>7. IsFiniteSet(T) /\ Cardinality(T) = IF 0 > Cardinality(S) - 1 THEN 0 ELSE Cardinality(S) - 1 - 0 + 1
    BY <1>6, FS_Interval
  <1>8. Cardinality(T) = Cardinality(S)
    BY <1>1, <1>7
  <1> HIDE DEF f
  <1>9. f \in Surjection(S, T)
    BY <1>5, <1>7, <1>8, FS_Injection
  <1>10. k \in T
    BY <1>1
  <1>11. \E x \in S : f[x] = k
    BY <1>9, <1>10 DEF Surjection
  <1> QED
    BY <1>11 DEF f

(* os.ReadDir returns every name once, each behind those before it.        *)
LEMMA SortedNames ==
  ASSUME NEW S \in SUBSET Nat, IsFiniteSet(S)
  PROVE  /\ Cardinality(S) \in Nat
         /\ Sorted(S) \in Seq(Nat) /\ Len(Sorted(S)) = Cardinality(S)
         /\ \A i \in 1 .. Cardinality(S) : Sorted(S)[i] \in S /\ Rank(S, Sorted(S)[i]) = i - 1
  <1> DEFINE n == Cardinality(S)
             pick(i) == CHOOSE x \in S : Cardinality({y \in S : y < x}) = i - 1
  <1>1. n \in Nat
    BY FS_CardinalityType
  <1>2. ASSUME NEW i \in 1 .. n
        PROVE  pick(i) \in S /\ Rank(S, pick(i)) = i - 1
    <2>1. i - 1 \in Nat /\ i - 1 < Cardinality(S)
      BY <1>1
    <2>2. \E x \in S : Rank(S, x) = i - 1
      BY <2>1, RankOnto
    <2> QED
      BY <2>2 DEF Rank
  <1>3. Sorted(S) = [i \in 1 .. n |-> pick(i)]
    BY DEF Sorted
  <1> HIDE DEF pick, n
  <1>4. Sorted(S) \in Seq(Nat) /\ Len(Sorted(S)) = n
    <2>1. \A i \in 1 .. n : pick(i) \in Nat
      BY <1>2
    <2> QED
      BY <1>1, <1>3, <2>1
  <1> QED
    BY <1>1, <1>2, <1>3, <1>4 DEF n

----------------------------------------------------------------------------
(* What a listing that has got the names got, up to rank upto of the       *)
(* directory d, is worth: keep are the names there all along, gr and sh    *)
(* that files were added, removed since the start.                         *)
Whole(d, keep, got, upto) ==
  /\ Len(got) = upto /\ upto <= Cardinality(d)
  /\ \A x \in keep : Rank(d, x) < upto => \E i \in 1 .. Len(got) : got[i] = x

Ascending(d, got, upto) ==
  /\ \A i, j \in 1 .. Len(got) : i < j => got[i] < got[j]
  /\ \A i \in 1 .. Len(got), x \in d : Rank(d, x) >= upto => got[i] < x

Exact(d, got) ==
  \A i \in 1 .. Len(got) : got[i] \in d /\ Rank(d, got[i]) = i - 1

Covers(d, keep, gr, sh, got, upto) ==
  /\ ~sh => Whole(d, keep, got, upto)
  /\ ~gr => Ascending(d, got, upto)
  /\ ~gr /\ ~sh => Exact(d, got)

(* A file that appears pushes names back, never to a page already read.    *)
LEMMA CoversAdd ==
  ASSUME NEW d \in SUBSET Nat, IsFiniteSet(d), NEW keep \in SUBSET d, NEW got \in Seq(Nat),
         NEW upto \in Nat, NEW gr, NEW sh, NEW n \in Nat, Covers(d, keep, gr, sh, got, upto)
  PROVE  Covers(d \cup {n}, keep, TRUE, sh, got, upto)
  <1> DEFINE e == d \cup {n}
  <1>1. IsFiniteSet(e) /\ e \in SUBSET Nat /\ d \in SUBSET e
    BY FS_AddElement
  <1>2. Cardinality(d) <= Cardinality(e) /\ Cardinality(d) \in Nat /\ Cardinality(e) \in Nat
    BY <1>1, FS_Subset, FS_CardinalityType
  <1> HIDE DEF e
  <1>3. \A x \in keep : Rank(d, x) \in Nat /\ Rank(e, x) \in Nat /\ Rank(d, x) <= Rank(e, x)
    <2> TAKE x \in keep
    <2>1. x \in Nat
      OBVIOUS
    <2> QED
      BY <1>1, <2>1, RankGrows, RankType
  <1>4. Whole(d, keep, got, upto) => Whole(e, keep, got, upto)
    BY <1>2, <1>3 DEF Whole
  <1> QED
    BY <1>4, Zenon DEF Covers, e

(* A file that disappears moves names forward, never behind the next page. *)
LEMMA CoversRemove ==
  ASSUME NEW d \in SUBSET Nat, IsFiniteSet(d), NEW keep \in SUBSET d, NEW got \in Seq(Nat),
         NEW upto \in Nat, NEW gr, NEW sh, NEW n, Covers(d, keep, gr, sh, got, upto)
  PROVE  Covers(d \ {n}, keep \ {n}, gr, TRUE, got, upto)
  <1> DEFINE e == d \ {n}
  <1>1. e \in SUBSET Nat /\ e \in SUBSET d
    OBVIOUS
  <1>2. IsFiniteSet(e)
    BY <1>1, FS_Subset
  <1> HIDE DEF e
  <1>3. \A x \in e : x \in d /\ Rank(d, x) \in Nat /\ Rank(e, x) \in Nat /\ Rank(e, x) <= Rank(d, x)
    <2> TAKE x \in e
    <2>1. x \in Nat
      BY <1>1
    <2> QED
      BY <1>1, <1>2, <2>1, RankGrows, RankType
  <1>4. Ascending(d, got, upto) => Ascending(e, got, upto)
    <2> SUFFICES ASSUME Ascending(d, got, upto), NEW i \in 1 .. Len(got), NEW x \in e, Rank(e, x) >= upto
                 PROVE  got[i] < x
      BY DEF Ascending
    <2>1. x \in d /\ Rank(d, x) >= upto
      BY <1>3
    <2> QED
      BY <2>1 DEF Ascending
  <1> QED
    BY <1>4, Zenon DEF Covers, e

(* Once files were removed, a name may be missing from what was read.      *)
LEMMA CoversDrop ==
  ASSUME NEW d \in SUBSET Nat, NEW keep, NEW got \in Seq(Nat), NEW less \in Seq(Nat), NEW upto \in Nat,
         NEW gr, NEW sh, sh, Covers(d, keep, gr, sh, got, upto), NEW k \in 1 .. Len(got),
         Len(less) = Len(got) - 1,
         \A i \in 1 .. Len(less) : less[i] = IF i < k THEN got[i] ELSE got[i + 1]
  PROVE  Covers(d, keep, gr, sh, less, upto)
  <1> DEFINE from(i) == IF i < k THEN i ELSE i + 1
  <1>1. Len(got) \in Nat /\ Len(less) \in Nat /\ k \in Nat
    OBVIOUS
  <1>2. \A i \in 1 .. Len(less) : from(i) \in 1 .. Len(got)
    BY <1>1
  <1>3. \A i \in 1 .. Len(less) : less[i] = got[from(i)]
    <2> TAKE i \in 1 .. Len(less)
    <2>1. CASE i < k
      BY <2>1
    <2>2. CASE ~(i < k)
      BY <2>2
    <2> QED
      BY <2>1, <2>2
  <1>4. \A i, j \in 1 .. Len(less) : i < j => from(i) < from(j)
    <2> SUFFICES ASSUME NEW i \in 1 .. Len(less), NEW j \in 1 .. Len(less), i < j
                 PROVE  from(i) < from(j)
      OBVIOUS
    <2>1. CASE i < k
      BY <1>1, <2>1
    <2>2. CASE ~(i < k)
      BY <1>1, <2>2
    <2> QED
      BY <2>1, <2>2
  <1> HIDE DEF from
  <1>5. Ascending(d, got, upto) => Ascending(d, less, upto)
    BY <1>2, <1>3, <1>4 DEF Ascending
  <1> QED
    BY <1>5, Zenon DEF Covers

(* The positions of two lists of names put together.                       *)
LEMMA JoinedNames ==
  ASSUME NEW s \in Seq(Nat), NEW t \in Seq(Nat)
  PROVE  /\ Len(s) \in Nat /\ Len(t) \in Nat
         /\ s \o t \in Seq(Nat) /\ Len(s \o t) = Len(s) + Len(t)
         /\ \A i \in 1 .. Len(s) : i \in 1 .. Len(s \o t) /\ (s \o t)[i] = s[i]
         /\ \A j \in 1 .. Len(t) : Len(s) + j \in 1 .. Len(s \o t) /\ (s \o t)[Len(s) + j] = t[j]
         /\ \A i \in 1 .. Len(s \o t) :
              \/ i \in 1 .. Len(s) /\ (s \o t)[i] = s[i]
              \/ /\ i - Len(s) \in 1 .. Len(t) /\ i \notin 1 .. Len(s)
                 /\ i = Len(s) + (i - Len(s)) /\ (s \o t)[i] = t[i - Len(s)]
  <1>1. Len(s) \in Nat /\ Len(t) \in Nat /\ s \o t \in Seq(Nat) /\ Len(s \o t) = Len(s) + Len(t)
    OBVIOUS
  <1>2. \A i \in 1 .. Len(s) : i \in 1 .. Len(s \o t) /\ (s \o t)[i] = s[i]
    BY <1>1
  <1>3. ASSUME NEW j \in 1 .. Len(t)
        PROVE  Len(s) + j \in 1 .. Len(s \o t) /\ (s \o t)[Len(s) + j] = t[j]
    <2>1. Len(s) + j \in 1 .. Len(s \o t) /\ ~(Len(s) + j <= Len(s)) /\ Len(s) + j - Len(s) = j
      BY <1>1
    <2> QED
      BY <1>1, <2>1
  <1>4. ASSUME NEW i \in 1 .. Len(s \o t)
        PROVE  \/ i \in 1 .. Len(s) /\ (s \o t)[i] = s[i]
               \/ /\ i - Len(s) \in 1 .. Len(t) /\ i \notin 1 .. Len(s)
                  /\ i = Len(s) + (i - Len(s)) /\ (s \o t)[i] = t[i - Len(s)]
    <2>1. CASE i <= Len(s)
      BY <1>1, <2>1
    <2>2. CASE ~(i <= Len(s))
      BY <1>1, <2>2
    <2> QED
      BY <2>1, <2>2
  <1> QED
    BY <1>1, <1>2, <1>3, <1>4

(* The page read from where the last one ended.                            *)
LEMMA CoversRead ==
  ASSUME NEW d \in SUBSET Nat, IsFiniteSet(d), NEW keep \in SUBSET d, NEW got \in Seq(Nat),
         NEW upto \in Nat, NEW gr, NEW sh, NEW pagesize \in Nat, Covers(d, keep, gr, sh, got, upto)
  PROVE  LET until == Smaller(upto + pagesize, Cardinality(d))
             next == Smaller(Smaller(upto, Cardinality(d)) + pagesize, Cardinality(d))
         IN  /\ SubSeq(Sorted(d), upto + 1, until) \in Seq(Nat)
             /\ \A j \in 1 .. Len(SubSeq(Sorted(d), upto + 1, until)) : SubSeq(Sorted(d), upto + 1, until)[j] \in d
             /\ Covers(d, keep, gr, sh, got \o SubSeq(Sorted(d), upto + 1, until), next)
  <1> DEFINE n == Cardinality(d)
             until == Smaller(upto + pagesize, n)
             next == Smaller(Smaller(upto, n) + pagesize, n)
             read == SubSeq(Sorted(d), upto + 1, until)
             all == got \o read
  <1>1. /\ n \in Nat /\ Sorted(d) \in Seq(Nat) /\ Len(Sorted(d)) = n
        /\ \A i \in 1 .. n : Sorted(d)[i] \in d /\ Rank(d, Sorted(d)[i]) = i - 1
    BY SortedNames
  <1>2. until \in Nat /\ next \in Nat /\ until <= n /\ next <= n
    BY <1>1 DEF Smaller
  <1>3. /\ upto <= n => next = until /\ upto <= until
        /\ upto > n => next = n /\ until = n
    BY <1>1 DEF Smaller
  <1> HIDE DEF n, until, next
  <1>4. /\ read \in Seq(Nat)
        /\ Len(read) = IF upto <= until THEN until - upto ELSE 0
        /\ \A j \in 1 .. Len(read) : upto + j \in 1 .. n /\ read[j] = Sorted(d)[upto + j]
    BY <1>1, <1>2
  <1>5. \A j \in 1 .. Len(read) : /\ read[j] \in d /\ Rank(d, read[j]) = upto + j - 1
                                 /\ upto + j - 1 < next /\ j \in Nat /\ upto <= n
    BY <1>1, <1>2, <1>3, <1>4
  <1> HIDE DEF read
  <1>6. /\ Len(got) \in Nat /\ Len(read) \in Nat
        /\ all \in Seq(Nat) /\ Len(all) = Len(got) + Len(read)
        /\ \A i \in 1 .. Len(got) : i \in 1 .. Len(all) /\ all[i] = got[i]
        /\ \A j \in 1 .. Len(read) : Len(got) + j \in 1 .. Len(all) /\ all[Len(got) + j] = read[j]
        /\ \A i \in 1 .. Len(all) :
             \/ i \in 1 .. Len(got) /\ all[i] = got[i]
             \/ /\ i - Len(got) \in 1 .. Len(read) /\ i \notin 1 .. Len(got)
                /\ i = Len(got) + (i - Len(got)) /\ all[i] = read[i - Len(got)]
    BY <1>4, JoinedNames
  <1> HIDE DEF all
  <1>7. ASSUME ~sh
        PROVE  Whole(d, keep, all, next)
    <2>1. Len(got) = upto /\ upto <= n
      BY <1>7 DEF Covers, Whole, n
    <2>2. Len(all) = next /\ next <= n
      BY <1>2, <1>3, <1>4, <1>6, <2>1
    <2>3. ASSUME NEW x \in keep, Rank(d, x) < next
          PROVE  \E i \in 1 .. Len(all) : all[i] = x
      <3>1. Rank(d, x) \in Nat
        BY RankType
      <3>2. CASE Rank(d, x) < upto
        BY <1>6, <1>7, <3>2 DEF Covers, Whole
      <3>3. CASE Rank(d, x) >= upto
        <4>1. Rank(d, x) - upto + 1 \in 1 .. Len(read)
          BY <1>2, <1>3, <1>4, <2>1, <2>3, <3>1, <3>3
        <4>2. PICK j \in 1 .. Len(read) : j = Rank(d, x) - upto + 1
          BY <4>1
        <4>3. read[j] \in d /\ Rank(d, read[j]) = Rank(d, x)
          BY <1>5, <3>1, <4>2
        <4>4. read[j] = x
          BY <4>3, RankOrder
        <4> QED
          BY <1>6, <4>4
      <3> QED
        BY <3>1, <3>2, <3>3
    <2> QED
      BY <2>2, <2>3 DEF Whole, n
  <1>8. ASSUME ~gr
        PROVE  Ascending(d, all, next)
    <2>1. /\ \A i, j \in 1 .. Len(got) : i < j => got[i] < got[j]
          /\ \A i \in 1 .. Len(got), x \in d : Rank(d, x) >= upto => got[i] < x
      BY <1>8 DEF Covers, Ascending
    <2>2. \A i \in 1 .. Len(got), j \in 1 .. Len(read) : got[i] < read[j]
      <3> SUFFICES ASSUME NEW i \in 1 .. Len(got), NEW j \in 1 .. Len(read)
                   PROVE  got[i] < read[j]
        OBVIOUS
      <3>1. read[j] \in d /\ Rank(d, read[j]) >= upto
        BY <1>5
      <3> QED
        BY <2>1, <3>1
    <2>3. \A i, j \in 1 .. Len(read) : i < j => read[i] < read[j]
      <3> SUFFICES ASSUME NEW i \in 1 .. Len(read), NEW j \in 1 .. Len(read), i < j
                   PROVE  read[i] < read[j]
        OBVIOUS
      <3>1. read[i] \in d /\ read[j] \in d /\ Rank(d, read[i]) < Rank(d, read[j])
        BY <1>5
      <3> QED
        BY <3>1, RankOrder
    <2>4. \A i, j \in 1 .. Len(all) : i < j => all[i] < all[j]
      <3> SUFFICES ASSUME NEW i \in 1 .. Len(all), NEW j \in 1 .. Len(all), i < j
                   PROVE  all[i] < all[j]
        OBVIOUS
      <3>1. CASE j \in 1 .. Len(got)
        <4>1. i \in 1 .. Len(got)
          BY <1>6, <3>1
        <4> QED
          BY <1>6, <2>1, <3>1, <4>1
      <3>2. CASE i \in 1 .. Len(got) /\ j - Len(got) \in 1 .. Len(read)
        <4>1. all[i] = got[i] /\ all[j] = read[j - Len(got)]
          BY <1>6, <3>2
        <4> QED
          BY <2>2, <3>2, <4>1
      <3>3. CASE i - Len(got) \in 1 .. Len(read) /\ j - Len(got) \in 1 .. Len(read)
        <4>1. i - Len(got) < j - Len(got)
          BY <1>6
        <4>2. read[i - Len(got)] < read[j - Len(got)]
          BY <2>3, <3>3, <4>1
        <4>3. i \notin 1 .. Len(got) /\ j \notin 1 .. Len(got)
          BY <1>6, <3>3
        <4> QED
          BY <1>6, <4>2, <4>3
      <3> QED
        BY <1>6, <3>1, <3>2, <3>3
    <2>5. ASSUME NEW i \in 1 .. Len(all), NEW x \in d, Rank(d, x) >= next
          PROVE  all[i] < x
      <3>1. Rank(d, x) \in Nat /\ Rank(d, x) < n
        BY RankType DEF n
      <3>2. CASE i \in 1 .. Len(got)
        <4>1. Rank(d, x) >= upto
          <5>1. CASE upto <= n
            BY <1>2, <1>3, <2>5, <3>1, <5>1
          <5>2. CASE upto > n
            BY <1>2, <1>3, <2>5, <3>1, <5>2
          <5> QED
            BY <1>1, <5>1, <5>2
        <4> QED
          BY <1>6, <2>1, <3>2, <4>1
      <3>3. CASE i \notin 1 .. Len(got)
        <4>1. PICK j \in 1 .. Len(read) : all[i] = read[j]
          BY <1>6, <3>3
        <4>2. read[j] \in d /\ Rank(d, read[j]) < Rank(d, x)
          BY <1>2, <1>5, <2>5, <3>1
        <4> QED
          BY <4>1, <4>2, RankOrder
      <3> QED
        BY <1>6, <3>2, <3>3
    <2> QED
      BY <2>4, <2>5 DEF Ascending
  <1>9. ASSUME ~gr, ~sh
        PROVE  Exact(d, all)
    <2> SUFFICES ASSUME NEW i \in 1 .. Len(all)
                 PROVE  all[i] \in d /\ Rank(d, all[i]) = i - 1
      BY DEF Exact
    <2>1. Len(got) = upto /\ \A k \in 1 .. Len(got) : got[k] \in d /\ Rank(d, got[k]) = k - 1
      BY <1>9 DEF Covers, Whole, Exact
    <2>2. CASE i \in 1 .. Len(got)
      BY <1>6, <2>1, <2>2
    <2>3. CASE i - Len(got) \in 1 .. Len(read)
      <3>1. PICK j \in 1 .. Len(read) : j = i - Len(got)
        BY <2>3
      <3>2. all[i] = read[j] /\ i = Len(got) + j
        BY <1>6, <2>3, <3>1
      <3> QED
        BY <1>5, <1>6, <2>1, <3>2
    <2> QED
      BY <1>6, <2>2, <2>3
  <1>10. Covers(d, keep, gr, sh, all, next)
    BY <1>7, <1>8, <1>9, Zenon DEF Covers
  <1> QED
    BY <1>4, <1>5, <1>10 DEF all, read, until, next, n

----------------------------------------------------------------------------

(* Enough requests list more than the limit.                               *)
LEMMA RequestsSuffice ==
  ASSUME NEW r \in Nat
  PROVE  /\ r * listDirPageSize \in Nat
         /\ (r + 1) * listDirPageSize = r * listDirPageSize + listDirPageSize
         /\ r >= maxListDirRequest => r * listDirPageSize > maxListedEntries
  <1> DEFINE p == listDirPageSize
             q == maxListedEntries \div p
  <1>1. p \in Nat /\ p > 0 /\ maxListedEntries \in Nat
    BY ListAssumption
  <1> HIDE DEF p
  <1>2. q \in Nat /\ maxListedEntries = p * q + (maxListedEntries % p) /\ maxListedEntries % p < p
        /\ maxListedEntries % p \in Nat
    BY <1>1
  <1> HIDE DEF q
  <1>3. r * p \in Nat /\ (r + 1) * p = r * p + p
    BY <1>1
  <1>4. ASSUME r >= q + 2
        PROVE  r * p > maxListedEntries
    <2>1. r * p >= (q + 2) * p
      BY <1>1, <1>2, <1>4
    <2>2. (q + 2) * p = p * q + 2 * p
      BY <1>1, <1>2
    <2>3. p * q \in Nat
      BY <1>1, <1>2
    <2> QED
      BY <1>1, <1>2, <1>3, <2>1, <2>2, <2>3
  <1> QED
    BY <1>3, <1>4 DEF maxListDirRequest, p, q

(* What the listing has so far, the page being looked up included.         *)
Shown == merged \o found \o page

ListTypeOK ==
  /\ dir \in SUBSET (1 .. MaxName) /\ stayed \in SUBSET dir
  /\ request \in Nat /\ listOffset \in Nat /\ pageTotal \in Nat /\ pageNext \in Nat /\ mergedTotal \in Nat
  /\ page \in Seq(Nat) /\ found \in Seq(Nat) /\ merged \in Seq(Nat)

(* Of the last page read: it is the last of all just if the directory had  *)
(* no more names then, and it then showed what had stayed.                 *)
PageInv ==
  /\ hasMore => pageNext = listOffset + listDirPageSize
  /\ hasMore <=> pageNext < pageTotal
  /\ pageNext <= pageTotal
  /\ ~shrank => \A i \in 1 .. Len(page) : page[i] \in dir
  /\ ~hasMore /\ ~shrank => \A x \in stayed : \E i \in 1 .. Len(Shown) : Shown[i] = x
  /\ ~grew /\ ~shrank => pageTotal = Cardinality(dir)

ListInv ==
  /\ ListTypeOK
  /\ listpc = "asking" => Covers(dir, stayed, grew, shrank, merged, listOffset)
  /\ listpc \in {"asking", "looking", "answered"} /\ ~shrank => listOffset = request * listDirPageSize
  /\ listpc \in {"looking", "answered"} => Covers(dir, stayed, grew, shrank, Shown, pageNext) /\ PageInv
  /\ listpc = "answered" => page = <<>>
  /\ ListingFaithful

LEMMA DirFinite ==
  ASSUME ListTypeOK
  PROVE  dir \in SUBSET Nat /\ IsFiniteSet(dir) /\ Cardinality(dir) \in Nat
  <1>1. 1 \in Int /\ MaxName \in Int
    BY ListAssumption
  <1>2. IsFiniteSet(1 .. MaxName)
    BY <1>1, FS_Interval
  <1>3. dir \in SUBSET (1 .. MaxName)
    BY DEF ListTypeOK
  <1>4. IsFiniteSet(dir) /\ Cardinality(dir) \in Nat
    BY <1>2, <1>3, FS_Subset, FS_CardinalityType
  <1> QED
    BY <1>3, <1>4

LEMMA ListInitInv == ListInit => ListInv
  <1> SUFFICES ASSUME ListInit
               PROVE  ListInv
    OBVIOUS
  <1>1. ListTypeOK
    BY DEF ListInit, ListTypeOK
  <1>2. \A x \in dir : Rank(dir, x) \in Nat
    BY <1>1, DirFinite, RankType
  <1>3. Covers(dir, stayed, grew, shrank, merged, listOffset)
    BY <1>1, <1>2, DirFinite DEF ListInit, Covers, Whole, Ascending, Exact
  <1>4. request * listDirPageSize = listOffset
    BY ListAssumption DEF ListInit
  <1> QED
    BY <1>1, <1>3, <1>4 DEF ListInit, ListInv, ListingFaithful

LEMMA SameNames ==
  ASSUME NEW u \in Seq(Nat), NEW v \in Seq(Nat), Len(u) = Len(v), \A i \in 1 .. Len(u) : u[i] = v[i]
  PROVE  u = v
  OBVIOUS

LEMMA FirstNames ==
  ASSUME NEW s \in Seq(Nat), NEW k \in Nat, k <= Len(s)
  PROVE  /\ SubSeq(s, 1, k) \in Seq(Nat) /\ Len(SubSeq(s, 1, k)) = k
         /\ \A i \in 1 .. k : SubSeq(s, 1, k)[i] = s[i]
  OBVIOUS

LEMMA JoinedTwice ==
  ASSUME NEW m \in Seq(Nat), NEW h \in Seq(Nat), NEW t \in Seq(Nat)
  PROVE  m \o h \o t = m \o (h \o t)
  <1> DEFINE u == m \o h \o t
             v == m \o (h \o t)
  <1>1. /\ Len(u) = Len(m) + Len(h) + Len(t) /\ Len(v) = Len(m) + Len(h) + Len(t)
        /\ u \in Seq(Nat) /\ v \in Seq(Nat)
    OBVIOUS
  <1>2. \A i \in 1 .. Len(u) : u[i] = v[i]
    OBVIOUS
  <1> QED
    BY <1>1, <1>2, SameNames

(* Looking up an entry that is still there moves it to the page's entries; *)
(* one that is gone leaves its place.                                      *)
LEMMA LookedUp ==
  ASSUME NEW m \in Seq(Nat), NEW f \in Seq(Nat), NEW p \in Seq(Nat), p # <<>>
  PROVE  /\ Head(p) = p[1] /\ 1 \in 1 .. Len(p) /\ Head(p) \in Nat /\ Tail(p) \in Seq(Nat)
         /\ \A i \in 1 .. Len(Tail(p)) : i + 1 \in 1 .. Len(p) /\ Tail(p)[i] = p[i + 1]
         /\ m \o Append(f, Head(p)) \o Tail(p) = m \o f \o p
         /\ Len(m \o f \o Tail(p)) = Len(m \o f \o p) - 1
         /\ \E k \in 1 .. Len(m \o f \o p) : \A i \in 1 .. Len(m \o f \o Tail(p)) :
              (m \o f \o Tail(p))[i] = IF i < k THEN (m \o f \o p)[i] ELSE (m \o f \o p)[i + 1]
  <1> DEFINE t == Tail(p)
             g == m \o f
             a == g \o p
             b == g \o t
             k == Len(g) + 1
  <1>1. /\ Head(p) = p[1] /\ 1 \in 1 .. Len(p) /\ Head(p) \in Nat /\ t \in Seq(Nat)
        /\ Len(t) = Len(p) - 1 /\ \A i \in 1 .. Len(t) : i + 1 \in 1 .. Len(p) /\ t[i] = p[i + 1]
    OBVIOUS
  <1>2. m \o Append(f, Head(p)) \o t = a
    <2> DEFINE h == Append(f, Head(p))
    <2>1. h \in Seq(Nat) /\ Len(h) = Len(f) + 1
      BY <1>1
    <2>2. h \o t = f \o p
      <3>1. h \o t \in Seq(Nat) /\ f \o p \in Seq(Nat) /\ Len(h \o t) = Len(f \o p)
        BY <1>1, <2>1
      <3>2. \A i \in 1 .. Len(h \o t) : (h \o t)[i] = (f \o p)[i]
        BY <1>1, <2>1
      <3> QED
        BY <3>1, <3>2, SameNames
    <2> HIDE DEF h, t
    <2>3. m \o h \o t = m \o (h \o t)
      BY <1>1, <2>1, JoinedTwice
    <2>4. m \o f \o p = m \o (f \o p)
      BY JoinedTwice
    <2> QED
      BY <2>2, <2>3, <2>4 DEF h
  <1>3. g \in Seq(Nat)
    OBVIOUS
  <1> HIDE DEF g, t
  <1>4. /\ Len(a) = Len(g) + Len(p) /\ Len(b) = Len(g) + Len(t) /\ k \in 1 .. Len(a)
        /\ Len(g) \in Nat /\ Len(t) \in Nat /\ Len(p) \in Nat
        /\ \A j \in 1 .. Len(g) : a[j] = g[j] /\ b[j] = g[j]
        /\ \A j \in 1 .. Len(p) : a[Len(g) + j] = p[j]
        /\ \A i \in 1 .. Len(b) : \/ i \in 1 .. Len(g) /\ b[i] = g[i]
                                  \/ /\ i - Len(g) \in 1 .. Len(t) /\ i \notin 1 .. Len(g)
                                     /\ i = Len(g) + (i - Len(g)) /\ b[i] = t[i - Len(g)]
    <2>1. Len(a) = Len(g) + Len(p) /\ Len(g) \in Nat /\ Len(p) \in Nat
          /\ (\A j \in 1 .. Len(g) : a[j] = g[j]) /\ \A j \in 1 .. Len(p) : a[Len(g) + j] = p[j]
      BY <1>3, JoinedNames
    <2>2. /\ Len(b) = Len(g) + Len(t) /\ Len(t) \in Nat
          /\ \A j \in 1 .. Len(g) : b[j] = g[j]
          /\ \A i \in 1 .. Len(b) : \/ i \in 1 .. Len(g) /\ b[i] = g[i]
                                    \/ /\ i - Len(g) \in 1 .. Len(t) /\ i \notin 1 .. Len(g)
                                       /\ i = Len(g) + (i - Len(g)) /\ b[i] = t[i - Len(g)]
      BY <1>1, <1>3, JoinedNames
    <2> QED
      BY <1>1, <2>1, <2>2
  <1> HIDE DEF a, b
  <1>5. ASSUME NEW i \in 1 .. Len(b)
        PROVE  b[i] = IF i < k THEN a[i] ELSE a[i + 1]
    <2>1. CASE i \in 1 .. Len(g)
      BY <1>4, <2>1
    <2>2. CASE i \notin 1 .. Len(g)
      <3>1. PICK j \in 1 .. Len(t) : j = i - Len(g) /\ i = Len(g) + j /\ b[i] = t[j]
        BY <1>4, <2>2
      <3>2. b[i] = p[j + 1] /\ a[Len(g) + (j + 1)] = p[j + 1]
        BY <1>1, <1>4, <3>1
      <3>3. Len(g) + (j + 1) = i + 1 /\ ~(i < k)
        BY <1>4, <3>1
      <3> QED
        BY <3>2, <3>3
    <2> QED
      BY <2>1, <2>2
  <1>6. Len(b) = Len(a) - 1
    BY <1>1, <1>3, <1>4
  <1> QED
    BY <1>1, <1>2, <1>4, <1>5, <1>6 DEF t, g, a, b

LEMMA ReadsDirInv == ListInv /\ ReadsDir => ListInv'
  <1> SUFFICES ASSUME ListInv, ReadsDir
               PROVE  ListInv'
    OBVIOUS
  <1> DEFINE n == Cardinality(dir)
             until == Smaller(listOffset + listDirPageSize, n)
  <1>0. ListTypeOK /\ listDirPageSize \in Nat /\ listDirPageSize > 0
    BY ListAssumption DEF ListInv
  <1>1. dir \in SUBSET Nat /\ IsFiniteSet(dir) /\ n \in Nat
    BY <1>0, DirFinite
  <1>2. /\ stayed \in SUBSET dir /\ merged \in Seq(Nat) /\ listOffset \in Nat
        /\ Covers(dir, stayed, grew, shrank, merged, listOffset)
        /\ ~shrank => listOffset = request * listDirPageSize
    BY <1>0 DEF ListInv, ListTypeOK, ReadsDir
  <1>3. /\ page' \in Seq(Nat) /\ \A j \in 1 .. Len(page') : page'[j] \in dir
        /\ Covers(dir, stayed, grew, shrank, merged \o page', PageEnd)
    BY <1>0, <1>1, <1>2, CoversRead DEF ReadsDir, PageEnd
  <1>4. /\ listpc' = "looking" /\ found' = <<>> /\ pageTotal' = n /\ pageNext' = PageEnd
        /\ hasMore' = (PageEnd < n)
        /\ UNCHANGED <<request, listOffset, merged, mergedTotal, dir, dirChanges, stayed, grew, shrank>>
    BY DEF ReadsDir, mergedVars, dirVars
  <1>5. /\ PageEnd \in Nat /\ PageEnd <= n
        /\ PageEnd < n => PageEnd = listOffset + listDirPageSize
    BY <1>0, <1>1, <1>2 DEF PageEnd, Smaller
  <1>6. Shown' = merged \o page'
    <2>1. Shown' = merged \o <<>> \o page'
      BY <1>4 DEF Shown
    <2>2. merged \o <<>> = merged
      BY <1>2
    <2> QED
      BY <2>1, <2>2
  <1>7. ListTypeOK'
    BY <1>0, <1>1, <1>3, <1>4, <1>5 DEF ListTypeOK
  <1>8. Covers(dir, stayed, grew, shrank, Shown, pageNext)'
    BY <1>3, <1>4, <1>6
  <1>9. PageInv'
    <2>1. hasMore' <=> PageEnd < n
      BY <1>4, Zenon
    <2>2. ASSUME ~hasMore', ~shrank, NEW x \in stayed
          PROVE  \E i \in 1 .. Len(Shown') : Shown'[i] = x
      <3>1. PageEnd = n
        BY <1>1, <1>5, <2>1, <2>2
      <3>2. x \in dir /\ x \in Nat /\ Rank(dir, x) < n
        BY <1>1, <1>2, RankType
      <3>3. Whole(dir, stayed, Shown', PageEnd)
        BY <1>3, <1>6, <2>2, Zenon DEF Covers
      <3> QED
        BY <3>1, <3>2, <3>3 DEF Whole
    <2> QED
      BY <1>3, <1>4, <1>5, <2>1, <2>2 DEF PageInv
  <1> QED
    BY <1>2, <1>4, <1>7, <1>8, <1>9 DEF ListInv, ListingFaithful

LEMMA LooksUpInv == ListInv /\ LooksUp => ListInv'
  <1> SUFFICES ASSUME ListInv, LooksUp
               PROVE  ListInv'
    OBVIOUS
  <1>0. ListTypeOK
    BY DEF ListInv
  <1>1. /\ listpc = "looking" /\ listpc' = "looking" /\ page # <<>> /\ page' = Tail(page)
        /\ found' = IF Head(page) \in dir THEN Append(found, Head(page)) ELSE found
        /\ UNCHANGED <<request, listOffset, pageTotal, pageNext, hasMore, merged, mergedTotal,
                       dir, dirChanges, stayed, grew, shrank>>
    BY DEF LooksUp, mergedVars, dirVars
  <1>2. page \in Seq(Nat) /\ found \in Seq(Nat) /\ merged \in Seq(Nat) /\ pageNext \in Nat
    BY <1>0 DEF ListTypeOK
  <1>3. dir \in SUBSET Nat
    BY <1>0, DirFinite
  <1>4. Covers(dir, stayed, grew, shrank, Shown, pageNext) /\ PageInv
    BY <1>1 DEF ListInv
  <1>5. /\ Head(page) = page[1] /\ 1 \in 1 .. Len(page) /\ Head(page) \in Nat /\ page' \in Seq(Nat)
        /\ \A i \in 1 .. Len(page') : i + 1 \in 1 .. Len(page) /\ page'[i] = page[i + 1]
    BY <1>1, <1>2, LookedUp
  <1>6. ListTypeOK'
    <2>1. found' \in Seq(Nat)
      BY <1>1, <1>2, <1>5
    <2> QED
      BY <1>0, <1>1, <1>5, <2>1 DEF ListTypeOK
  <1>7. ~shrank => \A i \in 1 .. Len(page') : page'[i] \in dir
    BY <1>4, <1>5 DEF PageInv
  <1>8. CASE Head(page) \in dir
    <2>1. Shown' = Shown
      BY <1>1, <1>2, <1>8, LookedUp DEF Shown
    <2>2. Covers(dir, stayed, grew, shrank, Shown, pageNext)'
      BY <1>1, <1>4, <2>1
    <2>3. PageInv'
      BY <1>1, <1>4, <1>7, <2>1 DEF PageInv
    <2> QED
      BY <1>1, <1>6, <2>2, <2>3 DEF ListInv, ListingFaithful
  <1>9. CASE Head(page) \notin dir
    <2>1. shrank
      BY <1>4, <1>5, <1>9 DEF PageInv
    <2>2. Shown' = merged \o found \o Tail(page) /\ Shown \in Seq(Nat) /\ Shown' \in Seq(Nat)
      BY <1>1, <1>2, <1>5, <1>9 DEF Shown
    <2>3. /\ Len(Shown') = Len(Shown) - 1
          /\ \E k \in 1 .. Len(Shown) : \A i \in 1 .. Len(Shown') :
               Shown'[i] = IF i < k THEN Shown[i] ELSE Shown[i + 1]
      <3>1. merged' = merged /\ found' = found /\ page' = Tail(page)
        BY <1>1, <1>9
      <3>2. /\ Len(merged \o found \o Tail(page)) = Len(merged \o found \o page) - 1
            /\ \E k \in 1 .. Len(merged \o found \o page) : \A i \in 1 .. Len(merged \o found \o Tail(page)) :
                 (merged \o found \o Tail(page))[i] =
                    IF i < k THEN (merged \o found \o page)[i] ELSE (merged \o found \o page)[i + 1]
        BY <1>1, <1>2, LookedUp
      <3>3. Shown = merged \o found \o page
        BY DEF Shown
      <3> HIDE DEF Shown
      <3> QED
        BY <2>2, <3>2, <3>3
    <2>4. Covers(dir, stayed, grew, shrank, Shown', pageNext)
      BY <1>2, <1>3, <1>4, <2>1, <2>2, <2>3, CoversDrop
    <2>5. Covers(dir, stayed, grew, shrank, Shown, pageNext)'
      BY <1>1, <2>4
    <2>6. PageInv'
      BY <1>1, <1>4, <1>7, <2>1 DEF PageInv
    <2> QED
      BY <1>1, <1>6, <2>1, <2>5, <2>6 DEF ListInv, ListingFaithful
  <1> QED
    BY <1>8, <1>9

(* The directory changes while it is listed: of the pages so far, nothing  *)
(* but how much they are worth.                                            *)
LEMMA AddsInv ==
  ASSUME ListInv, NEW n \in 1 .. MaxName, Adds(n)
  PROVE  ListInv'
  <1>0. ListTypeOK
    BY DEF ListInv
  <1>1. /\ listpc \notin {"ok", "failed"} /\ dir' = dir \cup {n} /\ grew' = TRUE
        /\ UNCHANGED <<listpc, request, listOffset, page, found, pageTotal, pageNext, hasMore, merged,
                       mergedTotal, stayed, shrank>>
    BY DEF Adds, answerVars, mergedVars
  <1>2. dir \in SUBSET Nat /\ IsFiniteSet(dir) /\ n \in Nat /\ stayed \in SUBSET dir
    BY <1>0, DirFinite, ListAssumption DEF ListTypeOK
  <1>3. Shown' = Shown /\ Shown \in Seq(Nat) /\ merged \in Seq(Nat) /\ pageNext \in Nat /\ listOffset \in Nat
    BY <1>0, <1>1 DEF Shown, ListTypeOK
  <1>4. ListTypeOK'
    BY <1>0, <1>1 DEF ListTypeOK
  <1>5. ASSUME listpc = "asking"
        PROVE  Covers(dir, stayed, grew, shrank, merged, listOffset)'
    <2>1. Covers(dir, stayed, grew, shrank, merged, listOffset)
      BY <1>5 DEF ListInv
    <2>2. Covers(dir \cup {n}, stayed, TRUE, shrank, merged, listOffset)
      BY <1>2, <1>3, <2>1, CoversAdd
    <2> QED
      BY <1>1, <2>2
  <1>6. ASSUME listpc \in {"looking", "answered"}
        PROVE  Covers(dir, stayed, grew, shrank, Shown, pageNext)' /\ PageInv'
    <2>1. Covers(dir, stayed, grew, shrank, Shown, pageNext) /\ PageInv
      BY <1>6 DEF ListInv
    <2>2. Covers(dir \cup {n}, stayed, TRUE, shrank, Shown, pageNext)
      BY <1>2, <1>3, <2>1, CoversAdd
    <2>3. PageInv'
      BY <1>1, <1>3, <2>1 DEF PageInv
    <2> QED
      BY <1>1, <1>3, <2>2, <2>3
  <1> QED
    BY <1>1, <1>4, <1>5, <1>6 DEF ListInv, ListingFaithful

LEMMA RemovesInv ==
  ASSUME ListInv, NEW n \in 1 .. MaxName, Removes(n)
  PROVE  ListInv'
  <1>0. ListTypeOK
    BY DEF ListInv
  <1>1. /\ listpc \notin {"ok", "failed"} /\ dir' = dir \ {n} /\ stayed' = stayed \ {n} /\ shrank' = TRUE
        /\ UNCHANGED <<listpc, request, listOffset, page, found, pageTotal, pageNext, hasMore, merged,
                       mergedTotal, grew>>
    BY DEF Removes, answerVars, mergedVars
  <1>2. dir \in SUBSET Nat /\ IsFiniteSet(dir) /\ stayed \in SUBSET dir
    BY <1>0, DirFinite DEF ListTypeOK
  <1>3. Shown' = Shown /\ Shown \in Seq(Nat) /\ merged \in Seq(Nat) /\ pageNext \in Nat /\ listOffset \in Nat
    BY <1>0, <1>1 DEF Shown, ListTypeOK
  <1>4. ListTypeOK'
    BY <1>0, <1>1 DEF ListTypeOK
  <1>5. ASSUME listpc = "asking"
        PROVE  Covers(dir, stayed, grew, shrank, merged, listOffset)'
    <2>1. Covers(dir, stayed, grew, shrank, merged, listOffset)
      BY <1>5 DEF ListInv
    <2>2. Covers(dir \ {n}, stayed \ {n}, grew, TRUE, merged, listOffset)
      BY <1>2, <1>3, <2>1, CoversRemove
    <2> QED
      BY <1>1, <2>2
  <1>6. ASSUME listpc \in {"looking", "answered"}
        PROVE  Covers(dir, stayed, grew, shrank, Shown, pageNext)' /\ PageInv'
    <2>1. Covers(dir, stayed, grew, shrank, Shown, pageNext) /\ PageInv
      BY <1>6 DEF ListInv
    <2>2. Covers(dir \ {n}, stayed \ {n}, grew, TRUE, Shown, pageNext)
      BY <1>2, <1>3, <2>1, CoversRemove
    <2>3. PageInv'
      BY <1>1, <1>3, <2>1 DEF PageInv
    <2> QED
      BY <1>1, <1>3, <2>2, <2>3
  <1> QED
    BY <1>1, <1>4, <1>5, <1>6 DEF ListInv, ListingFaithful

(* A page is merged: the loop asks for the next, or the listing is worth   *)
(* what it should be.                                                      *)
LEMMA MergesInv == ListInv /\ Merges => ListInv'
  <1> SUFFICES ASSUME ListInv, Merges
               PROVE  ListInv'
    OBVIOUS
  <1> DEFINE all == merged \o found
             ps == listDirPageSize
  <1>0. ListTypeOK /\ ps \in Nat /\ ps > 0 /\ maxListedEntries \in Nat
    BY ListAssumption DEF ListInv
  <1>1. /\ listpc = "answered" /\ merged' = all /\ request' = request + 1
        /\ mergedTotal' = IF pageTotal < Len(all) THEN Len(all) ELSE pageTotal
        /\ UNCHANGED <<page, found, pageTotal, pageNext, hasMore, dir, dirChanges, stayed, grew, shrank>>
    BY DEF Merges, answerVars, dirVars
  <1>2. /\ dir \in SUBSET Nat /\ IsFiniteSet(dir) /\ Cardinality(dir) \in Nat
        /\ {request, listOffset, pageTotal, pageNext} \subseteq Nat
        /\ all \in Seq(Nat) /\ Len(all) \in Nat
    BY <1>0, DirFinite DEF ListTypeOK
  <1>3. Shown = all
    <2>1. page = <<>>
      BY <1>1 DEF ListInv
    <2>2. all \o <<>> = all
      BY <1>2
    <2> QED
      BY <2>1, <2>2 DEF Shown
  <1>4. Covers(dir, stayed, grew, shrank, all, pageNext) /\ PageInv
    BY <1>1, <1>3 DEF ListInv
  <1> HIDE DEF all
  <1>5. ~shrank => listOffset = request * ps
    BY <1>1 DEF ListInv
  <1>6. CASE listpc' = "asking"
    <2>1. hasMore /\ listOffset' = pageNext
      BY <1>6 DEF Merges
    <2>2. ListTypeOK'
      BY <1>0, <1>1, <1>2, <2>1 DEF ListTypeOK
    <2>3. ~shrank => listOffset' = request' * ps
      BY <1>1, <1>2, <1>4, <1>5, <2>1, RequestsSuffice DEF PageInv
    <2>4. Covers(dir, stayed, grew, shrank, merged, listOffset)'
      BY <1>1, <1>4, <2>1
    <2> QED
      BY <1>1, <1>6, <2>2, <2>3, <2>4 DEF ListInv, ListingFaithful
  <1>7. CASE listpc' = "ok"
    <2>1. ListTypeOK'
      BY <1>0, <1>1, <1>2 DEF ListTypeOK, Merges
    <2>2. \/ ~hasMore
          \/ Len(all) >= maxListedEntries
          \/ hasMore /\ request + 1 >= maxListDirRequest
      <3>1. maxListDirRequest \in Int
        BY <1>0 DEF maxListDirRequest
      <3>2. hasMore => pageNext > listOffset
        BY <1>0, <1>2, <1>4 DEF PageInv
      <3> QED
        BY <1>1, <1>2, <1>7, <3>1, <3>2 DEF Merges
    <2>3. ASSUME ~shrank
          PROVE  Len(all) = pageNext /\ (~hasMore \/ Len(all) >= maxListedEntries)
      <3>1. Len(all) = pageNext
        BY <1>4, <2>3, Zenon DEF Covers, Whole
      <3>2. ASSUME hasMore, request + 1 >= maxListDirRequest
            PROVE  Len(all) >= maxListedEntries
        <4>1. request + 1 \in Nat
          BY <1>2
        <4>2. (request + 1) * ps > maxListedEntries
          BY <3>2, <4>1, RequestsSuffice
        <4>3. (request + 1) * ps = request * ps + ps /\ request * ps \in Nat
          BY <1>2, RequestsSuffice
        <4>4. pageNext = request * ps + ps
          BY <1>4, <1>5, <2>3, <3>2 DEF PageInv
        <4> QED
          BY <1>0, <1>2, <3>1, <4>2, <4>3, <4>4
      <3> QED
        BY <2>2, <3>1, <3>2
    <2>4. ASSUME ~shrank, Len(all) < maxListedEntries
          PROVE  stayed \subseteq {all[i] : i \in DOMAIN all}
      <3>1. ~hasMore
        BY <1>0, <1>2, <2>3, <2>4
      <3>2. \A x \in stayed : \E i \in 1 .. Len(all) : all[i] = x
        BY <1>3, <1>4, <2>4, <3>1 DEF PageInv
      <3> QED
        BY <1>2, <3>2
    <2>5. ASSUME ~grew
          PROVE  \A i, j \in DOMAIN all : i < j => all[i] < all[j]
      <3>1. Ascending(dir, all, pageNext)
        BY <1>4, <2>5, Zenon DEF Covers
      <3> QED
        BY <1>2, <3>1 DEF Ascending
    <2>6. ASSUME ~grew, ~shrank
          PROVE  /\ all = SubSeq(Sorted(dir), 1, Len(all))
                 /\ mergedTotal' = Cardinality(dir)
                 /\ Len(all) >= Smaller(maxListedEntries, Cardinality(dir))
      <3>1. Exact(dir, all) /\ Whole(dir, stayed, all, pageNext)
        BY <1>4, <2>6, Zenon DEF Covers
      <3>2. Len(all) = pageNext /\ pageNext <= Cardinality(dir) /\ pageTotal = Cardinality(dir)
        BY <1>4, <2>6, <3>1 DEF Whole, PageInv
      <3>3. /\ Sorted(dir) \in Seq(Nat) /\ Len(Sorted(dir)) = Cardinality(dir)
            /\ \A i \in 1 .. Cardinality(dir) : Sorted(dir)[i] \in dir /\ Rank(dir, Sorted(dir)[i]) = i - 1
        BY <1>2, SortedNames
      <3>4. ASSUME NEW i \in 1 .. Len(all)
            PROVE  all[i] = Sorted(dir)[i]
        <4>1. i \in 1 .. Cardinality(dir)
          BY <1>2, <3>2
        <4>2. /\ all[i] \in dir /\ Sorted(dir)[i] \in dir
              /\ Rank(dir, all[i]) = Rank(dir, Sorted(dir)[i])
          BY <3>1, <3>3, <4>1 DEF Exact
        <4> QED
          BY <1>2, <4>2, RankOrder
      <3>5. /\ SubSeq(Sorted(dir), 1, Len(all)) \in Seq(Nat)
            /\ Len(SubSeq(Sorted(dir), 1, Len(all))) = Len(all)
            /\ \A i \in 1 .. Len(all) : SubSeq(Sorted(dir), 1, Len(all))[i] = Sorted(dir)[i]
        <4>1. Len(all) <= Len(Sorted(dir))
          BY <3>2, <3>3
        <4> QED
          BY <1>2, <3>3, <4>1, FirstNames
      <3>6. all = SubSeq(Sorted(dir), 1, Len(all))
        BY <1>2, <3>4, <3>5, SameNames
      <3>7. mergedTotal' = Cardinality(dir)
        BY <1>1, <1>2, <3>2
      <3>8. Len(all) >= Smaller(maxListedEntries, Cardinality(dir))
        BY <1>0, <1>2, <1>4, <2>3, <2>6, <3>2 DEF Smaller, PageInv
      <3> QED
        BY <3>6, <3>7, <3>8
    <2>7. mergedTotal' >= Len(all)
      BY <1>1, <1>2
    <2>8. ListingFaithful'
      BY <1>1, <2>4, <2>5, <2>6, <2>7 DEF ListingFaithful, Listed
    <2> QED
      BY <1>7, <2>1, <2>8 DEF ListInv
  <1> QED
    BY <1>6, <1>7 DEF Merges

LEMMA ListNextInv == ListInv /\ [ListNext]_listVars => ListInv'
  <1> SUFFICES ASSUME ListInv, [ListNext]_listVars
               PROVE  ListInv'
    OBVIOUS
  <1>1. CASE Answers
    <2>1. /\ listpc = "looking" /\ page = <<>> /\ listpc' = "answered"
          /\ UNCHANGED <<dir, request, listOffset, page, found, pageTotal, pageNext, hasMore, merged,
                         mergedTotal, stayed, grew, shrank>>
      BY <1>1 DEF Answers, answerVars, mergedVars, dirVars
    <2> QED
      BY <2>1 DEF ListInv, ListTypeOK, PageInv, Shown, ListingFaithful
  <1>2. CASE ListFails
    <2>1. /\ listpc' = "failed"
          /\ UNCHANGED <<dir, request, listOffset, page, found, pageTotal, pageNext, merged,
                         mergedTotal, stayed>>
      BY <1>2 DEF ListFails, answerVars, mergedVars, dirVars
    <2> QED
      BY <2>1 DEF ListInv, ListTypeOK, ListingFaithful
  <1>3. CASE UNCHANGED listVars
    BY <1>3 DEF listVars, ListInv, ListTypeOK, PageInv, Shown, ListingFaithful, Listed
  <1> QED
    BY <1>1, <1>2, <1>3, ReadsDirInv, LooksUpInv, MergesInv, AddsInv, RemovesInv DEF ListNext

(* A listing over any number of pages, of a directory that changes between *)
(* any two steps, is worth what it should be (app.go:540-568,              *)
(* fs.go:55-117).                                                          *)
THEOREM ListingFaithfulTheorem == ListSpec => []ListingFaithful
  <1>1. ListInv => ListingFaithful
    BY DEF ListInv
  <1> QED
    BY <1>1, ListInitInv, ListNextInv, PTL DEF ListSpec

----------------------------------------------------------------------------
(* The composition that the run checks                                     *)

(* Every behaviour of the services together is a behaviour of each of      *)
(* those that share no variable, so what is shown of one alone holds where *)
(* startup builds them side by side (app.go:81-150, the agent's            *)
(* main.go:141-195).                                                       *)
THEOREM ServicesAreTheirParts ==
    ServicesSpec => /\ ScriptSpec /\ SessionSpec /\ BackupSpec /\ AgentAuditSpec /\ AuditLogSpec
                    /\ ListSpec /\ ExecSpec /\ DiscoverySpec
  <1>1. ServicesInit => /\ ScriptInit /\ SessionInit /\ BackupInit /\ AgentAuditInit /\ AuditLogInit
                        /\ ListInit /\ ExecInit /\ DiscoveryInit
    BY DEF ServicesInit
  <1>2. [ServicesNext]_serviceVars => [ExecNext]_execVars
    BY DEF ServicesNext, serviceVars
  <1>3. [ServicesNext]_serviceVars => [BackupNext]_backupVars
    BY DEF ServicesNext, serviceVars
  <1>4. [ServicesNext]_serviceVars => [AgentAuditNext]_agentAuditVars
    BY DEF ServicesNext, serviceVars
  <1>5. [ServicesNext]_serviceVars => [AuditLogNext]_auditLogVars
    BY DEF ServicesNext, serviceVars
  <1>6. [ServicesNext]_serviceVars => [DiscoveryNext]_discoveryVars
    BY DEF ServicesNext, serviceVars
  <1>7. [ServicesNext]_serviceVars => [ScriptNext]_scriptVars
    BY DEF ServicesNext, serviceVars
  <1>8. [ServicesNext]_serviceVars => [SessionNext]_sessionVars
    BY DEF ServicesNext, serviceVars
  <1>9. [ServicesNext]_serviceVars => [ListNext]_listVars
    BY DEF ServicesNext, serviceVars
  <1> QED
    BY <1>1, <1>2, <1>3, <1>4, <1>5, <1>6, <1>7, <1>8, <1>9, PTL
    DEF ServicesSpec, ScriptSpec, SessionSpec, BackupSpec, AgentAuditSpec, AuditLogSpec, ListSpec,
        ExecSpec, DiscoverySpec

(* The transfers use the contract of SendRequest with callers of their     *)
(* own: while others are exercised, none has begun.                        *)
NoTransfers ==
    /\ AppInit
    /\ req \in [Requests -> {"idle", "open", "answer", "unsent", "timeout", "shutdown"}]
    /\ \A t \in Transfers : req[t] = "idle"

SharedInv == (part = "app" => AppInv) /\ (part # "app" => NoTransfers) /\ BatchInv

LEMMA SharedInitInv == ServicesInit => SharedInv
  <1> SUFFICES ASSUME ServicesInit PROVE SharedInv
    OBVIOUS
  <1>1. RequesterInit /\ AppInit /\ BatchInit
    BY DEF ServicesInit
  <1>2. NoTransfers
    BY <1>1, AppAssumption DEF NoTransfers, RequesterInit, Transfers
  <1> QED
    BY <1>1, <1>2, AppInitInv, BatchInitInv DEF SharedInv

LEMMA SharedNextInv == SharedInv /\ [ServicesNext]_serviceVars => SharedInv'
  <1> SUFFICES ASSUME SharedInv, [ServicesNext]_serviceVars PROVE SharedInv'
    OBVIOUS
  <1>1. part' = part
    BY DEF ServicesNext, serviceVars
  <1>2. BatchInv'
    <2>1. [BatchNext]_<<requesterVars, batchVars>> \/ UNCHANGED batchVars
      BY DEF ServicesNext, serviceVars
    <2>2. CASE UNCHANGED batchVars
      BY <2>2, MultiStays, RunStays DEF SharedInv, BatchInv, batchVars, multiVars, runVars
    <2> QED
      BY <2>1, <2>2, BatchNextInv DEF SharedInv
  <1>3. ASSUME part = "app"
        PROVE  AppInv'
    <2>1. [AppNext]_<<requesterVars, appVars>>
      BY <1>3 DEF ServicesNext, serviceVars
    <2> QED
      BY <1>3, <2>1, AppNextInv DEF SharedInv
  <1>4. ASSUME part # "app"
        PROVE  NoTransfers'
    <2>1. NoTransfers
      BY <1>4 DEF SharedInv
    <2>2. UNCHANGED appVars
      BY <1>4 DEF ServicesNext, serviceVars
    <2>3. AppInit'
      BY <2>1, <2>2 DEF NoTransfers, AppInit, appVars
    <2>4. CASE part = "batches" /\ BatchNext
      <3>1. \/ UNCHANGED req
            \/ \E r \in Workers \cup {Runner} : Begin(r) \/ Return(r)
        BY <2>4 DEF BatchNext, MultiBegins, WorkerAsks, WorkerBooks, MultiReturns, ScriptBegins,
                    LineHandled, LineAsks, LineBooks, ScriptReturns, TakeDown, requesterVars
      <3>2. CASE UNCHANGED req
        BY <2>1, <2>3, <3>2 DEF NoTransfers
      <3>3. ASSUME NEW r \in Workers \cup {Runner}, Begin(r) \/ Return(r)
            PROVE  NoTransfers'
        <4>1. PICK v \in {"open", "answer", "unsent", "timeout", "shutdown"} : req' = [req EXCEPT ![r] = v]
          BY <3>3 DEF Begin, Return
        <4>2. r \notin Transfers
          BY <3>3, CallersAssumption
        <4>3. req' \in [Requests -> {"idle", "open", "answer", "unsent", "timeout", "shutdown"}]
          BY <2>1, <4>1 DEF NoTransfers
        <4>4. \A t \in Transfers : req'[t] = "idle"
          BY <2>1, <4>1, <4>2, AppAssumption DEF NoTransfers, Transfers
        <4> QED
          BY <2>3, <4>3, <4>4 DEF NoTransfers
      <3> QED
        BY <3>1, <3>2, <3>3
    <2>5. CASE UNCHANGED requesterVars
      BY <2>1, <2>3, <2>5 DEF NoTransfers, requesterVars
    <2> QED
      BY <1>4, <2>4, <2>5 DEF ServicesNext, serviceVars
  <1> QED
    BY <1>1, <1>2, <1>3, <1>4 DEF SharedInv

(* What the ten services promise, together: every invariant that the run   *)
(* checks of their composition (app.go:81-150, the agent's                 *)
(* main.go:141-195) holds for every value of its constants.                *)
THEOREM ServicesTheorem ==
    ServicesSpec => /\ []TransfersDrained /\ []BatchesAccounted /\ []SerialScriptsAgree
                    /\ []TokensSurvive /\ []RollbackPossible /\ []TrailIsSuffix /\ []RecentIsTail
                    /\ []ListingFaithful /\ []CodeIsHonest /\ []MetOnce
  <1>1. SharedInv => TransfersDrained
    <2>1. NoTransfers => TransfersDrained
      BY DEF NoTransfers, AppInit, TransfersDrained
    <2> QED
      BY <2>1, AppInvSuffices DEF SharedInv
  <1>2. SharedInv => BatchesAccounted
    BY BatchInvSuffices DEF SharedInv
  <1>3. ServicesSpec => []SharedInv
    BY SharedInitInv, SharedNextInv, PTL DEF ServicesSpec
  <1> QED
    BY <1>1, <1>2, <1>3, ServicesAreTheirParts, SerialScriptsAgreeTheorem, TokensSurviveTheorem,
       RollbackPossibleTheorem, TrailIsSuffixTheorem, RecentIsTailTheorem, ListingFaithfulTheorem,
       CodeIsHonestTheorem, MetOnceTheorem, PTL

============================================================================
