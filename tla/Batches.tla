------------------------------ MODULE Batches ------------------------------
(***************************************************************************)
(* Operations of the control center that make several command requests     *)
(* and report how many succeeded: ExecCommandMulti, one goroutine per      *)
(* listed agent, and RunScript with Engine.Execute, one line after the     *)
(* other (control-center/app.go,                                           *)
(* control-center/backend/scripting/engine.go).                            *)
(*                                                                         *)
(* Unlike transfers they are not waited for at shutdown, so CloseAll may   *)
(* come at any time.                                                       *)
(***************************************************************************)
EXTENDS Requester, Naturals, FiniteSets

CONSTANTS
    Agents,         \* agent IDs
    Fanout,         \* length of the list passed to ExecCommandMulti
    ScriptLines,    \* lines of the script
    Runner          \* the caller RunScript is, a member of Requests

Workers == 1..Fanout

(* ExecCommandMulti returns at once when the list is empty (app.go:444).   *)
ASSUME BatchAssumption == Fanout \in Nat \ {0} /\ ScriptLines \in Nat

VARIABLES
    agentIDs,   \* ExecCommandMulti: its list; an agent may be named twice
    multipc,    \* its step: "off", "running" or "returned"
    workerpc,   \* a goroutine: "off", "asking" or "done"
    results,    \* the result it returns, per agent: "none", "ok" or "bad"
    succeeded, failed,
    multiStatus,
    lines,      \* RunScript: what each line is
    line,       \* the line under way, 0 before RunScript begins
    asking,     \* the line's request is under way
    successCount, failedCount,
    scriptStatus,
    workerOutcome, lineOutcome  \* what became of each request and line: history

batchVars == <<agentIDs, multipc, workerpc, results, succeeded, failed, multiStatus,
               lines, line, asking, successCount, failedCount, scriptStatus,
               workerOutcome, lineOutcome>>
multiVars == <<agentIDs, multipc, workerpc, results, succeeded, failed, multiStatus, workerOutcome>>
runVars == <<lines, line, asking, successCount, failedCount, scriptStatus, lineOutcome>>

(* A line is empty or a comment, has a template that does not evaluate, or *)
(* is a command.                                                           *)
LineKinds == {"skipped", "untemplated", "command"}

BatchInit ==
    /\ agentIDs = <<>>
    /\ multipc = "off"
    /\ workerpc = [w \in Workers |-> "off"]
    /\ results = [a \in Agents |-> "none"]
    /\ succeeded = 0 /\ failed = 0
    /\ multiStatus = "none"
    /\ lines = <<>>
    /\ line = 0
    /\ asking = FALSE
    /\ successCount = 0 /\ failedCount = 0
    /\ scriptStatus = "none"
    /\ workerOutcome = [w \in Workers |-> "none"]
    /\ lineOutcome = [i \in 1..ScriptLines |-> "none"]

(* requestCommandResult: an error, or an answer with an exit code.         *)
Verdicts(r) == IF req[r] = "answer" THEN {"ok", "bad"} ELSE {"bad"}

----------------------------------------------------------------------------
(* ExecCommandMulti                                                        *)

MultiBegins ==
    /\ multipc = "off"
    /\ multipc' = "running"
    /\ agentIDs' \in [Workers -> Agents]
    /\ UNCHANGED <<workerpc, results, succeeded, failed, multiStatus, workerOutcome, runVars, requesterVars>>

WorkerAsks(w) ==
    /\ multipc = "running"
    /\ workerpc[w] = "off"
    /\ workerpc' = [workerpc EXCEPT ![w] = "asking"]
    /\ Begin(w)
    /\ UNCHANGED <<agentIDs, multipc, results, succeeded, failed, multiStatus, workerOutcome, runVars>>

(* The goroutine books its result under mu; then wg.Done.                  *)
WorkerBooks(w) ==
    /\ workerpc[w] = "asking"
    /\ req[w] # "open"
    /\ workerpc' = [workerpc EXCEPT ![w] = "done"]
    /\ \E v \in Verdicts(w) :
         /\ results' = [results EXCEPT ![agentIDs[w]] = v]
         /\ IF v = "ok"
            THEN succeeded' = succeeded + 1 /\ UNCHANGED failed
            ELSE failed' = failed + 1 /\ UNCHANGED succeeded
         /\ workerOutcome' = [workerOutcome EXCEPT ![w] = v]
    /\ UNCHANGED <<agentIDs, multipc, multiStatus, runVars, requesterVars>>

(* Mutant: the goroutines are not waited for.                              *)
MultiReturnsMutant ==
    /\ multipc = "running"
    /\ multipc' = "returned"
    /\ multiStatus' = IF failed = Fanout THEN "error" ELSE IF failed > 0 THEN "warning" ELSE "success"
    /\ UNCHANGED <<agentIDs, workerpc, results, succeeded, failed, workerOutcome, runVars, requesterVars>>

(* wg.Wait, then the status that is logged and the results.                *)
MultiReturns ==
    /\ multipc = "running"
    /\ \A w \in Workers : workerpc[w] = "done"
    /\ multipc' = "returned"
    /\ multiStatus' = IF failed = Fanout THEN "error" ELSE IF failed > 0 THEN "warning" ELSE "success"
    /\ UNCHANGED <<agentIDs, workerpc, results, succeeded, failed, workerOutcome, runVars, requesterVars>>

----------------------------------------------------------------------------
(* RunScript and Execute                                                   *)

ScriptBegins ==
    /\ line = 0
    /\ line' = 1
    /\ lines' \in [1..ScriptLines -> LineKinds]
    /\ UNCHANGED <<asking, successCount, failedCount, scriptStatus, lineOutcome, multiVars, requesterVars>>

(* A line that makes no request.                                           *)
LineHandled ==
    /\ line \in 1..ScriptLines /\ lines[line] # "command"
    /\ line' = line + 1
    /\ failedCount' = IF lines[line] = "untemplated" THEN failedCount + 1 ELSE failedCount
    /\ lineOutcome' = [lineOutcome EXCEPT ![line] = IF lines[line] = "untemplated" THEN "bad" ELSE "none"]
    /\ UNCHANGED <<lines, asking, successCount, scriptStatus, multiVars, requesterVars>>

LineAsks ==
    /\ line \in 1..ScriptLines /\ lines[line] = "command"
    /\ ~asking
    /\ asking' = TRUE
    /\ Begin(Runner)
    /\ UNCHANGED <<lines, line, successCount, failedCount, scriptStatus, lineOutcome, multiVars>>

(* A failed line does not stop the script.                                 *)
LineBooks ==
    /\ asking
    /\ req[Runner] # "open"
    /\ asking' = FALSE
    /\ line' = line + 1
    /\ \E v \in Verdicts(Runner) :
         /\ IF v = "ok"
            THEN successCount' = successCount + 1 /\ UNCHANGED failedCount
            ELSE failedCount' = failedCount + 1 /\ UNCHANGED successCount
         /\ lineOutcome' = [lineOutcome EXCEPT ![line] = v]
    /\ UNCHANGED <<lines, scriptStatus, multiVars, requesterVars>>

(* The combined result: its exit code is the number of failed lines.       *)
ScriptReturns ==
    /\ line = ScriptLines + 1
    /\ scriptStatus = "none"
    /\ scriptStatus' = IF failedCount > 0 THEN "error" ELSE "success"
    /\ UNCHANGED <<lines, line, asking, successCount, failedCount, lineOutcome, multiVars, requesterVars>>

----------------------------------------------------------------------------

BatchNext ==
    \/ MultiBegins
    \/ \E w \in Workers : WorkerAsks(w) \/ WorkerBooks(w)
    \/ MultiReturns
    \/ ScriptBegins \/ LineHandled \/ LineAsks \/ LineBooks \/ ScriptReturns
    \/ \E r \in Workers \cup {Runner} : Return(r) /\ UNCHANGED batchVars
    \/ TakeDown /\ UNCHANGED batchVars

BatchSpec == RequesterInit /\ BatchInit /\ [][BatchNext]_<<requesterVars, batchVars>>

----------------------------------------------------------------------------

Ended(outcome, v) == {x \in DOMAIN outcome : outcome[x] = v}

(* What ExecCommandMulti and RunScript report when they return adds up,    *)
(* also when agents answer in any order, are named twice, or the manager   *)
(* shuts down half way: every agent has a result that one of its own       *)
(* requests produced, the counts are those of the requests, and the status *)
(* says success exactly when nothing failed (app.go:463-499, 911-920).     *)
BatchesAccounted ==
    /\ multiStatus # "none" =>
         /\ \A w \in Workers : \E x \in Workers :
              agentIDs[x] = agentIDs[w] /\ workerOutcome[x] # "none" /\ results[agentIDs[w]] = workerOutcome[x]
         /\ succeeded = Cardinality(Ended(workerOutcome, "ok"))
         /\ failed = Cardinality(Ended(workerOutcome, "bad"))
         /\ succeeded + failed = Fanout
         /\ (multiStatus = "success") = (Ended(workerOutcome, "bad") = {})
         /\ (multiStatus = "error") = (Ended(workerOutcome, "ok") = {})
    /\ scriptStatus # "none" =>
         /\ successCount = Cardinality(Ended(lineOutcome, "ok"))
         /\ successCount + failedCount
              = Cardinality({i \in 1..ScriptLines : lines[i] # "skipped"})
         /\ (scriptStatus = "success") = (Ended(lineOutcome, "bad") = {})

============================================================================
