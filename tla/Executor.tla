------------------------------ MODULE Executor -----------------------------
(***************************************************************************)
(* Running one command on the agent (Execute, configureProcessTree and     *)
(* cappedWriter of agent/internal/executor).                               *)
(*                                                                         *)
(* The shell may leave processes behind that hold its output pipes: in its *)
(* process group, which the deadline kills, or in one of their own.        *)
(* Start, Wait and the watching of the context are os/exec's (external):   *)
(* Run returns when the shell has ended and its pipes are closed, or       *)
(* WaitDelay after the shell ended.                                        *)
(***************************************************************************)
EXTENDS Integers

CONSTANTS
    MaxOutputSize,
    ExitCodes       \* what a shell may end with

Killed == -1        \* ProcessState.ExitCode() of a process a signal ended

(* A shell that ended by itself has a code of 0 or more.                   *)
ASSUME ExecAssumption == MaxOutputSize \in Nat /\ ExitCodes \subseteq Nat \cup {Killed}

VARIABLES
    shell,      \* "none", "running" or "ended"
    shellCode,  \* what it ended with
    killed,     \* the deadline's kill ended it
    holders,    \* processes left that hold the pipes: "group", "detached"
    over,       \* the deadline has passed: ctx.Err() # nil
    cancelled,  \* os/exec has called Cancel
    runpc,      \* Run: "off", "waiting", "draining", "returned"; then "reported"
    runErr,     \* what Run returned: "nil", "exit", "context", "delay", "copy" or "start"
    copyStopped, \* the copying of the output stopped with an error
    total,      \* cappedWriter.total
    exitCode    \* what Execute reports

execVars == <<shell, shellCode, killed, holders, over, cancelled, runpc, runErr, copyStopped, total, exitCode>>

ExecInit ==
    /\ shell = "none" /\ shellCode = 0 /\ killed = FALSE
    /\ holders = {}
    /\ over = FALSE /\ cancelled = FALSE
    /\ runpc = "off" /\ runErr = "nil"
    /\ copyStopped = FALSE
    /\ total = 0
    /\ exitCode = 0

----------------------------------------------------------------------------
(* The processes                                                           *)

StartsShell ==
    /\ runpc = "off"
    /\ runpc' = "waiting"
    /\ shell' = "running"
    /\ UNCHANGED <<shellCode, killed, holders, over, cancelled, runErr, copyStopped, total, exitCode>>

CannotStart ==
    /\ runpc = "off"
    /\ runpc' = "returned"
    /\ runErr' = "start"
    /\ UNCHANGED <<shell, shellCode, killed, holders, over, cancelled, copyStopped, total, exitCode>>

Forks(kind) ==
    /\ shell = "running"
    /\ holders' = holders \cup {kind}
    /\ UNCHANGED <<shell, shellCode, killed, over, cancelled, runpc, runErr, copyStopped, total, exitCode>>

ChildEnds(kind) ==
    /\ kind \in holders
    /\ holders' = holders \ {kind}
    /\ UNCHANGED <<shell, shellCode, killed, over, cancelled, runpc, runErr, copyStopped, total, exitCode>>

ShellEnds ==
    /\ shell = "running"
    /\ shell' = "ended"
    /\ shellCode' \in ExitCodes
    /\ UNCHANGED <<killed, holders, over, cancelled, runpc, runErr, copyStopped, total, exitCode>>

(* Mutant: the writer reports how much it kept.                            *)
ReportedMutant(n) == IF n > MaxOutputSize - total THEN MaxOutputSize - total ELSE n

(* cappedWriter keeps what fits and reports all of it as written; fewer    *)
(* than offered would end the copying with ErrShortWrite.                  *)
Reported(n) == n

Output(n) ==
    /\ runpc \in {"waiting", "draining"}
    /\ shell = "running" \/ holders # {}
    /\ ~copyStopped
    /\ total' = IF n > MaxOutputSize - total THEN MaxOutputSize ELSE total + n
    /\ copyStopped' = (Reported(n) < n)
    /\ UNCHANGED <<shell, shellCode, killed, holders, over, cancelled, runpc, runErr, exitCode>>

----------------------------------------------------------------------------
(* Run                                                                     *)

DeadlinePasses ==
    /\ runpc \notin {"off", "reported"} /\ ~over
    /\ over' = TRUE
    /\ UNCHANGED <<shell, shellCode, killed, holders, cancelled, runpc, runErr, copyStopped, total, exitCode>>

(* While Wait has not returned, the deadline kills the whole group, or     *)
(* only the shell when the group cannot be killed.                         *)
CancelKills ==
    /\ runpc = "waiting" /\ over /\ ~cancelled
    /\ cancelled' = TRUE
    /\ IF shell = "running"
       THEN shell' = "ended" /\ shellCode' = Killed /\ killed' = TRUE
       ELSE UNCHANGED <<shell, shellCode, killed>>
    /\ holders' \in {holders \ {"group"}, holders}
    /\ UNCHANGED <<over, runpc, runErr, copyStopped, total, exitCode>>

(* A Cancel that came after the shell ended by itself counts, unless it    *)
(* found nothing to kill any more (os.ErrProcessDone).                     *)
WaitReturns ==
    /\ runpc = "waiting" /\ shell = "ended"
    /\ runpc' = "draining"
    /\ runErr' \in IF shellCode # 0 THEN {"exit"} ELSE IF cancelled THEN {"context", "nil"} ELSE {"nil"}
    /\ UNCHANGED <<shell, shellCode, killed, holders, over, cancelled, copyStopped, total, exitCode>>

RunReturns(late) ==
    /\ runpc = "draining"
    /\ runpc' = "returned"
    /\ runErr' = IF runErr = "nil" THEN late ELSE runErr
    /\ UNCHANGED <<shell, shellCode, killed, holders, over, cancelled, copyStopped, total, exitCode>>

PipesClosed == holders = {} /\ RunReturns(IF copyStopped THEN "copy" ELSE "nil")

(* Mutant: no WaitDelay is set.                                            *)
DelayEndsMutant == FALSE /\ RunReturns("delay")

(* WaitDelay is over: os/exec closes the pipes.                            *)
DelayEnds == holders # {} /\ RunReturns("delay")

----------------------------------------------------------------------------

(* The exit code Execute makes of the error, which may come after the      *)
(* deadline although the shell did not.                                    *)
Reports ==
    /\ runpc = "returned"
    /\ runpc' = "reported"
    /\ exitCode' = CASE runErr = "nil"            -> 0
                     [] runErr # "nil" /\ over    -> -1
                     [] runErr \in {"exit", "delay"} /\ ~over -> shellCode
                     [] OTHER                     -> -2
    /\ UNCHANGED <<shell, shellCode, killed, holders, over, cancelled, runErr, copyStopped, total>>

Executes == CancelKills \/ WaitReturns \/ PipesClosed \/ DelayEnds \/ Reports

ExecNext ==
    \/ StartsShell \/ CannotStart \/ ShellEnds
    \/ \E kind \in {"group", "detached"} : Forks(kind) \/ ChildEnds(kind)
    \/ \E n \in 1..2 : Output(n)
    \/ DeadlinePasses
    \/ Executes

ExecSpec == ExecInit /\ [][ExecNext]_execVars

----------------------------------------------------------------------------

(* The code tells the truth about the shell: 0 only when it ended by       *)
(* itself with 0, -1 only after the deadline or a signal, -2 only when it  *)
(* could not be started; any other code is its own, whatever it printed    *)
(* and left running, and whatever the deadline's kill reached              *)
(* (executor.go:60-74, 110-126, proctree_unix.go:10-23).                   *)
CodeIsHonest ==
    runpc = "reported" =>
        /\ exitCode = 0 => shell = "ended" /\ shellCode = 0 /\ ~killed
        /\ exitCode = -1 => over \/ shellCode = Killed
        /\ exitCode = -2 => shell = "none"
        /\ exitCode \notin {-1, -2} => exitCode = shellCode

(* Every command comes to an end, also one that never ends by itself and   *)
(* leaves processes that the kill does not reach (executor.go:44-57).      *)
ExecuteReturns == runpc = "waiting" ~> runpc = "reported"

============================================================================
