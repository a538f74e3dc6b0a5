----------------------------- MODULE MCServices ----------------------------
(***************************************************************************)
(* The services of the control center and of the agent that keep state of  *)
(* their own.  They share no variable (Application and Batches share the   *)
(* contract of SendRequest, Requester), so nothing one of them does can    *)
(* make a property of another true or false: each behaviour exercises one  *)
(* of them, chosen in the initial state.                                   *)
(***************************************************************************)
EXTENDS Application, Batches, ScriptStore, SessionStore, DBBackup, AgentAudit, AuditLog,
        DirListing, Executor, Discovery

(* The calls of the transfers are not those of the batches.                *)
ASSUME CallersAssumption == Transfers \cap (Workers \cup {Runner}) = {}

VARIABLE part   \* the service that is exercised

serviceVars == <<part, requesterVars, appVars, batchVars, scriptVars, sessionVars, backupVars,
                 agentAuditVars, auditLogVars, listVars, execVars, discoveryVars>>

Parts == {"app", "batches", "scripts", "sessions", "backup", "agentaudit", "auditlog",
          "listing", "executor", "discovery"}

(* Exit codes: success, an error of the command's own, and a signal.       *)
SomeExitCodes == {0, 3, Killed}

(* One that is not exercised begins in one initial state only.             *)
ServicesInit ==
    /\ part \in Parts
    /\ RequesterInit /\ AppInit /\ BatchInit /\ ScriptInit /\ AgentAuditInit /\ AuditLogInit /\ ExecInit
    /\ DiscoveryInit
    /\ SessionInit
    /\ part # "sessions" => /\ \A e \in Endpoints : truth[e] = NoToken
                            /\ recent[1] = CHOOSE e \in Endpoints : TRUE
    /\ BackupInit
    /\ part # "backup" => content = Absent
    /\ ListInit
    /\ part # "listing" => dir = {}

ServicesNext ==
    \/ /\ part = "app" /\ AppNext
       /\ UNCHANGED <<part, batchVars, scriptVars, sessionVars, backupVars, agentAuditVars,
                      auditLogVars, listVars, execVars, discoveryVars>>
    \/ /\ part = "batches" /\ BatchNext
       /\ UNCHANGED <<part, appVars, scriptVars, sessionVars, backupVars, agentAuditVars,
                      auditLogVars, listVars, execVars, discoveryVars>>
    \/ /\ part = "scripts" /\ ScriptNext
       /\ UNCHANGED <<part, requesterVars, appVars, batchVars, sessionVars, backupVars,
                      agentAuditVars, auditLogVars, listVars, execVars, discoveryVars>>
    \/ /\ part = "sessions" /\ SessionNext
       /\ UNCHANGED <<part, requesterVars, appVars, batchVars, scriptVars, backupVars,
                      agentAuditVars, auditLogVars, listVars, execVars, discoveryVars>>
    \/ /\ part = "backup" /\ BackupNext
       /\ UNCHANGED <<part, requesterVars, appVars, batchVars, scriptVars, sessionVars,
                      agentAuditVars, auditLogVars, listVars, execVars, discoveryVars>>
    \/ /\ part = "agentaudit" /\ AgentAuditNext
       /\ UNCHANGED <<part, requesterVars, appVars, batchVars, scriptVars, sessionVars, backupVars,
                      auditLogVars, listVars, execVars, discoveryVars>>
    \/ /\ part = "auditlog" /\ AuditLogNext
       /\ UNCHANGED <<part, requesterVars, appVars, batchVars, scriptVars, sessionVars, backupVars,
                      agentAuditVars, listVars, execVars, discoveryVars>>
    \/ /\ part = "listing" /\ ListNext
       /\ UNCHANGED <<part, requesterVars, appVars, batchVars, scriptVars, sessionVars, backupVars,
                      agentAuditVars, auditLogVars, execVars, discoveryVars>>
    \/ /\ part = "executor" /\ ExecNext
       /\ UNCHANGED <<part, requesterVars, appVars, batchVars, scriptVars, sessionVars, backupVars,
                      agentAuditVars, auditLogVars, listVars, discoveryVars>>
    \/ /\ part = "discovery" /\ DiscoveryNext
       /\ UNCHANGED <<part, requesterVars, appVars, batchVars, scriptVars, sessionVars, backupVars,
                      agentAuditVars, auditLogVars, listVars, execVars>>

(* Transfers that have begun are run, their requests return (which         *)
(* PendingRequests implements), and shutdown goes on once called.          *)
AppFairness ==
    /\ \A t \in Transfers :
         /\ WF_<<requesterVars, appVars>>(part = "app" /\ Transferring(t))
         /\ WF_<<requesterVars, appVars>>(part = "app" /\ Return(t) /\ UNCHANGED appVars)
    /\ WF_<<requesterVars, appVars>>(part = "app" /\ ShutsDown)

(* Execute runs and time passes; the command need not do anything.         *)
ExecFairness ==
    /\ WF_execVars(part = "executor" /\ Executes)
    /\ WF_execVars(part = "executor" /\ DeadlinePasses)

ServicesSpec ==
    ServicesInit /\ [][ServicesNext]_serviceVars /\ AppFairness /\ ExecFairness

============================================================================
