----------------------------- MODULE AtomicFile -----------------------------
(***************************************************************************)
(* What an upload promises of the destination file: its content is what it *)
(* was before, or the whole content of one transfer; it changes in one     *)
(* step, at most once per transfer; and a transfer reported as successful  *)
(* has been committed.  A transfer reported as failed may have been        *)
(* committed too, or may still be: the answer to its last chunk can be     *)
(* lost.                                                                   *)
(***************************************************************************)
CONSTANTS Transfers, Old

VARIABLES
    file,        \* whose content the destination has: Old or a transfer's
    committed,   \* the transfers that replaced it so far
    result       \* what the user was told of each transfer

Init ==
    /\ file = Old
    /\ committed = {}
    /\ result = [t \in Transfers |-> "pending"]

Commit(t) ==
    /\ t \notin committed
    /\ file' = t
    /\ committed' = committed \cup {t}
    /\ UNCHANGED result

Report(t, verdict) ==
    /\ result[t] = "pending"
    /\ verdict = "ok" => t \in committed
    /\ result' = [result EXCEPT ![t] = verdict]
    /\ UNCHANGED <<file, committed>>

Next ==
    \E t \in Transfers :
        \/ Commit(t)
        \/ \E verdict \in {"ok", "failed"} : Report(t, verdict)

Spec == Init /\ [][Next]_<<file, committed, result>>

=============================================================================
