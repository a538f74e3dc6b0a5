----------------------------- MODULE MCIPGuard -----------------------------
(***************************************************************************)
(* The guard with a history variable: for every address, the times of the  *)
(* failed authentications since it last authenticated or was last blocked. *)
(***************************************************************************)
EXTENDS IPGuard, Sequences

VARIABLE recent

historyVars == <<now, active, failures, recent>>

HistoryInit == GuardInit /\ recent = [ip \in IPs |-> <<>>]

HistoryFail(ip) ==
    /\ Fail(ip)
    /\ recent' = [recent EXCEPT ![ip] =
                    IF failures'[ip].count = 0 THEN <<>> ELSE Append(@, now)]

HistorySucceed(ip) ==
    /\ Succeed(ip)
    /\ recent' = [recent EXCEPT ![ip] = <<>>]

HistoryNext ==
    \/ \E ip \in IPs :
         \/ Admit(ip) /\ UNCHANGED recent
         \/ active[ip] > 0 /\ Release(ip) /\ UNCHANGED recent
         \/ HistoryFail(ip)
         \/ HistorySucceed(ip)
    \/ Tick /\ UNCHANGED recent

HistorySpec == HistoryInit /\ [][HistoryNext]_historyVars

(* The failures of an address that fall into the last Window time units,   *)
(* by their positions in its history.                                      *)
InWindow(ip) == {i \in DOMAIN recent[ip] : now - recent[ip][i] <= Window}

(* How many failures the guard really tolerates.  Failures are counted in  *)
(* windows that start at a failure (ipguard.go:89-93), not in every period *)
(* of that length, so an address can put twice the limit, less two, into   *)
(* one period before it is refused - and never one more, whatever the      *)
(* pruning and the renewal of the window do.  The comment on               *)
(* MaxAuthFailuresPerIP (ipguard.go:13-15) reads as if the limit itself    *)
(* were the bound of every such period.                                    *)
ToleratedFailures == \A ip \in IPs : Cardinality(InWindow(ip)) <= 2 * (MaxFailures - 1)

============================================================================
