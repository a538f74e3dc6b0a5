------------------------------ MODULE IPGuard ------------------------------
(***************************************************************************)
(* The per-address connection guard of the agent                           *)
(* (agent/internal/server/ipguard.go).  Every method of ipGuard runs under *)
(* its mutex, so each one is one action.  The guard counts the live        *)
(* connections of an address and its failed authentications, and refuses   *)
(* new connections from an address that fails too often.                   *)
(*                                                                         *)
(* Time is a counter that only moves forward.  It starts at 1, so that the *)
(* value 0 is the zero time.Time of a record that never blocked anything.  *)
(***************************************************************************)
EXTENDS Integers, FiniteSets

CONSTANTS
    IPs,          \* the remote addresses
    MaxActive,    \* MaxConnsPerIP
    MaxFailures,  \* MaxAuthFailuresPerIP
    Window,       \* AuthFailureWindow
    Block,        \* AuthBlockDuration
    PruneAt,      \* the size of the failure map from which fail() prunes it
    Horizon       \* bound of the model: the clock stops here

(* Block <= Window is true of the code (both are a minute) and it matters: *)
(* see BlockStands.                                                        *)
ASSUME GuardAssumption ==
    /\ MaxActive \in Nat \ {0}
    /\ MaxFailures \in Nat \ {0}
    /\ Window \in Nat
    /\ Block \in Nat \ {0}
    /\ Block <= Window
    /\ PruneAt \in Nat
    /\ Horizon \in Nat

VARIABLES
    now,       \* g.now()
    active,    \* g.active; an address that is not in the map counts 0
    failures   \* g.failures, a function whose domain is the map's key set

guardVars == <<now, active, failures>>

Time == Nat \ {0}

FailureRecord == [count : Nat, windowStart : Time, blockedUntil : Nat]

GuardTypeOK ==
    /\ now \in Time
    /\ active \in [IPs -> 0 .. MaxActive]
    /\ DOMAIN failures \subseteq IPs
    /\ \A ip \in DOMAIN failures : failures[ip] \in FailureRecord

GuardInit ==
    /\ now = 1
    /\ active = [ip \in IPs |-> 0]
    /\ failures = [ip \in {} |-> 0]

----------------------------------------------------------------------------

(* now.Before(rec.blockedUntil) for the address's record, if it has one.   *)
Blocked(ip) == ip \in DOMAIN failures /\ now < failures[ip].blockedUntil

(* Mutant: the limit of connections per address is forgotten.              *)
CanAdmitMutant(ip) == ~Blocked(ip)

CanAdmit(ip) == ~Blocked(ip) /\ active[ip] < MaxActive

(* admit returning true: a slot is reserved.                               *)
Admit(ip) ==
    /\ CanAdmit(ip)
    /\ active' = [active EXCEPT ![ip] = @ + 1]
    /\ UNCHANGED <<now, failures>>

(* release: the count never goes below the empty map entry.                *)
Release(ip) ==
    /\ active' = [active EXCEPT ![ip] = IF @ <= 1 THEN 0 ELSE @ - 1]
    /\ UNCHANGED <<now, failures>>

(* Mutant: pruning drops a record as soon as its window or its block is    *)
(* over, instead of both.                                                  *)
KeptMutant ==
    IF Cardinality(DOMAIN failures) < PruneAt
    THEN DOMAIN failures
    ELSE {ip \in DOMAIN failures :
            /\ now <= failures[ip].blockedUntil
            /\ now - failures[ip].windowStart <= Window}

(* pruneLocked keeps everything while the map is small, and otherwise what *)
(* still blocks or still counts.                                           *)
Kept ==
    IF Cardinality(DOMAIN failures) < PruneAt
    THEN DOMAIN failures
    ELSE {ip \in DOMAIN failures :
            \/ now <= failures[ip].blockedUntil
            \/ now - failures[ip].windowStart <= Window}

(* The record fail() counts in: the address's own, or a fresh one when it  *)
(* has none left or its window is over.                                    *)
CurrentRecord(ip) ==
    IF ip \in Kept /\ now - failures[ip].windowStart <= Window
    THEN failures[ip]
    ELSE [count |-> 0, windowStart |-> now, blockedUntil |-> 0]

(* Mutant: the trip comes one failure late.                                *)
CountFailureLate(rec) ==
    IF rec.count + 1 > MaxFailures
    THEN [count |-> 0, windowStart |-> now, blockedUntil |-> now + Block]
    ELSE [rec EXCEPT !.count = @ + 1]

(* Mutant: the trip does not start a new window.                           *)
CountFailureSameWindow(rec) ==
    IF rec.count + 1 >= MaxFailures
    THEN [rec EXCEPT !.count = 0, !.blockedUntil = now + Block]
    ELSE [rec EXCEPT !.count = @ + 1]

(* rec.count++, and the trip at the limit.                                 *)
CountFailure(rec) ==
    IF rec.count + 1 >= MaxFailures
    THEN [count |-> 0, windowStart |-> now, blockedUntil |-> now + Block]
    ELSE [rec EXCEPT !.count = @ + 1]

(* fail: prune, count, and block at the limit.                             *)
Fail(ip) ==
    /\ failures' = [i \in Kept \cup {ip} |->
                      IF i = ip THEN CountFailure(CurrentRecord(ip)) ELSE failures[i]]
    /\ UNCHANGED <<now, active>>

(* succeed: delete(g.failures, ip).                                        *)
Succeed(ip) ==
    /\ failures' = [i \in DOMAIN failures \ {ip} |-> failures[i]]
    /\ UNCHANGED <<now, active>>

Tick ==
    /\ now < Horizon
    /\ now' = now + 1
    /\ UNCHANGED <<active, failures>>

(* The contract of release is the caller's: it frees "a slot previously    *)
(* granted by admit".  AgentServer is shown to keep it.                    *)
GuardNext ==
    \/ \E ip \in IPs :
         \/ Admit(ip)
         \/ active[ip] > 0 /\ Release(ip)
         \/ Fail(ip)
         \/ Succeed(ip)
    \/ Tick

GuardSpec == GuardInit /\ [][GuardNext]_guardVars

----------------------------------------------------------------------------

(* What a record satisfies between calls.  A block never outlives the      *)
(* window it was imposed in; with Block <= Window this is why the renewal  *)
(* of an expired window and the pruning cannot lift a block that stands.   *)
RecordsConsistent ==
    \A ip \in DOMAIN failures :
        /\ failures[ip].count < MaxFailures
        /\ failures[ip].windowStart <= now
        /\ failures[ip].blockedUntil <= failures[ip].windowStart + Block

(* An address that is refused stays refused for the whole block: fail() on *)
(* its open connections, the renewal of its window and the pruning of the  *)
(* map (ipguard.go:83-100, 111-120) never shorten a block that stands.      *)
(* Only succeed() - the right token from that same address - lifts it.     *)
BlockStands ==
    [][\A ip \in IPs :
         Blocked(ip) =>
            \/ Succeed(ip)
            \/ /\ ip \in DOMAIN failures'
               /\ failures'[ip].blockedUntil >= failures[ip].blockedUntil]_guardVars

============================================================================
