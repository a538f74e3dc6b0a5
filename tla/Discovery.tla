----------------------------- MODULE Discovery -----------------------------
(***************************************************************************)
(* Agents found by mDNS and what the application does about them           *)
(* (control-center/backend/discovery/discover.go; onAgentDiscovered,       *)
(* savedOptionsFor, the restoring of sessions and the end of shutdown in   *)
(* control-center/app.go).                                                 *)
(*                                                                         *)
(* Each scan has a goroutine that handles its entries one by one.  A       *)
(* handler is in the application's callback while it connects, so it       *)
(* outlives its scan, the next one, and Stop.  How ConnectWithOptions      *)
(* works is in ClientManager: here it succeeds or fails, and adds nothing  *)
(* once the manager is down.  Sessions do not change here (SessionStore).  *)
(***************************************************************************)
EXTENDS Naturals, Sequences

CONSTANTS
    Announcers,     \* agents, by address, that may answer on the network
    Restored,       \* those with a saved session
    Scans,          \* bound: scans whose handlers overlap
    entriesCap,     \* capacity of entriesCh
    Nil             \* no scan; no entry

(* No scan and no entry is an agent.                                       *)
ASSUME DiscoveryAssumption == Nil \notin Announcers

VARIABLES
    known,          \* d.known
    stopCh,         \* closed by Stop
    looppc,         \* loop: "scanning", "querying", "ticking" or "ended"
    query,          \* the scan whose query is under way
    entriesCh,      \* scan: entries not handled yet
    handlerpc,      \* its handler: "off", "taking", "listing", "loading" or "connecting"
    entry,          \* the entry in its hands
    options,        \* the options it connects with: "saved" or "anonymous"
    managed,        \* the endpoints of m.agents, connected or not
    managerDown,    \* CloseAll has run
    restoring,      \* startup: the sessions still to be connected
    restorepc,      \* "loading" or "connecting"
    reported,       \* how often the callback was called for an agent, history
    met,            \* what came of it: "none", "managed", "saved" or "anonymous"; history
    unloaded        \* a handler could not load the sessions, history

discoveryVars == <<known, stopCh, looppc, query, entriesCh, handlerpc, entry, options, managed,
                   managerDown, restoring, restorepc, reported, met, unloaded>>
scanVars == <<looppc, query>>
handlerVars == <<known, entriesCh, handlerpc, entry, options, reported, met, unloaded>>
restoreVars == <<restoring, restorepc>>

DiscoveryInit ==
    /\ known = {}
    /\ stopCh = FALSE
    /\ looppc = "scanning" /\ query = Nil
    /\ entriesCh = [s \in Scans |-> <<>>]
    /\ handlerpc = [s \in Scans |-> "off"]
    /\ entry = [s \in Scans |-> Nil]
    /\ options = [s \in Scans |-> "anonymous"]
    /\ managed = {} /\ managerDown = FALSE
    /\ restoring = {} /\ restorepc = "loading"
    /\ reported = [a \in Announcers |-> 0]
    /\ met = [a \in Announcers |-> "none"]
    /\ unloaded = FALSE

----------------------------------------------------------------------------
(* loop and scan                                                           *)

ScanBegins(s) ==
    /\ looppc = "scanning" /\ handlerpc[s] = "off"
    /\ looppc' = "querying"
    /\ query' = s
    /\ handlerpc' = [handlerpc EXCEPT ![s] = "taking"]
    /\ UNCHANGED <<known, stopCh, entriesCh, entry, options, managed, managerDown,
                   restoreVars, reported, met, unloaded>>

(* An agent answers; the library drops the entry when the channel is full. *)
AgentAnnounces(a) ==
    /\ looppc = "querying" /\ Len(entriesCh[query]) < entriesCap
    /\ entriesCh' = [entriesCh EXCEPT ![query] = Append(@, a)]
    /\ UNCHANGED <<known, stopCh, scanVars, handlerpc, entry, options, managed, managerDown, restoreVars, reported, met, unloaded>>

(* The query is over: the channel is closed.                               *)
QueryEnds ==
    /\ looppc = "querying"
    /\ looppc' = "ticking"
    /\ query' = Nil
    /\ UNCHANGED <<stopCh, handlerVars, managed, managerDown, restoreVars>>

TickerFires ==
    /\ looppc = "ticking"
    /\ looppc' = "scanning"
    /\ UNCHANGED <<stopCh, query, handlerVars, managed, managerDown, restoreVars>>

LoopEnds ==
    /\ looppc = "ticking" /\ stopCh
    /\ looppc' = "ended"
    /\ UNCHANGED <<stopCh, query, handlerVars, managed, managerDown, restoreVars>>

----------------------------------------------------------------------------
(* A scan's handler: handleEntry and the callback, onAgentDiscovered       *)

HandlerMoves(s, from, to) ==
    /\ handlerpc[s] = from
    /\ handlerpc' = [handlerpc EXCEPT ![s] = to]

(* Mutant: an agent is remembered only if the manager has it already.      *)
HandleEntryMutant(s) ==
    /\ entriesCh[s] # <<>>
    /\ entriesCh' = [entriesCh EXCEPT ![s] = Tail(@)]
    /\ LET a == Head(entriesCh[s]) IN
         IF a \in known
         THEN handlerpc[s] = "taking" /\ UNCHANGED <<known, handlerpc, entry, reported>>
         ELSE /\ HandlerMoves(s, "taking", "listing")
              /\ known' = known \cup ({a} \cap managed)
              /\ entry' = [entry EXCEPT ![s] = a]
              /\ reported' = [reported EXCEPT ![a] = IF @ < 2 THEN @ + 1 ELSE @]
    /\ UNCHANGED <<stopCh, scanVars, options, managed, managerDown, restoreVars, met, unloaded>>

(* The look at known and the mark are one critical section.                *)
HandleEntry(s) ==
    /\ entriesCh[s] # <<>>
    /\ entriesCh' = [entriesCh EXCEPT ![s] = Tail(@)]
    /\ LET a == Head(entriesCh[s]) IN
         IF a \in known
         THEN handlerpc[s] = "taking" /\ UNCHANGED <<known, handlerpc, entry, reported>>
         ELSE /\ HandlerMoves(s, "taking", "listing")
              /\ known' = known \cup {a}
              /\ entry' = [entry EXCEPT ![s] = a]
              /\ reported' = [reported EXCEPT ![a] = @ + 1]
    /\ UNCHANGED <<stopCh, scanVars, options, managed, managerDown, restoreVars, met, unloaded>>

HandlerEnds(s) ==
    /\ entriesCh[s] = <<>> /\ query # s
    /\ HandlerMoves(s, "taking", "off")
    /\ UNCHANGED <<known, stopCh, scanVars, entriesCh, entry, options, managed, managerDown, restoreVars, reported, met, unloaded>>

(* An agent the manager has, connected or not, is left alone.              *)
ListsAgents(s) ==
    /\ IF entry[s] \in managed
       THEN /\ HandlerMoves(s, "listing", "taking")
            /\ met' = [met EXCEPT ![entry[s]] = "managed"]
            /\ entry' = [entry EXCEPT ![s] = Nil]
       ELSE HandlerMoves(s, "listing", "loading") /\ UNCHANGED <<met, entry>>
    /\ UNCHANGED <<known, stopCh, scanVars, entriesCh, options, managed, managerDown, restoreVars, reported, unloaded>>

(* savedOptionsFor: LoadAll fails as a whole, and then there are none.     *)
LoadsOptions(s) ==
    /\ HandlerMoves(s, "loading", "connecting")
    /\ \/ /\ options' = [options EXCEPT ![s] = IF entry[s] \in Restored THEN "saved" ELSE "anonymous"]
          /\ UNCHANGED unloaded
       \/ /\ options' = [options EXCEPT ![s] = "anonymous"]
          /\ unloaded' = TRUE
    /\ UNCHANGED <<known, stopCh, scanVars, entriesCh, entry, managed, managerDown,
                   restoreVars, reported, met>>

Connects(a) == managed' \in {managed, IF managerDown THEN managed ELSE managed \cup {a}}

(* Whatever comes of it, the agent is not tried again.                     *)
AutoConnects(s) ==
    /\ HandlerMoves(s, "connecting", "taking")
    /\ Connects(entry[s])
    /\ met' = [met EXCEPT ![entry[s]] = options[s]]
    /\ entry' = [entry EXCEPT ![s] = Nil]
    /\ options' = [options EXCEPT ![s] = "anonymous"]
    /\ UNCHANGED <<known, stopCh, scanVars, entriesCh, managerDown,
                   restoreVars, reported, unloaded>>

----------------------------------------------------------------------------
(* The rest of the application                                             *)

(* startup restores the sessions in the background, one after the other.   *)
RestoreLoads ==
    /\ restorepc = "loading"
    /\ restorepc' = "connecting"
    /\ restoring' \in {{}, Restored}
    /\ UNCHANGED <<stopCh, scanVars, handlerVars, managed, managerDown>>

RestoreConnects(a) ==
    /\ a \in restoring
    /\ restoring' = restoring \ {a}
    /\ Connects(a)
    /\ UNCHANGED <<stopCh, scanVars, handlerVars, managerDown, restorepc>>

(* shutdown: Stop, then CloseAll.                                          *)
DiscoveryStops ==
    /\ ~stopCh
    /\ stopCh' = TRUE
    /\ UNCHANGED <<scanVars, handlerVars, managed, managerDown, restoreVars>>

ManagerCloses ==
    /\ stopCh /\ ~managerDown
    /\ managerDown' = TRUE
    /\ managed' = {}
    /\ UNCHANGED <<stopCh, scanVars, handlerVars, restoreVars>>

Handling(s) ==
    HandleEntry(s) \/ HandlerEnds(s) \/ ListsAgents(s) \/ LoadsOptions(s) \/ AutoConnects(s)

DiscoveryNext ==
    \/ \E s \in Scans : ScanBegins(s) \/ Handling(s)
    \/ QueryEnds \/ TickerFires \/ LoopEnds
    \/ RestoreLoads
    \/ \E a \in Announcers :
         AgentAnnounces(a) \/ RestoreConnects(a)
    \/ DiscoveryStops \/ ManagerCloses

DiscoverySpec == DiscoveryInit /\ [][DiscoveryNext]_discoveryVars

----------------------------------------------------------------------------

(* However scans, restored sessions and shutdown overlap: each agent is    *)
(* reported at most once, although its entries keep coming; one that was   *)
(* reported is in the hands of one handler or was dealt with, and no other *)
(* is; and one that has a saved session is not approached without it       *)
(* unless the sessions could not be loaded (discover.go:127-148,           *)
(* app.go:200-254).                                                        *)
MetOnce ==
    \A a \in Announcers :
        LET handled == {s \in Scans : entry[s] = a}
        IN  /\ reported[a] = IF a \in known THEN 1 ELSE 0
            /\ \A s, t \in handled : s = t
            /\ a \in known <=> (handled # {} \/ met[a] # "none")
            /\ handled # {} => met[a] = "none"
            /\ met[a] = "anonymous" /\ a \in Restored => unloaded

============================================================================
