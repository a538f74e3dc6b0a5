--------------------------- MODULE ClientManager ---------------------------
(***************************************************************************)
(* Connection lifecycles in the control center                             *)
(* (control-center/backend/client/client.go): Connect, the read pump of    *)
(* each socket, automatic reconnection, Disconnect and CloseAll, all       *)
(* running concurrently.  The heartbeat only writes keep_alive frames and  *)
(* touches none of this state; it is left out, like the contents of the    *)
(* messages a read pump receives.                                          *)
(*                                                                         *)
(* A logical agent is identified with the ConnectWithOptions call that     *)
(* creates it.  Its sockets are its generations 1, 2, ...: Connect opens   *)
(* the first, and the reconnect started by the read pump of generation g   *)
(* opens g + 1.  A step is what runs under one hold of Manager.mu or       *)
(* AgentConnection.stateMu, or one operation on a socket.                  *)
(***************************************************************************)
EXTENDS Integers, FiniteSets

CONSTANTS
    Agents,       \* ConnectWithOptions calls, and the agents they create
    Endpoint,     \* the host:port each of them is for
    MaxRetries,   \* maxReconnectRetries
    MaxGen        \* bound of the model: sockets of one agent

ASSUME ManagerAssumption ==
    /\ MaxRetries \in Nat \ {0}
    /\ MaxGen \in Nat \ {0}

Gens == 1 .. MaxGen

VARIABLES
    agents,       \* m.agents
    globalDone,   \* m.globalCtx is cancelled
    connected,    \* info.Connected
    generation,   \* ac.generation; 0 before Connect has built the agent
    stopped,      \* ac.closed, and ac.cancelCtx with it
    sock,         \* the socket of a generation: "none", "open" or "closed"
    cpc,          \* Connect
    pump,         \* readPump of a generation
    rpc, tries,   \* reconnect after the failure of a generation, its failed attempts
    dpc,          \* Disconnect, or CloseAll's turn, of an agent
    apc, closing  \* CloseAll, the agents it has turned to so far

state == <<connected, generation, stopped>>
all == <<apc, closing>>
vars == <<agents, globalDone, state, sock, cpc, pump, rpc, tries, dpc, all>>

TypeOK ==
    /\ agents \subseteq Agents
    /\ globalDone \in BOOLEAN
    /\ connected \in [Agents -> BOOLEAN]
    /\ generation \in [Agents -> 0 .. MaxGen]
    /\ stopped \in [Agents -> BOOLEAN]
    /\ sock \in [Agents -> [Gens -> {"none", "open", "closed"}]]
    /\ cpc \in [Agents -> {"idle", "dialing", "shaken", "inserted", "returned"}]
    /\ pump \in [Agents -> [Gens -> {"off", "reading", "leaving", "closing", "done"}]]
    /\ rpc \in [Agents -> [Gens -> {"off", "check", "waiting", "dialing", "shaken",
                                    "installed", "giveUp", "done"}]]
    /\ tries \in [Agents -> [Gens -> 0 .. MaxRetries]]
    /\ dpc \in [Agents -> {"off", "queued", "removed", "stopped", "closed", "done"}]
    /\ apc \in {"off", "removed", "cancelled", "done"}
    /\ closing \subseteq Agents

Init ==
    /\ agents = {}
    /\ globalDone = FALSE
    /\ connected = [a \in Agents |-> FALSE]
    /\ generation = [a \in Agents |-> 0]
    /\ stopped = [a \in Agents |-> FALSE]
    /\ sock = [a \in Agents |-> [g \in Gens |-> "none"]]
    /\ cpc = [a \in Agents |-> "idle"]
    /\ pump = [a \in Agents |-> [g \in Gens |-> "off"]]
    /\ rpc = [a \in Agents |-> [g \in Gens |-> "off"]]
    /\ tries = [a \in Agents |-> [g \in Gens |-> 0]]
    /\ dpc = [a \in Agents |-> "off"]
    /\ apc = "off"
    /\ closing = {}

----------------------------------------------------------------------------

(* Mutant: an agent's context does not descend from the manager's.         *)
CancelledMutant(a) == stopped[a]

(* An agent's context is a child of the manager's.                         *)
Cancelled(a) == stopped[a] \/ globalDone

ShouldReconnect(a, g) == generation[a] = g /\ ~Cancelled(a)

(* Mutant: any generation takes the agent down.                            *)
MarkDisconnectedMutant(a, g) ==
    connected' = [connected EXCEPT ![a] = FALSE]

(* markDisconnected(generation) ignores a generation that was replaced.    *)
MarkDisconnected(a, g) ==
    connected' = [connected EXCEPT ![a] = IF generation[a] = g THEN FALSE ELSE @]

CloseSock(a, g) ==
    sock' = [sock EXCEPT ![a][g] = IF @ = "open" THEN "closed" ELSE @]

(* Another connected agent for the same endpoint is in the map.            *)
Existing(a) == \E b \in agents : Endpoint[b] = Endpoint[a] /\ connected[b]

----------------------------------------------------------------------------
(* ConnectWithOptions                                                      *)

ConnectCheck(a) ==
    /\ cpc[a] = "idle"
    /\ cpc' = [cpc EXCEPT ![a] = IF Existing(a) THEN "returned" ELSE "dialing"]
    /\ UNCHANGED <<agents, globalDone, state, sock, pump, rpc, tries, dpc, all>>

(* The dial or the handshake fails; a socket that was opened is closed.    *)
ConnectFails(a) ==
    /\ cpc[a] = "dialing"
    /\ cpc' = [cpc EXCEPT ![a] = "returned"]
    /\ UNCHANGED <<agents, globalDone, state, sock, pump, rpc, tries, dpc, all>>

ConnectShaken(a) ==
    /\ cpc[a] = "dialing"
    /\ cpc' = [cpc EXCEPT ![a] = "shaken"]
    /\ sock' = [sock EXCEPT ![a][1] = "open"]
    /\ UNCHANGED <<agents, globalDone, state, pump, rpc, tries, dpc, all>>

(* The second look under m.mu: another Connect won, or CloseAll began.     *)
ConnectGivesWay(a) ==
    /\ cpc[a] = "shaken"
    /\ Existing(a) \/ globalDone
    /\ cpc' = [cpc EXCEPT ![a] = "returned"]
    /\ CloseSock(a, 1)
    /\ UNCHANGED <<agents, globalDone, state, pump, rpc, tries, dpc, all>>

ConnectInsert(a) ==
    /\ cpc[a] = "shaken"
    /\ ~Existing(a)
    /\ ~globalDone
    /\ cpc' = [cpc EXCEPT ![a] = "inserted"]
    /\ agents' = agents \cup {a}
    /\ connected' = [connected EXCEPT ![a] = TRUE]
    /\ generation' = [generation EXCEPT ![a] = 1]
    /\ UNCHANGED <<globalDone, stopped, sock, pump, rpc, tries, dpc, all>>

StartPump(a, g) ==
    pump' = [pump EXCEPT ![a][g] = "reading"]

ConnectReturns(a) ==
    /\ cpc[a] = "inserted"
    /\ cpc' = [cpc EXCEPT ![a] = "returned"]
    /\ StartPump(a, 1)
    /\ UNCHANGED <<agents, globalDone, state, sock, rpc, tries, dpc, all>>

----------------------------------------------------------------------------

(* The select at the head of the loop, reached after a message.            *)
PumpSeesCancel(a, g) ==
    /\ pump[a][g] = "reading"
    /\ Cancelled(a)
    /\ pump' = [pump EXCEPT ![a][g] = "leaving"]
    /\ UNCHANGED <<agents, globalDone, state, sock, cpc, rpc, tries, dpc, all>>

(* Mutant: the loop goes on after it has started a reconnect.              *)
PumpReadErrorMutant(a, g) ==
    /\ pump[a][g] = "reading"
    /\ rpc' = [rpc EXCEPT ![a][g] = IF ShouldReconnect(a, g) THEN "check" ELSE @]
    /\ UNCHANGED <<agents, globalDone, state, sock, cpc, pump, tries, dpc, all>>

(* ReadMessage fails, whether the socket was closed on this side or the    *)
(* network, the agent or the read deadline ended it.  The reconnect is     *)
(* started before the deferred clean-up of this pump has run.              *)
PumpReadError(a, g) ==
    /\ pump[a][g] = "reading"
    /\ pump' = [pump EXCEPT ![a][g] = "leaving"]
    /\ rpc' = [rpc EXCEPT ![a][g] = IF ShouldReconnect(a, g) THEN "check" ELSE @]
    /\ UNCHANGED <<agents, globalDone, state, sock, cpc, tries, dpc, all>>

(* Mutant: the deferred markDisconnected is missing.                       *)
PumpLeavesMutant(a, g) ==
    /\ pump[a][g] = "leaving"
    /\ pump' = [pump EXCEPT ![a][g] = "closing"]
    /\ UNCHANGED <<agents, globalDone, state, sock, cpc, rpc, tries, dpc, all>>

PumpLeaves(a, g) ==
    /\ pump[a][g] = "leaving"
    /\ pump' = [pump EXCEPT ![a][g] = "closing"]
    /\ MarkDisconnected(a, g)
    /\ UNCHANGED <<agents, globalDone, generation, stopped, sock, cpc, rpc, tries, dpc, all>>

(* closeConn, then finish() closes the done channel.                       *)
PumpFinishes(a, g) ==
    /\ pump[a][g] = "closing"
    /\ pump' = [pump EXCEPT ![a][g] = "done"]
    /\ CloseSock(a, g)
    /\ UNCHANGED <<agents, globalDone, state, cpc, rpc, tries, dpc, all>>

----------------------------------------------------------------------------
(* reconnect after the failure of generation g                             *)

ReconnectChecks(a, g) ==
    /\ rpc[a][g] = "check"
    /\ rpc' = [rpc EXCEPT ![a][g] = IF ShouldReconnect(a, g) THEN "waiting" ELSE "done"]
    /\ UNCHANGED <<agents, globalDone, state, sock, cpc, pump, tries, dpc, all>>

(* The delay is over, or cut short by a cancellation.                      *)
ReconnectWakes(a, g) ==
    /\ rpc[a][g] = "waiting"
    /\ rpc' = [rpc EXCEPT ![a][g] = IF ShouldReconnect(a, g) THEN "dialing" ELSE "done"]
    /\ UNCHANGED <<agents, globalDone, state, sock, cpc, pump, tries, dpc, all>>

(* Mutant: one retry too many.                                             *)
ReconnectFailsMutant(a, g) ==
    /\ rpc[a][g] = "dialing"
    /\ tries' = [tries EXCEPT ![a][g] = @ + 1]
    /\ rpc' = [rpc EXCEPT ![a][g] = IF tries[a][g] = MaxRetries THEN "giveUp" ELSE "waiting"]
    /\ UNCHANGED <<agents, globalDone, state, sock, cpc, pump, dpc, all>>

ReconnectFails(a, g) ==
    /\ rpc[a][g] = "dialing"
    /\ tries' = [tries EXCEPT ![a][g] = @ + 1]
    /\ rpc' = [rpc EXCEPT ![a][g] = IF tries[a][g] + 1 = MaxRetries THEN "giveUp" ELSE "waiting"]
    /\ UNCHANGED <<agents, globalDone, state, sock, cpc, pump, dpc, all>>

(* dialerForHost fails, for instance because the CA file is gone.          *)
ReconnectUnconfigured(a, g) ==
    /\ rpc[a][g] = "dialing"
    /\ rpc' = [rpc EXCEPT ![a][g] = "done"]
    /\ UNCHANGED <<agents, globalDone, state, sock, cpc, pump, tries, dpc, all>>

(* The dial and the handshake succeed.  The handshake does not look at the *)
(* context, so this may come after a cancellation.                         *)
ReconnectShaken(a, g) ==
    /\ rpc[a][g] = "dialing"
    /\ g < MaxGen
    /\ rpc' = [rpc EXCEPT ![a][g] = "shaken"]
    /\ sock' = [sock EXCEPT ![a][g + 1] = "open"]
    /\ UNCHANGED <<agents, globalDone, state, cpc, pump, tries, dpc, all>>

(* Mutant: the socket of a refused generation is forgotten.                *)
ReconnectRefusedMutant(a, g) ==
    /\ rpc[a][g] = "shaken"
    /\ Cancelled(a)
    /\ rpc' = [rpc EXCEPT ![a][g] = "done"]
    /\ UNCHANGED <<agents, globalDone, state, sock, cpc, pump, tries, dpc, all>>

(* installGeneration refuses an agent that was stopped meanwhile.          *)
ReconnectRefused(a, g) ==
    /\ rpc[a][g] = "shaken"
    /\ Cancelled(a)
    /\ rpc' = [rpc EXCEPT ![a][g] = "done"]
    /\ CloseSock(a, g + 1)
    /\ UNCHANGED <<agents, globalDone, state, cpc, pump, tries, dpc, all>>

(* Mutant: installGeneration does not look whether the agent was stopped.  *)
ReconnectInstallsMutant(a, g) ==
    /\ rpc[a][g] = "shaken"
    /\ rpc' = [rpc EXCEPT ![a][g] = "installed"]
    /\ generation' = [generation EXCEPT ![a] = g + 1]
    /\ connected' = [connected EXCEPT ![a] = TRUE]
    /\ UNCHANGED <<agents, globalDone, stopped, sock, cpc, pump, tries, dpc, all>>

ReconnectInstalls(a, g) ==
    /\ rpc[a][g] = "shaken"
    /\ ~Cancelled(a)
    /\ rpc' = [rpc EXCEPT ![a][g] = "installed"]
    /\ generation' = [generation EXCEPT ![a] = g + 1]
    /\ connected' = [connected EXCEPT ![a] = TRUE]
    /\ UNCHANGED <<agents, globalDone, stopped, sock, cpc, pump, tries, dpc, all>>

ReconnectReturns(a, g) ==
    /\ rpc[a][g] = "installed"
    /\ rpc' = [rpc EXCEPT ![a][g] = "done"]
    /\ CloseSock(a, g)
    /\ StartPump(a, g + 1)
    /\ UNCHANGED <<agents, globalDone, state, cpc, tries, dpc, all>>

ReconnectGivesUp(a, g) ==
    /\ rpc[a][g] = "giveUp"
    /\ rpc' = [rpc EXCEPT ![a][g] = "done"]
    /\ MarkDisconnected(a, g)
    /\ UNCHANGED <<agents, globalDone, generation, stopped, sock, cpc, pump, tries, dpc, all>>

----------------------------------------------------------------------------
(* Disconnect                                                              *)

Disconnect(a) ==
    /\ a \in agents
    /\ agents' = agents \ {a}
    /\ dpc' = [dpc EXCEPT ![a] = "removed"]
    /\ UNCHANGED <<globalDone, state, sock, cpc, pump, rpc, tries, all>>

(* stop(): the flags under stateMu, then the agent's context.              *)
Stop(a) ==
    /\ dpc[a] = "removed"
    /\ dpc' = [dpc EXCEPT ![a] = "stopped"]
    /\ stopped' = [stopped EXCEPT ![a] = TRUE]
    /\ connected' = [connected EXCEPT ![a] = FALSE]
    /\ UNCHANGED <<agents, globalDone, generation, sock, cpc, pump, rpc, tries, all>>

(* closeGeneration on the generation stop() returned; none is installed    *)
(* after it, so it is still the current one.                               *)
CloseGeneration(a) ==
    /\ dpc[a] = "stopped"
    /\ dpc' = [dpc EXCEPT ![a] = "closed"]
    /\ CloseSock(a, generation[a])
    /\ UNCHANGED <<agents, globalDone, state, cpc, pump, rpc, tries, all>>

(* waitForGeneration returns when the pump is done, or after two seconds.  *)
WaitForGeneration(a) ==
    /\ dpc[a] = "closed"
    /\ dpc' = [dpc EXCEPT ![a] = "done"]
    /\ UNCHANGED <<agents, globalDone, state, sock, cpc, pump, rpc, tries, all>>

----------------------------------------------------------------------------
(* CloseAll: empty the map, cancel the manager's context, then stop the    *)
(* agents it found one after the other.                                    *)

CloseAll ==
    /\ apc = "off"
    /\ apc' = "removed"
    /\ agents' = {}
    /\ dpc' = [a \in Agents |-> IF a \in agents THEN "queued" ELSE dpc[a]]
    /\ UNCHANGED <<globalDone, state, sock, cpc, pump, rpc, tries, closing>>

GlobalCancel ==
    /\ apc = "removed"
    /\ apc' = "cancelled"
    /\ globalDone' = TRUE
    /\ UNCHANGED <<agents, state, sock, cpc, pump, rpc, tries, dpc, closing>>

CloseAllTakes(a) ==
    /\ apc = "cancelled"
    /\ dpc[a] = "queued"
    /\ \A b \in closing : dpc[b] = "done"
    /\ dpc' = [dpc EXCEPT ![a] = "removed"]
    /\ closing' = closing \cup {a}
    /\ UNCHANGED <<agents, globalDone, state, sock, cpc, pump, rpc, tries, apc>>

CloseAllReturns ==
    /\ apc = "cancelled"
    /\ \A a \in Agents : dpc[a] # "queued"
    /\ \A b \in closing : dpc[b] = "done"
    /\ apc' = "done"
    /\ UNCHANGED <<agents, globalDone, state, sock, cpc, pump, rpc, tries, dpc, closing>>

----------------------------------------------------------------------------

Connecting(a) ==
    \/ ConnectFails(a) \/ ConnectShaken(a) \/ ConnectGivesWay(a)
    \/ ConnectInsert(a) \/ ConnectReturns(a)

PumpExits(a, g) == PumpLeaves(a, g) \/ PumpFinishes(a, g)

Reconnecting(a, g) ==
    \/ ReconnectChecks(a, g) \/ ReconnectWakes(a, g)
    \/ ReconnectFails(a, g) \/ ReconnectUnconfigured(a, g) \/ ReconnectShaken(a, g)
    \/ ReconnectRefused(a, g) \/ ReconnectInstalls(a, g)
    \/ ReconnectReturns(a, g) \/ ReconnectGivesUp(a, g)

Stopping(a) == Stop(a) \/ CloseGeneration(a) \/ WaitForGeneration(a) \/ CloseAllTakes(a)

Next ==
    \/ \E a \in Agents :
         \/ ConnectCheck(a)
         \/ Connecting(a)
         \/ Disconnect(a)
         \/ Stopping(a)
         \/ \E g \in Gens :
              \/ PumpSeesCancel(a, g)
              \/ PumpReadError(a, g)
              \/ PumpExits(a, g)
              \/ Reconnecting(a, g)
    \/ CloseAll
    \/ GlobalCancel
    \/ CloseAllReturns

Spec == Init /\ [][Next]_vars

(* Goroutines and calls that have begun go on; dials, handshakes, waits    *)
(* and delays all end, by a timeout if by nothing else.  A read pump sees  *)
(* a cancellation at the latest when its read deadline passes, and an      *)
(* error once its socket is closed.  Connections need never break, and     *)
(* nobody has to call Connect, Disconnect or CloseAll.                     *)
Fairness ==
    /\ \A a \in Agents :
         /\ WF_vars(Connecting(a))
         /\ WF_vars(Stopping(a))
         /\ \A g \in Gens :
              /\ WF_vars(PumpSeesCancel(a, g))
              /\ WF_vars(sock[a][g] = "closed" /\ PumpReadError(a, g))
              /\ WF_vars(PumpExits(a, g))
              /\ WF_vars(Reconnecting(a, g))
    /\ WF_vars(GlobalCancel)
    /\ WF_vars(CloseAllReturns)

FairSpec == Spec /\ Fairness

----------------------------------------------------------------------------

(* An agent that was stopped is never connected again, however late a      *)
(* reconnect that was already dialing succeeds (client.go:194-207,         *)
(* 267-280, 862-937).                                                      *)
StoppedStaysDown == \A a \in Agents : stopped[a] => ~connected[a]

(* A socket with a running read pump that is the agent's current one is    *)
(* reported as connected: neither the deferred clean-up of an older pump   *)
(* nor the end of an older reconnect takes the new generation down         *)
(* (client.go:209-215, 726-731, 936).                                      *)
ReadingMeansConnected ==
    \A a \in Agents, g \in Gens :
        g = generation[a] /\ pump[a][g] = "reading" /\ ~stopped[a] => connected[a]

(* An agent reported as connected has a read pump that will notice the end *)
(* of its connection, or one that is about to be started.                  *)
ConnectedHasReader ==
    \A a \in Agents :
        connected[a] =>
            LET g == generation[a] IN
            \/ pump[a][g] \in {"reading", "leaving"}
            \/ g = 1 /\ cpc[a] = "inserted"
            \/ g > 1 /\ rpc[a][g - 1] = "installed"

(* At most one read pump of an agent reads, so answers and updates never   *)
(* come from two of its generations at once.                               *)
OneReader ==
    \A a \in Agents : Cardinality({g \in Gens : pump[a][g] = "reading"}) <= 1

Quiet(a) ==
    \A g \in Gens :
        /\ sock[a][g] # "open"
        /\ pump[a][g] \in {"off", "done"}
        /\ rpc[a][g] \in {"off", "done"}

(* After Disconnect or CloseAll nothing of the agent stays behind: every   *)
(* socket of every generation ends closed and its goroutines return.       *)
StoppedGetsQuiet == \A a \in Agents : stopped[a] ~> Quiet(a)

(* CloseAll ends every connection, including the ones a Connect puts into  *)
(* the map between the emptying of the map and the cancellation            *)
(* (client.go:658-668).                                                    *)
CloseAllGetsQuiet == (apc = "done") ~> (\A a \in Agents : Quiet(a))

(* "Keep one logical agent per endpoint." (client.go:354-355): no two      *)
(* connected agents of the manager are for the same host and port.         *)
OneAgentPerEndpoint ==
    \A a, b \in agents :
        connected[a] /\ connected[b] /\ Endpoint[a] = Endpoint[b] => a = b

============================================================================
