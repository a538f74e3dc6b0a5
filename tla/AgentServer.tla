---------------------------- MODULE AgentServer ----------------------------
(***************************************************************************)
(* The agent's WebSocket server (agent/internal/server/server.go and the   *)
(* authentication and dispatch of handlers.go), composed with the address  *)
(* guard of IPGuard.                                                       *)
(*                                                                         *)
(* Every connection is served by up to four goroutines, each with its own  *)
(* program counter:                                                        *)
(*   hpc  handleWebSocket, until the pumps run                             *)
(*   rpc  readPump, which also runs the message handlers                   *)
(*   wpc  writePump, with its ticker                                       *)
(*   tpc  enforceAuthDeadline                                              *)
(* and shutdown (spc) closes the connections it finds.  They share the     *)
(* client map, the guard, the authed flag, the done channel and the send   *)
(* queue; every access of those is a step of its own.                      *)
(*                                                                         *)
(* Message contents are abstracted to their type.  Frames that are not     *)
(* JSON and keep_alive messages only move the read deadline and are left   *)
(* out; the deadline itself is one of the causes of ReadError.             *)
(***************************************************************************)
EXTENDS Integers, Sequences, FiniteSets

CONSTANTS
    Conns,            \* connection attempts
    RemoteIP,         \* the address each of them comes from
    TokenSet,         \* whether the agent was started with an auth token
    MaxClients, MaxAuthAttempts,
    QueueCap,         \* capacity of Client.send (64)
    MaxFrames,        \* bound of the model: frames a peer sends
    IPs, MaxActive, MaxFailures, Window, Block, PruneAt, Horizon

ASSUME LimitsAssumption ==
    /\ MaxActive \in Nat \ {0}
    /\ MaxFailures \in Nat \ {0}
    /\ Window \in Nat
    /\ Block \in Nat \ {0}
    /\ Block <= Window
    /\ PruneAt \in Nat
    /\ Horizon \in Nat

ASSUME ServerAssumption ==
    /\ IsFiniteSet(Conns)
    /\ RemoteIP \in [Conns -> IPs]
    /\ TokenSet \in BOOLEAN
    /\ MaxClients \in Nat \ {0}
    /\ MaxAuthAttempts \in Nat \ {0}
    /\ QueueCap \in Nat \ {0}
    /\ MaxFrames \in Nat

VARIABLES
    now, active, failures,          \* the guard's state
    clients,                        \* s.clients
    hpc, rpc, wpc, tpc,             \* program counters, per connection
    authed, attempts, closed,       \* Client.authed, .authAttempts, .done
    send,                           \* Client.send
    frames,                         \* frames read so far
    owed,                           \* requests read whose answer was not yet written
    spc, snapshot                   \* shutdown: its step, the clients left to close

guardVars == <<now, active, failures>>
serverVars == <<clients, spc, snapshot>>
authVars == <<authed, attempts>>
traffic == <<send, frames, owed>>
vars == <<guardVars, serverVars, hpc, rpc, wpc, tpc, authVars, closed, traffic>>

Guard == INSTANCE IPGuard

Answers == {"auth_ok", "error", "result"}
Kinds == Answers \cup {"auth_required", "agent_info", "update"}

TypeOK ==
    /\ Guard!GuardTypeOK
    /\ clients \subseteq Conns
    /\ hpc \in [Conns -> {"new", "admitted", "upgraded", "rejected", "registered", "done"}]
    /\ rpc \in [Conns -> {"off", "reading", "denied", "working", "authReject", "authClose",
                          "authOk", "authInfo", "unregister", "release", "close", "done"}]
    /\ wpc \in [Conns -> {"off", "running", "exit", "done"}]
    /\ tpc \in [Conns -> {"off", "armed", "expired", "done"}]
    /\ authed \in [Conns -> BOOLEAN]
    /\ attempts \in [Conns -> Nat]
    /\ closed \in [Conns -> BOOLEAN]
    /\ send \in [Conns -> Seq(Kinds)]
    /\ \A c \in Conns : Len(send[c]) <= QueueCap
    /\ frames \in [Conns -> 0 .. MaxFrames]
    /\ owed \in [Conns -> Nat]
    /\ spc \in {"up", "closing", "stopped"}
    /\ snapshot \subseteq Conns

Init ==
    /\ Guard!GuardInit
    /\ clients = {}
    /\ hpc = [c \in Conns |-> "new"]
    /\ rpc = [c \in Conns |-> "off"]
    /\ wpc = [c \in Conns |-> "off"]
    /\ tpc = [c \in Conns |-> "off"]
    /\ authed = [c \in Conns |-> FALSE]
    /\ attempts = [c \in Conns |-> 0]
    /\ closed = [c \in Conns |-> FALSE]
    /\ send = [c \in Conns |-> <<>>]
    /\ frames = [c \in Conns |-> 0]
    /\ owed = [c \in Conns |-> 0]
    /\ spc = "up"
    /\ snapshot = {}

----------------------------------------------------------------------------
(* Steps the goroutines share.                                             *)

Step(pc, c, from, to) == pc[c] = from /\ pc' = [pc EXCEPT ![c] = to]

(* close(): the done channel and the socket, once.                         *)
Close(c) == closed' = [closed EXCEPT ![c] = TRUE]

(* Mutant: a full queue swallows the message, as pushSystemUpdate does.    *)
SendMsgMutant(c, kind) ==
    \/ /\ Len(send[c]) < QueueCap
       /\ send' = [send EXCEPT ![c] = Append(@, kind)]
       /\ UNCHANGED closed
    \/ /\ Len(send[c]) >= QueueCap
       /\ UNCHANGED <<send, closed>>

(* sendMsg: with the queue full the connection is closed, and once it is   *)
(* closed the select may take either ready case.                           *)
SendMsg(c, kind) ==
    \/ /\ closed[c]
       /\ UNCHANGED <<send, closed>>
    \/ /\ Len(send[c]) < QueueCap
       /\ send' = [send EXCEPT ![c] = Append(@, kind)]
       /\ UNCHANGED closed
    \/ /\ ~closed[c]
       /\ Len(send[c]) >= QueueCap
       /\ Close(c)
       /\ UNCHANGED send

----------------------------------------------------------------------------
(* handleWebSocket                                                         *)

(* Mutant: the slot is counted without asking whether it is free.          *)
AdmitMutant(c) ==
    /\ spc # "stopped"
    /\ Step(hpc, c, "new", "admitted")
    /\ active' = [active EXCEPT ![RemoteIP[c]] = @ + 1]
    /\ UNCHANGED <<now, failures, serverVars, rpc, wpc, tpc, authVars, closed, traffic>>

(* guard.admit; a peer that is refused may try again.                      *)
Admit(c) ==
    /\ spc # "stopped"
    /\ Step(hpc, c, "new", "admitted")
    /\ Guard!Admit(RemoteIP[c])
    /\ UNCHANGED <<serverVars, rpc, wpc, tpc, authVars, closed, traffic>>

Upgrade(c) ==
    /\ Step(hpc, c, "admitted", "upgraded")
    /\ UNCHANGED <<guardVars, serverVars, rpc, wpc, tpc, authVars, closed, traffic>>

(* Mutant: the early return of a failed upgrade keeps the slot.            *)
UpgradeFailsMutant(c) ==
    /\ Step(hpc, c, "admitted", "done")
    /\ UNCHANGED <<guardVars, serverVars, rpc, wpc, tpc, authVars, closed, traffic>>

UpgradeFails(c) ==
    /\ Step(hpc, c, "admitted", "done")
    /\ Guard!Release(RemoteIP[c])
    /\ UNCHANGED <<serverVars, rpc, wpc, tpc, authVars, closed, traffic>>

(* register, under s.mu.                                                   *)
Register(c) ==
    /\ Cardinality(clients) < MaxClients
    /\ Step(hpc, c, "upgraded", "registered")
    /\ clients' = clients \cup {c}
    /\ UNCHANGED <<guardVars, spc, snapshot, rpc, wpc, tpc, authVars, closed, traffic>>

RegisterFull(c) ==
    /\ Cardinality(clients) >= MaxClients
    /\ Step(hpc, c, "upgraded", "rejected")
    /\ UNCHANGED <<guardVars, serverVars, rpc, wpc, tpc, authVars, closed, traffic>>

Reject(c) ==
    /\ Step(hpc, c, "rejected", "done")
    /\ Guard!Release(RemoteIP[c])
    /\ Close(c)
    /\ UNCHANGED <<serverVars, rpc, wpc, tpc, authVars, traffic>>

(* The greeting, the authentication deadline and the two pumps.  Nothing   *)
(* else touches the queue before the pumps run.                            *)
Serve(c) ==
    /\ Step(hpc, c, "registered", "done")
    /\ SendMsg(c, IF TokenSet THEN "auth_required" ELSE "agent_info")
    /\ authed' = [authed EXCEPT ![c] = ~TokenSet]
    /\ tpc' = [tpc EXCEPT ![c] = IF TokenSet THEN "armed" ELSE "off"]
    /\ wpc' = [wpc EXCEPT ![c] = "running"]
    /\ rpc' = [rpc EXCEPT ![c] = "reading"]
    /\ UNCHANGED <<guardVars, serverVars, attempts, frames, owed>>

----------------------------------------------------------------------------
(* readPump and the handlers it runs.  A frame may still come out of the   *)
(* read buffer after the socket was closed.                                *)

ReadFrame(c, next) ==
    /\ frames[c] < MaxFrames
    /\ Step(rpc, c, "reading", next)
    /\ frames' = [frames EXCEPT ![c] = @ + 1]
    /\ owed' = [owed EXCEPT ![c] = @ + 1]

(* handleMessage: anything but auth and keep_alive needs authentication.   *)
ReadRequest(c) ==
    /\ ReadFrame(c, IF authed[c] THEN "working" ELSE "denied")
    /\ UNCHANGED <<guardVars, serverVars, hpc, wpc, tpc, authVars, closed, send>>

(* An auth message whose payload cannot be decoded.                        *)
ReadMalformedAuth(c) ==
    /\ ReadFrame(c, "denied")
    /\ UNCHANGED <<guardVars, serverVars, hpc, wpc, tpc, authVars, closed, send>>

Deny(c) ==
    /\ Step(rpc, c, "denied", "reading")
    /\ SendMsg(c, "error")
    /\ UNCHANGED <<guardVars, serverVars, hpc, wpc, tpc, authVars, frames, owed>>

(* A type-specific handler returns: a result or an error, under the        *)
(* request's ID.                                                           *)
Respond(c) ==
    /\ Step(rpc, c, "working", "reading")
    /\ \E kind \in {"result", "error"} : SendMsg(c, kind)
    /\ UNCHANGED <<guardVars, serverVars, hpc, wpc, tpc, authVars, frames, owed>>

(* handleAuth with a wrong token: count it here and in the guard, answer,  *)
(* and close at the limit.                                                 *)
ReadBadAuth(c) ==
    /\ TokenSet
    /\ ReadFrame(c, "authReject")
    /\ attempts' = [attempts EXCEPT ![c] = @ + 1]
    /\ Guard!Fail(RemoteIP[c])
    /\ UNCHANGED <<serverVars, hpc, wpc, tpc, authed, closed, send>>

AuthReject(c) ==
    /\ Step(rpc, c, "authReject",
            IF attempts[c] >= MaxAuthAttempts THEN "authClose" ELSE "reading")
    /\ SendMsg(c, "error")
    /\ UNCHANGED <<guardVars, serverVars, hpc, wpc, tpc, authVars, frames, owed>>

AuthClose(c) ==
    /\ Step(rpc, c, "authClose", "reading")
    /\ Close(c)
    /\ UNCHANGED <<guardVars, serverVars, hpc, wpc, tpc, authVars, traffic>>

(* handleAuth with the right token: the flag is stored before the answer   *)
(* is queued, and agent_info follows it.                                   *)
ReadGoodAuth(c) ==
    /\ ReadFrame(c, "authOk")
    /\ authed' = [authed EXCEPT ![c] = TRUE]
    /\ Guard!Succeed(RemoteIP[c])
    /\ UNCHANGED <<serverVars, hpc, wpc, tpc, attempts, closed, send>>

AuthOk(c) ==
    /\ Step(rpc, c, "authOk", "authInfo")
    /\ SendMsg(c, "auth_ok")
    /\ UNCHANGED <<guardVars, serverVars, hpc, wpc, tpc, authVars, frames, owed>>

AuthInfo(c) ==
    /\ Step(rpc, c, "authInfo", "reading")
    /\ SendMsg(c, "agent_info")
    /\ UNCHANGED <<guardVars, serverVars, hpc, wpc, tpc, authVars, frames, owed>>

(* Mutant: readPump returns without its deferred unregister.               *)
ReadErrorMutant(c) ==
    /\ Step(rpc, c, "reading", "done")
    /\ UNCHANGED <<guardVars, serverVars, hpc, wpc, tpc, authVars, closed, traffic>>

(* ReadMessage fails: the peer left, the socket was closed here, a frame   *)
(* was too large or the read deadline passed.                              *)
ReadError(c) ==
    /\ Step(rpc, c, "reading", "unregister")
    /\ UNCHANGED <<guardVars, serverVars, hpc, wpc, tpc, authVars, closed, traffic>>

(* unregister: the map under s.mu, then the guard's slot, then the socket. *)
Unregister(c) ==
    /\ Step(rpc, c, "unregister", IF c \in clients THEN "release" ELSE "done")
    /\ clients' = clients \ {c}
    /\ UNCHANGED <<guardVars, spc, snapshot, hpc, wpc, tpc, authVars, closed, traffic>>

ReleaseSlot(c) ==
    /\ Step(rpc, c, "release", "close")
    /\ Guard!Release(RemoteIP[c])
    /\ UNCHANGED <<serverVars, hpc, wpc, tpc, authVars, closed, traffic>>

CloseClient(c) ==
    /\ Step(rpc, c, "close", "done")
    /\ Close(c)
    /\ UNCHANGED <<guardVars, serverVars, hpc, wpc, tpc, authVars, traffic>>

----------------------------------------------------------------------------
(* writePump                                                               *)

Dequeue(c) == send[c] # <<>> /\ send' = [send EXCEPT ![c] = Tail(@)]

WriteMessage(c) ==
    /\ wpc[c] = "running"
    /\ ~closed[c]
    /\ Dequeue(c)
    /\ owed' = [owed EXCEPT ![c] = IF Head(send[c]) \in Answers THEN @ - 1 ELSE @]
    /\ UNCHANGED <<guardVars, serverVars, hpc, rpc, wpc, tpc, authVars, closed, frames>>

WriteFails(c) ==
    /\ Step(wpc, c, "running", "exit")
    /\ Dequeue(c)
    /\ UNCHANGED <<guardVars, serverVars, hpc, rpc, tpc, authVars, closed, frames, owed>>

WriterSeesDone(c) ==
    /\ closed[c]
    /\ Step(wpc, c, "running", "exit")
    /\ UNCHANGED <<guardVars, serverVars, hpc, rpc, tpc, authVars, closed, traffic>>

WriterExits(c) ==
    /\ Step(wpc, c, "exit", "done")
    /\ Close(c)
    /\ UNCHANGED <<guardVars, serverVars, hpc, rpc, tpc, authVars, traffic>>

(* Mutant: the ticker pushes to anyone.                                    *)
PushToAnyone(c) ==
    /\ wpc[c] = "running"
    /\ Len(send[c]) < QueueCap
    /\ send' = [send EXCEPT ![c] = Append(@, "update")]
    /\ UNCHANGED <<guardVars, serverVars, hpc, rpc, wpc, tpc, authVars, closed, frames, owed>>

(* The ticker's pushSystemUpdate, which gives up when the queue is full.   *)
Push(c) ==
    /\ wpc[c] = "running"
    /\ authed[c]
    /\ Len(send[c]) < QueueCap
    /\ send' = [send EXCEPT ![c] = Append(@, "update")]
    /\ UNCHANGED <<guardVars, serverVars, hpc, rpc, wpc, tpc, authVars, closed, frames, owed>>

----------------------------------------------------------------------------
(* enforceAuthDeadline reads the flag and closes in two steps.             *)

TimerFires(c) ==
    /\ Step(tpc, c, "armed", IF authed[c] THEN "done" ELSE "expired")
    /\ UNCHANGED <<guardVars, serverVars, hpc, rpc, wpc, authVars, closed, traffic>>

TimerSeesDone(c) ==
    /\ closed[c]
    /\ Step(tpc, c, "armed", "done")
    /\ UNCHANGED <<guardVars, serverVars, hpc, rpc, wpc, authVars, closed, traffic>>

(* Mutant: the deadline passes and nothing is closed.                      *)
TimerClosesMutant(c) ==
    /\ Step(tpc, c, "expired", "done")
    /\ UNCHANGED <<guardVars, serverVars, hpc, rpc, wpc, authVars, closed, traffic>>

TimerCloses(c) ==
    /\ Step(tpc, c, "expired", "done")
    /\ Close(c)
    /\ UNCHANGED <<guardVars, serverVars, hpc, rpc, wpc, authVars, traffic>>

----------------------------------------------------------------------------
(* shutdown: copy the client map, close the copies, stop the listener.     *)

ShutdownBegins ==
    /\ spc = "up"
    /\ spc' = "closing"
    /\ snapshot' = clients
    /\ UNCHANGED <<guardVars, clients, hpc, rpc, wpc, tpc, authVars, closed, traffic>>

ShutdownCloses(c) ==
    /\ c \in snapshot
    /\ snapshot' = snapshot \ {c}
    /\ Close(c)
    /\ UNCHANGED <<guardVars, clients, spc, hpc, rpc, wpc, tpc, authVars, traffic>>

StopListening ==
    /\ spc = "closing"
    /\ snapshot = {}
    /\ spc' = "stopped"
    /\ UNCHANGED <<guardVars, clients, snapshot, hpc, rpc, wpc, tpc, authVars, closed, traffic>>

Tick ==
    /\ Guard!Tick
    /\ UNCHANGED <<serverVars, hpc, rpc, wpc, tpc, authVars, closed, traffic>>

----------------------------------------------------------------------------

Handler(c) == Upgrade(c) \/ UpgradeFails(c) \/ Register(c) \/ RegisterFull(c) \/ Reject(c) \/ Serve(c)

Reading(c) == ReadRequest(c) \/ ReadMalformedAuth(c) \/ ReadBadAuth(c) \/ ReadGoodAuth(c)

Handling(c) == Deny(c) \/ Respond(c) \/ AuthReject(c) \/ AuthClose(c) \/ AuthOk(c) \/ AuthInfo(c)

Leaving(c) == Unregister(c) \/ ReleaseSlot(c) \/ CloseClient(c)

Writer(c) == WriteMessage(c) \/ WriteFails(c) \/ WriterSeesDone(c) \/ WriterExits(c)

Timer(c) == TimerFires(c) \/ TimerSeesDone(c) \/ TimerCloses(c)

Next ==
    \/ \E c \in Conns :
         \/ Admit(c)
         \/ Handler(c)
         \/ Reading(c)
         \/ Handling(c)
         \/ ReadError(c)
         \/ Leaving(c)
         \/ Writer(c)
         \/ Push(c)
         \/ Timer(c)
         \/ ShutdownCloses(c)
    \/ ShutdownBegins
    \/ StopListening
    \/ Tick

Spec == Init /\ [][Next]_vars

(* Every goroutine that can run eventually does; a handler returns because *)
(* its work is bounded in time (executor.go caps commands at 300 s), and   *)
(* timers fire.  Nothing is assumed of the peer: it need not connect, send *)
(* or leave, so ReadError is only fair once the socket is closed.          *)
Fairness ==
    \A c \in Conns :
        /\ WF_vars(Handler(c))
        /\ WF_vars(Handling(c))
        /\ WF_vars(closed[c] /\ ReadError(c))
        /\ WF_vars(Leaving(c))
        /\ WF_vars(Writer(c))
        /\ WF_vars(Timer(c))

FairSpec == Spec /\ Fairness

----------------------------------------------------------------------------

(* The connection holds one of its address's slots in the guard.           *)
HoldsSlot(c) ==
    \/ hpc[c] \in {"admitted", "upgraded", "rejected"}
    \/ c \in clients
    \/ rpc[c] = "release"

Holders(ip) == {c \in Conns : RemoteIP[c] = ip /\ HoldsSlot(c)}

(* The guard's count of an address is the number of its connections that   *)
(* are between admit and release: whatever path a connection takes out of  *)
(* handleWebSocket or readPump (server.go:182-207, 237-253), its slot is   *)
(* given back exactly once.                                                *)
SlotAccounting == \A ip \in IPs : active[ip] = Cardinality(Holders(ip))

(* The server implements the guard's specification: it changes the guard   *)
(* through its methods alone, one call at a time, so that what holds of    *)
(* every behaviour of GuardSpec (BlockStands) holds in the server.         *)
GuardContract == Guard!GuardSpec

Pending(c) == rpc[c] \in {"denied", "working", "authReject", "authOk"}

Count(seq, kinds) == Cardinality({i \in 1 .. Len(seq) : seq[i] \in kinds})

(* "Responses are not optional" (server.go:413-417): as long as the        *)
(* connection is open, the answer to every request read from it was        *)
(* written, is in the queue, or is being computed; a full queue never      *)
(* swallows one.                                                           *)
AnswersAccounted ==
    \A c \in Conns :
        ~closed[c] /\ wpc[c] # "exit" =>
            owed[c] = Count(send[c], Answers) + (IF Pending(c) THEN 1 ELSE 0)

(* Before the right token arrives, neither the dispatcher nor the ticker   *)
(* of the write pump lets anything but the greeting and errors out, and no *)
(* handler runs.                                                           *)
NothingBeforeAuth ==
    \A c \in Conns :
        TokenSet /\ ~authed[c] =>
            /\ rpc[c] # "working"
            /\ \A i \in 1 .. Len(send[c]) : send[c][i] \in {"auth_required", "error"}

(* An anonymous socket does not keep its place: with a token configured,   *)
(* a served connection authenticates or is closed (server.go:329-346).     *)
AuthenticatesOrCloses ==
    \A c \in Conns : rpc[c] = "reading" ~> authed[c] \/ closed[c]

(* A closed connection gives its slot back, whoever closed it and in       *)
(* whatever step its goroutines were.                                      *)
ClosedReturnsSlot == \A c \in Conns : closed[c] ~> ~HoldsSlot(c)

============================================================================
