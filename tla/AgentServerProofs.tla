------------------------- MODULE AgentServerProofs -------------------------
(***************************************************************************)
(* The agent's server for any number of connections and addresses, any     *)
(* limits, and with or without a token: slot accounting, the guard's       *)
(* contract, authentication and the accounting of answers.                 *)
(***************************************************************************)
EXTENDS AgentServer, FiniteSetTheorems, TLAPS

HandlerSteps == {"new", "admitted", "upgraded", "rejected", "registered", "done"}

(* readPump between its start and the deletion from the client map.        *)
LiveSteps == {"reading", "denied", "working", "authReject", "authClose",
              "authOk", "authInfo", "unregister"}

(* How the steps of handleWebSocket and readPump determine whether a       *)
(* connection is in the client map: it is from register to unregister.     *)
Lifecycle ==
    \A c \in Conns :
        /\ hpc[c] \in {"new", "admitted", "upgraded", "rejected"} => rpc[c] = "off" /\ c \notin clients
        /\ hpc[c] = "registered" => rpc[c] = "off" /\ c \in clients
        /\ rpc[c] \in LiveSteps => c \in clients
        /\ rpc[c] \in {"release", "close", "done"} => c \notin clients
        /\ hpc[c] = "done" /\ rpc[c] = "off" => c \notin clients

SlotTypes ==
    /\ active \in [IPs -> 0 .. MaxActive]
    /\ clients \subseteq Conns
    /\ hpc \in [Conns -> HandlerSteps]
    /\ rpc \in [Conns -> {"off", "release", "close", "done"} \cup LiveSteps]

(* The inductive invariant behind SlotAccounting.                          *)
SlotInv == SlotTypes /\ Lifecycle /\ SlotAccounting

----------------------------------------------------------------------------

LEMMA HoldersFinite ==
  ASSUME NEW ip \in IPs
  PROVE  IsFiniteSet(Holders(ip)) /\ Cardinality(Holders(ip)) \in Nat
  <1>1. Holders(ip) \subseteq Conns
    BY DEF Holders
  <1>2. IsFiniteSet(Holders(ip))
    BY <1>1, ServerAssumption, FS_Subset
  <1> QED
    BY <1>2, FS_CardinalityType

(* A step that neither takes nor returns a slot.                           *)
LEMMA NeutralStep ==
  ASSUME SlotAccounting, active' = active,
         \A c \in Conns : HoldsSlot(c)' <=> HoldsSlot(c)
  PROVE  SlotAccounting'
  <1>1. \A ip \in IPs : Holders(ip)' = Holders(ip)
    BY DEF Holders
  <1> QED
    BY <1>1 DEF SlotAccounting

(* A step in which one connection takes a slot of its address.             *)
LEMMA TakingStep ==
  ASSUME SlotTypes, SlotAccounting, NEW c \in Conns,
         ~HoldsSlot(c), HoldsSlot(c)',
         \A d \in Conns \ {c} : HoldsSlot(d)' <=> HoldsSlot(d),
         active' = [active EXCEPT ![RemoteIP[c]] = @ + 1]
  PROVE  SlotAccounting'
  <1> SUFFICES ASSUME NEW ip \in IPs
               PROVE  active'[ip] = Cardinality(Holders(ip)')
    BY DEF SlotAccounting
  <1>1. RemoteIP[c] \in IPs
    BY ServerAssumption
  <1>2. active[ip] = Cardinality(Holders(ip)) /\ active[ip] \in Nat
    BY DEF SlotAccounting, SlotTypes
  <1>3. CASE RemoteIP[c] = ip
    <2>1. Holders(ip)' = Holders(ip) \cup {c} /\ c \notin Holders(ip)
      BY <1>3 DEF Holders
    <2>2. Cardinality(Holders(ip)') = Cardinality(Holders(ip)) + 1
      BY <2>1, HoldersFinite, FS_AddElement
    <2>3. active'[ip] = active[ip] + 1
      BY <1>1, <1>3 DEF SlotTypes
    <2> QED
      BY <1>2, <2>2, <2>3
  <1>4. CASE RemoteIP[c] # ip
    <2>1. Holders(ip)' = Holders(ip)
      BY <1>4 DEF Holders
    <2>2. active'[ip] = active[ip]
      BY <1>1, <1>4 DEF SlotTypes
    <2> QED
      BY <1>2, <2>1, <2>2
  <1> QED
    BY <1>3, <1>4

(* A connection that holds a slot is counted.                              *)
LEMMA HolderIsCounted ==
  ASSUME SlotTypes, SlotAccounting, NEW c \in Conns, HoldsSlot(c)
  PROVE  active[RemoteIP[c]] > 0
  <1> DEFINE ip == RemoteIP[c]
  <1>1. ip \in IPs
    BY ServerAssumption
  <1>2. c \in Holders(ip)
    BY DEF Holders
  <1>3. Cardinality(Holders(ip)) # 0
    BY <1>1, <1>2, HoldersFinite, FS_EmptySet
  <1> QED
    BY <1>1, <1>3, HoldersFinite DEF SlotAccounting

(* A step in which one connection returns its slot.                        *)
LEMMA ReturningStep ==
  ASSUME SlotTypes, SlotAccounting, NEW c \in Conns,
         HoldsSlot(c), ~HoldsSlot(c)',
         \A d \in Conns \ {c} : HoldsSlot(d)' <=> HoldsSlot(d),
         active' = [active EXCEPT ![RemoteIP[c]] = IF @ <= 1 THEN 0 ELSE @ - 1]
  PROVE  SlotAccounting'
  <1> SUFFICES ASSUME NEW ip \in IPs
               PROVE  active'[ip] = Cardinality(Holders(ip)')
    BY DEF SlotAccounting
  <1>1. RemoteIP[c] \in IPs
    BY ServerAssumption
  <1>2. active[ip] = Cardinality(Holders(ip)) /\ active[ip] \in Nat
    BY DEF SlotAccounting, SlotTypes
  <1>3. CASE RemoteIP[c] = ip
    <2>1. Holders(ip)' = Holders(ip) \ {c} /\ c \in Holders(ip)
      BY <1>3 DEF Holders
    <2>2. Cardinality(Holders(ip)') = Cardinality(Holders(ip)) - 1
      BY <2>1, HoldersFinite, FS_RemoveElement
    <2>3. active[ip] > 0
      BY <1>3, HolderIsCounted
    <2>4. active'[ip] = active[ip] - 1
      BY <1>1, <1>2, <1>3, <2>3 DEF SlotTypes
    <2> QED
      BY <1>2, <2>2, <2>4
  <1>4. CASE RemoteIP[c] # ip
    <2>1. Holders(ip)' = Holders(ip)
      BY <1>4 DEF Holders
    <2>2. active'[ip] = active[ip]
      BY <1>1, <1>4 DEF SlotTypes
    <2> QED
      BY <1>2, <2>1, <2>2
  <1> QED
    BY <1>3, <1>4

----------------------------------------------------------------------------
(* The actions, grouped by what they do to the slots.                      *)

(* A step that leaves the map, the slots and these two program counters    *)
(* alone.                                                                  *)
LEMMA ElsewhereStep ==
  ASSUME SlotInv, UNCHANGED <<active, clients, hpc, rpc>>
  PROVE  SlotInv'
  <1>1. SlotTypes' /\ Lifecycle'
    BY DEF SlotInv, SlotTypes, Lifecycle
  <1>2. \A c \in Conns : HoldsSlot(c)' <=> HoldsSlot(c)
    BY DEF HoldsSlot
  <1> QED
    BY <1>1, <1>2, NeutralStep DEF SlotInv

(* A step of readPump that stays between its start and unregister.         *)
LEMMA ReaderStep ==
  ASSUME SlotInv, NEW c \in Conns, NEW next \in LiveSteps,
         rpc[c] \in LiveSteps, rpc' = [rpc EXCEPT ![c] = next],
         UNCHANGED <<active, clients, hpc>>
  PROVE  SlotInv'
  <1>1. SlotTypes'
    BY DEF SlotInv, SlotTypes
  <1>2. c \in clients /\ c \in clients'
    BY DEF SlotInv, Lifecycle
  <1>3. hpc[c] = "done"
    BY DEF SlotInv, SlotTypes, Lifecycle, HandlerSteps, LiveSteps
  <1>4. Lifecycle'
    BY <1>2, <1>3 DEF SlotInv, SlotTypes, Lifecycle, LiveSteps
  <1>5. \A d \in Conns : HoldsSlot(d)' <=> HoldsSlot(d)
    BY <1>2 DEF SlotInv, SlotTypes, HoldsSlot, LiveSteps
  <1> QED
    BY <1>1, <1>4, <1>5, NeutralStep DEF SlotInv

(* admit takes a slot of the connection's address.                         *)
LEMMA AdmitStep ==
  ASSUME SlotInv, NEW c \in Conns, Admit(c)
  PROVE  SlotInv'
  <1>1. RemoteIP[c] \in IPs
    BY ServerAssumption
  <1>2. /\ hpc[c] = "new" /\ hpc' = [hpc EXCEPT ![c] = "admitted"]
        /\ active[RemoteIP[c]] < MaxActive
        /\ active' = [active EXCEPT ![RemoteIP[c]] = @ + 1]
        /\ rpc' = rpc /\ clients' = clients
    BY DEF Admit, Step, Guard!Admit, Guard!CanAdmit, serverVars
  <1>3. SlotTypes'
    BY <1>1, <1>2, LimitsAssumption DEF SlotInv, SlotTypes, HandlerSteps
  <1>4. Lifecycle'
    BY <1>2 DEF SlotInv, SlotTypes, Lifecycle
  <1>5. ~HoldsSlot(c) /\ HoldsSlot(c)'
    BY <1>2 DEF SlotInv, SlotTypes, Lifecycle, HoldsSlot
  <1>6. \A d \in Conns \ {c} : HoldsSlot(d)' <=> HoldsSlot(d)
    BY <1>2 DEF SlotInv, SlotTypes, HoldsSlot
  <1> QED
    BY <1>2, <1>3, <1>4, <1>5, <1>6, TakingStep DEF SlotInv

(* The two early exits of handleWebSocket and the end of unregister return *)
(* the slot.                                                               *)
LEMMA ReleaseTypes ==
  ASSUME SlotTypes, NEW ip \in IPs,
         active' = [active EXCEPT ![ip] = IF @ <= 1 THEN 0 ELSE @ - 1]
  PROVE  active' \in [IPs -> 0 .. MaxActive]
  BY LimitsAssumption DEF SlotTypes

LEMMA EarlyExitStep ==
  ASSUME SlotInv, NEW c \in Conns, UpgradeFails(c) \/ Reject(c)
  PROVE  SlotInv'
  <1>1. RemoteIP[c] \in IPs
    BY ServerAssumption
  <1>2. /\ hpc[c] \in {"admitted", "rejected"} /\ hpc' = [hpc EXCEPT ![c] = "done"]
        /\ active' = [active EXCEPT ![RemoteIP[c]] = IF @ <= 1 THEN 0 ELSE @ - 1]
        /\ rpc' = rpc /\ clients' = clients
    BY DEF UpgradeFails, Reject, Step, Guard!Release, serverVars
  <1>3. SlotTypes'
    BY <1>1, <1>2, ReleaseTypes DEF SlotInv, SlotTypes, HandlerSteps
  <1>4. Lifecycle'
    BY <1>2 DEF SlotInv, SlotTypes, Lifecycle
  <1>5. HoldsSlot(c) /\ ~HoldsSlot(c)'
    BY <1>2 DEF SlotInv, SlotTypes, Lifecycle, HoldsSlot
  <1>6. \A d \in Conns \ {c} : HoldsSlot(d)' <=> HoldsSlot(d)
    BY <1>2 DEF SlotInv, SlotTypes, HoldsSlot
  <1> QED
    BY <1>2, <1>3, <1>4, <1>5, <1>6, ReturningStep DEF SlotInv

LEMMA ReleaseSlotStep ==
  ASSUME SlotInv, NEW c \in Conns, ReleaseSlot(c)
  PROVE  SlotInv'
  <1>1. RemoteIP[c] \in IPs
    BY ServerAssumption
  <1>2. /\ rpc[c] = "release" /\ rpc' = [rpc EXCEPT ![c] = "close"]
        /\ active' = [active EXCEPT ![RemoteIP[c]] = IF @ <= 1 THEN 0 ELSE @ - 1]
        /\ hpc' = hpc /\ clients' = clients
    BY DEF ReleaseSlot, Step, Guard!Release, serverVars
  <1>3. hpc[c] = "done" /\ c \notin clients
    BY <1>2 DEF SlotInv, SlotTypes, Lifecycle, HandlerSteps
  <1>4. SlotTypes'
    BY <1>1, <1>2, ReleaseTypes DEF SlotInv, SlotTypes
  <1>5. Lifecycle'
    BY <1>2, <1>3 DEF SlotInv, SlotTypes, Lifecycle, LiveSteps
  <1>6. HoldsSlot(c) /\ ~HoldsSlot(c)'
    BY <1>2, <1>3 DEF SlotInv, SlotTypes, HoldsSlot
  <1>7. \A d \in Conns \ {c} : HoldsSlot(d)' <=> HoldsSlot(d)
    BY <1>2 DEF SlotInv, SlotTypes, HoldsSlot
  <1> QED
    BY <1>2, <1>4, <1>5, <1>6, <1>7, ReturningStep DEF SlotInv

(* The remaining steps of handleWebSocket keep the slot.                   *)
LEMMA HandlerStep ==
  ASSUME SlotInv, NEW c \in Conns,
         Upgrade(c) \/ Register(c) \/ RegisterFull(c) \/ Serve(c)
  PROVE  SlotInv'
  <1>1. CASE Upgrade(c) \/ RegisterFull(c)
    <2>1. /\ hpc[c] \in {"admitted", "upgraded"}
          /\ \E to \in {"upgraded", "rejected"} : hpc' = [hpc EXCEPT ![c] = to]
          /\ active' = active /\ rpc' = rpc /\ clients' = clients
      BY <1>1 DEF Upgrade, RegisterFull, Step, guardVars, serverVars
    <2>2. SlotTypes' /\ Lifecycle'
      BY <2>1 DEF SlotInv, SlotTypes, Lifecycle, HandlerSteps
    <2>3. \A d \in Conns : HoldsSlot(d)' <=> HoldsSlot(d)
      BY <2>1 DEF SlotInv, SlotTypes, HoldsSlot
    <2> QED
      BY <2>1, <2>2, <2>3, NeutralStep DEF SlotInv
  <1>2. CASE Register(c)
    <2>1. /\ hpc[c] = "upgraded" /\ hpc' = [hpc EXCEPT ![c] = "registered"]
          /\ clients' = clients \cup {c}
          /\ active' = active /\ rpc' = rpc
      BY <1>2 DEF Register, Step, guardVars
    <2>2. SlotTypes' /\ Lifecycle'
      BY <2>1 DEF SlotInv, SlotTypes, Lifecycle, HandlerSteps, LiveSteps
    <2>3. \A d \in Conns : HoldsSlot(d)' <=> HoldsSlot(d)
      BY <2>1 DEF SlotInv, SlotTypes, HoldsSlot
    <2> QED
      BY <2>1, <2>2, <2>3, NeutralStep DEF SlotInv
  <1>3. CASE Serve(c)
    <2>1. /\ hpc[c] = "registered" /\ hpc' = [hpc EXCEPT ![c] = "done"]
          /\ rpc' = [rpc EXCEPT ![c] = "reading"]
          /\ clients' = clients /\ active' = active
      BY <1>3 DEF Serve, Step, guardVars, serverVars
    <2>2. c \in clients
      BY <2>1 DEF SlotInv, Lifecycle
    <2>3. SlotTypes' /\ Lifecycle'
      BY <2>1, <2>2 DEF SlotInv, SlotTypes, Lifecycle, HandlerSteps, LiveSteps
    <2>4. \A d \in Conns : HoldsSlot(d)' <=> HoldsSlot(d)
      BY <2>1, <2>2 DEF SlotInv, SlotTypes, HoldsSlot
    <2> QED
      BY <2>1, <2>3, <2>4, NeutralStep DEF SlotInv
  <1> QED
    BY <1>1, <1>2, <1>3

(* The first and the last step of unregister: out of the map with the slot *)
(* still held, and the closing of the socket.                              *)
LEMMA LeavingStep ==
  ASSUME SlotInv, NEW c \in Conns, Unregister(c) \/ CloseClient(c)
  PROVE  SlotInv'
  <1>1. CASE Unregister(c)
    <2>1. /\ rpc[c] = "unregister" /\ c \in clients
      BY <1>1 DEF Unregister, Step, SlotInv, Lifecycle, LiveSteps
    <2>2. /\ rpc' = [rpc EXCEPT ![c] = "release"]
          /\ clients' = clients \ {c}
          /\ hpc' = hpc /\ active' = active
      BY <1>1, <2>1 DEF Unregister, Step, guardVars
    <2>3. hpc[c] = "done"
      BY <2>1 DEF SlotInv, SlotTypes, Lifecycle, HandlerSteps
    <2>4. SlotTypes' /\ Lifecycle'
      BY <2>1, <2>2, <2>3 DEF SlotInv, SlotTypes, Lifecycle, LiveSteps
    <2>5. \A d \in Conns : HoldsSlot(d)' <=> HoldsSlot(d)
      BY <2>1, <2>2 DEF SlotInv, SlotTypes, HoldsSlot
    <2> QED
      BY <2>2, <2>4, <2>5, NeutralStep DEF SlotInv
  <1>2. CASE CloseClient(c)
    <2>1. /\ rpc[c] = "close" /\ rpc' = [rpc EXCEPT ![c] = "done"]
          /\ clients' = clients /\ hpc' = hpc /\ active' = active
      BY <1>2 DEF CloseClient, Step, guardVars, serverVars
    <2>2. SlotTypes' /\ Lifecycle'
      BY <2>1 DEF SlotInv, SlotTypes, Lifecycle, LiveSteps
    <2>3. \A d \in Conns : HoldsSlot(d)' <=> HoldsSlot(d)
      BY <2>1 DEF SlotInv, SlotTypes, HoldsSlot
    <2> QED
      BY <2>1, <2>2, <2>3, NeutralStep DEF SlotInv
  <1> QED
    BY <1>1, <1>2

----------------------------------------------------------------------------

(* Before anybody connects no address holds a slot.                        *)
LEMMA InitSlotInv ==
  ASSUME Init
  PROVE  SlotInv
  <1>1. SlotTypes /\ Lifecycle
    BY LimitsAssumption DEF Init, Guard!GuardInit, SlotTypes, Lifecycle, HandlerSteps, LiveSteps
  <1>2. \A ip \in IPs : Holders(ip) = {}
    BY DEF Init, Holders, HoldsSlot
  <1>3. SlotAccounting
    BY <1>2, FS_EmptySet DEF Init, Guard!GuardInit, SlotAccounting
  <1> QED
    BY <1>1, <1>3 DEF SlotInv

(* The steps of readPump up to the read error, whatever the frame was.     *)
LEMMA PumpStep ==
  ASSUME SlotInv, NEW c \in Conns, Reading(c) \/ Handling(c) \/ ReadError(c)
  PROVE  SlotInv'
  <1>1. rpc[c] \in LiveSteps /\ UNCHANGED <<active, clients, hpc>>
    BY DEF Reading, ReadRequest, ReadMalformedAuth, ReadBadAuth, ReadGoodAuth, ReadFrame,
           Handling, Deny, Respond, AuthReject, AuthClose, AuthOk, AuthInfo, ReadError,
           Step, LiveSteps, guardVars, serverVars, Guard!Fail, Guard!Succeed
  <1>2. \E next \in LiveSteps : rpc' = [rpc EXCEPT ![c] = next]
    BY DEF Reading, ReadRequest, ReadMalformedAuth, ReadBadAuth, ReadGoodAuth, ReadFrame,
           Handling, Deny, Respond, AuthReject, AuthClose, AuthOk, AuthInfo, ReadError,
           Step, LiveSteps
  <1> QED
    BY <1>1, <1>2, ReaderStep

(* The write pump, the timer, shutdown and the clock hold no slot.         *)
LEMMA OtherStep ==
  ASSUME SlotInv,
         \/ \E c \in Conns : Writer(c) \/ Push(c) \/ Timer(c) \/ ShutdownCloses(c)
         \/ ShutdownBegins \/ StopListening \/ Tick
         \/ UNCHANGED vars
  PROVE  SlotInv'
  <1>1. UNCHANGED <<active, clients, hpc, rpc>>
    BY DEF Writer, WriteMessage, WriteFails, WriterSeesDone, WriterExits, Push,
           Timer, TimerFires, TimerSeesDone, TimerCloses,
           ShutdownCloses, ShutdownBegins, StopListening, Tick, Guard!Tick,
           vars, guardVars, serverVars
  <1> QED
    BY <1>1, ElsewhereStep

LEMMA NextKeepsSlotInv ==
  ASSUME SlotInv, [Next]_vars
  PROVE  SlotInv'
  <1>1. CASE \E c \in Conns : Admit(c)
    BY <1>1, AdmitStep
  <1>2. CASE \E c \in Conns : Handler(c)
    BY <1>2, HandlerStep, EarlyExitStep DEF Handler
  <1>3. CASE \E c \in Conns : Reading(c) \/ Handling(c) \/ ReadError(c)
    BY <1>3, PumpStep
  <1>4. CASE \E c \in Conns : Leaving(c)
    BY <1>4, LeavingStep, ReleaseSlotStep DEF Leaving
  <1>5. CASE \/ \E c \in Conns : Writer(c) \/ Push(c) \/ Timer(c) \/ ShutdownCloses(c)
             \/ ShutdownBegins \/ StopListening \/ Tick
             \/ UNCHANGED vars
    BY <1>5, OtherStep
  <1> QED
    BY <1>1, <1>2, <1>3, <1>4, <1>5 DEF Next

LEMMA SlotInvariant == Spec => []SlotInv
  <1>1. Init => SlotInv
    BY InitSlotInv
  <1>2. SlotInv /\ [Next]_vars => SlotInv'
    BY NextKeepsSlotInv
  <1> QED
    BY <1>1, <1>2, PTL DEF Spec

(* Whatever path a connection takes out of handleWebSocket or readPump, in *)
(* any interleaving with the write pump, the timer and shutdown, the guard *)
(* counts exactly the connections between admit and release                *)
(* (server.go:182-207, 237-253).                                           *)
THEOREM SlotAccountingTheorem == Spec => []SlotAccounting
  <1>1. SlotInv => SlotAccounting
    BY DEF SlotInv
  <1> QED
    BY <1>1, SlotInvariant, PTL

----------------------------------------------------------------------------

(* Every step of the server is a step of the guard's specification, or     *)
(* leaves the guard alone.                                                 *)
LEMMA StepsOfTheGuard ==
  ASSUME SlotInv, [Next]_vars
  PROVE  [Guard!GuardNext]_guardVars
  <1>1. \A c \in Conns : RemoteIP[c] \in IPs
    BY ServerAssumption
  <1>2. ASSUME NEW c \in Conns, HoldsSlot(c), Guard!Release(RemoteIP[c])
        PROVE  Guard!GuardNext
    <2>1. active[RemoteIP[c]] > 0
      BY <1>2, HolderIsCounted DEF SlotInv
    <2> QED
      BY <1>1, <1>2, <2>1 DEF Guard!GuardNext
  <1>3. CASE \E c \in Conns : Admit(c)
    BY <1>1, <1>3 DEF Admit, Guard!GuardNext
  <1>4. CASE \E c \in Conns : UpgradeFails(c) \/ Reject(c) \/ ReleaseSlot(c)
    BY <1>2, <1>4 DEF UpgradeFails, Reject, ReleaseSlot, Step, HoldsSlot
  <1>5. CASE \E c \in Conns : ReadBadAuth(c)
    BY <1>1, <1>5 DEF ReadBadAuth, Guard!GuardNext
  <1>6. CASE \E c \in Conns : ReadGoodAuth(c)
    BY <1>1, <1>6 DEF ReadGoodAuth, Guard!GuardNext
  <1>7. CASE Tick
    BY <1>7 DEF Tick, Guard!GuardNext
  <1>8. CASE \/ \E c \in Conns : Upgrade(c) \/ Register(c) \/ RegisterFull(c) \/ Serve(c)
             \/ \E c \in Conns : ReadRequest(c) \/ ReadMalformedAuth(c) \/ Handling(c) \/ ReadError(c)
             \/ \E c \in Conns : Unregister(c) \/ CloseClient(c)
    BY <1>8 DEF Upgrade, Register, RegisterFull, Serve, ReadRequest, ReadMalformedAuth, Handling,
                Deny, Respond, AuthReject, AuthClose, AuthOk, AuthInfo, ReadError,
                Unregister, CloseClient
  <1>9. CASE \/ \E c \in Conns : Writer(c) \/ Push(c) \/ Timer(c) \/ ShutdownCloses(c)
             \/ ShutdownBegins \/ StopListening \/ UNCHANGED vars
    BY <1>9 DEF Writer, WriteMessage, WriteFails, WriterSeesDone, WriterExits, Push,
                Timer, TimerFires, TimerSeesDone, TimerCloses,
                ShutdownCloses, ShutdownBegins, StopListening, vars
  <1> QED
    BY <1>3, <1>4, <1>5, <1>6, <1>7, <1>8, <1>9 DEF Next, Handler, Reading, Leaving

(* The server implements the guard's specification: it never calls release *)
(* for a slot that is not held, and changes the guard in no other way than *)
(* through its methods.  What is proved of GuardSpec holds in the server.  *)
THEOREM GuardContractTheorem == Spec => GuardContract
  <1>1. Init => Guard!GuardInit
    BY DEF Init
  <1>2. SlotInv /\ [Next]_vars => [Guard!GuardNext]_(Guard!guardVars)
    BY StepsOfTheGuard DEF guardVars, Guard!guardVars
  <1> QED
    BY <1>1, <1>2, SlotInvariant, PTL DEF Spec, GuardContract, Guard!GuardSpec

(* The proofs about the guard alone; nothing here is about its history.    *)
GuardProofs == INSTANCE IPGuardProofs WITH recent <- [ip \in IPs |-> <<>>]

(* With all its goroutines, and whatever its peers do, the server never    *)
(* lifts or shortens a block that stands, unless the blocked address       *)
(* itself authenticates on a connection it still has                       *)
(* (ipguard.go:78-120, handlers.go:60-95).                                 *)
THEOREM ServerKeepsBlocks == Spec => Guard!BlockStands
  <1>1. GuardProofs!GuardAssumption
    BY LimitsAssumption DEF GuardProofs!GuardAssumption
  <1>2. GuardProofs!GuardSpec => GuardProofs!BlockStands
    BY <1>1, GuardProofs!BlockStandsTheorem
  <1>3. Guard!GuardSpec => GuardProofs!GuardSpec
    <2>1. Guard!GuardInit => GuardProofs!GuardInit
      BY DEF Guard!GuardInit, GuardProofs!GuardInit
    <2>2. Guard!Kept = GuardProofs!Kept
      BY DEF Guard!Kept, GuardProofs!Kept, Guard!Cardinality, GuardProofs!Cardinality
    <2>3. \A ip \in IPs : Guard!Fail(ip) => GuardProofs!Fail(ip)
      BY <2>2 DEF Guard!Fail, GuardProofs!Fail, Guard!CurrentRecord, GuardProofs!CurrentRecord,
                  Guard!CountFailure, GuardProofs!CountFailure
    <2>4. \A ip \in IPs : Guard!Succeed(ip) => GuardProofs!Succeed(ip)
      BY DEF Guard!Succeed, GuardProofs!Succeed
    <2>5. \A ip \in IPs : /\ Guard!Admit(ip) => GuardProofs!Admit(ip)
                          /\ Guard!Release(ip) => GuardProofs!Release(ip)
      BY DEF Guard!Admit, GuardProofs!Admit, Guard!CanAdmit, GuardProofs!CanAdmit,
             Guard!Blocked, GuardProofs!Blocked, Guard!Release, GuardProofs!Release
    <2>6. /\ Guard!Tick => GuardProofs!Tick
          /\ UNCHANGED Guard!guardVars => UNCHANGED GuardProofs!guardVars
      BY DEF Guard!Tick, GuardProofs!Tick, Guard!guardVars, GuardProofs!guardVars
    <2>7. [Guard!GuardNext]_(Guard!guardVars) => [GuardProofs!GuardNext]_(GuardProofs!guardVars)
      BY <2>3, <2>4, <2>5, <2>6 DEF Guard!GuardNext, GuardProofs!GuardNext
    <2> QED
      BY <2>1, <2>7, PTL DEF Guard!GuardSpec, GuardProofs!GuardSpec
  <1>4. GuardProofs!BlockStands => Guard!BlockStands
    BY DEF Guard!BlockStands, GuardProofs!BlockStands, Guard!Blocked, GuardProofs!Blocked,
           Guard!Succeed, GuardProofs!Succeed, Guard!guardVars, GuardProofs!guardVars
  <1> QED
    BY <1>2, <1>3, <1>4, GuardContractTheorem DEF GuardContract

----------------------------------------------------------------------------

(* What an unauthenticated connection may have in its queue.               *)
Greeting == {"auth_required", "error"}

QueueTypes ==
    /\ send \in [Conns -> Seq(Kinds)]
    /\ authed \in [Conns -> BOOLEAN]
    /\ rpc \in [Conns -> {"off", "release", "close", "done"} \cup LiveSteps]

OnlyGreeting(c) == \A i \in 1 .. Len(send[c]) : send[c][i] \in Greeting

(* The inductive invariant behind NothingBeforeAuth: without the flag the  *)
(* reader is in none of the steps that follow a right token either, and    *)
(* nothing sets the flag before the reader runs.                           *)
AuthInv ==
    /\ QueueTypes
    /\ \A c \in Conns : TokenSet /\ rpc[c] = "off" => ~authed[c]
    /\ \A c \in Conns :
         TokenSet /\ ~authed[c] =>
             /\ rpc[c] \notin {"working", "authOk", "authInfo"}
             /\ OnlyGreeting(c)

(* sendMsg appends its message or leaves the queue as it is.               *)
LEMMA SendMsgAppends ==
  ASSUME QueueTypes, NEW c \in Conns, NEW kind \in Kinds, SendMsg(c, kind)
  PROVE  /\ send' \in [Conns -> Seq(Kinds)]
         /\ \A d \in Conns \ {c} : send'[d] = send[d]
         /\ OnlyGreeting(c) /\ kind \in Greeting => OnlyGreeting(c)'
  <1>1. CASE send' = send
    BY <1>1 DEF QueueTypes, OnlyGreeting
  <1>2. CASE send' = [send EXCEPT ![c] = Append(@, kind)]
    <2>1. send[c] \in Seq(Kinds) /\ send'[c] = Append(send[c], kind)
      BY <1>2 DEF QueueTypes
    <2>2. send' \in [Conns -> Seq(Kinds)] /\ \A d \in Conns \ {c} : send'[d] = send[d]
      BY <1>2 DEF QueueTypes
    <2>3. ASSUME OnlyGreeting(c), kind \in Greeting
          PROVE  OnlyGreeting(c)'
      BY <2>1, <2>3 DEF OnlyGreeting
    <2> QED
      BY <2>2, <2>3
  <1> QED
    BY <1>1, <1>2 DEF SendMsg

(* The write pump takes the oldest message.                                *)
LEMMA DequeueKeepsGreeting ==
  ASSUME QueueTypes, NEW c \in Conns, Dequeue(c)
  PROVE  /\ send' \in [Conns -> Seq(Kinds)]
         /\ \A d \in Conns : OnlyGreeting(d) => OnlyGreeting(d)'
  <1>1. send[c] \in Seq(Kinds) /\ send[c] # <<>> /\ send' = [send EXCEPT ![c] = Tail(@)]
    BY DEF QueueTypes, Dequeue
  <1>2. /\ Tail(send[c]) \in Seq(Kinds)
        /\ Len(Tail(send[c])) = Len(send[c]) - 1
        /\ \A i \in 1 .. Len(send[c]) - 1 : Tail(send[c])[i] = send[c][i + 1]
    BY <1>1
  <1>3. send'[c] = Tail(send[c]) /\ \A d \in Conns \ {c} : send'[d] = send[d]
    BY <1>1 DEF QueueTypes
  <1>4. OnlyGreeting(c) => OnlyGreeting(c)'
    BY <1>1, <1>2, <1>3 DEF OnlyGreeting
  <1>5. \A d \in Conns \ {c} : OnlyGreeting(d) => OnlyGreeting(d)'
    BY <1>3 DEF OnlyGreeting
  <1> QED
    BY <1>1, <1>2, <1>4, <1>5 DEF QueueTypes

(* A step that answers, without touching the flag.                         *)
LEMMA AnsweringStep ==
  ASSUME AuthInv, NEW c \in Conns, NEW kind \in Kinds, SendMsg(c, kind),
         NEW next \in LiveSteps \ {"working", "authOk"},
         rpc' = [rpc EXCEPT ![c] = next], authed' = authed,
         TokenSet /\ ~authed[c] => kind \in Greeting /\ next # "authInfo"
  PROVE  AuthInv'
  <1>1. /\ send' \in [Conns -> Seq(Kinds)]
        /\ \A d \in Conns \ {c} : send'[d] = send[d]
        /\ OnlyGreeting(c) /\ kind \in Greeting => OnlyGreeting(c)'
    BY SendMsgAppends DEF AuthInv
  <1>2. QueueTypes'
    BY <1>1 DEF AuthInv, QueueTypes
  <1>3. \A d \in Conns \ {c} : rpc'[d] = rpc[d] /\ (OnlyGreeting(d) => OnlyGreeting(d)')
    BY <1>1 DEF AuthInv, QueueTypes, OnlyGreeting
  <1>4. rpc'[c] = next
    BY DEF AuthInv, QueueTypes
  <1> QED
    BY <1>1, <1>2, <1>3, <1>4 DEF AuthInv, LiveSteps

(* A step that leaves the queues alone and moves one reader.               *)
LEMMA QuietStep ==
  ASSUME AuthInv, NEW c \in Conns, send' = send,
         NEW next \in {"release", "close", "done"} \cup LiveSteps,
         rpc' = [rpc EXCEPT ![c] = next],
         authed' = authed \/ authed' = [authed EXCEPT ![c] = TRUE],
         next \in {"working", "authOk", "authInfo"} => authed'[c]
  PROVE  AuthInv'
  <1>1. QueueTypes'
    BY DEF AuthInv, QueueTypes
  <1>2. \A d \in Conns : OnlyGreeting(d) => OnlyGreeting(d)'
    BY DEF OnlyGreeting
  <1> QED
    BY <1>1, <1>2 DEF AuthInv, QueueTypes, LiveSteps

(* A step of another goroutine that leaves the queues alone.               *)
LEMMA StillStep ==
  ASSUME AuthInv, UNCHANGED <<send, authed, rpc>>
  PROVE  AuthInv'
  BY DEF AuthInv, QueueTypes, OnlyGreeting

LEMMA NextKeepsAuthInv ==
  ASSUME SlotInv, AuthInv, [Next]_vars
  PROVE  AuthInv'
  <1>1. CASE \E c \in Conns : Serve(c)
    <2> PICK c \in Conns : Serve(c)
      BY <1>1
    <2> DEFINE kind == IF TokenSet THEN "auth_required" ELSE "agent_info"
    <2>1. /\ hpc[c] = "registered" /\ SendMsg(c, kind)
          /\ rpc' = [rpc EXCEPT ![c] = "reading"]
          /\ authed' = [authed EXCEPT ![c] = ~TokenSet]
      BY DEF Serve, Step
    <2>2. kind \in Kinds /\ TokenSet \in BOOLEAN
      BY ServerAssumption DEF Kinds
    <2>3. CASE TokenSet
      <3>1. rpc[c] = "off" /\ ~authed[c]
        BY <2>1, <2>3 DEF SlotInv, Lifecycle, AuthInv
      <3>2. authed' = authed
        BY <2>1, <2>3, <3>1 DEF AuthInv, QueueTypes
      <3> QED
        BY <2>1, <2>2, <2>3, <3>2, AnsweringStep DEF Greeting, LiveSteps
    <2>4. CASE ~TokenSet
      <3>1. send' \in [Conns -> Seq(Kinds)]
        BY <2>1, <2>2, SendMsgAppends DEF AuthInv
      <3> QED
        BY <2>1, <2>2, <2>4, <3>1 DEF AuthInv, QueueTypes, LiveSteps
    <2> QED
      BY <2>3, <2>4
  <1>2. CASE \E c \in Conns : Reading(c)
    <2> PICK c \in Conns : Reading(c)
      BY <1>2
    <2>1. CASE ReadRequest(c)
      BY <2>1, QuietStep DEF ReadRequest, ReadFrame, Step, authVars, LiveSteps
    <2>2. CASE ReadMalformedAuth(c)
      BY <2>2, QuietStep DEF ReadMalformedAuth, ReadFrame, Step, authVars, LiveSteps
    <2>3. CASE ReadBadAuth(c)
      BY <2>3, QuietStep DEF ReadBadAuth, ReadFrame, Step, LiveSteps
    <2>4. CASE ReadGoodAuth(c)
      <3>1. /\ rpc' = [rpc EXCEPT ![c] = "authOk"] /\ send' = send
            /\ authed' = [authed EXCEPT ![c] = TRUE]
        BY <2>4 DEF ReadGoodAuth, ReadFrame, Step
      <3>2. authed'[c]
        BY <3>1 DEF AuthInv, QueueTypes
      <3> QED
        BY <3>1, <3>2, QuietStep DEF LiveSteps
    <2> QED
      BY <2>1, <2>2, <2>3, <2>4 DEF Reading
  <1>3. CASE \E c \in Conns : Handling(c)
    <2> PICK c \in Conns : Handling(c)
      BY <1>3
    <2>1. CASE Deny(c) \/ AuthReject(c)
      BY <2>1, AnsweringStep DEF Deny, AuthReject, Step, authVars, LiveSteps, Kinds, Answers, Greeting
    <2>2. CASE Respond(c)
      <3>1. rpc[c] = "working" /\ rpc' = [rpc EXCEPT ![c] = "reading"] /\ authed' = authed
        BY <2>2 DEF Respond, Step, authVars
      <3>2. ~(TokenSet /\ ~authed[c])
        BY <3>1 DEF AuthInv
      <3>3. PICK kind \in {"result", "error"} : SendMsg(c, kind)
        BY <2>2 DEF Respond
      <3> QED
        BY <3>1, <3>2, <3>3, AnsweringStep DEF LiveSteps, Kinds, Answers
    <2>3. CASE AuthClose(c)
      BY <2>3, QuietStep DEF AuthClose, Step, authVars, traffic, LiveSteps
    <2>4. CASE AuthOk(c) \/ AuthInfo(c)
      <3>1. rpc[c] \in {"authOk", "authInfo"} /\ authed' = authed
        BY <2>4 DEF AuthOk, AuthInfo, Step, authVars
      <3>2. ~(TokenSet /\ ~authed[c])
        BY <3>1 DEF AuthInv
      <3> QED
        BY <2>4, <3>1, <3>2, AnsweringStep DEF AuthOk, AuthInfo, Step, LiveSteps, Kinds, Answers
    <2> QED
      BY <2>1, <2>2, <2>3, <2>4 DEF Handling
  <1>4. CASE \E c \in Conns : ReadError(c) \/ Leaving(c)
    BY <1>4, QuietStep DEF ReadError, Leaving, Unregister, ReleaseSlot, CloseClient, Step,
                           authVars, traffic, LiveSteps
  <1>5. CASE \E c \in Conns : WriteMessage(c) \/ WriteFails(c)
    <2>1. PICK c \in Conns : Dequeue(c) /\ UNCHANGED <<authed, rpc>>
      BY <1>5 DEF WriteMessage, WriteFails, authVars
    <2> QED
      BY <2>1, DequeueKeepsGreeting DEF AuthInv, QueueTypes
  <1>6. CASE \E c \in Conns : Push(c)
    <2>1. PICK c \in Conns : /\ authed[c] /\ send' = [send EXCEPT ![c] = Append(@, "update")]
                             /\ UNCHANGED <<authed, rpc>>
      BY <1>6 DEF Push, authVars
    <2>2. send' \in [Conns -> Seq(Kinds)] /\ \A d \in Conns \ {c} : send'[d] = send[d]
      BY <2>1 DEF AuthInv, QueueTypes, Kinds
    <2> QED
      BY <2>1, <2>2 DEF AuthInv, QueueTypes, OnlyGreeting
  <1>7. CASE \/ \E c \in Conns : Admit(c) \/ Upgrade(c) \/ UpgradeFails(c)
             \/ \E c \in Conns : Register(c) \/ RegisterFull(c) \/ Reject(c)
             \/ \E c \in Conns : WriterSeesDone(c) \/ WriterExits(c) \/ Timer(c)
    <2>1. UNCHANGED <<send, authed, rpc>>
      BY <1>7 DEF Admit, Upgrade, UpgradeFails, Register, RegisterFull, Reject, WriterSeesDone,
                  WriterExits, Timer, TimerFires, TimerSeesDone, TimerCloses, authVars, traffic
    <2> QED
      BY <2>1, StillStep
  <1>8. CASE \/ \E c \in Conns : ShutdownCloses(c)
             \/ ShutdownBegins \/ StopListening \/ Tick \/ UNCHANGED vars
    <2>1. UNCHANGED <<send, authed, rpc>>
      BY <1>8 DEF ShutdownCloses, ShutdownBegins, StopListening, Tick, vars, authVars, traffic
    <2> QED
      BY <2>1, StillStep
  <1> QED
    BY <1>1, <1>2, <1>3, <1>4, <1>5, <1>6, <1>7, <1>8 DEF Next, Handler, Writer

LEMMA AuthInvariant == Spec => []AuthInv
  <1>1. Init => AuthInv
    BY DEF Init, AuthInv, QueueTypes, OnlyGreeting, LiveSteps
  <1>2. SlotInv /\ AuthInv /\ [Next]_vars => AuthInv'
    BY NextKeepsAuthInv
  <1> QED
    BY <1>1, <1>2, SlotInvariant, PTL DEF Spec

(* With a token configured no connection that has not shown it is sent     *)
(* anything but the greeting and errors, and no handler runs for it,       *)
(* however the reader, the ticker of the write pump, the authentication    *)
(* timer and shutdown interleave (handlers.go:18-40, server.go:349-394).   *)
THEOREM NothingBeforeAuthTheorem == Spec => []NothingBeforeAuth
  <1>1. AuthInv => NothingBeforeAuth
    BY DEF AuthInv, NothingBeforeAuth, OnlyGreeting, Greeting
  <1> QED
    BY <1>1, AuthInvariant, PTL

----------------------------------------------------------------------------
(* Counting the messages of a kind in a queue.                             *)

Places(seq, kinds) == {i \in 1 .. Len(seq) : seq[i] \in kinds}

LEMMA PlacesFinite ==
  ASSUME NEW S, NEW seq \in Seq(S), NEW kinds
  PROVE  IsFiniteSet(Places(seq, kinds)) /\ Count(seq, kinds) \in Nat
  <1>1. Places(seq, kinds) \in SUBSET (1 .. Len(seq)) /\ Len(seq) \in Nat
    BY DEF Places
  <1>2. IsFiniteSet(1 .. Len(seq))
    BY <1>1, FS_Interval
  <1>3. IsFiniteSet(Places(seq, kinds))
    BY <1>1, <1>2, FS_Subset
  <1> QED
    BY <1>3, FS_CardinalityType DEF Count, Places

LEMMA CountIsPlaces ==
  ASSUME NEW seq, NEW kinds
  PROVE  Count(seq, kinds) = Cardinality(Places(seq, kinds))
  BY DEF Count, Places

LEMMA CountEmpty ==
  ASSUME NEW kinds
  PROVE  Count(<<>>, kinds) = 0
  <1>1. {i \in 1 .. Len(<<>>) : <<>>[i] \in kinds} = {}
    OBVIOUS
  <1> QED
    BY <1>1, FS_EmptySet DEF Count

LEMMA CountAppend ==
  ASSUME NEW S, NEW seq \in Seq(S), NEW kinds, NEW m \in S
  PROVE  Count(Append(seq, m), kinds) = Count(seq, kinds) + (IF m \in kinds THEN 1 ELSE 0)
  <1> DEFINE n == Len(seq) + 1
             longer == Append(seq, m)
  <1>1. /\ Len(longer) = n /\ Len(seq) \in Nat
        /\ longer[n] = m
        /\ \A i \in 1 .. Len(seq) : longer[i] = seq[i]
    OBVIOUS
  <1>2. n \notin Places(seq, kinds)
    BY <1>1 DEF Places
  <1>3. CASE m \in kinds
    <2>1. Places(longer, kinds) = Places(seq, kinds) \cup {n}
      BY <1>1, <1>3 DEF Places
    <2> QED
      BY <1>2, <1>3, <2>1, PlacesFinite, CountIsPlaces, FS_AddElement
  <1>4. CASE m \notin kinds
    <2>1. Places(longer, kinds) = Places(seq, kinds)
      BY <1>1, <1>4 DEF Places
    <2>2. Count(longer, kinds) = Count(seq, kinds)
      BY <2>1, CountIsPlaces
    <2> QED
      BY <1>4, <2>2, PlacesFinite
  <1> QED
    BY <1>3, <1>4

LEMMA CountTail ==
  ASSUME NEW S, NEW seq \in Seq(S), NEW kinds, seq # <<>>
  PROVE  Count(Tail(seq), kinds) = Count(seq, kinds) - (IF Head(seq) \in kinds THEN 1 ELSE 0)
  <1> DEFINE rest == Tail(seq)
             from == Places(rest, kinds)
             to == Places(seq, kinds) \ {1}
             shift == [i \in from |-> i + 1]
  <1>1. /\ rest \in Seq(S) /\ Len(seq) \in Nat /\ Len(seq) >= 1 /\ Len(rest) = Len(seq) - 1
        /\ Head(seq) = seq[1]
        /\ \A i \in 1 .. Len(rest) : rest[i] = seq[i + 1]
    OBVIOUS
  <1>2. shift \in [from -> to]
    BY <1>1 DEF Places
  <1>3. \A i, j \in from : shift[i] = shift[j] => i = j
    BY <1>1 DEF Places
  <1>4. \A k \in to : \E i \in from : shift[i] = k
    <2> SUFFICES ASSUME NEW k \in to
                 PROVE  \E i \in from : shift[i] = k
      OBVIOUS
    <2>1. k - 1 \in 1 .. Len(rest) /\ k = (k - 1) + 1 /\ seq[k] \in kinds
      BY <1>1 DEF Places
    <2>2. k - 1 \in from
      BY <1>1, <2>1 DEF Places
    <2> QED
      BY <2>1, <2>2
  <1>5. ExistsBijection(from, to)
    <2> HIDE DEF from, to, shift
    <2>1. shift \in Bijection(from, to)
      BY <1>2, <1>3, <1>4 DEF Bijection, Injection, IsInjective, Surjection
    <2> QED
      BY <2>1 DEF ExistsBijection
  <1>6. IsFiniteSet(from) /\ IsFiniteSet(Places(seq, kinds)) /\ Count(seq, kinds) \in Nat
    BY <1>1, PlacesFinite
  <1>7. Cardinality(to) = Cardinality(from)
    BY <1>5, <1>6, FS_Bijection
  <1>8. 1 \in Places(seq, kinds) <=> Head(seq) \in kinds
    BY <1>1 DEF Places
  <1>9. Cardinality(to) = IF Head(seq) \in kinds THEN Count(seq, kinds) - 1 ELSE Count(seq, kinds)
    BY <1>6, <1>8, CountIsPlaces, FS_RemoveElement
  <1>10. Count(rest, kinds) = Cardinality(from)
    BY CountIsPlaces
  <1> QED
    BY <1>6, <1>7, <1>9, <1>10

----------------------------------------------------------------------------
(* Answers of a connection that are in its queue or being computed.        *)
Due(c) == Count(send[c], Answers) + (IF Pending(c) THEN 1 ELSE 0)

WriterSteps == {"off", "running", "exit", "done"}

AnswerTypes ==
    /\ closed \in [Conns -> BOOLEAN]
    /\ wpc \in [Conns -> WriterSteps]
    /\ send \in [Conns -> Seq(Kinds)]
    /\ owed \in [Conns -> Nat]

(* The books of one connection: the queue is within its capacity, there is *)
(* never more in it than is owed, exactly that much while the connection   *)
(* can still deliver it, and no writer before the reader.                  *)
BooksOf(c) ==
    /\ Len(send[c]) <= QueueCap
    /\ Due(c) <= owed[c]
    /\ ~closed[c] /\ wpc[c] # "exit" => owed[c] = Due(c)
    /\ rpc[c] = "off" => wpc[c] = "off"

(* The inductive invariant behind AnswersAccounted.                        *)
AnswerInv == AnswerTypes /\ \A c \in Conns : BooksOf(c)

LEMMA DueIsNat ==
  ASSUME AnswerTypes, NEW c \in Conns
  PROVE  /\ Count(send[c], Answers) \in Nat
         /\ Due(c) \in Nat
         /\ Due(c) = IF Pending(c) THEN Count(send[c], Answers) + 1 ELSE Count(send[c], Answers)
         /\ owed[c] \in Nat
         /\ Len(send[c]) \in Nat
  <1>1. send[c] \in Seq(Kinds) /\ owed[c] \in Nat
    BY DEF AnswerTypes
  <1>2. Count(send[c], Answers) \in Nat
    BY <1>1, PlacesFinite
  <1> QED
    BY <1>1, <1>2 DEF Due

(* A step that concerns one connection leaves the books of the others.     *)
LEMMA OneConnectionStep ==
  ASSUME AnswerInv, AnswerTypes', NEW c \in Conns, BooksOf(c)',
         \A d \in Conns \ {c} :
             /\ send'[d] = send[d] /\ owed'[d] = owed[d] /\ closed'[d] = closed[d]
             /\ wpc'[d] = wpc[d] /\ rpc'[d] = rpc[d]
  PROVE  AnswerInv'
  <1>1. \A d \in Conns \ {c} : BooksOf(d)'
    BY DEF AnswerInv, BooksOf, Due, Pending
  <1> QED
    BY <1>1 DEF AnswerInv

(* A step after which no more is owed and no less is under way.            *)
LEMMA UntouchedBooks ==
  ASSUME AnswerInv, UNCHANGED <<send, owed, closed, wpc, rpc>>
  PROVE  AnswerInv'
  BY DEF AnswerInv, AnswerTypes, BooksOf, Due, Pending

(* sendMsg either queues the message, or the connection is closed.         *)
LEMMA SendMsgCounts ==
  ASSUME AnswerInv, NEW c \in Conns, NEW kind \in Kinds, SendMsg(c, kind)
  PROVE  /\ send' \in [Conns -> Seq(Kinds)] /\ closed' \in [Conns -> BOOLEAN]
         /\ \A d \in Conns \ {c} : send'[d] = send[d] /\ closed'[d] = closed[d]
         /\ closed[c] => closed'[c]
         /\ Len(send'[c]) <= QueueCap
         /\ \/ Count(send'[c], Answers) =
                 Count(send[c], Answers) + (IF kind \in Answers THEN 1 ELSE 0)
            \/ closed'[c] /\ send'[c] = send[c]
  <1>1. /\ send \in [Conns -> Seq(Kinds)] /\ closed \in [Conns -> BOOLEAN]
        /\ send[c] \in Seq(Kinds) /\ Len(send[c]) <= QueueCap /\ Len(send[c]) \in Nat
    BY DEF AnswerInv, AnswerTypes, BooksOf
  <1>2. CASE closed[c] /\ UNCHANGED <<send, closed>>
    BY <1>1, <1>2
  <1>3. CASE /\ Len(send[c]) < QueueCap
             /\ send' = [send EXCEPT ![c] = Append(@, kind)]
             /\ UNCHANGED closed
    <2>1. /\ send' \in [Conns -> Seq(Kinds)]
          /\ \A d \in Conns \ {c} : send'[d] = send[d]
          /\ send'[c] = Append(send[c], kind)
      BY <1>1, <1>3
    <2>2. Len(send'[c]) <= QueueCap
      BY <1>1, <1>3, <2>1, ServerAssumption
    <2>3. Count(send'[c], Answers) = Count(send[c], Answers) + (IF kind \in Answers THEN 1 ELSE 0)
      BY <1>1, <2>1, CountAppend
    <2> QED
      BY <1>1, <1>3, <2>1, <2>2, <2>3
  <1>4. CASE Close(c) /\ UNCHANGED send
    BY <1>1, <1>4 DEF Close
  <1> QED
    BY <1>2, <1>3, <1>4 DEF SendMsg

(* A frame is read and its answer becomes due.                             *)
LEMMA FrameStep ==
  ASSUME SlotInv, AnswerInv, NEW c \in Conns,
         NEW next \in {"denied", "working", "authReject", "authOk"},
         ReadFrame(c, next), UNCHANGED <<send, closed, wpc>>
  PROVE  AnswerInv'
  <1>1. /\ rpc[c] = "reading" /\ rpc'[c] = next
        /\ \A d \in Conns \ {c} : rpc'[d] = rpc[d] /\ owed'[d] = owed[d]
        /\ owed'[c] = owed[c] + 1
        /\ owed' \in [Conns -> Nat]
    BY DEF ReadFrame, Step, SlotInv, SlotTypes, AnswerInv, AnswerTypes
  <1>2. AnswerTypes'
    BY <1>1 DEF AnswerInv, AnswerTypes
  <1>3. ~Pending(c) /\ Pending(c)'
    BY <1>1 DEF Pending
  <1>4. Due(c)' = Due(c) + 1
    BY <1>2, <1>3, DueIsNat DEF Due, AnswerInv
  <1>5. BooksOf(c)'
    BY <1>1, <1>4, DueIsNat DEF BooksOf, AnswerInv
  <1> QED
    BY <1>1, <1>2, <1>5, OneConnectionStep

(* An answer that was being computed is handed to sendMsg.                 *)
LEMMA AnswerStep ==
  ASSUME SlotInv, AnswerInv, NEW c \in Conns, NEW kind \in Answers, SendMsg(c, kind),
         NEW next \in {"reading", "authClose", "authInfo"},
         Pending(c), rpc' = [rpc EXCEPT ![c] = next], UNCHANGED <<owed, wpc>>
  PROVE  AnswerInv'
  <1>1. kind \in Kinds
    BY DEF Kinds
  <1>2. /\ send' \in [Conns -> Seq(Kinds)] /\ closed' \in [Conns -> BOOLEAN]
        /\ \A d \in Conns \ {c} : send'[d] = send[d] /\ closed'[d] = closed[d]
        /\ closed[c] => closed'[c]
        /\ Len(send'[c]) <= QueueCap
        /\ \/ Count(send'[c], Answers) = Count(send[c], Answers) + 1
           \/ closed'[c] /\ send'[c] = send[c]
    BY <1>1, SendMsgCounts
  <1>3. rpc'[c] = next /\ \A d \in Conns \ {c} : rpc'[d] = rpc[d]
    BY DEF SlotInv, SlotTypes
  <1>4. AnswerTypes'
    BY <1>2 DEF AnswerInv, AnswerTypes
  <1>5. ~Pending(c)'
    BY <1>3 DEF Pending
  <1>6. Due(c)' = Due(c) \/ (closed'[c] /\ Due(c)' <= Due(c) /\ Due(c)' \in Nat)
    <2>1. send'[c] \in Seq(Kinds)
      BY <1>2
    <2>2. Count(send'[c], Answers) \in Nat
      BY <2>1, PlacesFinite
    <2>3. Due(c)' = Count(send'[c], Answers)
      BY <1>5, <2>2 DEF Due
    <2> QED
      BY <1>2, <2>2, <2>3, DueIsNat DEF AnswerInv
  <1>7. BooksOf(c)'
    <2>1. Due(c) <= owed[c] /\ (~closed[c] /\ wpc[c] # "exit" => owed[c] = Due(c))
      BY DEF AnswerInv, BooksOf
    <2>2. Due(c)' <= owed[c] /\ (~closed'[c] /\ wpc[c] # "exit" => owed[c] = Due(c)')
      BY <1>2, <1>6, <2>1, DueIsNat DEF AnswerInv
    <2> QED
      BY <1>2, <1>3, <2>2 DEF BooksOf
  <1> QED
    BY <1>2, <1>3, <1>4, <1>7, OneConnectionStep

(* A message nobody asked for is handed to sendMsg.                        *)
LEMMA NoticeStep ==
  ASSUME SlotInv, AnswerInv, NEW c \in Conns, NEW kind \in Kinds \ Answers, SendMsg(c, kind),
         ~Pending(c), rpc' = [rpc EXCEPT ![c] = "reading"], owed' = owed,
         wpc[c] # "exit" \/ wpc' = wpc,
         wpc' = wpc \/ wpc' = [wpc EXCEPT ![c] = "running"]
  PROVE  AnswerInv'
  <1>1. /\ send' \in [Conns -> Seq(Kinds)] /\ closed' \in [Conns -> BOOLEAN]
        /\ \A d \in Conns \ {c} : send'[d] = send[d] /\ closed'[d] = closed[d]
        /\ closed[c] => closed'[c]
        /\ Len(send'[c]) <= QueueCap
        /\ \/ Count(send'[c], Answers) = Count(send[c], Answers) + 0
           \/ closed'[c] /\ send'[c] = send[c]
    BY SendMsgCounts
  <1>2. rpc'[c] = "reading" /\ \A d \in Conns \ {c} : rpc'[d] = rpc[d] /\ wpc'[d] = wpc[d]
    BY DEF SlotInv, SlotTypes, AnswerInv, AnswerTypes
  <1>3. AnswerTypes'
    BY <1>1 DEF AnswerInv, AnswerTypes, WriterSteps
  <1>4. ~Pending(c)'
    BY <1>2 DEF Pending
  <1>5. Due(c)' = Due(c)
    <2>1. Count(send'[c], Answers) = Count(send[c], Answers)
      BY <1>1, DueIsNat DEF AnswerInv
    <2> QED
      BY <1>4, <2>1 DEF Due
  <1>6. BooksOf(c)'
    BY <1>1, <1>2, <1>3, <1>5, DueIsNat DEF BooksOf, AnswerInv
  <1> QED
    BY <1>1, <1>2, <1>3, <1>6, OneConnectionStep

(* The write pump takes a message and writes it, or fails and leaves.      *)
LEMMA WriterStep ==
  ASSUME AnswerInv, NEW c \in Conns, WriteMessage(c) \/ WriteFails(c)
  PROVE  AnswerInv'
  <1>1. /\ send[c] \in Seq(Kinds) /\ send[c] # <<>> /\ send' = [send EXCEPT ![c] = Tail(@)]
        /\ wpc[c] = "running" /\ rpc' = rpc /\ closed' = closed
    BY DEF WriteMessage, WriteFails, Dequeue, Step, AnswerInv, AnswerTypes
  <1> DEFINE n == IF Head(send[c]) \in Answers THEN 1 ELSE 0
  <1>2. /\ send'[c] = Tail(send[c])
        /\ \A d \in Conns \ {c} : send'[d] = send[d]
        /\ send' \in [Conns -> Seq(Kinds)]
        /\ Len(send'[c]) = Len(send[c]) - 1
    BY <1>1 DEF AnswerInv, AnswerTypes
  <1>3. Count(send'[c], Answers) = Count(send[c], Answers) - n /\ Count(send'[c], Answers) \in Nat
    BY <1>1, <1>2, CountTail, PlacesFinite
  <1>4. n \in {0, 1}
    OBVIOUS
  <1>5. Pending(c)' <=> Pending(c)
    BY <1>1 DEF Pending
  <1> HIDE DEF n
  <1>6. Due(c)' = Due(c) - n /\ Due(c)' \in Nat
    BY <1>3, <1>4, <1>5, DueIsNat DEF Due, AnswerInv
  <1>7. CASE WriteMessage(c)
    <2>1. /\ ~closed[c] /\ wpc' = wpc
          /\ owed' = [owed EXCEPT ![c] = IF Head(send[c]) \in Answers THEN @ - 1 ELSE @]
      BY <1>7 DEF WriteMessage
    <2>2. owed[c] = Due(c)
      BY <1>1, <2>1 DEF AnswerInv, BooksOf
    <2>3. owed'[c] = owed[c] - n /\ \A d \in Conns \ {c} : owed'[d] = owed[d]
      BY <2>1, DueIsNat DEF n, AnswerInv, AnswerTypes
    <2>4. owed' \in [Conns -> Nat]
      <3>1. owed'[c] \in Nat
        BY <1>6, <2>2, <2>3
      <3> QED
        BY <2>1, <3>1 DEF AnswerInv, AnswerTypes
    <2>5. AnswerTypes'
      BY <1>1, <1>2, <2>1, <2>4 DEF AnswerInv, AnswerTypes
    <2>6. owed'[c] = Due(c)'
      BY <1>6, <2>2, <2>3
    <2>7. BooksOf(c)'
      BY <1>1, <1>2, <1>6, <2>1, <2>6, DueIsNat, ServerAssumption DEF AnswerInv, BooksOf
    <2> QED
      BY <1>1, <1>2, <2>1, <2>3, <2>5, <2>7, OneConnectionStep
  <1>8. CASE WriteFails(c)
    <2>1. owed' = owed /\ wpc' = [wpc EXCEPT ![c] = "exit"]
      BY <1>8 DEF WriteFails, Step
    <2>2. wpc'[c] = "exit" /\ \A d \in Conns \ {c} : wpc'[d] = wpc[d]
      BY <2>1 DEF AnswerInv, AnswerTypes
    <2>3. AnswerTypes'
      BY <1>1, <1>2, <2>1 DEF AnswerInv, AnswerTypes, WriterSteps
    <2>4. Due(c)' <= owed'[c]
      BY <1>4, <1>6, <2>1, DueIsNat DEF AnswerInv, BooksOf
    <2>5. rpc[c] # "off"
      BY <1>1 DEF AnswerInv, BooksOf
    <2>6. BooksOf(c)'
      BY <1>1, <1>2, <2>2, <2>4, <2>5, DueIsNat, ServerAssumption DEF AnswerInv, BooksOf
    <2> QED
      BY <1>1, <1>2, <2>1, <2>2, <2>3, <2>6, OneConnectionStep
  <1> QED
    BY <1>7, <1>8

(* The ticker adds an update where there is room.                          *)
LEMMA PushStep ==
  ASSUME AnswerInv, NEW c \in Conns, Push(c)
  PROVE  AnswerInv'
  <1>1. /\ send[c] \in Seq(Kinds) /\ Len(send[c]) < QueueCap
        /\ send' = [send EXCEPT ![c] = Append(@, "update")]
        /\ UNCHANGED <<owed, closed, wpc, rpc>>
        /\ "update" \in Kinds \ Answers
    BY DEF Push, AnswerInv, AnswerTypes, Kinds, Answers
  <1>2. /\ send'[c] = Append(send[c], "update")
        /\ \A d \in Conns \ {c} : send'[d] = send[d]
        /\ send' \in [Conns -> Seq(Kinds)]
        /\ Len(send'[c]) = Len(send[c]) + 1
    BY <1>1 DEF AnswerInv, AnswerTypes
  <1>3. Count(send'[c], Answers) = Count(send[c], Answers) + 0
    BY <1>1, <1>2, CountAppend
  <1>4. Due(c)' = Due(c)
    BY <1>1, <1>3, DueIsNat DEF Due, Pending, AnswerInv
  <1>5. AnswerTypes'
    BY <1>1, <1>2 DEF AnswerInv, AnswerTypes
  <1>6. BooksOf(c)'
    BY <1>1, <1>2, <1>4, DueIsNat, ServerAssumption DEF AnswerInv, BooksOf
  <1> QED
    BY <1>1, <1>2, <1>5, <1>6, OneConnectionStep

(* A step that closes the connection or its writer, or moves its reader    *)
(* between steps in which no answer is due.                                *)
LEMMA ClosingStep ==
  ASSUME SlotInv, AnswerInv, NEW c \in Conns, UNCHANGED <<send, owed>>,
         closed' = closed \/ closed' = [closed EXCEPT ![c] = TRUE],
         \/ wpc' = wpc
         \/ wpc' = [wpc EXCEPT ![c] = "exit"] /\ wpc[c] = "running"
         \/ wpc' = [wpc EXCEPT ![c] = "done"] /\ wpc[c] = "exit" /\ closed' = [closed EXCEPT ![c] = TRUE],
         \/ rpc' = rpc
         \/ \E next \in {"reading", "unregister", "release", "close", "done"} :
              /\ rpc[c] \in {"authClose", "reading", "unregister", "release", "close"}
              /\ rpc' = [rpc EXCEPT ![c] = next]
  PROVE  AnswerInv'
  <1>1. AnswerTypes'
    BY DEF AnswerInv, AnswerTypes, WriterSteps
  <1>2. \A d \in Conns \ {c} : closed'[d] = closed[d] /\ wpc'[d] = wpc[d] /\ rpc'[d] = rpc[d]
    BY DEF AnswerInv, AnswerTypes, SlotInv, SlotTypes
  <1>3. (Pending(c)' <=> Pending(c)) /\ (rpc'[c] = "off" <=> rpc[c] = "off")
    BY DEF Pending, SlotInv, SlotTypes
  <1>4. Due(c)' = Due(c)
    BY <1>3 DEF Due
  <1>5. /\ ~closed'[c] /\ wpc'[c] # "exit" => ~closed[c] /\ wpc[c] # "exit"
        /\ wpc[c] = "off" => wpc'[c] = "off"
    BY DEF AnswerInv, AnswerTypes
  <1>6. BooksOf(c)'
    BY <1>3, <1>4, <1>5 DEF AnswerInv, BooksOf
  <1> QED
    BY <1>1, <1>2, <1>6, OneConnectionStep

LEMMA NextKeepsAnswerInv ==
  ASSUME SlotInv, AnswerInv, [Next]_vars
  PROVE  AnswerInv'
  <1>1. CASE \E c \in Conns : Serve(c)
    <2> PICK c \in Conns : Serve(c)
      BY <1>1
    <2> DEFINE kind == IF TokenSet THEN "auth_required" ELSE "agent_info"
    <2>1. /\ hpc[c] = "registered" /\ SendMsg(c, kind)
          /\ rpc' = [rpc EXCEPT ![c] = "reading"]
          /\ wpc' = [wpc EXCEPT ![c] = "running"]
          /\ owed' = owed
      BY DEF Serve, Step
    <2>2. kind \in Kinds \ Answers
      BY DEF Kinds, Answers
    <2>3. rpc[c] = "off"
      BY <2>1 DEF SlotInv, Lifecycle
    <2>4. ~Pending(c) /\ wpc[c] # "exit"
      BY <2>3 DEF Pending, AnswerInv, BooksOf
    <2> HIDE DEF kind
    <2> QED
      BY <2>1, <2>2, <2>4, NoticeStep
  <1>2. CASE \E c \in Conns : Reading(c)
    <2>1. PICK c \in Conns : Reading(c)
      BY <1>2
    <2>2. UNCHANGED <<send, closed, wpc>>
      BY <2>1 DEF Reading, ReadRequest, ReadMalformedAuth, ReadBadAuth, ReadGoodAuth
    <2> DEFINE asked == IF authed[c] THEN "working" ELSE "denied"
    <2>3. \/ ReadFrame(c, asked) \/ ReadFrame(c, "denied")
          \/ ReadFrame(c, "authReject") \/ ReadFrame(c, "authOk")
      BY <2>1 DEF Reading, ReadRequest, ReadMalformedAuth, ReadBadAuth, ReadGoodAuth
    <2>4. asked \in {"denied", "working", "authReject", "authOk"}
      OBVIOUS
    <2> HIDE DEF asked
    <2>5. PICK next \in {"denied", "working", "authReject", "authOk"} : ReadFrame(c, next)
      BY <2>3, <2>4 DEF ReadFrame, Step
    <2> QED
      BY <2>2, <2>5, FrameStep
  <1>3. CASE \E c \in Conns : Deny(c) \/ Respond(c) \/ AuthReject(c) \/ AuthOk(c)
    <2>1. PICK c \in Conns, kind \in Answers, next \in {"reading", "authClose", "authInfo"} :
            /\ SendMsg(c, kind) /\ Pending(c)
            /\ rpc' = [rpc EXCEPT ![c] = next] /\ UNCHANGED <<owed, wpc>>
      BY <1>3 DEF Deny, Respond, AuthReject, AuthOk, Step, Pending, Answers
    <2> QED
      BY <2>1, AnswerStep
  <1>4. CASE \E c \in Conns : AuthInfo(c)
    <2>1. PICK c \in Conns :
            /\ SendMsg(c, "agent_info") /\ rpc[c] = "authInfo"
            /\ rpc' = [rpc EXCEPT ![c] = "reading"] /\ UNCHANGED <<owed, wpc>>
      BY <1>4 DEF AuthInfo, Step
    <2>2. "agent_info" \in Kinds \ Answers /\ ~Pending(c)
      BY <2>1 DEF Kinds, Answers, Pending
    <2> QED
      BY <2>1, <2>2, NoticeStep
  <1>5. CASE \E c \in Conns : WriteMessage(c) \/ WriteFails(c)
    BY <1>5, WriterStep
  <1>6. CASE \E c \in Conns : Push(c)
    BY <1>6, PushStep
  <1>7. CASE \E c \in Conns : AuthClose(c) \/ ReadError(c) \/ Leaving(c)
    <2>1. PICK c \in Conns :
            /\ UNCHANGED <<send, owed, wpc>>
            /\ closed' = closed \/ closed' = [closed EXCEPT ![c] = TRUE]
            /\ \E next \in {"reading", "unregister", "release", "close", "done"} :
                 /\ rpc[c] \in {"authClose", "reading", "unregister", "release", "close"}
                 /\ rpc' = [rpc EXCEPT ![c] = next]
      BY <1>7 DEF AuthClose, ReadError, Leaving, Unregister, ReleaseSlot, CloseClient, Step, Close, traffic
    <2> QED
      BY <2>1, ClosingStep
  <1>8. CASE \E c \in Conns : WriterSeesDone(c) \/ WriterExits(c)
    <2>1. PICK c \in Conns :
            /\ UNCHANGED <<send, owed, rpc>>
            /\ \/ /\ closed' = closed
                  /\ wpc' = [wpc EXCEPT ![c] = "exit"] /\ wpc[c] = "running"
               \/ /\ closed' = [closed EXCEPT ![c] = TRUE]
                  /\ wpc' = [wpc EXCEPT ![c] = "done"] /\ wpc[c] = "exit"
      BY <1>8 DEF WriterSeesDone, WriterExits, Step, Close, traffic
    <2> QED
      BY <2>1, ClosingStep
  <1>9. CASE \E c \in Conns : Reject(c) \/ Timer(c) \/ ShutdownCloses(c)
    <2>1. PICK c \in Conns :
            /\ UNCHANGED <<send, owed, rpc, wpc>>
            /\ closed' = closed \/ closed' = [closed EXCEPT ![c] = TRUE]
      BY <1>9 DEF Reject, Timer, TimerFires, TimerSeesDone, TimerCloses, ShutdownCloses, Close, traffic
    <2> QED
      BY <2>1, ClosingStep
  <1>10. CASE \/ \E c \in Conns : Admit(c) \/ Upgrade(c) \/ UpgradeFails(c) \/ Register(c) \/ RegisterFull(c)
              \/ ShutdownBegins \/ StopListening \/ Tick \/ UNCHANGED vars
    <2>1. UNCHANGED <<send, owed, closed, wpc, rpc>>
      BY <1>10 DEF Admit, Upgrade, UpgradeFails, Register, RegisterFull, ShutdownBegins,
                   StopListening, Tick, vars, traffic
    <2> QED
      BY <2>1, UntouchedBooks
  <1> QED
    BY <1>1, <1>2, <1>3, <1>4, <1>5, <1>6, <1>7, <1>8, <1>9, <1>10
       DEF Next, Handler, Handling, Writer

LEMMA AnswerInvariant == Spec => []AnswerInv
  <1>1. Init => AnswerInv
    <2> SUFFICES ASSUME Init
                 PROVE  AnswerInv
      OBVIOUS
    <2>1. AnswerTypes
      BY DEF Init, AnswerTypes, WriterSteps
    <2>2. ASSUME NEW c \in Conns
          PROVE  BooksOf(c)
      <3>1. send[c] = <<>> /\ owed[c] = 0 /\ rpc[c] = "off" /\ wpc[c] = "off"
        BY DEF Init
      <3>2. Due(c) = 0
        BY <3>1, CountEmpty DEF Due, Pending
      <3> QED
        BY <3>1, <3>2, ServerAssumption DEF BooksOf
    <2> QED
      BY <2>1, <2>2 DEF AnswerInv
  <1>2. SlotInv /\ AnswerInv /\ [Next]_vars => AnswerInv'
    BY NextKeepsAnswerInv
  <1> QED
    BY <1>1, <1>2, SlotInvariant, PTL DEF Spec

(* "Responses are not optional" (server.go:413-417), for any number of     *)
(* connections, frames and any capacity of the queue: on a connection that *)
(* is open and whose writer has not failed, every request that was read    *)
(* has its answer written, queued or being computed, in any interleaving   *)
(* with the ticker, the timer and shutdown.                                *)
THEOREM AnswersAccountedTheorem == Spec => []AnswersAccounted
  <1>1. AnswerInv => AnswersAccounted
    BY DEF AnswerInv, BooksOf, Due, AnswersAccounted
  <1> QED
    BY <1>1, AnswerInvariant, PTL

----------------------------------------------------------------------------

(* The variables of TypeOK no invariant above speaks of.                   *)
OtherTypes ==
    /\ now \in Nat \ {0}
    /\ DOMAIN failures \subseteq IPs
    /\ \A ip \in DOMAIN failures : failures[ip] \in Guard!FailureRecord
    /\ tpc \in [Conns -> {"off", "armed", "expired", "done"}]
    /\ authed \in [Conns -> BOOLEAN]
    /\ attempts \in [Conns -> Nat]
    /\ frames \in [Conns -> 0 .. MaxFrames]
    /\ spc \in {"up", "closing", "stopped"}
    /\ snapshot \subseteq Conns

(* fail() leaves only records of the right form.                           *)
LEMMA FailTypes ==
  ASSUME OtherTypes, NEW ip \in IPs, Guard!Fail(ip)
  PROVE  /\ DOMAIN failures' \subseteq IPs
         /\ \A i \in DOMAIN failures' : failures'[i] \in Guard!FailureRecord
  <1> DEFINE fresh == [count |-> 0, windowStart |-> now, blockedUntil |-> 0]
             rec == Guard!CountFailure(Guard!CurrentRecord(ip))
  <1>1. Guard!Kept \subseteq DOMAIN failures
    BY DEF Guard!Kept
  <1>2. Guard!CurrentRecord(ip) \in Guard!FailureRecord
    <2>1. fresh \in Guard!FailureRecord
      BY DEF OtherTypes, Guard!FailureRecord, Guard!Time
    <2>2. ip \in Guard!Kept => failures[ip] \in Guard!FailureRecord
      BY <1>1 DEF OtherTypes
    <2> QED
      BY <2>1, <2>2 DEF Guard!CurrentRecord
  <1>3. \A r \in Guard!FailureRecord : Guard!CountFailure(r) \in Guard!FailureRecord
    BY LimitsAssumption DEF OtherTypes, Guard!CountFailure, Guard!FailureRecord, Guard!Time
  <1>4. rec \in Guard!FailureRecord
    BY <1>2, <1>3
  <1>5. failures' = [i \in Guard!Kept \cup {ip} |-> IF i = ip THEN rec ELSE failures[i]]
    BY DEF Guard!Fail
  <1> HIDE DEF rec
  <1> QED
    BY <1>1, <1>4, <1>5 DEF OtherTypes

LEMMA NextKeepsOtherTypes ==
  ASSUME SlotInv, OtherTypes, [Next]_vars
  PROVE  OtherTypes'
  <1>1. \A c \in Conns : RemoteIP[c] \in IPs
    BY ServerAssumption
  <1>2. CASE \E c \in Conns : ReadBadAuth(c)
    <2> PICK c \in Conns : ReadBadAuth(c)
      BY <1>2
    <2>1. /\ DOMAIN failures' \subseteq IPs
          /\ \A i \in DOMAIN failures' : failures'[i] \in Guard!FailureRecord
      BY <1>1, FailTypes DEF ReadBadAuth
    <2>2. frames' \in [Conns -> 0 .. MaxFrames] /\ attempts' \in [Conns -> Nat] /\ now' = now
      BY ServerAssumption DEF ReadBadAuth, ReadFrame, OtherTypes, Guard!Fail
    <2> QED
      BY <2>1, <2>2 DEF ReadBadAuth, OtherTypes, serverVars
  <1>3. CASE \E c \in Conns : ReadGoodAuth(c)
    <2> PICK c \in Conns : ReadGoodAuth(c)
      BY <1>3
    <2>1. /\ DOMAIN failures' \subseteq IPs
          /\ \A i \in DOMAIN failures' : failures'[i] \in Guard!FailureRecord
      BY DEF ReadGoodAuth, Guard!Succeed, OtherTypes
    <2>2. frames' \in [Conns -> 0 .. MaxFrames] /\ authed' \in [Conns -> BOOLEAN] /\ now' = now
      BY ServerAssumption DEF ReadGoodAuth, ReadFrame, OtherTypes, Guard!Succeed
    <2> QED
      BY <2>1, <2>2 DEF ReadGoodAuth, OtherTypes, serverVars
  <1>4. CASE \E c \in Conns : ReadRequest(c) \/ ReadMalformedAuth(c)
    <2>1. frames' \in [Conns -> 0 .. MaxFrames]
      BY <1>4, ServerAssumption DEF ReadRequest, ReadMalformedAuth, ReadFrame, OtherTypes
    <2> QED
      BY <1>4, <2>1 DEF ReadRequest, ReadMalformedAuth, OtherTypes, guardVars, serverVars, authVars
  <1>5. CASE Tick
    BY <1>5 DEF Tick, Guard!Tick, OtherTypes, serverVars, authVars, traffic
  <1>6. CASE \E c \in Conns : Serve(c)
    BY <1>6, ServerAssumption DEF Serve, OtherTypes, guardVars, serverVars
  <1>7. CASE \E c \in Conns : Timer(c)
    BY <1>7 DEF Timer, TimerFires, TimerSeesDone, TimerCloses, Step, OtherTypes,
                guardVars, serverVars, authVars, traffic
  <1>8. CASE (\E c \in Conns : ShutdownCloses(c)) \/ ShutdownBegins \/ StopListening
    BY <1>8 DEF ShutdownCloses, ShutdownBegins, StopListening, SlotInv, SlotTypes, OtherTypes,
                guardVars, authVars, traffic
  <1>9. CASE \/ \E c \in Conns : Admit(c) \/ UpgradeFails(c) \/ Reject(c) \/ ReleaseSlot(c)
             \/ \E c \in Conns : Upgrade(c) \/ Register(c) \/ RegisterFull(c) \/ Handling(c)
             \/ \E c \in Conns : ReadError(c) \/ Unregister(c) \/ CloseClient(c) \/ Writer(c) \/ Push(c)
             \/ UNCHANGED vars
    <2>1. UNCHANGED <<now, failures, tpc, authed, attempts, frames, spc, snapshot>>
      BY <1>9 DEF Admit, UpgradeFails, Reject, ReleaseSlot, Guard!Admit, Guard!Release,
                  Upgrade, Register, RegisterFull,
                  Handling, Deny, Respond, AuthReject, AuthClose, AuthOk, AuthInfo,
                  ReadError, Unregister, CloseClient,
                  Writer, WriteMessage, WriteFails, WriterSeesDone, WriterExits, Push,
                  vars, guardVars, serverVars, authVars, traffic
    <2> QED
      BY <2>1 DEF OtherTypes
  <1> QED
    BY <1>2, <1>3, <1>4, <1>5, <1>6, <1>7, <1>8, <1>9 DEF Next, Handler, Reading, Leaving

LEMMA OtherTypesInvariant == Spec => []OtherTypes
  <1>1. Init => OtherTypes
    BY ServerAssumption DEF Init, Guard!GuardInit, OtherTypes
  <1>2. SlotInv /\ OtherTypes /\ [Next]_vars => OtherTypes'
    BY NextKeepsOtherTypes
  <1> QED
    BY <1>1, <1>2, SlotInvariant, PTL DEF Spec

(* Every variable of the server and of the guard inside it stays in its    *)
(* range; in particular no queue outgrows its capacity, no address holds   *)
(* more than MaxActive slots, and no answer is written that is not owed.   *)
THEOREM TypeOKTheorem == Spec => []TypeOK
  <1>1. SlotInv /\ AnswerInv /\ OtherTypes => TypeOK
    BY DEF SlotInv, SlotTypes, HandlerSteps, LiveSteps, AnswerInv, AnswerTypes, BooksOf, WriterSteps,
           OtherTypes, TypeOK, Guard!GuardTypeOK, Guard!Time
  <1> QED
    BY <1>1, SlotInvariant, AnswerInvariant, OtherTypesInvariant, PTL

============================================================================
