------------------------ MODULE ClientManagerProofs ------------------------
(***************************************************************************)
(* The connection lifecycles of ClientManager for any number of Connect    *)
(* calls and endpoints, any number of generations and any retry limit.     *)
(***************************************************************************)
EXTENDS ClientManager, FiniteSetTheorems, TLAPS

(* A reconnect that may still put a new generation in place.               *)
Trying == {"check", "waiting", "dialing", "shaken", "giveUp"}

(* Before Connect inserts the agent nothing of it exists.                  *)
Unborn(a) ==
    /\ ~connected[a]
    /\ ~stopped[a]
    /\ a \notin agents
    /\ dpc[a] = "off"
    /\ cpc[a] # "inserted"

(* Generation 0 is that of an agent not yet inserted, and Connect inserts  *)
(* an agent once.                                                          *)
Birth ==
    \A a \in Agents :
        /\ generation[a] = 0 => Unborn(a)
        /\ cpc[a] \in {"idle", "dialing", "shaken"} => generation[a] = 0
        /\ cpc[a] = "inserted" => generation[a] = 1 /\ pump[a][1] = "off"

(* Generations come one after the other: nothing runs for a later one, and *)
(* the current one is replaced only by the reconnect that its own pump     *)
(* started when it stopped reading.                                        *)
Succession ==
    \A a \in Agents, g \in Gens :
        /\ g > generation[a] => pump[a][g] = "off"
        /\ pump[a][g] = "reading" => g = generation[a]
        /\ rpc[a][g] # "off" => pump[a][g] \notin {"off", "reading"}
        /\ rpc[a][g] \in Trying => g = generation[a]
        /\ rpc[a][g] = "shaken" => g < MaxGen
        /\ rpc[a][g] = "installed" =>
             g < MaxGen /\ generation[a] = g + 1 /\ pump[a][g + 1] = "off"

(* An agent whose pump is about to be started is connected unless stopped. *)
AboutToRead ==
    \A a \in Agents :
        ~stopped[a] =>
            /\ cpc[a] = "inserted" => connected[a]
            /\ \A g \in Gens : rpc[a][g] = "installed" => connected[a]

(* A reconnect counts below the limit until it gives up.                   *)
RetriesCounted ==
    \A a \in Agents, g \in Gens :
        /\ rpc[a][g] = "off" => tries[a][g] = 0
        /\ rpc[a][g] \in {"check", "waiting", "dialing"} => tries[a][g] < MaxRetries

(* The inductive invariant.                                                *)
ManagerInv ==
    /\ TypeOK /\ Birth /\ Succession /\ AboutToRead /\ RetriesCounted
    /\ StoppedStaysDown /\ ReadingMeansConnected /\ ConnectedHasReader
----------------------------------------------------------------------------

PumpSteps == {"off", "reading", "leaving", "closing", "done"}
ReconnectSteps == {"off", "check", "waiting", "dialing", "shaken", "installed", "giveUp", "done"}

(* The value of one generation of one agent becomes v, the others stay.    *)
Becomes(new, old, a, g, v) ==
    \A b \in Agents, k \in Gens : new[b][k] = IF b = a /\ k = g THEN v ELSE old[b][k]

LEMMA FirstGeneration == 1 \in Gens
  BY ManagerAssumption DEF Gens

LEMMA NextGeneration ==
  ASSUME NEW g \in Gens, g < MaxGen
  PROVE  g + 1 \in Gens
  BY ManagerAssumption DEF Gens

(* A connected agent has a generation.                                     *)
LEMMA CurrentGeneration ==
  ASSUME ManagerInv, NEW a \in Agents, connected[a]
  PROVE  /\ generation[a] \in Gens
         /\ generation[a] > 1 => generation[a] - 1 \in Gens
  <1>1. generation[a] \in 0 .. MaxGen /\ generation[a] # 0
    BY DEF ManagerInv, TypeOK, Birth, Unborn
  <1> QED
    BY <1>1, ManagerAssumption DEF Gens

(* Closing a socket changes nothing but the socket.                        *)
LEMMA CloseSockType ==
  ASSUME TypeOK, NEW a \in Agents, NEW g, CloseSock(a, g)
  PROVE  sock' \in [Agents -> [Gens -> {"none", "open", "closed"}]]
  <1> DEFINE S == {"none", "open", "closed"}
  <1>1. sock \in [Agents -> [Gens -> S]] /\ "closed" \in S
    BY DEF TypeOK
  <1>2. \A x \in S : (IF x = "open" THEN "closed" ELSE x) \in S
    BY <1>1
  <1> HIDE DEF S
  <1>3. [sock[a] EXCEPT ![g] = IF @ = "open" THEN "closed" ELSE @] \in [Gens -> S]
    BY <1>1, <1>2
  <1> QED
    BY <1>1, <1>3 DEF CloseSock, S

(* Before the insertion a step of ConnectWithOptions changes only its own  *)
(* program counter and its socket.                                         *)
LEMMA BeforeInsertStep ==
  ASSUME ManagerInv, NEW a \in Agents, NEW v \in {"dialing", "shaken", "returned"},
         cpc[a] \in {"idle", "dialing", "shaken"},
         cpc' = [cpc EXCEPT ![a] = v],
         sock' \in [Agents -> [Gens -> {"none", "open", "closed"}]],
         UNCHANGED <<agents, globalDone, state, pump, rpc, tries, dpc, all>>
  PROVE  ManagerInv'
  <1>1. TypeOK'
    BY DEF ManagerInv, TypeOK, state, all
  <1>2. \A b \in Agents : /\ cpc'[b] = IF b = a THEN v ELSE cpc[b]
                          /\ cpc'[b] = "inserted" <=> cpc[b] = "inserted"
    BY DEF ManagerInv, TypeOK
  <1>3. Birth'
    BY <1>2 DEF ManagerInv, Birth, Unborn, state
  <1>4. Succession' /\ RetriesCounted' /\ StoppedStaysDown' /\ ReadingMeansConnected'
    BY DEF ManagerInv, Succession, RetriesCounted, StoppedStaysDown, ReadingMeansConnected, state
  <1>5. AboutToRead' /\ ConnectedHasReader'
    BY <1>2 DEF ManagerInv, AboutToRead, ConnectedHasReader, state
  <1> QED
    BY <1>1, <1>3, <1>4, <1>5 DEF ManagerInv

(* A step of ConnectWithOptions.                                           *)
LEMMA ConnectingStep ==
  ASSUME ManagerInv, NEW a \in Agents, ConnectCheck(a) \/ Connecting(a)
  PROVE  ManagerInv'
  <1>1. CASE ConnectCheck(a)
    <2>1. cpc' = [cpc EXCEPT ![a] = "returned"] \/ cpc' = [cpc EXCEPT ![a] = "dialing"]
      BY <1>1 DEF ConnectCheck
    <2>2. /\ cpc[a] \in {"idle", "dialing", "shaken"}
          /\ sock' \in [Agents -> [Gens -> {"none", "open", "closed"}]]
          /\ UNCHANGED <<agents, globalDone, state, pump, rpc, tries, dpc, all>>
      BY <1>1 DEF ConnectCheck, ManagerInv, TypeOK
    <2> QED
      BY <2>1, <2>2, BeforeInsertStep
  <1>2. CASE ConnectFails(a)
    <2>1. /\ cpc' = [cpc EXCEPT ![a] = "returned"]
          /\ cpc[a] \in {"idle", "dialing", "shaken"}
          /\ sock' \in [Agents -> [Gens -> {"none", "open", "closed"}]]
          /\ UNCHANGED <<agents, globalDone, state, pump, rpc, tries, dpc, all>>
      BY <1>2 DEF ConnectFails, ManagerInv, TypeOK
    <2> QED
      BY <2>1, BeforeInsertStep
  <1>3. CASE ConnectShaken(a)
    <2>1. /\ cpc' = [cpc EXCEPT ![a] = "shaken"]
          /\ cpc[a] \in {"idle", "dialing", "shaken"}
          /\ sock' \in [Agents -> [Gens -> {"none", "open", "closed"}]]
          /\ UNCHANGED <<agents, globalDone, state, pump, rpc, tries, dpc, all>>
      BY <1>3, FirstGeneration DEF ConnectShaken, ManagerInv, TypeOK
    <2> QED
      BY <2>1, BeforeInsertStep
  <1>4. CASE ConnectGivesWay(a)
    <2>1. sock' \in [Agents -> [Gens -> {"none", "open", "closed"}]]
      BY <1>4, CloseSockType, FirstGeneration DEF ConnectGivesWay, ManagerInv
    <2>2. /\ cpc' = [cpc EXCEPT ![a] = "returned"]
          /\ cpc[a] \in {"idle", "dialing", "shaken"}
          /\ UNCHANGED <<agents, globalDone, state, pump, rpc, tries, dpc, all>>
      BY <1>4 DEF ConnectGivesWay
    <2> QED
      BY <2>1, <2>2, BeforeInsertStep
  <1> USE ManagerAssumption
      DEF ManagerInv, TypeOK, Birth, Unborn, Succession, AboutToRead, RetriesCounted, Trying,
          StoppedStaysDown, ReadingMeansConnected, ConnectedHasReader, Gens, state, all
  <1>5. CASE ConnectInsert(a)
    BY <1>5 DEF ConnectInsert
  <1>6. CASE ConnectReturns(a)
    BY <1>6 DEF ConnectReturns, StartPump
  <1> QED
    BY <1>1, <1>2, <1>3, <1>4, <1>5, <1>6 DEF Connecting

(* A step of the read pump of a generation.                                *)
LEMMA PumpStep ==
  ASSUME ManagerInv, NEW a \in Agents, NEW g \in Gens,
         PumpSeesCancel(a, g) \/ PumpReadError(a, g) \/ PumpExits(a, g)
  PROVE  ManagerInv'
  <1> USE DEF state, all
  <1>0. pump \in [Agents -> [Gens -> PumpSteps]] /\ rpc \in [Agents -> [Gens -> ReconnectSteps]]
    BY DEF ManagerInv, TypeOK, PumpSteps, ReconnectSteps
  <1>1. CASE PumpSeesCancel(a, g) \/ PumpReadError(a, g)
    <2>1. pump' \in [Agents -> [Gens -> PumpSteps]] /\ Becomes(pump', pump, a, g, "leaving")
      <3>1. "leaving" \in PumpSteps /\ pump' = [pump EXCEPT ![a][g] = "leaving"]
        BY <1>1 DEF PumpSeesCancel, PumpReadError, PumpSteps
      <3> QED
        BY <1>0, <3>1 DEF Becomes
    <2>2. /\ rpc' \in [Agents -> [Gens -> ReconnectSteps]]
          /\ \A b \in Agents, k \in Gens :
               \/ rpc'[b][k] = rpc[b][k]
               \/ b = a /\ k = g /\ generation[a] = g /\ rpc'[a][g] = "check"
      <3>1. CASE ~ShouldReconnect(a, g) \/ PumpSeesCancel(a, g)
        BY <1>0, <1>1, <3>1 DEF PumpSeesCancel, PumpReadError
      <3>2. CASE ShouldReconnect(a, g) /\ PumpReadError(a, g)
        <4>1. "check" \in ReconnectSteps /\ rpc' = [rpc EXCEPT ![a][g] = "check"]
          BY <3>2 DEF PumpReadError, ReconnectSteps
        <4> QED
          BY <1>0, <3>2, <4>1 DEF ShouldReconnect, Becomes
      <3> QED
        BY <1>1, <3>1, <3>2
    <2>3. /\ pump[a][g] = "reading"
          /\ UNCHANGED <<agents, globalDone, connected, generation, stopped, sock, cpc, tries, dpc, apc, closing>>
      BY <1>1 DEF PumpSeesCancel, PumpReadError
    <2>4. TypeOK'
      BY <2>1, <2>2, <2>3 DEF ManagerInv, TypeOK, PumpSteps, ReconnectSteps
    <2>5. Birth' /\ AboutToRead'
      <3>1. Birth'
        BY <2>1, <2>3, FirstGeneration DEF ManagerInv, Birth, Unborn, Becomes
      <3>2. AboutToRead'
        BY <2>2, <2>3 DEF ManagerInv, AboutToRead
      <3> QED
        BY <3>1, <3>2
    <2>6. Succession'
      BY <2>1, <2>2, <2>3, NextGeneration DEF ManagerInv, Succession, Trying, Becomes
    <2>7. RetriesCounted'
      <3>1. rpc[a][g] = "off"
        BY <2>3 DEF ManagerInv, Succession
      <3> QED
        BY <2>2, <2>3, <3>1, ManagerAssumption DEF ManagerInv, RetriesCounted, Becomes
    <2>8. StoppedStaysDown' /\ ReadingMeansConnected'
      BY <2>1, <2>3 DEF ManagerInv, StoppedStaysDown, ReadingMeansConnected, Becomes
    <2>9. ConnectedHasReader'
      BY <2>1, <2>2, <2>3, CurrentGeneration DEF ManagerInv, ConnectedHasReader, Becomes
    <2> QED
      BY <2>4, <2>5, <2>6, <2>7, <2>8, <2>9 DEF ManagerInv
  <1>2. CASE PumpLeaves(a, g)
    <2>1. pump' \in [Agents -> [Gens -> PumpSteps]] /\ Becomes(pump', pump, a, g, "closing")
      <3>1. "closing" \in PumpSteps /\ pump' = [pump EXCEPT ![a][g] = "closing"]
        BY <1>2 DEF PumpLeaves, PumpSteps
      <3> QED
        BY <1>0, <3>1 DEF Becomes
    <2>2. /\ pump[a][g] = "leaving"
          /\ connected' = [connected EXCEPT ![a] = IF generation[a] = g THEN FALSE ELSE @]
          /\ UNCHANGED <<agents, globalDone, generation, stopped, sock, cpc, rpc, tries, dpc, apc, closing>>
      BY <1>2 DEF PumpLeaves, MarkDisconnected
    <2>3. TypeOK'
      BY <2>1, <2>2 DEF ManagerInv, TypeOK, PumpSteps
    <2>4. Birth' /\ StoppedStaysDown'
      BY <2>1, <2>2, FirstGeneration
         DEF ManagerInv, TypeOK, Birth, Unborn, StoppedStaysDown, Becomes
    <2>5. Succession' /\ RetriesCounted'
      BY <2>1, <2>2, NextGeneration DEF ManagerInv, Succession, RetriesCounted, Becomes
    <2>6. AboutToRead'
      BY <2>2 DEF ManagerInv, TypeOK, Birth, Succession, AboutToRead
    <2>7. ReadingMeansConnected'
      BY <2>1, <2>2 DEF ManagerInv, TypeOK, ReadingMeansConnected, Becomes
    <2>8. ConnectedHasReader'
      BY <2>1, <2>2, CurrentGeneration DEF ManagerInv, TypeOK, ConnectedHasReader, Becomes
    <2> QED
      BY <2>3, <2>4, <2>5, <2>6, <2>7, <2>8 DEF ManagerInv
  <1>3. CASE PumpFinishes(a, g)
    <2>1. pump' \in [Agents -> [Gens -> PumpSteps]] /\ Becomes(pump', pump, a, g, "done")
      <3>1. "done" \in PumpSteps /\ pump' = [pump EXCEPT ![a][g] = "done"]
        BY <1>3 DEF PumpFinishes, PumpSteps
      <3> QED
        BY <1>0, <3>1 DEF Becomes
    <2>2. /\ pump[a][g] = "closing"
          /\ UNCHANGED <<agents, globalDone, connected, generation, stopped, cpc, rpc, tries, dpc, apc, closing>>
      BY <1>3 DEF PumpFinishes
    <2>3. TypeOK'
      <3>1. sock' \in [Agents -> [Gens -> {"none", "open", "closed"}]]
        BY <1>3, CloseSockType DEF PumpFinishes, ManagerInv
      <3> QED
        BY <2>1, <2>2, <3>1 DEF ManagerInv, TypeOK, PumpSteps
    <2>4. Birth'
      BY <2>1, <2>2, FirstGeneration DEF ManagerInv, Birth, Unborn, Becomes
    <2>8. StoppedStaysDown' /\ AboutToRead'
      BY <2>2 DEF ManagerInv, StoppedStaysDown, AboutToRead
    <2>5. Succession' /\ RetriesCounted'
      BY <2>1, <2>2, NextGeneration DEF ManagerInv, Succession, RetriesCounted, Becomes
    <2>6. ReadingMeansConnected'
      BY <2>1, <2>2 DEF ManagerInv, ReadingMeansConnected, Becomes
    <2>7. ConnectedHasReader'
      BY <2>1, <2>2, CurrentGeneration DEF ManagerInv, ConnectedHasReader, Becomes
    <2> QED
      BY <2>3, <2>4, <2>5, <2>6, <2>7, <2>8 DEF ManagerInv
  <1> QED
    BY <1>1, <1>2, <1>3 DEF PumpExits

(* A step of a reconnect that stays within it: nothing but its own counter *)
(* and its socket change.                                                  *)
LEMMA ReconnectMoves ==
  ASSUME ManagerInv, NEW a \in Agents, NEW g \in Gens, rpc[a][g] \in Trying,
         NEW to \in Trying \cup {"done"}, rpc' = [rpc EXCEPT ![a][g] = to],
         to = "shaken" => g < MaxGen,
         tries' \in [Agents -> [Gens -> 0 .. MaxRetries]],
         \A b \in Agents, k \in Gens : b # a \/ k # g => tries'[b][k] = tries[b][k],
         to \in {"check", "waiting", "dialing"} => tries'[a][g] < MaxRetries,
         sock' \in [Agents -> [Gens -> {"none", "open", "closed"}]],
         UNCHANGED <<agents, globalDone, connected, generation, stopped, cpc, pump, dpc, apc, closing>>
  PROVE  ManagerInv'
  <1>1. rpc' \in [Agents -> [Gens -> ReconnectSteps]] /\ Becomes(rpc', rpc, a, g, to)
    <2>1. rpc \in [Agents -> [Gens -> ReconnectSteps]] /\ to \in ReconnectSteps
      BY DEF ManagerInv, TypeOK, ReconnectSteps, Trying
    <2> QED
      BY <2>1 DEF Becomes
  <1>2. to \notin {"off", "installed"} /\ rpc[a][g] \notin {"off", "installed"} /\ g = generation[a]
    BY DEF Trying, ManagerInv, Succession
  <1>3. TypeOK'
    BY <1>1 DEF ManagerInv, TypeOK, ReconnectSteps
  <1>4. Birth' /\ StoppedStaysDown' /\ ReadingMeansConnected'
    BY DEF ManagerInv, Birth, Unborn, StoppedStaysDown, ReadingMeansConnected
  <1>5. Succession'
    BY <1>1, <1>2 DEF ManagerInv, Succession, Becomes
  <1>6. AboutToRead'
    BY <1>1, <1>2 DEF ManagerInv, AboutToRead, Becomes
  <1>7. RetriesCounted'
    <2> SUFFICES ASSUME NEW b \in Agents, NEW k \in Gens
                 PROVE  /\ rpc'[b][k] = "off" => tries'[b][k] = 0
                        /\ rpc'[b][k] \in {"check", "waiting", "dialing"} => tries'[b][k] < MaxRetries
      BY DEF RetriesCounted
    <2>1. CASE b = a /\ k = g
      BY <1>1, <1>2, <2>1 DEF Becomes
    <2>2. CASE b # a \/ k # g
      <3>1. tries'[b][k] = tries[b][k] /\ rpc'[b][k] = rpc[b][k]
        BY <1>1, <2>2 DEF Becomes
      <3> QED
        BY <3>1 DEF ManagerInv, RetriesCounted
    <2> QED
      BY <2>1, <2>2
  <1>8. ConnectedHasReader'
    BY <1>1, <1>2, CurrentGeneration DEF ManagerInv, ConnectedHasReader, Becomes
  <1> QED
    BY <1>3, <1>4, <1>5, <1>6, <1>7, <1>8 DEF ManagerInv

(* installGeneration puts the next generation in place.                    *)
LEMMA InstallStep ==
  ASSUME ManagerInv, NEW a \in Agents, NEW g \in Gens, ReconnectInstalls(a, g)
  PROVE  ManagerInv'
  <1>1. rpc' \in [Agents -> [Gens -> ReconnectSteps]] /\ Becomes(rpc', rpc, a, g, "installed")
    <2>1. rpc \in [Agents -> [Gens -> ReconnectSteps]] /\ "installed" \in ReconnectSteps
      BY DEF ManagerInv, TypeOK, ReconnectSteps
    <2> QED
      BY <2>1 DEF ReconnectInstalls, Becomes
  <1>2. /\ rpc[a][g] = "shaken" /\ ~stopped[a]
        /\ generation' = [generation EXCEPT ![a] = g + 1]
        /\ connected' = [connected EXCEPT ![a] = TRUE]
        /\ UNCHANGED <<agents, globalDone, stopped, sock, cpc, pump, tries, dpc, apc, closing>>
    BY DEF ReconnectInstalls, Cancelled, all
  <1>3. g < MaxGen /\ g = generation[a] /\ g + 1 \in Gens /\ g \in Nat /\ g >= 1
    BY <1>2, NextGeneration DEF ManagerInv, Succession, Trying, Gens
  <1>4. /\ generation'[a] = g + 1
        /\ connected'[a]
        /\ \A b \in Agents \ {a} : generation'[b] = generation[b] /\ connected'[b] = connected[b]
    BY <1>2 DEF ManagerInv, TypeOK
  <1>5. pump[a][g + 1] = "off" /\ pump[a][g] \notin {"off", "reading"}
    BY <1>2, <1>3 DEF ManagerInv, Succession
  <1>6. TypeOK'
    <2>1. generation' \in [Agents -> 0 .. MaxGen] /\ connected' \in [Agents -> BOOLEAN]
      BY <1>2, <1>3, ManagerAssumption DEF ManagerInv, TypeOK
    <2> QED
      BY <1>1, <1>2, <2>1 DEF ManagerInv, TypeOK, ReconnectSteps
  <1>7. cpc[a] = "returned"
    <2>1. cpc[a] \in {"idle", "dialing", "shaken", "inserted", "returned"}
      BY DEF ManagerInv, TypeOK
    <2>2. cpc[a] \notin {"idle", "dialing", "shaken"}
      BY <1>3 DEF ManagerInv, Birth
    <2>3. cpc[a] # "inserted"
      BY <1>3, <1>5 DEF ManagerInv, Birth
    <2> QED
      BY <2>1, <2>2, <2>3
  <1>8. Birth'
    BY <1>2, <1>3, <1>4, <1>7 DEF ManagerInv, Birth, Unborn
  <1>9. ASSUME NEW b \in Agents, NEW k \in Gens
        PROVE  /\ k > generation'[b] => pump[b][k] = "off"
               /\ pump[b][k] = "reading" => k = generation'[b]
               /\ rpc'[b][k] # "off" => pump[b][k] \notin {"off", "reading"}
               /\ rpc'[b][k] \in Trying => k = generation'[b]
               /\ rpc'[b][k] = "shaken" => k < MaxGen
               /\ rpc'[b][k] = "installed" =>
                    k < MaxGen /\ generation'[b] = k + 1 /\ pump[b][k + 1] = "off"
    <2>1. CASE b # a
      BY <1>1, <1>4, <2>1 DEF ManagerInv, Succession, Becomes
    <2>2. CASE b = a /\ k = g
      BY <1>1, <1>3, <1>4, <1>5, <2>2 DEF Becomes, Trying, Gens
    <2>3. CASE b = a /\ k # g
      <3>1. /\ k > g => pump[a][k] = "off"
            /\ pump[a][k] # "reading"
            /\ rpc[a][k] # "off" => pump[a][k] \notin {"off", "reading"}
            /\ rpc[a][k] \notin Trying
        BY <1>3, <2>3 DEF ManagerInv, Succession
      <3>2. rpc[a][k] # "installed"
        BY <1>3, <1>5, <2>3 DEF ManagerInv, Succession
      <3>3. k \in Nat /\ k > g + 1 => k > g
        BY <1>3 DEF Gens
      <3> QED
        BY <1>1, <1>4, <2>3, <3>1, <3>2, <3>3 DEF Becomes, Trying, Gens
    <2> QED
      BY <2>1, <2>2, <2>3
  <1>10. Succession'
    BY <1>2, <1>9 DEF Succession
  <1>11. AboutToRead'
    BY <1>1, <1>2, <1>4 DEF ManagerInv, AboutToRead, Becomes
  <1>12. RetriesCounted'
    BY <1>1, <1>2 DEF ManagerInv, RetriesCounted, Becomes
  <1>13. StoppedStaysDown'
    BY <1>2, <1>4 DEF ManagerInv, StoppedStaysDown
  <1>14. ReadingMeansConnected'
    BY <1>2, <1>4 DEF ManagerInv, ReadingMeansConnected
  <1>15. ConnectedHasReader'
    <2> SUFFICES ASSUME NEW b \in Agents, connected'[b]
                 PROVE  \/ pump'[b][generation'[b]] \in {"reading", "leaving"}
                        \/ generation'[b] = 1 /\ cpc'[b] = "inserted"
                        \/ generation'[b] > 1 /\ rpc'[b][generation'[b] - 1] = "installed"
      BY DEF ConnectedHasReader
    <2>1. CASE b = a
      BY <1>1, <1>3, <1>4, <2>1 DEF Becomes
    <2>2. CASE b # a
      BY <1>1, <1>2, <1>4, <2>2, CurrentGeneration DEF ManagerInv, ConnectedHasReader, Becomes
    <2> QED
      BY <2>1, <2>2
  <1> QED
    BY <1>6, <1>8, <1>10, <1>11, <1>12, <1>13, <1>14, <1>15 DEF ManagerInv

(* The old socket is closed and the pump of the new generation started.    *)
LEMMA ReconnectReturnsStep ==
  ASSUME ManagerInv, NEW a \in Agents, NEW g \in Gens, ReconnectReturns(a, g)
  PROVE  ManagerInv'
  <1>1. /\ rpc[a][g] = "installed"
        /\ UNCHANGED <<agents, globalDone, connected, generation, stopped, cpc, tries, dpc, apc, closing>>
    BY DEF ReconnectReturns, state, all
  <1>2. /\ g < MaxGen /\ g + 1 \in Gens /\ g \in Nat /\ g >= 1
        /\ generation[a] = g + 1
        /\ pump[a][g + 1] = "off"
    BY <1>1, NextGeneration DEF ManagerInv, Succession, Gens
  <1>3. rpc' \in [Agents -> [Gens -> ReconnectSteps]] /\ Becomes(rpc', rpc, a, g, "done")
    <2>1. rpc \in [Agents -> [Gens -> ReconnectSteps]] /\ "done" \in ReconnectSteps
      BY DEF ManagerInv, TypeOK, ReconnectSteps
    <2> QED
      BY <2>1 DEF ReconnectReturns, Becomes
  <1>4. pump' \in [Agents -> [Gens -> PumpSteps]] /\ Becomes(pump', pump, a, g + 1, "reading")
    <2>1. pump \in [Agents -> [Gens -> PumpSteps]] /\ "reading" \in PumpSteps
      BY DEF ManagerInv, TypeOK, PumpSteps
    <2> QED
      BY <1>2, <2>1 DEF ReconnectReturns, StartPump, Becomes
  <1>5. sock' \in [Agents -> [Gens -> {"none", "open", "closed"}]]
    BY CloseSockType DEF ReconnectReturns, ManagerInv
  <1>6. TypeOK'
    BY <1>1, <1>3, <1>4, <1>5 DEF ManagerInv, TypeOK, PumpSteps, ReconnectSteps
  <1>7. Birth'
    BY <1>1, <1>2, <1>4, FirstGeneration DEF ManagerInv, Birth, Unborn, Becomes
  <1>8. rpc[a][g + 1] = "off"
    BY <1>2 DEF ManagerInv, Succession
  <1>9. Succession'
    <2> SUFFICES ASSUME NEW b \in Agents, NEW k \in Gens
                 PROVE  /\ k > generation[b] => pump'[b][k] = "off"
                        /\ pump'[b][k] = "reading" => k = generation[b]
                        /\ rpc'[b][k] # "off" => pump'[b][k] \notin {"off", "reading"}
                        /\ rpc'[b][k] \in Trying => k = generation[b]
                        /\ rpc'[b][k] = "shaken" => k < MaxGen
                        /\ rpc'[b][k] = "installed" =>
                             k < MaxGen /\ generation[b] = k + 1 /\ pump'[b][k + 1] = "off"
      BY <1>1 DEF Succession
    <2>1. CASE b # a
      BY <1>3, <1>4, <2>1, NextGeneration DEF ManagerInv, Succession, Becomes
    <2>2. CASE b = a /\ k = g
      BY <1>1, <1>2, <1>3, <1>4, <2>2 DEF ManagerInv, Succession, Becomes, Trying
    <2>3. CASE b = a /\ k = g + 1
      BY <1>2, <1>3, <1>4, <1>8, <2>3 DEF Becomes, Trying
    <2>4. CASE b = a /\ k # g /\ k # g + 1
      <3>1. pump'[b][k] = pump[b][k] /\ rpc'[b][k] = rpc[b][k]
        BY <1>3, <1>4, <2>4 DEF Becomes
      <3>2. rpc[b][k] # "installed"
        BY <1>2, <2>4 DEF ManagerInv, Succession, Gens
      <3> QED
        BY <2>4, <3>1, <3>2 DEF ManagerInv, Succession
    <2> QED
      BY <2>1, <2>2, <2>3, <2>4
  <1>10. AboutToRead'
    BY <1>1, <1>3 DEF ManagerInv, AboutToRead, Becomes
  <1>11. RetriesCounted' /\ StoppedStaysDown'
    BY <1>1, <1>3 DEF ManagerInv, RetriesCounted, StoppedStaysDown, Becomes
  <1>12. ReadingMeansConnected'
    BY <1>1, <1>2, <1>4 DEF ManagerInv, AboutToRead, ReadingMeansConnected, Becomes
  <1>13. ConnectedHasReader'
    <2>1. pump'[a][generation[a]] = "reading"
      BY <1>2, <1>4 DEF Becomes
    <2> QED
      BY <1>1, <1>3, <1>4, <2>1, CurrentGeneration DEF ManagerInv, ConnectedHasReader, Becomes
  <1> QED
    BY <1>6, <1>7, <1>9, <1>10, <1>11, <1>12, <1>13 DEF ManagerInv

(* The reconnect is given up: the generation it follows is disconnected.   *)
LEMMA ReconnectGivesUpStep ==
  ASSUME ManagerInv, NEW a \in Agents, NEW g \in Gens, ReconnectGivesUp(a, g)
  PROVE  ManagerInv'
  <1>1. /\ rpc[a][g] = "giveUp" /\ rpc' = [rpc EXCEPT ![a][g] = "done"]
        /\ connected' = [connected EXCEPT ![a] = IF generation[a] = g THEN FALSE ELSE @]
        /\ UNCHANGED <<agents, globalDone, generation, stopped, sock, cpc, pump, tries, dpc, apc, closing>>
    BY DEF ReconnectGivesUp, MarkDisconnected, all
  <1>2. g = generation[a] /\ pump[a][g] \notin {"off", "reading"} /\ g \in Nat
    BY <1>1 DEF ManagerInv, Succession, Trying, Gens
  <1>3. /\ connected' \in [Agents -> BOOLEAN]
        /\ ~connected'[a]
        /\ \A b \in Agents \ {a} : connected'[b] = connected[b]
    BY <1>1, <1>2 DEF ManagerInv, TypeOK
  <1>4. rpc' \in [Agents -> [Gens -> ReconnectSteps]] /\ Becomes(rpc', rpc, a, g, "done")
    <2>1. rpc \in [Agents -> [Gens -> ReconnectSteps]] /\ "done" \in ReconnectSteps
      BY DEF ManagerInv, TypeOK, ReconnectSteps
    <2> QED
      BY <1>1, <2>1 DEF Becomes
  <1>5. TypeOK'
    BY <1>1, <1>3, <1>4 DEF ManagerInv, TypeOK, ReconnectSteps
  <1>6. Birth' /\ StoppedStaysDown'
    BY <1>1, <1>3 DEF ManagerInv, Birth, Unborn, StoppedStaysDown
  <1>7. Succession'
    BY <1>1, <1>4 DEF ManagerInv, Succession, Trying, Becomes
  <1>8. RetriesCounted'
    BY <1>1, <1>4 DEF ManagerInv, RetriesCounted, Becomes
  <1>9. AboutToRead'
    <2>1. cpc[a] # "inserted" /\ \A k \in Gens : rpc[a][k] # "installed"
      BY <1>2 DEF ManagerInv, Birth, Succession, Gens
    <2> QED
      BY <1>1, <1>3, <1>4, <2>1 DEF ManagerInv, AboutToRead, Becomes
  <1>10. ReadingMeansConnected'
    BY <1>1, <1>2, <1>3 DEF ManagerInv, ReadingMeansConnected
  <1>11. ConnectedHasReader'
    BY <1>1, <1>3, <1>4, CurrentGeneration DEF ManagerInv, ConnectedHasReader, Becomes
  <1> QED
    BY <1>5, <1>6, <1>7, <1>8, <1>9, <1>10, <1>11 DEF ManagerInv

(* A step of the reconnect that follows a generation.                      *)
LEMMA ReconnectingStep ==
  ASSUME ManagerInv, NEW a \in Agents, NEW g \in Gens, Reconnecting(a, g)
  PROVE  ManagerInv'
  <1>1. /\ tries \in [Agents -> [Gens -> 0 .. MaxRetries]]
        /\ sock \in [Agents -> [Gens -> {"none", "open", "closed"}]]
        /\ rpc[a][g] \in {"check", "waiting", "dialing"} => tries[a][g] < MaxRetries
    BY DEF ManagerInv, TypeOK, RetriesCounted
  <1>2. CASE ReconnectChecks(a, g) \/ ReconnectWakes(a, g)
    <2>1. PICK to \in {"waiting", "dialing", "done"} : rpc' = [rpc EXCEPT ![a][g] = to]
      BY <1>2 DEF ReconnectChecks, ReconnectWakes
    <2> QED
      BY <1>1, <1>2, <2>1, ReconnectMoves DEF ReconnectChecks, ReconnectWakes, Trying, state, all
  <1>3. CASE ReconnectFails(a, g)
    <2>1. tries[a][g] < MaxRetries /\ tries[a][g] \in Nat /\ MaxRetries \in Nat
      BY <1>1, <1>3, ManagerAssumption DEF ReconnectFails
    <2>2. /\ tries' \in [Agents -> [Gens -> 0 .. MaxRetries]]
          /\ Becomes(tries', tries, a, g, tries[a][g] + 1)
      <3>1. tries[a][g] + 1 \in 0 .. MaxRetries
        BY <2>1
      <3> QED
        BY <1>1, <1>3, <3>1 DEF ReconnectFails, Becomes
    <2>3. PICK to \in {"waiting", "giveUp"} :
            /\ rpc' = [rpc EXCEPT ![a][g] = to]
            /\ to = "waiting" => tries[a][g] + 1 # MaxRetries
      BY <1>3 DEF ReconnectFails
    <2>4. to = "waiting" => tries'[a][g] < MaxRetries
      BY <2>1, <2>2, <2>3 DEF Becomes
    <2>5. \A b \in Agents, k \in Gens : b # a \/ k # g => tries'[b][k] = tries[b][k]
      BY <2>2 DEF Becomes
    <2>6. rpc[a][g] \in Trying /\ to \in Trying /\ to # "shaken" /\ to \notin {"check", "dialing"}
      BY <1>3, <2>3 DEF ReconnectFails, Trying
    <2>7. UNCHANGED <<agents, globalDone, connected, generation, stopped, sock, cpc, pump, dpc, apc, closing>>
      BY <1>3 DEF ReconnectFails, state, all
    <2> QED
      BY <1>1, <2>2, <2>3, <2>4, <2>5, <2>6, <2>7, ReconnectMoves
  <1>4. CASE ReconnectUnconfigured(a, g)
    <2>1. /\ rpc[a][g] \in Trying /\ rpc' = [rpc EXCEPT ![a][g] = "done"]
          /\ UNCHANGED <<agents, globalDone, connected, generation, stopped, sock, cpc, pump, tries, dpc, apc, closing>>
      BY <1>4 DEF ReconnectUnconfigured, Trying, state, all
    <2> QED
      BY <1>1, <2>1, ReconnectMoves
  <1>5. CASE ReconnectShaken(a, g)
    <2>1. sock' \in [Agents -> [Gens -> {"none", "open", "closed"}]]
      BY <1>1, <1>5, NextGeneration DEF ReconnectShaken
    <2> QED
      BY <1>1, <1>5, <2>1, ReconnectMoves DEF ReconnectShaken, Trying, state, all
  <1>6. CASE ReconnectRefused(a, g)
    <2>1. sock' \in [Agents -> [Gens -> {"none", "open", "closed"}]]
      BY <1>6, CloseSockType DEF ReconnectRefused, ManagerInv
    <2>2. /\ rpc[a][g] \in Trying /\ rpc' = [rpc EXCEPT ![a][g] = "done"]
          /\ UNCHANGED <<agents, globalDone, connected, generation, stopped, cpc, pump, tries, dpc, apc, closing>>
      BY <1>6 DEF ReconnectRefused, Trying, state, all
    <2> QED
      BY <1>1, <2>1, <2>2, ReconnectMoves
  <1> QED
    BY <1>2, <1>3, <1>4, <1>5, <1>6, InstallStep, ReconnectReturnsStep, ReconnectGivesUpStep
       DEF Reconnecting

(* A step of Disconnect, or of CloseAll's turn of an agent.                *)
LEMMA StoppingStep ==
  ASSUME ManagerInv, NEW a \in Agents, Disconnect(a) \/ Stopping(a)
  PROVE  ManagerInv'
  <1> USE ManagerAssumption
      DEF ManagerInv, TypeOK, Birth, Unborn, Succession, AboutToRead, RetriesCounted, Trying,
          StoppedStaysDown, ReadingMeansConnected, ConnectedHasReader, Gens, state, all
  <1>1. CASE Disconnect(a)
    BY <1>1 DEF Disconnect
  <1>2. CASE Stop(a)
    BY <1>2 DEF Stop
  <1>3. CASE CloseGeneration(a)
    BY <1>3 DEF CloseGeneration, CloseSock
  <1>4. CASE WaitForGeneration(a)
    BY <1>4 DEF WaitForGeneration
  <1>5. CASE CloseAllTakes(a)
    BY <1>5 DEF CloseAllTakes
  <1> QED
    BY <1>1, <1>2, <1>3, <1>4, <1>5 DEF Stopping

(* A step of CloseAll itself.                                              *)
LEMMA CloseAllStep ==
  ASSUME ManagerInv, CloseAll \/ GlobalCancel \/ CloseAllReturns
  PROVE  ManagerInv'
  <1> USE ManagerAssumption
      DEF ManagerInv, TypeOK, Birth, Unborn, Succession, AboutToRead, RetriesCounted, Trying,
          StoppedStaysDown, ReadingMeansConnected, ConnectedHasReader, Gens, state, all
  <1>1. CASE CloseAll
    BY <1>1 DEF CloseAll
  <1>2. CASE GlobalCancel
    BY <1>2 DEF GlobalCancel
  <1>3. CASE CloseAllReturns
    BY <1>3 DEF CloseAllReturns
  <1> QED
    BY <1>1, <1>2, <1>3

(* Every step keeps the invariant.                                         *)
LEMMA ManagerInvariant == Spec => []ManagerInv
  <1>1. Init => ManagerInv
    <2> SUFFICES ASSUME Init
                 PROVE  ManagerInv
      OBVIOUS
    <2>1. TypeOK
      <3>1. 0 \in 0 .. MaxGen /\ 0 \in 0 .. MaxRetries
        BY ManagerAssumption
      <3>2. tries \in [Agents -> [Gens -> 0 .. MaxRetries]]
        BY <3>1, Zenon DEF Init
      <3>3. pump \in [Agents -> [Gens -> PumpSteps]] /\ rpc \in [Agents -> [Gens -> ReconnectSteps]]
        BY DEF Init, PumpSteps, ReconnectSteps
      <3>4. generation \in [Agents -> 0 .. MaxGen]
        BY <3>1 DEF Init
      <3> QED
        BY <3>2, <3>3, <3>4 DEF Init, TypeOK, PumpSteps, ReconnectSteps
    <2>2. Birth /\ StoppedStaysDown /\ ConnectedHasReader
      BY DEF Init, Birth, Unborn, StoppedStaysDown, ConnectedHasReader
    <2>3. \A a \in Agents, g \in Gens : pump[a][g] = "off" /\ rpc[a][g] = "off" /\ tries[a][g] = 0
      BY DEF Init
    <2>4. Succession /\ AboutToRead /\ ReadingMeansConnected
      BY <2>3 DEF Init, Succession, Trying, AboutToRead, ReadingMeansConnected
    <2>5. RetriesCounted
      BY <2>3 DEF RetriesCounted
    <2> QED
      BY <2>1, <2>2, <2>4, <2>5 DEF ManagerInv
  <1>2. ManagerInv /\ [Next]_vars => ManagerInv'
    <2> SUFFICES ASSUME ManagerInv, [Next]_vars
                 PROVE  ManagerInv'
      OBVIOUS
    <2>1. CASE UNCHANGED vars
      BY <2>1 DEF vars, state, all, ManagerInv, TypeOK, Birth, Unborn, Succession, AboutToRead,
                  RetriesCounted, StoppedStaysDown, ReadingMeansConnected, ConnectedHasReader
    <2>2. CASE Next
      BY <2>2, ConnectingStep, PumpStep, ReconnectingStep, StoppingStep, CloseAllStep DEF Next
    <2> QED
      BY <2>1, <2>2
  <1> QED
    BY <1>1, <1>2, PTL DEF Spec

(* The program counters, generations and retry counts stay in their        *)
(* ranges; in particular a reconnect never tries more than                 *)
(* maxReconnectRetries times (client.go:862-937).                          *)
THEOREM TypeOKTheorem == Spec => []TypeOK
  BY ManagerInvariant, PTL DEF ManagerInv

(* However late a reconnect that was already dialing succeeds, an agent    *)
(* that Disconnect or CloseAll has stopped is never connected again        *)
(* (client.go:194-207, 267-280, 862-937).                                  *)
THEOREM StoppedStaysDownTheorem == Spec => []StoppedStaysDown
  BY ManagerInvariant, PTL DEF ManagerInv

(* The clean-up of an older pump, or the end of an older reconnect, never  *)
(* reports the generation that is being read as disconnected               *)
(* (client.go:209-215, 726-731, 936).                                      *)
THEOREM ReadingMeansConnectedTheorem == Spec => []ReadingMeansConnected
  BY ManagerInvariant, PTL DEF ManagerInv

(* An agent reported as connected has a read pump, or one about to start.  *)
THEOREM ConnectedHasReaderTheorem == Spec => []ConnectedHasReader
  BY ManagerInvariant, PTL DEF ManagerInv

(* No two generations of an agent are read at the same time, for any       *)
(* number of reconnects.                                                   *)
THEOREM OneReaderTheorem == Spec => []OneReader
  <1>1. ManagerInv => OneReader
    <2> SUFFICES ASSUME ManagerInv, NEW a \in Agents
                 PROVE  Cardinality({g \in Gens : pump[a][g] = "reading"}) <= 1
      BY DEF OneReader
    <2> DEFINE R == {g \in Gens : pump[a][g] = "reading"}
    <2>1. R = {} \/ R = {generation[a]}
      BY DEF ManagerInv, Succession
    <2>2. Cardinality({}) = 0 /\ Cardinality({generation[a]}) = 1
      BY FS_EmptySet, FS_Singleton
    <2> QED
      BY <2>1, <2>2
  <1> QED
    BY <1>1, ManagerInvariant, PTL

============================================================================
