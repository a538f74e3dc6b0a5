--------------------------- MODULE IPGuardProofs ---------------------------
(***************************************************************************)
(* The guard of IPGuard, and its history of failures in MCIPGuard, for     *)
(* every number of addresses, every limit and every pair of durations with *)
(* Block <= Window.                                                        *)
(***************************************************************************)
EXTENDS MCIPGuard, FiniteSetTheorems, TLAPS

(* The inductive invariant: types, and what every failure record satisfies *)
(* between two calls.                                                      *)
GuardInv == GuardTypeOK /\ RecordsConsistent

(* Pruning removes records and adds none.                                  *)
LEMMA KeptSubset == Kept \subseteq DOMAIN failures
  BY DEF Kept

(* The record fail() counts in is well formed, below the limit, and has a  *)
(* window that has begun and a block that does not outlive it.             *)
LEMMA CurrentRecordConsistent ==
  ASSUME GuardInv, NEW ip \in IPs
  PROVE  /\ CurrentRecord(ip) \in FailureRecord
         /\ CurrentRecord(ip).count < MaxFailures
         /\ CurrentRecord(ip).windowStart <= now
         /\ CurrentRecord(ip).blockedUntil <= CurrentRecord(ip).windowStart + Block
  <1>1. CASE ip \in Kept /\ now - failures[ip].windowStart <= Window
    <2>1. ip \in DOMAIN failures
      BY <1>1, KeptSubset
    <2>2. CurrentRecord(ip) = failures[ip]
      BY <1>1 DEF CurrentRecord
    <2> QED
      BY <2>1, <2>2 DEF GuardInv, GuardTypeOK, RecordsConsistent
  <1>2. CASE ~(ip \in Kept /\ now - failures[ip].windowStart <= Window)
    <2>1. CurrentRecord(ip) = [count |-> 0, windowStart |-> now, blockedUntil |-> 0]
      BY <1>2 DEF CurrentRecord
    <2> QED
      BY <2>1, GuardAssumption DEF GuardInv, GuardTypeOK, FailureRecord, Time
  <1> QED
    BY <1>1, <1>2

(* Counting a failure in such a record gives such a record again.          *)
LEMMA CountFailureConsistent ==
  ASSUME now \in Time, NEW rec \in FailureRecord,
         rec.count < MaxFailures, rec.windowStart <= now,
         rec.blockedUntil <= rec.windowStart + Block
  PROVE  /\ CountFailure(rec) \in FailureRecord
         /\ CountFailure(rec).count < MaxFailures
         /\ CountFailure(rec).windowStart <= now
         /\ CountFailure(rec).blockedUntil <= CountFailure(rec).windowStart + Block
  <1>1. CASE rec.count + 1 >= MaxFailures
    BY <1>1, GuardAssumption DEF CountFailure, FailureRecord, Time
  <1>2. CASE ~(rec.count + 1 >= MaxFailures)
    <2>1. CountFailure(rec) = [rec EXCEPT !.count = @ + 1]
      BY <1>2 DEF CountFailure
    <2> QED
      BY <1>2, <2>1, GuardAssumption DEF FailureRecord, Time
  <1> QED
    BY <1>1, <1>2

(* fail() keeps the invariant.                                             *)
LEMMA FailKeepsInv ==
  ASSUME GuardInv, NEW ip \in IPs, Fail(ip)
  PROVE  GuardInv'
  <1> DEFINE rec == CountFailure(CurrentRecord(ip))
  <1>1. /\ rec \in FailureRecord
        /\ rec.count < MaxFailures
        /\ rec.windowStart <= now
        /\ rec.blockedUntil <= rec.windowStart + Block
    BY CurrentRecordConsistent, CountFailureConsistent DEF GuardInv, GuardTypeOK
  <1> HIDE DEF rec
  <1>2. failures' = [i \in Kept \cup {ip} |-> IF i = ip THEN rec ELSE failures[i]]
    BY DEF Fail, rec
  <1>3. DOMAIN failures' = Kept \cup {ip}
    BY <1>2
  <1>4. ASSUME NEW i \in DOMAIN failures'
        PROVE  /\ failures'[i] \in FailureRecord
               /\ failures'[i].count < MaxFailures
               /\ failures'[i].windowStart <= now
               /\ failures'[i].blockedUntil <= failures'[i].windowStart + Block
    <2>1. CASE i = ip
      <3>1. failures'[i] = rec
        BY <1>2, <1>3, <2>1
      <3> QED
        BY <1>1, <3>1
    <2>2. CASE i # ip
      <3>1. failures'[i] = failures[i] /\ i \in DOMAIN failures
        BY <1>2, <1>3, <2>2, KeptSubset
      <3> QED
        BY <3>1 DEF GuardInv, GuardTypeOK, RecordsConsistent
    <2> QED
      BY <2>1, <2>2
  <1>5. now' = now /\ active' = active
    BY DEF Fail
  <1>6. GuardTypeOK'
    BY <1>3, <1>4, <1>5, KeptSubset DEF GuardInv, GuardTypeOK
  <1>7. RecordsConsistent'
    BY <1>4, <1>5 DEF RecordsConsistent
  <1> QED
    BY <1>6, <1>7 DEF GuardInv

(* The counters of active connections stay within their bounds and the     *)
(* failure records stay consistent: the inductive invariant of the guard.  *)
THEOREM GuardInvariant == GuardSpec => []GuardInv
  <1>1. GuardInit => GuardInv
    BY GuardAssumption DEF GuardInit, GuardInv, GuardTypeOK, RecordsConsistent, Time
  <1>2. GuardInv /\ [GuardNext]_guardVars => GuardInv'
    <2> SUFFICES ASSUME GuardInv, [GuardNext]_guardVars
                 PROVE  GuardInv'
      OBVIOUS
    <2>1. ASSUME NEW ip \in IPs, Admit(ip)
          PROVE  GuardInv'
      BY <2>1, GuardAssumption
      DEF Admit, CanAdmit, GuardInv, GuardTypeOK, RecordsConsistent
    <2>2. ASSUME NEW ip \in IPs, active[ip] > 0, Release(ip)
          PROVE  GuardInv'
      BY <2>2, GuardAssumption DEF Release, GuardInv, GuardTypeOK, RecordsConsistent
    <2>3. ASSUME NEW ip \in IPs, Fail(ip)
          PROVE  GuardInv'
      BY <2>3, FailKeepsInv
    <2>4. ASSUME NEW ip \in IPs, Succeed(ip)
          PROVE  GuardInv'
      BY <2>4 DEF Succeed, GuardInv, GuardTypeOK, RecordsConsistent
    <2>5. CASE Tick
      <3>1. now' \in Time /\ now <= now' /\ active' = active /\ failures' = failures
        BY <2>5 DEF Tick, GuardInv, GuardTypeOK, Time
      <3>2. \A i \in DOMAIN failures : failures[i].windowStart <= now'
        BY <3>1 DEF GuardInv, GuardTypeOK, RecordsConsistent, FailureRecord, Time
      <3> QED
        BY <3>1, <3>2 DEF GuardInv, GuardTypeOK, RecordsConsistent
    <2>6. CASE UNCHANGED guardVars
      BY <2>6 DEF guardVars, GuardInv, GuardTypeOK, RecordsConsistent
    <2> QED
      BY <2>1, <2>2, <2>3, <2>4, <2>5, <2>6 DEF GuardNext
  <1> QED
    BY <1>1, <1>2, PTL DEF GuardSpec

(* Every failure record is below the limit, its window has begun, and its  *)
(* block ends within Block of the start of that window, whatever order the *)
(* calls of fail, succeed and the clock come in (ipguard.go:78-120).       *)
THEOREM RecordsConsistentTheorem == GuardSpec => []RecordsConsistent
  BY GuardInvariant, PTL DEF GuardInv

(* A block that stands is not pruned, and its window is not yet over, so   *)
(* that fail() counts in the very record that carries it.                  *)
LEMMA BlockedRecordIsKept ==
  ASSUME GuardInv, NEW ip \in IPs, Blocked(ip)
  PROVE  /\ ip \in Kept
         /\ CurrentRecord(ip) = failures[ip]
  <1> DEFINE rec == failures[ip]
  <1>1. /\ ip \in DOMAIN failures
        /\ rec \in FailureRecord
        /\ now \in Time
        /\ now < rec.blockedUntil
        /\ rec.blockedUntil <= rec.windowStart + Block
    BY DEF Blocked, GuardInv, GuardTypeOK, RecordsConsistent
  <1>2. now - rec.windowStart <= Window
    BY <1>1, GuardAssumption DEF FailureRecord, Time
  <1>3. ip \in Kept
    BY <1>1, <1>2 DEF Kept
  <1> QED
    BY <1>2, <1>3 DEF CurrentRecord

(* Counting one more failure never brings the end of a block forward.      *)
LEMMA CountFailureExtends ==
  ASSUME now \in Time, NEW rec \in FailureRecord,
         rec.windowStart <= now, rec.blockedUntil <= rec.windowStart + Block
  PROVE  CountFailure(rec).blockedUntil >= rec.blockedUntil
  BY GuardAssumption DEF CountFailure, FailureRecord, Time

(* fail(), for whichever address it is called, leaves every block standing.*)
LEMMA FailKeepsBlocks ==
  ASSUME GuardInv, NEW caller \in IPs, Fail(caller), NEW ip \in IPs, Blocked(ip)
  PROVE  /\ ip \in DOMAIN failures'
         /\ failures'[ip].blockedUntil >= failures[ip].blockedUntil
  <1>1. ip \in Kept /\ CurrentRecord(ip) = failures[ip]
    BY BlockedRecordIsKept
  <1>2. ip \in DOMAIN failures' /\ failures'[ip] =
          IF ip = caller THEN CountFailure(CurrentRecord(ip)) ELSE failures[ip]
    BY <1>1 DEF Fail
  <1>3. /\ now \in Time
        /\ failures[ip] \in FailureRecord
        /\ failures[ip].windowStart <= now
        /\ failures[ip].blockedUntil <= failures[ip].windowStart + Block
    BY DEF Blocked, GuardInv, GuardTypeOK, RecordsConsistent
  <1>4. CountFailure(failures[ip]).blockedUntil >= failures[ip].blockedUntil
    BY <1>3, CountFailureExtends
  <1>5. failures[ip].blockedUntil >= failures[ip].blockedUntil
    BY <1>3 DEF FailureRecord
  <1> QED
    BY <1>1, <1>2, <1>4, <1>5

(* An address that was refused stays refused for the whole block: only the *)
(* right token from that address lifts it.  This is where Block <= Window  *)
(* is needed: with a longer block the renewal of the window would lift it. *)
THEOREM BlockStandsTheorem == GuardSpec => BlockStands
  <1> DEFINE Stands(ip) ==
        Blocked(ip) =>
           \/ Succeed(ip)
           \/ /\ ip \in DOMAIN failures'
              /\ failures'[ip].blockedUntil >= failures[ip].blockedUntil
  <1>1. GuardInv /\ [GuardNext]_guardVars => [\A ip \in IPs : Stands(ip)]_guardVars
    <2> SUFFICES ASSUME GuardInv, GuardNext, NEW ip \in IPs, Blocked(ip), ~Succeed(ip)
                 PROVE  /\ ip \in DOMAIN failures'
                        /\ failures'[ip].blockedUntil >= failures[ip].blockedUntil
      OBVIOUS
    <2>1. ip \in DOMAIN failures /\ failures[ip] \in FailureRecord
      BY DEF Blocked, GuardInv, GuardTypeOK
    <2>2. CASE failures' = failures
      BY <2>1, <2>2 DEF FailureRecord
    <2>3. ASSUME NEW caller \in IPs, Fail(caller)
          PROVE  /\ ip \in DOMAIN failures'
                 /\ failures'[ip].blockedUntil >= failures[ip].blockedUntil
      BY <2>3, FailKeepsBlocks
    <2>4. ASSUME NEW caller \in IPs, Succeed(caller)
          PROVE  /\ ip \in DOMAIN failures'
                 /\ failures'[ip].blockedUntil >= failures[ip].blockedUntil
      <3>1. caller # ip
        BY <2>4
      <3>2. ip \in DOMAIN failures' /\ failures'[ip] = failures[ip]
        BY <2>1, <2>4, <3>1 DEF Succeed
      <3> QED
        BY <2>1, <3>2 DEF FailureRecord
    <2> QED
      BY <2>2, <2>3, <2>4 DEF GuardNext, Admit, Release, Tick
  <1> QED
    BY <1>1, GuardInvariant, PTL DEF GuardSpec, BlockStands

----------------------------------------------------------------------------
(* How many failures are tolerated                                         *)

(* The history only observes the guard.                                    *)
LEMMA HistoryIsGuard == HistorySpec => GuardSpec
  <1>1. HistoryInit => GuardInit
    BY DEF HistoryInit
  <1>2. [HistoryNext]_historyVars => [GuardNext]_guardVars
    BY DEF HistoryNext, GuardNext, HistoryFail, HistorySucceed, historyVars, guardVars
  <1> QED
    BY <1>1, <1>2, PTL DEF HistorySpec, GuardSpec

(* The window an address is in and the failures counted in it; an address  *)
(* without a record would begin one now.                                   *)
Start(ip) == IF ip \in DOMAIN failures THEN failures[ip].windowStart ELSE now
Counted(ip) == IF ip \in DOMAIN failures THEN failures[ip].count ELSE 0

(* The last failures of the history are those counted in the window.  The  *)
(* ones before came before it began, and all of them but at most           *)
(* MaxFailures - 1 more than a whole window before.                        *)
HistoryOf(ip) ==
    /\ recent[ip] \in Seq(Time)
    /\ Counted(ip) <= Len(recent[ip])
    /\ \A i \in 1 .. Len(recent[ip]) :
         /\ recent[ip][i] <= now
         /\ i <= Len(recent[ip]) - Counted(ip) => recent[ip][i] < Start(ip)
         /\ i <= Len(recent[ip]) - Counted(ip) - (MaxFailures - 1) =>
              recent[ip][i] + Window < Start(ip)
         /\ i > Len(recent[ip]) - Counted(ip) => recent[ip][i] <= Start(ip) + Window

(* The inductive invariant of the history.                                 *)
HistoryInv == DOMAIN recent = IPs /\ \A ip \in IPs : HistoryOf(ip)

LEMMA WindowTypes ==
  ASSUME GuardInv, NEW ip \in IPs
  PROVE  /\ Start(ip) \in Time /\ Start(ip) <= now /\ now \in Time
         /\ Counted(ip) \in Nat /\ Counted(ip) <= MaxFailures - 1
  BY GuardAssumption DEF GuardInv, GuardTypeOK, RecordsConsistent, FailureRecord, Start, Counted, Time

(* What the invariant says of each failure of the history.                 *)
LEMMA HistoryFacts ==
  ASSUME GuardInv, NEW ip \in IPs, HistoryOf(ip), NEW n, n = Len(recent[ip])
  PROVE  /\ recent[ip] \in Seq(Time) /\ n \in Nat /\ Counted(ip) <= n
         /\ \A i \in 1 .. n : recent[ip][i] \in Nat /\ recent[ip][i] <= now
         /\ \A i \in 1 .. n : i <= n - Counted(ip) => recent[ip][i] < Start(ip)
         /\ \A i \in 1 .. n : i <= n - Counted(ip) - (MaxFailures - 1) =>
              recent[ip][i] + Window < Start(ip)
         /\ \A i \in 1 .. n : i > n - Counted(ip) => recent[ip][i] <= Start(ip) + Window
  BY DEF HistoryOf, Time

(* After the end of a window, its failures are past and those before it    *)
(* are out of reach.                                                       *)
LEMMA WindowOver ==
  ASSUME GuardInv, NEW ip \in IPs, HistoryOf(ip), NEW n, n = Len(recent[ip]),
         NEW t \in Nat, Start(ip) + Window < t, NEW i \in 1 .. n
  PROVE  /\ recent[ip][i] < t
         /\ i <= n - (MaxFailures - 1) => recent[ip][i] + Window < t
  <1>1. /\ n \in Nat /\ recent[ip][i] \in Nat /\ Start(ip) \in Nat
        /\ Counted(ip) \in Nat /\ Counted(ip) <= MaxFailures - 1
        /\ Window \in Nat /\ MaxFailures \in Nat
    BY HistoryFacts, WindowTypes, GuardAssumption DEF Time
  <1>2. CASE i <= n - Counted(ip)
    <2>1. recent[ip][i] < Start(ip)
      BY <1>2, HistoryFacts
    <2> QED
      BY <1>1, <2>1
  <1>3. CASE i > n - Counted(ip)
    <2>1. recent[ip][i] <= Start(ip) + Window
      BY <1>3, HistoryFacts
    <2> QED
      BY <1>1, <1>3, <2>1
  <1> QED
    BY <1>1, <1>2, <1>3

(* A step keeps the history of an address whose record it keeps, or drops  *)
(* when its window is over.                                                *)
LEMMA HistoryUndisturbed ==
  ASSUME GuardInv, NEW ip \in IPs, HistoryOf(ip), recent'[ip] = recent[ip],
         now' \in Time, now <= now',
         \/ ip \in DOMAIN failures /\ ip \in DOMAIN failures' /\ failures'[ip] = failures[ip]
         \/ ip \notin DOMAIN failures /\ ip \notin DOMAIN failures'
         \/ /\ ip \in DOMAIN failures /\ ip \notin DOMAIN failures'
            /\ now - failures[ip].windowStart > Window
  PROVE  HistoryOf(ip)'
  <1> DEFINE n == Len(recent[ip])
  <1>1. /\ Start(ip) \in Nat /\ now \in Nat /\ now' \in Nat
        /\ Counted(ip) \in Nat /\ Counted(ip) <= MaxFailures - 1
        /\ Window \in Nat /\ MaxFailures \in Nat
    BY WindowTypes, GuardAssumption DEF Time
  <1>2. /\ recent[ip] \in Seq(Time) /\ n \in Nat /\ Counted(ip) <= n
        /\ \A i \in 1 .. n : recent[ip][i] \in Nat /\ recent[ip][i] <= now
        /\ \A i \in 1 .. n : i <= n - Counted(ip) => recent[ip][i] < Start(ip)
        /\ \A i \in 1 .. n : i <= n - Counted(ip) - (MaxFailures - 1) =>
             recent[ip][i] + Window < Start(ip)
        /\ \A i \in 1 .. n : i > n - Counted(ip) => recent[ip][i] <= Start(ip) + Window
    BY HistoryFacts
  <1>3. CASE /\ ip \in DOMAIN failures /\ ip \notin DOMAIN failures'
             /\ now - failures[ip].windowStart > Window
    <2>1. Start(ip)' = now' /\ Counted(ip)' = 0 /\ Start(ip) + Window < now'
      BY <1>1, <1>3 DEF Start, Counted
    <2>2. \A i \in 1 .. n : /\ recent[ip][i] < now'
                            /\ i <= n - (MaxFailures - 1) => recent[ip][i] + Window < now'
      BY <1>1, <2>1, WindowOver
    <2> QED
      BY <1>1, <1>2, <2>1, <2>2 DEF HistoryOf
  <1>4. CASE Start(ip)' >= Start(ip) /\ Counted(ip)' = Counted(ip) /\ Start(ip)' \in Nat
    <2>1. ASSUME NEW i \in 1 .. n
          PROVE  /\ recent[ip][i] <= now'
                 /\ i <= n - Counted(ip) => recent[ip][i] < Start(ip)'
                 /\ i <= n - Counted(ip) - (MaxFailures - 1) => recent[ip][i] + Window < Start(ip)'
                 /\ i > n - Counted(ip) => recent[ip][i] <= Start(ip)' + Window
      <3> HIDE DEF n
      <3>1. recent[ip][i] \in Nat /\ recent[ip][i] <= now
        BY <1>2
      <3>2. i <= n - Counted(ip) => recent[ip][i] < Start(ip)
        BY <1>2
      <3>3. i <= n - Counted(ip) - (MaxFailures - 1) => recent[ip][i] + Window < Start(ip)
        BY <1>2
      <3>4. i > n - Counted(ip) => recent[ip][i] <= Start(ip) + Window
        BY <1>2
      <3> QED
        BY <1>1, <1>4, <3>1, <3>2, <3>3, <3>4
    <2> QED
      BY <1>1, <1>2, <1>4, <2>1 DEF HistoryOf
  <1>5. CASE ip \in DOMAIN failures /\ ip \in DOMAIN failures' /\ failures'[ip] = failures[ip]
    <2>1. Start(ip)' = Start(ip) /\ Counted(ip)' = Counted(ip)
      BY <1>5 DEF Start, Counted
    <2> QED
      BY <1>1, <1>4, <2>1
  <1>6. CASE ip \notin DOMAIN failures /\ ip \notin DOMAIN failures'
    <2>1. Start(ip) = now /\ Start(ip)' = now' /\ Counted(ip) = 0 /\ Counted(ip)' = 0
      BY <1>6 DEF Start, Counted
    <2> QED
      BY <1>1, <1>4, <2>1
  <1> QED
    BY <1>3, <1>5, <1>6

(* An address that just authenticated or was just blocked has no history.  *)
LEMMA HistoryForgotten ==
  ASSUME NEW ip \in IPs, recent'[ip] = <<>>, Counted(ip)' = 0
  PROVE  HistoryOf(ip)'
  BY <<>> \in Seq(Time), Len(<<>>) = 0 DEF HistoryOf

(* fail() counts one more failure of the window that has begun, or the     *)
(* first one of a new window.                                              *)
LEMMA HistoryGrows ==
  ASSUME GuardInv, NEW ip \in IPs, HistoryOf(ip), now' = now,
         recent'[ip] = Append(recent[ip], now), ip \in DOMAIN failures',
         failures'[ip].windowStart = CurrentRecord(ip).windowStart,
         failures'[ip].count = CurrentRecord(ip).count + 1
  PROVE  HistoryOf(ip)'
  <1> DEFINE n == Len(recent[ip])
  <1>1. /\ Start(ip) \in Nat /\ now \in Nat /\ now \in Time /\ Start(ip) <= now
        /\ Counted(ip) \in Nat /\ Counted(ip) <= MaxFailures - 1
        /\ Window \in Nat /\ MaxFailures \in Nat
    BY WindowTypes, GuardAssumption DEF Time
  <1>2. /\ recent[ip] \in Seq(Time) /\ n \in Nat /\ Counted(ip) <= n
        /\ \A i \in 1 .. n : recent[ip][i] \in Nat /\ recent[ip][i] <= now
        /\ \A i \in 1 .. n : i <= n - Counted(ip) => recent[ip][i] < Start(ip)
        /\ \A i \in 1 .. n : i <= n - Counted(ip) - (MaxFailures - 1) =>
             recent[ip][i] + Window < Start(ip)
        /\ \A i \in 1 .. n : i > n - Counted(ip) => recent[ip][i] <= Start(ip) + Window
    BY HistoryFacts
  <1>3. /\ recent'[ip] \in Seq(Time) /\ Len(recent'[ip]) = n + 1
        /\ recent'[ip][n + 1] = now
        /\ \A i \in 1 .. n : recent'[ip][i] = recent[ip][i]
    BY <1>1, <1>2
  <1>4. CASE ip \in Kept /\ now - failures[ip].windowStart <= Window
    <2>1. /\ Start(ip)' = Start(ip) /\ Counted(ip)' = Counted(ip) + 1
          /\ now <= Start(ip) + Window
      BY <1>1, <1>4, KeptSubset DEF CurrentRecord, Start, Counted
    <2>2. ASSUME NEW i \in 1 .. n + 1
          PROVE  /\ recent'[ip][i] <= now
                 /\ i <= n - Counted(ip) => recent'[ip][i] < Start(ip)
                 /\ i <= n - Counted(ip) - (MaxFailures - 1) => recent'[ip][i] + Window < Start(ip)
                 /\ i > n - Counted(ip) => recent'[ip][i] <= Start(ip) + Window
      <3> HIDE DEF n
      <3>1. CASE i \in 1 .. n
        BY <1>2, <1>3, <3>1
      <3>2. CASE i = n + 1
        BY <1>1, <1>2, <1>3, <2>1, <3>2
      <3>3. i \in 1 .. n \/ i = n + 1
        BY <1>2
      <3> QED
        BY <3>1, <3>2, <3>3
    <2>3. /\ Len(recent'[ip]) - Counted(ip)' = n - Counted(ip)
          /\ Counted(ip)' <= Len(recent'[ip])
      <3> HIDE DEF n
      <3>1. Counted(ip) \in Nat /\ n \in Nat /\ Counted(ip) <= n
        BY <1>1, <1>2
      <3>2. Len(recent'[ip]) = n + 1 /\ Counted(ip)' = Counted(ip) + 1
        BY <1>3, <2>1
      <3>3. (n + 1) - (Counted(ip) + 1) = n - Counted(ip) /\ Counted(ip) + 1 <= n + 1
        BY <3>1
      <3> QED
        BY <3>2, <3>3
    <2>4. /\ Len(recent'[ip]) = n + 1 /\ Start(ip)' = Start(ip) /\ now' = now
          /\ recent'[ip] \in Seq(Time)
      BY <1>3, <2>1
    <2> HIDE DEF n
    <2> QED
      BY <2>2, <2>3, <2>4 DEF HistoryOf
  <1>5. CASE ~(ip \in Kept /\ now - failures[ip].windowStart <= Window)
    <2>1. Start(ip)' = now /\ Counted(ip)' = 1
      BY <1>5 DEF CurrentRecord, Start, Counted
    <2>2. \A i \in 1 .. n : /\ recent[ip][i] < now
                            /\ i <= n - (MaxFailures - 1) => recent[ip][i] + Window < now
      <3>1. CASE ip \notin DOMAIN failures
        <4>1. Start(ip) = now /\ Counted(ip) = 0
          BY <3>1 DEF Start, Counted
        <4> HIDE DEF n
        <4> QED
          BY <1>1, <1>2, <4>1
      <3>2. CASE ip \in DOMAIN failures
        <4>1. now - failures[ip].windowStart > Window
          BY <1>1, <1>5, <3>2 DEF Kept, GuardInv, GuardTypeOK, FailureRecord, Time
        <4>2. Start(ip) + Window < now
          BY <1>1, <3>2, <4>1 DEF Start
        <4> QED
          BY <1>1, <4>2, WindowOver
      <3> QED
        BY <3>1, <3>2
    <2>3. ASSUME NEW i \in 1 .. n + 1
          PROVE  /\ recent'[ip][i] <= now
                 /\ i <= n => recent'[ip][i] < now
                 /\ i <= n - (MaxFailures - 1) => recent'[ip][i] + Window < now
                 /\ i > n => recent'[ip][i] <= now + Window
      <3> HIDE DEF n
      <3>1. CASE i \in 1 .. n
        BY <1>1, <1>2, <1>3, <2>2, <3>1
      <3>2. CASE i = n + 1
        BY <1>1, <1>2, <1>3, <3>2
      <3>3. i \in 1 .. n \/ i = n + 1
        BY <1>2
      <3> QED
        BY <3>1, <3>2, <3>3
    <2>4. /\ Len(recent'[ip]) - Counted(ip)' = n
          /\ Counted(ip)' <= Len(recent'[ip])
      BY <1>2, <1>3, <2>1
    <2> QED
      BY <1>3, <2>1, <2>3, <2>4 DEF HistoryOf
  <1> QED
    BY <1>4, <1>5

(* What fail() leaves of an address's record: the trip forgets the count,  *)
(* any other failure is counted.                                           *)
LEMMA FailRecords ==
  ASSUME GuardInv, NEW ip \in IPs, Fail(ip)
  PROVE  /\ ip \in DOMAIN failures'
         /\ \/ failures'[ip].count = 0
            \/ /\ failures'[ip].windowStart = CurrentRecord(ip).windowStart
               /\ failures'[ip].count = CurrentRecord(ip).count + 1
               /\ failures'[ip].count # 0
  <1>1. ip \in DOMAIN failures' /\ failures'[ip] = CountFailure(CurrentRecord(ip))
    BY DEF Fail
  <1>2. CurrentRecord(ip) \in FailureRecord
    BY CurrentRecordConsistent
  <1>3. ASSUME NEW rec \in FailureRecord
        PROVE  \/ CountFailure(rec).count = 0
               \/ /\ CountFailure(rec).windowStart = rec.windowStart
                  /\ CountFailure(rec).count = rec.count + 1
                  /\ CountFailure(rec).count # 0
    BY GuardAssumption DEF CountFailure, FailureRecord
  <1> QED
    BY <1>1, <1>2, <1>3

(* fail() for one address and the history of every other.                  *)
LEMMA FailElsewhere ==
  ASSUME GuardInv, NEW caller \in IPs, Fail(caller), NEW ip \in IPs, ip # caller,
         HistoryOf(ip), recent'[ip] = recent[ip]
  PROVE  HistoryOf(ip)'
  <1>1. now' = now /\ now \in Time /\ now <= now'
    BY DEF Fail, GuardInv, GuardTypeOK, Time
  <1>2. CASE ip \in Kept
    <2>1. ip \in DOMAIN failures /\ ip \in DOMAIN failures' /\ failures'[ip] = failures[ip]
      BY <1>2, KeptSubset DEF Fail
    <2> QED
      BY <1>1, <2>1, HistoryUndisturbed
  <1>3. CASE ip \notin Kept
    <2>1. ip \notin DOMAIN failures'
      BY <1>3 DEF Fail
    <2>2. ip \in DOMAIN failures => now - failures[ip].windowStart > Window
      BY <1>1, <1>3, GuardAssumption DEF Kept, GuardInv, GuardTypeOK, FailureRecord, Time
    <2> QED
      BY <1>1, <2>1, <2>2, HistoryUndisturbed
  <1> QED
    BY <1>2, <1>3

(* The history invariant holds of every behaviour.                         *)
LEMMA HistoryInvariant == HistorySpec => []HistoryInv
  <1>1. HistoryInit => HistoryInv
    <2> SUFFICES ASSUME HistoryInit, NEW ip \in IPs PROVE HistoryOf(ip)
      BY DEF HistoryInit, HistoryInv
    <2>1. recent[ip] = <<>> /\ Counted(ip) = 0
      BY DEF HistoryInit, GuardInit, Counted
    <2> QED
      BY <2>1, <<>> \in Seq(Time), Len(<<>>) = 0 DEF HistoryOf
  <1>2. GuardInv /\ HistoryInv /\ [HistoryNext]_historyVars => HistoryInv'
    <2> SUFFICES ASSUME GuardInv, HistoryInv, [HistoryNext]_historyVars PROVE HistoryInv'
      OBVIOUS
    <2>0. /\ now \in Time /\ now <= now /\ DOMAIN recent = IPs
          /\ \A ip \in IPs : HistoryOf(ip)
      BY DEF GuardInv, GuardTypeOK, Time, HistoryInv
    <2>1. CASE failures' = failures /\ recent' = recent /\ now' \in Time /\ now <= now'
      BY <2>0, <2>1, HistoryUndisturbed DEF HistoryInv
    <2>2. ASSUME NEW ip \in IPs, HistoryFail(ip)
          PROVE  HistoryInv'
      <3>1. /\ Fail(ip) /\ now' = now /\ DOMAIN recent' = IPs
            /\ \A other \in IPs : other # ip => recent'[other] = recent[other]
            /\ recent'[ip] = IF failures'[ip].count = 0 THEN <<>> ELSE Append(recent[ip], now)
        BY <2>0, <2>2 DEF HistoryFail, Fail
      <3>2. CASE failures'[ip].count = 0
        <4>1. Counted(ip)' = 0 /\ recent'[ip] = <<>>
          BY <3>1, <3>2, FailRecords DEF Counted
        <4> QED
          BY <2>0, <3>1, <4>1, HistoryForgotten, FailElsewhere DEF HistoryInv
      <3>3. CASE failures'[ip].count # 0
        <4>1. HistoryOf(ip)'
          BY <2>0, <3>1, <3>3, FailRecords, HistoryGrows
        <4> QED
          BY <2>0, <3>1, <4>1, FailElsewhere DEF HistoryInv
      <3> QED
        BY <3>2, <3>3
    <2>3. ASSUME NEW ip \in IPs, HistorySucceed(ip)
          PROVE  HistoryInv'
      <3>1. /\ now' = now /\ DOMAIN recent' = IPs /\ recent'[ip] = <<>>
            /\ DOMAIN failures' = DOMAIN failures \ {ip}
            /\ \A other \in IPs : other # ip => recent'[other] = recent[other]
            /\ \A other \in DOMAIN failures \ {ip} : failures'[other] = failures[other]
        BY <2>0, <2>3 DEF HistorySucceed, Succeed
      <3>2. Counted(ip)' = 0
        BY <3>1 DEF Counted
      <3>3. \A other \in IPs : other # ip => HistoryOf(other)'
        BY <2>0, <3>1, HistoryUndisturbed
      <3> QED
        BY <3>1, <3>2, <3>3, HistoryForgotten DEF HistoryInv
    <2>4. CASE Tick /\ UNCHANGED recent
      <3>1. now' \in Time /\ now <= now' /\ failures' = failures /\ recent' = recent
        BY <2>0, <2>4 DEF Tick, Time
      <3> QED
        BY <2>1, <3>1
    <2> QED
      BY <2>0, <2>1, <2>2, <2>3, <2>4 DEF HistoryNext, Admit, Release, historyVars
  <1> QED
    BY <1>1, <1>2, HistoryIsGuard, GuardInvariant, PTL DEF HistorySpec

(* For every number of addresses and all limits, an address can put twice  *)
(* the limit, less two, into one period of the window's length before it   *)
(* is refused, and never one more (ipguard.go:78-120).                     *)
THEOREM ToleratedFailuresTheorem == HistorySpec => []ToleratedFailures
  <1>1. GuardInv /\ HistoryInv => ToleratedFailures
    <2> SUFFICES ASSUME GuardInv, HistoryInv, NEW ip \in IPs
                 PROVE  Cardinality(InWindow(ip)) <= 2 * (MaxFailures - 1)
      BY DEF ToleratedFailures
    <2> DEFINE n == Len(recent[ip])
               first == n - Counted(ip) - (MaxFailures - 1) + 1
    <2>1. HistoryOf(ip)
      BY DEF HistoryInv
    <2>2. /\ Start(ip) \in Nat /\ now \in Nat /\ Start(ip) <= now
          /\ Counted(ip) \in Nat /\ Counted(ip) <= MaxFailures - 1
          /\ Window \in Nat /\ MaxFailures \in Nat \ {0}
      BY WindowTypes, GuardAssumption DEF Time
    <2>3. /\ recent[ip] \in Seq(Time) /\ n \in Nat
          /\ \A i \in 1 .. n : recent[ip][i] \in Nat
          /\ \A i \in 1 .. n : i <= n - Counted(ip) - (MaxFailures - 1) =>
               recent[ip][i] + Window < Start(ip)
      BY <2>1, HistoryFacts
    <2>4. DOMAIN recent[ip] = 1 .. n
      BY <2>3
    <2> HIDE DEF n
    <2>5. first \in Int /\ n \in Int
      BY <2>2, <2>3
    <2>6. ASSUME NEW i \in InWindow(ip)
          PROVE  i \in first .. n
      <3>1. i \in 1 .. n /\ now - recent[ip][i] <= Window /\ recent[ip][i] \in Nat
        BY <2>3, <2>4, <2>6 DEF InWindow
      <3>2. ~(recent[ip][i] + Window < Start(ip))
        BY <2>2, <3>1
      <3>3. ~(i <= n - Counted(ip) - (MaxFailures - 1))
        BY <2>3, <3>1, <3>2
      <3> QED
        BY <2>2, <2>3, <3>1, <3>3
    <2>7. /\ IsFiniteSet(first .. n)
          /\ Cardinality(first .. n) = IF first > n THEN 0 ELSE n - first + 1
      BY <2>5, FS_Interval
    <2>8. Cardinality(first .. n) = Counted(ip) + (MaxFailures - 1)
      BY <2>2, <2>3, <2>7
    <2>9. /\ IsFiniteSet(InWindow(ip)) /\ Cardinality(InWindow(ip)) <= Cardinality(first .. n)
      BY <2>6, <2>7, FS_Subset
    <2>10. Cardinality(InWindow(ip)) \in Nat
      BY <2>9, FS_CardinalityType
    <2> HIDE DEF first
    <2> QED
      BY <2>2, <2>8, <2>9, <2>10
  <1> QED
    BY <1>1, HistoryInvariant, HistoryIsGuard, GuardInvariant, PTL

============================================================================
