------------------------------ MODULE AuditLog -----------------------------
(***************************************************************************)
(* The control center's audit log: a ring buffer and, when it can be       *)
(* opened, a database (control-center/backend/audit/audit.go).             *)
(*                                                                         *)
(* Each operation holds l.mu.  A statement on the database may fail at any *)
(* time.  Row IDs are AUTOINCREMENT (SQLite, external): never used twice,  *)
(* also after the rows were deleted.  An entry is told apart by when it    *)
(* was logged.                                                             *)
(***************************************************************************)
EXTENDS Naturals, Sequences

CONSTANTS
    capacity,
    MaxEntries,     \* bound: calls of Log
    MaxSwitches     \* bound: calls of OpenDB, Close and Clear, and restarts

(* NewLogger and NewLoggerWithCapacity see to it.                          *)
ASSUME LogAssumption == capacity \in Nat \ {0}

VARIABLES
    entries,    \* l.entries: [what, id]
    nextID,     \* l.nextID
    dbEnabled,  \* l.db # nil, l.dbEnabled
    table,      \* audit_log: its rows by id, [what, id]
    lastRowID,  \* the AUTOINCREMENT sequence
    memoryLog,  \* what was logged since the start or Clear, history
    storedLog,  \* what reached the table and was not cleared, history
    logs, switches  \* bounds

auditLogVars == <<entries, nextID, dbEnabled, table, lastRowID, memoryLog, storedLog, logs, switches>>

AuditLogInit ==
    /\ entries = <<>>
    /\ nextID = 1
    /\ dbEnabled = FALSE
    /\ table = <<>>
    /\ lastRowID = 0
    /\ memoryLog = <<>> /\ storedLog = <<>>
    /\ logs = 0 /\ switches = 0

Larger(a, b) == IF a > b THEN a ELSE b
LastN(s, n) == IF Len(s) <= n THEN s ELSE SubSeq(s, Len(s) - n + 1, Len(s))

Switches == switches < MaxSwitches /\ switches' = switches + 1

----------------------------------------------------------------------------

(* OpenDB closes a database that is open and goes on after its last row.   *)
OpensDatabase ==
    /\ Switches
    /\ dbEnabled' = TRUE
    /\ nextID' = IF table = <<>> THEN 1 ELSE table[Len(table)].id + 1
    /\ UNCHANGED <<entries, table, lastRowID, memoryLog, storedLog, logs>>

(* Close, or an OpenDB that fails: the log goes on in memory.              *)
ClosesDatabase ==
    /\ Switches
    /\ dbEnabled' = FALSE
    /\ UNCHANGED <<entries, nextID, table, lastRowID, memoryLog, storedLog, logs>>

(* Mutant: a full ring loses its newest entry instead of its oldest.       *)
RingMutant(entry) ==
    Append(IF Len(entries) >= capacity THEN SubSeq(entries, 1, capacity - 1) ELSE entries, entry)

Ring(entry) ==
    IF Len(entries) >= capacity THEN Append(Tail(entries), entry) ELSE Append(entries, entry)

(* The part of Log that does not depend on the database.                   *)
Logs(id) ==
    /\ logs < MaxEntries
    /\ logs' = logs + 1
    /\ entries' = Ring([what |-> logs, id |-> id])
    /\ memoryLog' = Append(memoryLog, logs)
    /\ UNCHANGED <<dbEnabled, switches>>

(* Log: the row's ID replaces the provisional one.                         *)
LogStored ==
    /\ dbEnabled
    /\ lastRowID' = lastRowID + 1
    /\ table' = Append(table, [what |-> logs, id |-> lastRowID'])
    /\ storedLog' = Append(storedLog, logs)
    /\ nextID' = Larger(nextID, lastRowID') + 1
    /\ Logs(lastRowID')

(* The database is closed, or the INSERT fails.                            *)
LogUnstored ==
    /\ nextID' = nextID + 1
    /\ Logs(nextID)
    /\ UNCHANGED <<table, lastRowID, storedLog>>

(* Clear empties the buffer even when the rows cannot be deleted.          *)
Clears ==
    /\ Switches
    /\ entries' = <<>>
    /\ memoryLog' = <<>>
    /\ \/ dbEnabled /\ table' = <<>> /\ storedLog' = <<>>
       \/ UNCHANGED <<table, storedLog>>
    /\ UNCHANGED <<nextID, dbEnabled, lastRowID, logs>>

(* The program ends and starts: NewLogger.                                 *)
Restarts ==
    /\ Switches
    /\ entries' = <<>>
    /\ nextID' = 1
    /\ dbEnabled' = FALSE
    /\ memoryLog' = <<>>
    /\ UNCHANGED <<table, lastRowID, storedLog, logs>>

AuditLogNext ==
    \/ OpensDatabase \/ ClosesDatabase \/ LogStored \/ LogUnstored \/ Clears \/ Restarts

AuditLogSpec == AuditLogInit /\ [][AuditLogNext]_auditLogVars

----------------------------------------------------------------------------
(* GetRecent                                                               *)

Limit(limit) == IF limit = 0 \/ limit > capacity THEN capacity ELSE limit

(* ORDER BY id DESC LIMIT, turned round.                                   *)
RecentFromDB(limit) ==
    LET newest == [i \in 1..(IF Len(table) < limit THEN Len(table) ELSE limit) |->
                     table[Len(table) + 1 - i]]
    IN  [i \in DOMAIN newest |-> newest[Len(newest) + 1 - i]]

RecentFromMemory(limit) == LastN(entries, limit)

(* A query that fails falls back to the buffer.                            *)
GetRecent(limit, readable) ==
    IF dbEnabled /\ readable
    THEN RecentFromDB(Limit(limit))
    ELSE RecentFromMemory(Limit(limit))

----------------------------------------------------------------------------

Whats(s) == [i \in DOMAIN s |-> s[i].what]

(* Whatever limit is asked for, GetRecent returns the latest entries,      *)
(* oldest first and none left out: of those stored, over restarts and      *)
(* reopened databases, or, when they cannot be read, of those logged since *)
(* the start.  An entry that was stored carries its row's ID, and IDs      *)
(* handed out next are beyond every stored one (audit.go:140-183,          *)
(* 193-264).                                                               *)
RecentIsTail ==
    /\ \A limit \in 0..capacity + 1, readable \in BOOLEAN :
         Whats(GetRecent(limit, readable))
           = LastN(IF dbEnabled /\ readable THEN storedLog ELSE memoryLog, Limit(limit))
    /\ \A i \in DOMAIN entries, j \in DOMAIN table :
         entries[i].what = table[j].what => entries[i].id = table[j].id
    /\ dbEnabled => \A j \in DOMAIN table : table[j].id < nextID

============================================================================
