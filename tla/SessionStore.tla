--------------------------- MODULE SessionStore ----------------------------
(***************************************************************************)
(* The saved sessions and their tokens (Manager of                         *)
(* control-center/backend/session/session.go).                             *)
(*                                                                         *)
(* Every operation holds m.mu, so only the end of the program comes        *)
(* between two statements of one; a statement is atomic.  A database of an *)
(* older version keeps tokens in the clear and lacks columns: Open adds    *)
(* the columns one by one, and loading a session protects its token.  The  *)
(* operating system's secret store may refuse at any time.  A protected    *)
(* token is the token in another column here; a session is identified by   *)
(* its host and port, which are unique.                                    *)
(***************************************************************************)
EXTENDS Naturals, Sequences, FiniteSets

CONSTANTS
    Endpoints,      \* host:port
    Tokens, NoToken,
    Columns,        \* how many columns migrateSchema may have to add
    MaxSaves        \* bound: calls of Save

ASSUME SessionAssumption == IsFiniteSet(Endpoints)

VARIABLES
    rows,       \* sessions table: endpoint -> [plain, protected]
    recent,     \* its endpoints, ORDER BY last_connected DESC
    columns,    \* added columns present
    db,         \* "closed", "opening" or "open"
    loading,    \* LoadAll: the rows still to be restored, in order
    loaded,     \* LoadAll: the sessions restored so far
    loadpc,     \* LoadAll: "off", "restoring" or "returned"
    truth,      \* the token of each saved session, history
    saves       \* bound

sessionVars == <<rows, recent, columns, db, loading, loaded, loadpc, truth, saves>>
tableVars == <<rows, recent, columns>>
loadVars == <<loading, loaded, loadpc>>

Nothing == <<>>     \* the function with no value

SessionInit ==
    /\ \E old \in [Endpoints -> Tokens \cup {NoToken}] :
         /\ rows = [e \in Endpoints |-> [plain |-> old[e], protected |-> NoToken]]
         /\ truth = old
    /\ recent \in {s \in [1..Cardinality(Endpoints) -> Endpoints] :
                     /\ \A e \in Endpoints : \E i \in DOMAIN s : s[i] = e
                     /\ \A i, j \in DOMAIN s : s[i] = s[j] => i = j}
    /\ columns = 0
    /\ db = "closed"
    /\ loading = <<>> /\ loaded = Nothing /\ loadpc = "off"
    /\ saves = 0

With(f, e, v) == [x \in DOMAIN f \cup {e} |-> IF x = e THEN v ELSE f[x]]
Without(f, e) == [x \in DOMAIN f \ {e} |-> f[x]]

(* The other sessions in their order; host and port are UNIQUE.            *)
Others(e) ==
    IF \E i \in DOMAIN recent : recent[i] = e
    THEN LET k == CHOOSE i \in DOMAIN recent : recent[i] = e
         IN  [i \in 1 .. Len(recent) - 1 |-> IF i < k THEN recent[i] ELSE recent[i + 1]]
    ELSE recent

(* The lock is free: no LoadAll is under way.                              *)
Idle == db = "open" /\ loadpc # "restoring"
Forgets == loading' = <<>> /\ loaded' = Nothing /\ loadpc' = "off"

----------------------------------------------------------------------------

Opens ==
    /\ db = "closed"
    /\ db' = "opening"
    /\ Forgets
    /\ UNCHANGED <<tableVars, truth, saves>>

(* migrateSchema adds what PRAGMA table_info does not list.                *)
AddsColumn ==
    /\ db = "opening" /\ columns < Columns
    /\ columns' = columns + 1
    /\ UNCHANGED <<rows, recent, db, loadVars, truth, saves>>

Opened ==
    /\ db = "opening" /\ columns = Columns
    /\ db' = "open"
    /\ UNCHANGED <<tableVars, loadVars, truth, saves>>

(* A statement of Open fails, the database is closed, or the program ends, *)
(* also in the middle of LoadAll.                                          *)
Closed ==
    /\ db # "closed"
    /\ db' = "closed"
    /\ Forgets
    /\ UNCHANGED <<tableVars, truth, saves>>

(* Save: the token is protected first; a failure changes nothing.          *)
Save(e, token) ==
    /\ Idle /\ saves < MaxSaves
    /\ rows' = With(rows, e, [plain |-> NoToken, protected |-> token])
    /\ recent' = <<e>> \o Others(e)
    /\ truth' = With(truth, e, token)
    /\ saves' = saves + 1
    /\ Forgets
    /\ UNCHANGED <<columns, db>>

Delete(e) ==
    /\ Idle /\ e \in DOMAIN rows
    /\ rows' = Without(rows, e)
    /\ recent' = Others(e)
    /\ truth' = Without(truth, e)
    /\ Forgets
    /\ UNCHANGED <<columns, db, saves>>

UpdateLastConnected(e) ==
    /\ Idle /\ e \in DOMAIN rows
    /\ recent' = <<e>> \o Others(e)
    /\ Forgets
    /\ UNCHANGED <<rows, columns, db, truth, saves>>

----------------------------------------------------------------------------
(* Loading                                                                 *)

Token(row) == IF row.protected # NoToken THEN row.protected ELSE row.plain

(* Mutant: the clear text is removed before the store has accepted it.     *)
RestoresTokenMutant(e) ==
    \/ rows' = [rows EXCEPT ![e] = [plain |-> NoToken, protected |-> Token(rows[e])]]
    \/ rows[e].plain # NoToken /\ rows' = [rows EXCEPT ![e].plain = NoToken]

(* restoreToken: one UPDATE protects a clear token or clears one that is   *)
(* protected already; nothing is left to do for a protected one.           *)
RestoresToken(e) ==
    rows' = [rows EXCEPT ![e] = [plain |-> NoToken, protected |-> Token(rows[e])]]

(* LoadByHost and LoadByID.  A refusal of the store changes nothing.       *)
LoadOne(e) ==
    /\ Idle /\ e \in DOMAIN rows
    /\ RestoresToken(e)
    /\ Forgets
    /\ UNCHANGED <<recent, columns, db, truth, saves>>

(* LoadAll reads every row and closes the cursor before it restores any:   *)
(* the pool has one connection.                                            *)
LoadAllReads ==
    /\ Idle
    /\ loading' = recent
    /\ loaded' = Nothing
    /\ loadpc' = "restoring"
    /\ UNCHANGED <<tableVars, db, truth, saves>>

LoadAllRestores ==
    /\ loadpc = "restoring" /\ loading # <<>>
    /\ LET e == Head(loading) IN
         /\ RestoresToken(e)
         /\ loaded' = With(loaded, e, Token(rows[e]))
    /\ loading' = Tail(loading)
    /\ UNCHANGED <<recent, columns, db, loadpc, truth, saves>>

(* One refusal of the store, or one failed statement, fails the whole.     *)
LoadAllFails ==
    /\ loadpc = "restoring" /\ loading # <<>>
    /\ Forgets
    /\ UNCHANGED <<tableVars, db, truth, saves>>

LoadAllReturns ==
    /\ loadpc = "restoring" /\ loading = <<>>
    /\ loadpc' = "returned"
    /\ UNCHANGED <<tableVars, db, loading, loaded, truth, saves>>

SessionNext ==
    \/ Opens \/ AddsColumn \/ Opened \/ Closed
    \/ \E e \in Endpoints :
         \/ \E token \in Tokens \cup {NoToken} : Save(e, token)
         \/ Delete(e) \/ UpdateLastConnected(e) \/ LoadOne(e)
    \/ LoadAllReads \/ LoadAllRestores \/ LoadAllFails \/ LoadAllReturns

SessionSpec == SessionInit /\ [][SessionNext]_sessionVars

----------------------------------------------------------------------------

(* No token is lost or mixed up by the migration, wherever it stops: each  *)
(* session keeps the token it was saved with, in one column or the other,  *)
(* and a LoadAll that succeeds returns exactly the saved sessions with     *)
(* their tokens and leaves none in the clear (session.go:254-308,          *)
(* 368-398).                                                               *)
TokensSurvive ==
    /\ DOMAIN rows = DOMAIN truth
    /\ \A e \in DOMAIN rows : Token(rows[e]) = truth[e]
    /\ loadpc = "returned" =>
         /\ loaded = truth
         /\ \A e \in DOMAIN rows : rows[e].plain = NoToken

============================================================================
