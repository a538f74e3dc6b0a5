---------------------------- MODULE ScriptStore ----------------------------
(***************************************************************************)
(* The saved scripts (Engine of                                            *)
(* control-center/backend/scripting/engine.go: Save, Delete, Get followed  *)
(* by the read of the content in Execute, saveToDisk, loadFromDisk).       *)
(*                                                                         *)
(* The map holds pointers, and Save overwrites the script a pointer leads  *)
(* to.  The lock is left before the file is written or removed, and both   *)
(* saveToDisk and Execute read the script without it: a read that meets a  *)
(* write returns the old content, the new one, or a mixture (Torn).        *)
(* Each call saves content of its own, named after the call.               *)
(***************************************************************************)
CONSTANTS
    Names,      \* script names
    Calls,      \* calls of the operations
    Operations, \* the operations called: "save", "delete", "run" (RunScript)
    Torn, None  \* a mixture of two contents; no script, no file, no lock holder

(* The scripts in memory: a call's new one, or the one loaded for a name.  *)
Objects == Calls \cup Names

(* A new script object is none that was loaded; None and Torn are no       *)
(* script, no call and no write.                                           *)
ASSUME ScriptAssumption ==
    /\ Calls \cap Names = {}
    /\ {None, Torn} \cap (Calls \cup Names) = {}
    /\ None # Torn
    /\ None \notin (Calls \cup Names) \X Calls

VARIABLES
    scripts,    \* e.scripts
    heap,       \* the content of each script object
    writing,    \* the object being overwritten, and with what: <<o, content>> or None
    lock,       \* the holder of e.mu for writing
    file,       \* basePath/<name>.json
    callpc,     \* a call: its step
    target,     \* the script it is about
    object,     \* the script object it looked up
    data,       \* the content it read
    latest,     \* per name: what its last completed operation left, history
    serial,     \* per name: operations did not overlap since the start, history
    diskFailed, \* a file operation has failed since the start, history
    crashed     \* bound: one crash

scriptVars == <<scripts, heap, writing, lock, file, callpc, target, object, data,
                latest, serial, diskFailed, crashed>>
history == <<latest, serial, diskFailed, crashed>>

(* loadFromDisk: one script object per readable file; the leftover         *)
(* temporary files do not end in .json.                                    *)
Loaded(f) == [n \in Names |-> IF f[n] = None THEN None ELSE n]

ScriptInit ==
    /\ file = [n \in Names |-> None]
    /\ scripts = Loaded(file)
    /\ heap = [o \in Objects |-> None]
    /\ writing = None /\ lock = None
    /\ callpc = [c \in Calls |-> "idle"]
    /\ target = [c \in Calls |-> None]
    /\ object = [c \in Calls |-> None]
    /\ data = [c \in Calls |-> None]
    /\ latest = file
    /\ serial = [n \in Names |-> TRUE]
    /\ diskFailed = FALSE
    /\ crashed = FALSE

Active(c) == callpc[c] \notin {"idle", "returned"}

Steps(c, from, to) == callpc[c] = from /\ callpc' = [callpc EXCEPT ![c] = to]

(* A call of an operation on script n takes its first lock; history: does  *)
(* it overlap another one on n?                                            *)
Enters(c, operation, n, to) ==
    /\ operation \in Operations
    /\ lock = None
    /\ Steps(c, "idle", to)
    /\ target' = [target EXCEPT ![c] = n]
    /\ serial' = [serial EXCEPT ![n] = @ /\ \A d \in Calls : target[d] = n => ~Active(d)]

(* The call returns without an error; history: this is what it left.       *)
Completes(c, from, content) ==
    /\ Steps(c, from, "returned")
    /\ latest' = [latest EXCEPT ![target[c]] = content]
    /\ UNCHANGED <<serial, diskFailed, crashed>>

----------------------------------------------------------------------------
(* Save                                                                    *)

(* Under the lock an existing script is overwritten where it is.           *)
SaveOverwrites(c, n) ==
    /\ scripts[n] # None
    /\ Enters(c, "save", n, "overwriting")
    /\ lock' = c
    /\ writing' = <<scripts[n], c>>
    /\ UNCHANGED <<scripts, heap, file, object, data, latest, diskFailed, crashed>>

SaveOverwrote(c) ==
    /\ Steps(c, "overwriting", "unlocked")
    /\ heap' = [heap EXCEPT ![writing[1]] = writing[2]]
    /\ lock' = None
    /\ writing' = None
    /\ UNCHANGED <<scripts, file, target, object, data, history>>

SaveCreates(c, n) ==
    /\ scripts[n] = None
    /\ Enters(c, "save", n, "unlocked")
    /\ scripts' = [scripts EXCEPT ![n] = c]
    /\ heap' = [heap EXCEPT ![c] = c]
    /\ UNCHANGED <<writing, lock, file, object, data, latest, diskFailed, crashed>>

(* saveToDisk finds the script again; it may be gone by now.               *)
SaveLooksUp(c) ==
    /\ callpc[c] = "unlocked" /\ lock = None
    /\ IF scripts[target[c]] = None
       THEN Steps(c, "unlocked", "returned") /\ UNCHANGED object
       ELSE /\ Steps(c, "unlocked", "marshalling")
            /\ object' = [object EXCEPT ![c] = scripts[target[c]]]
    /\ UNCHANGED <<scripts, heap, writing, lock, file, target, data, history>>

(* MarshalIndent and Execute read the script without the lock.             *)
ReadsFrom(o) ==
    IF writing # None /\ writing[1] = o THEN {heap[o], writing[2], Torn} ELSE {heap[o]}

SaveMarshals(c) ==
    /\ Steps(c, "marshalling", "writing")
    /\ \E content \in ReadsFrom(object[c]) : data' = [data EXCEPT ![c] = content]
    /\ UNCHANGED <<scripts, heap, writing, lock, file, target, object, history>>

(* The temporary file, complete, is renamed over the script's file.        *)
SaveRenames(c) ==
    /\ Completes(c, "writing", c)
    /\ file' = [file EXCEPT ![target[c]] = data[c]]
    /\ UNCHANGED <<scripts, heap, writing, lock, target, object, data>>

(* The temporary file cannot be made, written or renamed: it is removed.   *)
(* Memory keeps the new content.                                           *)
SaveFails(c) ==
    /\ callpc[c] \in {"unlocked", "writing"}
    /\ callpc' = [callpc EXCEPT ![c] = "returned"]
    /\ diskFailed' = TRUE
    /\ UNCHANGED <<scripts, heap, writing, lock, file, target, object, data, latest, serial, crashed>>

----------------------------------------------------------------------------
(* Delete                                                                  *)

DeleteForgets(c, n) ==
    /\ Enters(c, "delete", n, IF scripts[n] = None THEN "returned" ELSE "removing")
    /\ scripts' = [scripts EXCEPT ![n] = None]
    /\ UNCHANGED <<heap, writing, lock, file, object, data, latest, diskFailed, crashed>>

(* Mutant: Delete leaves the file.                                         *)
DeleteRemovesMutant(c) ==
    /\ Completes(c, "removing", None)
    /\ UNCHANGED <<file, scripts, heap, writing, lock, target, object, data>>

(* Removing a file that is not there is no error.                          *)
DeleteRemoves(c) ==
    /\ Completes(c, "removing", None)
    /\ file' = [file EXCEPT ![target[c]] = None]
    /\ UNCHANGED <<scripts, heap, writing, lock, target, object, data>>

DeleteFails(c) ==
    /\ Steps(c, "removing", "returned")
    /\ diskFailed' = TRUE
    /\ UNCHANGED <<scripts, heap, writing, lock, file, target, object, data, latest, serial, crashed>>

----------------------------------------------------------------------------
(* RunScript: Get returns the pointer, Execute reads the content later.    *)

RunGets(c, n) ==
    /\ Enters(c, "run", n, IF scripts[n] = None THEN "returned" ELSE "reading")
    /\ object' = [object EXCEPT ![c] = scripts[n]]
    /\ UNCHANGED <<scripts, heap, writing, lock, file, data, latest, diskFailed, crashed>>

RunReads(c) ==
    /\ Steps(c, "reading", "returned")
    /\ \E content \in ReadsFrom(object[c]) : data' = [data EXCEPT ![c] = content]
    /\ UNCHANGED <<scripts, heap, writing, lock, file, target, object, history>>

----------------------------------------------------------------------------

(* The program ends at any point and is started again: loadFromDisk.  The  *)
(* calls it cut short are over; a mixture that overlapping calls left in a *)
(* file outlives them.                                                     *)
Restart ==
    /\ ~crashed
    /\ crashed' = TRUE
    /\ scripts' = Loaded(file)
    /\ heap' = [o \in Objects |-> IF o \in Names THEN file[o] ELSE heap[o]]
    /\ writing' = None /\ lock' = None
    /\ callpc' = [c \in Calls |-> IF callpc[c] = "idle" THEN "idle" ELSE "returned"]
    /\ latest' = file
    /\ serial' = [n \in Names |-> file[n] # Torn]
    /\ diskFailed' = FALSE
    /\ object' = [c \in Calls |-> None]
    /\ data' = [c \in Calls |-> None]
    /\ UNCHANGED <<file, target>>

Calling(c, n) ==
    SaveOverwrites(c, n) \/ SaveCreates(c, n) \/ DeleteForgets(c, n) \/ RunGets(c, n)

GoingOn(c) ==
    \/ SaveOverwrote(c) \/ SaveLooksUp(c) \/ SaveMarshals(c) \/ SaveRenames(c) \/ SaveFails(c)
    \/ DeleteRemoves(c) \/ DeleteFails(c)
    \/ RunReads(c)

ScriptNext ==
    \/ \E c \in Calls : GoingOn(c) \/ \E n \in Names : Calling(c, n)
    \/ Restart

ScriptSpec == ScriptInit /\ [][ScriptNext]_scriptVars

----------------------------------------------------------------------------

Quiet(n) == \A c \in Calls : target[c] = n => ~Active(c)
InMemory(n) == IF scripts[n] = None THEN None ELSE heap[scripts[n]]

(* As long as operations on a script do not overlap and the disk works,    *)
(* memory and file hold what the last of them said, also after a restart   *)
(* that cut one short, and nobody reads a script that is half written      *)
(* (engine.go:80-111, 141-161, 187, 312-357).                              *)
SerialScriptsAgree ==
    \A n \in Names : serial[n] =>
        /\ ~diskFailed /\ Quiet(n) => InMemory(n) = latest[n] /\ file[n] = latest[n]
        /\ \A c \in Calls : target[c] = n => data[c] # Torn

(* "Save stores a script both in memory and on disk" (engine.go:79): when  *)
(* nothing is under way and no file operation failed, both have the same.  *)
SavedIsStored ==
    \A n \in Names : ~diskFailed /\ Quiet(n) => InMemory(n) = file[n]

============================================================================
