----------------------------- MODULE DirListing ----------------------------
(***************************************************************************)
(* Listing a directory of an agent page by page: listDirPages of           *)
(* control-center/app.go against ListDir of                                *)
(* agent/internal/filesystem/fs.go, while the directory changes.           *)
(*                                                                         *)
(* Names are numbers, in the order os.ReadDir sorts them.  The agent reads *)
(* the directory anew for each page and then looks up each entry of the    *)
(* page, leaving out the ones that are gone by then.                       *)
(***************************************************************************)
EXTENDS Naturals, Sequences, FiniteSets

CONSTANTS
    MaxName,            \* names are 1..MaxName
    listDirPageSize,
    maxListedEntries,
    MaxDirChanges       \* bound: files added or removed

ASSUME ListAssumption ==
    /\ listDirPageSize \in Nat \ {0}
    /\ {MaxName, maxListedEntries, MaxDirChanges} \subseteq Nat

maxListDirRequest == (maxListedEntries \div listDirPageSize) + 2

VARIABLES
    dir,            \* the directory
    dirChanges,     \* how often it changed, bound
    listpc,         \* "asking", "looking" (the agent in ListDir), "answered", "ok" or "failed"
    request, listOffset,
    page,           \* the entries of the page still to be looked up
    found,          \* the page's entries
    pageTotal, pageNext, hasMore,
    merged, mergedTotal,
    stayed,         \* the entries there all along, history
    grew, shrank    \* a file was added, removed since the start, history

listVars == <<dir, dirChanges, listpc, request, listOffset, page, found, pageTotal, pageNext, hasMore,
              merged, mergedTotal, stayed, grew, shrank>>
answerVars == <<page, found, pageTotal, pageNext, hasMore>>
dirVars == <<dir, dirChanges, stayed, grew, shrank>>
mergedVars == <<merged, mergedTotal>>

ListInit ==
    /\ dir \in SUBSET (1..MaxName)
    /\ dirChanges = 0
    /\ listpc = "asking"
    /\ request = 0 /\ listOffset = 0
    /\ page = <<>> /\ found = <<>>
    /\ pageTotal = 0 /\ pageNext = 0 /\ hasMore = FALSE
    /\ merged = <<>> /\ mergedTotal = 0
    /\ stayed = dir
    /\ grew = FALSE /\ shrank = FALSE

Sorted(S) ==
    [i \in 1..Cardinality(S) |-> CHOOSE x \in S : Cardinality({y \in S : y < x}) = i - 1]

Smaller(a, b) == IF a < b THEN a ELSE b

----------------------------------------------------------------------------
(* ListDir                                                                 *)

(* Mutant: the next page begins with the last entry of this one.           *)
PageEndMutant == Smaller(listOffset + listDirPageSize - 1, Cardinality(dir))

(* Where the page ends; the offset may be beyond the end by now.           *)
PageEnd == Smaller(Smaller(listOffset, Cardinality(dir)) + listDirPageSize, Cardinality(dir))

ReadsDir ==
    /\ listpc = "asking"
    /\ listpc' = "looking"
    /\ page' = SubSeq(Sorted(dir), listOffset + 1,
                      Smaller(listOffset + listDirPageSize, Cardinality(dir)))
    /\ found' = <<>>
    /\ pageTotal' = Cardinality(dir)
    /\ pageNext' = PageEnd
    /\ hasMore' = (PageEnd < Cardinality(dir))
    /\ UNCHANGED <<request, listOffset, mergedVars, dirVars>>

(* e.Info() fails for an entry that is gone.                               *)
LooksUp ==
    /\ listpc = "looking" /\ page # <<>>
    /\ page' = Tail(page)
    /\ found' = IF Head(page) \in dir THEN Append(found, Head(page)) ELSE found
    /\ UNCHANGED <<listpc, request, listOffset, pageTotal, pageNext, hasMore, mergedVars, dirVars>>

Answers ==
    /\ listpc = "looking" /\ page = <<>>
    /\ listpc' = "answered"
    /\ UNCHANGED <<request, listOffset, answerVars, mergedVars, dirVars>>

(* The directory cannot be read, or the request fails.                     *)
ListFails ==
    /\ listpc \in {"asking", "looking"}
    /\ listpc' = "failed"
    /\ UNCHANGED <<request, listOffset, answerVars, mergedVars, dirVars>>

----------------------------------------------------------------------------
(* listDirPages                                                            *)

(* The loop ends when the page says so, does not advance, or enough has    *)
(* been listed or asked for; the total is never below what is listed.      *)
Merges ==
    /\ listpc = "answered"
    /\ merged' = merged \o found
    /\ request' = request + 1
    /\ IF ~hasMore \/ pageNext <= listOffset \/ Len(merged') >= maxListedEntries
       THEN listpc' = "ok" /\ UNCHANGED listOffset
       ELSE /\ listpc' = IF request' < maxListDirRequest THEN "asking" ELSE "ok"
            /\ listOffset' = pageNext
    /\ mergedTotal' = IF pageTotal < Len(merged') THEN Len(merged') ELSE pageTotal
    /\ UNCHANGED <<answerVars, dirVars>>

(* Somebody adds or removes a file.                                        *)
Adds(n) ==
    /\ listpc \notin {"ok", "failed"}
    /\ dirChanges < MaxDirChanges /\ n \notin dir
    /\ dirChanges' = dirChanges + 1
    /\ dir' = dir \cup {n}
    /\ grew' = TRUE
    /\ UNCHANGED <<listpc, request, listOffset, answerVars, mergedVars, stayed, shrank>>

Removes(n) ==
    /\ listpc \notin {"ok", "failed"}
    /\ dirChanges < MaxDirChanges /\ n \in dir
    /\ dirChanges' = dirChanges + 1
    /\ dir' = dir \ {n}
    /\ stayed' = stayed \ {n}
    /\ shrank' = TRUE
    /\ UNCHANGED <<listpc, request, listOffset, answerVars, mergedVars, grew>>

ListNext ==
    \/ ReadsDir \/ LooksUp \/ Answers \/ ListFails \/ Merges
    \/ \E n \in 1..MaxName : Adds(n) \/ Removes(n)

ListSpec == ListInit /\ [][ListNext]_listVars

----------------------------------------------------------------------------

Listed == {merged[i] : i \in DOMAIN merged}

(* What a listing is worth that takes several pages of a directory that    *)
(* changes (app.go:540-568, fs.go:55-117).  Files that appear may show     *)
(* others twice but hide none that stayed; files that disappear may hide   *)
(* others but show none twice; an unchanged directory is listed in order,  *)
(* from the first entry, as far as the limit goes and with its real size.  *)
ListingFaithful ==
    listpc = "ok" =>
        /\ ~shrank /\ Len(merged) < maxListedEntries => stayed \subseteq Listed
        /\ ~grew => \A i, j \in DOMAIN merged : i < j => merged[i] < merged[j]
        /\ ~grew /\ ~shrank =>
             /\ merged = SubSeq(Sorted(dir), 1, Len(merged))
             /\ mergedTotal = Cardinality(dir)
             /\ Len(merged) >= Smaller(maxListedEntries, Cardinality(dir))
        /\ mergedTotal >= Len(merged)

============================================================================
