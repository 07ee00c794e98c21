---------------------------- MODULE DriveFolders ----------------------------
(***************************************************************************)
(* ensure_folder of backend/drive_rest.py: several writers find or create  *)
(* the folder of one name under one parent.  Google Drive (external) has   *)
(* no conditional create and lets a name be used twice; it hands out ids   *)
(* in no particular order.  A new folder shows up in listings some time    *)
(* after its creation, at once included (Appear).                          *)
(*                                                                         *)
(* A writer calls ensure_folder again and again (ensure_path is called for *)
(* every upload_tree); chosen keeps the id its last call returned.         *)
(***************************************************************************)
EXTENDS Naturals, FiniteSets

CONSTANTS Writers, Ids, NoFolder,
          MaxLost    \* bound: create calls sent again after a lost answer

ASSUME FoldersAssumption ==
    /\ Ids \subseteq Nat /\ NoFolder \notin Nat
    /\ MaxLost \in Nat

VARIABLES folders,  \* ids of the folders that exist
          listed,   \* those a query returns
          at,       \* where each writer is in ensure_folder
          chosen,   \* the id its last call returned, or NoFolder
          lost      \* history: answers to a create lost so far

folderVars == <<folders, listed, at, chosen, lost>>

FoldersTypeOK ==
    /\ folders \subseteq Ids
    /\ listed \subseteq folders
    /\ at \in [Writers -> {"idle", "find", "create", "recheck", "failed"}]
    /\ chosen \in [Writers -> Ids \union {NoFolder}]
    /\ lost \in 0 .. MaxLost

FoldersInit ==
    /\ folders = {}
    /\ listed = {}
    /\ at = [w \in Writers |-> "idle"]
    /\ chosen = [w \in Writers |-> NoFolder]
    /\ lost = 0

-----------------------------------------------------------------------------

\* Mutated form of Lowest: the largest of the ids.
Highest(S) == CHOOSE i \in S : \A k \in S : i >= k

\* find_folder: the lowest of the ids a query returns.
Lowest(S) == CHOOSE i \in S : \A k \in S : i <= k

Return(w, id) ==
    /\ chosen' = [chosen EXCEPT ![w] = id]
    /\ at' = [at EXCEPT ![w] = "idle"]

Call(w) ==
    /\ at[w] \in {"idle", "failed"}
    /\ at' = [at EXCEPT ![w] = "find"]
    /\ UNCHANGED <<folders, listed, chosen, lost>>

\* Mutated form of Find: a folder id returned before is reused without asking.
FindCached(w) ==
    /\ at[w] = "find"
    /\ IF chosen[w] # NoFolder THEN Return(w, chosen[w])
       ELSE IF listed # {} THEN Return(w, Lowest(listed))
       ELSE at' = [at EXCEPT ![w] = "create"] /\ UNCHANGED chosen
    /\ UNCHANGED <<folders, listed, lost>>

\* Mutated form of Find: duplicates are treated as no answer.
FindSingle(w) ==
    /\ at[w] = "find"
    /\ IF Cardinality(listed) = 1
       THEN Return(w, Lowest(listed))
       ELSE at' = [at EXCEPT ![w] = "create"] /\ UNCHANGED chosen
    /\ UNCHANGED <<folders, listed, lost>>

Find(w) ==
    /\ at[w] = "find"
    /\ IF listed # {}
       THEN Return(w, Lowest(listed))
       ELSE at' = [at EXCEPT ![w] = "create"] /\ UNCHANGED chosen
    /\ UNCHANGED <<folders, listed, lost>>

\* A new folder, whatever exists by now; the query that found none is stale.
NewFolder(id) == folders' = folders \union {id} /\ UNCHANGED listed

\* The POST of ensure_folder.  _request sends it again when the answer is lost
\* in transit, although Drive has created the folder.
Create(w) ==
    /\ at[w] = "create"
    /\ \E id \in Ids \ folders : NewFolder(id)
    /\ \/ at' = [at EXCEPT ![w] = "recheck"] /\ UNCHANGED lost
       \/ lost < MaxLost /\ lost' = lost + 1 /\ UNCHANGED at
    /\ UNCHANGED chosen

\* Look again and take the winner; none visible is a DriveError.
Recheck(w) ==
    /\ at[w] = "recheck"
    /\ IF listed # {}
       THEN Return(w, Lowest(listed))
       ELSE at' = [at EXCEPT ![w] = "failed"] /\ UNCHANGED chosen
    /\ UNCHANGED <<folders, listed, lost>>

\* Drive's index catches up with a creation.
Appear(id) ==
    /\ id \in folders \ listed
    /\ listed' = listed \union {id}
    /\ UNCHANGED <<folders, at, chosen, lost>>

\* _request has used up its attempts: a DriveError leaves ensure_folder.
Fail(w) ==
    /\ at[w] \in {"find", "create", "recheck"}
    /\ at' = [at EXCEPT ![w] = "failed"]
    /\ UNCHANGED <<folders, listed, chosen, lost>>

EnsureFolder(w) == Call(w) \/ Find(w) \/ Create(w) \/ Recheck(w) \/ Fail(w)

FoldersNext ==
    \/ \E w \in Writers : EnsureFolder(w)
    \/ \E id \in Ids : Appear(id)

FoldersSpec == FoldersInit /\ [][FoldersNext]_folderVars

\* Every writer keeps uploading (EnsureFolder), its queries do not fail for ever
\* (Find), and Drive's index does catch up.
FoldersFairness ==
    /\ \A w \in Writers : WF_folderVars(EnsureFolder(w)) /\ SF_folderVars(Find(w))
    /\ \A id \in Ids : WF_folderVars(Appear(id))

FoldersFairSpec == FoldersSpec /\ FoldersFairness

-----------------------------------------------------------------------------
(* Properties *)

\* A writer's folder is only ever replaced by one with a lower id: later calls
\* move all writers in the same direction, the reason why they converge.
OnlyDownwards ==
    [][\A w \in Writers : chosen[w] # NoFolder => chosen'[w] <= chosen[w]]_folderVars

\* A writer that has got a folder never creates another one, however far the
\* listings are behind: only writers racing for their first folder can add
\* duplicates (ensure_folder creates only when its query finds nothing).
NoSecondCreate ==
    /\ FoldersTypeOK
    /\ \A w \in Writers : at[w] = "create" => chosen[w] = NoFolder

\* Writers that race for the folder end up in the same one ("every writer
\* converges on the same folder afterwards", drive_rest.py:155).
EventuallyAgree == <>[](\A v, w \in Writers : chosen[v] = chosen[w])
=============================================================================
