----------------------------- MODULE Compaction -----------------------------
(***************************************************************************)
(* backend/compaction.py: compact() over one directory, run by any number  *)
(* of callers at once (the handler of POST /api/storage/compact runs in    *)
(* the server's thread pool); the server may be killed at any step.        *)
(*                                                                         *)
(* A file is a bag of rows; a row counts as one unit of size.  File names  *)
(* are numbers in their sorting order: 1 .. MaxNow for                     *)
(* part-compacted-<second>, larger ones for the parts of Dataset.  Column  *)
(* sets and the order of the rows are left out.                            *)
(***************************************************************************)
EXTENDS Naturals, FiniteSets, FiniteSetsExt

CONSTANTS Procs,       \* concurrent callers
          Parts,       \* names of the parts written before
          Rows,        \* row ids; RowsOf gives those of each part
          RowsOf,
          MinRows,     \* MIN_FILE_BYTES: smaller files are compacted
          MaxRows,     \* MAX_FILE_BYTES: a group stays within it
          None,
          MaxNow,      \* bound: seconds
          MaxRuns,     \* bound: calls of compact
          MaxKills     \* bound: kills of the server

Names == Parts \union 1 .. MaxNow

ASSUME CompactionAssumption ==
    /\ MaxNow \in Nat \ {0}
    /\ Parts \subseteq Nat \ 1 .. MaxNow /\ IsFiniteSet(Parts)
    /\ RowsOf \in [Parts -> SUBSET Rows] /\ None \notin [Rows -> Nat]
    /\ \A f, g \in Parts : f # g => RowsOf[f] \intersect RowsOf[g] = {}

VARIABLES dir,      \* the *.parquet files: name -> bag of rows, or None
          aside,    \* the *.compacting files, by the name they are for
          pc,
          groups,   \* groups of input files that compact() has not finished
          expected, \* row count of the current group's inputs
          merged,   \* the rows read from them
          final,    \* name of the output
          doomed,   \* inputs still to be removed
          now, used,
          twice,    \* history: two outputs have been named in one second
          overlapped, \* history: two calls have been running at once
          runs, kills

vars == <<dir, aside, pc, groups, expected, merged, final, doomed, now, used,
          twice, overlapped, runs, kills>>
local == <<groups, expected, merged, final, doomed>>
bounds == <<now, used, twice, overlapped, runs, kills>>

NoRows == [r \in Rows |-> 0]
Bag == [Rows -> Nat]
Size(bag) == MapThenSumSet(LAMBDA r : bag[r], Rows)
CopiesIn(S, r) == UNION {{f} \X (1 .. dir[f][r]) : f \in S}
Plus(S) == [r \in Rows |-> Cardinality(CopiesIn(S, r))]
Present == {f \in Names : dir[f] # None}

TypeOK ==
    /\ dir \in [Names -> Bag \union {None}]
    /\ aside \in [Names -> Bag \union {None}]
    /\ pc \in [Procs -> {"idle", "meta", "read", "write", "verify", "replace",
                         "remove"}]
    /\ groups \in [Procs -> SUBSET SUBSET Names]
    /\ merged \in [Procs -> Bag]
    /\ final \in [Procs -> Names \union {None}]
    /\ doomed \in [Procs -> SUBSET Names]
    /\ now \in 1 .. MaxNow /\ used \subseteq 1 .. MaxNow
    /\ twice \in BOOLEAN /\ overlapped \in BOOLEAN
    /\ runs \in Nat /\ kills \in Nat

Init ==
    /\ dir = [f \in Names |-> IF f \in Parts
                 THEN [r \in Rows |-> IF r \in RowsOf[f] THEN 1 ELSE 0]
                 ELSE None]
    /\ aside = [f \in Names |-> None]
    /\ pc = [p \in Procs |-> "idle"]
    /\ groups = [p \in Procs |-> {}]
    /\ expected = [p \in Procs |-> 0]
    /\ merged = [p \in Procs |-> NoRows]
    /\ final = [p \in Procs |-> None]
    /\ doomed = [p \in Procs |-> {}]
    /\ now = 1 /\ used = {} /\ twice = FALSE /\ overlapped = FALSE /\ runs = 0 /\ kills = 0

-----------------------------------------------------------------------------
(* plan *)

Small == {f \in Present : Size(dir[f]) < MinRows}

\* The small files in sorting order, cut greedily into groups of at most
\* MaxRows: each joins the group of the one before it unless that would make
\* it too large.  Those of a single file are left alone.
PlanGroups ==
    LET before(f) == {g \in Small : g < f}
        opens[f \in Small] ==      \* the first file of the group of f
            IF before(f) = {} THEN f
            ELSE LET k == opens[Max(before(f))]
                 IN  IF Size(Plus({g \in Small : k <= g /\ g <= f})) <= MaxRows
                     THEN k ELSE f
        group(k) == {f \in Small : opens[f] = k}
    IN  {group(k) : k \in {l \in Small : Cardinality(group(l)) > 1}}

Goto(p, label) == pc' = [pc EXCEPT ![p] = label]

Plan(p) ==
    /\ pc[p] = "idle" /\ runs < MaxRuns /\ runs' = runs + 1
    /\ PlanGroups # {}
    /\ groups' = [groups EXCEPT ![p] = PlanGroups]
    /\ Goto(p, "meta")
    /\ overlapped' = (overlapped \/ \E q \in Procs : pc[q] # "idle")
    /\ UNCHANGED <<dir, aside, expected, merged, final, doomed, now, used, twice, kills>>

-----------------------------------------------------------------------------
(* compact_group on the group of groups[p] that comes first in sorting order *)

First(G) == CHOOSE g \in G : Min(UNION G) \in g
Inputs(p) == First(groups[p])
Readable(p) == Inputs(p) \subseteq Present

\* On to the next group, after the current one was merged or refused.
NextGroup(p) ==
    /\ groups' = [groups EXCEPT ![p] = @ \ {Inputs(p)}]
    /\ Goto(p, IF groups[p] = {Inputs(p)} THEN "idle" ELSE "meta")

\* An exception that compact() does not catch ends it.
Abort(p) ==
    /\ groups' = [groups EXCEPT ![p] = {}]
    /\ Goto(p, "idle")

Meta(p) ==
    /\ pc[p] = "meta"
    /\ IF Readable(p)
       THEN /\ expected' = [expected EXCEPT ![p] = Size(Plus(Inputs(p)))]
            /\ Goto(p, "read") /\ UNCHANGED groups
       ELSE Abort(p) /\ UNCHANGED expected
    /\ UNCHANGED <<dir, aside, merged, final, doomed, bounds>>

Read(p) ==
    /\ pc[p] = "read"
    /\ IF Readable(p)
       THEN /\ merged' = [merged EXCEPT ![p] = Plus(Inputs(p))]
            /\ Goto(p, "write") /\ UNCHANGED groups
       ELSE Abort(p) /\ UNCHANGED merged
    /\ UNCHANGED <<dir, aside, expected, final, doomed, bounds>>

\* The output is named after the second and written under its temporary name.
Write(p) ==
    /\ pc[p] = "write" /\ Goto(p, "verify")
    /\ used' = used \union {now} /\ twice' = (twice \/ now \in used)
    /\ final' = [final EXCEPT ![p] = now]
    /\ aside' = [aside EXCEPT ![now] = merged[p]]
    /\ UNCHANGED <<dir, groups, expected, merged, doomed, now, overlapped, runs,
                   kills>>

Verified(p) == Size(aside[final[p]]) = expected[p]

\* Mutated form of Verify: the inputs go as soon as the output is verified.
VerifyRemoves(p) ==
    /\ pc[p] = "verify" /\ Goto(p, "replace")
    /\ dir' = [f \in Names |-> IF f \in Inputs(p) THEN None ELSE dir[f]]
    /\ UNCHANGED <<aside, local, bounds>>

Verify(p) ==
    /\ pc[p] = "verify"
    /\ IF aside[final[p]] = None THEN Abort(p) /\ UNCHANGED aside
       ELSE IF Verified(p)
       THEN Goto(p, "replace") /\ UNCHANGED <<groups, aside>>
       ELSE /\ aside' = [aside EXCEPT ![final[p]] = None]
            /\ NextGroup(p)
    /\ UNCHANGED <<dir, expected, merged, final, doomed, bounds>>

Replace(p) ==
    /\ pc[p] = "replace"
    /\ IF aside[final[p]] = None
       THEN Abort(p) /\ UNCHANGED <<dir, aside, doomed>>
       ELSE /\ dir' = [dir EXCEPT ![final[p]] = aside[final[p]]]
            /\ aside' = [aside EXCEPT ![final[p]] = None]
            /\ doomed' = [doomed EXCEPT ![p] = Inputs(p)]
            /\ Goto(p, "remove") /\ UNCHANGED groups
    /\ UNCHANGED <<expected, merged, final, bounds>>

\* Mutated form of RemoveInput: the first input is kept.
RemoveOthers(p) ==
    /\ pc[p] = "remove" /\ doomed[p] # {}
    /\ dir' = [f \in Names |-> IF f \in doomed[p] \ {Min(doomed[p])}
                               THEN None ELSE dir[f]]
    /\ doomed' = [doomed EXCEPT ![p] = {}]
    /\ UNCHANGED <<aside, pc, groups, expected, merged, final, bounds>>

\* The inputs go one by one; one that is gone already is only logged.
RemoveInput(p) ==
    /\ pc[p] = "remove" /\ doomed[p] # {}
    /\ LET f == Min(doomed[p])
       IN  /\ dir' = [dir EXCEPT ![f] = None]
           /\ doomed' = [doomed EXCEPT ![p] = @ \ {f}]
    /\ UNCHANGED <<aside, pc, groups, expected, merged, final, bounds>>

Finish(p) ==
    /\ pc[p] = "remove" /\ doomed[p] = {}
    /\ NextGroup(p)
    /\ UNCHANGED <<dir, aside, expected, merged, final, doomed, bounds>>

\* The server is killed, with every call that runs in it.
Kill ==
    /\ kills < MaxKills /\ kills' = kills + 1
    /\ \E p \in Procs : pc[p] # "idle"
    /\ pc' = [p \in Procs |-> "idle"]
    /\ groups' = [p \in Procs |-> {}]
    /\ doomed' = [p \in Procs |-> {}]
    /\ UNCHANGED <<dir, aside, expected, merged, final, now, used, twice, overlapped,
                   runs>>

Tick ==
    /\ now < MaxNow /\ now' = now + 1
    /\ UNCHANGED <<dir, aside, pc, local, used, twice, overlapped, runs, kills>>

Group(p) == \/ Meta(p) \/ Read(p) \/ Write(p) \/ Verify(p) \/ Replace(p)
            \/ RemoveInput(p) \/ Finish(p)

Next == Tick \/ Kill \/ \E p \in Procs : Plan(p) \/ Group(p)

Spec == Init /\ [][Next]_vars

-----------------------------------------------------------------------------
(* Properties *)

Row == UNION {RowsOf[f] : f \in Parts}
Copies(r) == Cardinality(CopiesIn(Present, r))

\* compaction.py:10-11, "the one operation that can destroy data": every row
\* is in some file at every moment, however calls overlap and are killed, until
\* two outputs have been named in the same second.
NoRowLost == ~twice => \A r \in Row : \E f \in Present : dir[f][r] > 0

\* Calls that do not overlap and are not killed leave every row exactly once.
RowsOnce ==
    /\ TypeOK
    /\ kills = 0 /\ ~overlapped /\ ~twice /\ (\A p \in Procs : pc[p] = "idle") =>
          \A r \in Row : Copies(r) = 1
=============================================================================
