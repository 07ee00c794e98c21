------------------------------ MODULE Catalog ------------------------------
(***************************************************************************)
(* class Catalog of backend/drive_store.py: which datasets exist, with     *)
(* counts and the account that holds each.  Every writer owns one shard    *)
(* file; each save merges the shards into the main file, a snapshot that   *)
(* all writers write, through one temporary file.  What a Catalog object   *)
(* lists is what it loaded, its own shard.  Snapshots are backed up to     *)
(* Drive and restored from it.                                             *)
(*                                                                         *)
(* An entry keeps rows (bytes and files are summed like it), account and   *)
(* updated_at, a clock that every upsert advances.  Times and schema are   *)
(* left out.  A file is written in one step: what happens when writers of  *)
(* one temporary file overlap inside a write is the subject of McpUsers.   *)
(***************************************************************************)
EXTENDS Naturals, Sequences, FiniteSets

CONSTANTS Shards,    \* writers, one shard each, numbered in name order
          Datasets,
          Homes,     \* accounts
          Absent,    \* no entry, no account, no file
          Legacy,    \* rows per dataset of a catalog that predates sharding
          MaxUpserts, MaxDeaths, MaxBackups, MaxLosses   \* bounds

Owners == 1 .. Shards
Entry == [rows : Nat, account : Homes \union {Absent}, at : Nat]
Table == [Datasets -> Entry \union {Absent}]

ASSUME CatalogAssumption ==
    /\ Shards \in Nat /\ Legacy \in Nat
    /\ Absent \notin Homes \union Entry \union Table

VARIABLES shard,    \* shard files, Absent when absent
          main,     \* the main file, likewise
          part,     \* its temporary file
          open,     \* the Catalog object of each writer exists
          mem,      \* its entries
          stage, view, \* where it is in save, and the merged view it writes
          copies,   \* files of the catalog's name on Drive, oldest first
          now,      \* upserts so far
          recorded, \* history: rows that have reached a shard file, each once
          owed,     \* history: what a writer took from the main file for its
                    \* own and has not saved in its shard yet
          heirs,    \* history: writers whose shard holds such rows
          alone,    \* history: nobody else has saved since this save began
          deaths, losses

catalogVars == <<shard, main, part, open, mem, stage, view, copies, now, recorded,
                 owed, heirs, alone, deaths, losses>>
history == <<recorded, owed, heirs, alone, deaths, losses>>

Empty == [d \in Datasets |-> Absent]
Rows(e) == IF e = Absent THEN 0 ELSE e.rows

CatalogTypeOK ==
    /\ shard \in [Owners -> Table \union {Absent}]
    /\ main \in Table \union {Absent} /\ part \in Table \union {Absent}
    /\ {mem, view, owed} \subseteq [Owners -> Table]
    /\ open \subseteq Owners /\ heirs \subseteq Owners
    /\ stage \in [Owners -> {"idle", "shard", "merge", "main", "replace"}]
    /\ copies \in Seq(Table)
    /\ recorded \in [Datasets -> Nat] /\ alone \in [Owners -> BOOLEAN]
    /\ {now, deaths, losses} \subseteq Nat

OldCatalog == [d \in Datasets |-> [rows |-> Legacy, account |-> Absent, at |-> 0]]

CatalogInit ==
    /\ shard = [w \in Owners |-> Absent]
    /\ main = IF Legacy = 0 THEN Absent ELSE OldCatalog
    /\ part = Absent
    /\ open = {}
    /\ mem = [w \in Owners |-> Empty]
    /\ stage = [w \in Owners |-> "idle"]
    /\ view = [w \in Owners |-> Empty]
    /\ copies = << >>
    /\ now = 0
    /\ recorded = [d \in Datasets |-> 0]
    /\ owed = [w \in Owners |-> Empty]
    /\ heirs = {}
    /\ alone = [w \in Owners |-> FALSE]
    /\ deaths = 0 /\ losses = 0

-----------------------------------------------------------------------------
(* merge and load_all_shards *)

Older(a, b) == IF a.at <= b.at THEN a ELSE b
Newer(a, b) == IF a.at >= b.at THEN a ELSE b

\* The counts add up; the account of the entry with the lower updated_at
\* stays, if it has one.
MergeEntry(cur, e) ==
    IF cur = Absent THEN e
    ELSE IF e = Absent THEN cur
    ELSE [rows |-> cur.rows + e.rows,
          account |-> IF Older(cur, e).account # Absent THEN Older(cur, e).account
                      ELSE Newer(cur, e).account,
          at |-> Newer(cur, e).at]

MergeTables(a, b) == [d \in Datasets |-> MergeEntry(a[d], b[d])]

\* merge of the files, in the order of their names.
Merge(file) ==
    LET upTo[n \in 0 .. Shards] ==
            IF n = 0 THEN Empty ELSE MergeTables(upTo[n - 1], file[n])
    IN  upTo[Shards]

Readable(W) == {w \in W : shard[w] # Absent}
Stored(w) == IF shard[w] = Absent THEN Empty ELSE shard[w]

\* Mutated form of AllShards: the own file is read with the others.
AllShardsTwice(s) == MergeTables(Merge([w \in Owners |-> Stored(w)]), mem[s])

\* The shards of the others in the order of their names, then the own entries.
AllShards(s) ==
    MergeTables(Merge([w \in Owners |-> IF w = s THEN Empty ELSE Stored(w)]), mem[s])

-----------------------------------------------------------------------------
(* A writer *)

\* Mutated form of Source: the merged snapshot is read back.
SourceMain(s) == IF main # Absent THEN main ELSE Empty

\* What load reads: the own shard; else, when nobody has one, the main file.
Source(s) == IF shard[s] # Absent THEN shard[s]
             ELSE IF Readable(Owners) = {} /\ main # Absent THEN main
             ELSE Empty

Open(s) ==
    /\ s \notin open
    /\ open' = open \union {s}
    /\ mem' = [mem EXCEPT ![s] = Source(s)]
    /\ owed' = [owed EXCEPT ![s] = IF Readable(Owners) = {} THEN Source(s) ELSE @]
    /\ UNCHANGED <<shard, main, part, stage, view, copies, now, recorded, heirs,
                   alone, deaths, losses>>

Goto(s, label) == stage' = [stage EXCEPT ![s] = label]

\* Mutated form of Updated: the counts of the batch replace the totals.
UpdatedLast(old, account) ==
    [rows |-> 1, at |-> now + 1,
     account |-> IF old # Absent /\ old.account # Absent THEN old.account ELSE account]

\* One more row; a dataset that has an account is not relocated.
Updated(old, account) ==
    [rows |-> Rows(old) + 1, at |-> now + 1,
     account |-> IF old # Absent /\ old.account # Absent THEN old.account ELSE account]

Upsert(s, d, account) ==
    /\ s \in open /\ stage[s] = "idle" /\ now < MaxUpserts
    /\ now' = now + 1
    /\ mem' = [mem EXCEPT ![s][d] = Updated(@, account)]
    /\ Goto(s, "shard")
    /\ alone' = [w \in Owners |-> w = s /\ \A v \in Owners : stage[v] = "idle"]
    /\ UNCHANGED <<shard, main, part, open, view, copies, recorded, heirs, owed,
                   deaths, losses>>

\* The dataset of the upsert in progress.
Latest(s) == CHOOSE d \in Datasets :
                /\ mem[s][d] # Absent
                /\ \A e \in Datasets : mem[s][e] # Absent => mem[s][e].at <= mem[s][d].at

\* The first _write of save; the rows count as recorded from here on.
WriteShard(s) ==
    /\ stage[s] = "shard" /\ Goto(s, "merge")
    /\ shard' = [shard EXCEPT ![s] = mem[s]]
    /\ recorded' = [d \in Datasets |-> recorded[d]
                       + (IF d = Latest(s) THEN 1 ELSE 0)
                       + (IF heirs = {} THEN Rows(owed[s][d]) ELSE 0)]
    /\ heirs' = IF owed[s] = Empty THEN heirs ELSE heirs \union {s}
    /\ owed' = [owed EXCEPT ![s] = Empty]
    /\ UNCHANGED <<main, part, open, mem, view, copies, now, alone, deaths, losses>>

ReadShards(s) ==
    /\ stage[s] = "merge" /\ Goto(s, "main")
    /\ view' = [view EXCEPT ![s] = AllShards(s)]
    /\ UNCHANGED <<shard, main, part, open, mem, copies, now, history>>

WriteMain(s) ==
    /\ stage[s] = "main" /\ Goto(s, "replace")
    /\ part' = view[s]
    /\ UNCHANGED <<shard, main, open, mem, view, copies, now, history>>

\* os.replace; another writer may have moved the temporary file away, and the
\* FileNotFoundError then leaves upsert.
ReplaceMain(s) ==
    /\ stage[s] = "replace" /\ Goto(s, "idle")
    /\ main' = IF part # Absent THEN part ELSE main
    /\ part' = Absent
    /\ UNCHANGED <<shard, open, mem, view, copies, now, history>>

Die(s) ==
    /\ s \in open /\ deaths < MaxDeaths /\ deaths' = deaths + 1
    /\ open' = open \ {s}
    /\ mem' = [mem EXCEPT ![s] = Empty]
    /\ owed' = [owed EXCEPT ![s] = Empty]
    /\ Goto(s, "idle")
    /\ UNCHANGED <<shard, main, part, view, copies, now, recorded, heirs, alone,
                   losses>>

-----------------------------------------------------------------------------
(* Backup *)

\* upload creates a file each time, whether find_file found one or not.
Backup ==
    /\ main # Absent /\ Len(copies) < MaxBackups
    /\ copies' = Append(copies, main)
    /\ UNCHANGED <<shard, main, part, open, mem, stage, view, now, history>>

\* find_file takes the first of the files Drive lists, in an order it does not
\* promise.  Without a local catalog, or with overwrite, it becomes the main
\* file, and s loads.
Restore(s) ==
    /\ s \in open /\ stage[s] = "idle"
    /\ \E i \in DOMAIN copies :
          /\ main' = copies[i]
          /\ IF Readable(Owners) = {}
             THEN /\ mem' = [mem EXCEPT ![s] = copies[i]]
                  /\ owed' = [owed EXCEPT ![s] = copies[i]]
             ELSE /\ mem' = [mem EXCEPT ![s] = Source(s)]
                  /\ owed' = [owed EXCEPT ![s] = Empty]
    /\ UNCHANGED <<shard, part, open, stage, view, copies, now, recorded, heirs,
                   alone, deaths, losses>>

\* The machine is gone with its files; work goes on on another one.
LoseMachine ==
    /\ losses < MaxLosses /\ losses' = losses + 1
    /\ shard' = [w \in Owners |-> Absent] /\ main' = Absent /\ part' = Absent
    /\ open' = {} /\ mem' = [w \in Owners |-> Empty]
    /\ stage' = [w \in Owners |-> "idle"]
    /\ recorded' = [d \in Datasets |-> 0]
    /\ heirs' = {} /\ owed' = [w \in Owners |-> Empty]
    /\ alone' = [w \in Owners |-> FALSE]
    /\ UNCHANGED <<view, copies, now, deaths>>

Write(s) == WriteShard(s) \/ ReadShards(s) \/ WriteMain(s) \/ ReplaceMain(s)

CatalogNext ==
    \/ \E s \in Owners :
          \/ Open(s) \/ Write(s) \/ Die(s) \/ Restore(s)
          \/ \E d \in Datasets, a \in Homes \union {Absent} : Upsert(s, d, a)
    \/ Backup \/ LoseMachine

CatalogSpec == CatalogInit /\ [][CatalogNext]_catalogVars

-----------------------------------------------------------------------------
(* Properties *)

Reader(s) == s \in open /\ stage[s] = "idle"

\* At most one writer took an old or a restored main file for its own.
OneHeir == Cardinality(heirs \union {w \in Owners : owed[w] # Empty}) <= 1

\* load_all_shards, which every save writes to the main file, has each recorded
\* row once, whatever the writers do to the main file meanwhile and however often
\* they are killed and opened again, as long as one writer only took an old
\* catalog or a restored one for its own.  That is what drive_store.py:278 calls
\* a reader; the dashboard is none: list and summary show what load took (Source),
\* after the first save of any writer the own shard alone.
MergedViewsAgree ==
    \A s \in Owners, d \in Datasets :
        Reader(s) /\ OneHeir =>
            Rows(AllShards(s)[d]) = recorded[d] + Rows(owed[s][d])

\* The main file may be behind, but it never claims rows nobody recorded.
MainNeverOvercounts ==
    /\ CatalogTypeOK
    /\ losses = 0 /\ main # Absent /\ OneHeir =>
          \A d \in Datasets :
              Rows(main[d]) <= recorded[d] + (IF heirs = {} THEN Legacy ELSE 0)

\* A save that no other save overlaps makes the main file complete again.
MainRepaired ==
    [][\A s \in Owners : stage[s] = "replace" /\ stage'[s] = "idle" /\ alone[s]
          /\ deaths' = deaths /\ losses' = losses /\ OneHeir
          => \A d \in Datasets : Rows(main'[d]) = recorded[d]]_catalogVars

\* The account a merge of the shard files gives a dataset.
Placed(d) == LET e == Merge([w \in Owners |-> Stored(w)])[d]
             IN  IF e = Absent THEN Absent ELSE e.account

\* drive_store.py:333-334, "Placement must not flip-flop between shards: the
\* earliest recorded account wins": a save that no other one overlaps leaves
\* every dataset on the account it has.
AccountKept ==
    [][\A s \in Owners, d \in Datasets :
          stage[s] = "shard" /\ stage'[s] = "merge" /\ alone[s] /\ Placed(d) # Absent
          => Placed(d)' = Placed(d)]_catalogVars
=============================================================================
