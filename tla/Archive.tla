------------------------------ MODULE Archive ------------------------------
(***************************************************************************)
(* chain_archive of orchestration/definitions.py: one day of a table is    *)
(* converted to a local file, shipped with drive_rest.upload and recorded  *)
(* in the catalog.  Dagster runs it again when it raises, up to            *)
(* max_retries times, and an operator launches what a killed run left.  A  *)
(* backfill puts several days in one run, whose attempts all raise at once.*)
(* Every attempt is a process of its own, with a catalog shard of its own. *)
(*                                                                         *)
(* One attempt runs at a time: what concurrent ones do to each other is    *)
(* what their catalog saves do, a save that raises after the shard is      *)
(* written (Catalog.tla).  Days that ran together would differ in nothing  *)
(* else.                                                                   *)
(***************************************************************************)
EXTENDS DriveUpload, Scheduler

CONSTANTS Days,
          Accounts,    \* the connected accounts, in the order of the file
          None,
          MaxRetries,  \* RetryPolicy(max_retries)
          MaxPerRun,   \* BackfillPolicy.multi_run(max_partitions_per_run)
          MaxKills,    \* bound
          Available    \* sessions of each platform

ASSUME ArchiveAssumption ==
    /\ Accounts \in Seq(STRING) /\ IsInjective(Accounts)
    /\ Available \in [Range(Platforms) -> Nat]
    /\ MaxRetries \in Nat /\ MaxKills \in Nat /\ MaxPerRun \in Nat

VARIABLES pc,        \* step of the running attempt, "idle" between attempts
          day,
          account,
          runOf,     \* the days of the run that each day is in
          tries,     \* attempts of the run of each day
          connected, \* is_connected, as get_all_quotas finds it
          full,      \* accounts with no room left
          local,     \* days whose local file exists
          counted,   \* how often a day's rows are in the catalog's shards
          onDrive,   \* complete files of a day on Drive
          finished,  \* days whose run has succeeded
          wasted,    \* history: attempts of a day that ended after its file was made
          late,      \* history: attempts that ended after the shard was written
          kills

archiveVars == <<pc, day, account, runOf, tries, connected, full, local, counted,
                 onDrive, finished, wasted, late, kills>>
vars == <<archiveVars, uploadVars>>

\* How a backfill can put the days into runs.
Groupings ==
    {f \in [Days -> SUBSET Days] :
        \A d \in Days : /\ d \in f[d] /\ Cardinality(f[d]) <= MaxPerRun
                        /\ \A e \in f[d] : f[e] = f[d]}

TypeOK ==
    /\ UploadTypeOK
    /\ runOf \in [Days -> SUBSET Days]
    /\ pc \in {"idle", "convert", "plan", "folder", "upload", "record", "main"}
    /\ day \in Days \union {None} /\ account \in Range(Accounts) \union {None}
    /\ tries \in [Days -> 0 .. MaxRetries + 1]
    /\ connected \subseteq Range(Accounts) /\ full \subseteq Range(Accounts)
    /\ local \subseteq Days /\ finished \subseteq Days
    /\ {counted, onDrive, wasted, late} \subseteq [Days -> Nat]
    /\ kills \in 0 .. MaxKills

Init ==
    /\ UploadInit
    /\ pc = "idle" /\ day = None /\ account = None
    /\ runOf \in Groupings /\ tries = [d \in Days |-> 0]
    /\ connected = Range(Accounts) /\ full \in SUBSET Range(Accounts)
    /\ local = {} /\ finished = {}
    /\ counted = [d \in Days |-> 0] /\ onDrive = [d \in Days |-> 0]
    /\ wasted = [d \in Days |-> 0] /\ late = [d \in Days |-> 0]
    /\ kills = 0

-----------------------------------------------------------------------------

Bump(f, d) == [f EXCEPT ![d] = @ + 1]

\* Mutated form of Launch: one attempt fewer.
LaunchOnceLess(d) ==
    /\ pc = "idle" /\ runOf[d] = {d} /\ d \notin finished /\ tries[d] < MaxRetries
    /\ tries' = Bump(tries, d)
    /\ pc' = "convert" /\ day' = d /\ account' = None
    /\ UNCHANGED <<runOf, connected, full, local, counted, onDrive, finished, wasted,
                   late, kills, uploadVars>>

\* Dagster starts the first attempt of a day that is a run of its own, or the
\* next one.
Launch(d) ==
    /\ pc = "idle" /\ runOf[d] = {d} /\ d \notin finished /\ tries[d] <= MaxRetries
    /\ tries' = Bump(tries, d)
    /\ pc' = "convert" /\ day' = d /\ account' = None
    /\ UNCHANGED <<runOf, connected, full, local, counted, onDrive, finished, wasted,
                   late, kills, uploadVars>>

\* An attempt of a run of several days: context.partition_key raises, before
\* anything is converted.
LaunchBatch(d) ==
    /\ pc = "idle" /\ runOf[d] # {d} /\ tries[d] <= MaxRetries
    /\ tries' = [e \in Days |-> IF e \in runOf[d] THEN tries[d] + 1 ELSE tries[e]]
    /\ UNCHANGED <<pc, day, account, runOf, connected, full, local, counted, onDrive,
                   finished, wasted, late, kills, uploadVars>>

\* An operator may launch the days of a run that has failed one by one.
Split(d) ==
    /\ pc = "idle" /\ runOf[d] # {d} /\ tries[d] > MaxRetries
    /\ runOf' = [e \in Days |-> IF e \in runOf[d] THEN {e} ELSE runOf[e]]
    /\ tries' = [e \in Days |-> IF e \in runOf[d] THEN 0 ELSE tries[e]]
    /\ UNCHANGED <<pc, day, account, connected, full, local, counted, onDrive,
                   finished, wasted, late, kills, uploadVars>>

\* The upload session is forgotten; what it has made stays.
Forget == /\ phase' = "idle"
          /\ size' = 0 /\ offset' = 0 /\ attempts' = 0 /\ net' = 0
          /\ committed' = 0 /\ created' = FALSE

\* The attempt is over: its process and its upload session are gone.  A file
\* that Drive has made and nobody will ever record is wasted.
Over ==
    /\ pc' = "idle" /\ day' = None /\ account' = None
    /\ Forget
    /\ wasted' = IF created /\ pc # "main" THEN Bump(wasted, day) ELSE wasted
    /\ late' = IF pc = "main" THEN Bump(late, day) ELSE late

\* COPY, the row count, and the empty day that is refused; or the source fails.
Convert ==
    /\ pc = "convert" /\ pc' = "plan"
    /\ local' = local \union {day}
    /\ UNCHANGED <<day, account, runOf, tries, connected, full, counted, onDrive,
                   finished, wasted, late, kills, uploadVars>>

\* plan.slots[0]: nothing tells the planner what was uploaded today, so it is
\* the first account that is connected, whether it has room or not.
Chosen ==
    LET plan == Slots(1, Select(Accounts, connected),
                      [a \in Range(Accounts) |-> 0], Available, 0)
    IN  IF plan = <<>> THEN None ELSE plan[1].account

\* get_all_quotas (which marks an account whose token was revoked), plan_job
\* and access_token_for.
Plan ==
    /\ pc = "plan" /\ Chosen # None
    /\ account' = Chosen /\ pc' = "folder"
    /\ UNCHANGED <<day, runOf, tries, connected, full, local, counted, onDrive, finished,
                   wasted, late, kills, uploadVars>>

Revoke(a) ==
    /\ pc = "plan" /\ a \in connected /\ Faulty
    /\ connected' = connected \ {a}
    /\ UNCHANGED <<pc, day, account, runOf, tries, full, local, counted, onDrive, finished,
                   wasted, late, kills, phase, size, offset, attempts, net, server>>

\* ensure_path, then upload opens its session; Drive refuses one for an account
\* that is full.
Folder ==
    /\ pc = "folder" /\ pc' = "upload" /\ phase' = "open"
    /\ UNCHANGED <<day, account, runOf, tries, connected, full, local, counted, onDrive,
                   finished, wasted, late, kills, size, offset, attempts, net,
                   server, faults>>

Upload ==
    /\ pc = "upload"
    /\ phase = "open" => account \notin full
    /\ UploadStep
    /\ onDrive' = IF created' /\ ~created THEN Bump(onDrive, day) ELSE onDrive
    /\ UNCHANGED <<pc, day, account, runOf, tries, connected, full, local, counted,
                   finished, wasted, late, kills>>

\* os.remove(local), after upload has returned.
CleanUp ==
    /\ pc = "upload" /\ phase = "ok" /\ pc' = "record"
    /\ local' = local \ {day}
    /\ UNCHANGED <<day, account, runOf, tries, connected, full, counted, onDrive, finished,
                   wasted, late, kills, uploadVars>>

\* Mutated form of Record: the new shard starts from the merged catalog.
RecordMerged ==
    /\ pc = "record" /\ pc' = "main"
    /\ counted' = [counted EXCEPT ![day] = 2 * @ + 1]
    /\ UNCHANGED <<day, account, runOf, tries, connected, full, local, onDrive, finished,
                   wasted, late, kills, uploadVars>>

\* upsert: the shard of this process gets the day's rows, on top of those of
\* the shards of earlier attempts.
Record ==
    /\ pc = "record" /\ pc' = "main"
    /\ counted' = Bump(counted, day)
    /\ UNCHANGED <<day, account, runOf, tries, connected, full, local, onDrive, finished,
                   wasted, late, kills, uploadVars>>

\* The main file is written too, and the run succeeds.
Succeed ==
    /\ pc = "main" /\ pc' = "idle"
    /\ finished' = finished \union {day}
    /\ day' = None /\ account' = None /\ Forget
    /\ UNCHANGED <<runOf, tries, connected, full, local, counted, onDrive, wasted, late,
                   kills, faults>>

MustFail == \/ pc = "plan" /\ Chosen = None
            \/ pc = "upload" /\ (phase = "raised" \/ (phase = "open" /\ account \in full))

\* An exception leaves the asset: certainly, or as one more fault.
Raise ==
    /\ pc # "idle"
    /\ IF MustFail THEN UNCHANGED faults ELSE pc # "upload" /\ Faulty
    /\ Over
    /\ UNCHANGED <<runOf, tries, connected, full, local, counted, onDrive, finished, kills>>

\* The process is killed; an operator launches the day anew.
Kill ==
    /\ pc # "idle" /\ kills < MaxKills /\ kills' = kills + 1
    /\ tries' = [tries EXCEPT ![day] = 0]
    /\ Over
    /\ UNCHANGED <<runOf, connected, full, local, counted, onDrive, finished, faults>>

Next == \/ \E d \in Days : Launch(d) \/ LaunchBatch(d) \/ Split(d)
        \/ Convert \/ Plan \/ Folder \/ Upload \/ CleanUp \/ Record \/ Succeed
        \/ Raise \/ Kill
        \/ \E a \in Range(Accounts) : Revoke(a)

\* Dagster launches what is left, and an attempt goes on.
Fairness == /\ \A d \in Days : WF_vars(Launch(d)) /\ WF_vars(LaunchBatch(d))
            /\ WF_vars(Convert \/ Plan \/ Folder \/ Upload \/ CleanUp \/ Record
                       \/ Succeed \/ (MustFail /\ Raise))

Spec == Init /\ [][Next]_vars /\ Fairness

-----------------------------------------------------------------------------
(* Properties *)

\* A day in the catalog has its whole file on Drive; and the client follows the
\* server's count while it sends.
RecordedIsThere ==
    /\ NeverAhead
    /\ \A d \in Days : counted[d] + wasted[d] <= onDrive[d]

\* The rows of a day are counted once, and once more for each attempt that
\* ended after the shard was written; its files on Drive exceed that by the
\* attempts that ended after the file was made.
DaysCounted ==
    \A d \in Days :
        /\ counted[d] <= 1 + late[d]
        /\ d \in finished => counted[d] = 1 + late[d]
        /\ onDrive[d] <= 1 + late[d] + wasted[d]

CountedOnce == TypeOK /\ DaysCounted

\* A day that is a run of its own is archived in the end, as long as the faults
\* do not use up its retries and the account plan_job comes to first has room;
\* another account with room does not help, and a run of several days never
\* archives any.
DaysArchived ==
    <>[](\A d \in Days :
            \/ d \in finished
            \/ runOf[d] # {d}
            \/ Chosen \in full \union {None}
            \/ tries[d] > MaxRetries /\ (faults > MaxRetries \/ full # {}))
=============================================================================
