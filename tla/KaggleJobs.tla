----------------------------- MODULE KaggleJobs -----------------------------
(***************************************************************************)
(* The job list of backend/kaggle_dispatch.py, one JSON file that requests *)
(* of the admin API read, change and write as a whole: dispatch appends    *)
(* the kernel it has pushed, refresh_jobs polls Kaggle for every entry     *)
(* that is not done and writes back what it had read before.  Saves go     *)
(* through one temporary name.                                             *)
(*                                                                         *)
(* Kaggle is asked by reference: two pushes under one slug are versions of *)
(* one kernel, and the status is the newest one's.                         *)
(***************************************************************************)
EXTENDS Naturals, Sequences, FiniteSets, SequencesExt

CONSTANTS Jobs,        \* pushes, 1 .. n in the order they are made
          RefOf,       \* the kernel reference of each push
          Threads,     \* of the API's pool
          Keep,        \* jobs[-200:]
          NoFile, Torn,
          MaxRefreshes, MaxRestarts  \* bounds

States == {"queued", "running", "complete"}

\* The file holds a list of jobs, or is none of that.
KaggleAssumption ==
    /\ Jobs \subseteq Nat /\ DOMAIN RefOf = Jobs
    /\ Keep \in Nat \ {0} /\ {MaxRefreshes, MaxRestarts} \subseteq Nat
    /\ {NoFile, Torn} \intersect (Nat \union Seq([job : Jobs, status : States])) = {}

VARIABLES kernels,    \* state of each push at Kaggle, "none" before it
          newest,     \* of each reference, the push status answers for
          jobsFile,   \* the file: a list, Torn or NoFile
          jobsPart,   \* JOBS_FILE + ".part"
          at, list,   \* where a request is and the list it has in hand
          entry,      \* refresh_jobs: the entry it polls
          mine,       \* dispatch: the job it is about to append
          handle,     \* the name, now, of the file it has open
          refreshes, restarts,
          crossed,    \* history: two requests had lists in hand at the same time
          orphans     \* history: pushed when the API went down before the save

jobsVars == <<kernels, newest, jobsFile, jobsPart, at, list, entry, mine, handle,
              refreshes, restarts, crossed, orphans>>

DoneStates == {"complete"}
Pushed == {j \in Jobs : kernels[j] # "none"}
Refs == {RefOf[j] : j \in Jobs}
Text(f) == IF f \in {NoFile, Torn} THEN <<>> ELSE f

JobsTypeOK ==
    /\ kernels \in [Jobs -> States \union {"none"}]
    /\ newest \in [Refs -> Jobs \union {NoFile}]
    /\ at \in [Threads -> {"idle", "load", "poll", "open", "write", "rename"}]
    /\ \A t \in Threads : \A i \in DOMAIN list[t] :
          list[t][i] \in [job : Jobs, status : States]
    /\ Len(Text(jobsFile)) <= Keep
    /\ refreshes \in 0 .. MaxRefreshes /\ restarts \in 0 .. MaxRestarts
    /\ orphans \subseteq Jobs

JobsInit ==
    /\ kernels = [j \in Jobs |-> "none"] /\ newest = [r \in Refs |-> NoFile]
    /\ jobsFile = NoFile /\ jobsPart = NoFile
    /\ at = [t \in Threads |-> "idle"] /\ list = [t \in Threads |-> <<>>]
    /\ entry = [t \in Threads |-> 1] /\ mine = [t \in Threads |-> NoFile]
    /\ handle = [t \in Threads |-> "none"]
    /\ refreshes = 0 /\ restarts = 0 /\ crossed = FALSE /\ orphans = {}

-----------------------------------------------------------------------------

kaggleSide == <<kernels, newest>>
history == <<refreshes, restarts, orphans>>

Goto(t, s) == at' = [at EXCEPT ![t] = s]

\* Kaggle runs what it has; the states a kernel can end in are one here.
Progress(j) ==
    /\ \/ kernels[j] = "queued" /\ kernels' = [kernels EXCEPT ![j] = "running"]
       \/ kernels[j] = "running" /\ kernels' = [kernels EXCEPT ![j] = "complete"]
    /\ UNCHANGED <<newest, jobsFile, jobsPart, at, list, entry, mine, handle, crossed,
                   history>>

\* dispatch: kernels push succeeds; a push that fails raises and changes nothing.
Push(t, j) ==
    /\ at[t] = "idle" /\ kernels[j] = "none" /\ 1 .. j - 1 \subseteq Pushed
    /\ kernels' = [kernels EXCEPT ![j] = "queued"]
    /\ newest' = [newest EXCEPT ![RefOf[j]] = j]
    /\ mine' = [mine EXCEPT ![t] = j] /\ Goto(t, "load")
    /\ UNCHANGED <<jobsFile, jobsPart, list, entry, handle, crossed, history>>

Loaded(t) ==
    crossed' = (crossed \/ \E o \in Threads \ {t} : at[o] \in {"poll", "open", "write", "rename"})

\* Mutated form of Append: the list is begun anew.
AppendAlone(t) ==
    /\ at[t] = "load" /\ Goto(t, "open") /\ Loaded(t)
    /\ list' = [list EXCEPT ![t] = <<[job |-> mine[t], status |-> "queued"]>>]
    /\ UNCHANGED <<kaggleSide, jobsFile, jobsPart, entry, mine, handle, history>>

AppendJob(t) ==
    /\ at[t] = "load" /\ Goto(t, "open") /\ Loaded(t)
    /\ list' = [list EXCEPT ![t] =
                  Append(Text(jobsFile), [job |-> mine[t], status |-> "queued"])]
    /\ UNCHANGED <<kaggleSide, jobsFile, jobsPart, entry, mine, handle, history>>

Refresh(t) ==
    /\ at[t] = "idle" /\ refreshes < MaxRefreshes /\ refreshes' = refreshes + 1
    /\ Goto(t, "poll") /\ Loaded(t)
    /\ list' = [list EXCEPT ![t] = Text(jobsFile)] /\ entry' = [entry EXCEPT ![t] = 1]
    /\ UNCHANGED <<kaggleSide, jobsFile, jobsPart, mine, handle, restarts, orphans>>

\* One call of the CLI per entry that is not done; it may fail.
Poll(t) ==
    /\ at[t] = "poll" /\ entry[t] <= Len(list[t])
    /\ LET e == list[t][entry[t]]
           now == kernels[newest[RefOf[e.job]]]
       IN  list' = IF e.status \in DoneStates THEN list
                   ELSE [list EXCEPT ![t][entry[t]].status = now]
    /\ entry' = [entry EXCEPT ![t] = @ + 1]
    /\ UNCHANGED <<kaggleSide, jobsFile, jobsPart, at, mine, handle, crossed, history>>

PollFails(t) ==
    /\ at[t] = "poll" /\ entry[t] <= Len(list[t])
    /\ list[t][entry[t]].status \notin DoneStates
    /\ entry' = [entry EXCEPT ![t] = @ + 1]
    /\ UNCHANGED <<kaggleSide, jobsFile, jobsPart, at, list, mine, handle, crossed,
                   history>>

\* Saved if anything changed; the code keeps a flag, here the list is compared
\* with the file unless that was written meanwhile.
Polled(t) ==
    /\ at[t] = "poll" /\ entry[t] > Len(list[t])
    /\ IF list[t] # Text(jobsFile) THEN Goto(t, "open") ELSE Goto(t, "idle")
    /\ UNCHANGED <<kaggleSide, jobsFile, jobsPart, list, entry, mine, handle, crossed,
                   history>>

\* _save_jobs in three steps: the temporary file is truncated, written, renamed.
Open(t) ==
    /\ at[t] = "open" /\ Goto(t, "write")
    /\ jobsPart' = Torn /\ handle' = [handle EXCEPT ![t] = "part"]
    /\ UNCHANGED <<kaggleSide, jobsFile, list, entry, mine, crossed, history>>

Newest200(s) == SubSeq(s, IF Len(s) > Keep THEN Len(s) - Keep + 1 ELSE 1, Len(s))

\* Two writers of one file leave the text of one of them or a mixture.
Outcomes(t) ==
    {Newest200(list[t])} \union
    IF \E o \in Threads \ {t} : handle[o] = handle[t] THEN {Torn} ELSE {}

Write(t) ==
    /\ at[t] = "write" /\ Goto(t, "rename")
    /\ \E text \in Outcomes(t) :
         /\ jobsPart' = IF handle[t] = "part" THEN text ELSE jobsPart
         /\ jobsFile' = IF handle[t] = "file" THEN text ELSE jobsFile
    /\ handle' = [handle EXCEPT ![t] = "none"]
    /\ UNCHANGED <<kaggleSide, list, entry, mine, crossed, history>>

\* os.replace; another save may have taken the temporary file away, and then
\* the request fails.
Rename(t) ==
    /\ at[t] = "rename" /\ Goto(t, "idle")
    /\ IF jobsPart = NoFile THEN UNCHANGED <<jobsFile, jobsPart, handle>>
       ELSE /\ jobsFile' = jobsPart /\ jobsPart' = NoFile
            /\ handle' = [o \in Threads |-> CASE handle[o] = "part" -> "file"
                                              [] handle[o] = "file" -> "none"
                                              [] OTHER -> handle[o]]
    /\ list' = [list EXCEPT ![t] = <<>>] /\ mine' = [mine EXCEPT ![t] = NoFile]
    /\ UNCHANGED <<kaggleSide, entry, crossed, history>>

\* The API process ends and is started again.
Restart ==
    /\ restarts < MaxRestarts /\ restarts' = restarts + 1
    /\ orphans' = orphans \union {mine[t] : t \in {t \in Threads : mine[t] # NoFile}}
    /\ at' = [t \in Threads |-> "idle"] /\ list' = [t \in Threads |-> <<>>]
    /\ entry' = [t \in Threads |-> 1] /\ mine' = [t \in Threads |-> NoFile]
    /\ handle' = [t \in Threads |-> "none"]
    /\ UNCHANGED <<kaggleSide, jobsFile, jobsPart, refreshes, crossed>>

JobsNext ==
    \/ \E j \in Jobs : Progress(j)
    \/ \E t \in Threads, j \in Jobs : Push(t, j)
    \/ \E t \in Threads : \/ AppendJob(t) \/ Refresh(t) \/ Poll(t) \/ PollFails(t)
                          \/ Polled(t) \/ Open(t) \/ Write(t) \/ Rename(t)
    \/ Restart

-----------------------------------------------------------------------------
(* Properties *)

Entries == Range(Text(jobsFile))

\* A pushed kernel is never forgotten: it is in the file, or its request is
\* still at work, or the API went down in between, or Keep others are on
\* record.  Not so after two requests have had lists in hand at the same time:
\* each writes back what it read.
PushesKept ==
    \A j \in Pushed : ~crossed =>
        \/ j \in {e.job : e \in Entries} \/ j \in {mine[t] : t \in Threads}
        \/ j \in orphans \/ Len(Text(jobsFile)) = Keep

\* What is on record as done is done, or a later push under the same slug is:
\* the status is that of the reference, not of the version.
DoneIsDone ==
    \A e \in Entries : e.status \in DoneStates =>
        \E j \in Jobs : RefOf[j] = RefOf[e.job] /\ kernels[j] = e.status

JobsTracked == JobsTypeOK /\ PushesKept /\ DoneIsDone
=============================================================================
