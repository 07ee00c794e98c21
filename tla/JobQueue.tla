------------------------------ MODULE JobQueue ------------------------------
(***************************************************************************)
(* The Colab job queue of backend/job_queue.py: the jobs and workers       *)
(* tables of SQLite and the transactions on them.  Each action is one      *)
(* transaction.  Callers are arbitrary here: any worker id may heartbeat,  *)
(* claim or report at any moment; module ColabFleet says what the workers  *)
(* of notebooks/colab_worker.py really do.                                 *)
(*                                                                         *)
(* Time.  The code stores claimed_at and last_seen and compares them with  *)
(* time.time().  Only the elapsed time matters, so the model keeps the     *)
(* age of each stamp, which stops growing once it is past the largest      *)
(* threshold that is compared with it; the clock itself is unbounded.      *)
(***************************************************************************)
EXTENDS Naturals, FiniteSets

CONSTANTS Jobs,           \* job ids that may be submitted
          Workers,        \* worker ids
          None,           \* SQL NULL
          JobStale,       \* JOB_STALE_S, in ticks
          WorkerTimeout,  \* WORKER_TIMEOUT_S, in ticks
          MaxCredit       \* bound: jobs_done is counted up to here

ASSUME JobQueueAssumption ==
    /\ IsFiniteSet(Jobs)
    /\ None \notin Workers \union Nat
    /\ JobStale \in Nat \ {0}
    /\ WorkerTimeout \in Nat \ {0}
    /\ WorkerTimeout <= JobStale
    /\ MaxCredit \in Nat
    /\ Cardinality(Jobs) <= MaxCredit

VARIABLES status,   \* jobs.status, or "absent" before the row is inserted
          holder,   \* jobs.worker_id
          age,      \* time since jobs.claimed_at; 0 while it is NULL
          created,  \* jobs.created_at, as a submission number
          seen,     \* time since workers.last_seen, or None without a row
          credit    \* workers.jobs_done

queueVars == <<status, holder, age, created, seen, credit>>

Settled == {"done", "failed"}
Status  == {"absent", "pending", "running"} \union Settled

TypeOK ==
    /\ status \in [Jobs -> Status]
    /\ holder \in [Jobs -> Workers \union {None}]
    /\ age \in [Jobs -> 0 .. JobStale + 1]
    /\ created \in [Jobs -> Nat]
    /\ seen \in [Workers -> (0 .. WorkerTimeout) \union {None}]
    /\ credit \in [Workers -> 0 .. MaxCredit]

Init ==
    /\ status = [j \in Jobs |-> "absent"]
    /\ holder = [j \in Jobs |-> None]
    /\ age = [j \in Jobs |-> 0]
    /\ created = [j \in Jobs |-> 0]
    /\ seen = [w \in Workers |-> None]
    /\ credit = [w \in Workers |-> 0]

-----------------------------------------------------------------------------
(* Transactions *)

Submit(j) ==
    /\ status[j] = "absent"
    /\ status' = [status EXCEPT ![j] = "pending"]
    /\ created' = [created EXCEPT
           ![j] = 1 + Cardinality({k \in Jobs : status[k] # "absent"})]
    /\ UNCHANGED <<holder, age, seen, credit>>

\* Mutated forms of Stale: the cut-off is one tick early; the UPDATE lost its
\* status='running'; nothing is ever released.
StaleEarly   == {j \in Jobs : status[j] = "running" /\ age[j] >= JobStale}
StaleSettled == {j \in Jobs : holder[j] # None /\ age[j] > JobStale}
StaleNever   == {}

\* The rows _release_stale returns to the queue: staleness is the age of the
\* claim, whatever the worker that made it is doing.
Stale == {j \in Jobs : status[j] = "running" /\ age[j] > JobStale}

\* The rows the SELECT of claim_job ranges over, after the release.
Waiting == {j \in Jobs : status[j] = "pending"} \union Stale

Oldest(j) == j \in Waiting /\ \A k \in Waiting : created[j] <= created[k]

\* One transaction: release every stale row, then hand the oldest waiting one
\* to w.  When nothing waits there is nothing stale either and no row changes.
Claim(j, w) ==
    /\ Oldest(j)
    /\ status' = [k \in Jobs |-> IF k = j THEN "running"
                                 ELSE IF k \in Stale THEN "pending"
                                 ELSE status[k]]
    /\ holder' = [k \in Jobs |-> IF k = j THEN w
                                 ELSE IF k \in Stale THEN None
                                 ELSE holder[k]]
    /\ age' = [k \in Jobs |-> IF k = j \/ k \in Stale THEN 0 ELSE age[k]]
    /\ UNCHANGED <<created, seen, credit>>

\* Mutated form of Accepted: the UPDATE lost its worker_id = ?.
AcceptedAnyWorker(j, w) == status[j] # "absent"

\* UPDATE ... WHERE id = ? AND worker_id = ?: the row's status is not looked
\* at.  jobs_done is bumped only if the worker has a row.
Accepted(j, w) == holder[j] = w

Credited(w) == IF seen[w] # None /\ credit[w] < MaxCredit
               THEN credit[w] + 1 ELSE credit[w]

Report(j, w, ok) ==
    /\ Accepted(j, w)
    /\ status' = [status EXCEPT ![j] = IF ok THEN "done" ELSE "failed"]
    /\ credit' = [credit EXCEPT ![w] = IF ok THEN Credited(w) ELSE @]
    /\ UNCHANGED <<holder, age, created, seen>>

Heartbeat(w) ==
    /\ seen' = [seen EXCEPT ![w] = 0]
    /\ UNCHANGED <<status, holder, age, created, credit>>

\* The online column of list_workers.
Online(w) == seen[w] # None /\ seen[w] < WorkerTimeout

Tick ==
    /\ age' = [j \in Jobs |-> IF holder[j] # None /\ age[j] <= JobStale
                              THEN age[j] + 1 ELSE age[j]]
    /\ seen' = [w \in Workers |-> IF seen[w] # None /\ seen[w] < WorkerTimeout
                                  THEN seen[w] + 1 ELSE seen[w]]
    /\ UNCHANGED <<status, holder, created, credit>>

Next ==
    \/ \E j \in Jobs : Submit(j)
    \/ \E w \in Workers : Heartbeat(w)
    \/ \E j \in Jobs, w \in Workers : Claim(j, w)
    \/ \E j \in Jobs, w \in Workers, ok \in BOOLEAN : Report(j, w, ok)
    \/ Tick

Spec == Init /\ [][Next]_queueVars

-----------------------------------------------------------------------------
(* Properties *)

\* A row is assigned to a worker exactly when it is running or settled: a
\* released row forgets its worker (so the old worker's report is refused)
\* and a claimed one always has somebody who may report it.
HolderMatchesStatus ==
    \A j \in Jobs :
        holder[j] # None <=> status[j] \in {"running"} \union Settled

\* The queue is the job board of module JobBoard: the tables of workers and the
\* ages of rows do not show on it.
Board == INSTANCE JobBoard WITH status <- status, holder <- holder
ImplementsBoard == Board!BoardSpec

\* No transaction, from whatever caller, takes a settled job back into the
\* queue or moves it to another worker; the release of stale rows is the one
\* that could, since a settled row keeps its old claimed_at forever.
SettledStaysSettled ==
    [][\A j \in Jobs : status[j] \in Settled =>
          status'[j] \in Settled /\ holder'[j] = holder[j]]_queueVars

\* A job leaves a worker for another one only after the first worker's claim
\* has outlived JOB_STALE_S.
LeaseRespected ==
    [][\A j \in Jobs : holder[j] # None /\ holder'[j] # holder[j]
          => age[j] > JobStale]_queueVars
=============================================================================
