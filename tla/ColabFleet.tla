----------------------------- MODULE ColabFleet -----------------------------
(***************************************************************************)
(* The job queue together with the workers that call it: the polling loop  *)
(* of notebooks/colab_worker.py, the HTTP requests between them and the    *)
(* endpoints of backend/api_server.py that turn a request into             *)
(* transactions.                                                           *)
(*                                                                         *)
(* A worker has at most one request it is waiting for, but a request it    *)
(* gave up on (the timeout of requests.post) or whose session died stays   *)
(* in the server and may take effect later.  A request is answered at the  *)
(* moment of its last transaction; an answer that never arrives is the     *)
(* case where the worker gave up just before.                              *)
(***************************************************************************)
EXTENDS JobQueue

CONSTANTS Conns,      \* request slots: bounds the requests in the server
          Quick,      \* jobs whose run, and what the worker does until it has
                      \* another job, fit in JOB_STALE_S
          Unsendable, \* sql jobs whose rows do not encode as JSON
          MaxFaults   \* bound: timeouts and lost requests in a behaviour

ASSUME FleetAssumption ==
    /\ None \notin Conns /\ None \notin Jobs
    /\ Quick \subseteq Jobs /\ Unsendable \subseteq Jobs
    /\ MaxFaults \in Nat

VARIABLES pc,      \* where each worker session is in main()
          task,    \* the job it executes, reports, or could not report
          lease,   \* history: time since the claim that gave it task
          line,    \* the request it is waiting for, or None
          conn,    \* the requests in the server
          ran,     \* history: <<w, j>> when w has run j to an end
          faults   \* history: timeouts and lost requests so far

fleetVars == <<pc, task, lease, line, conn, ran, faults>>
vars == <<queueVars, fleetVars>>

Req(kind, w, j, ok) == [kind |-> kind, from |-> w, job |-> j, ok |-> ok]

Free == Req("free", None, None, FALSE)

Request == [kind : {"free", "claim", "claim2", "beat", "result"},
            from : Workers \union {None},
            job  : Jobs \union {None},
            ok   : BOOLEAN]

Loop == {"off", "poll", "claiming", "idle", "beating", "running",
         "reporting", "gone"}

FleetTypeOK ==
    /\ TypeOK
    /\ pc \in [Workers -> Loop]
    /\ task \in [Workers -> Jobs \union {None}]
    /\ lease \in [Workers -> 0 .. JobStale + 1]
    /\ line \in [Workers -> Conns \union {None}]
    /\ conn \in [Conns -> Request]
    /\ ran \subseteq Workers \X Jobs
    /\ faults \in 0 .. MaxFaults

FleetInit ==
    /\ Init
    /\ pc = [w \in Workers |-> "off"]
    /\ task = [w \in Workers |-> None]
    /\ lease = [w \in Workers |-> 0]
    /\ line = [w \in Workers |-> None]
    /\ conn = [c \in Conns |-> Free]
    /\ ran = {}
    /\ faults = 0

-----------------------------------------------------------------------------
(* The worker's loop *)

Start(w) ==
    /\ pc[w] = "off"
    /\ pc' = [pc EXCEPT ![w] = "poll"]
    /\ UNCHANGED <<queueVars, task, lease, line, conn, ran, faults>>

\* POST a request on a free slot and wait for its answer.
Send(w, c, request, waiting) ==
    /\ conn[c] = Free
    /\ conn' = [conn EXCEPT ![c] = request]
    /\ line' = [line EXCEPT ![w] = c]
    /\ pc' = [pc EXCEPT ![w] = waiting]

SendClaim(w) ==
    /\ pc[w] = "poll"
    /\ \E c \in Conns :
          Send(w, c, Req("claim", w, None, FALSE), "claiming")
    /\ UNCHANGED <<queueVars, task, lease, ran, faults>>

\* The claim came back empty: heartbeat before the next poll.
SendBeat(w) ==
    /\ pc[w] = "idle"
    /\ \E c \in Conns :
          Send(w, c, Req("beat", w, None, FALSE), "beating")
    /\ UNCHANGED <<queueVars, task, lease, ran, faults>>

\* requests can encode what a run came to: an error text always, the rows of a
\* query unless there is a Timestamp or a NaN among them.
Encodes(j, ok) == ok => j \notin Unsendable

\* The job's code returned or raised; its outcome is posted.
Finish(w) ==
    /\ pc[w] = "running"
    /\ \E c \in Conns, ok \in BOOLEAN :
          /\ Encodes(task[w], ok)
          /\ Send(w, c, Req("result", w, task[w], ok), "reporting")
    /\ ran' = ran \union {<<w, task[w]>>}
    /\ UNCHANGED <<queueVars, task, lease, faults>>

\* requests.post raises before anything is sent, and the worker polls again;
\* task and lease go on until it has an answer.
Unsent(w) ==
    /\ pc[w] = "running" /\ ~Encodes(task[w], TRUE)
    /\ pc' = [pc EXCEPT ![w] = "poll"]
    /\ ran' = ran \union {<<w, task[w]>>}
    /\ UNCHANGED <<queueVars, task, lease, line, conn, faults>>

\* Back to the top of the loop, or out of it, with no request of its own.
Leave(w, where) ==
    /\ pc' = [pc EXCEPT ![w] = where]
    /\ task' = [task EXCEPT ![w] = None]
    /\ lease' = [lease EXCEPT ![w] = 0]
    /\ line' = [line EXCEPT ![w] = None]

\* requests.post timed out: the worker forgets the request and polls again.
\* A result it was posting is not posted again.
GiveUp(w) ==
    /\ line[w] # None
    /\ faults < MaxFaults
    /\ faults' = faults + 1
    /\ Leave(w, "poll")
    /\ UNCHANGED <<queueVars, conn, ran>>

\* The tab is closed, the runtime is reclaimed or unassigned for idleness.
Die(w) ==
    /\ pc[w] \notin {"off", "gone"}
    /\ Leave(w, "gone")
    /\ UNCHANGED <<queueVars, conn, ran, faults>>

-----------------------------------------------------------------------------
(* The endpoints *)

HangUp(c) == conn' = [conn EXCEPT ![c] = Free]

\* What the worker waiting for slot c, if it still does, does next.
Answer(c, where) ==
    LET w == conn[c].from
    IN  IF line[w] = c THEN Leave(w, where)
                       ELSE UNCHANGED <<pc, task, lease, line>>

\* Mutated form of ClaimBeat: worker_claim goes straight to claim_job.
ClaimNoBeat(c) ==
    /\ conn[c].kind = "claim"
    /\ conn' = [conn EXCEPT ![c] = Req("claim2", conn[c].from, None, FALSE)]
    /\ UNCHANGED <<queueVars, pc, task, lease, line, ran, faults>>

\* First transaction of worker_claim.
ClaimBeat(c) ==
    /\ conn[c].kind = "claim"
    /\ Heartbeat(conn[c].from)
    /\ conn' = [conn EXCEPT ![c] = Req("claim2", conn[c].from, None, FALSE)]
    /\ UNCHANGED <<pc, task, lease, line, ran, faults>>

\* Second transaction: a job is found; if the worker is no longer waiting,
\* the row is running all the same.
ClaimJob(c) ==
    /\ conn[c].kind = "claim2"
    /\ \E j \in Jobs :
          LET w == conn[c].from
          IN  /\ Claim(j, w)
              /\ IF line[w] = c
                 THEN /\ pc' = [pc EXCEPT ![w] = "running"]
                      /\ task' = [task EXCEPT ![w] = j]
                      /\ lease' = [lease EXCEPT ![w] = 0]
                      /\ line' = [line EXCEPT ![w] = None]
                 ELSE UNCHANGED <<pc, task, lease, line>>
    /\ HangUp(c)
    /\ UNCHANGED <<ran, faults>>

ClaimNothing(c) ==
    /\ conn[c].kind = "claim2"
    /\ Waiting = {}
    /\ Answer(c, "idle")
    /\ HangUp(c)
    /\ UNCHANGED <<queueVars, ran, faults>>

Beat(c) ==
    /\ conn[c].kind = "beat"
    /\ Heartbeat(conn[c].from)
    /\ Answer(c, "poll")
    /\ HangUp(c)
    /\ UNCHANGED <<ran, faults>>

\* 200 or 409: the worker looks at neither.
Result(c) ==
    LET m == conn[c]
    IN  /\ m.kind = "result"
        /\ \/ Report(m.job, m.from, m.ok)
           \/ ~Accepted(m.job, m.from) /\ UNCHANGED queueVars
        /\ Answer(c, "poll")
        /\ HangUp(c)
        /\ UNCHANGED <<ran, faults>>

\* The request is lost on the way, or a transaction of it raises (SQLite
\* locked for longer than 10 s).
Lose(c) ==
    /\ conn[c] # Free
    /\ faults < MaxFaults
    /\ faults' = faults + 1
    /\ Answer(c, "poll")
    /\ HangUp(c)
    /\ UNCHANGED <<queueVars, ran>>

Post(j) == Submit(j) /\ UNCHANGED fleetVars

\* A quick job's run and report are over before its row goes stale, and so is
\* the next poll of a worker that could not report one, unless the session
\* dies or a fault hits them.
Overdue ==
    \E w \in Workers :
        /\ task[w] \in Quick
        /\ lease[w] = JobStale

FleetTick ==
    /\ ~Overdue
    /\ Tick
    /\ lease' = [w \in Workers |->
                    IF task[w] # None /\ lease[w] <= JobStale
                    THEN lease[w] + 1 ELSE lease[w]]
    /\ UNCHANGED <<pc, task, line, conn, ran, faults>>

Serve(c) ==
    ClaimBeat(c) \/ ClaimJob(c) \/ ClaimNothing(c) \/ Beat(c) \/ Result(c)

Work(w) == SendClaim(w) \/ SendBeat(w) \/ Finish(w) \/ Unsent(w)

FleetNext ==
    \/ \E j \in Jobs : Post(j)
    \/ \E w \in Workers : Start(w) \/ Work(w) \/ GiveUp(w) \/ Die(w)
    \/ \E c \in Conns : Serve(c) \/ Lose(c)
    \/ FleetTick

FleetSpec == FleetInit /\ [][FleetNext]_vars

\* The server answers what it receives, the loop of a live session goes on
\* and time passes.  Nothing makes a session start, and nothing keeps it alive.
Fairness ==
    /\ \A w \in Workers : WF_vars(Work(w))
    /\ \A c \in Conns : WF_vars(Serve(c))
    /\ WF_vars(FleetTick)

FairFleetSpec == FleetSpec /\ Fairness

-----------------------------------------------------------------------------
(* Properties *)

\* As long as the claim that gave a worker its job is no older than
\* JOB_STALE_S, the row is still that worker's: its report will be accepted
\* (no 409) whatever other sessions, late answers and abandoned requests do.
FreshLeaseHolds ==
    \A w \in Workers : task[w] # None /\ lease[w] <= JobStale
        => holder[task[w]] = w

\* Two sessions work on one job only if the claim of one of them is stale:
\* the promise of claim_job ("rather than running the job twice").
FreshLeaseExclusive ==
    \A v, w \in Workers :
        v # w /\ task[v] = task[w] /\ task[w] # None
          => lease[v] > JobStale \/ lease[w] > JobStale

\* A settled row names a session that did run the job to its end, although
\* reports are accepted late, twice, and without a look at the row's status.
SettledJobWasRun ==
    \A j \in Jobs : status[j] \in Settled => <<holder[j], j>> \in ran

\* jobs_done of a worker is at least the number of done rows that name it:
\* the counter is bumped in another table, which must have a row by then.
CreditCoversDone ==
    /\ FleetTypeOK
    /\ \A w \in Workers :
          Cardinality({j \in Jobs : status[j] = "done" /\ holder[j] = w})
            <= credit[w]

\* Jobs that may come back to the queue for ever, each time ahead of those
\* submitted later: created_at does not move.
Circling == (Jobs \ Quick) \union Unsendable

Ahead(j) == {k \in Circling : /\ status[k] \in {"pending", "running"}
                              /\ created[k] < created[j]}

\* A submitted job that is quick, and whose result can be sent, is settled in
\* the end, through lost requests, abandoned claims, dying sessions and a job
\* ahead of it that is run for ever because its result cannot be sent; unless
\* no session is left.  Behind a long job, or two that circle, it may starve:
\* those can be stale again, and first again, at every poll.
QuickJobsSettle ==
    \A j \in Quick \ Unsendable :
        status[j] = "pending" /\ Ahead(j) \subseteq Quick /\ Cardinality(Ahead(j)) <= 1 ~>
            \/ status[j] \in Settled
            \/ \A w \in Workers : pc[w] \in {"off", "gone"}
=============================================================================
