-------------------------- MODULE ColabFleetProofs --------------------------
(***************************************************************************)
(* What holds of the job queue for every set of jobs and workers and every *)
(* pair of timeouts: under any caller first, then under its real ones, for *)
(* every number of sessions, requests in flight and faults.                *)
(***************************************************************************)
EXTENDS ColabFleet, FiniteSetTheorems, TLAPS

USE JobQueueAssumption, FleetAssumption

-----------------------------------------------------------------------------
(* The queue, whoever calls it *)

\* The rows already submitted can be counted.
LEMMA SubmittedCount ==
    Cardinality({k \in Jobs : status[k] # "absent"}) \in Nat
<1> DEFINE Rows == {k \in Jobs : status[k] # "absent"}
<1>1. Rows \subseteq Jobs
  OBVIOUS
<1>2. IsFiniteSet(Rows)
  BY <1>1, FS_Subset
<1>. QED
  BY <1>2, FS_CardinalityType

\* The state HolderMatchesStatus needs to be inductive.
IInv == TypeOK /\ HolderMatchesStatus

LEMMA InitIInv == Init => IInv
BY DEF Init, IInv, TypeOK, HolderMatchesStatus, Status, Settled

\* Every transaction and every tick preserves the types.
LEMMA TypeStep == TypeOK /\ [Next]_queueVars => TypeOK'
<1> SUFFICES ASSUME TypeOK, [Next]_queueVars
             PROVE  TypeOK'
  OBVIOUS
<1> USE DEF TypeOK, Status, Settled
<1>1. ASSUME NEW j \in Jobs, Submit(j)
      PROVE  TypeOK'
  <2>1. 1 + Cardinality({k \in Jobs : status[k] # "absent"}) \in Nat
    BY SubmittedCount
  <2>. QED
    BY <1>1, <2>1 DEF Submit
<1>2. ASSUME NEW w \in Workers, Heartbeat(w)
      PROVE  TypeOK'
  BY <1>2 DEF Heartbeat
<1>3. ASSUME NEW j \in Jobs, NEW w \in Workers, Claim(j, w)
      PROVE  TypeOK'
  BY <1>3 DEF Claim
<1>4. ASSUME NEW j \in Jobs, NEW w \in Workers, NEW ok \in BOOLEAN,
             Report(j, w, ok)
      PROVE  TypeOK'
  <2>1. Credited(w) \in 0 .. MaxCredit
    BY DEF Credited
  <2>. QED
    BY <1>4, <2>1 DEF Report
<1>5. CASE Tick
  <2>1. age' \in [Jobs -> 0 .. JobStale + 1]
    BY <1>5 DEF Tick
  <2>2. \A w \in Workers : seen[w] # None => seen[w] \in 0 .. WorkerTimeout
    OBVIOUS
  <2>3. seen' \in [Workers -> (0 .. WorkerTimeout) \union {None}]
    BY <1>5, <2>2 DEF Tick
  <2>. QED
    BY <1>5, <2>1, <2>3 DEF Tick
<1>6. CASE UNCHANGED queueVars
  BY <1>6 DEF queueVars
<1>. QED
  BY <1>1, <1>2, <1>3, <1>4, <1>5, <1>6 DEF Next

\* Every transaction and every tick preserves the invariant.
LEMMA IInvStep == IInv /\ [Next]_queueVars => IInv'
<1> SUFFICES ASSUME IInv, [Next]_queueVars
             PROVE  HolderMatchesStatus'
  BY TypeStep DEF IInv
<1> USE DEF IInv, TypeOK, HolderMatchesStatus, Settled
<1>1. ASSUME NEW j \in Jobs, Submit(j)
      PROVE  HolderMatchesStatus'
  BY <1>1 DEF Submit
<1>2. ASSUME NEW w \in Workers, Heartbeat(w)
      PROVE  HolderMatchesStatus'
  BY <1>2 DEF Heartbeat
<1>3. ASSUME NEW j \in Jobs, NEW w \in Workers, Claim(j, w)
      PROVE  HolderMatchesStatus'
  <2>1. w # None
    OBVIOUS
  <2>2. ASSUME NEW k \in Jobs
        PROVE  holder'[k] # None <=> status'[k] \in {"running"} \union Settled
    <3>1. CASE k = j
      BY <1>3, <2>1, <3>1 DEF Claim
    <3>2. CASE k # j /\ k \in Stale
      BY <1>3, <3>2 DEF Claim
    <3>3. CASE k # j /\ k \notin Stale
      BY <1>3, <3>3 DEF Claim
    <3>. QED
      BY <3>1, <3>2, <3>3
  <2>. QED
    BY <2>2
<1>4. ASSUME NEW j \in Jobs, NEW w \in Workers, NEW ok \in BOOLEAN,
             Report(j, w, ok)
      PROVE  HolderMatchesStatus'
  BY <1>4 DEF Report, Accepted
<1>5. CASE Tick
  BY <1>5 DEF Tick
<1>6. CASE UNCHANGED queueVars
  BY <1>6 DEF queueVars
<1>. QED
  BY <1>1, <1>2, <1>3, <1>4, <1>5, <1>6 DEF Next

\* Type correctness of the two tables (job_queue.py:43-69).
THEOREM TypeCorrect == Spec => []TypeOK
<1>1. Init => TypeOK
  BY InitIInv DEF IInv
<1>. QED
  BY <1>1, TypeStep, PTL DEF Spec

\* A row has a worker exactly when it is running or settled, whatever the
\* callers of claim_job and report_result do.
THEOREM HolderCorrect == Spec => []HolderMatchesStatus
<1>1. IInv => HolderMatchesStatus
  BY DEF IInv
<1>. QED
  BY <1>1, InitIInv, IInvStep, PTL DEF Spec

-----------------------------------------------------------------------------

\* No step takes a settled row back or moves it to another worker: it can
\* neither be claimed, since it does not wait, nor be released as stale.
LEMMA SettledStep ==
    ASSUME TypeOK, [Next]_queueVars, NEW j \in Jobs, status[j] \in Settled
    PROVE  status'[j] \in Settled /\ holder'[j] = holder[j]
<1> USE DEF TypeOK, Settled
<1>1. j \notin Waiting /\ j \notin Stale
  BY DEF Waiting, Stale
<1>2. ASSUME NEW k \in Jobs, NEW w \in Workers, Claim(k, w)
      PROVE  status'[j] \in Settled /\ holder'[j] = holder[j]
  <2>1. k # j
    BY <1>1, <1>2 DEF Claim, Oldest
  <2>. QED
    BY <1>1, <1>2, <2>1 DEF Claim
<1>3. ASSUME NEW k \in Jobs, Submit(k)
      PROVE  status'[j] \in Settled /\ holder'[j] = holder[j]
  BY <1>3 DEF Submit
<1>4. ASSUME NEW k \in Jobs, NEW w \in Workers, NEW ok \in BOOLEAN,
             Report(k, w, ok)
      PROVE  status'[j] \in Settled /\ holder'[j] = holder[j]
  BY <1>4 DEF Report
<1>. QED
  BY <1>2, <1>3, <1>4 DEF Next, Tick, Heartbeat, queueVars

\* A settled job is never taken back into the queue nor moved.
THEOREM SettledCorrect == Spec => SettledStaysSettled
<1>1. TypeOK /\ [Next]_queueVars =>
        [\A j \in Jobs : status[j] \in Settled =>
            status'[j] \in Settled /\ holder'[j] = holder[j]]_queueVars
  BY SettledStep
<1>. QED
  BY <1>1, TypeCorrect, PTL DEF Spec, SettledStaysSettled

\* A row changes hands only when its claim is older than JOB_STALE_S.
LEMMA LeaseStep ==
    ASSUME IInv, [Next]_queueVars, NEW j \in Jobs,
           holder[j] # None, holder'[j] # holder[j]
    PROVE  age[j] > JobStale
<1> USE DEF IInv, TypeOK
<1>1. status[j] # "pending"
  BY DEF HolderMatchesStatus, Settled
<1>2. PICK k \in Jobs, w \in Workers : Claim(k, w)
  BY DEF Next, Submit, Heartbeat, Report, Tick, queueVars
<1>3. CASE j \in Stale
  BY <1>3 DEF Stale
<1>4. CASE j \notin Stale
  <2>1. j # k
    BY <1>1, <1>2, <1>4 DEF Claim, Oldest, Waiting
  <2>2. holder'[j] = holder[j]
    BY <1>2, <1>4, <2>1 DEF Claim
  <2>. QED
    BY <2>2
<1>. QED
  BY <1>3, <1>4

\* A job leaves its worker for another only after a stale claim.
THEOREM LeaseCorrect == Spec => LeaseRespected
<1>1. IInv /\ [Next]_queueVars =>
        [\A j \in Jobs : holder[j] # None /\ holder'[j] # holder[j]
            => age[j] > JobStale]_queueVars
  BY LeaseStep
<1>. QED
  BY <1>1, InitIInv, IInvStep, PTL DEF Spec, LeaseRespected

-----------------------------------------------------------------------------

\* Each transaction is a step of the job board; heartbeats and the clock are
\* invisible there.
LEMMA BoardStep ==
    IInv /\ [Next]_queueVars => [Board!BoardNext]_(Board!boardVars)
<1> SUFFICES ASSUME IInv, [Next]_queueVars
             PROVE  [Board!BoardNext]_(Board!boardVars)
  OBVIOUS
<1> USE DEF IInv, TypeOK, Board!boardVars
<1>1. ASSUME NEW j \in Jobs, Submit(j)
      PROVE  Board!BoardNext
  BY <1>1 DEF Submit, Board!BoardNext, Board!Post
<1>2. ASSUME NEW j \in Jobs, NEW w \in Workers, Claim(j, w)
      PROVE  Board!BoardNext
  <2>1. Stale \in SUBSET {k \in Jobs : status[k] = "running"}
    BY DEF Stale
  <2>2. status[j] = "pending" \/ j \in Stale
    BY <1>2 DEF Claim, Oldest, Waiting
  <2>3. Board!HandOut(j, w)
    BY <1>2, <2>1, <2>2 DEF Claim, Board!HandOut
  <2>. QED
    BY <2>3 DEF Board!BoardNext
<1>3. ASSUME NEW j \in Jobs, NEW w \in Workers, NEW ok \in BOOLEAN,
             Report(j, w, ok)
      PROVE  Board!BoardNext
  <2>1. holder[j] = w /\ w # None
    BY <1>3 DEF Report, Accepted
  <2>2. status[j] \in {"running"} \union Board!Settled
    BY <2>1 DEF HolderMatchesStatus, Settled, Board!Settled
  <2>3. \E outcome \in Board!Settled :
            status' = [status EXCEPT ![j] = outcome]
    BY <1>3 DEF Report, Board!Settled
  <2>4. Board!Settle(j, w)
    BY <1>3, <2>1, <2>2, <2>3 DEF Report, Board!Settle
  <2>. QED
    BY <2>4 DEF Board!BoardNext
<1>. QED
  BY <1>1, <1>2, <1>3 DEF Next, Tick, Heartbeat, queueVars

\* The queue's transactions implement the job board: job_queue.py hands a job
\* to one worker at a time and lets only that worker settle it.
THEOREM BoardRefined == Spec => ImplementsBoard
<1>1. Init => Board!BoardInit
  BY DEF Init, Board!BoardInit
<1>. QED
  BY <1>1, InitIInv, IInvStep, BoardStep, PTL
  DEF Spec, ImplementsBoard, Board!BoardSpec

-----------------------------------------------------------------------------
(* The queue under the fleet *)

\* A request in the server has a sender, and a result was posted by a session
\* that had run the job.
ConnInv ==
    \A c \in Conns :
        /\ conn[c].kind # "free" => conn[c].from \in Workers
        /\ conn[c].kind = "result" => /\ conn[c].job \in Jobs
                                      /\ <<conn[c].from, conn[c].job>> \in ran

\* A session at work has a job, and while the claim is fresh the row carries
\* the same claim: this is what makes FreshLeaseHolds inductive.
LeaseInv ==
    \A w \in Workers :
        /\ pc[w] = "running" => task[w] # None
        /\ task[w] # None /\ lease[w] <= JobStale
             => holder[task[w]] = w /\ age[task[w]] = lease[w]

FleetInv ==
    /\ FleetTypeOK
    /\ HolderMatchesStatus
    /\ ConnInv
    /\ LeaseInv
    /\ SettledJobWasRun

LEMMA InitFleetInv == FleetInit => FleetInv
<1> SUFFICES ASSUME FleetInit
             PROVE  FleetInv
  OBVIOUS
<1>1. TypeOK /\ HolderMatchesStatus
  BY InitIInv DEF FleetInit, IInv
<1>2. FleetTypeOK
  <2>1. Free \in Request
    BY DEF Free, Req, Request
  <2>2. conn \in [Conns -> Request]
    BY <2>1 DEF FleetInit
  <2>3. /\ pc \in [Workers -> Loop]
        /\ task \in [Workers -> Jobs \union {None}]
        /\ lease \in [Workers -> 0 .. JobStale + 1]
        /\ line \in [Workers -> Conns \union {None}]
    BY DEF FleetInit, Loop
  <2>4. ran \subseteq Workers \X Jobs /\ faults \in 0 .. MaxFaults
    BY DEF FleetInit
  <2>. QED
    BY <1>1, <2>2, <2>3, <2>4 DEF FleetTypeOK
<1>3. ConnInv
  BY DEF FleetInit, ConnInv, Free, Req
<1>4. LeaseInv
  BY DEF FleetInit, LeaseInv
<1>5. SettledJobWasRun
  BY DEF FleetInit, Init, SettledJobWasRun, Settled
<1>. QED
  BY <1>1, <1>2, <1>3, <1>4, <1>5 DEF FleetInv

\* Whatever the fleet does is a transaction, a tick or nothing for the queue.
LEMMA QueueStep ==
    FleetTypeOK /\ ConnInv /\ [FleetNext]_vars => [Next]_queueVars
<1> SUFFICES ASSUME FleetTypeOK, ConnInv, [FleetNext]_vars
             PROVE  [Next]_queueVars
  OBVIOUS
<1>1. ASSUME NEW j \in Jobs, Post(j)
      PROVE  [Next]_queueVars
  BY <1>1 DEF Post, Next
<1>2. ASSUME NEW w \in Workers, Start(w) \/ Work(w) \/ GiveUp(w) \/ Die(w)
      PROVE  [Next]_queueVars
  BY <1>2 DEF Start, Work, SendClaim, SendBeat, Finish, Unsent, GiveUp, Die
<1>3. ASSUME NEW c \in Conns, Serve(c) \/ Lose(c)
      PROVE  [Next]_queueVars
  <2>1. conn[c].kind # "free" => conn[c].from \in Workers
    BY DEF ConnInv
  <2>2. conn[c].kind = "result" => conn[c].job \in Jobs
    BY DEF ConnInv
  <2>3. conn[c].ok \in BOOLEAN
    BY DEF FleetTypeOK, Request
  <2>4. CASE ClaimBeat(c)
    BY <2>1, <2>4 DEF ClaimBeat, Next
  <2>5. CASE ClaimJob(c)
    BY <2>1, <2>5 DEF ClaimJob, Next
  <2>6. CASE ClaimNothing(c)
    BY <2>6 DEF ClaimNothing
  <2>7. CASE Beat(c)
    BY <2>1, <2>7 DEF Beat, Next
  <2>8. CASE Result(c)
    BY <2>1, <2>2, <2>3, <2>8 DEF Result, Next
  <2>9. CASE Lose(c)
    BY <2>9 DEF Lose
  <2>. QED
    BY <1>3, <2>4, <2>5, <2>6, <2>7, <2>8, <2>9 DEF Serve
<1>4. CASE FleetTick
  BY <1>4 DEF FleetTick, Next
<1>5. CASE UNCHANGED vars
  BY <1>5 DEF vars
<1>. QED
  BY <1>1, <1>2, <1>3, <1>4, <1>5 DEF FleetNext

\* No step takes the types apart.
LEMMA FleetTypeStep ==
    FleetTypeOK /\ ConnInv /\ LeaseInv /\ [FleetNext]_vars => FleetTypeOK'
<1> SUFFICES ASSUME FleetTypeOK, ConnInv, LeaseInv, [FleetNext]_vars
             PROVE  FleetTypeOK'
  OBVIOUS
<1> DEFINE LocalOK ==
      /\ pc \in [Workers -> Loop]
      /\ task \in [Workers -> Jobs \union {None}]
      /\ lease \in [Workers -> 0 .. JobStale + 1]
      /\ line \in [Workers -> Conns \union {None}]
      /\ conn \in [Conns -> Request]
      /\ ran \subseteq Workers \X Jobs
      /\ faults \in 0 .. MaxFaults
<1>0. TypeOK' /\ LocalOK
  BY QueueStep, TypeStep DEF FleetTypeOK
<1>1. \A w \in Workers : pc[w] = "running" => task[w] \in Jobs
  BY <1>0 DEF LeaseInv
<1>2. Free \in Request
  BY DEF Free, Req, Request
<1> SUFFICES LocalOK'
  BY <1>0 DEF FleetTypeOK
<1>3. ASSUME NEW j \in Jobs, Post(j)
      PROVE  LocalOK'
  BY <1>0, <1>3 DEF Post, fleetVars
<1>4. ASSUME NEW w \in Workers, Start(w) \/ GiveUp(w) \/ Die(w)
      PROVE  LocalOK'
  BY <1>0, <1>4 DEF Start, GiveUp, Die, Leave, Loop
<1>5. ASSUME NEW w \in Workers, SendClaim(w) \/ SendBeat(w)
      PROVE  LocalOK'
  <2>1. PICK request \in Request, waiting \in Loop, c \in Conns :
            Send(w, c, request, waiting)
    <3>1. /\ Req("claim", w, None, FALSE) \in Request
          /\ Req("beat", w, None, FALSE) \in Request
      BY DEF Req, Request
    <3>. QED
      BY <1>5, <3>1 DEF SendClaim, SendBeat, Loop
  <2>2. UNCHANGED <<task, lease, ran, faults>>
    BY <1>5 DEF SendClaim, SendBeat
  <2>. QED
    BY <1>0, <2>1, <2>2 DEF Send
<1>6. ASSUME NEW w \in Workers, Finish(w)
      PROVE  LocalOK'
  <2>1. task[w] \in Jobs
    BY <1>1, <1>6 DEF Finish
  <2>2. \A ok \in BOOLEAN : Req("result", w, task[w], ok) \in Request
    BY <2>1 DEF Req, Request
  <2>. QED
    BY <1>0, <1>6, <2>1, <2>2 DEF Finish, Send, Loop
<1>10. ASSUME NEW w \in Workers, Unsent(w)
       PROVE  LocalOK'
  <2>1. task[w] \in Jobs
    BY <1>1, <1>10 DEF Unsent
  <2>. QED
    BY <1>0, <1>10, <2>1 DEF Unsent, Loop
<1>7. ASSUME NEW c \in Conns, Serve(c) \/ Lose(c)
      PROVE  LocalOK'
  <2>1. conn[c].from \in Workers \union {None}
    BY <1>0 DEF Request
  <2>2. conn[c].kind # "free" => conn[c].from \in Workers
    BY DEF ConnInv
  <2>3. Req("claim2", conn[c].from, None, FALSE) \in Request
    BY <2>1 DEF Req, Request
  <2>4. CASE ClaimBeat(c)
    BY <1>0, <2>3, <2>4 DEF ClaimBeat
  <2>5. CASE ClaimJob(c)
    BY <1>0, <1>2, <2>2, <2>5 DEF ClaimJob, HangUp, Loop
  <2>6. CASE ClaimNothing(c) \/ Beat(c) \/ Result(c) \/ Lose(c)
    <3>1. PICK where \in {"idle", "poll"} : Answer(c, where)
      BY <2>6 DEF ClaimNothing, Beat, Result, Lose
    <3>2. /\ pc' \in [Workers -> Loop]
          /\ task' \in [Workers -> Jobs \union {None}]
          /\ lease' \in [Workers -> 0 .. JobStale + 1]
          /\ line' \in [Workers -> Conns \union {None}]
      BY <1>0, <3>1 DEF Answer, Leave, Loop
    <3>3. conn' \in [Conns -> Request]
      BY <1>0, <1>2, <2>6 DEF ClaimNothing, Beat, Result, Lose, HangUp
    <3>4. ran' = ran /\ faults' \in 0 .. MaxFaults
      BY <1>0, <2>6 DEF ClaimNothing, Beat, Result, Lose
    <3>. QED
      BY <1>0, <3>2, <3>3, <3>4
  <2>. QED
    BY <1>7, <2>4, <2>5, <2>6 DEF Serve
<1>8. CASE FleetTick
  BY <1>0, <1>8 DEF FleetTick
<1>9. CASE UNCHANGED vars
  BY <1>0, <1>9 DEF vars, fleetVars
<1>. QED
  BY <1>3, <1>4, <1>5, <1>6, <1>7, <1>8, <1>9, <1>10 DEF FleetNext, Work

\* A result in the server still comes from a session that ran its job: slots
\* are filled only by Finish with a result, and ran never shrinks.
LEMMA ConnStep ==
    FleetTypeOK /\ ConnInv /\ LeaseInv /\ [FleetNext]_vars => ConnInv'
<1> SUFFICES ASSUME FleetTypeOK, ConnInv, LeaseInv, [FleetNext]_vars,
                    NEW d \in Conns
             PROVE  /\ conn'[d].kind # "free" => conn'[d].from \in Workers
                    /\ conn'[d].kind = "result" =>
                         /\ conn'[d].job \in Jobs
                         /\ <<conn'[d].from, conn'[d].job>> \in ran'
  BY DEF ConnInv
<1> DEFINE Old == /\ conn[d].kind # "free" => conn[d].from \in Workers
                  /\ conn[d].kind = "result" =>
                       /\ conn[d].job \in Jobs
                       /\ <<conn[d].from, conn[d].job>> \in ran
           Goal == /\ conn'[d].kind # "free" => conn'[d].from \in Workers
                   /\ conn'[d].kind = "result" =>
                        /\ conn'[d].job \in Jobs
                        /\ <<conn'[d].from, conn'[d].job>> \in ran'
<1>0. Old /\ conn \in [Conns -> Request] /\ task \in [Workers -> Jobs \union {None}]
  BY DEF ConnInv, FleetTypeOK
<1>1. Free.kind = "free"
  BY DEF Free, Req
<1>2. ASSUME NEW w \in Workers, SendClaim(w) \/ SendBeat(w)
      PROVE  Goal
  <2>1. PICK c \in Conns : conn' = [conn EXCEPT ![c] = Req("claim", w, None, FALSE)]
                        \/ conn' = [conn EXCEPT ![c] = Req("beat", w, None, FALSE)]
    BY <1>2 DEF SendClaim, SendBeat, Send
  <2>2. ran' = ran
    BY <1>2 DEF SendClaim, SendBeat
  <2>. QED
    BY <1>0, <2>1, <2>2 DEF Req
<1>3. ASSUME NEW w \in Workers, Finish(w)
      PROVE  Goal
  <2>1. PICK c \in Conns, ok \in BOOLEAN :
            conn' = [conn EXCEPT ![c] = Req("result", w, task[w], ok)]
    BY <1>3 DEF Finish, Send
  <2>2. task[w] \in Jobs
    BY <1>0, <1>3 DEF Finish, LeaseInv
  <2>3. ran' = ran \union {<<w, task[w]>>}
    BY <1>3 DEF Finish
  <2>. QED
    BY <1>0, <2>1, <2>2, <2>3 DEF Req
<1>4. ASSUME NEW c \in Conns, ClaimBeat(c)
      PROVE  Goal
  <2>1. conn[c].from \in Workers
    BY <1>4 DEF ClaimBeat, ConnInv
  <2>. QED
    BY <1>0, <1>4, <2>1 DEF ClaimBeat, Req
<1>5. ASSUME NEW c \in Conns,
             ClaimJob(c) \/ ClaimNothing(c) \/ Beat(c) \/ Result(c) \/ Lose(c)
      PROVE  Goal
  BY <1>0, <1>1, <1>5
  DEF ClaimJob, ClaimNothing, Beat, Result, Lose, HangUp
<1>6. CASE UNCHANGED <<conn, ran>>
  BY <1>0, <1>6
<1>7. ASSUME NEW w \in Workers, Unsent(w)
      PROVE  Goal
  BY <1>0, <1>7 DEF Unsent
<1>. QED
  BY <1>2, <1>3, <1>4, <1>5, <1>6, <1>7
  DEF FleetNext, Work, Serve, Post, fleetVars, Start, GiveUp, Die, FleetTick, vars

\* A fresh lease survives every step: its row is neither waiting nor stale,
\* so no claim, from this session's abandoned requests or from others, can
\* touch it, and the clock ages the row and the lease together.
LEMMA LeaseInvStep ==
    /\ FleetTypeOK /\ ConnInv /\ LeaseInv /\ HolderMatchesStatus
    /\ [FleetNext]_vars
    => LeaseInv'
<1> SUFFICES ASSUME FleetTypeOK, ConnInv, LeaseInv, HolderMatchesStatus,
                    [FleetNext]_vars, NEW v \in Workers
             PROVE  /\ pc'[v] = "running" => task'[v] # None
                    /\ task'[v] # None /\ lease'[v] <= JobStale
                         => /\ holder'[task'[v]] = v
                            /\ age'[task'[v]] = lease'[v]
  BY DEF LeaseInv
<1> DEFINE Goal == /\ pc'[v] = "running" => task'[v] # None
                   /\ task'[v] # None /\ lease'[v] <= JobStale
                        => /\ holder'[task'[v]] = v
                           /\ age'[task'[v]] = lease'[v]
           Fresh == task[v] # None /\ lease[v] <= JobStale
<1>0. /\ TypeOK
      /\ pc \in [Workers -> Loop]
      /\ task \in [Workers -> Jobs \union {None}]
      /\ lease \in [Workers -> 0 .. JobStale + 1]
      /\ line \in [Workers -> Conns \union {None}]
      /\ pc[v] = "running" => task[v] # None
      /\ Fresh => holder[task[v]] = v /\ age[task[v]] = lease[v]
  BY DEF FleetTypeOK, LeaseInv
\* Steps of the queue leave the row of a fresh lease alone.
<1>1. ASSUME Fresh, UNCHANGED <<holder, age>> \/ \E j \in Jobs, w \in Workers : Claim(j, w)
      PROVE  holder'[task[v]] = v /\ age'[task[v]] = lease[v]
  <2>1. task[v] \in Jobs /\ holder[task[v]] # None
    BY <1>0, <1>1
  <2>2. task[v] \notin Stale
    BY <1>0, <1>1, <2>1 DEF Stale, TypeOK
  <2>3. task[v] \notin Waiting
    BY <2>1, <2>2 DEF Waiting, HolderMatchesStatus, Settled
  <2>4. ASSUME NEW j \in Jobs, NEW w \in Workers, Claim(j, w)
        PROVE  holder'[task[v]] = v /\ age'[task[v]] = lease[v]
    <3>1. task[v] # j
      BY <2>3, <2>4 DEF Claim, Oldest
    <3>. QED
      BY <1>0, <1>1, <2>1, <2>2, <2>4, <3>1 DEF Claim
  <2>. QED
    BY <1>0, <1>1, <2>4
\* Steps that leave this session where it is.
<1>2. ASSUME pc'[v] = pc[v], task'[v] = task[v], lease'[v] = lease[v],
             UNCHANGED <<holder, age>> \/ \E j \in Jobs, w \in Workers : Claim(j, w)
      PROVE  Goal
  BY <1>0, <1>1, <1>2
\* Steps after which this session has no job.
<1>3. ASSUME pc'[v] # "running", task'[v] = None
      PROVE  Goal
  BY <1>3
<1>4. ASSUME NEW w \in Workers, NEW where, where # "running", Leave(w, where),
             UNCHANGED <<holder, age>>
      PROVE  Goal
  <2>1. CASE v = w
    BY <1>0, <1>3, <1>4, <2>1 DEF Leave
  <2>2. CASE v # w
    BY <1>0, <1>2, <1>4, <2>2 DEF Leave
  <2>. QED
    BY <2>1, <2>2
<1>5. ASSUME NEW j \in Jobs, Post(j)
      PROVE  Goal
  BY <1>2, <1>5 DEF Post, Submit, fleetVars
<1>6. ASSUME NEW w \in Workers, Start(w)
      PROVE  Goal
  BY <1>0, <1>1, <1>6 DEF Start, queueVars
<1>7. ASSUME NEW w \in Workers, Work(w)
      PROVE  Goal
  <2>1. UNCHANGED <<task, lease, holder, age>>
    BY <1>7 DEF Work, SendClaim, SendBeat, Finish, Unsent, queueVars
  <2>2. pc'[v] = pc[v] \/ pc'[v] # "running"
    BY <1>0, <1>7 DEF Work, SendClaim, SendBeat, Finish, Unsent, Send
  <2>. QED
    BY <1>0, <1>1, <2>1, <2>2
<1>8. ASSUME NEW w \in Workers, GiveUp(w) \/ Die(w)
      PROVE  Goal
  BY <1>4, <1>8 DEF GiveUp, Die, queueVars
<1>9. ASSUME NEW c \in Conns, ClaimJob(c)
      PROVE  Goal
  <2>1. conn[c].from \in Workers
    BY <1>9 DEF ClaimJob, ConnInv
  <2>2. PICK j \in Jobs :
          /\ Claim(j, conn[c].from)
          /\ IF line[conn[c].from] = c
             THEN /\ pc' = [pc EXCEPT ![conn[c].from] = "running"]
                  /\ task' = [task EXCEPT ![conn[c].from] = j]
                  /\ lease' = [lease EXCEPT ![conn[c].from] = 0]
             ELSE UNCHANGED <<pc, task, lease>>
    BY <1>9 DEF ClaimJob
  <2>3. CASE line[conn[c].from] = c /\ v = conn[c].from
    <3>1. pc'[v] = "running" /\ task'[v] = j /\ lease'[v] = 0
      BY <1>0, <2>2, <2>3
    <3>2. holder'[j] = v /\ age'[j] = 0
      BY <2>2, <2>3 DEF Claim
    <3>. QED
      BY <3>1, <3>2
  <2>4. CASE ~(line[conn[c].from] = c /\ v = conn[c].from)
    <3>1. pc'[v] = pc[v] /\ task'[v] = task[v] /\ lease'[v] = lease[v]
      BY <1>0, <2>1, <2>2, <2>4
    <3>. QED
      BY <1>2, <2>1, <2>2, <3>1
  <2>. QED
    BY <2>3, <2>4
<1>10. ASSUME NEW c \in Conns, ClaimBeat(c)
       PROVE  Goal
  BY <1>2, <1>10 DEF ClaimBeat, Heartbeat
<1>11. ASSUME NEW c \in Conns,
              ClaimNothing(c) \/ Beat(c) \/ Result(c) \/ Lose(c)
       PROVE  Goal
  <2>1. conn[c].from \in Workers \union {None}
    BY DEF FleetTypeOK, Request
  <2>2. UNCHANGED <<holder, age>>
    BY <1>11
    DEF ClaimNothing, Beat, Result, Lose, Heartbeat, Report, queueVars
  <2>3. PICK where \in {"idle", "poll"} : Answer(c, where)
    BY <1>11 DEF ClaimNothing, Beat, Result, Lose
  <2>4. CASE UNCHANGED <<pc, task, lease, line>>
    BY <1>2, <2>2, <2>4
  <2>5. CASE Leave(conn[c].from, where)
    <3>1. CASE v = conn[c].from
      BY <1>0, <1>3, <2>3, <2>5, <3>1 DEF Leave
    <3>2. CASE v # conn[c].from
      BY <1>0, <1>2, <2>2, <2>5, <3>2 DEF Leave
    <3>. QED
      BY <3>1, <3>2
  <2>. QED
    BY <2>3, <2>4, <2>5 DEF Answer
<1>12. CASE FleetTick
  <2>1. pc'[v] = pc[v] /\ task'[v] = task[v]
    BY <1>12 DEF FleetTick
  <2>2. lease'[v] = IF task[v] # None /\ lease[v] <= JobStale
                    THEN lease[v] + 1 ELSE lease[v]
    BY <1>12 DEF FleetTick
  <2>3. ASSUME Fresh
        PROVE  holder'[task[v]] = v /\ age'[task[v]] = lease'[v]
    <3>1. task[v] \in Jobs /\ holder[task[v]] = v /\ v # None
      BY <1>0, <2>3
    <3>2. age'[task[v]] = age[task[v]] + 1 /\ holder' = holder
      BY <1>0, <1>12, <2>3, <3>1 DEF FleetTick, Tick
    <3>. QED
      BY <1>0, <2>2, <2>3, <3>1, <3>2
  <2>4. task[v] # None /\ lease'[v] <= JobStale => Fresh
    BY <1>0, <2>2
  <2>. QED
    BY <1>0, <2>1, <2>3, <2>4
<1>13. CASE UNCHANGED vars
  BY <1>2, <1>13 DEF vars, fleetVars, queueVars
<1>. QED
  BY <1>5, <1>6, <1>7, <1>8, <1>9, <1>10, <1>11, <1>12, <1>13
  DEF FleetNext, Serve

\* A row becomes settled only through a result of the session it is held by,
\* and that session had run the job.
LEMMA RanStep ==
    /\ FleetTypeOK /\ ConnInv /\ SettledJobWasRun /\ [FleetNext]_vars
    => SettledJobWasRun'
<1> SUFFICES ASSUME FleetTypeOK, ConnInv, SettledJobWasRun, [FleetNext]_vars,
                    NEW j \in Jobs, status'[j] \in Settled
             PROVE  <<holder'[j], j>> \in ran'
  BY DEF SettledJobWasRun
<1>1. ran \subseteq ran'
  BY DEF FleetNext, Post, fleetVars, Start, Work, SendClaim, SendBeat, Finish,
         Unsent, GiveUp, Die, Serve, ClaimBeat, ClaimJob, ClaimNothing, Beat, Result,
         Lose, FleetTick, vars
<1>2. TypeOK /\ [Next]_queueVars
  BY QueueStep DEF FleetTypeOK
<1>3. CASE status[j] \in Settled
  <2>1. holder'[j] = holder[j]
    BY <1>2, <1>3, SettledStep
  <2>. QED
    BY <1>1, <1>3, <2>1 DEF SettledJobWasRun
<1>4. CASE status[j] \notin Settled
  <2> USE DEF Settled, TypeOK
  <2>1. ASSUME NEW c \in Conns, Result(c)
        PROVE  <<holder'[j], j>> \in ran'
    <3>1. Report(conn[c].job, conn[c].from, conn[c].ok)
      BY <1>4, <2>1 DEF Result, queueVars
    <3>2. j = conn[c].job
      BY <1>2, <1>4, <3>1 DEF Report
    <3>3. holder'[j] = conn[c].from
      BY <3>1, <3>2 DEF Report, Accepted
    <3>. QED
      BY <1>1, <2>1, <3>2, <3>3 DEF ConnInv, Result
  <2>2. ASSUME NEW k \in Jobs, Submit(k)
        PROVE  FALSE
    BY <1>2, <1>4, <2>2 DEF Submit
  <2>3. ASSUME NEW k \in Jobs, NEW w, Claim(k, w)
        PROVE  FALSE
    BY <1>2, <1>4, <2>3 DEF Claim
  <2>4. status' # status
    BY <1>4
  <2>. QED
    BY <2>1, <2>2, <2>3, <2>4
    DEF FleetNext, Post, Start, Work, SendClaim, SendBeat, Finish, Unsent, GiveUp, Die,
        Serve, ClaimBeat, ClaimJob, ClaimNothing, Beat, Lose, FleetTick, Tick,
        Heartbeat, queueVars, vars
<1>. QED
  BY <1>3, <1>4

LEMMA FleetInvStep == FleetInv /\ [FleetNext]_vars => FleetInv'
<1>1. FleetInv /\ [FleetNext]_vars => HolderMatchesStatus'
  BY QueueStep, IInvStep DEF FleetInv, FleetTypeOK, IInv
<1>. QED
  BY <1>1, FleetTypeStep, ConnStep, LeaseInvStep, RanStep DEF FleetInv

LEMMA FleetInvariant == FleetSpec => []FleetInv
BY InitFleetInv, FleetInvStep, PTL DEF FleetSpec

\* The fleet is a client of the queue: every theorem about Spec, the job board
\* among them, holds of the composed system.
THEOREM FleetRefinesQueue == FleetSpec => Spec
<1>1. FleetInit => Init
  BY DEF FleetInit
<1>2. FleetInv /\ [FleetNext]_vars => [Next]_queueVars
  BY QueueStep DEF FleetInv
<1>. QED
  BY <1>1, <1>2, FleetInvariant, PTL DEF FleetSpec, Spec

\* While a session's claim is no older than JOB_STALE_S its report will be
\* accepted.
THEOREM FreshLeaseCorrect == FleetSpec => []FreshLeaseHolds
<1>1. FleetInv => FreshLeaseHolds
  BY DEF FleetInv, LeaseInv, FreshLeaseHolds
<1>. QED
  BY <1>1, FleetInvariant, PTL

\* Two sessions run one job only if the claim of one of them is stale.
THEOREM ExclusiveCorrect == FleetSpec => []FreshLeaseExclusive
<1>1. FleetInv => FreshLeaseExclusive
  <2> SUFFICES ASSUME FleetInv, NEW v \in Workers, NEW w \in Workers,
                      v # w, task[v] = task[w], task[w] # None,
                      ~(lease[v] > JobStale), ~(lease[w] > JobStale)
               PROVE  FALSE
    BY DEF FreshLeaseExclusive
  <2>1. lease[v] \in Nat /\ lease[w] \in Nat
    BY DEF FleetInv, FleetTypeOK
  <2>2. lease[v] <= JobStale /\ lease[w] <= JobStale
    BY <2>1
  <2>. QED
    BY <2>2 DEF FleetInv, LeaseInv
<1>. QED
  BY <1>1, FleetInvariant, PTL

\* A settled job was run to its end by the session its row names.
THEOREM RanCorrect == FleetSpec => []SettledJobWasRun
<1>1. FleetInv => SettledJobWasRun
  BY DEF FleetInv
<1>. QED
  BY <1>1, FleetInvariant, PTL

-----------------------------------------------------------------------------
(* The credit of the workers *)

\* Whoever holds a job, or is about to be given one, has a row in the table of
\* workers: worker_claim writes it first.
Known ==
    /\ \A j \in Jobs : holder[j] # None => seen[holder[j]] # None
    /\ \A c \in Conns : conn[c].kind = "claim2" => seen[conn[c].from] # None

DoneBy(w) == {j \in Jobs : status[j] = "done" /\ holder[j] = w}

Credits == \A w \in Workers : Cardinality(DoneBy(w)) <= credit[w]

\* No transaction removes a worker's row.
LEMMA SeenStays ==
    ASSUME TypeOK, [Next]_queueVars, NEW w \in Workers, seen[w] # None
    PROVE  seen'[w] # None
<1> USE DEF TypeOK
<1>1. seen[w] \in Nat
  OBVIOUS
<1>2. ASSUME NEW v \in Workers, Heartbeat(v)
      PROVE  seen'[w] # None
  BY <1>2 DEF Heartbeat
<1>3. CASE Tick
  BY <1>1, <1>3 DEF Tick
<1>4. CASE UNCHANGED seen
  BY <1>4
<1>. QED
  BY <1>2, <1>3, <1>4 DEF Next, Submit, Claim, Report, queueVars

LEMMA KnownStep ==
    ASSUME FleetInv, Known, [FleetNext]_vars
    PROVE  Known'
<1>1. TypeOK /\ FleetTypeOK /\ ConnInv /\ [Next]_queueVars
  BY QueueStep DEF FleetInv, FleetTypeOK
<1>2. \A w \in Workers : seen[w] # None => seen'[w] # None
  BY <1>1, SeenStays
<1>3. \A c \in Conns : conn[c].kind # "free" => conn[c].from \in Workers
  BY <1>1 DEF ConnInv
<1>4. ASSUME NEW c \in Conns, conn'[c].kind = "claim2"
      PROVE  seen'[conn'[c].from] # None
  <2>1. CASE conn'[c] = conn[c]
    BY <1>2, <1>3, <1>4, <2>1 DEF Known
  <2>2. ASSUME ClaimBeat(c) PROVE seen'[conn'[c].from] # None
    <3>1. conn'[c].from = conn[c].from /\ conn[c].from \in Workers
      BY <1>1, <1>3, <2>2 DEF ClaimBeat, FleetTypeOK, Req
    <3>2. seen'[conn[c].from] = 0
      BY <1>1, <2>2, <3>1 DEF ClaimBeat, Heartbeat, TypeOK
    <3> QED
      BY <3>1, <3>2
  <2>3. ASSUME NEW w \in Workers, SendClaim(w) \/ SendBeat(w) \/ Finish(w)
        PROVE  conn'[c] = conn[c]
    BY <1>1, <1>4, <2>3 DEF SendClaim, SendBeat, Finish, Send, Req, FleetTypeOK
  <2>4. ASSUME NEW d \in Conns, d # c, ClaimBeat(d) PROVE conn'[c] = conn[c]
    BY <1>1, <2>4 DEF ClaimBeat, FleetTypeOK
  <2>5. ASSUME NEW d \in Conns, HangUp(d) PROVE conn'[c] = conn[c]
    BY <1>1, <1>4, <2>5 DEF HangUp, Free, Req, FleetTypeOK
  <2>. QED
    BY <2>1, <2>2, <2>3, <2>4, <2>5
    DEF FleetNext, Post, fleetVars, Start, Work, Unsent, GiveUp, Die, Serve, ClaimJob,
        ClaimNothing, Beat, Result, Lose, FleetTick, vars
<1>5. ASSUME NEW j \in Jobs, holder'[j] # None
      PROVE  seen'[holder'[j]] # None
  <2>1. CASE holder'[j] = holder[j]
    BY <1>1, <1>2, <1>5, <2>1 DEF Known, TypeOK
  <2>2. ASSUME NEW c \in Conns, ClaimJob(c), holder'[j] # holder[j]
        PROVE  seen'[holder'[j]] # None
    <3>1. holder'[j] = conn[c].from
      BY <1>1, <1>5, <2>2 DEF ClaimJob, Claim, TypeOK
    <3>2. conn[c].from \in Workers /\ seen[conn[c].from] # None
      BY <1>3, <2>2 DEF ClaimJob, Known
    <3> QED
      BY <1>2, <3>1, <3>2
  <2>. QED
    BY <2>1, <2>2
    DEF FleetNext, Post, Submit, Start, Work, SendClaim, SendBeat, Finish, Unsent,
        GiveUp, Die, Serve, ClaimBeat, ClaimNothing, Beat, Heartbeat, Result, Report, Lose,
        FleetTick, Tick, queueVars, vars
<1>. QED
  BY <1>4, <1>5 DEF Known

\* Done rows of a worker can be counted, and there are no more than jobs.
LEMMA DoneCount ==
    ASSUME NEW w
    PROVE  /\ IsFiniteSet(DoneBy(w)) /\ Cardinality(DoneBy(w)) \in Nat
           /\ Cardinality(DoneBy(w)) <= Cardinality(Jobs)
<1>1. DoneBy(w) \subseteq Jobs
  BY DEF DoneBy
<1> QED
  BY <1>1, FS_Subset, FS_CardinalityType

LEMMA CreditStep ==
    ASSUME FleetInv, Known, Credits, [FleetNext]_vars
    PROVE  Credits'
<1>1. TypeOK /\ [Next]_queueVars /\ ConnInv
  BY QueueStep DEF FleetInv, FleetTypeOK
<1> SUFFICES ASSUME NEW w \in Workers
             PROVE  Cardinality(DoneBy(w)') <= credit'[w]
  BY DEF Credits
<1>2. /\ Cardinality(DoneBy(w)) <= credit[w] /\ credit[w] \in Nat
      /\ Cardinality(DoneBy(w)) \in Nat /\ IsFiniteSet(DoneBy(w))
  BY <1>1, DoneCount DEF Credits, TypeOK
<1>3. ASSUME DoneBy(w)' \subseteq DoneBy(w), credit'[w] >= credit[w], credit'[w] \in Nat
      PROVE  Cardinality(DoneBy(w)') <= credit'[w]
  <2>1. /\ Cardinality(DoneBy(w)') <= Cardinality(DoneBy(w))
        /\ Cardinality(DoneBy(w)') \in Nat
    BY <1>2, <1>3, FS_Subset, FS_CardinalityType
  <2> QED
    BY <1>2, <1>3, <2>1
<1>4. ASSUME NEW j \in Jobs, NEW v \in Workers, NEW ok \in BOOLEAN, Report(j, v, ok)
      PROVE  Cardinality(DoneBy(w)') <= credit'[w]
  <2>1. /\ holder[j] = v /\ holder' = holder
        /\ \A k \in Jobs : k # j => status'[k] = status[k]
        /\ status'[j] = "done" => ok
        /\ credit' = [credit EXCEPT ![v] = IF ok THEN Credited(v) ELSE @]
    BY <1>1, <1>4 DEF Report, Accepted, TypeOK
  <2>2. seen[v] # None
    BY <2>1 DEF Known
  <2>3. Credited(v) = IF credit[v] < MaxCredit THEN credit[v] + 1 ELSE credit[v]
    BY <2>2 DEF Credited
  <2>4. credit'[w] >= credit[w] /\ credit'[w] \in Nat
    BY <1>1, <2>1, <2>3 DEF TypeOK
  <2>5. CASE v = w /\ ok
    <3>1. DoneBy(w)' \subseteq DoneBy(w) \union {j}
      BY <2>1 DEF DoneBy
    <3>2. /\ IsFiniteSet(DoneBy(w) \union {j})
          /\ Cardinality(DoneBy(w) \union {j}) <= Cardinality(DoneBy(w)) + 1
      <4>1. CASE j \in DoneBy(w)
        <5>1. DoneBy(w) \union {j} = DoneBy(w)
          BY <4>1
        <5> QED
          BY ONLY <1>2, <5>1
      <4>2. CASE j \notin DoneBy(w)
        <5>1. /\ IsFiniteSet(DoneBy(w) \union {j})
              /\ Cardinality(DoneBy(w) \union {j}) = Cardinality(DoneBy(w)) + 1
          BY ONLY <1>2, <4>2, FS_AddElement
        <5> QED
          BY <1>2, <5>1
      <4> QED
        BY <4>1, <4>2
    <3>3. /\ Cardinality(DoneBy(w)') <= Cardinality(DoneBy(w) \union {j})
          /\ Cardinality(DoneBy(w)') \in Nat
          /\ Cardinality(DoneBy(w) \union {j}) \in Nat
      BY <3>1, <3>2, FS_Subset, FS_CardinalityType
    <3>4. Cardinality(DoneBy(w)') <= Cardinality(Jobs) /\ Cardinality(Jobs) \in Nat
      <4>1. DoneBy(w)' \subseteq Jobs
        BY DEF DoneBy
      <4> QED
        BY <4>1, FS_Subset, FS_CardinalityType
    <3>5. credit'[w] = credit[w] + 1 \/ (credit'[w] = credit[w] /\ credit[w] >= MaxCredit)
      BY <1>1, <2>1, <2>3, <2>5 DEF TypeOK
    <3> QED
      BY <1>2, <3>2, <3>3, <3>4, <3>5
  <2>6. CASE ~ (v = w /\ ok)
    <3>1. DoneBy(w)' \subseteq DoneBy(w)
      BY <2>1, <2>6 DEF DoneBy
    <3> QED
      BY <1>3, <2>4, <3>1
  <2> QED
    BY <2>5, <2>6
<1>5. CASE UNCHANGED credit
  <2>1. ASSUME NEW j \in Jobs, status'[j] = "done", holder'[j] = w,
               \A k \in Jobs, v \in Workers, ok \in BOOLEAN : ~ Report(k, v, ok)
        PROVE  status[j] = "done" /\ holder[j] = w
    <3>1. ASSUME NEW k \in Jobs, NEW v \in Workers, Claim(k, v)
          PROVE  status[j] = "done" /\ holder[j] = w
      BY <1>1, <2>1, <3>1 DEF Claim, TypeOK
    <3>2. ASSUME NEW k \in Jobs, Submit(k)
          PROVE  status[j] = "done" /\ holder[j] = w
      BY <1>1, <2>1, <3>2 DEF Submit, TypeOK
    <3> QED
      BY <1>1, <2>1, <3>1, <3>2 DEF Next, Heartbeat, Tick, queueVars
  <2>2. CASE \A k \in Jobs, v \in Workers, ok \in BOOLEAN : ~ Report(k, v, ok)
    <3>1. DoneBy(w)' \subseteq DoneBy(w)
      BY <2>1, <2>2 DEF DoneBy
    <3> QED
      BY <1>2, <1>3, <1>5, <3>1
  <2> QED
    BY <1>4, <2>2
<1>6. CASE ~ UNCHANGED credit
  BY <1>1, <1>4, <1>6 DEF Next, Submit, Heartbeat, Claim, Tick, queueVars
<1>. QED
  BY <1>5, <1>6

\* jobs_done, which lives in another table and is bumped only if the worker has
\* a row there, covers the done rows that name the worker.
THEOREM CreditCorrect == FleetSpec => []CreditCoversDone
<1>1. FleetInit => Known /\ Credits
  <2> SUFFICES ASSUME FleetInit PROVE Known /\ Credits
    OBVIOUS
  <2>1. Known
    BY DEF FleetInit, Init, Known, Free, Req
  <2>2. ASSUME NEW w \in Workers PROVE Cardinality(DoneBy(w)) <= credit[w]
    <3>1. DoneBy(w) = {} /\ credit[w] = 0
      BY DEF FleetInit, Init, DoneBy
    <3> QED
      BY <3>1, FS_EmptySet
  <2>. QED
    BY <2>1, <2>2 DEF Credits
<1>2. FleetInv /\ Known /\ Credits /\ [FleetNext]_vars => Known' /\ Credits'
  BY KnownStep, CreditStep
<1>3. FleetInv /\ Credits => CreditCoversDone
  BY DEF FleetInv, Credits, DoneBy, CreditCoversDone
<1>. QED
  BY <1>1, <1>2, <1>3, FleetInvariant, PTL DEF FleetSpec
=============================================================================
