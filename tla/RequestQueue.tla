---------------------------- MODULE RequestQueue ----------------------------
(***************************************************************************)
(* collections.RequestQueue: the frontier of one crawl worker.  Every      *)
(* operation ends in a save that replaces the queue file as a whole, so    *)
(* one that is killed has not happened, and what a later session loads is  *)
(* the state after the last operation that returned.                       *)
(*                                                                         *)
(* reserved_at is kept as one bit, of running rows: whether it is more     *)
(* than older_than_s ago.  Payload, meta and the error text are left out.  *)
(***************************************************************************)
EXTENDS Naturals, Sequences

CONSTANTS Requests,
          Slice,        \* the requests whose key hashes to this worker
          MaxAttempts

ASSUME QueueAssumption == Slice \subseteq Requests /\ MaxAttempts \in Nat \ {0}

VARIABLES state,     \* "absent", or the state of the request's row
          attempts,
          order,     \* the rows in the order they were added
          stale      \* running, and reserved more than older_than_s ago

queueVars == <<state, attempts, order, stale>>

States == {"absent", "pending", "running", "done", "failed"}

QueueTypeOK ==
    /\ state \in [Requests -> States]
    /\ attempts \in [Requests -> 0 .. MaxAttempts]
    /\ order \in Seq(Requests)
    /\ stale \in [Requests -> BOOLEAN]

QueueInit ==
    /\ state = [r \in Requests |-> "absent"]
    /\ attempts = [r \in Requests |-> 0]
    /\ order = <<>>
    /\ stale = [r \in Requests |-> FALSE]

-----------------------------------------------------------------------------

\* add: a request that is known, or another worker's, changes nothing.
Add(r) ==
    /\ r \in Slice /\ state[r] = "absent"
    /\ state' = [state EXCEPT ![r] = "pending"]
    /\ order' = Append(order, r)
    /\ UNCHANGED <<attempts, stale>>

\* The first pending row in the order of the dict.
First(r) ==
    \E i \in DOMAIN order :
        /\ order[i] = r /\ state[r] = "pending"
        /\ \A j \in 1 .. i - 1 : state[order[j]] # "pending"

Reserve(r) ==
    /\ First(r)
    /\ state' = [state EXCEPT ![r] = "running"]
    /\ attempts' = [attempts EXCEPT ![r] = @ + 1]
    /\ UNCHANGED <<order, stale>>

\* complete and fail look at no state but whether the row exists.
Complete(r) ==
    /\ state[r] # "absent"
    /\ state' = [state EXCEPT ![r] = "done"]
    /\ stale' = [stale EXCEPT ![r] = FALSE]
    /\ UNCHANGED <<attempts, order>>

\* Mutated form of Retried: attempts are compared after one too many.
RetriedOnceMore(r) == IF attempts[r] <= MaxAttempts THEN "pending" ELSE "failed"

Retried(r) == IF attempts[r] < MaxAttempts THEN "pending" ELSE "failed"

Fail(r) ==
    /\ state[r] # "absent"
    /\ state' = [state EXCEPT ![r] = Retried(r)]
    /\ stale' = [stale EXCEPT ![r] = FALSE]
    /\ UNCHANGED <<attempts, order>>

\* Mutated form of Reclaimable: whatever is settled too.
ReclaimableAny == {r \in Requests : state[r] = "done" \/ stale[r]}

Reclaimable == {r \in Requests : state[r] = "running" /\ stale[r]}

\* Mutated form of ReclaimStale: the call is left out.
ReclaimNothing == FALSE /\ UNCHANGED queueVars

ReclaimStale ==
    /\ Reclaimable # {}
    /\ state' = [r \in Requests |->
                    IF r \in Reclaimable THEN Retried(r) ELSE state[r]]
    /\ stale' = [r \in Requests |-> stale[r] /\ r \notin Reclaimable]
    /\ UNCHANGED <<attempts, order>>

\* older_than_s have passed since the request was reserved.
Age(r) ==
    /\ state[r] = "running" /\ ~stale[r]
    /\ stale' = [stale EXCEPT ![r] = TRUE]
    /\ UNCHANGED <<state, attempts, order>>

QueueNext ==
    \/ \E r \in Requests : \/ Add(r) \/ Reserve(r) \/ Complete(r) \/ Fail(r)
                           \/ Age(r)
    \/ ReclaimStale

QueueSpec == QueueInit /\ [][QueueNext]_queueVars

-----------------------------------------------------------------------------

\* Whoever waits has an attempt left: reserve, which does not look at the
\* count, never goes beyond max_attempts.
WaitingHasAttempts ==
    \A r \in Requests : state[r] = "pending" => attempts[r] < MaxAttempts

Promise == INSTANCE Frontier
            WITH open    <- {r \in Requests : state[r] \in {"pending", "running"}},
                 settled <- {r \in Requests : state[r] \in {"done", "failed"}},
                 tries   <- attempts

\* The queue keeps the promise of Frontier, whatever order complete, fail and
\* reclaim_stale come in.
ImplementsFrontier == Promise!FrontierSpec
=============================================================================
