------------------------------ MODULE JobBoard ------------------------------
(***************************************************************************)
(* What the job queue of backend/job_queue.py promises, with the clock,    *)
(* the worker table and the network left out: a job is posted once, is     *)
(* handed to one worker at a time, can be taken back while nobody has      *)
(* settled it, and is settled only by the worker it is handed to.  A       *)
(* settled job stays settled and stays with that worker; only that worker  *)
(* can file another outcome for it.                                        *)
(***************************************************************************)

CONSTANTS Jobs, Workers, None

VARIABLES status,  \* the life cycle of each job
          holder   \* the worker a job is handed to, or None

boardVars == <<status, holder>>

Settled == {"done", "failed"}

BoardInit ==
    /\ status = [j \in Jobs |-> "absent"]
    /\ holder = [j \in Jobs |-> None]

Post(j) ==
    /\ status[j] = "absent"
    /\ status' = [status EXCEPT ![j] = "pending"]
    /\ UNCHANGED holder

\* A set of unsettled jobs is taken back and one job that is then pending is
\* handed out, in one step.
HandOut(j, w) ==
    \E back \in SUBSET {k \in Jobs : status[k] = "running"} :
        /\ status[j] = "pending" \/ j \in back
        /\ status' = [k \in Jobs |-> IF k = j THEN "running"
                                     ELSE IF k \in back THEN "pending"
                                     ELSE status[k]]
        /\ holder' = [k \in Jobs |-> IF k = j THEN w
                                     ELSE IF k \in back THEN None
                                     ELSE holder[k]]

Settle(j, w) ==
    /\ status[j] \in {"running"} \union Settled
    /\ holder[j] = w
    /\ \E outcome \in Settled : status' = [status EXCEPT ![j] = outcome]
    /\ UNCHANGED holder

BoardNext ==
    \E j \in Jobs :
        \/ Post(j)
        \/ \E w \in Workers : HandOut(j, w) \/ Settle(j, w)

BoardSpec == BoardInit /\ [][BoardNext]_boardVars
=============================================================================
