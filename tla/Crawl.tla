------------------------------- MODULE Crawl -------------------------------
(***************************************************************************)
(* A crawl over RequestQueue and KVStore as backend/collections.py means   *)
(* them to be used: a session reserves requests, fetches them in several   *)
(* tasks, puts what it fetched and completes, or fails, the request.  The  *)
(* session is killed at the platform's limit, wherever it is, and a later  *)
(* one goes on from the files.                                             *)
(*                                                                         *)
(* The fetch is external.  Each attempt brings other content, of any size. *)
(* The store is keyed by the request's key.  The calls of one session do   *)
(* not overlap, its fetches do.                                            *)
(***************************************************************************)
EXTENDS RequestQueue, KVStore

CONSTANTS Tasks,      \* fetches a session has in flight
          None,
          MaxKills    \* bound: sessions killed

ASSUME CrawlAssumption ==
    /\ Keys = Requests /\ IsFiniteSet(Requests) /\ None \notin Requests
    /\ Contents = 1 .. MaxAttempts
    /\ MaxKills \in Nat

VARIABLES up,       \* a session runs
          request,  \* the request a task has in hand
          step,     \* its next step: "fetch", "complete"
          attempt,  \* the attempt it works on
          kills,
          doubled,  \* history: requests reclaimed from a task still at work
          dropped,  \* history: keys whose content a kill took
          reput     \* history: a key that was in a pack was put again

sessionVars == <<up, request, step, attempt>>
history == <<kills, doubled, dropped, reput>>
vars == <<queueVars, kvVars, sessionVars, history>>

TypeOK ==
    /\ QueueTypeOK /\ KVTypeOK
    /\ up \in BOOLEAN
    /\ request \in [Tasks -> Requests \union {None}]
    /\ step \in [Tasks -> {"fetch", "complete"}]
    /\ attempt \in [Tasks -> 0 .. MaxAttempts]
    /\ kills \in 0 .. MaxKills
    /\ doubled \subseteq Requests /\ dropped \subseteq Keys /\ reput \in BOOLEAN

Idle == /\ request = [t \in Tasks |-> None]
        /\ step = [t \in Tasks |-> "fetch"]
        /\ attempt = [t \in Tasks |-> 0]

Init == /\ QueueInit /\ KVInit /\ Idle
        /\ up = FALSE /\ kills = 0
        /\ doubled = {} /\ dropped = {} /\ reput = FALSE

-----------------------------------------------------------------------------

Start == /\ ~up /\ up' = TRUE
         /\ UNCHANGED <<queueVars, kvVars, request, step, attempt, history>>

\* The seed, or a link found in a page.
Discover(r) == up /\ Add(r) /\ UNCHANGED <<kvVars, sessionVars, history>>

Take(t, r) ==
    /\ up /\ request[t] = None /\ Reserve(r)
    /\ request' = [request EXCEPT ![t] = r]
    /\ step' = [step EXCEPT ![t] = "fetch"]
    /\ attempt' = [attempt EXCEPT ![t] = attempts'[r]]
    /\ UNCHANGED <<kvVars, up, history>>

Working(t) == up /\ request[t] # None

\* The fetch succeeded: put the content.
Store(t, small) ==
    LET r == request[t]
    IN  /\ Working(t) /\ step[t] = "fetch"
        /\ Put(r, attempt[t], small)
        /\ step' = [step EXCEPT ![t] = "complete"]
        /\ dropped' = dropped \ {r}
        /\ reput' = (reput \/ index[r].pack # 0)
        /\ UNCHANGED <<queueVars, up, request, attempt, kills, doubled>>

Release(t) == /\ request' = [request EXCEPT ![t] = None]
              /\ step' = [step EXCEPT ![t] = "fetch"]
              /\ attempt' = [attempt EXCEPT ![t] = 0]

Succeed(t) ==
    /\ Working(t) /\ step[t] = "complete"
    /\ Complete(request[t]) /\ Release(t)
    /\ UNCHANGED <<kvVars, up, history>>

\* The fetch failed.
GiveUp(t) ==
    /\ Working(t) /\ step[t] = "fetch"
    /\ Fail(request[t]) /\ Release(t)
    /\ UNCHANGED <<kvVars, up, history>>

Reclaim ==
    /\ up /\ ReclaimStale
    /\ doubled' = doubled \union (Reclaimable \intersect {request[t] : t \in Tasks})
    /\ UNCHANGED <<kvVars, sessionVars, kills, dropped, reput>>

PackAll == up /\ Pack /\ UNCHANGED <<queueVars, sessionVars, history>>

GrowOld(r) == Age(r) /\ UNCHANGED <<kvVars, sessionVars, history>>

\* The blobs that are in memory only, and the index says so.
Volatile == {k \in Waiting : index[k].small /\ index[k].pack = 0}

\* The session is killed between two calls, or inside put or pack.
Kill ==
    /\ up /\ kills < MaxKills
    /\ up' = FALSE /\ kills' = kills + 1
    /\ request' = [t \in Tasks |-> None]
    /\ step' = [t \in Tasks |-> "fetch"]
    /\ attempt' = [t \in Tasks |-> 0]
    /\ \/ (Forget \/ DieInPack) /\ dropped' = dropped \union Volatile
       \/ \E t \in Tasks :
            /\ request[t] # None /\ step[t] = "fetch"
            /\ DieInPut(request[t], attempt[t])
            /\ dropped' = dropped \union Volatile \union {request[t]}
    /\ UNCHANGED <<queueVars, doubled, reput>>

Next ==
    \/ Start \/ Reclaim \/ PackAll \/ Kill
    \/ \E r \in Requests : Discover(r) \/ GrowOld(r)
    \/ \E t \in Tasks : \/ \E r \in Requests : Take(t, r)
                        \/ \E small \in BOOLEAN : Store(t, small)
                        \/ Succeed(t) \/ GiveUp(t)

\* Sessions are started again and go on, a fetch ends, time passes, and a
\* session reclaims what an earlier one left.
Fairness ==
    /\ WF_vars(Start) /\ WF_vars(Reclaim)
    /\ \A r \in Requests : WF_vars(GrowOld(r))
    /\ \A t \in Tasks : /\ WF_vars(\E r \in Requests : Take(t, r))
                        /\ WF_vars(Succeed(t))
                        /\ WF_vars(GiveUp(t) \/ \E small \in BOOLEAN : Store(t, small))

Spec == Init /\ [][Next]_vars /\ Fairness

-----------------------------------------------------------------------------
(* Properties *)

\* collections.py:22-23, "a crawl that loses its network still has its data":
\* a request that is done leads to its content, unless a kill took the content
\* (it was only in memory, or being written), or a key was put again after it
\* was packed, which makes the number of the next pack fall back onto one in use.
DoneResolves ==
    /\ TypeOK
    /\ \A r \in Requests :
        state[r] = "done" => Resolves(r) \/ r \in dropped \/ reput

\* A request that is done is opened again only by the late failure of a fetch
\* that reclaim_stale had already given to another task.
ReopenedOnlyLate ==
    [][\A r \in Requests :
        state[r] = "done" /\ state'[r] # "done" => r \in doubled]_vars

\* Every request that is added is done or given up in the end, however many
\* sessions that takes.
RequestsSettle ==
    <>[](\A r \in Requests : state[r] \in {"absent", "done", "failed"})
=============================================================================
