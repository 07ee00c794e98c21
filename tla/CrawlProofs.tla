---------------------------- MODULE CrawlProofs ----------------------------
(***************************************************************************)
(* The frontier keeps its promise for any number of requests, any number   *)
(* of attempts and any crawl: RequestQueue on its own first, then as Crawl *)
(* uses it.                                                                *)
(***************************************************************************)
EXTENDS Crawl, SequenceTheorems, FiniteSetTheorems, TLAPS

USE QueueAssumption

\* A request that was never added was never tried.
Untried == \A r \in Requests : state[r] = "absent" => attempts[r] = 0

\* What the queue needs to be inductive.
QueueInv == QueueTypeOK /\ WaitingHasAttempts /\ Untried

\* It holds of the empty queue.
LEMMA QueueInitInv == QueueInit => QueueInv
BY DEF QueueInit, QueueInv, QueueTypeOK, WaitingHasAttempts, Untried, States

\* Reserve takes a request that waits.
LEMMA FirstWaits ==
    ASSUME NEW r \in Requests, First(r)
    PROVE  state[r] = "pending"
BY DEF First

\* A failed attempt leaves the request waiting, or given up.
LEMMA RetriedIsState ==
    ASSUME NEW r \in Requests
    PROVE  Retried(r) \in {"pending", "failed"}
BY DEF Retried

\* Every operation preserves the types, and leaves an attempt to who waits.
LEMMA QueueStep == QueueInv /\ [QueueNext]_queueVars => QueueInv'
<1> SUFFICES ASSUME QueueInv, [QueueNext]_queueVars
             PROVE  QueueInv'
  OBVIOUS
<1> USE DEF QueueInv, QueueTypeOK, WaitingHasAttempts, Untried, States
<1>1. ASSUME NEW r \in Requests, Add(r)
      PROVE  QueueInv'
  <2>1. order' \in Seq(Requests)
    BY <1>1, AppendProperties DEF Add
  <2>2. attempts[r] < MaxAttempts
    BY <1>1 DEF Add
  <2>. QED
    BY <1>1, <2>1, <2>2 DEF Add
<1>2. ASSUME NEW r \in Requests, Reserve(r)
      PROVE  QueueInv'
  <2>1. attempts[r] < MaxAttempts
    BY <1>2, FirstWaits DEF Reserve
  <2>2. attempts[r] + 1 \in 0 .. MaxAttempts
    BY <2>1
  <2>. QED
    BY <1>2, <2>2 DEF Reserve
<1>3. ASSUME NEW r \in Requests, Complete(r)
      PROVE  QueueInv'
  BY <1>3 DEF Complete
<1>4. ASSUME NEW r \in Requests, Fail(r)
      PROVE  QueueInv'
  BY <1>4 DEF Fail, Retried
<1>5. ASSUME NEW r \in Requests, Age(r)
      PROVE  QueueInv'
  BY <1>5 DEF Age
<1>6. CASE ReclaimStale
  BY <1>6 DEF ReclaimStale, Retried
<1>7. CASE UNCHANGED queueVars
  BY <1>7 DEF queueVars
<1>. QED
  BY <1>1, <1>2, <1>3, <1>4, <1>5, <1>6, <1>7 DEF QueueNext

-----------------------------------------------------------------------------
(* The refinement: every operation is a step of Frontier, or none. *)

Open == {r \in Requests : state[r] \in {"pending", "running"}}
Closed == {r \in Requests : state[r] \in {"done", "failed"}}

USE DEF Open, Closed

\* An operation that changes neither the requests that are open, nor those
\* that are settled, nor the attempts, is no step of Frontier.
LEMMA Stutters ==
    ASSUME Open' = Open, Closed' = Closed, attempts' = attempts
    PROVE  UNCHANGED Promise!vars
BY DEF Promise!vars

\* The empty queue maps to the empty frontier.
LEMMA MapsInit == QueueInit => Promise!FrontierInit
BY DEF QueueInit, Promise!FrontierInit

\* Every operation maps to one step of Frontier at most.
LEMMA Maps == QueueInv /\ [QueueNext]_queueVars => [Promise!FrontierNext]_(Promise!vars)
<1> SUFFICES ASSUME QueueInv, [QueueNext]_queueVars
             PROVE  Promise!FrontierNext \/ UNCHANGED Promise!vars
  OBVIOUS
<1> USE DEF QueueInv, QueueTypeOK, States
<1>1. ASSUME NEW r \in Requests, Add(r)
      PROVE  Promise!Discover(r)
  BY <1>1 DEF Add, Promise!Discover
<1>2. ASSUME NEW r \in Requests, Reserve(r)
      PROVE  Promise!Try(r)
  <2>1. state[r] = "pending"
    BY <1>2, FirstWaits DEF Reserve
  <2>2. attempts[r] < MaxAttempts
    BY <2>1 DEF WaitingHasAttempts
  <2>3. Open' = Open /\ Closed' = Closed
    BY <1>2, <2>1 DEF Reserve
  <2>. QED
    BY <1>2, <2>1, <2>2, <2>3 DEF Reserve, Promise!Try
<1>3. ASSUME NEW r \in Requests, Complete(r)
      PROVE  Promise!Settle({r}) \/ UNCHANGED Promise!vars
  <2>1. CASE r \in Open
    BY <1>3, <2>1 DEF Complete, Promise!Settle
  <2>2. CASE r \notin Open
    <3>1. Open' = Open /\ Closed' = Closed
      BY <1>3, <2>2 DEF Complete
    <3>. QED
      BY <1>3, <3>1, Stutters DEF Complete
  <2>. QED
    BY <2>1, <2>2
<1>4. ASSUME NEW r \in Requests, Fail(r)
      PROVE  \/ Promise!Settle({r}) \/ Promise!Reopen(r)
             \/ UNCHANGED Promise!vars
  <2>1. CASE Retried(r) = "failed" /\ r \in Open
    BY <1>4, <2>1 DEF Fail, Promise!Settle
  <2>2. CASE Retried(r) = "pending" /\ r \in Closed
    <3>1. attempts[r] < MaxAttempts
      BY <2>2 DEF Retried
    <3>. QED
      BY <1>4, <2>2, <3>1 DEF Fail, Promise!Reopen
  <2>3. CASE Retried(r) = "pending" <=> r \in Open
    <3>1. Open' = Open /\ Closed' = Closed
      BY <1>4, <2>3, RetriedIsState DEF Fail
    <3>. QED
      BY <1>4, <3>1, Stutters DEF Fail
  <2>. QED
    BY <1>4, <2>1, <2>2, <2>3, RetriedIsState DEF Fail
<1>5. ASSUME NEW r \in Requests, Age(r)
      PROVE  UNCHANGED Promise!vars
  BY <1>5, Stutters DEF Age
<1>6. ASSUME ReclaimStale
      PROVE  \E R \in SUBSET Requests : Promise!Settle(R)
  <2>1. PICK R \in SUBSET Requests :
               R = {r \in Reclaimable : Retried(r) = "failed"}
    BY DEF Reclaimable
  <2>2. R \subseteq Open
    BY <2>1 DEF Reclaimable
  <2>3. Open' = Open \ R /\ Closed' = Closed \union R
    BY <1>6, <2>1, RetriedIsState DEF ReclaimStale, Reclaimable
  <2>4. Promise!Settle(R)
    BY <1>6, <2>2, <2>3 DEF ReclaimStale, Promise!Settle
  <2>. QED
    BY <2>4
<1>7. CASE UNCHANGED queueVars
  BY <1>7, Stutters DEF queueVars
<1>. QED
  BY <1>1, <1>2, <1>3, <1>4, <1>5, <1>6, <1>7 DEF QueueNext, Promise!FrontierNext

\* collections.py RequestQueue, operated on in any order: a request it knows is
\* not forgotten, is tried at most max_attempts times, and is open again after
\* it was settled only while attempts remain.
THEOREM QueueKeepsPromise == QueueSpec => ImplementsFrontier
<1>. QED
  BY MapsInit, QueueInitInv, QueueStep, Maps, PTL
     DEF QueueSpec, ImplementsFrontier, Promise!FrontierSpec

-----------------------------------------------------------------------------
(* The crawl uses the queue through its operations only. *)

\* What a task has in hand is a request.
InHand == request \in [Tasks -> Requests \union {None}]

\* No step of the crawl puts anything else into a task's hand.
LEMMA InHandStep == InHand /\ [Next]_vars => InHand'
<1> SUFFICES ASSUME InHand, [Next]_vars PROVE InHand'
  OBVIOUS
<1> USE DEF InHand
<1>1. CASE Start \/ Reclaim \/ PackAll \/ Kill
  BY <1>1 DEF Start, Reclaim, PackAll, Kill, sessionVars
<1>2. ASSUME NEW r \in Requests, Discover(r) \/ GrowOld(r)
      PROVE  InHand'
  BY <1>2 DEF Discover, GrowOld, sessionVars
<1>3. ASSUME NEW t \in Tasks, NEW r \in Requests, Take(t, r)
      PROVE  InHand'
  BY <1>3 DEF Take
<1>4. ASSUME NEW t \in Tasks, NEW small \in BOOLEAN, Store(t, small)
      PROVE  InHand'
  BY <1>4 DEF Store
<1>5. ASSUME NEW t \in Tasks, Succeed(t) \/ GiveUp(t)
      PROVE  InHand'
  BY <1>5 DEF Succeed, GiveUp, Release
<1>6. CASE UNCHANGED vars
  BY <1>6 DEF vars, sessionVars
<1>. QED
  BY <1>1, <1>2, <1>3, <1>4, <1>5, <1>6 DEF Next

\* A step of the crawl is an operation of the queue, or leaves it alone.
LEMMA CrawlUsesQueue == InHand /\ [Next]_vars => [QueueNext]_queueVars
<1> SUFFICES ASSUME InHand, Next PROVE QueueNext \/ UNCHANGED queueVars
  BY DEF vars, queueVars
<1>1. CASE Start \/ PackAll \/ Kill
  BY <1>1 DEF Start, PackAll, Kill
<1>2. CASE Reclaim
  BY <1>2 DEF Reclaim, QueueNext
<1>3. ASSUME NEW r \in Requests, Discover(r) \/ GrowOld(r)
      PROVE  QueueNext
  BY <1>3 DEF Discover, GrowOld, QueueNext
<1>4. ASSUME NEW t \in Tasks, NEW r \in Requests, Take(t, r)
      PROVE  QueueNext
  BY <1>4 DEF Take, QueueNext
<1>5. ASSUME NEW t \in Tasks, NEW small \in BOOLEAN, Store(t, small)
      PROVE  UNCHANGED queueVars
  BY <1>5 DEF Store
<1>6. ASSUME NEW t \in Tasks, Succeed(t) \/ GiveUp(t)
      PROVE  QueueNext
  <2>1. request[t] \in Requests
    BY <1>6 DEF InHand, Succeed, GiveUp, Working
  <2>2. PICK r \in Requests : r = request[t]
    BY <2>1
  <2>3. Complete(r) \/ Fail(r)
    BY <1>6, <2>2 DEF Succeed, GiveUp, Complete, Fail
  <2>. QED
    BY <2>3 DEF QueueNext
<1>. QED
  BY <1>1, <1>2, <1>3, <1>4, <1>5, <1>6 DEF Next

\* A crawl begins with an empty queue and idle tasks.
LEMMA CrawlInit == Init => QueueInit /\ InHand
BY DEF Init, Idle, InHand

\* Whoever waits has an attempt left, in a crawl whose sessions are killed
\* anywhere: reserve, which does not look at the count, never exceeds
\* max_attempts.
THEOREM CrawlAttempts == Spec => [](QueueTypeOK /\ WaitingHasAttempts)
<1>1. QueueInv => QueueTypeOK /\ WaitingHasAttempts
  BY DEF QueueInv
<1>. QED
  BY <1>1, CrawlInit, QueueInitInv, InHandStep, CrawlUsesQueue, QueueStep, PTL
     DEF Spec

\* The crawl, its sessions killed anywhere, sees the frontier that Frontier
\* promises.
THEOREM CrawlKeepsPromise == Spec => ImplementsFrontier
<1>. QED
  BY MapsInit, CrawlInit, QueueInitInv, InHandStep, CrawlUsesQueue, QueueStep, Maps, PTL
     DEF Spec, ImplementsFrontier, Promise!FrontierSpec

-----------------------------------------------------------------------------
(* Who works on a request *)

\* A request in a task's hand is running and in no other's, unless it was
\* reclaimed from a task that was still at work.
OneAtWork ==
    \A t \in Tasks :
        request[t] # None /\ request[t] \notin doubled =>
            /\ state[request[t]] = "running"
            /\ \A u \in Tasks : request[u] = request[t] => u = t

\* Reserving, completing, failing and reclaiming leave it so.
LEMMA OneAtWorkStep ==
    ASSUME InHand, OneAtWork, QueueInv, [Next]_vars
    PROVE  OneAtWork'
<1> USE CrawlAssumption DEF InHand, OneAtWork, QueueInv, QueueTypeOK
<1>1. CASE Start \/ PackAll
  BY <1>1 DEF Start, PackAll, queueVars, sessionVars, history
<1>2. CASE Kill
  BY <1>2 DEF Kill
<1>3. CASE Reclaim
  BY <1>3 DEF Reclaim, ReclaimStale, sessionVars
<1>4. ASSUME NEW r \in Requests, Discover(r)
      PROVE  OneAtWork'
  BY <1>4 DEF Discover, Add, sessionVars, history
<1>5. ASSUME NEW r \in Requests, GrowOld(r)
      PROVE  OneAtWork'
  BY <1>5 DEF GrowOld, Age, sessionVars, history
<1>6. ASSUME NEW t \in Tasks, NEW r \in Requests, Take(t, r)
      PROVE  OneAtWork'
  <2>1. state[r] = "pending" /\ state' = [state EXCEPT ![r] = "running"]
    BY <1>6, FirstWaits DEF Take, Reserve
  <2> QED
    BY <1>6, <2>1 DEF Take, history
<1>7. ASSUME NEW t \in Tasks, NEW small \in BOOLEAN, Store(t, small)
      PROVE  OneAtWork'
  BY <1>7 DEF Store, queueVars
<1>8. ASSUME NEW t \in Tasks, Succeed(t) \/ GiveUp(t)
      PROVE  OneAtWork'
  <2>1. PICK r \in Requests : r = request[t]
    BY <1>8 DEF Succeed, GiveUp, Working
  <2>2. \A q \in Requests : q # r => state'[q] = state[q]
    BY <1>8, <2>1 DEF Succeed, GiveUp, Complete, Fail
  <2>3. /\ request' = [request EXCEPT ![t] = None] /\ doubled' = doubled
    BY <1>8 DEF Succeed, GiveUp, Release, history
  <2>4. \A u \in Tasks : request'[u] # None => u # t /\ request'[u] = request[u]
    BY <2>3
  <2> SUFFICES ASSUME NEW u \in Tasks, request'[u] # None, request'[u] \notin doubled'
               PROVE  /\ state'[request'[u]] = "running"
                      /\ \A v \in Tasks : request'[v] = request'[u] => v = u
    OBVIOUS
  <2>5. /\ u # t /\ request'[u] = request[u] /\ state[request[u]] = "running"
        /\ \A v \in Tasks : request[v] = request[u] => v = u
    BY <2>3, <2>4
  <2>6. request[u] # r /\ request[u] \in Requests
    BY <2>1, <2>4, <2>5
  <2> QED
    BY <2>2, <2>4, <2>5, <2>6
<1>9. CASE UNCHANGED vars
  BY <1>9 DEF vars, queueVars, sessionVars, history
<1> QED
  BY <1>1, <1>2, <1>3, <1>4, <1>5, <1>6, <1>7, <1>8, <1>9 DEF Next

\* complete and fail do not look at the state: the answer of a task that lost
\* its request may open it again, nothing else does.
THEOREM CrawlReopensLate == Spec => ReopenedOnlyLate
<1>1. Init => OneAtWork
  BY DEF Init, Idle, OneAtWork
<1>2. ASSUME InHand, OneAtWork, QueueInv, [Next]_vars,
             NEW r \in Requests, state[r] = "done", state'[r] # "done"
      PROVE  r \in doubled
  <2> USE <1>2 DEF QueueInv, QueueTypeOK
  <2>1. ASSUME NEW q \in Requests, Discover(q) \/ GrowOld(q) PROVE FALSE
    BY <2>1 DEF Discover, GrowOld, Add, Age
  <2>2. ASSUME NEW t \in Tasks, NEW q \in Requests, Take(t, q) PROVE FALSE
    BY <2>2, FirstWaits DEF Take, Reserve
  <2>3. ASSUME Reclaim PROVE FALSE
    BY <2>3 DEF Reclaim, ReclaimStale, Reclaimable
  <2>4. ASSUME NEW t \in Tasks, Succeed(t) PROVE FALSE
    BY <2>4 DEF Succeed, Complete
  <2>5. ASSUME NEW t \in Tasks, GiveUp(t) PROVE r \in doubled
    <3>1. request[t] = r /\ request[t] # None
      BY <2>5 DEF GiveUp, Fail, Working
    <3> QED
      BY <3>1 DEF OneAtWork
  <2> QED
    BY <2>1, <2>2, <2>3, <2>4, <2>5
       DEF Next, Start, PackAll, Kill, Store, vars, queueVars
<1>3. InHand /\ OneAtWork /\ QueueInv /\ [Next]_vars
        => [\A r \in Requests :
              state[r] = "done" /\ state'[r] # "done" => r \in doubled]_vars
  BY <1>2
<1>4. InHand /\ OneAtWork /\ QueueInv /\ [Next]_vars => OneAtWork'
  BY OneAtWorkStep
<1> QED
  BY <1>1, <1>3, <1>4, CrawlInit, QueueInitInv, InHandStep, CrawlUsesQueue, QueueStep,
     PTL DEF Spec, ReopenedOnlyLate

-----------------------------------------------------------------------------
(* What the store holds *)

Packed == {k \in Keys : index[k].pack # 0}

\* A blob that waits in memory is in no pack.
WaitingUnpacked == Waiting \intersect Packed = {}

\* Packs are numbered by how many keys are packed: the next one is new.
PacksNumbered == ~reput => \A k \in Keys : index[k].pack <= Cardinality(Packed)

\* An entry leads to its content, but for what DoneResolves excepts.
EntriesResolve ==
    \A k \in Keys : index[k].content # 0 => Resolves(k) \/ k \in dropped \/ reput

\* What is done, or about to be completed, has an entry.
DoneHasEntry ==
    /\ \A r \in Requests : state[r] = "done" => index[r].content # 0
    /\ \A t \in Tasks : request[t] # None =>
          /\ attempt[t] # 0
          /\ step[t] = "complete" => index[request[t]].content # 0

StoreInv == /\ TypeOK /\ WaitingUnpacked /\ PacksNumbered /\ EntriesResolve
            /\ DoneHasEntry

\* Packing gives new keys a pack, whose number is in range and not in use.
LEMMA NextPackIsNew ==
    ASSUME StoreInv, Waiting # {}
    PROVE  /\ NextPack \in Packs
           /\ NextPack = 1 + Cardinality(Packed)
           /\ NextPack <= Cardinality(Packed \union Waiting)
           /\ ~reput => \A k \in Keys : index[k].pack # NextPack
<1> USE CrawlAssumption
<1>1. Packed \subseteq Keys /\ Waiting \subseteq Keys
  BY DEF Packed, Waiting
<1>2. /\ IsFiniteSet(Keys) /\ IsFiniteSet(Packed) /\ IsFiniteSet(Waiting)
      /\ Cardinality(Packed) \in Nat /\ Cardinality(Keys) \in Nat
      /\ Cardinality(Packed) <= Cardinality(Keys)
  BY <1>1, FS_Subset, FS_CardinalityType
<1>3. NextPack = 1 + Cardinality(Packed)
  BY DEF NextPack, Packed
<1>4. PICK k \in Waiting : k \notin Packed
  BY DEF StoreInv, WaitingUnpacked
<1>5. /\ IsFiniteSet(Packed \union {k})
      /\ Cardinality(Packed \union {k}) = Cardinality(Packed) + 1
  BY <1>2, <1>4, FS_AddElement
<1>6. /\ IsFiniteSet(Packed \union Waiting)
      /\ Cardinality(Packed \union Waiting) \in Nat
  BY <1>2, FS_Union, FS_CardinalityType
<1>7. Cardinality(Packed \union {k}) <= Cardinality(Packed \union Waiting)
  BY <1>4, <1>6, FS_Subset
<1>8. \A q \in Keys : index[q].pack \in Nat
  BY <1>2 DEF StoreInv, TypeOK, KVTypeOK, Packs
<1>9. ASSUME ~reput, NEW q \in Keys PROVE index[q].pack # NextPack
  <2>1. index[q].pack <= Cardinality(Packed)
    BY <1>9 DEF StoreInv, PacksNumbered
  <2> QED
    BY <1>2, <1>3, <1>8, <2>1
<1> QED
  BY <1>2, <1>3, <1>5, <1>7, <1>9 DEF Packs

LEMMA StoreInitInv == Init => StoreInv
<1> SUFFICES ASSUME Init PROVE StoreInv
  OBVIOUS
<1> USE CrawlAssumption DEF Init, Idle, QueueInit, KVInit, NoEntry, Nothing
<1>1. KVTypeOK
  BY DEF KVTypeOK
<1>2. QueueTypeOK
  BY DEF QueueTypeOK, States
<1>3. TypeOK
  <2>1. attempt \in [Tasks -> 0 .. MaxAttempts] /\ kills \in 0 .. MaxKills
    OBVIOUS
  <2>2. step \in [Tasks -> {"fetch", "complete"}]
    OBVIOUS
  <2>3. request \in [Tasks -> Requests \union {None}]
    OBVIOUS
  <2>4. doubled \subseteq Requests /\ dropped \subseteq Keys
    OBVIOUS
  <2>5. up \in BOOLEAN /\ reput \in BOOLEAN
    OBVIOUS
  <2> QED
    BY ONLY <1>1, <1>2, <2>1, <2>2, <2>3, <2>4, <2>5 DEF TypeOK
<1>4. Packed = {} /\ Waiting = {}
  BY DEF Packed, Waiting
<1>5. Cardinality(Packed) = 0
  BY <1>4, FS_EmptySet
<1>6. PacksNumbered
  <2>1. \A k \in Keys : index[k].pack = 0
    OBVIOUS
  <2> QED
    BY ONLY <1>5, <2>1 DEF PacksNumbered
<1> QED
  BY <1>3, <1>4, <1>6 DEF StoreInv, WaitingUnpacked, EntriesResolve, DoneHasEntry

\* A put replaces the entry and the content of one key.
LEMMA PutKeeps ==
    ASSUME StoreInv, NEW t \in Tasks, NEW small \in BOOLEAN, Store(t, small)
    PROVE  StoreInv'
<1> USE CrawlAssumption
<1>1. PICK r \in Requests : r = request[t]
  BY DEF StoreInv, TypeOK, Store, Working
<1>2. attempt[t] \in 1 .. MaxAttempts /\ attempt[t] \in Contents
  BY <1>1 DEF StoreInv, TypeOK, DoneHasEntry
<1>3. /\ index' = [index EXCEPT ![r] = Entry(attempt[t], small)]
      /\ small => inline' = [inline EXCEPT ![r] = attempt[t]] /\ blobs' = blobs
      /\ ~small => blobs' = [blobs EXCEPT ![r] = attempt[t]] /\ inline' = inline
      /\ packs' = packs
      /\ dropped' = dropped \ {r} /\ reput' = (reput \/ index[r].pack # 0)
  BY <1>1 DEF Store, Put
<1>4. Entry(attempt[t], small) \in
        [content : Contents \union {0}, small : BOOLEAN, pack : Packs \union {0}]
  BY <1>2 DEF Entry
<1>5. KVTypeOK'
  BY <1>2, <1>3, <1>4 DEF StoreInv, TypeOK, KVTypeOK
<1>6. QueueTypeOK'
  BY DEF StoreInv, TypeOK, Store, queueVars, QueueTypeOK
<1>7. TypeOK'
  BY <1>3, <1>5, <1>6 DEF StoreInv, TypeOK, Store
<1>8. /\ index'[r].content = attempt[t] /\ index'[r].small = small
      /\ index'[r].pack = 0
      /\ \A k \in Keys : k # r => index'[k] = index[k]
  BY <1>3 DEF StoreInv, TypeOK, KVTypeOK, Entry
<1>9. \A k \in Keys : k # r => inline'[k] = inline[k] /\ blobs'[k] = blobs[k]
  BY <1>3 DEF StoreInv, TypeOK, KVTypeOK
<1>10. Resolves(r)'
  <2>1. CASE small
    <3>1. inline'[r] = attempt[t]
      BY <1>3, <2>1 DEF StoreInv, TypeOK, KVTypeOK
    <3> QED
      BY <1>2, <1>8, <2>1, <3>1 DEF Resolves
  <2>2. CASE ~small
    <3>1. blobs'[r] = attempt[t]
      BY <1>3, <2>2 DEF StoreInv, TypeOK, KVTypeOK
    <3> QED
      BY <1>2, <1>8, <2>2, <3>1 DEF Resolves
  <2> QED
    BY <2>1, <2>2
<1>11. ASSUME NEW k \in Keys, k # r, Resolves(k) PROVE Resolves(k)'
  BY <1>3, <1>8, <1>9, <1>11 DEF Resolves
<1>12. EntriesResolve'
  BY <1>3, <1>8, <1>10, <1>11 DEF StoreInv, EntriesResolve
<1>13. WaitingUnpacked'
  BY <1>8, <1>9 DEF StoreInv, WaitingUnpacked, Waiting, Packed
<1>14. PacksNumbered'
  <2> SUFFICES ASSUME ~reput' PROVE \A k \in Keys : index'[k].pack <= Cardinality(Packed')
    BY DEF PacksNumbered
  <2>1. ~reput /\ index[r].pack = 0
    BY <1>3
  <2>2. \A k \in Keys : index'[k].pack = index[k].pack
    BY <1>8, <2>1
  <2>3. Packed' = Packed
    BY <2>2 DEF Packed
  <2> QED
    BY <2>1, <2>2, <2>3 DEF StoreInv, PacksNumbered
<1>15. DoneHasEntry'
  <2>1. \A k \in Keys : index[k].content # 0 \/ k = r => index'[k].content # 0
    BY <1>2, <1>8
  <2>2. /\ UNCHANGED <<state, request, attempt>>
        /\ step' = [step EXCEPT ![t] = "complete"]
    BY DEF Store, queueVars
  <2>3. ASSUME NEW u \in Tasks, request[u] # None, step'[u] = "complete"
        PROVE  index'[request[u]].content # 0
    BY <1>1, <2>1, <2>2, <2>3 DEF StoreInv, DoneHasEntry, TypeOK
  <2> QED
    BY <2>1, <2>2, <2>3 DEF StoreInv, DoneHasEntry
<1> QED
  BY <1>7, <1>12, <1>13, <1>14, <1>15 DEF StoreInv

\* Packing moves what waits to a pack of its own.
LEMMA PackKeeps ==
    ASSUME StoreInv, PackAll
    PROVE  StoreInv'
<1> USE CrawlAssumption
<1>1. /\ Waiting # {} /\ inline' = Nothing /\ UNCHANGED blobs
      /\ packs' = [packs EXCEPT ![NextPack] = inline]
      /\ index' = [k \in Keys |-> IF k \in Waiting
                                  THEN [index[k] EXCEPT !.pack = NextPack]
                                  ELSE index[k]]
      /\ UNCHANGED <<queueVars, sessionVars, history>>
  BY DEF PackAll, Pack
<1>2. /\ NextPack \in Packs
      /\ NextPack = 1 + Cardinality(Packed)
      /\ NextPack <= Cardinality(Packed \union Waiting)
      /\ ~reput => \A k \in Keys : index[k].pack # NextPack
  BY <1>1, NextPackIsNew
<1>3. KVTypeOK /\ Waiting \subseteq Keys
  BY DEF StoreInv, TypeOK, Waiting
<1>4. \A k \in Keys :
         /\ index'[k].content = index[k].content /\ index'[k].small = index[k].small
         /\ index'[k].pack = IF k \in Waiting THEN NextPack ELSE index[k].pack
  BY <1>1, <1>3 DEF KVTypeOK
<1>5. /\ packs'[NextPack] = inline
      /\ \A n \in Packs : n # NextPack => packs'[n] = packs[n]
  BY <1>1, <1>2, <1>3 DEF KVTypeOK
<1>6. KVTypeOK'
  <2>1. \A k \in Keys : [index[k] EXCEPT !.pack = NextPack]
           \in [content : Contents \union {0}, small : BOOLEAN, pack : Packs \union {0}]
    <3> TAKE k \in Keys
    <3>1. index[k] \in [content : Contents \union {0}, small : BOOLEAN,
                        pack : Packs \union {0}]
      BY <1>3 DEF KVTypeOK
    <3> QED
      BY ONLY <1>2, <3>1
  <2>2. index' \in [Keys -> [content : Contents \union {0}, small : BOOLEAN,
                             pack : Packs \union {0}]]
    BY <1>1, <1>3, <2>1 DEF KVTypeOK
  <2>3. inline' \in [Keys -> Contents \union {0}] /\ blobs' \in [Keys -> Contents \union {0}]
    BY <1>1, <1>3 DEF KVTypeOK, Nothing
  <2>4. packs' \in [Packs -> [Keys -> Contents \union {0}]]
    BY <1>1, <1>2, <1>3 DEF KVTypeOK
  <2> QED
    BY <2>2, <2>3, <2>4 DEF KVTypeOK
<1>7. TypeOK'
  BY <1>1, <1>6 DEF StoreInv, TypeOK, QueueTypeOK, queueVars, sessionVars, history
<1>8. Waiting' = {} /\ Packed' = Packed \union Waiting
  <2>1. NextPack # 0
    BY <1>2 DEF Packs
  <2> QED
    BY <1>1, <1>3, <1>4, <2>1 DEF Waiting, Packed, Nothing
<1>9. EntriesResolve'
  <2> SUFFICES ASSUME NEW k \in Keys, ~reput, Resolves(k)
               PROVE  Resolves(k)'
    BY <1>1, <1>4 DEF StoreInv, EntriesResolve, history
  <2>1. CASE k \in Waiting
    <3>1. index[k].pack = 0
      BY <2>1 DEF StoreInv, WaitingUnpacked, Packed
    <3>2. index'[k].pack = NextPack /\ NextPack # 0
      BY <1>2, <1>4, <2>1 DEF Packs
    <3>3. packs'[index'[k].pack][k] = inline[k]
      BY <1>5, <3>2
    <3> QED
      BY <1>1, <1>4, <3>1, <3>2, <3>3 DEF Resolves
  <2>2. CASE k \notin Waiting
    <3>1. inline[k] = 0 /\ inline'[k] = 0
      BY <1>1, <2>2 DEF Waiting, Nothing
    <3>2. index[k].pack \in Packs \union {0}
      BY <1>3 DEF KVTypeOK
    <3> QED
      BY <1>1, <1>2, <1>4, <1>5, <2>2, <3>1, <3>2 DEF Resolves
  <2> QED
    BY <2>1, <2>2
<1>10. PacksNumbered'
  <2> SUFFICES ASSUME ~reput, NEW k \in Keys
               PROVE  index'[k].pack <= Cardinality(Packed \union Waiting)
    BY <1>1, <1>8 DEF PacksNumbered, history
  <2>1. CASE k \in Waiting
    BY <1>2, <1>4, <2>1
  <2>2. CASE k \notin Waiting
    <3>1. index[k].pack <= Cardinality(Packed) /\ index[k].pack \in Nat
      BY <1>3 DEF StoreInv, PacksNumbered, KVTypeOK, Packs
    <3>2. /\ Cardinality(Packed) \in Nat
          /\ Cardinality(Packed \union Waiting) \in Nat
      BY <1>3, FS_Subset, FS_Union, FS_CardinalityType DEF Packed
    <3> QED
      BY <1>2, <1>4, <2>2, <3>1, <3>2
  <2> QED
    BY <2>1, <2>2
<1>11. DoneHasEntry'
  <2>1. UNCHANGED <<state, request, step, attempt>>
    BY <1>1 DEF queueVars, sessionVars
  <2>2. \A t \in Tasks : request[t] # None => request[t] \in Keys
    BY DEF StoreInv, TypeOK
  <2> QED
    BY <1>4, <2>1, <2>2 DEF StoreInv, DoneHasEntry
<1>12. WaitingUnpacked'
  BY <1>8 DEF WaitingUnpacked
<1> QED
  BY <1>7, <1>9, <1>10, <1>11, <1>12 DEF StoreInv

\* A kill takes what was in memory, and the file that was being written.
LEMMA KillKeeps ==
    ASSUME StoreInv, Kill
    PROVE  StoreInv'
<1> USE CrawlAssumption
<1>1. /\ inline' = Nothing /\ index' = index
      /\ UNCHANGED <<queueVars, doubled, reput>>
      /\ up' = FALSE /\ kills < MaxKills /\ kills' = kills + 1
      /\ request' = [t \in Tasks |-> None]
      /\ step' = [t \in Tasks |-> "fetch"] /\ attempt' = [t \in Tasks |-> 0]
  BY DEF Kill, Forget, DieInPack, DieInPut
<1>2. \/ /\ blobs' = blobs /\ packs' = packs
         /\ dropped' = dropped \union Volatile
      \/ /\ Waiting # {} /\ blobs' = blobs
         /\ packs' \in {[packs EXCEPT ![NextPack] = p] : p \in {Nothing, inline}}
         /\ dropped' = dropped \union Volatile
      \/ \E t \in Tasks :
            /\ request[t] # None /\ packs' = packs
            /\ blobs' \in {[blobs EXCEPT ![request[t]] = c] : c \in {0, attempt[t]}}
            /\ dropped' = dropped \union Volatile \union {request[t]}
  BY DEF Kill, Forget, DieInPack, DieInPut
<1>3. KVTypeOK /\ TypeOK /\ Volatile \subseteq Keys /\ kills \in Nat
  BY DEF StoreInv, TypeOK, Volatile, Waiting
<1>4. /\ blobs' \in [Keys -> Contents \union {0}]
      /\ packs' \in [Packs -> [Keys -> Contents \union {0}]]
      /\ dropped' \subseteq Keys
      /\ \A k \in Keys : blobs'[k] = blobs[k] \/ k \in dropped'
      /\ ~reput => \A k \in Keys : index[k].pack # 0 =>
                       packs'[index[k].pack] = packs[index[k].pack]
      /\ dropped \union Volatile \subseteq dropped'
  <2>0. /\ blobs \in [Keys -> Contents \union {0}] /\ dropped \subseteq Keys
        /\ packs \in [Packs -> [Keys -> Contents \union {0}]]
        /\ inline \in [Keys -> Contents \union {0}]
    BY <1>3 DEF TypeOK, KVTypeOK
  <2>1. CASE blobs' = blobs /\ packs' = packs /\ dropped' = dropped \union Volatile
    BY <1>3, <2>0, <2>1
  <2>2. CASE /\ Waiting # {} /\ blobs' = blobs
             /\ packs' \in {[packs EXCEPT ![NextPack] = p] : p \in {Nothing, inline}}
             /\ dropped' = dropped \union Volatile
    <3>1. NextPack \in Packs /\ (~reput => \A k \in Keys : index[k].pack # NextPack)
      BY <2>2, NextPackIsNew
    <3>2. PICK p \in {Nothing, inline} : packs' = [packs EXCEPT ![NextPack] = p]
      BY <2>2
    <3>3. p \in [Keys -> Contents \union {0}]
      BY <2>0 DEF Nothing
    <3>4. packs' \in [Packs -> [Keys -> Contents \union {0}]]
      BY <2>0, <3>2, <3>3
    <3>5. \A n \in Packs : n # NextPack => packs'[n] = packs[n]
      BY <2>0, <3>2
    <3>6. \A k \in Keys : index[k].pack \in Packs \union {0}
      BY <1>3 DEF KVTypeOK
    <3> QED
      BY <1>3, <2>0, <2>2, <3>1, <3>4, <3>5, <3>6
  <2>3. ASSUME NEW t \in Tasks, request[t] # None, packs' = packs,
               blobs' \in {[blobs EXCEPT ![request[t]] = c] : c \in {0, attempt[t]}},
               dropped' = dropped \union Volatile \union {request[t]}
        PROVE  /\ blobs' \in [Keys -> Contents \union {0}] /\ dropped' \subseteq Keys
               /\ \A k \in Keys : blobs'[k] = blobs[k] \/ k \in dropped'
    <3>1. request[t] \in Keys /\ attempt[t] \in Contents \union {0}
      BY <1>3, <2>3 DEF TypeOK
    <3>2. PICK c \in {0, attempt[t]} : blobs' = [blobs EXCEPT ![request[t]] = c]
      BY <2>3
    <3> QED
      BY <1>3, <2>0, <2>3, <3>1, <3>2
  <2> QED
    BY <1>2, <2>0, <2>1, <2>2, <2>3
<1>5. KVTypeOK'
  BY <1>1, <1>3, <1>4 DEF KVTypeOK, Nothing
<1>6. TypeOK'
  <2>1. QueueTypeOK'
    BY <1>1, <1>3 DEF TypeOK, QueueTypeOK, queueVars
  <2>2. /\ request' \in [Tasks -> Requests \union {None}]
        /\ step' \in [Tasks -> {"fetch", "complete"}]
        /\ attempt' \in [Tasks -> 0 .. MaxAttempts]
    BY <1>1
  <2>3. kills' \in 0 .. MaxKills /\ up' \in BOOLEAN
    <3>1. kills \in 0 .. MaxKills /\ MaxKills \in Nat
      BY <1>3 DEF TypeOK
    <3>2. kills' = kills + 1 /\ kills < MaxKills /\ up' = FALSE
      BY <1>1
    <3>3. kills' \in 0 .. MaxKills
      BY ONLY <3>1, <3>2
    <3>4. up' \in BOOLEAN
      BY <3>2
    <3> QED
      BY <3>3, <3>4
  <2>4. doubled' \subseteq Requests /\ reput' \in BOOLEAN
    BY <1>1, <1>3 DEF TypeOK
  <2> QED
    BY <1>4, <1>5, <2>1, <2>2, <2>3, <2>4 DEF TypeOK
<1>7. Waiting' = {} /\ Packed' = Packed
  BY <1>1 DEF Waiting, Packed, Nothing
<1>8. EntriesResolve'
  <2> SUFFICES ASSUME NEW k \in Keys, ~reput, index[k].content # 0, Resolves(k),
                      k \notin dropped'
               PROVE  Resolves(k)'
    BY <1>1, <1>4 DEF StoreInv, EntriesResolve
  <2>1. index[k].small /\ index[k].pack = 0 => inline[k] = 0
    BY <1>4 DEF Volatile, Waiting
  <2> QED
    BY <1>1, <1>4, <2>1 DEF Resolves
<1>9. PacksNumbered'
  BY <1>1, <1>7 DEF StoreInv, PacksNumbered
<1>10. DoneHasEntry'
  BY <1>1 DEF StoreInv, DoneHasEntry, queueVars
<1> QED
  BY <1>6, <1>7, <1>8, <1>9, <1>10 DEF StoreInv, WaitingUnpacked

\* The other steps leave the store alone.
LEMMA QueueKeepsStore ==
    ASSUME StoreInv, QueueInv, TypeOK', UNCHANGED <<kvVars, dropped, reput>>,
           DoneHasEntry'
    PROVE  StoreInv'
BY DEF StoreInv, WaitingUnpacked, Waiting, PacksNumbered, Packed, EntriesResolve,
       Resolves, kvVars

LEMMA StoreStep ==
    ASSUME StoreInv, QueueInv, QueueInv', [Next]_vars
    PROVE  StoreInv'
<1> USE CrawlAssumption
<1>1. TypeOK /\ KVTypeOK /\ QueueTypeOK' /\ QueueTypeOK
  BY DEF StoreInv, TypeOK, QueueInv
<1>2. ASSUME UNCHANGED kvVars PROVE KVTypeOK'
  BY <1>1, <1>2 DEF KVTypeOK, kvVars
<1>3. CASE Start
  BY <1>1, <1>2, <1>3, QueueKeepsStore
     DEF Start, TypeOK, history, StoreInv, DoneHasEntry, kvVars, queueVars
<1>4. CASE Reclaim
  <2>1. \A r \in Requests : state'[r] = "done" => state[r] = "done"
    BY <1>1, <1>4 DEF Reclaim, ReclaimStale, Retried, QueueTypeOK
  <2>2. doubled' \subseteq Requests
    BY <1>1, <1>4 DEF Reclaim, TypeOK, Reclaimable
  <2> QED
    BY <1>1, <1>2, <1>4, <2>1, <2>2, QueueKeepsStore
       DEF Reclaim, TypeOK, StoreInv, DoneHasEntry, kvVars, sessionVars
<1>5. ASSUME NEW r \in Requests, Discover(r) \/ GrowOld(r) PROVE StoreInv'
  <2>1. \A q \in Requests : state'[q] = "done" => state[q] = "done"
    BY <1>1, <1>5 DEF Discover, GrowOld, Add, Age, QueueTypeOK
  <2> QED
    BY <1>1, <1>2, <1>5, <2>1, QueueKeepsStore
       DEF Discover, GrowOld, TypeOK, StoreInv, DoneHasEntry, kvVars, sessionVars,
           history
<1>6. ASSUME NEW t \in Tasks, NEW r \in Requests, Take(t, r) PROVE StoreInv'
  <2>1. \A q \in Requests : state'[q] = "done" => state[q] = "done"
    BY <1>1, <1>6 DEF Take, Reserve, QueueTypeOK
  <2>2. attempts'[r] \in 1 .. MaxAttempts
    BY <1>1, <1>6 DEF Take, Reserve, QueueTypeOK
  <2>3. /\ request' = [request EXCEPT ![t] = r] /\ step' = [step EXCEPT ![t] = "fetch"]
        /\ attempt' = [attempt EXCEPT ![t] = attempts'[r]]
        /\ UNCHANGED <<kvVars, up, history>>
    BY <1>6 DEF Take
  <2>4. TypeOK'
    BY <1>1, <1>2, <2>2, <2>3 DEF TypeOK, history
  <2>5. DoneHasEntry'
    BY <1>1, <2>1, <2>2, <2>3 DEF StoreInv, DoneHasEntry, TypeOK, kvVars
  <2> QED
    BY <2>3, <2>4, <2>5, QueueKeepsStore DEF history
<1>7. ASSUME NEW t \in Tasks, Succeed(t) \/ GiveUp(t) PROVE StoreInv'
  <2>1. PICK r \in Requests : r = request[t] /\ r # None
    BY <1>1, <1>7 DEF Succeed, GiveUp, Working, TypeOK
  <2>2. \A q \in Requests : state'[q] = "done" =>
            state[q] = "done" \/ (q = r /\ step[t] = "complete")
    BY <1>1, <1>7, <2>1 DEF Succeed, GiveUp, Complete, Fail, Retried, QueueTypeOK
  <2>3. /\ Release(t) /\ UNCHANGED <<kvVars, up, history>>
    BY <1>7 DEF Succeed, GiveUp
  <2>4. TypeOK'
    BY <1>1, <1>2, <2>3 DEF TypeOK, Release, history
  <2>5. DoneHasEntry'
    BY <1>1, <2>1, <2>2, <2>3 DEF StoreInv, DoneHasEntry, TypeOK, Release, kvVars
  <2> QED
    BY <2>3, <2>4, <2>5, QueueKeepsStore DEF history
<1>8. CASE UNCHANGED vars
  BY <1>1, <1>2, <1>8, QueueKeepsStore
     DEF vars, TypeOK, StoreInv, DoneHasEntry, kvVars, queueVars, sessionVars, history
<1> QED
  BY <1>3, <1>4, <1>5, <1>6, <1>7, <1>8, PutKeeps, PackKeeps, KillKeeps DEF Next

\* "A crawl that loses its network still has its data": whatever is done leads
\* to its content, however often sessions are killed, apart from what a kill
\* took and from keys that were put again after they had been packed.
THEOREM CrawlDataResolves == Spec => []DoneResolves
<1>1. StoreInv => DoneResolves
  BY CrawlAssumption DEF StoreInv, DoneHasEntry, EntriesResolve, DoneResolves
<1>2. StoreInv /\ QueueInv /\ QueueInv' /\ [Next]_vars => StoreInv'
  BY StoreStep
<1> QED
  BY <1>1, <1>2, StoreInitInv, CrawlInit, QueueInitInv, InHandStep, CrawlUsesQueue,
     QueueStep, PTL DEF Spec
=============================================================================
