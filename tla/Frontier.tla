------------------------------ MODULE Frontier ------------------------------
(***************************************************************************)
(* What a crawl is promised by collections.RequestQueue: a request that is *)
(* known is not forgotten, is tried at most MaxAttempts times, and is open *)
(* again after it was settled only while attempts remain.                  *)
(***************************************************************************)
EXTENDS Naturals

CONSTANTS Requests, MaxAttempts

VARIABLES open,     \* known and not settled
          settled,  \* done, or given up
          tries

vars == <<open, settled, tries>>

FrontierInit == open = {} /\ settled = {} /\ tries = [r \in Requests |-> 0]

Discover(r) ==
    /\ r \notin open \union settled
    /\ open' = open \union {r}
    /\ UNCHANGED <<settled, tries>>

Try(r) ==
    /\ r \in open /\ tries[r] < MaxAttempts
    /\ tries' = [tries EXCEPT ![r] = @ + 1]
    /\ UNCHANGED <<open, settled>>

Settle(R) ==
    /\ R \subseteq open
    /\ open' = open \ R /\ settled' = settled \union R
    /\ UNCHANGED tries

Reopen(r) ==
    /\ r \in settled /\ tries[r] < MaxAttempts
    /\ settled' = settled \ {r} /\ open' = open \union {r}
    /\ UNCHANGED tries

FrontierNext ==
    \/ \E r \in Requests : Discover(r) \/ Try(r) \/ Reopen(r)
    \/ \E R \in SUBSET Requests : Settle(R)

FrontierSpec == FrontierInit /\ [][FrontierNext]_vars
=============================================================================
