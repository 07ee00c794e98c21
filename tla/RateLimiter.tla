---------------------------- MODULE RateLimiter ----------------------------
(***************************************************************************)
(* The token bucket of backend/pump.py, as one pump or watch uses it.      *)
(* Tokens are counted in units fine enough to be whole: a tick of the      *)
(* clock refills Rate units, a permit costs Cost units, the bucket holds   *)
(* Burst permits (the code's floats are taken as exact).                   *)
(*                                                                         *)
(* A window of observation opens at an arbitrary moment; charged and       *)
(* accrued are the units handed out and refilled since then.               *)
(***************************************************************************)
EXTENDS Naturals

CONSTANTS Rate, Cost, Burst,
          MaxPermits,  \* the largest n of acquire(n)
          MaxPenalty,  \* MAX_BACKOFF_S, in the units refilled meanwhile
          MaxAccrued   \* bound: length of a window

ASSUME LimiterAssumption ==
    /\ {Rate, Cost, Burst, MaxPermits} \subseteq Nat \ {0}
    /\ MaxPermits <= Burst
    /\ Burst * Cost \in Nat
    /\ \A n \in 1 .. MaxPermits : n * Cost \in 1 .. Burst * Cost
    /\ {MaxPenalty, MaxAccrued} \subseteq Nat

VARIABLES tokens,   \* _tokens
          pending,  \* refilled since _last, up to a full bucket
          gate,       \* "run", or "sleep" inside acquire or penalise
          owed,     \* what is still to be refilled before the sleep ends
          want,     \* what the sleeping call hands out when it wakes
          charged, accrued

bucketVars == <<tokens, pending, gate, owed, want, charged, accrued>>

Full == Burst * Cost
Least(a, b) == IF a <= b THEN a ELSE b

Available == Least(Full, tokens + pending)

BucketTypeOK ==
    /\ tokens \in 0 .. Full
    /\ pending \in 0 .. Full
    /\ gate \in {"run", "sleep"}
    /\ owed \in Nat
    /\ want \in 0 .. Full
    /\ charged \in Nat /\ accrued \in Nat

BucketInit ==
    /\ tokens = Full /\ pending = 0
    /\ gate = "run" /\ owed = 0 /\ want = 0
    /\ charged = 0 /\ accrued = 0

-----------------------------------------------------------------------------

\* acquire(n): refill, then take n permits or sleep until they are refilled.
Acquire(n) ==
    /\ gate = "run" /\ pending' = 0
    /\ IF Available >= n * Cost
       THEN /\ tokens' = Available - n * Cost
            /\ charged' = charged + n * Cost
            /\ UNCHANGED <<gate, owed, want>>
       ELSE /\ tokens' = Available
            /\ gate' = "sleep" /\ want' = n * Cost
            /\ owed' = n * Cost - Available
            /\ UNCHANGED charged
    /\ UNCHANGED accrued

\* penalise: the server's Retry-After, capped.
Penalise(wait) ==
    /\ gate = "run" /\ gate' = "sleep"
    /\ owed' = Least(wait, MaxPenalty) /\ want' = 0
    /\ UNCHANGED <<tokens, pending, charged, accrued>>

\* Mutated form of Wake: _last is not moved to the end of the sleep.
WakeRefilled ==
    /\ gate = "sleep" /\ owed = 0
    /\ gate' = "run" /\ tokens' = 0
    /\ charged' = charged + want
    /\ UNCHANGED <<pending, owed, want, accrued>>

\* The sleep is over; what was refilled during it is spent or forfeited.
Wake ==
    /\ gate = "sleep" /\ owed = 0
    /\ gate' = "run" /\ tokens' = 0 /\ pending' = 0
    /\ charged' = charged + want
    /\ UNCHANGED <<owed, want, accrued>>

Tick ==
    /\ accrued < MaxAccrued
    /\ pending' = Least(Full, pending + Rate)
    /\ owed' = owed - Least(owed, Rate)
    /\ accrued' = accrued + Rate
    /\ UNCHANGED <<tokens, gate, want, charged>>

OpenWindow ==
    /\ charged' = 0 /\ accrued' = 0
    /\ UNCHANGED <<tokens, pending, gate, owed, want>>

BucketNext ==
    \/ \E n \in 1 .. MaxPermits : Acquire(n)
    \/ \E wait \in 0 .. MaxPenalty + 1 : Penalise(wait)
    \/ Wake \/ Tick \/ OpenWindow

BucketSpec == BucketInit /\ [][BucketNext]_bucketVars

-----------------------------------------------------------------------------
(* Properties *)

\* pump.py:28-30: in no window of time, wherever it opens, does the limiter
\* let through more than a full bucket and what the rate adds meanwhile, with
\* sleeps, penalties and bursts in any order.
WindowBounded == charged <= Full + accrued

\* What is still to come fits the window too: the inductive form.
Headroom ==
    /\ charged <= Full + accrued
    /\ IF gate = "run" THEN charged + Available <= Full + accrued
                     ELSE charged + want <= Full + accrued + owed
=============================================================================
