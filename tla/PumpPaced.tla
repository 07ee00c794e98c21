----------------------------- MODULE PumpPaced -----------------------------
(***************************************************************************)
(* pump() of backend/pump.py with the limiter it makes for itself: one     *)
(* permit before every fetch, a penalty after a rate-limited one, and a    *)
(* bucket that is full again in every session, because it lives in the     *)
(* process and the cursor alone is on disk.                                *)
(*                                                                         *)
(* PumpDrain is the session, RateLimiter the bucket; this module says who  *)
(* waits for whom.  The window of observation spans sessions.              *)
(***************************************************************************)
EXTENDS PumpDrain, RateLimiter

CONSTANT MaxSessions  \* bound: sessions begun within a window

ASSUME PacedAssumption == MaxPermits = 1 /\ MaxSessions \in Nat

VARIABLES permit,  \* acquire has returned, fetch is about to be called
          begun    \* history: sessions begun since the window opened

bucket == <<tokens, pending, gate, owed, want>>
window == <<charged, accrued, begun>>
pacedVars == <<vars, bucket, window, permit>>

PacedInit == Init /\ BucketInit /\ permit = FALSE /\ begun = 0

-----------------------------------------------------------------------------

\* A session begins with a limiter of its own.
StartPaced ==
    /\ Start /\ begun < MaxSessions /\ begun' = begun + 1
    /\ tokens' = Full /\ pending' = 0
    /\ gate' = "run" /\ owed' = 0 /\ want' = 0
    /\ permit' = FALSE
    /\ UNCHANGED <<charged, accrued>>

Pace ==
    /\ pc = "loop" /\ ~permit
    /\ Acquire(1) /\ permit' = (gate' = "run")
    /\ UNCHANGED <<vars, begun>>

\* A sleep ends: in acquire with the permit, in penalise without.
WakeUp ==
    /\ pc = "loop"
    /\ Wake /\ permit' = (want > 0)
    /\ UNCHANGED <<vars, begun>>

FetchPaced ==
    /\ permit /\ permit' = FALSE
    /\ Fetch /\ UNCHANGED <<bucket, window>>

\* A refused fetch has spent its permit; the answer's wait comes on top.
LimitedPaced ==
    /\ permit /\ permit' = FALSE
    /\ Limited /\ UNCHANGED begun
    /\ IF pc' = "loop" THEN \E wait \in 0 .. MaxPenalty + 1 : Penalise(wait)
                       ELSE UNCHANGED <<bucket, charged, accrued>>

StopPaced ==
    /\ gate = "run" /\ permit' = FALSE
    /\ Stop /\ UNCHANGED <<bucket, window>>

Store ==
    /\ Sink \/ Advance \/ Finish
    /\ UNCHANGED <<bucket, window, permit>>

FlushPaced == Flush /\ UNCHANGED <<bucket, window, permit>>

KillPaced ==
    /\ Kill /\ permit' = FALSE
    /\ UNCHANGED <<bucket, window>>

TickPaced == Tick /\ UNCHANGED <<vars, permit, begun>>

OpenPaced ==
    /\ OpenWindow /\ begun' = 0
    /\ UNCHANGED <<vars, permit>>

PacedNext ==
    \/ StartPaced \/ Pace \/ WakeUp \/ FetchPaced \/ LimitedPaced \/ StopPaced
    \/ Store \/ FlushPaced \/ KillPaced \/ TickPaced \/ OpenPaced

\* Time passes and sessions are started again (the observer opens new windows,
\* so that its bounds stop neither), the sleeps end, the caller's budgets leave
\* room for a fetch, and the source does not refuse every one.
PacedFairness ==
    /\ WF_pacedVars(OpenPaced) /\ SF_pacedVars(TickPaced) /\ SF_pacedVars(StartPaced)
    /\ WF_pacedVars(WakeUp) /\ WF_pacedVars(Store)
    /\ SF_pacedVars(Pace) /\ SF_pacedVars(FetchPaced)

PacedSpec == PacedInit /\ [][PacedNext]_pacedVars /\ PacedFairness

-----------------------------------------------------------------------------
(* Properties *)

\* In any window of time, across sessions that stop and are killed anywhere,
\* the source sees no more than what the rate adds and one full bucket per
\* session at work in the window: a restart loop is not paced by the limiter.
SessionsPaced ==
    /\ BucketTypeOK
    /\ charged <= (1 + begun) * Full + accrued
=============================================================================
