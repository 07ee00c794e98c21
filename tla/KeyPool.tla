------------------------------ MODULE KeyPool ------------------------------
(***************************************************************************)
(* MultiKeyGeminiPool of backend/quant_ai_bridge.py, used by several       *)
(* requests at once (the MCP server calls it through asyncio.to_thread):   *)
(* keys are handed out in turn, and one that failed rests for a while.     *)
(* Nothing is locked, and now is read once per search.                     *)
(*                                                                         *)
(* A unit of time is the 10 seconds of an error that is not a rate limit;  *)
(* the pause of a second between attempts is left out.                     *)
(***************************************************************************)
EXTENDS Naturals, FiniteSets

CONSTANTS Users,       \* requests that search and ask
          Keys,        \* len(api_keys)
          Rest,        \* units a key rests after a first rate limit
          MaxAttempts, \* max_retries
          MaxTime, MaxAsks \* bounds

\* The last conjunct is arithmetic that the provers do not know.
KeyPoolAssumption ==
    /\ Keys \in Nat \ {0} /\ Rest \in Nat \ {0} /\ MaxAttempts \in Nat \ {0}
    /\ {MaxTime, MaxAsks} \subseteq Nat
    /\ \A n \in 0 .. MaxAttempts - 1 : 2 ^ n \in Nat \ {0}

VARIABLES index,     \* current_index
          cooldown,  \* key_cooldowns
          clock,
          seek,      \* of each request: "idle", "look", "move", "sleep" or "ask"
          start, asOf, \* start_idx and now of its search
          held,      \* the key it looks at, or was given
          until,     \* when its sleep ends
          attempt,
          asks,
          owed,      \* history: how long the rate limits of each key were to last
          alone,     \* history: no other search ran during this one
          tired,     \* history: it found every key resting at the end of a round
          early,     \* history: it was given a key that was to rest longer
          cutShort   \* history: keys whose rest a shorter one has replaced

keyVars == <<index, cooldown, clock, seek, start, asOf, held, until, attempt, asks,
             owed, alone, tired, early, cutShort>>

Pool == 0 .. Keys - 1
MinOver(S) == CHOOSE x \in S : \A y \in S : x <= y

KeysTypeOK ==
    /\ index \in Pool /\ clock \in 0 .. MaxTime
    /\ {cooldown, owed} \subseteq [Pool -> Nat]
    /\ seek \in [Users -> {"idle", "look", "move", "sleep", "ask"}]
    /\ start \in [Users -> Pool] /\ held \in [Users -> Pool]
    /\ attempt \in [Users -> 0 .. MaxAttempts - 1]
    /\ {alone, tired, early} \subseteq [Users -> BOOLEAN]
    /\ cutShort \subseteq Pool

KeysInit ==
    /\ index = 0 /\ cooldown = [k \in Pool |-> 0] /\ clock = 0 /\ asks = 0
    /\ seek = [u \in Users |-> "idle"] /\ start = [u \in Users |-> 0]
    /\ asOf = [u \in Users |-> 0] /\ held = [u \in Users |-> 0]
    /\ until = [u \in Users |-> 0] /\ attempt = [u \in Users |-> 0]
    /\ owed = [k \in Pool |-> 0] /\ alone = [u \in Users |-> TRUE]
    /\ tired = [u \in Users |-> FALSE] /\ early = tired /\ cutShort = {}

-----------------------------------------------------------------------------

keyHistory == <<owed, alone, tired, early, cutShort>>
Turn(u, s) == seek' = [seek EXCEPT ![u] = s]
Searching == {u \in Users : seek[u] \in {"look", "move", "sleep"}}

\* generate_content_with_retry, or its next attempt: now and start_idx are read.
Search(u, n) ==
    /\ Turn(u, "look") /\ attempt' = [attempt EXCEPT ![u] = n]
    /\ start' = [start EXCEPT ![u] = index] /\ asOf' = [asOf EXCEPT ![u] = clock]
    /\ alone' = [v \in Users |-> IF v = u THEN Searching \subseteq {u}
                                 ELSE alone[v] /\ v \notin Searching]
    /\ tired' = [tired EXCEPT ![u] = FALSE] /\ early' = [early EXCEPT ![u] = FALSE]

Begin(u) ==
    /\ seek[u] = "idle" /\ asks < MaxAsks /\ asks' = asks + 1
    /\ UNCHANGED cooldown /\ Search(u, 0)
    /\ UNCHANGED <<index, clock, held, until, owed, cutShort>>

\* key = api_keys[current_index]
Look(u) ==
    /\ seek[u] = "look" /\ Turn(u, "move")
    /\ held' = [held EXCEPT ![u] = index]
    /\ UNCHANGED <<index, cooldown, clock, start, asOf, until, attempt, asks, keyHistory>>

\* Mutated form of Rested: a resting key is as good as any.
RestedOrNot(u, k) == asOf[u] + cooldown[k] >= 0

Rested(u, k) == asOf[u] >= cooldown[k]

\* The request has its key; it is early if a rate limit was to last longer.
Given(u, k) ==
    /\ Turn(u, "ask") /\ held' = [held EXCEPT ![u] = k]
    /\ early' = [early EXCEPT ![u] = clock < owed[k]]

\* The index goes on, and the key is taken if it has rested.  Back at start_idx
\* every key was tried, or other searches have moved the index along.
Move(u) ==
    /\ seek[u] = "move"
    /\ index' = (index + 1) % Keys
    /\ IF Rested(u, held[u]) THEN Given(u, held[u]) /\ UNCHANGED <<until, tired>>
       ELSE IF index' # start[u]
       THEN Turn(u, "look") /\ UNCHANGED <<held, until, tired, early>>
       ELSE LET soonest == MinOver({cooldown[k] : k \in Pool}) IN
            /\ tired' = [tired EXCEPT ![u] = asOf[u] < soonest]
            /\ IF soonest > asOf[u]
               THEN /\ Turn(u, "sleep")
                    /\ until' = [until EXCEPT ![u] = clock + soonest - asOf[u]]
                    /\ UNCHANGED <<held, early>>
               ELSE Given(u, 0) /\ UNCHANGED until
    /\ UNCHANGED <<cooldown, clock, start, asOf, attempt, asks, owed, alone, cutShort>>

\* It is the first key that is taken then, not the one with the shortest wait.
WakeUp(u) ==
    /\ seek[u] = "sleep" /\ clock >= until[u] /\ Given(u, 0)
    /\ UNCHANGED <<index, cooldown, clock, start, asOf, until, attempt, asks, owed,
                   alone, tired, cutShort>>

Answered(u) ==
    /\ seek[u] = "ask" /\ Turn(u, "idle")
    /\ UNCHANGED <<index, cooldown, clock, start, asOf, held, until, attempt, asks,
                   keyHistory>>

\* _mark_key_cooldown, and the next attempt, or None after the last one.
Failed(u, length) ==
    /\ seek[u] = "ask"
    /\ cooldown' = [cooldown EXCEPT ![held[u]] = clock + length]
    /\ cutShort' = IF clock + length < cooldown[held[u]] THEN cutShort \union {held[u]}
                   ELSE cutShort
    /\ IF attempt[u] + 1 < MaxAttempts THEN Search(u, attempt[u] + 1)
       ELSE Turn(u, "idle") /\ UNCHANGED <<attempt, start, asOf, alone, tired, early>>
    /\ UNCHANGED <<index, clock, held, until, asks>>

RateLimited(u) ==
    /\ Failed(u, Rest * 2 ^ attempt[u])
    /\ owed' = [owed EXCEPT ![held[u]] =
                  IF clock + Rest * 2 ^ attempt[u] > @ THEN clock + Rest * 2 ^ attempt[u]
                  ELSE @]

OtherError(u) == Failed(u, 1) /\ UNCHANGED owed

TimePasses ==
    /\ clock < MaxTime /\ clock' = clock + 1
    /\ UNCHANGED <<index, cooldown, seek, start, asOf, held, until, attempt, asks,
                   keyHistory>>

KeysNext ==
    \/ \E u \in Users : \/ Begin(u) \/ Look(u) \/ Move(u) \/ WakeUp(u)
                        \/ Answered(u) \/ RateLimited(u) \/ OtherError(u)
    \/ TimePasses

-----------------------------------------------------------------------------
(* Properties *)

\* A key that has hit its rate limit rests as long as was asked for.  A request
\* is given it sooner only if it found all keys resting, or if another search
\* ran beside it and moved the index past a key it never looked at, or after a
\* shorter rest has replaced a longer one.
KeysRest ==
    \A u \in Users : seek[u] = "ask" /\ early[u] =>
        tired[u] \/ ~alone[u] \/ cutShort # {}

KeysShared == KeysTypeOK /\ KeysRest
=============================================================================
