------------------------------ MODULE Scheduler ------------------------------
(***************************************************************************)
(* backend/scheduler.py as operators: how many sessions a job gets, on     *)
(* which platforms, writing to which accounts, and how a download is cut   *)
(* into ranges.  Rates and estimates are left out, except that the         *)
(* platforms come in the order of their rates.                             *)
(***************************************************************************)
EXTENDS Integers, SequencesExt

CONSTANTS Platforms,    \* the platforms, the higher measured rate first
          ExactCaps,    \* max_sessions of those whose limit_is_exact
          DailyUpload,  \* DAILY_UPLOAD_BYTES
          MinShard      \* MIN_SHARD_BYTES

ASSUME SchedulerAssumption ==
    /\ Platforms \in Seq(STRING) /\ IsInjective(Platforms)
    /\ DOMAIN ExactCaps \subseteq Range(Platforms)
    /\ \A p \in DOMAIN ExactCaps : ExactCaps[p] \in Nat
    /\ DailyUpload \in Nat /\ MinShard \in Nat \ {0}

MinOf(S) == CHOOSE x \in S : \A y \in S : x <= y
AtLeastOne(n) == IF n > 1 THEN n ELSE 1

\* Upload allowance an account has left today.
Budget(a, used) == DailyUpload - used[a]

\* Those of s that are in S, in their order.
Select(s, S) ==
    LET upTo[n \in 0 .. Len(s)] ==
            IF n = 0 THEN << >>
            ELSE IF s[n] \in S THEN Append(upTo[n - 1], s[n]) ELSE upTo[n - 1]
    IN  upTo[Len(s)]

WithBudget(connected, used) ==
    Select(connected, {a \in ToSet(connected) : Budget(a, used) > 0})

\* plan_job: platform sessions, accounts and size each set a ceiling.
Parallelism(bytes, sessions, accounts, most) ==
    AtLeastOne(MinOf({sessions, accounts, AtLeastOne(bytes \div MinShard)}
                     \union (IF most = 0 THEN {} ELSE {most})))

\* Sessions of the first i platforms.
Sessions(available, i) ==
    LET upTo[n \in 0 .. Len(Platforms)] ==
            IF n = 0 THEN 0 ELSE upTo[n - 1] + available[Platforms[n]]
    IN  upTo[i]

\* The platforms are filled in order, each up to its sessions.
PlatformOf(available, slot) ==
    Platforms[MinOf({i \in DOMAIN Platforms : slot <= Sessions(available, i)})]

\* Mutated form of Ranked: the accounts stay in the order they came in.
RankedAsGiven(accounts, used) == accounts

\* More left, or as much and named earlier: sorted is stable.
Before(accounts, used, i, j) ==
    \/ Budget(accounts[i], used) > Budget(accounts[j], used)
    \/ Budget(accounts[i], used) = Budget(accounts[j], used) /\ i < j

Place(accounts, used, i) ==
    Cardinality({j \in DOMAIN accounts : Before(accounts, used, j, i)}) + 1

\* Accounts by what they have left.
Ranked(accounts, used) ==
    [k \in DOMAIN accounts |->
        accounts[CHOOSE i \in DOMAIN accounts : Place(accounts, used, i) = k]]

\* The checks plan_job begins with.  A platform that is not asked for has no
\* sessions in available.
Refused(bytes, available) ==
    \/ bytes <= 0
    \/ \E p \in DOMAIN available :
          \/ p \notin Range(Platforms)
          \/ p \in DOMAIN ExactCaps /\ available[p] > ExactCaps[p]

\* The sessions, platform by platform, each paired with the next account.  A
\* refusal and no account to use are SchedulerErrors and no session at all is a
\* ZeroDivisionError: all are an empty plan here.
Slots(bytes, connected, used, available, most) ==
    LET usable == WithBudget(connected, used)
        total  == Sessions(available, Len(Platforms))
        n      == Parallelism(bytes, total, Len(usable), most)
        ranked == Ranked(usable, used)
    IN  IF Refused(bytes, available) \/ usable = <<>> THEN <<>>
        ELSE [s \in 1 .. MinOf({n, total}) |->
                [platform |-> PlatformOf(available, s),
                 account  |-> ranked[((s - 1) % Len(ranked)) + 1]]]

-----------------------------------------------------------------------------
(* split_ranges *)

\* download_parts_for: the measured optimum is two, for files large enough.
PartsFor(total, smallest) == IF total < 2 * smallest THEN 1 ELSE 2

Step(total, parts) == total \div parts
Start(total, parts, i) == i * Step(total, parts)

Stop(total, parts, i) ==
    IF i = parts - 1 THEN total - 1 ELSE (i + 1) * Step(total, parts) - 1

-----------------------------------------------------------------------------
(* Properties *)

\* A plan uses each account once, so that the daily allowances are spent side
\* by side, and those with the most left; it fills a slower platform only when
\* the faster ones are full; and it is as wide as the sessions, the accounts,
\* the size and the caller allow, but never without a session.  A request that
\* no platform can meet is answered with an error, and no plan goes beyond a cap
\* that is exact.
SlotsSound(bytes, connected, used, available, most) ==
    LET plan   == Slots(bytes, connected, used, available, most)
        usable == ToSet(WithBudget(connected, used))
        chosen == {plan[s].account : s \in DOMAIN plan}
        On(p)  == Cardinality({s \in DOMAIN plan : plan[s].platform = p})
        total  == Sessions(available, Len(Platforms))
    IN  /\ plan = <<>> <=> Refused(bytes, available) \/ usable = {} \/ total = 0
        /\ \A p \in DOMAIN ExactCaps : On(p) <= ExactCaps[p]
        /\ chosen \subseteq usable /\ Cardinality(chosen) = Len(plan)
        /\ \A a \in chosen, b \in usable \ chosen : Budget(a, used) >= Budget(b, used)
        /\ \A p \in DOMAIN available : On(p) <= available[p]
        /\ \A i, j \in DOMAIN Platforms : i < j /\ On(Platforms[j]) > 0 =>
              On(Platforms[i]) = available[Platforms[i]]
        /\ plan # <<>> =>
              \/ Len(plan) \in {total, Cardinality(usable), most}
              \/ Len(plan) = AtLeastOne(bytes \div MinShard)

\* The ranges of a download tile the file: a gap would silently truncate it, an
\* overlap duplicate bytes.
RangesTile(total, parts) ==
    \A byte \in 0 .. total - 1 :
        Cardinality({i \in 0 .. parts - 1 :
            Start(total, parts, i) <= byte /\ byte <= Stop(total, parts, i)}) = 1
=============================================================================
