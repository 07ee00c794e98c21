------------------------------ MODULE MCParts ------------------------------
(***************************************************************************)
(* The parts that share no state with the others, nor with each other: the *)
(* three places data is downloaded at (the API's host, a Colab session, a  *)
(* Kaggle kernel), the list of Kaggle jobs, the Google accounts, the pool  *)
(* of Gemini keys, the compaction watchdog, and plan_job.  A behaviour in  *)
(* which one part acts shows all that one with all of them would: part     *)
(* says which, the others stay where they begin.                           *)
(***************************************************************************)
EXTENDS LocalIngest, Scheduler, TLC
CONSTANTS Newest, MaxJobs, MaxDeaths, Parts, MaxRuns, Kinds,
          Jobs, RefOf, Threads, Keep, NoFile, Torn, MaxRefreshes, MaxRestarts,
          Procs, Api, Handlers, ProcOf, Accts, Nonces, None, Spent, MaxKilled,
          Files, Threshold, Seconds, MaxStops,
          Users, Keys, Rest, MaxAttempts, MaxTime, MaxAsks

VARIABLES focus,
          secret, published, disk, doing, asked, written, toPush, mirrored,
          failing, unclean, jobs, deaths,
          kind, folder, phase, rest, out, pieces, reported, errors, shipped,
          resultFile, run, copy,
          kernels, newest, jobsFile, jobsPart, at, list, entry, mine, handle,
          refreshes, restarts, crossed, orphans,
          keyFile, accountsFile, manager, key, cache, flows, busy, acct, grown, met,
          refused, killed, joined, behind, stale, keyRace, broken,
          micro, up, events, pending, observer, beat, batch, name, second, output,
          remote, total, seen, seenByBeat, logged, stops, lost, given_up, halves,
          merged, clashed,
          index, cooldown, clock, seek, start, asOf, held, until, attempt, asks,
          owed, alone, tired, early, cutShort,
          request

Colab == INSTANCE ColabIngest
Kernel == INSTANCE KaggleKernel
KJobs == INSTANCE KaggleJobs
Google == INSTANCE Accounts
Dog == INSTANCE Watchdog
Gemini == INSTANCE KeyPool

ASSUME PartsAssumption ==
    /\ KJobs!KaggleAssumption /\ Google!AccountsAssumption
    /\ Dog!WatchdogAssumption /\ Gemini!KeyPoolAssumption
    /\ Colab!ColabAssumption /\ Kernel!KernelAssumption

colab == <<secret, published, disk, doing, asked, written, toPush, mirrored,
           failing, unclean, jobs, deaths>>
kernel == <<kind, folder, phase, rest, out, pieces, reported, errors, shipped,
            resultFile, run, copy>>
kjobs == <<kernels, newest, jobsFile, jobsPart, at, list, entry, mine, handle,
           refreshes, restarts, crossed, orphans>>
google == <<keyFile, accountsFile, manager, key, cache, flows, busy, acct, grown, met,
            refused, killed, joined, behind, stale, keyRace, broken>>
dog == <<micro, up, events, pending, observer, beat, batch, name, second, output,
         remote, total, seen, seenByBeat, logged, stops, lost, given_up, halves,
         merged, clashed>>
gemini == <<index, cooldown, clock, seek, start, asOf, held, until, attempt, asks,
            owed, alone, tired, early, cutShort>>
partsVars == <<focus, ingestVars, colab, kernel, kjobs, google, dog, gemini, request>>

\* What plan_job and split_ranges are asked: sizes, what each account has used
\* today, sessions of each platform and the caller's limit.
MCAccounts == <<"a", "b", "c">>
MCRequests ==
    [bytes : 0 .. 6, used : [Range(MCAccounts) -> 0 .. 2],
     available : [Range(Platforms) -> 0 .. 2]
                 \union [Range(Platforms) \union {"other"} -> {1}],
     most : 0 .. 2]
NoRequest == [bytes |-> 1, used |-> [a \in Range(MCAccounts) |-> 0],
              available |-> [p \in Range(Platforms) |-> 1], most |-> 0]

PartsInit ==
    /\ focus \in {"host", "colab", "kernel", "jobs", "accounts", "watchdog", "keys",
                  "plan"}
    /\ IngestInit /\ Colab!ColabInit /\ Kernel!KernelInit /\ KJobs!JobsInit
    /\ Google!AccountsInit /\ Dog!WatchdogInit /\ Gemini!KeysInit
    /\ focus # "host" => source = CHOOSE s \in Sources : TRUE
    /\ focus # "colab" => secret /\ published = Colab!Months
    /\ focus # "kernel" => folder /\ kind = CHOOSE k \in Kinds : TRUE
    /\ request = NoRequest

OnHost == focus = "host" /\ IngestNext
          /\ UNCHANGED <<colab, kernel, kjobs, google, dog, gemini, request>>
OnColab == focus = "colab" /\ Colab!ColabNext
           /\ UNCHANGED <<ingestVars, kernel, kjobs, google, dog, gemini, request>>
OnKaggle == focus = "kernel" /\ Kernel!KernelNext
            /\ UNCHANGED <<ingestVars, colab, kjobs, google, dog, gemini, request>>
InJobs == focus = "jobs" /\ KJobs!JobsNext
          /\ UNCHANGED <<ingestVars, colab, kernel, google, dog, gemini, request>>
InAccounts == focus = "accounts" /\ Google!AccountsNext
              /\ UNCHANGED <<ingestVars, colab, kernel, kjobs, dog, gemini, request>>
InWatchdog == focus = "watchdog" /\ Dog!WatchdogNext
              /\ UNCHANGED <<ingestVars, colab, kernel, kjobs, google, gemini, request>>
InPool == focus = "keys" /\ Gemini!KeysNext
          /\ UNCHANGED <<ingestVars, colab, kernel, kjobs, google, dog, request>>
InPlanner == /\ focus = "plan" /\ request = NoRequest /\ request' \in MCRequests
             /\ UNCHANGED <<ingestVars, colab, kernel, kjobs, google, dog, gemini>>

PartsNext ==
    /\ \/ OnHost \/ OnColab \/ OnKaggle \/ InJobs \/ InAccounts \/ InWatchdog
       \/ InPool \/ InPlanner
    /\ UNCHANGED focus

PartsSpec == PartsInit /\ [][PartsNext]_partsVars

\* Pushes 1 and 2 are versions of one kernel.
MCRefOf == [j \in Jobs |-> IF j < 3 THEN "r" ELSE "s"]
MCProcOf == [h \in Handlers |-> IF h = "plan" THEN "run" ELSE "api"]
MCPlatforms == <<"kaggle", "colab">>
MCCaps == [colab |-> 1]

\* Callers are left out, FilesWhole being a temporal property; Accts = Users = Threads.
Symmetry == UNION {Permutations(S) : S \in {Nonces, Threads}}

-----------------------------------------------------------------------------
(* The properties are those of the modules *)

\* A clean report, of a Colab job or a Kaggle kernel, means that what it speaks
\* of is on Drive.
ReportsHonest == Colab!CleanMeansMirrored /\ Kernel!ReportMeansShipped

\* The list of Kaggle jobs forgets no push, and calls none done that is not.
JobsTracked == KJobs!JobsTracked

\* Connected accounts stay connected and their tokens readable.
AccountsSafe == Google!AccountsSafe

\* The watchdog loses no row and counts none twice.
WatchdogSafe == Dog!WatchdogSafe

\* A Gemini key rests as long as its rate limit asks.
KeysShared == Gemini!KeysShared

\* What the scheduler answers is sound for every request.
PlanSound ==
    focus = "plan" =>
        /\ SlotsSound(request.bytes, MCAccounts, request.used, request.available,
                      request.most)
        /\ \A parts \in 1 .. 4 : RangesTile(request.bytes, parts)
=============================================================================
