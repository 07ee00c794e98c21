------------------------------ MODULE Watchdog ------------------------------
(***************************************************************************)
(* backend/data_compaction_watchdog.py: an observer thread that gathers    *)
(* new micro files, merges them when there are enough, copies the result   *)
(* to the union remote and removes the originals, beside a main thread     *)
(* that writes a heartbeat into the same state file.  With it, the upload  *)
(* counter of backend/transfer_log.py, which nothing else writes.          *)
(*                                                                         *)
(* A micro file stands for its rows and counts as one unit of size; an     *)
(* output is named after the second it was made in.  Of the state file     *)
(* only files_compacted_total is kept: both threads write all of it back.  *)
(***************************************************************************)
EXTENDS Naturals, FiniteSets

CONSTANTS Files,     \* numbered in the order they are made
          Threshold, \* COMPACTION_THRESHOLD
          Seconds,   \* bound: 1 .. Seconds
          MaxStops, \* bound: stops and failed removals
          Torn

WatchdogAssumption ==
    /\ Files \subseteq Nat /\ IsFiniteSet(Files) /\ Seconds \in Nat \ {0}
    /\ {Threshold, MaxStops} \subseteq Nat /\ Torn \notin Nat

VARIABLES micro,    \* each micro file: "absent", "growing", "whole", "gone"
          up,       \* the watchdog runs
          events,   \* created files the observer has not been told of
          pending,  \* pending_files
          observer, beat,  \* what the two threads are about to do
          batch,    \* files of the output being handled, {} if it failed
          name, second,    \* the second of that output, and the clock
          output, remote,  \* rows in each output, here and on the remote
          total, seen, seenByBeat,  \* files_compacted_total, and as last read
          logged,   \* files the transfer log has counted
          stops,
          lost,     \* history: rows of outputs that another one overwrote
          given_up, \* history: files nobody will merge any more
          halves,   \* history: files in an output when the process was stopped,
                    \* or when a removal failed
          merged,   \* history: files merged by compactions that ran to the end
          clashed   \* history: the threads' writes of the state overlapped, or
                    \* one was cut

watchdogVars == <<micro, up, events, pending, observer, beat, batch, name, second,
                  output, remote, total, seen, seenByBeat, logged, stops, lost,
                  given_up, halves, merged, clashed>>

diskVars == <<micro, output, remote>>
stateVars == <<total, seen, seenByBeat, beat, merged, clashed>>
faultVars == <<stops, lost, given_up, halves>>

Names == 1 .. Seconds
RowsIn(o) == UNION {o[n] : n \in Names}
Number(t) == IF t = Torn THEN 0 ELSE t

WatchdogTypeOK ==
    /\ micro \in [Files -> {"absent", "growing", "whole", "gone"}]
    /\ events \subseteq Files /\ pending \subseteq Files /\ batch \subseteq pending
    /\ observer \in {"wait", "merge", "upload", "record", "remove", "total", "truncate",
                     "write"}
    /\ beat \in {"sleep", "truncate", "write"}
    /\ name \in Names /\ second \in Names
    /\ {output, remote} \subseteq [Names -> SUBSET Files]
    /\ total \in Nat \union {Torn}
    /\ lost \subseteq Files /\ given_up \subseteq Files /\ halves \subseteq Files

WatchdogInit ==
    /\ micro = [f \in Files |-> "absent"] /\ up = FALSE /\ events = {} /\ pending = {}
    /\ observer = "wait" /\ beat = "sleep" /\ batch = {} /\ name = 1 /\ second = 1
    /\ output = [n \in Names |-> {}] /\ remote = [n \in Names |-> {}]
    /\ total = 0 /\ seen = 0 /\ seenByBeat = 0 /\ logged = 0 /\ stops = 0
    /\ lost = {} /\ given_up = {} /\ halves = {} /\ merged = 0 /\ clashed = FALSE

-----------------------------------------------------------------------------

\* An ingestion makes a file; nobody is told while the watchdog is down, and
\* it does not look at what is there when it starts.
Create(f) ==
    /\ micro[f] = "absent" /\ \A g \in Files : g < f => micro[g] # "absent"
    /\ micro' = [micro EXCEPT ![f] = "growing"]
    /\ events' = IF up THEN events \union {f} ELSE events
    /\ given_up' = IF up THEN given_up ELSE given_up \union {f}
    /\ UNCHANGED <<up, pending, observer, batch, name, second, output, remote, logged,
                   stateVars, stops, lost, halves>>

Complete(f) ==
    /\ micro[f] = "growing" /\ micro' = [micro EXCEPT ![f] = "whole"]
    /\ UNCHANGED <<up, events, pending, observer, batch, name, second, output, remote,
                   logged, stateVars, faultVars>>

StartWatchdog == /\ ~up /\ up' = TRUE
                 /\ UNCHANGED <<events, pending, observer, batch, name, second, logged,
                                diskVars, stateVars, faultVars>>

ClockTicks ==
    /\ second < Seconds /\ second' = second + 1
    /\ UNCHANGED <<up, events, pending, observer, batch, name, logged, diskVars,
                   stateVars, faultVars>>

Whole(S) == {f \in S : micro[f] = "whole"}

\* on_created, _check_and_compact: a file still growing may have any size yet.
OnCreated(f) ==
    /\ up /\ observer = "wait" /\ f \in events
    /\ events' = events \ {f} /\ pending' = pending \union {f}
    /\ \/ Cardinality(pending') >= Threshold /\ observer' = "merge"
       \/ Cardinality(Whole(pending')) < Threshold /\ UNCHANGED observer
    /\ UNCHANGED <<up, batch, name, second, logged, diskVars, stateVars, faultVars>>

\* COPY reads whole files only.  An output of the same second is overwritten.
Merge ==
    /\ observer = "merge" /\ Whole(pending) = pending
    /\ batch' = pending /\ name' = second
    /\ output' = [output EXCEPT ![second] = pending]
    /\ lost' = lost \union (output[second] \ pending)
    /\ observer' = "upload"
    /\ UNCHANGED <<micro, remote, up, events, pending, second, logged, stateVars,
                   stops, given_up, halves>>

\* Mutated form of MergeFails: the originals go all the same.
MergeFailsRemoving ==
    /\ observer = "merge" /\ batch' = pending /\ observer' = "remove"
    /\ UNCHANGED <<up, events, pending, name, second, logged, diskVars, stateVars,
                   faultVars>>

\* Any error is logged; the files are not pending any more, and stay.
MergeFails ==
    /\ observer = "merge" /\ batch' = {} /\ observer' = "total"
    /\ given_up' = given_up \union pending
    /\ UNCHANGED <<up, events, pending, name, second, logged, diskVars, stateVars,
                   stops, lost, halves>>

Upload ==
    /\ observer = "upload" /\ observer' = "record"
    /\ remote' = [remote EXCEPT ![name] = batch]
    /\ UNCHANGED <<micro, output, up, events, pending, batch, name, second, logged,
                   stateVars, faultVars>>

\* rclone is missing, fails or times out: the output stays here only.
UploadFails ==
    /\ observer = "upload" /\ observer' = "remove"
    /\ UNCHANGED <<up, events, pending, batch, name, second, logged, diskVars,
                   stateVars, faultVars>>

\* record_transfer.
Record ==
    /\ observer = "record" /\ observer' = "remove"
    /\ logged' = logged + Cardinality(batch)
    /\ UNCHANGED <<up, events, pending, batch, name, second, diskVars, stateVars,
                   faultVars>>

Remove ==
    /\ observer = "remove"
    /\ IF Whole(batch) = {} THEN observer' = "total" /\ UNCHANGED micro
       ELSE /\ UNCHANGED observer
            /\ \E f \in Whole(batch) : micro' = [micro EXCEPT ![f] = "gone"]
    /\ UNCHANGED <<output, remote, up, events, pending, batch, name, second, logged,
                   stateVars, faultVars>>

\* An original cannot be removed: the error is logged like any other, with the
\* output made.
RemoveFails ==
    /\ observer = "remove" /\ Whole(batch) # {} /\ batch' = {} /\ observer' = "total"
    /\ stops < MaxStops /\ stops' = stops + 1
    /\ given_up' = given_up \union pending /\ halves' = halves \union Whole(batch)
    /\ UNCHANGED <<up, events, pending, name, second, logged, diskVars, stateVars,
                   lost>>

-----------------------------------------------------------------------------
(* The state file: read, truncated and written by either thread *)

observerRest == <<up, events, name, second, logged, diskVars, faultVars>>

ReadTotal ==
    /\ observer = "total" /\ observer' = "truncate"
    /\ seen' = Number(total) + Cardinality(batch)
    /\ clashed' = (clashed \/ beat # "sleep")
    /\ UNCHANGED <<pending, batch, total, seenByBeat, beat, merged, observerRest>>

TruncateState ==
    /\ observer = "truncate" /\ observer' = "write" /\ total' = Torn
    /\ UNCHANGED <<pending, batch, seen, seenByBeat, beat, merged, clashed,
                   observerRest>>

\* After this the pending list is cleared.
WriteState ==
    /\ observer = "write" /\ observer' = "wait"
    /\ total' \in {seen} \union (IF beat = "write" THEN {Torn} ELSE {})
    /\ merged' = merged + Cardinality(batch)
    /\ pending' = {} /\ batch' = {} /\ seen' = 0
    /\ UNCHANGED <<seenByBeat, beat, clashed, observerRest>>

mainRest == <<up, events, pending, observer, batch, name, second, logged, seen, merged,
              diskVars, faultVars>>

ReadBeat ==
    /\ up /\ beat = "sleep" /\ beat' = "truncate" /\ seenByBeat' = Number(total)
    /\ clashed' = (clashed \/ observer \in {"truncate", "write"})
    /\ UNCHANGED <<total, mainRest>>

TruncateBeat ==
    /\ beat = "truncate" /\ beat' = "write" /\ total' = Torn
    /\ UNCHANGED <<seenByBeat, clashed, mainRest>>

WriteBeat ==
    /\ beat = "write" /\ beat' = "sleep"
    /\ total' \in {seenByBeat} \union (IF observer = "write" THEN {Torn} ELSE {})
    /\ seenByBeat' = 0
    /\ UNCHANGED <<clashed, mainRest>>

\* The process is killed, or stops: what it had pending is in memory only.
Stopped ==
    /\ up /\ stops < MaxStops /\ stops' = stops + 1
    /\ up' = FALSE /\ events' = {} /\ pending' = {} /\ batch' = {}
    /\ observer' = "wait" /\ beat' = "sleep" /\ seen' = 0 /\ seenByBeat' = 0
    /\ given_up' = given_up \union events \union pending
    /\ halves' = halves \union Whole(batch)
    /\ clashed' = (clashed \/ observer # "wait" \/ beat = "write")
    /\ UNCHANGED <<diskVars, name, second, total, merged, logged, lost>>

WatchdogNext ==
    \/ \E f \in Files : Create(f) \/ Complete(f) \/ OnCreated(f)
    \/ StartWatchdog \/ ClockTicks \/ Merge \/ MergeFails \/ Upload \/ UploadFails
    \/ Record \/ Remove \/ RemoveFails \/ ReadTotal \/ TruncateState \/ WriteState
    \/ ReadBeat \/ TruncateBeat \/ WriteBeat \/ Stopped

-----------------------------------------------------------------------------
(* Properties *)

\* Rows are removed only when they are in an output, and stay there unless a
\* later output got the same name.
RowsKept == \A f \in Files : micro[f] = "gone" => f \in RowsIn(output) \union lost

\* Rows are in an output and in their micro file only while the compaction
\* runs, unless it was stopped in between or a removal failed.
RowsOnce ==
    \A f \in Files : micro[f] = "whole" /\ f \in RowsIn(output) => f \in batch \union halves

\* A micro file is on its way to an output, or was given up for good: its
\* compaction failed, or the watchdog was down.
NoneForgotten ==
    \A f \in Files : micro[f] \in {"growing", "whole"} =>
        f \in events \union pending \union given_up

\* The counters: never more than was done, and exact as long as the writes of
\* the two threads have not met.
CountsHonest ==
    /\ Number(total) <= merged
    /\ ~clashed /\ observer = "wait" /\ total # Torn => total = merged
    /\ logged <= Cardinality(RowsIn(remote) \union lost)

WatchdogSafe ==
    WatchdogTypeOK /\ RowsKept /\ RowsOnce /\ NoneForgotten /\ CountsHonest
=============================================================================
