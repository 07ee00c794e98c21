---------------------------- MODULE LocalIngest ----------------------------
(***************************************************************************)
(* The idempotent downloads of backend/binance_ingestion.py and            *)
(* backend/aws_blockchain_ingestion.py into one directory, called by       *)
(* requests of the admin API and tools of the MCP server at the same time. *)
(* A day (a month, for Binance) is one target file; that it exists stands  *)
(* for "complete", and every later call skips it.                          *)
(*                                                                         *)
(* "binance" writes the target itself, "aws" a part file that is renamed;  *)
(* the part has one name per day, which overlapping calls share.  A file   *)
(* is whole when the call that truncated it last has written all of it.    *)
(***************************************************************************)
EXTENDS Integers, FiniteSets, FiniteSetsExt

CONSTANTS Days,      \* the days of a call's range, numbers in date order
          Callers,   \* threads
          Sources,   \* subset of {"binance", "aws"}
          MaxGb,    \* max_gb, in days
          MaxCalls, MaxCrashes  \* bounds

ASSUME IngestAssumption ==
    /\ Days \subseteq Nat /\ {MaxCalls, MaxCrashes} \subseteq Nat
    /\ Sources \subseteq {"binance", "aws"}

VARIABLES source,     \* which of the two the calls run
          target,     \* content of each target file
          part,       \* content of each part file
          step, todo, \* where a call is, and the days it has left
          fd,         \* the name, now, of the file a call writes
          last,       \* callers that truncated the file they write last
          calls, crashes,
          cut,        \* history: days of which a write into the target was cut
          overlapped  \* history: days two calls had in hand at the same time

ingestVars == <<source, target, part, step, todo, fd, last, calls, crashes, cut,
                overlapped>>

IngestTypeOK ==
    /\ source \in Sources
    /\ target \in [Days -> {"none", "half", "whole"}]
    /\ part \in [Days -> {"none", "half", "whole"}]
    /\ step \in [Callers -> {"idle", "loop", "open", "write", "rename"}]
    /\ todo \in [Callers -> SUBSET Days]
    /\ fd \in [Callers -> {"none", "part", "target"}]
    /\ last \subseteq Callers
    /\ calls \in 0 .. MaxCalls /\ crashes \in 0 .. MaxCrashes
    /\ cut \subseteq Days /\ overlapped \subseteq Days

IngestInit ==
    /\ source \in Sources
    /\ target = [d \in Days |-> "none"] /\ part = [d \in Days |-> "none"]
    /\ step = [c \in Callers |-> "idle"] /\ todo = [c \in Callers |-> {}]
    /\ fd = [c \in Callers |-> "none"] /\ last = {}
    /\ calls = 0 /\ crashes = 0 /\ cut = {} /\ overlapped = {}

-----------------------------------------------------------------------------

Missing == {d \in Days : target[d] = "none"}
Current(c) == Min(todo[c])

\* c goes on with the file it found missing, whatever others do meanwhile.
InHand(c, d) ==
    \/ step[c] \in {"open", "write", "rename"} /\ Current(c) = d
    \/ source = "aws" /\ d \in todo[c]

Goto(c, s) == step' = [step EXCEPT ![c] = s]
DayDone(c) == /\ Goto(c, "loop")
              /\ todo' = [todo EXCEPT ![c] = @ \ {Current(c)}]

\* The request arrives.  aws compares the whole range with the disk and raises
\* when the rest is over the budget; binance looks at each month in turn.
Begin(c) ==
    /\ step[c] = "idle" /\ calls < MaxCalls /\ calls' = calls + 1
    /\ IF source = "aws"
       THEN /\ Cardinality(Missing) <= MaxGb
            /\ todo' = [todo EXCEPT ![c] = Missing]
       ELSE todo' = [todo EXCEPT ![c] = Days]
    /\ Goto(c, "loop")
    /\ UNCHANGED <<source, target, part, fd, last, crashes, cut, overlapped>>

\* The next file is missing and its download begins.
Fetch(c) ==
    /\ step[c] = "loop" /\ todo[c] # {}
    /\ source = "binance" => target[Current(c)] = "none"
    /\ Goto(c, "open")
    /\ UNCHANGED <<source, target, part, todo, fd, last, calls, crashes, cut,
                   overlapped>>

\* The month is there, is not published, or its download fails.
Pass(c) ==
    /\ source = "binance"
    /\ step[c] = "loop" /\ todo[c] # {} /\ DayDone(c)
    /\ UNCHANGED <<source, target, part, fd, last, calls, crashes, cut, overlapped>>

\* The loop is over, or the listing of the next day raises out of the call.
Return(c) ==
    /\ step[c] = "loop"
    /\ todo[c] = {} \/ source = "aws"
    /\ Goto(c, "idle") /\ todo' = [todo EXCEPT ![c] = {}]
    /\ UNCHANGED <<source, target, part, fd, last, calls, crashes, cut, overlapped>>

Others(c, name) ==
    {o \in Callers \ {c} : fd[o] = name /\ Current(o) = Current(c)}

\* The file is created or truncated.
Open(c) ==
    LET d == Current(c)
        name == IF source = "aws" THEN "part" ELSE "target"
    IN  /\ step[c] = "open" /\ Goto(c, "write")
        /\ IF source = "aws" THEN part' = [part EXCEPT ![d] = "half"] /\ UNCHANGED target
                             ELSE target' = [target EXCEPT ![d] = "half"] /\ UNCHANGED part
        /\ fd' = [fd EXCEPT ![c] = name]
        /\ last' = (last \ Others(c, name)) \union {c}
        /\ overlapped' = IF \E o \in Callers \ {c} : InHand(o, d)
                         THEN overlapped \union {d} ELSE overlapped
    /\ UNCHANGED <<source, todo, calls, crashes, cut>>

\* All of it is written, to wherever the file has been renamed meanwhile.
Write(c) ==
    LET d == Current(c) IN
    /\ step[c] = "write"
    /\ target' = IF c \in last /\ fd[c] = "target"
                 THEN [target EXCEPT ![d] = "whole"] ELSE target
    /\ part' = IF c \in last /\ fd[c] = "part"
               THEN [part EXCEPT ![d] = "whole"] ELSE part
    /\ fd' = [fd EXCEPT ![c] = "none"] /\ last' = last \ {c}
    /\ IF source = "aws" THEN Goto(c, "rename") /\ UNCHANGED todo ELSE DayDone(c)
    /\ UNCHANGED <<source, calls, crashes, cut, overlapped>>

\* The write stops short in c: a file that is the target stays as it is.
CutShort(c) ==
    cut' = IF c \in last /\ fd[c] = "target" THEN cut \union {Current(c)} ELSE cut

\* Mutated form of Fail: what was downloaded is taken for the day.
FailRenames(c) ==
    /\ step[c] = "write" /\ DayDone(c)
    /\ target' = IF source = "aws" THEN [target EXCEPT ![Current(c)] = part[Current(c)]]
                                   ELSE target
    /\ part' = IF source = "aws" THEN [part EXCEPT ![Current(c)] = "none"] ELSE part
    /\ CutShort(c)
    /\ fd' = [fd EXCEPT ![c] = "none"] /\ last' = last \ {c}
    /\ UNCHANGED <<source, calls, crashes, overlapped>>

\* The download or the write raises.  aws removes the part file, by name,
\* which may be another call's; what that one writes then goes nowhere.
Fail(c) ==
    LET d == Current(c) IN
    /\ step[c] = "write" /\ DayDone(c)
    /\ part' = IF source = "aws" THEN [part EXCEPT ![d] = "none"] ELSE part
    /\ CutShort(c)
    /\ fd' = [o \in Callers |->
                IF o = c \/ (source = "aws" /\ o \in Others(c, "part")) THEN "none"
                ELSE fd[o]]
    /\ last' = last \ {c}
    /\ UNCHANGED <<source, target, calls, crashes, overlapped>>

\* os.replace; without the part it raises, and the day counts as failed.
Rename(c) ==
    LET d == Current(c) IN
    /\ step[c] = "rename" /\ DayDone(c)
    /\ IF part[d] = "none"
       THEN UNCHANGED <<target, part, fd>>
       ELSE /\ target' = [target EXCEPT ![d] = part[d]]
            /\ part' = [part EXCEPT ![d] = "none"]
            /\ fd' = [o \in Callers |-> CASE o \in Others(c, "part") -> "target"
                                          [] o \in Others(c, "target") -> "none"
                                          [] OTHER -> fd[o]]
    /\ UNCHANGED <<source, last, calls, crashes, cut, overlapped>>

\* A process ends: for aws all callers are the API's, for binance one of them
\* is the API and one the MCP server.
Crash(c) ==
    LET dead == IF source = "aws" THEN Callers ELSE {c} IN
    /\ crashes < MaxCrashes /\ crashes' = crashes + 1
    /\ cut' = cut \union {Current(o) : o \in {o \in dead \intersect last : fd[o] = "target"}}
    /\ step' = [o \in Callers |-> IF o \in dead THEN "idle" ELSE step[o]]
    /\ todo' = [o \in Callers |-> IF o \in dead THEN {} ELSE todo[o]]
    /\ fd' = [o \in Callers |-> IF o \in dead THEN "none" ELSE fd[o]]
    /\ last' = last \ dead
    /\ UNCHANGED <<source, target, part, calls, overlapped>>

IngestNext ==
    \E c \in Callers :
        \/ Begin(c) \/ Fetch(c) \/ Pass(c) \/ Return(c) \/ Open(c) \/ Write(c)
        \/ Fail(c) \/ Rename(c) \/ Crash(c)

-----------------------------------------------------------------------------
(* Properties *)

\* A file that exists, and that every later call skips, is whole or being
\* written; or a write into it was cut short.  For aws, which writes to a part
\* file to avoid just that (aws_blockchain_ingestion.py:142-144), this takes
\* two calls on the day at the same time.
HalfIsExplained ==
    /\ IngestTypeOK
    /\ \A d \in Days : target[d] = "half" =>
         /\ \/ \E c \in last : fd[c] = "target" /\ Current(c) = d
            \/ d \in cut
         /\ source = "aws" => d \in overlapped

\* A whole file is never touched again, unless two calls had it in hand at the
\* same time.
WholeStaysWhole ==
    \A d \in Days : target[d] = "whole" /\ target'[d] # "whole" => d \in overlapped'

\* Both, at every step: no file is there to begin with.
FilesWhole == [][HalfIsExplained' /\ WholeStaysWhole]_ingestVars
=============================================================================
