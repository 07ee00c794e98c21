--------------------------- MODULE KaggleKernel ---------------------------
(***************************************************************************)
(* The script backend/kaggle_dispatch.py pushes to Kaggle, for one run of  *)
(* a kernel: one of the kinds of work, the upload to Drive if a folder was *)
(* asked for, and result.json as the last thing it does; then what         *)
(* fetch_output makes of the run.                                          *)
(*                                                                         *)
(* The kinds are told apart by what their errors do: "aws" copies day by   *)
(* day and goes by the bytes that arrived, "binance" records a failed      *)
(* download but dies of a bad file, "compute" (factor, uploadbench) has    *)
(* one output and dies of any error, "bench" (computebench, formatbench)   *)
(* leaves no output and dies of any error, "probe" (drivecheck,            *)
(* rangebench, downloadbench) puts errors into its result.                 *)
(***************************************************************************)
EXTENDS Integers, FiniteSets, FiniteSetsExt

CONSTANTS Parts,   \* the days or months of the job, numbers in date order
          MaxRuns, \* bound: pushes under the one slug
          Kinds    \* subset of {"aws", "binance", "compute", "bench", "probe"}

KernelAssumption == Parts \subseteq Nat /\ MaxRuns \in Nat \ {0}

VARIABLES kind, folder,  \* PARAMS: the kind and whether drive_folder is given
          phase,         \* where the script is
          rest,          \* parts it has still to fetch, or files to upload
          out, pieces,   \* parts with a file in OUT, and those not all there
          reported,      \* days_written or months_written; the one output of the
                         \* other kinds stands for all parts
          errors,        \* what the result tells: "part", "work", "drive", "file"
          shipped,       \* parts with a file on Drive
          resultFile,    \* result.json is in the run's output
          run,           \* runs of the kernel so far
          copy           \* the result.json fetch_output left on the API's host,
                         \* a set of at most one

kernelVars == <<kind, folder, phase, rest, out, pieces, reported, errors,
                shipped, resultFile, run, copy>>

Result == [run : 1 .. MaxRuns, reported : SUBSET Parts,
           errors : SUBSET {"part", "work", "drive", "file"}]

KernelTypeOK ==
    /\ kind \in Kinds /\ folder \in BOOLEAN
    /\ phase \in {"work", "secret", "upload", "result", "complete", "dead"}
    /\ rest \subseteq Parts /\ out \subseteq Parts
    /\ pieces \subseteq out /\ shipped \subseteq Parts
    /\ reported \subseteq Parts
    /\ errors \subseteq {"part", "work", "drive", "file"}
    /\ resultFile \in BOOLEAN
    /\ run \in 1 .. MaxRuns
    /\ copy \subseteq Result /\ Cardinality(copy) <= 1

KernelInit ==
    /\ kind \in Kinds /\ folder \in BOOLEAN
    /\ phase = "work" /\ rest = Parts
    /\ out = {} /\ pieces = {} /\ reported = {} /\ errors = {} /\ shipped = {}
    /\ resultFile = FALSE /\ run = 1 /\ copy = {}

-----------------------------------------------------------------------------

NextPart == phase = "work" /\ kind \in {"aws", "binance"} /\ rest # {}

FetchPart ==
    LET p == Min(rest) IN
    /\ NextPart
    /\ out' = out \union {p} /\ reported' = reported \union {p}
    /\ rest' = rest \ {p}
    /\ UNCHANGED <<kind, folder, phase, pieces, errors, shipped, resultFile, run, copy>>

\* Nothing arrives; the part is listed as failed.
FetchNothing ==
    /\ NextPart
    /\ errors' = errors \union {"part"} /\ rest' = rest \ {Min(rest)}
    /\ UNCHANGED <<kind, folder, phase, out, pieces, reported, shipped, resultFile, run, copy>>

\* aws s3 cp fails after some of a day's files: what arrived counts as the
\* day, the exit status is not looked at.
FetchPiece ==
    LET p == Min(rest) IN
    /\ NextPart /\ kind = "aws"
    /\ out' = out \union {p} /\ pieces' = pieces \union {p}
    /\ reported' = reported \union {p} /\ rest' = rest \ {p}
    /\ UNCHANGED <<kind, folder, phase, errors, shipped, resultFile, run, copy>>

\* A month that cannot be unpacked or parsed, a query that fails: the script
\* ends with a traceback, without upload or result.
Die ==
    /\ phase = "work"
    /\ (kind = "binance" /\ rest # {}) \/ kind \in {"compute", "bench"}
    /\ phase' = "dead"
    /\ UNCHANGED <<kind, folder, rest, out, pieces, reported, errors, shipped, resultFile, run, copy>>

\* The single output of a computation.
Compute ==
    /\ phase = "work" /\ kind = "compute" /\ phase' = "secret"
    /\ out' = Parts /\ reported' = Parts /\ rest' = {}
    /\ UNCHANGED <<kind, folder, pieces, errors, shipped, resultFile, run, copy>>

\* The files of a bench are removed again.
Bench ==
    /\ phase = "work" /\ kind = "bench" /\ phase' = "secret" /\ rest' = {}
    /\ UNCHANGED <<kind, folder, out, pieces, reported, errors, shipped, resultFile, run, copy>>

\* No output but the result, where a probe puts its errors.
Probe ==
    /\ phase = "work" /\ kind = "probe" /\ phase' = "secret" /\ rest' = {}
    /\ errors' \in {errors, errors \union {"work"}}
    /\ UNCHANGED <<kind, folder, out, pieces, reported, shipped, resultFile, run, copy>>

EndParts ==
    /\ phase = "work" /\ kind \in {"aws", "binance"} /\ rest = {}
    /\ phase' = "secret"
    /\ UNCHANGED <<kind, folder, rest, out, pieces, reported, errors, shipped, resultFile, run, copy>>

\* A folder was asked for and a token can be had: the mirror begins.
StartUpload ==
    /\ phase = "secret" /\ folder
    /\ phase' = "upload" /\ rest' = out
    /\ UNCHANGED <<kind, folder, out, pieces, reported, errors, shipped, resultFile, run, copy>>

NoSecret ==
    /\ phase = "secret" /\ folder
    /\ phase' = "result" /\ errors' = errors \union {"drive"}
    /\ UNCHANGED <<kind, folder, rest, out, pieces, reported, shipped, resultFile, run, copy>>

NoUpload ==
    /\ phase = "secret" /\ ~folder /\ phase' = "result"
    /\ UNCHANGED <<kind, folder, rest, out, pieces, reported, errors, shipped, resultFile, run, copy>>

UploadFile ==
    /\ phase = "upload"
    /\ \E f \in rest : shipped' = shipped \union {f} /\ rest' = rest \ {f}
    /\ UNCHANGED <<kind, folder, phase, out, pieces, reported, errors, resultFile, run, copy>>

\* upload_tree lists the file as failed and goes on.
UploadFileFails ==
    /\ phase = "upload"
    /\ \E f \in rest : rest' = rest \ {f}
    /\ errors' = errors \union {"file"}
    /\ UNCHANGED <<kind, folder, phase, out, pieces, reported, shipped, resultFile, run, copy>>

\* The token or a folder: the error replaces the report of what was uploaded.
UploadRaises ==
    /\ phase = "upload" /\ phase' = "result" /\ rest' = {}
    /\ errors' = (errors \ {"file"}) \union {"drive"}
    /\ UNCHANGED <<kind, folder, out, pieces, reported, shipped, resultFile, run, copy>>

EndUpload ==
    /\ phase = "upload" /\ rest = {} /\ phase' = "result"
    /\ UNCHANGED <<kind, folder, rest, out, pieces, reported, errors, shipped, resultFile, run, copy>>

WriteResult ==
    /\ phase = "result" /\ phase' = "complete" /\ resultFile' = TRUE
    /\ UNCHANGED <<kind, folder, rest, out, pieces, reported, errors, shipped, run, copy>>

\* The time limit of the session.
KernelKilled ==
    /\ phase \notin {"complete", "dead"} /\ phase' = "dead"
    /\ UNCHANGED <<kind, folder, rest, out, pieces, reported, errors, shipped, resultFile, run, copy>>

\* fetch_output: the run's files are copied over those of the run before, of
\* which a result.json stays when this run has left none; it is reported then.
FetchOutput ==
    /\ phase \in {"complete", "dead"}
    /\ copy' = IF resultFile
               THEN {[run |-> run, reported |-> reported, errors |-> errors]}
               ELSE copy
    /\ UNCHANGED <<kind, folder, phase, rest, out, pieces, reported, errors,
                   shipped, resultFile, run>>

\* The job is pushed again under its slug; Drive keeps what it has.
PushAgain ==
    /\ phase \in {"complete", "dead"} /\ run < MaxRuns /\ run' = run + 1
    /\ phase' = "work" /\ rest' = Parts /\ out' = {} /\ pieces' = {}
    /\ reported' = {} /\ errors' = {} /\ resultFile' = FALSE
    /\ UNCHANGED <<kind, folder, shipped, copy>>

KernelNext ==
    \/ FetchPart \/ FetchNothing \/ FetchPiece \/ Die \/ Compute \/ Bench \/ Probe \/ EndParts
    \/ StartUpload \/ NoSecret \/ NoUpload \/ UploadFile \/ UploadFileFails
    \/ UploadRaises \/ EndUpload \/ WriteResult \/ KernelKilled
    \/ FetchOutput \/ PushAgain

-----------------------------------------------------------------------------
(* Properties *)

\* A result whose upload has no error names parts that are on Drive, of
\* whichever run the result is: a run that dies leaves none, and a stale one of
\* the run before is still true of Drive.  (A day copied from aws may be only a
\* piece there: pieces.)
ReportMeansShipped ==
    /\ KernelTypeOK
    /\ \A r \in copy : folder /\ r.errors \intersect {"drive", "file"} = {} =>
         r.reported \subseteq shipped
=============================================================================
