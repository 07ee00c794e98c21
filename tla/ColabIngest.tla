---------------------------- MODULE ColabIngest ----------------------------
(***************************************************************************)
(* run_ingest and push_to_drive of notebooks/colab_worker.py, over the     *)
(* jobs of successive sessions: months are written to the session's disk,  *)
(* which is gone when it ends, and then the job's whole directory is       *)
(* mirrored into Drive by drive_rest.upload_tree.                          *)
(*                                                                         *)
(* A job asks for the last n months; the months are numbered, the newest   *)
(* last.  Nothing is pushed when nothing was written.                      *)
(***************************************************************************)
EXTENDS Integers, FiniteSets, FiniteSetsExt

CONSTANTS Newest,             \* months 1 .. Newest
          MaxJobs, MaxDeaths  \* bounds

ColabAssumption == {Newest, MaxJobs, MaxDeaths} \subseteq Nat

Months == 1 .. Newest

VARIABLES secret,     \* the Drive secret is configured; fixed
          published,  \* months the archive has
          disk,       \* months on the session's disk
          doing,      \* what the session does
          asked,      \* the months the job still has to look at
          written,    \* the months it has written
          toPush,     \* files the mirror has still to upload
          mirrored,   \* months on Drive
          failing,    \* the push under way has a file in "failed"
          unclean,    \* history: of this session's reports that tell of work or
                      \* failure, the last one was not of a clean push
          jobs, deaths

colabVars == <<secret, published, disk, doing, asked, written, toPush, mirrored,
               failing, unclean, jobs, deaths>>

ColabTypeOK ==
    /\ secret \in BOOLEAN /\ published \subseteq Months
    /\ disk \subseteq Months /\ mirrored \subseteq Months
    /\ doing \in {"poll", "ingest", "push"}
    /\ asked \subseteq Months /\ written \subseteq Months /\ toPush \subseteq disk
    /\ failing \in BOOLEAN /\ unclean \in BOOLEAN
    /\ jobs \in 0 .. MaxJobs /\ deaths \in 0 .. MaxDeaths

ColabInit ==
    /\ secret \in BOOLEAN /\ published \in {Months, Months \ {Newest}}
    /\ disk = {} /\ doing = "poll" /\ asked = {} /\ written = {} /\ toPush = {}
    /\ mirrored = {} /\ failing = FALSE /\ unclean = FALSE
    /\ jobs = 0 /\ deaths = 0

-----------------------------------------------------------------------------

Job(n) ==
    /\ doing = "poll" /\ jobs < MaxJobs /\ jobs' = jobs + 1
    /\ doing' = "ingest" /\ asked' = Newest - n + 1 .. Newest /\ written' = {}
    /\ UNCHANGED <<secret, published, disk, toPush, mirrored, failing, unclean, deaths>>

\* The oldest month first.  It is on the disk, or not published yet.
SkipMonth ==
    /\ doing = "ingest" /\ asked # {}
    /\ Min(asked) \in disk \/ Min(asked) \notin published
    /\ asked' = asked \ {Min(asked)}
    /\ UNCHANGED <<secret, published, disk, doing, written, toPush, mirrored,
                   failing, unclean, jobs, deaths>>

WriteMonth ==
    /\ doing = "ingest" /\ asked # {} /\ Min(asked) \in published \ disk
    /\ disk' = disk \union {Min(asked)} /\ written' = written \union {Min(asked)}
    /\ asked' = asked \ {Min(asked)}
    /\ UNCHANGED <<secret, published, doing, toPush, mirrored, failing, unclean,
                   jobs, deaths>>

\* Any error but a 404 raises out of the job: what it has written stays on the
\* disk, the month it was writing perhaps among it, and is not pushed.
Raise ==
    /\ doing = "ingest" /\ asked # {} /\ Min(asked) \in published \ disk
    /\ doing' = "poll" /\ asked' = {} /\ unclean' = TRUE
    /\ disk' \in {disk, disk \union {Min(asked)}}
    /\ UNCHANGED <<secret, published, written, toPush, mirrored, failing,
                   jobs, deaths>>

\* Mutated form of Mirror: only the files of this job.
MirrorWritten == written

\* upload_tree walks the whole directory.
Mirror == disk

\* The months are through; without the secret push_to_drive returns None, and
\* the result says that the upload was skipped.
EndIngest ==
    /\ doing = "ingest" /\ asked = {}
    /\ IF written = {} THEN doing' = "poll" /\ UNCHANGED <<toPush, failing, unclean>>
       ELSE IF ~secret THEN doing' = "poll" /\ unclean' = TRUE /\ UNCHANGED <<toPush, failing>>
       ELSE doing' = "push" /\ toPush' = Mirror /\ failing' = FALSE /\ UNCHANGED unclean
    /\ UNCHANGED <<secret, published, disk, asked, written, mirrored, jobs, deaths>>

PushFile ==
    /\ doing = "push" /\ toPush # {}
    /\ mirrored' = mirrored \union {Min(toPush)} /\ toPush' = toPush \ {Min(toPush)}
    /\ UNCHANGED <<secret, published, disk, doing, asked, written, failing, unclean,
                   jobs, deaths>>

\* One file fails and is listed; the rest goes on.
PushFileFails ==
    /\ doing = "push" /\ toPush # {}
    /\ failing' = TRUE /\ toPush' = toPush \ {Min(toPush)}
    /\ UNCHANGED <<secret, published, disk, doing, asked, written, mirrored, unclean,
                   jobs, deaths>>

\* The token or a folder cannot be had: the result carries the error, and the
\* job is reported as done all the same.
PushRaises ==
    /\ doing = "push" /\ doing' = "poll" /\ toPush' = {} /\ unclean' = TRUE
    /\ UNCHANGED <<secret, published, disk, asked, written, mirrored, failing, jobs,
                   deaths>>

EndPush ==
    /\ doing = "push" /\ toPush = {} /\ doing' = "poll" /\ unclean' = failing
    /\ UNCHANGED <<secret, published, disk, asked, written, toPush, mirrored,
                   failing, jobs, deaths>>

\* The newest month appears in the archive.
Publish ==
    /\ published # Months /\ published' = Months
    /\ UNCHANGED <<secret, disk, doing, asked, written, toPush, mirrored, failing,
                   unclean, jobs, deaths>>

\* The runtime goes, and its disk with it.
SessionDies ==
    /\ deaths < MaxDeaths /\ deaths' = deaths + 1
    /\ disk' = {} /\ doing' = "poll" /\ asked' = {} /\ written' = {} /\ toPush' = {}
    /\ failing' = FALSE /\ unclean' = FALSE
    /\ UNCHANGED <<secret, published, mirrored, jobs>>

ColabNext ==
    \/ \E n \in Months : Job(n)
    \/ SkipMonth \/ WriteMonth \/ Raise \/ EndIngest
    \/ PushFile \/ PushFileFails \/ PushRaises \/ EndPush
    \/ Publish \/ SessionDies

-----------------------------------------------------------------------------
(* Properties *)

\* Between jobs, whatever the session has on its disk is on Drive, unless its
\* last push, or the last job that broke off, was reported as not clean: a
\* clean push makes up for the failed ones before it.  A job that finds all
\* its months on the disk pushes nothing, so asking again does not.
CleanMeansMirrored ==
    /\ ColabTypeOK
    /\ doing = "poll" /\ ~unclean => disk \subseteq mirrored
=============================================================================
