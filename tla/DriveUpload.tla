----------------------------- MODULE DriveUpload -----------------------------
(***************************************************************************)
(* drive_rest.upload: one file through a resumable session, chunk by       *)
(* chunk, with the retries of _request below it.                           *)
(*                                                                         *)
(* Drive is external.  It commits some prefix of a chunk that starts at or *)
(* before what it has, nothing of one that starts later, and makes the     *)
(* file once all of it is there; its answer names what it has, leaves      *)
(* that out, fails, or does not arrive.  A file is Size units long, a      *)
(* chunk Chunk units.                                                      *)
(***************************************************************************)
EXTENDS Naturals

CONSTANTS Sizes,       \* lengths of local files
          Chunk,       \* CHUNK
          Retries,     \* RETRIES, of one chunk
          NetRetries,  \* NET_RETRIES, of one request
          MaxFaults    \* bound: answers that are not the plain success

ASSUME UploadAssumption ==
    /\ Sizes \subseteq Nat /\ Chunk \in Nat \ {0}
    /\ {Retries, NetRetries, MaxFaults} \subseteq Nat

VARIABLES phase,      \* "idle", "open", "put", "sent"; then "ok" or "raised"
          size,
          offset,     \* the next byte to send
          attempts,   \* failed answers to this chunk
          net,        \* requests of this _request that did not come back
          committed,  \* the server's side of the session
          created,    \* the session has made its file
          faults

uploadVars == <<phase, size, offset, attempts, net, committed, created, faults>>
server == <<committed, created>>

UploadTypeOK ==
    /\ phase \in {"idle", "open", "put", "sent", "ok", "raised"}
    /\ size \in Sizes \union {0} /\ offset \in Nat
    /\ attempts \in 0 .. Retries /\ net \in 0 .. NetRetries
    /\ committed \in 0 .. size /\ created \in BOOLEAN
    /\ faults \in 0 .. MaxFaults

UploadInit ==
    /\ phase = "idle" /\ size = 0 /\ offset = 0 /\ attempts = 0 /\ net = 0
    /\ committed = 0 /\ created = FALSE /\ faults = 0

-----------------------------------------------------------------------------

Min2(a, b) == IF a <= b THEN a ELSE b
End == Min2(offset + Chunk, size)
Faulty == faults < MaxFaults /\ faults' = faults + 1

\* The session is opened: a POST, refused or not.
Begin(n) ==
    /\ phase = "open"
    /\ size' = n /\ offset' = 0 /\ attempts' = 0 /\ net' = 0
    /\ committed' = 0 /\ created' = FALSE
    /\ \/ phase' = "put" /\ UNCHANGED faults
       \/ phase' = "raised" /\ Faulty

\* while offset < size: the PUT goes out; past the end there is no answer left
\* to wait for, and the loop raises.
Send ==
    /\ phase = "put"
    /\ phase' = IF offset < size THEN "sent" ELSE "raised"
    /\ UNCHANGED <<size, offset, attempts, net, server, faults>>

\* What a PUT may leave in the server: a longer prefix, unless there is a gap.
Received == IF offset <= committed THEN committed .. (IF End > committed THEN End ELSE committed)
            ELSE {committed}

\* Once it has all of the file the server makes it.
Commit(c) == /\ c \in Received
             /\ committed' = c /\ created' = (c = size)

\* 200 or 201.
AnswerDone ==
    /\ phase = "sent"
    /\ Commit(End) /\ created'
    /\ phase' = "ok"
    /\ UNCHANGED <<size, offset, attempts, net, faults>>

\* Mutated form of Resume: the count of the client is trusted.
ResumeOwnCount(named) == offset' = End

\* The Range header is trusted over the client's count; without one, a chunk
\* is taken for received.
Resume(named) == offset' = IF named THEN committed' ELSE End

\* 308: the Range header is missing when the server has nothing.
AnswerMore(c) ==
    /\ phase = "sent" /\ Commit(c) /\ ~created'
    /\ Resume(c > 0)
    /\ IF c = End \/ offset > committed THEN UNCHANGED faults ELSE Faulty
    /\ attempts' = 0 /\ net' = 0 /\ phase' = "put"
    /\ UNCHANGED size

\* 429 or 5xx, whatever became of the chunk: the same chunk again, or give up.
AnswerFails(c) ==
    /\ phase = "sent" /\ Commit(c) /\ Faulty
    /\ net' = 0
    /\ IF attempts < Retries
       THEN attempts' = attempts + 1 /\ phase' = "put"
       ELSE phase' = "raised" /\ UNCHANGED attempts
    /\ UNCHANGED <<size, offset>>

\* No answer: _request sends the same bytes again, or gives up.
AnswerLost(c) ==
    /\ phase = "sent" /\ Commit(c) /\ Faulty
    /\ IF net < NetRetries THEN net' = net + 1 /\ UNCHANGED phase
                           ELSE phase' = "raised" /\ UNCHANGED net
    /\ UNCHANGED <<size, offset, attempts>>

\* Another status, a 401 for a token that has expired among them.
AnswerRefused ==
    /\ phase = "sent" /\ Faulty /\ phase' = "raised"
    /\ UNCHANGED <<size, offset, attempts, net, server>>

UploadStep ==
    \/ \E n \in Sizes : Begin(n)
    \/ Send \/ AnswerDone \/ AnswerRefused
    \/ \E c \in 0 .. size : AnswerMore(c) \/ AnswerFails(c) \/ AnswerLost(c)

-----------------------------------------------------------------------------

\* The comment at drive_rest.py:261-262: the client is never ahead of the
\* server, except by chunks the server has answered without naming any byte,
\* and then the server has none.
NeverAhead == phase \in {"put", "sent"} => offset <= committed \/ committed = 0
=============================================================================
