----------------------------- MODULE PumpDrain -----------------------------
(***************************************************************************)
(* pump() and Cursor of backend/pump.py draining a paginated source, over  *)
(* as many sessions as it takes: a session stops by itself (budget, rate   *)
(* limit, failed fetch) or is killed at any point, and is started again    *)
(* from the cursor file.                                                   *)
(*                                                                         *)
(* Pages are numbered 1 .. Pages and stand for their records.  The sink is *)
(* the caller's: a durable one has stored its records when it returns; a   *)
(* buffered one is the push of collections.Dataset, which keeps them in    *)
(* memory and now and then flushes a part file.  A part is named after the *)
(* writer and the files its session has written before: part 0 of two      *)
(* sessions with one writer name (the process id, by default) is one file. *)
(***************************************************************************)
EXTENDS Naturals, FiniteSets

CONSTANTS Pages, MaxRetries,
          Sinks,     \* the sinks a caller may use: buffered or not
          Writers,   \* names of Dataset sessions
          MaxKills   \* bound: sessions killed

ASSUME PumpAssumption ==
    /\ Pages \in Nat \ {0} /\ MaxRetries \in Nat /\ MaxKills \in Nat
    /\ Sinks \subseteq BOOLEAN /\ Writers # {} /\ IsFiniteSet(Writers)

VARIABLES position,   \* cursor file: the next page, None read as page 1
          exhausted,  \* cursor file
          pc, page,   \* the running session, and the page it has in hand
          retries,
          buffered,   \* the sink is Dataset.push; fixed by the caller
          buffer,     \* pages the sink holds in memory
          writer,     \* Dataset: the writer name of the session
          mine,       \* Dataset.files: numbers of the parts it has written
          parts,      \* the part files of the dataset
          stored,     \* how many durable copies there are of each page
          kills,      \* history: sessions killed
          lost        \* history: pages that were in memory at a kill, or in a
                      \* part whose name came up again in another session

vars == <<position, exhausted, pc, page, retries, buffered, buffer, writer, mine,
          parts, stored, kills, lost>>
cursor == <<position, exhausted>>
dataset == <<buffer, writer, mine, parts, stored, lost>>

Page == 1 .. Pages
Numbers == 0 .. Pages - 1

TypeOK ==
    /\ position \in Page
    /\ exhausted \in BOOLEAN
    /\ pc \in {"stopped", "loop", "sink", "advance", "returned"}
    /\ page \in Page
    /\ retries \in 0 .. MaxRetries
    /\ buffered \in BOOLEAN
    /\ buffer \subseteq Page
    /\ writer \in Writers /\ mine \subseteq Numbers
    /\ parts \in [Writers \X Numbers -> SUBSET Page]
    /\ stored \in [Page -> Nat]
    /\ kills \in 0 .. MaxKills /\ lost \subseteq Page

Init ==
    /\ position = 1 /\ exhausted = FALSE
    /\ pc = "stopped" /\ page = 1 /\ retries = 0
    /\ buffered \in Sinks /\ buffer = {}
    /\ writer \in Writers /\ mine = {}
    /\ parts = [f \in Writers \X Numbers |-> {}]
    /\ stored = [p \in Page |-> 0]
    /\ kills = 0 /\ lost = {}

-----------------------------------------------------------------------------

Copies(p, S) == IF p \in S THEN 1 ELSE 0

\* The file flush writes next; what is in it already is replaced.
Part == <<writer, Cardinality(mine)>>
Replaced == IF Cardinality(mine) \in mine THEN {} ELSE parts[Part] \ buffer

\* S becomes the content of the next part.
Rewrite(S) ==
    /\ parts' = [parts EXCEPT ![Part] = S]
    /\ stored' = [p \in Page |-> stored[p] + Copies(p, S) - Copies(p, parts[Part])]

\* Dataset.flush
WritePart ==
    /\ buffer # {} /\ Rewrite(buffer)
    /\ buffer' = {} /\ lost' = lost \union Replaced
    /\ UNCHANGED writer

\* A session begins; a source marked exhausted is not pumped again.  Whoever
\* gives the sessions their names may come back to one.
Start ==
    /\ pc = "stopped" /\ ~exhausted
    /\ pc' = "loop" /\ retries' = 0
    /\ IF buffered THEN writer' \in Writers ELSE UNCHANGED writer
    /\ UNCHANGED <<cursor, page, buffered, buffer, mine, parts, stored, kills, lost>>

\* Mutated form of Fetch: the cursor moves before the records are stored.
FetchAdvances ==
    /\ pc = "loop"
    /\ page' = position /\ retries' = 0 /\ pc' = "sink"
    /\ position' = IF position < Pages THEN position + 1 ELSE position
    /\ UNCHANGED <<exhausted, buffered, dataset, kills>>

Fetch ==
    /\ pc = "loop"
    /\ page' = position /\ retries' = 0 /\ pc' = "sink"
    /\ UNCHANGED <<cursor, buffered, dataset, kills>>

\* The source answers "rate limited": wait and ask again, or give up.
Limited ==
    /\ pc = "loop"
    /\ IF retries < MaxRetries THEN retries' = retries + 1 /\ UNCHANGED pc
                               ELSE pc' = "returned" /\ UNCHANGED retries
    /\ UNCHANGED <<cursor, page, buffered, dataset, kills>>

\* max_pages, max_records or the deadline is reached, or the fetch raises.
Stop ==
    /\ pc = "loop" /\ pc' = "returned"
    /\ UNCHANGED <<cursor, page, retries, buffered, dataset, kills>>

\* The call of the sink; it returns before the cursor is touched.
Sink ==
    /\ pc = "sink" /\ pc' = "advance"
    /\ IF buffered THEN buffer' = buffer \union {page} /\ UNCHANGED stored
                   ELSE stored' = [stored EXCEPT ![page] = @ + 1] /\ UNCHANGED buffer
    /\ UNCHANGED <<cursor, page, retries, buffered, writer, mine, parts, kills, lost>>

\* The push was the one that makes Dataset flush its buffer into a part.
Flush ==
    /\ pc = "advance" /\ WritePart /\ mine' = mine \union {Cardinality(mine)}
    /\ UNCHANGED <<cursor, pc, page, retries, buffered, kills>>

\* Mutated form of Advance: only every second page is written to the file.
AdvanceLazily ==
    /\ pc = "advance"
    /\ IF page = Pages
       THEN exhausted' = TRUE /\ pc' = "returned" /\ UNCHANGED <<position, page>>
       ELSE IF page % 2 = 0
       THEN position' = page + 1 /\ pc' = "loop" /\ UNCHANGED <<exhausted, page>>
       ELSE page' = page + 1 /\ pc' = "sink" /\ UNCHANGED cursor
    /\ UNCHANGED <<retries, buffered, dataset, kills>>

\* Cursor.advance; the last page leaves the position where it is.
Advance ==
    /\ pc = "advance"
    /\ IF page = Pages
       THEN exhausted' = TRUE /\ pc' = "returned" /\ UNCHANGED position
       ELSE position' = page + 1 /\ pc' = "loop" /\ UNCHANGED exhausted
    /\ UNCHANGED <<page, retries, buffered, dataset, kills>>

\* Mutated form of Finish: the caller drops the sink without a last flush.
FinishUnflushed ==
    /\ pc = "returned" /\ pc' = "stopped"
    /\ buffer' = {} /\ mine' = {}
    /\ UNCHANGED <<cursor, page, retries, writer, parts, stored, buffered, kills, lost>>

\* pump has returned or raised; its caller flushes the sink and ends.
Finish ==
    /\ pc = "returned" /\ pc' = "stopped"
    /\ WritePart \/ (buffer = {} /\ UNCHANGED <<buffer, writer, parts, stored, lost>>)
    /\ mine' = {}
    /\ UNCHANGED <<cursor, page, retries, buffered, kills>>

\* The session ends at the platform's limit, wherever it is; in write_parquet it
\* leaves a part nobody can read.
Kill ==
    /\ pc # "stopped" /\ kills < MaxKills
    /\ pc' = "stopped" /\ kills' = kills + 1 /\ buffer' = {} /\ mine' = {}
    /\ \/ lost' = lost \union buffer /\ UNCHANGED <<parts, stored>>
       \/ /\ pc \in {"advance", "returned"} /\ buffer # {}
          /\ Rewrite({}) /\ lost' = lost \union buffer \union Replaced
    /\ UNCHANGED <<cursor, page, retries, writer, buffered>>

Next == \/ Start \/ Fetch \/ Limited \/ Stop \/ Sink \/ Flush \/ Advance
        \/ Finish \/ Kill

Spec == Init /\ [][Next]_vars

-----------------------------------------------------------------------------
(* Properties *)

Behind(p) == p < position \/ exhausted

\* With a durable sink, whatever the cursor file has moved past is stored,
\* wherever sessions are killed; with a buffered one, what is not is in the
\* buffer of the session that runs, unless it was in one that was killed, or in
\* a part that a later session of the same name wrote over.
HolesBuffered ==
    /\ TypeOK
    /\ \A p \in Page : Behind(p) => stored[p] > 0 \/ p \in buffer \/ p \in lost
    /\ ~buffered => lost = {}

\* The price is one page per kill, however many sessions there are: a restart
\* never goes back further than the page in flight.
RereadsBounded ==
    Cardinality(UNION {{p} \X (1 .. stored[p]) : p \in Page}) <= Pages + kills

\* The source is drained in the end, and all of it is durable for good then but
\* for what a buffered session lost.
Drained == <>[](exhausted /\ \A p \in Page : stored[p] > 0 \/ p \in lost)
=============================================================================
