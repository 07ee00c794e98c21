----------------------------- MODULE WatchFeed -----------------------------
(***************************************************************************)
(* watch(), Cursor and SeenSet of backend/pump.py: short visits to a       *)
(* source that publishes records for ever.  Each visit loads the cursor    *)
(* and the seen-set from disk and may be killed between any two of its     *)
(* effects: sink, save of the seen-set, save of the cursor.                *)
(*                                                                         *)
(* A record is known by its id; mark gives its watermark_of.  The source   *)
(* (external) answers a fetch with the records of lowest mark from the     *)
(* watermark on, PageSize of them and those that tie with the last; or it  *)
(* answers out of order, with a page that begins below the watermark.      *)
(***************************************************************************)
EXTENDS Integers, SequencesExt, FiniteSetsExt

CONSTANTS Ids,         \* 1 .. n, in the order of publication
          Marks,       \* what watermark_of may be on them, none decreasing
          PageSize,
          MaxEntries,  \* SeenSet.max_entries
          MaxOld,      \* bound: out-of-order answers
          MaxKilled    \* bound: visits killed

ASSUME WatchAssumption ==
    /\ Ids \subseteq Nat /\ IsFiniteSet(Ids)
    /\ Marks \subseteq [Ids -> 0 .. 99]
    /\ \A m \in Marks, i, k \in Ids : i < k => m[i] <= m[k]
    /\ {PageSize, MaxEntries} \subseteq Nat \ {0}
    /\ {MaxOld, MaxKilled} \subseteq Nat

None == -1

VARIABLES mark,       \* watermark_of, fixed by the source
          published,  \* ids the source has published
          watermark,  \* cursor file; None at first
          seen,       \* seen-set file: ids in the order they were added
          copies,     \* how often the sink has stored each record
          stage, batch, \* the running visit and its answer
          old, killed   \* history: out-of-order answers, visits killed

feedVars == <<mark, published, watermark, seen, copies, stage, batch, old, killed>>

FeedTypeOK ==
    /\ mark \in Marks
    /\ published \subseteq Ids
    /\ watermark \in {None} \union {mark[i] : i \in Ids}
    /\ seen \in BoundedSeq(Ids, MaxEntries)
    /\ copies \in [Ids -> Nat]
    /\ stage \in {"away", "sink", "remember", "advance"}
    /\ batch \subseteq published

FeedInit ==
    /\ mark \in Marks
    /\ published = {}
    /\ watermark = None
    /\ seen = << >>
    /\ copies = [i \in Ids |-> 0]
    /\ stage = "away" /\ batch = {}
    /\ old = 0 /\ killed = 0

-----------------------------------------------------------------------------

\* str(a) > str(b): the order of the decimal numerals, digit by digit.
Digits(n) == IF n < 10 THEN <<n>> ELSE <<n \div 10, n % 10>>
StrGreater(a, b) ==
    LET x == Digits(a)
        y == Digits(b)
    IN  x[1] > y[1] \/ (x[1] = y[1] /\ Len(x) > Len(y))
                    \/ (x[1] = y[1] /\ Len(x) = Len(y) /\ Last(x) > Last(y))

\* Mutated form of Later: the newest answer wins.
LaterNewest(old_mark) == Max({mark[i] : i \in batch})

\* Mutated form of Later: the comparison is the wrong way round.
LaterReversed(old_mark) ==
    LET candidate == Max({mark[i] : i \in batch})
    IN  IF old_mark = None \/ StrGreater(old_mark, candidate)
        THEN candidate ELSE old_mark

\* The new watermark: the candidate if it compares greater as a string.
Later(old_mark) ==
    LET candidate == Max({mark[i] : i \in batch})
    IN  IF old_mark = None \/ StrGreater(candidate, old_mark)
        THEN candidate ELSE old_mark

Publish(i) ==
    /\ i \in Ids \ published /\ \A k \in Ids : k < i => k \in published
    /\ published' = published \union {i}
    /\ UNCHANGED <<mark, watermark, seen, copies, stage, batch, old, killed>>

\* Of the records P with marks m, the page that begins at low.
PageOf(P, m, low) ==
    LET due == {i \in P : m[i] >= low}
        Rank(i) == Cardinality({k \in due : m[k] < m[i]})
    IN  {i \in due : Rank(i) < PageSize}

PageFrom(low) == PageOf(published, mark, low)

FetchPage ==
    /\ stage = "away" /\ stage' = "sink"
    /\ batch' = PageFrom(watermark)
    /\ UNCHANGED <<mark, published, watermark, seen, copies, old, killed>>

FetchOld(m) ==
    /\ stage = "away" /\ stage' = "sink"
    /\ m < watermark /\ old < MaxOld /\ old' = old + 1
    /\ batch' = PageFrom(m)
    /\ UNCHANGED <<mark, published, watermark, seen, copies, killed>>

\* Mutated form of Unseen: the seen-set is not consulted.
UnseenAll == batch

Unseen == batch \ ToSet(seen)

SinkUnseen ==
    /\ stage = "sink" /\ stage' = "remember"
    /\ copies' = [i \in Ids |-> IF i \in Unseen THEN copies[i] + 1 ELSE copies[i]]
    /\ UNCHANGED <<mark, published, watermark, seen, batch, old, killed>>

\* A set of ids as a sequence, in the order of publication.
InOrder(S) == [r \in 1 .. Cardinality(S) |->
                  CHOOSE i \in S : Cardinality({k \in S : k < i}) = r - 1]

\* seen.add_many and its save, which keeps the last MaxEntries on disk.
Remember ==
    /\ stage = "remember" /\ stage' = "advance"
    /\ LET all == seen \o InOrder(Unseen)
           drop == Max({0, Len(all) - MaxEntries})
       IN  seen' = SubSeq(all, drop + 1, Len(all))
    /\ UNCHANGED <<mark, published, watermark, copies, batch, old, killed>>

\* Mutated form of AdvanceMark: the mark after the last record of the answer is
\* asked for next.
AdvancePast ==
    /\ stage = "advance" /\ stage' = "away"
    /\ watermark' = IF batch = {} THEN watermark
                    ELSE IF Later(watermark) + 1 \in {mark[i] : i \in Ids}
                         THEN Later(watermark) + 1 ELSE Later(watermark)
    /\ batch' = {}
    /\ UNCHANGED <<mark, published, seen, copies, old, killed>>

AdvanceMark ==
    /\ stage = "advance" /\ stage' = "away"
    /\ watermark' = IF batch = {} THEN watermark ELSE Later(watermark)
    /\ batch' = {}
    /\ UNCHANGED <<mark, published, seen, copies, old, killed>>

KillVisit ==
    /\ stage # "away" /\ killed < MaxKilled
    /\ stage' = "away" /\ killed' = killed + 1 /\ batch' = {}
    /\ UNCHANGED <<mark, published, watermark, seen, copies, old>>

Visit == SinkUnseen \/ Remember \/ AdvanceMark

FeedNext ==
    \/ \E i \in Ids : Publish(i) \/ FetchOld(mark[i])
    \/ FetchPage \/ Visit \/ KillVisit

FeedSpec == FeedInit /\ [][FeedNext]_feedVars

\* Visits are made again and again, and go on unless they are killed; the
\* source does not answer out of order for ever.
Fairness == SF_feedVars(FetchPage) /\ WF_feedVars(Visit)

FairFeedSpec == FeedSpec /\ Fairness

-----------------------------------------------------------------------------
(* Properties *)

\* What lies below the watermark is stored: no later fetch would bring it.
NoGap ==
    /\ FeedTypeOK
    /\ \A i \in published :
          watermark # None /\ mark[i] < watermark => copies[i] > 0

\* The source's marks compare alike as numbers and as strings.
OrderedAsStrings ==
    \A i, k \in Ids : mark[i] < mark[k] => StrGreater(mark[k], mark[i])

\* pump.py:298, "Never move the watermark backwards": true of marks that order
\* alike as strings, out-of-order answers notwithstanding.
WatermarkMonotone == [][OrderedAsStrings => watermark' >= watermark]_feedVars

\* No answer, with the records that tie at its end, is longer than what the
\* seen-set keeps, which by default is two million ids (pump.py:150).
AnswersFit ==
    \A m \in Marks, P \in SUBSET Ids, low \in {None} \union 0 .. 99 :
        Cardinality(PageOf(P, m, low)) <= MaxEntries

\* A record is stored again only because a visit was killed between the sink
\* and the save of the seen-set, or because an out-of-order answer reached
\* back further than the seen-set; the overlap of ordinary answers never is.
DuplicatesBounded == \A i \in Ids : copies[i] <= 1 + killed + old

\* No tie fills a page: the page that begins with one goes on behind it.
TiesShort == \A i \in Ids : Cardinality({k \in Ids : mark[k] = mark[i]}) < PageSize

\* Every record that is published is stored in the end, if marks order alike
\* as strings and no tie fills a page.  Else the visits stop for ever at a
\* watermark whose page brings no later mark that compares greater
\* (pump.py:300), whatever the source still has.
EventuallyStored ==
    \A i \in Ids : i \in published /\ OrderedAsStrings /\ TiesShort ~> copies[i] > 0
=============================================================================
