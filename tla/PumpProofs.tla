----------------------------- MODULE PumpProofs -----------------------------
(***************************************************************************)
(* What backend/pump.py promises, and what paces it.  watch, for every     *)
(* source, page size, size of the seen-set, and any number of out-of-order *)
(* answers and killed visits; pump and its cursor, for every number of     *)
(* pages, retries, writers and kills, and either sink; and what the source *)
(* sees of sessions that are paced one by one, for every rate, cost and    *)
(* burst.                                                                  *)
(***************************************************************************)
EXTENDS PumpPaced, WatchFeed, SequenceTheorems, FiniteSetTheorems,
        WellFoundedInduction, TLAPS

-----------------------------------------------------------------------------
(* watch: the inductive invariant *)

\* What is remembered has been stored.
SeenStored == \A i \in ToSet(seen) : copies[i] > 0

\* A visit that has been to the sink has stored its answer.
BatchStored == stage \in {"remember", "advance"} => \A i \in batch : copies[i] > 0

\* The source publishes in order.
PublishedFirst == \A i \in Ids, k \in published : i < k => i \in published

\* What comes before a record of the answer is in it too, or is stored.
BatchClosed == \A k \in batch, i \in published :
                  mark[i] < mark[k] => i \in batch \/ copies[i] > 0

\* The watermark is the mark of a published record.
MarkPublished == watermark \in {None} \union {mark[k] : k \in published}

FeedInv == /\ NoGap /\ MarkPublished /\ SeenStored /\ BatchStored /\ PublishedFirst /\ BatchClosed

-----------------------------------------------------------------------------
(* Marks *)

LEMMA MarksAreNumbers ==
    ASSUME mark \in Marks
    PROVE  /\ \A i \in Ids : mark[i] \in 0 .. 99
           /\ \A i, k \in Ids : i < k => mark[i] <= mark[k]
BY WatchAssumption

\* A set of marks has a greatest one.
LEMMA MaxIsGreatest ==
    ASSUME NEW S, S \subseteq 0 .. 99, S # {}
    PROVE  Max(S) \in S /\ \A y \in S : Max(S) >= y
<1> DEFINE less == {ss \in Nat \X Nat : ss[1] < ss[2]}
           below == {n \in 0 .. 99 : 99 - n \in S}
<1>1. IsWellFoundedOn(less, Nat)
  BY NatLessThanWellFounded DEF OpToRel
<1>2. below \subseteq Nat /\ below # {}
  <2>1. PICK x \in S : TRUE
    OBVIOUS
  <2>2. x \in 0 .. 99 /\ 99 - (99 - x) = x /\ 99 - x \in 0 .. 99
    BY <2>1
  <2>3. 99 - x \in below
    BY <2>1, <2>2
  <2>4. \A n \in below : n \in Nat
    OBVIOUS
  <2> QED
    BY <2>3, <2>4
<1> HIDE DEF below
<1>3. PICK n \in below : \A y \in below : ~ (<<y, n>> \in less)
  BY <1>1, <1>2, WFMin
<1>4. ASSUME NEW y \in S PROVE 99 - n >= y
  <2>1. /\ y \in 0 .. 99 /\ n \in 0 .. 99 /\ 99 - (99 - y) = y
        /\ 99 - y \in 0 .. 99
    BY <1>3 DEF below
  <2>2. 99 - y \in below
    BY <2>1 DEF below
  <2>3. 99 - y < n => <<99 - y, n>> \in less
    BY <2>1
  <2> QED
    BY <1>3, <2>1, <2>2, <2>3
<1>5. 99 - n \in S
  BY <1>3 DEF below
<1> QED
  BY <1>4, <1>5 DEF Max

\* The mark an answer ends with.
LEMMA LaterIsMark ==
    ASSUME FeedTypeOK, batch # {}, NEW w
    PROVE  /\ \/ Later(w) = w /\ w # None
              \/ \E k \in batch : Later(w) = mark[k]
           /\ Later(w) # w => w = None \/ StrGreater(Later(w), w)
<1> DEFINE marks == {mark[i] : i \in batch}
<1>1. marks \subseteq 0 .. 99 /\ marks # {}
  BY MarksAreNumbers DEF FeedTypeOK
<1>2. Max(marks) \in marks
  BY <1>1, MaxIsGreatest
<1> QED
  BY <1>2 DEF Later

\* Numerals are compared alike in one direction only.
LEMMA OneIsGreater ==
    ASSUME NEW a \in 0 .. 99, NEW b \in 0 .. 99, StrGreater(a, b)
    PROVE  ~ StrGreater(b, a)
<1> DEFINE D(n) == Digits(n)
<1>1. ASSUME NEW n \in 0 .. 99
      PROVE  /\ D(n)[1] \in Nat /\ Len(D(n)) \in Nat /\ Last(D(n)) \in Nat
  <2>1. n \div 10 \in Nat /\ n % 10 \in Nat
    OBVIOUS
  <2>2. CASE n < 10
    BY <2>1, <2>2 DEF Digits, Last
  <2>3. CASE ~ (n < 10)
    BY <2>1, <2>3 DEF Digits, Last
  <2> QED
    BY <2>2, <2>3
<1>2. /\ D(a)[1] \in Nat /\ Len(D(a)) \in Nat /\ Last(D(a)) \in Nat
      /\ D(b)[1] \in Nat /\ Len(D(b)) \in Nat /\ Last(D(b)) \in Nat
  BY <1>1
<1> HIDE DEF D
<1>3. StrGreater(a, b) <=>
        \/ D(a)[1] > D(b)[1]
        \/ (D(a)[1] = D(b)[1] /\ Len(D(a)) > Len(D(b)))
        \/ (D(a)[1] = D(b)[1] /\ Len(D(a)) = Len(D(b)) /\ Last(D(a)) > Last(D(b)))
  BY Zenon DEF StrGreater, D
<1>4. StrGreater(b, a) <=>
        \/ D(b)[1] > D(a)[1]
        \/ (D(b)[1] = D(a)[1] /\ Len(D(b)) > Len(D(a)))
        \/ (D(b)[1] = D(a)[1] /\ Len(D(b)) = Len(D(a)) /\ Last(D(b)) > Last(D(a)))
  BY Zenon DEF StrGreater, D
<1>5. ASSUME NEW x1 \in Nat, NEW x2 \in Nat, NEW x3 \in Nat,
             NEW y1 \in Nat, NEW y2 \in Nat, NEW y3 \in Nat,
             x1 > y1 \/ (x1 = y1 /\ x2 > y2) \/ (x1 = y1 /\ x2 = y2 /\ x3 > y3)
      PROVE  ~ (y1 > x1 \/ (y1 = x1 /\ y2 > x2) \/ (y1 = x1 /\ y2 = x2 /\ y3 > x3))
  BY <1>5
<1> QED
  BY <1>2, <1>3, <1>4, <1>5

-----------------------------------------------------------------------------
(* The seen-set and the answers *)

\* Put in order, the set is all there, and none twice.
LEMMA OrderedIsAll ==
    ASSUME NEW S, S \subseteq Ids
    PROVE  /\ InOrder(S) \in Seq(S) /\ ToSet(InOrder(S)) = S /\ IsInjective(InOrder(S))
           /\ \A r, t \in DOMAIN InOrder(S) : r < t => InOrder(S)[r] < InOrder(S)[t]
<1> DEFINE rank == [i \in S |-> Cardinality({k \in S : k < i}) + 1]
           n == Cardinality(S)
<1>1. IsFiniteSet(S) /\ S \subseteq Nat
  BY WatchAssumption, FS_Subset
<1>2. n \in Nat
  BY <1>1, FS_CardinalityType
<1>3. ASSUME NEW i \in S
      PROVE  /\ IsFiniteSet({k \in S : k < i})
             /\ rank[i] \in 1 .. n
  <2> DEFINE B == {k \in S : k < i}
  <2>1. IsFiniteSet(B) /\ Cardinality(B) \in Nat
    BY <1>1, FS_Subset, FS_CardinalityType
  <2>2. i \notin B /\ B \subseteq S /\ B # S
    BY <1>1
  <2>3. Cardinality(B) < n
    BY <1>1, <2>2, FS_Subset, <2>1, <1>2
  <2> QED
    BY <2>1, <2>3, <1>2
<1>4. ASSUME NEW i \in S, NEW j \in S, i < j PROVE rank[i] < rank[j]
  <2> DEFINE B == {k \in S : k < i}
             C == {k \in S : k < j}
  <2>1. B \subseteq C /\ B # C
    <3>1. i \in C /\ i \notin B
      BY <1>1, <1>4
    <3>2. \A k \in B : k < j
      BY <1>1, <1>4
    <3> QED
      BY <3>1, <3>2
  <2>2. IsFiniteSet(B) /\ IsFiniteSet(C)
    BY <1>3
  <2>3. Cardinality(B) < Cardinality(C)
    BY <2>1, <2>2, FS_Subset, FS_CardinalityType
  <2>4. Cardinality(B) \in Nat /\ Cardinality(C) \in Nat
    BY <2>2, FS_CardinalityType
  <2> QED
    BY <2>3, <2>4
<1>5. rank \in Injection(S, 1 .. n)
  <2>1. rank \in [S -> 1 .. n]
    BY <1>3
  <2>2. ASSUME NEW i \in S, NEW j \in S, i # j PROVE rank[i] # rank[j]
    <3>1. i < j \/ j < i
      BY <1>1, <2>2
    <3>2. rank[i] \in 1 .. n /\ rank[j] \in 1 .. n
      BY <2>1
    <3> QED
      BY <3>1, <3>2, <1>4
  <2> QED
    BY <2>1, <2>2 DEF Injection, IsInjective
<1>6. IsFiniteSet(1 .. n) /\ Cardinality(1 .. n) = n
  BY <1>2, FS_Interval
<1>7. rank \in Surjection(S, 1 .. n)
  BY <1>5, <1>6, FS_Injection
<1>8. ASSUME NEW r \in 1 .. n
      PROVE  \E i \in S : Cardinality({k \in S : k < i}) = r - 1
  <2>1. PICK i \in S : rank[i] = r
    BY <1>7 DEF Surjection
  <2>2. Cardinality({k \in S : k < i}) \in Nat
    BY <1>3, FS_CardinalityType
  <2>3. Cardinality({k \in S : k < i}) + 1 = r
    BY <2>1
  <2>4. Cardinality({k \in S : k < i}) = r - 1
    BY <2>2, <2>3
  <2> QED
    BY <2>4
<1> DEFINE s == InOrder(S)
<1>9. /\ s \in [1 .. n -> S] /\ DOMAIN s = 1 .. n
      /\ \A r \in 1 .. n : Cardinality({k \in S : k < s[r]}) = r - 1
  BY <1>8 DEF InOrder
<1>10. \A r \in 1 .. n : rank[s[r]] = r /\ s[r] \in S
  <2> TAKE r \in 1 .. n
  <2>1. s[r] \in S /\ Cardinality({k \in S : k < s[r]}) = r - 1 /\ r \in Nat
    BY <1>2, <1>9
  <2>2. rank[s[r]] = r - 1 + 1
    BY <2>1
  <2> QED
    BY <2>1, <2>2
<1> HIDE DEF s, rank
<1>11. ASSUME NEW r \in 1 .. n, NEW t \in 1 .. n, r < t PROVE s[r] < s[t]
  <2>1. s[r] \in S /\ s[t] \in S /\ rank[s[r]] = r /\ rank[s[t]] = t
    BY <1>10
  <2>2. s[r] \in Nat /\ s[t] \in Nat /\ r \in Nat /\ t \in Nat
    <3>1. s[r] \in Nat /\ s[t] \in Nat
      BY <1>1, <2>1
    <3> HIDE DEF n
    <3> QED
      BY <1>2, <3>1
  <2>3. s[t] < s[r] => t < r
    BY <1>4, <2>1
  <2>4. s[r] # s[t]
    BY <1>11, <2>1, <2>2
  <2> QED
    BY ONLY <1>11, <2>2, <2>3, <2>4
<1>12. ASSUME NEW i \in S PROVE \E r \in 1 .. n : s[r] = i
  <2>1. rank[i] \in 1 .. n
    BY <1>3
  <2>2. rank[s[rank[i]]] = rank[i] /\ s[rank[i]] \in S
    BY <1>10, <2>1
  <2>3. s[rank[i]] = i
    BY <1>5, <2>2 DEF Injection, IsInjective
  <2> QED
    BY <2>1, <2>3
<1>13. ToSet(s) = S /\ IsInjective(s)
  BY <1>9, <1>10, <1>12 DEF ToSet, IsInjective
<1> QED
  BY <1>2, <1>9, <1>11, <1>13, SeqDef DEF s

\* The seen-set keeps no more than its last MaxEntries, all of them old ones or
\* from the answer.
LEMMA RememberKeeps ==
    ASSUME FeedTypeOK, Remember
    PROVE  /\ seen' \in BoundedSeq(Ids, MaxEntries)
           /\ ToSet(seen') \subseteq ToSet(seen) \union batch
<1> DEFINE new == InOrder(Unseen)
           all == seen \o new
           drop == Max({0, Len(all) - MaxEntries})
           known == ToSet(seen) \union batch
<1>1. batch \subseteq Ids /\ Unseen \subseteq batch
  BY DEF FeedTypeOK, Unseen
<1>2. PICK m \in 0 .. MaxEntries : seen \in [1 .. m -> Ids]
  BY DEF FeedTypeOK, BoundedSeq, SeqOf
<1>3. m \in Nat /\ MaxEntries \in Nat \ {0}
  BY WatchAssumption
<1>4. seen \in [1 .. m -> known] /\ seen \in Seq(known)
  <2>1. \A k \in 1 .. m : seen[k] \in known
    BY <1>2 DEF ToSet
  <2>2. seen \in [1 .. m -> known]
    BY <1>2, <2>1
  <2> QED
    BY <1>3, <2>2, SeqDef
<1>5. new \in Seq(known)
  <2>1. new \in Seq(Unseen)
    BY <1>1, OrderedIsAll
  <2>2. Unseen \subseteq known
    BY <1>1
  <2> QED
    BY <2>1, <2>2
<1>6. all \in Seq(known) /\ Len(all) \in Nat
  BY <1>4, <1>5, ConcatProperties, LenProperties
<1>7. all \in [1 .. Len(all) -> known]
  BY <1>6, LenProperties
<1>8. drop \in Nat /\ drop <= Len(all) /\ Len(all) - drop <= MaxEntries
  <2>1. drop = IF Len(all) - MaxEntries > 0 THEN Len(all) - MaxEntries ELSE 0
    <3> DEFINE d == Len(all) - MaxEntries
    <3>1. d \in Int
      BY <1>3, <1>6
    <3> HIDE DEF d
    <3>2. Max({0, d}) = IF d > 0 THEN d ELSE 0
      BY <3>1 DEF Max
    <3> QED
      BY <3>2 DEF d
  <2> QED
    BY <2>1, <1>3, <1>6
<1>9. seen' = SubSeq(all, drop + 1, Len(all))
  BY DEF Remember
<1> HIDE DEF all, drop, new
<1>10. \A k \in drop + 1 .. Len(all) : all[k] \in known
  BY <1>6, <1>7, <1>8
<1>11. /\ seen' \in Seq(known)
       /\ Len(seen') = IF drop + 1 <= Len(all) THEN Len(all) - (drop + 1) + 1 ELSE 0
  BY <1>6, <1>8, <1>9, <1>10, SubSeqProperties
<1>12. Len(seen') \in 0 .. MaxEntries
  BY <1>3, <1>6, <1>8, <1>11
<1>13. seen' \in [1 .. Len(seen') -> known]
  BY <1>11, LenProperties
<1>14. known \subseteq Ids
  <2>1. ToSet(seen) \subseteq Ids
    BY <1>2 DEF ToSet
  <2> QED
    BY <1>1, <2>1
<1>15. seen' \in [1 .. Len(seen') -> Ids]
  BY <1>13, <1>14
<1>16. seen' \in BoundedSeq(Ids, MaxEntries)
  BY <1>12, <1>15 DEF BoundedSeq, SeqOf
<1>17. ToSet(seen') \subseteq known
  BY <1>13 DEF ToSet
<1> QED
  BY <1>16, <1>17

\* A page has every record between where it begins and any of its own.
LEMMA PageIsClosed ==
    ASSUME FeedTypeOK, NEW m \in {None} \union 0 .. 99, NEW k \in PageFrom(m),
           NEW i \in published, mark[i] < mark[k], mark[i] >= m
    PROVE  i \in PageFrom(m)
<1> DEFINE due == {j \in published : mark[j] >= m}
           Rank(j) == Cardinality({l \in due : mark[l] < mark[j]})
<1>1. i \in due /\ k \in due /\ Rank(k) < PageSize
  BY DEF PageFrom, PageOf
<1>2. {l \in due : mark[l] < mark[i]} \subseteq {l \in due : mark[l] < mark[k]}
  <2>1. ASSUME NEW l \in due, mark[l] < mark[i] PROVE mark[l] < mark[k]
    <3>1. mark[l] \in 0 .. 99 /\ mark[i] \in 0 .. 99 /\ mark[k] \in 0 .. 99
      BY <1>1, MarksAreNumbers DEF FeedTypeOK
    <3>2. \A x, y, z \in 0 .. 99 : x < y /\ y < z => x < z
      OBVIOUS
    <3> QED
      BY ONLY <2>1, <3>1, <3>2, mark[i] < mark[k]
  <2> QED
    BY <2>1
<1>3. IsFiniteSet({l \in due : mark[l] < mark[k]})
  <2>1. {l \in due : mark[l] < mark[k]} \subseteq Ids
    BY DEF FeedTypeOK
  <2> QED
    BY <2>1, WatchAssumption, FS_Subset
<1>4. Rank(i) <= Rank(k) /\ Rank(i) \in Nat /\ Rank(k) \in Nat
  BY <1>2, <1>3, FS_Subset, FS_CardinalityType
<1>5. Rank(i) < PageSize
  BY <1>1, <1>4, WatchAssumption
<1> QED
  BY <1>1, <1>5 DEF PageFrom, PageOf

-----------------------------------------------------------------------------
(* The invariant holds *)

LEMMA InitFeed ==
    ASSUME FeedInit
    PROVE  FeedInv
<1>1. seen \in BoundedSeq(Ids, MaxEntries) /\ ToSet(seen) = {}
  <2>1. seen = << >> /\ 0 \in 0 .. MaxEntries
    BY WatchAssumption DEF FeedInit
  <2>2. << >> \in [1 .. 0 -> Ids] /\ DOMAIN << >> = {}
    OBVIOUS
  <2> QED
    BY <2>1, <2>2 DEF BoundedSeq, SeqOf, ToSet
<1>2. FeedTypeOK
  BY <1>1 DEF FeedInit, FeedTypeOK
<1> QED
  BY <1>1, <1>2 DEF FeedInit, FeedInv, NoGap, MarkPublished, SeenStored, BatchStored,
                    PublishedFirst, BatchClosed

\* An answer from a mark that is not above the watermark leaves no gap.
LEMMA FetchKeeps ==
    ASSUME FeedInv, NEW m \in {None} \union 0 .. 99, m <= watermark,
           stage' = "sink", batch' = PageFrom(m),
           UNCHANGED <<mark, published, watermark, seen, copies>>
    PROVE  FeedInv'
<1> USE DEF FeedInv
<1>1. FeedTypeOK'
  BY DEF NoGap, FeedTypeOK, PageFrom, PageOf
<1>2. ASSUME NEW k \in batch', NEW i \in published, mark[i] < mark[k]
      PROVE  i \in batch' \/ copies[i] > 0
  <2>1. FeedTypeOK /\ mark[i] \in 0 .. 99
    BY MarksAreNumbers DEF NoGap, FeedTypeOK
  <2>2. CASE mark[i] >= m
    BY <1>2, <2>1, <2>2, PageIsClosed
  <2>3. CASE ~ (mark[i] >= m)
    <3>1. watermark \in {None} \union 0 .. 99
      BY <2>1, MarksAreNumbers DEF FeedTypeOK
    <3>2. watermark # None /\ mark[i] < watermark
      BY <2>1, <2>3, <3>1 DEF None
    <3> QED
      BY <3>2 DEF NoGap
  <2> QED
    BY <2>2, <2>3
<1> QED
  BY <1>1, <1>2 DEF NoGap, MarkPublished, SeenStored, BatchStored,
                    PublishedFirst, BatchClosed

LEMMA NextKeepsFeed ==
    ASSUME FeedInv, [FeedNext]_feedVars
    PROVE  FeedInv'
<1> USE DEF FeedInv
<1>0. FeedTypeOK /\ batch \subseteq published /\ published \subseteq Ids
  BY DEF NoGap, FeedTypeOK
<1>1. \A i \in Ids : mark[i] \in 0 .. 99
  BY <1>0, MarksAreNumbers DEF FeedTypeOK
<1>2. watermark \in {None} \union 0 .. 99
  BY <1>0, <1>1 DEF FeedTypeOK
<1>3. ASSUME NEW i \in Ids, Publish(i) PROVE FeedInv'
  <2>1. FeedTypeOK'
    BY <1>0, <1>3 DEF Publish, FeedTypeOK
  <2>2. ASSUME NEW k \in published PROVE mark[k] <= mark[i]
    <3>1. k < i
      <4>1. i \notin published /\ i \in Nat /\ k \in Ids /\ k \in Nat
        BY <1>0, <1>3, WatchAssumption DEF Publish
      <4>2. ~ (i < k) /\ i # k
        BY <4>1 DEF PublishedFirst
      <4> QED
        BY <4>1, <4>2
    <3> QED
      BY <1>0, <3>1, MarksAreNumbers DEF FeedTypeOK
  <2>3. watermark # None => ~ (mark[i] < watermark)
    <3> SUFFICES ASSUME watermark # None PROVE ~ (mark[i] < watermark)
      OBVIOUS
    <3>1. PICK k \in published : watermark = mark[k]
      BY DEF MarkPublished
    <3>2. mark[k] <= mark[i] /\ mark[k] \in 0 .. 99 /\ mark[i] \in 0 .. 99
      BY <1>0, <1>1, <2>2
    <3>3. ~ (mark[i] < mark[k])
      BY ONLY <3>2
    <3> QED
      BY <3>1, <3>3
  <2>4. NoGap'
    BY <1>3, <2>1, <2>3 DEF Publish, NoGap
  <2>5. PublishedFirst'
    BY <1>3 DEF Publish, PublishedFirst
  <2>6. BatchClosed'
    <3>1. ASSUME NEW k \in batch PROVE ~ (mark[i] < mark[k])
      <4>1. mark[k] <= mark[i] /\ mark[k] \in 0 .. 99 /\ mark[i] \in 0 .. 99
        BY <1>0, <1>1, <2>2
      <4> QED
        BY ONLY <4>1
    <3> QED
      BY <1>3, <3>1 DEF Publish, BatchClosed
  <2> QED
    BY <1>3, <2>4, <2>5, <2>6 DEF Publish, MarkPublished, SeenStored, BatchStored
<1>4. ASSUME NEW i \in Ids, FetchOld(mark[i]) PROVE FeedInv'
  <2>1. mark[i] <= watermark
    BY <1>1, <1>2, <1>4 DEF FetchOld, None
  <2> QED
    BY <1>1, <1>4, <2>1, FetchKeeps DEF FetchOld
<1>5. CASE FetchPage
  <2>1. watermark <= watermark
    BY <1>2 DEF None
  <2> QED
    BY <1>2, <1>5, <2>1, FetchKeeps DEF FetchPage
<1>6. CASE SinkUnseen
  <2>1. \A i \in Ids : copies[i] \in Nat /\ copies'[i] \in Nat /\ copies'[i] >= copies[i]
    BY <1>0, <1>6 DEF SinkUnseen, FeedTypeOK
  <2>2. \A i \in Ids : copies[i] > 0 => copies'[i] > 0
    BY <2>1
  <2>3. FeedTypeOK'
    BY <1>0, <1>6 DEF SinkUnseen, FeedTypeOK
  <2>4. ToSet(seen) \subseteq Ids
    BY <1>0 DEF FeedTypeOK, BoundedSeq, SeqOf, ToSet
  <2>5. \A i \in batch : copies'[i] > 0
    <3> SUFFICES ASSUME NEW i \in batch PROVE copies'[i] > 0
      OBVIOUS
    <3>1. CASE i \in ToSet(seen)
      BY <1>0, <2>2, <3>1 DEF SeenStored
    <3>2. CASE i \notin ToSet(seen)
      BY <1>0, <1>6, <3>2 DEF SinkUnseen, Unseen, FeedTypeOK
    <3> QED
      BY <3>1, <3>2
  <2>6. NoGap'
    BY <1>0, <1>6, <2>2, <2>3 DEF SinkUnseen, NoGap
  <2>7. SeenStored' /\ BatchStored' /\ BatchClosed'
    BY <1>0, <1>6, <2>2, <2>4, <2>5 DEF SinkUnseen, SeenStored, BatchStored, BatchClosed
  <2> QED
    BY <1>6, <2>6, <2>7 DEF SinkUnseen, MarkPublished, PublishedFirst
<1>7. CASE Remember
  <2>1. /\ seen' \in BoundedSeq(Ids, MaxEntries)
        /\ ToSet(seen') \subseteq ToSet(seen) \union batch
    BY <1>0, <1>7, RememberKeeps
  <2>2. \A i \in batch : copies[i] > 0
    BY <1>7 DEF Remember, BatchStored
  <2>3. FeedTypeOK'
    BY <1>0, <1>7, <2>1 DEF Remember, FeedTypeOK
  <2>4. NoGap'
    BY <1>7, <2>3 DEF Remember, NoGap
  <2>5. SeenStored' /\ BatchStored'
    BY <1>7, <2>1, <2>2 DEF Remember, SeenStored, BatchStored
  <2> QED
    BY <1>7, <2>4, <2>5 DEF Remember, MarkPublished, PublishedFirst, BatchClosed
<1>8. CASE AdvanceMark
  <2>1. \A i \in batch : copies[i] > 0
    BY <1>8 DEF AdvanceMark, BatchStored
  <2>2. \/ watermark' = watermark
        \/ \E k \in batch : watermark' = mark[k]
    BY <1>0, <1>8, LaterIsMark DEF AdvanceMark
  <2>3. FeedTypeOK'
    BY <1>0, <1>8, <2>2 DEF AdvanceMark, FeedTypeOK
  <2>4. MarkPublished'
    BY <1>0, <1>8, <2>2 DEF AdvanceMark, MarkPublished
  <2>5. ASSUME NEW i \in published, watermark' # None, mark[i] < watermark'
        PROVE  copies[i] > 0
    <3>1. CASE watermark' = watermark
      BY <2>5, <3>1 DEF NoGap
    <3>2. ASSUME NEW k \in batch, watermark' = mark[k] PROVE copies[i] > 0
      BY <2>1, <2>5, <3>2 DEF BatchClosed
    <3> QED
      BY <2>2, <3>1, <3>2
  <2>6. NoGap'
    BY <1>8, <2>3, <2>5 DEF AdvanceMark, NoGap
  <2> QED
    BY <1>8, <2>4, <2>6 DEF AdvanceMark, SeenStored, BatchStored, PublishedFirst, BatchClosed
<1>9. CASE KillVisit
  <2>1. FeedTypeOK'
    BY <1>0, <1>9 DEF KillVisit, FeedTypeOK
  <2> QED
    BY <1>9, <2>1 DEF KillVisit, NoGap, MarkPublished, SeenStored, BatchStored,
                      PublishedFirst, BatchClosed
<1>10. CASE UNCHANGED feedVars
  BY <1>10 DEF feedVars, NoGap, FeedTypeOK, MarkPublished, SeenStored, BatchStored,
               PublishedFirst, BatchClosed, Unseen
<1> QED
  BY <1>3, <1>4, <1>5, <1>6, <1>7, <1>8, <1>9, <1>10 DEF FeedNext, Visit

LEMMA FeedAlways == FeedSpec => []FeedInv
<1>1. FeedInit => FeedInv
  BY InitFeed
<1>2. FeedInv /\ [FeedNext]_feedVars => FeedInv'
  BY NextKeepsFeed
<1> QED
  BY <1>1, <1>2, PTL DEF FeedSpec

-----------------------------------------------------------------------------
(* What the seen-set keeps *)

\* What comes after i in s.
After(s, i) == {s[k] : k \in {n \in DOMAIN s : \E j \in DOMAIN s : s[j] = i /\ j < n}}

\* What is added comes after.
LEMMA AfterAdded ==
    ASSUME NEW s \in Seq(Ids), NEW t \in Seq(Ids), IsInjective(s), IsInjective(t),
           ToSet(s) \cap ToSet(t) = {}
    PROVE  /\ s \o t \in Seq(Ids) /\ IsInjective(s \o t)
           /\ ToSet(s \o t) = ToSet(s) \union ToSet(t)
           /\ \A i \in ToSet(s) : After(s \o t, i) \subseteq After(s, i) \union ToSet(t)
           /\ \A i \in ToSet(t) : After(s \o t, i) \subseteq After(t, i)
<1> DEFINE u == s \o t
           m == Len(s)
           n == Len(t)
<1>1. /\ m \in Nat /\ n \in Nat /\ DOMAIN s = 1 .. m /\ DOMAIN t = 1 .. n
      /\ u \in Seq(Ids) /\ Len(u) = m + n /\ DOMAIN u = 1 .. (m + n)
  BY ConcatProperties, LenProperties
<1>2. \A k \in 1 .. (m + n) : u[k] = IF k <= m THEN s[k] ELSE t[k - m]
  BY ConcatProperties
<1> HIDE DEF u, m, n
<1>3. \A k \in 1 .. m : k \in 1 .. (m + n) /\ u[k] = s[k] /\ s[k] \in ToSet(s)
  <2> TAKE k \in 1 .. m
  <2>1. k \in 1 .. (m + n) /\ k <= m
    BY <1>1
  <2> QED
    BY <1>1, <1>2, <2>1 DEF ToSet
<1>4. \A k \in 1 .. n : m + k \in 1 .. (m + n) /\ u[m + k] = t[k] /\ t[k] \in ToSet(t)
  <2> TAKE k \in 1 .. n
  <2>1. m + k \in 1 .. (m + n) /\ ~ (m + k <= m) /\ (m + k) - m = k
    BY <1>1
  <2> QED
    BY <1>1, <1>2, <2>1 DEF ToSet
<1>5. \A k \in 1 .. (m + n) : k \in 1 .. m \/ \E r \in 1 .. n : k = m + r
  <2> TAKE k \in 1 .. (m + n)
  <2>1. k \in 1 .. m \/ (k - m \in 1 .. n /\ k = m + (k - m))
    BY <1>1
  <2> QED
    BY <2>1
<1>6. IsInjective(u)
  <2> SUFFICES ASSUME NEW k \in 1 .. (m + n), NEW l \in 1 .. (m + n), u[k] = u[l]
               PROVE  k = l
    BY <1>1 DEF IsInjective
  <2>1. CASE k \in 1 .. m /\ l \in 1 .. m
    BY <1>1, <1>3, <2>1 DEF IsInjective
  <2>2. CASE k \in 1 .. m /\ l \notin 1 .. m
    BY <1>3, <1>4, <1>5, <2>2
  <2>3. CASE k \notin 1 .. m /\ l \in 1 .. m
    BY <1>3, <1>4, <1>5, <2>3
  <2>4. CASE k \notin 1 .. m /\ l \notin 1 .. m
    <3>1. PICK q \in 1 .. n, r \in 1 .. n : k = m + q /\ l = m + r
      BY <1>5, <2>4
    <3>2. t[q] = t[r]
      BY <1>4, <3>1
    <3> QED
      BY <1>1, <3>1, <3>2 DEF IsInjective
  <2> QED
    BY <2>1, <2>2, <2>3, <2>4
<1>7. ToSet(u) = ToSet(s) \union ToSet(t)
  <2>1. ToSet(u) = {u[k] : k \in 1 .. (m + n)} /\ ToSet(s) = {s[k] : k \in 1 .. m}
        /\ ToSet(t) = {t[k] : k \in 1 .. n}
    BY <1>1 DEF ToSet
  <2>2. ToSet(u) \subseteq ToSet(s) \union ToSet(t)
    <3> SUFFICES ASSUME NEW k \in 1 .. (m + n) PROVE u[k] \in ToSet(s) \union ToSet(t)
      BY <2>1
    <3> QED
      BY <1>3, <1>4, <1>5
  <2>3. ToSet(s) \subseteq ToSet(u) /\ ToSet(t) \subseteq ToSet(u)
    BY <1>3, <1>4, <2>1
  <2> QED
    BY <2>2, <2>3
<1>8. ASSUME NEW i \in ToSet(s), NEW e \in After(u, i) PROVE e \in After(s, i) \union ToSet(t)
  <2>1. PICK j \in 1 .. (m + n), k \in 1 .. (m + n) : u[j] = i /\ j < k /\ e = u[k]
    BY <1>1 DEF After
  <2>2. CASE k \in 1 .. m
    <3>1. j \in 1 .. m
      BY <1>1, <2>1, <2>2
    <3> QED
      BY <1>1, <1>3, <2>1, <2>2, <3>1 DEF After
  <2> QED
    BY <1>4, <1>5, <2>1, <2>2
<1>9. ASSUME NEW i \in ToSet(t), NEW e \in After(u, i) PROVE e \in After(t, i)
  <2>1. PICK j \in 1 .. (m + n), k \in 1 .. (m + n) : u[j] = i /\ j < k /\ e = u[k]
    BY <1>1 DEF After
  <2>2. PICK r \in 1 .. n : j = m + r
    BY <1>3, <1>5, <1>9, <2>1
  <2>3. ~ (k \in 1 .. m)
    BY <1>1, <2>1, <2>2
  <2>4. PICK q \in 1 .. n : k = m + q
    BY <1>5, <2>3
  <2>5. r < q
    BY <1>1, <2>1, <2>2, <2>4
  <2> QED
    BY <1>1, <1>4, <2>1, <2>2, <2>4, <2>5 DEF After
<1> QED
  BY <1>1, <1>6, <1>7, <1>8, <1>9 DEF u

\* A record that fits into the end of the list, with what comes after it, stays.
LEMMA EndKept ==
    ASSUME NEW s \in Seq(Ids), IsInjective(s), NEW N \in Nat \ {0},
           NEW drop \in Nat, drop <= Len(s), drop = 0 \/ drop = Len(s) - N
    PROVE  LET t == SubSeq(s, drop + 1, Len(s))
           IN  /\ IsInjective(t)
               /\ \A i \in ToSet(s) : \A S :
                     IsFiniteSet(S) /\ Cardinality(S) <= N /\ i \in S /\ After(s, i) \subseteq S
                        => i \in ToSet(t) /\ After(t, i) \subseteq After(s, i)
<1> DEFINE t == SubSeq(s, drop + 1, Len(s))
           n == Len(s)
           m == Len(t)
<1>1. n \in Nat /\ DOMAIN s = 1 .. n /\ s \in [1 .. n -> Ids]
  BY LenProperties
<1>2. m = n - drop /\ DOMAIN t = 1 .. m /\ \A k \in 1 .. m : t[k] = s[drop + k]
  <2>1. \A k \in drop + 1 .. n : s[k] \in Ids
    <3> HIDE DEF n
    <3> QED
      BY <1>1
  <2>2. /\ t \in Seq(Ids)
        /\ m = IF drop + 1 <= n THEN n - (drop + 1) + 1 ELSE 0
        /\ \A k \in 1 .. m : t[k] = s[(drop + 1) + k - 1]
    <3>1. drop + 1 \in Int /\ n \in Int
      <4> HIDE DEF n
      <4> QED
        BY ONLY <1>1, drop \in Nat
    <3> QED
      BY <2>1, <3>1, SubSeqProperties
  <2> HIDE DEF t, m
  <2>3. m = n - drop /\ m \in Nat
    <3>1. drop <= n /\ drop \in Nat
      OBVIOUS
    <3> HIDE DEF n
    <3> QED
      BY ONLY <1>1, <2>2, <3>1
  <2>4. \A k \in 1 .. m : (drop + 1) + k - 1 = drop + k
    BY <2>3
  <2>5. DOMAIN t = 1 .. m
    BY <2>2, LenProperties DEF m
  <2> QED
    BY <2>2, <2>3, <2>4, <2>5
<1>3. m \in Nat /\ drop <= n /\ (drop = 0 \/ drop = n - N)
      /\ \A k \in 1 .. m : drop + k \in 1 .. n
  <2>1. drop <= n /\ (drop = 0 \/ drop = n - N)
    OBVIOUS
  <2> HIDE DEF t, m, n
  <2> QED
    BY <1>1, <1>2, <2>1
<1> HIDE DEF t, m, n
<1>4. IsInjective(t)
  <2> SUFFICES ASSUME NEW k \in 1 .. m, NEW l \in 1 .. m, t[k] = t[l] PROVE k = l
    BY <1>2 DEF IsInjective
  <2>1. drop + k = drop + l
    BY <1>1, <1>2, <1>3 DEF IsInjective
  <2> QED
    BY <1>3, <2>1
<1>5. ASSUME NEW i \in ToSet(s), NEW S, IsFiniteSet(S), Cardinality(S) <= N, i \in S,
             After(s, i) \subseteq S
      PROVE  i \in ToSet(t) /\ After(t, i) \subseteq After(s, i)
  <2>1. PICK p \in 1 .. n : s[p] = i
    BY <1>1 DEF ToSet
  <2>2. \A k \in p .. n : k \in 1 .. n /\ s[k] \in S
    <3> TAKE k \in p .. n
    <3>1. k \in 1 .. n /\ (k = p \/ p < k)
      BY <1>1
    <3> QED
      BY <1>1, <1>5, <2>1, <3>1 DEF After
  <2>3. n - p + 1 <= N
    <3> DEFINE f == [k \in p .. n |-> s[k]]
    <3>1. f \in Injection(p .. n, S)
      BY <1>1, <2>2 DEF Injection, IsInjective
    <3>2. IsFiniteSet(p .. n) /\ Cardinality(p .. n) <= Cardinality(S)
      BY <1>5, <3>1, FS_Injection
    <3>3. p \in Int /\ n \in Int /\ ~ (p > n)
      BY <1>1
    <3>4. Cardinality(p .. n) = n - p + 1
      BY <3>3, FS_Interval
    <3>5. Cardinality(S) \in Nat
      BY <1>5, FS_CardinalityType
    <3> QED
      BY <3>2, <3>3, <3>4, <3>5, <1>5
  <2>4. p - drop \in 1 .. m /\ drop + (p - drop) = p
    <3>1. p \in 1 .. n
      OBVIOUS
    <3> QED
      BY <1>1, <1>2, <1>3, <2>3, <3>1
  <2>5. i \in ToSet(t)
    BY <1>2, <2>1, <2>4 DEF ToSet
  <2>6. ASSUME NEW e \in After(t, i) PROVE e \in After(s, i)
    <3>1. PICK j \in 1 .. m, k \in 1 .. m : t[j] = i /\ j < k /\ e = t[k]
      BY <1>2 DEF After
    <3>2. drop + j \in 1 .. n /\ drop + k \in 1 .. n /\ j \in Nat /\ k \in Nat
      <4>1. drop + j \in 1 .. n /\ drop + k \in 1 .. n
        BY <1>3
      <4> QED
        BY <1>3, <4>1
    <3>3. drop + j < drop + k
      BY <3>1, <3>2
    <3> QED
      BY <1>1, <1>2, <3>1, <3>2, <3>3 DEF After
  <2> QED
    BY <2>5, <2>6
<1> QED
  BY <1>4, <1>5 DEF t

-----------------------------------------------------------------------------
(* Pages *)

LEMMA PageFits ==
    ASSUME AnswersFit, FeedTypeOK, NEW low \in {None} \union 0 .. 99
    PROVE  IsFiniteSet(PageFrom(low)) /\ Cardinality(PageFrom(low)) <= MaxEntries
<1>1. PageFrom(low) = PageOf(published, mark, low)
  BY DEF PageFrom, PageOf
<1>2. PageFrom(low) \subseteq Ids
  BY DEF PageFrom, PageOf, FeedTypeOK
<1> QED
  BY <1>1, <1>2, FS_Subset, WatchAssumption DEF AnswersFit, FeedTypeOK

\* Of the records a set P holds, those before k are no more than those of a
\* set that has them all.
LEMMA FewerBefore ==
    ASSUME NEW P, NEW Q, Q \subseteq Ids, P \subseteq Q, NEW k
    PROVE  {l \in P : mark[l] < mark[k]} \subseteq {l \in Q : mark[l] < mark[k]}
           /\ (Cardinality({l \in Q : mark[l] < mark[k]}) < PageSize
                 => Cardinality({l \in P : mark[l] < mark[k]}) < PageSize)
<1> DEFINE B == {l \in P : mark[l] < mark[k]}
           C == {l \in Q : mark[l] < mark[k]}
<1>1. B \subseteq C /\ C \subseteq Ids
  OBVIOUS
<1> HIDE DEF B, C
<1>2. IsFiniteSet(C) /\ IsFiniteSet(B) /\ Cardinality(B) <= Cardinality(C)
      /\ Cardinality(B) \in Nat /\ Cardinality(C) \in Nat
  BY <1>1, WatchAssumption, FS_Subset, FS_CardinalityType
<1>3. PageSize \in Nat
  BY WatchAssumption
<1>4. Cardinality(C) < PageSize => Cardinality(B) < PageSize
  BY ONLY <1>2, <1>3
<1> QED
  BY <1>1, <1>4 DEF B, C

\* A record of a page is on every page that begins higher, up to the record.
LEMMA PageHigher ==
    ASSUME FeedTypeOK, NEW low \in {None} \union 0 .. 99, NEW w \in {None} \union 0 .. 99,
           low <= w, NEW k \in PageFrom(low), mark[k] >= w
    PROVE  k \in PageFrom(w)
<1> DEFINE due(m) == {j \in published : mark[j] >= m}
<1>1. published \subseteq Ids /\ \A j \in Ids : mark[j] \in 0 .. 99
  BY MarksAreNumbers DEF FeedTypeOK
<1>2. due(w) \subseteq due(low)
  <2> SUFFICES ASSUME NEW j \in published, mark[j] >= w PROVE mark[j] >= low
    OBVIOUS
  <2>1. mark[j] \in Int /\ w \in Int /\ low \in Int
    BY <1>1 DEF None
  <2> QED
    BY <2>1
<1>3. k \in due(low) /\ k \in published /\ Cardinality({l \in due(low) : mark[l] < mark[k]}) < PageSize
  BY DEF PageFrom, PageOf
<1>4. k \in due(w)
  BY <1>3
<1>5. due(low) \subseteq Ids
  BY <1>1
<1> HIDE DEF due
<1>6. Cardinality({l \in due(w) : mark[l] < mark[k]}) < PageSize
  BY <1>2, <1>3, <1>5, FewerBefore
<1> QED
  BY <1>4, <1>6 DEF PageFrom, PageOf, due

\* A published record that has the watermark is on the page.
LEMMA PageBegins ==
    ASSUME FeedTypeOK, NEW k \in published
    PROVE  k \in PageFrom(mark[k])
<1>1. \A j \in published : mark[j] \in 0 .. 99
  BY MarksAreNumbers DEF FeedTypeOK
<1>2. {l \in {j \in published : mark[j] >= mark[k]} : mark[l] < mark[k]} = {}
  <2>1. ASSUME NEW l \in published, mark[l] >= mark[k] PROVE ~ (mark[l] < mark[k])
    <3>1. mark[l] \in 0 .. 99 /\ mark[k] \in 0 .. 99
      BY <1>1
    <3> QED
      BY ONLY <2>1, <3>1
  <2> QED
    BY <2>1
<1>3. Cardinality({}) < PageSize /\ mark[k] >= mark[k]
  BY <1>1, FS_EmptySet, WatchAssumption
<1> QED
  BY <1>2, <1>3 DEF PageFrom, PageOf

\* What is published later comes later on the page.
LEMMA PageGrows ==
    ASSUME FeedInv, NEW i \in Ids, Publish(i), NEW low \in {None} \union 0 .. 99
    PROVE  PageFrom(low) \subseteq PageFrom(low)'
<1>1. FeedTypeOK /\ published \subseteq Ids /\ \A j \in Ids : mark[j] \in 0 .. 99
  BY MarksAreNumbers DEF FeedTypeOK, FeedInv, NoGap
<1>2. mark' = mark /\ published' = published \union {i} /\ i \notin published
  BY DEF Publish
<1>3. ASSUME NEW k \in published PROVE ~ (mark[i] < mark[k])
  <2>1. k \in Ids /\ k \in Nat /\ i \in Nat
    BY <1>1, WatchAssumption
  <2>2. ~ (i < k) /\ i # k
    BY <1>2, <2>1 DEF FeedInv, PublishedFirst
  <2>3. k < i
    BY <2>1, <2>2
  <2>4. mark[k] <= mark[i]
    BY <1>1, <2>1, <2>3, MarksAreNumbers DEF FeedTypeOK
  <2>5. mark[i] \in Nat /\ mark[k] \in Nat
    BY <1>1, <2>1
  <2> QED
    BY ONLY <2>4, <2>5
<1>4. ASSUME NEW k \in PageFrom(low) PROVE k \in PageFrom(low)'
  <2>1. /\ k \in published /\ mark[k] >= low
        /\ Cardinality({l \in {j \in published : mark[j] >= low} : mark[l] < mark[k]}) < PageSize
    BY DEF PageFrom, PageOf
  <2>2. {l \in {j \in published' : mark[j] >= low} : mark[l] < mark[k]}
          = {l \in {j \in published : mark[j] >= low} : mark[l] < mark[k]}
    BY <1>2, <1>3, <2>1
  <2> QED
    BY <1>2, <2>1, <2>2 DEF PageFrom, PageOf
<1> QED
  BY <1>4

\* How a watermark that stays, or moves on, stands to the answer.
LEMMA LaterIsGreatest ==
    ASSUME FeedTypeOK, NEW k \in batch
    PROVE  \E top \in batch :
              /\ \A j \in batch : mark[j] <= mark[top]
              /\ \/ Later(watermark) = mark[top]
                    /\ (watermark = None \/ StrGreater(mark[top], watermark))
                 \/ Later(watermark) = watermark /\ watermark # None
                    /\ ~ StrGreater(mark[top], watermark)
<1> DEFINE marks == {mark[i] : i \in batch}
<1>1. marks \subseteq 0 .. 99 /\ marks # {}
  BY MarksAreNumbers DEF FeedTypeOK
<1>2. Max(marks) \in marks /\ \A y \in marks : Max(marks) >= y
  <2> HIDE DEF marks
  <2> QED
    BY <1>1, MaxIsGreatest
<1>3. PICK top \in batch : Max(marks) = mark[top]
  BY <1>2
<1>4. ASSUME NEW j \in batch PROVE mark[j] <= mark[top]
  <2>1. mark[j] \in marks /\ mark[top] \in marks /\ mark[top] >= mark[j]
    BY <1>2, <1>3
  <2>2. mark[j] \in Nat /\ mark[top] \in Nat
    BY <1>1, <2>1
  <2> QED
    BY ONLY <2>1, <2>2
<1>5. Later(watermark) = IF watermark = None \/ StrGreater(mark[top], watermark)
                         THEN mark[top] ELSE watermark
  BY <1>3 DEF Later
<1> QED
  BY <1>4, <1>5

-----------------------------------------------------------------------------
(* Why nothing is stored again without a reason *)

\* To store i once more would be once too often.
AtBound(i) == copies[i] = 1 + killed + old

\* The answer an ordinary visit gets now.
Due == PageFrom(watermark)

\* The answer begins where it was asked for.
Onwards == \A i \in batch : mark[i] >= watermark

\* The watermark will not come to rest on i: an answer with all of S ends
\* later, or with a mark that does not compare greater.
PassedBy(i, S) ==
    mark[i] > watermark =>
        /\ watermark # None
        /\ \/ \E k \in S : mark[k] > mark[i]
           \/ ~ StrGreater(mark[i], watermark)

\* A record that ordinary answers S bring again is remembered, and what was
\* remembered since is brought again with it.
Remembered(i, S) ==
    mark[i] >= watermark =>
        /\ i \in S /\ i \in ToSet(seen)
        /\ After(seen, i) \subseteq Due
        /\ PassedBy(i, S)

\* The running visit has just remembered it.
JustAdded(i) ==
    /\ i \in batch /\ i \in ToSet(seen)
    /\ \A e \in After(seen, i) : e \in batch /\ mark[e] >= mark[i]

AnswerInv ==
    /\ IsInjective(seen) /\ killed \in Nat /\ old \in Nat
    /\ Cardinality(batch) <= MaxEntries
    /\ \A i \in batch : mark[i] >= watermark => i \in Due

OnceInv ==
    \A i \in Ids :
        /\ copies[i] <= 1 + killed + old
        /\ AtBound(i) =>
              /\ stage = "away" => Remembered(i, Due)
              /\ stage = "sink" => Onwards /\ Remembered(i, batch)
              /\ stage = "remember" => i \in Unseen \/ (Onwards /\ Remembered(i, batch))
              /\ stage = "advance" => JustAdded(i) \/ (Onwards /\ Remembered(i, batch))

AgainInv == FeedInv /\ AnswerInv /\ OnceInv

LEMMA FeedTypes ==
    ASSUME FeedTypeOK
    PROVE  /\ published \subseteq Ids /\ batch \subseteq Ids
           /\ \A i \in Ids : mark[i] \in 0 .. 99 /\ copies[i] \in Nat
           /\ watermark \in {None} \union 0 .. 99
           /\ seen \in Seq(Ids) /\ ToSet(seen) \subseteq Ids
<1>1. \A i \in Ids : mark[i] \in 0 .. 99
  BY MarksAreNumbers DEF FeedTypeOK
<1>2. PICK m \in 0 .. MaxEntries : seen \in [1 .. m -> Ids]
  BY DEF FeedTypeOK, BoundedSeq, SeqOf
<1>3. m \in Nat
  BY WatchAssumption
<1>4. seen \in Seq(Ids) /\ ToSet(seen) \subseteq Ids
  BY <1>2, <1>3, SeqDef DEF ToSet
<1> QED
  BY <1>1, <1>4 DEF FeedTypeOK

LEMMA StartsWithin == ASSUME FeedInit PROVE AnswerInv /\ OnceInv
<1>1. IsInjective(<< >>) /\ Cardinality({}) <= MaxEntries
  BY FS_EmptySet, WatchAssumption DEF IsInjective
<1>2. \A i \in Ids : copies[i] = 0 /\ killed = 0 /\ old = 0
  BY DEF FeedInit
<1> QED
  BY <1>1, <1>2 DEF FeedInit, AnswerInv, OnceInv, AtBound

\* Short of the bound or on it, below the next one.
LEMMA OneMoreEvent ==
    ASSUME NEW c \in Nat, NEW k \in Nat, NEW o \in Nat, NEW l \in Nat, NEW p \in Nat,
           c <= 1 + k + o, l + p = k + o + 1
    PROVE  c <= 1 + l + p /\ c # 1 + l + p
  OBVIOUS

\* What one more event does to the bound.
LEMMA BoundRises ==
    ASSUME FeedTypeOK, AnswerInv, OnceInv, copies' = copies, killed' \in Nat, old' \in Nat,
           killed' + old' = killed + old + 1
    PROVE  \A i \in Ids : copies'[i] <= 1 + killed' + old' /\ ~ AtBound(i)'
<1> SUFFICES ASSUME NEW i \in Ids
             PROVE  copies'[i] <= 1 + killed' + old' /\ ~ AtBound(i)'
  OBVIOUS
<1>1. copies[i] \in Nat /\ killed \in Nat /\ old \in Nat /\ copies[i] <= 1 + killed + old
  BY FeedTypes DEF AnswerInv, OnceInv
<1>2. copies'[i] = copies[i]
  OBVIOUS
<1>3. killed' + old' = killed + old + 1 /\ killed' \in Nat /\ old' \in Nat
  OBVIOUS
<1>4. copies[i] <= 1 + killed' + old' /\ copies[i] # 1 + killed' + old'
  BY <1>1, <1>3, OneMoreEvent
<1> QED
  BY <1>2, <1>4 DEF AtBound

LEMMA PublishAgain ==
    ASSUME AgainInv, NEW i \in Ids, Publish(i)
    PROVE  AnswerInv' /\ OnceInv'
<1>1. FeedTypeOK /\ watermark \in {None} \union 0 .. 99
  BY FeedTypes DEF AgainInv, FeedInv, NoGap
<1>2. /\ UNCHANGED <<mark, watermark, seen, copies, stage, batch, old, killed>>
      /\ Due \subseteq Due'
  BY <1>1, PageGrows DEF AgainInv, Publish, Due
<1>3. AnswerInv'
  BY <1>2 DEF AgainInv, AnswerInv
<1>4. ASSUME NEW k, NEW S, NEW T, S \subseteq T, Remembered(k, S)
      PROVE  Remembered(k, T)'
  BY <1>2, <1>4 DEF Remembered, PassedBy
<1>5. ASSUME NEW k \in Ids, AtBound(k)'
      PROVE  /\ stage' = "away" => Remembered(k, Due)'
             /\ stage' = "sink" => (Onwards /\ Remembered(k, batch))'
             /\ stage' = "remember" => k \in Unseen' \/ (Onwards /\ Remembered(k, batch))'
             /\ stage' = "advance" => JustAdded(k)' \/ (Onwards /\ Remembered(k, batch))'
  <2>1. AtBound(k)
    BY <1>2, <1>5 DEF AtBound
  <2>2. Remembered(k, Due) => Remembered(k, Due)'
    BY <1>2 DEF Remembered, PassedBy
  <2>3. Remembered(k, batch) => Remembered(k, batch)'
    BY <1>2 DEF Remembered, PassedBy
  <2>4. (Onwards <=> Onwards') /\ Unseen' = Unseen /\ (JustAdded(k) <=> JustAdded(k)')
    BY <1>2 DEF Onwards, Unseen, JustAdded
  <2> QED
    BY <1>2, <2>1, <2>2, <2>3, <2>4 DEF AgainInv, OnceInv
<1> QED
  BY <1>2, <1>3, <1>5 DEF AgainInv, OnceInv

LEMMA EventAgain ==
    ASSUME AnswersFit, AgainInv, KillVisit \/ \E i \in Ids : FetchOld(mark[i])
    PROVE  AnswerInv' /\ OnceInv'
<1>1. FeedTypeOK /\ watermark \in {None} \union 0 .. 99 /\ \A i \in Ids : mark[i] \in 0 .. 99
  BY FeedTypes DEF AgainInv, FeedInv, NoGap
<1>2. /\ copies' = copies /\ killed' \in Nat /\ old' \in Nat /\ killed' + old' = killed + old + 1
      /\ UNCHANGED <<mark, published, watermark, seen>>
  BY DEF AgainInv, AnswerInv, KillVisit, FetchOld
<1>3. \A i \in Ids : copies'[i] <= 1 + killed' + old' /\ ~ AtBound(i)'
  BY <1>1, <1>2, BoundRises DEF AgainInv
<1>4. OnceInv'
  BY <1>3 DEF OnceInv
<1>5. /\ Cardinality(batch') <= MaxEntries
      /\ \A i \in batch' : mark[i] >= watermark => i \in Due
  <2>1. CASE KillVisit
    BY <2>1, FS_EmptySet, WatchAssumption DEF KillVisit
  <2>2. ASSUME NEW i \in Ids, FetchOld(mark[i])
        PROVE  /\ Cardinality(batch') <= MaxEntries
               /\ \A k \in batch' : mark[k] >= watermark => k \in Due
    <3>1. batch' = PageFrom(mark[i]) /\ mark[i] \in 0 .. 99 /\ mark[i] <= watermark
      BY <1>1, <2>2 DEF FetchOld, None
    <3> QED
      BY <1>1, <3>1, PageFits, PageHigher DEF Due
  <2> QED
    BY <2>1, <2>2
<1>6. Due' = Due
  BY <1>2 DEF Due, PageFrom, PageOf
<1> QED
  BY <1>2, <1>4, <1>5, <1>6 DEF AgainInv, AnswerInv

LEMMA FetchAgain ==
    ASSUME AnswersFit, AgainInv, FetchPage
    PROVE  AnswerInv' /\ OnceInv'
<1>1. FeedTypeOK /\ watermark \in {None} \union 0 .. 99
  BY FeedTypes DEF AgainInv, FeedInv, NoGap
<1>2. /\ UNCHANGED <<mark, published, watermark, seen, copies, old, killed>>
      /\ batch' = Due /\ stage = "away" /\ stage' = "sink" /\ Due' = Due
  BY DEF FetchPage, Due, PageFrom, PageOf
<1>3. Cardinality(Due) <= MaxEntries /\ \A i \in Due : mark[i] >= watermark
  <2>1. Cardinality(Due) <= MaxEntries
    BY <1>1, PageFits DEF Due
  <2> QED
    BY <2>1 DEF Due, PageFrom, PageOf
<1>4. AnswerInv'
  BY <1>2, <1>3 DEF AgainInv, AnswerInv
<1>5. ASSUME NEW k \in Ids, AtBound(k)' PROVE (Onwards /\ Remembered(k, batch))'
  <2>1. Remembered(k, Due)
    BY <1>2, <1>5 DEF AgainInv, OnceInv, AtBound
  <2> QED
    BY <1>2, <1>3, <2>1 DEF Onwards, Remembered, PassedBy
<1> QED
  BY <1>2, <1>4, <1>5 DEF AgainInv, OnceInv

LEMMA SinkAgain ==
    ASSUME AgainInv, SinkUnseen
    PROVE  AnswerInv' /\ OnceInv'
<1>1. FeedTypeOK /\ watermark \in {None} \union 0 .. 99 /\ batch \subseteq Ids
      /\ \A i \in Ids : copies[i] \in Nat
  BY FeedTypes DEF AgainInv, FeedInv, NoGap
<1>2. /\ UNCHANGED <<mark, published, watermark, seen, batch, old, killed>>
      /\ stage = "sink" /\ stage' = "remember" /\ Due' = Due
      /\ \A i \in Ids : copies'[i] = IF i \in Unseen THEN copies[i] + 1 ELSE copies[i]
  BY DEF SinkUnseen, Due, PageFrom, PageOf
<1>3. AnswerInv'
  BY <1>2 DEF AgainInv, AnswerInv
<1>4. ASSUME NEW i \in Ids PROVE copies'[i] <= 1 + killed' + old'
  <2>1. killed \in Nat /\ old \in Nat /\ copies[i] \in Nat /\ copies[i] <= 1 + killed + old
    BY <1>1 DEF AgainInv, AnswerInv, OnceInv
  <2>2. CASE i \in Unseen
    <3>1. i \in batch /\ i \notin ToSet(seen)
      BY <2>2 DEF Unseen
    <3>2. ~ AtBound(i)
      BY <1>2, <3>1 DEF AgainInv, OnceInv, Onwards, Remembered
    <3> QED
      BY <1>2, <2>1, <2>2, <3>2 DEF AtBound
  <2>3. CASE i \notin Unseen
    BY <1>2, <2>1, <2>3
  <2> QED
    BY <2>2, <2>3
<1>5. ASSUME NEW i \in Ids, AtBound(i)', i \notin Unseen'
      PROVE  (Onwards /\ Remembered(i, batch))'
  <2>1. Unseen' = Unseen
    BY <1>2 DEF Unseen
  <2>2. AtBound(i)
    BY <1>2, <1>5, <2>1 DEF AtBound
  <2>3. Onwards /\ Remembered(i, batch)
    BY <1>2, <2>2 DEF AgainInv, OnceInv
  <2> QED
    BY <1>2, <2>3 DEF Onwards, Remembered, PassedBy
<1> QED
  BY <1>2, <1>3, <1>4, <1>5 DEF OnceInv

LEMMA RememberAgain ==
    ASSUME AnswersFit, AgainInv, Remember
    PROVE  AnswerInv' /\ OnceInv'
<1> DEFINE new == InOrder(Unseen)
           all == seen \o new
           drop == Max({0, Len(all) - MaxEntries})
<1>1. /\ FeedTypeOK /\ watermark \in {None} \union 0 .. 99 /\ batch \subseteq Ids
      /\ seen \in Seq(Ids) /\ \A i \in Ids : mark[i] \in 0 .. 99
  BY FeedTypes DEF AgainInv, FeedInv, NoGap
<1>2. /\ UNCHANGED <<mark, published, watermark, copies, batch, old, killed>>
      /\ stage = "remember" /\ stage' = "advance" /\ Due' = Due
      /\ seen' = SubSeq(all, drop + 1, Len(all))
  BY DEF Remember, Due, PageFrom, PageOf
<1>3. Unseen \subseteq batch /\ Unseen \subseteq Ids /\ ToSet(seen) \cap Unseen = {}
  BY <1>1 DEF Unseen
<1>4. /\ new \in Seq(Ids) /\ ToSet(new) = Unseen /\ IsInjective(new)
      /\ \A r, t \in DOMAIN new : r < t => new[r] < new[t]
      /\ \A r \in DOMAIN new : new[r] \in Unseen
  <2>1. new \in Seq(Unseen) /\ ToSet(new) = Unseen /\ IsInjective(new)
        /\ \A r, t \in DOMAIN new : r < t => new[r] < new[t]
    BY <1>3, OrderedIsAll
  <2> HIDE DEF new
  <2> QED
    BY <1>3, <2>1 DEF ToSet
<1> HIDE DEF new
<1>5. /\ all \in Seq(Ids) /\ IsInjective(all)
      /\ ToSet(all) = ToSet(seen) \union Unseen
      /\ \A i \in ToSet(seen) : After(all, i) \subseteq After(seen, i) \union Unseen
      /\ \A i \in Unseen : After(all, i) \subseteq After(new, i)
  <2>1. IsInjective(seen)
    BY DEF AgainInv, AnswerInv
  <2> QED
    BY <1>1, <1>3, <1>4, <2>1, AfterAdded
<1>6. /\ MaxEntries \in Nat \ {0} /\ Len(all) \in Nat /\ drop \in Nat /\ drop <= Len(all)
      /\ drop = 0 \/ drop = Len(all) - MaxEntries
  <2>1. Len(all) \in Nat /\ MaxEntries \in Nat \ {0}
    BY <1>5, LenProperties, WatchAssumption
  <2>2. drop = IF Len(all) - MaxEntries > 0 THEN Len(all) - MaxEntries ELSE 0
    <3> DEFINE d == Len(all) - MaxEntries
    <3>1. d \in Int
      BY <2>1
    <3> HIDE DEF d
    <3>2. Max({0, d}) = IF d > 0 THEN d ELSE 0
      BY <3>1 DEF Max
    <3> QED
      BY <3>2 DEF d
  <2> HIDE DEF drop, all
  <2> QED
    BY <2>1, <2>2
<1> HIDE DEF all, drop
<1>7. /\ IsInjective(seen')
      /\ \A i \in ToSet(all) : \A S :
            IsFiniteSet(S) /\ Cardinality(S) <= MaxEntries /\ i \in S /\ After(all, i) \subseteq S
               => i \in ToSet(seen') /\ After(seen', i) \subseteq After(all, i)
  BY <1>2, <1>5, <1>6, EndKept
<1>8. IsFiniteSet(batch) /\ Cardinality(batch) <= MaxEntries
      /\ IsFiniteSet(Due) /\ Cardinality(Due) <= MaxEntries
  BY <1>1, PageFits, FS_Subset, WatchAssumption DEF Due, AgainInv, AnswerInv
<1>9. \A i \in Unseen : After(new, i) \subseteq Unseen /\ \A e \in After(new, i) : mark[e] >= mark[i]
  <2> SUFFICES ASSUME NEW i \in Unseen, NEW e \in After(new, i)
               PROVE  e \in Unseen /\ mark[e] >= mark[i]
    OBVIOUS
  <2>1. PICK r \in DOMAIN new, t \in DOMAIN new : new[r] = i /\ r < t /\ e = new[t]
    BY DEF After
  <2>2. e \in Unseen /\ i < e /\ i \in Ids /\ e \in Ids
    BY <1>3, <1>4, <2>1
  <2>3. mark[i] <= mark[e] /\ mark[i] \in 0 .. 99 /\ mark[e] \in 0 .. 99
    BY <1>1, <2>2, MarksAreNumbers DEF FeedTypeOK
  <2> QED
    BY <2>2, <2>3
<1>10. ASSUME NEW i \in Ids, i \in Unseen PROVE JustAdded(i)'
  <2>1. i \in batch /\ i \in ToSet(all) /\ After(all, i) \subseteq batch
    BY <1>3, <1>5, <1>9, <1>10
  <2>2. i \in ToSet(seen') /\ After(seen', i) \subseteq After(new, i)
    BY <1>5, <1>7, <1>8, <1>10, <2>1
  <2> QED
    BY <1>2, <1>3, <1>9, <1>10, <2>1, <2>2 DEF JustAdded
<1>11. ASSUME NEW i \in Ids, Onwards, Remembered(i, batch)
       PROVE  (Onwards /\ Remembered(i, batch))'
  <2>1. Unseen \subseteq Due
    BY <1>3, <1>11 DEF Onwards, AgainInv, AnswerInv
  <2>2. ASSUME mark[i] >= watermark
        PROVE  i \in ToSet(seen') /\ After(seen', i) \subseteq Due
    <3>1. i \in batch /\ i \in ToSet(seen) /\ After(seen, i) \subseteq Due
      BY <1>11, <2>2 DEF Remembered
    <3>2. i \in Due /\ i \in ToSet(all) /\ After(all, i) \subseteq Due
      BY <1>5, <2>1, <2>2, <3>1 DEF AgainInv, AnswerInv
    <3> QED
      BY <1>7, <1>8, <3>2
  <2> QED
    BY <1>2, <1>11, <2>2 DEF Onwards, Remembered, PassedBy
<1>12. AnswerInv'
  BY <1>2, <1>7 DEF AgainInv, AnswerInv
<1>13. ASSUME NEW i \in Ids
       PROVE  /\ copies'[i] <= 1 + killed' + old'
              /\ AtBound(i)' => JustAdded(i)' \/ (Onwards /\ Remembered(i, batch))'
  <2>1. copies[i] <= 1 + killed + old
        /\ (AtBound(i) => i \in Unseen \/ (Onwards /\ Remembered(i, batch)))
    BY <1>2 DEF AgainInv, OnceInv
  <2>2. AtBound(i)' <=> AtBound(i)
    BY <1>2 DEF AtBound
  <2> QED
    BY <1>2, <1>10, <1>11, <2>1, <2>2
<1> QED
  BY <1>2, <1>12, <1>13 DEF OnceInv

LEMMA AdvanceAgain ==
    ASSUME AgainInv, AdvanceMark
    PROVE  AnswerInv' /\ OnceInv'
<1> DEFINE w == watermark
           v == watermark'
<1>1. /\ FeedTypeOK /\ w \in {None} \union 0 .. 99 /\ batch \subseteq published
      /\ \A i \in Ids : mark[i] \in 0 .. 99
      /\ published \subseteq Ids
  BY FeedTypes DEF AgainInv, FeedInv, NoGap, FeedTypeOK
<1>2. /\ UNCHANGED <<mark, published, seen, copies, old, killed>>
      /\ batch' = {} /\ stage = "advance" /\ stage' = "away" /\ Due' = PageFrom(v)
      /\ v = IF batch = {} THEN w ELSE Later(w)
  BY DEF AdvanceMark, Due, PageFrom, PageOf
<1>3. AnswerInv'
  BY <1>2, FS_EmptySet, WatchAssumption DEF AgainInv, AnswerInv
<1>4. \A i \in batch : mark[i] >= w => i \in Due
  BY DEF AgainInv, AnswerInv
<1>5. \A i \in published : i \in PageFrom(mark[i])
  BY <1>1, PageBegins
<1>6. v = w => Due' = Due
  BY <1>2 DEF Due
<1>7. ASSUME NEW i \in Ids, JustAdded(i), mark[i] >= v
      PROVE  i \in Due' /\ i \in ToSet(seen) /\ After(seen, i) \subseteq Due' /\ PassedBy(i, Due)'
  <2>1. /\ i \in batch /\ i \in ToSet(seen) /\ batch # {}
        /\ \A e \in After(seen, i) : e \in batch /\ mark[e] >= mark[i]
    BY <1>7 DEF JustAdded
  <2>2. PICK top \in batch :
           /\ \A j \in batch : mark[j] <= mark[top]
           /\ \/ v = mark[top]
              \/ v = w /\ w # None /\ ~ StrGreater(mark[top], w)
    BY <1>1, <1>2, <2>1, LaterIsGreatest
  <2>3. \A j \in batch : mark[j] \in 0 .. 99
    BY <1>1
  <2>4. CASE v = mark[top]
    <3>1. \A j \in batch : mark[j] >= mark[i] => mark[j] = v
      <4> SUFFICES ASSUME NEW j \in batch, mark[j] >= mark[i] PROVE mark[j] = v
        OBVIOUS
      <4>1. mark[j] \in Nat /\ mark[i] \in Nat /\ v \in Nat /\ mark[j] <= v
        BY <2>1, <2>2, <2>3, <2>4
      <4> QED
        BY ONLY <1>7, <3>1, <4>1, mark[j] >= mark[i]
    <3>2. mark[i] = v
      BY <2>1, <2>3, <3>1
    <3>3. i \in Due' /\ After(seen, i) \subseteq Due'
      BY <1>1, <1>2, <1>5, <2>1, <3>1, <3>2
    <3>4. PassedBy(i, Due)'
      <4>1. ~ (mark[i] > v)
        BY <2>1, <2>3, <3>2
      <4> QED
        BY <1>2, <4>1 DEF PassedBy
    <3> QED
      BY <2>1, <3>3, <3>4
  <2>5. CASE v = w /\ w # None /\ ~ StrGreater(mark[top], w)
    <3>0. w \in 0 .. 99 /\ mark[i] \in 0 .. 99 /\ mark[top] \in 0 .. 99 /\ mark[i] >= w
      BY <1>1, <1>7, <2>1, <2>3, <2>5
    <3>1. i \in Due'
      BY <1>4, <1>6, <2>1, <2>5, <3>0
    <3>2. ASSUME NEW e \in After(seen, i) PROVE e \in Due'
      <4>1. e \in batch /\ mark[e] >= mark[i] /\ mark[e] \in 0 .. 99
        BY <2>1, <2>3
      <4>2. mark[e] >= w
        BY <3>0, <4>1
      <4> QED
        BY <1>4, <1>6, <2>5, <4>1, <4>2
    <3>3. PassedBy(i, Due)'
      <4>1. CASE mark[top] > mark[i]
        <5>1. top \in Due' /\ mark'[top] > mark'[i]
          <6>1. mark[top] >= w
            BY <3>0, <4>1
          <6> QED
            BY <1>2, <1>4, <1>6, <2>5, <4>1, <6>1
        <5> QED
          BY <2>5, <5>1 DEF PassedBy
      <4>2. CASE ~ (mark[top] > mark[i])
        <5>1. mark[top] = mark[i]
          <6>1. mark[i] <= mark[top]
            BY <2>1, <2>2
          <6> QED
            BY ONLY <3>0, <4>2, <6>1
        <5> QED
          BY <1>2, <2>5, <5>1 DEF PassedBy
      <4> QED
        BY <4>1, <4>2
    <3> QED
      BY <2>1, <3>1, <3>2, <3>3
  <2> QED
    BY <2>2, <2>4, <2>5
<1>8. ASSUME NEW i \in Ids, Onwards, Remembered(i, batch), mark[i] >= v
      PROVE  i \in Due' /\ i \in ToSet(seen) /\ After(seen, i) \subseteq Due' /\ PassedBy(i, Due)'
  <2>1. CASE batch = {}
    BY <1>2, <1>8, <2>1 DEF Remembered
  <2>2. CASE batch # {}
    <3>1. PICK top \in batch :
             /\ \A j \in batch : mark[j] <= mark[top]
             /\ \/ v = mark[top] /\ (w = None \/ StrGreater(mark[top], w))
                \/ v = w /\ w # None /\ ~ StrGreater(mark[top], w)
      BY <1>1, <1>2, <2>2, LaterIsGreatest
    <3>2. mark[i] \in 0 .. 99 /\ mark[top] \in 0 .. 99 /\ mark[top] >= w
      BY <1>1, <1>8, <3>1 DEF Onwards
    <3>3. mark[i] >= w
      <4>1. v >= w /\ v \in Int /\ w \in Int
        BY <1>1, <3>1, <3>2 DEF None
      <4> QED
        BY ONLY <1>8, <3>2, <4>1
    <3>4. /\ i \in batch /\ i \in ToSet(seen) /\ After(seen, i) \subseteq Due
          /\ PassedBy(i, batch) /\ i \in Due
      BY <1>4, <1>8, <3>3 DEF Remembered
    <3>5. CASE v = w
      <4>1. PassedBy(i, Due)'
        <5>1. ASSUME NEW k \in batch, mark[k] > mark[i] PROVE k \in Due
          <6>1. mark[k] \in Int /\ mark[i] \in Int /\ w \in Int
            BY <1>1, <3>2 DEF None
          <6>2. mark[k] >= w
            BY ONLY <3>3, <5>1, <6>1
          <6> QED
            BY <1>4, <6>2
        <5> QED
          BY <1>2, <1>6, <3>4, <3>5, <5>1 DEF PassedBy
      <4> QED
        BY <1>6, <3>4, <3>5, <4>1
    <3>6. CASE v # w
      <4>1. v = mark[top] /\ (w = None \/ StrGreater(mark[top], w))
        BY <3>1, <3>6
      <4>2. mark[i] = mark[top]
        <5>1. mark[i] <= mark[top]
          BY <3>1, <3>4
        <5> QED
          BY ONLY <1>8, <3>2, <4>1, <5>1
      <4>3. mark[i] > w
        <5>1. w \in Int /\ mark[i] # w
          BY <1>1, <3>6, <4>1, <4>2 DEF None
        <5> QED
          BY ONLY <3>2, <3>3, <5>1
      <4>4. PICK k \in batch : mark[k] > mark[i]
        BY <3>4, <4>1, <4>2, <4>3 DEF PassedBy
      <4>5. mark[k] <= mark[top] /\ mark[k] \in 0 .. 99
        BY <1>1, <3>1
      <4> QED
        BY <3>2, <4>2, <4>4, <4>5
    <3> QED
      BY <3>5, <3>6
  <2> QED
    BY <2>1, <2>2
<1>9. ASSUME NEW i \in Ids, AtBound(i)' PROVE Remembered(i, Due)'
  <2>1. JustAdded(i) \/ (Onwards /\ Remembered(i, batch))
    BY <1>2, <1>9 DEF AgainInv, OnceInv, AtBound
  <2> QED
    BY <1>2, <1>7, <1>8, <2>1 DEF Remembered
<1> QED
  BY <1>2, <1>3, <1>9 DEF AgainInv, OnceInv

LEMMA AgainStep ==
    ASSUME AnswersFit, AgainInv, [FeedNext]_feedVars
    PROVE  AgainInv'
<1>1. FeedInv'
  BY NextKeepsFeed DEF AgainInv
<1>2. CASE UNCHANGED feedVars
  <2>1. Due' = Due /\ Unseen' = Unseen /\ (Onwards' <=> Onwards)
        /\ \A i : (AtBound(i)' <=> AtBound(i)) /\ (JustAdded(i)' <=> JustAdded(i))
                  /\ (Remembered(i, Due)' <=> Remembered(i, Due))
                  /\ (Remembered(i, batch)' <=> Remembered(i, batch))
    BY <1>2 DEF feedVars, Due, PageFrom, PageOf, Unseen, Onwards, AtBound, JustAdded,
                Remembered, PassedBy
  <2> QED
    BY <1>1, <1>2, <2>1 DEF feedVars, AgainInv, AnswerInv, OnceInv
<1>3. CASE FeedNext
  BY <1>1, <1>3, PublishAgain, EventAgain, FetchAgain, SinkAgain, RememberAgain, AdvanceAgain
     DEF FeedNext, Visit, AgainInv
<1> QED
  BY <1>2, <1>3

-----------------------------------------------------------------------------
(* The theorems *)

\* Whatever answers come out of order and wherever visits are killed, watch()
\* never moves the watermark past a record that the sink has not stored.
THEOREM WatchLeavesNoGap == FeedSpec => []NoGap
<1>1. FeedInv => NoGap
  BY DEF FeedInv
<1> QED
  BY <1>1, FeedAlways, PTL

\* The comparison of the marks as strings keeps the watermark from moving
\* backwards, if the source's marks order alike as numbers and as strings.
THEOREM WatermarkNeverBack == FeedSpec => WatermarkMonotone
<1>1. FeedInv /\ [FeedNext]_feedVars => [OrderedAsStrings => watermark' >= watermark]_feedVars
  <2> SUFFICES ASSUME FeedInv, [FeedNext]_feedVars, OrderedAsStrings
               PROVE  watermark' >= watermark
    OBVIOUS
  <2>1. FeedTypeOK /\ batch \subseteq Ids
    BY DEF FeedInv, NoGap, FeedTypeOK
  <2>2. \A i \in Ids : mark[i] \in 0 .. 99
    BY <2>1, MarksAreNumbers DEF FeedTypeOK
  <2>3. watermark \in {None} \union {mark[i] : i \in Ids}
    BY <2>1 DEF FeedTypeOK
  <2>4. CASE watermark' = watermark
    BY <2>2, <2>3, <2>4 DEF None
  <2>5. ASSUME AdvanceMark, watermark' # watermark PROVE watermark' >= watermark
    <3>1. watermark' = Later(watermark) /\ batch # {}
      BY <2>5 DEF AdvanceMark
    <3>2. PICK k \in batch : watermark' = mark[k]
      BY <2>1, <2>5, <3>1, LaterIsMark
    <3>3. CASE watermark = None
      BY <2>1, <2>2, <3>2, <3>3 DEF None
    <3>4. CASE watermark # None
      <4>1. StrGreater(watermark', watermark)
        BY <2>1, <2>5, <3>1, <3>4, LaterIsMark
      <4>2. PICK i \in Ids : watermark = mark[i]
        BY <2>3, <3>4
      <4>3. ~ StrGreater(mark[i], mark[k])
        BY <2>1, <2>2, <3>2, <4>1, <4>2, OneIsGreater
      <4>4. ~ (mark[k] < mark[i])
        BY <2>1, <4>3 DEF OrderedAsStrings
      <4>5. mark[k] \in 0 .. 99 /\ mark[i] \in 0 .. 99
        BY <2>1, <2>2
      <4>6. mark[k] >= mark[i]
        BY ONLY <4>4, <4>5
      <4> QED
        BY <3>2, <4>2, <4>6
    <3> QED
      BY <3>3, <3>4
  <2> QED
    BY <2>4, <2>5 DEF FeedNext, Visit, Publish, FetchPage, FetchOld, SinkUnseen, Remember, KillVisit, feedVars
<1> QED
  BY <1>1, FeedAlways, PTL DEF FeedSpec, WatermarkMonotone

\* A record is stored again only where a visit was killed after the sink, or an
\* answer came out of order: as often as that, and never for the overlap of
\* ordinary answers, if no answer is longer than the seen-set.
THEOREM StoredAgainRarely ==
    ASSUME AnswersFit
    PROVE  FeedSpec => []DuplicatesBounded
<1>1. FeedInit => AgainInv
  BY InitFeed, StartsWithin DEF AgainInv
<1>2. AgainInv /\ [FeedNext]_feedVars => AgainInv'
  BY AgainStep
<1>3. AgainInv => DuplicatesBounded
  BY DEF AgainInv, OnceInv, DuplicatesBounded
<1> QED
  BY <1>1, <1>2, <1>3, PTL DEF FeedSpec

-----------------------------------------------------------------------------
(* The pump, on its own *)

USE PumpAssumption

Kept(p) == stored[p] > 0 \/ p \in buffer \/ p \in lost

\* How many pages the sink has been given in order, whatever restarts repeat.
Reached == IF pc = "advance" \/ exhausted THEN position ELSE position - 1

\* The parts page p is in.
PartsWith(p) == {f \in Writers \X Numbers : p \in parts[f]}

\* The page in hand is the one the cursor is at; exhausted is the last page.
InHand ==
    /\ pc \in {"sink", "advance"} => page = position
    /\ exhausted => position = Pages /\ pc \in {"returned", "stopped"}

\* Every page the sink has been given is stored, in memory or lost.
KeptInv == \A p \in Page : p <= Reached => Kept(p)

\* A session numbers its parts from 0, and has no more of them than pages.
PartsNumbered ==
    /\ mine = 0 .. Cardinality(mine) - 1
    /\ Cardinality(mine) <= Reached
    /\ buffer # {} => Cardinality(mine) < Reached

\* A buffered sink has as many copies of a page as there are parts with it; a
\* durable one has nothing in memory.
SinkCounts ==
    IF buffered THEN \A p \in Page : stored[p] = Cardinality(PartsWith(p))
                ELSE buffer = {} /\ mine = {} /\ lost = {}

DrainInv == TypeOK /\ InHand /\ KeptInv /\ PartsNumbered /\ SinkCounts

\* The copies there are, page by page.
Copied == UNION {{p} \X (1 .. stored[p]) : p \in Page}

CopiesInv == Cardinality(Copied) + Cardinality(buffer) <= Reached + kills

-----------------------------------------------------------------------------
(* Parts and copies *)

\* A session has written a finite number of parts, the next number is not one
\* of theirs, and there is a number for it while it holds something.
LEMMA NextNumber ==
    ASSUME TypeOK, PartsNumbered, InHand
    PROVE  /\ Cardinality(mine) \in Nat /\ IsFiniteSet(mine)
           /\ Cardinality(mine) \notin mine
           /\ buffer # {} => Cardinality(mine) \in Numbers /\ Part \in Writers \X Numbers
<1>1. IsFiniteSet(Numbers)
  BY FS_Interval DEF Numbers
<1>2. IsFiniteSet(mine)
  BY <1>1, FS_Subset DEF TypeOK
<1>3. Cardinality(mine) \in Nat
  BY <1>2, FS_CardinalityType
<1>4. Cardinality(mine) \notin mine
  BY <1>3 DEF PartsNumbered
<1>5. Reached <= Pages /\ Reached \in Nat
  BY DEF Reached, TypeOK, Page
<1>6. buffer # {} => Cardinality(mine) \in Numbers
  BY <1>3, <1>5 DEF PartsNumbered, Numbers
<1> QED
  BY <1>2, <1>3, <1>4, <1>6 DEF Part, TypeOK

LEMMA PartsFinite ==
    ASSUME NEW p \in Page
    PROVE  IsFiniteSet(PartsWith(p)) /\ Cardinality(PartsWith(p)) \in Nat
<1>1. IsFiniteSet(Numbers)
  BY FS_Interval DEF Numbers
<1>2. IsFiniteSet(Writers \X Numbers)
  BY <1>1, FS_Product
<1>3. IsFiniteSet(PartsWith(p))
  BY <1>2, FS_Subset DEF PartsWith
<1> QED
  BY <1>3, FS_CardinalityType

\* Writing a part keeps count of the copies; a page that has none left was in
\* the part of that name before, and is not in it now.
LEMMA RewriteCounts ==
    ASSUME DrainInv, buffer # {}, NEW S, S \subseteq Page, Rewrite(S)
    PROVE  /\ stored' \in [Page -> Nat]
           /\ parts' \in [Writers \X Numbers -> SUBSET Page]
           /\ \A p \in Page : stored'[p] = Cardinality(PartsWith(p)')
           /\ \A p \in Page : stored[p] > 0 => stored'[p] > 0 \/ p \in parts[Part] \ S
           /\ \A p \in S : stored'[p] > 0
<1> USE DEF DrainInv
<1>1. PICK f \in Writers \X Numbers : f = Part
  BY NextNumber
<1>2. /\ parts' = [parts EXCEPT ![f] = S]
      /\ stored' = [p \in Page |-> stored[p] + Copies(p, S) - Copies(p, parts[f])]
  BY <1>1 DEF Rewrite
<1>3. parts' \in [Writers \X Numbers -> SUBSET Page]
  BY <1>2 DEF TypeOK
<1>4. \A p \in Page : stored[p] = Cardinality(PartsWith(p))
  BY DEF SinkCounts
<1>5. ASSUME NEW p \in Page
      PROVE  /\ stored'[p] \in Nat /\ stored'[p] = Cardinality(PartsWith(p)')
             /\ stored[p] > 0 => stored'[p] > 0 \/ p \in parts[f] \ S
             /\ p \in S => stored'[p] > 0
  <2>1. PICK Q : Q = PartsWith(p) /\ Q \subseteq Writers \X Numbers
    BY DEF PartsWith
  <2>2. IsFiniteSet(Q) /\ Cardinality(Q) \in Nat /\ stored[p] = Cardinality(Q)
    BY <1>4, <2>1, PartsFinite
  <2>3. f \in Q <=> p \in parts[f]
    BY <2>1 DEF PartsWith
  <2>4. CASE p \in S
    <3>1. PartsWith(p)' = Q \union {f}
      BY <1>2, <2>1, <2>4 DEF PartsWith, TypeOK
    <3>2. /\ Cardinality(Q \union {f}) = IF f \in Q THEN Cardinality(Q) ELSE Cardinality(Q) + 1
          /\ f \in Q => Cardinality(Q) # 0
      BY <2>2, FS_AddElement, FS_EmptySet
    <3>3. stored'[p] = IF f \in Q THEN stored[p] ELSE stored[p] + 1
      BY <1>2, <2>2, <2>3, <2>4 DEF Copies
    <3> QED
      BY <2>2, <2>4, <3>1, <3>2, <3>3
  <2>5. CASE p \notin S
    <3>1. PartsWith(p)' = Q \ {f}
      BY <1>2, <2>1, <2>5 DEF PartsWith, TypeOK
    <3>2. /\ Cardinality(Q \ {f}) = IF f \in Q THEN Cardinality(Q) - 1 ELSE Cardinality(Q)
          /\ f \in Q => Cardinality(Q) # 0
      BY <2>2, FS_RemoveElement, FS_EmptySet
    <3>3. stored'[p] = IF f \in Q THEN stored[p] - 1 ELSE stored[p]
      BY <1>2, <2>2, <2>3, <2>5 DEF Copies
    <3> QED
      BY <2>2, <2>3, <2>5, <3>1, <3>2, <3>3
  <2> QED
    BY <2>4, <2>5
<1>6. stored' \in [Page -> Nat]
  BY <1>2, <1>5
<1> QED
  BY <1>1, <1>3, <1>5, <1>6

\* Dataset.flush keeps every page: what it writes over is lost and known to be.
LEMMA WriteKeeps ==
    ASSUME DrainInv, WritePart
    PROVE  /\ stored' \in [Page -> Nat] /\ parts' \in [Writers \X Numbers -> SUBSET Page]
           /\ buffered /\ buffer' = {} /\ writer' = writer /\ lost' \subseteq Page
           /\ \A p \in Page : stored'[p] = Cardinality(PartsWith(p)')
           /\ \A p \in Page : Kept(p) => Kept(p)'
<1>1. buffer # {} /\ buffer \subseteq Page /\ Rewrite(buffer)
  BY DEF WritePart, DrainInv, TypeOK
<1>2. buffered
  BY <1>1 DEF DrainInv, SinkCounts
<1>3. /\ stored' \in [Page -> Nat]
      /\ parts' \in [Writers \X Numbers -> SUBSET Page]
      /\ \A p \in Page : stored'[p] = Cardinality(PartsWith(p)')
      /\ \A p \in Page : stored[p] > 0 => stored'[p] > 0 \/ p \in parts[Part] \ buffer
      /\ \A p \in buffer : stored'[p] > 0
  BY <1>1, RewriteCounts
<1>4. Replaced = parts[Part] \ buffer /\ Replaced \subseteq Page
  BY <1>1, NextNumber DEF DrainInv, Replaced, TypeOK
<1> QED
  BY <1>1, <1>2, <1>3, <1>4 DEF WritePart, Kept, DrainInv, TypeOK

-----------------------------------------------------------------------------
(* Nothing the cursor has passed is missing *)

LEMMA InitDrain == Init => DrainInv
<1> SUFFICES ASSUME Init PROVE DrainInv
  OBVIOUS
<1>0. 1 \in Page
  BY DEF Page
<1>6. parts \in [Writers \X Numbers -> SUBSET Page] /\ stored \in [Page -> Nat]
  BY DEF Init
<1>7. retries \in 0 .. MaxRetries /\ kills \in 0 .. MaxKills /\ buffered \in BOOLEAN
  BY DEF Init
<1>1. TypeOK
  BY <1>0, <1>6, <1>7 DEF Init, TypeOK
<1>5. InHand /\ KeptInv
  BY DEF Init, InHand, KeptInv, Reached, Page
<1>2. PartsNumbered
  BY FS_EmptySet DEF Init, PartsNumbered, Reached
<1>3. \A p \in Page : PartsWith(p) = {}
  BY DEF Init, PartsWith
<1>4. SinkCounts
  BY <1>3, FS_EmptySet DEF Init, SinkCounts
<1> QED
  BY <1>1, <1>2, <1>4, <1>5 DEF DrainInv

\* A session that numbers one more part.
LEMMA OneMorePart ==
    ASSUME TypeOK, PartsNumbered, InHand, buffer # {},
           mine' = mine \union {Cardinality(mine)}
    PROVE  /\ Cardinality(mine') = Cardinality(mine) + 1
           /\ mine' = 0 .. Cardinality(mine') - 1
           /\ mine' \subseteq Numbers
<1>1. PICK k \in Nat : k = Cardinality(mine)
  BY NextNumber
<1>2. mine = 0 .. k - 1 /\ k \in Numbers
  BY <1>1, NextNumber DEF PartsNumbered
<1>3. Cardinality(mine') = k + 1
  BY <1>1, NextNumber, FS_AddElement
<1>4. (0 .. k - 1) \union {k} = 0 .. k /\ (k + 1) - 1 = k
  OBVIOUS
<1>5. mine' = 0 .. k
  BY <1>1, <1>2, <1>4
<1>6. 0 .. k \subseteq Numbers
  BY <1>2 DEF Numbers
<1> QED
  BY <1>1, <1>3, <1>4, <1>5, <1>6

\* Steps that leave the sink and its dataset alone.
LEMMA QuietDrain ==
    ASSUME DrainInv, TypeOK', InHand', UNCHANGED <<buffered, dataset>>,
           Reached' = Reached
    PROVE  DrainInv'
BY DEF DrainInv, KeptInv, Kept, PartsNumbered, SinkCounts, PartsWith, dataset

LEMMA DrainStep == DrainInv /\ [Next]_vars => DrainInv'
<1> SUFFICES ASSUME DrainInv, [Next]_vars PROVE DrainInv'
  OBVIOUS
<1> USE DEF DrainInv
<1>0. /\ position \in Nat /\ position <= Pages /\ Reached \in Nat
      /\ Cardinality(mine) \in Nat
  BY NextNumber DEF Reached, TypeOK, Page
<1>1. CASE Start
  <2>1. /\ TypeOK' /\ InHand' /\ Reached' = Reached
        /\ UNCHANGED <<buffered, buffer, mine, parts, stored, lost>>
    BY <1>1 DEF Start, TypeOK, InHand, Reached, cursor
  <2> QED
    BY <2>1 DEF KeptInv, Kept, PartsNumbered, SinkCounts, PartsWith
<1>2. CASE Fetch
  <2>1. TypeOK' /\ InHand' /\ Reached' = Reached /\ UNCHANGED <<buffered, dataset>>
    BY <1>2 DEF Fetch, TypeOK, InHand, Reached, cursor, dataset
  <2> QED
    BY <2>1, QuietDrain
<1>3. CASE Limited
  <2>1. TypeOK' /\ InHand' /\ Reached' = Reached /\ UNCHANGED <<buffered, dataset>>
    BY <1>3 DEF Limited, TypeOK, InHand, Reached, cursor, dataset
  <2> QED
    BY <2>1, QuietDrain
<1>4. CASE Stop
  <2>1. TypeOK' /\ InHand' /\ Reached' = Reached /\ UNCHANGED <<buffered, dataset>>
    BY <1>4 DEF Stop, TypeOK, InHand, Reached, cursor, dataset
  <2> QED
    BY <2>1, QuietDrain
<1>5. CASE Sink
  <2>1. /\ TypeOK' /\ InHand'
        /\ page = position /\ ~exhausted
        /\ Reached = position - 1 /\ Reached' = position
        /\ UNCHANGED <<buffered, mine, parts, lost>>
    BY <1>5 DEF Sink, TypeOK, InHand, Reached, cursor
  <2>2. \A p \in Page : Kept(p) \/ p = page => Kept(p)'
    BY <1>5 DEF Sink, TypeOK, Kept
  <2>3. KeptInv'
    BY <2>1, <2>2 DEF KeptInv, TypeOK, Page
  <2>4. PartsNumbered'
    BY <1>0, <2>1 DEF PartsNumbered
  <2>5. SinkCounts'
    BY <1>5, <2>1 DEF Sink, SinkCounts, PartsWith
  <2> QED
    BY <2>1, <2>3, <2>4, <2>5
<1>6. CASE Flush
  <2>1. /\ pc = "advance" /\ buffer # {} /\ WritePart
        /\ mine' = mine \union {Cardinality(mine)}
        /\ UNCHANGED <<position, exhausted, pc, page, retries, buffered, kills>>
    BY <1>6 DEF Flush, WritePart, cursor
  <2>2. TypeOK' /\ InHand' /\ Reached' = Reached
    BY <2>1, WriteKeeps, OneMorePart DEF TypeOK, InHand, Reached
  <2>3. KeptInv' /\ SinkCounts'
    BY <2>1, <2>2, WriteKeeps DEF KeptInv, SinkCounts
  <2>4. Cardinality(mine) + 1 <= Reached
    BY <1>0, <2>1 DEF PartsNumbered
  <2>5. PartsNumbered'
    BY <2>1, <2>2, <2>4, OneMorePart, WriteKeeps DEF PartsNumbered
  <2> QED
    BY <2>2, <2>3, <2>5
<1>7. CASE Advance
  <2>0. page = position /\ ~exhausted /\ page \in 1 .. Pages
    BY <1>7 DEF Advance, InHand, TypeOK, Page
  <2>1. TypeOK' /\ InHand' /\ Reached' = Reached /\ UNCHANGED <<buffered, dataset>>
    <3>1. CASE page = Pages
      BY <1>7, <2>0, <3>1 DEF Advance, TypeOK, InHand, Reached, dataset
    <3>2. CASE page # Pages
      <4>1. position' = page + 1 /\ pc' = "loop" /\ exhausted' = exhausted
        BY <1>7, <3>2 DEF Advance
      <4>2. position' \in Page /\ position' - 1 = position
        BY <2>0, <3>2, <4>1 DEF Page
      <4> QED
        BY <1>7, <2>0, <4>1, <4>2 DEF Advance, TypeOK, InHand, Reached, dataset
    <3> QED
      BY <3>1, <3>2
  <2> QED
    BY <2>1, QuietDrain
<1>8. CASE Finish
  <2>1. /\ mine' = {} /\ Reached' = Reached /\ InHand' /\ buffered' = buffered
        /\ UNCHANGED <<position, exhausted, page, retries, kills>> /\ pc' = "stopped"
    BY <1>8 DEF Finish, cursor, Reached, InHand
  <2>2. PartsNumbered' /\ buffer' = {}
    BY <1>0, <1>8, <2>1, FS_EmptySet DEF PartsNumbered, Finish, WritePart
  <2>3. CASE WritePart
    <3>1. TypeOK'
      BY <2>1, <2>3, WriteKeeps DEF TypeOK
    <3>2. KeptInv' /\ SinkCounts'
      BY <2>1, <2>3, WriteKeeps DEF KeptInv, SinkCounts
    <3> QED
      BY <2>1, <2>2, <3>1, <3>2
  <2>4. CASE UNCHANGED <<buffer, writer, parts, stored, lost>>
    <3>1. TypeOK'
      BY <2>1, <2>4 DEF TypeOK
    <3>2. KeptInv' /\ SinkCounts'
      BY <2>1, <2>4 DEF KeptInv, Kept, SinkCounts, PartsWith
    <3> QED
      BY <2>1, <2>2, <3>1, <3>2
  <2> QED
    BY <1>8, <2>3, <2>4 DEF Finish
<1>9. CASE Kill
  <2>1. /\ mine' = {} /\ buffer' = {} /\ buffered' = buffered /\ pc' = "stopped"
        /\ kills' \in 0 .. MaxKills
        /\ UNCHANGED <<position, exhausted, page, retries, writer>>
    BY <1>9 DEF Kill, TypeOK, cursor
  <2>2. InHand' /\ Reached' \in Nat /\ Reached' <= Reached
    BY <1>0, <2>1 DEF InHand, Reached, TypeOK, Page
  <2>3. PartsNumbered'
    BY <2>1, <2>2, FS_EmptySet DEF PartsNumbered
  <2>4. CASE lost' = lost \union buffer /\ UNCHANGED <<parts, stored>>
    <3>1. TypeOK'
      BY <2>1, <2>4 DEF TypeOK
    <3>2. \A p \in Page : Kept(p) => Kept(p)'
      BY <2>4 DEF Kept
    <3>3. KeptInv' /\ SinkCounts'
      BY <1>0, <2>1, <2>2, <2>4, <3>2 DEF KeptInv, SinkCounts, PartsWith, Page
    <3> QED
      BY <2>2, <2>3, <3>1, <3>3
  <2>5. CASE buffer # {} /\ Rewrite({}) /\ lost' = lost \union buffer \union Replaced
    <3>1. /\ stored' \in [Page -> Nat]
          /\ parts' \in [Writers \X Numbers -> SUBSET Page]
          /\ \A p \in Page : stored'[p] = Cardinality(PartsWith(p)')
          /\ \A p \in Page : stored[p] > 0 => stored'[p] > 0 \/ p \in parts[Part] \ {}
      BY <2>5, RewriteCounts
    <3>2. buffered /\ Replaced = parts[Part] \ buffer /\ Replaced \subseteq Page
      BY <2>5, NextNumber DEF SinkCounts, Replaced, TypeOK
    <3>3. TypeOK'
      BY <2>1, <2>5, <3>1, <3>2 DEF TypeOK
    <3>4. \A p \in Page : Kept(p) => Kept(p)'
      BY <2>5, <3>1, <3>2 DEF Kept
    <3>5. KeptInv' /\ SinkCounts'
      BY <1>0, <2>1, <2>2, <3>1, <3>2, <3>4 DEF KeptInv, SinkCounts, Page
    <3> QED
      BY <2>2, <2>3, <3>3, <3>5
  <2> QED
    BY <1>9, <2>4, <2>5 DEF Kill
<1>10. CASE UNCHANGED vars
  <2>1. TypeOK' /\ InHand' /\ Reached' = Reached /\ UNCHANGED <<buffered, dataset>>
    BY <1>10 DEF vars, TypeOK, InHand, Reached, dataset
  <2> QED
    BY <2>1, QuietDrain
<1> QED
  BY <1>1, <1>2, <1>3, <1>4, <1>5, <1>6, <1>7, <1>8, <1>9, <1>10 DEF Next

\* Whatever the cursor file has moved past is stored, wherever sessions are
\* killed; with a buffered sink it may be in memory, or known to be lost with
\* the session that had it there or under a part of the same name.
THEOREM NoHiddenHole == Spec => []HolesBuffered
<1>1. DrainInv => HolesBuffered
  <2> SUFFICES ASSUME DrainInv PROVE HolesBuffered
    OBVIOUS
  <2>1. \A p \in Page : Behind(p) => p <= Reached
    BY DEF DrainInv, Behind, Reached, InHand, TypeOK, Page
  <2> QED
    BY <2>1 DEF DrainInv, HolesBuffered, KeptInv, Kept, SinkCounts
<1> QED
  BY <1>1, InitDrain, DrainStep, PTL DEF Spec

-----------------------------------------------------------------------------
(* One page per kill *)

\* There are finitely many copies.
LEMMA CopiedFinite ==
    ASSUME NEW st \in [Page -> Nat]
    PROVE  IsFiniteSet(UNION {{p} \X (1 .. st[p]) : p \in Page})
<1> DEFINE of == [p \in Page |-> {p} \X (1 .. st[p])]
           all == {of[p] : p \in Page}
<1>1. IsFiniteSet(Page)
  BY FS_Interval DEF Page
<1>2. of \in Surjection(Page, all)
  BY DEF Surjection
<1>3. IsFiniteSet(all)
  BY <1>1, <1>2, FS_Surjection
<1>4. ASSUME NEW p \in Page PROVE IsFiniteSet(of[p])
  <2>1. 1 \in Int /\ st[p] \in Int
    OBVIOUS
  <2>2. IsFiniteSet(1 .. st[p])
    BY <2>1, FS_Interval
  <2>3. IsFiniteSet({p})
    BY FS_Singleton
  <2> QED
    BY <2>2, <2>3, FS_Product
<1>5. UNION {{p} \X (1 .. st[p]) : p \in Page} = UNION all
  OBVIOUS
<1>6. \A T \in all : IsFiniteSet(T)
  BY <1>4
<1> HIDE DEF all
<1> QED
  BY <1>3, <1>5, <1>6, FS_UNION

\* One more copy at most of the pages of S, and none of the others, are as many
\* copies more as S has pages.
LEMMA CopiedGrows ==
    ASSUME NEW st \in [Page -> Nat], NEW new \in [Page -> Nat],
           NEW S \in SUBSET Page,
           \A p \in Page : new[p] <= IF p \in S THEN st[p] + 1 ELSE st[p]
    PROVE  Cardinality(UNION {{p} \X (1 .. new[p]) : p \in Page})
              <= Cardinality(UNION {{p} \X (1 .. st[p]) : p \in Page}) + Cardinality(S)
<1> DEFINE A == UNION {{p} \X (1 .. st[p]) : p \in Page}
           B == UNION {{p} \X (1 .. new[p]) : p \in Page}
           top == [p \in S |-> <<p, st[p] + 1>>]
           T == {top[p] : p \in S}
<1>1. IsFiniteSet(A) /\ IsFiniteSet(B)
  BY CopiedFinite
<1>2. IsFiniteSet(S)
  <2>1. IsFiniteSet(Page)
    BY FS_Interval DEF Page
  <2> QED
    BY <2>1, FS_Subset
<1>3. top \in Surjection(S, T)
  BY DEF Surjection
<1>4. IsFiniteSet(T) /\ Cardinality(T) <= Cardinality(S)
  BY <1>2, <1>3, FS_Surjection
<1>5. B \subseteq A \union T
  <2> SUFFICES ASSUME NEW p \in Page, NEW n \in 1 .. new[p]
               PROVE  <<p, n>> \in A \union T
    OBVIOUS
  <2>1. CASE n <= st[p]
    BY <2>1
  <2>2. CASE ~(n <= st[p])
    <3>1. p \in S /\ n = st[p] + 1
      BY <2>2
    <3>2. top[p] = <<p, n>>
      BY <3>1
    <3> QED
      BY <3>1, <3>2
  <2> QED
    BY <2>1, <2>2
<1> HIDE DEF A, B, T
<1>6. /\ IsFiniteSet(A \union T) /\ Cardinality(A \cap T) \in Nat
      /\ Cardinality(A \union T) = Cardinality(A) + Cardinality(T) - Cardinality(A \cap T)
  BY <1>1, <1>4, FS_Union, FS_Intersection, FS_CardinalityType
<1>7. Cardinality(B) <= Cardinality(A \union T)
  BY <1>5, <1>6, FS_Subset
<1>8. /\ Cardinality(A) \in Nat /\ Cardinality(B) \in Nat /\ Cardinality(T) \in Nat
      /\ Cardinality(S) \in Nat
  BY <1>1, <1>2, <1>4, FS_CardinalityType
<1>9. Cardinality(B) <= Cardinality(A) + Cardinality(S)
  BY <1>4, <1>6, <1>7, <1>8
<1> QED
  BY <1>9 DEF A, B

BoundInv == DrainInv /\ CopiesInv

LEMMA InitBound == Init => BoundInv
<1> SUFFICES ASSUME Init PROVE BoundInv
  OBVIOUS
<1>1. Copied = {} /\ buffer = {} /\ Reached = 0 /\ kills = 0
  BY DEF Init, Copied, Reached
<1>2. Cardinality({}) = 0
  BY FS_EmptySet
<1>3. CopiesInv
  BY <1>1, <1>2 DEF CopiesInv
<1> QED
  BY <1>3, InitDrain DEF BoundInv

\* What Rewrite adds to the copies.
LEMMA RewriteGrows ==
    ASSUME TypeOK, stored' \in [Page -> Nat], NEW S \in SUBSET Page, Rewrite(S)
    PROVE  Cardinality(Copied') <= Cardinality(Copied) + Cardinality(S)
<1>1. stored \in [Page -> Nat]
  BY DEF TypeOK
<1>2. ASSUME NEW p \in Page
      PROVE  stored'[p] <= IF p \in S THEN stored[p] + 1 ELSE stored[p]
  BY <1>1 DEF Rewrite, Copies
<1> QED
  BY <1>1, <1>2, CopiedGrows DEF Copied

\* The arithmetic of a step: x is held where y is allowed.
LEMMA Balance ==
    ASSUME NEW x \in Nat, NEW y \in Nat, NEW x2 \in Nat, NEW y2 \in Nat, x <= y,
           (x2 <= x /\ y <= y2) \/ (x2 <= x + 1 /\ y2 = y + 1)
    PROVE  x2 <= y2
OBVIOUS

LEMMA BoundStep == BoundInv /\ [Next]_vars => BoundInv'
<1> SUFFICES ASSUME BoundInv, [Next]_vars PROVE BoundInv'
  OBVIOUS
<1> DEFINE c == Cardinality(Copied)
           b == Cardinality(buffer)
<1>1. DrainInv' /\ DrainInv
  BY DrainStep DEF BoundInv
<1>2. TypeOK /\ TypeOK' /\ stored \in [Page -> Nat] /\ stored' \in [Page -> Nat]
  BY <1>1 DEF DrainInv, TypeOK
<1>3. /\ IsFiniteSet(buffer) /\ IsFiniteSet(buffer')
      /\ c \in Nat /\ b \in Nat /\ c' \in Nat /\ b' \in Nat
  <2>1. IsFiniteSet(Page)
    BY FS_Interval DEF Page
  <2>2. IsFiniteSet(buffer) /\ IsFiniteSet(buffer')
    BY <1>2, <2>1, FS_Subset DEF TypeOK
  <2>3. IsFiniteSet(Copied) /\ IsFiniteSet(Copied')
    BY <1>2, CopiedFinite DEF Copied
  <2> QED
    BY <2>2, <2>3, FS_CardinalityType
<1>4. Reached \in Nat /\ Reached' \in Nat /\ kills \in Nat /\ kills' \in Nat
  <2>1. Reached \in Nat
    BY <1>2 DEF Reached, TypeOK, Page
  <2>2. position' \in Page
    BY <1>2 DEF TypeOK
  <2>3. Reached' \in Nat
    <3>1. position' \in Nat /\ position' - 1 \in Nat
      <4>1. position' \in 1 .. Pages
        BY <2>2 DEF Page
      <4>2. \A n \in 1 .. Pages : n \in Nat /\ n - 1 \in Nat
        OBVIOUS
      <4> QED
        BY ONLY <4>1, <4>2
    <3> QED
      BY <3>1 DEF Reached
  <2>4. kills \in Nat /\ kills' \in Nat
    BY <1>2 DEF TypeOK
  <2> QED
    BY <2>1, <2>3, <2>4
<1>5. c + b <= Reached + kills
  BY DEF BoundInv, CopiesInv
<1>sums. /\ c + b \in Nat /\ c' + b' \in Nat
         /\ Reached + kills \in Nat /\ Reached' + kills' \in Nat
  <2>1. \A x, y \in Nat : x + y \in Nat
    OBVIOUS
  <2>2. c + b \in Nat
    BY ONLY <1>3, <2>1
  <2>3. c' + b' \in Nat
    BY ONLY <1>3, <2>1
  <2>4. Reached + kills \in Nat
    BY ONLY <1>4, <2>1
  <2>5. Reached' + kills' \in Nat
    BY ONLY <1>4, <2>1
  <2> QED
    BY <2>2, <2>3, <2>4, <2>5
<1>6. ASSUME c' + b' <= c + b, Reached + kills <= Reached' + kills'
      PROVE  BoundInv'
  <2>1. c' + b' <= Reached' + kills'
    BY <1>5, <1>6, <1>sums, Balance
  <2> QED
    BY <1>1, <2>1 DEF BoundInv, CopiesInv
<1>7. UNCHANGED <<stored, buffer>> => c' = c /\ b' = b
  BY DEF Copied
<1> HIDE DEF c
<1>8. ASSUME WritePart PROVE c' + b' <= c + b
  <2>1. Rewrite(buffer) /\ buffer \in SUBSET Page /\ buffer' = {}
    BY <1>2, <1>8 DEF WritePart, TypeOK
  <2>2. c' <= c + b
    BY <1>2, <2>1, RewriteGrows DEF c
  <2>3. b' = 0
    BY <2>1, FS_EmptySet
  <2> QED
    BY <1>3, <2>2, <2>3
<1>9. CASE Sink
  <2>1. Reached' + kills' = Reached + kills + 1
    BY <1>1, <1>4, <1>9 DEF Sink, Reached, DrainInv, InHand, cursor, TypeOK, Page
  <2>2. c' + b' <= c + b + 1
    <3>1. CASE buffered
      <4>1. buffer' = buffer \union {page} /\ stored' = stored
        BY <1>9, <3>1 DEF Sink
      <4>2. c' = c
        BY <4>1 DEF c, Copied
      <4>3. b' <= b + 1
        BY <1>3, <4>1, FS_AddElement
      <4> QED
        BY <1>3, <4>2, <4>3
    <3>2. CASE ~buffered
      <4>1. stored' = [stored EXCEPT ![page] = @ + 1] /\ buffer' = buffer
        BY <1>9, <3>2 DEF Sink
      <4>2. {page} \in SUBSET Page /\ Cardinality({page}) = 1
        BY <1>2, FS_Singleton DEF TypeOK
      <4>3. \A p \in Page : stored'[p] <= IF p \in {page} THEN stored[p] + 1 ELSE stored[p]
        BY <1>2, <4>1
      <4>4. c' <= c + Cardinality({page})
        BY <1>2, <4>2, <4>3, CopiedGrows DEF c, Copied
      <4> QED
        BY <1>3, <4>1, <4>2, <4>4
    <3> QED
      BY <3>1, <3>2
  <2>3. c' + b' <= Reached' + kills'
    BY <1>5, <1>sums, <2>1, <2>2, Balance
  <2> QED
    BY <1>1, <2>3 DEF BoundInv, CopiesInv, c
<1>10. CASE Kill
  <2>1. buffer' = {} /\ b' = 0
    BY <1>10, FS_EmptySet DEF Kill
  <2>2. Reached + kills <= Reached' + kills'
    BY <1>2, <1>10 DEF Kill, Reached, cursor, TypeOK, Page
  <2>3. c' <= c
    <3>1. CASE stored' = stored
      BY <1>3, <3>1 DEF c, Copied
    <3>2. CASE Rewrite({})
      <4>1. c' <= c + Cardinality({})
        BY <1>2, <3>2, RewriteGrows DEF c
      <4> QED
        BY <1>3, <4>1, FS_EmptySet
    <3> QED
      BY <1>10, <3>1, <3>2 DEF Kill
  <2>4. c' + b' <= c + b
    BY <1>3, <2>1, <2>3
  <2> QED
    BY <1>6, <2>2, <2>4
<1>11. ASSUME UNCHANGED <<stored, buffer>>, Reached' = Reached, kills' = kills
       PROVE  BoundInv'
  BY <1>3, <1>4, <1>6, <1>7, <1>11
<1>12. CASE Start \/ Fetch \/ Limited \/ Stop
  BY <1>11, <1>12 DEF Start, Fetch, Limited, Stop, Reached, cursor, dataset
<1>13. CASE Advance
  <2>1. UNCHANGED <<stored, buffer, kills>>
    BY <1>13 DEF Advance, dataset
  <2>0. page = position /\ ~exhausted /\ position \in 1 .. Pages
    BY <1>1, <1>13 DEF Advance, DrainInv, InHand, TypeOK, Page
  <2>2. Reached' = Reached
    <3>1. CASE page = Pages
      BY <1>13, <2>0, <3>1 DEF Advance, Reached
    <3>2. CASE page # Pages
      <4>1. position' = page + 1 /\ pc' = "loop" /\ exhausted' = exhausted
        BY <1>13, <3>2 DEF Advance
      <4>2. position' - 1 = position
        BY <2>0, <4>1
      <4> QED
        BY <1>13, <2>0, <4>1, <4>2 DEF Advance, Reached
    <3> QED
      BY <3>1, <3>2
  <2> QED
    BY <1>11, <2>1, <2>2
<1>14. CASE Flush
  <2>1. WritePart /\ Reached' = Reached /\ kills' = kills
    BY <1>14 DEF Flush, Reached, cursor
  <2> QED
    BY <1>4, <1>6, <1>8, <2>1
<1>15. CASE Finish
  <2>1. Reached' = Reached /\ kills' = kills
    BY <1>15 DEF Finish, Reached, cursor
  <2>2. WritePart \/ UNCHANGED <<stored, buffer>>
    BY <1>15 DEF Finish
  <2> QED
    BY <1>4, <1>6, <1>8, <1>11, <2>1, <2>2
<1>16. CASE UNCHANGED vars
  BY <1>11, <1>16 DEF vars, Reached
<1> QED
  BY <1>9, <1>10, <1>12, <1>13, <1>14, <1>15, <1>16 DEF Next

\* The price of a kill is one page: however many sessions there are, there are
\* at most as many copies as pages and kills.
THEOREM OnePagePerKill == Spec => []RereadsBounded
<1>1. BoundInv => RereadsBounded
  <2> SUFFICES ASSUME BoundInv PROVE RereadsBounded
    OBVIOUS
  <2>1. TypeOK /\ Cardinality(Copied) + Cardinality(buffer) <= Reached + kills
    BY DEF BoundInv, DrainInv, CopiesInv
  <2>2. Reached \in Nat /\ Reached <= Pages /\ kills \in Nat
    BY <2>1 DEF Reached, TypeOK, Page
  <2>3. Cardinality(Copied) \in Nat /\ Cardinality(buffer) \in Nat
    <3>1. IsFiniteSet(Page)
      BY FS_Interval DEF Page
    <3>2. IsFiniteSet(buffer)
      BY <2>1, <3>1, FS_Subset DEF TypeOK
    <3>3. IsFiniteSet(Copied)
      BY <2>1, CopiedFinite DEF Copied, TypeOK
    <3> QED
      BY <3>2, <3>3, FS_CardinalityType
  <2>4. Cardinality(Copied) <= Pages + kills
    BY <2>1, <2>2, <2>3
  <2> QED
    BY <2>4 DEF RereadsBounded, Copied
<1> QED
  BY <1>1, InitBound, BoundStep, PTL DEF Spec

HIDE PumpAssumption
USE LimiterAssumption, PacedAssumption

-----------------------------------------------------------------------------
(* The bucket, on its own *)

\* Every operation keeps the types of the bucket and its bookkeeping.
LEMMA BucketTypeStep == BucketTypeOK /\ [BucketNext]_bucketVars => BucketTypeOK'
<1> SUFFICES ASSUME BucketTypeOK, [BucketNext]_bucketVars PROVE BucketTypeOK'
  OBVIOUS
<1> USE DEF BucketTypeOK
<1> Full \in Nat
  BY DEF Full
<1> Available \in 0 .. Full
  BY DEF Available, Least
<1> HIDE DEF Full
<1>1. ASSUME NEW n \in 1 .. MaxPermits, Acquire(n) PROVE BucketTypeOK'
  <2> n * Cost \in 1 .. Full
    BY DEF Full
  <2> DEFINE c == n * Cost
  <2> HIDE DEF c
  <2> c \in 1 .. Full
    BY DEF c
  <2>1. CASE Available >= c
    BY <1>1, <2>1 DEF Acquire, c
  <2>2. CASE ~(Available >= c)
    BY <1>1, <2>2 DEF Acquire, c
  <2> QED BY <2>1, <2>2
<1>2. ASSUME NEW wait \in 0 .. MaxPenalty + 1, Penalise(wait) PROVE BucketTypeOK'
  BY <1>2 DEF Penalise, Least
<1>3. CASE Wake
  BY <1>3 DEF Wake
<1>4. CASE Tick
  BY <1>4 DEF Tick, Least
<1>5. CASE OpenWindow
  BY <1>5 DEF OpenWindow
<1>6. CASE UNCHANGED bucketVars
  BY <1>6 DEF bucketVars
<1> QED BY <1>1, <1>2, <1>3, <1>4, <1>5, <1>6 DEF BucketNext

\* The bucket and its bookkeeping keep their types.
THEOREM TypeCorrect == BucketSpec => []BucketTypeOK
<1>1. BucketInit => BucketTypeOK
  BY DEF BucketInit, BucketTypeOK, Full
<1> QED BY <1>1, BucketTypeStep, PTL DEF BucketSpec

LEMMA Slack ==
    ASSUME NEW c \in Nat, NEW f \in Nat, NEW a \in Nat, NEW o \in Nat, c <= f + a
    PROVE  c <= f + a + o
OBVIOUS

\* Headroom is inductive relative to the types.
LEMMA HeadroomStep ==
    ASSUME BucketTypeOK, BucketTypeOK', Headroom, [BucketNext]_bucketVars
    PROVE  Headroom'
<1> USE DEF BucketTypeOK
<1> Full \in Nat
  BY DEF Full
<1> Available \in 0 .. Full
  BY DEF Available, Least
<1>1. ASSUME NEW n \in 1 .. MaxPermits, Acquire(n) PROVE Headroom'
  <2> DEFINE c == n * Cost
  <2> c \in 1 .. Full
    BY DEF Full
  <2>1. charged + Available <= Full + accrued
    BY <1>1 DEF Acquire, Headroom
  <2> HIDE DEF c, Full
  <2>2. CASE Available >= c
    <3>1. /\ gate' = "run" /\ tokens' = Available - c /\ pending' = 0
          /\ charged' = charged + c /\ accrued' = accrued
      BY <1>1, <2>2 DEF Acquire, c
    <3>2. Available' = Available - c
      BY <3>1, Full' = Full DEF Available, Least, Full
    <3> QED BY <2>1, <3>1, <3>2, Full' = Full DEF Headroom, Full
  <2>3. CASE ~(Available >= c)
    <3>1. /\ gate' = "sleep" /\ want' = c /\ owed' = c - Available
          /\ charged' = charged /\ accrued' = accrued
      BY <1>1, <2>3 DEF Acquire, c
    <3> QED BY <2>1, <2>3, <3>1, Full' = Full DEF Headroom, Full
  <2> QED BY <2>2, <2>3
<1>2. ASSUME NEW wait \in 0 .. MaxPenalty + 1, Penalise(wait) PROVE Headroom'
  <2> DEFINE f == Full
  <2> f \in Nat
    OBVIOUS
  <2>1. f' = f
    BY DEF Full
  <2>2. owed' \in Nat /\ charged \in Nat /\ accrued \in Nat
    OBVIOUS
  <2>3. /\ gate' = "sleep" /\ want' = 0
        /\ charged' = charged /\ accrued' = accrued
    BY <1>2 DEF Penalise
  <2>4. charged <= f + accrued
    BY DEF Headroom
  <2> HIDE DEF f, BucketTypeOK
  <2>5. charged' <= f' + accrued'
    BY ONLY f \in Nat, <2>1, <2>2, <2>3, <2>4
  <2>6. charged' + want' <= f' + accrued' + owed'
    <3>1. charged' + want' = charged
      BY ONLY <2>2, <2>3
    <3>2. charged <= (f + accrued) + owed'
      BY ONLY f \in Nat, <2>2, <2>4, Slack
    <3> QED BY ONLY f \in Nat, <3>1, <3>2, <2>1, <2>3
  <2> QED BY <2>3, <2>5, <2>6 DEF Headroom, f
<1>3. CASE Wake
  BY <1>3 DEF Wake, Headroom, Available, Least
<1>4. CASE Tick
  BY <1>4 DEF Tick, Headroom, Available, Least
<1>5. CASE OpenWindow
  BY <1>5 DEF OpenWindow, Headroom, Available, Least
<1>6. CASE UNCHANGED bucketVars
  BY <1>6 DEF bucketVars, Headroom, Available
<1> QED BY <1>1, <1>2, <1>3, <1>4, <1>5, <1>6 DEF BucketNext

\* In every window the limiter stays within a full bucket plus the rate.
THEOREM WindowCorrect == BucketSpec => []WindowBounded
<1>1. BucketInit => Headroom
  BY DEF BucketInit, Headroom, Available, Least, Full
<1>2. BucketTypeOK /\ BucketTypeOK' /\ Headroom /\ [BucketNext]_bucketVars => Headroom'
  BY HeadroomStep
<1>3. BucketTypeOK /\ Headroom => WindowBounded
  BY DEF Headroom, WindowBounded
<1> QED BY <1>1, <1>2, <1>3, TypeCorrect, PTL DEF BucketSpec

-----------------------------------------------------------------------------
(* Sessions that each have a bucket *)

\* k, and what the rate has added since the window opened, covers what is
\* charged and what may be charged without waiting.
Within(k) ==
    /\ charged <= k + accrued
    /\ IF gate = "run" THEN charged + Available <= k + accrued
                       ELSE charged + want <= k + accrued + owed

\* A refill adds no more than the rate to what is there to be taken.
LEMMA RefillBound ==
    ASSUME NEW f \in Nat, NEW t \in Nat, NEW p \in Nat, NEW q \in Nat,
           NEW r \in Nat, q <= p + r
    PROVE  /\ Least(f, t + q) <= Least(f, t + p) + r
           /\ Least(f, t + q) \in Nat
BY DEF Least

\* What is added to what may be taken is covered by what accrued.
LEMMA RefillCovered ==
    ASSUME NEW c \in Nat, NEW a \in Nat, NEW b \in Nat, NEW k \in Nat,
           NEW x \in Nat, NEW r \in Nat, c + a <= k + x, b <= a + r
    PROVE  c + b <= k + (x + r)
OBVIOUS

\* A session's bucket only lets through what its tokens cover; k does not
\* change with it.
LEMMA WithinStep ==
    ASSUME NEW CONSTANT k \in Nat, BucketTypeOK, BucketTypeOK', Within(k),
           \/ \E n \in 1 .. MaxPermits : Acquire(n)
           \/ Wake \/ Tick
           \/ \E wait \in 0 .. MaxPenalty + 1 : Penalise(wait)
           \/ UNCHANGED bucketVars
    PROVE  Within(k)'
<1> USE DEF BucketTypeOK
<1> Full \in Nat
  BY DEF Full
<1> Available \in 0 .. Full
  BY DEF Available, Least
<1>1. ASSUME NEW n \in 1 .. MaxPermits, Acquire(n) PROVE Within(k)'
  <2> DEFINE c == n * Cost
  <2> c \in 1 .. Full
    BY DEF Full
  <2>1. charged + Available <= k + accrued
    BY <1>1 DEF Acquire, Within
  <2> HIDE DEF c, Full
  <2>2. CASE Available >= c
    <3>1. /\ gate' = "run" /\ tokens' = Available - c /\ pending' = 0
          /\ charged' = charged + c /\ accrued' = accrued
      BY <1>1, <2>2 DEF Acquire, c
    <3>2. Available' = Available - c
      BY <3>1, Full' = Full DEF Available, Least, Full
    <3> QED BY <2>1, <3>1, <3>2 DEF Within
  <2>3. CASE ~(Available >= c)
    <3>1. /\ gate' = "sleep" /\ want' = c /\ owed' = c - Available
          /\ charged' = charged /\ accrued' = accrued
      BY <1>1, <2>3 DEF Acquire, c
    <3> QED BY <2>1, <2>3, <3>1 DEF Within
  <2> QED BY <2>2, <2>3
<1>2. ASSUME NEW wait \in 0 .. MaxPenalty + 1, Penalise(wait) PROVE Within(k)'
  <2>1. owed' \in Nat /\ charged \in Nat /\ accrued \in Nat
    OBVIOUS
  <2>2. /\ gate' = "sleep" /\ want' = 0
        /\ charged' = charged /\ accrued' = accrued
    BY <1>2 DEF Penalise
  <2>3. charged <= k + accrued
    BY DEF Within
  <2> HIDE DEF BucketTypeOK
  <2>4. charged <= (k + accrued) + owed'
    BY ONLY k \in Nat, <2>1, <2>3, Slack
  <2>5. charged' <= k + accrued'
    BY ONLY <2>2, <2>3
  <2>6. charged' + want' <= k + accrued' + owed'
    <3>1. charged' + want' = charged
      BY ONLY <2>1, <2>2
    <3> QED BY ONLY k \in Nat, <3>1, <2>1, <2>2, <2>4
  <2> QED BY <2>2, <2>5, <2>6 DEF Within
<1>3. CASE Wake
  BY <1>3 DEF Wake, Within, Available, Least
<1>4. CASE Tick
  <2>1. accrued' = accrued + Rate /\ charged' = charged /\ Rate \in Nat
    BY <1>4 DEF Tick
  <2>2. CASE gate = "run"
    <3>1. tokens' = tokens /\ pending' <= pending + Rate
      BY <1>4, Full' = Full DEF Tick, Least
    <3>2. Available' = Least(Full, tokens + pending')
      BY <3>1, Full' = Full DEF Available
    <3>3. Available' <= Available + Rate /\ Available' \in Nat
      <4>1. tokens \in Nat /\ pending \in Nat /\ pending' \in Nat /\ Full \in Nat
        OBVIOUS
      <4>2. /\ Least(Full, tokens + pending') <= Least(Full, tokens + pending) + Rate
            /\ Least(Full, tokens + pending') \in Nat
        BY ONLY <2>1, <3>1, <4>1, RefillBound
      <4>. QED
        BY ONLY <3>2, <4>2 DEF Available
    <3>4. gate' = "run" /\ charged + Available <= k + accrued
      BY <1>4, <2>2 DEF Tick, Within
    <3>5. charged' + Available' <= k + accrued'
      <4>1. charged \in Nat /\ accrued \in Nat /\ Available \in Nat
        OBVIOUS
      <4>. QED
        BY ONLY k \in Nat, <2>1, <3>3, <3>4, <4>1, RefillCovered
    <3>6. charged' <= k + accrued'
      BY <2>1 DEF Within
    <3> QED BY <3>4, <3>5, <3>6 DEF Within
  <2>3. CASE gate # "run"
    BY <1>4, <2>1, <2>3 DEF Tick, Within, Least
  <2> QED BY <2>2, <2>3
<1>5. CASE UNCHANGED bucketVars
  BY <1>5 DEF bucketVars, Within, Available, Full
<1> QED BY <1>1, <1>2, <1>3, <1>4, <1>5

\* A full bucket for every session at work in the window, and one for the one
\* that was at work when it opened.
Allowance == (1 + begun) * Full

PacedInv == BucketTypeOK /\ begun \in Nat /\ Within(Allowance)

\* The allowance is at least one bucket.
LEMMA AllowanceNat ==
    ASSUME begun \in Nat
    PROVE  Allowance \in Nat /\ Allowance >= Full
<1> Full \in Nat
  BY DEF Full
<1>1. (1 + begun) * Full = Full + begun * Full /\ begun * Full \in Nat
  BY DEF Allowance
<1> HIDE DEF Full
<1>. QED
  BY <1>1 DEF Allowance

\* The limiter of a new session is full, and so is the allowance that comes
\* with it.
LEMMA StartPays ==
    ASSUME PacedInv, begun' = begun + 1,
           tokens' = Full, pending' = 0, gate' = "run",
           UNCHANGED <<charged, accrued>>
    PROVE  Within(Allowance)'
<1>1. Full \in Nat /\ Full' = Full
  BY DEF Full
<1>2. Allowance' = Allowance + Full
  <2>1. (1 + begun + 1) * Full = (1 + begun) * Full + Full
    BY <1>1 DEF PacedInv
  <2>. QED
    BY <1>1, <2>1 DEF PacedInv, Allowance
<1>3. Allowance \in Nat
  BY AllowanceNat DEF PacedInv
<1>4. Available' = Full
  BY <1>1 DEF Available, Least
<1>5. charged \in Nat /\ accrued \in Nat /\ charged <= Allowance + accrued
  BY DEF PacedInv, BucketTypeOK, Within
<1> HIDE DEF Full
<1>6. charged' <= Allowance' + accrued' /\ charged' + Available' <= Allowance' + accrued'
  BY <1>1, <1>2, <1>3, <1>4, <1>5
<1>. QED
  BY <1>6 DEF Within

\* A step of the limiter or of nothing, within a session.
LEMMA SameSession ==
    ASSUME PacedInv, UNCHANGED begun, BucketTypeOK',
           \/ \E n \in 1 .. MaxPermits : Acquire(n)
           \/ Wake \/ Tick
           \/ \E wait \in 0 .. MaxPenalty + 1 : Penalise(wait)
           \/ UNCHANGED bucketVars
    PROVE  Within(Allowance)'
<1>1. PICK k \in Nat : k = Allowance
  BY AllowanceNat DEF PacedInv
<1>2. Allowance' = k
  BY <1>1 DEF Allowance, Full
<1>3. Within(k)
  BY <1>1 DEF PacedInv, Within
<1>4. Within(k)'
  BY <1>3, WithinStep DEF PacedInv
<1>. QED
  BY <1>2, <1>4 DEF Within

\* Every step of the composition keeps the allowance.
LEMMA PacedStep == PacedInv /\ [PacedNext]_pacedVars => PacedInv'
<1> SUFFICES ASSUME PacedInv, [PacedNext]_pacedVars PROVE PacedInv'
  OBVIOUS
<1>0. /\ BucketTypeOK /\ begun \in Nat
      /\ 1 \in 1 .. MaxPermits
  BY DEF PacedInv
<1>1. ASSUME UNCHANGED begun,
             \/ \E n \in 1 .. MaxPermits : Acquire(n)
             \/ Wake \/ Tick
             \/ \E wait \in 0 .. MaxPenalty + 1 : Penalise(wait)
             \/ UNCHANGED bucketVars
      PROVE  PacedInv'
  <2>1. BucketTypeOK'
    BY <1>0, <1>1, BucketTypeStep DEF BucketNext
  <2>. QED
    BY <1>0, <1>1, <2>1, SameSession DEF PacedInv
<1>2. CASE StartPaced
  <2>1. /\ begun' = begun + 1 /\ tokens' = Full /\ pending' = 0
        /\ gate' = "run" /\ owed' = 0 /\ want' = 0
        /\ UNCHANGED <<charged, accrued>>
    BY <1>2 DEF StartPaced
  <2>2. BucketTypeOK'
    BY <1>0, <2>1 DEF BucketTypeOK, Full
  <2>. QED
    BY <1>0, <2>1, <2>2, StartPays DEF PacedInv
<1>3. CASE OpenPaced
  <2>1. OpenWindow /\ begun' = 0
    BY <1>3 DEF OpenPaced
  <2>2. BucketTypeOK'
    BY <1>0, <2>1, BucketTypeStep DEF BucketNext
  <2>3. Full \in Nat /\ Full' = Full /\ Available' = Available
    BY <2>1 DEF Full, OpenWindow, Available
  <2>4. Available <= Full /\ Available \in Nat /\ want <= Full
    BY <1>0, <2>3 DEF BucketTypeOK, Available, Least
  <2>5. Allowance' = Full
    BY <2>1, <2>3 DEF Allowance
  <2>6. Within(Allowance)'
    BY <1>0, <2>1, <2>3, <2>4, <2>5 DEF Within, OpenWindow, BucketTypeOK
  <2>. QED
    BY <2>1, <2>2, <2>6 DEF PacedInv
<1>4. CASE Pace
  BY <1>0, <1>1, <1>4 DEF Pace
<1>5. CASE WakeUp
  BY <1>1, <1>5 DEF WakeUp
<1>6. CASE TickPaced
  BY <1>1, <1>6 DEF TickPaced
<1>7. CASE LimitedPaced
  <2>1. \/ \E wait \in 0 .. MaxPenalty + 1 : Penalise(wait)
        \/ UNCHANGED <<bucket, charged, accrued>>
    BY <1>7 DEF LimitedPaced
  <2>. QED
    BY <1>1, <1>7, <2>1 DEF LimitedPaced, bucket, bucketVars
<1>8. CASE FetchPaced \/ StopPaced \/ Store \/ FlushPaced \/ KillPaced
  BY <1>1, <1>8 DEF FetchPaced, StopPaced, Store, FlushPaced, KillPaced,
                    bucket, window, bucketVars
<1>9. CASE UNCHANGED pacedVars
  BY <1>1, <1>9 DEF pacedVars, bucket, window, bucketVars
<1>. QED
  BY <1>2, <1>3, <1>4, <1>5, <1>6, <1>7, <1>8, <1>9 DEF PacedNext

\* The first window opens on a full bucket.
LEMMA PacedInitInv == PacedInit => PacedInv
<1> SUFFICES ASSUME PacedInit PROVE PacedInv
  OBVIOUS
<1>1. Full \in Nat
  BY DEF Full
<1>2. Allowance = Full
  BY <1>1 DEF PacedInit, Allowance
<1>3. Available = Full
  BY <1>1 DEF PacedInit, BucketInit, Available, Least
<1>. QED
  BY <1>1, <1>2, <1>3 DEF PacedInit, BucketInit, PacedInv, BucketTypeOK, Within

\* pump.py's limiter, made anew by every session: in any window the source
\* sees no more than what the rate adds and one full bucket for each session
\* at work in it.
THEOREM SessionsAddUp == PacedSpec => []SessionsPaced
<1>1. PacedInv => SessionsPaced
  BY DEF PacedInv, Within, Allowance, SessionsPaced
<1>. QED
  BY <1>1, PacedInitInv, PacedStep, PTL DEF PacedSpec

-----------------------------------------------------------------------------
(* The session, under its limiter *)

\* pump with its limiter takes only steps of the session of PumpDrain: what is
\* proved of the cursor and the sink holds of it.
THEOREM PacedIsPump == PacedSpec => Spec
<1>1. PacedInit => Init
  BY DEF PacedInit
<1>2. [PacedNext]_pacedVars => [Next]_vars
  <2> SUFFICES ASSUME PacedNext \/ UNCHANGED pacedVars
               PROVE  Next \/ UNCHANGED vars
    OBVIOUS
  <2>1. CASE StartPaced \/ FetchPaced \/ LimitedPaced \/ StopPaced
    BY <2>1 DEF StartPaced, FetchPaced, LimitedPaced, StopPaced, Next
  <2>2. CASE Store \/ FlushPaced \/ KillPaced
    BY <2>2 DEF Store, FlushPaced, KillPaced, Next
  <2>3. CASE Pace \/ WakeUp \/ TickPaced \/ OpenPaced
    BY <2>3 DEF Pace, WakeUp, TickPaced, OpenPaced
  <2>4. CASE UNCHANGED pacedVars
    BY <2>4 DEF pacedVars
  <2> QED
    BY <2>1, <2>2, <2>3, <2>4 DEF PacedNext
<1> QED
  BY <1>1, <1>2, PTL DEF PacedSpec, Spec

\* No page is missing behind the cursor of a paced pump that nobody knows of.
THEOREM PacedHoles == PacedSpec => []HolesBuffered
BY PacedIsPump, NoHiddenHole, PTL

\* A restarted paced pump repeats one page per kill at most.
THEOREM PacedRereads == PacedSpec => []RereadsBounded
BY PacedIsPump, OnePagePerKill, PTL
=============================================================================
