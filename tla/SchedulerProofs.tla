---------------------------- MODULE SchedulerProofs ----------------------------
(***************************************************************************)
(* What plan_job answers, for any number of platforms and accounts, any    *)
(* allowances and limits; and that split_ranges tiles any file.            *)
(***************************************************************************)
EXTENDS Scheduler, FiniteSetTheorems, WellFoundedInduction, TLAPS

-----------------------------------------------------------------------------
(* Numbers and folds *)

LEMMA ByteSizes == DailyUpload \in Nat /\ MinShard \in Nat \ {0}
  BY SchedulerAssumption

\* A set of natural numbers has a least element.
LEMMA Least ==
    ASSUME NEW S, S \subseteq Nat, S # {}
    PROVE  \E i \in S : \A k \in S : i <= k
<1> DEFINE less == {ss \in Nat \X Nat : ss[1] < ss[2]}
<1>1. IsWellFoundedOn(less, Nat)
  BY NatLessThanWellFounded DEF OpToRel
<1>2. PICK i \in S : \A k \in S : ~ (<<k, i>> \in less)
  BY <1>1, WFMin
<1>3. ASSUME NEW k \in S PROVE i <= k
  <2>1. i \in Nat /\ k \in Nat
    OBVIOUS
  <2>2. k < i => <<k, i>> \in less
    BY <2>1
  <2> QED
    BY <1>2, <2>1, <2>2
<1> QED
  BY <1>3

\* So a set that holds 0, and what follows each of its members up to N, holds
\* all numbers up to N.
LEMMA UpFromZero ==
    ASSUME NEW N \in Nat, NEW S, 0 \in S, \A n \in 1 .. N : n - 1 \in S => n \in S
    PROVE  \A n \in 0 .. N : n \in S
<1> DEFINE Bad == {n \in 0 .. N : n \notin S}
<1> SUFFICES ASSUME Bad # {} PROVE FALSE
  OBVIOUS
<1>1. PICK n \in Bad : \A k \in Bad : n <= k
  <2>1. Bad \subseteq Nat
    OBVIOUS
  <2> HIDE DEF Bad
  <2> QED
    BY <2>1, Least
<1>2. n \in 1 .. N /\ n - 1 \in 0 .. N /\ ~ (n <= n - 1)
  OBVIOUS
<1> QED
  BY <1>1, <1>2

\* g holds what the steps up to each one of 1 .. N make of base.
IsFold(g, N, base, step) == g[0] = base /\ \A n \in 1 .. N : g[n] = step[n][g[n - 1]]

\* There is one, for any step.
LEMMA FoldExists ==
    ASSUME NEW N \in Nat, NEW S, NEW base \in S, NEW step \in [1 .. N -> [S -> S]]
    PROVE  \E g \in [0 .. N -> S] : IsFold(g, N, base, step)
<1> DEFINE P(n) == \E g \in [0 .. n -> S] :
                      g[0] = base /\ \A i \in 1 .. n : g[i] = step[i][g[i - 1]]
           Good == {n \in 0 .. N : P(n)}
<1>1. P(0)
  <2> DEFINE g == [i \in 0 .. 0 |-> base]
  <2>1. g \in [0 .. 0 -> S] /\ g[0] = base /\ 1 .. 0 = {}
    OBVIOUS
  <2> QED
    BY <2>1
<1>2. ASSUME NEW n \in 1 .. N, P(n - 1) PROVE P(n)
  <2>1. PICK g \in [0 .. (n - 1) -> S] :
           g[0] = base /\ \A i \in 1 .. (n - 1) : g[i] = step[i][g[i - 1]]
    BY <1>2
  <2> DEFINE h == [i \in 0 .. n |-> IF i = n THEN step[n][g[n - 1]] ELSE g[i]]
  <2>2. g[n - 1] \in S /\ step[n][g[n - 1]] \in S
    BY <2>1
  <2>3. h \in [0 .. n -> S] /\ h[0] = base
    BY <2>1, <2>2
  <2>4. ASSUME NEW i \in 1 .. n PROVE h[i] = step[i][h[i - 1]]
    BY <2>1, <2>4
  <2> QED
    BY <2>3, <2>4
<1>3. \A n \in 0 .. N : n \in Good
  <2>1. 0 \in Good /\ \A n \in 1 .. N : n - 1 \in Good => n \in Good
    <3> HIDE DEF P
    <3> QED
      BY <1>1, <1>2
  <2> HIDE DEF Good
  <2> QED
    BY <2>1, UpFromZero
<1>4. N \in 0 .. N
  OBVIOUS
<1> QED
  BY <1>3, <1>4 DEF IsFold

-----------------------------------------------------------------------------
(* Accounts: those with budget, and their order *)

\* A list comprehension, element by element.
Selects(g, s, S) ==
    /\ g[0] = << >>
    /\ \A n \in 1 .. Len(s) :
          g[n] = IF s[n] \in S THEN Append(g[n - 1], s[n]) ELSE g[n - 1]

LEMMA SelectUnfolds ==
    ASSUME NEW A, NEW s \in Seq(A), NEW S
    PROVE  \E g \in [0 .. Len(s) -> Seq(A)] : Select(s, S) = g[Len(s)] /\ Selects(g, s, S)
<1> DEFINE N == Len(s)
           Longer(t, n) == IF s[n] \in S THEN Append(t, s[n]) ELSE t
           step == [n \in 1 .. N |-> [t \in Seq(A) |-> Longer(t, n)]]
           F(h) == [n \in 0 .. N |-> IF n = 0 THEN << >> ELSE Longer(h[n - 1], n)]
           upTo == CHOOSE h : h = F(h)
<1>1. /\ N \in Nat /\ << >> \in Seq(A)
      /\ \A n \in 1 .. N, t \in Seq(A) : Longer(t, n) \in Seq(A)
  OBVIOUS
<1>2. Select(s, S) = upTo[N]
  BY DEF Select
<1> HIDE DEF N, Longer
<1>3. step \in [1 .. N -> [Seq(A) -> Seq(A)]]
  BY <1>1
<1>4. PICK g \in [0 .. N -> Seq(A)] : IsFold(g, N, << >>, step)
  <2> HIDE DEF step
  <2> QED
    BY ONLY <1>1, <1>3, FoldExists
<1>5. ASSUME NEW n \in 1 .. N PROVE g[n] = Longer(g[n - 1], n)
  <2>1. g[n - 1] \in Seq(A)
    BY <1>1
  <2>2. step[n] = [t \in Seq(A) |-> Longer(t, n)]
    OBVIOUS
  <2>3. step[n][g[n - 1]] = Longer(g[n - 1], n)
    BY <2>1, <2>2
  <2> HIDE DEF step
  <2> QED
    BY <1>4, <2>1, <2>3 DEF IsFold
<1>6. g = F(g)
  BY <1>4, <1>5 DEF IsFold
<1>7. upTo = F(upTo)
  <2> HIDE DEF F
  <2> QED
    BY <1>6
<1> HIDE DEF upTo
<1>8. upTo[0] = << >> /\ \A n \in 1 .. N : upTo[n] = Longer(upTo[n - 1], n)
  BY <1>1, <1>7
<1> DEFINE Good == {n \in 0 .. N : upTo[n] \in Seq(A)}
<1>9. \A n \in 0 .. N : n \in Good
  <2>1. 0 \in Good
    <3>1. 0 \in 0 .. N /\ upTo[0] \in Seq(A)
      BY <1>1, <1>8
    <3> QED
      BY <3>1
  <2>2. ASSUME NEW n \in 1 .. N, n - 1 \in Good PROVE n \in Good
    <3>1. upTo[n - 1] \in Seq(A) /\ n \in 0 .. N
      BY <1>1, <2>2
    <3>2. Longer(upTo[n - 1], n) \in Seq(A)
      BY <1>1, <3>1
    <3> QED
      BY <1>8, <3>1, <3>2
  <2> HIDE DEF Good
  <2> QED
    BY <1>1, <2>1, <2>2, UpFromZero
<1>10. upTo \in [0 .. N -> Seq(A)]
  BY <1>7, <1>9
<1> QED
  BY <1>2, <1>8, <1>10 DEF N, Longer, Selects

\* It has the elements of s that are in S, and none twice that s has once.
LEMMA Selected ==
    ASSUME NEW A, NEW s \in Seq(A), NEW S
    PROVE  /\ Select(s, S) \in Seq(A)
           /\ ToSet(Select(s, S)) = ToSet(s) \cap S
           /\ IsInjective(s) => IsInjective(Select(s, S))
<1>0. PICK g \in [0 .. Len(s) -> Seq(A)] : Select(s, S) = g[Len(s)] /\ Selects(g, s, S)
  BY SelectUnfolds
<1>1. /\ g[0] = << >>
      /\ \A n \in 1 .. Len(s) :
            g[n] = IF s[n] \in S THEN Append(g[n - 1], s[n]) ELSE g[n - 1]
  BY <1>0 DEF Selects
<1>2. Len(s) \in Nat /\ Len(s) \in 0 .. Len(s) /\ DOMAIN s = 1 .. Len(s)
  OBVIOUS
<1> DEFINE In(t) == {t[k] : k \in 1 .. Len(t)}
           Upto(n) == {s[i] : i \in 1 .. n} \cap S
           Good == {n \in 0 .. Len(s) : In(g[n]) = Upto(n)
                                         /\ (IsInjective(s) => IsInjective(g[n]))}
<1>3. 0 \in Good
  BY <1>1 DEF IsInjective
<1>4. ASSUME NEW n \in 1 .. Len(s), n - 1 \in Good PROVE n \in Good
  <2>1. g[n - 1] \in Seq(A) /\ s[n] \in A /\ n - 1 \in 0 .. Len(s)
    BY <1>2
  <2>2. {s[i] : i \in 1 .. n} = {s[i] : i \in 1 .. (n - 1)} \union {s[n]}
    OBVIOUS
  <2>3. CASE s[n] \notin S
    <3>1. g[n] = g[n - 1]
      BY <1>1, <2>3
    <3>2. Upto(n) = Upto(n - 1)
      BY <2>2, <2>3
    <3>3. In(g[n - 1]) = Upto(n - 1) /\ (IsInjective(s) => IsInjective(g[n - 1]))
      BY <1>4
    <3> HIDE DEF In, Upto
    <3> QED
      BY <1>2, <3>1, <3>2, <3>3
  <2>4. CASE s[n] \in S
    <3> DEFINE t == g[n - 1]
               u == Append(t, s[n])
    <3>1. g[n] = u
      BY <1>1, <2>4
    <3>2. /\ Len(u) = Len(t) + 1 /\ u[Len(u)] = s[n] /\ Len(t) \in Nat
          /\ \A k \in 1 .. Len(t) : u[k] = t[k]
          /\ DOMAIN u = 1 .. Len(u) /\ DOMAIN t = 1 .. Len(t)
      BY <2>1
    <3> HIDE DEF u
    <3>3. In(u) = In(t) \union {s[n]}
      <4>1. \A k \in 1 .. Len(u) : k \in 1 .. Len(t) \/ k = Len(u)
        BY ONLY <3>2
      <4>2. 1 .. Len(t) \subseteq 1 .. Len(u) /\ Len(u) \in 1 .. Len(u)
        BY ONLY <3>2
      <4> HIDE DEF t
      <4>3. \A k \in 1 .. Len(u) : u[k] \in In(t) \union {s[n]}
        BY ONLY <3>2, <4>1
      <4>4. \A k \in 1 .. Len(t) : t[k] \in In(u)
        BY ONLY <3>2, <4>2
      <4>5. s[n] \in In(u)
        BY ONLY <3>2, <4>2
      <4> QED
        BY ONLY <4>3, <4>4, <4>5
    <3>4. ASSUME IsInjective(s) PROVE IsInjective(u)
      <4>1. s[n] \notin In(t)
        <5>1. In(t) \subseteq {s[i] : i \in 1 .. (n - 1)}
          BY <1>4
        <5>2. \A i \in 1 .. (n - 1) : i \in DOMAIN s /\ n \in DOMAIN s /\ i # n
          BY <1>2
        <5>3. s[n] \notin {s[i] : i \in 1 .. (n - 1)}
          BY ONLY <3>4, <5>2 DEF IsInjective
        <5> HIDE DEF In, t
        <5> QED
          BY ONLY <5>1, <5>3
      <4>2. IsInjective(t)
        BY <1>4, <3>4
      <4>3. ASSUME NEW k \in 1 .. Len(t), NEW l \in 1 .. Len(t), u[k] = u[l] PROVE k = l
        <5>1. t[k] = t[l]
          BY <3>2, <4>3
        <5> QED
          BY <3>2, <4>2, <5>1 DEF IsInjective
      <4>4. \A k \in 1 .. Len(t) : u[k] # u[Len(u)]
        BY <3>2, <4>1
      <4>5. \A k \in 1 .. Len(u) : k \in 1 .. Len(t) \/ k = Len(u)
        BY ONLY <3>2
      <4> HIDE DEF t
      <4>6. \A k, l \in 1 .. Len(u) : u[k] = u[l] => k = l
        BY ONLY <4>3, <4>4, <4>5
      <4> QED
        BY ONLY <3>2, <4>6 DEF IsInjective
    <3>5. Upto(n) = Upto(n - 1) \union {s[n]} /\ In(t) = Upto(n - 1)
      BY <1>4, <2>2, <2>4
    <3>6. In(g[n]) = Upto(n)
      <4> HIDE DEF In, Upto, t
      <4> QED
        BY ONLY <3>1, <3>3, <3>5
    <3>7. IsInjective(s) => IsInjective(g[n])
      BY <3>1, <3>4
    <3>8. n \in 0 .. Len(s)
      BY <1>2
    <3> HIDE DEF In, Upto
    <3> QED
      BY ONLY <3>6, <3>7, <3>8
  <2> QED
    BY <2>3, <2>4
<1>5. \A n \in 0 .. Len(s) : n \in Good
  <2> HIDE DEF Good
  <2> QED
    BY <1>2, <1>3, <1>4, UpFromZero
<1>6. Len(s) \in Good
  BY <1>2, <1>5
<1>7. g[Len(s)] \in Seq(A) /\ DOMAIN g[Len(s)] = 1 .. Len(g[Len(s)])
  BY <1>2
<1> QED
  BY <1>0, <1>2, <1>6, <1>7 DEF ToSet

\* The account in each place exists, so that ranking loses none and repeats
\* none; and the more is left, the earlier the place.
LEMMA RankedRanks ==
    ASSUME NEW A, NEW accounts \in Seq(A), IsInjective(accounts), NEW used \in [A -> Nat]
    PROVE  /\ Ranked(accounts, used) \in [1 .. Len(accounts) -> A]
           /\ IsInjective(Ranked(accounts, used))
           /\ {Ranked(accounts, used)[k] : k \in 1 .. Len(accounts)} = ToSet(accounts)
           /\ \A k, m \in 1 .. Len(accounts) : k < m =>
                 Budget(Ranked(accounts, used)[k], used)
                    >= Budget(Ranked(accounts, used)[m], used)
<1> DEFINE n == Len(accounts)
           D == 1 .. n
           left(i) == Budget(accounts[i], used)
           Ahead(j, i) == Before(accounts, used, j, i)
           Those(i) == {j \in D : Ahead(j, i)}
           place == [i \in D |-> Place(accounts, used, i)]
           Who(k) == CHOOSE i \in D : Place(accounts, used, i) = k
<1>1. n \in Nat /\ DOMAIN accounts = D /\ \A i \in D : accounts[i] \in A /\ left(i) \in Int
  BY ByteSizes DEF Budget
<1>2. IsFiniteSet(D) /\ Cardinality(D) = n
  <2>1. 1 \in Int /\ n \in Int /\ (n = 0 => 1 > n) /\ (n # 0 => ~ (1 > n)) /\ n - 1 + 1 = n
    BY <1>1
  <2> HIDE DEF n
  <2> QED
    BY <2>1, FS_Interval
<1>3. \A i, j \in D : Ahead(j, i) <=> left(j) > left(i) \/ (left(j) = left(i) /\ j < i)
  BY DEF Before
<1>4. \A i \in D : Place(accounts, used, i) = Cardinality(Those(i)) + 1
  BY <1>1 DEF Place
<1> HIDE DEF left, Ahead
<1>5. \A i, j, k \in D : /\ ~ Ahead(i, i)
                         /\ Ahead(i, j) /\ Ahead(j, k) => Ahead(i, k)
                         /\ i # j => Ahead(i, j) \/ Ahead(j, i)
  BY <1>1, <1>3
<1>6. \A i \in D : Cardinality(Those(i)) \in 0 .. n - 1
  <2> TAKE i \in D
  <2>1. Those(i) \subseteq D \ {i}
    BY <1>5
  <2>2. IsFiniteSet(D \ {i}) /\ Cardinality(D \ {i}) = n - 1
    BY <1>2, FS_RemoveElement
  <2>3. IsFiniteSet(Those(i)) /\ Cardinality(Those(i)) <= n - 1
    BY <2>1, <2>2, FS_Subset
  <2> QED
    BY <1>1, <2>3, FS_CardinalityType
<1>7. \A i, j \in D : Ahead(i, j) => Cardinality(Those(i)) < Cardinality(Those(j))
  <2> SUFFICES ASSUME NEW i \in D, NEW j \in D, Ahead(i, j)
               PROVE  Cardinality(Those(i)) < Cardinality(Those(j))
    OBVIOUS
  <2>1. Those(i) \subseteq Those(j) /\ i \in Those(j) /\ i \notin Those(i)
    BY <1>5
  <2>2. IsFiniteSet(Those(j))
    BY <1>2, FS_Subset
  <2>3. Cardinality(Those(i)) <= Cardinality(Those(j)) /\ Cardinality(Those(i)) # Cardinality(Those(j))
    BY <2>1, <2>2, FS_Subset
  <2> QED
    BY <1>6, <2>3
<1>8. place \in [D -> D] /\ \A i, j \in D : Ahead(i, j) => place[i] < place[j]
  <2>1. \A i \in D : place[i] = Cardinality(Those(i)) + 1
    BY <1>4
  <2>2. DOMAIN place = D /\ place = [i \in D |-> place[i]]
    OBVIOUS
  <2>3. \A c \in 0 .. n - 1 : c + 1 \in D
    BY <1>1
  <2>4. \A i, j \in D : Ahead(i, j) => Cardinality(Those(i)) + 1 < Cardinality(Those(j)) + 1
    <3> SUFFICES ASSUME NEW i \in D, NEW j \in D, Ahead(i, j)
                 PROVE  Cardinality(Those(i)) + 1 < Cardinality(Those(j)) + 1
      OBVIOUS
    <3>1. /\ Cardinality(Those(i)) \in Int /\ Cardinality(Those(j)) \in Int
          /\ Cardinality(Those(i)) < Cardinality(Those(j))
      BY <1>6, <1>7, SMTT(30)
    <3> QED
      BY ONLY <3>1
  <2> HIDE DEF D, Those, place
  <2>5. \A i \in D : place[i] \in D
    BY <1>6, <2>1, <2>3
  <2> QED
    BY <2>1, <2>2, <2>4, <2>5
<1>9. \A i, j \in D : place[i] = place[j] => i = j
  BY <1>5, <1>8
<1>10. \A k \in D : \E i \in D : place[i] = k
  <2>1. place \in Injection(D, D)
    BY <1>8, <1>9 DEF Injection, IsInjective
  <2>2. place \in Surjection(D, D)
    BY <1>2, <2>1, FS_Injection
  <2> QED
    BY <2>2 DEF Surjection
<1>11. \A k \in D : Who(k) \in D /\ place[Who(k)] = k
  BY <1>10
<1>12. \A k \in D : Ranked(accounts, used)[k] = accounts[Who(k)]
  BY <1>1 DEF Ranked
<1>13. DOMAIN Ranked(accounts, used) = D /\ Ranked(accounts, used) \in [D -> A]
  BY <1>1, <1>11 DEF Ranked
<1> HIDE DEF Who, place
<1>14. \A k, m \in D : Who(k) = Who(m) => k = m
  BY <1>11
<1>15. IsInjective(Ranked(accounts, used))
  BY <1>1, <1>11, <1>12, <1>13, <1>14 DEF IsInjective
<1>16. \A i \in D : Who(place[i]) = i
  BY <1>8, <1>9, <1>11
<1>17. {Ranked(accounts, used)[k] : k \in D} = ToSet(accounts)
  <2>1. ToSet(accounts) = {accounts[i] : i \in D}
    BY <1>1 DEF ToSet
  <2>2. ASSUME NEW k \in D PROVE \E i \in D : Ranked(accounts, used)[k] = accounts[i]
    BY <1>11, <1>12
  <2>3. ASSUME NEW i \in D PROVE \E k \in D : Ranked(accounts, used)[k] = accounts[i]
    <3>1. place[i] \in D /\ Who(place[i]) = i
      BY <1>8, <1>16
    <3> QED
      BY <1>12, <3>1
  <2> DEFINE L == {Ranked(accounts, used)[k] : k \in D}
             R == {accounts[i] : i \in D}
  <2>4. L \subseteq R
    <3> HIDE DEF D
    <3> QED
      BY <2>2
  <2>5. R \subseteq L
    <3> HIDE DEF D
    <3> QED
      BY <2>3
  <2> HIDE DEF D
  <2> QED
    BY <2>1, <2>4, <2>5
<1>18. \A k, m \in D : k < m => left(Who(k)) >= left(Who(m))
  <2> SUFFICES ASSUME NEW k \in D, NEW m \in D, k < m PROVE left(Who(k)) >= left(Who(m))
    OBVIOUS
  <2>1. ~ Ahead(Who(m), Who(k)) /\ Who(m) # Who(k)
    <3>1. Who(k) \in D /\ Who(m) \in D /\ place[Who(k)] = k /\ place[Who(m)] = m
      BY <1>11
    <3>2. k \in Int /\ m \in Int
      BY <1>1
    <3>3. ~ (m < k) /\ m # k
      BY ONLY k < m, <3>2
    <3>4. Ahead(Who(m), Who(k)) => place[Who(m)] < place[Who(k)]
      BY <1>8, <3>1
    <3> HIDE DEF D
    <3> QED
      BY ONLY <3>1, <3>3, <3>4
  <2>2. Ahead(Who(k), Who(m))
    BY <1>5, <1>11, <2>1
  <2>3. Who(k) \in D /\ Who(m) \in D
    BY <1>11
  <2>4. left(Who(k)) \in Int /\ left(Who(m)) \in Int
    BY <1>1, <2>3 DEF left
  <2>5. left(Who(k)) > left(Who(m)) \/ left(Who(k)) = left(Who(m))
    BY <1>3, <2>2, <2>3
  <2> QED
    BY ONLY <2>4, <2>5
<1> QED
  BY <1>12, <1>13, <1>15, <1>17, <1>18 DEF left

-----------------------------------------------------------------------------
(* Platforms: their sessions laid end to end *)

LEMMA LeastOf == ASSUME NEW S, S \subseteq Nat, S # {}
                 PROVE  MinOf(S) \in S /\ \A y \in S : MinOf(S) <= y
  BY Least DEF MinOf

LEMMA PlatformList ==
    /\ Len(Platforms) \in Nat /\ DOMAIN Platforms = 1 .. Len(Platforms)
    /\ \A i \in 1 .. Len(Platforms) : Platforms[i] \in ToSet(Platforms)
    /\ \A i, j \in 1 .. Len(Platforms) : Platforms[i] = Platforms[j] => i = j
<1>1. Len(Platforms) \in Nat /\ DOMAIN Platforms = 1 .. Len(Platforms)
  BY SchedulerAssumption
<1> QED
  BY <1>1, SchedulerAssumption DEF ToSet, IsInjective

\* The sessions of the first i platforms are those of one fewer and the last's.
LEMMA SessionsUnfold ==
    ASSUME NEW available \in [ToSet(Platforms) -> Nat]
    PROVE  /\ \A i \in 0 .. Len(Platforms) : Sessions(available, i) \in Nat
           /\ Sessions(available, 0) = 0
           /\ \A i \in 1 .. Len(Platforms) :
                 Sessions(available, i) = Sessions(available, i - 1) + available[Platforms[i]]
<1> DEFINE N == Len(Platforms)
           more(n) == available[Platforms[n]]
           step == [n \in 1 .. N |-> [t \in Nat |-> t + more(n)]]
           F(h) == [n \in 0 .. N |-> IF n = 0 THEN 0 ELSE h[n - 1] + more(n)]
           upTo == CHOOSE h : h = F(h)
<1>1. N \in Nat /\ \A n \in 1 .. N : more(n) \in Nat
  BY PlatformList
<1>2. \A i : Sessions(available, i) = upTo[i]
  BY DEF Sessions
<1> HIDE DEF N, more
<1>3. step \in [1 .. N -> [Nat -> Nat]]
  BY <1>1
<1>4. PICK g \in [0 .. N -> Nat] : IsFold(g, N, 0, step)
  <2>1. 0 \in Nat
    OBVIOUS
  <2> HIDE DEF step
  <2> QED
    BY ONLY <1>1, <1>3, <2>1, FoldExists
<1>5. ASSUME NEW n \in 1 .. N PROVE g[n] = g[n - 1] + more(n)
  <2>1. g[n - 1] \in Nat
    BY <1>1
  <2>2. step[n] = [t \in Nat |-> t + more(n)]
    OBVIOUS
  <2>3. step[n][g[n - 1]] = g[n - 1] + more(n)
    BY <2>1, <2>2
  <2> HIDE DEF step
  <2> QED
    BY <1>4, <2>1, <2>3 DEF IsFold
<1>6. g = F(g)
  BY <1>4, <1>5 DEF IsFold
<1>7. upTo = F(upTo)
  <2> HIDE DEF F
  <2> QED
    BY <1>6
<1> HIDE DEF upTo
<1>8. upTo[0] = 0 /\ \A n \in 1 .. N : upTo[n] = upTo[n - 1] + more(n)
  BY <1>1, <1>7
<1> DEFINE Good == {n \in 0 .. N : upTo[n] \in Nat}
<1>9. \A n \in 0 .. N : n \in Good
  <2>1. 0 \in Good
    <3>1. 0 \in 0 .. N /\ upTo[0] \in Nat
      BY <1>1, <1>8
    <3> QED
      BY <3>1
  <2>2. ASSUME NEW n \in 1 .. N, n - 1 \in Good PROVE n \in Good
    <3>1. upTo[n - 1] \in Nat /\ n \in 0 .. N /\ more(n) \in Nat
      BY <1>1, <2>2
    <3>2. upTo[n] \in Nat
      BY <1>8, <3>1
    <3> QED
      BY <3>1, <3>2
  <2> HIDE DEF Good
  <2> QED
    BY <1>1, <2>1, <2>2, UpFromZero
<1>10. \A n \in 0 .. N : upTo[n] \in Nat
  BY <1>9
<1> QED
  BY <1>2, <1>8, <1>10 DEF N, more

LEMMA SessionsGrow ==
    ASSUME NEW available \in [ToSet(Platforms) -> Nat],
           NEW i \in 0 .. Len(Platforms), NEW j \in 0 .. Len(Platforms), i <= j
    PROVE  Sessions(available, i) <= Sessions(available, j)
<1> DEFINE N == Len(Platforms)
           S(k) == Sessions(available, k)
           Good == {k \in 0 .. N : i <= k => S(i) <= S(k)}
<1>1. N \in Nat /\ i \in 0 .. N /\ j \in 0 .. N
  BY PlatformList
<1>2. \A k \in 0 .. N : S(k) \in Nat
  BY SessionsUnfold
<1>3. \A k \in 1 .. N : S(k) >= S(k - 1)
  <2> TAKE k \in 1 .. N
  <2>1. S(k) = S(k - 1) + available[Platforms[k]]
    BY SessionsUnfold
  <2>2. S(k - 1) \in Nat /\ available[Platforms[k]] \in Nat
    BY <1>1, <1>2, PlatformList
  <2> HIDE DEF S
  <2> QED
    BY <2>1, <2>2
<1> HIDE DEF N, S
<1>4. 0 \in Good
  <2>1. 0 \in 0 .. N /\ (i <= 0 => i = 0)
    BY <1>1
  <2>2. S(i) <= S(i)
    BY <1>1, <1>2
  <2> QED
    BY <2>1, <2>2
<1>5. ASSUME NEW k \in 1 .. N, k - 1 \in Good PROVE k \in Good
  <2>1. k \in 0 .. N /\ k - 1 \in 0 .. N
    BY <1>1
  <2>2. S(k) \in Nat /\ S(k - 1) \in Nat /\ S(i) \in Nat /\ S(k) >= S(k - 1)
    BY <1>1, <1>2, <1>3, <2>1
  <2>3. i <= k => i <= k - 1 \/ i = k
    BY <1>1, <2>1
  <2>4. i <= k - 1 => S(i) <= S(k - 1)
    BY <1>5
  <2>5. i <= k => S(i) <= S(k)
    BY <2>2, <2>3, <2>4
  <2> QED
    BY <2>1, <2>5
<1>6. j \in Good
  <2> HIDE DEF Good
  <2> QED
    BY <1>1, <1>4, <1>5, UpFromZero
<1> QED
  BY <1>6 DEF N, S

\* A session is on the platform whose stretch it falls in.
LEMMA SessionPlaced ==
    ASSUME NEW available \in [ToSet(Platforms) -> Nat],
           NEW s \in 1 .. Sessions(available, Len(Platforms)),
           NEW i \in 1 .. Len(Platforms)
    PROVE  PlatformOf(available, s) = Platforms[i]
              <=> Sessions(available, i - 1) < s /\ s <= Sessions(available, i)
<1> DEFINE N == Len(Platforms)
           S(k) == Sessions(available, k)
           Enough == {k \in DOMAIN Platforms : s <= S(k)}
           home == MinOf(Enough)
<1>1. N \in Nat /\ DOMAIN Platforms = 1 .. N
  BY PlatformList
<1>2. (\A k \in 0 .. N : S(k) \in Nat) /\ S(0) = 0
  BY SessionsUnfold
<1>3. \A k, m \in 0 .. N : k <= m => S(k) <= S(m)
  BY SessionsGrow
<1>4. s \in Nat /\ s >= 1 /\ s <= S(N)
  BY <1>1, <1>2
<1>5. PlatformOf(available, s) = Platforms[home]
  BY DEF PlatformOf
<1> HIDE DEF S
<1>6. N \in 1 .. N
  BY <1>1, <1>2, <1>4
<1>7. home \in Enough /\ \A k \in Enough : home <= k
  <2>1. Enough \subseteq Nat /\ N \in Enough
    BY <1>1, <1>4, <1>6
  <2> HIDE DEF Enough
  <2> QED
    BY <2>1, LeastOf
<1> HIDE DEF home
<1>8. home \in 1 .. N /\ s <= S(home)
  BY <1>1, <1>7
<1>9. S(home - 1) < s
  <2>1. home - 1 \in 0 .. N
    BY <1>1, <1>8
  <2>2. CASE home = 1
    BY <1>2, <1>4, <2>2
  <2>3. CASE home # 1
    <3>1. home - 1 \in 1 .. N /\ home - 1 < home
      BY <1>8, <2>3
    <3>2. ~ (s <= S(home - 1))
      BY <1>1, <1>7, <3>1
    <3>3. S(home - 1) \in Nat
      BY <1>2, <2>1
    <3> QED
      BY <1>4, <3>2, <3>3
  <2> QED
    BY <2>2, <2>3
<1>10. ASSUME S(i - 1) < s, s <= S(i) PROVE i = home
  <2>1. i \in 1 .. N /\ i - 1 \in 0 .. N /\ i \in 0 .. N
    BY <1>1
  <2>2. home <= i
    BY <1>1, <1>7, <1>10, <2>1
  <2>3. ASSUME home < i PROVE FALSE
    <3>1. home <= i - 1 /\ home \in 0 .. N
      BY <1>8, <2>1, <2>3
    <3>2. S(home) <= S(i - 1)
      BY <1>3, <2>1, <3>1
    <3>3. S(home) \in Nat /\ S(i - 1) \in Nat
      BY <1>2, <2>1, <3>1
    <3> QED
      BY <1>4, <1>8, <1>10, <3>2, <3>3
  <2> QED
    BY <1>8, <2>1, <2>2, <2>3
<1>11. Platforms[home] = Platforms[i] => home = i
  BY <1>8, PlatformList
<1> QED
  BY <1>5, <1>8, <1>9, <1>10, <1>11 DEF S

LEMMA Counted1 == ASSUME NEW n \in Nat
                  PROVE  IsFiniteSet(1 .. n) /\ Cardinality(1 .. n) = n
<1>1. 1 \in Int /\ n \in Int /\ (n = 0 => 1 > n) /\ (n # 0 => ~ (1 > n)) /\ n - 1 + 1 = n
  OBVIOUS
<1> QED
  BY <1>1, FS_Interval

LEMMA ListOf == ASSUME NEW n \in Nat, NEW A, NEW f \in [1 .. n -> A]
                PROVE  f \in Seq(A) /\ Len(f) = n
  OBVIOUS

LEMMA Small == ASSUME NEW n \in Nat, NEW x \in 0 .. n - 1
               PROVE  x % n = x
  OBVIOUS

\* The first w sessions fill a platform as far as they reach into its stretch.
LEMMA PlatformFills ==
    ASSUME NEW available \in [ToSet(Platforms) -> Nat], NEW w \in Nat,
           w <= Sessions(available, Len(Platforms)), NEW i \in 1 .. Len(Platforms)
    PROVE  LET on == Cardinality({s \in 1 .. w : PlatformOf(available, s) = Platforms[i]})
           IN  /\ on \in 0 .. available[Platforms[i]]
               /\ w >= Sessions(available, i) => on = available[Platforms[i]]
               /\ on > 0 => w > Sessions(available, i - 1)
<1> DEFINE S(k) == Sessions(available, k)
           size == available[Platforms[i]]
           Stretch == S(i - 1) + 1 .. S(i)
           On == {s \in 1 .. w : PlatformOf(available, s) = Platforms[i]}
<1>1. i \in 1 .. Len(Platforms) /\ i - 1 \in 0 .. Len(Platforms) /\ i \in 0 .. Len(Platforms)
  BY PlatformList
<1>2. /\ S(i - 1) \in Nat /\ S(i) \in Nat /\ size \in Nat /\ S(i) = S(i - 1) + size
      /\ S(Len(Platforms)) \in Nat
  BY <1>1, SessionsUnfold, PlatformList
<1>3. \A s \in 1 .. w : PlatformOf(available, s) = Platforms[i] <=> S(i - 1) < s /\ s <= S(i)
  <2> TAKE s \in 1 .. w
  <2>1. s \in 1 .. S(Len(Platforms))
    BY <1>2
  <2> QED
    BY <2>1, SessionPlaced
<1> HIDE DEF S, size
<1>4. On = Stretch \cap 1 .. w
  <2>1. \A s \in 1 .. w : s \in Stretch <=> S(i - 1) < s /\ s <= S(i)
    BY <1>2
  <2> HIDE DEF Stretch
  <2> QED
    BY <1>3, <2>1
<1>5. IsFiniteSet(Stretch) /\ Cardinality(Stretch) = size
  <2>1. /\ S(i - 1) + 1 \in Int /\ S(i) \in Int
        /\ S(i - 1) + 1 > S(i) => size = 0
        /\ ~ (S(i - 1) + 1 > S(i)) => S(i) - (S(i - 1) + 1) + 1 = size
    BY <1>2
  <2> QED
    BY <2>1, FS_Interval
<1>6. IsFiniteSet(On) /\ Cardinality(On) <= Cardinality(Stretch)
  <2>1. On \subseteq Stretch
    BY <1>4
  <2> HIDE DEF On, Stretch
  <2> QED
    BY <1>5, <2>1, FS_Subset
<1>7. Cardinality(On) \in Nat
  <2> HIDE DEF On
  <2> QED
    BY <1>6, FS_CardinalityType
<1>8. Cardinality(On) \in 0 .. size
  <2> HIDE DEF On
  <2> QED
    BY <1>2, <1>5, <1>6, <1>7
<1>9. ASSUME w >= S(i) PROVE Cardinality(On) = size
  <2>1. Stretch \subseteq 1 .. w
    BY <1>2, <1>9
  <2>2. On = Stretch
    BY <1>4, <2>1
  <2> QED
    BY <1>5, <2>2
<1>10. ASSUME Cardinality(On) > 0 PROVE w > S(i - 1)
  <2>1. On # {}
    <3> HIDE DEF On
    <3> QED
      BY <1>10, FS_EmptySet
  <2>2. PICK s \in 1 .. w : S(i - 1) < s
    BY <1>3, <2>1
  <2> QED
    BY <1>2, <2>2
<1> QED
  BY <1>8, <1>9, <1>10 DEF S, size

-----------------------------------------------------------------------------
(* The plan *)

\* A plan that plan_job does not refuse is sound; and when it is not empty it
\* has a first slot.
LEMMA GrantedSound ==
    ASSUME NEW bytes \in Nat, NEW A, NEW connected \in Seq(A), IsInjective(connected),
           NEW used \in [A -> Nat],
           NEW available \in [ToSet(Platforms) -> Nat], NEW most \in Nat,
           ~ Refused(bytes, available)
    PROVE  LET plan == Slots(bytes, connected, used, available, most)
           IN  /\ SlotsSound(bytes, connected, used, available, most)
               /\ plan # << >> => 1 \in DOMAIN plan
<1> DEFINE usable == WithBudget(connected, used)
           total == Sessions(available, Len(Platforms))
           size == AtLeastOne(bytes \div MinShard)
           n == Parallelism(bytes, total, Len(usable), most)
           w == MinOf({n, total})
           ranked == Ranked(usable, used)
           plan == Slots(bytes, connected, used, available, most)
<1>1. usable \in Seq(A) /\ IsInjective(usable)
  BY Selected DEF WithBudget
<1>2. total \in Nat
  BY SessionsUnfold, PlatformList
<1>3. size \in Nat /\ size >= 1
  <2>1. bytes \div MinShard \in Nat
    BY ByteSizes, SMTT(30)
  <2> QED
    BY <2>1 DEF AtLeastOne
<1>4. Len(usable) \in Nat /\ DOMAIN usable = 1 .. Len(usable) /\ (usable = << >> <=> Len(usable) = 0)
  <2> HIDE DEF usable
  <2> QED
    BY <1>1
<1>5. (ToSet(usable) = {} <=> usable = << >>) /\ Cardinality(ToSet(usable)) = Len(usable)
  <2> HIDE DEF usable
  <2>1. ToSet(usable) = {usable[k] : k \in 1 .. Len(usable)} /\ usable \in [1 .. Len(usable) -> ToSet(usable)]
    BY <1>1, <1>4 DEF ToSet
  <2>2. usable # << >> => usable[1] \in ToSet(usable)
    BY <1>4, <2>1
  <2>3. usable = << >> => ToSet(usable) = {}
    BY <1>4, <2>1
  <2>4. IsFiniteSet(1 .. Len(usable)) /\ Cardinality(1 .. Len(usable)) = Len(usable)
    BY <1>4, Counted1
  <2>5. /\ usable \in Surjection(1 .. Len(usable), ToSet(usable))
        /\ usable \in Injection(1 .. Len(usable), ToSet(usable))
    BY <1>1, <1>4, <2>1 DEF Surjection, Injection, IsInjective
  <2>6. Cardinality(ToSet(usable)) = Len(usable)
    BY <2>4, <2>5, FS_Surjection
  <2> QED
    BY <2>2, <2>3, <2>6
<1>0. \A p \in DOMAIN ExactCaps : /\ p \in DOMAIN available
                                  /\ available[p] <= ExactCaps[p] /\ ExactCaps[p] \in Nat
  <2>1. ToSet(Platforms) = Range(Platforms)
    BY PlatformList DEF Range, ToSet
  <2>2. \A p \in DOMAIN ExactCaps : p \in ToSet(Platforms) /\ ExactCaps[p] \in Nat
    BY <2>1, SchedulerAssumption
  <2>3. \A p \in DOMAIN ExactCaps : ~ (available[p] > ExactCaps[p])
    BY <2>2 DEF Refused
  <2> QED
    BY <2>2, <2>3
<1> HIDE DEF usable, total, size
<1>6. CASE usable = << >>
  <2>1. plan = << >>
    BY <1>6 DEF Slots, usable
  <2>2. DOMAIN << >> = {} /\ Len(<< >>) = 0 /\ Cardinality({}) = 0
    BY FS_EmptySet
  <2>3. \A p \in DOMAIN available : 0 <= available[p]
    OBVIOUS
  <2> DEFINE On(p) == Cardinality({s \in DOMAIN plan : plan[s].platform = p})
             chosen == {plan[s].account : s \in DOMAIN plan}
  <2>4. (\A p : On(p) = 0) /\ chosen = {}
    BY <2>1, <2>2
  <2>5. plan = <<>> <=> Refused(bytes, available) \/ ToSet(usable) = {} \/ total = 0
    BY <1>5, <1>6, <2>1
  <2>11. \A p \in DOMAIN ExactCaps : On(p) <= ExactCaps[p]
    <3>1. \A p \in DOMAIN ExactCaps : 0 <= ExactCaps[p]
      BY <1>0
    <3> HIDE DEF On
    <3> QED
      BY <2>4, <3>1
  <2>6. chosen \subseteq ToSet(usable) /\ Cardinality(chosen) = Len(plan)
    BY <2>1, <2>2, <2>4
  <2>7. \A a \in chosen, b \in ToSet(usable) \ chosen : Budget(a, used) >= Budget(b, used)
    BY <2>4
  <2>8. \A p \in DOMAIN available : On(p) <= available[p]
    BY <2>3, <2>4
  <2>9. \A i, j \in DOMAIN Platforms : i < j /\ On(Platforms[j]) > 0 =>
              On(Platforms[i]) = available[Platforms[i]]
    <3> HIDE DEF On
    <3> QED
      BY <2>4
  <2>10. plan # <<>> =>
              \/ Len(plan) \in {total, Cardinality(ToSet(usable)), most}
              \/ Len(plan) = AtLeastOne(bytes \div MinShard)
    BY <2>1
  <2> HIDE DEF plan
  <2> QED
    BY <2>1, <2>5, <2>6, <2>7, <2>8, <2>9, <2>10, <2>11 DEF SlotsSound, usable, total, plan
<1>7. CASE usable # << >>
  <2> DEFINE limits == {total, Len(usable), size} \union (IF most = 0 THEN {} ELSE {most})
             least == MinOf(limits)
  <2>1. least \in limits /\ \A y \in limits : least <= y
    <3>1. limits \subseteq Nat /\ limits # {}
      BY <1>2, <1>3, <1>4
    <3> HIDE DEF limits
    <3> QED
      BY <3>1, LeastOf
  <2>2. n = AtLeastOne(least)
    BY DEF Parallelism, size
  <2>3. least \in Nat /\ least <= Len(usable) /\ (most # 0 => least <= most)
    BY <1>2, <1>3, <1>4, <2>1
  <2> HIDE DEF limits, least, n
  <2>4. /\ n \in Nat /\ n >= 1 /\ n <= Len(usable)
        /\ n = least \/ (least = 0 /\ n = 1)
    BY <1>4, <1>7, <2>2, <2>3 DEF AtLeastOne
  <2>5. w \in {n, total} /\ w <= n /\ w <= total
    <3>1. {n, total} \subseteq Nat /\ {n, total} # {}
      BY <1>2, <2>4
    <3> QED
      BY <3>1, LeastOf
  <2> HIDE DEF w
  <2>6. w \in Nat /\ w <= Len(usable) /\ (w = 0 <=> total = 0)
    BY <1>2, <1>4, <2>4, <2>5
  <2>7. /\ ranked \in [1 .. Len(usable) -> A] /\ IsInjective(ranked)
        /\ {ranked[k] : k \in 1 .. Len(usable)} = ToSet(usable)
        /\ \A k, m \in 1 .. Len(usable) :
              k < m => Budget(ranked[k], used) >= Budget(ranked[m], used)
    <3>1. usable \in Seq(A) /\ IsInjective(usable) /\ used \in [A -> Nat]
      BY <1>1
    <3> HIDE DEF usable
    <3> QED
      BY ONLY <3>1, RankedRanks
  <2>8. Len(ranked) = Len(usable) /\ ranked \in Seq(A)
    <3> HIDE DEF ranked
    <3> QED
      BY <1>4, <2>7, ListOf
  <2>9. plan = [s \in 1 .. w |-> [platform |-> PlatformOf(available, s),
                                  account  |-> ranked[((s - 1) % Len(ranked)) + 1]]]
    BY <1>7 DEF Slots, usable, total, n, w
  <2>10. \A s \in 1 .. w : s \in 1 .. Len(usable) /\ ((s - 1) % Len(ranked)) + 1 = s
    <3> TAKE s \in 1 .. w
    <3>1. s \in 1 .. Len(usable) /\ s - 1 \in 0 .. Len(usable) - 1 /\ s - 1 + 1 = s
      BY <1>4, <2>6
    <3>2. (s - 1) % Len(ranked) = s - 1
      BY <1>4, <2>8, <3>1, Small
    <3> QED
      BY <3>1, <3>2
  <2> HIDE DEF plan, ranked
  <2>11. /\ DOMAIN plan = 1 .. w
         /\ \A s \in 1 .. w : /\ plan[s].platform = PlatformOf(available, s)
                              /\ plan[s].account = ranked[s]
    BY <2>9, <2>10
  <2>12. Len(plan) = w
    BY <2>6, <2>9
  <2> DEFINE On(p) == Cardinality({s \in DOMAIN plan : plan[s].platform = p})
             chosen == {plan[s].account : s \in DOMAIN plan}
  <2>13. plan = <<>> <=> Refused(bytes, available) \/ ToSet(usable) = {} \/ total = 0
    <3> DEFINE X == {plan[s] : s \in 1 .. w}
    <3>1. plan \in [1 .. w -> X]
      BY <2>9
    <3>2. plan \in Seq(X)
      <4> HIDE DEF X
      <4> QED
        BY <2>6, <3>1, ListOf
    <3>3. plan = << >> <=> w = 0
      <4> HIDE DEF X
      <4> QED
        BY <2>12, <3>2
    <3> QED
      BY <1>5, <1>7, <2>6, <3>3
  <2>14. chosen \subseteq ToSet(usable) /\ Cardinality(chosen) = Len(plan)
    <3> DEFINE f == [s \in 1 .. w |-> ranked[s]]
    <3>1. chosen = {ranked[s] : s \in 1 .. w}
      BY <2>11
    <3>2. f \in [1 .. w -> chosen] /\ \A c \in chosen : \E s \in 1 .. w : f[s] = c
      BY <3>1
    <3>3. \A s, m \in 1 .. w : f[s] = f[m] => s = m
      BY <2>7, <2>10 DEF IsInjective
    <3>4. f \in Surjection(1 .. w, chosen) /\ f \in Injection(1 .. w, chosen)
      <4> HIDE DEF f, chosen
      <4> QED
        BY <3>2, <3>3 DEF Surjection, Injection, IsInjective
    <3>5. IsFiniteSet(1 .. w) /\ Cardinality(1 .. w) = w
      BY <2>6, Counted1
    <3>6. Cardinality(chosen) = w
      <4> HIDE DEF f, chosen
      <4> QED
        BY <3>4, <3>5, FS_Surjection
    <3>7. chosen \subseteq ToSet(usable)
      BY <2>7, <2>10, <3>1
    <3> QED
      BY <2>12, <3>6, <3>7
  <2>15. \A a \in chosen, b \in ToSet(usable) \ chosen : Budget(a, used) >= Budget(b, used)
    <3> SUFFICES ASSUME NEW a \in chosen, NEW b \in ToSet(usable) \ chosen
                 PROVE  Budget(a, used) >= Budget(b, used)
      OBVIOUS
    <3>1. PICK s \in 1 .. w : a = ranked[s]
      BY <2>11
    <3>2. PICK m \in 1 .. Len(usable) : b = ranked[m]
      BY <2>7
    <3>3. ~ (m \in 1 .. w)
      BY <2>11, <3>2
    <3>4. s \in 1 .. Len(usable) /\ s < m
      BY <1>4, <2>6, <3>3
    <3> QED
      BY <2>7, <3>1, <3>2, <3>4
  <2>16. \A p : {s \in DOMAIN plan : plan[s].platform = p}
                  = {s \in 1 .. w : PlatformOf(available, s) = p}
    BY <2>11
  <2>17. \A i \in 1 .. Len(Platforms) :
            /\ On(Platforms[i]) \in 0 .. available[Platforms[i]]
            /\ w >= Sessions(available, i) => On(Platforms[i]) = available[Platforms[i]]
            /\ On(Platforms[i]) > 0 => w > Sessions(available, i - 1)
    <3> TAKE i \in 1 .. Len(Platforms)
    <3>1. On(Platforms[i])
            = Cardinality({s \in 1 .. w : PlatformOf(available, s) = Platforms[i]})
      BY <2>16
    <3> HIDE DEF On
    <3>2. w <= Sessions(available, Len(Platforms))
      BY <2>5 DEF total
    <3>3. LET on == Cardinality({s \in 1 .. w : PlatformOf(available, s) = Platforms[i]})
          IN  /\ on \in 0 .. available[Platforms[i]]
              /\ w >= Sessions(available, i) => on = available[Platforms[i]]
              /\ on > 0 => w > Sessions(available, i - 1)
      BY <2>6, <3>2, PlatformFills
    <3> QED
      BY <3>1, <3>3
  <2>18. \A p \in DOMAIN available : On(p) <= available[p]
    <3> SUFFICES ASSUME NEW p \in ToSet(Platforms) PROVE On(p) <= available[p]
      OBVIOUS
    <3>1. PICK i \in 1 .. Len(Platforms) : p = Platforms[i]
      BY PlatformList DEF ToSet
    <3>2. available[p] \in Nat
      OBVIOUS
    <3> HIDE DEF On
    <3> QED
      BY <2>17, <3>1, <3>2
  <2>19. \A i, j \in DOMAIN Platforms : i < j /\ On(Platforms[j]) > 0 =>
              On(Platforms[i]) = available[Platforms[i]]
    <3> SUFFICES ASSUME NEW i \in 1 .. Len(Platforms), NEW j \in 1 .. Len(Platforms), i < j,
                        On(Platforms[j]) > 0
                 PROVE  On(Platforms[i]) = available[Platforms[i]]
      BY PlatformList
    <3> HIDE DEF On
    <3>1. w > Sessions(available, j - 1)
      BY <2>17
    <3>2. i \in 0 .. Len(Platforms) /\ j - 1 \in 0 .. Len(Platforms) /\ i <= j - 1
      BY PlatformList
    <3>3. /\ Sessions(available, i) <= Sessions(available, j - 1)
          /\ Sessions(available, i) \in Nat /\ Sessions(available, j - 1) \in Nat
      BY <3>2, SessionsGrow, SessionsUnfold
    <3>4. w >= Sessions(available, i)
      BY <2>6, <3>1, <3>3
    <3> QED
      BY <2>17, <3>4
  <2>20. plan # <<>> =>
              \/ Len(plan) \in {total, Cardinality(ToSet(usable)), most}
              \/ Len(plan) = AtLeastOne(bytes \div MinShard)
    <3> HAVE plan # << >>
    <3>1. total # 0 /\ total \in Nat /\ Len(usable) \in Nat /\ Len(usable) # 0
      BY <1>2, <1>4, <1>5, <1>7, <2>13
    <3>2. least \in {total, Len(usable), size, most} /\ least # 0
      BY <1>3, <2>1, <3>1 DEF limits
    <3>3. n = least
      BY <2>4, <3>2
    <3> QED
      BY <1>5, <2>5, <2>12, <3>2, <3>3 DEF size
  <2>22. \A p \in DOMAIN ExactCaps : On(p) <= ExactCaps[p]
    <3> SUFFICES ASSUME NEW p \in DOMAIN ExactCaps PROVE On(p) <= ExactCaps[p]
      OBVIOUS
    <3>1. PICK i \in 1 .. Len(Platforms) : p = Platforms[i]
      BY <1>0, PlatformList DEF ToSet
    <3>2. On(p) \in 0 .. available[p] /\ available[p] \in Nat
      BY <1>0, <2>17, <3>1
    <3> HIDE DEF On
    <3> QED
      BY <1>0, <3>2
  <2>21. plan # << >> => 1 \in DOMAIN plan
    BY <1>5, <1>7, <2>6, <2>11, <2>13
  <2> HIDE DEF On, chosen
  <2> QED
    BY <2>13, <2>14, <2>15, <2>18, <2>19, <2>20, <2>21, <2>22
    DEF SlotsSound, usable, total, plan, On, chosen
<1> QED
  BY <1>6, <1>7

\* plan_job answers soundly whatever it is asked, unknown platforms, sessions
\* beyond an exact cap and empty jobs included, and whatever the accounts have
\* left; and a plan that is not empty has a first slot.
THEOREM PlansSound ==
    ASSUME NEW bytes \in Int, NEW A, NEW connected \in Seq(A), IsInjective(connected),
           NEW used \in [A -> Nat], NEW P, ToSet(Platforms) \subseteq P,
           NEW available \in [P -> Nat], NEW most \in Nat
    PROVE  LET plan == Slots(bytes, connected, used, available, most)
           IN  /\ SlotsSound(bytes, connected, used, available, most)
               /\ plan # << >> => 1 \in DOMAIN plan
<1>1. ToSet(Platforms) = Range(Platforms)
  BY PlatformList DEF Range, ToSet
<1>2. CASE ~ Refused(bytes, available)
  <2>1. P \subseteq ToSet(Platforms) /\ ~ (bytes <= 0)
    BY <1>1, <1>2 DEF Refused
  <2>2. bytes \in Nat
    BY ONLY <2>1, bytes \in Int
  <2>3. P = ToSet(Platforms)
    BY <2>1
  <2> QED
    BY <1>2, <2>2, <2>3, GrantedSound
<1>3. CASE Refused(bytes, available)
  <2> DEFINE plan == Slots(bytes, connected, used, available, most)
             On(p) == Cardinality({s \in DOMAIN plan : plan[s].platform = p})
             chosen == {plan[s].account : s \in DOMAIN plan}
  <2>1. plan = << >>
    BY <1>3 DEF Slots
  <2>2. DOMAIN << >> = {} /\ Len(<< >>) = 0 /\ Cardinality({}) = 0
    BY FS_EmptySet
  <2>3. (\A p : On(p) = 0) /\ chosen = {}
    BY <2>1, <2>2
  <2>4. \A p \in DOMAIN available : On(p) <= available[p]
    <3>1. \A p \in DOMAIN available : 0 <= available[p]
      OBVIOUS
    <3> HIDE DEF On
    <3> QED
      BY <2>3, <3>1
  <2>5. \A p \in DOMAIN ExactCaps : On(p) <= ExactCaps[p]
    <3>1. \A p \in DOMAIN ExactCaps : 0 <= ExactCaps[p]
      <4>1. \A p \in DOMAIN ExactCaps : ExactCaps[p] \in Nat
        BY SchedulerAssumption
      <4> QED
        BY <4>1
    <3> HIDE DEF On
    <3> QED
      BY <2>3, <3>1
  <2>6. /\ chosen \subseteq ToSet(WithBudget(connected, used))
        /\ Cardinality(chosen) = Len(plan)
    BY <2>1, <2>2, <2>3
  <2>7. \A p : ~ (On(p) > 0)
    <3> HIDE DEF On
    <3> QED
      BY <2>3
  <2> HIDE DEF plan
  <2> QED
    BY <1>3, <2>1, <2>3, <2>4, <2>5, <2>6, <2>7 DEF SlotsSound, plan
<1> QED
  BY <1>2, <1>3

-----------------------------------------------------------------------------
(* Ranges *)

LEMMA TimesGrows == ASSUME NEW a \in Nat, NEW b \in Nat, NEW c \in Nat, a <= b
                    PROVE  a * c \in Nat /\ b * c \in Nat /\ a * c <= b * c
<1>1. b - a \in Nat /\ (b - a) * c \in Nat /\ b * c = a * c + (b - a) * c
  OBVIOUS
<1> QED
  BY <1>1

LEMMA Quotient == ASSUME NEW x \in Nat, NEW n \in Nat \ {0}
                  PROVE  /\ x \div n \in Nat
                         /\ (x \div n) * n <= x /\ x < (x \div n + 1) * n
  OBVIOUS

\* split_ranges leaves no gap and overlaps nothing, whatever the size and the
\* number of parts: more parts than bytes leave all bytes to the last.
THEOREM RangesTiled ==
    ASSUME NEW total \in Nat, NEW parts \in Nat \ {0}
    PROVE  RangesTile(total, parts)
<1> DEFINE size == Step(total, parts)
           In(byte, i) == Start(total, parts, i) <= byte /\ byte <= Stop(total, parts, i)
<1>1. size \in Nat
  BY Quotient DEF Step
<1>2. parts - 1 \in Nat /\ parts - 1 \in 0 .. parts - 1
  OBVIOUS
<1>3. \A byte, i : In(byte, i) <=>
         /\ i * size <= byte
         /\ i = parts - 1 => byte <= total - 1
         /\ i # parts - 1 => byte <= (i + 1) * size - 1
  BY DEF Start, Stop
<1> HIDE DEF size, In
<1>4. ASSUME NEW byte \in 0 .. total - 1
      PROVE  \E i \in 0 .. parts - 1 : In(byte, i)
  <2>1. byte \in Nat /\ byte <= total - 1
    OBVIOUS
  <2>2. CASE (parts - 1) * size <= byte
    BY <1>2, <1>3, <2>1, <2>2
  <2>3. CASE ~ ((parts - 1) * size <= byte)
    <3>1. size # 0
      BY <1>2, <2>1, <2>3
    <3> DEFINE q == byte \div size
    <3>2. q \in Nat /\ q * size <= byte /\ byte < (q + 1) * size
      BY <1>1, <2>1, <3>1, Quotient
    <3> HIDE DEF q
    <3>3. ASSUME q >= parts - 1 PROVE FALSE
      <4>1. (parts - 1) * size \in Nat /\ q * size \in Nat /\ (parts - 1) * size <= q * size
        BY ONLY <1>1, <1>2, <3>2, <3>3, TimesGrows
      <4> QED
        BY ONLY <2>1, <2>3, <3>2, <4>1
    <3>4. q \in 0 .. parts - 1 /\ q # parts - 1
      BY <1>2, <3>2, <3>3
    <3>5. (q + 1) * size \in Nat
      BY <1>1, <3>2
    <3>6. byte <= (q + 1) * size - 1
      BY ONLY <2>1, <3>2, <3>5
    <3> QED
      BY <1>3, <3>2, <3>4, <3>6
  <2> QED
    BY <2>2, <2>3
<1>5. ASSUME NEW byte \in 0 .. total - 1, NEW i \in 0 .. parts - 1, NEW j \in 0 .. parts - 1,
             In(byte, i), In(byte, j), i < j
      PROVE  FALSE
  <2>1. byte \in Nat /\ i + 1 \in Nat /\ j \in Nat /\ i + 1 <= j /\ i # parts - 1
    BY <1>5
  <2>2. byte <= (i + 1) * size - 1 /\ j * size <= byte
    BY <1>3, <1>5, <2>1
  <2>3. (i + 1) * size \in Nat /\ j * size \in Nat /\ (i + 1) * size <= j * size
    BY ONLY <1>1, <2>1, TimesGrows
  <2> QED
    BY ONLY <2>1, <2>2, <2>3
<1>6. ASSUME NEW byte \in 0 .. total - 1
      PROVE  Cardinality({i \in 0 .. parts - 1 : In(byte, i)}) = 1
  <2>1. PICK i \in 0 .. parts - 1 : In(byte, i)
    BY <1>4
  <2>2. \A j \in 0 .. parts - 1 : In(byte, j) => j = i
    <3> SUFFICES ASSUME NEW j \in 0 .. parts - 1, In(byte, j), j # i PROVE FALSE
      OBVIOUS
    <3>1. i < j \/ j < i
      OBVIOUS
    <3> QED
      BY <1>5, <2>1, <3>1
  <2>3. {j \in 0 .. parts - 1 : In(byte, j)} = {i}
    BY <2>1, <2>2
  <2> QED
    BY <2>3, FS_Singleton
<1> QED
  BY <1>6 DEF RangesTile, In
====
