-------------------------- MODULE CompactionProofs --------------------------
(***************************************************************************)
(* What Compaction promises, for every set of callers, parts and rows and  *)
(* every number of seconds, calls and kills.                               *)
(***************************************************************************)
EXTENDS Compaction, FiniteSetTheorems, WellFoundedInduction, TLAPS

Pending(p) == pc[p] \in {"verify", "replace"}
HasRead(p) == pc[p] = "write" \/ Pending(p)
IsOutput(f) == f \in 1 .. MaxNow
InFile(f, r) == f \in Present /\ dir[f][r] > 0

-----------------------------------------------------------------------------
(* The inductive invariant *)

\* A call that runs has a group left, and no group is empty.
GroupsLeft ==
    /\ \A p \in Procs : pc[p] # "idle" => groups[p] # {}
    /\ \A p \in Procs : {} \notin groups[p]

\* An output that is not in place yet is new to every call: no file has its
\* name, no call reads it, no other call writes it.
OutputsNew ==
    /\ used \subseteq 1 .. now
    /\ \A f \in Present : IsOutput(f) => f \in used
    /\ \A p \in Procs : \A g \in groups[p] : \A f \in g : IsOutput(f) => f \in used
    /\ \A p \in Procs : Pending(p) => /\ final[p] \in used
                                      /\ dir[final[p]] = None
                                      /\ aside[final[p]] = merged[p]
    /\ \A p, q \in Procs : Pending(p) => \A g \in groups[q] : final[p] \notin g
    /\ \A p, q \in Procs : Pending(p) /\ Pending(q) /\ p # q => final[p] # final[q]

\* What a call has read holds every row its inputs still have, and the output
\* comes after them.
InputsRead ==
    /\ \A p \in Procs : HasRead(p) =>
          \A f \in Inputs(p), r \in Rows : InFile(f, r) => merged[p][r] > 0
    /\ \A p \in Procs : Pending(p) =>
          \A f \in Inputs(p) : IsOutput(f) => f < final[p]

\* A call that removes its inputs leaves each of their rows in its output, or
\* in a later one that took the rows of that.
OutputsKeep ==
    \A p \in Procs : pc[p] = "remove" =>
        /\ IsOutput(final[p])
        /\ doomed[p] \subseteq Inputs(p)
        /\ \A f \in doomed[p] : IsOutput(f) => f < final[p]
        /\ \A f \in doomed[p], r \in Rows : InFile(f, r) => merged[p][r] > 0
        /\ \A r \in Rows : merged[p][r] > 0 =>
              \E g \in 1 .. MaxNow : final[p] <= g /\ InFile(g, r)

-----------------------------------------------------------------------------
(* Names and bags of rows *)

LEMMA NamesAreNumbers == Names \subseteq Nat /\ IsFiniteSet(Names)
<1>1. IsFiniteSet(1 .. MaxNow)
  BY CompactionAssumption, FS_Interval
<1>2. IsFiniteSet(Parts \union 1 .. MaxNow)
  BY <1>1, CompactionAssumption, FS_Union
<1> QED
  BY <1>2, CompactionAssumption DEF Names

LEMMA RowsOfParts == Row \subseteq Rows
BY CompactionAssumption DEF Row

\* A set of names has a least one.
LEMMA MinIsLeast ==
    ASSUME NEW S, S \subseteq Nat, S # {}
    PROVE  Min(S) \in S
<1> DEFINE less == {ss \in Nat \X Nat : ss[1] < ss[2]}
<1>1. IsWellFoundedOn(less, Nat)
  BY NatLessThanWellFounded DEF OpToRel
<1>2. PICK x \in S : \A y \in S : ~ (<<y, x>> \in less)
  BY <1>1, WFMin
<1>3. ASSUME NEW y \in S PROVE x <= y
  <2>1. x \in Nat /\ y \in Nat
    OBVIOUS
  <2>2. y < x => <<y, x>> \in less
    BY <2>1
  <2> QED
    BY <1>2, <2>1, <2>2
<1> QED
  BY <1>3 DEF Min

\* The group that is taken is one of those that are left.
LEMMA FirstIsGroup ==
    ASSUME NEW G, G \subseteq SUBSET Names, G # {}, {} \notin G
    PROVE  First(G) \in G
<1>1. UNION G # {} /\ UNION G \subseteq Nat
  BY NamesAreNumbers
<1>2. Min(UNION G) \in UNION G
  BY <1>1, MinIsLeast
<1>3. \E g \in G : Min(UNION G) \in g
  BY <1>2
<1> QED
  BY <1>3 DEF First

\* Several files together have finitely many copies of a row, and one if one
\* of them has one.
LEMMA CopiesFinite ==
    ASSUME TypeOK, NEW S, S \subseteq Present, NEW r \in Rows
    PROVE  IsFiniteSet(CopiesIn(S, r))
<1> DEFINE of == [f \in S |-> {f} \X (1 .. dir[f][r])]
           all == {of[f] : f \in S}
<1>1. IsFiniteSet(S)
  BY NamesAreNumbers, FS_Subset DEF Present
<1>2. of \in Surjection(S, all)
  BY DEF Surjection
<1>3. IsFiniteSet(all)
  BY <1>1, <1>2, FS_Surjection
<1>4. ASSUME NEW f \in S PROVE IsFiniteSet(of[f])
  <2>1. dir[f][r] \in Nat
    BY DEF TypeOK, Present, Bag
  <2>2. 1 \in Int /\ dir[f][r] \in Int
    BY <2>1
  <2>3. IsFiniteSet(1 .. dir[f][r])
    BY <2>2, FS_Interval
  <2>4. IsFiniteSet({f})
    BY FS_Singleton
  <2> QED
    BY <2>3, <2>4, FS_Product
<1>5. CopiesIn(S, r) = UNION all
  BY DEF CopiesIn
<1>6. \A T \in all : IsFiniteSet(T)
  BY <1>4
<1> HIDE DEF all
<1> QED
  BY <1>3, <1>5, <1>6, FS_UNION

LEMMA PlusIsBag ==
    ASSUME TypeOK, NEW S, S \subseteq Present
    PROVE  Plus(S) \in Bag
BY CopiesFinite, FS_CardinalityType DEF Plus, Bag

LEMMA PlusHolds ==
    ASSUME TypeOK, NEW S, S \subseteq Present, NEW f \in S, NEW r \in Rows,
           dir[f][r] > 0
    PROVE  Plus(S)[r] > 0
<1>1. dir[f][r] \in Nat
  BY DEF TypeOK, Present, Bag
<1>2. <<f, 1>> \in CopiesIn(S, r)
  BY <1>1 DEF CopiesIn
<1>3. Cardinality(CopiesIn(S, r)) \in Nat /\ Cardinality(CopiesIn(S, r)) # 0
  BY <1>2, CopiesFinite, FS_CardinalityType, FS_EmptySet
<1> QED
  BY <1>3 DEF Plus

\* plan() makes groups of files there are, none of them empty.
LEMMA PlannedGroups ==
    ASSUME NEW g \in PlanGroups
    PROVE  g \subseteq Present /\ g # {}
<1>1. g \subseteq Small /\ Cardinality(g) > 1
  BY DEF PlanGroups
<1> QED
  BY <1>1, FS_EmptySet DEF Small

-----------------------------------------------------------------------------
(* Types *)

\* The inputs of a call that runs are one of its groups.
LEMMA InputsAreGroup ==
    ASSUME TypeOK, GroupsLeft, NEW p \in Procs, pc[p] # "idle"
    PROVE  Inputs(p) \in groups[p] /\ Inputs(p) \subseteq Names
<1>1. groups[p] \subseteq SUBSET Names /\ groups[p] # {} /\ {} \notin groups[p]
  BY DEF TypeOK, GroupsLeft
<1> QED
  BY <1>1, FirstIsGroup DEF Inputs

LEMMA InitTypes == Init => TypeOK /\ GroupsLeft
<1> SUFFICES ASSUME Init PROVE TypeOK /\ GroupsLeft
  OBVIOUS
<1>1. dir \in [Names -> Bag \union {None}]
  BY DEF Init, Bag
<1>2. merged \in [Procs -> Bag]
  BY DEF Init, Bag, NoRows
<1>3. aside \in [Names -> Bag \union {None}]
  BY DEF Init
<1>4. 1 \in 1 .. MaxNow
  BY CompactionAssumption
<1>5. TypeOK
  BY <1>1, <1>2, <1>3, <1>4 DEF Init, TypeOK
<1> QED
  BY <1>5 DEF Init, GroupsLeft

LEMMA TypeStep == TypeOK /\ GroupsLeft /\ [Next]_vars => TypeOK' /\ GroupsLeft'
<1> SUFFICES ASSUME TypeOK, GroupsLeft, [Next]_vars
             PROVE  TypeOK' /\ GroupsLeft'
  OBVIOUS
<1> USE DEF TypeOK, GroupsLeft, local, bounds
<1>1. CASE Tick
  BY <1>1, CompactionAssumption DEF Tick
<1>2. CASE Kill
  BY <1>2 DEF Kill
<1>3. ASSUME NEW p \in Procs, Plan(p) PROVE TypeOK' /\ GroupsLeft'
  <2>1. PlanGroups \subseteq SUBSET Names /\ {} \notin PlanGroups
    BY PlannedGroups DEF Present
  <2> QED
    BY <1>3, <2>1 DEF Plan, Goto
<1>4. ASSUME NEW p \in Procs, Meta(p) PROVE TypeOK' /\ GroupsLeft'
  BY <1>4 DEF Meta, Goto, Abort
<1>5. ASSUME NEW p \in Procs, Read(p) PROVE TypeOK' /\ GroupsLeft'
  <2>1. Readable(p) => Plus(Inputs(p)) \in Bag
    BY PlusIsBag DEF Readable
  <2> QED
    BY <1>5, <2>1 DEF Read, Goto, Abort
<1>6. ASSUME NEW p \in Procs, Write(p) PROVE TypeOK' /\ GroupsLeft'
  BY <1>6 DEF Write, Goto, Names
<1>7. ASSUME NEW p \in Procs, Verify(p) PROVE TypeOK' /\ GroupsLeft'
  BY <1>7 DEF Verify, Goto, Abort, NextGroup
<1>8. ASSUME NEW p \in Procs, Replace(p) PROVE TypeOK' /\ GroupsLeft'
  <2>1. pc[p] # "idle"
    BY <1>8 DEF Replace
  <2>2. Inputs(p) \in SUBSET Names
    BY <2>1, InputsAreGroup
  <2>3. dir' \in [Names -> Bag \union {None}] /\ aside' \in [Names -> Bag \union {None}]
    BY <1>8 DEF Replace
  <2> QED
    BY <1>8, <2>2, <2>3 DEF Replace, Goto, Abort
<1>9. ASSUME NEW p \in Procs, RemoveInput(p) PROVE TypeOK' /\ GroupsLeft'
  BY <1>9 DEF RemoveInput
<1>10. ASSUME NEW p \in Procs, Finish(p) PROVE TypeOK' /\ GroupsLeft'
  BY <1>10 DEF Finish, Goto, NextGroup
<1>11. CASE UNCHANGED vars
  BY <1>11 DEF vars
<1> QED
  BY <1>1, <1>2, <1>3, <1>4, <1>5, <1>6, <1>7, <1>8, <1>9, <1>10, <1>11
  DEF Next, Group

-----------------------------------------------------------------------------
(* No row is lost *)

\* What is kept while no two outputs have been named in one second.
Safe == OutputsNew /\ InputsRead /\ OutputsKeep

\* Steps that leave the files alone: those of Tick, Kill, Plan, Meta, Read,
\* Verify and Finish.
LEMMA QuietSafe ==
    ASSUME TypeOK, TypeOK', Safe,
           UNCHANGED <<dir, final, used>>, now <= now',
           \A p \in Procs : Pending(p)' =>
              Pending(p) /\ aside'[final[p]] = aside[final[p]],
           \A p \in Procs : HasRead(p)' =>
              /\ groups'[p] = groups[p]
              /\ \/ HasRead(p)
                 \/ \A f \in Inputs(p), r \in Rows : InFile(f, r) => merged'[p][r] > 0,
           \A p \in Procs : pc'[p] = "remove" =>
              pc[p] = "remove" /\ groups'[p] = groups[p] /\ doomed'[p] = doomed[p],
           \A p \in Procs : HasRead(p) \/ pc[p] = "remove" => merged'[p] = merged[p],
           \A p \in Procs : \A g \in groups'[p] : g \in groups[p] \/ g \subseteq Present
    PROVE  Safe'
<1> USE DEF TypeOK
<1>1. Present' = Present /\ \A f, r : InFile(f, r)' <=> InFile(f, r)
  BY DEF Present, InFile
<1>2. \A p \in Procs : Pending(p)' => /\ Pending(p) /\ Inputs(p)' = Inputs(p)
                                      /\ merged'[p] = merged[p]
  BY DEF Pending, Inputs, HasRead
<1>3. \A p \in Procs : HasRead(p)' => Inputs(p)' = Inputs(p)
  BY DEF Inputs
<1>4. OutputsNew'
  <2>1. used' \subseteq 1 .. now'
    BY DEF Safe, OutputsNew
  <2>2. \A f \in Present' : IsOutput(f) => f \in used'
    BY <1>1 DEF Safe, OutputsNew
  <2>3. \A p \in Procs : \A g \in groups'[p] : \A f \in g : IsOutput(f) => f \in used'
    BY <1>1 DEF Safe, OutputsNew
  <2>4. \A p \in Procs : Pending(p)' => /\ final'[p] \in used'
                                        /\ dir'[final'[p]] = None
                                        /\ aside'[final'[p]] = merged'[p]
    BY <1>2 DEF Safe, OutputsNew
  <2>5. \A p, q \in Procs : Pending(p)' => \A g \in groups'[q] : final'[p] \notin g
    BY <1>2 DEF Safe, OutputsNew, Present
  <2>6. \A p, q \in Procs : Pending(p)' /\ Pending(q)' /\ p # q => final'[p] # final'[q]
    BY <1>2 DEF Safe, OutputsNew
  <2> QED
    BY <2>1, <2>2, <2>3, <2>4, <2>5, <2>6 DEF OutputsNew, IsOutput
<1>5. InputsRead'
  <2>1. ASSUME NEW p \in Procs, HasRead(p)', NEW f \in Inputs(p), NEW r \in Rows,
               InFile(f, r)
        PROVE  merged'[p][r] > 0
    BY <2>1 DEF Safe, InputsRead
  <2>2. \A p \in Procs : Pending(p)' =>
           \A f \in Inputs(p)' : IsOutput(f) => f < final[p]
    BY <1>2 DEF Safe, InputsRead
  <2> QED
    BY <1>1, <1>3, <2>1, <2>2 DEF InputsRead, IsOutput
<1>6. OutputsKeep'
  <2>1. ASSUME NEW p \in Procs, pc'[p] = "remove"
        PROVE  /\ pc[p] = "remove" /\ Inputs(p)' = Inputs(p)
               /\ doomed'[p] = doomed[p] /\ merged'[p] = merged[p]
    BY <2>1 DEF Inputs
  <2> QED
    BY <1>1, <2>1 DEF Safe, OutputsKeep, IsOutput
<1> QED
  BY <1>4, <1>5, <1>6 DEF Safe

\* The output is named and written under its temporary name.
LEMMA WriteSafe ==
    ASSUME TypeOK, GroupsLeft, TypeOK', Safe, ~twice', NEW p \in Procs, Write(p)
    PROVE  Safe'
<1> USE DEF TypeOK
<1>1. /\ pc[p] = "write" /\ pc' = [pc EXCEPT ![p] = "verify"]
      /\ now \notin used /\ used' = used \union {now}
      /\ final' = [final EXCEPT ![p] = now]
      /\ aside' = [aside EXCEPT ![now] = merged[p]]
      /\ UNCHANGED <<dir, groups, merged, doomed, now>>
  BY DEF Write, Goto, local
<1>2. Present' = Present /\ \A f, r : InFile(f, r)' <=> InFile(f, r)
  BY <1>1 DEF Present, InFile
<1>3. \A q \in Procs : Inputs(q)' = Inputs(q)
  BY <1>1 DEF Inputs
<1>4. now \in Names /\ now \notin Present
  BY <1>1 DEF Safe, OutputsNew, Names, IsOutput
<1>5. \A q \in Procs : q # p => (Pending(q)' <=> Pending(q)) /\ final'[q] = final[q]
  BY <1>1 DEF Pending
<1>6. ASSUME NEW q \in Procs, q # p, Pending(q)
      PROVE  final[q] \in used /\ final[q] # now /\ aside'[final[q]] = merged[q]
  BY <1>1, <1>4, <1>6 DEF Safe, OutputsNew
<1>7. \A q \in Procs : \A g \in groups[q] : now \notin g
  BY <1>1 DEF Safe, OutputsNew, IsOutput
<1>8. OutputsNew'
  <2>1. used' \subseteq 1 .. now'
    BY <1>1 DEF Safe, OutputsNew
  <2>2. \A f \in Present' : IsOutput(f) => f \in used'
    BY <1>1, <1>2 DEF Safe, OutputsNew
  <2>3. \A q \in Procs : \A g \in groups'[q] : \A f \in g : IsOutput(f) => f \in used'
    BY <1>1 DEF Safe, OutputsNew
  <2>4. ASSUME NEW q \in Procs, Pending(q)'
        PROVE  final'[q] \in used' /\ dir'[final'[q]] = None /\ aside'[final'[q]] = merged'[q]
    <3>1. CASE q = p
      BY <1>1, <1>4, <3>1 DEF Present
    <3>2. CASE q # p
      BY <1>1, <1>5, <1>6, <2>4, <3>2 DEF Safe, OutputsNew
    <3> QED
      BY <3>1, <3>2
  <2>5. ASSUME NEW q \in Procs, NEW s \in Procs, Pending(q)', NEW g \in groups'[s]
        PROVE  final'[q] \notin g
    <3>1. CASE q = p
      BY <1>1, <1>7, <3>1
    <3>2. CASE q # p
      BY <1>1, <1>5, <2>5, <3>2 DEF Safe, OutputsNew
    <3> QED
      BY <3>1, <3>2
  <2>6. ASSUME NEW q \in Procs, NEW s \in Procs, Pending(q)', Pending(s)', q # s
        PROVE  final'[q] # final'[s]
    <3>1. CASE q = p
      BY <1>1, <1>5, <1>6, <2>6, <3>1
    <3>2. CASE s = p
      BY <1>1, <1>5, <1>6, <2>6, <3>2
    <3>3. CASE q # p /\ s # p
      BY <1>5, <2>6, <3>3 DEF Safe, OutputsNew
    <3> QED
      BY <3>1, <3>2, <3>3
  <2> QED
    BY <2>1, <2>2, <2>3, <2>4, <2>5, <2>6 DEF OutputsNew, IsOutput
<1>9. InputsRead'
  <2>1. \A q \in Procs : HasRead(q)' => HasRead(q)
    BY <1>1 DEF HasRead, Pending
  <2>2. ASSUME NEW q \in Procs, Pending(q)', NEW f \in Inputs(q), IsOutput(f)
        PROVE  f < final'[q]
    <3>1. CASE q = p
      <4>1. Inputs(p) \in groups[p]
        BY <1>1, InputsAreGroup
      <4>2. f \in Inputs(p) /\ f # now
        BY <1>1, <1>7, <2>2, <3>1, <4>1
      <4>3. f \in used
        BY <1>1, <2>2, <4>1, <4>2 DEF Safe, OutputsNew
      <4>4. f \in 1 .. now
        BY <4>3 DEF Safe, OutputsNew
      <4> QED
        BY <1>1, <3>1, <4>2, <4>4
    <3>2. CASE q # p
      BY <1>5, <2>2, <3>2 DEF Safe, InputsRead
    <3> QED
      BY <3>1, <3>2
  <2> QED
    BY <1>1, <1>2, <1>3, <2>1, <2>2 DEF Safe, InputsRead, IsOutput
<1>10. OutputsKeep'
  <2>1. \A q \in Procs : pc'[q] = "remove" =>
           pc[q] = "remove" /\ final'[q] = final[q]
    BY <1>1
  <2> QED
    BY <1>1, <1>2, <1>3, <2>1 DEF Safe, OutputsKeep, IsOutput
<1> QED
  BY <1>8, <1>9, <1>10 DEF Safe

\* The output takes its name, and the inputs may go.
LEMMA ReplaceSafe ==
    ASSUME TypeOK, GroupsLeft, TypeOK', Safe, NEW p \in Procs, Replace(p),
           aside[final[p]] # None
    PROVE  Safe' /\ \A f, r : InFile(f, r) => InFile(f, r)'
<1> USE DEF TypeOK
<1>1. /\ pc[p] = "replace" /\ pc' = [pc EXCEPT ![p] = "remove"]
      /\ dir' = [dir EXCEPT ![final[p]] = aside[final[p]]]
      /\ aside' = [aside EXCEPT ![final[p]] = None]
      /\ doomed' = [doomed EXCEPT ![p] = Inputs(p)]
      /\ UNCHANGED <<groups, merged, final, now, used>>
  BY DEF Replace, Goto, bounds
<1>2. Pending(p) /\ HasRead(p)
  BY <1>1 DEF HasRead, Pending
<1>3. /\ final[p] \in used /\ final[p] \in 1 .. MaxNow /\ final[p] \in Names
      /\ dir[final[p]] = None /\ aside[final[p]] = merged[p]
  BY <1>2 DEF Safe, OutputsNew, Names
<1>4. \A f \in Names : f # final[p] => dir'[f] = dir[f]
  BY <1>1
<1>5. dir'[final[p]] = merged[p] /\ final[p] \in Present'
  BY <1>1, <1>3 DEF Present
<1>6. \A f : f # final[p] => \A r : InFile(f, r)' <=> InFile(f, r)
  BY <1>4 DEF InFile, Present
<1>7. \A f, r : InFile(f, r) => InFile(f, r)'
  BY <1>3, <1>6 DEF InFile, Present
<1>8. \A q \in Procs : Inputs(q)' = Inputs(q)
  BY <1>1 DEF Inputs
<1>9. \A q \in Procs : /\ Pending(q)' => Pending(q) /\ q # p
                       /\ HasRead(q)' => HasRead(q)
  BY <1>1 DEF HasRead, Pending
<1>10. \A q \in Procs : pc[q] # "idle" => final[p] \notin Inputs(q)
  BY <1>2, InputsAreGroup DEF Safe, OutputsNew
<1>11. OutputsNew'
  <2>1. \A f \in Present' : IsOutput(f) => f \in used'
    BY <1>1, <1>3, <1>4 DEF Safe, OutputsNew, Present
  <2>2. ASSUME NEW q \in Procs, Pending(q)'
        PROVE  final'[q] \in used' /\ dir'[final'[q]] = None /\ aside'[final'[q]] = merged'[q]
    <3>1. q # p /\ Pending(q) /\ final[q] # final[p]
      BY <1>2, <1>9, <2>2 DEF Safe, OutputsNew
    <3>2. final[q] \in used /\ dir[final[q]] = None /\ aside[final[q]] = merged[q]
      BY <3>1 DEF Safe, OutputsNew
    <3>3. final[q] \in Names
      BY <3>2 DEF Names
    <3> QED
      BY <1>1, <3>1, <3>2, <3>3
  <2> QED
    BY <1>1, <1>9, <2>1, <2>2 DEF Safe, OutputsNew, IsOutput
<1>12. InputsRead'
  <2>1. ASSUME NEW q \in Procs, HasRead(q)', NEW f \in Inputs(q), NEW r \in Rows,
               InFile(f, r)'
        PROVE  merged[q][r] > 0
    <3>1. HasRead(q) /\ pc[q] # "idle"
      BY <1>9, <2>1 DEF HasRead, Pending
    <3>2. InFile(f, r)
      BY <1>6, <1>10, <2>1, <3>1
    <3> QED
      BY <3>1, <3>2 DEF Safe, InputsRead
  <2> QED
    BY <1>1, <1>8, <1>9, <2>1 DEF Safe, InputsRead, IsOutput
<1>13. OutputsKeep'
  <2>1. ASSUME NEW q \in Procs, pc'[q] = "remove"
        PROVE  /\ IsOutput(final[q])
               /\ doomed'[q] \subseteq Inputs(q)
               /\ \A f \in doomed'[q] : IsOutput(f) => f < final[q]
               /\ \A f \in doomed'[q], r \in Rows : InFile(f, r)' => merged[q][r] > 0
               /\ \A r \in Rows : merged[q][r] > 0 =>
                     \E g \in 1 .. MaxNow : final[q] <= g /\ InFile(g, r)'
    <3>1. CASE q = p
      <4>1. doomed'[q] = Inputs(q) /\ pc[q] # "idle"
        BY <1>1, <3>1
      <4>2. \A f \in doomed'[q], r \in Rows : InFile(f, r)' => merged[q][r] > 0
        BY <1>2, <1>6, <1>10, <3>1, <4>1 DEF Safe, InputsRead
      <4>3. ASSUME NEW r \in Rows, merged[q][r] > 0
            PROVE  \E g \in 1 .. MaxNow : final[q] <= g /\ InFile(g, r)'
        <5>1. PICK n \in 1 .. MaxNow : n = final[q]
          BY <1>3, <3>1
        <5>2. n \in Present' /\ dir'[n][r] > 0
          BY <1>5, <3>1, <4>3, <5>1
        <5>3. n <= n
          BY <5>1
        <5> QED
          BY <5>1, <5>2, <5>3 DEF InFile
      <4> QED
        BY <1>2, <1>3, <3>1, <4>1, <4>2, <4>3 DEF Safe, InputsRead, IsOutput
    <3>2. CASE q # p
      <4>1. pc[q] = "remove" /\ doomed'[q] = doomed[q]
        BY <1>1, <2>1, <3>2
      <4>2. doomed[q] \subseteq Inputs(q)
        BY <4>1 DEF Safe, OutputsKeep
      <4>3. \A f \in doomed[q], r \in Rows : InFile(f, r)' => merged[q][r] > 0
        BY <1>6, <1>10, <4>1, <4>2 DEF Safe, OutputsKeep
      <4>4. \A r \in Rows : merged[q][r] > 0 =>
               \E g \in 1 .. MaxNow : final[q] <= g /\ InFile(g, r)'
        BY <1>7, <4>1 DEF Safe, OutputsKeep
      <4> QED
        BY <4>1, <4>2, <4>3, <4>4 DEF Safe, OutputsKeep
    <3> QED
      BY <3>1, <3>2
  <2> QED
    BY <1>1, <1>8, <2>1 DEF OutputsKeep, IsOutput
<1> QED
  BY <1>7, <1>11, <1>12, <1>13 DEF Safe

\* An input goes; whatever row it had is in an output that stays.
LEMMA RemoveSafe ==
    ASSUME TypeOK, GroupsLeft, TypeOK', Safe, NEW p \in Procs, RemoveInput(p)
    PROVE  /\ Safe'
           /\ \A f, r : r \in Rows /\ InFile(f, r) => \E g : InFile(g, r)'
<1> USE DEF TypeOK
<1> DEFINE d == Min(doomed[p])
<1>1. d \in doomed[p]
  BY MinIsLeast, NamesAreNumbers DEF RemoveInput
<1>2. /\ pc[p] = "remove"
      /\ dir' = [dir EXCEPT ![d] = None]
      /\ doomed' = [doomed EXCEPT ![p] = @ \ {d}]
      /\ UNCHANGED <<aside, pc, groups, merged, final, now, used>>
  BY DEF RemoveInput, bounds
<1> HIDE DEF d
<1>3. \A f, r : InFile(f, r)' <=> f # d /\ InFile(f, r)
  BY <1>1, <1>2 DEF InFile, Present
<1>4. \A q \in Procs : Inputs(q)' = Inputs(q)
  BY <1>2 DEF Inputs
<1>5. ASSUME NEW q \in Procs, pc[q] = "remove", NEW r \in Rows, merged[q][r] > 0
      PROVE  \E g \in 1 .. MaxNow : final[q] <= g /\ InFile(g, r)'
  <2>1. PICK g \in 1 .. MaxNow : final[q] <= g /\ InFile(g, r)
    BY <1>5 DEF Safe, OutputsKeep
  <2>2. CASE g = d
    <3>1. d < final[p] /\ merged[p][r] > 0
      BY <1>1, <1>2, <2>1, <2>2 DEF Safe, OutputsKeep, IsOutput
    <3>2. PICK h \in 1 .. MaxNow : final[p] <= h /\ InFile(h, r)
      BY <1>2, <3>1 DEF Safe, OutputsKeep
    <3>3. final[p] \in 1 .. MaxNow /\ final[q] \in 1 .. MaxNow
      BY <1>2, <1>5 DEF Safe, OutputsKeep, IsOutput
    <3>4. h # d /\ final[q] <= h
      BY <2>1, <2>2, <3>1, <3>2, <3>3
    <3> QED
      BY <1>3, <3>2, <3>4
  <2>3. CASE g # d
    BY <1>3, <2>1, <2>3
  <2> QED
    BY <2>2, <2>3
<1>6. \A f, r : r \in Rows /\ InFile(f, r) => \E g : InFile(g, r)'
  <2> SUFFICES ASSUME NEW f, NEW r \in Rows, InFile(f, r)
               PROVE  \E g : InFile(g, r)'
    OBVIOUS
  <2>1. CASE f = d
    <3>1. merged[p][r] > 0
      BY <1>1, <1>2, <2>1 DEF Safe, OutputsKeep
    <3> QED
      BY <1>2, <1>5, <3>1
  <2>2. CASE f # d
    BY <1>3, <2>2
  <2> QED
    BY <2>1, <2>2
<1>7. Present' \subseteq Present /\ \A f \in Names : dir[f] = None => dir'[f] = None
  BY <1>2 DEF Present
<1>8. \A q \in Procs : (Pending(q)' <=> Pending(q)) /\ (HasRead(q)' <=> HasRead(q))
  BY <1>2 DEF HasRead, Pending
<1>9. \A q \in Procs : Pending(q) => final[q] \in Names
  BY DEF Safe, OutputsNew, Names
<1>10. OutputsNew'
  BY <1>2, <1>7, <1>8, <1>9 DEF Safe, OutputsNew, IsOutput
<1>11. InputsRead'
  BY <1>2, <1>3, <1>4, <1>8 DEF Safe, InputsRead, IsOutput
<1>12. OutputsKeep'
  <2>1. \A q \in Procs : doomed'[q] \subseteq doomed[q]
    BY <1>2
  <2> QED
    BY <1>2, <1>3, <1>4, <1>5, <2>1 DEF Safe, OutputsKeep, IsOutput
<1> QED
  BY <1>6, <1>10, <1>11, <1>12 DEF Safe

LEMMA InitSafe == Init => Safe
<1> SUFFICES ASSUME Init PROVE Safe
  OBVIOUS
<1>1. \A p \in Procs : pc[p] = "idle" /\ groups[p] = {}
  BY DEF Init
<1>2. Present \subseteq Parts
  BY DEF Init, Present
<1>3. \A f \in Present : ~ IsOutput(f)
  BY <1>2, CompactionAssumption DEF IsOutput
<1> QED
  BY <1>1, <1>3 DEF Init, Safe, OutputsNew, InputsRead, OutputsKeep, HasRead, Pending

\* Every row starts in the part it was written to.
LEMMA InitHeld == Init => \A r \in Row : \E f : InFile(f, r)
<1> SUFFICES ASSUME Init, NEW r \in Row PROVE \E f : InFile(f, r)
  OBVIOUS
<1>1. PICK f \in Parts : r \in RowsOf[f]
  BY DEF Row
<1>2. f \in Names /\ r \in Rows
  BY <1>1, CompactionAssumption DEF Names
<1>3. dir[f] = [q \in Rows |-> IF q \in RowsOf[f] THEN 1 ELSE 0]
  BY <1>1, <1>2 DEF Init
<1>4. dir[f] \in [Rows -> Nat] /\ dir[f][r] > 0
  BY <1>1, <1>2, <1>3
<1> QED
  BY <1>2, <1>4, CompactionAssumption DEF Present, InFile

\* Every step keeps the outputs safe, and every row in some file.
LEMMA SafeStep ==
    ASSUME TypeOK, GroupsLeft, TypeOK', Safe, ~twice', [Next]_vars
    PROVE  Safe' /\ \A r \in Rows : (\E f : InFile(f, r)) => (\E f : InFile(f, r)')
<1> DEFINE Goal == Safe' /\ \A r \in Rows : (\E f : InFile(f, r)) => (\E f : InFile(f, r)')
<1>1. ASSUME dir' = dir, Safe' PROVE Goal
  BY <1>1 DEF InFile, Present
<1> USE DEF local, bounds
<1>2. CASE Tick
  <2>1. UNCHANGED <<dir, final, doomed, used, groups, pc, aside, merged>> /\ now <= now'
    BY <1>2 DEF Tick, TypeOK
  <2>2. Safe'
    BY <2>1, QuietSafe DEF HasRead, Pending
  <2> QED
    BY <1>1, <2>1, <2>2
<1>3. CASE Kill
  <2>1. /\ UNCHANGED <<dir, final, used, aside, merged>> /\ now <= now'
        /\ \A p \in Procs : pc'[p] = "idle" /\ groups'[p] = {}
    BY <1>3 DEF Kill, TypeOK
  <2>2. Safe'
    BY <2>1, QuietSafe DEF HasRead, Pending
  <2> QED
    BY <1>1, <2>1, <2>2
<1>4. ASSUME NEW p \in Procs, Plan(p) PROVE Goal
  <2>1. /\ UNCHANGED <<dir, final, used, aside, merged, doomed>> /\ now <= now'
        /\ pc' = [pc EXCEPT ![p] = "meta"]
        /\ groups' = [groups EXCEPT ![p] = PlanGroups]
    BY <1>4 DEF Plan, Goto, TypeOK
  <2>2. \A q \in Procs : \A g \in groups'[q] : g \in groups[q] \/ g \subseteq Present
    BY <2>1, PlannedGroups DEF TypeOK
  <2>3. Safe'
    BY <2>1, <2>2, QuietSafe DEF HasRead, Pending, TypeOK
  <2> QED
    BY <1>1, <2>1, <2>3
<1>5. ASSUME NEW p \in Procs, Meta(p) PROVE Goal
  <2>1. /\ UNCHANGED <<dir, final, used, aside, merged, doomed>> /\ now <= now'
        /\ \/ pc' = [pc EXCEPT ![p] = "read"] /\ groups' = groups
           \/ pc' = [pc EXCEPT ![p] = "idle"] /\ groups' = [groups EXCEPT ![p] = {}]
    BY <1>5 DEF Meta, Abort, Goto, TypeOK
  <2>2. Safe'
    BY <2>1, QuietSafe DEF HasRead, Pending, TypeOK
  <2> QED
    BY <1>1, <2>1, <2>2
<1>6. ASSUME NEW p \in Procs, Read(p) PROVE Goal
  <2>1. UNCHANGED <<dir, final, used, aside, doomed>> /\ now <= now' /\ pc[p] = "read"
    BY <1>6 DEF Read, TypeOK
  <2>2. CASE Readable(p)
    <3>1. /\ pc' = [pc EXCEPT ![p] = "write"] /\ groups' = groups
          /\ merged' = [merged EXCEPT ![p] = Plus(Inputs(p))]
      BY <1>6, <2>2 DEF Read, Goto
    <3>2. \A f \in Inputs(p), r \in Rows : InFile(f, r) => Plus(Inputs(p))[r] > 0
      BY <2>2, PlusHolds DEF Readable, InFile
    <3>3. \A f \in Inputs(p), r \in Rows : InFile(f, r) => merged'[p][r] > 0
      BY <3>1, <3>2 DEF TypeOK
    <3>4. Safe'
      BY <2>1, <3>1, <3>3, QuietSafe DEF HasRead, Pending, TypeOK
    <3> QED
      BY <1>1, <2>1, <3>4
  <2>3. CASE ~ Readable(p)
    <3>1. /\ pc' = [pc EXCEPT ![p] = "idle"] /\ groups' = [groups EXCEPT ![p] = {}]
          /\ merged' = merged
      BY <1>6, <2>3 DEF Read, Abort, Goto
    <3>2. Safe'
      BY <2>1, <3>1, QuietSafe DEF HasRead, Pending, TypeOK
    <3> QED
      BY <1>1, <2>1, <3>2
  <2> QED
    BY <2>2, <2>3
<1>7. ASSUME NEW p \in Procs, Write(p) PROVE Goal
  <2>1. dir' = dir
    BY <1>7 DEF Write
  <2> QED
    BY <1>1, <1>7, <2>1, WriteSafe
<1>8. ASSUME NEW p \in Procs, Verify(p) PROVE Goal
  <2>1. /\ UNCHANGED <<dir, final, used, merged, doomed>> /\ now <= now'
        /\ Pending(p)
    BY <1>8 DEF Verify, TypeOK, Pending
  <2>2. \/ pc' = [pc EXCEPT ![p] = "replace"] /\ groups' = groups /\ aside' = aside
        \/ /\ pc' = [pc EXCEPT ![p] = "idle"] \/ pc' = [pc EXCEPT ![p] = "meta"]
           /\ \A q \in Procs : q # p => groups'[q] = groups[q]
           /\ groups'[p] \subseteq groups[p]
           /\ aside' = aside \/ aside' = [aside EXCEPT ![final[p]] = None]
    BY <1>8 DEF Verify, Abort, NextGroup, Goto, TypeOK
  <2>3. \A q \in Procs : q # p /\ Pending(q) => final[q] # final[p] /\ final[q] \in Names
    BY <2>1 DEF Safe, OutputsNew, Names, TypeOK
  <2>4. \A q \in Procs : Pending(q)' => Pending(q) /\ aside'[final[q]] = aside[final[q]]
    BY <2>1, <2>2, <2>3 DEF Pending, TypeOK
  <2>5. Safe'
    BY <2>1, <2>2, <2>4, QuietSafe DEF HasRead, Pending, TypeOK
  <2> QED
    BY <1>1, <2>1, <2>5
<1>9. ASSUME NEW p \in Procs, Replace(p) PROVE Goal
  <2>1. CASE aside[final[p]] # None
    BY <1>9, <2>1, ReplaceSafe
  <2>2. CASE aside[final[p]] = None
    <3>1. /\ UNCHANGED <<dir, final, used, merged, doomed, aside>> /\ now <= now'
          /\ pc' = [pc EXCEPT ![p] = "idle"] /\ groups' = [groups EXCEPT ![p] = {}]
      BY <1>9, <2>2 DEF Replace, Abort, Goto, TypeOK
    <3>2. Safe'
      BY <3>1, QuietSafe DEF HasRead, Pending, TypeOK
    <3> QED
      BY <1>1, <3>1, <3>2
  <2> QED
    BY <2>1, <2>2
<1>10. ASSUME NEW p \in Procs, RemoveInput(p) PROVE Goal
  BY <1>10, RemoveSafe
<1>11. ASSUME NEW p \in Procs, Finish(p) PROVE Goal
  <2>1. UNCHANGED <<dir, final, used, merged, doomed, aside>> /\ now <= now'
    BY <1>11 DEF Finish, TypeOK
  <2>2. pc' = [pc EXCEPT ![p] = "idle"] \/ pc' = [pc EXCEPT ![p] = "meta"]
    BY <1>11 DEF Finish, NextGroup, Goto
  <2>3. groups' = [groups EXCEPT ![p] = @ \ {Inputs(p)}]
    BY <1>11 DEF Finish, NextGroup
  <2>4. \A q \in Procs : groups'[q] \subseteq groups[q]
    BY <2>3 DEF TypeOK
  <2>5. Safe'
    <3>1. \A q \in Procs : /\ pc'[q] # "idle" /\ pc'[q] # "meta" => pc'[q] = pc[q]
                           /\ q # p => groups'[q] = groups[q]
                           /\ pc'[p] = "idle" \/ pc'[p] = "meta"
      BY <2>2, <2>3 DEF TypeOK
    <3> QED
      BY <2>1, <2>4, <3>1, QuietSafe DEF HasRead, Pending
  <2> QED
    BY <1>1, <2>1, <2>5
<1>12. CASE UNCHANGED vars
  <2>1. UNCHANGED <<dir, final, doomed, used, groups, pc, aside, merged>> /\ now <= now'
    BY <1>12 DEF vars, TypeOK
  <2>2. Safe'
    BY <2>1, QuietSafe DEF HasRead, Pending
  <2> QED
    BY <1>1, <2>1, <2>2
<1> QED
  BY <1>2, <1>3, <1>4, <1>5, <1>6, <1>7, <1>8, <1>9, <1>10, <1>11, <1>12
  DEF Next, Group

LostInv == TypeOK /\ GroupsLeft /\ (~twice => Safe /\ NoRowLost)

\* twice is for good.
LEMMA TwiceStays == TypeOK /\ twice /\ [Next]_vars => twice'
BY DEF TypeOK, Next, Tick, Kill, Plan, Group, Meta, Read, Write, Verify, Replace,
   RemoveInput, Finish, vars, bounds

LEMMA LostStep == LostInv /\ [Next]_vars => LostInv'
<1> SUFFICES ASSUME LostInv, [Next]_vars PROVE LostInv'
  OBVIOUS
<1>1. TypeOK' /\ GroupsLeft'
  BY TypeStep DEF LostInv
<1>2. ASSUME ~twice' PROVE Safe' /\ NoRowLost'
  <2>1. ~twice
    BY <1>2, TwiceStays DEF LostInv
  <2>2. Safe' /\ \A r \in Rows : (\E f : InFile(f, r)) => (\E f : InFile(f, r)')
    BY <1>1, <1>2, <2>1, SafeStep DEF LostInv
  <2>3. \A r \in Row : \E f : InFile(f, r)
    BY <2>1 DEF LostInv, NoRowLost, InFile
  <2>4. \A r \in Row : \E f : InFile(f, r)'
    BY <2>2, <2>3, RowsOfParts
  <2> QED
    BY <2>2, <2>4 DEF NoRowLost, InFile
<1> QED
  BY <1>1, <1>2 DEF LostInv

\* compaction.py:10-11, "the one operation that can destroy data": every row
\* written stays in some file at every moment, for any number of callers that
\* overlap in any way and any number of kills, until two outputs have been
\* named in the same second.
THEOREM NothingLost == Spec => []NoRowLost
<1>1. Init => LostInv
  BY InitTypes, InitSafe, InitHeld DEF LostInv, NoRowLost, InFile
<1>2. LostInv /\ [Next]_vars => LostInv'
  BY LostStep
<1>3. LostInv => NoRowLost
  BY DEF LostInv, NoRowLost
<1> QED
  BY <1>1, <1>2, <1>3, PTL DEF Spec

-----------------------------------------------------------------------------
(* Every row once *)

\* Of the files of S exactly one has the row, and has it once.
Once(S) == \A r \in Row : \E f \in S :
              dir[f][r] = 1 /\ \A g \in S : g # f => dir[g][r] = 0

\* A single call that is not killed: every row is in one file, or in one of
\* those that are not about to go; and what was read is still what there is.
Solo ==
    /\ \A p, q \in Procs : pc[p] # "idle" /\ pc[q] # "idle" => p = q
    /\ (\A p \in Procs : pc[p] # "remove") => Once(Present)
    /\ \A p \in Procs : pc[p] = "remove" => Once(Present \ doomed[p])
    /\ \A p \in Procs : HasRead(p) =>
          Inputs(p) \subseteq Present /\ merged[p] = Plus(Inputs(p))

OnceInv == LostInv /\ (kills = 0 /\ ~overlapped /\ ~twice => Solo)

\* The bag of some files has a row once if they have the one copy of it, and
\* not at all otherwise.
LEMMA PlusOfOnce ==
    ASSUME TypeOK, NEW S, S \subseteq Present, NEW r \in Rows, NEW f \in Present,
           dir[f][r] = 1, \A g \in Present : g # f => dir[g][r] = 0
    PROVE  Plus(S)[r] = IF f \in S THEN 1 ELSE 0
<1>1. \A g \in S : g # f => 1 .. dir[g][r] = {}
  OBVIOUS
<1>2. 1 .. dir[f][r] = {1}
  OBVIOUS
<1>3. CopiesIn(S, r) = IF f \in S THEN {<<f, 1>>} ELSE {}
  <2>1. CASE f \in S
    BY <1>1, <1>2, <2>1 DEF CopiesIn
  <2>2. CASE f \notin S
    BY <1>1, <2>2 DEF CopiesIn
  <2> QED
    BY <2>1, <2>2
<1>4. Cardinality({<<f, 1>>}) = 1 /\ Cardinality({}) = 0
  BY FS_Singleton, FS_EmptySet
<1> QED
  BY <1>3, <1>4 DEF Plus

LEMMA InitOnce == Init => Once(Present)
<1> SUFFICES ASSUME Init, NEW r \in Row
             PROVE  \E f \in Present : /\ dir[f][r] = 1
                                       /\ \A g \in Present : g # f => dir[g][r] = 0
  BY DEF Once
<1>1. PICK f \in Parts : r \in RowsOf[f]
  BY DEF Row
<1>2. \A g \in Parts : dir[g] = [q \in Rows |-> IF q \in RowsOf[g] THEN 1 ELSE 0]
  BY CompactionAssumption DEF Init, Names
<1>3. r \in Rows
  BY RowsOfParts
<1>4. \A g \in Parts : g # f => r \notin RowsOf[g]
  BY <1>1, CompactionAssumption
<1>5. Present \subseteq Parts
  BY DEF Init, Present
<1>6. dir[f] = [q \in Rows |-> IF q \in RowsOf[f] THEN 1 ELSE 0]
  BY <1>2
<1>7. dir[f] \in [Rows -> Nat] /\ dir[f][r] = 1
  BY <1>1, <1>3, <1>6
<1>8. f \in Present
  BY <1>7, CompactionAssumption DEF Present, Names
<1>9. ASSUME NEW g \in Present, g # f PROVE dir[g][r] = 0
  <2>1. dir[g] = [q \in Rows |-> IF q \in RowsOf[g] THEN 1 ELSE 0] /\ r \notin RowsOf[g]
    BY <1>2, <1>4, <1>5, <1>9
  <2> QED
    BY <1>3, <2>1
<1> QED
  BY <1>7, <1>8, <1>9

\* Putting the output in place of its inputs leaves every row once.
LEMMA ReplaceOnce ==
    ASSUME TypeOK, NEW S, NEW n \in Names, NEW b \in Bag, S \subseteq Present,
           dir[n] = None, b = Plus(S), dir' = [dir EXCEPT ![n] = b], b # None,
           Once(Present)
    PROVE  Once(Present \ S)'
<1>1. n \notin Present /\ n \notin S /\ Present' = Present \union {n}
  BY DEF Present, TypeOK
<1>2. \A f \in Present : f # n /\ dir'[f] = dir[f]
  BY <1>1 DEF Present, TypeOK
<1>3. dir'[n] = b
  BY DEF TypeOK
<1>4. ASSUME NEW r \in Row
      PROVE  \E f \in Present' \ S : /\ dir'[f][r] = 1
                                     /\ \A g \in Present' \ S : g # f => dir'[g][r] = 0
  <2>1. PICK f \in Present : /\ dir[f][r] = 1
                             /\ \A g \in Present : g # f => dir[g][r] = 0
    BY <1>4 DEF Once
  <2>2. b[r] = IF f \in S THEN 1 ELSE 0
    BY <2>1, PlusOfOnce, RowsOfParts
  <2>3. CASE f \in S
    <3>1. dir'[n][r] = 1 /\ \A g \in Present' \ S : g # n => dir'[g][r] = 0
      BY <1>1, <1>2, <1>3, <2>1, <2>2, <2>3
    <3> QED
      BY <1>1, <3>1
  <2>4. CASE f \notin S
    <3>1. dir'[f][r] = 1 /\ \A g \in Present' \ S : g # f => dir'[g][r] = 0
      BY <1>1, <1>2, <1>3, <2>1, <2>2, <2>4
    <3> QED
      BY <1>1, <2>4, <3>1
  <2> QED
    BY <2>3, <2>4
<1> QED
  BY <1>4 DEF Once

\* A step of the only call there is, when it leaves the files alone.
LEMMA QuietSolo ==
    ASSUME Solo, dir' = dir,
           \A p, q \in Procs : pc'[p] # "idle" /\ pc'[q] # "idle" => p = q,
           \A p \in Procs : pc'[p] = "remove" => pc[p] = "remove" /\ doomed'[p] = doomed[p],
           \A p \in Procs : pc[p] = "remove" => pc'[p] = "remove" \/ doomed[p] = {},
           \A p \in Procs : HasRead(p)' =>
              Inputs(p)' \subseteq Present /\ merged'[p] = Plus(Inputs(p)')
    PROVE  Solo'
<1>1. Present' = Present
  BY DEF Present
<1>2. ASSUME \A p \in Procs : pc'[p] # "remove"
      PROVE  Once(Present)'
  <2>1. Once(Present)
    <3>1. CASE \A p \in Procs : pc[p] # "remove"
      BY <3>1 DEF Solo
    <3>2. CASE \E p \in Procs : pc[p] = "remove"
      <4>1. PICK p \in Procs : pc[p] = "remove"
        BY <3>2
      <4>2. doomed[p] = {} /\ Present \ doomed[p] = Present
        BY <1>2, <4>1
      <4> QED
        BY <4>1, <4>2 DEF Solo
    <3> QED
      BY <3>1, <3>2
  <2> QED
    BY <1>1, <2>1 DEF Once
<1>3. ASSUME NEW p \in Procs, pc'[p] = "remove"
      PROVE  Once(Present \ doomed[p])'
  <2>1. Once(Present \ doomed[p])
    BY <1>3 DEF Solo
  <2> QED
    BY <1>1, <1>3, <2>1 DEF Once
<1>4. ASSUME NEW p \in Procs, HasRead(p)'
      PROVE  Inputs(p)' \subseteq Present' /\ merged'[p] = Plus(Inputs(p))'
  BY <1>1, <1>4 DEF Plus, CopiesIn
<1> QED
  BY <1>2, <1>3, <1>4 DEF Solo

LEMMA SoloStep ==
    ASSUME TypeOK, GroupsLeft, TypeOK', Safe, Solo, [Next]_vars,
           kills' = 0, ~overlapped', ~twice'
    PROVE  Solo'
<1> USE DEF local, bounds
<1>1. CASE Tick
  <2>1. UNCHANGED <<dir, doomed, groups, pc, merged>>
    BY <1>1 DEF Tick
  <2> QED
    BY <2>1, QuietSolo DEF HasRead, Pending, Solo, Inputs
<1>2. CASE Kill
  BY <1>2 DEF Kill, TypeOK
<1>3. ASSUME NEW p \in Procs, Plan(p) PROVE Solo'
  <2>1. /\ UNCHANGED <<dir, merged, doomed>>
        /\ pc' = [pc EXCEPT ![p] = "meta"]
        /\ \A q \in Procs : pc[q] = "idle"
    BY <1>3 DEF Plan, Goto, TypeOK
  <2>2. \A q \in Procs : pc'[q] = IF q = p THEN "meta" ELSE "idle"
    BY <2>1 DEF TypeOK
  <2> QED
    BY <2>1, <2>2, QuietSolo DEF HasRead, Pending
<1>4. ASSUME NEW p \in Procs, pc[p] # "idle" PROVE \A q \in Procs : q # p => pc[q] = "idle"
  BY <1>4 DEF Solo
<1>5. ASSUME NEW p \in Procs, Meta(p) PROVE Solo'
  <2>1. /\ UNCHANGED <<dir, merged, doomed>>
        /\ pc' = [pc EXCEPT ![p] = "read"] \/ pc' = [pc EXCEPT ![p] = "idle"]
        /\ pc[p] = "meta"
    BY <1>5 DEF Meta, Abort, Goto
  <2>2. \A q \in Procs : pc'[q] = "idle" \/ (q = p /\ pc'[q] = "read")
    BY <1>4, <2>1 DEF TypeOK
  <2> QED
    BY <1>4, <2>1, <2>2, QuietSolo DEF HasRead, Pending
<1>6. ASSUME NEW p \in Procs, Read(p) PROVE Solo'
  <2>1. UNCHANGED <<dir, doomed>> /\ pc[p] = "read"
    BY <1>6 DEF Read
  <2>2. CASE Readable(p)
    <3>1. /\ pc' = [pc EXCEPT ![p] = "write"] /\ groups' = groups
          /\ merged' = [merged EXCEPT ![p] = Plus(Inputs(p))]
      BY <1>6, <2>2 DEF Read, Goto
    <3>2. Inputs(p)' = Inputs(p) /\ merged'[p] = Plus(Inputs(p)) /\ Inputs(p) \subseteq Present
      BY <2>2, <3>1 DEF TypeOK, Inputs, Readable
    <3>3. \A q \in Procs : pc'[q] = "idle" \/ (q = p /\ pc'[q] = "write")
      BY <1>4, <2>1, <3>1 DEF TypeOK
    <3> QED
      BY <1>4, <2>1, <3>2, <3>3, QuietSolo DEF HasRead, Pending
  <2>3. CASE ~ Readable(p)
    <3>1. pc' = [pc EXCEPT ![p] = "idle"]
      BY <1>6, <2>3 DEF Read, Abort, Goto
    <3>2. \A q \in Procs : pc'[q] = "idle"
      BY <1>4, <2>1, <3>1 DEF TypeOK
    <3> QED
      BY <1>4, <2>1, <3>2, QuietSolo DEF HasRead, Pending
  <2> QED
    BY <2>2, <2>3
<1>7. ASSUME NEW p \in Procs, HasRead(p), UNCHANGED <<dir, doomed, merged>>,
             \/ pc' = [pc EXCEPT ![p] = "verify"] /\ groups' = groups
             \/ pc' = [pc EXCEPT ![p] = "replace"] /\ groups' = groups
             \/ pc' = [pc EXCEPT ![p] = "idle"]
             \/ pc' = [pc EXCEPT ![p] = "meta"]
      PROVE  Solo'
  <2>1. pc[p] # "idle" /\ pc[p] # "remove"
    BY <1>7 DEF HasRead, Pending
  <2>2. \A q \in Procs : \/ pc'[q] = "idle"
                         \/ q = p /\ pc'[q] \in {"verify", "replace"} /\ groups' = groups
                         \/ q = p /\ pc'[q] = "meta"
    BY <1>4, <1>7, <2>1 DEF TypeOK
  <2>3. Inputs(p) \subseteq Present /\ merged[p] = Plus(Inputs(p))
    BY <1>7 DEF Solo
  <2>4. groups' = groups => Inputs(p)' = Inputs(p)
    BY DEF Inputs
  <2> QED
    BY <1>4, <1>7, <2>1, <2>2, <2>3, <2>4, QuietSolo DEF HasRead, Pending
<1>8. ASSUME NEW p \in Procs, Write(p) PROVE Solo'
  BY <1>7, <1>8 DEF Write, Goto, HasRead
<1>9. ASSUME NEW p \in Procs, Verify(p) PROVE Solo'
  <2>1. HasRead(p) /\ UNCHANGED <<dir, doomed, merged>>
    BY <1>9 DEF Verify, HasRead, Pending
  <2>2. \/ pc' = [pc EXCEPT ![p] = "replace"] /\ groups' = groups
        \/ pc' = [pc EXCEPT ![p] = "idle"]
        \/ pc' = [pc EXCEPT ![p] = "meta"]
    BY <1>9 DEF Verify, Abort, NextGroup, Goto
  <2> QED
    BY <1>7, <2>1, <2>2
<1>10. ASSUME NEW p \in Procs, Replace(p) PROVE Solo'
  <2>1. pc[p] = "replace" /\ HasRead(p) /\ Pending(p)
    BY <1>10 DEF Replace, HasRead, Pending
  <2>2. CASE aside[final[p]] = None
    <3>1. UNCHANGED <<dir, doomed, merged>> /\ pc' = [pc EXCEPT ![p] = "idle"]
      BY <1>10, <2>2 DEF Replace, Abort, Goto
    <3> QED
      BY <1>7, <2>1, <3>1
  <2>3. CASE aside[final[p]] # None
    <3>1. /\ dir' = [dir EXCEPT ![final[p]] = aside[final[p]]]
          /\ doomed' = [doomed EXCEPT ![p] = Inputs(p)]
          /\ pc' = [pc EXCEPT ![p] = "remove"]
      BY <1>10, <2>3 DEF Replace, Goto
    <3>2. \A q \in Procs : pc'[q] = IF q = p THEN "remove" ELSE "idle"
      BY <1>4, <2>1, <3>1 DEF TypeOK
    <3>3. PICK n \in Names : n = final[p]
      BY <2>1 DEF Safe, OutputsNew, Names, TypeOK
    <3>4. PICK b \in Bag : b = merged[p]
      BY DEF TypeOK
    <3>5. PICK S \in SUBSET Names : S = Inputs(p)
      BY <2>1, InputsAreGroup
    <3>6. dir[n] = None /\ aside[n] = b /\ b # None
      BY <2>1, <2>3, <3>3, <3>4 DEF Safe, OutputsNew
    <3>7. S \subseteq Present /\ b = Plus(S)
      BY <2>1, <3>4, <3>5 DEF Solo
    <3>8. Once(Present)
      BY <1>4, <2>1 DEF Solo
    <3>9. Once(Present \ S)'
      BY <3>1, <3>3, <3>6, <3>7, <3>8, ReplaceOnce
    <3>10. doomed'[p] = S
      BY <3>1, <3>5 DEF TypeOK
    <3>11. Once(Present \ doomed[p])'
      BY <3>9, <3>10 DEF Once
    <3> QED
      BY <3>2, <3>11 DEF Solo, HasRead, Pending
  <2> QED
    BY <2>2, <2>3
<1>11. ASSUME NEW p \in Procs, RemoveInput(p) PROVE Solo'
  <2>1. PICK d \in Names : d = Min(doomed[p])
    BY <1>11, MinIsLeast, NamesAreNumbers DEF RemoveInput, TypeOK
  <2>2. d \in doomed[p]
    BY <1>11, <2>1, MinIsLeast, NamesAreNumbers DEF RemoveInput, TypeOK
  <2>3. /\ pc[p] = "remove" /\ pc' = pc
        /\ dir' = [dir EXCEPT ![d] = None]
        /\ doomed' = [doomed EXCEPT ![p] = @ \ {d}]
    BY <1>11, <2>1 DEF RemoveInput
  <2>4. Present' \ doomed'[p] = Present \ doomed[p]
    BY <2>2, <2>3 DEF Present, TypeOK
  <2>5. \A f \in Present \ doomed[p] : dir'[f] = dir[f]
    BY <2>2, <2>3 DEF Present, TypeOK
  <2>6. Once(Present \ doomed[p])
    BY <2>3 DEF Solo
  <2>7. Once(Present \ doomed[p])'
    BY <2>4, <2>5, <2>6 DEF Once
  <2> QED
    BY <1>4, <2>3, <2>7 DEF Solo, HasRead, Pending
<1>12. ASSUME NEW p \in Procs, Finish(p) PROVE Solo'
  <2>1. /\ UNCHANGED <<dir, doomed, merged>> /\ pc[p] = "remove" /\ doomed[p] = {}
        /\ pc' = [pc EXCEPT ![p] = "idle"] \/ pc' = [pc EXCEPT ![p] = "meta"]
    BY <1>12 DEF Finish, NextGroup, Goto
  <2>2. \A q \in Procs : pc'[q] = "idle" \/ (q = p /\ pc'[q] = "meta")
    BY <1>4, <2>1 DEF TypeOK
  <2> QED
    BY <1>4, <2>1, <2>2, QuietSolo DEF HasRead, Pending
<1>13. CASE UNCHANGED vars
  <2>1. UNCHANGED <<dir, doomed, groups, pc, merged>>
    BY <1>13 DEF vars
  <2> QED
    BY <2>1, QuietSolo DEF HasRead, Pending, Solo, Inputs
<1> QED
  BY <1>1, <1>2, <1>3, <1>5, <1>6, <1>8, <1>9, <1>10, <1>11, <1>12, <1>13
  DEF Next, Group

\* Overlapping and being killed are for good.
LEMMA OverlapStays ==
    ASSUME TypeOK, [Next]_vars
    PROVE  /\ overlapped => overlapped'
           /\ kills' = 0 => kills = 0
BY DEF TypeOK, Next, Tick, Kill, Plan, Group, Meta, Read, Write, Verify, Replace,
   RemoveInput, Finish, vars, bounds

LEMMA OnceIsOneCopy ==
    ASSUME TypeOK, Once(Present), NEW r \in Row
    PROVE  Copies(r) = 1
<1>1. PICK f \in Present : /\ dir[f][r] = 1
                           /\ \A g \in Present : g # f => dir[g][r] = 0
  BY DEF Once
<1>2. Plus(Present)[r] = 1
  BY <1>1, PlusOfOnce, RowsOfParts
<1> QED
  BY <1>2, RowsOfParts DEF Plus, Copies

\* A directory that is compacted by one caller at a time, and whose compaction
\* is not killed, holds every row exactly once whenever no call runs, until
\* two outputs have been named in the same second.
THEOREM EveryRowOnce == Spec => []RowsOnce
<1>1. Init => OnceInv
  <2> SUFFICES ASSUME Init PROVE OnceInv
    OBVIOUS
  <2>1. LostInv
    BY InitTypes, InitSafe, InitHeld DEF LostInv, NoRowLost, InFile
  <2>2. \A p \in Procs : pc[p] = "idle"
    BY DEF Init
  <2> QED
    BY <2>1, <2>2, InitOnce DEF OnceInv, Solo, HasRead, Pending
<1>2. OnceInv /\ [Next]_vars => OnceInv'
  <2> SUFFICES ASSUME OnceInv, [Next]_vars PROVE OnceInv'
    OBVIOUS
  <2>1. LostInv'
    BY LostStep DEF OnceInv
  <2>2. ASSUME kills' = 0, ~overlapped', ~twice' PROVE Solo'
    <3>1. TypeOK /\ GroupsLeft /\ TypeOK' /\ Safe /\ Solo
      BY <2>1, <2>2, OverlapStays, TwiceStays DEF OnceInv, LostInv
    <3> QED
      BY <2>2, <3>1, SoloStep
  <2> QED
    BY <2>1, <2>2 DEF OnceInv
<1>3. OnceInv => RowsOnce
  <2> SUFFICES ASSUME OnceInv PROVE RowsOnce
    OBVIOUS
  <2>1. TypeOK
    BY DEF OnceInv, LostInv
  <2>2. ASSUME kills = 0, ~overlapped, ~twice, \A p \in Procs : pc[p] = "idle"
        PROVE  Once(Present)
    BY <2>2 DEF OnceInv, Solo
  <2> QED
    BY <2>1, <2>2, OnceIsOneCopy DEF RowsOnce
<1> QED
  BY <1>1, <1>2, <1>3, PTL DEF Spec
=============================================================================
