--------------------------- MODULE McpUsersProofs ---------------------------
(***************************************************************************)
(* What the users file keeps for every number of admin processes, keys,    *)
(* quotas and restarts.  KeptInv is the part about entries: until two      *)
(* saves overlap a save writes a file of its own, and every process has in *)
(* memory what is in the file or reads it before it counts on it.          *)
(* UsersInv adds what is counted: exact until then, and from then on       *)
(* a budget that every save of a process that does not authorize extends.  *)
(***************************************************************************)
EXTENDS McpUsers, FiniteSetTheorems, TLAPS

USE McpUsersAssumption

Busy(p) == pc[p] # "idle"

\* Every entry anywhere, and every key counted, is of a key that was made.
KeysMade ==
    /\ \A p \in Procs, k \in Keys : mem[p][k] # None => k <= made
    /\ \A k \in Keys : main.data # Torn /\ main.data[k] # None => k <= made
    /\ \A k \in Keys : tmp.data # Torn /\ tmp.data[k] # None => k <= made
    /\ \A p \in Procs : Busy(p) => call[p] # NoCall /\ call[p].key <= made
    /\ \A k \in Keys : k > made => granted[k] = [day |-> 0, minute |-> 0]

Handles ==
    \A p \in Procs : /\ handle[p] # "gone" => pc[p] = "write"
                     /\ call[p].fn = "authorize" => p \in Gates

\* One save at a time: it writes a file of its own and installs it.
Alone ==
    /\ \A p, q \in Procs : Busy(p) /\ Busy(q) => p = q
    /\ main.data # Torn /\ (main.stamp = 0 => main.data = Nobody)
    /\ \A p \in Procs :
          /\ loaded[p] <= main.stamp
          /\ pc[p] = "write" => handle[p] = "tmp" /\ tmp.data = Torn
          /\ pc[p] = "replace" => tmp.data = mem[p] /\ tmp.stamp > main.stamp
          /\ pc[p] = "stamp" => main.data = mem[p]

\* p has in memory what is in the file, or what it is about to write.
Current(p) == Busy(p) \/ loaded[p] = main.stamp

Keeps(p) ==
    \A k \in Keys : main.data[k] # None =>
        /\ mem[p][k] # None
        /\ \/ mem[p][k].off = main.data[k].off
           \/ Busy(p) /\ call[p].fn \in {"disable", "enable"} /\ call[p].key = k

Switched ==
    /\ \A p \in Procs : Current(p) => Keeps(p)
    /\ \A p \in Procs : Busy(p) =>
          /\ call[p].fn = "create_user" => mem[p][call[p].key] # None
          /\ call[p].fn = "disable" => mem[p][call[p].key] # None /\ mem[p][call[p].key].off
          /\ call[p].fn \in {"authorize", "enable"} => call[p].key \notin barred
    /\ \A k \in issued : main.data[k] # None
    /\ \A k \in barred : main.data[k] # None /\ main.data[k].off

-----------------------------------------------------------------------------
(* The two ways a call can begin *)

Units == {"day", "minute"}
Limit(unit) == IF unit = "day" THEN Quota ELSE Rate

\* What entry u counts for the day or the minute of time t.
UsedAt(u, unit, t) ==
    IF u = None THEN 0
    ELSE IF unit = "day" THEN (IF u.day = Day(t) THEN u.used ELSE 0)
         ELSE (IF u.bucket = t THEN u.usedMin ELSE 0)

\* An entry whose counters may have been rolled over to time t.
Renewed(e, u, t) ==
    \/ e = u
    \/ /\ e \in User /\ u \in User /\ e.off = u.off
       /\ \A unit \in Units : UsedAt(e, unit, t) = UsedAt(u, unit, t)

\* A call that ends without _save.
Answers(p) ==
    /\ pc[p] = "idle"
    /\ loaded' = [loaded EXCEPT ![p] = Loaded(p)]
    /\ \E t \in UserTable : /\ mem' = [mem EXCEPT ![p] = t]
                            /\ \A k \in Keys : Renewed(t[k], Table(p)[k], now)
    /\ UNCHANGED <<files, history, pc, call, now, rolled, overlapped, kills>>

\* What call fn on k makes of entry u.
Entry(p, fn, k, e, u) ==
    \/ /\ fn = "authorize" /\ p \in Gates /\ u \in User /\ ~u.off /\ ~e.off
       /\ \A unit \in Units : UsedAt(e, unit, now) = UsedAt(u, unit, now) + 1
       /\ UNCHANGED <<made, barred>>
    \/ /\ fn = "create_user" /\ k = made + 1 /\ e = Fresh
       /\ made' = k /\ UNCHANGED barred
    \/ /\ fn \in {"disable", "enable"} /\ u \in User /\ (e.off <=> fn = "disable")
       /\ \A unit \in Units : UsedAt(e, unit, now) = UsedAt(u, unit, now)
       /\ barred' = IF fn = "disable" THEN barred ELSE barred \ {k}
       /\ UNCHANGED made

Saves(p, fn, k) ==
    /\ pc[p] = "idle" /\ fn \in Calls
    /\ \E t \in UserTable :
          /\ Save(p, t, fn, k)
          /\ t[k] \in User /\ Entry(p, fn, k, t[k], Table(p)[k])
          /\ \A j \in Keys \ {k} : t[j] = Table(p)[j]
    /\ UNCHANGED <<files, granted, issued, now, kills>>

LEMMA TableType ==
    ASSUME TypeOK, NEW p \in Procs
    PROVE  Table(p) \in UserTable
BY DEF TypeOK, Table, Newer

LEMMA RolledUser ==
    ASSUME NEW u \in User, now \in Nat \ {0}
    PROVE  /\ Rolled(u) \in User /\ Rolled(u).off = u.off
           /\ Rolled(u).day = Day(now) /\ Rolled(u).bucket = now
           /\ Rolled(u).used = UsedAt(u, "day", now)
           /\ Rolled(u).usedMin = UsedAt(u, "minute", now)
<1>1. Day(now) \in Nat
  BY DEF Day
<1>2. u # None
  OBVIOUS
<1>3. /\ u.off \in BOOLEAN /\ u.day \in Nat /\ u.used \in 0 .. Quota /\ u.bucket \in Nat
      /\ u.usedMin \in 0 .. Rate
  BY DEF User
<1> HIDE DEF Day
<1> DEFINE uu == IF u.day = Day(now) THEN u.used ELSE 0
           um == IF u.bucket = now THEN u.usedMin ELSE 0
<1>4. uu \in 0 .. Quota /\ um \in 0 .. Rate
  BY <1>3
<1>5. uu = UsedAt(u, "day", now) /\ um = UsedAt(u, "minute", now)
  BY <1>2 DEF UsedAt
<1>6. Rolled(u) = [u EXCEPT !.day = Day(now), !.used = uu, !.bucket = now, !.usedMin = um]
  BY DEF Rolled
<1> HIDE DEF uu, um
<1>7. /\ Rolled(u) \in User /\ Rolled(u).off = u.off /\ Rolled(u).day = Day(now)
      /\ Rolled(u).used = uu /\ Rolled(u).bucket = now /\ Rolled(u).usedMin = um
  BY <1>1, <1>4, <1>6 DEF User
<1> QED
  BY <1>5, <1>7

\* authorize, create_user, set_disabled and list_users are calls of these forms.
LEMMA CallForms ==
    ASSUME TypeOK, NEW p \in Procs,
           \/ \E k \in Keys : Authorize(p, k) \/ CreateUser(p, k)
           \/ \E k \in Keys, off \in BOOLEAN : SetDisabled(p, Owner[k], off)
           \/ ListUsers(p)
    PROVE  Answers(p) \/ \E fn \in Calls, k \in Keys : Saves(p, fn, k)
<1> DEFINE T == Table(p)
<1>1. T \in UserTable /\ now \in Nat \ {0} /\ now \in Nat
  BY TableType DEF TypeOK
<1>2. \A k \in Keys : T[k] # None => T[k] \in User
  BY <1>1 DEF UserTable
<1> HIDE DEF T
<1>3. ASSUME NEW k \in Keys, Authorize(p, k), Usable(T[k])
      PROVE  Answers(p) \/ Saves(p, "authorize", k)
  <2> DEFINE u == Rolled(T[k])
             e == [u EXCEPT !.used = @ + 1, !.usedMin = @ + 1]
  <2>1. T[k] \in User /\ ~T[k].off
    BY <1>2, <1>3 DEF Usable
  <2>2. /\ u \in User /\ u.off = T[k].off /\ u.day = Day(now) /\ u.bucket = now
        /\ u.used = UsedAt(T[k], "day", now) /\ u.usedMin = UsedAt(T[k], "minute", now)
    BY <2>1, <1>1, RolledUser
  <2> HIDE DEF u
  <2>3. CASE WithinLimits(u)
    <3>1. e \in User /\ e.off = u.off /\ e.day = u.day /\ e.bucket = u.bucket
          /\ e.used = u.used + 1 /\ e.usedMin = u.usedMin + 1
      <4>1. u.used \in 0 .. Quota /\ u.usedMin \in 0 .. Rate
        BY <2>2 DEF User
      <4> DEFINE a == u.used + 1
                 b == u.usedMin + 1
      <4>2. a \in 0 .. Quota /\ b \in 0 .. Rate
        BY <4>1, <2>3 DEF WithinLimits
      <4>3. e = [u EXCEPT !.used = a, !.usedMin = b]
        OBVIOUS
      <4> HIDE DEF a, b, e
      <4>4. e \in User /\ e.off = u.off /\ e.day = u.day /\ e.bucket = u.bucket
            /\ e.used = a /\ e.usedMin = b
        BY <4>2, <4>3, <2>2 DEF User
      <4> QED
        BY <4>4 DEF a, b
    <3>2. \A unit \in Units : UsedAt(e, unit, now) = UsedAt(T[k], unit, now) + 1
      <4>1. e # None
        BY <3>1
      <4> HIDE DEF e
      <4> QED
        BY <4>1, <3>1, <2>2 DEF UsedAt, Units
    <3> HIDE DEF e
    <3>3. [T EXCEPT ![k] = e] \in UserTable
      BY <3>1, <1>1 DEF UserTable
    <3>4. Save(p, [T EXCEPT ![k] = e], "authorize", k) /\ pc[p] = "idle" /\ p \in Gates
          /\ UNCHANGED <<files, history, now, kills>>
      BY <1>3, <2>3 DEF Authorize, e, u, T
    <3>5. [T EXCEPT ![k] = e][k] = e /\ \A j \in Keys \ {k} : [T EXCEPT ![k] = e][j] = T[j]
      BY <1>1 DEF UserTable
    <3>6. Entry(p, "authorize", k, e, T[k])
      BY <3>1, <3>2, <3>4, <2>1, <2>2 DEF Entry, history
    <3> QED
      BY <3>1, <3>3, <3>4, <3>5, <3>6 DEF Saves, Calls, history, T
  <2>4. CASE ~WithinLimits(u)
    <3>1. Return(p, [T EXCEPT ![k] = u]) /\ pc[p] = "idle" /\ UNCHANGED <<files, history, now, kills>>
      BY <1>3, <2>4 DEF Authorize, u, T
    <3>2. [T EXCEPT ![k] = u] \in UserTable
      BY <2>2, <1>1 DEF UserTable
    <3>3. Renewed(u, T[k], now)
      <4>1. u # None
        BY <2>2
      <4>2. \A unit \in Units : UsedAt(u, unit, now) = UsedAt(T[k], unit, now)
        BY <4>1, <2>2 DEF UsedAt, Units
      <4> QED
        BY <4>2, <2>1, <2>2 DEF Renewed
    <3>4. \A j \in Keys : Renewed([T EXCEPT ![k] = u][j], T[j], now)
      BY <3>3, <1>1 DEF Renewed, UserTable
    <3> QED
      BY <3>1, <3>2, <3>4 DEF Answers, Return, T
  <2> QED
    BY <2>3, <2>4
<1>4. ASSUME Return(p, T), pc[p] = "idle", UNCHANGED <<files, history, now, kills>>
      PROVE  Answers(p)
  <2>1. \A k \in Keys : Renewed(T[k], T[k], now)
    BY DEF Renewed
  <2> QED
    BY <1>1, <1>4, <2>1 DEF Answers, Return, T
<1>5. ASSUME NEW k \in Keys, Authorize(p, k), ~Usable(T[k])
      PROVE  Answers(p)
  BY <1>4, <1>5 DEF Authorize, T
<1>6. ASSUME NEW k \in Keys, CreateUser(p, k)
      PROVE  Saves(p, "create_user", k)
  <2>1. Fresh \in User
    BY DEF Fresh, User
  <2>2. [T EXCEPT ![k] = Fresh] \in UserTable
    BY <2>1, <1>1 DEF UserTable
  <2>3. [T EXCEPT ![k] = Fresh][k] = Fresh
        /\ \A j \in Keys \ {k} : [T EXCEPT ![k] = Fresh][j] = T[j]
    BY <1>1 DEF UserTable
  <2>4. Entry(p, "create_user", k, Fresh, T[k])
    BY <1>6 DEF CreateUser, Entry
  <2> QED
    BY <1>6, <2>1, <2>2, <2>3, <2>4 DEF CreateUser, Saves, Calls, T
<1>7. ASSUME NEW i \in Keys, NEW off \in BOOLEAN, SetDisabled(p, Owner[i], off)
      PROVE  Answers(p) \/ \E fn \in Calls, k \in Keys : Saves(p, fn, k)
  <2>1. CASE Return(p, T) /\ UNCHANGED barred
    BY <2>1, <1>4, <1>7 DEF SetDisabled, history
  <2> DEFINE fn == IF off THEN "disable" ELSE "enable"
             t(k) == [T EXCEPT ![k].off = off]
  <2>2. ASSUME NEW k \in Keys, T[k] # None, Save(p, t(k), fn, k),
               barred' = IF off THEN barred ELSE barred \ {k}
        PROVE  Saves(p, fn, k)
    <3>1. T[k] \in User
      BY <1>2, <2>2
    <3>2. /\ t(k)[k] = [T[k] EXCEPT !.off = off]
          /\ \A j \in Keys \ {k} : t(k)[j] = T[j]
      BY <1>1 DEF UserTable
    <3>3. t(k)[k] \in User /\ t(k)[k].off = off /\ t(k)[k].day = T[k].day
          /\ t(k)[k].used = T[k].used /\ t(k)[k].bucket = T[k].bucket
          /\ t(k)[k].usedMin = T[k].usedMin
      BY <3>1, <3>2 DEF User
    <3>4. t(k) \in UserTable
      BY <3>2, <3>3, <1>1 DEF UserTable
    <3>5. T[k] # None /\ t(k)[k] # None
      BY <3>1, <3>3
    <3> HIDE DEF t
    <3>6. \A unit \in Units : UsedAt(t(k)[k], unit, now) = UsedAt(T[k], unit, now)
      BY <3>3, <3>5 DEF UsedAt
    <3>7. Entry(p, fn, k, t(k)[k], T[k])
      BY <3>1, <3>3, <3>6, <1>7, <2>2 DEF Entry, SetDisabled
    <3> QED
      BY <3>2, <3>3, <3>4, <3>7, <1>7, <2>2 DEF Saves, Calls, SetDisabled, T
  <2>3. fn \in Calls
    BY DEF Calls
  <2> QED
    BY <2>1, <2>2, <2>3, <1>7 DEF SetDisabled, T
<1>8. CASE ListUsers(p)
  BY <1>8, <1>4 DEF ListUsers, T
<1> QED
  BY <1>3, <1>5, <1>6, <1>7, <1>8 DEF Calls

Begun(p) == Answers(p) \/ \E fn \in Calls, k \in Keys : Saves(p, fn, k)

LEMMA StepForms ==
    ASSUME TypeOK, Next
    PROVE  \/ \E p \in Procs : Begun(p) \/ Open(p) \/ Write(p) \/ Replace(p)
                               \/ ReplaceFails(p) \/ Stamp(p) \/ Restart(p)
           \/ Tick
BY CallForms DEF Next, Begun

-----------------------------------------------------------------------------
(* Types, and what holds of every save *)

LEMMA CountsNat ==
    /\ \A p \in Procs : Cardinality({p} \ Gates) \in Nat /\ Cardinality(Saving(p) \ Gates) \in Nat
    /\ \A S \in SUBSET Procs : IsFiniteSet(S) /\ Cardinality(S) \in Nat
<1>1. \A S \in SUBSET Procs : IsFiniteSet(S) /\ Cardinality(S) \in Nat
  BY FS_Subset, FS_CardinalityType
<1>2. \A p \in Procs : {p} \ Gates \in SUBSET Procs /\ Saving(p) \ Gates \in SUBSET Procs
  BY DEF Saving
<1> QED
  BY <1>1, <1>2

LEMMA NobodyType == Nobody \in UserTable /\ NoFile \in [data : UserTable \union {Torn}, stamp : {0}]
BY DEF Nobody, NoFile, UserTable

LEMMA UsersTypeStep ==
    ASSUME TypeOK, [Next]_vars
    PROVE  TypeOK'
<1> USE DEF TypeOK, Names, files, history
<1>1. CASE UNCHANGED vars
  BY <1>1 DEF vars
<1>2. ASSUME NEW p \in Procs, Answers(p) PROVE TypeOK'
  <2>1. Loaded(p) \in 0 .. writes
    BY DEF Loaded
  <2> QED
    BY <2>1, <1>2 DEF Answers
<1>3. ASSUME NEW p \in Procs, NEW fn \in Calls, NEW k \in Keys, Saves(p, fn, k) PROVE TypeOK'
  <2>1. Loaded(p) \in 0 .. writes
    BY DEF Loaded
  <2>2. PICK t \in UserTable : Save(p, t, fn, k) /\ Entry(p, fn, k, t[k], Table(p)[k])
    BY <1>3 DEF Saves
  <2>3. [fn |-> fn, key |-> k, at |-> now] \in [fn : Calls, key : Keys, at : 1 .. now]
    OBVIOUS
  <2>4. call' \in [Procs -> [fn : Calls, key : Keys, at : 1 .. now] \union {NoCall}]
    BY <2>2, <2>3 DEF Save
  <2>5. mem' \in [Procs -> UserTable] /\ loaded' \in [Procs -> 0 .. writes]
        /\ pc' \in [Procs -> {"idle", "open", "write", "replace", "stamp"}]
    BY <2>1, <2>2 DEF Save
  <2>6. rolled' \in Nat
    BY <2>2, CountsNat DEF Save
  <2>7. overlapped' \in BOOLEAN
    BY <2>2, Zenon DEF Save
  <2>8. made' \in Nat /\ barred' \subseteq Keys
    BY <2>2 DEF Entry
  <2>9. UNCHANGED <<main, tmp, handle, writes, granted, issued, now, kills>>
    BY <1>3 DEF Saves
  <2> HIDE <1>3
  <2> QED
    BY <2>4, <2>5, <2>6, <2>7, <2>8, <2>9
<1>4. ASSUME NEW p \in Procs, Open(p) PROVE TypeOK'
  BY <1>4 DEF Open, Goto, Touched
<1>5. ASSUME NEW p \in Procs, Write(p) PROVE TypeOK'
  <2>1. \A d \in UserTable \union {Torn} : \A e \in Mixed(p, d) :
           Touched(e) \in [data : UserTable \union {Torn}, stamp : 0 .. writes + 1]
    BY DEF Mixed, Touched
  <2>2. {main', tmp'} \subseteq [data : UserTable \union {Torn}, stamp : 0 .. writes + 1]
    BY <2>1, <1>5 DEF Write
  <2> QED
    BY <2>2, <1>5 DEF Write, Goto
<1>6. ASSUME NEW p \in Procs, Replace(p) PROVE TypeOK'
  <2>1. NoFile \in [data : UserTable \union {Torn}, stamp : 0 .. writes]
    BY NobodyType
  <2>2. handle' \in [Procs -> {"main", "tmp", "gone"}]
    BY <1>6 DEF Replace
  <2> QED
    BY <2>1, <2>2, <1>6 DEF Replace, Goto
<1>7. ASSUME NEW p \in Procs, ReplaceFails(p) PROVE TypeOK'
  BY <1>7 DEF ReplaceFails, Goto
<1>8. ASSUME NEW p \in Procs, Stamp(p) PROVE TypeOK'
  <2> DEFINE c == call[p]
             d == IF Day(c.at) = Day(now) THEN 1 ELSE 0
             m == IF c.at = now THEN 1 ELSE 0
  <2>1. ASSUME c.fn = "authorize"
        PROVE  granted' \in [Keys -> [day : Nat, minute : Nat]]
    <3>1. granted' = [granted EXCEPT ![c.key].day = IF Day(c.at) = Day(now) THEN @ + 1 ELSE @,
                                     ![c.key].minute = IF c.at = now THEN @ + 1 ELSE @]
      BY <2>1, <1>8 DEF Stamp
    <3>2. c.key \in Keys
      BY <2>1 DEF NoCall
    <3> HIDE DEF c
    <3>3. \A k \in Keys : granted'[k] \in [day : Nat, minute : Nat]
      BY <3>1, <3>2
    <3> QED
      BY <3>1, <3>3
  <2>2. granted' \in [Keys -> [day : Nat, minute : Nat]]
    BY <2>1, <1>8 DEF Stamp
  <2>3. issued' \subseteq Keys /\ barred' \subseteq Keys
    BY <1>8 DEF Stamp, NoCall
  <2>4. loaded' \in [Procs -> 0 .. writes] /\ pc' \in [Procs -> {"idle", "open", "write", "replace", "stamp"}]
        /\ call' \in [Procs -> [fn : Calls, key : Keys, at : 1 .. now] \union {NoCall}]
    BY <1>8 DEF Stamp, Goto
  <2>5. UNCHANGED <<main, tmp, handle, mem, now, writes, made, rolled, overlapped, kills>>
    BY <1>8 DEF Stamp
  <2> QED
    BY <2>2, <2>3, <2>4, <2>5
<1>9. ASSUME NEW p \in Procs, Restart(p) PROVE TypeOK'
  BY <1>9, NobodyType DEF Restart, Goto
<1>10. CASE Tick
  <2>1. granted' \in [Keys -> [day : Nat, minute : Nat]]
    BY <1>10 DEF Tick
  <2>2. now' \in 1 .. MaxNow /\ 1 .. now \subseteq 1 .. now'
    BY <1>10 DEF Tick
  <2>3. call \in [Procs -> [fn : Calls, key : Keys, at : 1 .. now'] \union {NoCall}]
    BY <2>2
  <2>4. UNCHANGED <<files, mem, loaded, pc, call, issued, barred, made, rolled, overlapped, kills>>
    BY <1>10 DEF Tick
  <2> QED
    BY <2>1, <2>2, <2>3, <2>4
<1> QED
  BY <1>1, <1>2, <1>3, <1>4, <1>5, <1>6, <1>7, <1>8, <1>9, <1>10, StepForms DEF Begun

LEMMA HandlesStep ==
    ASSUME TypeOK, Handles, [Next]_vars
    PROVE  Handles'
<1> USE DEF Handles, TypeOK, files
<1>1. ASSUME NEW p \in Procs, Answers(p) PROVE Handles'
  BY <1>1 DEF Answers
<1>4. ASSUME NEW p \in Procs, NEW fn \in Calls, NEW k \in Keys, Saves(p, fn, k) PROVE Handles'
  <2>1. fn = "authorize" => p \in Gates
    BY <1>4 DEF Saves, Entry
  <2>2. /\ call' = [call EXCEPT ![p] = [fn |-> fn, key |-> k, at |-> now]]
        /\ pc' = [pc EXCEPT ![p] = "open"] /\ pc[p] = "idle" /\ UNCHANGED handle
    BY <1>4 DEF Saves, Save
  <2> QED
    BY <2>1, <2>2
<1>2. ASSUME NEW p \in Procs, Open(p) \/ Write(p) \/ Replace(p) \/ ReplaceFails(p)
                              \/ Stamp(p) \/ Restart(p)
      PROVE  Handles'
  BY <1>2 DEF Open, Write, Replace, ReplaceFails, Stamp, Restart, Goto, NoCall
<1>3. CASE Tick \/ UNCHANGED vars
  BY <1>3 DEF Tick, vars
<1> QED
  BY <1>1, <1>2, <1>3, <1>4, StepForms DEF Begun

LEMMA KeysMadeStep ==
    ASSUME TypeOK, KeysMade, [Next]_vars
    PROVE  KeysMade'
<1> USE DEF TypeOK, KeysMade, files, history
<1>0. /\ \A p \in Procs, k \in Keys : Table(p)[k] # None => k <= made
      /\ made \in Nat /\ \A k \in Keys : k \in Nat
  BY DEF Table, Newer
<1>1. ASSUME NEW p \in Procs, Answers(p) PROVE KeysMade'
  <2>1. PICK t \in UserTable : /\ mem' = [mem EXCEPT ![p] = t]
                               /\ \A k \in Keys : Renewed(t[k], Table(p)[k], now)
    BY <1>1 DEF Answers
  <2>2. \A k \in Keys : t[k] # None => k <= made
    BY <2>1, <1>0 DEF Renewed
  <2>3. \A q \in Procs, k \in Keys : mem'[q][k] # None => k <= made
    BY <2>1, <2>2
  <2> QED
    BY <2>3, <1>1 DEF Answers, Busy
<1>2. ASSUME NEW p \in Procs, NEW fn \in Calls, NEW k \in Keys, Saves(p, fn, k) PROVE KeysMade'
  <2>1. PICK t \in UserTable : /\ Save(p, t, fn, k) /\ Entry(p, fn, k, t[k], Table(p)[k])
                               /\ \A j \in Keys \ {k} : t[j] = Table(p)[j]
    BY <1>2 DEF Saves
  <2>2. made' \in Nat /\ made <= made' /\ k <= made'
    <3>1. fn = "create_user" => made' = k /\ k = made + 1
      BY <2>1 DEF Entry
    <3>2. fn # "create_user" => made' = made /\ Table(p)[k] # None
      BY <2>1 DEF Entry
    <3>3. made \in Nat /\ k \in Nat /\ (Table(p)[k] # None => k <= made)
      BY <1>0
    <3>4. CASE fn = "create_user"
      BY ONLY <3>1, <3>3, <3>4
    <3>5. CASE fn # "create_user"
      BY ONLY <3>2, <3>3, <3>5
    <3> QED
      BY <3>4, <3>5
  <2>3. \A j \in Keys : t[j] # None => j <= made'
    BY <2>1, <2>2, <1>0
  <2>4. \A q \in Procs, j \in Keys : mem'[q][j] # None => j <= made'
    <3>1. mem' = [mem EXCEPT ![p] = t]
      BY <2>1 DEF Save
    <3>2. ASSUME NEW q \in Procs, NEW j \in Keys, q # p, mem'[q][j] # None PROVE j <= made'
      <4>1. j <= made
        BY <3>1, <3>2
      <4> QED
        BY <4>1, <2>2, <1>0
    <3> QED
      BY <2>3, <3>1, <3>2
  <2>5. \A q \in Procs : Busy(q)' => call'[q] # NoCall /\ call'[q].key <= made'
    <3>1. [fn |-> fn, key |-> k, at |-> now] # NoCall
      BY DEF NoCall, Calls
    <3>2. pc' = [pc EXCEPT ![p] = "open"] /\ call' = [call EXCEPT ![p] = [fn |-> fn, key |-> k, at |-> now]]
      BY <2>1 DEF Save
    <3>3. ASSUME NEW q \in Procs, q # p, Busy(q)' PROVE call'[q] # NoCall /\ call'[q].key <= made'
      <4>1. call'[q] = call[q] /\ Busy(q)
        BY <3>2, <3>3 DEF Busy
      <4>2. call[q] # NoCall /\ call[q].key <= made
        BY <4>1
      <4>3. call[q].key \in Keys /\ call[q].key \in Nat
        BY <4>2, <1>0
      <4>4. call[q].key <= made'
        BY ONLY <4>2, <4>3, <2>2, <1>0
      <4> QED
        BY <4>1, <4>2, <4>4
    <3> QED
      BY <3>1, <3>2, <3>3, <2>2
  <2>6. UNCHANGED <<main, tmp, granted>>
    BY <1>2 DEF Saves
  <2> QED
    BY <2>2, <2>4, <2>5, <2>6
<1>3. ASSUME NEW p \in Procs, Open(p) PROVE KeysMade'
  BY <1>3 DEF Open, Goto, Touched, Busy
<1>4. ASSUME NEW p \in Procs, Write(p) PROVE KeysMade'
  BY <1>4 DEF Write, Goto, Touched, Busy, Mixed
<1>5. ASSUME NEW p \in Procs, Replace(p) PROVE KeysMade'
  <2>1. \A k \in Keys : NoFile.data[k] = None
    BY DEF NoFile, Nobody
  <2> QED
    BY <2>1, <1>5 DEF Replace, Goto, Busy
<1>6. ASSUME NEW p \in Procs, ReplaceFails(p) PROVE KeysMade'
  BY <1>6 DEF ReplaceFails, Goto, Busy
<1>7. ASSUME NEW p \in Procs, Stamp(p) PROVE KeysMade'
  <2>1. \A q \in Procs : Busy(q)' => call'[q] = call[q] /\ Busy(q)
    BY <1>7 DEF Stamp, Goto, Busy
  <2>2. call[p].key \in Keys /\ call[p].key <= made
    BY <1>7 DEF Stamp, Busy
  <2>3. \A k \in Keys : k > made => granted'[k] = granted[k]
    BY <2>2, <1>7 DEF Stamp
  <2> QED
    BY <2>1, <2>3, <1>7 DEF Stamp
<1>8. ASSUME NEW p \in Procs, Restart(p) PROVE KeysMade'
  BY <1>8 DEF Restart, Goto, Busy, Nobody
<1>9. CASE Tick
  BY <1>9 DEF Tick, Busy
<1>10. CASE UNCHANGED vars
  BY <1>10 DEF vars, Busy
<1> QED
  BY <1>1, <1>2, <1>3, <1>4, <1>5, <1>6, <1>7, <1>8, <1>9, <1>10, StepForms DEF Begun

-----------------------------------------------------------------------------
(* Saves that do not overlap *)

LEMMA AloneStep ==
    ASSUME TypeOK, Handles, Alone, [Next]_vars, ~overlapped'
    PROVE  Alone'
<1> USE DEF TypeOK, Handles, files, history, Busy
<1>1. ASSUME NEW p \in Procs, Answers(p) PROVE Alone'
  <2>1. Loaded(p) \in 0 .. main.stamp
    BY DEF Loaded, Newer, Alone
  <2> QED
    BY <2>1, <1>1 DEF Answers, Alone
<1>2. ASSUME NEW p \in Procs, NEW fn \in Calls, NEW k \in Keys, Saves(p, fn, k) PROVE Alone'
  <2>1. Loaded(p) \in 0 .. main.stamp
    BY DEF Loaded, Newer, Alone
  <2>2. \A q \in Procs : pc[q] = "idle"
    BY <1>2 DEF Saves, Save
  <2>3. /\ pc' = [pc EXCEPT ![p] = "open"] /\ loaded' = [loaded EXCEPT ![p] = Loaded(p)]
        /\ UNCHANGED <<main, tmp, handle>>
    BY <1>2 DEF Saves, Save
  <2> QED
    BY <2>1, <2>2, <2>3 DEF Alone
<1>3. ASSUME NEW p \in Procs, Open(p) PROVE Alone'
  BY <1>3 DEF Open, Goto, Touched, Alone
<1>4. ASSUME NEW p \in Procs, Write(p) PROVE Alone'
  <2>1. handle[p] = "tmp" /\ tmp.data = Torn /\ pc[p] = "write"
        /\ \A q \in Procs : q # p => pc[q] = "idle"
    BY <1>4 DEF Write, Alone
  <2>2. tmp' = Touched(mem[p]) /\ UNCHANGED main
    BY <2>1, <1>4 DEF Write, Mixed
  <2>3. tmp'.data = mem[p] /\ tmp'.stamp = writes + 1 /\ main.stamp \in 0 .. writes
    BY <2>2 DEF Touched
  <2>4. tmp'.stamp > main.stamp
    BY <2>3
  <2>5. pc' = [pc EXCEPT ![p] = "replace"] /\ UNCHANGED <<mem, loaded>>
    BY <1>4 DEF Write, Goto
  <2> QED
    BY <2>1, <2>2, <2>3, <2>4, <2>5 DEF Alone
<1>5. ASSUME NEW p \in Procs, Replace(p) PROVE Alone'
  <2>1. /\ main' = tmp /\ tmp.data = mem[p] /\ tmp.stamp > main.stamp
        /\ \A q \in Procs : q # p => pc[q] = "idle"
    BY <1>5 DEF Replace, Alone
  <2>2. tmp.data # Torn /\ main.stamp \in Nat /\ tmp.stamp \in Nat
    BY <2>1
  <2>3. \A q \in Procs : loaded[q] \in Nat /\ loaded[q] <= tmp.stamp
    BY <2>1, <2>2 DEF Alone
  <2>4. pc' = [pc EXCEPT ![p] = "stamp"] /\ UNCHANGED <<mem, loaded>>
    BY <1>5 DEF Replace, Goto
  <2> QED
    BY <2>1, <2>2, <2>3, <2>4 DEF Alone
<1>6. ASSUME NEW p \in Procs, ReplaceFails(p) PROVE Alone'
  BY <1>6 DEF ReplaceFails, Goto, Alone
<1>7. ASSUME NEW p \in Procs, Stamp(p) PROVE Alone'
  BY <1>7 DEF Stamp, Goto, Alone
<1>8. ASSUME NEW p \in Procs, Restart(p) PROVE Alone'
  <2>1. main.stamp \in Nat
    OBVIOUS
  <2> QED
    BY <2>1, <1>8 DEF Restart, Goto, Alone
<1>9. CASE Tick \/ UNCHANGED vars
  BY <1>9 DEF Tick, vars, Alone
<1> QED
  BY <1>1, <1>2, <1>3, <1>4, <1>5, <1>6, <1>7, <1>8, <1>9, StepForms DEF Begun

\* What an idle process works on when it is called.
LEMMA TableKeeps ==
    ASSUME TypeOK, Alone, Switched, NEW p \in Procs, pc[p] = "idle"
    PROVE  /\ Loaded(p) = main.stamp
           /\ \A k \in Keys : main.data[k] # None =>
                 Table(p)[k] # None /\ Table(p)[k].off = main.data[k].off
<1>1. CASE Newer(p)
  BY <1>1 DEF Loaded, Table
<1>2. CASE ~Newer(p)
  <2>1. loaded[p] = main.stamp
    BY <1>2 DEF Newer, Alone, TypeOK
  <2>2. Keeps(p)
    BY <2>1 DEF Switched, Current
  <2> QED
    BY <2>1, <2>2, <1>2 DEF Loaded, Table, Keeps, Busy
<1> QED
  BY <1>1, <1>2

LEMMA SwitchedStep ==
    ASSUME TypeOK, KeysMade, Alone, Switched, [Next]_vars, ~overlapped'
    PROVE  Switched'
<1> USE DEF files, history
<1>1. ASSUME NEW p \in Procs, Answers(p) PROVE Switched'
  <2>1. PICK t \in UserTable : /\ mem' = [mem EXCEPT ![p] = t]
                               /\ \A k \in Keys : Renewed(t[k], Table(p)[k], now)
    BY <1>1 DEF Answers
  <2>2. \A k \in Keys : main.data[k] # None => t[k] # None /\ t[k].off = main.data[k].off
    <3> TAKE k \in Keys
    <3>1. main.data[k] # None => Table(p)[k] # None /\ Table(p)[k].off = main.data[k].off
      BY <1>1, TableKeeps DEF Answers
    <3> QED
      BY <2>1, <3>1 DEF Renewed
  <2>3. /\ \A q \in Procs \ {p} : mem'[q] = mem[q] /\ loaded'[q] = loaded[q]
        /\ mem'[p] = t /\ pc[p] = "idle"
    BY <2>1, <1>1 DEF Answers, TypeOK
  <2>4. UNCHANGED <<main, pc, call, issued, barred>>
    BY <1>1 DEF Answers
  <2>5. \A q \in Procs : Current(q)' => Keeps(q)'
    BY <2>2, <2>3, <2>4 DEF Switched, Current, Keeps, Busy
  <2> QED
    BY <2>3, <2>4, <2>5 DEF Switched, Busy
<1>2. ASSUME NEW p \in Procs, NEW fn \in Calls, NEW k \in Keys, Saves(p, fn, k) PROVE Switched'
  <2>1. PICK t \in UserTable : /\ Save(p, t, fn, k) /\ Entry(p, fn, k, t[k], Table(p)[k])
                               /\ t[k] \in User
                               /\ \A j \in Keys \ {k} : t[j] = Table(p)[j]
    BY <1>2 DEF Saves
  <2>2. \A q \in Procs : pc[q] = "idle"
    BY <2>1 DEF Save
  <2>3. \A j \in Keys : main.data[j] # None =>
           Table(p)[j] # None /\ Table(p)[j].off = main.data[j].off
    BY <2>2, TableKeeps
  <2>4. UNCHANGED <<main, issued>>
    BY <1>2 DEF Saves
  <2>5. /\ mem'[p] = t /\ Busy(p)' /\ call'[p].fn = fn /\ call'[p].key = k
        /\ \A q \in Procs \ {p} : /\ mem'[q] = mem[q] /\ loaded'[q] = loaded[q]
                                  /\ pc'[q] = "idle"
    BY <2>1, <2>2 DEF Save, TypeOK, Busy
  <2>6. t[k] # None
    BY <2>1
  <2>7. fn = "create_user" => main.data[k] = None
    <3>1. fn = "create_user" => k = made + 1 /\ k > made
      BY <2>1 DEF Entry, TypeOK
    <3>2. main.data # Torn /\ (main.data[k] # None => k <= made)
      BY DEF KeysMade, Alone
    <3> QED
      BY <3>1, <3>2 DEF TypeOK
  <2>8. Keeps(p)'
    <3> SUFFICES ASSUME NEW j \in Keys, main.data[j] # None
                 PROVE  /\ t[j] # None
                        /\ \/ t[j].off = main.data[j].off
                           \/ fn \in {"disable", "enable"} /\ k = j
      BY <2>4, <2>5 DEF Keeps
    <3>1. CASE j # k
      BY <3>1, <2>1, <2>3
    <3>2. CASE j = k
      <4>1. fn = "authorize" => t[k].off = main.data[k].off
        <5>1. fn = "authorize" => Table(p)[k] \in User /\ ~Table(p)[k].off /\ ~t[k].off
          BY <2>1 DEF Entry
        <5>2. t[k].off \in BOOLEAN /\ (Table(p)[k] \in User => Table(p)[k].off \in BOOLEAN)
          BY <2>1 DEF User
        <5> QED
          BY <5>1, <5>2, <3>2, <2>3
      <4> QED
        BY <4>1, <3>2, <2>6, <2>7 DEF Calls
    <3> QED
      BY <3>1, <3>2
  <2>9. \A q \in Procs : Current(q)' => Keeps(q)'
    <3>1. \A q \in Procs \ {p} : Current(q)' => loaded[q] = main.stamp
      BY <2>4, <2>5 DEF Current, Busy
    <3>2. \A q \in Procs \ {p} : Current(q)' => Keeps(q)
      BY <3>1 DEF Switched, Current
    <3>3. \A q \in Procs \ {p} : Current(q)' => Keeps(q)'
      BY <3>2, <2>2, <2>4, <2>5 DEF Keeps, Busy
    <3> QED
      BY <3>3, <2>8
  <2>10. barred' \subseteq barred /\ (fn \in {"authorize", "enable"} => k \notin barred')
    <3>1. fn = "authorize" => k \notin barred
      <4>1. fn = "authorize" => ~Table(p)[k].off
        BY <2>1 DEF Entry
      <4>2. k \in barred => main.data[k] # None /\ main.data[k].off
        BY DEF Switched
      <4> QED
        BY <4>1, <4>2, <2>3
    <3> QED
      BY <3>1, <2>1 DEF Entry
  <2>11. fn = "disable" => t[k].off
    BY <2>1 DEF Entry
  <2> QED
    BY <2>4, <2>5, <2>6, <2>9, <2>10, <2>11 DEF Switched, Busy
<1>3. ASSUME NEW p \in Procs, Open(p) \/ Write(p) PROVE Switched'
  <2>1. /\ UNCHANGED <<mem, loaded, call, issued, barred>> /\ pc[p] # "idle" /\ pc'[p] # "idle"
        /\ \A q \in Procs \ {p} : pc'[q] = pc[q]
    BY <1>3 DEF Open, Write, Goto, TypeOK
  <2>2. UNCHANGED main
    <3>1. Write(p) => handle[p] = "tmp"
      BY DEF Write, Alone
    <3> QED
      BY <3>1, <1>3 DEF Open, Write
  <2> QED
    BY <2>1, <2>2 DEF Switched, Current, Keeps, Busy
<1>4. ASSUME NEW p \in Procs, Replace(p) PROVE Switched'
  <2>1. /\ main' = tmp /\ tmp.data = mem[p] /\ tmp.stamp > main.stamp /\ pc[p] = "replace"
        /\ \A q \in Procs \ {p} : pc[q] = "idle"
    BY <1>4 DEF Replace, Alone, Busy
  <2>2. /\ UNCHANGED <<mem, loaded, call, issued, barred>> /\ pc'[p] = "stamp"
        /\ \A q \in Procs \ {p} : pc'[q] = pc[q]
    BY <1>4 DEF Replace, Goto, TypeOK
  <2>3. \A q \in Procs \ {p} : loaded[q] < tmp.stamp
    BY <2>1 DEF Alone, TypeOK
  <2>4. \A q \in Procs : Current(q)' => q = p
    BY <2>1, <2>2, <2>3 DEF Current, Busy, TypeOK
  <2>5. Keeps(p)'
    BY <2>1, <2>2 DEF Keeps
  <2>6. Keeps(p)
    BY <2>1 DEF Switched, Current, Busy
  <2>7. \A k \in issued : main'.data[k] # None
    BY <2>1, <2>6 DEF Switched, Keeps, TypeOK
  <2>8. \A k \in barred : main'.data[k] # None /\ main'.data[k].off
    <3> SUFFICES ASSUME NEW k \in barred PROVE mem[p][k] # None /\ mem[p][k].off
      BY <2>1
    <3>1. k \in Keys /\ main.data[k] # None /\ main.data[k].off
      BY DEF Switched, TypeOK
    <3>2. call[p].fn \in {"disable", "enable"} /\ call[p].key = k => mem[p][k].off
      BY <2>1 DEF Switched, Busy
    <3> QED
      BY <3>1, <3>2, <2>6 DEF Keeps
  <2>9. \A q \in Procs : Busy(q)' => Busy(q)
    BY <2>1, <2>2 DEF Busy
  <2> QED
    BY <2>2, <2>4, <2>5, <2>7, <2>8, <2>9 DEF Switched
<1>5. ASSUME NEW p \in Procs, ReplaceFails(p) PROVE Switched'
  <2>1. tmp.stamp > main.stamp /\ tmp.stamp = 0 /\ main.stamp \in Nat
    BY <1>5 DEF ReplaceFails, Alone, TypeOK
  <2> QED
    BY <2>1
<1>6. ASSUME NEW p \in Procs, Stamp(p) PROVE Switched'
  <2>1. main.data = mem[p] /\ pc[p] = "stamp" /\ Busy(p) /\ \A q \in Procs \ {p} : pc[q] = "idle"
    BY <1>6 DEF Stamp, Alone, Busy
  <2>2. /\ UNCHANGED <<main, mem>> /\ \A q \in Procs : pc'[q] = "idle"
        /\ \A q \in Procs \ {p} : loaded'[q] = loaded[q]
    BY <2>1, <1>6 DEF Stamp, Goto, TypeOK
  <2>3. /\ issued' = IF call[p].fn = "create_user" THEN issued \union {call[p].key} ELSE issued
        /\ barred' = IF call[p].fn = "disable" THEN barred \union {call[p].key} ELSE barred
    BY <1>6 DEF Stamp
  <2>4. \A q \in Procs : Current(q)' => Keeps(q)'
    <3>1. Keeps(p)'
      BY <2>1, <2>2 DEF Keeps
    <3>2. \A q \in Procs \ {p} : Current(q)' => Keeps(q)
      BY <2>2 DEF Switched, Current, Busy
    <3>3. \A q \in Procs \ {p} : Current(q)' => Keeps(q)'
      BY <3>2, <2>1, <2>2 DEF Keeps, Busy
    <3> QED
      BY <3>1, <3>3
  <2>5. \A k \in issued' : main'.data[k] # None
    BY <2>1, <2>2, <2>3 DEF Switched
  <2>6. \A k \in barred' : main'.data[k] # None /\ main'.data[k].off
    BY <2>1, <2>2, <2>3 DEF Switched
  <2> QED
    BY <2>2, <2>4, <2>5, <2>6 DEF Switched, Busy
<1>7. ASSUME NEW p \in Procs, Restart(p) PROVE Switched'
  <2>1. /\ UNCHANGED <<main, issued, barred>> /\ pc'[p] = "idle" /\ loaded'[p] = 0
        /\ \A q \in Procs \ {p} : /\ pc'[q] = pc[q] /\ loaded'[q] = loaded[q]
                                  /\ call'[q] = call[q] /\ mem'[q] = mem[q]
    BY <1>7 DEF Restart, Goto, TypeOK
  <2>2. Current(p)' => Keeps(p)'
    <3>1. Current(p)' => main.data = Nobody
      BY <2>1 DEF Current, Busy, Alone
    <3> QED
      BY <3>1, <2>1 DEF Keeps, Nobody
  <2>3. \A q \in Procs \ {p} : Current(q)' => Keeps(q)'
    BY <2>1 DEF Switched, Current, Keeps, Busy
  <2> QED
    BY <2>1, <2>2, <2>3 DEF Switched, Busy
<1>8. CASE Tick \/ UNCHANGED vars
  BY <1>8 DEF Tick, vars, Switched, Current, Keeps, Busy
<1> QED
  BY <1>1, <1>2, <1>3, <1>4, <1>5, <1>6, <1>7, <1>8, StepForms DEF Begun

KeptInv ==
    /\ TypeOK /\ KeysMade /\ Handles
    /\ ~overlapped => Alone /\ Switched

LEMMA StaysOverlapped ==
    ASSUME [Next]_vars, overlapped, TypeOK
    PROVE  overlapped'
<1>1. ASSUME NEW p \in Procs, Begun(p) PROVE overlapped'
  BY <1>1 DEF Begun, Answers, Saves, Save
<1>2. ASSUME NEW p \in Procs, Open(p) \/ Write(p) \/ Replace(p) \/ ReplaceFails(p)
                              \/ Stamp(p) \/ Restart(p)
      PROVE  overlapped'
  BY <1>2 DEF Open, Write, Replace, ReplaceFails, Stamp, Restart
<1>3. CASE Tick \/ UNCHANGED vars
  BY <1>3 DEF Tick, vars
<1> QED
  BY <1>1, <1>2, <1>3, StepForms

LEMMA KeptStarts ==
    ASSUME Init
    PROVE  KeptInv /\ rolled = 0 /\ overlapped = FALSE
<1> USE DEF Init
<1>1. TypeOK
  <2>1. {main, tmp} \subseteq [data : UserTable \union {Torn}, stamp : 0 .. writes]
    BY NobodyType
  <2>2. mem \in [Procs -> UserTable] /\ loaded \in [Procs -> 0 .. writes]
        /\ handle \in [Procs -> Names]
        /\ pc \in [Procs -> {"idle", "open", "write", "replace", "stamp"}]
    BY NobodyType DEF Names
  <2>3. call \in [Procs -> [fn : Calls, key : Keys, at : 1 .. now] \union {NoCall}]
    OBVIOUS
  <2>4. granted \in [Keys -> [day : Nat, minute : Nat]]
    OBVIOUS
  <2>5. now \in 1 .. MaxNow /\ writes \in Nat
    OBVIOUS
  <2> QED
    BY <2>1, <2>2, <2>3, <2>4, <2>5 DEF TypeOK
<1>2. Switched
  BY DEF Switched, Keeps, Busy, NoFile, Nobody
<1>3. Alone
  <2>1. Torn # Nobody
    BY NobodyType
  <2> QED
    BY <2>1 DEF Alone, Busy, NoFile
<1> QED
  BY <1>1, <1>2, <1>3 DEF KeptInv, KeysMade, Handles, Busy, NoFile, Nobody, NoCall

LEMMA KeptStep ==
    ASSUME KeptInv, [Next]_vars
    PROVE  KeptInv'
<1>1. TypeOK' /\ KeysMade' /\ Handles'
  BY UsersTypeStep, KeysMadeStep, HandlesStep DEF KeptInv
<1>2. ASSUME ~overlapped' PROVE Alone' /\ Switched'
  BY <1>2, StaysOverlapped, AloneStep, SwitchedStep DEF KeptInv
<1> QED
  BY <1>1, <1>2 DEF KeptInv

\* backend/mcp_users.py, with any number of admin processes beside the MCP
\* server: until two saves overlap, the file is whole and has every key that
\* create_user has returned, whatever is killed in between.
THEOREM UsersStay == Spec => []UsersKept
<1>1. Init => KeptInv
  BY KeptStarts
<1>2. KeptInv /\ [Next]_vars => KeptInv'
  BY KeptStep
<1>3. KeptInv => UsersKept
  BY DEF KeptInv, UsersKept, Alone, Switched
<1> QED
  BY <1>1, <1>2, <1>3, PTL DEF Spec

LEMMA NoGrantBarred ==
    ASSUME KeptInv, [Next]_vars, ~overlapped', NEW k \in barred
    PROVE  granted'[k].day <= granted[k].day
<1>1. ~overlapped /\ TypeOK
  BY StaysOverlapped DEF KeptInv
<1>2. k \in Keys /\ granted[k].day \in Nat
  BY <1>1 DEF TypeOK
<1>3. ASSUME NEW p \in Procs, Begun(p) PROVE granted' = granted
  BY <1>3 DEF Begun, Answers, Saves, history
<1>4. ASSUME NEW p \in Procs, Open(p) \/ Write(p) \/ Replace(p) \/ ReplaceFails(p) \/ Restart(p)
      PROVE  granted' = granted
  BY <1>4 DEF Open, Write, Replace, ReplaceFails, Restart, history
<1>5. ASSUME NEW p \in Procs, Stamp(p) PROVE granted'[k] = granted[k]
  <2>1. call[p].fn = "authorize" => call[p].key # k
    BY <1>1, <1>5 DEF KeptInv, Switched, Stamp, Busy
  <2> QED
    BY <2>1, <1>1, <1>2, <1>5 DEF Stamp, TypeOK
<1>6. CASE Tick
  BY <1>2, <1>6 DEF Tick
<1>7. CASE UNCHANGED vars
  BY <1>2, <1>7 DEF vars
<1> QED
  BY <1>1, <1>2, <1>3, <1>4, <1>5, <1>6, <1>7, StepForms

\* Until two saves overlap, no call gets through on a key whose disabling has
\* returned, in any process and after restarts.
THEOREM DisabledStayRefused == Spec => DisabledRefused
<1>1. Init => KeptInv
  BY KeptStarts
<1>2. KeptInv /\ [Next]_vars => KeptInv'
  BY KeptStep
<1>3. KeptInv /\ [Next]_vars =>
         [~overlapped' => \A k \in barred : granted'[k].day <= granted[k].day]_vars
  BY NoGrantBarred
<1> QED
  BY <1>1, <1>2, <1>3, PTL DEF Spec, DisabledRefused

-----------------------------------------------------------------------------
(* What is counted *)

Granted(k, unit) == IF unit = "day" THEN granted[k].day ELSE granted[k].minute
Same(t, unit) == IF unit = "day" THEN Day(t) = Day(now) ELSE t = now

\* A call on k has been let through and has come as far as a step of S.
Pending(k, unit, S) ==
    \E g \in Gates : /\ pc[g] \in S /\ call[g].fn = "authorize"
                     /\ call[g].key = k /\ Same(call[g].at, unit)
Due(k, unit, S) == Granted(k, unit) + (IF Pending(k, unit, S) THEN 1 ELSE 0)

AnyStep == {"open", "write", "replace", "stamp"}
Past == {"write", "replace", "stamp"}

LEMMA UsedBounds ==
    ASSUME NEW u \in User \union {None}, NEW unit \in Units, NEW t
    PROVE  UsedAt(u, unit, t) \in 0 .. Limit(unit)
<1>1. CASE u = None
  BY <1>1 DEF UsedAt, Limit
<1>2. CASE u \in User
  <2>1. u # None /\ u.used \in 0 .. Quota /\ u.usedMin \in 0 .. Rate
    BY <1>2 DEF User
  <2> QED
    BY <2>1 DEF UsedAt, Limit
<1> QED
  BY <1>1, <1>2

LEMMA DueNat ==
    ASSUME TypeOK, NEW k \in Keys, NEW unit \in Units
    PROVE  /\ Granted(k, unit) \in Nat
           /\ \A S : /\ Due(k, unit, S) \in Nat /\ Granted(k, unit) <= Due(k, unit, S)
                     /\ ~Pending(k, unit, S) => Due(k, unit, S) = Granted(k, unit)
                     /\ Pending(k, unit, S) => Due(k, unit, S) = Granted(k, unit) + 1
           /\ Due(k, unit, {"stamp"}) <= Due(k, unit, Past)
           /\ Due(k, unit, Past) <= Due(k, unit, AnyStep)
           /\ Due(k, unit, {"stamp"}) <= Due(k, unit, AnyStep)
<1>1. Granted(k, unit) \in Nat
  BY DEF TypeOK, Granted
<1>2. Pending(k, unit, {"stamp"}) => Pending(k, unit, Past)
  BY DEF Pending, Past
<1>3. Pending(k, unit, Past) => Pending(k, unit, AnyStep)
  BY DEF Pending, Past, AnyStep
<1> QED
  BY <1>1, <1>2, <1>3 DEF Due

\* A step that grants nothing and takes no time.
LEMMA DueQuiet ==
    ASSUME TypeOK, NEW k \in Keys, NEW unit \in Units, NEW S, NEW R,
           granted' = granted, Pending(k, unit, S)' => Pending(k, unit, R)
    PROVE  Due(k, unit, S)' \in Nat /\ Due(k, unit, S)' <= Due(k, unit, R)
<1>1. Granted(k, unit) \in Nat /\ Granted(k, unit)' = Granted(k, unit)
  BY DEF TypeOK, Granted
<1> QED
  BY <1>1 DEF Due

\* A call lets its grant be counted when it returns.
LEMMA DueStamp ==
    ASSUME TypeOK, Handles, NEW p \in Procs, Stamp(p), NEW k \in Keys, NEW unit \in Units,
           NEW S, "stamp" \in S, "idle" \notin S
    PROVE  Due(k, unit, S)' \in Nat /\ Due(k, unit, S)' <= Due(k, unit, S)
<1>1. /\ pc[p] = "stamp" /\ pc'[p] = "idle" /\ UNCHANGED now
      /\ \A q \in Procs \ {p} : pc'[q] = pc[q] /\ call'[q] = call[q]
  BY DEF Stamp, Goto, TypeOK
<1>2. Pending(k, unit, S)' => Pending(k, unit, S)
  BY <1>1 DEF Pending, Same
<1>3. CASE call[p].fn = "authorize" /\ call[p].key = k /\ Same(call[p].at, unit)
  <2>1. p \in Gates
    BY <1>3 DEF Handles
  <2>2. Pending(k, unit, S) /\ ~Pending(k, unit, S)'
    BY <2>1, <1>1, <1>3 DEF Pending
  <2>3. Granted(k, unit)' = Granted(k, unit) + 1
    BY <1>3 DEF Stamp, TypeOK, Granted, Same, Units
  <2>4. Granted(k, unit) \in Nat
    BY DueNat
  <2> QED
    BY <2>2, <2>3, <2>4 DEF Due
<1>4. CASE ~(call[p].fn = "authorize" /\ call[p].key = k /\ Same(call[p].at, unit))
  <2>1. Granted(k, unit)' = Granted(k, unit)
    BY <1>4 DEF Stamp, TypeOK, Granted, Same, Units
  <2>2. Granted(k, unit) \in Nat
    BY DueNat
  <2> QED
    BY <2>1, <2>2, <1>2 DEF Due
<1> QED
  BY <1>3, <1>4

LEMMA DayMonotone ==
    ASSUME NEW t \in Nat \ {0}, NEW n \in Nat \ {0}, t <= n
    PROVE  Day(t) <= Day(n) /\ Day(t) \in Nat /\ Day(n) \in Nat
<1> DEFINE M == MinutesPerDay
           a == (t - 1) \div M
           b == (n - 1) \div M
<1>1. M \in Nat \ {0} /\ t - 1 \in Nat /\ n - 1 \in Nat /\ t - 1 <= n - 1
  OBVIOUS
<1>2. a \in Nat /\ b \in Nat
  BY <1>1
<1>3. M * a <= t - 1 /\ n - 1 < M * (b + 1)
  BY <1>1
<1> HIDE DEF a, b, M
<1>4. M * a < M * (b + 1)
  BY <1>1, <1>2, <1>3
<1>5. a <= b
  <2>1. ASSUME b + 1 <= a PROVE FALSE
    <3>1. M * (b + 1) <= M * a
      BY <2>1, <1>1, <1>2
    <3> QED
      BY <3>1, <1>1, <1>2, <1>4
  <2> QED
    BY <2>1, <1>2
<1> QED
  BY <1>2, <1>5 DEF a, b, M, Day

\* Time passes: within the day (the minute) all is as it was, in the next one
\* nothing has been granted.
LEMMA DueTick ==
    ASSUME TypeOK, Tick, NEW k \in Keys, NEW unit \in Units
    PROVE  \/ \A S : "idle" \notin S => Due(k, unit, S)' = 0
           \/ /\ \A S : Due(k, unit, S)' = Due(k, unit, S)
              /\ \A u : UsedAt(u, unit, now') = UsedAt(u, unit, now)
<1>1. now \in Nat \ {0} /\ now' = now + 1 /\ UNCHANGED <<pc, call>>
  BY DEF TypeOK, Tick
<1>2. granted'[k] = [day |-> IF Day(now') = Day(now) THEN granted[k].day ELSE 0, minute |-> 0]
  BY <1>1 DEF Tick
<1>3. CASE unit = "day" /\ Day(now') = Day(now)
  <2>1. Granted(k, unit)' = Granted(k, unit)
    BY <1>2, <1>3 DEF Granted
  <2>2. \A S : Pending(k, unit, S)' <=> Pending(k, unit, S)
    BY <1>1, <1>3 DEF Pending, Same
  <2>3. \A u : UsedAt(u, unit, now') = UsedAt(u, unit, now)
    BY <1>3 DEF UsedAt
  <2> QED
    BY <2>1, <2>2, <2>3 DEF Due
<1>4. CASE ~(unit = "day" /\ Day(now') = Day(now))
  <2>1. Granted(k, unit)' = 0
    BY <1>2, <1>4 DEF Granted, Units
  <2>2. ASSUME NEW g \in Gates, call[g].fn = "authorize" PROVE ~Same(call[g].at, unit)'
    <3>1. call[g].at \in 1 .. now
      BY <2>2 DEF TypeOK, NoCall
    <3>2. CASE unit = "day"
      <4>1. Day(call[g].at) <= Day(now) /\ Day(now) <= Day(now')
            /\ Day(call[g].at) \in Nat /\ Day(now) \in Nat /\ Day(now') \in Nat
        BY <3>1, <1>1, DayMonotone
      <4> QED
        BY <4>1, <3>2, <1>1, <1>4 DEF Same
    <3>3. CASE unit = "minute"
      BY <3>1, <3>3, <1>1 DEF Same
    <3> QED
      BY <3>2, <3>3 DEF Units
  <2>3. \A S : "idle" \notin S => ~Pending(k, unit, S)'
    BY <2>2, <1>1 DEF Pending
  <2> QED
    BY <2>1, <2>3 DEF Due
<1> QED
  BY <1>3, <1>4

-----------------------------------------------------------------------------
(* Until two saves overlap, the counters are exact *)

ExactAt(k, unit) ==
    /\ Due(k, unit, {"stamp"}) <= UsedAt(main.data[k], unit, now)
    /\ \A p \in Procs :
          /\ Busy(p) => Due(k, unit, AnyStep) <= UsedAt(mem[p][k], unit, now)
          /\ loaded[p] = main.stamp /\ ~Busy(p) =>
                Due(k, unit, {"stamp"}) <= UsedAt(mem[p][k], unit, now)

Exact == \A k \in Keys, unit \in Units : ExactAt(k, unit)

LEMMA EntriesCount ==
    ASSUME TypeOK, NEW k \in Keys, NEW unit \in Units, NEW t
    PROVE  /\ \A p \in Procs : UsedAt(mem[p][k], unit, t) \in Nat
           /\ main.data # Torn => UsedAt(main.data[k], unit, t) \in Nat
           /\ tmp.data # Torn => UsedAt(tmp.data[k], unit, t) \in Nat
<1>1. /\ \A p \in Procs : mem[p][k] \in User \union {None}
      /\ main.data # Torn => main.data[k] \in User \union {None}
      /\ tmp.data # Torn => tmp.data[k] \in User \union {None}
  BY DEF TypeOK, UserTable
<1>2. Limit(unit) \in Nat
  BY DEF Limit
<1>3. \A u \in User \union {None} : UsedAt(u, unit, t) \in Nat
  BY <1>2, UsedBounds
<1> QED
  BY <1>1, <1>3

\* What an idle process works on counts everything that was granted.
LEMMA TableCounts ==
    ASSUME TypeOK, Alone, Exact, NEW p \in Procs, pc[p] = "idle",
           NEW k \in Keys, NEW unit \in Units
    PROVE  /\ Loaded(p) = main.stamp
           /\ UsedAt(Table(p)[k], unit, now) \in Nat
           /\ Due(k, unit, {"stamp"}) <= UsedAt(Table(p)[k], unit, now)
<1>1. ExactAt(k, unit)
  BY DEF Exact
<1>2. /\ \A q \in Procs : UsedAt(mem[q][k], unit, now) \in Nat
      /\ main.data # Torn => UsedAt(main.data[k], unit, now) \in Nat
  BY EntriesCount
<1>3. CASE Newer(p)
  BY <1>1, <1>2, <1>3 DEF Loaded, Table, ExactAt, Alone
<1>4. CASE ~Newer(p)
  <2>1. loaded[p] = main.stamp
    <3>1. loaded[p] <= main.stamp /\ loaded[p] \in Nat /\ main.stamp \in Nat
      BY DEF Alone, TypeOK
    <3>2. ~(main.stamp > loaded[p])
      BY <1>4 DEF Newer, Alone
    <3> QED
      BY <3>1, <3>2
  <2> QED
    BY <2>1, <1>1, <1>2, <1>4 DEF Loaded, Table, ExactAt, Busy
<1> QED
  BY <1>3, <1>4

LEMMA ExactStep ==
    ASSUME TypeOK, KeysMade, Handles, Alone, Exact, [Next]_vars, ~overlapped'
    PROVE  Exact'
<1> SUFFICES ASSUME NEW k \in Keys, NEW unit \in Units PROVE ExactAt(k, unit)'
  BY DEF Exact
<1> DEFINE Count(u) == UsedAt(u, unit, now)
<1>0. /\ ExactAt(k, unit) /\ main.data # Torn
      /\ \A q \in Procs : Count(mem[q][k]) \in Nat
      /\ Count(main.data[k]) \in Nat
      /\ \A S : Due(k, unit, S) \in Nat
      /\ Due(k, unit, {"stamp"}) <= Due(k, unit, AnyStep)
  BY EntriesCount, DueNat DEF Exact, Alone
<1>1. ASSUME NEW p \in Procs, Answers(p) PROVE ExactAt(k, unit)'
  <2>1. PICK t \in UserTable : /\ mem' = [mem EXCEPT ![p] = t]
                               /\ \A j \in Keys : Renewed(t[j], Table(p)[j], now)
    BY <1>1 DEF Answers
  <2>2. /\ UNCHANGED <<main, pc, call, granted, now>> /\ pc[p] = "idle"
        /\ loaded' = [loaded EXCEPT ![p] = Loaded(p)]
    BY <1>1 DEF Answers, files, history
  <2>3. \A S : Due(k, unit, S)' = Due(k, unit, S)
    BY <2>2 DEF Due, Granted, Pending, Same
  <2>4. Count(t[k]) = Count(Table(p)[k])
    BY <2>1 DEF Renewed
  <2>5. Due(k, unit, {"stamp"}) <= Count(t[k])
    BY <2>2, <2>4, TableCounts
  <2>6. /\ \A q \in Procs \ {p} : mem'[q] = mem[q] /\ loaded'[q] = loaded[q]
        /\ mem'[p] = t
    BY <2>1, <2>2 DEF TypeOK
  <2> HIDE <1>1
  <2> QED
    BY <1>0, <2>2, <2>3, <2>5, <2>6 DEF ExactAt, Busy
<1>2. ASSUME NEW p \in Procs, NEW fn \in Calls, NEW i \in Keys, Saves(p, fn, i)
      PROVE  ExactAt(k, unit)'
  <2>1. PICK t \in UserTable : /\ Save(p, t, fn, i) /\ Entry(p, fn, i, t[i], Table(p)[i])
                               /\ \A j \in Keys \ {i} : t[j] = Table(p)[j]
    BY <1>2 DEF Saves
  <2>2. \A q \in Procs : pc[q] = "idle"
    BY <2>1 DEF Save
  <2>3. UNCHANGED <<main, granted, now>>
    BY <1>2 DEF Saves, files
  <2>4. /\ mem'[p] = t /\ pc'[p] = "open" /\ call'[p] = [fn |-> fn, key |-> i, at |-> now]
        /\ \A q \in Procs \ {p} : /\ mem'[q] = mem[q] /\ loaded'[q] = loaded[q]
                                  /\ pc'[q] = "idle"
    BY <2>1, <2>2 DEF Save, TypeOK
  <2>5. \A S : "idle" \notin S => Due(k, unit, S) = Granted(k, unit)
    BY <2>2, DueNat DEF Pending
  <2>6. Granted(k, unit)' = Granted(k, unit) /\ Granted(k, unit) \in Nat
    BY <2>3, DueNat DEF Granted
  <2>7. Due(k, unit, {"stamp"})' = Granted(k, unit)
    <3>1. ~Pending(k, unit, {"stamp"})'
      BY <2>4 DEF Pending
    <3> QED
      BY <3>1, <2>6 DEF Due
  <2>8. /\ Granted(k, unit) <= Count(Table(p)[k]) /\ Count(Table(p)[k]) \in Nat
    BY <2>2, <2>5, TableCounts
  <2>9. Due(k, unit, AnyStep)' <= Count(t[k])
    <3>1. CASE k = i /\ fn = "authorize"
      <4>1. Count(t[k]) = Count(Table(p)[k]) + 1
        BY <3>1, <2>1 DEF Entry
      <4>2. Due(k, unit, AnyStep)' \in {Granted(k, unit), Granted(k, unit) + 1}
        BY <2>6 DEF Due
      <4> QED
        BY <4>1, <4>2, <2>6, <2>8
    <3>2. CASE ~(k = i /\ fn = "authorize")
      <4>1. ~Pending(k, unit, AnyStep)'
        BY <3>2, <2>4 DEF Pending, AnyStep
      <4>2. Due(k, unit, AnyStep)' = Granted(k, unit)
        BY <4>1, <2>6 DEF Due
      <4>3. CASE k # i
        BY <4>2, <4>3, <2>1, <2>8
      <4>4. CASE k = i /\ fn = "create_user"
        <5>1. t[k] = Fresh /\ k = made + 1
          BY <4>4, <2>1 DEF Entry
        <5>2. Granted(k, unit) = 0
          BY <5>1 DEF KeysMade, Granted, TypeOK
        <5>3. Count(Fresh) \in Nat
          <6>1. Fresh \in User
            BY DEF Fresh, User
          <6>2. Limit(unit) \in Nat
            BY DEF Limit
          <6> QED
            BY <6>1, <6>2, UsedBounds
        <5> QED
          BY <4>2, <5>1, <5>2, <5>3
      <4>5. CASE k = i /\ fn \in {"disable", "enable"}
        <5>1. Count(t[k]) = Count(Table(p)[k])
          BY <4>5, <2>1 DEF Entry
        <5> QED
          BY <4>2, <5>1, <2>8
      <4> QED
        BY <3>2, <4>3, <4>4, <4>5 DEF Calls
    <3> QED
      BY <3>1, <3>2
  <2>10. Due(k, unit, {"stamp"}) = Granted(k, unit)
    BY <2>5
  <2> HIDE <1>2
  <2> QED
    BY <1>0, <2>2, <2>3, <2>4, <2>7, <2>9, <2>10 DEF ExactAt, Busy
<1>3. ASSUME NEW p \in Procs, Open(p) \/ Write(p) PROVE ExactAt(k, unit)'
  <2>1. /\ UNCHANGED <<mem, loaded, call, granted, now>> /\ pc[p] \in {"open", "write"}
        /\ pc'[p] \in {"write", "replace"} /\ \A q \in Procs \ {p} : pc'[q] = pc[q]
    BY <1>3 DEF Open, Write, Goto, TypeOK, history
  <2>2. UNCHANGED main
    <3>1. Write(p) => handle[p] = "tmp"
      BY DEF Write, Alone
    <3> QED
      BY <3>1, <1>3 DEF Open, Write
  <2>3. Due(k, unit, {"stamp"})' \in Nat /\ Due(k, unit, {"stamp"})' <= Due(k, unit, {"stamp"})
    <3>1. Pending(k, unit, {"stamp"})' => Pending(k, unit, {"stamp"})
      BY <2>1 DEF Pending, Same
    <3> QED
      BY <3>1, <2>1, DueQuiet
  <2>4. Due(k, unit, AnyStep)' \in Nat /\ Due(k, unit, AnyStep)' <= Due(k, unit, AnyStep)
    <3>1. Pending(k, unit, AnyStep)' => Pending(k, unit, AnyStep)
      BY <2>1 DEF Pending, Same, AnyStep
    <3> QED
      BY <3>1, <2>1, DueQuiet
  <2>5. \A q \in Procs : Busy(q)' = Busy(q)
    BY <2>1 DEF Busy
  <2> HIDE <1>3
  <2> QED
    BY <1>0, <2>1, <2>2, <2>3, <2>4, <2>5 DEF ExactAt
<1>4. ASSUME NEW p \in Procs, Replace(p) PROVE ExactAt(k, unit)'
  <2>1. /\ main' = tmp /\ tmp.data = mem[p] /\ tmp.stamp > main.stamp /\ pc[p] = "replace"
        /\ \A q \in Procs \ {p} : pc[q] = "idle"
    BY <1>4 DEF Replace, Alone, Busy
  <2>2. /\ UNCHANGED <<mem, loaded, call, granted, now>> /\ pc'[p] = "stamp"
        /\ \A q \in Procs \ {p} : pc'[q] = pc[q]
    BY <1>4 DEF Replace, Goto, TypeOK, history
  <2>3. \A q \in Procs \ {p} : loaded[q] # tmp.stamp
    BY <2>1 DEF Alone, TypeOK
  <2>4. \A S \in {{"stamp"}, AnyStep} :
           Due(k, unit, S)' \in Nat /\ Due(k, unit, S)' <= Due(k, unit, AnyStep)
    <3> TAKE S \in {{"stamp"}, AnyStep}
    <3>1. Pending(k, unit, S)' => Pending(k, unit, AnyStep)
      BY <2>1, <2>2 DEF Pending, Same, AnyStep
    <3> QED
      BY <3>1, <2>2, DueQuiet
  <2>5. Due(k, unit, AnyStep) <= Count(mem[p][k])
    BY <1>0, <2>1 DEF ExactAt, Busy
  <2> HIDE <1>4
  <2> QED
    BY <1>0, <2>1, <2>2, <2>3, <2>4, <2>5 DEF ExactAt, Busy
<1>5. ASSUME NEW p \in Procs, ReplaceFails(p) PROVE ExactAt(k, unit)'
  <2>1. tmp.stamp > main.stamp /\ tmp.stamp = 0 /\ main.stamp \in Nat
    BY <1>5 DEF ReplaceFails, Alone, TypeOK
  <2> QED
    BY <2>1
<1>6. ASSUME NEW p \in Procs, Stamp(p) PROVE ExactAt(k, unit)'
  <2>1. main.data = mem[p] /\ \A q \in Procs \ {p} : pc[q] = "idle"
    BY <1>6 DEF Stamp, Alone, Busy
  <2>2. /\ UNCHANGED <<main, mem, now>> /\ \A q \in Procs : pc'[q] = "idle"
        /\ \A q \in Procs \ {p} : loaded'[q] = loaded[q]
    BY <2>1, <1>6 DEF Stamp, Goto, TypeOK
  <2>3. Due(k, unit, {"stamp"})' \in Nat /\ Due(k, unit, {"stamp"})' <= Due(k, unit, {"stamp"})
    BY <1>6, DueStamp
  <2> HIDE <1>6
  <2> QED
    BY <1>0, <2>1, <2>2, <2>3 DEF ExactAt, Busy
<1>7. ASSUME NEW p \in Procs, Restart(p) PROVE ExactAt(k, unit)'
  <2>1. /\ UNCHANGED <<main, granted, now>> /\ pc'[p] = "idle" /\ loaded'[p] = 0
        /\ mem'[p] = Nobody
        /\ \A q \in Procs \ {p} : /\ pc'[q] = pc[q] /\ loaded'[q] = loaded[q]
                                  /\ call'[q] = call[q] /\ mem'[q] = mem[q]
    BY <1>7 DEF Restart, Goto, TypeOK, history
  <2>2. loaded'[p] = main.stamp => main.data = Nobody
    BY <2>1 DEF Alone
  <2>3. \A S \in {{"stamp"}, AnyStep} : Due(k, unit, S)' \in Nat /\ Due(k, unit, S)' <= Due(k, unit, S)
    <3> TAKE S \in {{"stamp"}, AnyStep}
    <3>1. Pending(k, unit, S)' => Pending(k, unit, S)
      BY <2>1 DEF Pending, Same, AnyStep
    <3> QED
      BY <3>1, <2>1, DueQuiet
  <2> HIDE <1>7
  <2> QED
    BY <1>0, <2>1, <2>2, <2>3 DEF ExactAt, Busy
<1>8. CASE Tick
  <2>1. UNCHANGED <<main, mem, loaded, pc>>
    BY <1>8 DEF Tick, files
  <2>2. \/ \A S : "idle" \notin S => Due(k, unit, S)' = 0
        \/ /\ \A S : Due(k, unit, S)' = Due(k, unit, S)
           /\ \A u : UsedAt(u, unit, now') = UsedAt(u, unit, now)
    BY <1>8, DueTick
  <2>3. /\ \A q \in Procs : UsedAt(mem[q][k], unit, now') \in Nat
        /\ UsedAt(main.data[k], unit, now') \in Nat
    BY <1>0, EntriesCount
  <2>4. "idle" \notin AnyStep
    BY DEF AnyStep
  <2> QED
    BY <1>0, <2>1, <2>2, <2>3, <2>4 DEF ExactAt, Busy
<1>9. CASE UNCHANGED vars
  BY <1>0, <1>9 DEF vars, ExactAt, Busy, Due, Granted, Pending, Same
<1> QED
  BY <1>1, <1>2, <1>3, <1>4, <1>5, <1>6, <1>7, <1>8, <1>9, StepForms DEF Begun

-----------------------------------------------------------------------------
(* What a key can have been granted once saves have overlapped.  rolled is *)
(* spent in m saves whose data the MCP server has gone on from, those that *)
(* still have to write theirs, and those whose data is in tmp (x) or main  *)
(* (y) and has not been read.                                              *)

InFlight == {p \in Procs \ Gates : pc[p] \in {"open", "write"}}
Flying == IF overlapped THEN Cardinality(InFlight) ELSE 0

Allowed(unit, m) == Limit(unit) * m

\* Going on from entry u grants no more than m saves allow.
Covered(u, unit, t, due, m) == u = None \/ due <= Allowed(unit, m) + UsedAt(u, unit, t)

Budget(k, unit, x, y, m) ==
    /\ m + Flying + x + y <= rolled
    /\ Granted(k, unit) <= Allowed(unit, m) + Limit(unit)
    /\ \A g \in Gates : Covered(mem[g][k], unit, now, Due(k, unit, AnyStep), m)
    /\ Pending(k, unit, AnyStep) => \A g \in Gates : mem[g][k] # None
    /\ x = 0 /\ tmp.data # Torn =>
          Covered(tmp.data[k], unit, now, Due(k, unit, Past), m)
    /\ y = 0 /\ main.data # Torn =>
          Covered(main.data[k], unit, now, Due(k, unit, {"stamp"}), m)

Budgets ==
    \A k \in Keys, unit \in Units :
        \E x, y \in 0 .. 1, m \in Nat : Budget(k, unit, x, y, m)

UsersInv ==
    /\ KeptInv /\ Budgets
    /\ ~overlapped => rolled = 0 /\ Exact

LEMMA AllowedGrows ==
    ASSUME NEW unit \in Units, NEW m \in Nat
    PROVE  /\ Limit(unit) \in Nat /\ Allowed(unit, m) \in Nat
           /\ Allowed(unit, m + 1) = Allowed(unit, m) + Limit(unit)
           /\ \A n \in Nat : m <= n => Allowed(unit, m) <= Allowed(unit, n)
<1>1. Limit(unit) \in Nat
  BY DEF Limit
<1> QED
  BY ONLY <1>1, m \in Nat DEF Allowed

LEMMA CoveredFalls ==
    ASSUME NEW u \in User \union {None}, NEW unit \in Units, NEW t,
           NEW due \in Nat, NEW m \in Nat, Covered(u, unit, t, due, m),
           NEW d \in Nat, d <= due, NEW n \in Nat, m <= n
    PROVE  Covered(u, unit, t, d, n)
<1>1. /\ Limit(unit) \in Nat
      /\ Allowed(unit, m) \in Nat /\ Allowed(unit, n) \in Nat
      /\ Allowed(unit, m) <= Allowed(unit, n)
  BY AllowedGrows
<1>2. UsedAt(u, unit, t) \in Nat
  BY <1>1, UsedBounds
<1> QED
  BY <1>1, <1>2 DEF Covered

\* An entry is covered for whatever is within the limit of one more save.
LEMMA CoveredNext ==
    ASSUME NEW u \in User \union {None}, NEW unit \in Units, NEW t, NEW m \in Nat,
           NEW d \in Nat, d <= Allowed(unit, m) + Limit(unit)
    PROVE  Covered(u, unit, t, d, m + 1)
<1>1. /\ Limit(unit) \in Nat /\ Allowed(unit, m) \in Nat
      /\ Allowed(unit, m + 1) = Allowed(unit, m) + Limit(unit)
  BY AllowedGrows
<1>2. UsedAt(u, unit, t) \in Nat
  BY <1>1, UsedBounds
<1>3. \A a \in Nat, l \in Nat, n \in Nat : d <= a + l => d <= (a + l) + n
  OBVIOUS
<1>4. d <= Allowed(unit, m + 1) + UsedAt(u, unit, t)
  BY <1>1, <1>2, <1>3
<1> QED
  BY <1>4 DEF Covered

LEMMA EntriesType ==
    ASSUME TypeOK, NEW k \in Keys
    PROVE  /\ \A p \in Procs : mem[p][k] \in User \union {None}
           /\ main.data # Torn => main.data[k] \in User \union {None}
           /\ tmp.data # Torn => tmp.data[k] \in User \union {None}
           /\ \A p \in Procs : Table(p)[k] \in User \union {None}
<1>1. \A t \in UserTable : t[k] \in User \union {None}
  BY DEF UserTable
<1>2. /\ \A p \in Procs : mem[p] \in UserTable
      /\ main.data \in UserTable \union {Torn} /\ tmp.data \in UserTable \union {Torn}
  BY DEF TypeOK
<1>3. \A p \in Procs : Table(p) \in UserTable
  BY TableType
<1> QED
  BY <1>1, <1>2, <1>3

\* What is granted with what is under way stays within the limit of one more save.
LEMMA DueWithin ==
    ASSUME TypeOK, NEW k \in Keys, NEW unit \in Units, NEW x, NEW y, NEW m \in Nat,
           Budget(k, unit, x, y, m)
    PROVE  Due(k, unit, AnyStep) <= Allowed(unit, m) + Limit(unit)
<1>1. Allowed(unit, m) \in Nat /\ Limit(unit) \in Nat
  BY AllowedGrows
<1>2. CASE ~Pending(k, unit, AnyStep)
  BY <1>2, DueNat DEF Budget
<1>3. CASE Pending(k, unit, AnyStep)
  <2>1. PICK g \in Gates : TRUE
    BY <1>3 DEF Pending
  <2>2. mem[g][k] # None /\ Covered(mem[g][k], unit, now, Due(k, unit, AnyStep), m)
    BY <1>3 DEF Budget
  <2>3. mem[g][k] \in User \union {None}
    BY EntriesType
  <2>4. UsedAt(mem[g][k], unit, now) \in 0 .. Limit(unit)
    BY <2>3, UsedBounds
  <2>5. Due(k, unit, AnyStep) \in Nat
    BY DueNat
  <2> QED
    BY <1>1, <2>2, <2>4, <2>5 DEF Covered
<1> QED
  BY <1>2, <1>3

LEMMA FlyingNat ==
    /\ Flying \in Nat
    /\ IsFiniteSet(InFlight) /\ InFlight \subseteq Procs \ Gates
    /\ Cardinality(InFlight) \in Nat
<1>1. InFlight \subseteq Procs \ Gates /\ InFlight \in SUBSET Procs
  BY DEF InFlight
<1> QED
  BY <1>1, CountsNat DEF Flying

LEMMA FlyingFalls ==
    ASSUME overlapped' = overlapped,
           \A q \in Procs : pc'[q] \in {"open", "write"} => pc[q] \in {"open", "write"}
    PROVE  Flying' \in Nat /\ Flying \in Nat /\ Flying' <= Flying
<1> DEFINE A == InFlight
           B == InFlight'
<1>1. B \subseteq A
  BY DEF InFlight
<1>2. IsFiniteSet(A) /\ Cardinality(A) \in Nat /\ Flying \in Nat
  BY FlyingNat
<1>3. Cardinality(B) \in Nat /\ Cardinality(B) <= Cardinality(A)
  <2> HIDE DEF A, B
  <2> QED
    BY <1>1, <1>2, FS_Subset, FS_CardinalityType
<1> QED
  BY <1>2, <1>3 DEF Flying

\* A process that does not authorize has written its data.
LEMMA FlyingWrite ==
    ASSUME TypeOK, NEW p \in Procs \ Gates, Write(p), overlapped
    PROVE  Flying' \in Nat /\ Flying \in Nat /\ Flying' + 1 = Flying
<1> DEFINE A == InFlight
           B == InFlight'
<1>1. B = A \ {p} /\ p \in A /\ overlapped'
  BY DEF InFlight, Write, Goto, TypeOK
<1>2. IsFiniteSet(A) /\ Cardinality(A) \in Nat /\ Flying \in Nat
  BY FlyingNat
<1>3. Cardinality(B) \in Nat /\ Cardinality(B) + 1 = Cardinality(A)
  <2> HIDE DEF A, B
  <2>1. Cardinality(A \ {p}) = Cardinality(A) - 1 /\ IsFiniteSet(A \ {p})
    BY <1>1, <1>2, FS_RemoveElement
  <2>2. Cardinality(A \ {p}) \in Nat
    BY <2>1, FS_CardinalityType
  <2> QED
    BY <1>1, <1>2, <2>1, <2>2
<1> QED
  BY <1>1, <1>2, <1>3 DEF Flying

\* A save is counted when it begins.
LEMMA FlyingSave ==
    ASSUME TypeOK, NEW p \in Procs, NEW t, NEW fn, NEW k, Save(p, t, fn, k), pc[p] = "idle",
           ~overlapped => rolled = 0
    PROVE  Flying' \in Nat /\ Flying \in Nat /\ rolled' \in Nat /\ Flying' + rolled <= Flying + rolled'
<1> DEFINE A == InFlight
           B == InFlight'
<1>1. /\ overlapped' = (overlapped \/ \E q \in Procs : pc[q] # "idle")
      /\ rolled' = CASE overlapped -> rolled + Cardinality({p} \ Gates)
                     [] overlapped' /\ ~overlapped -> Cardinality(Saving(p) \ Gates)
                     [] OTHER -> rolled
      /\ \A q \in Procs : pc'[q] = IF q = p THEN "open" ELSE pc[q]
  BY DEF Save, TypeOK
<1>2. IsFiniteSet(A) /\ Cardinality(A) \in Nat /\ Flying \in Nat /\ A \subseteq Procs \ Gates
  BY FlyingNat
<1>3. B \in SUBSET Procs /\ IsFiniteSet(B) /\ Cardinality(B) \in Nat
  BY CountsNat DEF InFlight
<1>4. rolled \in Nat /\ overlapped \in BOOLEAN
  BY DEF TypeOK
<1>5. CASE overlapped /\ p \in Gates
  <2>1. B = A
    BY <1>1, <1>5 DEF InFlight
  <2>2. {p} \ Gates = {} /\ Cardinality({}) = 0
    BY <1>5, FS_EmptySet
  <2>3. overlapped' /\ rolled' = rolled
    <3>1. Cardinality({p} \ Gates) = 0
      BY <2>2
    <3>2. overlapped' /\ rolled' = rolled + Cardinality({p} \ Gates)
      BY <1>1, <1>5
    <3> QED
      BY <3>1, <3>2, <1>4
  <2>4. Flying' = Flying
    BY <2>1, <2>3, <1>5 DEF Flying
  <2> QED
    BY <2>3, <2>4, <1>2, <1>4
<1>6. CASE overlapped /\ p \notin Gates
  <2>1. B = A \union {p} /\ p \notin A
    BY <1>1, <1>6 DEF InFlight
  <2>2. {p} \ Gates = {p} /\ Cardinality({p}) = 1
    BY <1>6, FS_Singleton
  <2>3. Cardinality(B) = Cardinality(A) + 1
    <3> HIDE DEF A, B
    <3> QED
      BY <2>1, <1>2, FS_AddElement
  <2>4. overlapped' /\ rolled' = rolled + 1
    <3>1. overlapped' /\ rolled' = rolled + Cardinality({p} \ Gates)
      BY <1>1, <1>6
    <3> QED
      BY <2>2, <3>1
  <2>5. Flying = Cardinality(A) /\ Flying' = Cardinality(A) + 1
    BY <2>3, <2>4, <1>6 DEF Flying
  <2>6. \A f \in Nat, r \in Nat : f + 1 \in Nat /\ r + 1 \in Nat /\ (f + 1) + r <= f + (r + 1)
    OBVIOUS
  <2> QED
    BY <2>4, <2>5, <2>6, <1>2, <1>4
<1>7. CASE ~overlapped /\ overlapped'
  <2>1. B \subseteq Saving(p) \ Gates
    BY <1>1 DEF InFlight, Saving
  <2>2. /\ IsFiniteSet(Saving(p) \ Gates)
        /\ Cardinality(B) <= Cardinality(Saving(p) \ Gates)
        /\ Cardinality(Saving(p) \ Gates) \in Nat
    <3>1. Saving(p) \ Gates \in SUBSET Procs
      BY DEF Saving
    <3>2. IsFiniteSet(Saving(p) \ Gates) /\ Cardinality(Saving(p) \ Gates) \in Nat
      BY <3>1, CountsNat
    <3> HIDE DEF A, B
    <3> QED
      BY <2>1, <3>2, FS_Subset
  <2> QED
    BY <2>2, <1>1, <1>2, <1>3, <1>4, <1>7 DEF Flying
<1>8. CASE ~overlapped /\ ~overlapped'
  BY <1>1, <1>4, <1>8 DEF Flying
<1> QED
  BY <1>4, <1>5, <1>6, <1>7, <1>8

LEMMA RoomStays ==
    ASSUME NEW x \in 0 .. 1, NEW y \in 0 .. 1, NEW m \in Nat,
           NEW f \in Nat, NEW r \in Nat, m + f + x + y <= r,
           NEW f2 \in Nat, NEW r2 \in Nat, f2 + r <= f + r2
    PROVE  m + f2 + x + y <= r2
OBVIOUS

LEMMA RoomSame ==
    ASSUME NEW f \in Nat, NEW r \in Nat, NEW f2 \in Nat, NEW r2, r2 = r, f2 <= f
    PROVE  f2 + r <= f + r2
OBVIOUS

LEMMA RoomMoves ==
    ASSUME NEW x \in 0 .. 1, NEW y \in 0 .. 1, NEW m \in Nat,
           NEW f \in Nat, NEW r \in Nat, m + f + x + y <= r,
           NEW i \in 0 .. 1, NEW j \in 0 .. 1, i + j <= x + y + 1,
           NEW f2 \in Nat, f2 + 1 = f
    PROVE  m + f2 + i + j <= r
OBVIOUS

\* What the MCP server works on when it is called is covered.
LEMMA BudgetRead ==
    ASSUME TypeOK, Budgets, NEW g \in Gates, pc[g] = "idle", NEW k \in Keys, NEW unit \in Units
    PROVE  \E x, y \in 0 .. 1, m \in Nat :
              /\ Budget(k, unit, x, y, m)
              /\ Covered(Table(g)[k], unit, now, Granted(k, unit), m)
<1>1. PICK x \in 0 .. 1, y \in 0 .. 1, m \in Nat : Budget(k, unit, x, y, m)
  BY DEF Budgets
<1>2. \A S : "idle" \notin S => Due(k, unit, S) = Granted(k, unit) /\ ~Pending(k, unit, S)
  <2>1. \A S : "idle" \notin S => ~Pending(k, unit, S)
    BY DEF Pending
  <2> QED
    BY <2>1, DueNat
<1>3. Due(k, unit, AnyStep) = Granted(k, unit) /\ Due(k, unit, Past) = Granted(k, unit)
      /\ Due(k, unit, {"stamp"}) = Granted(k, unit) /\ Granted(k, unit) \in Nat
      /\ ~Pending(k, unit, AnyStep)
  BY <1>2, DueNat DEF AnyStep, Past
<1>4. CASE ~Newer(g) \/ y = 0
  BY <1>1, <1>3, <1>4 DEF Budget, Table, Newer
<1>5. CASE Newer(g) /\ y = 1
  <2>1. Granted(k, unit) <= Allowed(unit, m) + Limit(unit)
    BY <1>1 DEF Budget
  <2>2. \A u \in User \union {None} : Covered(u, unit, now, Granted(k, unit), m + 1)
    BY <2>1, <1>3, CoveredNext
  <2>3. /\ \A p \in Procs : mem[p][k] \in User \union {None}
        /\ main.data # Torn => main.data[k] \in User \union {None}
        /\ tmp.data # Torn => tmp.data[k] \in User \union {None}
        /\ Table(g)[k] \in User \union {None}
    BY EntriesType
  <2>4. (m + 1) + Flying + x + 0 <= rolled
    <3>1. m + Flying + x + y <= rolled
      BY <1>1 DEF Budget
    <3> QED
      BY <3>1, <1>5, FlyingNat
  <2>5. Granted(k, unit) <= Allowed(unit, m + 1) + Limit(unit)
    <3>1. /\ Limit(unit) \in Nat /\ Allowed(unit, m) \in Nat
          /\ Allowed(unit, m + 1) = Allowed(unit, m) + Limit(unit)
      BY AllowedGrows
    <3> QED
      BY <3>1, <2>1, <1>3
  <2>6. Budget(k, unit, x, 0, m + 1)
    BY <1>3, <2>2, <2>3, <2>4, <2>5 DEF Budget
  <2>7. m + 1 \in Nat /\ 0 \in 0 .. 1
    OBVIOUS
  <2> QED
    BY <2>2, <2>3, <2>6, <2>7
<1> QED
  BY <1>1, <1>4, <1>5

LEMMA BudgetStarts ==
    ASSUME Init
    PROVE  Budgets /\ Exact
<1>1. TypeOK /\ overlapped = FALSE /\ rolled = 0
  BY KeptStarts DEF KeptInv
<1>2. /\ \A p \in Procs, k \in Keys : mem[p][k] = None
      /\ \A k \in Keys : main.data[k] = None /\ tmp.data[k] = None
      /\ \A p \in Procs : pc[p] = "idle"
      /\ \A k \in Keys, unit \in Units : Granted(k, unit) = 0
  BY DEF Init, NoFile, Nobody, Granted
<1>3. \A k \in Keys, unit \in Units : Due(k, unit, {"stamp"}) = 0
  <2> TAKE k \in Keys, unit \in Units
  <2>1. ~Pending(k, unit, {"stamp"})
    <3>1. \A p \in Procs : pc[p] \notin {"stamp"}
      BY <1>2
    <3> QED
      BY <3>1 DEF Pending
  <2>2. Granted(k, unit) = 0
    BY <1>2
  <2> QED
    BY <2>1, <2>2 DEF Due
<1>4. Exact
  BY <1>2, <1>3 DEF Exact, ExactAt, UsedAt, Busy
<1>5. ASSUME NEW k \in Keys, NEW unit \in Units PROVE Budget(k, unit, 0, 0, 0)
  <2>1. Allowed(unit, 0) \in Nat /\ Limit(unit) \in Nat
    BY AllowedGrows
  <2>2. ~Pending(k, unit, AnyStep)
    BY <1>2 DEF Pending, AnyStep
  <2>3. Granted(k, unit) = 0 /\ Flying = 0
    BY <1>1, <1>2 DEF Flying
  <2> QED
    BY <2>1, <2>2, <2>3, <1>1, <1>2 DEF Budget, Covered
<1>6. 0 \in 0 .. 1 /\ 0 \in Nat
  OBVIOUS
<1> QED
  BY <1>4, <1>5, <1>6 DEF Budgets

\* A call of the MCP server.
LEMMA BudgetGate ==
    ASSUME UsersInv, TypeOK', NEW g \in Gates, Begun(g),
           NEW k \in Keys, NEW unit \in Units
    PROVE  \E x, y \in 0 .. 1, m \in Nat : Budget(k, unit, x, y, m)'
<1>1. TypeOK /\ Budgets /\ (~overlapped => rolled = 0) /\ KeysMade
      /\ pc[g] = "idle" /\ g \in Procs
  BY DEF UsersInv, KeptInv, Begun, Answers, Saves
<1>2. PICK x \in 0 .. 1, y \in 0 .. 1, m \in Nat :
         Budget(k, unit, x, y, m) /\ Covered(Table(g)[k], unit, now, Granted(k, unit), m)
  BY <1>1, BudgetRead
<1>3. \A h \in Gates : h = g
  OBVIOUS
<1>4. \A S : "idle" \notin S => ~Pending(k, unit, S) /\ Due(k, unit, S) = Granted(k, unit)
  <2>1. \A S : "idle" \notin S => ~Pending(k, unit, S)
    BY <1>1, <1>3 DEF Pending
  <2> QED
    BY <2>1, <1>1, DueNat
<1>5. Due(k, unit, AnyStep) = Granted(k, unit) /\ Due(k, unit, Past) = Granted(k, unit)
      /\ Due(k, unit, {"stamp"}) = Granted(k, unit) /\ Granted(k, unit) \in Nat
      /\ Flying \in Nat /\ Allowed(unit, m) \in Nat /\ Limit(unit) \in Nat
  BY <1>4, <1>1, DueNat, FlyingNat, AllowedGrows DEF AnyStep, Past
<1>6. UNCHANGED <<main, tmp, granted, now>>
  BY DEF Begun, Answers, Saves, files, history
<1>7. Granted(k, unit)' = Granted(k, unit)
  BY <1>6 DEF Granted
<1>8. /\ m + Flying + x + y <= rolled
      /\ Granted(k, unit) <= Allowed(unit, m) + Limit(unit)
      /\ x = 0 /\ tmp.data # Torn => Covered(tmp.data[k], unit, now, Granted(k, unit), m)
      /\ y = 0 /\ main.data # Torn => Covered(main.data[k], unit, now, Granted(k, unit), m)
  BY <1>2, <1>5 DEF Budget
<1>9. CASE Answers(g)
  <2>1. PICK t \in UserTable : /\ mem' = [mem EXCEPT ![g] = t]
                               /\ \A j \in Keys : Renewed(t[j], Table(g)[j], now)
    BY <1>9 DEF Answers
  <2>2. UNCHANGED <<pc, call, rolled, overlapped>> /\ mem'[g] = t
    BY <1>1, <1>9, <2>1 DEF Answers, TypeOK
  <2>3. Covered(t[k], unit, now, Granted(k, unit), m)
    <3>1. Table(g)[k] = None => t[k] = None
      BY <2>1 DEF Renewed
    <3>2. UsedAt(t[k], unit, now) = UsedAt(Table(g)[k], unit, now)
      BY <2>1 DEF Renewed
    <3> QED
      BY <3>1, <3>2, <1>2 DEF Covered
  <2>4. \A S : Due(k, unit, S)' = Due(k, unit, S) /\ (Pending(k, unit, S)' <=> Pending(k, unit, S))
    BY <2>2, <1>6, <1>7 DEF Due, Pending, Same
  <2>5. Flying' = Flying
    BY <2>2 DEF Flying, InFlight
  <2>6. ~Pending(k, unit, AnyStep)'
    BY <2>4, <1>4 DEF AnyStep
  <2>7. Budget(k, unit, x, y, m)'
    BY <1>3, <1>5, <1>6, <1>7, <1>8, <2>2, <2>3, <2>4, <2>5, <2>6 DEF Budget
  <2> QED
    BY <2>7
<1>10. ASSUME NEW fn \in Calls, NEW i \in Keys, Saves(g, fn, i)
       PROVE  Budget(k, unit, x, y, m)'
  <2>1. PICK t \in UserTable : /\ Save(g, t, fn, i) /\ Entry(g, fn, i, t[i], Table(g)[i])
                               /\ t[i] \in User
                               /\ \A j \in Keys \ {i} : t[j] = Table(g)[j]
    BY <1>10 DEF Saves
  <2>2. /\ mem'[g] = t /\ pc'[g] = "open" /\ call'[g] = [fn |-> fn, key |-> i, at |-> now]
    BY <2>1, <1>1 DEF Save, TypeOK
  <2>3. Flying' \in Nat /\ rolled' \in Nat /\ Flying' + rolled <= Flying + rolled'
    BY <2>1, <1>1, FlyingSave
  <2>4. m + Flying' + x + y <= rolled'
    <3>1. rolled \in Nat
      BY <1>1 DEF TypeOK
    <3> QED
      BY <3>1, <2>3, <1>5, <1>8, RoomStays
  <2>5. Due(k, unit, Past)' = Granted(k, unit) /\ Due(k, unit, {"stamp"})' = Granted(k, unit)
    <3>1. ~Pending(k, unit, Past)' /\ ~Pending(k, unit, {"stamp"})'
      BY <2>2, <1>3 DEF Pending, Past
    <3> QED
      BY <3>1, <1>5, <1>7 DEF Due
  <2>6. Pending(k, unit, AnyStep)' => k = i /\ fn = "authorize"
    BY <2>2, <1>3 DEF Pending
  <2>7. t[i] # None
    BY <2>1
  <2>8. /\ Due(k, unit, AnyStep)' \in {Granted(k, unit), Granted(k, unit) + 1}
        /\ ~Pending(k, unit, AnyStep)' => Due(k, unit, AnyStep)' = Granted(k, unit)
    BY <1>5, <1>7 DEF Due
  <2>9. /\ UsedAt(t[k], unit, now) \in Nat /\ UsedAt(Table(g)[k], unit, now) \in Nat
    <3>1. t[k] \in User \union {None} /\ Table(g)[k] \in User \union {None}
      BY <1>1, EntriesType DEF UserTable
    <3> QED
      BY <3>1, <1>5, UsedBounds
  <2>10. Covered(t[k], unit, now, Due(k, unit, AnyStep)', m)
    <3>1. CASE k # i
      BY <3>1, <1>2, <2>1, <2>6, <2>8
    <3>2. CASE k = i /\ fn = "authorize"
      <4>1. UsedAt(t[k], unit, now) = UsedAt(Table(g)[k], unit, now) + 1
            /\ Table(g)[k] # None
        BY <3>2, <2>1 DEF Entry
      <4>2. Granted(k, unit) <= Allowed(unit, m) + UsedAt(Table(g)[k], unit, now)
        BY <4>1, <1>2 DEF Covered
      <4>3. Due(k, unit, AnyStep)' <= Allowed(unit, m) + UsedAt(t[k], unit, now)
        BY <4>1, <4>2, <1>5, <2>8, <2>9
      <4> QED
        BY <4>3 DEF Covered
    <3>3. CASE k = i /\ fn = "create_user"
      <4>1. k = made + 1
        BY <3>3, <2>1 DEF Entry
      <4>2. Granted(k, unit) = 0
        BY <4>1, <1>1 DEF KeysMade, Granted, TypeOK
      <4>3. Due(k, unit, AnyStep)' = 0
        BY <4>2, <3>3, <2>6, <2>8
      <4> QED
        BY <4>3, <1>5, <2>9 DEF Covered
    <3>4. CASE k = i /\ fn \in {"disable", "enable"}
      <4>1. UsedAt(t[k], unit, now) = UsedAt(Table(g)[k], unit, now)
            /\ Table(g)[k] # None
        BY <3>4, <2>1 DEF Entry
      <4>2. Due(k, unit, AnyStep)' = Granted(k, unit)
        BY <3>4, <2>6, <2>8
      <4> QED
        BY <4>1, <4>2, <1>2 DEF Covered
    <3> QED
      BY <3>1, <3>2, <3>3, <3>4 DEF Calls
  <2>11. Pending(k, unit, AnyStep)' => mem'[g][k] # None
    BY <2>2, <2>6, <2>7
  <2> QED
    BY <1>3, <1>6, <1>7, <1>8, <2>2, <2>4, <2>5, <2>10, <2>11 DEF Budget
<1>11. \A fn \in Calls, i \in Keys : Saves(g, fn, i) => Budget(k, unit, x, y, m)'
  BY <1>10
<1> QED
  BY <1>9, <1>11 DEF Begun

\* A call of another process.
LEMMA BudgetAdmin ==
    ASSUME UsersInv, NEW p \in Procs \ Gates, Begun(p),
           NEW k \in Keys, NEW unit \in Units,
           NEW x \in 0 .. 1, NEW y \in 0 .. 1, NEW m \in Nat, Budget(k, unit, x, y, m)
    PROVE  Budget(k, unit, x, y, m)'
<1>1. TypeOK /\ (~overlapped => rolled = 0) /\ pc[p] = "idle"
  BY DEF UsersInv, KeptInv, Begun, Answers, Saves
<1>2. UNCHANGED <<main, tmp, granted, now>>
      /\ \A g \in Gates : pc'[g] = pc[g] /\ call'[g] = call[g] /\ mem'[g] = mem[g]
  <2>1. CASE Answers(p)
    BY <2>1, <1>1 DEF Answers, files, history, TypeOK
  <2>2. ASSUME NEW fn \in Calls, NEW i \in Keys, Saves(p, fn, i)
        PROVE  UNCHANGED <<main, tmp, granted, now>>
               /\ \A g \in Gates : pc'[g] = pc[g] /\ call'[g] = call[g] /\ mem'[g] = mem[g]
    BY <2>2, <1>1 DEF Saves, Save, files, TypeOK
  <2> QED
    BY <2>1, <2>2 DEF Begun
<1>3. \A S : Due(k, unit, S)' = Due(k, unit, S) /\ (Pending(k, unit, S)' <=> Pending(k, unit, S))
  BY <1>2 DEF Due, Pending, Same, Granted
<1>4. m + Flying' + x + y <= rolled'
  <2>1. m + Flying + x + y <= rolled /\ rolled \in Nat
    BY <1>1 DEF Budget, TypeOK
  <2>2. CASE Answers(p)
    <3>1. rolled' = rolled /\ Flying' = Flying
      BY <2>2 DEF Answers, Flying, InFlight
    <3> QED
      BY <3>1, <2>1
  <2>3. ASSUME NEW fn \in Calls, NEW i \in Keys, Saves(p, fn, i)
        PROVE  m + Flying' + x + y <= rolled'
    <3>1. PICK t \in UserTable : Save(p, t, fn, i)
      BY <2>3 DEF Saves
    <3>2. Flying' \in Nat /\ Flying \in Nat /\ rolled' \in Nat /\ Flying' + rolled <= Flying + rolled'
      BY <3>1, <1>1, FlyingSave
    <3> QED
      BY <3>2, <2>1, RoomStays
  <2> QED
    BY <2>2, <2>3 DEF Begun
<1>5. Granted(k, unit)' = Granted(k, unit)
  BY <1>2 DEF Granted
<1> QED
  BY <1>2, <1>3, <1>4, <1>5 DEF Budget

\* A process writes its data.
LEMMA BudgetWrite ==
    ASSUME UsersInv, NEW p \in Procs, Write(p),
           NEW k \in Keys, NEW unit \in Units,
           NEW x \in 0 .. 1, NEW y \in 0 .. 1, NEW m \in Nat, Budget(k, unit, x, y, m)
    PROVE  \E i, j \in 0 .. 1 : Budget(k, unit, i, j, m)'
<1>1. TypeOK /\ Handles /\ KeysMade
  BY DEF UsersInv, KeptInv
<1>2. /\ pc[p] = "write" /\ pc'[p] = "replace" /\ \A q \in Procs \ {p} : pc'[q] = pc[q]
      /\ UNCHANGED <<mem, loaded, call, granted, now, rolled, overlapped>>
  BY <1>1 DEF Write, Goto, TypeOK, history
<1>3. /\ Granted(k, unit)' = Granted(k, unit)
      /\ Pending(k, unit, AnyStep)' => Pending(k, unit, AnyStep)
      /\ Due(k, unit, AnyStep)' \in Nat /\ Due(k, unit, AnyStep)' <= Due(k, unit, AnyStep)
      /\ Due(k, unit, Past)' \in Nat /\ Due(k, unit, Past)' <= Due(k, unit, Past)
      /\ Due(k, unit, {"stamp"})' \in Nat
      /\ Due(k, unit, {"stamp"})' <= Due(k, unit, {"stamp"})
  <2>1. /\ Pending(k, unit, AnyStep)' => Pending(k, unit, AnyStep)
        /\ Pending(k, unit, Past)' => Pending(k, unit, Past)
        /\ Pending(k, unit, {"stamp"})' => Pending(k, unit, {"stamp"})
    BY <1>2 DEF Pending, Same, AnyStep, Past
  <2> QED
    BY <2>1, <1>1, <1>2, DueQuiet DEF Granted
<1>4. /\ Due(k, unit, AnyStep) \in Nat /\ Due(k, unit, Past) \in Nat /\ Due(k, unit, {"stamp"}) \in Nat
      /\ Due(k, unit, Past) <= Due(k, unit, AnyStep)
      /\ Due(k, unit, {"stamp"}) <= Due(k, unit, AnyStep)
  BY <1>1, DueNat
<1>5. Flying' \in Nat /\ Flying \in Nat /\ Flying' <= Flying
  BY <1>2, FlyingFalls
<1>6. /\ m + Flying + x + y <= rolled /\ rolled \in Nat
      /\ Granted(k, unit) <= Allowed(unit, m) + Limit(unit)
      /\ \A g \in Gates : Covered(mem[g][k], unit, now, Due(k, unit, AnyStep), m)
      /\ Pending(k, unit, AnyStep) => \A g \in Gates : mem[g][k] # None
      /\ x = 0 /\ tmp.data # Torn => Covered(tmp.data[k], unit, now, Due(k, unit, Past), m)
      /\ y = 0 /\ main.data # Torn => Covered(main.data[k], unit, now, Due(k, unit, {"stamp"}), m)
  BY <1>1 DEF Budget, TypeOK
<1>7. /\ \A q \in Procs : mem[q][k] \in User \union {None}
      /\ main.data # Torn => main.data[k] \in User \union {None}
      /\ tmp.data # Torn => tmp.data[k] \in User \union {None}
  BY <1>1, EntriesType
<1>8. /\ \A g \in Gates : Covered(mem'[g][k], unit, now', Due(k, unit, AnyStep)', m)
      /\ Pending(k, unit, AnyStep)' => \A g \in Gates : mem'[g][k] # None
      /\ x = 0 /\ tmp.data # Torn => Covered(tmp.data[k], unit, now', Due(k, unit, Past)', m)
      /\ y = 0 /\ main.data # Torn => Covered(main.data[k], unit, now', Due(k, unit, {"stamp"})', m)
  <2>1. /\ \A g \in Gates : Covered(mem[g][k], unit, now, Due(k, unit, AnyStep)', m)
        /\ x = 0 /\ tmp.data # Torn => Covered(tmp.data[k], unit, now, Due(k, unit, Past)', m)
        /\ y = 0 /\ main.data # Torn => Covered(main.data[k], unit, now, Due(k, unit, {"stamp"})', m)
    BY <1>3, <1>4, <1>6, <1>7, CoveredFalls
  <2> QED
    BY <2>1, <1>2, <1>3, <1>6
<1>9. /\ handle[p] = "tmp" => tmp'.data \in {mem[p], Torn} /\ UNCHANGED main
      /\ handle[p] = "main" => main'.data \in {mem[p], Torn} /\ UNCHANGED tmp
      /\ handle[p] = "gone" => UNCHANGED <<main, tmp>>
      /\ handle[p] \in Names
  BY <1>1 DEF Write, Mixed, Touched, TypeOK
<1>10. CASE p \in Gates \/ ~overlapped
  <2>1. /\ Covered(mem[p][k], unit, now', Due(k, unit, Past)', m)
        /\ Covered(mem[p][k], unit, now', Due(k, unit, {"stamp"})', m)
    <3>1. Covered(mem[p][k], unit, now, Due(k, unit, AnyStep), m)
      <4>1. CASE p \in Gates
        BY <4>1, <1>6
      <4>2. CASE ~overlapped
        <5>1. Due(k, unit, AnyStep) <= UsedAt(mem[p][k], unit, now)
          BY <4>2, <1>2 DEF UsersInv, Exact, ExactAt, Busy
        <5>2. Allowed(unit, m) \in Nat /\ UsedAt(mem[p][k], unit, now) \in Nat
          BY <1>1, AllowedGrows, EntriesCount
        <5> QED
          BY <5>1, <5>2, <1>4 DEF Covered
      <4> QED
        BY <1>10, <4>1, <4>2
    <3>2. mem[p][k] \in User \union {None}
      BY <1>7
    <3>3. /\ Due(k, unit, Past)' <= Due(k, unit, AnyStep)
          /\ Due(k, unit, {"stamp"})' <= Due(k, unit, AnyStep)
      BY <1>3, <1>4
    <3>4. /\ Covered(mem[p][k], unit, now, Due(k, unit, Past)', m)
          /\ Covered(mem[p][k], unit, now, Due(k, unit, {"stamp"})', m)
      BY <3>1, <3>2, <3>3, <1>3, <1>4, CoveredFalls
    <3> QED
      BY <3>4, <1>2
  <2>2. m + Flying' + x + y <= rolled'
    <3>1. Flying' + rolled <= Flying + rolled'
      <4>1. rolled' = rolled /\ rolled \in Nat
        BY <1>2, <1>6
      <4> QED
        BY <4>1, <1>5, RoomSame
    <3> QED
      BY <3>1, <1>2, <1>5, <1>6, RoomStays
  <2>3. Budget(k, unit, x, y, m)'
    BY <1>2, <1>3, <1>6, <1>8, <1>9, <2>1, <2>2 DEF Budget, Names
  <2> QED
    BY <2>3
<1>11. CASE p \notin Gates /\ overlapped
  <2>1. Flying' + 1 = Flying
    BY <1>1, <1>11, FlyingWrite
  <2>2. PICK i \in 0 .. 1, j \in 0 .. 1 :
           /\ i + j <= x + y + 1
           /\ i = 0 => x = 0 /\ UNCHANGED tmp
           /\ j = 0 => y = 0 /\ UNCHANGED main
    <3>1. CASE handle[p] = "tmp"
      BY <3>1, <1>9
    <3>2. CASE handle[p] = "main"
      BY <3>2, <1>9
    <3>3. CASE handle[p] = "gone"
      BY <3>3, <1>9
    <3> QED
      BY <3>1, <3>2, <3>3, <1>9 DEF Names
  <2>5. m + Flying' + i + j <= rolled'
    <3>1. rolled' = rolled /\ rolled \in Nat /\ m + Flying + x + y <= rolled
      BY <1>2, <1>6
    <3>2. m + Flying' + i + j <= rolled
      BY <2>1, <2>2, <3>1, <1>5, RoomMoves
    <3> QED
      BY <3>1, <3>2
  <2>6. Budget(k, unit, i, j, m)'
    BY <1>2, <1>3, <1>6, <1>8, <2>2, <2>5 DEF Budget
  <2> QED
    BY <2>6
<1> QED
  BY <1>10, <1>11

\* The other steps leave tmp or move it to main.
LEMMA BudgetMoves ==
    ASSUME UsersInv, NEW p \in Procs,
           Open(p) \/ Replace(p) \/ ReplaceFails(p) \/ Stamp(p) \/ Restart(p),
           NEW k \in Keys, NEW unit \in Units,
           NEW x \in 0 .. 1, NEW y \in 0 .. 1, NEW m \in Nat, Budget(k, unit, x, y, m)
    PROVE  \E i, j \in 0 .. 1 : Budget(k, unit, i, j, m)'
<1>1. TypeOK /\ Handles
  BY DEF UsersInv, KeptInv
<1>2. UNCHANGED <<now, rolled, overlapped>>
  BY DEF Open, Replace, ReplaceFails, Stamp, Restart
<1>3. Flying' \in Nat /\ Flying \in Nat /\ Flying' <= Flying
  <2>1. \A q \in Procs : pc'[q] \in {"open", "write"} => pc[q] \in {"open", "write"}
    BY <1>1 DEF Open, Replace, ReplaceFails, Stamp, Restart, Goto, TypeOK
  <2> QED
    BY <2>1, <1>2, FlyingFalls
<1>4. /\ m + Flying + x + y <= rolled /\ rolled \in Nat
      /\ Granted(k, unit) <= Allowed(unit, m) + Limit(unit)
      /\ \A g \in Gates : Covered(mem[g][k], unit, now, Due(k, unit, AnyStep), m)
      /\ Pending(k, unit, AnyStep) => \A g \in Gates : mem[g][k] # None
      /\ x = 0 /\ tmp.data # Torn => Covered(tmp.data[k], unit, now, Due(k, unit, Past), m)
      /\ y = 0 /\ main.data # Torn => Covered(main.data[k], unit, now, Due(k, unit, {"stamp"}), m)
  BY <1>1 DEF Budget, TypeOK
<1>5. m + Flying' + x + y <= rolled'
  <2>1. Flying' + rolled <= Flying + rolled'
    BY <1>2, <1>3, <1>4
  <2> QED
    BY <2>1, <1>2, <1>3, <1>4, RoomStays
<1>6. /\ Due(k, unit, AnyStep) \in Nat /\ Due(k, unit, Past) \in Nat /\ Due(k, unit, {"stamp"}) \in Nat
      /\ Granted(k, unit) \in Nat
  BY <1>1, DueNat
<1>7. /\ \A q \in Procs : mem[q][k] \in User \union {None}
      /\ main.data # Torn => main.data[k] \in User \union {None}
      /\ tmp.data # Torn => tmp.data[k] \in User \union {None}
  BY <1>1, EntriesType
<1>8. ASSUME Due(k, unit, AnyStep)' \in Nat, Due(k, unit, AnyStep)' <= Due(k, unit, AnyStep),
             Due(k, unit, {"stamp"})' \in Nat, Due(k, unit, {"stamp"})' <= Due(k, unit, {"stamp"}),
             Due(k, unit, Past)' \in Nat, Due(k, unit, Past)' <= Due(k, unit, Past)
      PROVE  /\ \A g \in Gates : Covered(mem[g][k], unit, now', Due(k, unit, AnyStep)', m)
             /\ x = 0 /\ tmp.data # Torn => Covered(tmp.data[k], unit, now', Due(k, unit, Past)', m)
             /\ y = 0 /\ main.data # Torn =>
                   Covered(main.data[k], unit, now', Due(k, unit, {"stamp"})', m)
  <2>1. /\ \A g \in Gates : Covered(mem[g][k], unit, now, Due(k, unit, AnyStep)', m)
        /\ x = 0 /\ tmp.data # Torn => Covered(tmp.data[k], unit, now, Due(k, unit, Past)', m)
        /\ y = 0 /\ main.data # Torn =>
              Covered(main.data[k], unit, now, Due(k, unit, {"stamp"})', m)
    BY <1>4, <1>6, <1>7, <1>8, CoveredFalls
  <2> QED
    BY <2>1, <1>2
<1>9. CASE Open(p)
  <2>1. /\ UNCHANGED <<main, mem, call, granted>> /\ tmp'.data = Torn
        /\ pc[p] = "open" /\ pc'[p] = "write" /\ \A q \in Procs \ {p} : pc'[q] = pc[q]
    BY <1>1, <1>9 DEF Open, Goto, Touched, TypeOK, history
  <2>2. /\ Pending(k, unit, AnyStep)' => Pending(k, unit, AnyStep)
        /\ Pending(k, unit, {"stamp"})' => Pending(k, unit, {"stamp"})
    BY <2>1, <1>2 DEF Pending, Same, AnyStep
  <2>3. /\ Due(k, unit, AnyStep)' \in Nat /\ Due(k, unit, AnyStep)' <= Due(k, unit, AnyStep)
        /\ Due(k, unit, {"stamp"})' \in Nat /\ Due(k, unit, {"stamp"})' <= Due(k, unit, {"stamp"})
    BY <2>1, <2>2, <1>1, DueQuiet
  <2>4. /\ \A g \in Gates : Covered(mem[g][k], unit, now, Due(k, unit, AnyStep)', m)
        /\ y = 0 /\ main.data # Torn =>
              Covered(main.data[k], unit, now, Due(k, unit, {"stamp"})', m)
    BY <2>3, <1>4, <1>6, <1>7, CoveredFalls
  <2>5. Granted(k, unit)' = Granted(k, unit)
    BY <2>1 DEF Granted
  <2>6. Budget(k, unit, x, y, m)'
    BY <1>2, <1>4, <1>5, <2>1, <2>2, <2>4, <2>5 DEF Budget
  <2> QED
    BY <2>6
<1>10. CASE Replace(p)
  <2>1. /\ main' = tmp /\ tmp' = NoFile /\ UNCHANGED <<mem, call, granted>>
        /\ pc[p] = "replace" /\ pc'[p] = "stamp" /\ \A q \in Procs \ {p} : pc'[q] = pc[q]
    BY <1>1, <1>10 DEF Replace, Goto, TypeOK, history
  <2>2. /\ Pending(k, unit, AnyStep)' => Pending(k, unit, AnyStep)
        /\ Pending(k, unit, {"stamp"})' => Pending(k, unit, Past)
    BY <2>1, <1>2 DEF Pending, Same, AnyStep, Past
  <2>3. /\ Due(k, unit, AnyStep)' \in Nat /\ Due(k, unit, AnyStep)' <= Due(k, unit, AnyStep)
        /\ Due(k, unit, {"stamp"})' \in Nat /\ Due(k, unit, {"stamp"})' <= Due(k, unit, Past)
    BY <2>1, <2>2, <1>1, DueQuiet
  <2>4. /\ \A g \in Gates : Covered(mem[g][k], unit, now, Due(k, unit, AnyStep)', m)
        /\ x = 0 /\ tmp.data # Torn =>
              Covered(tmp.data[k], unit, now, Due(k, unit, {"stamp"})', m)
    BY <2>3, <1>4, <1>6, <1>7, CoveredFalls
  <2>5. Granted(k, unit)' = Granted(k, unit)
    BY <2>1 DEF Granted
  <2>6. m + Flying' + 0 + x <= rolled'
    BY <1>5, <1>3, <1>2, <1>4
  <2>7. NoFile.data[k] = None
    BY DEF NoFile, Nobody
  <2>8. Covered(tmp'.data[k], unit, now', Due(k, unit, Past)', m)
    BY <2>1, <2>7 DEF Covered
  <2>9. Budget(k, unit, 0, x, m)'
    BY <1>2, <1>4, <2>1, <2>2, <2>4, <2>5, <2>6, <2>8 DEF Budget
  <2> QED
    BY <2>9
<1>11. CASE ReplaceFails(p) \/ Restart(p)
  <2>1. /\ UNCHANGED <<main, tmp, granted>> /\ pc'[p] = "idle"
        /\ \A q \in Procs \ {p} : pc'[q] = pc[q] /\ call'[q] = call[q] /\ mem'[q] = mem[q]
        /\ mem'[p] \in {mem[p], Nobody}
    BY <1>1, <1>11 DEF ReplaceFails, Restart, Goto, TypeOK, files, history
  <2>2. /\ Pending(k, unit, AnyStep)' => Pending(k, unit, AnyStep)
        /\ Pending(k, unit, Past)' => Pending(k, unit, Past)
        /\ Pending(k, unit, {"stamp"})' => Pending(k, unit, {"stamp"})
    BY <2>1, <1>2 DEF Pending, Same, AnyStep, Past
  <2>3. /\ Due(k, unit, AnyStep)' \in Nat /\ Due(k, unit, AnyStep)' <= Due(k, unit, AnyStep)
        /\ Due(k, unit, Past)' \in Nat /\ Due(k, unit, Past)' <= Due(k, unit, Past)
        /\ Due(k, unit, {"stamp"})' \in Nat /\ Due(k, unit, {"stamp"})' <= Due(k, unit, {"stamp"})
    BY <2>1, <2>2, <1>1, DueQuiet
  <2>4. /\ \A g \in Gates : Covered(mem[g][k], unit, now', Due(k, unit, AnyStep)', m)
        /\ x = 0 /\ tmp.data # Torn => Covered(tmp.data[k], unit, now', Due(k, unit, Past)', m)
        /\ y = 0 /\ main.data # Torn =>
              Covered(main.data[k], unit, now', Due(k, unit, {"stamp"})', m)
    BY <2>3, <1>8
  <2>5. \A g \in Gates : Covered(mem'[g][k], unit, now', Due(k, unit, AnyStep)', m)
    <3> TAKE g \in Gates
    <3>1. mem'[g][k] \in {mem[g][k], None}
      BY <2>1 DEF Nobody
    <3> QED
      BY <3>1, <2>4 DEF Covered
  <2>6. Pending(k, unit, AnyStep)' => \A g \in Gates : mem'[g][k] # None
    <3>1. Pending(k, unit, AnyStep)' => \E g \in Gates : g # p
      BY <2>1 DEF Pending, AnyStep
    <3>2. Pending(k, unit, AnyStep)' => \A g \in Gates : g # p
      BY <3>1
    <3> QED
      BY <3>2, <2>1, <2>2, <1>4
  <2>7. Granted(k, unit)' = Granted(k, unit)
    BY <2>1 DEF Granted
  <2>8. Budget(k, unit, x, y, m)'
    BY <1>4, <1>5, <2>1, <2>4, <2>5, <2>6, <2>7 DEF Budget
  <2> QED
    BY <2>8
<1>12. CASE Stamp(p)
  <2>1. /\ UNCHANGED <<main, tmp, mem>> /\ pc'[p] = "idle"
        /\ \A q \in Procs \ {p} : pc'[q] = pc[q] /\ call'[q] = call[q]
    BY <1>1, <1>12 DEF Stamp, Goto, TypeOK
  <2>2. Pending(k, unit, AnyStep)' => Pending(k, unit, AnyStep)
    BY <2>1, <1>2 DEF Pending, Same, AnyStep
  <2>3. /\ Due(k, unit, AnyStep)' \in Nat /\ Due(k, unit, AnyStep)' <= Due(k, unit, AnyStep)
        /\ Due(k, unit, Past)' \in Nat /\ Due(k, unit, Past)' <= Due(k, unit, Past)
        /\ Due(k, unit, {"stamp"})' \in Nat /\ Due(k, unit, {"stamp"})' <= Due(k, unit, {"stamp"})
    BY <1>1, <1>12, DueStamp DEF AnyStep, Past
  <2>4. /\ \A g \in Gates : Covered(mem[g][k], unit, now', Due(k, unit, AnyStep)', m)
        /\ x = 0 /\ tmp.data # Torn => Covered(tmp.data[k], unit, now', Due(k, unit, Past)', m)
        /\ y = 0 /\ main.data # Torn =>
              Covered(main.data[k], unit, now', Due(k, unit, {"stamp"})', m)
    BY <2>3, <1>8
  <2>5. Granted(k, unit)' <= Allowed(unit, m) + Limit(unit)
    <3>1. Due(k, unit, AnyStep) <= Allowed(unit, m) + Limit(unit)
      BY <1>1, DueWithin
    <3>2. Allowed(unit, m) \in Nat /\ Limit(unit) \in Nat
      BY AllowedGrows
    <3>3. Granted(k, unit)' \in Nat /\ Granted(k, unit)' <= Due(k, unit, AnyStep)'
      <4>1. TypeOK'
        BY <1>1, <1>12, UsersTypeStep DEF Next
      <4>2. granted'[k].day \in Nat /\ granted'[k].minute \in Nat
        BY <4>1 DEF TypeOK
      <4>3. Granted(k, unit)' \in Nat
        BY <4>2 DEF Granted
      <4> QED
        BY <4>3 DEF Due
    <3> QED
      BY <3>1, <3>2, <3>3, <2>3, <1>6
  <2>6. Budget(k, unit, x, y, m)'
    BY <1>4, <1>5, <2>1, <2>2, <2>4, <2>5 DEF Budget
  <2> QED
    BY <2>6
<1> QED
  BY <1>9, <1>10, <1>11, <1>12

LEMMA BudgetTick ==
    ASSUME UsersInv, Tick,
           NEW k \in Keys, NEW unit \in Units,
           NEW x \in 0 .. 1, NEW y \in 0 .. 1, NEW m \in Nat, Budget(k, unit, x, y, m)
    PROVE  Budget(k, unit, x, y, m)'
<1>1. TypeOK
  BY DEF UsersInv, KeptInv
<1>2. UNCHANGED <<main, tmp, mem, pc, call, rolled, overlapped>>
  BY DEF Tick, files
<1>3. Flying' = Flying
  BY <1>2 DEF Flying, InFlight
<1>4. Allowed(unit, m) \in Nat /\ Limit(unit) \in Nat /\ Granted(k, unit) \in Nat
  BY <1>1, AllowedGrows, DueNat
<1>5. Granted(k, unit)' \in {0, Granted(k, unit)}
  BY DEF Granted, Tick
<1>6. Pending(k, unit, AnyStep)' => Pending(k, unit, AnyStep)
  <2>1. now \in Nat \ {0} /\ now' = now + 1
    BY <1>1 DEF TypeOK, Tick
  <2>2. ASSUME NEW g \in Gates, call[g].fn = "authorize", Same(call[g].at, unit)'
        PROVE  Same(call[g].at, unit)
    <3>1. call[g].at \in 1 .. now
      BY <1>1, <2>2 DEF TypeOK, NoCall
    <3>2. CASE unit = "day"
      <4>1. Day(call[g].at) <= Day(now) /\ Day(now) <= Day(now')
            /\ Day(call[g].at) \in Nat /\ Day(now) \in Nat /\ Day(now') \in Nat
        BY <3>1, <2>1, DayMonotone
      <4> QED
        BY <4>1, <3>2, <2>1, <2>2, <1>2 DEF Same
    <3>3. CASE unit = "minute"
      BY <3>1, <3>3, <2>1, <2>2, <1>2 DEF Same
    <3> QED
      BY <3>2, <3>3 DEF Units
  <2> QED
    BY <2>2, <1>2 DEF Pending
<1>7. \/ \A S : "idle" \notin S => Due(k, unit, S)' = 0
      \/ /\ \A S : Due(k, unit, S)' = Due(k, unit, S)
         /\ \A u : UsedAt(u, unit, now') = UsedAt(u, unit, now)
  BY <1>1, DueTick
<1>8. /\ \A p \in Procs : UsedAt(mem[p][k], unit, now') \in Nat
      /\ main.data # Torn => UsedAt(main.data[k], unit, now') \in Nat
      /\ tmp.data # Torn => UsedAt(tmp.data[k], unit, now') \in Nat
  BY <1>1, EntriesCount
<1>9. "idle" \notin AnyStep /\ "idle" \notin Past /\ "idle" \notin {"stamp"}
  BY DEF AnyStep, Past
<1>10. /\ \A g \in Gates : Covered(mem[g][k], unit, now', Due(k, unit, AnyStep)', m)
       /\ x = 0 /\ tmp.data # Torn => Covered(tmp.data[k], unit, now', Due(k, unit, Past)', m)
       /\ y = 0 /\ main.data # Torn =>
             Covered(main.data[k], unit, now', Due(k, unit, {"stamp"})', m)
  <2>1. CASE \A S : "idle" \notin S => Due(k, unit, S)' = 0
    <3>1. \A S \in {AnyStep, Past, {"stamp"}} : Due(k, unit, S)' = 0
      BY <2>1, <1>9
    <3> QED
      BY <3>1, <1>4, <1>8 DEF Covered
  <2>2. CASE /\ \A S : Due(k, unit, S)' = Due(k, unit, S)
             /\ \A u : UsedAt(u, unit, now') = UsedAt(u, unit, now)
    BY <2>2 DEF Covered, Budget
  <2> QED
    BY <1>7, <2>1, <2>2
<1>11. Granted(k, unit)' <= Allowed(unit, m) + Limit(unit)
  BY <1>4, <1>5 DEF Budget
<1> QED
  BY <1>2, <1>3, <1>6, <1>10, <1>11 DEF Budget

LEMMA UsersStep ==
    ASSUME UsersInv, [Next]_vars
    PROVE  UsersInv'
<1>1. TypeOK /\ KeptInv /\ KeptInv' /\ TypeOK'
  BY KeptStep DEF UsersInv, KeptInv
<1>2. ASSUME ~overlapped' PROVE rolled' = 0 /\ Exact'
  <2>1. ~overlapped
    BY <1>1, <1>2, StaysOverlapped
  <2>2. Exact'
    BY <1>2, <2>1, ExactStep DEF UsersInv, KeptInv
  <2>3. rolled = 0
    BY <2>1 DEF UsersInv
  <2>4. ASSUME NEW p \in Procs, Begun(p) PROVE rolled' = rolled
    BY <1>2, <2>1, <2>4 DEF Begun, Answers, Saves, Save
  <2>5. ASSUME NEW p \in Procs, Open(p) \/ Write(p) \/ Replace(p) \/ ReplaceFails(p)
                                \/ Stamp(p) \/ Restart(p)
        PROVE  rolled' = rolled
    BY <2>5 DEF Open, Write, Replace, ReplaceFails, Stamp, Restart
  <2>6. CASE Tick \/ UNCHANGED vars
    BY <2>2, <2>3, <2>6 DEF Tick, vars
  <2> QED
    BY <1>1, <2>2, <2>3, <2>4, <2>5, <2>6, StepForms
<1>3. ASSUME NEW k \in Keys, NEW unit \in Units
      PROVE  \E x, y \in 0 .. 1, m \in Nat : Budget(k, unit, x, y, m)'
  <2>1. PICK x \in 0 .. 1, y \in 0 .. 1, m \in Nat : Budget(k, unit, x, y, m)
    BY DEF UsersInv, Budgets
  <2>2. ASSUME NEW p \in Procs, Begun(p)
        PROVE  \E i, j \in 0 .. 1, n \in Nat : Budget(k, unit, i, j, n)'
    <3>1. CASE p \in Gates
      BY <3>1, <2>2, <1>1, BudgetGate
    <3>2. CASE p \notin Gates
      <4>1. Budget(k, unit, x, y, m)'
        BY <3>2, <2>1, <2>2, BudgetAdmin
      <4> QED
        BY <4>1
    <3> QED
      BY <3>1, <3>2
  <2>3. ASSUME NEW p \in Procs, Write(p)
        PROVE  \E i, j \in 0 .. 1 : Budget(k, unit, i, j, m)'
    BY <2>1, <2>3, BudgetWrite
  <2>4. ASSUME NEW p \in Procs, Open(p) \/ Replace(p) \/ ReplaceFails(p) \/ Stamp(p) \/ Restart(p)
        PROVE  \E i, j \in 0 .. 1 : Budget(k, unit, i, j, m)'
    BY <2>1, <2>4, BudgetMoves
  <2>5. Tick => Budget(k, unit, x, y, m)'
    BY <2>1, BudgetTick
  <2>6. UNCHANGED vars => Budget(k, unit, x, y, m)'
    BY <2>1 DEF vars, Budget, Flying, InFlight, Granted, Due, Pending, Same
  <2> QED
    BY <1>1, <2>2, <2>3, <2>4, <2>5, <2>6, StepForms
<1> QED
  BY <1>1, <1>2, <1>3 DEF UsersInv, Budgets

\* backend/mcp_users.py, for every number of admin processes, keys, quotas and
\* restarts: the limits are exact until two saves overlap, and from then on a
\* key is granted at most one more day's quota, and one more minute's rate, for
\* each save of a process other than the MCP server.
THEOREM GrantsStayBounded == Spec => []GrantsBounded
<1>1. Init => UsersInv
  BY KeptStarts, BudgetStarts DEF UsersInv
<1>2. UsersInv /\ [Next]_vars => UsersInv'
  BY UsersStep
<1>3. UsersInv => GrantsBounded
  <2> SUFFICES ASSUME UsersInv PROVE GrantsBounded
    OBVIOUS
  <2>1. TypeOK
    BY DEF UsersInv, KeptInv
  <2>2. ASSUME NEW k \in Keys, NEW unit \in Units
        PROVE  Granted(k, unit) <= Limit(unit) * (1 + rolled)
    <3>1. PICK x \in 0 .. 1, y \in 0 .. 1, m \in Nat : Budget(k, unit, x, y, m)
      BY DEF UsersInv, Budgets
    <3>2. m + Flying + x + y <= rolled /\ Granted(k, unit) <= Allowed(unit, m) + Limit(unit)
      BY <3>1 DEF Budget
    <3>3. rolled \in Nat /\ m <= rolled
      BY <3>2, <2>1, FlyingNat DEF TypeOK
    <3>4. /\ Limit(unit) \in Nat /\ Allowed(unit, m) \in Nat /\ Allowed(unit, rolled) \in Nat
          /\ Allowed(unit, m) <= Allowed(unit, rolled)
          /\ Allowed(unit, rolled + 1) = Allowed(unit, rolled) + Limit(unit)
      BY <3>3, AllowedGrows
    <3>5. Granted(k, unit) \in Nat
      BY <2>1, DueNat
    <3>6. Granted(k, unit) <= Allowed(unit, rolled + 1)
      BY <3>2, <3>4, <3>5
    <3>7. rolled + 1 = 1 + rolled
      BY <3>3
    <3> QED
      BY <3>6, <3>7 DEF Allowed
  <2>3. ASSUME NEW k \in Keys
        PROVE  granted[k].day <= Quota * (1 + rolled) /\ granted[k].minute <= Rate * (1 + rolled)
    <3>1. "day" \in Units /\ "minute" \in Units
      BY DEF Units
    <3>2. /\ Granted(k, "day") <= Limit("day") * (1 + rolled)
          /\ Granted(k, "minute") <= Limit("minute") * (1 + rolled)
      BY <3>1, <2>2
    <3> QED
      BY <3>2 DEF Granted, Limit
  <2> QED
    BY <2>1, <2>3 DEF GrantsBounded
<1> QED
  BY <1>1, <1>2, <1>3, PTL DEF Spec
=============================================================================
