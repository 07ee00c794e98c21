------------------------------ MODULE McpUsers ------------------------------
(***************************************************************************)
(* backend/mcp_users.py: API keys, daily quota and rate limit, kept in one *)
(* JSON file.  Each process has a cache of the file and a lock of its own, *)
(* so the calls of a process do not overlap; the file, and the temporary   *)
(* file every _save goes through, are shared by the processes (the MCP     *)
(* server calls authorize, the admin API the other functions).             *)
(*                                                                         *)
(* A key stands for the random token it is; keys are numbered in the order *)
(* they are made, which is also the order of the JSON object.  Time counts *)
(* minutes.  A file's stamp is its mtime: the number of the write that     *)
(* last touched it (writes within one tick of the file system's clock,     *)
(* which would share a stamp, are not modelled).                           *)
(***************************************************************************)
EXTENDS Naturals, FiniteSets

CONSTANTS Procs,          \* processes on the file
          Gates,          \* those that call authorize
          Admins,         \* those that call create_user, set_disabled
          Keys,           \* numbers, see above
          Owner,          \* the user_id each key is made for
          None, Torn,     \* no entry; a file that is not JSON
          Quota, Rate,    \* daily_quota and rate_per_min of every key
          MinutesPerDay,
          MaxNow,         \* bound: minutes
          MaxWrites,      \* bound: writes to files, two per _save
          MaxKills        \* bound: processes killed and started again

User == [off : BOOLEAN, day : Nat, used : 0 .. Quota, bucket : Nat,
         usedMin : 0 .. Rate]
Fresh == [off |-> FALSE, day |-> 0, used |-> 0, bucket |-> 0, usedMin |-> 0]
UserTable == [Keys -> User \union {None}]

\* There is one MCP server (start.sh).
ASSUME McpUsersAssumption ==
    /\ IsFiniteSet(Procs)
    /\ Gates \subseteq Procs /\ Admins \subseteq Procs
    /\ \A p, q \in Gates : p = q
    /\ Keys \subseteq Nat
    /\ {Quota, Rate, MinutesPerDay, MaxNow} \subseteq Nat \ {0}
    /\ None \notin User /\ Torn \notin UserTable

VARIABLES main,    \* USERS_FILE: data and stamp (stamp 0: no such file)
          tmp,     \* USERS_FILE + ".tmp", likewise
          handle,  \* the file each process has open for writing
          mem,     \* _users of each process
          loaded,  \* _loaded_mtime, 0 for None
          pc, call,
          now,     \* the clock
          writes,  \* writes to files so far: source of stamps
          granted, \* history: calls let through, per key, this day / minute
          issued,  \* history: keys create_user has returned
          barred,  \* history: keys whose disabling has returned
          made,    \* history: the last key made
          rolled,  \* history: saves of processes that do not authorize, from
                   \* those in the first overlap on
          overlapped, \* history: two saving calls were under way at once
          kills    \* history: restarts

files == <<main, tmp, handle, writes>>
history == <<granted, issued, barred, made>>
vars == <<main, tmp, handle, mem, loaded, pc, call, now, writes, granted,
          issued, barred, made, rolled, overlapped, kills>>

Day(t) == (t - 1) \div MinutesPerDay + 1

Nobody == [k \in Keys |-> None]
NoFile == [data |-> Nobody, stamp |-> 0]
NoCall == [fn |-> "none", key |-> None, at |-> 0]
Names == {"main", "tmp", "gone"}
Calls == {"authorize", "create_user", "disable", "enable"}

TypeOK ==
    /\ {main, tmp} \subseteq [data : UserTable \union {Torn}, stamp : 0 .. writes]
    /\ handle \in [Procs -> Names]
    /\ mem \in [Procs -> UserTable] /\ loaded \in [Procs -> 0 .. writes]
    /\ pc \in [Procs -> {"idle", "open", "write", "replace", "stamp"}]
    /\ call \in [Procs -> [fn : Calls, key : Keys, at : 1 .. now] \union {NoCall}]
    /\ now \in 1 .. MaxNow /\ writes \in Nat
    /\ granted \in [Keys -> [day : Nat, minute : Nat]]
    /\ issued \subseteq Keys /\ barred \subseteq Keys
    /\ {made, rolled, kills} \subseteq Nat /\ overlapped \in BOOLEAN

Init ==
    /\ main = NoFile /\ tmp = NoFile
    /\ handle = [p \in Procs |-> "gone"]
    /\ mem = [p \in Procs |-> Nobody]
    /\ loaded = [p \in Procs |-> 0]
    /\ pc = [p \in Procs |-> "idle"]
    /\ call = [p \in Procs |-> NoCall]
    /\ now = 1 /\ writes = 0
    /\ granted = [k \in Keys |-> [day |-> 0, minute |-> 0]]
    /\ issued = {} /\ barred = {} /\ made = 0 /\ rolled = 0
    /\ overlapped = FALSE /\ kills = 0

-----------------------------------------------------------------------------
(* _load, and what each call does to the table it works on *)

\* Mutated form of Newer: the file is not read back.
NewerNever(p) == FALSE

\* _load reads the file: it exists, has a later mtime and parses.
Newer(p) == main.stamp > loaded[p] /\ main.data # Torn

Table(p) == IF Newer(p) THEN main.data ELSE mem[p]
Loaded(p) == IF Newer(p) THEN main.stamp ELSE loaded[p]

\* Mutated form of Rolled: a new minute resets both counters.
RolledBoth(u) == IF u.bucket = now THEN u
                 ELSE [u EXCEPT !.day = Day(now), !.used = 0,
                                !.bucket = now, !.usedMin = 0]

\* The day's and the minute's counters start again.
Rolled(u) ==
    [u EXCEPT !.day = Day(now), !.used = IF u.day = Day(now) THEN @ ELSE 0,
              !.bucket = now, !.usedMin = IF u.bucket = now THEN @ ELSE 0]

Usable(u) == u # None /\ ~u.off

WithinLimits(u) == u.usedMin < Rate /\ u.used < Quota

\* A call that ends without _save; t is what it leaves in memory.
Return(p, t) ==
    /\ mem' = [mem EXCEPT ![p] = t]
    /\ loaded' = [loaded EXCEPT ![p] = Loaded(p)]
    /\ UNCHANGED <<pc, call, rolled, overlapped>>

\* The processes in a _save once p goes on to one.
Saving(p) == {q \in Procs : q = p \/ pc[q] # "idle"}

\* A call that goes on to _save.
Save(p, t, fn, k) ==
    /\ mem' = [mem EXCEPT ![p] = t]
    /\ loaded' = [loaded EXCEPT ![p] = Loaded(p)]
    /\ pc' = [pc EXCEPT ![p] = "open"]
    /\ call' = [call EXCEPT ![p] = [fn |-> fn, key |-> k, at |-> now]]
    /\ overlapped' = (overlapped \/ \E q \in Procs : pc[q] # "idle")
    /\ rolled' = CASE overlapped -> rolled + Cardinality({p} \ Gates)
                   [] overlapped' /\ ~overlapped -> Cardinality(Saving(p) \ Gates)
                   [] OTHER -> rolled

Authorize(p, k) ==
    /\ pc[p] = "idle" /\ p \in Gates
    /\ LET t == Table(p)
           u == Rolled(t[k])
       IN  \/ ~Usable(t[k]) /\ Return(p, t)
           \/ /\ Usable(t[k])
              /\ IF WithinLimits(u)
                 THEN Save(p, [t EXCEPT ![k] = [u EXCEPT !.used = @ + 1,
                                                         !.usedMin = @ + 1]],
                           "authorize", k)
                 ELSE Return(p, [t EXCEPT ![k] = u])
    /\ UNCHANGED <<files, history, now, kills>>

CreateUser(p, k) ==
    /\ pc[p] = "idle" /\ p \in Admins
    /\ k = made + 1 /\ made' = k
    /\ Save(p, [Table(p) EXCEPT ![k] = Fresh], "create_user", k)
    /\ UNCHANGED <<files, granted, issued, barred, now, kills>>

\* Mutated form of SetDisabled: the change is not saved.
SetDisabledUnsaved(p, user, off) ==
    /\ pc[p] = "idle" /\ p \in Admins
    /\ LET t == Table(p)
       IN  \E k \in Keys :
              /\ t[k] # None /\ Owner[k] = user
              /\ Return(p, [t EXCEPT ![k].off = off])
              /\ barred' = IF off THEN barred \union {k} ELSE barred \ {k}
    /\ UNCHANGED <<files, granted, issued, made, now, kills>>

\* Only the first key of the user is changed.
SetDisabled(p, user, off) ==
    /\ pc[p] = "idle" /\ p \in Admins
    /\ LET t == Table(p)
           mine == {k \in Keys : t[k] # None /\ Owner[k] = user}
       IN  \/ mine = {} /\ Return(p, t) /\ UNCHANGED barred
           \/ \E k \in mine :
                 /\ \A i \in mine : k <= i
                 /\ Save(p, [t EXCEPT ![k].off = off],
                         IF off THEN "disable" ELSE "enable", k)
                 /\ barred' = IF off THEN barred ELSE barred \ {k}
    /\ UNCHANGED <<files, granted, issued, made, now, kills>>

ListUsers(p) ==
    /\ pc[p] = "idle" /\ p \in Admins
    /\ Return(p, Table(p))
    /\ UNCHANGED <<files, history, now, kills>>

-----------------------------------------------------------------------------
(* _save *)

Goto(p, label) == pc' = [pc EXCEPT ![p] = label]
Touched(d) == [data |-> d, stamp |-> writes + 1]

\* open(tmp, "w") truncates the file another process may be writing.
Open(p) ==
    /\ pc[p] = "open" /\ writes < MaxWrites /\ Goto(p, "write")
    /\ tmp' = Touched(Torn) /\ writes' = writes + 1
    /\ handle' = [handle EXCEPT ![p] = "tmp"]
    /\ UNCHANGED <<main, mem, loaded, call, now, history, rolled,
                   overlapped, kills>>

\* What the file holds after p's text is written over d: over the text of
\* another process the two may mix.
Mixed(p, d) == IF d = Torn THEN {mem[p]} ELSE {mem[p], Torn}

Write(p) ==
    /\ pc[p] = "write" /\ Goto(p, "replace")
    /\ writes' = writes + 1
    /\ handle' = [handle EXCEPT ![p] = "gone"]
    /\ IF handle[p] = "tmp" THEN \E d \in Mixed(p, tmp.data) : tmp' = Touched(d)
                            ELSE UNCHANGED tmp
    /\ IF handle[p] = "main" THEN \E d \in Mixed(p, main.data) : main' = Touched(d)
                             ELSE UNCHANGED main
    /\ UNCHANGED <<mem, loaded, call, now, history, rolled,
                   overlapped, kills>>

\* os.replace: writers of tmp now write the main file, those of the old main
\* file a file without a name.
Replace(p) ==
    /\ pc[p] = "replace" /\ tmp.stamp # 0 /\ Goto(p, "stamp")
    /\ main' = tmp /\ tmp' = NoFile
    /\ handle' = [q \in Procs |-> IF handle[q] = "tmp" THEN "main" ELSE "gone"]
    /\ UNCHANGED <<mem, loaded, call, now, writes, history, rolled,
                   overlapped, kills>>

\* The other process has moved tmp away: FileNotFoundError leaves the call.
ReplaceFails(p) ==
    /\ pc[p] = "replace" /\ tmp.stamp = 0 /\ Goto(p, "idle")
    /\ call' = [call EXCEPT ![p] = NoCall]
    /\ UNCHANGED <<files, mem, loaded, now, history, rolled,
                   overlapped, kills>>

\* The mtime of the file as it is now is noted and the call returns.
Stamp(p) ==
    /\ pc[p] = "stamp" /\ Goto(p, "idle")
    /\ loaded' = [loaded EXCEPT ![p] = main.stamp]
    /\ LET c == call[p] IN
       /\ granted' = IF c.fn # "authorize" THEN granted
                     ELSE [granted EXCEPT
                        ![c.key].day = IF Day(c.at) = Day(now) THEN @ + 1 ELSE @,
                        ![c.key].minute = IF c.at = now THEN @ + 1 ELSE @]
       /\ issued' = IF c.fn = "create_user" THEN issued \union {c.key} ELSE issued
       /\ barred' = IF c.fn = "disable" THEN barred \union {c.key} ELSE barred
    /\ call' = [call EXCEPT ![p] = NoCall]
    /\ UNCHANGED <<main, tmp, handle, mem, now, writes, made, rolled,
                   overlapped, kills>>

\* The process is killed and started again.
Restart(p) ==
    /\ kills < MaxKills /\ kills' = kills + 1
    /\ Goto(p, "idle")
    /\ mem' = [mem EXCEPT ![p] = Nobody]
    /\ loaded' = [loaded EXCEPT ![p] = 0]
    /\ call' = [call EXCEPT ![p] = NoCall]
    /\ handle' = [handle EXCEPT ![p] = "gone"]
    /\ UNCHANGED <<main, tmp, now, writes, history, rolled,
                   overlapped>>

Tick ==
    /\ now < MaxNow /\ now' = now + 1
    /\ granted' = [k \in Keys |->
           [day |-> IF Day(now + 1) = Day(now) THEN granted[k].day ELSE 0,
            minute |-> 0]]
    /\ UNCHANGED <<files, mem, loaded, pc, call, issued, barred, made, rolled,
                   overlapped, kills>>

Next ==
    \/ \E p \in Procs :
          \/ \E k \in Keys : Authorize(p, k) \/ CreateUser(p, k)
          \/ \E k \in Keys, off \in BOOLEAN : SetDisabled(p, Owner[k], off)
          \/ ListUsers(p)
          \/ Open(p) \/ Write(p) \/ Replace(p) \/ ReplaceFails(p) \/ Stamp(p)
          \/ Restart(p)
    \/ Tick

Spec == Init /\ [][Next]_vars

-----------------------------------------------------------------------------
(* Properties *)

\* As long as no two calls that save overlap, the limits are exact: each
\* process has read the other's last save by its mtime before it counts.  From
\* then on a key gets more only through saves of the process that does not
\* authorize, each of which can give back at most one day's quota.
GrantsBounded ==
    /\ TypeOK
    /\ \A k \in Keys :
          /\ granted[k].day <= Quota * (1 + rolled)
          /\ granted[k].minute <= Rate * (1 + rolled)

\* As long as no two calls that save overlap, a returned key is in the file
\* from then on and the file is whole, across restarts at any step of any
\* later call, in either process.
UsersKept ==
    ~overlapped => main.data # Torn /\ \A k \in issued : main.data[k] # None

\* Under the same condition, once disabling a key has returned, no call gets
\* through on it until enabling it again begins, in any process and after
\* restarts.
DisabledRefused ==
    [][~overlapped' => \A k \in barred : granted'[k].day <= granted[k].day]_vars
=============================================================================
