------------------------------ MODULE Accounts ------------------------------
(***************************************************************************)
(* backend/google_account_manager.py in the processes that use it, and the *)
(* OAuth endpoints of the admin API.  A manager reads the accounts file    *)
(* once, when it is made, and from then on writes its own copy whole and   *)
(* in place: the API when an account is connected, anybody to whom Google  *)
(* refuses an access token when asking for quotas.                         *)
(*                                                                         *)
(* A token stands for the encryption key it is stored under, a key for the *)
(* process that made it (Fernet keys are random).  A listing of quotas     *)
(* that another request's new account breaks off ("dictionary changed size *)
(* during iteration") changes nothing that is modelled here.               *)
(***************************************************************************)
EXTENDS Naturals, FiniteSets

CONSTANTS Procs, Api,       \* the API and Dagster's runs
          Handlers, ProcOf, \* request threads, and the process of each
          Accts, Nonces,
          None, Torn, Spent,
          MaxKilled         \* bound

Entry == [on : BOOLEAN, key : Procs]
Copies == [Accts -> Entry \union {None}]

AccountsAssumption ==
    /\ Api \in Procs /\ ProcOf \in [Handlers -> Procs]
    /\ MaxKilled \in Nat
    /\ Spent \notin Accts \union {None} /\ None \notin Accts \union Procs \union Entry
    /\ Torn \notin Copies

VARIABLES keyFile,      \* encryption.key
          accountsFile, \* google_accounts.json
          manager,      \* of each process: "down", starting or "up"
          key, cache,   \* its fernet and accounts
          flows,        \* _pending_oauth of the API: the account of each nonce,
                        \* None of one not drawn yet, Spent when it is out again
          busy, acct,  \* what a handler is about to do, for which account
          grown,        \* handlers whose process got an account while they write
          met,          \* handlers whose writing has met another's
          refused,      \* history: accounts a process that knows the file was
                        \* refused a token for since they were last connected
          killed,
          joined,       \* history: accounts whose owner was told "connected"
          behind,       \* history: processes that do not know the file's content
          stale,        \* history: one of them has saved
          keyRace,      \* history: two first starts overlapped
          broken        \* history: the process died in a save, two saves met, or
                        \* a save raised because an account was added

accountVars == <<keyFile, accountsFile, manager, key, cache, flows, busy, acct,
                 grown, met, refused, killed, joined, behind, stale, keyRace,
                 broken>>

AccountsTypeOK ==
    /\ keyFile \in Procs \union {None}
    /\ accountsFile \in Copies \union {Torn}
    /\ manager \in [Procs -> {"down", "keying", "read", "up"}]
    /\ key \in [Procs -> Procs \union {None}] /\ cache \in [Procs -> Copies]
    /\ flows \in [Nonces -> Accts \union {None, Spent}]
    /\ busy \in [Handlers -> {"idle", "exchange", "save", "write"}]
    /\ acct \in [Handlers -> Accts \union {None}]
    /\ grown \subseteq Handlers /\ met \subseteq Handlers
    /\ refused \subseteq Accts /\ joined \subseteq Accts /\ behind \subseteq Procs
    /\ killed \in 0 .. MaxKilled

Nobody == [a \in Accts |-> None]

AccountsInit ==
    /\ keyFile = None /\ accountsFile = Nobody
    /\ manager = [p \in Procs |-> "down"]
    /\ key = [p \in Procs |-> None] /\ cache = [p \in Procs |-> Nobody]
    /\ flows = [n \in Nonces |-> None]
    /\ busy = [h \in Handlers |-> "idle"] /\ acct = [h \in Handlers |-> None]
    /\ grown = {} /\ met = {} /\ refused = {} /\ killed = 0
    /\ joined = {} /\ behind = {} /\ stale = FALSE /\ keyRace = FALSE /\ broken = FALSE

-----------------------------------------------------------------------------
(* Start: _init_encryption_key, _load_accounts *)

accountHistory == <<killed, joined, stale, broken>>
handlerVars == <<flows, busy, acct, grown, met, refused>>
Become(p, s) == manager' = [manager EXCEPT ![p] = s]

\* Mutated form of KeyCheck: every start makes a key.
KeyCheckAlways(p) ==
    /\ manager[p] = "down" /\ Become(p, "keying")
    /\ keyRace' = (keyRace \/ \E o \in Procs : manager[o] = "keying")
    /\ UNCHANGED <<keyFile, accountsFile, key, cache, behind, handlerVars, accountHistory>>

KeyCheck(p) ==
    /\ manager[p] = "down"
    /\ Become(p, IF keyFile = None THEN "keying" ELSE "read")
    /\ keyRace' = (keyRace \/ (keyFile = None /\ \E o \in Procs : manager[o] = "keying"))
    /\ UNCHANGED <<keyFile, accountsFile, key, cache, behind, handlerVars, accountHistory>>

KeyWrite(p) ==
    /\ manager[p] = "keying" /\ Become(p, "read")
    /\ keyFile' = p
    /\ UNCHANGED <<accountsFile, key, cache, behind, keyRace, handlerVars, accountHistory>>

\* A file that is not JSON raises: the process does not come up.
Load(p) ==
    /\ manager[p] = "read"
    /\ key' = [key EXCEPT ![p] = keyFile]
    /\ IF accountsFile = Torn
       THEN Become(p, "down") /\ UNCHANGED <<cache, behind>>
       ELSE /\ Become(p, "up") /\ cache' = [cache EXCEPT ![p] = accountsFile]
            /\ behind' = behind \ {p}
    /\ UNCHANGED <<keyFile, accountsFile, keyRace, handlerVars, accountHistory>>

-----------------------------------------------------------------------------
(* Requests *)

Ready(h, s) == manager[ProcOf[h]] = "up" /\ busy[h] = s
Do(h, s) == busy' = [busy EXCEPT ![h] = s]

Writing == {h \in Handlers : busy[h] = "write"}

\* create_auth_url.
AuthUrl(n, a) ==
    /\ manager[Api] = "up" /\ flows[n] = None
    /\ flows' = [flows EXCEPT ![n] = a]
    /\ UNCHANGED <<keyFile, accountsFile, manager, key, cache, busy, acct, grown, met,
                   refused, behind, keyRace, accountHistory>>

\* oauth_callback takes the nonce out before anything else; one it does not
\* know, used or from before a restart, is refused.
Callback(h, n) ==
    /\ ProcOf[h] = Api /\ Ready(h, "idle") /\ flows[n] \in Accts
    /\ flows' = [flows EXCEPT ![n] = Spent]
    /\ Do(h, "exchange") /\ acct' = [acct EXCEPT ![h] = flows[n]]
    /\ UNCHANGED <<keyFile, accountsFile, manager, key, cache, grown, met, refused,
                   behind, keyRace, accountHistory>>

ExchangeFails(h) ==
    /\ Ready(h, "exchange") /\ Do(h, "idle") /\ acct' = [acct EXCEPT ![h] = None]
    /\ UNCHANGED <<keyFile, accountsFile, manager, key, cache, flows, grown, met,
                   refused, behind, keyRace, accountHistory>>

\* handle_callback: the entry, encrypted with the key of this process.  A new
\* one grows the dictionary that other requests may be writing.
Exchange(h) ==
    /\ Ready(h, "exchange") /\ Do(h, "save")
    /\ cache' = [cache EXCEPT ![Api][acct[h]] = [on |-> TRUE, key |-> key[Api]]]
    /\ grown' = IF cache[Api][acct[h]] # None THEN grown
                ELSE grown \union {o \in Writing : ProcOf[o] = Api}
    /\ refused' = refused \ {acct[h]}
    /\ UNCHANGED <<keyFile, accountsFile, manager, key, flows, acct, met, behind, keyRace,
                   accountHistory>>

\* get_storage_quota of a connected account for which the token endpoint gives
\* an error, whatever the reason; any other failure changes nothing.
Expired(h, a) ==
    LET p     == ProcOf[h]
        known == IF p \in behind THEN {} ELSE {a}
    IN  /\ Ready(h, "idle") /\ cache[p][a] # None /\ cache[p][a].on
        /\ cache' = [cache EXCEPT ![p][a].on = FALSE] /\ Do(h, "save")
        /\ refused' = refused \union known /\ joined' = joined \ known
        /\ UNCHANGED <<keyFile, accountsFile, manager, key, flows, acct, grown, met,
                       behind, keyRace, killed, stale, broken>>

\* _save_accounts: truncated, then written.
Truncate(h) ==
    /\ Ready(h, "save") /\ Do(h, "write") /\ accountsFile' = Torn
    /\ met' = IF Writing = {} THEN met ELSE met \union {h} \union Writing
    /\ broken' = (broken \/ Writing # {})
    /\ UNCHANGED <<keyFile, manager, key, cache, flows, acct, grown, refused, killed,
                   joined, behind, stale, keyRace>>

Wrote(h) ==
    /\ Ready(h, "write") /\ Do(h, "idle") /\ acct' = [acct EXCEPT ![h] = None]
    /\ grown' = grown \ {h} /\ met' = met \ {h}
    /\ UNCHANGED <<keyFile, manager, key, cache, flows, refused, killed, keyRace>>

\* json.dump goes through the dictionary as it is then; two writers leave the
\* text of one of them or a mixture.
WriteAll(h) ==
    LET p == ProcOf[h] IN
    /\ Wrote(h)
    /\ accountsFile' \in {cache[p]} \union (IF h \in met THEN {Torn} ELSE {})
    /\ behind' = behind \union (Procs \ {p})
    /\ stale' = (stale \/ p \in behind)
    /\ joined' = joined \union ({acct[h]} \ (refused \union {None}))
    /\ UNCHANGED broken

\* json.dump with an indent iterates the live dictionary and raises when it has
\* grown; what was written so far stays.
DumpRaises(h) ==
    /\ Wrote(h) /\ h \in grown
    /\ accountsFile' = Torn /\ broken' = TRUE
    /\ UNCHANGED <<behind, stale, joined>>

Gone(p) ==
    /\ Become(p, "down") /\ cache' = [cache EXCEPT ![p] = Nobody]
    /\ key' = [key EXCEPT ![p] = None]
    /\ flows' = [n \in Nonces |-> IF p = Api /\ flows[n] \in Accts THEN Spent ELSE flows[n]]
    /\ busy' = [h \in Handlers |-> IF ProcOf[h] = p THEN "idle" ELSE busy[h]]
    /\ acct' = [h \in Handlers |-> IF ProcOf[h] = p THEN None ELSE acct[h]]
    /\ grown' = {h \in grown : ProcOf[h] # p} /\ met' = {h \in met : ProcOf[h] # p}
    /\ UNCHANGED <<keyFile, accountsFile, refused, joined, behind, stale, keyRace>>

\* A run of Dagster is over.
RunEnds(p) ==
    /\ p # Api /\ manager[p] = "up" /\ \A h \in Handlers : ProcOf[h] = p => busy[h] = "idle"
    /\ Gone(p) /\ UNCHANGED <<killed, broken>>

KillProc(p) ==
    /\ manager[p] # "down" /\ killed < MaxKilled /\ killed' = killed + 1
    /\ Gone(p)
    /\ broken' = (broken \/ \E h \in Writing : ProcOf[h] = p)

AccountsNext ==
    \/ \E p \in Procs : \/ KeyCheck(p) \/ KeyWrite(p) \/ Load(p) \/ RunEnds(p)
                        \/ KillProc(p)
    \/ \E n \in Nonces, a \in Accts : AuthUrl(n, a)
    \/ \E h \in Handlers, n \in Nonces : Callback(h, n)
    \/ \E h \in Handlers : \/ ExchangeFails(h) \/ Exchange(h)
                           \/ Truncate(h) \/ WriteAll(h) \/ DumpRaises(h)
    \/ \E h \in Handlers, a \in Accts : Expired(h, a)

-----------------------------------------------------------------------------
(* Properties *)

\* An account whose owner was told "connected", and for which no process that
\* knows the file has been refused a token since, is in the file as connected,
\* through restarts and whatever other accounts do; until a process has saved a
\* copy older than the file, as a Dagster run does that outlives a callback.
JoinedKept ==
    ~stale /\ accountsFile # Torn =>
        \A a \in joined : accountsFile[a] # None /\ accountsFile[a].on

\* The file is JSON unless it is being saved, or a save was cut, met another,
\* or raised because a callback added an account under it.
TornExplained == accountsFile = Torn => broken \/ Writing # {}

\* Every stored token can be decrypted with the key on disk, unless the first
\* starts of two processes raced to make it.
TokensReadable ==
    ~keyRace /\ accountsFile # Torn =>
        \A a \in Accts : accountsFile[a] # None => accountsFile[a].key = keyFile

AccountsSafe == AccountsTypeOK /\ JoinedKept /\ TornExplained /\ TokensReadable
=============================================================================
