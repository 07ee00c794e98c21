------------------------------ MODULE DriveProofs ------------------------------
(***************************************************************************)
(* What chain_archive puts on Drive, for any number of days, accounts,     *)
(* file sizes, faults and kills; what ensure_folder, which it calls for    *)
(* the folder of a day, promises to any number of writers; and what the    *)
(* catalog, which it reports to, tells its readers.                        *)
(***************************************************************************)
EXTENDS Archive, DriveFolders, Catalog, SchedulerProofs

-----------------------------------------------------------------------------
(* The folder *)

USE FoldersAssumption

\* find_folder has a lowest id to return whenever its query finds a folder.
LEMMA LowestIsLowest ==
    ASSUME NEW S, S \subseteq Ids, S # {}
    PROVE  Lowest(S) \in S /\ \A k \in S : Lowest(S) <= k
<1>1. S \subseteq Nat
  OBVIOUS
<1> QED
  BY <1>1, Least DEF Lowest

\* A folder that a call has returned stays in the listings, and a writer that
\* is about to create one has none.
FoldersInv ==
    /\ FoldersTypeOK
    /\ \A w \in Writers : chosen[w] # NoFolder => chosen[w] \in listed
    /\ \A w \in Writers : at[w] = "create" => chosen[w] = NoFolder

LEMMA InitInv == FoldersInit => FoldersInv
BY DEF FoldersInit, FoldersInv, FoldersTypeOK

\* Returning the lowest folder of the listings.
LEMMA ReturnStep ==
    ASSUME FoldersInv, NEW w \in Writers, listed # {},
           Return(w, Lowest(listed)), UNCHANGED <<folders, listed, lost>>
    PROVE  FoldersInv' /\ \A v \in Writers : chosen[v] # NoFolder => chosen'[v] <= chosen[v]
<1>1. Lowest(listed) \in listed /\ \A k \in listed : Lowest(listed) <= k
  BY LowestIsLowest DEF FoldersInv, FoldersTypeOK
<1>2. FoldersInv'
  BY <1>1 DEF FoldersInv, FoldersTypeOK, Return
<1>3. ASSUME NEW v \in Writers, chosen[v] # NoFolder PROVE chosen'[v] <= chosen[v]
  <2>1. chosen[v] \in listed /\ chosen[v] \in Nat
    BY <1>3 DEF FoldersInv, FoldersTypeOK
  <2>2. chosen'[v] = IF v = w THEN Lowest(listed) ELSE chosen[v]
    BY DEF Return, FoldersInv, FoldersTypeOK
  <2> QED
    BY <1>1, <2>1, <2>2
<1> QED
  BY <1>2, <1>3

\* Every step keeps the invariant, and moves no writer to a higher id.
LEMMA FolderStep ==
    FoldersInv /\ [FoldersNext]_folderVars =>
       FoldersInv' /\ \A w \in Writers : chosen[w] # NoFolder => chosen'[w] <= chosen[w]
<1> SUFFICES ASSUME FoldersInv, [FoldersNext]_folderVars
             PROVE  FoldersInv' /\ \A w \in Writers :
                                      chosen[w] # NoFolder => chosen'[w] <= chosen[w]
  OBVIOUS
<1>1. ASSUME chosen' = chosen
      PROVE  \A w \in Writers : chosen[w] # NoFolder => chosen'[w] <= chosen[w]
  <2> SUFFICES ASSUME NEW w \in Writers, chosen[w] # NoFolder
               PROVE  chosen'[w] <= chosen[w]
    OBVIOUS
  <2>1. chosen[w] \in Nat
    BY DEF FoldersInv, FoldersTypeOK
  <2> QED
    BY <1>1, <2>1
<1>2. ASSUME NEW w \in Writers, Call(w) PROVE FoldersInv' /\ chosen' = chosen
  BY <1>2 DEF Call, FoldersInv, FoldersTypeOK
<1>3. ASSUME NEW w \in Writers, Find(w), listed = {}
      PROVE  FoldersInv' /\ chosen' = chosen
  BY <1>3 DEF Find, FoldersInv, FoldersTypeOK
<1>4. ASSUME NEW w \in Writers, Find(w), listed # {}
      PROVE  Return(w, Lowest(listed)) /\ UNCHANGED <<folders, listed, lost>>
  BY <1>4 DEF Find
<1>5. ASSUME NEW w \in Writers, Create(w) PROVE FoldersInv' /\ chosen' = chosen
  BY <1>5 DEF Create, NewFolder, FoldersInv, FoldersTypeOK
<1>6. ASSUME NEW w \in Writers, Recheck(w), listed = {}
      PROVE  FoldersInv' /\ chosen' = chosen
  BY <1>6 DEF Recheck, FoldersInv, FoldersTypeOK
<1>7. ASSUME NEW w \in Writers, Recheck(w), listed # {}
      PROVE  Return(w, Lowest(listed)) /\ UNCHANGED <<folders, listed, lost>>
  BY <1>7 DEF Recheck
<1>8. ASSUME NEW w \in Writers, Fail(w) PROVE FoldersInv' /\ chosen' = chosen
  BY <1>8 DEF Fail, FoldersInv, FoldersTypeOK
<1>9. ASSUME NEW id \in Ids, Appear(id) PROVE FoldersInv' /\ chosen' = chosen
  BY <1>9 DEF Appear, FoldersInv, FoldersTypeOK
<1>10. CASE UNCHANGED folderVars
  BY <1>1, <1>10 DEF folderVars, FoldersInv, FoldersTypeOK
<1> QED
  BY <1>1, <1>2, <1>3, <1>4, <1>5, <1>6, <1>7, <1>8, <1>9, <1>10, ReturnStep
  DEF FoldersNext, EnsureFolder

\* A writer that has got a folder never creates another one, for any number of
\* writers and however far Drive's listings are behind.
THEOREM NeverSecondCreate == FoldersSpec => []NoSecondCreate
<1>1. FoldersInv => NoSecondCreate
  BY DEF FoldersInv, NoSecondCreate
<1> QED
  BY <1>1, InitInv, FolderStep, PTL DEF FoldersSpec

\* A writer's folder is only replaced by one with a lower id: all writers move
\* in the same direction.
THEOREM AlwaysDownwards == FoldersSpec => OnlyDownwards
<1>1. FoldersInv /\ [FoldersNext]_folderVars =>
         \A w \in Writers : chosen[w] # NoFolder => chosen'[w] <= chosen[w]
  BY FolderStep
<1>2. FoldersInv /\ [FoldersNext]_folderVars => FoldersInv'
  BY FolderStep
<1>3. FoldersSpec => []FoldersInv
  BY <1>2, InitInv, PTL DEF FoldersSpec
<1> QED
  BY <1>1, <1>3, PTL DEF FoldersSpec, OnlyDownwards

-----------------------------------------------------------------------------
(* The upload *)

USE UploadAssumption

\* The file is made exactly when the server has all of it, and a session that
\* has not sent anything, or has not said ok, may still be without it.
SessionInv ==
    /\ UploadTypeOK /\ NeverAhead
    /\ created => committed = size
    /\ phase \in {"idle", "open"} => ~created
    /\ phase = "ok" => created

\* The server gets further in the file, or stays where it is.
LEMMA CommitStep ==
    ASSUME SessionInv, NEW c, Commit(c), phase = "sent"
    PROVE  /\ End \in Nat /\ End <= size
           /\ committed' = c /\ c \in 0 .. size /\ created' = (c = size)
           /\ created => created'
           /\ offset <= committed => offset <= c
           /\ ~ (offset <= committed) => c = committed
<1>1. /\ offset \in Nat /\ size \in Nat /\ committed \in 0 .. size
      /\ Chunk \in Nat /\ Chunk > 0
  BY DEF SessionInv, UploadTypeOK
<1>2. End \in Nat /\ End <= size
  BY <1>1 DEF End, Min2
<1>3. /\ offset <= committed => c \in Nat /\ committed <= c /\ c <= size
      /\ ~ (offset <= committed) => c = committed
  BY ONLY <1>1, <1>2, Commit(c) DEF Commit, Received
<1>4. created => committed = size
  BY DEF SessionInv
<1>5. committed' = c /\ created' = (c = size)
  BY DEF Commit
<1>6. /\ c \in 0 .. size /\ (offset <= committed => offset <= c)
      /\ committed = size => c = size
  BY ONLY <1>1, <1>3
<1> QED
  BY <1>2, <1>3, <1>4, <1>5, <1>6

\* A step of the upload never takes back the file.
LEMMA SessionStep ==
    ASSUME SessionInv, UploadStep
    PROVE  SessionInv' /\ phase' \notin {"idle", "open"} /\ (created => created')
<1> DEFINE Goal == SessionInv' /\ phase' \notin {"idle", "open"} /\ (created => created')
<1>0. /\ phase \in {"idle", "open", "put", "sent", "ok", "raised"}
      /\ offset \in Nat /\ size \in Sizes \union {0} /\ size \in Nat
      /\ attempts \in 0 .. Retries /\ net \in 0 .. NetRetries
      /\ committed \in 0 .. size /\ created \in BOOLEAN /\ faults \in 0 .. MaxFaults
      /\ phase \in {"idle", "open"} => ~created
      /\ phase = "sent" => offset <= committed \/ committed = 0
      /\ {Retries, NetRetries, MaxFaults} \subseteq Nat
  BY DEF SessionInv, UploadTypeOK, NeverAhead
<1>00. ASSUME Faulty PROVE faults' \in 0 .. MaxFaults
  BY ONLY <1>0, <1>00 DEF Faulty
<1>1. ASSUME NEW n \in Sizes, Begin(n) PROVE Goal
  <2>1. /\ phase = "open" /\ phase' \in {"put", "raised"} /\ created' = FALSE
        /\ size' = n /\ offset' = 0 /\ attempts' = 0 /\ net' = 0 /\ committed' = 0
        /\ faults' \in 0 .. MaxFaults
    BY <1>0, <1>00, <1>1 DEF Begin
  <2>2. n \in Nat /\ ~created
    BY <1>0, <2>1
  <2>3. 0 \in 0 .. n /\ 0 \in 0 .. Retries /\ 0 \in 0 .. NetRetries /\ 0 <= 0
    BY <1>0, <2>2
  <2>4. UploadTypeOK'
    BY <2>1, <2>3 DEF UploadTypeOK
  <2> QED
    BY <2>1, <2>2, <2>4 DEF SessionInv, NeverAhead
<1>2. ASSUME Send PROVE Goal
  BY <1>0, <1>2 DEF Send, server, SessionInv, UploadTypeOK, NeverAhead
<1>3. ASSUME AnswerRefused PROVE Goal
  BY <1>0, <1>00, <1>3 DEF AnswerRefused, server, SessionInv, UploadTypeOK, NeverAhead
<1>4. ASSUME AnswerDone PROVE Goal
  <2>1. /\ phase = "sent" /\ Commit(End) /\ created' /\ phase' = "ok"
        /\ UNCHANGED <<size, offset, attempts, net, faults>>
    BY <1>4 DEF AnswerDone
  <2> HIDE <1>4
  <2> HIDE DEF End
  <2>2. /\ committed' = End /\ End \in 0 .. size /\ created' = (End = size)
        /\ created => created'
    BY <2>1, CommitStep
  <2> QED
    BY <1>0, <2>1, <2>2 DEF SessionInv, UploadTypeOK, NeverAhead
<1>5. ASSUME NEW c \in 0 .. size, AnswerMore(c) PROVE Goal
  <2>1. /\ phase = "sent" /\ Commit(c) /\ ~created' /\ phase' = "put"
        /\ UNCHANGED size /\ attempts' = 0 /\ net' = 0
        /\ offset' = (IF c > 0 THEN committed' ELSE End)
        /\ faults' \in 0 .. MaxFaults
    BY <1>0, <1>00, <1>5 DEF AnswerMore, Resume
  <2>2. /\ committed' = c /\ End \in Nat /\ created' = (c = size)
        /\ created => created'
    BY <2>1, CommitStep
  <2>3. /\ offset' \in Nat /\ (offset' <= committed' \/ committed' = 0)
        /\ 0 \in 0 .. Retries /\ 0 \in 0 .. NetRetries
    BY ONLY <1>0, <2>1, <2>2, c \in 0 .. size
  <2> QED
    BY <1>0, <2>1, <2>2, <2>3 DEF SessionInv, UploadTypeOK, NeverAhead
<1>6. ASSUME NEW c \in 0 .. size, AnswerFails(c) PROVE Goal
  <2>1. /\ Commit(c) /\ phase' \in {"put", "raised"} /\ UNCHANGED <<size, offset>>
        /\ net' = 0 /\ faults' \in 0 .. MaxFaults /\ phase = "sent"
    BY <1>0, <1>00, <1>6 DEF AnswerFails
  <2>2. attempts' \in 0 .. Retries /\ 0 \in 0 .. NetRetries
    BY <1>0, <1>6 DEF AnswerFails
  <2>3. /\ committed' = c /\ created' = (c = size) /\ (created => created')
        /\ offset <= committed => offset <= c
        /\ ~ (offset <= committed) => c = committed
    BY <2>1, CommitStep
  <2>4. offset <= c \/ c = 0
    BY ONLY <1>0, <2>1, <2>3
  <2> QED
    BY <1>0, <2>1, <2>2, <2>3, <2>4 DEF SessionInv, UploadTypeOK, NeverAhead
<1>7. ASSUME NEW c \in 0 .. size, AnswerLost(c) PROVE Goal
  <2>1. /\ Commit(c) /\ phase' \in {"sent", "raised"}
        /\ UNCHANGED <<size, offset, attempts>>
        /\ faults' \in 0 .. MaxFaults /\ phase = "sent"
    BY <1>0, <1>00, <1>7 DEF AnswerLost
  <2>2. net' \in 0 .. NetRetries
    BY <1>0, <1>7 DEF AnswerLost
  <2>3. /\ committed' = c /\ created' = (c = size) /\ (created => created')
        /\ offset <= committed => offset <= c
        /\ ~ (offset <= committed) => c = committed
    BY <2>1, CommitStep
  <2>4. offset <= c \/ c = 0
    BY ONLY <1>0, <2>1, <2>3
  <2> QED
    BY <1>0, <2>1, <2>2, <2>3, <2>4 DEF SessionInv, UploadTypeOK, NeverAhead
<1> QED
  BY <1>1, <1>2, <1>3, <1>4, <1>5, <1>6, <1>7 DEF UploadStep

-----------------------------------------------------------------------------
(* The attempts of a day *)

\* The file the running attempt has made and not recorded.
Pending(d) == IF created /\ pc # "main" /\ d = day THEN 1 ELSE 0

\* The record of a day whose run has succeeded, or is about to.
Settled(d) == IF d \in finished \/ (pc = "main" /\ d = day) THEN 1 ELSE 0

\* Every file of a day is recorded, wasted or pending; every record of a day
\* is that of an attempt that ended too early, or the one that settles it.
DaysAddUp ==
    \A d \in Days : /\ onDrive[d] = counted[d] + wasted[d] + Pending(d)
                    /\ counted[d] = late[d] + Settled(d)

\* Where an attempt is tells what its upload session has done.
AttemptInv ==
    /\ SessionInv
    /\ pc \in {"idle", "convert", "plan", "folder", "upload", "record", "main"}
    /\ {counted, onDrive, wasted, late} \subseteq [Days -> Nat]
    /\ pc # "idle" => day \in Days \ finished
    /\ pc \in {"idle", "convert", "plan", "folder"} <=> phase = "idle"
    /\ pc \in {"record", "main"} => created

ArchiveInv == AttemptInv /\ DaysAddUp

\* One more for a day.
LEMMA BumpAdds ==
    ASSUME NEW f \in [Days -> Nat], NEW d \in Days
    PROVE  /\ Bump(f, d) \in [Days -> Nat]
           /\ \A e \in Days : Bump(f, d)[e] = f[e] + (IF e = d THEN 1 ELSE 0)
BY DEF Bump

\* A session that has been forgotten.
LEMMA ForgetStep ==
    ASSUME SessionInv, Forget, faults' \in 0 .. MaxFaults
    PROVE  SessionInv' /\ phase' = "idle" /\ ~ created'
<1>1. 0 \in 0 .. Retries /\ 0 \in 0 .. NetRetries /\ 0 \in 0 .. 0
  OBVIOUS
<1> QED
  BY <1>1 DEF Forget, SessionInv, UploadTypeOK, NeverAhead

\* A session that nothing is done to.
LEMMA SessionStays ==
    ASSUME SessionInv, UNCHANGED <<phase, size, offset, attempts, net, server>>,
           faults' \in 0 .. MaxFaults
    PROVE  SessionInv'
BY DEF SessionInv, UploadTypeOK, NeverAhead, server

LEMMA ArchiveInit == Init => ArchiveInv
<1> SUFFICES ASSUME Init PROVE ArchiveInv
  OBVIOUS
<1>1. SessionInv
  <2>1. 0 \in 0 .. Retries /\ 0 \in 0 .. NetRetries /\ 0 \in 0 .. MaxFaults
        /\ 0 \in 0 .. 0
    OBVIOUS
  <2> QED
    BY <2>1 DEF Init, UploadInit, SessionInv, UploadTypeOK, NeverAhead
<1>2. AttemptInv
  BY <1>1 DEF Init, UploadInit, AttemptInv
<1>3. DaysAddUp
  BY DEF Init, UploadInit, DaysAddUp, Pending, Settled
<1> QED
  BY <1>2, <1>3 DEF ArchiveInv

\* A step that leaves the counts, and what is pending and settled.
LEMMA CountsStay ==
    ASSUME DaysAddUp, UNCHANGED <<counted, onDrive, wasted, late, finished>>,
           \A d \in Days : Pending(d)' = Pending(d) /\ Settled(d)' = Settled(d)
    PROVE  DaysAddUp'
BY DEF DaysAddUp

\* An attempt ends: its file is wasted unless it is recorded, and its record is
\* late unless it has succeeded.
LEMMA OverStep ==
    ASSUME ArchiveInv, pc # "idle", Over, faults' \in 0 .. MaxFaults,
           UNCHANGED <<counted, onDrive, finished>>
    PROVE  ArchiveInv'
<1>1. SessionInv' /\ phase' = "idle" /\ ~ created' /\ pc' = "idle"
  BY ForgetStep DEF ArchiveInv, AttemptInv, Over
<1>2. day \in Days \ finished /\ {counted, onDrive, wasted, late} \subseteq [Days -> Nat]
      /\ created \in BOOLEAN
  BY DEF ArchiveInv, AttemptInv, SessionInv, UploadTypeOK
<1>3. /\ wasted' \in [Days -> Nat]
      /\ \A d \in Days : wasted'[d] = wasted[d] + Pending(d)
  <2>1. CASE created /\ pc # "main"
    BY <1>2, <2>1, BumpAdds DEF Over, Pending
  <2>2. CASE ~ (created /\ pc # "main")
    BY <1>2, <2>2 DEF Over, Pending
  <2> QED
    BY <2>1, <2>2
<1>4. /\ late' \in [Days -> Nat]
      /\ \A d \in Days : late'[d] + Settled(d)' = late[d] + Settled(d)
  <2>1. CASE pc = "main"
    BY <1>1, <1>2, <2>1, BumpAdds DEF Over, Settled
  <2>2. CASE pc # "main"
    BY <1>1, <1>2, <2>2 DEF Over, Settled
  <2> QED
    BY <2>1, <2>2
<1>5. AttemptInv'
  BY <1>1, <1>2, <1>3, <1>4 DEF AttemptInv
<1>6. ASSUME NEW d \in Days
      PROVE  /\ onDrive[d] = counted[d] + wasted'[d] + 0
             /\ counted[d] = late'[d] + Settled(d)'
  <2>1. /\ onDrive[d] = counted[d] + wasted[d] + Pending(d)
        /\ counted[d] = late[d] + Settled(d)
    BY DEF ArchiveInv, DaysAddUp
  <2>2. /\ wasted'[d] = wasted[d] + Pending(d) /\ wasted'[d] \in Nat
        /\ late'[d] + Settled(d)' = late[d] + Settled(d)
        /\ counted[d] \in Nat /\ wasted[d] \in Nat /\ Pending(d) \in Nat
    BY <1>2, <1>3, <1>4 DEF Pending
  <2> QED
    BY ONLY <2>1, <2>2
<1>7. DaysAddUp'
  <2>1. \A d \in Days : Pending(d)' = 0
    BY <1>1 DEF Pending
  <2> QED
    BY <1>6, <2>1 DEF DaysAddUp
<1> QED
  BY <1>5, <1>7 DEF ArchiveInv

LEMMA ArchiveStep == ArchiveInv /\ [Next]_vars => ArchiveInv'
<1> SUFFICES ASSUME ArchiveInv, [Next]_vars PROVE ArchiveInv'
  OBVIOUS
<1>0. /\ AttemptInv /\ SessionInv /\ DaysAddUp /\ created \in BOOLEAN
      /\ faults \in 0 .. MaxFaults /\ MaxFaults \in Nat
      /\ {counted, onDrive, wasted, late} \subseteq [Days -> Nat]
  BY DEF ArchiveInv, AttemptInv, SessionInv, UploadTypeOK
<1>00. ASSUME Faulty PROVE faults' \in 0 .. MaxFaults
  BY ONLY <1>0, <1>00 DEF Faulty
<1>1. ASSUME NEW d \in Days, Launch(d) PROVE ArchiveInv'
  <2>1. SessionInv' /\ ~ created /\ ~ created'
    BY <1>0, <1>1, SessionStays DEF Launch, uploadVars, server, AttemptInv, SessionInv
  <2>2. AttemptInv'
    BY <1>0, <1>1, <2>1 DEF AttemptInv, Launch, uploadVars
  <2>3. DaysAddUp'
    BY <1>0, <1>1, <2>1, CountsStay DEF Launch, Pending, Settled
  <2> QED
    BY <2>2, <2>3 DEF ArchiveInv
<1>2. ASSUME Convert \/ Plan PROVE ArchiveInv'
  <2>1. SessionInv'
    BY <1>0, <1>2, SessionStays DEF Convert, Plan, uploadVars, server
  <2>2. AttemptInv'
    BY <1>0, <1>2, <2>1 DEF AttemptInv, Convert, Plan, uploadVars
  <2>3. DaysAddUp'
    BY <1>0, <1>2, CountsStay DEF Convert, Plan, Pending, Settled, uploadVars
  <2> QED
    BY <2>2, <2>3 DEF ArchiveInv
<1>3. ASSUME Folder PROVE ArchiveInv'
  <2>1. SessionInv' /\ ~ created /\ ~ created'
    BY <1>0, <1>3 DEF Folder, server, AttemptInv, SessionInv, UploadTypeOK, NeverAhead
  <2>2. AttemptInv'
    BY <1>0, <1>3, <2>1 DEF AttemptInv, Folder
  <2>3. DaysAddUp'
    BY <1>0, <1>3, <2>1, CountsStay DEF Folder, Pending, Settled
  <2> QED
    BY <2>2, <2>3 DEF ArchiveInv
<1>4. ASSUME Upload PROVE ArchiveInv'
  <2>1. /\ SessionInv' /\ phase' \notin {"idle", "open"} /\ (created => created')
        /\ created' \in BOOLEAN
    BY <1>0, <1>4, SessionStep DEF Upload, SessionInv, UploadTypeOK
  <2>2. pc = "upload" /\ day \in Days
    BY <1>0, <1>4 DEF Upload, AttemptInv
  <2>3. /\ onDrive' \in [Days -> Nat]
        /\ \A d \in Days : onDrive'[d] + Pending(d) = onDrive[d] + Pending(d)'
    <3>1. CASE created' /\ ~ created
      BY <1>0, <1>4, <2>1, <2>2, <3>1, BumpAdds DEF Upload, Pending
    <3>2. CASE ~ (created' /\ ~ created)
      BY <1>0, <1>4, <2>1, <2>2, <3>2 DEF Upload, Pending
    <3> QED
      BY <3>1, <3>2
  <2>4. AttemptInv'
    BY <1>0, <1>4, <2>1, <2>2, <2>3 DEF AttemptInv, Upload
  <2>5. ASSUME NEW d \in Days
        PROVE  /\ onDrive'[d] = counted[d] + wasted[d] + Pending(d)'
               /\ counted[d] = late[d] + Settled(d)
    <3>1. /\ onDrive[d] = counted[d] + wasted[d] + Pending(d)
          /\ counted[d] = late[d] + Settled(d)
      BY <1>0 DEF DaysAddUp
    <3>2. /\ onDrive'[d] + Pending(d) = onDrive[d] + Pending(d)'
          /\ {counted[d], wasted[d], onDrive'[d], Pending(d), Pending(d)'} \subseteq Nat
      BY <1>0, <2>3 DEF Pending
    <3> QED
      BY ONLY <3>1, <3>2
  <2>6. DaysAddUp'
    BY <1>4, <2>5 DEF DaysAddUp, Upload, Settled
  <2> QED
    BY <2>4, <2>6 DEF ArchiveInv
<1>5. ASSUME CleanUp PROVE ArchiveInv'
  <2>1. SessionInv'
    BY <1>0, <1>5, SessionStays DEF CleanUp, uploadVars, server
  <2>2. AttemptInv'
    BY <1>0, <1>5, <2>1 DEF AttemptInv, CleanUp, uploadVars, SessionInv
  <2>3. DaysAddUp'
    BY <1>0, <1>5, CountsStay DEF CleanUp, Pending, Settled, uploadVars
  <2> QED
    BY <2>2, <2>3 DEF ArchiveInv
<1>6. ASSUME Record PROVE ArchiveInv'
  <2>1. SessionInv' /\ created /\ created'
    BY <1>0, <1>6, SessionStays DEF Record, uploadVars, server, AttemptInv
  <2>2. pc = "record" /\ pc' = "main" /\ day' = day /\ day \in Days \ finished
    BY <1>0, <1>6 DEF Record, AttemptInv
  <2>3. /\ counted' \in [Days -> Nat]
        /\ \A d \in Days : /\ counted'[d] = counted[d] + Pending(d)
                           /\ Pending(d)' = 0 /\ Settled(d)' = Settled(d) + Pending(d)
    <3>1. counted' = Bump(counted, day) /\ finished' = finished
      BY <1>6 DEF Record
    <3> QED
      BY <1>0, <2>1, <2>2, <3>1, BumpAdds DEF Pending, Settled
  <2>4. AttemptInv'
    BY <1>0, <1>6, <2>1, <2>2, <2>3 DEF AttemptInv, Record, uploadVars
  <2>5. ASSUME NEW d \in Days
        PROVE  /\ onDrive[d] = counted'[d] + wasted[d] + Pending(d)'
               /\ counted'[d] = late[d] + Settled(d)'
    <3>1. /\ onDrive[d] = counted[d] + wasted[d] + Pending(d)
          /\ counted[d] = late[d] + Settled(d)
      BY <1>0 DEF DaysAddUp
    <3>2. /\ {counted[d], wasted[d], late[d], Pending(d), Settled(d)} \subseteq Nat
          /\ counted'[d] = counted[d] + Pending(d)
          /\ Pending(d)' = 0 /\ Settled(d)' = Settled(d) + Pending(d)
      BY <1>0, <2>3 DEF Pending, Settled
    <3> QED
      BY ONLY <3>1, <3>2
  <2>6. DaysAddUp'
    BY <1>6, <2>5 DEF DaysAddUp, Record
  <2> QED
    BY <2>4, <2>6 DEF ArchiveInv
<1>7. ASSUME Succeed PROVE ArchiveInv'
  <2>1. SessionInv' /\ phase' = "idle" /\ ~ created'
    BY <1>0, <1>7, ForgetStep DEF Succeed
  <2>2. pc = "main" /\ pc' = "idle" /\ finished' = finished \union {day}
        /\ UNCHANGED <<counted, onDrive, wasted, late>>
    BY <1>7 DEF Succeed
  <2>3. AttemptInv'
    BY <1>0, <2>1, <2>2 DEF AttemptInv
  <2>4. DaysAddUp'
    BY <1>0, <2>1, <2>2, CountsStay DEF Pending, Settled, DaysAddUp
  <2> QED
    BY <2>3, <2>4 DEF ArchiveInv
<1>8. ASSUME Raise \/ Kill PROVE ArchiveInv'
  <2>1. /\ pc # "idle" /\ Over /\ faults' \in 0 .. MaxFaults
        /\ UNCHANGED <<counted, onDrive, finished>>
    BY <1>0, <1>00, <1>8 DEF Raise, Kill
  <2> QED
    BY <2>1, OverStep
<1>9. ASSUME NEW a \in Range(Accounts), Revoke(a) PROVE ArchiveInv'
  <2>1. SessionInv'
    BY <1>0, <1>00, <1>9, SessionStays DEF Revoke
  <2>2. AttemptInv'
    BY <1>0, <1>9, <2>1 DEF AttemptInv, Revoke, server
  <2>3. DaysAddUp'
    BY <1>0, <1>9, CountsStay DEF Revoke, Pending, Settled, server
  <2> QED
    BY <2>2, <2>3 DEF ArchiveInv
<1>11. ASSUME NEW d \in Days, LaunchBatch(d) \/ Split(d) PROVE ArchiveInv'
  <2>1. SessionInv'
    BY <1>0, <1>11, SessionStays DEF LaunchBatch, Split, uploadVars, server
  <2>2. AttemptInv'
    BY <1>0, <1>11, <2>1 DEF AttemptInv, LaunchBatch, Split, uploadVars
  <2>3. DaysAddUp'
    BY <1>0, <1>11, CountsStay DEF LaunchBatch, Split, uploadVars, Pending, Settled
  <2> QED
    BY <2>2, <2>3 DEF ArchiveInv
<1>10. CASE UNCHANGED vars
  <2>1. SessionInv'
    BY <1>0, <1>10, SessionStays DEF vars, uploadVars, server
  <2>2. AttemptInv'
    BY <1>0, <1>10, <2>1 DEF AttemptInv, vars, archiveVars, uploadVars
  <2>3. DaysAddUp'
    BY <1>0, <1>10, CountsStay DEF vars, archiveVars, uploadVars, Pending, Settled
  <2> QED
    BY <2>2, <2>3 DEF ArchiveInv
<1> QED
  BY <1>1, <1>2, <1>3, <1>4, <1>5, <1>6, <1>7, <1>8, <1>9, <1>10, <1>11 DEF Next

THEOREM ArchiveCorrect == Spec => []ArchiveInv
BY ArchiveInit, ArchiveStep, PTL DEF Spec

\* The client is never ahead of the server, and a day in the catalog has its
\* whole file on Drive, one for each time its rows are counted there.
THEOREM RecordedDaysAreThere == Spec => []RecordedIsThere
<1>1. ASSUME ArchiveInv, NEW d \in Days
      PROVE  counted[d] + wasted[d] <= onDrive[d]
  <2>1. /\ onDrive[d] = counted[d] + wasted[d] + Pending(d) /\ Pending(d) \in Nat
        /\ counted[d] \in Nat /\ wasted[d] \in Nat
    BY <1>1 DEF ArchiveInv, DaysAddUp, AttemptInv, Pending
  <2> QED
    BY ONLY <2>1
<1>2. ArchiveInv => RecordedIsThere
  BY <1>1 DEF RecordedIsThere, ArchiveInv, AttemptInv, SessionInv
<1> QED
  BY <1>2, ArchiveCorrect, PTL

\* plan_job comes to an account of the file, or to none.
LEMMA ChosenIsAccount == ASSUME connected \subseteq Range(Accounts)
                         PROVE  Chosen \in Range(Accounts) \union {None}
<1> DEFINE Able == Select(Accounts, connected)
           unused == [a \in Range(Accounts) |-> 0]
           plan == Slots(1, Able, unused, Available, 0)
<1>1. /\ Range(Accounts) = ToSet(Accounts) /\ Range(Platforms) = ToSet(Platforms)
      /\ Accounts \in Seq(ToSet(Accounts)) /\ IsInjective(Accounts)
  <2>1. DOMAIN Accounts = 1 .. Len(Accounts) /\ Len(Accounts) \in Nat
        /\ Accounts \in [1 .. Len(Accounts) -> ToSet(Accounts)]
    BY ArchiveAssumption DEF ToSet
  <2>2. Accounts \in Seq(ToSet(Accounts))
    BY <2>1, ListOf
  <2> QED
    BY <2>2, ArchiveAssumption DEF ToSet, Range
<1>2. /\ Able \in Seq(ToSet(Accounts)) /\ IsInjective(Able)
      /\ ToSet(Able) \subseteq Range(Accounts)
  BY <1>1, Selected
<1>3. /\ SlotsSound(1, Able, unused, Available, 0)
      /\ plan # << >> => 1 \in DOMAIN plan
  <2>1. unused \in [ToSet(Accounts) -> Nat] /\ Available \in [ToSet(Platforms) -> Nat]
    BY <1>1, ArchiveAssumption
  <2>2. 1 \in Int /\ 0 \in Nat
    OBVIOUS
  <2> HIDE DEF Able, unused
  <2> QED
    BY <1>2, <2>1, <2>2, PlansSound
<1>4. {plan[s].account : s \in DOMAIN plan} \subseteq ToSet(WithBudget(Able, unused))
  BY <1>3 DEF SlotsSound
<1>5. ToSet(WithBudget(Able, unused)) \subseteq ToSet(Able)
  <2> HIDE DEF Able
  <2> QED
    BY <1>2, Selected DEF WithBudget
<1>6. Chosen = IF plan = << >> THEN None ELSE plan[1].account
  BY DEF Chosen
<1> HIDE DEF plan, unused, Able
<1> QED
  BY <1>2, <1>3, <1>4, <1>5, <1>6

LEMMA OverTypes == ASSUME TypeOK, Over
                   PROVE  pc' = "idle" /\ day' = None /\ account' = None
  BY DEF Over

LEMMA ArchiveTypeStep ==
    ASSUME TypeOK, ArchiveInv, ArchiveInv', [Next]_vars
    PROVE  TypeOK'
<1>1. UploadTypeOK' /\ {counted, onDrive, wasted, late}' \subseteq [Days -> Nat]
      /\ pc' \in {"idle", "convert", "plan", "folder", "upload", "record", "main"}
  BY DEF ArchiveInv, AttemptInv, SessionInv
<1>2. pc # "idle" => day \in Days
  BY DEF ArchiveInv, AttemptInv
<1> DEFINE Rest == /\ day \in Days \union {None} /\ account \in Range(Accounts) \union {None}
                   /\ runOf \in [Days -> SUBSET Days]
                   /\ tries \in [Days -> 0 .. MaxRetries + 1]
                   /\ connected \subseteq Range(Accounts) /\ full \subseteq Range(Accounts)
                   /\ local \subseteq Days /\ finished \subseteq Days
                   /\ kills \in 0 .. MaxKills
<1> SUFFICES Rest'
  BY <1>1 DEF TypeOK
<1>3. Rest
  BY DEF TypeOK
<1>4. ASSUME NEW d \in Days, Launch(d) PROVE Rest'
  <2>1. /\ tries[d] \in 0 .. MaxRetries + 1 /\ tries[d] <= MaxRetries
        /\ MaxRetries \in Nat
    BY <1>3, <1>4, ArchiveAssumption DEF Launch
  <2>2. tries[d] + 1 \in 0 .. MaxRetries + 1
    BY <2>1
  <2> QED
    BY <1>3, <1>4, <2>2 DEF Launch, Bump
<1>5. CASE Convert \/ Folder \/ Upload \/ CleanUp \/ Record \/ Succeed
  BY <1>2, <1>3, <1>5 DEF Convert, Folder, Upload, CleanUp, Record, Succeed
<1>6. CASE Plan
  BY <1>3, <1>6, ChosenIsAccount DEF Plan
<1>7. CASE Raise
  BY <1>3, <1>7, OverTypes DEF Raise
<1>8. CASE Kill
  <2>1. kills + 1 \in 0 .. MaxKills /\ 0 \in 0 .. MaxRetries + 1
    BY <1>3, <1>8, ArchiveAssumption DEF Kill
  <2> QED
    BY <1>3, <1>8, <2>1, OverTypes DEF Kill
<1>9. ASSUME NEW a \in Range(Accounts), Revoke(a) PROVE Rest'
  BY <1>3, <1>9 DEF Revoke
<1>10. CASE UNCHANGED vars
  BY <1>3, <1>10 DEF vars, archiveVars
<1>11. ASSUME NEW d \in Days, LaunchBatch(d) PROVE Rest'
  <2>1. /\ tries[d] \in 0 .. MaxRetries + 1 /\ tries[d] <= MaxRetries
        /\ MaxRetries \in Nat
    BY <1>3, <1>11, ArchiveAssumption DEF LaunchBatch
  <2>2. tries[d] + 1 \in 0 .. MaxRetries + 1
    BY <2>1
  <2> QED
    BY <1>3, <1>11, <2>2 DEF LaunchBatch
<1>12. ASSUME NEW d \in Days, Split(d) PROVE Rest'
  <2>1. 0 \in 0 .. MaxRetries + 1
    BY ArchiveAssumption
  <2> QED
    BY <1>3, <1>12, <2>1 DEF Split
<1> QED
  BY <1>4, <1>5, <1>6, <1>7, <1>8, <1>9, <1>10, <1>11, <1>12 DEF Next

\* A day's rows are counted once, and its files on Drive are as many, except
\* for the attempts that ended between two of the writes.
THEOREM RowsCountedOnce == Spec => []CountedOnce
<1>1. ASSUME ArchiveInv, NEW d \in Days
      PROVE  /\ counted[d] <= 1 + late[d]
             /\ d \in finished => counted[d] = 1 + late[d]
             /\ onDrive[d] <= 1 + late[d] + wasted[d]
  <2>1. /\ onDrive[d] = counted[d] + wasted[d] + Pending(d)
        /\ counted[d] = late[d] + Settled(d)
        /\ {counted[d], wasted[d], late[d]} \subseteq Nat
    BY <1>1 DEF ArchiveInv, DaysAddUp, AttemptInv
  <2>2. Pending(d) \in 0 .. 1 /\ Settled(d) \in 0 .. 1
    BY DEF Pending, Settled
  <2>3. d \in finished => Settled(d) = 1
    BY DEF Settled
  <2>4. Settled(d) = 1 => Pending(d) = 0
    BY <1>1 DEF Settled, Pending, ArchiveInv, AttemptInv, SessionInv
  <2> QED
    BY ONLY <2>1, <2>2, <2>3, <2>4
<1>2. ArchiveInv => DaysCounted
  BY <1>1 DEF DaysCounted
<1>3. Init => TypeOK
  <2>1. 0 \in 0 .. MaxRetries + 1 /\ 0 \in 0 .. MaxKills /\ 0 \in Nat
    BY ArchiveAssumption
  <2> QED
    BY <2>1, ArchiveInit DEF Init, Groupings, TypeOK, ArchiveInv, AttemptInv, SessionInv
<1>4. Spec => [](ArchiveInv /\ TypeOK)
  <2>1. ArchiveInv /\ TypeOK /\ [Next]_vars => (ArchiveInv /\ TypeOK)'
    BY ArchiveStep, ArchiveTypeStep
  <2> QED
    BY <1>3, <2>1, ArchiveInit, PTL DEF Spec
<1> QED
  BY <1>2, <1>4, PTL DEF CountedOnce

-----------------------------------------------------------------------------
(* The catalog: merging tables *)

USE CatalogAssumption

LEMMA EmptyTable == Empty \in Table
BY DEF Empty, Table

\* Merging two entries adds their rows.
LEMMA EntriesMerge ==
    ASSUME NEW a \in Entry \union {Absent}, NEW b \in Entry \union {Absent}
    PROVE  /\ Rows(a) \in Nat
           /\ MergeEntry(a, b) \in Entry \union {Absent}
           /\ Rows(MergeEntry(a, b)) = Rows(a) + Rows(b)
<1>1. Absent \notin Entry
  OBVIOUS
<1>2. CASE a = Absent \/ b = Absent
  BY <1>1, <1>2 DEF MergeEntry, Rows, Entry
<1>3. CASE a # Absent /\ b # Absent
  <2> DEFINE holder == IF Older(a, b).account # Absent THEN Older(a, b).account
                        ELSE Newer(a, b).account
             e == [rows |-> a.rows + b.rows, account |-> holder, at |-> Newer(a, b).at]
  <2>1. a \in Entry /\ b \in Entry
    BY <1>3
  <2>2. Older(a, b) \in Entry /\ Newer(a, b) \in Entry
    BY <2>1 DEF Older, Newer
  <2>3. holder \in Homes \union {Absent} /\ Newer(a, b).at \in Nat
    BY <2>2 DEF Entry
  <2>4. a.rows \in Nat /\ b.rows \in Nat
    BY <2>1 DEF Entry
  <2>5. e \in Entry /\ e.rows = a.rows + b.rows
    <3> HIDE DEF holder
    <3> QED
      BY <2>3, <2>4 DEF Entry
  <2>6. MergeEntry(a, b) = e
    BY <1>3 DEF MergeEntry
  <2> HIDE DEF e
  <2> QED
    BY <1>1, <1>3, <2>4, <2>5, <2>6 DEF Rows
<1> QED
  BY <1>2, <1>3

\* So merging two tables adds the rows of every dataset.
LEMMA TablesMerge ==
    ASSUME NEW a \in Table, NEW b \in Table
    PROVE  /\ MergeTables(a, b) \in Table
           /\ \A d \in Datasets :
                 /\ Rows(a[d]) \in Nat /\ Rows(b[d]) \in Nat
                 /\ Rows(MergeTables(a, b)[d]) = Rows(a[d]) + Rows(b[d])
BY EntriesMerge DEF MergeTables, Table

\* What load_all_shards computes, shard by shard, in any set of tables closed
\* under merge.
LEMMA MergeUnfolds ==
    ASSUME NEW S, S \subseteq Table, Empty \in S,
           \A a, b \in S : MergeTables(a, b) \in S,
           NEW file \in [Owners -> S]
    PROVE  \E g \in [0 .. Shards -> S] :
              /\ Merge(file) = g[Shards]
              /\ g[0] = Empty
              /\ \A n \in Owners : g[n] = MergeTables(g[n - 1], file[n])
<1> DEFINE step == [n \in 1 .. Shards |-> [t \in S |-> MergeTables(t, file[n])]]
           F(h) == [n \in 0 .. Shards |-> IF n = 0 THEN Empty
                                          ELSE MergeTables(h[n - 1], file[n])]
           upTo == CHOOSE h : h = F(h)
<1>1. step \in [1 .. Shards -> [S -> S]]
  BY DEF Owners
<1>2. PICK g \in [0 .. Shards -> S] : IsFold(g, Shards, Empty, step)
  <2> HIDE DEF step
  <2>1. Shards \in Nat
    OBVIOUS
  <2>2. Empty \in S
    OBVIOUS
  <2> QED
    BY ONLY <1>1, <2>1, <2>2, FoldExists
<1>3. ASSUME NEW n \in 1 .. Shards
      PROVE  g[n - 1] \in S /\ g[n] = MergeTables(g[n - 1], file[n])
  <2>1. g[n - 1] \in S
    OBVIOUS
  <2>2. step[n] = [t \in S |-> MergeTables(t, file[n])]
    OBVIOUS
  <2>3. step[n][g[n - 1]] = MergeTables(g[n - 1], file[n])
    BY <2>1, <2>2
  <2> HIDE DEF step
  <2> QED
    BY <1>2, <2>1, <2>3 DEF IsFold
<1>4. g = F(g)
  BY <1>2, <1>3 DEF IsFold
<1>5. upTo = F(upTo)
  <2> HIDE DEF F
  <2> QED
    BY <1>4
<1>6. Merge(file) = upTo[Shards]
  BY DEF Merge
<1> HIDE DEF upTo
<1>7. upTo[0] = Empty /\ \A n \in Owners : upTo[n] = MergeTables(upTo[n - 1], file[n])
  BY <1>5 DEF Owners
<1> DEFINE Good == {n \in 0 .. Shards : upTo[n] \in S}
<1>8. \A n \in 0 .. Shards : n \in Good
  <2>1. 0 \in Good /\ \A n \in 1 .. Shards : n - 1 \in Good => n \in Good
    BY <1>7 DEF Owners
  <2> HIDE DEF Good
  <2> QED
    BY <2>1, UpFromZero
<1>9. upTo \in [0 .. Shards -> S]
  BY <1>5, <1>8
<1> QED
  BY <1>6, <1>7, <1>9

\* So the merge stays in that set.
LEMMA MergeStays ==
    ASSUME NEW S, S \subseteq Table, Empty \in S,
           \A a, b \in S : MergeTables(a, b) \in S,
           NEW file \in [Owners -> S]
    PROVE  Merge(file) \in S
<1>1. PICK g \in [0 .. Shards -> S] : Merge(file) = g[Shards]
  BY MergeUnfolds
<1> QED
  BY <1>1

\* All tables are such a set.
LEMMA MergeOfTables ==
    ASSUME NEW file \in [Owners -> Table]
    PROVE  /\ Merge(file) \in Table
           /\ \E g \in [0 .. Shards -> Table] :
              /\ Merge(file) = g[Shards]
              /\ g[0] = Empty
              /\ \A n \in Owners : g[n] = MergeTables(g[n - 1], file[n])
<1>1. \A a, b \in Table : MergeTables(a, b) \in Table
  BY TablesMerge
<1> QED
  BY <1>1, EmptyTable, MergeStays, MergeUnfolds

\* Without rows in any file there are none in the merge.
LEMMA MergeOfNothing ==
    ASSUME NEW d \in Datasets
    PROVE  Rows(Merge([w \in Owners |-> Empty])[d]) = 0
<1> DEFINE file == [w \in Owners |-> Empty]
<1>1. file \in [Owners -> Table] /\ Rows(Empty[d]) = 0
  BY EmptyTable DEF Empty, Rows
<1>2. PICK g \in [0 .. Shards -> Table] :
              /\ Merge(file) = g[Shards]
              /\ g[0] = Empty
              /\ \A n \in Owners : g[n] = MergeTables(g[n - 1], file[n])
  <2> HIDE DEF file
  <2> QED
    BY <1>1, MergeOfTables
<1> DEFINE Good == {n \in 0 .. Shards : Rows(g[n][d]) = 0}
<1>3. ASSUME NEW n \in 1 .. Shards, n - 1 \in Good PROVE n \in Good
  <2>1. n \in Owners /\ g[n - 1] \in Table
    BY DEF Owners
  <2>2. Rows(g[n][d]) = Rows(g[n - 1][d]) + Rows(Empty[d])
    BY <1>1, <1>2, <2>1, TablesMerge
  <2> QED
    BY <1>1, <1>3, <2>2
<1>4. 0 \in Good
  BY <1>1, <1>2
<1>5. \A n \in 0 .. Shards : n \in Good
  <2> HIDE DEF Good
  <2> QED
    BY <1>3, <1>4, UpFromZero
<1> QED
  BY <1>2, <1>5

\* Replacing one file changes the merge by the rows of that file.
LEMMA MergeUpdate ==
    ASSUME NEW file \in [Owners -> Table], NEW other \in [Owners -> Table],
           NEW i \in Owners, \A w \in Owners \ {i} : other[w] = file[w],
           NEW d \in Datasets
    PROVE  /\ Rows(Merge(file)[d]) \in Nat /\ Rows(Merge(other)[d]) \in Nat
           /\ Rows(Merge(other)[d]) + Rows(file[i][d])
                 = Rows(Merge(file)[d]) + Rows(other[i][d])
<1> DEFINE t == other[i]
<1>1. t \in Table /\ \A n \in Owners : other[n] = IF n = i THEN t ELSE file[n]
  OBVIOUS
<1>2. PICK g \in [0 .. Shards -> Table] :
              /\ Merge(file) = g[Shards]
              /\ g[0] = Empty
              /\ \A n \in Owners : g[n] = MergeTables(g[n - 1], file[n])
  BY MergeOfTables
<1>3. PICK h \in [0 .. Shards -> Table] :
              /\ Merge(other) = h[Shards]
              /\ h[0] = Empty
              /\ \A n \in Owners : h[n] = MergeTables(h[n - 1], other[n])
  BY <1>1, MergeOfTables
<1> DEFINE G(n) == Rows(g[n][d])
           H(n) == Rows(h[n][d])
           a == Rows(file[i][d])
           b == Rows(t[d])
           Good == {n \in 0 .. Shards : IF n < i THEN H(n) = G(n) ELSE H(n) + a = G(n) + b}
<1>4. a \in Nat /\ b \in Nat /\ i \in 1 .. Shards
  BY TablesMerge DEF Owners
<1>5. \A n \in 0 .. Shards : G(n) \in Nat /\ H(n) \in Nat
  BY TablesMerge
<1>6. ASSUME NEW n \in 1 .. Shards, n - 1 \in Good PROVE n \in Good
  <2>1. n \in Owners /\ n - 1 \in 0 .. Shards /\ n \in 0 .. Shards
    BY DEF Owners
  <2>2. g[n - 1] \in Table /\ h[n - 1] \in Table /\ file[n] \in Table /\ other[n] \in Table
    BY <1>1, <2>1
  <2>3. G(n) = G(n - 1) + Rows(file[n][d]) /\ H(n) = H(n - 1) + Rows(other[n][d])
    BY <1>2, <1>3, <2>1, <2>2, TablesMerge
  <2>4. Rows(file[n][d]) \in Nat /\ Rows(other[n][d]) \in Nat
    BY <2>2, TablesMerge
  <2>5. IF n = i THEN Rows(other[n][d]) = b /\ Rows(file[n][d]) = a
        ELSE Rows(other[n][d]) = Rows(file[n][d])
    BY <1>1, <2>1
  <2>6. IF n - 1 < i THEN H(n - 1) = G(n - 1) ELSE H(n - 1) + a = G(n - 1) + b
    BY <1>6
  <2>7. G(n - 1) \in Nat /\ H(n - 1) \in Nat
    BY <1>5, <2>1
  <2> HIDE DEF G, H, a, b
  <2>8. CASE n < i
    <3>1. n - 1 < i /\ n # i
      BY ONLY <1>4, <2>1, <2>8
    <3> QED
      BY ONLY <2>3, <2>5, <2>6, <2>8, <3>1
  <2>9. CASE n = i
    <3>1. n - 1 < i /\ ~ (n < i)
      BY ONLY <1>4, <2>1, <2>9
    <3>2. H(n) = G(n - 1) + b /\ G(n) = G(n - 1) + a
      BY ONLY <2>3, <2>5, <2>6, <2>9, <3>1
    <3>3. H(n) + a = G(n) + b
      BY ONLY <1>4, <2>7, <3>2
    <3> QED
      BY ONLY <3>1, <3>3
  <2>10. CASE i < n
    <3>1. ~ (n - 1 < i) /\ ~ (n < i) /\ n # i
      BY ONLY <1>4, <2>1, <2>10
    <3>2. H(n - 1) + a = G(n - 1) + b /\ Rows(other[n][d]) = Rows(file[n][d])
      BY ONLY <2>5, <2>6, <3>1
    <3>3. H(n) + a = G(n) + b
      BY ONLY <1>4, <2>3, <2>4, <2>7, <3>2
    <3> QED
      BY ONLY <3>1, <3>3
  <2>11. n < i \/ n = i \/ i < n
    BY ONLY <1>4, <2>1
  <2>12. IF n < i THEN H(n) = G(n) ELSE H(n) + a = G(n) + b
    BY ONLY <2>8, <2>9, <2>10, <2>11
  <2> QED
    BY <2>1, <2>12
<1>7. 0 \in Good
  BY <1>2, <1>3, <1>4
<1>8. \A n \in 0 .. Shards : n \in Good
  <2> HIDE DEF Good
  <2> QED
    BY <1>6, <1>7, UpFromZero
<1>9. Shards \in Good /\ ~ (Shards < i) /\ Shards \in 0 .. Shards
  BY <1>4, <1>8
<1>10. H(Shards) + a = G(Shards) + b
  BY <1>9
<1> QED
  BY <1>2, <1>3, <1>5, <1>9, <1>10

-----------------------------------------------------------------------------
(* The catalog: tables of the past, and what the shard files hold *)

\* The tables of entries that the first n upserts can have left.
UpTo(n) == {t \in Table : \A d \in Datasets : t[d] # Absent => t[d].at <= n}

\* They are a set closed under merge.
LEMMA TablesUpTo ==
    ASSUME NEW n \in Nat
    PROVE  /\ Absent \notin UpTo(n)
           /\ UpTo(n) \subseteq Table /\ UpTo(n) \subseteq UpTo(n + 1)
           /\ Empty \in UpTo(n) /\ OldCatalog \in UpTo(n)
           /\ \A a, b \in UpTo(n) : MergeTables(a, b) \in UpTo(n)
<1>1. Absent \notin UpTo(n) /\ UpTo(n) \subseteq Table
  BY DEF UpTo
<1>2. UpTo(n) \subseteq UpTo(n + 1)
  <2> SUFFICES ASSUME NEW t \in Table, NEW d \in Datasets, t[d] # Absent, t[d].at <= n
               PROVE  t[d].at <= n + 1
    BY DEF UpTo
  <2>1. t[d].at \in Nat
    BY DEF Table, Entry
  <2> QED
    BY <2>1
<1>3. Empty \in UpTo(n)
  BY EmptyTable DEF UpTo, Empty
<1>4. OldCatalog \in UpTo(n)
  <2> DEFINE old == [rows |-> Legacy, account |-> Absent, at |-> 0]
  <2>1. old \in Entry /\ old.at = 0
    BY DEF Entry
  <2>2. OldCatalog = [d \in Datasets |-> old]
    BY DEF OldCatalog
  <2> HIDE DEF old
  <2> QED
    BY <2>1, <2>2 DEF UpTo, Table
<1>5. ASSUME NEW a \in UpTo(n), NEW b \in UpTo(n) PROVE MergeTables(a, b) \in UpTo(n)
  <2>1. a \in Table /\ b \in Table /\ MergeTables(a, b) \in Table
    BY <1>1, TablesMerge
  <2>2. ASSUME NEW d \in Datasets, MergeTables(a, b)[d] # Absent
        PROVE  MergeTables(a, b)[d].at <= n
    <3>1. MergeTables(a, b)[d] = MergeEntry(a[d], b[d])
      BY DEF MergeTables
    <3>2. a[d] # Absent => a[d].at <= n
      BY DEF UpTo
    <3>3. b[d] # Absent => b[d].at <= n
      BY DEF UpTo
    <3>4. CASE a[d] = Absent \/ b[d] = Absent
      BY <2>2, <3>1, <3>2, <3>3, <3>4 DEF MergeEntry
    <3>5. CASE a[d] # Absent /\ b[d] # Absent
      <4>1. MergeEntry(a[d], b[d]).at = Newer(a[d], b[d]).at
        BY <3>5 DEF MergeEntry
      <4> QED
        BY <3>1, <3>2, <3>3, <3>5, <4>1 DEF Newer
    <3> QED
      BY <3>4, <3>5
  <2> QED
    BY <2>1, <2>2 DEF UpTo
<1> QED
  BY <1>1, <1>2, <1>3, <1>4, <1>5

\* The files sh as load_all_shards finds them, and the rows they hold together.
FilesOf(sh) == [w \in Owners |-> IF sh[w] = Absent THEN Empty ELSE sh[w]]
Held(sh, d) == Rows(Merge(FilesOf(sh))[d])

\* Writing one file changes what they hold by the rows of that file.
LEMMA HeldUpdate ==
    ASSUME NEW sh \in [Owners -> Table \union {Absent}],
           NEW new \in [Owners -> Table \union {Absent}],
           NEW s \in Owners, \A w \in Owners \ {s} : new[w] = sh[w], new[s] # Absent,
           NEW d \in Datasets
    PROVE  /\ Held(sh, d) \in Nat /\ Held(new, d) \in Nat
           /\ Held(new, d) + Rows(FilesOf(sh)[s][d]) = Held(sh, d) + Rows(new[s][d])
<1>1. FilesOf(sh) \in [Owners -> Table] /\ FilesOf(new) \in [Owners -> Table]
  BY EmptyTable DEF FilesOf
<1>2. FilesOf(new)[s] = new[s] /\ \A w \in Owners \ {s} : FilesOf(new)[w] = FilesOf(sh)[w]
  BY DEF FilesOf
<1> QED
  BY <1>1, <1>2, MergeUpdate DEF Held

\* Without files they hold none.
LEMMA HeldByNobody ==
    ASSUME NEW sh \in [Owners -> Table \union {Absent}], NEW d \in Datasets,
           \A w \in Owners : sh[w] = Absent
    PROVE  Held(sh, d) = 0
<1>1. FilesOf(sh) = [w \in Owners |-> Empty]
  BY DEF FilesOf
<1> QED
  BY <1>1, MergeOfNothing DEF Held

\* What a writer sees: the files of the others, and its own entries for its file.
LEMMA Seen ==
    ASSUME NEW n \in Nat, shard \in [Owners -> UpTo(n) \union {Absent}],
           NEW s \in Owners, mem[s] \in UpTo(n)
    PROVE  /\ AllShards(s) \in UpTo(n)
           /\ \A d \in Datasets :
                 /\ {Held(shard, d), Rows(Stored(s)[d]), Rows(mem[s][d]),
                     Rows(AllShards(s)[d])} \subseteq Nat
                 /\ Rows(AllShards(s)[d]) + Rows(Stored(s)[d])
                       = Held(shard, d) + Rows(mem[s][d])
<1> DEFINE other == [w \in Owners |-> IF w = s THEN Empty ELSE Stored(w)]
<1>1. /\ UpTo(n) \subseteq Table /\ Empty \in UpTo(n)
      /\ \A a, b \in UpTo(n) : MergeTables(a, b) \in UpTo(n)
  BY TablesUpTo
<1>2. other \in [Owners -> UpTo(n)]
  BY <1>1 DEF Stored
<1>3. Merge(other) \in UpTo(n)
  <2> HIDE DEF other
  <2> QED
    BY <1>1, <1>2, MergeStays
<1>4. AllShards(s) = MergeTables(Merge(other), mem[s])
  BY DEF AllShards
<1>5. FilesOf(shard) \in [Owners -> Table] /\ FilesOf(shard)[s] = Stored(s)
  BY <1>1 DEF FilesOf, Stored
<1>6. other[s] = Empty /\ \A w \in Owners \ {s} : other[w] = FilesOf(shard)[w]
  BY DEF FilesOf, Stored
<1> HIDE DEF other
<1>7. ASSUME NEW d \in Datasets
      PROVE  /\ {Held(shard, d), Rows(Stored(s)[d]), Rows(mem[s][d]),
                  Rows(AllShards(s)[d])} \subseteq Nat
             /\ Rows(AllShards(s)[d]) + Rows(Stored(s)[d]) = Held(shard, d) + Rows(mem[s][d])
  <2>1. /\ Held(shard, d) \in Nat /\ Rows(Merge(other)[d]) \in Nat
        /\ Rows(Merge(other)[d]) + Rows(Stored(s)[d]) = Held(shard, d) + Rows(Empty[d])
    BY <1>1, <1>2, <1>5, <1>6, MergeUpdate DEF Held
  <2>2. Rows(Empty[d]) = 0
    BY DEF Rows, Empty
  <2>3. /\ Rows(AllShards(s)[d]) = Rows(Merge(other)[d]) + Rows(mem[s][d])
        /\ Rows(mem[s][d]) \in Nat
    BY <1>1, <1>3, <1>4, TablesMerge
  <2>4. Rows(Stored(s)[d]) \in Nat
    BY <1>5, TablesMerge
  <2> QED
    BY <2>1, <2>2, <2>3, <2>4
<1> QED
  BY <1>1, <1>3, <1>4, <1>7

\* Nothing is newer than the last upsert.
Past ==
    /\ shard \in [Owners -> UpTo(now) \union {Absent}]
    /\ mem \in [Owners -> UpTo(now)] /\ view \in [Owners -> UpTo(now)]
    /\ owed \in [Owners -> UpTo(now)]
    /\ main \in UpTo(now) \union {Absent} /\ part \in UpTo(now) \union {Absent}
    /\ copies \in Seq(UpTo(now))

\* What load reads is a table of the past.
LEMMA SourceUpTo ==
    ASSUME CatalogTypeOK, Past, NEW s \in Owners
    PROVE  Source(s) \in UpTo(now)
<1>1. now \in Nat
  BY DEF CatalogTypeOK
<1>2. Empty \in UpTo(now)
  BY <1>1, TablesUpTo
<1>3. /\ shard[s] # Absent => shard[s] \in UpTo(now)
      /\ main # Absent => main \in UpTo(now)
  BY DEF Past
<1> QED
  BY <1>2, <1>3 DEF Source

LEMMA CatalogInitPast == CatalogInit => CatalogTypeOK /\ Past
<1> SUFFICES ASSUME CatalogInit PROVE CatalogTypeOK /\ Past
  OBVIOUS
<1>1. 0 \in Nat /\ UpTo(0) \subseteq Table /\ Empty \in UpTo(0) /\ OldCatalog \in UpTo(0)
  BY TablesUpTo
<1>2. << >> \in Seq(UpTo(0)) /\ << >> \in Seq(Table)
  OBVIOUS
<1> QED
  BY <1>1, <1>2 DEF CatalogInit, CatalogTypeOK, Past

\* An upsert leaves an entry of its own time in one table.
LEMMA UpsertPast ==
    ASSUME CatalogTypeOK, Past, NEW s \in Owners, NEW d \in Datasets,
           NEW a \in Homes \union {Absent}, Upsert(s, d, a)
    PROVE  CatalogTypeOK' /\ Past'
<1> DEFINE e == Updated(mem[s][d], a)
<1>1. now \in Nat /\ now' = now + 1 /\ now + 1 \in Nat
  BY DEF CatalogTypeOK, Upsert
<1>2. UpTo(now) \subseteq UpTo(now') /\ UpTo(now') \subseteq Table
  BY <1>1, TablesUpTo
<1>3. mem[s] \in Table /\ mem[s][d] \in Entry \union {Absent}
  BY DEF CatalogTypeOK, Table
<1>4. e \in Entry /\ e.at = now + 1
  <2> DEFINE holder == IF mem[s][d] # Absent /\ mem[s][d].account # Absent
                        THEN mem[s][d].account ELSE a
             n == Rows(mem[s][d]) + 1
  <2>1. holder \in Homes \union {Absent}
    BY <1>3 DEF Entry
  <2>2. n \in Nat
    BY <1>3, EntriesMerge
  <2>3. e = [rows |-> n, at |-> now + 1, account |-> holder]
    BY DEF Updated
  <2> HIDE DEF e, n, holder
  <2> QED
    BY <1>1, <2>1, <2>2, <2>3 DEF Entry
<1>5. mem' = [mem EXCEPT ![s] = [mem[s] EXCEPT ![d] = e]]
  BY DEF Upsert
<1> HIDE DEF e
<1> DEFINE t == [mem[s] EXCEPT ![d] = e]
<1>6. t \in Table
  BY <1>3, <1>4 DEF Table
<1>7. ASSUME NEW f \in Datasets, t[f] # Absent PROVE t[f].at <= now + 1
  <2>1. CASE f = d
    BY <1>1, <1>3, <1>4, <2>1 DEF Table
  <2>2. CASE f # d
    <3>1. t[f] = mem[s][f] /\ mem[s] \in UpTo(now + 1)
      BY <1>1, <1>2, <1>3, <2>2 DEF Past, Table
    <3> QED
      BY <1>7, <3>1 DEF UpTo
  <2> QED
    BY <2>1, <2>2
<1>8. t \in UpTo(now')
  BY <1>1, <1>6, <1>7 DEF UpTo
<1>9. mem' = [mem EXCEPT ![s] = t]
  BY <1>5
<1> HIDE DEF t
<1>10. mem' \in [Owners -> UpTo(now')] /\ mem' \in [Owners -> Table]
  BY <1>2, <1>8, <1>9 DEF CatalogTypeOK, Past
<1>11. copies' \in Seq(UpTo(now'))
  BY <1>2 DEF Past, Upsert
<1>12. CatalogTypeOK'
  BY <1>1, <1>10 DEF CatalogTypeOK, Upsert, Goto
<1>13. Past'
  BY <1>2, <1>10, <1>11 DEF Past, Upsert
<1> QED
  BY <1>12, <1>13

\* No step makes a table of the future, or of another type.
LEMMA CatalogStepPast ==
    ASSUME CatalogTypeOK, Past, [CatalogNext]_catalogVars
    PROVE  CatalogTypeOK' /\ Past'
<1> USE DEF CatalogTypeOK, Past
<1>0. /\ Absent \notin UpTo(now) /\ UpTo(now) \subseteq Table /\ Empty \in UpTo(now)
  BY TablesUpTo
<1>1. ASSUME NEW s \in Owners, Open(s) PROVE CatalogTypeOK' /\ Past'
  BY <1>0, <1>1, SourceUpTo DEF Open
<1>2. ASSUME NEW s \in Owners, WriteShard(s) PROVE CatalogTypeOK' /\ Past'
  <2>1. recorded' \in [Datasets -> Nat]
    <3> SUFFICES ASSUME NEW d \in Datasets
                 PROVE  recorded[d] + (IF d = Latest(s) THEN 1 ELSE 0)
                          + (IF heirs = {} THEN Rows(owed[s][d]) ELSE 0) \in Nat
      BY <1>2 DEF WriteShard
    <3>1. recorded[d] \in Nat /\ Rows(owed[s][d]) \in Nat
      BY TablesMerge
    <3> QED
      BY <3>1
  <2>2. heirs' \subseteq Owners
    BY <1>2 DEF WriteShard
  <2>3. /\ shard' \in [Owners -> UpTo(now) \union {Absent}] /\ owed' \in [Owners -> UpTo(now)]
        /\ stage' \in [Owners -> {"idle", "shard", "merge", "main", "replace"}]
    BY <1>0, <1>2 DEF WriteShard, Goto
  <2> QED
    BY <1>0, <1>2, <2>1, <2>2, <2>3 DEF WriteShard
<1>3. ASSUME NEW s \in Owners, ReadShards(s) PROVE CatalogTypeOK' /\ Past'
  <2>1. AllShards(s) \in UpTo(now)
    BY Seen
  <2> QED
    BY <1>0, <1>3, <2>1 DEF ReadShards, Goto, history
<1>4. ASSUME NEW s \in Owners, WriteMain(s) PROVE CatalogTypeOK' /\ Past'
  BY <1>0, <1>4 DEF WriteMain, Goto, history
<1>5. ASSUME NEW s \in Owners, ReplaceMain(s) PROVE CatalogTypeOK' /\ Past'
  BY <1>0, <1>5 DEF ReplaceMain, Goto, history
<1>6. ASSUME NEW s \in Owners, Die(s) PROVE CatalogTypeOK' /\ Past'
  BY <1>0, <1>6 DEF Die, Goto
<1>7. ASSUME NEW s \in Owners, Restore(s) PROVE CatalogTypeOK' /\ Past'
  <2>1. PICK i \in DOMAIN copies :
          /\ main' = copies[i]
          /\ IF Readable(Owners) = {}
             THEN /\ mem' = [mem EXCEPT ![s] = copies[i]]
                  /\ owed' = [owed EXCEPT ![s] = copies[i]]
             ELSE /\ mem' = [mem EXCEPT ![s] = Source(s)]
                  /\ owed' = [owed EXCEPT ![s] = Empty]
    BY <1>7 DEF Restore
  <2>2. copies[i] \in UpTo(now) /\ Source(s) \in UpTo(now)
    BY SourceUpTo
  <2>3. mem \in [Owners -> UpTo(now)] /\ owed \in [Owners -> UpTo(now)]
    OBVIOUS
  <2>4. mem' \in [Owners -> UpTo(now)]
    BY ONLY <2>1, <2>2, <2>3
  <2>5. owed' \in [Owners -> UpTo(now)] /\ main' \in UpTo(now)
    BY ONLY <1>0, <2>1, <2>2, <2>3
  <2> QED
    BY <1>0, <1>7, <2>4, <2>5 DEF Restore
<1>8. ASSUME NEW s \in Owners, NEW d \in Datasets, NEW a \in Homes \union {Absent},
             Upsert(s, d, a)
      PROVE  CatalogTypeOK' /\ Past'
  BY <1>8, UpsertPast
<1>9. ASSUME Backup PROVE CatalogTypeOK' /\ Past'
  <2>1. main \in UpTo(now) /\ main \in Table
    BY <1>0, <1>9 DEF Backup
  <2>2. copies' \in Seq(UpTo(now)) /\ copies' \in Seq(Table)
    BY <1>9, <2>1 DEF Backup
  <2> QED
    BY <1>9, <2>2 DEF Backup, history
<1>10. ASSUME LoseMachine PROVE CatalogTypeOK' /\ Past'
  BY <1>0, <1>10 DEF LoseMachine
<1>11. CASE UNCHANGED catalogVars
  BY <1>11 DEF catalogVars
<1> QED
  BY <1>1, <1>2, <1>3, <1>4, <1>5, <1>6, <1>7, <1>8, <1>9, <1>10, <1>11
  DEF CatalogNext, Write

\* d has the only newest entry of t.
IsLatest(t, d) ==
    t[d] # Absent /\ \A e \in Datasets \ {d} : t[e] # Absent => t[e].at < t[d].at

\* A writer has in mind what its shard file holds, what it owes it and, before
\* the write of an upsert, one row more.  Who owes rows has no shard file.
WriterInv(s) ==
    /\ s \notin open => stage[s] = "idle" /\ owed[s] = Empty
    /\ owed[s] # Empty => shard[s] = Absent
    /\ s \in heirs => shard[s] # Absent
    /\ s \in open /\ stage[s] = "idle" =>
          \A d \in Datasets : Rows(mem[s][d]) = Rows(Stored(s)[d]) + Rows(owed[s][d])
    /\ stage[s] = "shard" => \E d \in Datasets :
          /\ IsLatest(mem[s], d)
          /\ \A e \in Datasets : Rows(mem[s][e]) = Rows(Stored(s)[e]) + Rows(owed[s][e])
                                                    + (IF e = d THEN 1 ELSE 0)
    /\ stage[s] \in {"merge", "main", "replace"} => shard[s] = mem[s]

\* Steps of others leave a writer as it is.
LEMMA WriterUntouched ==
    ASSUME NEW s \in Owners, WriterInv(s),
           shard'[s] = shard[s], mem'[s] = mem[s], stage'[s] = stage[s], owed'[s] = owed[s],
           s \in open' <=> s \in open, s \in heirs' <=> s \in heirs
    PROVE  WriterInv(s)'
BY DEF WriterInv, Stored

\* What the upsert in progress updated can be told from its time.
LEMMA LatestIsLatest ==
    ASSUME NEW n \in Nat, NEW s \in Owners, mem[s] \in UpTo(n),
           NEW d \in Datasets, IsLatest(mem[s], d)
    PROVE  Latest(s) = d
<1>1. \A e \in Datasets : mem[s][e] # Absent => mem[s][e].at \in Nat
  BY DEF UpTo, Table, Entry
<1>2. \A e \in Datasets : mem[s][e] # Absent => mem[s][e].at <= mem[s][d].at
  BY <1>1 DEF IsLatest
<1>3. ASSUME NEW f \in Datasets, mem[s][f] # Absent,
             \A e \in Datasets : mem[s][e] # Absent => mem[s][e].at <= mem[s][f].at
      PROVE  f = d
  BY <1>1, <1>3 DEF IsLatest
<1> QED
  BY <1>2, <1>3 DEF Latest, IsLatest

\* An upsert puts its writer one row ahead of its file.
LEMMA UpsertWriter ==
    ASSUME CatalogTypeOK, Past, NEW s \in Owners, NEW d \in Datasets,
           NEW a \in Homes \union {Absent}, Upsert(s, d, a), WriterInv(s)
    PROVE  WriterInv(s)'
<1> DEFINE e == Updated(mem[s][d], a)
           t == [mem[s] EXCEPT ![d] = e]
<1>1. mem[s] \in Table /\ owed[s] \in Table /\ now \in Nat
  BY DEF CatalogTypeOK
<1>2. \A f \in Datasets : mem[s][f] # Absent => mem[s][f].at \in Nat /\ mem[s][f].at <= now
  BY <1>1 DEF Past, UpTo, Table, Entry
<1>3. e # Absent /\ e.at = now + 1 /\ e.rows = Rows(mem[s][d]) + 1
  <2> DEFINE holder == IF mem[s][d] # Absent /\ mem[s][d].account # Absent
                        THEN mem[s][d].account ELSE a
             n == Rows(mem[s][d]) + 1
  <2>1. mem[s][d] \in Entry \union {Absent}
    BY <1>1 DEF Table
  <2>2. holder \in Homes \union {Absent} /\ n \in Nat
    BY <2>1, EntriesMerge DEF Entry
  <2>3. e = [rows |-> n, at |-> now + 1, account |-> holder]
    BY DEF Updated
  <2>4. [rows |-> n, at |-> now + 1, account |-> holder] \in Entry
    <3> HIDE DEF n, holder
    <3> QED
      BY <1>1, <2>2 DEF Entry
  <2> QED
    BY <2>3, <2>4
<1>4. mem'[s] = t /\ stage'[s] = "shard" /\ UNCHANGED <<shard, open, owed, heirs>>
  BY DEF Upsert, Goto, CatalogTypeOK
<1>5. s \in open /\ stage[s] = "idle"
  BY DEF Upsert
<1> HIDE DEF e
<1>6. t[d] = e /\ \A f \in Datasets \ {d} : t[f] = mem[s][f]
  BY <1>1 DEF Table
<1> HIDE DEF t
<1>7. IsLatest(t, d)
  BY <1>1, <1>2, <1>3, <1>6 DEF IsLatest
<1>8. ASSUME NEW f \in Datasets
      PROVE  Rows(t[f]) = Rows(Stored(s)[f]) + Rows(owed[s][f]) + (IF f = d THEN 1 ELSE 0)
  <2>1. Rows(mem[s][f]) = Rows(Stored(s)[f]) + Rows(owed[s][f])
    BY <1>5 DEF WriterInv
  <2>2. Rows(mem[s][f]) \in Nat
    BY <1>1, TablesMerge
  <2>3. Rows(t[f]) = IF f = d THEN Rows(mem[s][f]) + 1 ELSE Rows(mem[s][f])
    BY <1>3, <1>6 DEF Rows
  <2> HIDE DEF Rows
  <2> QED
    BY <2>1, <2>2, <2>3
<1> QED
  BY <1>4, <1>5, <1>7, <1>8 DEF WriterInv, Stored

\* Every step keeps what is said of a writer.
LEMMA WriterStep ==
    ASSUME CatalogTypeOK, Past, \A w \in Owners : WriterInv(w), [CatalogNext]_catalogVars,
           NEW w \in Owners
    PROVE  WriterInv(w)'
<1> USE DEF CatalogTypeOK
<1>0. Rows(Absent) = 0 /\ Absent \notin Table /\ \A d \in Datasets : Rows(Empty[d]) = 0
  BY DEF Rows, Empty
<1>1. ASSUME NEW s \in Owners, Open(s) PROVE WriterInv(w)'
  <2>1. CASE w # s
    BY <1>1, <2>1, WriterUntouched DEF Open
  <2>2. CASE w = s
    <3>1. stage[s] = "idle" /\ owed[s] = Empty
      BY <1>1 DEF Open, WriterInv
    <3>2. /\ mem'[s] = Source(s) /\ stage'[s] = "idle" /\ shard' = shard /\ heirs' = heirs
          /\ owed'[s] = IF Readable(Owners) = {} THEN Source(s) ELSE owed[s]
      BY <1>1, <3>1 DEF Open
    <3>3. shard[s] # Absent => Readable(Owners) # {}
      BY DEF Readable
    <3>4. ASSUME NEW d \in Datasets
          PROVE  Rows(mem'[s][d]) = Rows(Stored(s)[d]) + Rows(owed'[s][d])
      <4>1. Rows(Stored(s)[d]) \in Nat /\ Rows(Source(s)[d]) \in Nat
        <5>1. Stored(s) \in Table /\ Source(s) \in Table
          BY EmptyTable, SourceUpTo, TablesUpTo DEF Stored
        <5> QED
          BY <5>1, TablesMerge
      <4>2. CASE shard[s] # Absent
        BY <1>0, <3>1, <3>2, <3>3, <4>1, <4>2 DEF Source, Stored
      <4>3. CASE shard[s] = Absent /\ Readable(Owners) = {}
        BY <1>0, <3>2, <4>1, <4>3 DEF Stored
      <4>4. CASE shard[s] = Absent /\ Readable(Owners) # {}
        BY <1>0, <3>1, <3>2, <4>4 DEF Source, Stored
      <4> QED
        BY <4>2, <4>3, <4>4
    <3>5. owed'[s] # Empty => shard'[s] = Absent
      BY <3>1, <3>2, <3>3
    <3>6. s \in open' /\ (s \in heirs' => shard'[s] # Absent)
      BY <1>1, <3>2 DEF Open, WriterInv
    <3> QED
      BY <2>2, <3>2, <3>4, <3>5, <3>6 DEF WriterInv, Stored
  <2> QED
    BY <2>1, <2>2
<1>2. ASSUME NEW s \in Owners, WriteShard(s) PROVE WriterInv(w)'
  <2>1. CASE w # s
    BY <1>2, <2>1, WriterUntouched DEF WriteShard, Goto
  <2>2. CASE w = s
    <3>1. /\ stage'[s] = "merge" /\ shard'[s] = mem[s] /\ mem' = mem
          /\ owed'[s] = Empty /\ open' = open
      BY <1>2 DEF WriteShard, Goto
    <3>2. shard'[s] # Absent
      BY <1>0, <3>1
    <3>3. s \in open
      BY <1>2 DEF WriteShard, WriterInv
    <3> QED
      BY <2>2, <3>1, <3>2, <3>3 DEF WriterInv
  <2> QED
    BY <2>1, <2>2
<1>3. ASSUME NEW s \in Owners, ReadShards(s) \/ WriteMain(s) PROVE WriterInv(w)'
  <2>1. CASE w # s
    BY <1>3, <2>1, WriterUntouched DEF ReadShards, WriteMain, Goto, history
  <2>2. CASE w = s
    <3>1. /\ stage[s] \in {"merge", "main"} /\ stage'[s] \in {"main", "replace"}
          /\ UNCHANGED <<shard, mem, owed, open, heirs>>
      BY <1>3 DEF ReadShards, WriteMain, Goto, history
    <3> QED
      BY <2>2, <3>1 DEF WriterInv
  <2> QED
    BY <2>1, <2>2
<1>4. ASSUME NEW s \in Owners, ReplaceMain(s) PROVE WriterInv(w)'
  <2>1. CASE w # s
    BY <1>4, <2>1, WriterUntouched DEF ReplaceMain, Goto, history
  <2>2. CASE w = s
    <3>1. /\ stage[s] = "replace" /\ stage'[s] = "idle"
          /\ UNCHANGED <<shard, mem, owed, open, heirs>>
      BY <1>4 DEF ReplaceMain, Goto, history
    <3>2. shard[s] = mem[s] /\ shard[s] # Absent /\ owed[s] = Empty
      BY <1>0, <3>1 DEF WriterInv
    <3>3. \A d \in Datasets : Rows(mem[s][d]) = Rows(Stored(s)[d]) + Rows(owed[s][d])
      <4> SUFFICES ASSUME NEW d \in Datasets
                   PROVE  Rows(mem[s][d]) = Rows(mem[s][d]) + 0
        BY <1>0, <3>2 DEF Stored
      <4>1. mem[s] \in Table
        OBVIOUS
      <4>2. Rows(mem[s][d]) \in Nat
        BY <4>1, TablesMerge
      <4> QED
        BY <4>2
    <3> QED
      BY <2>2, <3>1, <3>2, <3>3 DEF WriterInv, Stored
  <2> QED
    BY <2>1, <2>2
<1>5. ASSUME NEW s \in Owners, Die(s) PROVE WriterInv(w)'
  <2>1. CASE w # s
    BY <1>5, <2>1, WriterUntouched DEF Die, Goto
  <2>2. CASE w = s
    BY <1>5, <2>2 DEF Die, Goto, WriterInv
  <2> QED
    BY <2>1, <2>2
<1>6. ASSUME NEW s \in Owners, Restore(s) PROVE WriterInv(w)'
  <2>1. PICK i \in DOMAIN copies :
          /\ main' = copies[i]
          /\ IF Readable(Owners) = {}
             THEN /\ mem' = [mem EXCEPT ![s] = copies[i]]
                  /\ owed' = [owed EXCEPT ![s] = copies[i]]
             ELSE /\ mem' = [mem EXCEPT ![s] = Source(s)]
                  /\ owed' = [owed EXCEPT ![s] = Empty]
    BY <1>6 DEF Restore
  <2>2. CASE w # s
    BY <1>6, <2>1, <2>2, WriterUntouched DEF Restore
  <2>3. CASE w = s
    <3>1. s \in open /\ stage[s] = "idle" /\ UNCHANGED <<shard, stage, open, heirs>>
      BY <1>6 DEF Restore
    <3>2. shard[s] # Absent => Readable(Owners) # {}
      BY DEF Readable
    <3>3. IF Readable(Owners) = {} THEN mem'[s] = copies[i] /\ owed'[s] = copies[i]
          ELSE mem'[s] = Source(s) /\ owed'[s] = Empty
      BY <2>1
    <3>4. ASSUME NEW d \in Datasets
          PROVE  Rows(mem'[s][d]) = Rows(Stored(s)[d]) + Rows(owed'[s][d])
      <4>1. Rows(Stored(s)[d]) \in Nat /\ Rows(copies[i][d]) \in Nat
        <5>1. copies[i] \in Table /\ Stored(s) \in Table
          BY EmptyTable DEF Stored
        <5> QED
          BY <5>1, TablesMerge
      <4>2. CASE shard[s] # Absent
        BY <1>0, <3>2, <3>3, <4>1, <4>2 DEF Source, Stored
      <4>3. CASE shard[s] = Absent /\ Readable(Owners) = {}
        BY <1>0, <3>3, <4>1, <4>3 DEF Stored
      <4>4. CASE shard[s] = Absent /\ Readable(Owners) # {}
        BY <1>0, <3>3, <4>4 DEF Source, Stored
      <4> QED
        BY <4>2, <4>3, <4>4
    <3>5. owed'[s] # Empty => shard'[s] = Absent
      BY <3>1, <3>2, <3>3
    <3> QED
      BY <2>3, <3>1, <3>4, <3>5 DEF WriterInv, Stored
  <2> QED
    BY <2>2, <2>3
<1>7. ASSUME NEW s \in Owners, NEW d \in Datasets, NEW a \in Homes \union {Absent},
             Upsert(s, d, a)
      PROVE  WriterInv(w)'
  <2>1. CASE w # s
    BY <1>7, <2>1, WriterUntouched DEF Upsert, Goto
  <2>2. CASE w = s
    BY <1>7, <2>2, UpsertWriter
  <2> QED
    BY <2>1, <2>2
<1>8. CASE Backup \/ UNCHANGED catalogVars
  BY <1>8, WriterUntouched DEF Backup, catalogVars, history
<1>9. CASE LoseMachine
  BY <1>9 DEF LoseMachine, WriterInv
<1> QED
  BY <1>1, <1>2, <1>3, <1>4, <1>5, <1>6, <1>7, <1>8, <1>9 DEF CatalogNext, Write

\* The first write of save adds to the files what the writer owed and one row.
LEMMA HeldGrows ==
    ASSUME CatalogTypeOK, Past, NEW s \in Owners, WriterInv(s), WriteShard(s),
           NEW d \in Datasets
    PROVE  /\ Held(shard, d) \in Nat /\ Held(shard', d) \in Nat /\ Rows(owed[s][d]) \in Nat
           /\ Held(shard', d) = Held(shard, d) + Rows(owed[s][d])
                                   + (IF d = Latest(s) THEN 1 ELSE 0)
<1> DEFINE one == IF d = Latest(s) THEN 1 ELSE 0
<1>1. mem[s] \in Table /\ owed[s] \in Table /\ shard' = [shard EXCEPT ![s] = mem[s]]
  BY DEF CatalogTypeOK, WriteShard
<1>2. FilesOf(shard)[s] = Stored(s) /\ Stored(s) \in Table
  BY EmptyTable DEF FilesOf, Stored, CatalogTypeOK
<1>3. /\ Held(shard, d) \in Nat /\ Held(shard', d) \in Nat
      /\ Held(shard', d) + Rows(Stored(s)[d]) = Held(shard, d) + Rows(mem[s][d])
  <2>1. /\ shard' \in [Owners -> Table \union {Absent}] /\ shard'[s] = mem[s]
        /\ shard'[s] # Absent /\ \A w \in Owners \ {s} : shard'[w] = shard[w]
        /\ shard \in [Owners -> Table \union {Absent}]
    BY <1>1 DEF CatalogTypeOK
  <2>2. /\ Held(shard, d) \in Nat /\ Held(shard', d) \in Nat
        /\ Held(shard', d) + Rows(FilesOf(shard)[s][d]) = Held(shard, d) + Rows(shard'[s][d])
    BY <2>1, HeldUpdate
  <2> QED
    BY ONLY <1>2, <2>1, <2>2
<1>4. Rows(mem[s][d]) = Rows(Stored(s)[d]) + Rows(owed[s][d]) + one
  <2>1. PICK c \in Datasets :
          /\ IsLatest(mem[s], c)
          /\ \A e \in Datasets : Rows(mem[s][e]) = Rows(Stored(s)[e]) + Rows(owed[s][e])
                                                    + (IF e = c THEN 1 ELSE 0)
    BY DEF WriteShard, WriterInv
  <2>2. c = Latest(s)
    BY <2>1, LatestIsLatest DEF CatalogTypeOK, Past
  <2> QED
    BY <2>1, <2>2
<1>5. /\ Rows(Stored(s)[d]) \in Nat /\ Rows(mem[s][d]) \in Nat
      /\ Rows(owed[s][d]) \in Nat /\ one \in Nat
  BY <1>1, <1>2, TablesMerge
<1> HIDE DEF one
<1>6. Held(shard', d) = Held(shard, d) + Rows(owed[s][d]) + one
  <2> DEFINE h == Held(shard, d)
             k == Held(shard', d)
             x == Rows(Stored(s)[d])
             y == Rows(mem[s][d])
             z == Rows(owed[s][d])
  <2>1. {h, k, x, y, z, one} \subseteq Nat /\ k + x = h + y /\ y = x + z + one
    BY <1>3, <1>4, <1>5
  <2> HIDE DEF h, k, x, y, z
  <2>2. k = h + z + one
    BY ONLY <2>1
  <2> QED
    BY <2>2 DEF h, k, z
<1> QED
  BY <1>3, <1>5, <1>6 DEF one

\* As long as one writer at most has taken an old catalog for its own, the files
\* hold what has been recorded.
Counted == (\A v, w \in heirs : v = w) => \A d \in Datasets : Held(shard, d) = recorded[d]

\* Only the write of a shard changes either side, and both alike.
LEMMA CountedStep ==
    ASSUME CatalogTypeOK, Past, \A w \in Owners : WriterInv(w), Counted,
           [CatalogNext]_catalogVars
    PROVE  Counted'
<1> USE DEF CatalogTypeOK
<1>1. ASSUME NEW s \in Owners, WriteShard(s) PROVE Counted'
  <2> SUFFICES ASSUME \A v, w \in heirs' : v = w, NEW d \in Datasets
               PROVE  Held(shard', d) = recorded'[d]
    BY DEF Counted
  <2> DEFINE one == IF d = Latest(s) THEN 1 ELSE 0
  <2>1. /\ Held(shard, d) \in Nat /\ Rows(owed[s][d]) \in Nat
        /\ Held(shard', d) = Held(shard, d) + Rows(owed[s][d]) + one
    BY <1>1, HeldGrows
  <2>2. /\ recorded'[d] = recorded[d] + one + (IF heirs = {} THEN Rows(owed[s][d]) ELSE 0)
        /\ heirs' = IF owed[s] = Empty THEN heirs ELSE heirs \union {s}
    BY <1>1 DEF WriteShard
  <2>3. heirs \subseteq heirs' /\ Held(shard, d) = recorded[d]
    BY <2>2 DEF Counted
  <2>4. heirs # {} => owed[s] = Empty
    BY <2>2 DEF WriterInv
  <2>5. heirs # {} => Rows(owed[s][d]) = 0
    BY <2>4 DEF Rows, Empty
  <2> QED
    BY <2>1, <2>2, <2>3, <2>5
<1>2. CASE LoseMachine
  <2>1. /\ \A w \in Owners : shard'[w] = Absent
        /\ shard' \in [Owners -> Table \union {Absent}] /\ \A d \in Datasets : recorded'[d] = 0
    BY <1>2 DEF LoseMachine
  <2> QED
    BY <2>1, HeldByNobody DEF Counted
<1>3. CASE UNCHANGED <<shard, recorded, heirs>>
  BY <1>3 DEF Counted
<1> QED
  BY <1>1, <1>2, <1>3
  DEF CatalogNext, Write, Open, ReadShards, WriteMain, ReplaceMain, Die, Restore, Upsert,
      Backup, history, catalogVars

\* While one save is the only one under way, what it writes to the main file is
\* what the files hold.
Unrivalled ==
    \A s \in Owners : alone[s] =>
        /\ \A v \in Owners \ {s} : stage[v] = "idle"
        /\ stage[s] = "main" => \A d \in Datasets : Rows(view[s][d]) = Held(shard, d)
        /\ stage[s] = "replace" =>
              part # Absent /\ \A d \in Datasets : Rows(part[d]) = Held(shard, d)

\* Once its shard is written, a writer sees what all files hold.
LEMMA SeenIsHeld ==
    ASSUME CatalogTypeOK, Past, NEW s \in Owners, WriterInv(s),
           stage[s] = "merge", NEW d \in Datasets
    PROVE  Rows(AllShards(s)[d]) = Held(shard, d)
<1>1. Stored(s) = mem[s]
  BY DEF WriterInv, Stored, CatalogTypeOK
<1>2. /\ {Held(shard, d), Rows(mem[s][d]), Rows(AllShards(s)[d])} \subseteq Nat
      /\ Rows(AllShards(s)[d]) + Rows(mem[s][d]) = Held(shard, d) + Rows(mem[s][d])
  <2>1. now \in Nat /\ shard \in [Owners -> UpTo(now) \union {Absent}] /\ mem[s] \in UpTo(now)
    BY DEF CatalogTypeOK, Past
  <2>2. /\ {Held(shard, d), Rows(mem[s][d]), Rows(AllShards(s)[d])} \subseteq Nat
        /\ Rows(AllShards(s)[d]) + Rows(Stored(s)[d]) = Held(shard, d) + Rows(mem[s][d])
    BY <2>1, Seen
  <2> QED
    BY <1>1, <2>2
<1> DEFINE x == Rows(AllShards(s)[d])
           y == Rows(mem[s][d])
           h == Held(shard, d)
<1>3. {h, x, y} \subseteq Nat /\ x + y = h + y
  BY <1>2
<1> HIDE DEF x, y, h
<1>4. x = h
  BY <1>3
<1> QED
  BY <1>4 DEF x, h

\* Every step keeps it.
LEMMA UnrivalledStep ==
    ASSUME CatalogTypeOK, Past, \A w \in Owners : WriterInv(w), Unrivalled,
           [CatalogNext]_catalogVars
    PROVE  Unrivalled'
<1> USE DEF CatalogTypeOK
<1>1. ASSUME NEW s \in Owners, Open(s) \/ Restore(s) PROVE Unrivalled'
  BY <1>1 DEF Open, Restore, Unrivalled
<1>2. ASSUME NEW s \in Owners, WriteShard(s) PROVE Unrivalled'
  <2>1. stage[s] = "shard" /\ stage' = [stage EXCEPT ![s] = "merge"] /\ alone' = alone
    BY <1>2 DEF WriteShard, Goto
  <2>2. \A w \in Owners : alone[w] => w = s /\ \A v \in Owners \ {s} : stage[v] = "idle"
    BY <2>1 DEF Unrivalled
  <2> QED
    BY <2>1, <2>2 DEF Unrivalled
<1>3. ASSUME NEW s \in Owners, ReadShards(s) PROVE Unrivalled'
  <2>1. /\ stage[s] = "merge" /\ stage' = [stage EXCEPT ![s] = "main"] /\ alone' = alone
        /\ view' = [view EXCEPT ![s] = AllShards(s)] /\ shard' = shard
    BY <1>3 DEF ReadShards, Goto, history
  <2>2. \A w \in Owners : alone[w] => w = s /\ \A v \in Owners \ {s} : stage[v] = "idle"
    BY <2>1 DEF Unrivalled
  <2>3. \A d \in Datasets : Rows(view'[s][d]) = Held(shard, d)
    BY <2>1, SeenIsHeld
  <2> QED
    BY <2>1, <2>2, <2>3 DEF Unrivalled
<1>4. ASSUME NEW s \in Owners, WriteMain(s) PROVE Unrivalled'
  <2>1. /\ stage[s] = "main" /\ stage' = [stage EXCEPT ![s] = "replace"] /\ alone' = alone
        /\ part' = view[s] /\ shard' = shard
    BY <1>4 DEF WriteMain, Goto, history
  <2>2. \A w \in Owners : alone[w] => w = s /\ \A v \in Owners \ {s} : stage[v] = "idle"
    BY <2>1 DEF Unrivalled
  <2>3. part' # Absent
    BY <2>1
  <2>4. alone[s] => \A d \in Datasets : Rows(part'[d]) = Held(shard, d)
    BY <2>1 DEF Unrivalled
  <2> QED
    BY <2>1, <2>2, <2>3, <2>4 DEF Unrivalled
<1>5. ASSUME NEW s \in Owners, ReplaceMain(s) PROVE Unrivalled'
  <2>1. stage[s] = "replace" /\ stage' = [stage EXCEPT ![s] = "idle"] /\ alone' = alone
    BY <1>5 DEF ReplaceMain, Goto, history
  <2>2. \A w \in Owners : alone[w] => w = s /\ \A v \in Owners \ {s} : stage[v] = "idle"
    BY <2>1 DEF Unrivalled
  <2> QED
    BY <2>1, <2>2 DEF Unrivalled
<1>6. ASSUME NEW s \in Owners, Die(s) PROVE Unrivalled'
  BY <1>6 DEF Die, Goto, Unrivalled
<1>7. ASSUME NEW s \in Owners, NEW d \in Datasets, NEW a \in Homes \union {Absent},
             Upsert(s, d, a)
      PROVE  Unrivalled'
  <2>1. stage' = [stage EXCEPT ![s] = "shard"]
        /\ alone' = [w \in Owners |-> w = s /\ \A v \in Owners : stage[v] = "idle"]
    BY <1>7 DEF Upsert, Goto
  <2> QED
    BY <2>1 DEF Unrivalled
<1>8. CASE Backup \/ UNCHANGED catalogVars
  BY <1>8 DEF Backup, catalogVars, history, Unrivalled
<1>9. CASE LoseMachine
  BY <1>9 DEF LoseMachine, Unrivalled
<1> QED
  BY <1>1, <1>2, <1>3, <1>4, <1>5, <1>6, <1>7, <1>8, <1>9 DEF CatalogNext, Write

\* What any file of the catalog may claim: the rows the files sh hold and, until
\* a writer has taken them for its own, those of the old catalog.
Ceiling(sh, hs, d) == Held(sh, d) + IF hs = {} THEN Legacy ELSE 0
Within(t, sh, hs) == \A d \in Datasets : Rows(t[d]) <= Ceiling(sh, hs, d)

\* On the first machine no snapshot claims more; and as long as nobody has
\* saved, every snapshot is the old catalog.
Bounded ==
    losses = 0 =>
        /\ main = Absent \/ Within(main, shard, heirs)
        /\ part = Absent \/ Within(part, shard, heirs)
        /\ \A i \in DOMAIN copies : Within(copies[i], shard, heirs)
        /\ \A w \in Owners : stage[w] = "main" => Within(view[w], shard, heirs)
        /\ \A w \in Owners : owed[w] \in {Empty, OldCatalog}
        /\ Readable(Owners) = {} => /\ part = Absent
                                    /\ main \in {Absent, OldCatalog}
                                    /\ \A i \in DOMAIN copies : copies[i] = OldCatalog

LEMMA RowsOfOld ==
    ASSUME NEW d \in Datasets
    PROVE  Rows(OldCatalog[d]) = Legacy /\ Rows(Empty[d]) = 0
<1> DEFINE e == [rows |-> Legacy, account |-> Absent, at |-> 0]
<1>1. e \in Entry /\ e.rows = Legacy
  BY DEF Entry
<1>2. OldCatalog[d] = e
  BY DEF OldCatalog
<1> HIDE DEF e
<1> QED
  BY <1>1, <1>2 DEF Rows, Empty

\* The write of a shard never lowers that bound: the rows of an old catalog that
\* it stops allowing for are among those it writes.
LEMMA CeilingRises ==
    ASSUME CatalogTypeOK, Past, Bounded, losses = 0, NEW s \in Owners, WriterInv(s),
           WriteShard(s), NEW t \in Table, Within(t, shard, heirs)
    PROVE  Within(t, shard', heirs')
<1> SUFFICES ASSUME NEW d \in Datasets PROVE Rows(t[d]) <= Ceiling(shard', heirs', d)
  BY DEF Within
<1> DEFINE one == IF d = Latest(s) THEN 1 ELSE 0
           h == Held(shard, d)
           k == Held(shard', d)
           z == Rows(owed[s][d])
           r == Rows(t[d])
<1>1. h \in Nat /\ k \in Nat /\ z \in Nat /\ r \in Nat /\ one \in Nat /\ k = h + z + one
  BY HeldGrows, TablesMerge
<1>2. owed[s] # Empty => z = Legacy
  BY RowsOfOld DEF Bounded
<1>3. heirs' = IF owed[s] = Empty THEN heirs ELSE heirs \union {s}
  BY DEF WriteShard
<1>4. r <= h + (IF heirs = {} THEN Legacy ELSE 0)
  BY DEF Within, Ceiling
<1> HIDE DEF one, h, k, z, r
<1>5. heirs' = {} => heirs = {}
  BY <1>3
<1>6. heirs = {} /\ heirs' # {} => z = Legacy
  BY <1>2, <1>3
<1>7. r <= k + (IF heirs' = {} THEN Legacy ELSE 0)
  BY <1>1, <1>4, <1>5, <1>6
<1> QED
  BY <1>7 DEF Ceiling, k, r

\* Every step keeps the snapshots below the bound.
LEMMA BoundedStep ==
    ASSUME CatalogTypeOK, Past, \A w \in Owners : WriterInv(w), Bounded,
           [CatalogNext]_catalogVars
    PROVE  Bounded'
<1> USE DEF CatalogTypeOK
<1> SUFFICES ASSUME losses' = 0 PROVE Bounded'
  BY DEF Bounded
<1>0. losses = 0 /\ ~ LoseMachine
  BY DEF CatalogNext, Write, Open, WriteShard, ReadShards, WriteMain, ReplaceMain, Die,
         Restore, Upsert, Backup, LoseMachine, history, catalogVars
<1>1. ASSUME NEW s \in Owners, Open(s) PROVE Bounded'
  <2>1. UNCHANGED <<shard, main, part, stage, view, copies, heirs>>
        /\ owed' = [owed EXCEPT ![s] = IF Readable(Owners) = {} THEN Source(s) ELSE @]
    BY <1>1 DEF Open
  <2>2. Readable(Owners) = {} => Source(s) \in {Empty, OldCatalog}
    BY <1>0 DEF Bounded, Source, Readable
  <2> QED
    BY <1>0, <2>1, <2>2 DEF Bounded, Readable
<1>2. ASSUME NEW s \in Owners, WriteShard(s) PROVE Bounded'
  <2>1. /\ UNCHANGED <<main, part, view, copies>> /\ shard' = [shard EXCEPT ![s] = mem[s]]
        /\ owed' = [owed EXCEPT ![s] = Empty] /\ stage' = [stage EXCEPT ![s] = "merge"]
    BY <1>2 DEF WriteShard, Goto
  <2>2. Readable(Owners)' # {}
    BY <2>1 DEF Readable
  <2>3. \A t \in Table : Within(t, shard, heirs) => Within(t, shard', heirs')
    BY <1>0, <1>2, CeilingRises
  <2>4. \A i \in DOMAIN copies : copies[i] \in Table
    OBVIOUS
  <2>5. main \in Table \union {Absent} /\ part \in Table \union {Absent}
        /\ \A w \in Owners : view[w] \in Table
    OBVIOUS
  <2> QED
    BY <1>0, <2>1, <2>2, <2>3, <2>4, <2>5 DEF Bounded
<1>3. ASSUME NEW s \in Owners, ReadShards(s) PROVE Bounded'
  <2>1. /\ UNCHANGED <<shard, main, part, copies, heirs, owed>> /\ stage[s] = "merge"
        /\ view' = [view EXCEPT ![s] = AllShards(s)] /\ stage' = [stage EXCEPT ![s] = "main"]
    BY <1>3 DEF ReadShards, Goto, history
  <2>2. Within(view'[s], shard, heirs)
    <3> SUFFICES ASSUME NEW d \in Datasets
                 PROVE  Rows(AllShards(s)[d]) <= Ceiling(shard, heirs, d)
      BY <2>1 DEF Within
    <3>1. Rows(AllShards(s)[d]) = Held(shard, d)
      BY <2>1, SeenIsHeld
    <3>2. Held(shard, d) \in Nat
      BY Seen DEF Past
    <3> QED
      BY <3>1, <3>2 DEF Ceiling
  <2> QED
    BY <1>0, <2>1, <2>2 DEF Bounded, Readable
<1>4. ASSUME NEW s \in Owners, WriteMain(s) PROVE Bounded'
  <2>1. /\ UNCHANGED <<shard, main, copies, heirs, owed, view>> /\ stage[s] = "main"
        /\ part' = view[s] /\ stage' = [stage EXCEPT ![s] = "replace"]
    BY <1>4 DEF WriteMain, Goto, history
  <2>2. shard[s] # Absent
    BY <2>1 DEF WriterInv
  <2> QED
    BY <1>0, <2>1, <2>2 DEF Bounded, Readable
<1>5. ASSUME NEW s \in Owners, ReplaceMain(s) PROVE Bounded'
  <2>1. /\ UNCHANGED <<shard, copies, heirs, owed, view>> /\ stage[s] = "replace"
        /\ main' \in {main, part} /\ (main' = part => part # Absent \/ main = Absent)
        /\ part' = Absent /\ stage' = [stage EXCEPT ![s] = "idle"]
    BY <1>5 DEF ReplaceMain, Goto, history
  <2>2. shard[s] # Absent
    BY <2>1 DEF WriterInv
  <2> QED
    BY <1>0, <2>1, <2>2 DEF Bounded, Readable
<1>6. ASSUME NEW s \in Owners, Die(s) PROVE Bounded'
  BY <1>0, <1>6 DEF Die, Goto, Bounded, Readable
<1>7. ASSUME NEW s \in Owners, Restore(s) PROVE Bounded'
  <2>1. PICK i \in DOMAIN copies :
          /\ main' = copies[i]
          /\ owed' = [owed EXCEPT ![s] = IF Readable(Owners) = {} THEN copies[i] ELSE Empty]
    BY <1>7 DEF Restore
  <2>2. UNCHANGED <<shard, part, stage, view, copies, heirs>>
    BY <1>7 DEF Restore
  <2> QED
    BY <1>0, <2>1, <2>2 DEF Bounded, Readable
<1>8. ASSUME NEW s \in Owners, NEW d \in Datasets, NEW a \in Homes \union {Absent},
             Upsert(s, d, a)
      PROVE  Bounded'
  BY <1>0, <1>8 DEF Upsert, Goto, Bounded, Readable
<1>9. CASE Backup
  <2>1. UNCHANGED <<shard, main, part, stage, view, heirs, owed>>
        /\ main # Absent /\ copies' = Append(copies, main)
    BY <1>9 DEF Backup, history
  <2>2. \A i \in DOMAIN copies' :
           copies'[i] = main \/ (i \in DOMAIN copies /\ copies'[i] = copies[i])
    BY <2>1
  <2> QED
    BY <1>0, <2>1, <2>2 DEF Bounded, Readable
<1>10. CASE UNCHANGED catalogVars
  BY <1>0, <1>10 DEF catalogVars, Bounded, Readable
<1> QED
  BY <1>0, <1>1, <1>2, <1>3, <1>4, <1>5, <1>6, <1>7, <1>8, <1>9, <1>10
  DEF CatalogNext, Write

-----------------------------------------------------------------------------
(* The catalog: every row once *)

CatalogInv ==
    /\ CatalogTypeOK /\ Past
    /\ \A w \in Owners : WriterInv(w)
    /\ Counted /\ Bounded /\ Unrivalled

LEMMA CatalogInitInv == CatalogInit => CatalogInv
<1> SUFFICES ASSUME CatalogInit PROVE CatalogInv
  OBVIOUS
<1>1. CatalogTypeOK /\ Past
  BY CatalogInitPast
<1>2. \A w \in Owners : WriterInv(w)
  BY DEF CatalogInit, WriterInv
<1>3. \A d \in Datasets : Held(shard, d) = 0
  BY <1>1, HeldByNobody DEF CatalogInit, CatalogTypeOK
<1>4. Counted /\ Unrivalled
  BY <1>3 DEF CatalogInit, Counted, Unrivalled
<1>5. Within(OldCatalog, shard, heirs)
  BY <1>3, RowsOfOld DEF Within, Ceiling, CatalogInit
<1>6. Bounded
  BY <1>5 DEF CatalogInit, Bounded
<1> QED
  BY <1>1, <1>2, <1>4, <1>6 DEF CatalogInv

LEMMA CatalogStepInv == CatalogInv /\ [CatalogNext]_catalogVars => CatalogInv'
BY CatalogStepPast, WriterStep, CountedStep, BoundedStep, UnrivalledStep DEF CatalogInv

LEMMA CatalogHoldsInv == CatalogSpec => []CatalogInv
BY CatalogInitInv, CatalogStepInv, PTL DEF CatalogSpec

\* One heir at most, said without counting.
LEMMA OneHeirAtMost ==
    ASSUME CatalogTypeOK, OneHeir
    PROVE  \A v, w \in heirs : v = w
<1> DEFINE S == heirs \union {w \in Owners : owed[w] # Empty}
<1>1. IsFiniteSet(Owners)
  BY FS_Interval DEF Owners
<1>2. IsFiniteSet(S) /\ heirs \subseteq S
  BY <1>1, FS_Subset DEF CatalogTypeOK
<1>3. Cardinality(S) \in Nat /\ Cardinality(S) <= 1
  BY <1>2, FS_CardinalityType DEF OneHeir
<1> HIDE DEF S
<1>4. CASE Cardinality(S) = 0
  BY <1>2, <1>4, FS_EmptySet
<1>5. CASE Cardinality(S) = 1
  BY <1>2, <1>5, FS_Singleton
<1> QED
  BY <1>3, <1>4, <1>5

\* load_all_shards has each recorded row once, and what its writer took from
\* an old catalog and has not saved, for any number of writers, datasets and
\* accounts, with kills and lost machines, as long as one writer at most has taken
\* an old or a restored catalog for its own.
THEOREM MergesAgree == CatalogSpec => []MergedViewsAgree
<1>1. ASSUME CatalogInv PROVE MergedViewsAgree
  <2> SUFFICES ASSUME NEW s \in Owners, NEW d \in Datasets, Reader(s), OneHeir
               PROVE  Rows(AllShards(s)[d]) = recorded[d] + Rows(owed[s][d])
    BY DEF MergedViewsAgree
  <2> DEFINE x == Rows(AllShards(s)[d])
             y == Rows(Stored(s)[d])
             z == Rows(owed[s][d])
             m == Rows(mem[s][d])
             h == Held(shard, d)
  <2>1. {h, y, m, x} \subseteq Nat /\ x + y = h + m
    BY <1>1, Seen DEF CatalogInv, CatalogTypeOK, Past
  <2>2. m = y + z
    BY <1>1 DEF CatalogInv, WriterInv, Reader
  <2>3. h = recorded[d]
    BY <1>1, OneHeirAtMost DEF CatalogInv, Counted
  <2>4. z \in Nat
    BY <1>1, TablesMerge DEF CatalogInv, CatalogTypeOK
  <2> HIDE DEF x, y, z, m, h
  <2>5. x = h + z
    BY ONLY <2>1, <2>2, <2>4
  <2> QED
    BY <2>3, <2>5 DEF x, z
<1> QED
  BY <1>1, CatalogHoldsInv, PTL

\* On the first machine the main file, which all writers replace, never claims
\* rows that nobody recorded, whatever order they read, write and replace it in.
THEOREM MainUndercounts == CatalogSpec => []MainNeverOvercounts
<1>1. ASSUME CatalogInv PROVE MainNeverOvercounts
  <2>1. CatalogTypeOK
    BY <1>1 DEF CatalogInv
  <2>2. ASSUME losses = 0, main # Absent, OneHeir, NEW d \in Datasets
        PROVE  Rows(main[d]) <= recorded[d] + (IF heirs = {} THEN Legacy ELSE 0)
    <3>1. Rows(main[d]) <= Held(shard, d) + (IF heirs = {} THEN Legacy ELSE 0)
      BY <1>1, <2>2 DEF CatalogInv, Bounded, Within, Ceiling
    <3>2. Held(shard, d) = recorded[d]
      BY <1>1, <2>2, OneHeirAtMost DEF CatalogInv, Counted
    <3> QED
      BY <3>1, <3>2
  <2> QED
    BY <2>1, <2>2 DEF MainNeverOvercounts
<1> QED
  BY <1>1, CatalogHoldsInv, PTL

\* A save that no other save overlaps leaves a main file that has every recorded
\* row, whatever earlier saves did to it.
THEOREM SaveRepairsMain == CatalogSpec => MainRepaired
<1> DEFINE A == \A s \in Owners : stage[s] = "replace" /\ stage'[s] = "idle" /\ alone[s]
                   /\ deaths' = deaths /\ losses' = losses /\ OneHeir
                   => \A d \in Datasets : Rows(main'[d]) = recorded[d]
<1>1. ASSUME CatalogInv, [CatalogNext]_catalogVars PROVE [A]_catalogVars
  <2> SUFFICES ASSUME NEW s \in Owners, stage[s] = "replace", stage'[s] = "idle", alone[s],
                      deaths' = deaths, losses' = losses, OneHeir, NEW d \in Datasets
               PROVE  Rows(main'[d]) = recorded[d]
    OBVIOUS
  <2>1. CatalogTypeOK
    BY <1>1 DEF CatalogInv
  <2>2. ReplaceMain(s)
    BY <1>1, <2>1
    DEF CatalogTypeOK, CatalogNext, Write, Open, WriteShard, ReadShards, WriteMain,
        ReplaceMain, Die, Restore, Upsert, Backup, LoseMachine, Goto, history, catalogVars
  <2>3. part # Absent /\ Rows(part[d]) = Held(shard, d)
    BY <1>1 DEF CatalogInv, Unrivalled
  <2>4. Held(shard, d) = recorded[d]
    BY <1>1, <2>1, OneHeirAtMost DEF CatalogInv, Counted
  <2> QED
    BY <2>2, <2>3, <2>4 DEF ReplaceMain
<1> QED
  BY <1>1, CatalogHoldsInv, PTL DEF CatalogSpec, MainRepaired
================================================================================
