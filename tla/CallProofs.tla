------------------------------ MODULE CallProofs ------------------------------
(***************************************************************************)
(* Theorems about one call of BackupService at a time: what its status     *)
(* tells, what it restores, and what becomes of its files.                 *)
(***************************************************************************)
EXTENDS BackupServiceProofs

\* The call has stored nothing and has not touched the database, now or later.
Unsaved(c) ==
    /\ c \notin txn \cup committed
    /\ copy[c] = 0 /\ \A g \in ghosts : g.call # c

Refusals == {"ABORTED", "FAILED_PRECONDITION", "NOT_FOUND", "INVALID_ARGUMENT"}

\* How far a call has come, what it has done by then and what it answers.
StatusOk(c) ==
    /\ pc[c] \notin AfterDump \/ pc[c] = "upload" => Unsaved(c)
    /\ pc[c] # "done" => result[c] = "none"
    /\ pc[c] \in {"list", "delete"} => op[c] = "create"
    /\ pc[c] \in {"decompress", "stream"} => op[c] = "download"
    /\ op[c] = "restore" /\ result[c] = "OK" => c \in committed
    /\ result[c] \in Refusals => Unsaved(c)

Overwrites(c) == c \in txn \cup committed

\* What a restore knows of the backup it was asked for, from the moment it
\* found it, and of its content, from the moment it has it.
AskedOk(c) ==
    /\ info[c].id < next_id
    /\ (op[c] = "restore" /\ pc[c] \in {"fetch", "dump", "upload"}) \/ Overwrites(c) =>
         /\ info[c].format = "pg_custom"
         /\ IF target[c] = 0 THEN info[c].kind = "regular" ELSE info[c].id = target[c]
    /\ (op[c] = "restore" /\ pc[c] \in {"dump", "upload"}) \/ Overwrites(c) =>
         \A f \in files : f.id = info[c].id => f.content = fetched[c]

\* Where a call's temporary files may be.
FilesOk(c) ==
    /\ \A t \in temp : t[1] = c =>
         \/ Live(c) \/ result[c] = "LOST"
         \/ result[c] = "CANCELLED" /\ t[2] # "dump"
    /\ \A t \in pool : t[1] = c => result[c] = "CANCELLED" /\ t[2] # "dump"

CallOk(c) == StatusOk(c) /\ AskedOk(c) /\ FilesOk(c)

CallInv == \A c \in Calls : CallOk(c)

----------------------------------------------------------------------------
\* The step is one of the calls in S: the other calls stay where they are,
\* ghosts and transactions are theirs, and so are the files.
StepOf(S) ==
    /\ \A d \in Calls \ S :
         /\ pc'[d] = pc[d] /\ op'[d] = op[d] /\ result'[d] = result[d]
         /\ copy'[d] = copy[d] /\ info'[d] = info[d]
         /\ target'[d] = target[d] /\ fetched'[d] = fetched[d]
         /\ d \in txn' \cup committed' => d \in txn \cup committed
         /\ d \in committed => d \in committed'
         /\ \A g \in ghosts' : g.call = d => g \in ghosts
    /\ \A t \in temp' : t \in temp \/ t \in pool \/ t[1] \in S
    /\ \A t \in pool' : t \in pool \/ t[1] \in S

\* Drive gives a new file a new id.
DriveStep ==
    /\ next_id' \in Nat /\ next_id' >= next_id
    /\ \A f \in files' : f \in files \/ f.id = next_id

\* What Drive adds is not the backup a call was asked for.
LEMMA AskedFile ==
    ASSUME TypeOK, NEW c \in Calls, AskedOk(c), DriveStep
    PROVE  /\ info[c].id < next_id'
           /\ \A f \in files' : f.id = info[c].id => f \in files
<1>1. info[c].id \in Nat /\ next_id \in Nat /\ next_id' \in Nat
  BY DEF TypeOK, BackupInfo, DriveStep
<1>2. info[c].id < next_id
  BY DEF AskedOk
<1>. QED  BY <1>1, <1>2 DEF DriveStep

\* Drive takes in an upload.
LEMMA UploadStep ==
    ASSUME TypeOK, NEW kind, NEW content, next_id' = next_id + 1,
           files' = files \cup {UploadMetadata(kind, content, next_id)}
    PROVE  DriveStep
<1>1. UploadMetadata(kind, content, next_id).id = next_id
  BY DEF UploadMetadata
<1>2. next_id \in Nat
  BY DEF TypeOK
<1>. QED  BY <1>1, <1>2 DEF DriveStep

\* Uploads that are left to Drive belong to the calls that left them.
LEMMA AbandonedBy ==
    ASSUME NEW gone, Abandon(gone), NEW g \in ghosts'
    PROVE  g \in ghosts \/ g.call \in gone
<1>1. \A c : Ghost(c).call = c
  BY DEF Ghost
<1>. QED  BY <1>1 DEF Abandon

\* What holds of a call survives the steps of others.
LEMMA OtherCalls ==
    ASSUME TypeOK, CallInv, NEW S \in SUBSET Calls, StepOf(S), DriveStep,
           \A c \in S : CallOk(c)'
    PROVE  CallInv'
<1>1. ASSUME NEW d \in Calls \ S PROVE CallOk(d)'
  <2>1. StatusOk(d) /\ AskedOk(d) /\ FilesOk(d)
    BY DEF CallInv, CallOk
  <2>2. StatusOk(d)'
    BY <2>1 DEF StepOf, StatusOk, Unsaved
  <2>3. AskedOk(d)'
    <3>1. Overwrites(d)' => Overwrites(d)
      BY DEF StepOf, Overwrites
    <3>2. /\ info[d].id < next_id'
          /\ \A f \in files' : f.id = info[d].id => f \in files
      BY <2>1, AskedFile
    <3>. QED  BY <2>1, <3>1, <3>2 DEF StepOf, AskedOk
  <2>4. FilesOk(d)'
    BY <2>1 DEF StepOf, FilesOk, Live
  <2>. QED  BY <2>2, <2>3, <2>4 DEF CallOk
<1>. QED  BY <1>1 DEF CallInv

\* A call that has not ended has left no file creation behind.
LEMMA NothingPending ==
    ASSUME CallInv, NEW c \in Calls, pc[c] # "done", NEW t \in pool
    PROVE  t[1] # c
  BY DEF CallInv, CallOk, StatusOk, FilesOk

\* A way out of a call that leaves Drive's ids and the database alone: its
\* files are gone, and what it answers has to be true.
LEMMA ReturnCall ==
    ASSUME TypeOK, CallInv, NEW c \in Calls, NEW status \in Statuses,
           pc[c] # "done", Return(c, status),
           UNCHANGED <<info, fetched, txn, committed, copy, pool>>,
           \A d \in Calls \ {c} : op'[d] = op[d] /\ target'[d] = target[d],
           pc[c] = "idle" \/ (op'[c] = op[c] /\ target'[c] = target[c]),
           \A g \in ghosts' : g \in ghosts \/ g.call = c,
           DriveStep,
           op'[c] = "restore" /\ status = "OK" => c \in committed,
           status \in Refusals => Unsaved(c)'
    PROVE  CallInv'
<1>1. StepOf({c})
  BY DEF TypeOK, Return, StepOf
<1>2. StatusOk(c)'
  BY DEF TypeOK, Return, StatusOk, AfterDump
<1>3. AskedOk(c)'
  <2>1. AskedOk(c) /\ StatusOk(c)
    BY DEF CallInv, CallOk
  <2>2. pc'[c] = "done"
    BY DEF TypeOK, Return
  <2>3. Overwrites(c)' => Overwrites(c)
    BY DEF Overwrites
  <2>4. /\ info[c].id < next_id'
        /\ \A f \in files' : f.id = info[c].id => f \in files
    BY <2>1, AskedFile
  <2>5. pc[c] = "idle" => ~Overwrites(c)
    BY <2>1 DEF StatusOk, Unsaved, Overwrites, AfterDump
  <2>. QED  BY <2>1, <2>2, <2>3, <2>4, <2>5 DEF AskedOk
<1>4. FilesOk(c)'
  <2>1. \A t \in temp' : t[1] # c
    BY DEF Return
  <2>2. \A t \in pool' : t[1] # c
    BY NothingPending
  <2>. QED  BY <2>1, <2>2 DEF FilesOk
<1>5. {c} \in SUBSET Calls
  OBVIOUS
<1>. QED  BY <1>1, <1>2, <1>3, <1>4, <1>5, OtherCalls DEF CallOk

\* A call that has not ended and goes on: it may have more files than before.
LEMMA FilesOn ==
    ASSUME CallInv, NEW c \in Calls, pc[c] # "done", pc'[c] \in Awaits, pool' = pool
    PROVE  FilesOk(c)'
<1>1. \A t \in pool' : t[1] # c
  BY NothingPending
<1>. QED  BY <1>1 DEF FilesOk, Live

\* Before its copy is stored a call that fails has stored nothing, and may
\* answer with any error.
LEMMA FailCall ==
    ASSUME TypeOK, CallInv, NEW c \in Calls, NEW err \in Errors,
           pc[c] \notin AfterDump, Fail(c, err),
           UNCHANGED <<info, fetched, copy, pool, files, next_id, ghosts, txn, committed>>,
           \A d \in Calls \ {c} : op'[d] = op[d] /\ target'[d] = target[d],
           pc[c] = "idle" \/ (op'[c] = op[c] /\ target'[c] = target[c])
    PROVE  CallInv'
<1>1. ToStatus(err) \in Statuses /\ ToStatus(err) # "OK"
  BY DEF Errors, ToStatus, Statuses
<1>2. Return(c, ToStatus(err))
  BY DEF Fail
<1>n. next_id \in Nat
  BY DEF TypeOK
<1>3. DriveStep
  BY <1>n DEF DriveStep
<1>4. Unsaved(c)'
  BY DEF CallInv, CallOk, StatusOk, Unsaved
<1>. QED  BY <1>1, <1>2, <1>3, <1>4, ReturnCall DEF AfterDump

\* The same for a request that is turned down as it comes in.
LEMMA FailAtOnce ==
    ASSUME TypeOK, CallInv, NEW c \in Calls, NEW err \in Errors, NEW rpc, NEW id,
           pc[c] = "idle", Request(c, rpc, id), Fail(c, err),
           UNCHANGED <<pool, files, next_id, ghosts, txn, committed>>
    PROVE  CallInv'
<1>1. \A d \in Calls \ {c} : op'[d] = op[d] /\ target'[d] = target[d]
  BY DEF Request, TypeOK
<1>2. UNCHANGED <<info, fetched, copy>>
  BY DEF Request, fetchVars, dumpVars
<1>3. pc[c] \notin AfterDump
  BY DEF AfterDump
<1>. QED  BY <1>1, <1>2, <1>3, FailCall

\* The same after an await.
LEMMA FailAfterAwait ==
    ASSUME TypeOK, CallInv, NEW c \in Calls, NEW err \in Errors,
           pc[c] \notin AfterDump, Fail(c, err),
           UNCHANGED <<op, target, info, fetched, copy, pool, files, next_id, ghosts,
                       txn, committed>>
    PROVE  CallInv'
  BY FailCall

\* Retention runs for a CreateBackup whose dump is stored: what it does next
\* is of no concern to the other calls.
LEMMA RetentionReturn ==
    ASSUME TypeOK, CallInv, NEW c \in Calls, pc[c] \in {"list", "delete"},
           op[c] = "create", Return(c, "OK"), files' \subseteq files,
           UNCHANGED <<op, target, info, fetched, copy, pool, next_id, ghosts, txn, committed>>
    PROVE  CallInv'
<1>1. DriveStep
  BY DEF TypeOK, DriveStep
<1>. QED  BY <1>1, ReturnCall DEF Statuses, Refusals

\* The same when it goes on.
LEMMA RetentionAwait ==
    ASSUME TypeOK, CallInv, NEW c \in Calls, NEW step \in {"list", "delete"},
           pc[c] \in {"list", "delete"}, op[c] = "create", Await(c, step), files' \subseteq files,
           UNCHANGED <<op, target, info, fetched, copy, pool, next_id, ghosts, txn, committed, temp>>
    PROVE  CallInv'
<1>1. StepOf({c}) /\ DriveStep
  BY DEF TypeOK, Await, StepOf, DriveStep
<1>2. StatusOk(c) /\ AskedOk(c) /\ {c} \in SUBSET Calls
  BY DEF CallInv, CallOk
<1>3. StatusOk(c)'
  BY <1>2 DEF TypeOK, Await, StatusOk, AfterDump, Unsaved
<1>4. AskedOk(c)'
  BY <1>2 DEF TypeOK, Await, AskedOk, Overwrites
<1>5. FilesOk(c)'
  BY FilesOn DEF TypeOK, Await, Awaits
<1>. QED  BY <1>1, <1>2, <1>3, <1>4, <1>5, OtherCalls DEF CallOk

\* Steps of Drive, the database and the blocking pool move no call.
LEMMA NoCallMoves ==
    ASSUME TypeOK, CallInv, StepOf({}), DriveStep
    PROVE  CallInv'
<1>1. {} \in SUBSET Calls
  OBVIOUS
<1>. QED  BY <1>1, OtherCalls

\* Where a target leads: to a backup of that id, or for `latest' to one that
\* is not a pre-restore copy.
LEMMA ResolvedAsked ==
    ASSUME TypeOK, NEW id \in Nat, NEW f \in Resolved(id)
    PROVE  IF id = 0 THEN ToBackupInfo(f).kind = "regular" ELSE ToBackupInfo(f).id = id
<1>1. CASE id # 0
  BY <1>1 DEF Resolved, ToBackupInfo
<1>2. CASE id = 0
  <2>1. f \in files /\ f.kind # "pre_restore" /\ IsBackup(f)
    BY <1>2 DEF Resolved, LatestHits, LatestQuery, FolderQuery, First
  <2>. QED  BY <1>2, <2>1 DEF TypeOK, DriveFiles, IsBackup, ToBackupInfo, ParseKind, Kinds
<1>. QED  BY <1>1, <1>2

\* No step breaks CallInv.
LEMMA CallStep ==
    ASSUME TypeOK, SafetyInv, CallInv, [Next]_vars
    PROVE  CallInv'
<1>. USE DEF callVars, locals, fetchVars, dumpVars, scanVars, driveVars, dbVars
<1>0. \A c \in Calls : /\ StatusOk(c) /\ AskedOk(c) /\ FilesOk(c)
                       /\ {c} \in SUBSET Calls
                       /\ info[c].id \in Nat /\ next_id \in Nat
  BY DEF CallInv, CallOk, TypeOK, BackupInfo
<1>s. UNCHANGED <<files, next_id>> => DriveStep
  BY DEF TypeOK, DriveStep
<1>1. ASSUME NEW c \in Calls, CreateBackup(c) PROVE CallInv'
  <2>1. CASE \E err \in {"Busy", "Io"} : Fail(c, err)
    BY <1>1, <2>1, FailAtOnce DEF CreateBackup, Errors
  <2>2. CASE BeginDump(c)
    <3>1. StepOf({c}) /\ DriveStep
      <4>1. DriveStep
        BY <1>1, <2>2, <1>s DEF CreateBackup, Request, BeginDump
      <4>2. StepOf({c})
        BY <1>1, <2>2 DEF CreateBackup, Request, BeginDump, TypeOK, StepOf
      <4>3. QED
        BY <4>1, <4>2
    <3>2. StatusOk(c)'
      BY <1>1, <2>2, <1>0 DEF CreateBackup, Request, BeginDump, TypeOK, StatusOk, Unsaved, AfterDump
    <3>3. AskedOk(c)'
      BY <1>1, <2>2, <1>0 DEF CreateBackup, Request, BeginDump, TypeOK, AskedOk, Overwrites, StatusOk, Unsaved, AfterDump
    <3>4. FilesOk(c)'
      BY <1>1, <2>2, FilesOn DEF CreateBackup, BeginDump, TypeOK, Awaits
    <3>. QED  BY <1>0, <3>1, <3>2, <3>3, <3>4, OtherCalls DEF CallOk
  <2>. QED  BY <1>1, <2>1, <2>2 DEF CreateBackup
<1>2. ASSUME NEW c \in Calls, NEW id \in Targets, NEW ok \in BOOLEAN, Restore(c, id, ok) PROVE CallInv'
  <2>1. CASE \E err \in {"Busy", "FailedPrecondition"} : Fail(c, err)
    BY <1>2, <2>1, FailAtOnce DEF Restore, Errors
  <2>2. CASE pc' = [pc EXCEPT ![c] = "resolve"] /\ UNCHANGED <<result, temp>>
    <3>1. StepOf({c}) /\ DriveStep
      BY <1>2, <2>2, <1>s DEF Restore, Request, TypeOK, StepOf
    <3>2. StatusOk(c)'
      BY <1>2, <2>2, <1>0 DEF Restore, Request, TypeOK, StatusOk, Unsaved, AfterDump
    <3>3. AskedOk(c)'
      BY <1>2, <2>2, <1>0 DEF Restore, Request, TypeOK, AskedOk, Overwrites, StatusOk, Unsaved, AfterDump
    <3>4. FilesOk(c)'
      BY <1>2, <2>2, FilesOn DEF Restore, TypeOK, Awaits
    <3>. QED  BY <1>0, <3>1, <3>2, <3>3, <3>4, OtherCalls DEF CallOk
  <2>. QED  BY <1>2, <2>1, <2>2 DEF Restore
<1>3. ASSUME NEW c \in Calls, NEW id \in Targets, DownloadBackup(c, id) PROVE CallInv'
  <2>1. StepOf({c}) /\ DriveStep
    BY <1>3, <1>s DEF DownloadBackup, Request, Await, TypeOK, StepOf
  <2>2. StatusOk(c)'
    BY <1>3, <1>0 DEF DownloadBackup, Request, Await, TypeOK, StatusOk, Unsaved, AfterDump
  <2>3. AskedOk(c)'
    BY <1>3, <1>0 DEF DownloadBackup, Request, Await, TypeOK, AskedOk, Overwrites, StatusOk, Unsaved, AfterDump
  <2>4. FilesOk(c)'
    BY <1>3, FilesOn DEF DownloadBackup, Await, TypeOK, Awaits
  <2>. QED  BY <1>0, <2>1, <2>2, <2>3, <2>4, OtherCalls DEF CallOk
<1>4. ASSUME NEW c \in Calls, RejectTarget(c) PROVE CallInv'
  BY <1>4, FailAtOnce DEF RejectTarget, Errors
<1>5. ASSUME NEW c \in Calls, ResolveOk(c) PROVE CallInv'
  <2>1. PICK f \in Resolved(target[c]) :
          IF op[c] = "restore" /\ ToBackupInfo(f).format # "pg_custom"
          THEN Fail(c, "FailedPrecondition") /\ UNCHANGED info
          ELSE /\ info' = [info EXCEPT ![c] = ToBackupInfo(f)]
               /\ temp' = temp \cup {<<c, "fetched">>}
               /\ Await(c, "fetch")
    BY <1>5 DEF ResolveOk
  <2>2. CASE Fail(c, "FailedPrecondition") /\ UNCHANGED info
    BY <1>5, <2>2, FailAfterAwait DEF ResolveOk, Errors, AfterDump
  <2>3. CASE /\ ~(op[c] = "restore" /\ ToBackupInfo(f).format # "pg_custom")
             /\ info' = [info EXCEPT ![c] = ToBackupInfo(f)]
             /\ temp' = temp \cup {<<c, "fetched">>}
             /\ Await(c, "fetch")
    <3>1. StepOf({c}) /\ DriveStep
      BY <1>5, <2>3, <1>s DEF ResolveOk, Await, TypeOK, StepOf
    <3>2. StatusOk(c)'
      BY <1>5, <2>3, <1>0 DEF ResolveOk, Await, TypeOK, StatusOk, Unsaved, AfterDump
    <3>3. f \in files /\ ToBackupInfo(f).id = f.id
      BY <2>1, ResolvedType DEF TypeOK, ToBackupInfo
    <3>4. ToBackupInfo(f).id < next_id
      BY <3>3 DEF SafetyInv, IdsOrdered
    <3>5. IF target[c] = 0 THEN ToBackupInfo(f).kind = "regular" ELSE ToBackupInfo(f).id = target[c]
      BY <2>1, ResolvedAsked DEF TypeOK
    <3>6. info'[c] = ToBackupInfo(f) /\ UNCHANGED <<target, next_id, txn, committed, op>> /\ pc'[c] = "fetch"
      BY <1>5, <2>3 DEF ResolveOk, Await, TypeOK
    <3>7. ~Overwrites(c)
      BY <1>5, <1>0 DEF ResolveOk, StatusOk, Unsaved, Overwrites, AfterDump
    <3>8. AskedOk(c)'
      BY <2>3, <3>4, <3>5, <3>6, <3>7 DEF AskedOk, Overwrites
    <3>9. FilesOk(c)'
      BY <1>5, <2>3, FilesOn DEF ResolveOk, Await, TypeOK, Awaits
    <3>. QED  BY <1>0, <3>1, <3>2, <3>8, <3>9, OtherCalls DEF CallOk
  <2>. QED  BY <2>1, <2>2, <2>3
<1>6. ASSUME NEW c \in Calls, ResolveFail(c) PROVE CallInv'
  BY <1>6, FailAfterAwait, ResolveErrorType DEF ResolveFail, AfterDump, StorageErrors, Errors
<1>7. ASSUME NEW c \in Calls, FetchOk(c) PROVE CallInv'
  <2>1. PICK f \in files : f.id = info[c].id /\ fetched' = [fetched EXCEPT ![c] = f.content]
    BY <1>7 DEF FetchOk
  <2>2. \A g \in files : g.id = info[c].id => g = f
    BY <2>1 DEF SafetyInv, IdsOrdered
  <2>3. /\ pc'[c] \in {"dump", "stream", "decompress"}
        /\ pc'[c] # "dump" => op[c] = "download"
        /\ \A d \in Calls \ {c} : pc'[d] = pc[d]
        /\ \A t \in temp' : t \in temp \/ t[1] = c
        /\ result' = result
    <3>1. CASE op[c] = "restore" /\ BeginDump(c)
      BY <3>1 DEF BeginDump, TypeOK
    <3>2. CASE op[c] = "download" /\ Await(c, "stream") /\ UNCHANGED temp
      BY <3>2 DEF Await, TypeOK
    <3>3. CASE /\ op[c] = "download" /\ Await(c, "decompress")
               /\ temp' = temp \cup {<<c, "json">>}
      BY <3>3 DEF Await, TypeOK
    <3>. QED  BY <1>7, <3>1, <3>2, <3>3 DEF FetchOk
  <2>4. StepOf({c}) /\ DriveStep
    BY <1>7, <2>1, <2>3, <1>s DEF FetchOk, TypeOK, StepOf
  <2>5. StatusOk(c)'
    BY <1>7, <2>3, <1>0 DEF FetchOk, StatusOk, Unsaved, AfterDump
  <2>6. ~Overwrites(c) /\ ~Overwrites(c)'
    BY <1>7, <1>0 DEF FetchOk, StatusOk, Unsaved, Overwrites, AfterDump
  <2>7. fetched'[c] = f.content
    BY <2>1 DEF TypeOK
  <2>8. AskedOk(c)'
    BY <1>7, <1>0, <2>2, <2>3, <2>6, <2>7 DEF FetchOk, AskedOk
  <2>9. FilesOk(c)'
    BY <1>7, <2>3, FilesOn DEF FetchOk, Awaits
  <2>. QED  BY <1>0, <2>4, <2>5, <2>8, <2>9, OtherCalls DEF CallOk
<1>8. ASSUME NEW c \in Calls, FetchFail(c) PROVE CallInv'
  BY <1>8, FailAfterAwait DEF FetchFail, AfterDump, StorageErrors, Errors
<1>9. ASSUME NEW c \in Calls, DecompressOk(c) PROVE CallInv'
  <2>1. StepOf({c}) /\ DriveStep
    BY <1>9, <1>s DEF DecompressOk, Await, TypeOK, StepOf
  <2>2. ~Overwrites(c)
    BY <1>9, <1>0 DEF DecompressOk, StatusOk, Unsaved, AfterDump, Overwrites
  <2>4. AskedOk(c)'
    BY <1>9, <1>0, <2>2 DEF DecompressOk, Await, TypeOK, AskedOk, Overwrites
  <2>5. StatusOk(c)'
    BY <1>9, <1>0 DEF DecompressOk, Await, TypeOK, StatusOk, Unsaved, AfterDump
  <2>3. FilesOk(c)'
    BY <1>9, FilesOn DEF DecompressOk, Await, TypeOK, Awaits
  <2>. QED  BY <1>0, <2>1, <2>3, <2>4, <2>5, OtherCalls DEF CallOk
<1>10. ASSUME NEW c \in Calls, DecompressFail(c) PROVE CallInv'
  BY <1>10, FailAfterAwait DEF DecompressFail, AfterDump, Errors
<1>11. ASSUME NEW c \in Calls, StreamEnd(c) PROVE CallInv'
  BY <1>11, <1>0, <1>s, ReturnCall DEF StreamEnd, StatusOk, Statuses, Refusals
<1>12. ASSUME NEW c \in Calls, DumpOk(c) PROVE CallInv'
  <2>1. StepOf({c}) /\ DriveStep
    BY <1>12, <1>s DEF DumpOk, Await, TypeOK, StepOf
  <2>2. StatusOk(c)'
    BY <1>12, <1>0 DEF DumpOk, Await, TypeOK, StatusOk, Unsaved, AfterDump
  <2>3. AskedOk(c)'
    BY <1>12, <1>0 DEF DumpOk, Await, TypeOK, AskedOk, Overwrites
  <2>4. FilesOk(c)'
    BY <1>12, FilesOn DEF DumpOk, Await, TypeOK, Awaits
  <2>. QED  BY <1>0, <2>1, <2>2, <2>3, <2>4, OtherCalls DEF CallOk
<1>13. ASSUME NEW c \in Calls, DumpFail(c) PROVE CallInv'
  BY <1>13, FailAfterAwait DEF DumpFail, AfterDump, ToolErrors, Errors
<1>14. ASSUME NEW c \in Calls, UploadOk(c) PROVE CallInv'
  <2>1. DriveStep
    BY <1>14, UploadStep DEF UploadOk
  <2>0. /\ info[c].id < next_id'
        /\ \A f \in files' : f.id = info[c].id => f \in files
    BY <1>0, <2>1, AskedFile
  <2>2. CASE op[c] = "create" /\ Return(c, "OK") /\ UNCHANGED txn
    <3>1. StepOf({c})
      BY <1>14, <2>2 DEF UploadOk, Return, TypeOK, StepOf
    <3>2. StatusOk(c)'
      BY <1>14, <2>2 DEF UploadOk, Return, TypeOK, StatusOk, AfterDump, Refusals
    <3>3. AskedOk(c)'
      <4>1. ~Overwrites(c)' /\ pc'[c] = "done"
        BY <1>14, <2>2, <1>0 DEF UploadOk, Return, TypeOK, StatusOk, Unsaved, Overwrites
      <4>. QED  BY <1>14, <2>0, <4>1 DEF UploadOk, AskedOk
    <3>4. FilesOk(c)'
      BY <1>14, <2>2, NothingPending DEF UploadOk, Return, FilesOk
    <3>. QED  BY <1>0, <2>1, <3>1, <3>2, <3>3, <3>4, OtherCalls DEF CallOk
  <2>3. CASE /\ temp' = temp \ {<<c, "dump">>}
             /\ \/ op[c] = "create" /\ Await(c, "list") /\ UNCHANGED txn
                \/ op[c] = "restore" /\ txn' = txn \cup {c} /\ Await(c, "restore")
    <3>1. StepOf({c})
      BY <1>14, <2>3 DEF UploadOk, Await, TypeOK, StepOf
    <3>2. StatusOk(c)'
      BY <1>14, <2>3, <1>0 DEF UploadOk, Await, TypeOK, StatusOk, AfterDump, Refusals
    <3>3. AskedOk(c)'
      <4>1. Overwrites(c)' => op[c] = "restore"
        BY <1>14, <2>3, <1>0 DEF UploadOk, StatusOk, Unsaved, Overwrites
      <4>2. pc'[c] \in {"list", "restore"}
        BY <2>3 DEF Await, TypeOK
      <4>. QED  BY <1>14, <1>0, <2>0, <4>1, <4>2 DEF UploadOk, AskedOk
    <3>4. FilesOk(c)'
      BY <1>14, <2>3, FilesOn DEF UploadOk, Await, TypeOK, Awaits
    <3>. QED  BY <1>0, <2>1, <3>1, <3>2, <3>3, <3>4, OtherCalls DEF CallOk
  <2>. QED  BY <1>14, <2>2, <2>3 DEF UploadOk
<1>15. ASSUME NEW c \in Calls, UploadFail(c) PROVE CallInv'
  <2>1. CASE \E err \in {"Unavailable", "Storage"} : Fail(c, err)
    <3>1. PICK status \in {"UNAVAILABLE", "INTERNAL"} : Return(c, status)
      BY <2>1 DEF Fail, ToStatus
    <3>2. \A g \in ghosts' : g \in ghosts \/ g.call = c
      <4>1. Ghost(c).call = c
        BY DEF Ghost
      <4>. QED  BY <1>15, <4>1 DEF UploadFail
    <3>3. status \in Statuses /\ status # "OK" /\ status \notin Refusals
      BY DEF Statuses, Refusals
    <3>4. UNCHANGED <<op, target, info, fetched, copy, pool, files, next_id, txn, committed>>
      BY <1>15 DEF UploadFail
    <3>5. pc[c] # "done"
      BY <1>15 DEF UploadFail
    <3>. QED  BY <1>s, <3>1, <3>2, <3>3, <3>4, <3>5, ReturnCall
  <2>2. CASE \E err \in {"NotFound", "Storage", "Io"} : Fail(c, err) /\ UNCHANGED ghosts
    <3>1. PICK status \in {"NOT_FOUND", "INTERNAL"} : Return(c, status)
      BY <2>2 DEF Fail, ToStatus
    <3>2. Unsaved(c)'
      BY <1>15, <2>2, <1>0 DEF UploadFail, StatusOk, Unsaved
    <3>. QED  BY <1>15, <2>2, <1>s, <3>1, <3>2, ReturnCall DEF UploadFail, Statuses, Refusals
  <2>. QED  BY <1>15, <2>1, <2>2 DEF UploadFail
<1>16. ASSUME NEW c \in Calls, ListPage(c) PROVE CallInv'
  <2>1. pc[c] = "list" /\ op[c] = "create"
    BY <1>16, <1>0 DEF ListPage, StatusOk
  <2>2. CASE Return(c, "OK")
    BY <1>16, <2>1, <2>2, RetentionReturn DEF ListPage
  <2>3. CASE Await(c, "list") /\ UNCHANGED temp
    BY <1>16, <2>1, <2>3, RetentionAwait DEF ListPage
  <2>. QED  BY <1>16, <2>2, <2>3 DEF ListPage
<1>17. ASSUME NEW c \in Calls, ListLastPage(c) PROVE CallInv'
  <2>1. pc[c] = "list" /\ op[c] = "create"
    BY <1>17, <1>0 DEF ListLastPage, StatusOk
  <2>2. CASE Return(c, "OK")
    BY <1>17, <2>1, <2>2, RetentionReturn DEF ListLastPage
  <2>3. CASE Await(c, "delete") /\ UNCHANGED temp
    BY <1>17, <2>1, <2>3, RetentionAwait DEF ListLastPage
  <2>. QED  BY <1>17, <2>2, <2>3 DEF ListLastPage
<1>18. ASSUME NEW c \in Calls, ListFail(c) PROVE CallInv'
  BY <1>18, <1>0, RetentionReturn DEF ListFail, StatusOk
<1>19. ASSUME NEW c \in Calls, DeleteOk(c) \/ DeleteFail(c) PROVE CallInv'
  <2>1. pc[c] = "delete" /\ op[c] = "create"
    BY <1>19, <1>0 DEF DeleteOk, DeleteFail, StatusOk
  <2>2. files' \subseteq files /\ \E id \in todo[c] : AfterDelete(c, id)
    BY <1>19 DEF DeleteOk, DeleteFail
  <2>3. UNCHANGED <<op, target, info, fetched, copy, pool, next_id, ghosts, txn, committed>>
    BY <1>19, <2>2 DEF DeleteOk, DeleteFail, AfterDelete
  <2>4. CASE Return(c, "OK")
    BY <2>1, <2>2, <2>3, <2>4, RetentionReturn
  <2>5. CASE Await(c, "delete") /\ UNCHANGED temp
    BY <2>1, <2>2, <2>3, <2>5, RetentionAwait
  <2>. QED  BY <2>2, <2>4, <2>5 DEF AfterDelete
<1>20. ASSUME NEW c \in Calls, RestoreOk(c) PROVE CallInv'
  BY <1>20, <1>s, ReturnCall DEF RestoreOk, Statuses, Refusals
<1>21. ASSUME NEW c \in Calls, RestoreFail(c) PROVE CallInv'
  <2>1. PICK status \in {"UNAVAILABLE", "INTERNAL"} : Return(c, status)
    BY <1>21 DEF RestoreFail, Fail, ToStatus, ToolErrors
  <2>. QED  BY <1>21, <1>s, <2>1, ReturnCall DEF RestoreFail, Statuses, Refusals
<1>22. ASSUME NEW c \in Calls, Commit(c) PROVE CallInv'
  <2>1. StepOf({c}) /\ DriveStep
    BY <1>22, <1>s DEF Commit, StepOf
  <2>2. pc[c] \in {"restore", "done"} /\ Overwrites(c)
    BY <1>22 DEF Commit, SafetyInv, RestoresOnly, Overwrites
  <2>3. StatusOk(c)'
    BY <1>22, <2>2, <1>0 DEF Commit, StatusOk, Unsaved, Overwrites, AfterDump
  <2>4. AskedOk(c)'
    BY <1>22, <2>2, <1>0 DEF Commit, AskedOk
  <2>5. FilesOk(c)'
    BY <1>22, <1>0 DEF Commit, FilesOk, Live
  <2>. QED  BY <1>0, <2>1, <2>3, <2>4, <2>5, OtherCalls DEF CallOk
<1>23. ASSUME NEW c \in Calls, Rollback(c) PROVE CallInv'
  BY <1>23, <1>s, NoCallMoves DEF Rollback, StepOf
<1>24. ASSUME NEW c \in Calls, Cancel(c) PROVE CallInv'
  <2>1. \A g \in ghosts' : g \in ghosts \/ g.call = c
    BY <1>24, AbandonedBy DEF Cancel
  <2>2. \A t \in pool' : t \in pool \/ (t[1] = c /\ t[2] # "dump")
    BY <1>24 DEF Cancel, Creations
  <2>3. StepOf({c}) /\ DriveStep
    BY <1>24, <2>1, <2>2, <1>s DEF Cancel, Abandon, Return, TypeOK, StepOf
  <2>4. pc'[c] = "done" /\ result'[c] = "CANCELLED"
    BY <1>24 DEF Cancel, Return, TypeOK
  <2>5. StatusOk(c)'
    BY <2>4 DEF StatusOk, AfterDump, Refusals
  <2>6. AskedOk(c)'
    BY <1>24, <2>4, <1>0 DEF Cancel, Abandon, AskedOk, Overwrites
  <2>7. FilesOk(c)'
    <3>1. \A t \in temp' : t[1] # c
      BY <1>24 DEF Cancel, Return
    <3>2. pc[c] # "done"
      BY <1>24 DEF Cancel, Live, Awaits
    <3>3. \A t \in pool : t[1] # c
      BY <3>2, NothingPending
    <3>. QED  BY <2>2, <2>4, <3>1, <3>3 DEF FilesOk
  <2>. QED  BY <1>0, <2>3, <2>5, <2>6, <2>7, OtherCalls DEF CallOk
<1>25. ASSUME LateCreate PROVE CallInv'
  BY <1>25, <1>s, NoCallMoves DEF LateCreate, StepOf
<1>26. ASSUME Crash PROVE CallInv'
  <2>. DEFINE gone == {c \in Calls : Live(c)}
  <2>1. \A g \in ghosts' : g \in ghosts \/ g.call \in gone
    BY <1>26, AbandonedBy DEF Crash
  <2>2. StepOf(gone) /\ DriveStep
    BY <1>26, <2>1, <1>s DEF Crash, Abandon, TypeOK, StepOf
  <2>3. ASSUME NEW c \in gone PROVE CallOk(c)'
    <3>1. pc'[c] = "done" /\ result'[c] = "LOST" /\ pool' = {}
      BY <1>26 DEF Crash
    <3>2. StatusOk(c)'
      BY <3>1 DEF StatusOk, AfterDump, Refusals
    <3>3. AskedOk(c)'
      BY <1>26, <3>1, <1>0 DEF Crash, Abandon, AskedOk, Overwrites
    <3>4. FilesOk(c)'
      BY <3>1 DEF FilesOk
    <3>. QED  BY <3>2, <3>3, <3>4 DEF CallOk
  <2>4. gone \in SUBSET Calls
    OBVIOUS
  <2>. HIDE DEF gone
  <2>. QED  BY <2>2, <2>3, <2>4, OtherCalls
<1>27. ASSUME LandUpload PROVE CallInv'
  <2>1. DriveStep
    BY <1>27, UploadStep DEF LandUpload
  <2>2. StepOf({})
    BY <1>27 DEF LandUpload, StepOf
  <2>. QED  BY <2>1, <2>2, NoCallMoves
<1>28. ASSUME LandDelete PROVE CallInv'
  <2>1. DriveStep
    BY <1>28 DEF LandDelete, TypeOK, DriveStep
  <2>2. StepOf({})
    BY <1>28 DEF LandDelete, StepOf
  <2>. QED  BY <2>1, <2>2, NoCallMoves
<1>29. ASSUME AppWrite PROVE CallInv'
  BY <1>29, <1>s, NoCallMoves DEF AppWrite, StepOf
<1>30. CASE AllServed \/ UNCHANGED vars
  BY <1>30, <1>s, NoCallMoves DEF AllServed, vars, StepOf
<1>. HIDE DEF callVars, locals, fetchVars, dumpVars, scanVars, driveVars, dbVars
<1>. QED
  BY <1>1, <1>2, <1>3, <1>4, <1>5, <1>6, <1>7, <1>8, <1>9, <1>10, <1>11,
     <1>12, <1>13, <1>14, <1>15, <1>16, <1>17, <1>18, <1>19, <1>20, <1>21,
     <1>22, <1>23, <1>24, <1>25, <1>26, <1>27, <1>28, <1>29, <1>30
     DEF Next, Arrive, Progress, Environment

\* CallInv holds in every reachable state.
THEOREM CallInvariant == Spec => []CallInv
<1>1. Init => CallInv
  <2>. SUFFICES ASSUME Init, NEW c \in Calls PROVE CallOk(c)
    BY DEF CallInv
  <2>1. StatusOk(c)
    BY DEF Init, StatusOk, Unsaved, Refusals
  <2>2. info[c] = NoInfo /\ NoInfo.id = 0 /\ next_id = FirstId
    BY DEF Init, NoInfo
  <2>3. AskedOk(c)
    BY <2>2, InitFilesAssumption DEF Init, AskedOk, Overwrites
  <2>4. FilesOk(c)
    BY DEF Init, FilesOk
  <2>. QED  BY <2>1, <2>3, <2>4 DEF CallOk
<1>. QED  BY <1>1, TypeCorrect, SafetyInvariant, CallStep, PTL DEF Spec

----------------------------------------------------------------------------
\* A client may believe the status: OK of a Restore means that the database
\* was replaced, a refusal that the call did and will do nothing.
THEOREM StatusCorrect == Spec => []StatusTellsEffect
<1>1. CallInv => StatusTellsEffect
  BY DEF CallInv, CallOk, StatusOk, Unsaved, Refusals, StatusTellsEffect
<1>. QED  BY <1>1, CallInvariant, PTL

\* pg_restore is only ever given the backup that was asked for.
THEOREM AskedCorrect == Spec => []RestoresWhatWasAsked
<1>1. TypeOK /\ CallInv => RestoresWhatWasAsked
  BY DEF TypeOK, CallInv, CallOk, AskedOk, Overwrites, RestoresWhatWasAsked
<1>. QED  BY <1>1, TypeCorrect, CallInvariant, PTL

\* No temporary file outlives its call, but for a crash and the blocking pool.
THEOREM TempFilesCorrect == Spec => []TempFilesFollowCalls
<1>1. TypeOK /\ CallInv => TempFilesFollowCalls
  <2>. SUFFICES ASSUME TypeOK, CallInv, NEW t \in temp
                PROVE  \/ Live(t[1]) \/ result[t[1]] = "LOST"
                       \/ result[t[1]] = "CANCELLED" /\ t[2] # "dump"
    BY DEF TempFilesFollowCalls
  <2>1. t[1] \in Calls
    BY DEF TypeOK
  <2>. QED  BY <2>1 DEF CallInv, CallOk, FilesOk
<1>. QED  BY <1>1, TypeCorrect, CallInvariant, PTL
=============================================================================
