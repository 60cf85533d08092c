---------------------------- MODULE BackupService ----------------------------
(***************************************************************************)
(* The use cases of the server (backup-server/src/service.rs) under        *)
(* concurrent gRPC calls: CreateBackup, Restore and DownloadBackup, the    *)
(* write lock, retention, the temporary files, the Drive folder and the    *)
(* database.                                                               *)
(*                                                                         *)
(* A call is a future.  Between two awaits it runs alone, so each action   *)
(* is one await's outcome with everything the call does up to its next     *)
(* await.  A call ends by returning, by being dropped (its client went     *)
(* away) or with the process.  Drive and PostgreSQL may act on a request   *)
(* after the call that made it stopped waiting.                            *)
(***************************************************************************)
EXTENDS BackupCatalog

CONSTANTS
    Calls,         \* the gRPC calls that may arrive, each once
    NoCall,        \* the write lock is free
    Retention,     \* deps.retention; 0 is None, a value Settings rejects
    PageSize,      \* MAX_PAGE_SIZE
    MaxPages,      \* MAX_RETENTION_PAGES
    LatestWindow,  \* LATEST_PAGE_SIZE * LATEST_MAX_PAGES
    Targets,       \* the backup ids clients ask for; 0 is BackupTarget::Latest
    Ops,           \* the RPCs that clients make
    InitFiles,     \* what is on Drive at the start
    FirstId,       \* the id of the next file that is created there
    InitDb,        \* the content of the database at the start
    MaxWrites,     \* bound: changes the application makes to the database
    MaxCrashes     \* bound: deaths of the server process

ASSUME NoCallAssumption == NoCall \notin Calls

ASSUME RetentionAssumption == Retention \in Nat

ASSUME PagesAssumption ==
    PageSize \in Nat \ {0} /\ MaxPages \in Nat \ {0} /\ LatestWindow \in Nat \ {0}

ASSUME RequestsAssumption ==
    Targets \subseteq Nat /\ Ops \subseteq {"create", "restore", "download"}

ASSUME InitFilesAssumption ==
    /\ InitFiles \subseteq DriveFiles
    /\ IsFiniteSet(InitFiles)
    /\ FirstId \in Nat \ {0}
    /\ \A f \in InitFiles : f.created_at = f.id /\ f.id > 0 /\ f.id < FirstId
    /\ \A f, g \in InitFiles : f.id = g.id => f = g
    /\ InitDb \in Nat

ASSUME BoundsAssumption == MaxWrites \in Nat /\ MaxCrashes \in Nat

VARIABLES
    pc,         \* the await each call is suspended in
    op,         \* the request: which RPC,
    target,     \* for which backup (0 is BackupTarget::Latest)
    info,       \* the backup it was resolved to
    fetched,    \* the content of the downloaded backup
    dumped,     \* the content of the dump
    copy,       \* the id Drive gave to the uploaded dump
    items,      \* list_all: the backups listed so far,
    token,      \* the page token,
    pages,      \* the pages read
    todo,       \* the ids retention has left to delete
    result,     \* the status each call ended with
    lock,       \* the call that holds write_lock, or NoCall
    temp,       \* the files in data_folder, as <<call, role>>
    pool,       \* file creations left on the blocking pool by dropped calls
    files,      \* the files on Drive
    next_id,    \* Drive numbers files by creation
    ghosts,     \* uploads nobody waits for that Drive may still complete
    dying,      \* ids with a delete nobody waits for that may still be done
    db,         \* the content of the database
    writes,     \* how many contents the application has written
    txn,        \* calls whose pg_restore transaction is open in PostgreSQL
    committed,  \* calls whose pg_restore transaction was committed
    intact,     \* history: calls whose dump the database has not left since
    crashes

fetchVars == <<info, fetched>>
dumpVars == <<dumped, copy>>
scanVars == <<items, token, pages, todo>>
locals == <<op, target, fetchVars, dumpVars, scanVars>>
callVars == <<pc, locals, result, lock, temp>>
driveVars == <<files, next_id, ghosts, dying>>
dbVars == <<db, writes, txn, committed, intact>>
vars == <<callVars, pool, driveVars, dbVars, crashes>>

----------------------------------------------------------------------------
\* The awaits: resolving the target, downloading it, decompressing it,
\* streaming it, pg_dump, the upload, a page of list_all, a delete, pg_restore.
Awaits == {"resolve", "fetch", "decompress", "stream", "dump", "upload",
           "list", "delete", "restore"}

\* The temporary files of a call: its dump, the backup it downloaded (a
\* restore and a download differ in the suffix only), the decompressed JSON.
Roles == {"dump", "fetched", "json"}

Errors == {"NotFound", "FailedPrecondition", "Busy", "Timeout",
           "InvalidArgument", "Storage", "Unavailable", "Process", "Io"}

\* classify: what any Drive call may fail with once it is given up, besides
\* what it says of the file asked for.  Io is the local file's.
StorageErrors == {"Unavailable", "Storage", "Io"}

\* PgTools::execute: out of time, a failed command, or one that did not start.
ToolErrors == {"Timeout", "Process", "Io"}

\* Mutant: Busy mapped to a status the clients do not expect.
ToStatusBusy(err) ==
    IF err = "Busy" THEN "RESOURCE_EXHAUSTED" ELSE "INTERNAL"

ToStatus(err) ==
    CASE err = "NotFound" -> "NOT_FOUND"
      [] err = "InvalidArgument" -> "INVALID_ARGUMENT"
      [] err = "FailedPrecondition" -> "FAILED_PRECONDITION"
      [] err = "Busy" -> "ABORTED"
      [] err \in {"Timeout", "Unavailable"} -> "UNAVAILABLE"
      [] err \in {"Storage", "Process", "Io"} -> "INTERNAL"

\* CANCELLED: the client went away.  LOST: the process died under the call.
Statuses == {"OK", "NOT_FOUND", "INVALID_ARGUMENT", "FAILED_PRECONDITION",
             "ABORTED", "UNAVAILABLE", "INTERNAL", "CANCELLED", "LOST"}

NoInfo == [id |-> 0, created_at |-> 0, format |-> "pg_custom", kind |-> "regular"]

Live(c) == pc[c] \in Awaits

\* The call takes part in the exclusion: CreateBackup and Restore lock.
Writes(c) == op[c] \in {"create", "restore"}

----------------------------------------------------------------------------
\* Mutant: the guard is forgotten instead of dropped.
ReturnLocked(c, status) ==
    /\ pc' = [pc EXCEPT ![c] = "done"]
    /\ result' = [result EXCEPT ![c] = status]
    /\ temp' = {t \in temp : t[1] # c}
    /\ UNCHANGED lock

\* The call returns: the guard and the temporary files are dropped with it.
Return(c, status) ==
    /\ pc' = [pc EXCEPT ![c] = "done"]
    /\ result' = [result EXCEPT ![c] = status]
    /\ lock' = IF lock = c THEN NoCall ELSE lock
    /\ temp' = {t \in temp : t[1] # c}

\* Mutant: an error path persists the temporary files.
FailKeepingFiles(c, err) ==
    /\ pc' = [pc EXCEPT ![c] = "done"]
    /\ result' = [result EXCEPT ![c] = ToStatus(err)]
    /\ lock' = IF lock = c THEN NoCall ELSE lock
    /\ UNCHANGED temp

Fail(c, err) == Return(c, ToStatus(err))

\* The call runs to its next await, holding on to what it has.
Await(c, step) ==
    /\ pc' = [pc EXCEPT ![c] = step]
    /\ UNCHANGED <<result, lock>>

Request(c, rpc, id) ==
    /\ op' = [op EXCEPT ![c] = rpc]
    /\ target' = [target EXCEPT ![c] = id]
    /\ UNCHANGED <<fetchVars, dumpVars, scanVars>>

----------------------------------------------------------------------------
\* dump_and_upload up to its first await: the temporary file, then pg_dump.
BeginDump(c) ==
    /\ temp' = temp \cup {<<c, "dump">>}
    /\ pc' = [pc EXCEPT ![c] = "dump"]
    /\ UNCHANGED result

CreateBackup(c) ==
    /\ pc[c] = "idle" /\ "create" \in Ops
    /\ Request(c, "create", 0)
    /\ \/ lock # NoCall /\ Fail(c, "Busy")
       \/ lock = NoCall /\ lock' = c /\ BeginDump(c)
       \/ lock = NoCall /\ Fail(c, "Io")
    /\ UNCHANGED <<pool, driveVars, dbVars, crashes>>

\* confirm_db_name is checked before the lock is tried.
Restore(c, id, confirmed) ==
    /\ pc[c] = "idle" /\ "restore" \in Ops
    /\ Request(c, "restore", id)
    /\ \/ ~confirmed /\ Fail(c, "FailedPrecondition")
       \/ confirmed /\ lock # NoCall /\ Fail(c, "Busy")
       \/ /\ confirmed /\ lock = NoCall
          /\ lock' = c
          /\ pc' = [pc EXCEPT ![c] = "resolve"]
          /\ UNCHANGED <<result, temp>>
    /\ UNCHANGED <<pool, driveVars, dbVars, crashes>>

\* Reads do not take the lock.
DownloadBackup(c, id) ==
    /\ pc[c] = "idle" /\ "download" \in Ops
    /\ Request(c, "download", id)
    /\ Await(c, "resolve")
    /\ UNCHANGED <<temp, pool, driveVars, dbVars, crashes>>

\* backup_target: neither an id nor `latest' was given.
RejectTarget(c) ==
    /\ pc[c] = "idle"
    /\ \E rpc \in Ops \ {"create"} : Request(c, rpc, 0)
    /\ Fail(c, "InvalidArgument")
    /\ UNCHANGED <<pool, driveVars, dbVars, crashes>>

----------------------------------------------------------------------------
\* Storage::get and Storage::latest: the file a target stands for, if any.
Resolved(id) ==
    IF id = 0
    THEN LatestHits(files, LatestWindow)
    ELSE {f \in FolderQuery(files) : f.id = id /\ IsBackup(f)}

ResolveError(id) ==
    IF \/ id = 0 /\ LatestGivesUp(files, LatestWindow)
       \/ id # 0 /\ \E f \in FolderQuery(files) : f.id = id
    THEN "FailedPrecondition"
    ELSE "NotFound"

ResolveOk(c) ==
    /\ pc[c] = "resolve"
    /\ \E f \in Resolved(target[c]) :
         IF op[c] = "restore" /\ ToBackupInfo(f).format # "pg_custom"
         THEN Fail(c, "FailedPrecondition") /\ UNCHANGED info
         ELSE /\ info' = [info EXCEPT ![c] = ToBackupInfo(f)]
              /\ temp' = temp \cup {<<c, "fetched">>}
              /\ Await(c, "fetch")
    /\ UNCHANGED <<op, target, fetched, dumpVars, scanVars>>
    /\ UNCHANGED <<pool, driveVars, dbVars, crashes>>

ResolveFail(c) ==
    /\ pc[c] = "resolve"
    /\ \/ Resolved(target[c]) = {} /\ Fail(c, ResolveError(target[c]))
       \/ \E err \in StorageErrors : Fail(c, err)
    /\ UNCHANGED <<locals, pool, driveVars, dbVars, crashes>>

\* Storage::download gives the content of the file, which Drive serves by id
\* wherever the file is now.  A restore goes on to dump_and_upload.
FetchOk(c) ==
    /\ pc[c] = "fetch"
    /\ \E f \in files :
         /\ f.id = info[c].id
         /\ fetched' = [fetched EXCEPT ![c] = f.content]
    /\ \/ op[c] = "restore" /\ BeginDump(c) /\ UNCHANGED lock
       \/ /\ op[c] = "download" /\ info[c].format # "legacy_json_zstd"
          /\ Await(c, "stream") /\ UNCHANGED temp
       \/ /\ op[c] = "download" /\ info[c].format = "legacy_json_zstd"
          /\ temp' = temp \cup {<<c, "json">>}
          /\ Await(c, "decompress")
    /\ UNCHANGED <<op, target, info, dumpVars, scanVars>>
    /\ UNCHANGED <<pool, driveVars, dbVars, crashes>>

FetchFail(c) ==
    /\ pc[c] = "fetch"
    /\ \/ (\A f \in files : f.id # info[c].id) /\ Fail(c, "NotFound")
       \/ \E err \in StorageErrors : Fail(c, err)
    /\ UNCHANGED <<locals, pool, driveVars, dbVars, crashes>>

\* decompress_file ran on the blocking pool; the compressed file is dropped.
DecompressOk(c) ==
    /\ pc[c] = "decompress"
    /\ temp' = temp \ {<<c, "fetched">>}
    /\ Await(c, "stream")
    /\ UNCHANGED <<locals, pool, driveVars, dbVars, crashes>>

DecompressFail(c) ==
    /\ pc[c] = "decompress"
    /\ \E err \in {"Io", "Storage"} : Fail(c, err)
    /\ UNCHANGED <<locals, pool, driveVars, dbVars, crashes>>

\* The streaming task sent the last chunk, or failed to read the file.
StreamEnd(c) ==
    /\ pc[c] = "stream"
    /\ \E status \in {"OK", "INTERNAL"} : Return(c, status)
    /\ UNCHANGED <<locals, pool, driveVars, dbVars, crashes>>

----------------------------------------------------------------------------
\* pg_dump copies the database as of one instant.
DumpOk(c) ==
    /\ pc[c] = "dump"
    /\ dumped' = [dumped EXCEPT ![c] = db]
    /\ intact' = intact \cup {c}
    /\ Await(c, "upload")
    /\ UNCHANGED <<op, target, fetchVars, copy, scanVars>>
    /\ UNCHANGED <<temp, pool, driveVars, db, writes, txn, committed, crashes>>

DumpFail(c) ==
    /\ pc[c] = "dump"
    /\ \E err \in ToolErrors : Fail(c, err)
    /\ UNCHANGED <<locals, pool, driveVars, dbVars, crashes>>

KindOf(c) == IF op[c] = "create" THEN "regular" ELSE "pre_restore"

\* The upload as Drive may complete it with nobody waiting.
Ghost(c) == [call |-> c, kind |-> KindOf(c), content |-> dumped[c]]

\* What follows a stored dump: a backup applies retention (or is done), a
\* restore starts pg_restore --single-transaction.
UploadOk(c) ==
    /\ pc[c] = "upload"
    /\ files' = files \cup {UploadMetadata(KindOf(c), dumped[c], next_id)}
    /\ next_id' = next_id + 1
    /\ copy' = [copy EXCEPT ![c] = next_id]
    /\ \/ /\ op[c] = "create" /\ Retention = 0
          /\ Return(c, "OK") /\ UNCHANGED txn
       \/ /\ op[c] = "create" /\ Retention # 0
          /\ temp' = temp \ {<<c, "dump">>}
          /\ Await(c, "list") /\ UNCHANGED txn
       \/ /\ op[c] = "restore"
          /\ temp' = temp \ {<<c, "dump">>}
          /\ txn' = txn \cup {c}
          /\ Await(c, "restore")
    /\ UNCHANGED <<op, target, fetchVars, dumped, scanVars>>
    /\ UNCHANGED <<pool, ghosts, dying, db, writes, committed, intact, crashes>>

\* Mutant: a restore goes on although its pre-restore copy was not stored.
UploadFailIgnored(c) ==
    /\ pc[c] = "upload" /\ op[c] = "restore"
    /\ temp' = temp \ {<<c, "dump">>}
    /\ txn' = txn \cup {c}
    /\ Await(c, "restore")
    /\ UNCHANGED <<locals, pool, driveVars, db, writes, committed, intact, crashes>>

\* Not retried.  A timeout, a broken connection or an unreadable reply does
\* not mean that the file was not, or will not be, created.
UploadFail(c) ==
    /\ pc[c] = "upload"
    /\ \/ /\ \E err \in {"Unavailable", "Storage"} : Fail(c, err)
          /\ ghosts' = ghosts \cup {Ghost(c)}
       \/ /\ \E err \in {"NotFound", "Storage", "Io"} : Fail(c, err)
          /\ UNCHANGED ghosts
    /\ UNCHANGED <<locals, pool, files, next_id, dying, dbVars, crashes>>

----------------------------------------------------------------------------
\* What the listing has not reached: a page token stands for the last file of
\* the page it came with.
Unlisted(c) == {f \in FolderQuery(files) : token[c] = 0 \/ f.id < token[c]}

\* The files that are no backups are skipped.
ListedWith(c, page) ==
    items[c] \cup {ToBackupInfo(f) : f \in {g \in page : IsBackup(g)}}

EndListing(c, ids) ==
    /\ items' = [items EXCEPT ![c] = {}]
    /\ token' = [token EXCEPT ![c] = 0]
    /\ pages' = [pages EXCEPT ![c] = 0]
    /\ todo' = [todo EXCEPT ![c] = ids]

\* A page with a next token.  After MaxPages of them list_all fails, which is
\* logged like any failure to list: retention is skipped.
ListPage(c) ==
    LET page == First(Unlisted(c), PageSize)
    IN  /\ pc[c] = "list" /\ page # Unlisted(c)
        /\ \/ /\ pages[c] + 1 < MaxPages
              /\ \E f \in page : /\ \A g \in page : f.id <= g.id
                                /\ token' = [token EXCEPT ![c] = f.id]
              /\ items' = [items EXCEPT ![c] = ListedWith(c, page)]
              /\ pages' = [pages EXCEPT ![c] = @ + 1]
              /\ Await(c, "list") /\ UNCHANGED <<todo, temp>>
           \/ /\ pages[c] + 1 = MaxPages
              /\ EndListing(c, {})
              /\ Return(c, "OK")
        /\ UNCHANGED <<op, target, fetchVars, dumpVars>>
        /\ UNCHANGED <<pool, driveVars, dbVars, crashes>>

\* The last page: retention picks its candidates among all that was listed.
ListLastPage(c) ==
    LET ids == {b.id : b \in RetentionCandidates(ListedWith(c, Unlisted(c)), Retention)}
    IN  /\ pc[c] = "list" /\ First(Unlisted(c), PageSize) = Unlisted(c)
        /\ EndListing(c, ids)
        /\ IF ids = {} THEN Return(c, "OK")
                      ELSE Await(c, "delete") /\ UNCHANGED temp
        /\ UNCHANGED <<op, target, fetchVars, dumpVars>>
        /\ UNCHANGED <<pool, driveVars, dbVars, crashes>>

ListFail(c) ==
    /\ pc[c] = "list"
    /\ EndListing(c, {})
    /\ Return(c, "OK")
    /\ UNCHANGED <<op, target, fetchVars, dumpVars>>
    /\ UNCHANGED <<pool, driveVars, dbVars, crashes>>

\* Candidates go newest first.
IsNext(c, id) == id \in todo[c] /\ \A j \in todo[c] : j <= id

\* The loop moves on after a delete, whatever came of it.
AfterDelete(c, id) ==
    /\ todo' = [todo EXCEPT ![c] = @ \ {id}]
    /\ UNCHANGED <<op, target, fetchVars, dumpVars, items, token, pages>>
    /\ IF todo[c] = {id}
       THEN Return(c, "OK")
       ELSE Await(c, "delete") /\ UNCHANGED temp

\* Storage::delete succeeds on a file that is already gone.
DeleteOk(c) ==
    /\ pc[c] = "delete"
    /\ \E id \in todo[c] :
         /\ IsNext(c, id)
         /\ files' = {f \in files : f.id # id}
         /\ AfterDelete(c, id)
    /\ UNCHANGED <<pool, next_id, ghosts, dying, dbVars, crashes>>

\* Mutant: a delete that failed is tried again, as often as it takes.
DeleteFailRepeated(c) ==
    /\ pc[c] = "delete"
    /\ \E id \in todo[c] : IsNext(c, id) /\ dying' \in {dying, dying \cup {id}}
    /\ UNCHANGED <<callVars, pool, files, next_id, ghosts, dbVars, crashes>>

\* A failure is only logged; a request that timed out may still be done.
DeleteFail(c) ==
    /\ pc[c] = "delete"
    /\ \E id \in todo[c] :
         /\ IsNext(c, id)
         /\ dying' \in {dying, dying \cup {id}}
         /\ AfterDelete(c, id)
    /\ UNCHANGED <<pool, files, next_id, ghosts, dbVars, crashes>>

----------------------------------------------------------------------------
\* pg_restore --single-transaction: the whole backup becomes the database at
\* once, or nothing does.  The transaction is PostgreSQL's: it is decided
\* whether or not pg_restore, or the call, is still there to be told.
Commit(c) ==
    /\ c \in txn
    /\ db' = fetched[c]
    /\ txn' = txn \ {c}
    /\ committed' = committed \cup {c}
    /\ intact' = {}
    /\ UNCHANGED <<callVars, pool, driveVars, writes, crashes>>

Rollback(c) ==
    /\ c \in txn
    /\ txn' = txn \ {c}
    /\ UNCHANGED <<callVars, pool, driveVars, db, writes, committed, intact, crashes>>

\* Mutant: the exit status of pg_restore is not looked at.
RestoreOkUnchecked(c) ==
    /\ pc[c] = "restore"
    /\ Return(c, "OK")
    /\ UNCHANGED <<locals, pool, driveVars, dbVars, crashes>>

\* Mutant: the pre-restore copy is removed once the restore has succeeded.
RestoreOkCleaning(c) ==
    /\ pc[c] = "restore" /\ c \in committed
    /\ Return(c, "OK")
    /\ files' = {f \in files : f.id # copy[c]}
    /\ UNCHANGED <<locals, pool, next_id, ghosts, dying, dbVars, crashes>>

RestoreOk(c) ==
    /\ pc[c] = "restore" /\ c \in committed
    /\ Return(c, "OK")
    /\ UNCHANGED <<locals, pool, driveVars, dbVars, crashes>>

\* pg_restore failed, or was killed when command_timeout ran out.
RestoreFail(c) ==
    /\ pc[c] = "restore"
    /\ \E err \in ToolErrors : Fail(c, err)
    /\ UNCHANGED <<locals, pool, driveVars, dbVars, crashes>>

----------------------------------------------------------------------------
\* What calls that stop waiting leave to Drive.
Abandon(gone) ==
    /\ ghosts' = ghosts \cup {Ghost(c) : c \in {d \in gone : pc[d] = "upload"}}
    /\ dying' = dying \cup UNION {{id \in todo[c] : IsNext(c, id)} :
                                    c \in {d \in gone : pc[d] = "delete"}}
    /\ UNCHANGED <<files, next_id>>

\* File creations of a call that run on the blocking pool: File::create in
\* download_once, and in decompress_file after it opened its source.
Creations(c) ==
    CASE pc[c] = "fetch" -> {<<c, "fetched">>}
      [] pc[c] = "decompress" -> {<<c, "json">>}
      [] OTHER -> {}

\* The client goes away and the future is dropped where it is suspended.
\* That kills pg_dump or pg_restore, but not what the blocking pool was given.
Cancel(c) ==
    /\ Live(c)
    /\ Return(c, "CANCELLED")
    /\ Abandon({c})
    /\ \E late \in SUBSET Creations(c) : pool' = pool \cup late
    /\ UNCHANGED <<locals, dbVars, crashes>>

LateCreate ==
    /\ \E t \in pool : temp' = temp \cup {t} /\ pool' = pool \ {t}
    /\ UNCHANGED <<pc, locals, result, lock, driveVars, dbVars, crashes>>

\* The process dies and is started again: the lock is new, the files in
\* data_folder stay, and nothing looks at them.
Crash ==
    /\ crashes < MaxCrashes /\ crashes' = crashes + 1
    /\ \E c \in Calls : Live(c)
    /\ pc' = [c \in Calls |-> IF Live(c) THEN "done" ELSE pc[c]]
    /\ result' = [c \in Calls |-> IF Live(c) THEN "LOST" ELSE result[c]]
    /\ lock' = NoCall
    /\ Abandon({c \in Calls : Live(c)})
    /\ pool' = {}
    /\ UNCHANGED <<locals, temp, dbVars>>

LandUpload ==
    /\ \E g \in ghosts :
         /\ files' = files \cup {UploadMetadata(g.kind, g.content, next_id)}
         /\ ghosts' = ghosts \ {g}
    /\ next_id' = next_id + 1
    /\ UNCHANGED <<callVars, pool, dying, dbVars, crashes>>

LandDelete ==
    /\ \E id \in dying :
         /\ files' = {f \in files : f.id # id}
         /\ dying' = dying \ {id}
    /\ UNCHANGED <<callVars, pool, next_id, ghosts, dbVars, crashes>>

\* The application whose database this is goes on using it.
AppWrite ==
    /\ writes < MaxWrites
    /\ writes' = writes + 1
    /\ db' = InitDb + writes + 1
    /\ intact' = {}
    /\ UNCHANGED <<callVars, pool, driveVars, txn, committed, crashes>>

----------------------------------------------------------------------------
Init ==
    /\ pc = [c \in Calls |-> "idle"]
    /\ op = [c \in Calls |-> "none"]
    /\ target = [c \in Calls |-> 0]
    /\ info = [c \in Calls |-> NoInfo]
    /\ fetched = [c \in Calls |-> 0]
    /\ dumped = [c \in Calls |-> 0]
    /\ copy = [c \in Calls |-> 0]
    /\ items = [c \in Calls |-> {}]
    /\ token = [c \in Calls |-> 0]
    /\ pages = [c \in Calls |-> 0]
    /\ todo = [c \in Calls |-> {}]
    /\ result = [c \in Calls |-> "none"]
    /\ lock = NoCall
    /\ temp = {} /\ pool = {}
    /\ files = InitFiles
    /\ next_id = FirstId
    /\ ghosts = {} /\ dying = {}
    /\ db = InitDb /\ writes = 0
    /\ txn = {} /\ committed = {} /\ intact = {}
    /\ crashes = 0

Arrive(c) ==
    \/ CreateBackup(c)
    \/ \E t \in Targets, confirmed \in BOOLEAN : Restore(c, t, confirmed)
    \/ \E t \in Targets : DownloadBackup(c, t)
    \/ RejectTarget(c)

\* The awaits whose end does not depend on the client: each has a timeout.
Progress(c) ==
    \/ ResolveOk(c) \/ ResolveFail(c) \/ FetchOk(c) \/ FetchFail(c)
    \/ DecompressOk(c) \/ DecompressFail(c)
    \/ DumpOk(c) \/ DumpFail(c) \/ UploadOk(c) \/ UploadFail(c)
    \/ ListPage(c) \/ ListLastPage(c) \/ ListFail(c) \/ DeleteOk(c) \/ DeleteFail(c)
    \/ RestoreOk(c) \/ RestoreFail(c)

Environment ==
    \/ LateCreate \/ Crash \/ LandUpload \/ LandDelete \/ AppWrite
    \/ \E c \in Calls : Cancel(c) \/ Commit(c) \/ Rollback(c) \/ StreamEnd(c)

\* Every call has been answered: the server waits for more.
AllServed == (\A c \in Calls : pc[c] = "done") /\ UNCHANGED vars

Next ==
    \/ \E c \in Calls : Arrive(c) \/ Progress(c)
    \/ Environment
    \/ AllServed

Spec == Init /\ [][Next]_vars

FairSpec == Spec /\ \A c \in Calls : WF_vars(Progress(c))

----------------------------------------------------------------------------
\* The type of the state.
TypeOK ==
    /\ pc \in [Calls -> Awaits \cup {"idle", "done"}]
    /\ op \in [Calls -> {"none", "create", "restore", "download"}]
    /\ target \in [Calls -> Nat]
    /\ info \in [Calls -> BackupInfo]
    /\ fetched \in [Calls -> Nat]
    /\ dumped \in [Calls -> Nat]
    /\ copy \in [Calls -> Nat]
    /\ items \in [Calls -> SUBSET BackupInfo]
    /\ token \in [Calls -> Nat]
    /\ pages \in [Calls -> Nat]
    /\ todo \in [Calls -> SUBSET Nat]
    /\ result \in [Calls -> Statuses \cup {"none"}]
    /\ lock \in Calls \cup {NoCall}
    /\ temp \subseteq Calls \X Roles /\ pool \subseteq Calls \X Roles
    /\ files \subseteq DriveFiles /\ next_id \in Nat \ {0}
    /\ ghosts \subseteq [call : Calls, kind : Kinds, content : Nat]
    /\ dying \subseteq Nat
    /\ db \in Nat /\ writes \in Nat
    /\ txn \subseteq Calls /\ committed \subseteq Calls /\ intact \subseteq Calls
    /\ crashes \in Nat

\* write_lock is held by exactly the CreateBackup or Restore that is running:
\* two never run together, and no way out of a call (error, timeout, dropped
\* future, crash) leaves it locked.
LockOwned ==
    /\ \A c \in Calls : Live(c) /\ Writes(c) => lock = c
    /\ lock # NoCall => Live(lock) /\ Writes(lock)

\* pg_restore runs, or has replaced the database, only with the pre-restore
\* copy of that very call on Drive; no retention, late delete or crash ever
\* takes the copy away again.
SafetyCopyStored ==
    \A c \in txn \cup committed :
      \E f \in FolderQuery(files) :
        /\ f.id = copy[c] /\ f.kind = "pre_restore"
        /\ f.content = dumped[c]

\* What a restore is about to overwrite is stored, unless the database changed
\* after the restore dumped it.
OverwritesWhatItSaved ==
    \A c \in txn \cap intact :
      \E f \in FolderQuery(files) : f.kind = "pre_restore" /\ f.content = db

\* A file disappears from Drive only by retention, and only if it is a regular
\* pg_dump backup with `keep' newer ones that stay: whatever fails, arrives
\* late or is cut short between the listing and the deletes.
RetentionKeepsNewest ==
    [][\A f \in files \ files' :
         /\ Retention # 0
         /\ f \in RegularBackups(files)
         /\ Cardinality({g \in RegularBackups(files') : Before(g, f)}) >= Retention]_vars

\* After CreateBackup answered OK there is always a regular backup at least as
\* new as the one it returned, so `latest' never falls back behind it.
LatestNotOlder ==
    \A c \in Calls :
      op[c] = "create" /\ result[c] = "OK" =>
        \E f \in RegularBackups(files) : f.id >= copy[c]

\* What the client may conclude from the status.  OK of a Restore: the
\* database was replaced.  A refusal: the call neither stored anything nor
\* touched the database, now or later.
StatusTellsEffect ==
    \A c \in Calls :
      /\ op[c] = "restore" /\ result[c] = "OK" => c \in committed
      /\ result[c] \in {"ABORTED", "FAILED_PRECONDITION", "NOT_FOUND", "INVALID_ARGUMENT"} =>
           /\ c \notin txn \cup committed
           /\ copy[c] = 0 /\ \A g \in ghosts : g.call # c

\* pg_restore is given the backup that was asked for: that id, or for `latest'
\* a backup that is not a pre-restore copy, in the format it can read, with
\* the content Drive has for it.
RestoresWhatWasAsked ==
    \A c \in txn \cup committed :
      /\ info[c].format = "pg_custom"
      /\ IF target[c] = 0 THEN info[c].kind = "regular"
                                ELSE info[c].id = target[c]
      /\ \A f \in files : f.id = info[c].id => f.content = fetched[c]

\* Temporary files go with their call on every way out but two: the process
\* died, or a dropped call left a file creation on the blocking pool.  The
\* dump of the database itself is not among the latter.
TempFilesFollowCalls ==
    \A t \in temp :
      \/ Live(t[1]) \/ result[t[1]] = "LOST"
      \/ result[t[1]] = "CANCELLED" /\ t[2] # "dump"

\* Every CreateBackup and Restore lets go of the lock.
WritersFinish == \A c \in Calls : lock = c ~> lock # c

----------------------------------------------------------------------------
(* What the repository says and the code does not keep. *)

\* README.md: "Before every restore the current database is uploaded": the
\* database that a restore replaces is stored as a pre-restore copy.
ReplacedDatabaseIsStored ==
    [][\A c \in committed' \ committed :
         \E f \in files : f.kind = "pre_restore" /\ f.content = db]_vars

\* service.rs, write_lock: "Serializes operations that dump or overwrite the
\* database": it is replaced only while the restore holds the lock.
OverwritesAreSerialized ==
    [][\A c \in committed' \ committed : lock = c]_vars

\* service.rs, download: "The returned file is removed on drop": no file in
\* data_folder outlives its call.
TempFilesRemoved == \A t \in temp : Live(t[1])
=============================================================================
