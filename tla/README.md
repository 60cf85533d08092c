# FastBackup in TLA+

FastBackup is a gRPC server that dumps one PostgreSQL database to a Google Drive
folder and restores it from there. This directory holds TLA+ models of its parts,
the TLC runs that check them on small instances, and TLAPS proofs of the main
properties for every instance. Paths below are relative to `src/crates/`.

## The system

| Part | Source | Model |
|---|---|---|
| Use cases, write lock, retention | `backup-server/src/service.rs` | `BackupService`, `BackupListing` |
| gRPC surface, targets, statuses | `backup-server/src/{grpc,convert,status}.rs` | `BackupService`, `BackupListing` |
| Streaming of a download, graceful shutdown | `backup-server/src/{grpc,main}.rs` | `DownloadStream` |
| Formats, kinds, retention choice | `backup-core/src/{backup,format}.rs` | `BackupCatalog`, `BackupListing` |
| Ports | `backup-core/src/ports.rs` | `StoragePort`, `DatabasePort` |
| Drive calls, retries, error classes | `backup-gdrive/src/{storage,retry,errors}.rs` | `DriveErrors`, `DriveCall` |
| Downloads from Drive | `backup-gdrive/src/storage.rs` | `DriveDownload` |
| Drive queries, pages and metadata | `backup-gdrive/src/{storage,mapping,query}.rs` | `BackupCatalog`, `BackupListing` |
| `pg_dump`, `pg_restore`, `psql` | `backup-pg/src/{tools,command,args}.rs` | `PgTools`, `StderrTail` |
| Temporary files, decompression | `service.rs`, `backup-core/src/compression.rs` | `BackupService` |
| Settings, levels, start | `backup-server/src/{settings,main}.rs`, `backup-pg/src/level.rs` | `Startup` |

`CreateBackup` takes the lock, dumps, uploads, and prunes old backups.
`Restore` takes the lock, downloads a backup, stores a pre-restore copy and runs
`pg_restore`. `DownloadBackup` takes no lock and streams the file. A call can end at
any await because its client went away, and what it asked of Drive or PostgreSQL
can still happen.

## Modules

The service and what it is made of:

- `BackupCatalog`: pure definitions on sets of Drive files, one per function of
  the source (`detect_format`, `BackupKind::parse`, `to_backup_info`, the queries,
  `retention_candidates`, `latest`).
- `BackupService`: the state machine of the use cases. `pc[c]` is the await a call
  is suspended in. An action is the outcome of one await with all the call does up
  to the next one, since nothing else of that call runs in between.
  `MCBackupService` holds its instances for TLC.
- `BackupListing`: `list_all` with the removals, `latest`, and a client of
  `ListBackups`, page by page, while the folder changes. Here creation times may be
  equal, and a page token is read in two ways: as the last file listed, or as the
  number of files listed. The vector `all` is a set of entries, each with the page
  it came on, so that a backup listed twice is there twice. `Ahead` is the order in
  which the stable sort leaves the entries. `MCBackupListing` holds the folders for
  TLC.
- `DownloadStream`: `DownloadBackup` from the request to the end of its stream, the
  task that streams the file through a bounded channel, its clients, and the shutdown
  of the server. `service.download` appears as a wait that ends in an answer or a
  Status, before or after the signal.
- `Startup`: the environment read key by key, then the Drive client and the
  listener. `Get` is `env::var(key).ok()`.

The adapters and the contracts they implement:

- `StoragePort`: what the use cases may expect of one Storage call about one file.
  An upload has its effect at most once. It has none after an answer that rules it
  out, and maybe later after one that does not.
- `DriveErrors`: the classes of Drive's answers and the retry policy.
- `DriveCall`: one call with its attempts, timeouts and sleeps. Requests that nobody
  waits for stay on the wire. Implements `StoragePort`, with `open` as "a request
  that may still act exists".
- `DriveDownload`: `download_once` under the retry loop, down to the writes that
  `tokio::fs::File` hands to the blocking pool.
- `DatabasePort`: what the use cases may expect of dump, restore and ping. Ok of a
  restore is final. After any error it may still take effect, whole, and not after a
  later one has.
- `PgTools`: the child processes with their time limit and their sessions with the
  server, which outlive a child that is killed or cut off. Implements
  `DatabasePort`, with `open` as "the restores whose COMMIT may still be carried
  out".
- `StderrTail`: `tail`, the cut of an error text, byte by byte, as `trim_end`, the
  subtraction and the loop to the next character boundary.

The two contracts connect the levels. `BackupService` treats a port call as one
await with these outcomes: `UploadFail` leaves a ghost exactly where `StoragePort`
leaves the call open, and `Commit` after `RestoreFail` is `DatabasePort`'s late
commit. That `BackupService` assumes no more than the contracts say is by reading,
not by a check.

| State of `BackupService` | Code |
|---|---|
| `pc`, `op`, `target`, `result` | the future of a call, its request and its status |
| `info`, `fetched`, `dumped`, `copy` | locals of `download`, `restore`, `dump_and_upload` |
| `items`, `token`, `pages`, `todo` | `list_all` and the loop of `prune_old_backups` |
| `lock` | `write_lock` |
| `temp`, `pool` | files in `data_folder`; file creations on tokio's blocking pool |
| `files`, `next_id`, `ghosts`, `dying` | Drive; uploads and deletes nobody waits for |
| `db`, `txn`, `committed` | the database and the transactions of `pg_restore` |
| `intact`, `writes`, `crashes` | history and bounds |

The other modules explain their variables where they declare them. Definitions
marked "Mutant" are plausible bugs, used to show that each property can fail. They
are not part of the specifications.

## Runs

| Run | Checks | Instance |
|---|---|---|
| `service` | `TypeOK`, `LockOwned`, `StatusTellsEffect`, `RestoresWhatWasAsked`, `TempFilesFollowCalls`, `WritersFinish` | two calls, all RPCs, a crash, a write |
| `writers` | `SafetyCopyStored`, `OverwritesWhatItSaved`, `RetentionKeepsNewest`, `LatestNotOlder` | three `CreateBackup` or `Restore`, `keep` 2, pages of 2, a crash, a write |
| `drive_call` | `TypeOK`, `BackoffBounded`, `ImplementsPort`, `CallEnds` | each method, 4 attempts |
| `drive_download` | `TypeOK`, `AcceptedIsReceived`, `DownloadIntact`, `DownloadEnds` | 3 blocks, 3 attempts |
| `listing` | `TypeOK`, `ListingComplete`, `LatestIsNewest`, `RetentionKeeps`, `RetentionCatchesUp`, `CandidatesAreTheSet` | all folders of 3 files, an arrival, a removal, both kinds of token |
| `download_stream` | `StreamTypeOK`, `StreamWhole`, `ReceivedInOrder`, `FileRemoved`, `StreamEnds`, `ShutdownEnds` | two clients, one of them faithful, 3 chunks, channel of 2 |
| `pg_tools` | `TypeOK`, `RestoreAtomic`, `RestoredStays`, `DumpIsSnapshot`, `AbortedLeavesNoTrace`, `ImplementsDatabase`, `CallEnds` | three calls, two objects |
| `startup` | `SettingsUsable`, `SettingsAsGiven` | unset, malformed and boundary values for every key, values that are not Unicode for five |
| `stderr_tail` | `TailIsLongestFit` | texts of up to 8 bytes, characters of 1 to 4 bytes, limit 4 |
| `stale_copy`, `late_commit`, `temp_leak` | one statement of the repository each, violated | two calls |

What they show, in short:

- Statuses are true: an OK restore happened, a refused call did nothing and will do
  nothing. No crash, late effect or lost reply removes a pre-restore copy, or a
  backup that has not `keep` newer ones.
- A Drive call sleeps and retries within its bounds, never repeats an upload, and
  returns. A download that returned Ok is what its last attempt received.
- A listing that ends well misses no backup that was there all the time, unless a
  token is a position and somebody else removes files. Then retention may also count
  a shifted backup twice, and each file that arrives can cost one kept backup.
  `RetentionKeeps` states exactly that allowance.
- A stream that ends without an error is the whole file. One that is cut anywhere is
  a beginning of it, and no temporary file of a download survives its client. The
  shutdown ends, also when the signal meets a call that has yet to open its stream,
  unless a client that stops reading without leaving holds one open for ever.
- A restore is all or nothing. One that returned an error may have happened, or may
  still happen if its COMMIT was sent, also when `pg_restore` was killed from outside
  and the error is `Process`. It cannot undo a later one that returned Ok.
- A server runs on the values it was given. The one exception is a value that is not
  Unicode: it looks unset, so an optional key silently gets its default, and with
  `DRIVE_RETENTION_COUNT` nothing is pruned (`settings.rs:39`).

Bounds. Two calls are enough for a conflict on the lock and for a reader beside a
writer. Three let a late upload or delete of one call meet the listing of a second
and the result of a third. The folders hold what the code tells apart: a legacy
file, a file without properties, a pre-restore copy, unknown kinds and formats, a
foreign file and a trashed one. Pages are small so that a listing takes several
and `MaxPages` is exceeded. In `service`, `latest` looks at one file only, so that
it gives up at the start. Four attempts let the delay reach its cap and stay there;
three are enough for the writes of two broken attempts to meet the file of the last.
Three chunks and the header overfill a channel of two. Three calls of `PgTools` let
an abandoned restore meet another restore and then a dump. `MaxWrites`,
`MaxCrashes`, `MaxArrivals`, `MaxRemovals` and `MaxCalls` bound the environment. The
proofs hold for every value of the constants that remain in them.

Fairness. Each liveness property rests on weak fairness of what the runtime does:

- `WritersFinish`: `Progress(c)`, an await with a timeout ends. Every wait of a
  writer for PostgreSQL or Drive has one: `command_timeout`, `request_timeout`,
  `upload_timeout`, and `read_idle_timeout` between the frames of a download. Local
  file I/O has none and is assumed to end. Streaming depends on the client and is
  not assumed to end.
- `CallEnds` of `DriveCall` and `DownloadEnds`: the timer of the current wait fires.
  Drive itself owes nothing.
- `CallEnds` of `PgTools`: `tokio::time::timeout` fires, or an ended child is
  noticed. The child and the server owe nothing.
- `DownloadStream`: a task that can go on is run, `service.download` comes back (its
  waits have the timeouts of Drive's calls, local I/O is assumed to end), the clients
  in `Readers` keep reading, and the server exits once it can.

## Where the code and its documentation differ

- `stale_copy`: the application can write between the dump of the pre-restore copy
  (`service.rs:193`) and the commit of `pg_restore` (`service.rs:196`). That data
  is in no copy. `README.md:10-11` says that the current database is uploaded.
- `late_commit`: a restore that failed, timed out or was dropped frees the lock, and a
  COMMIT in flight still replaces the database. `service.rs:42` says that the lock
  serializes operations that overwrite it.
- `temp_leak`: `File::create` (`backup-gdrive/src/storage.rs:122`, and
  `compression.rs:11`) runs on the blocking pool and survives a dropped call. It
  can recreate the file after its removal. `service.rs:152` says that the file is
  removed on drop.

These are results about the models. None was reproduced on the running server.

## Proofs

The theorems hold for all values of the constants under the named assumptions of
each module. The ones that carry weight are `InitFilesAssumption` of
`BackupService` (the folder is finite, ids are distinct, and ids and creation times
agree) and `FoldersAssumption` of `BackupListing` (the same without the last part,
and files that arrive get new ids).

- `BackupServiceProofs`. `TypeCorrect` and `LockCorrect` are inductive.
  `SafetyCopyCorrect` and `OverwritesCorrect` are not, as `SafetyCopyStored` does
  not say what retention may delete. `SafetyInv` adds that every id picked, or left
  to Drive to delete, belongs to a regular file, and that listed entries agree with
  the files they came from.
- `CallProofs`. `StatusCorrect`, `AskedCorrect`, `TempFilesCorrect`: `CallInv` says of each call
  what it has done by the await it is in, what a restore knows of the backup it was
  asked for, and where its files may be. A step of one call leaves this alone for
  the others. New files on Drive never take the id that a restore has resolved, by
  `IdsOrdered` of `SafetyInv`.
- `RetentionProofs`. `RetentionCorrect`, `LatestCorrect`: a file is doomed from when
  retention picks it until its delete is done or given up. `RetentionInv` says that
  every doomed file has `keep` newer regular files that are not doomed. It also says
  that a listing in progress has missed no regular file older than the backup just
  stored, so its choice at the last page is sound although the folder changed
  between the pages.
- `DriveCallProofs`. `BackoffCorrect`, and `PortCorrect` for the refinement of
  `StoragePort`. The invariant relates the wire to the attempts: an upload has one
  request, which is on the wire, done or lost, and a good reply means that it is done.
- `DownloadProofs`. `AcceptedIsReceivedCorrect`, `DownloadIntactCorrect` for
  `DriveDownload`: every block of the file is the one received, is with the pool, or
  was left by an earlier attempt. Nothing is with the pool after the flush.
  `StreamWholeCorrect`, `ReceivedInOrderCorrect` for `DownloadStream`: what a client
  got, followed by what waits in its channel, are the first messages of the stream,
  and how many there are follows from where the task is.
- `PgToolsProofs`. The four safety properties of `PgTools`, and `DatabaseCorrect`
  for the refinement of `DatabasePort`. The invariant says that an abandoned session
  and the current one never hold the same object, since the server's locks keep them
  apart. So a commit that comes late comes before anything the current session does.
  The session of the current call can be among the abandoned ones once its child was
  lost, and then the call cannot return Ok.
  `TailCorrect` is about `StderrTail`. Its invariant says that no boundary lies
  between the cut and where the loop has got to, and that the loop stops at the end of
  the text at the latest.
  `SettingsUsableCorrect`, `SettingsAsGivenCorrect` are about `Startup`. The invariant
  says of the keys read so far that they were good and that each number given is in
  `settings`, and of the others that `settings` has their defaults. The environment
  may hold any integers, and any set of keys may be set to what is not Unicode.
- `ListingPages`, `ListingProofs`. All six properties of `BackupListing`. The first
  module has the invariant and the proof for a page of the listing, the second the
  other steps and the theorems. The argument has three parts.
  - Finite sets in a strict order: ranks are distinct, the `n` lowest members are
    `n`, and taking `a` and then `n` of the rest takes `a + n`. With `Before` these
    are facts on pages, with `Ahead` facts on `retention_candidates`.
  - `Advance`: behind a page both kinds of token lead to exactly the files that were
    left. The invariant speaks of `Past`, the files the listing has left behind, so
    that most of it is the same for both. It says that those of them that were there
    all the time are listed (`CompleteInv`, `LatestInv`), that a file before a listed
    one is listed no later (`OrderInv`), and that a cursor only moves forward
    (`CursorInv`).
  - What a position costs: an arrival pushes at most one listed file behind it, and
    only a pushed file is listed again. So repetitions and pushed files together
    never outnumber the arrivals (`PositionInv`). `RetentionKeepsCorrect` pays for
    every kept entry that stands for no backup of its own with one repetition.

The type invariant is proved for every module that has one. Only model-checked: the
liveness properties (`WritersFinish`, `CallEnds`, `DownloadEnds`, `FileRemoved`,
`StreamEnds`, `ShutdownEnds`), since liveness under fairness is beyond the prover.

`CandidatesAreTheSet` is about cursors. With positions a backup can be listed twice.
Even where none is, backups of equal creation time can come in another order than
that of their ids: a removal and two arrivals during one listing are enough.
`RetentionKeeps` says what remains true then.

## Assumptions and limits

- In `BackupService`, Drive numbers files in the order of creation, so creation times
  never tie, and a page token stands for the last file of its page, so no file is
  listed twice. The retention proofs rest on this. `BackupListing` drops both.
- A listing shows every file created before it, and the folder exists.
- In `BackupService` a Storage call is one step with its outcome after all retries,
  and `latest` reads its pages at one instant. `DriveCall`, `DriveDownload` and
  `BackupListing` take these steps apart.
- A late delete can be done at any time, once. The open transaction of a killed
  `pg_restore` may commit or roll back.
- `DownloadIntact` has an exception. A damaged block that a broken attempt left to
  the blocking pool may be written after the checksum of a later attempt. Without a
  damaged block the late write puts the right content in its place.
- In `BackupService` a fetched file is the stored one. The code checks that only when
  Drive sends an md5 (`backup-gdrive/src/storage.rs:151`), which `DriveDownload` tells
  apart.
- `StderrTail` has blanks of one byte only.
- The runs about retention use `keep` 2. Its properties for `keep` 1 rest on the
  proofs.
- A request under way on an open connection is taken as accepted after the signal too
  (hyper drains a connection, it does not cut it).
- `PgTools` takes PostgreSQL's locking and atomic commits as given, and a ping
  beside a dump or a restore as touching nothing.

## Not modelled

- Logging, the clock (it only names files), the names of files, and `Secret` (it
  hides text from logs): none of it changes the state.
- The message types and the generated code of the protocol.
- `GetBackup` and `Healthcheck` only read. Their parts are covered: `get` in
  `DriveCall`, `ping` in `PgTools`.
- The graceful shutdown waits for the other RPCs too. They end within their timeouts,
  as `WritersFinish` says of the writers.
- `DATA_FOLDER` has no check of its own. `PgTools::query` has no caller with another
  statement than `SELECT 1`.
- The TLS connector and the authenticator of the Drive client are library code and
  appear as one step that may fail.
- `FakeStorage` and the other doubles serve the tests only. The positional page
  token of `BackupListing` is taken from it as the second reading.
