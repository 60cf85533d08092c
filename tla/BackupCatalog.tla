---------------------------- MODULE BackupCatalog ----------------------------
(***************************************************************************)
(* What the service makes of the files it finds on Google Drive: which     *)
(* files are backups, which one is the latest, which ones retention may    *)
(* remove.  Pure definitions, shared by the state machines of the project. *)
(*                                                                         *)
(* Names, checksums and sizes are left out.  Of a file's name only its     *)
(* extension matters, and of its appProperties only `format' and `kind';   *)
(* "none" stands for a property that is not set and "other" for a value    *)
(* the program does not know.                                              *)
(***************************************************************************)
EXTENDS Naturals, FiniteSets

\* BackupFormat and BackupKind, by the strings as_str gives them.
Formats == {"pg_custom", "legacy_json_zstd"}

Kinds == {"regular", "pre_restore"}

\* A file as Drive holds it.  `content' is the database content it carries.
DriveFiles ==
    [id : Nat, created_at : Nat, ext : {"pgdump", "dump", "other"},
     format : Formats \cup {"none", "other"},
     kind : Kinds \cup {"none", "other"},
     in_folder : BOOLEAN, trashed : BOOLEAN, content : Nat]

BackupInfo ==
    [id : Nat, created_at : Nat, format : Formats, kind : Kinds]

----------------------------------------------------------------------------
\* The format property wins; a file without it is classified by extension.
DetectFormat(ext, property) ==
    CASE property \in Formats -> property
      [] property = "other" -> "error"
      [] property = "none" /\ ext = "pgdump" -> "pg_custom"
      [] property = "none" /\ ext = "dump" -> "legacy_json_zstd"
      [] OTHER -> "error"

\* BackupKind::parse: files without the property predate it.
ParseKind(property) ==
    CASE property \in Kinds -> property
      [] property = "none" -> "regular"
      [] OTHER -> "error"

\* to_backup_info succeeds on f.
IsBackup(f) ==
    /\ DetectFormat(f.ext, f.format) # "error"
    /\ ParseKind(f.kind) # "error"

ToBackupInfo(f) ==
    [id |-> f.id, created_at |-> f.created_at,
     format |-> DetectFormat(f.ext, f.format), kind |-> ParseKind(f.kind)]

\* The file that an upload of a pg_dump of `kind' creates, under the id and
\* the creation time Drive gives it.
UploadMetadata(kind, content, id) ==
    [id |-> id, created_at |-> id, ext |-> "pgdump", format |-> "pg_custom",
     kind |-> kind, in_folder |-> TRUE, trashed |-> FALSE, content |-> content]

----------------------------------------------------------------------------
IsInFolder(f) == f.in_folder /\ ~f.trashed

\* Mutant: `latest' forgets to leave out the pre-restore copies.
LatestQueryAllKinds(files) == {f \in files : IsInFolder(f)}

\* folder_query and latest_query: what the two Drive queries select.  The
\* second one looks at the raw property, before any parsing.
FolderQuery(files) == {f \in files : IsInFolder(f)}

LatestQuery(files) == {f \in FolderQuery(files) : f.kind # "pre_restore"}

\* NEWEST_FIRST.  Drive leaves the order of equal creation times open; the
\* id decides here.
Before(f, g) ==
    \/ f.created_at > g.created_at
    \/ f.created_at = g.created_at /\ f.id < g.id

\* The first n members of S, newest first.
First(S, n) == {f \in S : Cardinality({g \in S : Before(g, f)}) < n}

\* The backups retention looks at: the filter of retention_candidates.
IsPrunable(b) == b.kind = "regular" /\ b.format = "pg_custom"

\* Mutant: one backup too few is skipped.
RetentionCandidatesOffByOne(backups, keep) ==
    LET prunable == {b \in backups : IsPrunable(b)}
    IN  prunable \ First(prunable, keep - 1)

\* Mutant: sorted by created_at instead of Reverse(created_at).
RetentionCandidatesOldestKept(backups, keep) ==
    LET prunable == {b \in backups : IsPrunable(b)}
    IN  {b \in prunable : Cardinality({g \in prunable : Before(b, g)}) >= keep}

\* A set of BackupInfo stands for the vector.  list_all does not look for
\* repeated entries: that there are none is an assumption on Drive's page
\* tokens (Unlisted in BackupService).  Sorting by Reverse(created_at) and
\* skipping `keep' then leaves all but the first `keep'.
RetentionCandidates(backups, keep) ==
    LET prunable == {b \in backups : IsPrunable(b)}
    IN  prunable \ First(prunable, keep)

\* The stored files that retention counts: its `keep' is about these.
RegularBackups(files) ==
    {f \in FolderQuery(files) : IsBackup(f) /\ IsPrunable(ToBackupInfo(f))}

\* Storage::latest with the `window' (pages times page size) it looks into:
\* the files it may return (none or one).
LatestHits(files, window) ==
    LET hits == {f \in First(LatestQuery(files), window) : IsBackup(f)}
    IN  First(hits, 1)

\* latest gives up with an error instead of "no backups": there are more
\* files behind the window.
LatestGivesUp(files, window) ==
    First(LatestQuery(files), window) # LatestQuery(files)
=============================================================================
