--------------------------- MODULE MCBackupService ---------------------------
(* Small instances of BackupService for TLC. *)
EXTENDS BackupService, TLC

CONSTANTS c1, c2, c3

TwoCalls == {c1, c2}
ThreeCalls == {c1, c2, c3}

\* Calls are interchangeable.
Symmetry == Permutations(Calls)

File(id, ext, format, kind) ==
    [id |-> id, created_at |-> id, ext |-> ext, format |-> format,
     kind |-> kind, in_folder |-> TRUE, trashed |-> FALSE, content |-> id]

\* A legacy dump, a pg_dump from before the properties, an old safety copy.
MixedFolder ==
    {File(1, "dump", "none", "none"), File(2, "pgdump", "none", "none"),
     File(3, "pgdump", "pg_custom", "pre_restore")}

\* The same behind a newer file that is no backup: with a window of one file
\* `latest' gives up until a backup is made.
ForeignFolder == MixedFolder \cup {File(4, "other", "none", "none")}

\* Regular backups among files that retention must step over: an unknown kind,
\* an unknown format, a file that is no backup, one in the trash.
CrowdedFolder ==
    {File(1, "pgdump", "pg_custom", "regular"), File(2, "pgdump", "pg_custom", "other"),
     File(3, "dump", "none", "none"), File(4, "pgdump", "none", "none"),
     File(5, "pgdump", "other", "regular"), File(6, "other", "none", "none"),
     [File(7, "pgdump", "pg_custom", "regular") EXCEPT !.trashed = TRUE]}
=============================================================================
