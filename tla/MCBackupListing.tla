--------------------------- MODULE MCBackupListing ---------------------------
(* Small instances of BackupListing for TLC. *)
EXTENDS BackupListing

\* Every folder of `MaxId' files, with and without equal creation times.
SmallFolders ==
    {{FileOf(i, IF ties THEN (i + 1) \div 2 ELSE i, class[i]) : i \in 1..MaxId} :
       class \in [1..MaxId -> Classes], ties \in BOOLEAN}
=============================================================================
