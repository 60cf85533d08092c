---------------------------- MODULE BackupListing ----------------------------
(***************************************************************************)
(* The three walks over the pages of a Drive listing, while others add     *)
(* files to the folder and remove files from it:                           *)
(*                                                                         *)
(*   - "prune": list_all of the service, then the removal of the           *)
(*     retention candidates (prune_old_backups);                           *)
(*   - "latest": Storage::latest;                                          *)
(*   - "client": a client that calls ListBackups page by page.             *)
(*                                                                         *)
(* Drive does not say what a page token stands for when the folder changes *)
(* between two pages.  Both readings are explored: a "cursor" names the    *)
(* last file listed, a "position" the number of files listed (as the       *)
(* FakeStorage of the service's tests has it).                             *)
(***************************************************************************)
EXTENDS Integers, FiniteSets, BackupCatalog

CONSTANTS
    MaxPageSize,      \* MAX_PAGE_SIZE, also the page size of list_all
    DefaultPageSize,
    MaxPages,         \* MAX_RETENTION_PAGES, LATEST_MAX_PAGES; a client's patience
    LatestPageSize,
    Keep,             \* DRIVE_RETENTION_COUNT
    Folders,          \* the folders a walk may find
    MaxId,            \* the highest id and the latest creation time in them
    MaxArrivals, MaxRemovals  \* bounds of the model

ASSUME ListingAssumption ==
    /\ {MaxPageSize, MaxPages, LatestPageSize, Keep} \subseteq Nat \ {0}
    /\ DefaultPageSize \in 1..MaxPageSize
    /\ {MaxId, MaxArrivals, MaxRemovals} \subseteq Nat

ASSUME FoldersAssumption ==
    \A folder \in Folders :
      /\ folder \subseteq DriveFiles /\ IsFiniteSet(folder)
      /\ \A f \in folder : f.id <= MaxId /\ f.created_at <= MaxId
      /\ \A f, g \in folder : f.id = g.id => f = g

VARIABLES
    tokens,    \* what a page token stands for
    files,     \* the files of the folder
    op, size,  \* the walk and the page size it asks for
    stage,     \* "list", "delete", "end"
    pages,     \* pages received
    token,     \* the next page_token
    all,       \* the backups collected, each with the page it came on
    doomed,    \* the retention candidates not removed yet
    outcome,   \* "none", "Ok", "error"
    start, kept, arrived, removed, deleted  \* history, see Init

walk == <<op, size, stage, pages, token, all, doomed, outcome>>

history == <<start, kept, arrived, removed, deleted>>

vars == <<tokens, files, walk, history>>

----------------------------------------------------------------------------
\* A file in the folder: a backup, a copy, a legacy backup or something else.
Classes == {"regular", "pre_restore", "legacy", "alien"}

FileOf(id, time, class) ==
    [id |-> id, created_at |-> time,
     ext |-> CASE class = "alien" -> "other" [] class = "legacy" -> "dump" [] OTHER -> "pgdump",
     format |-> IF class \in {"regular", "pre_restore"} THEN "pg_custom" ELSE "none",
     kind |-> IF class = "pre_restore" THEN "pre_restore" ELSE "none",
     in_folder |-> TRUE, trashed |-> FALSE, content |-> 0]

\* A page token.  `last' is the last file listed, if there is one; `offset'
\* the number of files listed.
NoToken == [last |-> {}, offset |-> 0]

\* The files from a token on.
From(t, matches) ==
    IF tokens = "cursor" THEN {f \in matches : \A l \in t.last : Before(l, f)}
                         ELSE matches \ First(matches, t.offset)

\* The token behind a page of n files.
Behind(t, page, n) ==
    [last |-> IF n = 0 THEN t.last ELSE {f \in page : \A g \in page : g = f \/ Before(g, f)},
     offset |-> t.offset + n]

\* Mutant: page_size 0 is passed on.
ClampPageSizeKeepingZero(n) == IF n > MaxPageSize THEN MaxPageSize ELSE n

\* The page size of ListBackups.
ClampPageSize(n) ==
    IF n = 0 THEN DefaultPageSize
    ELSE IF n > MaxPageSize THEN MaxPageSize ELSE n

\* What list_once keeps of a page.
Items(page) == {f \in page : IsBackup(f)}

\* A backup as ListBackups shows it: the enumerations of the protocol.
ProtoInfo(b) ==
    [b EXCEPT !.format = IF @ = "pg_custom" THEN "PG_CUSTOM" ELSE "LEGACY_JSON_ZSTD",
              !.kind = IF @ = "regular" THEN "REGULAR" ELSE "PRE_RESTORE"]

\* A backup as the walk gets to see it.
Shown(f) == IF op = "client" THEN ProtoInfo(ToBackupInfo(f)) ELSE ToBackupInfo(f)

\* The entries that a page adds to the vector.  A file that is listed on two
\* pages has two entries.
Entries(backups) == {[page |-> pages + 1, info |-> Shown(f)] : f \in backups}

\* The order of the entries after the stable sort by Reverse(created_at):
\* equal ones stay as they were listed, page by page.
Ahead(d, e) ==
    \/ d.info.created_at > e.info.created_at
    \/ /\ d.info.created_at = e.info.created_at
       /\ d.page < e.page \/ (d.page = e.page /\ d.info.id < e.info.id)

\* Mutant: one entry too few is skipped.
CandidatesOffByOne(entries, keep) ==
    LET prunable == {e \in entries : IsPrunable(e.info)}
    IN  {e \in prunable : Cardinality({d \in prunable : Ahead(d, e)}) >= keep - 1}

\* retention_candidates on the vector: filter, sort, skip(keep).  A backup
\* that was listed twice counts twice.
Candidates(entries, keep) ==
    LET prunable == {e \in entries : IsPrunable(e.info)}
    IN  {e \in prunable : Cardinality({d \in prunable : Ahead(d, e)}) >= keep}

----------------------------------------------------------------------------
Query == IF op = "latest" THEN LatestQuery(files) ELSE FolderQuery(files)

\* The walk is over.
Finish(how) == stage' = "end" /\ outcome' = how

\* Mutant: a page without backups ends the walk.
NextPageNonEmpty(page, last) ==
    LET end == last \/ Items(page) = {}
    IN  /\ all' = all \cup Entries(Items(page))
        /\ \/ end /\ op = "prune" /\ stage' = "delete" /\ UNCHANGED outcome
           \/ end /\ op # "prune" /\ Finish("Ok")
           \/ ~end /\ pages + 1 = MaxPages /\ Finish("error")
           \/ ~end /\ pages + 1 < MaxPages /\ UNCHANGED <<stage, outcome>>

\* The loop of list_all, and of a client: collect, go on while there is a
\* token, give up after MaxPages pages.
NextPage(page, last) ==
    /\ all' = all \cup Entries(Items(page))
    /\ \/ last /\ op = "prune" /\ stage' = "delete" /\ UNCHANGED outcome
       \/ last /\ op # "prune" /\ Finish("Ok")
       \/ ~last /\ pages + 1 = MaxPages /\ Finish("error")
       \/ ~last /\ pages + 1 < MaxPages /\ UNCHANGED <<stage, outcome>>

\* Mutant: only the first page is looked at.
LatestPageOnce(page, last) ==
    /\ all' = Entries(First(Items(page), 1))
    /\ Finish("Ok")

\* The loop of latest: the first item of the first page that has one.
LatestPage(page, last) ==
    /\ all' = Entries(First(Items(page), 1))
    /\ \/ (Items(page) # {} \/ last) /\ Finish("Ok")
       \/ Items(page) = {} /\ ~last /\ pages + 1 = MaxPages /\ Finish("error")
       \/ Items(page) = {} /\ ~last /\ pages + 1 < MaxPages /\ UNCHANGED <<stage, outcome>>

\* Mutant: the token of the answer is not passed on.
ListPageRestarting ==
    /\ stage = "list"
    /\ LET rest == From(token, Query)
       IN  \E n \in 0..size :
             LET page == First(rest, n)
                 last == n = Cardinality(rest)
             IN  /\ n <= Cardinality(rest)
                 /\ IF op = "latest" THEN LatestPage(page, last) ELSE NextPage(page, last)
    /\ pages' = pages + 1
    /\ doomed' = IF stage' = "delete" THEN Candidates(all', Keep) ELSE {}
    /\ UNCHANGED <<tokens, files, op, size, token, history>>

\* One page: Drive answers with at most `size' files, fewer if it likes, and
\* with a token unless it has reached the end.
ListPage ==
    /\ stage = "list"
    /\ LET rest == From(token, Query)
       IN  \E n \in 0..size :
             LET page == First(rest, n)
                 last == n = Cardinality(rest)
             IN  /\ n <= Cardinality(rest)
                 /\ token' = Behind(token, page, n)
                 /\ IF op = "latest" THEN LatestPage(page, last) ELSE NextPage(page, last)
    /\ pages' = pages + 1
    /\ doomed' = IF stage' = "delete" THEN Candidates(all', Keep) ELSE {}
    /\ UNCHANGED <<tokens, files, op, size, history>>

\* list fails; the retention is skipped then.
ListFails ==
    /\ stage = "list" /\ Finish("error")
    /\ UNCHANGED <<tokens, files, op, size, pages, token, all, doomed, history>>

\* The first of the candidates that are left.
IsNext(d) == d \in doomed /\ \A e \in doomed : e = d \/ Ahead(d, e)

\* The removal of the next candidate; a failure is only logged.  A file that
\* is gone already counts as removed.
Delete ==
    /\ stage = "delete"
    /\ \E d \in doomed :
         /\ IsNext(d)
         /\ LET gone == {f \in files : f.id = d.info.id}
            IN  files' = files \ gone /\ deleted' = deleted \cup gone
         /\ doomed' = doomed \ {d}
    /\ UNCHANGED <<tokens, op, size, stage, pages, token, all, outcome>>
    /\ UNCHANGED <<start, kept, arrived, removed>>

\* Mutant: the first failure ends the removals.
DeleteFailsStopping ==
    /\ stage = "delete"
    /\ \E d \in doomed :
         IsNext(d) /\ doomed' = {} /\ kept' = kept \cup {d.info.id}
    /\ UNCHANGED <<tokens, files, op, size, stage, pages, token, all, outcome>>
    /\ UNCHANGED <<start, arrived, removed, deleted>>

DeleteFails ==
    /\ stage = "delete"
    /\ \E d \in doomed :
         IsNext(d) /\ doomed' = doomed \ {d} /\ kept' = kept \cup {d.info.id}
    /\ UNCHANGED <<tokens, files, op, size, stage, pages, token, all, outcome>>
    /\ UNCHANGED <<start, arrived, removed, deleted>>

PruneEnds ==
    /\ stage = "delete" /\ doomed = {} /\ Finish("Ok")
    /\ UNCHANGED <<tokens, files, op, size, pages, token, all, doomed, history>>

----------------------------------------------------------------------------
\* Somebody else stores a file, newer than or as new as the newest one.
OthersStore ==
    /\ arrived < MaxArrivals /\ stage # "end"
    /\ \E class \in Classes, time \in {MaxId + arrived, MaxId + arrived + 1} :
         files' = files \cup {FileOf(MaxId + arrived + 1, time, class)}
    /\ arrived' = arrived + 1
    /\ UNCHANGED <<tokens, walk, start, kept, removed, deleted>>

\* Somebody else removes a file.
OthersRemove ==
    /\ Cardinality(removed) < MaxRemovals /\ stage # "end"
    /\ \E f \in files : files' = files \ {f} /\ removed' = removed \cup {f}
    /\ UNCHANGED <<tokens, walk, start, kept, arrived, deleted>>

Init ==
    /\ tokens \in {"cursor", "position"}
    /\ files \in Folders
    /\ \/ op = "prune" /\ size = MaxPageSize
       \/ op = "latest" /\ size = LatestPageSize
       \/ op = "client" /\ \E n \in 0..MaxPageSize + 1 : size = ClampPageSize(n)
    /\ stage = "list" /\ pages = 0 /\ token = NoToken /\ all = {}
    /\ doomed = {} /\ outcome = "none"
    /\ start = files   \* the folder when the walk began
    /\ kept = {}       \* candidates whose removal failed
    /\ arrived = 0     \* files that others stored since
    /\ removed = {}    \* files that others removed since
    /\ deleted = {}    \* files that the retention removed

Done == stage = "end" /\ UNCHANGED vars

Next ==
    \/ ListPage \/ ListFails
    \/ Delete \/ DeleteFails \/ PruneEnds
    \/ OthersStore \/ OthersRemove
    \/ Done

Spec == Init /\ [][Next]_vars

----------------------------------------------------------------------------
\* The type of the state.
TypeOK ==
    /\ tokens \in {"cursor", "position"}
    /\ files \subseteq DriveFiles
    /\ op \in {"prune", "latest", "client"}
    /\ size \in 1..MaxPageSize \cup {LatestPageSize}
    /\ stage \in {"list", "delete", "end"}
    /\ pages \in 0..MaxPages
    /\ all \subseteq [page : 1..MaxPages,
                      info : BackupInfo \cup [id : Nat, created_at : Nat,
                                              format : {"PG_CUSTOM", "LEGACY_JSON_ZSTD"},
                                              kind : {"REGULAR", "PRE_RESTORE"}]]
    /\ doomed \subseteq [page : 1..MaxPages, info : BackupInfo]
    /\ outcome \in {"none", "Ok", "error"}

Throughout == start \ removed

\* No walk that ends well misses a backup that was there all the time: not
\* behind a page of foreign files, not when files arrive between two pages.
\* Only a position that somebody else's removal has shifted can skip one.  A
\* client can tell the pre-restore copies and the legacy backups.
ListingComplete ==
    outcome = "Ok" /\ op # "latest" /\ (tokens = "cursor" \/ removed = {}) =>
      \A f \in Throughout :
        IsInFolder(f) /\ IsBackup(f) =>
          \E e \in all :
            /\ e.info.id = f.id /\ e.info.created_at = f.created_at
            /\ op = "client" =>
                 /\ e.info.kind = "PRE_RESTORE" <=> f.kind = "pre_restore"
                 /\ e.info.format = "PG_CUSTOM" <=>
                      f.format = "pg_custom" \/ (f.format = "none" /\ f.ext = "pgdump")

\* latest answers with a backup that is no pre-restore copy, at least as new
\* as every other one that was there all the time, and says "no backups" only
\* if there was none.
LatestIsNewest ==
    outcome = "Ok" /\ op = "latest" =>
      /\ \A e \in all : e.info.kind = "regular"
      /\ tokens = "cursor" \/ removed = {} =>
           \A f \in Throughout :
             IsInFolder(f) /\ IsBackup(f) /\ ParseKind(f.kind) = "regular" =>
               \E e \in all : e.info.created_at >= f.created_at

\* Retention removes a backup only if `Keep' regular backups at least as new
\* stay, those aside that others removed.  When a token is a position, each
\* file that arrives during the listing may cost one of them: the backup it
\* shifts to the next page is listed, and counted, twice.
RetentionKeeps ==
    \A d \in deleted :
      Cardinality({f \in RegularBackups(files \cup removed) : f.created_at >= d.created_at})
        + (IF tokens = "position" THEN arrived ELSE 0) >= Keep

\* Retention catches up: it leaves no backup behind that had `Keep' newer
\* ones when the listing began, unless its removal failed or others removed
\* files meanwhile.
RetentionCatchesUp ==
    outcome = "Ok" /\ op = "prune" /\ removed = {} =>
      \A f \in RegularBackups(files) \cap start :
        f.id \in kept \/ f \in First(RegularBackups(start), Keep)

\* Where a token is a cursor the vector has no repetitions, and the candidates
\* are the set that the other modules use, ties in created_at included.
CandidatesAreTheSet ==
    tokens = "cursor" /\ op = "prune" =>
      /\ \A d, e \in all : d.info.id = e.info.id => d = e
      /\ {e.info : e \in Candidates(all, Keep)} =
           RetentionCandidates({e.info : e \in all}, Keep)
=============================================================================
