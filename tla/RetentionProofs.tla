--------------------------- MODULE RetentionProofs ---------------------------
(***************************************************************************)
(* Retention never removes one of the `keep' newest regular backups.       *)
(***************************************************************************)
EXTENDS BackupServiceProofs, FiniteSetTheorems

USE RetentionAssumption

----------------------------------------------------------------------------
(* Lists ordered newest first. *)

\* A set of naturals that is not empty has a least element.
LEMMA LeastNat ==
    ASSUME NEW T \in SUBSET Nat, T # {}
    PROVE  \E x \in T : \A y \in T : x <= y
<1>. DEFINE R == {ss \in Nat \X Nat : ss[1] < ss[2]}
<1>1. IsWellFoundedOn(R, Nat)
  BY NatLessThanWellFounded DEF OpToRel
<1>. HIDE DEF R
<1>2. PICK x \in T : \A y \in T : ~(<<y, x>> \in R)
  BY <1>1, WFMin
<1>3. ASSUME NEW y \in T PROVE x <= y
  <2>1. x \in Nat /\ y \in Nat
    OBVIOUS
  <2>2. ~(y < x)
    BY <1>2, <2>1 DEF R
  <2>. QED  BY <2>1, <2>2
<1>. QED  BY <1>2, <1>3

\* Files or backups under Drive's numbering: distinct ids below `bound', and
\* creation times that agree with them.
Numbered(S, bound) ==
    /\ IsFiniteSet(S)
    /\ bound \in Nat
    /\ \A f \in S : f.id \in Nat /\ f.id < bound /\ f.created_at = f.id
    /\ \A f, g \in S : f.id = g.id => f = g

\* A set that is not empty has a newest member.
LEMMA NewestExists ==
    ASSUME NEW S, NEW bound, Numbered(S, bound), S # {}
    PROVE  \E e \in S : \A g \in S : g.id <= e.id
<1>. DEFINE T == {bound - f.id : f \in S}
<1>1. T \in SUBSET Nat /\ T # {}
  BY DEF Numbered
<1>. HIDE DEF T
<1>2. PICK x \in T : \A y \in T : x <= y
  BY <1>1, LeastNat
<1>3. PICK e \in S : x = bound - e.id
  BY <1>2 DEF T
<1>4. ASSUME NEW g \in S PROVE g.id <= e.id
  <2>1. bound - g.id \in T
    BY DEF T
  <2>. QED  BY <1>2, <1>3, <2>1 DEF Numbered
<1>. QED  BY <1>4

\* First(S, n) has n members, unless S has fewer.
LEMMA FirstSize ==
    ASSUME NEW S, NEW bound, Numbered(S, bound), NEW n \in Nat, Cardinality(S) >= n
    PROVE  Cardinality(First(S, n)) >= n
<1>. SUFFICES ASSUME ~(Cardinality(First(S, n)) >= n) PROVE FALSE
  OBVIOUS
<1>. DEFINE F == First(S, n)
<1>1. F \in SUBSET S
  BY DEF First
<1>2. IsFiniteSet(F) /\ Cardinality(F) \in Nat /\ Cardinality(S) \in Nat
  BY <1>1, FS_Subset, FS_CardinalityType DEF Numbered
<1>3. Cardinality(F) < n
  BY <1>2
<1>4. S \ F # {}
  <2>1. S # F
    BY <1>2, <1>3
  <2>. QED  BY <1>1, <2>1
<1>5. Numbered(S \ F, bound)
  BY FS_Difference, FS_Subset DEF Numbered
<1>6. PICK e \in S \ F : \A g \in S \ F : g.id <= e.id
  BY <1>4, <1>5, NewestExists
<1>. DEFINE B == {g \in S : Before(g, e)}
<1>7. B \in SUBSET F
  BY <1>6 DEF Before, Numbered
<1>8. Cardinality(B) <= Cardinality(F) /\ Cardinality(B) \in Nat
  BY <1>2, <1>7, FS_Subset, FS_CardinalityType
<1>9. Cardinality(B) < n
  BY <1>2, <1>3, <1>8
<1>. QED  BY <1>6, <1>9 DEF First

\* Whatever is at least as new as one of the first n is among them too.
LEMMA FirstUpward ==
    ASSUME NEW S, NEW bound, Numbered(S, bound), NEW n \in Nat,
           NEW m \in First(S, n), NEW f \in S, f.id >= m.id
    PROVE  f \in First(S, n)
<1>. DEFINE BF == {g \in S : Before(g, f)}
            BM == {g \in S : Before(g, m)}
<1>1. m \in S /\ Cardinality(BM) < n
  BY DEF First
<1>2. BF \in SUBSET BM /\ BM \in SUBSET S
  BY <1>1 DEF Before, Numbered
<1>3. /\ Cardinality(BF) <= Cardinality(BM)
      /\ Cardinality(BF) \in Nat /\ Cardinality(BM) \in Nat
  BY <1>2, FS_Subset, FS_CardinalityType DEF Numbered
<1>4. Cardinality(BF) < n
  BY <1>1, <1>3
<1>. QED  BY <1>4 DEF First

\* Where n members are newer than i, the first n are, and there are n of them.
LEMMA FirstAbove ==
    ASSUME NEW S, NEW bound, Numbered(S, bound), NEW n \in Nat, NEW i \in Nat,
           Cardinality({p \in S : p.id > i}) >= n
    PROVE  Cardinality(First(S, n)) >= n /\ \A k \in First(S, n) : k.id > i
<1>. DEFINE A == {p \in S : p.id > i}
<1>1. /\ Cardinality(A) <= Cardinality(S)
      /\ Cardinality(A) \in Nat /\ Cardinality(S) \in Nat
  BY FS_Subset, FS_CardinalityType DEF Numbered
<1>2. Cardinality(First(S, n)) >= n
  BY <1>1, FirstSize
<1>3. ASSUME NEW k \in First(S, n) PROVE k.id > i
  <2>. SUFFICES ASSUME ~(k.id > i) PROVE FALSE
    OBVIOUS
  <2>. DEFINE B == {g \in S : Before(g, k)}
  <2>1. k \in S /\ Cardinality(B) < n
    BY DEF First
  <2>2. A \in SUBSET B /\ B \in SUBSET S
    BY <2>1 DEF Before, Numbered
  <2>3. Cardinality(A) <= Cardinality(B) /\ Cardinality(B) \in Nat
    BY <2>2, FS_Subset, FS_CardinalityType DEF Numbered
  <2>. QED  BY <1>1, <2>1, <2>3
<1>. QED  BY <1>2, <1>3

----------------------------------------------------------------------------
(***************************************************************************)
(* The inductive invariant.  A file is doomed from the moment retention    *)
(* picked it until the delete is done or given up.  What protects the      *)
(* newest files is that whatever is doomed has `keep' newer files that are *)
(* not; and that a listing, however long it takes, sees all regular files  *)
(* older than the backup whose CreateBackup is listing.                    *)
(***************************************************************************)

Doomed(i) == i \in dying \/ \E c \in Calls : pc[c] = "delete" /\ i \in todo[c]

Kept == {g \in RegularBackups(files) : ~Doomed(g.id)}

\* Retention is on and `keep' of the files K lie between i and bound.
Overdue(K, i, bound) ==
    /\ Retention # 0
    /\ Cardinality({g \in K : i < g.id /\ g.id < bound}) >= Retention

\* Where a call is tells which RPC it is and what it has done.
CallShape ==
    \A c \in Calls :
      /\ pc[c] # "done" => result[c] = "none"
      /\ pc[c] \in {"resolve", "fetch", "decompress", "stream", "restore"} =>
           op[c] # "create"
      /\ pc[c] \in {"list", "delete"} =>
           op[c] = "create" /\ Retention # 0 /\ copy[c] # 0
      /\ pc[c] \notin {"list", "delete", "restore", "done"} => copy[c] = 0
      /\ pc[c] \notin {"list", "done"} => token[c] = 0 /\ items[c] = {}
      /\ op[c] = "create" /\ result[c] = "OK" => copy[c] # 0
      /\ copy[c] < next_id

AllNumbered ==
    /\ Numbered(files, next_id)
    /\ \A c \in Calls : Numbered(items[c], next_id)

DoomedOverdue ==
    /\ \A i \in dying : Overdue(Kept, i, next_id)
    /\ \A c \in Calls : pc[c] = "delete" => \A i \in todo[c] : Overdue(Kept, i, next_id)

\* A listing in progress has missed nothing that is older than the backup just
\* stored, and what it lists that is gone, or will be, is overdue anyway.
ListingSound ==
    \A c \in Calls : pc[c] = "list" =>
      /\ \A i \in dying : Overdue(Kept, i, copy[c])
      /\ \A b \in items[c] :
           IsPrunable(b) => Overdue(Kept, b.id, copy[c]) \/ \E f \in files : f.id = b.id
      /\ \A f \in RegularBackups(files) :
           token[c] # 0 /\ token[c] <= f.id /\ f.id < copy[c] =>
             ToBackupInfo(f) \in items[c]

\* A backup that was stored, or a newer one, is kept.
StoredIsKept ==
    \A c \in Calls :
      op[c] = "create" /\ copy[c] # 0 => \E g \in Kept : g.id >= copy[c]

RetentionInv ==
    /\ CallShape
    /\ AllNumbered
    /\ DoomedOverdue
    /\ ListingSound
    /\ StoredIsKept

----------------------------------------------------------------------------
(* CallShape. *)

\* An error is never answered with OK.
LEMMA FailNotOK ==
    ASSUME NEW err \in Errors
    PROVE  ToStatus(err) # "OK"
  BY DEF Errors, ToStatus

\* No step breaks CallShape.
LEMMA CallShapeStep ==
    ASSUME TypeOK, CallShape, [Next]_vars
    PROVE  CallShape'
<1>. USE DEF TypeOK, CallShape, callVars, locals, fetchVars, dumpVars, scanVars, driveVars
<1>1. ASSUME NEW c \in Calls, CreateBackup(c) PROVE CallShape'
  BY <1>1, FailNotOK DEF CreateBackup, Request, Fail, Return, BeginDump, Errors
<1>2. ASSUME NEW c \in Calls, NEW id \in Targets, NEW ok \in BOOLEAN, Restore(c, id, ok) PROVE CallShape'
  BY <1>2, FailNotOK DEF Restore, Request, Fail, Return, Errors
<1>3. ASSUME NEW c \in Calls, NEW id \in Targets, DownloadBackup(c, id) PROVE CallShape'
  BY <1>3 DEF DownloadBackup, Request, Await
<1>4. ASSUME NEW c \in Calls, RejectTarget(c) PROVE CallShape'
  BY <1>4, FailNotOK DEF RejectTarget, Request, Fail, Return, Errors
<1>5. ASSUME NEW c \in Calls, ResolveOk(c) PROVE CallShape'
  BY <1>5, FailNotOK DEF ResolveOk, Fail, Return, Await, Errors
<1>6. ASSUME NEW c \in Calls, ResolveFail(c) PROVE CallShape'
  BY <1>6, FailNotOK, ResolveErrorType DEF ResolveFail, Fail, Return, StorageErrors, Errors
<1>7. ASSUME NEW c \in Calls, FetchOk(c) PROVE CallShape'
  BY <1>7 DEF FetchOk, BeginDump, Await
<1>8. ASSUME NEW c \in Calls, FetchFail(c) PROVE CallShape'
  BY <1>8, FailNotOK DEF FetchFail, Fail, Return, StorageErrors, Errors
<1>9. ASSUME NEW c \in Calls, DecompressOk(c) PROVE CallShape'
  BY <1>9 DEF DecompressOk, Await
<1>10. ASSUME NEW c \in Calls, DecompressFail(c) PROVE CallShape'
  BY <1>10, FailNotOK DEF DecompressFail, Fail, Return, Errors
<1>11. ASSUME NEW c \in Calls, StreamEnd(c) PROVE CallShape'
  BY <1>11 DEF StreamEnd, Return
<1>12. ASSUME NEW c \in Calls, DumpOk(c) PROVE CallShape'
  BY <1>12 DEF DumpOk, Await
<1>13. ASSUME NEW c \in Calls, DumpFail(c) PROVE CallShape'
  BY <1>13, FailNotOK DEF DumpFail, Fail, Return, ToolErrors, Errors
<1>14. ASSUME NEW c \in Calls, UploadOk(c) PROVE CallShape'
  BY <1>14 DEF UploadOk, Return, Await
<1>15. ASSUME NEW c \in Calls, UploadFail(c) PROVE CallShape'
  BY <1>15, FailNotOK DEF UploadFail, Fail, Return, Errors
<1>16. ASSUME NEW c \in Calls, ListPage(c) PROVE CallShape'
  BY <1>16 DEF ListPage, Return, Await, EndListing
<1>17. ASSUME NEW c \in Calls, ListLastPage(c) PROVE CallShape'
  <2>. DEFINE ids == {b.id : b \in RetentionCandidates(ListedWith(c, Unlisted(c)), Retention)}
  <2>. HIDE DEF ids
  <2>1. EndListing(c, ids) /\ (Return(c, "OK") \/ Await(c, "delete"))
    BY <1>17 DEF ListLastPage, ids
  <2>2. pc[c] = "list" /\ UNCHANGED <<op, dumped, copy, next_id>>
    BY <1>17 DEF ListLastPage
  <2>. QED  BY <2>1, <2>2 DEF Return, Await, EndListing
<1>18. ASSUME NEW c \in Calls, ListFail(c) PROVE CallShape'
  BY <1>18 DEF ListFail, Return, EndListing
<1>19. ASSUME NEW c \in Calls, DeleteOk(c) PROVE CallShape'
  BY <1>19 DEF DeleteOk, AfterDelete, Return, Await
<1>20. ASSUME NEW c \in Calls, DeleteFail(c) PROVE CallShape'
  BY <1>20 DEF DeleteFail, AfterDelete, Return, Await
<1>21. ASSUME NEW c \in Calls, RestoreOk(c) PROVE CallShape'
  BY <1>21 DEF RestoreOk, Return
<1>22. ASSUME NEW c \in Calls, RestoreFail(c) PROVE CallShape'
  BY <1>22, FailNotOK DEF RestoreFail, Fail, Return, ToolErrors, Errors
<1>23. ASSUME NEW c \in Calls, Commit(c) PROVE CallShape'
  BY <1>23 DEF Commit
<1>24. ASSUME NEW c \in Calls, Rollback(c) PROVE CallShape'
  BY <1>24 DEF Rollback
<1>25. ASSUME NEW c \in Calls, Cancel(c) PROVE CallShape'
  BY <1>25 DEF Cancel, Return, Abandon
<1>26. ASSUME LateCreate PROVE CallShape'
  BY <1>26 DEF LateCreate
<1>27. ASSUME Crash PROVE CallShape'
  BY <1>27 DEF Crash, Live, Abandon, Awaits
<1>28. ASSUME LandUpload PROVE CallShape'
  BY <1>28 DEF LandUpload
<1>29. ASSUME LandDelete PROVE CallShape'
  BY <1>29 DEF LandDelete
<1>30. ASSUME AppWrite PROVE CallShape'
  BY <1>30 DEF AppWrite
<1>31. ASSUME AllServed PROVE CallShape'
  BY <1>31 DEF AllServed, vars
<1>32. CASE UNCHANGED vars
  BY <1>32 DEF vars
<1>. HIDE DEF TypeOK, CallShape, callVars, locals, fetchVars, dumpVars, scanVars, driveVars
<1>. QED
  BY <1>1, <1>2, <1>3, <1>4, <1>5, <1>6, <1>7, <1>8, <1>9, <1>10, <1>11,
     <1>12, <1>13, <1>14, <1>15, <1>16, <1>17, <1>18, <1>19, <1>20, <1>21,
     <1>22, <1>23, <1>24, <1>25, <1>26, <1>27, <1>28, <1>29, <1>30, <1>31,
     <1>32 DEF Next, Arrive, Progress, Environment

\* Two calls never apply retention at the same time.
LEMMA OneWriter ==
    ASSUME LockOwned, CallShape, NEW c \in Calls, NEW d \in Calls,
           pc[c] \in {"list", "delete"}, pc[d] \in {"list", "delete"}
    PROVE  c = d
  BY DEF LockOwned, CallShape, Live, Writes, Awaits

----------------------------------------------------------------------------
(* Numbering. *)

\* A part of a numbered set is numbered, also below a higher bound.
LEMMA NumberedPart ==
    ASSUME NEW S, NEW b1, NEW b2 \in Nat, Numbered(S, b1), b1 <= b2,
           NEW T \in SUBSET S
    PROVE  Numbered(T, b2)
<1>1. IsFiniteSet(T)
  BY FS_Subset DEF Numbered
<1>. QED  BY <1>1 DEF Numbered

\* Drive numbers a new file.
LEMMA NumberedUpload ==
    ASSUME NEW n \in Nat, Numbered(files, n), NEW kind, NEW content
    PROVE  Numbered(files \cup {UploadMetadata(kind, content, n)}, n + 1)
<1>. DEFINE new == UploadMetadata(kind, content, n)
<1>1. new.id = n /\ new.created_at = n
  BY DEF UploadMetadata
<1>. HIDE DEF new
<1>2. IsFiniteSet(files \cup {new})
  BY FS_AddElement DEF Numbered
<1>3. \A f \in files \cup {new} : f.id \in Nat /\ f.id < n + 1 /\ f.created_at = f.id
  BY <1>1 DEF Numbered
<1>4. \A f, g \in files \cup {new} : f.id = g.id => f = g
  BY <1>1 DEF Numbered
<1>. QED  BY <1>2, <1>3, <1>4 DEF Numbered, new

\* The id of a backup is that of its file.
LEMMA InfoId ==
    ASSUME NEW f
    PROVE  ToBackupInfo(f).id = f.id /\ ToBackupInfo(f).created_at = f.created_at
  BY DEF ToBackupInfo

\* A listing is numbered as the files it was read from.
LEMMA NumberedListing ==
    ASSUME TypeOK, SafetyInv, AllNumbered, NEW c \in Calls,
           NEW page \in SUBSET FolderQuery(files)
    PROVE  Numbered(ListedWith(c, page), next_id)
<1>. DEFINE new == {ToBackupInfo(f) : f \in {g \in page : IsBackup(g)}}
<1>. DEFINE old == {g \in page : IsBackup(g)}
<1>1. IsFiniteSet(old)
  BY FS_Subset DEF AllNumbered, Numbered, FolderQuery
<1>2. IsFiniteSet(new)
  <2>. DEFINE F == [f \in old |-> ToBackupInfo(f)]
  <2>1. F \in Surjection(old, new)
    BY DEF Surjection
  <2>. QED  BY <1>1, <2>1, FS_Surjection DEF ExistsSurjection
<1>3. IsFiniteSet(items[c] \cup new)
  BY <1>2, FS_Union DEF AllNumbered, Numbered
<1>4. ASSUME NEW b \in new
      PROVE  \E f \in files : IsBackup(f) /\ IsInFolder(f) /\ b = ToBackupInfo(f)
  BY DEF FolderQuery
<1>. HIDE DEF new
<1>5. ASSUME NEW b \in items[c] \cup new
      PROVE  b.id \in Nat /\ b.id < next_id /\ b.created_at = b.id
  <2>1. CASE b \in items[c]
    BY <2>1 DEF AllNumbered, Numbered
  <2>2. CASE b \in new
    <3>1. PICK f \in files : b = ToBackupInfo(f)
      BY <1>4, <2>2
    <3>2. b.id = f.id /\ b.created_at = f.created_at
      BY <3>1, InfoId
    <3>. QED  BY <3>2 DEF AllNumbered, Numbered
  <2>. QED  BY <2>1, <2>2
<1>6. ASSUME NEW a \in new, NEW b \in items[c] \cup new, a.id = b.id PROVE a = b
  <2>1. PICK f \in files : IsBackup(f) /\ IsInFolder(f) /\ a = ToBackupInfo(f)
    BY <1>4
  <2>2. f.id = b.id
    BY <1>6, <2>1 DEF ToBackupInfo
  <2>3. CASE b \in items[c]
    BY <2>1, <2>2, <2>3 DEF SafetyInv, ItemsCurrent
  <2>4. CASE b \in new
    <3>1. PICK g \in files : b = ToBackupInfo(g)
      BY <1>4, <2>4
    <3>2. g.id = f.id
      BY <2>2, <3>1 DEF ToBackupInfo
    <3>. QED  BY <2>1, <3>1, <3>2 DEF AllNumbered, Numbered
  <2>. QED  BY <2>3, <2>4
<1>7. \A a, b \in items[c] : a.id = b.id => a = b
  BY DEF AllNumbered, Numbered
<1>8. \A a, b \in items[c] \cup new : a.id = b.id => a = b
  BY <1>6, <1>7
<1>9. Numbered(items[c] \cup new, next_id)
  BY <1>3, <1>5, <1>8 DEF Numbered, TypeOK
<1>. QED  BY <1>9 DEF ListedWith, new

----------------------------------------------------------------------------
(* RetentionInv. *)

\* More kept files and a higher bound make nothing less overdue.
LEMMA OverdueGrows ==
    ASSUME NEW K, NEW L, NEW n, Numbered(L, n), K \subseteq L, NEW i \in Nat,
           NEW b1 \in Nat, NEW b2 \in Nat, b1 <= b2, Overdue(K, i, b1)
    PROVE  Overdue(L, i, b2)
<1>. DEFINE A == {g \in K : i < g.id /\ g.id < b1}
            B == {g \in L : i < g.id /\ g.id < b2}
<1>1. A \in SUBSET B /\ B \in SUBSET L
  BY DEF Numbered
<1>2. /\ Cardinality(A) <= Cardinality(B)
      /\ Cardinality(A) \in Nat /\ Cardinality(B) \in Nat
  BY <1>1, FS_Subset, FS_CardinalityType DEF Numbered
<1>3. Cardinality(B) >= Retention
  <2>1. Cardinality(A) >= Retention
    BY DEF Overdue
  <2>. QED  BY <1>2, <2>1
<1>. QED  BY <1>3 DEF Overdue

\* The part of TypeOK that the argument about retention needs.
ScanTypes ==
    /\ pc \in [Calls -> Awaits \cup {"idle", "done"}]
    /\ op \in [Calls -> {"none", "create", "restore", "download"}]
    /\ copy \in [Calls -> Nat] /\ token \in [Calls -> Nat]
    /\ items \in [Calls -> SUBSET BackupInfo]
    /\ todo \in [Calls -> SUBSET Nat]
    /\ files \subseteq DriveFiles /\ next_id \in Nat
    /\ dying \subseteq Nat

\* TypeOK gives these types, so that a proof need not expand it.
LEMMA ScanTyped ==
    ASSUME TypeOK
    PROVE  ScanTypes
  BY DEF TypeOK, ScanTypes

\* The steps that take no new id for deletion, store nothing and list nothing:
\* deletes, late effects, calls that start or end.
LEMMA RetentionFrame ==
    ASSUME TypeOK, TypeOK', LockOwned, RetentionInv, CallShape',
           Numbered(files', next_id'), next_id' >= next_id,
           \A f \in files' : f \in files \/ f.id >= next_id,
           \A f \in files : f \in files' \/ Doomed(f.id),
           \A i \in dying' : Doomed(i),
           \A c \in Calls :
             /\ pc'[c] = "delete" => pc[c] = "delete" /\ todo'[c] \subseteq todo[c]
             /\ pc'[c] = "list" => /\ pc[c] = "list" /\ dying' \subseteq dying
                                  /\ items'[c] = items[c] /\ token'[c] = token[c]
             /\ items'[c] \subseteq items[c]
             /\ copy'[c] = copy[c]
             /\ op'[c] = "create" /\ copy[c] # 0 => op[c] = "create"
    PROVE  RetentionInv'
<1>t. ScanTypes
  BY ScanTyped
<1>u. ScanTypes'
  BY DEF TypeOK, ScanTypes
<1>. USE <1>t, <1>u
<1>1. \A i : Doomed(i)' => Doomed(i)
  BY DEF Doomed
<1>2. Kept \subseteq Kept'
  BY <1>1 DEF Kept, RegularBackups, FolderQuery
<1>3. Numbered(Kept', next_id')
  <2>1. Kept' \in SUBSET files'
    BY DEF Kept, RegularBackups, FolderQuery
  <2>2. next_id' \in Nat /\ next_id' <= next_id'
    BY DEF ScanTypes
  <2>. QED  BY <2>1, <2>2, NumberedPart
<1>4. AllNumbered'
  <2>1. ASSUME NEW c \in Calls PROVE Numbered(items'[c], next_id')
    BY NumberedPart DEF RetentionInv, AllNumbered, ScanTypes
  <2>. QED  BY <2>1 DEF AllNumbered
<1>5. ASSUME NEW i \in Nat, Doomed(i) PROVE Overdue(Kept', i, next_id')
  <2>1. Overdue(Kept, i, next_id)
    BY <1>5 DEF RetentionInv, DoomedOverdue, Doomed
  <2>. QED  BY <1>2, <1>3, <2>1, OverdueGrows DEF ScanTypes
<1>6. DoomedOverdue'
  BY <1>5 DEF DoomedOverdue, Doomed, ScanTypes
<1>7. ASSUME NEW c \in Calls, pc'[c] = "list"
      PROVE  /\ \A i \in dying' : Overdue(Kept', i, copy'[c])
             /\ \A b \in items'[c] :
                  IsPrunable(b) => Overdue(Kept', b.id, copy'[c]) \/ \E f \in files' : f.id = b.id
             /\ \A f \in RegularBackups(files') :
                  token'[c] # 0 /\ token'[c] <= f.id /\ f.id < copy'[c] =>
                    ToBackupInfo(f) \in items'[c]
  <2>1. /\ pc[c] = "list" /\ dying' \subseteq dying
        /\ items'[c] = items[c] /\ token'[c] = token[c] /\ copy'[c] = copy[c]
    BY <1>7
  <2>2. ASSUME NEW i \in Nat, Overdue(Kept, i, copy[c]) PROVE Overdue(Kept', i, copy'[c])
    BY <1>2, <1>3, <2>1, <2>2, OverdueGrows DEF ScanTypes
  <2>3. \A i : Doomed(i) => i \in dying
    BY <2>1, OneWriter DEF Doomed, RetentionInv
  <2>4. \A i \in dying : Overdue(Kept', i, copy'[c])
    BY <2>1, <2>2 DEF RetentionInv, ListingSound, ScanTypes
  <2>5. ASSUME NEW b \in items[c], IsPrunable(b)
        PROVE  Overdue(Kept', b.id, copy'[c]) \/ \E f \in files' : f.id = b.id
    <3>1. b.id \in Nat
      BY DEF ScanTypes, BackupInfo
    <3>2. CASE Overdue(Kept, b.id, copy[c])
      BY <2>2, <3>1, <3>2
    <3>3. CASE \E f \in files : f.id = b.id
      BY <2>3, <2>4, <3>3
    <3>. QED  BY <2>1, <2>5, <3>2, <3>3 DEF RetentionInv, ListingSound
  <2>6. ASSUME NEW f \in RegularBackups(files'),
               token'[c] # 0, token'[c] <= f.id, f.id < copy'[c]
        PROVE  ToBackupInfo(f) \in items'[c]
    <3>1. copy[c] < next_id
      BY DEF RetentionInv, CallShape
    <3>2. f \in files'
      BY DEF RegularBackups, FolderQuery
    <3>3. f \in files
      BY <2>1, <2>6, <3>1, <3>2 DEF ScanTypes, DriveFiles
    <3>4. f \in RegularBackups(files)
      BY <3>3 DEF RegularBackups, FolderQuery
    <3>. QED  BY <2>1, <2>6, <3>4 DEF RetentionInv, ListingSound
  <2>. QED  BY <2>1, <2>4, <2>5, <2>6
<1>8. ListingSound'
  BY <1>7 DEF ListingSound
<1>9. StoredIsKept'
  BY <1>2 DEF RetentionInv, StoredIsKept
<1>. QED  BY <1>4, <1>6, <1>8, <1>9 DEF RetentionInv

----------------------------------------------------------------------------
(* The last page of a listing, where retention picks what it deletes. *)

\* What retention sorts, and the files it leaves.
Candidates(c) == {b \in ListedWith(c, Unlisted(c)) : IsPrunable(b)}

Survivors(c) ==
    {f \in RegularBackups(files) : ToBackupInfo(f) \in First(Candidates(c), Retention)}

\* The candidates have distinct ids and the order of their ids.
LEMMA CandidatesNumbered ==
    ASSUME TypeOK, SafetyInv, RetentionInv, NEW c \in Calls
    PROVE  Numbered(Candidates(c), next_id)
<1>1. Unlisted(c) \in SUBSET FolderQuery(files)
  BY DEF Unlisted
<1>2. Numbered(ListedWith(c, Unlisted(c)), next_id)
  BY <1>1, NumberedListing DEF RetentionInv
<1>3. Candidates(c) \in SUBSET ListedWith(c, Unlisted(c)) /\ next_id \in Nat /\ next_id <= next_id
  BY DEF Candidates, TypeOK
<1>. QED  BY <1>2, <1>3, NumberedPart

\* Nothing regular and older than the stored backup is missed.
LEMMA ListingComplete ==
    ASSUME TypeOK, RetentionInv, NEW c \in Calls, pc[c] = "list",
           NEW f \in RegularBackups(files), f.id < copy[c]
    PROVE  ToBackupInfo(f) \in Candidates(c)
<1>1. f \in FolderQuery(files) /\ IsBackup(f) /\ IsPrunable(ToBackupInfo(f))
  BY DEF RegularBackups
<1>2. CASE token[c] = 0 \/ f.id < token[c]
  BY <1>1, <1>2 DEF Unlisted, ListedWith, Candidates
<1>3. CASE token[c] # 0 /\ token[c] <= f.id
  BY <1>1, <1>3 DEF RetentionInv, ListingSound, ListedWith, Candidates
<1>4. f.id \in Nat /\ token[c] \in Nat
  BY <1>1 DEF TypeOK, DriveFiles, FolderQuery
<1>. QED  BY <1>2, <1>3, <1>4

\* What was overdue before is so by the listing too.
LEMMA OverdueListed ==
    ASSUME TypeOK, SafetyInv, RetentionInv, NEW c \in Calls, pc[c] = "list",
           NEW i \in Nat, Overdue(Kept, i, copy[c])
    PROVE  Cardinality({p \in Candidates(c) : p.id > i}) >= Retention
<1>. DEFINE A == {g \in Kept : i < g.id /\ g.id < copy[c]}
            B == {p \in Candidates(c) : p.id > i}
            F == [g \in A |-> ToBackupInfo(g)]
<1>1. ASSUME NEW g \in A PROVE ToBackupInfo(g) \in B /\ g \in files
  <2>1. g \in RegularBackups(files)
    BY DEF Kept
  <2>2. ToBackupInfo(g) \in Candidates(c)
    BY <2>1, ListingComplete
  <2>3. ToBackupInfo(g).id = g.id
    BY DEF ToBackupInfo
  <2>. QED  BY <2>1, <2>2, <2>3 DEF RegularBackups, FolderQuery
<1>2. ASSUME NEW g \in A, NEW h \in A, ToBackupInfo(g) = ToBackupInfo(h) PROVE g = h
  <2>1. g.id = h.id
    BY <1>2 DEF ToBackupInfo
  <2>. QED  BY <1>1, <2>1 DEF RetentionInv, AllNumbered, Numbered
<1>3. IsFiniteSet(B)
  BY CandidatesNumbered, FS_Subset DEF Numbered
<1>. HIDE DEF A, B
<1>4. F \in Injection(A, B)
  BY <1>1, <1>2 DEF Injection, IsInjective
<1>5. /\ Cardinality(A) <= Cardinality(B) /\ IsFiniteSet(A)
      /\ Cardinality(A) \in Nat /\ Cardinality(B) \in Nat
  BY <1>3, <1>4, FS_Injection, FS_CardinalityType
<1>6. Cardinality(A) >= Retention
  BY DEF Overdue, A
<1>7. Cardinality(B) >= Retention
  BY <1>5, <1>6
<1>. QED  BY <1>7 DEF B

\* The first `keep' of the listing are on Drive and not to be deleted.
LEMMA FirstAreKept ==
    ASSUME TypeOK, LockOwned, SafetyInv, RetentionInv, NEW c \in Calls, pc[c] = "list",
           NEW k \in First(Candidates(c), Retention)
    PROVE  \E f \in Kept : ToBackupInfo(f) = k
<1>1. k \in Candidates(c) /\ k.id \in Nat
  BY CandidatesNumbered DEF First, Numbered
<1>2. ~Overdue(Kept, k.id, copy[c])
  <2>. SUFFICES ASSUME Overdue(Kept, k.id, copy[c]) PROVE FALSE
    OBVIOUS
  <2>1. Cardinality({p \in Candidates(c) : p.id > k.id}) >= Retention
    BY <1>1, OverdueListed
  <2>2. k.id > k.id
    BY <1>1, <2>1, CandidatesNumbered, FirstAbove
  <2>. QED  BY <1>1, <2>2
<1>3. \E f \in files : IsInFolder(f) /\ IsBackup(f) /\ ToBackupInfo(f) = k
  <2>1. CASE k \in items[c]
    <3>1. PICK f \in files : f.id = k.id
      BY <1>1, <1>2, <2>1 DEF RetentionInv, ListingSound, Candidates
    <3>. QED  BY <2>1, <3>1 DEF SafetyInv, ItemsCurrent
  <2>2. CASE \E f \in Unlisted(c) : IsBackup(f) /\ ToBackupInfo(f) = k
    BY <2>2 DEF Unlisted, FolderQuery
  <2>. QED  BY <1>1, <2>1, <2>2 DEF Candidates, ListedWith
<1>4. PICK f \in files : IsInFolder(f) /\ IsBackup(f) /\ ToBackupInfo(f) = k
  BY <1>3
<1>5. f \in RegularBackups(files)
  BY <1>1, <1>4 DEF RegularBackups, FolderQuery, Candidates
<1>6. f.id = k.id
  BY <1>4 DEF ToBackupInfo
<1>7. f.id \notin dying
  BY <1>2, <1>6 DEF RetentionInv, ListingSound
<1>8. ~Doomed(f.id)
  BY <1>7, OneWriter DEF Doomed, RetentionInv
<1>. QED  BY <1>4, <1>5, <1>8 DEF Kept

\* They make overdue whatever has `keep' newer candidates.
LEMMA SurvivorsSuffice ==
    ASSUME TypeOK, LockOwned, SafetyInv, RetentionInv, NEW c \in Calls, pc[c] = "list",
           NEW i \in Nat, Cardinality({p \in Candidates(c) : p.id > i}) >= Retention
    PROVE  Overdue(Survivors(c), i, next_id)
<1>. DEFINE K == First(Candidates(c), Retention)
            B == {g \in Survivors(c) : i < g.id /\ g.id < next_id}
            F == [k \in K |-> CHOOSE f \in Kept : ToBackupInfo(f) = k]
<1>1. Cardinality(K) >= Retention /\ \A k \in K : k.id > i
  BY CandidatesNumbered, FirstAbove
<1>2. ASSUME NEW k \in K PROVE F[k] \in B /\ ToBackupInfo(F[k]) = k
  <2>1. F[k] \in Kept /\ ToBackupInfo(F[k]) = k
    BY FirstAreKept
  <2>. HIDE DEF F, K
  <2>2. F[k].id = k.id
    BY <2>1 DEF ToBackupInfo
  <2>3. F[k] \in RegularBackups(files) /\ F[k].id < next_id
    BY <2>1 DEF Kept, RegularBackups, FolderQuery, SafetyInv, IdsOrdered
  <2>4. k.id > i /\ k \in First(Candidates(c), Retention)
    BY <1>1 DEF K
  <2>5. F[k].id \in Nat
    BY <2>3 DEF RegularBackups, FolderQuery, TypeOK, DriveFiles
  <2>. QED  BY <2>1, <2>2, <2>3, <2>4, <2>5 DEF Survivors
<1>3. IsFiniteSet(B)
  <2>1. B \in SUBSET files
    BY DEF Survivors, RegularBackups, FolderQuery
  <2>. QED  BY <2>1, FS_Subset DEF RetentionInv, AllNumbered, Numbered
<1>4. F \in Injection(K, B)
  <2>1. F \in [K -> B]
    BY <1>2
  <2>. HIDE DEF F, K, B
  <2>. QED  BY <1>2, <2>1 DEF Injection, IsInjective
<1>. HIDE DEF F, K, B
<1>5. /\ Cardinality(K) <= Cardinality(B) /\ IsFiniteSet(K)
      /\ Cardinality(K) \in Nat /\ Cardinality(B) \in Nat
  BY <1>3, <1>4, FS_Injection, FS_CardinalityType
<1>6. Cardinality(B) >= Retention
  BY <1>1, <1>5
<1>7. Retention # 0
  BY DEF RetentionInv, CallShape
<1>. QED  BY <1>6, <1>7 DEF Overdue, B

\* A candidate that is not among the first `keep' has `keep' newer ones.
LEMMA PickedIsBehind ==
    ASSUME TypeOK, SafetyInv, RetentionInv, NEW c \in Calls,
           NEW b \in Candidates(c), b \notin First(Candidates(c), Retention)
    PROVE  b.id \in Nat /\ Cardinality({p \in Candidates(c) : p.id > b.id}) >= Retention
<1>. DEFINE A == {p \in Candidates(c) : p.id > b.id}
            B == {p \in Candidates(c) : Before(p, b)}
<1>1. Numbered(Candidates(c), next_id)
  BY CandidatesNumbered
<1>2. A = B /\ b.id \in Nat
  BY <1>1 DEF Numbered, Before
<1>3. ~(Cardinality(B) < Retention)
  BY DEF First
<1>4. Cardinality(B) \in Nat
  BY <1>1, FS_Subset, FS_CardinalityType DEF Numbered
<1>. HIDE DEF A, B
<1>5. Cardinality(A) >= Retention
  BY <1>2, <1>3, <1>4
<1>. QED  BY <1>2, <1>5 DEF A

\* The picks of the last page leave `keep' newer files for all that is doomed.
LEMMA RetentionLastPage ==
    ASSUME TypeOK, LockOwned, SafetyInv, RetentionInv, CallShape',
           NEW c \in Calls, ListLastPage(c)
    PROVE  RetentionInv'
<1>t. ScanTypes
  BY ScanTyped
<1>. USE <1>t
<1>. DEFINE ids == {b.id : b \in RetentionCandidates(ListedWith(c, Unlisted(c)), Retention)}
<1>1. \A i \in ids : \E b \in Candidates(c) :
        b.id = i /\ b \notin First(Candidates(c), Retention)
  BY DEF RetentionCandidates, Candidates
<1>. HIDE DEF ids
<1>2. /\ pc[c] = "list"
      /\ UNCHANGED <<files, next_id, dying, copy, op>>
      /\ items' = [items EXCEPT ![c] = {}]
      /\ token' = [token EXCEPT ![c] = 0]
      /\ todo' = [todo EXCEPT ![c] = ids]
      /\ \/ pc' = [pc EXCEPT ![c] = "done"]
         \/ pc' = [pc EXCEPT ![c] = "delete"]
  BY DEF ListLastPage, EndListing, Return, Await, dumpVars, driveVars, ids
<1>3. \A d \in Calls \ {c} : pc'[d] = pc[d] /\ pc[d] \notin {"list", "delete"}
  BY <1>2, OneWriter DEF RetentionInv, ScanTypes
<1>4. \A i : Doomed(i)' => i \in dying \/ i \in ids
  BY <1>2, <1>3 DEF Doomed, ScanTypes
<1>5. Survivors(c) \subseteq Kept'
  <2>. SUFFICES ASSUME NEW f \in Survivors(c) PROVE f \in Kept'
    OBVIOUS
  <2>. DEFINE k == ToBackupInfo(f)
  <2>1. f \in RegularBackups(files) /\ k \in First(Candidates(c), Retention) /\ k.id = f.id
    BY DEF Survivors, ToBackupInfo
  <2>. HIDE DEF k
  <2>2. PICK g \in Kept : ToBackupInfo(g) = k
    BY <1>2, <2>1, FirstAreKept
  <2>3. g.id = f.id
    BY <2>1, <2>2 DEF ToBackupInfo
  <2>4. f.id \notin dying
    BY <2>2, <2>3 DEF Kept, Doomed
  <2>5. f.id \notin ids
    <3>1. k \in Candidates(c)
      BY <2>1 DEF First
    <3>. QED  BY <1>1, <2>1, <3>1, CandidatesNumbered DEF Numbered
  <2>. QED  BY <1>2, <1>4, <2>1, <2>4, <2>5 DEF Kept
<1>6. Numbered(Kept', next_id) /\ next_id \in Nat /\ next_id <= next_id
  <2>1. Kept' \in SUBSET files /\ next_id \in Nat /\ next_id <= next_id
    BY <1>2 DEF Kept, RegularBackups, FolderQuery, ScanTypes
  <2>. QED  BY <2>1, NumberedPart DEF RetentionInv, AllNumbered
<1>7. ASSUME NEW i \in Nat, Cardinality({p \in Candidates(c) : p.id > i}) >= Retention
      PROVE  Overdue(Kept', i, next_id)
  <2>1. Overdue(Survivors(c), i, next_id)
    BY <1>2, <1>7, SurvivorsSuffice
  <2>. QED  BY <1>5, <1>6, <2>1, OverdueGrows
<1>8. \A i \in dying : Overdue(Kept', i, next_id)
  BY <1>2, <1>7, OverdueListed DEF RetentionInv, ListingSound, ScanTypes
<1>9. \A i \in ids : Overdue(Kept', i, next_id)
  BY <1>1, <1>7, PickedIsBehind
<1>10. DoomedOverdue'
  BY <1>2, <1>3, <1>8, <1>9 DEF DoomedOverdue, ScanTypes
<1>11. AllNumbered'
  <2>1. Numbered({}, next_id)
    BY <1>6, FS_EmptySet DEF Numbered
  <2>. QED  BY <1>2, <2>1 DEF RetentionInv, AllNumbered, ScanTypes
<1>12. ListingSound'
  BY <1>2, <1>3 DEF ListingSound, ScanTypes
<1>13. StoredIsKept'
  <2>. SUFFICES ASSUME NEW d \in Calls, op[d] = "create", copy[d] # 0
                PROVE  \E h \in Kept' : h.id >= copy[d]
    BY <1>2 DEF StoredIsKept
  <2>1. PICK g \in Kept : g.id >= copy[d]
    BY DEF RetentionInv, StoredIsKept
  <2>2. CASE g \in Kept'
    BY <2>1, <2>2
  <2>3. CASE g \notin Kept'
    <3>1. g.id \in ids
      BY <1>2, <1>4, <2>3 DEF Kept, Doomed
    <3>. DEFINE H == {h \in Kept' : g.id < h.id /\ h.id < next_id}
    <3>2. Retention # 0 /\ Cardinality(H) >= Retention
      BY <1>9, <3>1 DEF Overdue
    <3>3. H # {}
      <4>. HIDE DEF H
      <4>. QED  BY <3>2, FS_EmptySet
    <3>4. PICK h \in Kept' : g.id < h.id
      BY <3>3
    <3>5. g.id \in Nat /\ h.id \in Nat /\ copy[d] \in Nat
      BY <1>6, <2>1 DEF Numbered, Kept, RegularBackups, FolderQuery, ScanTypes, DriveFiles
    <3>. QED  BY <2>1, <3>4, <3>5
  <2>. QED  BY <2>2, <2>3
<1>. QED  BY <1>10, <1>11, <1>12, <1>13 DEF RetentionInv

\* A page that is not the last one adds all there is down to its token.
LEMMA RetentionPage ==
    ASSUME TypeOK, LockOwned, SafetyInv, RetentionInv, CallShape',
           NEW c \in Calls, pc[c] = "list",
           NEW m \in First(Unlisted(c), PageSize),
           token' = [token EXCEPT ![c] = m.id],
           items' = [items EXCEPT ![c] = ListedWith(c, First(Unlisted(c), PageSize))],
           pc' = [pc EXCEPT ![c] = "list"],
           UNCHANGED <<files, next_id, dying, copy, op, todo>>
    PROVE  RetentionInv'
<1>t. ScanTypes
  BY ScanTyped
<1>. USE <1>t
<1>. DEFINE page == First(Unlisted(c), PageSize)
<1>1. page \in SUBSET FolderQuery(files) /\ page \in SUBSET files
  BY DEF First, Unlisted, FolderQuery
<1>2. pc' = pc
  BY DEF ScanTypes
<1>3. Kept' = Kept
  BY <1>2 DEF Kept, Doomed
<1>4. Numbered(ListedWith(c, page), next_id)
  BY <1>1, NumberedListing DEF RetentionInv
<1>. HIDE DEF page
<1>5. AllNumbered'
  BY <1>4 DEF RetentionInv, AllNumbered, ScanTypes, page
<1>6. DoomedOverdue' /\ StoredIsKept'
  BY <1>2, <1>3 DEF RetentionInv, DoomedOverdue, StoredIsKept
<1>7. ASSUME NEW b \in ListedWith(c, page), IsPrunable(b)
      PROVE  Overdue(Kept, b.id, copy[c]) \/ \E f \in files : f.id = b.id
  <2>1. CASE b \in items[c]
    BY <1>7, <2>1 DEF RetentionInv, ListingSound
  <2>2. CASE \E f \in page : b = ToBackupInfo(f)
    <3>1. PICK f \in page : b = ToBackupInfo(f)
      BY <2>2
    <3>. QED  BY <1>1, <3>1, InfoId
  <2>. QED  BY <2>1, <2>2 DEF ListedWith
<1>8. ASSUME NEW f \in RegularBackups(files), m.id <= f.id, f.id < copy[c]
      PROVE  ToBackupInfo(f) \in ListedWith(c, page)
  <2>1. f \in FolderQuery(files) /\ IsBackup(f) /\ f.id \in Nat /\ token[c] \in Nat
    BY DEF RegularBackups, FolderQuery, ScanTypes, DriveFiles
  <2>2. CASE token[c] # 0 /\ token[c] <= f.id
    BY <1>8, <2>2 DEF RetentionInv, ListingSound, ListedWith
  <2>3. CASE token[c] = 0 \/ f.id < token[c]
    <3>1. f \in Unlisted(c)
      BY <2>1, <2>3 DEF Unlisted
    <3>2. Unlisted(c) \in SUBSET files /\ next_id \in Nat /\ next_id <= next_id
      BY DEF Unlisted, FolderQuery, ScanTypes
    <3>3. Numbered(Unlisted(c), next_id)
      BY <3>2, NumberedPart DEF RetentionInv, AllNumbered
    <3>4. m.id \in Nat /\ f.id >= m.id
      BY <1>1, <1>8, <2>1 DEF ScanTypes, DriveFiles, page
    <3>5. f \in page
      BY <3>1, <3>3, <3>4, FirstUpward, PagesAssumption DEF page
    <3>. QED  BY <2>1, <3>5 DEF ListedWith
  <2>. QED  BY <2>1, <2>2, <2>3
<1>9. ListingSound'
  <2>. SUFFICES ASSUME NEW d \in Calls, pc[d] = "list"
                PROVE  /\ \A i \in dying : Overdue(Kept, i, copy[d])
                       /\ \A b \in items'[d] :
                            IsPrunable(b) => Overdue(Kept, b.id, copy[d]) \/ \E f \in files : f.id = b.id
                       /\ \A f \in RegularBackups(files) :
                            token'[d] # 0 /\ token'[d] <= f.id /\ f.id < copy[d] =>
                              ToBackupInfo(f) \in items'[d]
    BY <1>2, <1>3 DEF ListingSound
  <2>1. d = c
    BY OneWriter DEF RetentionInv
  <2>2. items'[c] = ListedWith(c, page) /\ token'[c] = m.id
    BY DEF ScanTypes, page
  <2>3. \A i \in dying : Overdue(Kept, i, copy[c])
    BY DEF RetentionInv, ListingSound
  <2>. QED  BY <1>7, <1>8, <2>1, <2>2, <2>3
<1>. QED  BY <1>5, <1>6, <1>9 DEF RetentionInv

\* A stored dump is kept, and a listing starts with nothing missed.
LEMMA RetentionUpload ==
    ASSUME TypeOK, TypeOK', LockOwned, SafetyInv, RetentionInv, CallShape',
           NEW c \in Calls, UploadOk(c)
    PROVE  RetentionInv'
<1>t. ScanTypes
  BY ScanTyped
<1>u. ScanTypes'
  BY DEF TypeOK, ScanTypes
<1>. USE <1>t, <1>u
<1>n. next_id \in Nat /\ next_id' \in Nat
  BY DEF ScanTypes
<1>. DEFINE new == UploadMetadata(KindOf(c), dumped[c], next_id)
<1>1. /\ pc[c] = "upload" /\ op[c] \in {"create", "restore"}
      /\ files' = files \cup {new} /\ next_id' = next_id + 1
      /\ copy' = [copy EXCEPT ![c] = next_id]
      /\ UNCHANGED <<dying, todo, items, token, op>>
      /\ \E step \in {"done", "list", "restore"} : pc' = [pc EXCEPT ![c] = step]
  BY DEF UploadOk, Return, Await, scanVars
<1>2. /\ new.id = next_id
      /\ op[c] = "create" => new \in RegularBackups(files')
  BY <1>1 DEF UploadMetadata, KindOf, RegularBackups, FolderQuery, IsInFolder, IsBackup,
              IsPrunable, ToBackupInfo, DetectFormat, ParseKind, Formats, Kinds
<1>3. Numbered(files', next_id')
  BY <1>1, NumberedUpload DEF RetentionInv, AllNumbered, ScanTypes
<1>. HIDE DEF new
<1>4. lock = c
  BY <1>1 DEF LockOwned, Live, Writes, Awaits
<1>5. \A d \in Calls : d # c => pc[d] \notin {"list", "delete"} /\ pc'[d] = pc[d]
  BY <1>1, <1>4 DEF LockOwned, Live, Writes, Awaits, RetentionInv, CallShape, ScanTypes
<1>6. \A i : Doomed(i)' <=> i \in dying
  BY <1>1, <1>5 DEF Doomed, ScanTypes
<1>7. \A i \in dying : Doomed(i) /\ i < next_id /\ i \in Nat
  BY DEF Doomed, SafetyInv, DoomedRegular, MayDelete, ScanTypes
<1>8. Kept \subseteq Kept'
  BY <1>1, <1>6, <1>7 DEF Kept, RegularBackups, FolderQuery
<1>9. op[c] = "create" => new \in Kept'
  BY <1>2, <1>6, <1>7 DEF Kept, ScanTypes
<1>10. Numbered(Kept', next_id')
  <2>1. Kept' \in SUBSET files' /\ next_id' \in Nat /\ next_id' <= next_id'
    BY DEF Kept, RegularBackups, FolderQuery, ScanTypes
  <2>. QED  BY <1>3, <2>1, NumberedPart
<1>11. ASSUME NEW i \in dying, NEW bound \in {next_id, next_id + 1}
       PROVE  Overdue(Kept', i, bound)
  <2>1. Overdue(Kept, i, next_id) /\ next_id \in Nat /\ next_id <= bound /\ bound \in Nat
    BY DEF RetentionInv, DoomedOverdue, ScanTypes
  <2>. QED  BY <1>7, <1>8, <1>10, <2>1, OverdueGrows
<1>12. DoomedOverdue'
  BY <1>1, <1>5, <1>11 DEF DoomedOverdue, ScanTypes
<1>13. AllNumbered'
  <2>1. ASSUME NEW d \in Calls PROVE Numbered(items[d], next_id')
    <3>1. items[d] \in SUBSET items[d]
      OBVIOUS
    <3>2. next_id' \in Nat /\ next_id <= next_id'
      BY <1>1, <1>n
    <3>. QED  BY <3>1, <3>2, NumberedPart DEF RetentionInv, AllNumbered
  <2>. QED  BY <1>1, <1>3, <2>1 DEF AllNumbered
<1>14. ListingSound'
  <2>1. token[c] = 0 /\ items[c] = {} /\ copy'[c] = next_id
    BY <1>1 DEF RetentionInv, CallShape, ScanTypes
  <2>2. \A d \in Calls : pc'[d] = "list" => d = c
    BY <1>5
  <2>3. \A i \in dying : Overdue(Kept', i, next_id)
    BY <1>11
  <2>. QED  BY <1>1, <2>1, <2>2, <2>3 DEF ListingSound
<1>15. StoredIsKept'
  <2>. SUFFICES ASSUME NEW d \in Calls, op[d] = "create", copy'[d] # 0
                PROVE  \E h \in Kept' : h.id >= copy'[d]
    BY <1>1 DEF StoredIsKept
  <2>1. CASE d = c
    <3>1. copy'[c] = next_id /\ new \in Kept' /\ new.id = next_id /\ next_id \in Nat
      BY <1>1, <1>2, <1>9, <2>1 DEF ScanTypes
    <3>. QED  BY <2>1, <3>1
  <2>2. CASE d # c
    <3>1. copy'[d] = copy[d]
      BY <1>1, <2>2 DEF ScanTypes
    <3>2. PICK h \in Kept : h.id >= copy[d]
      BY <3>1 DEF RetentionInv, StoredIsKept
    <3>. QED  BY <1>8, <3>1, <3>2
  <2>. QED  BY <2>1, <2>2
<1>. QED  BY <1>12, <1>13, <1>14, <1>15 DEF RetentionInv

----------------------------------------------------------------------------
\* The steps that neither store, nor list, nor delete, at the level of what
\* retention can tell.
LEMMA RetentionIdle ==
    ASSUME TypeOK, TypeOK', LockOwned, RetentionInv, CallShape',
           UNCHANGED <<files, next_id, dying, copy, items, token, todo>>,
           \A c \in Calls :
             /\ pc'[c] \in {"delete", "list"} => pc[c] = pc'[c]
             /\ op'[c] = "create" /\ copy[c] # 0 => op[c] = "create"
    PROVE  RetentionInv'
<1>t. ScanTypes
  BY ScanTyped
<1>u. ScanTypes'
  BY DEF TypeOK, ScanTypes
<1>. USE <1>t, <1>u
<1>1. Numbered(files', next_id')
  BY DEF RetentionInv, AllNumbered
<1>. QED  BY <1>1, RetentionFrame DEF ScanTypes, Doomed

\* No step breaks RetentionInv.
LEMMA RetentionStep ==
    ASSUME TypeOK, TypeOK', LockOwned, SafetyInv, RetentionInv, [Next]_vars
    PROVE  RetentionInv'
<1>t. ScanTypes
  BY ScanTyped
<1>u. ScanTypes'
  BY DEF TypeOK, ScanTypes
<1>. USE <1>t, <1>u
<1>n. next_id \in Nat /\ next_id' \in Nat
  BY DEF ScanTypes
<1>m. Numbered(files, next_id)
  BY DEF RetentionInv, AllNumbered
<1>0. CallShape'
  BY CallShapeStep DEF RetentionInv
<1>. USE <1>0 DEF callVars, locals, dumpVars, scanVars, driveVars
<1>32. \A c \in Calls : pc[c] = "idle" => copy[c] = 0
  BY DEF RetentionInv, CallShape
<1>33. ASSUME NEW c \in Calls, EndListing(c, {}), Return(c, "OK"),
              UNCHANGED <<files, next_id, dying, copy, op>>
       PROVE  RetentionInv'
  <2>1. Numbered(files', next_id') /\ next_id' >= next_id
    BY <1>33 DEF RetentionInv, AllNumbered, ScanTypes
  <2>. QED  BY <1>33, <2>1, RetentionFrame DEF EndListing, Return, ScanTypes, Doomed
<1>1. ASSUME NEW c \in Calls, CreateBackup(c) PROVE RetentionInv'
  BY <1>1, <1>32, RetentionIdle DEF CreateBackup, Request, Fail, Return, BeginDump, ScanTypes
<1>2. ASSUME NEW c \in Calls, NEW id \in Targets, NEW ok \in BOOLEAN, Restore(c, id, ok) PROVE RetentionInv'
  BY <1>2, <1>32, RetentionIdle DEF Restore, Request, Fail, Return, ScanTypes
<1>3. ASSUME NEW c \in Calls, NEW id \in Targets, DownloadBackup(c, id) PROVE RetentionInv'
  BY <1>3, RetentionIdle DEF DownloadBackup, Request, Await, ScanTypes
<1>4. ASSUME NEW c \in Calls, RejectTarget(c) PROVE RetentionInv'
  BY <1>4, <1>32, RetentionIdle DEF RejectTarget, Request, Fail, Return, ScanTypes
<1>5. ASSUME NEW c \in Calls, ResolveOk(c) PROVE RetentionInv'
  BY <1>5, RetentionIdle DEF ResolveOk, Fail, Return, Await, ScanTypes
<1>6. ASSUME NEW c \in Calls, ResolveFail(c) PROVE RetentionInv'
  BY <1>6, RetentionIdle DEF ResolveFail, Fail, Return, ScanTypes
<1>7. ASSUME NEW c \in Calls, FetchOk(c) PROVE RetentionInv'
  BY <1>7, RetentionIdle DEF FetchOk, BeginDump, Await, ScanTypes
<1>8. ASSUME NEW c \in Calls, FetchFail(c) PROVE RetentionInv'
  BY <1>8, RetentionIdle DEF FetchFail, Fail, Return, ScanTypes
<1>9. ASSUME NEW c \in Calls, DecompressOk(c) PROVE RetentionInv'
  BY <1>9, RetentionIdle DEF DecompressOk, Await, ScanTypes
<1>10. ASSUME NEW c \in Calls, DecompressFail(c) PROVE RetentionInv'
  BY <1>10, RetentionIdle DEF DecompressFail, Fail, Return, ScanTypes
<1>11. ASSUME NEW c \in Calls, StreamEnd(c) PROVE RetentionInv'
  BY <1>11, RetentionIdle DEF StreamEnd, Return, ScanTypes
<1>12. ASSUME NEW c \in Calls, DumpOk(c) PROVE RetentionInv'
  BY <1>12, RetentionIdle DEF DumpOk, Await, ScanTypes
<1>13. ASSUME NEW c \in Calls, DumpFail(c) PROVE RetentionInv'
  BY <1>13, RetentionIdle DEF DumpFail, Fail, Return, ScanTypes
<1>14. ASSUME NEW c \in Calls, UploadOk(c) PROVE RetentionInv'
  BY <1>14, RetentionUpload
<1>15. ASSUME NEW c \in Calls, UploadFail(c) PROVE RetentionInv'
  BY <1>15, RetentionIdle DEF UploadFail, Fail, Return, ScanTypes
<1>16. ASSUME NEW c \in Calls, ListPage(c) PROVE RetentionInv'
  <2>1. CASE EndListing(c, {}) /\ Return(c, "OK")
    BY <1>16, <1>33, <2>1 DEF ListPage
  <2>2. CASE /\ \E m \in First(Unlisted(c), PageSize) : token' = [token EXCEPT ![c] = m.id]
             /\ items' = [items EXCEPT ![c] = ListedWith(c, First(Unlisted(c), PageSize))]
             /\ Await(c, "list") /\ todo' = todo
    BY <1>16, <2>2, RetentionPage DEF ListPage, Await
  <2>. QED  BY <1>16, <2>1, <2>2 DEF ListPage
<1>17. ASSUME NEW c \in Calls, ListLastPage(c) PROVE RetentionInv'
  BY <1>17, RetentionLastPage
<1>18. ASSUME NEW c \in Calls, ListFail(c) PROVE RetentionInv'
  BY <1>18, <1>33 DEF ListFail
<1>19. ASSUME NEW c \in Calls, DeleteOk(c) PROVE RetentionInv'
  <2>1. PICK id \in todo[c] : files' = {f \in files : f.id # id} /\ AfterDelete(c, id)
    BY <1>19 DEF DeleteOk
  <2>2. pc[c] = "delete" /\ UNCHANGED <<next_id, dying>>
    BY <1>19 DEF DeleteOk
  <2>3. Doomed(id)
    BY <2>2 DEF Doomed
  <2>4. files' \in SUBSET files /\ next_id' \in Nat /\ next_id <= next_id'
    BY <2>1, <2>2 DEF ScanTypes
  <2>5. Numbered(files', next_id')
    BY <2>4, NumberedPart DEF RetentionInv, AllNumbered
  <2>. QED  BY <2>1, <2>2, <2>3, <2>4, <2>5, RetentionFrame
            DEF AfterDelete, Return, Await, ScanTypes, Doomed
<1>20. ASSUME NEW c \in Calls, DeleteFail(c) PROVE RetentionInv'
  <2>1. PICK id \in todo[c] : dying' \in {dying, dying \cup {id}} /\ AfterDelete(c, id)
    BY <1>20 DEF DeleteFail
  <2>2. pc[c] = "delete" /\ UNCHANGED <<files, next_id>>
    BY <1>20 DEF DeleteFail
  <2>3. \A i \in dying' : Doomed(i)
    BY <2>1, <2>2 DEF Doomed
  <2>4. \A d \in Calls : pc[d] # "list"
    BY <2>2, OneWriter DEF RetentionInv
  <2>5. Numbered(files', next_id') /\ next_id' >= next_id
    BY <1>m, <1>n, <2>2
  <2>. QED  BY <2>1, <2>2, <2>3, <2>4, <2>5, RetentionFrame
            DEF AfterDelete, Return, Await, ScanTypes
<1>21. ASSUME NEW c \in Calls, RestoreOk(c) PROVE RetentionInv'
  BY <1>21, RetentionIdle DEF RestoreOk, Return, ScanTypes
<1>22. ASSUME NEW c \in Calls, RestoreFail(c) PROVE RetentionInv'
  BY <1>22, RetentionIdle DEF RestoreFail, Fail, Return, ScanTypes
<1>23. ASSUME NEW c \in Calls, Commit(c) PROVE RetentionInv'
  BY <1>23, RetentionIdle DEF Commit
<1>24. ASSUME NEW c \in Calls, Rollback(c) PROVE RetentionInv'
  BY <1>24, RetentionIdle DEF Rollback
<1>25. ASSUME NEW c \in Calls, Cancel(c) PROVE RetentionInv'
  <2>1. /\ pc' = [pc EXCEPT ![c] = "done"] /\ Abandon({c})
        /\ UNCHANGED <<files, next_id, op, copy, items, token, todo>>
    BY <1>25 DEF Cancel, Return, Abandon
  <2>2. \A i \in dying' : Doomed(i)
    BY <2>1 DEF Abandon, Doomed
  <2>3. ASSUME NEW d \in Calls, pc'[d] = "list" PROVE pc[d] = "list" /\ dying' \subseteq dying
    <3>1. pc[d] = "list" /\ d # c
      BY <2>1, <2>3 DEF ScanTypes
    <3>2. pc[c] # "delete"
      BY <3>1, OneWriter DEF RetentionInv
    <3>. QED  BY <2>1, <3>1, <3>2 DEF Abandon
  <2>4. Numbered(files', next_id') /\ next_id' >= next_id
    BY <1>m, <1>n, <2>1
  <2>. QED  BY <2>1, <2>2, <2>3, <2>4, RetentionFrame DEF ScanTypes
<1>26. ASSUME LateCreate PROVE RetentionInv'
  BY <1>26, RetentionIdle DEF LateCreate
<1>27. ASSUME Crash PROVE RetentionInv'
  <2>1. /\ \A c \in Calls : pc'[c] \notin Awaits
        /\ Abandon({c \in Calls : Live(c)})
        /\ UNCHANGED <<files, next_id, op, copy, items, token, todo>>
    BY <1>27 DEF Crash, Live, Abandon, Awaits
  <2>2. \A i \in dying' : Doomed(i)
    BY <2>1 DEF Abandon, Doomed
  <2>3. Numbered(files', next_id') /\ next_id' >= next_id
    BY <1>m, <1>n, <2>1
  <2>. QED  BY <2>1, <2>2, <2>3, RetentionFrame DEF Awaits
<1>28. ASSUME LandUpload PROVE RetentionInv'
  <2>1. PICK g \in ghosts : files' = files \cup {UploadMetadata(g.kind, g.content, next_id)}
    BY <1>28 DEF LandUpload
  <2>2. next_id' = next_id + 1 /\ UNCHANGED <<callVars, dying>>
    BY <1>28 DEF LandUpload
  <2>3. Numbered(files', next_id')
    BY <2>1, <2>2, NumberedUpload DEF RetentionInv, AllNumbered, ScanTypes
  <2>4. \A f \in files' : f \in files \/ f.id >= next_id
    <3>1. UploadMetadata(g.kind, g.content, next_id).id = next_id
      BY DEF UploadMetadata
    <3>. QED  BY <1>n, <2>1, <3>1
  <2>5. (\A f \in files : f \in files') /\ next_id' >= next_id
    BY <1>n, <2>1, <2>2
  <2>6. \A i \in dying' : Doomed(i)
    BY <2>2 DEF Doomed
  <2>7. UNCHANGED <<pc, op, copy, items, token, todo, dying>>
    BY <2>2
  <2>. QED  BY <2>3, <2>4, <2>5, <2>6, <2>7, RetentionFrame
<1>29. ASSUME LandDelete PROVE RetentionInv'
  <2>1. PICK id \in dying : files' = {f \in files : f.id # id} /\ dying' = dying \ {id}
    BY <1>29 DEF LandDelete
  <2>2. UNCHANGED <<callVars, next_id>>
    BY <1>29 DEF LandDelete
  <2>3. files' \in SUBSET files /\ next_id' \in Nat /\ next_id <= next_id'
    BY <2>1, <2>2 DEF ScanTypes
  <2>4. Numbered(files', next_id')
    BY <2>3, NumberedPart DEF RetentionInv, AllNumbered
  <2>. QED  BY <2>1, <2>2, <2>3, <2>4, RetentionFrame DEF ScanTypes, Doomed
<1>30. ASSUME AppWrite PROVE RetentionInv'
  BY <1>30, RetentionIdle DEF AppWrite
<1>31. ASSUME AllServed PROVE RetentionInv'
  BY <1>31, RetentionIdle DEF AllServed, vars
<1>34. CASE UNCHANGED vars
  BY <1>34, RetentionIdle DEF vars
<1>. HIDE DEF callVars, locals, dumpVars, scanVars, driveVars
<1>. QED
  BY <1>1, <1>2, <1>3, <1>4, <1>5, <1>6, <1>7, <1>8, <1>9, <1>10, <1>11,
     <1>12, <1>13, <1>14, <1>15, <1>16, <1>17, <1>18, <1>19, <1>20, <1>21,
     <1>22, <1>23, <1>24, <1>25, <1>26, <1>27, <1>28, <1>29, <1>30, <1>31,
     <1>34 DEF Next, Arrive, Progress, Environment

\* RetentionInv holds in every reachable state.
THEOREM RetentionInvariant == Spec => []RetentionInv
<1>1. Init => RetentionInv
  <2>. SUFFICES ASSUME Init PROVE RetentionInv
    OBVIOUS
  <2>0. FirstId \in Nat /\ FirstId > 0
    BY InitFilesAssumption
  <2>1. CallShape
    BY <2>0 DEF Init, CallShape
  <2>5. DoomedOverdue /\ ListingSound
    BY DEF Init, DoomedOverdue, ListingSound
  <2>6. StoredIsKept
    BY DEF Init, StoredIsKept
  <2>2. Numbered(InitFiles, FirstId)
    BY InitFilesAssumption DEF Numbered, DriveFiles
  <2>3. Numbered({}, FirstId)
    BY InitFilesAssumption, FS_EmptySet DEF Numbered
  <2>4. AllNumbered
    BY <2>2, <2>3 DEF Init, AllNumbered
  <2>. QED  BY <2>1, <2>4, <2>5, <2>6 DEF RetentionInv
<1>. QED  BY <1>1, TypeCorrect, LockCorrect, SafetyInvariant, RetentionStep, PTL DEF Spec

\* Once CreateBackup answered OK, a regular backup at least as new as the one
\* it returned stays on Drive, whatever retention and late requests do.
THEOREM LatestCorrect == Spec => []LatestNotOlder
<1>1. RetentionInv => LatestNotOlder
  BY DEF RetentionInv, CallShape, StoredIsKept, Kept, LatestNotOlder
<1>. QED  BY <1>1, RetentionInvariant, PTL

\* A file disappears only by the delete of an id that retention picked.
LEMMA LostIsDoomed ==
    ASSUME [Next]_vars, NEW f \in files, f \notin files'
    PROVE  Doomed(f.id) /\ files' = {g \in files : g.id # f.id}
<1>. USE DEF driveVars
<1>1. ASSUME NEW c \in Calls, Arrive(c) PROVE files' = files
  BY <1>1 DEF Arrive, CreateBackup, Restore, DownloadBackup, RejectTarget
<1>2. ASSUME NEW c \in Calls, Progress(c), ~DeleteOk(c) PROVE files \subseteq files'
  <2>1. CASE UploadOk(c)
    BY <2>1 DEF UploadOk
  <2>2. CASE ListPage(c) \/ ListLastPage(c) \/ ListFail(c) \/ DeleteFail(c)
    BY <2>2 DEF ListPage, ListLastPage, ListFail, DeleteFail
  <2>3. CASE ResolveOk(c) \/ ResolveFail(c) \/ FetchOk(c) \/ FetchFail(c)
             \/ DecompressOk(c) \/ DecompressFail(c) \/ DumpOk(c) \/ DumpFail(c)
             \/ UploadFail(c) \/ RestoreOk(c) \/ RestoreFail(c)
    BY <2>3 DEF ResolveOk, ResolveFail, FetchOk, FetchFail, DecompressOk, DecompressFail,
                DumpOk, DumpFail, UploadFail, RestoreOk, RestoreFail
  <2>. QED  BY <1>2, <2>1, <2>2, <2>3 DEF Progress
<1>3. ASSUME NEW c \in Calls, Cancel(c) \/ Commit(c) \/ Rollback(c) \/ StreamEnd(c)
      PROVE  files' = files
  BY <1>3 DEF Cancel, Abandon, Commit, Rollback, StreamEnd
<1>4. ASSUME LateCreate \/ Crash \/ LandUpload \/ AppWrite \/ AllServed \/ UNCHANGED vars
      PROVE  files \subseteq files'
  BY <1>4 DEF LateCreate, Crash, Abandon, LandUpload, AppWrite, AllServed, vars
<1>5. ASSUME NEW c \in Calls, DeleteOk(c)
      PROVE  Doomed(f.id) /\ files' = {g \in files : g.id # f.id}
  <2>1. PICK id \in todo[c] : files' = {g \in files : g.id # id}
    BY <1>5 DEF DeleteOk
  <2>2. id = f.id
    BY <2>1
  <2>. QED  BY <1>5, <2>1, <2>2 DEF DeleteOk, Doomed
<1>6. ASSUME LandDelete PROVE Doomed(f.id) /\ files' = {g \in files : g.id # f.id}
  <2>1. PICK id \in dying : files' = {g \in files : g.id # id}
    BY <1>6 DEF LandDelete
  <2>2. id = f.id
    BY <2>1
  <2>. QED  BY <2>1, <2>2 DEF Doomed
<1>. QED  BY <1>1, <1>2, <1>3, <1>4, <1>5, <1>6 DEF Next, Environment

\* What disappears has `keep' newer regular backups that stay.
LEMMA LostIsBehind ==
    ASSUME TypeOK, SafetyInv, RetentionInv, [Next]_vars, NEW f \in files \ files'
    PROVE  /\ Retention # 0
           /\ f \in RegularBackups(files)
           /\ Cardinality({g \in RegularBackups(files') : Before(g, f)}) >= Retention
<1>1. Doomed(f.id) /\ files' = {g \in files : g.id # f.id}
  BY LostIsDoomed
<1>2. f \in RegularBackups(files)
  BY <1>1 DEF Doomed, SafetyInv, DoomedRegular, MayDelete
<1>3. Overdue(Kept, f.id, next_id)
  BY <1>1 DEF Doomed, RetentionInv, DoomedOverdue
<1>. DEFINE A == {g \in Kept : f.id < g.id /\ g.id < next_id}
            B == {g \in RegularBackups(files') : Before(g, f)}
<1>4. Numbered(files, next_id)
  BY DEF RetentionInv, AllNumbered
<1>5. ASSUME NEW g \in A PROVE g \in B
  <2>1. g \in RegularBackups(files) /\ g.id # f.id
    BY <1>1 DEF Kept
  <2>2. g \in RegularBackups(files') /\ g \in files
    BY <1>1, <2>1 DEF RegularBackups, FolderQuery
  <2>. QED  BY <1>4, <2>2 DEF Before, Numbered
<1>6. A \in SUBSET B /\ B \in SUBSET files
  BY <1>1, <1>5 DEF RegularBackups, FolderQuery
<1>7. /\ Cardinality(A) <= Cardinality(B)
      /\ Cardinality(A) \in Nat /\ Cardinality(B) \in Nat
  BY <1>4, <1>6, FS_Subset, FS_CardinalityType DEF Numbered
<1>8. Retention # 0 /\ Cardinality(A) >= Retention
  BY <1>3 DEF Overdue
<1>. HIDE DEF A, B
<1>9. Cardinality(B) >= Retention
  BY <1>7, <1>8
<1>. QED  BY <1>2, <1>8, <1>9 DEF B

\* Retention removes nothing but regular pg_dump backups, and never one of the
\* `keep' newest: for every number of calls, folder, page size and `keep', and
\* whatever is cancelled, lost, late or crashes on the way.
THEOREM RetentionCorrect == Spec => RetentionKeepsNewest
<1>. DEFINE Lost == \A f \in files \ files' :
              /\ Retention # 0
              /\ f \in RegularBackups(files)
              /\ Cardinality({g \in RegularBackups(files') : Before(g, f)}) >= Retention
<1>1. TypeOK /\ SafetyInv /\ RetentionInv /\ [Next]_vars => [Lost]_vars
  BY LostIsBehind
<1>. QED  BY <1>1, TypeCorrect, SafetyInvariant, RetentionInvariant, PTL
          DEF Spec, RetentionKeepsNewest
=============================================================================
