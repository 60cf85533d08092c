------------------------- MODULE BackupServiceProofs -------------------------
(***************************************************************************)
(* Theorems about BackupService, for any set of calls, any folder and any  *)
(* retention.                                                              *)
(***************************************************************************)
EXTENDS BackupService, TLAPS

----------------------------------------------------------------------------
(* Types of the operators. *)

\* What to_backup_info makes of a file it accepts is a BackupInfo.
LEMMA InfoType ==
    ASSUME NEW f \in DriveFiles, IsBackup(f)
    PROVE  ToBackupInfo(f) \in BackupInfo
  BY DEF DriveFiles, BackupInfo, IsBackup, ToBackupInfo, DetectFormat, ParseKind,
         Formats, Kinds

\* An upload creates a Drive file.
LEMMA UploadType ==
    ASSUME NEW kind \in Kinds, NEW content \in Nat, NEW id \in Nat
    PROVE  UploadMetadata(kind, content, id) \in DriveFiles
  BY DEF DriveFiles, UploadMetadata, Formats, Kinds

\* Every error has a status.
LEMMA StatusType ==
    ASSUME NEW err \in Errors
    PROVE  ToStatus(err) \in Statuses
  BY DEF Errors, ToStatus, Statuses

----------------------------------------------------------------------------
(* Type correctness. *)

\* Ways out of a call keep the types of what they touch.
LEMMA ReturnType ==
    ASSUME TypeOK, NEW c \in Calls, NEW status \in Statuses, Return(c, status)
    PROVE  /\ pc' \in [Calls -> Awaits \cup {"idle", "done"}]
           /\ result' \in [Calls -> Statuses \cup {"none"}]
           /\ lock' \in Calls \cup {NoCall}
           /\ temp' \subseteq Calls \X Roles
  BY DEF TypeOK, Return

\* The same for a way out with an error.
LEMMA FailType ==
    ASSUME TypeOK, NEW c \in Calls, NEW err \in Errors, Fail(c, err)
    PROVE  /\ pc' \in [Calls -> Awaits \cup {"idle", "done"}]
           /\ result' \in [Calls -> Statuses \cup {"none"}]
           /\ lock' \in Calls \cup {NoCall}
           /\ temp' \subseteq Calls \X Roles
  BY StatusType, ReturnType DEF Fail

\* Going on to another await keeps the types of what it touches.
LEMMA AwaitType ==
    ASSUME TypeOK, NEW c \in Calls, NEW step \in Awaits, Await(c, step)
    PROVE  /\ pc' \in [Calls -> Awaits \cup {"idle", "done"}]
           /\ result' \in [Calls -> Statuses \cup {"none"}]
           /\ lock' \in Calls \cup {NoCall}
  BY DEF TypeOK, Await

\* What a target resolves to are files on Drive that to_backup_info accepts.
LEMMA ResolvedType ==
    ASSUME TypeOK, NEW id \in Nat, NEW f \in Resolved(id)
    PROVE  f \in files /\ IsInFolder(f) /\ IsBackup(f) /\ ToBackupInfo(f) \in BackupInfo
  <1>1. f \in files /\ IsInFolder(f) /\ IsBackup(f)
    BY DEF Resolved, LatestHits, LatestQuery, FolderQuery, First
  <1>. QED  BY <1>1, InfoType DEF TypeOK

\* A target that resolves to nothing fails with one of the errors.
LEMMA ResolveErrorType ==
    ASSUME NEW id
    PROVE  ResolveError(id) \in Errors
  BY DEF ResolveError, Errors

\* Every dump is uploaded as one of the two kinds.
LEMMA KindOfType ==
    ASSUME NEW c
    PROVE  KindOf(c) \in Kinds
  BY DEF KindOf, Kinds

\* A listing consists of backups.
LEMMA ListedType ==
    ASSUME TypeOK, NEW c \in Calls, NEW page \in SUBSET files
    PROVE  ListedWith(c, page) \subseteq BackupInfo
  BY InfoType DEF TypeOK, ListedWith

\* Retention picks from what was listed.
LEMMA CandidatesFromListing ==
    ASSUME NEW backups, NEW keep, NEW b \in RetentionCandidates(backups, keep)
    PROVE  b \in backups /\ IsPrunable(b)
  BY DEF RetentionCandidates

\* The ids retention picks are ids.
LEMMA CandidatesType ==
    ASSUME TypeOK, NEW c \in Calls
    PROVE  {b.id : b \in RetentionCandidates(ListedWith(c, Unlisted(c)), Retention)}
             \in SUBSET Nat
  <1>1. Unlisted(c) \in SUBSET files
    BY DEF Unlisted, FolderQuery
  <1>2. ListedWith(c, Unlisted(c)) \subseteq BackupInfo
    BY <1>1, ListedType
  <1>. QED  BY <1>2, CandidatesFromListing DEF BackupInfo

\* What the blocking pool may still create are temporary files.
LEMMA CreationsType ==
    ASSUME NEW c \in Calls
    PROVE  Creations(c) \subseteq Calls \X Roles
  BY DEF Creations, Roles

\* What is left to Drive by calls that stop waiting is well typed.
LEMMA AbandonType ==
    ASSUME TypeOK, NEW gone \in SUBSET Calls, Abandon(gone)
    PROVE  /\ ghosts' \subseteq [call : Calls, kind : Kinds, content : Nat]
           /\ dying' \subseteq Nat
           /\ files' = files /\ next_id' = next_id
  <1>1. \A c \in gone : Ghost(c) \in [call : Calls, kind : Kinds, content : Nat]
    BY KindOfType DEF TypeOK, Ghost
  <1>2. \A c \in gone : {id \in todo[c] : IsNext(c, id)} \subseteq Nat
    BY DEF TypeOK
  <1>3. ghosts' \subseteq [call : Calls, kind : Kinds, content : Nat]
    BY <1>1 DEF TypeOK, Abandon
  <1>4. ASSUME NEW id \in dying' PROVE id \in Nat
    <2>1. CASE id \in dying
      BY <2>1 DEF TypeOK
    <2>2. CASE \E c \in gone : id \in {i \in todo[c] : IsNext(c, i)}
      BY <2>2, <1>2
    <2>. QED  BY <1>4, <2>1, <2>2 DEF Abandon
  <1>. QED  BY <1>3, <1>4 DEF Abandon

\* The state is always well typed.
THEOREM TypeCorrect == Spec => []TypeOK
<1>1. Init => TypeOK
  BY InitFilesAssumption DEF Init, TypeOK, Awaits, Statuses, NoInfo, BackupInfo, Formats, Kinds
<1>2. TypeOK /\ [Next]_vars => TypeOK'
  <2>. SUFFICES ASSUME TypeOK, [Next]_vars PROVE TypeOK'
    OBVIOUS
  <2>. USE DEF TypeOK, callVars, locals, fetchVars, dumpVars, scanVars, driveVars, dbVars
  <2>1. ASSUME NEW c \in Calls, CreateBackup(c) PROVE TypeOK'
    BY <2>1, FailType DEF CreateBackup, BeginDump, Request, Awaits, Roles, Errors
  <2>2. ASSUME NEW c \in Calls, NEW id \in Targets, NEW ok \in BOOLEAN, Restore(c, id, ok) PROVE TypeOK'
    BY <2>2, FailType, RequestsAssumption DEF Restore, Request, Awaits, Errors
  <2>3. ASSUME NEW c \in Calls, NEW id \in Targets, DownloadBackup(c, id) PROVE TypeOK'
    BY <2>3, AwaitType, RequestsAssumption DEF DownloadBackup, Request, Awaits
  <2>4. ASSUME NEW c \in Calls, RejectTarget(c) PROVE TypeOK'
    BY <2>4, FailType, RequestsAssumption DEF RejectTarget, Request, Errors
  <2>5. ASSUME NEW c \in Calls, ResolveOk(c) PROVE TypeOK'
    <3>1. PICK f \in Resolved(target[c]) :
            \/ Fail(c, "FailedPrecondition") /\ info' = info
            \/ /\ info' = [info EXCEPT ![c] = ToBackupInfo(f)]
               /\ temp' = temp \cup {<<c, "fetched">>}
               /\ Await(c, "fetch")
      BY <2>5 DEF ResolveOk
    <3>2. ToBackupInfo(f) \in BackupInfo
      BY ResolvedType
    <3>3. CASE Fail(c, "FailedPrecondition") /\ info' = info
      BY <2>5, <3>3, FailType DEF ResolveOk, Errors
    <3>4. CASE /\ info' = [info EXCEPT ![c] = ToBackupInfo(f)]
               /\ temp' = temp \cup {<<c, "fetched">>}
               /\ Await(c, "fetch")
      BY <2>5, <3>2, <3>4, AwaitType DEF ResolveOk, Awaits, Roles
    <3>. QED  BY <3>1, <3>3, <3>4
  <2>6. ASSUME NEW c \in Calls, ResolveFail(c) PROVE TypeOK'
    BY <2>6, FailType, ResolveErrorType DEF ResolveFail, StorageErrors, Errors
  <2>7. ASSUME NEW c \in Calls, FetchOk(c) PROVE TypeOK'
    BY <2>7, AwaitType DEF FetchOk, BeginDump, Awaits, Roles, DriveFiles
  <2>8. ASSUME NEW c \in Calls, FetchFail(c) PROVE TypeOK'
    BY <2>8, FailType DEF FetchFail, StorageErrors, Errors
  <2>9. ASSUME NEW c \in Calls, DecompressOk(c) PROVE TypeOK'
    BY <2>9, AwaitType DEF DecompressOk, Awaits
  <2>10. ASSUME NEW c \in Calls, DecompressFail(c) PROVE TypeOK'
    BY <2>10, FailType DEF DecompressFail, Errors
  <2>11. ASSUME NEW c \in Calls, StreamEnd(c) PROVE TypeOK'
    BY <2>11, ReturnType DEF StreamEnd, Statuses
  <2>12. ASSUME NEW c \in Calls, DumpOk(c) PROVE TypeOK'
    BY <2>12, AwaitType DEF DumpOk, Awaits
  <2>13. ASSUME NEW c \in Calls, DumpFail(c) PROVE TypeOK'
    BY <2>13, FailType DEF DumpFail, ToolErrors, Errors
  <2>14. ASSUME NEW c \in Calls, UploadOk(c) PROVE TypeOK'
    BY <2>14, AwaitType, ReturnType, UploadType, KindOfType DEF UploadOk, Awaits, Statuses
  <2>15. ASSUME NEW c \in Calls, UploadFail(c) PROVE TypeOK'
    BY <2>15, FailType, KindOfType DEF UploadFail, Ghost, Errors
  <2>16. ASSUME NEW c \in Calls, ListPage(c) PROVE TypeOK'
    <3>. DEFINE page == First(Unlisted(c), PageSize)
    <3>1. page \in SUBSET files
      BY DEF First, Unlisted, FolderQuery
    <3>2. ListedWith(c, page) \subseteq BackupInfo
      BY <3>1, ListedType
    <3>3. \A f \in page : f.id \in Nat
      BY <3>1 DEF DriveFiles
    <3>. HIDE DEF page
    <3>4. CASE EndListing(c, {}) /\ Return(c, "OK")
      BY <2>16, <3>4, ReturnType DEF ListPage, EndListing, Statuses
    <3>5. CASE /\ \E f \in page : token' = [token EXCEPT ![c] = f.id]
               /\ items' = [items EXCEPT ![c] = ListedWith(c, page)]
               /\ pages' = [pages EXCEPT ![c] = @ + 1]
               /\ Await(c, "list") /\ UNCHANGED <<todo, temp>>
      BY <2>16, <3>2, <3>3, <3>5, AwaitType DEF ListPage, Awaits
    <3>. QED  BY <2>16, <3>4, <3>5 DEF ListPage, page
  <2>17. ASSUME NEW c \in Calls, ListLastPage(c) PROVE TypeOK'
    BY <2>17, ReturnType, AwaitType, CandidatesType DEF ListLastPage, EndListing, Awaits, Statuses
  <2>18. ASSUME NEW c \in Calls, ListFail(c) PROVE TypeOK'
    BY <2>18, ReturnType DEF ListFail, EndListing, Statuses
  <2>19. ASSUME NEW c \in Calls, DeleteOk(c) PROVE TypeOK'
    BY <2>19, ReturnType, AwaitType DEF DeleteOk, AfterDelete, Awaits, Statuses
  <2>20. ASSUME NEW c \in Calls, DeleteFail(c) PROVE TypeOK'
    BY <2>20, ReturnType, AwaitType DEF DeleteFail, AfterDelete, Awaits, Statuses
  <2>21. ASSUME NEW c \in Calls, RestoreOk(c) PROVE TypeOK'
    BY <2>21, ReturnType DEF RestoreOk, Statuses
  <2>22. ASSUME NEW c \in Calls, RestoreFail(c) PROVE TypeOK'
    BY <2>22, FailType DEF RestoreFail, ToolErrors, Errors
  <2>23. ASSUME NEW c \in Calls, Commit(c) PROVE TypeOK'
    BY <2>23 DEF Commit
  <2>24. ASSUME NEW c \in Calls, Rollback(c) PROVE TypeOK'
    BY <2>24 DEF Rollback
  <2>25. ASSUME NEW c \in Calls, Cancel(c) PROVE TypeOK'
    BY <2>25, ReturnType, AbandonType, CreationsType DEF Cancel, Statuses
  <2>26. ASSUME LateCreate PROVE TypeOK'
    BY <2>26 DEF LateCreate
  <2>27. ASSUME Crash PROVE TypeOK'
    BY <2>27, AbandonType DEF Crash, Awaits, Statuses
  <2>28. ASSUME LandUpload PROVE TypeOK'
    BY <2>28, UploadType DEF LandUpload
  <2>29. ASSUME LandDelete PROVE TypeOK'
    BY <2>29 DEF LandDelete
  <2>30. ASSUME AppWrite PROVE TypeOK'
    BY <2>30, InitFilesAssumption DEF AppWrite
  <2>31. ASSUME AllServed PROVE TypeOK'
    BY <2>31 DEF AllServed, vars
  <2>32. CASE UNCHANGED vars
    BY <2>32 DEF vars
  <2>. HIDE DEF TypeOK, callVars, locals, fetchVars, dumpVars, scanVars,
                driveVars, dbVars
  <2>. QED
    BY <2>1, <2>2, <2>3, <2>4, <2>5, <2>6, <2>7, <2>8, <2>9, <2>10, <2>11,
       <2>12, <2>13, <2>14, <2>15, <2>16, <2>17, <2>18, <2>19, <2>20, <2>21,
       <2>22, <2>23, <2>24, <2>25, <2>26, <2>27, <2>28, <2>29, <2>30, <2>31,
       <2>32 DEF Next, Arrive, Progress, Environment
<1>. QED  BY <1>1, <1>2, PTL DEF Spec

----------------------------------------------------------------------------
(* The write lock.  LockOwned is inductive once the types are known. *)

\* A call that returns gives up the lock if it is the one that holds it.
LEMMA ReturnLock ==
    ASSUME TypeOK, LockOwned, NEW c \in Calls, NEW status, Return(c, status),
           \A d \in Calls \ {c} : op'[d] = op[d]
    PROVE  LockOwned'
  BY DEF TypeOK, LockOwned, Return, Live, Writes, Awaits

\* A call that goes on to another await still holds what it held.
LEMMA AwaitLock ==
    ASSUME TypeOK, LockOwned, NEW c \in Calls, NEW step \in Awaits,
           Await(c, step), pc[c] \in Awaits, op' = op
    PROVE  LockOwned'
  BY DEF TypeOK, LockOwned, Await, Live, Writes

\* Steps that move no call do not disturb the lock.
LEMMA KeepLock ==
    ASSUME LockOwned, UNCHANGED <<pc, op, lock>>
    PROVE  LockOwned'
  BY DEF LockOwned, Live, Writes

\* No step breaks LockOwned.
LEMMA LockStep ==
    ASSUME TypeOK, LockOwned, [Next]_vars
    PROVE  LockOwned'
<1>. USE DEF callVars, locals
<1>1. ASSUME NEW c \in Calls, CreateBackup(c) PROVE LockOwned'
  BY <1>1, ReturnLock, NoCallAssumption DEF CreateBackup, BeginDump, Request, Fail, Awaits, TypeOK, LockOwned, Live, Writes
<1>2. ASSUME NEW c \in Calls, NEW id \in Targets, NEW ok \in BOOLEAN, Restore(c, id, ok) PROVE LockOwned'
  BY <1>2, ReturnLock, NoCallAssumption DEF Restore, Request, Fail, Awaits, TypeOK, LockOwned, Live, Writes
<1>3. ASSUME NEW c \in Calls, NEW id \in Targets, DownloadBackup(c, id) PROVE LockOwned'
  BY <1>3 DEF DownloadBackup, Request, Await, Awaits, TypeOK, LockOwned, Live, Writes
<1>4. ASSUME NEW c \in Calls, RejectTarget(c) PROVE LockOwned'
  BY <1>4, ReturnLock DEF RejectTarget, Request, Fail
<1>5. ASSUME NEW c \in Calls, ResolveOk(c) PROVE LockOwned'
  BY <1>5, ReturnLock, AwaitLock DEF ResolveOk, Fail, Awaits
<1>6. ASSUME NEW c \in Calls, ResolveFail(c) PROVE LockOwned'
  BY <1>6, ReturnLock DEF ResolveFail, Fail
<1>7. ASSUME NEW c \in Calls, FetchOk(c) PROVE LockOwned'
  BY <1>7, AwaitLock DEF FetchOk, BeginDump, Await, Awaits, TypeOK, LockOwned, Live, Writes
<1>8. ASSUME NEW c \in Calls, FetchFail(c) PROVE LockOwned'
  BY <1>8, ReturnLock DEF FetchFail, Fail
<1>9. ASSUME NEW c \in Calls, DecompressOk(c) PROVE LockOwned'
  BY <1>9, AwaitLock DEF DecompressOk, Awaits
<1>10. ASSUME NEW c \in Calls, DecompressFail(c) PROVE LockOwned'
  BY <1>10, ReturnLock DEF DecompressFail, Fail
<1>11. ASSUME NEW c \in Calls, StreamEnd(c) PROVE LockOwned'
  BY <1>11, ReturnLock DEF StreamEnd
<1>12. ASSUME NEW c \in Calls, DumpOk(c) PROVE LockOwned'
  BY <1>12, AwaitLock DEF DumpOk, Awaits
<1>13. ASSUME NEW c \in Calls, DumpFail(c) PROVE LockOwned'
  BY <1>13, ReturnLock DEF DumpFail, Fail
<1>14. ASSUME NEW c \in Calls, UploadOk(c) PROVE LockOwned'
  BY <1>14, ReturnLock, AwaitLock DEF UploadOk, Awaits
<1>15. ASSUME NEW c \in Calls, UploadFail(c) PROVE LockOwned'
  BY <1>15, ReturnLock DEF UploadFail, Fail
<1>16. ASSUME NEW c \in Calls, ListPage(c) PROVE LockOwned'
  BY <1>16, ReturnLock, AwaitLock DEF ListPage, Awaits
<1>17. ASSUME NEW c \in Calls, ListLastPage(c) PROVE LockOwned'
  BY <1>17, ReturnLock, AwaitLock DEF ListLastPage, Awaits
<1>18. ASSUME NEW c \in Calls, ListFail(c) PROVE LockOwned'
  BY <1>18, ReturnLock DEF ListFail
<1>19. ASSUME NEW c \in Calls, DeleteOk(c) PROVE LockOwned'
  BY <1>19, ReturnLock, AwaitLock DEF DeleteOk, AfterDelete, Awaits
<1>20. ASSUME NEW c \in Calls, DeleteFail(c) PROVE LockOwned'
  BY <1>20, ReturnLock, AwaitLock DEF DeleteFail, AfterDelete, Awaits
<1>21. ASSUME NEW c \in Calls, RestoreOk(c) PROVE LockOwned'
  BY <1>21, ReturnLock DEF RestoreOk
<1>22. ASSUME NEW c \in Calls, RestoreFail(c) PROVE LockOwned'
  BY <1>22, ReturnLock DEF RestoreFail, Fail
<1>23. ASSUME NEW c \in Calls, Commit(c) PROVE LockOwned'
  BY <1>23, KeepLock DEF Commit
<1>24. ASSUME NEW c \in Calls, Rollback(c) PROVE LockOwned'
  BY <1>24, KeepLock DEF Rollback
<1>25. ASSUME NEW c \in Calls, Cancel(c) PROVE LockOwned'
  BY <1>25, ReturnLock DEF Cancel
<1>26. ASSUME LateCreate PROVE LockOwned'
  BY <1>26, KeepLock DEF LateCreate
<1>27. ASSUME Crash PROVE LockOwned'
  BY <1>27 DEF Crash, LockOwned, Live, Writes, TypeOK, Awaits
<1>28. ASSUME LandUpload PROVE LockOwned'
  BY <1>28, KeepLock DEF LandUpload
<1>29. ASSUME LandDelete PROVE LockOwned'
  BY <1>29, KeepLock DEF LandDelete
<1>30. ASSUME AppWrite PROVE LockOwned'
  BY <1>30, KeepLock DEF AppWrite
<1>31. ASSUME AllServed PROVE LockOwned'
  BY <1>31, KeepLock DEF AllServed, vars
<1>32. CASE UNCHANGED vars
  BY <1>32, KeepLock DEF vars
<1>. HIDE DEF callVars, locals
<1>. QED
  BY <1>1, <1>2, <1>3, <1>4, <1>5, <1>6, <1>7, <1>8, <1>9, <1>10, <1>11,
     <1>12, <1>13, <1>14, <1>15, <1>16, <1>17, <1>18, <1>19, <1>20, <1>21,
     <1>22, <1>23, <1>24, <1>25, <1>26, <1>27, <1>28, <1>29, <1>30, <1>31,
     <1>32 DEF Next, Arrive, Progress, Environment

\* write_lock serializes CreateBackup and Restore, and every way out of a call
\* gives it back.
THEOREM LockCorrect == Spec => []LockOwned
<1>1. Init => LockOwned
  BY DEF Init, LockOwned, Live, Awaits
<1>. QED  BY <1>1, TypeCorrect, LockStep, PTL DEF Spec

----------------------------------------------------------------------------
(***************************************************************************)
(* The pre-restore copy.  SafetyCopyStored is not inductive: that nothing  *)
(* deletes the copy rests on what is known of every id that is, or will    *)
(* be, the subject of a delete, back to the listing it came from.          *)
(***************************************************************************)

\* Drive's ids identify files and grow.
IdsOrdered ==
    /\ \A f \in files : f.id < next_id
    /\ \A f, g \in files : f.id = g.id => f = g

\* What list_all remembers of a file stays true: files do not change.
ItemsCurrent ==
    \A c \in Calls : \A b \in items[c] :
      /\ b.id < next_id
      /\ \A f \in files : f.id = b.id => IsInFolder(f) /\ IsBackup(f) /\ ToBackupInfo(f) = b

\* Only regular pg_dump backups are ever to be deleted.
MayDelete(id) ==
    /\ id < next_id
    /\ \A f \in files : f.id = id => f \in RegularBackups(files)

DoomedRegular ==
    /\ \A id \in dying : MayDelete(id)
    /\ \A c \in Calls : \A id \in todo[c] : MayDelete(id)

\* A transaction belongs to a restore that has made its copy.
RestoresOnly ==
    \A c \in txn \cup committed : pc[c] \in {"restore", "done"}

AfterDump == {"upload", "list", "delete", "restore", "done"}

\* The database still is what the call dumped.
IntactDumps ==
    \A c \in intact : pc[c] \in AfterDump /\ dumped[c] = db

SafetyInv ==
    /\ IdsOrdered
    /\ ItemsCurrent
    /\ DoomedRegular
    /\ RestoresOnly
    /\ IntactDumps
    /\ SafetyCopyStored

\* A file retention counts is not a pre-restore copy.
LEMMA RegularKind ==
    ASSUME NEW S \in SUBSET DriveFiles, NEW f \in RegularBackups(S)
    PROVE  f.kind # "pre_restore"
  BY DEF RegularBackups, FolderQuery, IsPrunable, ToBackupInfo, ParseKind, Kinds

\* Most steps leave all of this alone: they move a call that has no dump yet,
\* end one, or drop some of what it was going to do.
LEMMA SafetyFrame ==
    ASSUME TypeOK, SafetyInv,
           UNCHANGED <<files, next_id, dumped, copy, db, committed>>,
           txn' \subseteq txn, intact' \subseteq intact,
           \A c \in Calls : items'[c] \subseteq items[c] /\ todo'[c] \subseteq todo[c],
           \A id \in dying' : id \in dying \/ \E c \in Calls : id \in todo[c],
           \A c \in Calls : pc'[c] \in {pc[c], "done"} \/ pc[c] \notin AfterDump
    PROVE  SafetyInv'
<1>1. IdsOrdered'
  BY DEF SafetyInv, IdsOrdered
<1>2. ItemsCurrent'
  BY DEF SafetyInv, ItemsCurrent
<1>3. \A id : MayDelete(id)' <=> MayDelete(id)
  BY DEF MayDelete
<1>4. DoomedRegular'
  BY <1>3 DEF SafetyInv, DoomedRegular
<1>5. RestoresOnly'
  BY DEF SafetyInv, RestoresOnly, AfterDump, TypeOK
<1>6. IntactDumps'
  BY DEF SafetyInv, IntactDumps, AfterDump, TypeOK
<1>7. SafetyCopyStored'
  BY DEF SafetyInv, SafetyCopyStored
<1>. QED  BY <1>1, <1>2, <1>4, <1>5, <1>6, <1>7 DEF SafetyInv

\* Deleting an id that may be deleted takes no safety copy away.
LEMMA SafetyDelete ==
    ASSUME TypeOK, SafetyInv, NEW id, MayDelete(id),
           files' = {f \in files : f.id # id},
           UNCHANGED <<next_id, dumped, copy, db, committed, txn, intact, items>>,
           \A c \in Calls : todo'[c] \subseteq todo[c], dying' \subseteq dying,
           \A c \in Calls : pc'[c] \in {pc[c], "done"}
    PROVE  SafetyInv'
<1>1. IdsOrdered'
  BY DEF SafetyInv, IdsOrdered
<1>2. ItemsCurrent'
  BY DEF SafetyInv, ItemsCurrent
<1>3. \A i : MayDelete(i) => MayDelete(i)'
  BY DEF MayDelete, RegularBackups, FolderQuery
<1>4. DoomedRegular'
  BY <1>3 DEF SafetyInv, DoomedRegular
<1>5. RestoresOnly' /\ IntactDumps'
  BY DEF SafetyInv, RestoresOnly, IntactDumps, AfterDump, TypeOK
<1>6. SafetyCopyStored'
  <2>. SUFFICES ASSUME NEW c \in txn \cup committed
                PROVE  \E f \in FolderQuery(files') :
                         /\ f.id = copy[c] /\ f.kind = "pre_restore"
                         /\ f.content = dumped[c]
    BY DEF SafetyCopyStored
  <2>1. PICK f \in FolderQuery(files) :
          f.id = copy[c] /\ f.kind = "pre_restore" /\ f.content = dumped[c]
    BY DEF SafetyInv, SafetyCopyStored
  <2>2. f.id # id
    BY <2>1, RegularKind DEF MayDelete, FolderQuery, TypeOK
  <2>. QED  BY <2>1, <2>2 DEF FolderQuery
<1>. QED  BY <1>1, <1>2, <1>4, <1>5, <1>6 DEF SafetyInv

\* A new file takes nothing away, and nothing known of old ids is about it.
LEMMA SafetyUpload ==
    ASSUME TypeOK, SafetyInv, NEW kind \in Kinds, NEW content \in Nat,
           files' = files \cup {UploadMetadata(kind, content, next_id)},
           next_id' = next_id + 1,
           UNCHANGED <<dying, todo, items>>
    PROVE  IdsOrdered' /\ ItemsCurrent' /\ DoomedRegular'
<1>. DEFINE new == UploadMetadata(kind, content, next_id)
<1>1. new.id = next_id
  BY DEF UploadMetadata
<1>. HIDE DEF new
<1>2. IdsOrdered'
  BY <1>1 DEF SafetyInv, IdsOrdered, TypeOK, DriveFiles, new
<1>3. ItemsCurrent'
  BY <1>1 DEF SafetyInv, ItemsCurrent, TypeOK, BackupInfo, new
<1>4. ASSUME NEW id \in Nat, MayDelete(id) PROVE MayDelete(id)'
  BY <1>1, <1>4 DEF MayDelete, RegularBackups, FolderQuery, TypeOK, new
<1>5. DoomedRegular'
  BY <1>4 DEF SafetyInv, DoomedRegular, TypeOK
<1>. QED  BY <1>2, <1>3, <1>5

\* Abandoned deletes are of ids that were to be deleted.
LEMMA AbandonDoomed ==
    ASSUME NEW gone \in SUBSET Calls, Abandon(gone), NEW id \in dying'
    PROVE  id \in dying \/ \E c \in Calls : id \in todo[c]
  BY DEF Abandon

\* What a page adds to the listing is what Drive has now.
LEMMA ListedCurrent ==
    ASSUME TypeOK, SafetyInv, NEW c \in Calls, NEW page \in SUBSET FolderQuery(files),
           NEW b \in ListedWith(c, page)
    PROVE  /\ b.id < next_id
           /\ \A f \in files : f.id = b.id => IsInFolder(f) /\ IsBackup(f) /\ ToBackupInfo(f) = b
<1>1. CASE b \in items[c]
  BY <1>1 DEF SafetyInv, ItemsCurrent
<1>2. CASE \E f \in page : IsBackup(f) /\ b = ToBackupInfo(f)
  <2>1. PICK g \in page : IsBackup(g) /\ b = ToBackupInfo(g)
    BY <1>2
  <2>2. g \in files /\ IsInFolder(g) /\ b.id = g.id
    BY <2>1 DEF FolderQuery, ToBackupInfo
  <2>. QED  BY <2>1, <2>2 DEF SafetyInv, IdsOrdered
<1>. QED  BY <1>1, <1>2 DEF ListedWith

\* What retention picks from a listing may be deleted.
LEMMA CandidatesMayDelete ==
    ASSUME TypeOK, SafetyInv, NEW c \in Calls
    PROVE  \A id \in {b.id : b \in RetentionCandidates(ListedWith(c, Unlisted(c)), Retention)} :
             MayDelete(id)
<1>1. Unlisted(c) \in SUBSET FolderQuery(files)
  BY DEF Unlisted
<1>2. ASSUME NEW b \in RetentionCandidates(ListedWith(c, Unlisted(c)), Retention)
      PROVE  MayDelete(b.id)
  <2>1. b \in ListedWith(c, Unlisted(c)) /\ IsPrunable(b)
    BY CandidatesFromListing
  <2>2. /\ b.id < next_id
        /\ \A f \in files : f.id = b.id => IsInFolder(f) /\ IsBackup(f) /\ ToBackupInfo(f) = b
    BY <1>1, <2>1, ListedCurrent
  <2>. QED  BY <2>1, <2>2 DEF MayDelete, RegularBackups, FolderQuery
<1>. QED  BY <1>2

\* No step breaks SafetyInv.
LEMMA SafetyStep ==
    ASSUME TypeOK, SafetyInv, [Next]_vars
    PROVE  SafetyInv'
<1>. USE DEF TypeOK, callVars, locals, fetchVars, dumpVars, scanVars, driveVars, dbVars
<1>1. ASSUME NEW c \in Calls, CreateBackup(c) PROVE SafetyInv'
  BY <1>1, SafetyFrame DEF CreateBackup, Request, Fail, Return, BeginDump, AfterDump
<1>2. ASSUME NEW c \in Calls, NEW id \in Targets, NEW ok \in BOOLEAN, Restore(c, id, ok) PROVE SafetyInv'
  BY <1>2, SafetyFrame DEF Restore, Request, Fail, Return, AfterDump
<1>3. ASSUME NEW c \in Calls, NEW id \in Targets, DownloadBackup(c, id) PROVE SafetyInv'
  BY <1>3, SafetyFrame DEF DownloadBackup, Request, Await, AfterDump
<1>4. ASSUME NEW c \in Calls, RejectTarget(c) PROVE SafetyInv'
  BY <1>4, SafetyFrame DEF RejectTarget, Request, Fail, Return
<1>5. ASSUME NEW c \in Calls, ResolveOk(c) PROVE SafetyInv'
  BY <1>5, SafetyFrame DEF ResolveOk, Fail, Return, Await, AfterDump
<1>6. ASSUME NEW c \in Calls, ResolveFail(c) PROVE SafetyInv'
  BY <1>6, SafetyFrame DEF ResolveFail, Fail, Return
<1>7. ASSUME NEW c \in Calls, FetchOk(c) PROVE SafetyInv'
  BY <1>7, SafetyFrame DEF FetchOk, BeginDump, Await, AfterDump
<1>8. ASSUME NEW c \in Calls, FetchFail(c) PROVE SafetyInv'
  BY <1>8, SafetyFrame DEF FetchFail, Fail, Return
<1>9. ASSUME NEW c \in Calls, DecompressOk(c) PROVE SafetyInv'
  BY <1>9, SafetyFrame DEF DecompressOk, Await, AfterDump
<1>10. ASSUME NEW c \in Calls, DecompressFail(c) PROVE SafetyInv'
  BY <1>10, SafetyFrame DEF DecompressFail, Fail, Return
<1>11. ASSUME NEW c \in Calls, StreamEnd(c) PROVE SafetyInv'
  BY <1>11, SafetyFrame DEF StreamEnd, Return
<1>12. ASSUME NEW c \in Calls, DumpFail(c) PROVE SafetyInv'
  BY <1>12, SafetyFrame DEF DumpFail, Fail, Return
<1>13. ASSUME NEW c \in Calls, UploadFail(c) PROVE SafetyInv'
  BY <1>13, SafetyFrame DEF UploadFail, Fail, Return
<1>14. ASSUME NEW c \in Calls, ListFail(c) PROVE SafetyInv'
  BY <1>14, SafetyFrame DEF ListFail, EndListing, Return
<1>15. ASSUME NEW c \in Calls, DeleteFail(c) PROVE SafetyInv'
  <2>1. PICK id \in todo[c] : dying' \in {dying, dying \cup {id}} /\ AfterDelete(c, id)
    BY <1>15 DEF DeleteFail
  <2>2. /\ UNCHANGED <<files, next_id, dumped, copy, db, committed, txn, intact, items>>
        /\ \A d \in Calls : todo'[d] \subseteq todo[d]
    BY <1>15, <2>1 DEF DeleteFail, AfterDelete
  <2>3. \A i \in dying' : i \in dying \/ \E d \in Calls : i \in todo[d]
    BY <2>1
  <2>4. \A d \in Calls : pc'[d] \in {pc[d], "done"}
    <3>1. pc[c] = "delete" /\ (Return(c, "OK") \/ Await(c, "delete"))
      BY <1>15, <2>1 DEF DeleteFail, AfterDelete
    <3>. QED  BY <3>1 DEF Return, Await
  <2>. HIDE DEF TypeOK
  <2>. QED  BY <2>2, <2>3, <2>4, SafetyFrame
<1>16. ASSUME NEW c \in Calls, RestoreOk(c) PROVE SafetyInv'
  BY <1>16, SafetyFrame DEF RestoreOk, Return
<1>17. ASSUME NEW c \in Calls, RestoreFail(c) PROVE SafetyInv'
  BY <1>17, SafetyFrame DEF RestoreFail, Fail, Return
<1>18. ASSUME NEW c \in Calls, Rollback(c) PROVE SafetyInv'
  BY <1>18, SafetyFrame DEF Rollback
<1>19. ASSUME NEW c \in Calls, Cancel(c) PROVE SafetyInv'
  <2>1. \A id \in dying' : id \in dying \/ \E d \in Calls : id \in todo[d]
    <3>1. Abandon({c}) /\ {c} \in SUBSET Calls
      BY <1>19 DEF Cancel
    <3>. QED  BY <3>1, AbandonDoomed
  <2>2. UNCHANGED <<files, next_id, dumped, copy, db, committed, txn, intact, items, todo>>
    BY <1>19 DEF Cancel, Abandon
  <2>3. \A d \in Calls : pc'[d] \in {pc[d], "done"}
    BY <1>19 DEF Cancel, Return
  <2>. QED  BY <2>1, <2>2, <2>3, SafetyFrame
<1>20. ASSUME LateCreate PROVE SafetyInv'
  BY <1>20, SafetyFrame DEF LateCreate
<1>21. ASSUME Crash PROVE SafetyInv'
  <2>1. \A id \in dying' : id \in dying \/ \E d \in Calls : id \in todo[d]
    <3>. DEFINE gone == {d \in Calls : Live(d)}
    <3>1. Abandon(gone) /\ gone \in SUBSET Calls
      BY <1>21 DEF Crash
    <3>. HIDE DEF gone
    <3>. QED  BY <3>1, AbandonDoomed
  <2>2. UNCHANGED <<files, next_id, dumped, copy, db, committed, txn, intact, items, todo>>
    BY <1>21 DEF Crash, Abandon
  <2>3. \A d \in Calls : pc'[d] \in {pc[d], "done"}
    BY <1>21 DEF Crash
  <2>. QED  BY <2>1, <2>2, <2>3, SafetyFrame
<1>22. ASSUME AllServed PROVE SafetyInv'
  BY <1>22, SafetyFrame DEF AllServed, vars
<1>23. ASSUME NEW c \in Calls, DumpOk(c) PROVE SafetyInv'
  <2>1. c \notin txn \cup committed
    BY <1>23 DEF DumpOk, SafetyInv, RestoresOnly
  <2>2. SafetyCopyStored'
    BY <1>23, <2>1 DEF DumpOk, SafetyInv, SafetyCopyStored
  <2>3. RestoresOnly' /\ IntactDumps'
    BY <1>23, <2>1 DEF DumpOk, Await, SafetyInv, RestoresOnly, IntactDumps, AfterDump
  <2>4. IdsOrdered' /\ ItemsCurrent' /\ DoomedRegular'
    BY <1>23 DEF DumpOk, SafetyInv, IdsOrdered, ItemsCurrent, DoomedRegular, MayDelete
  <2>. QED  BY <2>2, <2>3, <2>4 DEF SafetyInv
<1>24. ASSUME NEW c \in Calls, UploadOk(c) PROVE SafetyInv'
  <2>1. IdsOrdered' /\ ItemsCurrent' /\ DoomedRegular'
    BY <1>24, SafetyUpload, KindOfType DEF UploadOk
  <2>2. c \notin txn \cup committed
    BY <1>24 DEF UploadOk, SafetyInv, RestoresOnly
  <2>3. RestoresOnly' /\ IntactDumps'
    <3>1. \/ pc' = [pc EXCEPT ![c] = "restore"]
          \/ pc' \in {[pc EXCEPT ![c] = "done"], [pc EXCEPT ![c] = "list"]} /\ txn' = txn
      BY <1>24 DEF UploadOk, Return, Await
    <3>2. txn' \subseteq txn \cup {c} /\ UNCHANGED <<committed, intact, dumped, db>>
      BY <1>24 DEF UploadOk
    <3>3. RestoresOnly'
      BY <2>2, <3>1, <3>2 DEF SafetyInv, RestoresOnly
    <3>4. IntactDumps'
      BY <3>1, <3>2 DEF SafetyInv, IntactDumps, AfterDump
    <3>. QED  BY <3>3, <3>4
  <2>4. ASSUME NEW d \in (txn \cup committed)'
        PROVE  \E f \in FolderQuery(files') :
                 f.id = copy'[d] /\ f.kind = "pre_restore" /\ f.content = dumped'[d]
    <3>1. CASE d = c
      <4>1. op[c] = "restore"
        BY <1>24, <2>2, <2>4, <3>1 DEF UploadOk
      <4>. DEFINE new == UploadMetadata("pre_restore", dumped[c], next_id)
      <4>2. new \in files'
        BY <1>24, <4>1 DEF UploadOk, KindOf
      <4>3. /\ new.id = next_id /\ new.kind = "pre_restore"
            /\ new.content = dumped[c] /\ IsInFolder(new)
        BY DEF UploadMetadata, IsInFolder
      <4>4. copy'[c] = next_id /\ dumped'[c] = dumped[c]
        BY <1>24 DEF UploadOk
      <4>. QED  BY <3>1, <4>2, <4>3, <4>4 DEF FolderQuery
    <3>2. CASE d # c
      BY <1>24, <2>4, <3>2 DEF UploadOk, SafetyInv, SafetyCopyStored, FolderQuery
    <3>. QED  BY <3>1, <3>2
  <2>5. SafetyCopyStored'
    BY <2>4 DEF SafetyCopyStored
  <2>. QED  BY <2>1, <2>3, <2>5 DEF SafetyInv
<1>25. ASSUME NEW c \in Calls, ListPage(c) PROVE SafetyInv'
  <2>. DEFINE page == First(Unlisted(c), PageSize)
  <2>1. page \in SUBSET FolderQuery(files)
    BY DEF First, Unlisted
  <2>. HIDE DEF page
  <2>2. CASE EndListing(c, {}) /\ Return(c, "OK")
    BY <1>25, <2>2, SafetyFrame DEF ListPage, EndListing, Return
  <2>3. CASE items' = [items EXCEPT ![c] = ListedWith(c, page)] /\ Await(c, "list") /\ todo' = todo
    <3>1. ItemsCurrent'
      BY <1>25, <2>1, <2>3, ListedCurrent DEF ListPage, SafetyInv, ItemsCurrent
    <3>2. IdsOrdered' /\ DoomedRegular' /\ SafetyCopyStored'
      BY <1>25, <2>3 DEF ListPage, SafetyInv, IdsOrdered, DoomedRegular, MayDelete, SafetyCopyStored
    <3>3. RestoresOnly' /\ IntactDumps'
      BY <1>25, <2>3 DEF ListPage, Await, SafetyInv, RestoresOnly, IntactDumps, AfterDump
    <3>. QED  BY <3>1, <3>2, <3>3 DEF SafetyInv
  <2>. QED  BY <1>25, <2>2, <2>3 DEF ListPage, page
<1>26. ASSUME NEW c \in Calls, ListLastPage(c) PROVE SafetyInv'
  <2>. DEFINE ids == {b.id : b \in RetentionCandidates(ListedWith(c, Unlisted(c)), Retention)}
  <2>2. \A id \in ids : MayDelete(id)
    BY CandidatesMayDelete
  <2>. HIDE DEF ids
  <2>3. EndListing(c, ids) /\ (Return(c, "OK") \/ Await(c, "delete"))
    BY <1>26 DEF ListLastPage, ids
  <2>4. UNCHANGED <<files, next_id, dying, txn, committed, intact, db, dumped, copy>>
    BY <1>26 DEF ListLastPage
  <2>5. IdsOrdered' /\ ItemsCurrent' /\ SafetyCopyStored'
    BY <2>3, <2>4 DEF EndListing, SafetyInv, IdsOrdered, ItemsCurrent, SafetyCopyStored
  <2>6. DoomedRegular'
    BY <2>2, <2>3, <2>4 DEF EndListing, SafetyInv, DoomedRegular, MayDelete
  <2>7. RestoresOnly' /\ IntactDumps'
    BY <1>26, <2>3, <2>4 DEF ListLastPage, Return, Await, SafetyInv, RestoresOnly, IntactDumps, AfterDump
  <2>. QED  BY <2>5, <2>6, <2>7 DEF SafetyInv
<1>27. ASSUME NEW c \in Calls, DeleteOk(c) PROVE SafetyInv'
  <2>1. PICK id \in todo[c] : files' = {f \in files : f.id # id} /\ AfterDelete(c, id)
    BY <1>27 DEF DeleteOk
  <2>2. MayDelete(id)
    BY DEF SafetyInv, DoomedRegular
  <2>3. /\ UNCHANGED <<next_id, dumped, copy, db, committed, txn, intact, items, dying>>
        /\ \A d \in Calls : todo'[d] \subseteq todo[d]
    BY <1>27, <2>1 DEF DeleteOk, AfterDelete
  <2>4. \A d \in Calls : pc'[d] \in {pc[d], "done"}
    <3>1. pc[c] = "delete" /\ (Return(c, "OK") \/ Await(c, "delete"))
      BY <1>27, <2>1 DEF DeleteOk, AfterDelete
    <3>. QED  BY <3>1 DEF Return, Await
  <2>. HIDE DEF TypeOK
  <2>. QED  BY <2>1, <2>2, <2>3, <2>4, SafetyDelete
<1>28. ASSUME LandDelete PROVE SafetyInv'
  <2>1. PICK id \in dying : files' = {f \in files : f.id # id} /\ dying' = dying \ {id}
    BY <1>28 DEF LandDelete
  <2>2. MayDelete(id)
    BY DEF SafetyInv, DoomedRegular
  <2>. QED  BY <1>28, <2>1, <2>2, SafetyDelete DEF LandDelete
<1>29. ASSUME LandUpload PROVE SafetyInv'
  <2>1. PICK g \in ghosts : files' = files \cup {UploadMetadata(g.kind, g.content, next_id)}
    BY <1>29 DEF LandUpload
  <2>2. IdsOrdered' /\ ItemsCurrent' /\ DoomedRegular'
    BY <1>29, <2>1, SafetyUpload DEF LandUpload
  <2>3. RestoresOnly' /\ IntactDumps' /\ SafetyCopyStored'
    BY <1>29, <2>1 DEF LandUpload, SafetyInv, RestoresOnly, IntactDumps, SafetyCopyStored, FolderQuery
  <2>. QED  BY <2>2, <2>3 DEF SafetyInv
<1>30. ASSUME NEW c \in Calls, Commit(c) PROVE SafetyInv'
  BY <1>30 DEF Commit, SafetyInv, IdsOrdered, ItemsCurrent, DoomedRegular, MayDelete,
            RestoresOnly, IntactDumps, SafetyCopyStored
<1>31. ASSUME AppWrite PROVE SafetyInv'
  BY <1>31 DEF AppWrite, SafetyInv, IdsOrdered, ItemsCurrent, DoomedRegular, MayDelete,
            RestoresOnly, IntactDumps, SafetyCopyStored
<1>32. CASE UNCHANGED vars
  BY <1>32, SafetyFrame DEF vars
<1>. HIDE DEF TypeOK, callVars, locals, fetchVars, dumpVars, scanVars, driveVars, dbVars
<1>. QED
  BY <1>1, <1>2, <1>3, <1>4, <1>5, <1>6, <1>7, <1>8, <1>9, <1>10, <1>11,
     <1>12, <1>13, <1>14, <1>15, <1>16, <1>17, <1>18, <1>19, <1>20, <1>21,
     <1>22, <1>23, <1>24, <1>25, <1>26, <1>27, <1>28, <1>29, <1>30, <1>31,
     <1>32 DEF Next, Arrive, Progress, Environment

\* SafetyInv holds in every reachable state.
THEOREM SafetyInvariant == Spec => []SafetyInv
<1>1. Init => SafetyInv
  BY InitFilesAssumption DEF Init, SafetyInv, IdsOrdered, ItemsCurrent, DoomedRegular, RestoresOnly,
         IntactDumps, SafetyCopyStored, DriveFiles
<1>. QED  BY <1>1, TypeCorrect, SafetyStep, PTL DEF Spec

\* No restore overwrites the database without its pre-restore copy on Drive,
\* and no delete, late or not, ever removes that copy.
THEOREM SafetyCopyCorrect == Spec => []SafetyCopyStored
<1>1. SafetyInv => SafetyCopyStored
  BY DEF SafetyInv
<1>. QED  BY <1>1, SafetyInvariant, PTL

\* What a restore overwrites is stored unless it changed after the dump.
THEOREM OverwritesCorrect == Spec => []OverwritesWhatItSaved
<1>1. SafetyInv => OverwritesWhatItSaved
  BY DEF SafetyInv, SafetyCopyStored, IntactDumps, OverwritesWhatItSaved
<1>. QED  BY <1>1, SafetyInvariant, PTL
=============================================================================
