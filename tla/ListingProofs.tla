---------------------------- MODULE ListingProofs ----------------------------
(***************************************************************************)
(* Proofs about BackupListing, for any folder, page sizes and retention,   *)
(* and any number of files that others store and remove meanwhile.         *)
(***************************************************************************)
EXTENDS ListingPages

----------------------------------------------------------------------------
(* The steps that list nothing. *)

\* What depends on the entries alone.
LEMMA EntriesFrame ==
  ASSUME UNCHANGED <<op, pages, all>>
  PROVE  /\ \A f : (Shown(f))' = Shown(f)
         /\ \A f : (Listed(f))' <=> Listed(f)
         /\ (Candidates(all, Keep))' = Candidates(all, Keep)
         /\ Extra' = Extra
  <1>1. \A f : (Shown(f))' = Shown(f)
    BY DEF Shown
  <1>2. \A f : (Listed(f))' <=> Listed(f)
    BY <1>1 DEF Listed
  <1>3. (Candidates(all, Keep))' = Candidates(all, Keep)
    BY DEF Candidates
  <1>4. Extra' = Extra
    BY DEF Extra
  <1>5. QED
    BY <1>1, <1>2, <1>3, <1>4

\* The walk stops, or stands still.
LEMMA StopInv ==
  ASSUME Inv, UNCHANGED <<tokens, files, op, size, pages, token, all, doomed, history>>,
         \/ UNCHANGED <<stage, outcome>>
         \/ stage' = "end" /\ outcome' = "error" /\ stage = "list"
         \/ stage' = "end" /\ outcome' = "Ok" /\ stage = "delete" /\ doomed = {}
  PROVE  Inv'
  <1>1. /\ TypeOK /\ FilesInv /\ StageInv /\ EntriesInv /\ CompleteInv /\ LatestInv
        /\ OrderInv /\ CursorInv /\ PositionInv /\ RemovalInv
        /\ UNCHANGED <<start, kept, arrived, removed, deleted>>
    BY DEF Inv, history
  <1>2. /\ Known' = Known /\ Throughout' = Throughout /\ Steady' = Steady /\ Past' = Past
        /\ Pushed' = Pushed
    BY <1>1 DEF Known, Throughout, Steady, Past, Pushed, Query, From
  <1>3. /\ \A f : (Shown(f))' = Shown(f)
        /\ \A f : (Listed(f))' <=> Listed(f)
        /\ (Candidates(all, Keep))' = Candidates(all, Keep)
        /\ Extra' = Extra
    BY EntriesFrame
  <1>4. TypeOK'
    BY <1>1 DEF TypeOK
  <1>5. FilesInv'
    BY <1>1, <1>2 DEF FilesInv, StageInv
  <1>6. StageInv'
    BY <1>1 DEF StageInv
  <1>7. EntriesInv'
    BY <1>1, <1>2, <1>3 DEF EntriesInv, Visible
  <1>8. CompleteInv'
    BY <1>1, <1>2, <1>3 DEF CompleteInv, Visible
  <1>9. LatestInv'
    BY <1>1, <1>2 DEF LatestInv, LatestIsNewest, StageInv
  <1>10. OrderInv' /\ CursorInv'
    BY <1>1, <1>2 DEF OrderInv, CursorInv, Visible
  <1>11. PositionInv'
    BY <1>1, <1>2, <1>3 DEF PositionInv
  <1>12. RemovalInv'
    BY <1>1, <1>3 DEF RemovalInv, StageInv
  <1>13. QED
    BY <1>4, <1>5, <1>6, <1>7, <1>8, <1>9, <1>10, <1>11, <1>12 DEF Inv

\* The conjuncts that do not depend on the files outside the history.
LEMMA FilesFrame ==
  ASSUME Inv, UNCHANGED <<tokens, op, pages, stage, token, all, outcome>>,
         Known \subseteq Known', Throughout' \subseteq Throughout, Steady' => Steady
  PROVE  EntriesInv' /\ OrderInv' /\ CursorInv' /\ LatestIsNewest'
  <1>1. EntriesInv /\ OrderInv /\ CursorInv /\ LatestIsNewest
    BY DEF Inv, LatestInv
  <1>2. \A f : (Shown(f))' = Shown(f)
    BY EntriesFrame
  <1>3. EntriesInv'
    BY <1>1, <1>2 DEF EntriesInv, Visible
  <1>4. OrderInv'
    BY <1>1 DEF OrderInv, Visible
  <1>5. CursorInv'
    BY <1>1 DEF CursorInv
  <1>6. LatestIsNewest'
    BY <1>1 DEF LatestIsNewest, Steady
  <1>7. QED
    BY <1>3, <1>4, <1>5, <1>6

\* An entry of the retention shows one file.
LEMMA EntryFile ==
  ASSUME FilesInv, EntriesInv, op = "prune", NEW e \in all
  PROVE  \E f \in Known : /\ f \in DriveFiles /\ Visible(f) /\ e.info = ToBackupInfo(f)
                          /\ e.info.id = f.id /\ e.info.created_at = f.created_at
                          /\ \A g \in Known : g.id = e.info.id => g = f
  <1>1. PICK f \in Known : Visible(f) /\ e.info = Shown(f)
    BY DEF EntriesInv
  <1>2. f \in DriveFiles /\ e.info = ToBackupInfo(f)
    BY <1>1 DEF FilesInv, Shown
  <1>3. e.info.id = f.id /\ e.info.created_at = f.created_at
    BY <1>2, InfoBefore
  <1>4. \A g \in Known : g.id = e.info.id => g = f
    BY <1>3 DEF FilesInv
  <1>5. QED
    BY <1>1, <1>2, <1>3, <1>4

\* A removal, or its failure, is of a candidate and leaves the others to do.
LEMMA DeleteInv ==
  ASSUME Inv, Delete \/ DeleteFails
  PROVE  Inv'
  <1>1. /\ TypeOK /\ FilesInv /\ StageInv /\ EntriesInv /\ CompleteInv /\ LatestInv
        /\ OrderInv /\ CursorInv /\ PositionInv /\ RemovalInv
    BY DEF Inv
  <1>2. /\ stage = "delete" /\ UNCHANGED <<tokens, op, size, stage, pages, token, all, outcome>>
        /\ UNCHANGED <<start, arrived, removed>>
    BY DEF Delete, DeleteFails
  <1>3. op = "prune" /\ outcome = "none"
    BY <1>1, <1>2 DEF StageInv
  <1>4. PICK d \in doomed :
          /\ doomed' = doomed \ {d}
          /\ \/ /\ files' = files \ {f \in files : f.id = d.info.id}
                /\ deleted' = deleted \cup {f \in files : f.id = d.info.id} /\ kept' = kept
             \/ files' = files /\ deleted' = deleted /\ kept' = kept \cup {d.info.id}
    BY DEF Delete, DeleteFails
  <1>5. /\ Known' = Known /\ files' \subseteq files /\ kept \subseteq kept'
        /\ Throughout' = Throughout /\ Steady' = Steady
        /\ d.info.id \in kept' \/ \A f \in files' : f.id # d.info.id
    BY <1>2, <1>4 DEF Known, Throughout, Steady
  <1>6. /\ \A f : (Shown(f))' = Shown(f)
        /\ \A f : (Listed(f))' <=> Listed(f)
        /\ (Candidates(all, Keep))' = Candidates(all, Keep)
        /\ Extra' = Extra
    BY <1>2, EntriesFrame
  <1>7. TypeOK'
    BY <1>1, <1>2, <1>4, <1>5 DEF TypeOK
  <1>8. FilesInv'
    <2>1. files' \cap (removed \cup deleted') = {}
      BY <1>1, <1>4 DEF FilesInv
    <2>2. QED
      BY <1>1, <1>2, <1>3, <1>5, <2>1 DEF FilesInv
  <1>9. StageInv'
    BY <1>1, <1>2, <1>3 DEF StageInv
  <1>10. EntriesInv' /\ OrderInv' /\ CursorInv' /\ LatestIsNewest'
    BY <1>2, <1>5, FilesFrame
  <1>11. CompleteInv'
    BY <1>1, <1>2, <1>5, <1>6 DEF CompleteInv, Visible
  <1>12. LatestInv'
    BY <1>2, <1>3, <1>10 DEF LatestInv
  <1>13. PositionInv'
    BY <1>1, <1>2, <1>6 DEF PositionInv
  <1>14. RemovalInv'
    <2>1. doomed' \subseteq Candidates(all, Keep) /\ d \in Candidates(all, Keep)
      BY <1>1, <1>4 DEF RemovalInv
    <2>2. ASSUME NEW g \in deleted'
          PROVE  \E e \in Candidates(all, Keep) : e.info = ToBackupInfo(g)
      <3>1. CASE g \in deleted
        BY <1>1, <3>1 DEF RemovalInv
      <3>2. CASE g \in files /\ g.id = d.info.id
        <4>1. d \in all
          BY <2>1 DEF Candidates
        <4>2. d.info = ToBackupInfo(g)
          BY <1>1, <1>3, <3>2, <4>1, EntryFile DEF Known
        <4>3. QED
          BY <2>1, <4>2
      <3>3. QED
        BY <1>4, <2>2, <3>1, <3>2
    <2>3. ASSUME NEW e \in Candidates(all, Keep)
          PROVE  e \in doomed' \/ e.info.id \in kept' \/ \A f \in files' : f.id # e.info.id
      <3>1. e \in doomed \/ e.info.id \in kept \/ \A f \in files : f.id # e.info.id
        BY <1>1, <1>2, <1>3 DEF RemovalInv
      <3>2. QED
        BY <1>4, <1>5, <3>1
    <2>4. QED
      BY <1>6, <2>1, <2>2, <2>3 DEF RemovalInv
  <1>15. QED
    BY <1>7, <1>8, <1>9, <1>10, <1>11, <1>12, <1>13, <1>14 DEF Inv

----------------------------------------------------------------------------
(* What others do to the folder. *)

\* The files of a query are ordered after a step, too.
LEMMA NextOrdered ==
  ASSUME FilesInv'
  PROVE  Ordered(Query')
  <1>1. Ordered(Known')
    BY DEF FilesInv, Ordered, DriveFiles
  <1>2. Query' \subseteq Known'
    BY DEF Query, LatestQuery, FolderQuery, Known
  <1>3. QED
    BY <1>1, <1>2, OrderedPart

\* A file that arrives moves no file that was there behind the token.
LEMMA PastStays ==
  ASSUME TypeOK, FilesInv, FilesInv', UNCHANGED <<tokens, op, token>>,
         files \subseteq files', NEW f \in Past', f \in files
  PROVE  f \in Past
  <1>1. /\ Ordered(Query) /\ Ordered(Query') /\ token.offset \in Nat
    <2>1. Ordered(Query')
      BY NextOrdered
    <2>2. QED
      BY <2>1, KnownOrdered DEF FilesInv
  <1>2. Query \in SUBSET Query' /\ f \in Query
    BY DEF Query, LatestQuery, FolderQuery, Past
  <1>3. CASE tokens = "cursor"
    BY <1>2, <1>3 DEF Past, From
  <1>4. CASE tokens # "cursor"
    <2>1. f \in First(Query', token.offset)
      BY <1>4 DEF Past, From
    <2>2. f \in First(Query, token.offset)
      BY <1>1, <1>2, <2>1, FirstInPart
    <2>3. QED
      BY <1>2, <1>4, <2>2 DEF Past, From
  <1>5. QED
    BY <1>3, <1>4

\* A cursor leaves nothing more behind when a file goes.
LEMMA PastShrinks ==
  ASSUME tokens = "cursor", UNCHANGED <<tokens, op, token>>, files' \subseteq files
  PROVE  Past' \subseteq Past
  <1>1. Query' \subseteq Query
    BY DEF Query, LatestQuery, FolderQuery
  <1>2. QED
    BY <1>1 DEF Past, From

\* The state after a file has arrived.
LEMMA StoreFiles ==
  ASSUME Inv, OthersStore
  PROVE  \E x \in DriveFiles :
           /\ files' = files \cup {x} /\ IsInFolder(x) /\ x.id = MaxId + arrived + 1
           /\ x \notin Known /\ \A f \in Known : f.id # x.id
           /\ Known' = Known \cup {x} /\ TypeOK' /\ FilesInv'
  <1>1. TypeOK /\ FilesInv /\ arrived \in Nat /\ MaxId \in Nat
    BY ListingAssumption DEF Inv, FilesInv
  <1>2. PICK class \in Classes, time \in {MaxId + arrived, MaxId + arrived + 1} :
          files' = files \cup {FileOf(MaxId + arrived + 1, time, class)}
    BY DEF OthersStore
  <1>3. PICK x : x = FileOf(MaxId + arrived + 1, time, class)
    OBVIOUS
  <1>4. x \in DriveFiles /\ x.id = MaxId + arrived + 1 /\ IsInFolder(x)
    BY <1>1, <1>3, FileOfFacts
  <1>5. /\ arrived' = arrived + 1
        /\ UNCHANGED <<tokens, op, size, stage, pages, token, all, doomed, outcome>>
        /\ UNCHANGED <<start, kept, removed, deleted>>
    BY DEF OthersStore, walk
  <1>6. files' = files \cup {x} /\ Known' = Known \cup {x}
    BY <1>2, <1>3, <1>5 DEF Known
  <1>7. \A f \in Known : f.id \in Nat /\ f.id <= MaxId + arrived
    BY <1>1 DEF FilesInv, DriveFiles
  <1>8. x \notin Known /\ \A f \in Known : f.id # x.id
    BY <1>1, <1>4, <1>7
  <1>9. TypeOK'
    BY <1>1, <1>4, <1>5, <1>6 DEF TypeOK
  <1>10. FilesInv'
    <2>1. Known' \subseteq DriveFiles /\ start \subseteq Known' /\ token.last \subseteq Known'
      BY <1>1, <1>4, <1>6 DEF FilesInv
    <2>2. IsFiniteSet(Known')
      BY <1>1, <1>6, FS_AddElement DEF FilesInv
    <2>3. \A f \in Known' : f.id <= MaxId + arrived'
      BY <1>1, <1>4, <1>5, <1>6, <1>7
    <2>4. \A f, g \in Known' : f.id = g.id => f = g
      BY <1>1, <1>6, <1>8 DEF FilesInv
    <2>5. files' \cap (removed \cup deleted) = {}
      BY <1>1, <1>6, <1>8 DEF FilesInv, Known
    <2>6. arrived' \in Nat
      BY <1>1, <1>5
    <2>7. QED
      BY <1>1, <1>5, <2>1, <2>2, <2>3, <2>4, <2>5, <2>6 DEF FilesInv
  <1>11. QED
    BY <1>4, <1>6, <1>8, <1>9, <1>10

\* A file that arrives pushes at most one listed file behind the position.
LEMMA StorePushes ==
  ASSUME Inv, OthersStore, op = "prune", tokens = "position"
  PROVE  /\ Cardinality(Pushed') <= Cardinality(Pushed) + 1
         /\ Cardinality(Pushed') \in Nat /\ Cardinality(Pushed) \in Nat
  <1>1. TypeOK /\ FilesInv /\ EntriesInv /\ UNCHANGED <<tokens, op, token, all>>
    BY DEF Inv, OthersStore, walk
  <1>2. PICK x \in DriveFiles :
          /\ files' = files \cup {x} /\ IsInFolder(x) /\ x \notin Known
          /\ (\A f \in Known : f.id # x.id) /\ FilesInv'
    BY StoreFiles
  <1>3. Query' = Query \cup {x}
    BY <1>1, <1>2 DEF Query, FolderQuery
  <1>4. Ordered(Query) /\ Ordered(Query \cup {x})
    <2>1. Ordered(Query')
      BY <1>2, NextOrdered
    <2>2. QED
      BY <1>1, <1>3, <2>1, KnownOrdered
  <1>5. PICK a \in Nat : a = token.offset
    BY <1>1 DEF FilesInv
  <1> DEFINE A == First(Query, a)
             B == First(Query \cup {x}, a)
             Z == {f \in A : f \notin B}
  <1>6. /\ Pushed = {f \in Query \ A : \E e \in all : e.info.id = f.id}
        /\ Pushed' = {f \in (Query \cup {x}) \ B : \E e \in all : e.info.id = f.id}
    BY <1>1, <1>3, <1>5 DEF Pushed, From
  <1>7. \A e \in all : e.info.id # x.id
    BY <1>1, <1>2, EntryFile
  <1>8. Pushed' \subseteq Pushed \cup Z
    BY <1>6, <1>7
  <1>9. \A f, g \in Z : f = g
    BY <1>4, FirstPushed
  <1>10. IsFiniteSet(Z) /\ Cardinality(Z) \in Nat /\ Cardinality(Z) <= 1
    <2>1. CASE Z = {}
      BY <2>1, FS_EmptySet
    <2>2. CASE Z # {}
      <3>1. PICK z \in Z : Z = {z}
        BY <1>9, <2>2
      <3>2. IsFiniteSet({z}) /\ Cardinality({z}) = 1
        BY FS_Singleton
      <3>3. QED
        BY <3>1, <3>2
    <2>3. QED
      BY <2>1, <2>2
  <1>11. IsFiniteSet(Pushed)
    <2>1. Pushed \subseteq Query /\ IsFiniteSet(Query)
      BY <1>4, <1>6 DEF Ordered
    <2>2. QED
      BY <2>1, FS_Subset
  <1>12. /\ IsFiniteSet(Pushed \cup Z)
         /\ Cardinality(Pushed \cup Z) =
              Cardinality(Pushed) + Cardinality(Z) - Cardinality(Pushed \cap Z)
    BY <1>10, <1>11, FS_Union
  <1>13. IsFiniteSet(Pushed') /\ Cardinality(Pushed') <= Cardinality(Pushed \cup Z)
    BY <1>8, <1>12, FS_Subset
  <1>14. /\ Cardinality(Pushed') \in Nat /\ Cardinality(Pushed) \in Nat
         /\ Cardinality(Pushed \cup Z) \in Nat /\ Cardinality(Pushed \cap Z) \in Nat
    <2>1. IsFiniteSet(Pushed \cap Z)
      BY <1>11, FS_Subset
    <2>2. QED
      BY <1>11, <1>12, <1>13, <2>1, FS_CardinalityType
  <1>15. QED
    BY <1>10, <1>12, <1>13, <1>14

\* OthersStore preserves the invariant.
LEMMA StoreInv ==
  ASSUME Inv, OthersStore
  PROVE  Inv'
  <1>1. /\ TypeOK /\ FilesInv /\ StageInv /\ EntriesInv /\ CompleteInv /\ LatestInv
        /\ OrderInv /\ CursorInv /\ PositionInv /\ RemovalInv
    BY DEF Inv
  <1>2. /\ UNCHANGED <<tokens, op, size, stage, pages, token, all, doomed, outcome>>
        /\ UNCHANGED <<start, kept, removed, deleted>> /\ arrived' = arrived + 1
    BY DEF OthersStore, walk
  <1>3. PICK x \in DriveFiles :
          /\ files' = files \cup {x} /\ (\A f \in Known : f.id # x.id)
          /\ Known' = Known \cup {x} /\ TypeOK' /\ FilesInv'
    BY StoreFiles
  <1>4. Throughout' = Throughout /\ Steady' = Steady
    BY <1>2 DEF Throughout, Steady
  <1>5. /\ \A f : (Listed(f))' <=> Listed(f)
        /\ (Candidates(all, Keep))' = Candidates(all, Keep)
        /\ Extra' = Extra
    BY <1>2, EntriesFrame
  <1>6. StageInv'
    BY <1>1, <1>2 DEF StageInv
  <1>7. EntriesInv' /\ OrderInv' /\ CursorInv' /\ LatestIsNewest'
    BY <1>2, <1>3, <1>4, FilesFrame
  <1>8. ASSUME stage = "list", NEW f \in Throughout \cap Past' PROVE f \in Past
    <2>1. f \in files
      BY <1>1, <1>8 DEF FilesInv, Throughout, Known
    <2>2. QED
      BY <1>1, <1>2, <1>3, <1>8, <2>1, PastStays
  <1>9. CompleteInv'
    BY <1>1, <1>2, <1>4, <1>5, <1>8 DEF CompleteInv, Visible
  <1>10. LatestInv'
    BY <1>1, <1>2, <1>4, <1>7, <1>8 DEF LatestInv
  <1>11. PositionInv'
    <2>1. SUFFICES ASSUME op = "prune", tokens = "position"
                   PROVE  /\ stage = "list" =>
                               Cardinality(Extra) + Cardinality(Pushed') <= arrived + 1
                          /\ Cardinality(Extra) <= arrived + 1
      BY <1>2, <1>5 DEF PositionInv
    <2>2. /\ Cardinality(Pushed') <= Cardinality(Pushed) + 1
          /\ Cardinality(Pushed') \in Nat /\ Cardinality(Pushed) \in Nat
      BY <2>1, StorePushes
    <2>3. Extra \subseteq all /\ IsFiniteSet(all) /\ arrived \in Nat
      BY <1>1 DEF FilesInv, Extra
    <2>4. Cardinality(Extra) \in Nat
      BY <2>3, FS_Subset, FS_CardinalityType
    <2>5. /\ stage = "list" => Cardinality(Extra) + Cardinality(Pushed) <= arrived
          /\ Cardinality(Extra) <= arrived
      BY <1>1, <2>1 DEF PositionInv
    <2>6. QED
      BY <2>2, <2>3, <2>4, <2>5
  <1>12. RemovalInv'
    <2>1. ASSUME op = "prune", NEW e \in Candidates(all, Keep) PROVE e.info.id # x.id
      <3>1. e \in all
        BY DEF Candidates
      <3>2. QED
        BY <1>1, <1>3, <2>1, <3>1, EntryFile
    <2>2. QED
      BY <1>1, <1>2, <1>3, <1>5, <2>1 DEF RemovalInv
  <1>13. QED
    BY <1>3, <1>6, <1>7, <1>9, <1>10, <1>11, <1>12 DEF Inv

\* A file that goes brings no listed file behind the position.
LEMMA RemovePushes ==
  ASSUME TypeOK, FilesInv, UNCHANGED <<tokens, op, token, all>>, NEW f \in files,
         files' = files \ {f}, op = "prune", tokens = "position"
  PROVE  Pushed' \subseteq Pushed
  <1>1. Query' \in SUBSET Query /\ Ordered(Query)
    BY KnownOrdered DEF Query, FolderQuery
  <1>2. PICK a \in Nat : a = token.offset
    BY DEF FilesInv
  <1>3. ASSUME NEW g \in Query', g \notin First(Query', a) PROVE g \notin First(Query, a)
    BY <1>1, <1>3, FirstInPart
  <1>4. /\ Pushed = {g \in Query \ First(Query, a) : \E e \in all : e.info.id = g.id}
        /\ Pushed' = {g \in Query' \ First(Query', a) : \E e \in all : e.info.id = g.id}
    BY <1>2 DEF Pushed, From
  <1>5. QED
    BY <1>1, <1>3, <1>4

\* OthersRemove preserves the invariant.
LEMMA RemoveInv ==
  ASSUME Inv, OthersRemove
  PROVE  Inv'
  <1>1. /\ TypeOK /\ FilesInv /\ StageInv /\ EntriesInv /\ CompleteInv /\ LatestInv
        /\ OrderInv /\ CursorInv /\ PositionInv /\ RemovalInv
    BY DEF Inv
  <1>2. /\ UNCHANGED <<tokens, op, size, stage, pages, token, all, doomed, outcome>>
        /\ UNCHANGED <<start, kept, arrived, deleted>>
    BY DEF OthersRemove, walk
  <1>3. PICK x \in files : files' = files \ {x} /\ removed' = removed \cup {x}
    BY DEF OthersRemove
  <1>4. /\ Known' = Known /\ Throughout' \subseteq Throughout
        /\ Steady' => tokens = "cursor" /\ Steady
    BY <1>2, <1>3 DEF Known, Throughout, Steady
  <1>5. /\ \A f : (Listed(f))' <=> Listed(f)
        /\ (Candidates(all, Keep))' = Candidates(all, Keep)
        /\ Extra' = Extra
    BY <1>2, EntriesFrame
  <1>6. TypeOK'
    BY <1>1, <1>2, <1>3 DEF TypeOK
  <1>7. FilesInv'
    <2>1. files' \cap (removed' \cup deleted') = {}
      BY <1>1, <1>2, <1>3 DEF FilesInv
    <2>2. QED
      BY <1>1, <1>2, <1>4, <2>1 DEF FilesInv
  <1>8. StageInv'
    BY <1>1, <1>2 DEF StageInv
  <1>9. EntriesInv' /\ OrderInv' /\ CursorInv' /\ LatestIsNewest'
    BY <1>2, <1>4, FilesFrame
  <1>10. Steady' => Past' \subseteq Past
    BY <1>2, <1>3, <1>4, PastShrinks
  <1>11. CompleteInv'
    BY <1>1, <1>2, <1>4, <1>5, <1>10 DEF CompleteInv, Visible
  <1>12. LatestInv'
    BY <1>1, <1>2, <1>4, <1>9, <1>10 DEF LatestInv
  <1>13. PositionInv'
    <2>1. SUFFICES ASSUME op = "prune", tokens = "position", stage = "list"
                   PROVE  Cardinality(Extra) + Cardinality(Pushed') <= arrived
      BY <1>1, <1>2, <1>5 DEF PositionInv
    <2>2. Pushed' \subseteq Pushed
      BY <1>1, <1>2, <1>3, <2>1, RemovePushes
    <2>3. Extra \subseteq all /\ Pushed \subseteq Known /\ arrived \in Nat
      BY <1>1, KnownOrdered DEF FilesInv, Extra, Pushed, From
    <2>4. IsFiniteSet(Extra) /\ IsFiniteSet(Pushed)
      BY <1>1, <2>3, FS_Subset DEF FilesInv
    <2>5. IsFiniteSet(Pushed') /\ Cardinality(Pushed') <= Cardinality(Pushed)
      BY <2>2, <2>4, FS_Subset
    <2>6. Cardinality(Extra) \in Nat /\ Cardinality(Pushed) \in Nat /\ Cardinality(Pushed') \in Nat
      BY <2>4, <2>5, FS_CardinalityType
    <2>7. Cardinality(Extra) + Cardinality(Pushed) <= arrived
      BY <1>1, <2>1 DEF PositionInv
    <2>8. QED
      BY <2>3, <2>5, <2>6, <2>7
  <1>14. RemovalInv'
    BY <1>1, <1>2, <1>3, <1>5 DEF RemovalInv
  <1>15. QED
    BY <1>6, <1>7, <1>8, <1>9, <1>11, <1>12, <1>13, <1>14 DEF Inv

----------------------------------------------------------------------------
(* The theorems. *)

\* The invariant holds for every folder, every page size and limit, every
\* number of arrivals and removals, and both readings of a token.
THEOREM InvCorrect == Spec => []Inv
  <1>1. Init => Inv
    BY InitInv
  <1>2. Inv /\ [Next]_vars => Inv'
    <2> SUFFICES ASSUME Inv, [Next]_vars PROVE Inv'
      OBVIOUS
    <2>1. CASE ListPage
      BY <2>1, ListPageInv
    <2>2. CASE ListFails
      BY <2>2, StopInv DEF ListFails, Finish
    <2>3. CASE Delete \/ DeleteFails
      BY <2>3, DeleteInv
    <2>4. CASE PruneEnds
      BY <2>4, StopInv DEF PruneEnds, Finish
    <2>5. CASE OthersStore
      BY <2>5, StoreInv
    <2>6. CASE OthersRemove
      BY <2>6, RemoveInv
    <2>7. CASE Done \/ UNCHANGED vars
      BY <2>7, StopInv DEF Done, vars, walk
    <2>8. QED
      BY <2>1, <2>2, <2>3, <2>4, <2>5, <2>6, <2>7 DEF Next
  <1>3. QED
    BY <1>1, <1>2, PTL DEF Spec

\* The state of a walk is well typed.
THEOREM TypeCorrect == Spec => []TypeOK
  <1>1. Inv => TypeOK
    BY DEF Inv
  <1>2. QED
    BY <1>1, InvCorrect, PTL

\* latest answers with the newest regular backup that was there all the time.
THEOREM LatestIsNewestCorrect == Spec => []LatestIsNewest
  <1>1. Inv => LatestIsNewest
    BY DEF Inv, LatestInv
  <1>2. QED
    BY <1>1, InvCorrect, PTL

\* What the protocol's form tells of a file.
LEMMA ProtoTells ==
  ASSUME NEW f \in DriveFiles, IsBackup(f)
  PROVE  /\ ProtoInfo(ToBackupInfo(f)).kind = "PRE_RESTORE" <=> f.kind = "pre_restore"
         /\ ProtoInfo(ToBackupInfo(f)).format = "PG_CUSTOM" <=>
              f.format = "pg_custom" \/ (f.format = "none" /\ f.ext = "pgdump")
  <1>1. ToBackupInfo(f) \in BackupInfo
    BY InfoType
  <1>2. /\ ToBackupInfo(f).kind = ParseKind(f.kind)
        /\ ToBackupInfo(f).format = DetectFormat(f.ext, f.format)
    BY DEF ToBackupInfo
  <1>3. f.kind \in Kinds \cup {"none", "other"} /\ f.format \in Formats \cup {"none", "other"}
    BY DEF DriveFiles
  <1>4. ParseKind(f.kind) = "pre_restore" <=> f.kind = "pre_restore"
    BY <1>3 DEF ParseKind, Kinds
  <1>5. f.ext \in {"pgdump", "dump", "other"}
    BY DEF DriveFiles
  <1>6. DetectFormat(f.ext, f.format) = "pg_custom" <=>
          f.format = "pg_custom" \/ (f.format = "none" /\ f.ext = "pgdump")
    BY <1>3, <1>5 DEF DetectFormat, Formats
  <1>7. PICK b \in BackupInfo : b = ToBackupInfo(f)
    BY <1>1
  <1>8. /\ ProtoInfo(b).kind = "PRE_RESTORE" <=> b.kind = "pre_restore"
        /\ ProtoInfo(b).format = "PG_CUSTOM" <=> b.format = "pg_custom"
    BY ProtoFacts
  <1>9. b.kind = ParseKind(f.kind) /\ b.format = DetectFormat(f.ext, f.format)
    BY <1>2, <1>7
  <1>10. ProtoInfo(b).kind = "PRE_RESTORE" <=> f.kind = "pre_restore"
    BY <1>4, <1>8, <1>9
  <1>11. ProtoInfo(b).format = "PG_CUSTOM" <=>
           f.format = "pg_custom" \/ (f.format = "none" /\ f.ext = "pgdump")
    BY <1>6, <1>8, <1>9
  <1>12. QED
    BY <1>7, <1>10, <1>11

\* No walk that ends well misses a backup that was there all the time.
THEOREM ListingCompleteCorrect == Spec => []ListingComplete
  <1>1. Inv => ListingComplete
    <2> SUFFICES ASSUME Inv, outcome = "Ok", op # "latest", Steady,
                        NEW f \in Throughout, Visible(f)
                 PROVE  \E e \in all :
                          /\ e.info.id = f.id /\ e.info.created_at = f.created_at
                          /\ op = "client" =>
                               /\ e.info.kind = "PRE_RESTORE" <=> f.kind = "pre_restore"
                               /\ e.info.format = "PG_CUSTOM" <=>
                                    f.format = "pg_custom" \/ (f.format = "none" /\ f.ext = "pgdump")
      BY DEF ListingComplete, Steady, Visible
    <2>1. f \in DriveFiles /\ IsBackup(f)
      BY DEF Inv, FilesInv, Throughout, Visible
    <2>2. PICK e \in all : e.info = Shown(f)
      BY DEF Inv, CompleteInv, Listed
    <2>3. e.info.id = f.id /\ e.info.created_at = f.created_at
      BY <2>1, <2>2, ShownFacts
    <2>4. op = "client" => e.info = ProtoInfo(ToBackupInfo(f))
      BY <2>2 DEF Shown
    <2>5. op = "client" =>
            /\ e.info.kind = "PRE_RESTORE" <=> f.kind = "pre_restore"
            /\ e.info.format = "PG_CUSTOM" <=>
                 f.format = "pg_custom" \/ (f.format = "none" /\ f.ext = "pgdump")
      <3>1. PICK p : p = ProtoInfo(ToBackupInfo(f))
        OBVIOUS
      <3>2. /\ p.kind = "PRE_RESTORE" <=> f.kind = "pre_restore"
            /\ p.format = "PG_CUSTOM" <=>
                 f.format = "pg_custom" \/ (f.format = "none" /\ f.ext = "pgdump")
        BY <2>1, <3>1, ProtoTells
      <3>3. op = "client" => e.info = p
        BY <2>4, <3>1
      <3>4. QED
        BY <3>2, <3>3
    <2>6. QED
      BY <2>3, <2>5
  <1>2. QED
    BY <1>1, InvCorrect, PTL

----------------------------------------------------------------------------
(* The entries in the order of retention_candidates. *)

Prunable == {e \in all : IsPrunable(e.info)}

AheadOn(S) == {p \in S \X S : Ahead(p[1], p[2])}

\* An entry is known by its page and the id on it.
LEMMA EntryFacts ==
  ASSUME Inv, op = "prune"
  PROVE  /\ \A e \in all : /\ e.page \in Nat /\ e.info.id \in Nat /\ e.info.created_at \in Nat
         /\ \A d, e \in all : d.info.id = e.info.id => d.info = e.info
         /\ \A d, e \in all : d.info.id = e.info.id /\ d.page = e.page => d = e
  <1>1. FilesInv /\ EntriesInv /\ TypeOK /\ pages \in Nat
    BY DEF Inv, StageInv
  <1>2. ASSUME NEW e \in all
        PROVE  e.page \in Nat /\ e.info.id \in Nat /\ e.info.created_at \in Nat
    <2>1. PICK f \in Known : /\ f \in DriveFiles /\ e.info.id = f.id
                             /\ e.info.created_at = f.created_at
      BY <1>1, EntryFile
    <2>2. e.page \in 1..pages
      BY <1>1 DEF EntriesInv
    <2>3. QED
      BY <1>1, <2>1, <2>2 DEF DriveFiles
  <1>3. ASSUME NEW d \in all, NEW e \in all, d.info.id = e.info.id
        PROVE  d.info = e.info
    <2>1. PICK f \in Known : d.info = ToBackupInfo(f) /\ d.info.id = f.id
      BY <1>1, EntryFile
    <2>2. PICK g \in Known : /\ e.info = ToBackupInfo(g)
                             /\ \A h \in Known : h.id = e.info.id => h = g
      BY <1>1, EntryFile
    <2>3. QED
      BY <1>3, <2>1, <2>2
  <1>4. ASSUME NEW d \in all, NEW e \in all, d.info = e.info, d.page = e.page
        PROVE  d = e
    <2>1. all \in SUBSET [page : 1..MaxPages, info : BackupInfo \cup ProtoType]
      BY <1>1 DEF TypeOK, ProtoType
    <2>2. QED
      BY <1>4, <2>1
  <1>5. QED
    BY <1>2, <1>3, <1>4

\* The stable sort orders the entries strictly.
LEMMA AheadOrder ==
  ASSUME Inv, op = "prune"
  PROVE  /\ StrictOrder(Prunable, AheadOn(Prunable))
         /\ Candidates(all, Keep) = Prunable \ Lowest(Prunable, AheadOn(Prunable), Keep)
         /\ \A e \in Prunable :
              {d \in Prunable : Ahead(d, e)} = Below(Prunable, AheadOn(Prunable), e)
  <1>1. Prunable \subseteq all /\ IsFiniteSet(Prunable)
    <2>1. Prunable \subseteq all /\ IsFiniteSet(all)
      BY DEF Prunable, Inv, FilesInv
    <2>2. QED
      BY <2>1, FS_Subset
  <1>2. /\ \A e \in Prunable : /\ e.page \in Nat /\ e.info.id \in Nat
                               /\ e.info.created_at \in Nat
        /\ \A d, e \in Prunable : d.info.id = e.info.id /\ d.page = e.page => d = e
    BY <1>1, EntryFacts
  <1>3. \A d, e \in Prunable : <<d, e>> \in AheadOn(Prunable) <=> Ahead(d, e)
    BY DEF AheadOn
  <1>4. \A e \in Prunable : ~Ahead(e, e)
    BY <1>2 DEF Ahead
  <1>5. \A d, e, g \in Prunable : Ahead(d, e) /\ Ahead(e, g) => Ahead(d, g)
    BY <1>2 DEF Ahead
  <1>6. \A d, e \in Prunable : d = e \/ Ahead(d, e) \/ Ahead(e, d)
    BY <1>2 DEF Ahead
  <1>7. StrictOrder(Prunable, AheadOn(Prunable))
    BY <1>1, <1>3, <1>4, <1>5, <1>6 DEF StrictOrder
  <1>8. \A e \in Prunable :
          {d \in Prunable : Ahead(d, e)} = Below(Prunable, AheadOn(Prunable), e)
    BY <1>3 DEF Below
  <1>9. Candidates(all, Keep) =
          {e \in Prunable : Cardinality({d \in Prunable : Ahead(d, e)}) >= Keep}
    BY DEF Candidates, Prunable
  <1>10. \A e \in Prunable : Rank(Prunable, AheadOn(Prunable), e) \in Nat
    BY <1>7, RankType
  <1>11. Keep \in Nat
    BY ListingAssumption
  <1>12. \A e \in Prunable : Cardinality({d \in Prunable : Ahead(d, e)}) =
                             Rank(Prunable, AheadOn(Prunable), e)
    BY <1>8 DEF Rank
  <1>13. Candidates(all, Keep) = Prunable \ Lowest(Prunable, AheadOn(Prunable), Keep)
    BY <1>9, <1>10, <1>11, <1>12 DEF Lowest
  <1>14. QED
    BY <1>7, <1>8, <1>13

\* Retention catches up: whatever had Keep newer regular backups when the
\* listing began is a candidate, and every candidate is dealt with.
THEOREM RetentionCatchesUpCorrect == Spec => []RetentionCatchesUp
  <1>1. Inv => RetentionCatchesUp
    <2> DEFINE R == RegularBackups(start)
    <2>1. SUFFICES ASSUME Inv, outcome = "Ok", op = "prune", removed = {},
                          NEW f \in RegularBackups(files) \cap start,
                          f \notin First(R, Keep)
                   PROVE  f.id \in kept
      BY DEF RetentionCatchesUp
    <2> DEFINE G == {g \in R : Before(g, f)}
    <2>2. /\ R \subseteq Throughout /\ R \subseteq Known /\ f \in R /\ f \in files
          /\ \A g \in R : Visible(g) /\ IsPrunable(ToBackupInfo(g))
      BY <2>1 DEF RegularBackups, FolderQuery, Throughout, Visible, Inv, FilesInv
    <2>3. Steady /\ FilesInv /\ Keep \in Nat
      BY <2>1, ListingAssumption DEF Steady, Inv
    <2>4. Cardinality(G) >= Keep /\ Cardinality(G) \in Nat
      <3>1. ~(Cardinality(G) < Keep)
        BY <2>1, <2>2 DEF First
      <3>2. G \subseteq Known /\ IsFiniteSet(Known)
        BY <2>2, <2>3 DEF FilesInv
      <3>3. Cardinality(G) \in Nat
        BY <3>2, FS_Subset, FS_CardinalityType
      <3>4. QED
        BY <2>3, <3>1, <3>3
    <2>5. PICK e \in all : e.info = ToBackupInfo(f)
      <3>1. Listed(f)
        BY <2>1, <2>2, <2>3 DEF Inv, CompleteInv
      <3>2. QED
        BY <2>1, <3>1 DEF Listed, Shown
    <2> DEFINE D == {d \in Prunable : Ahead(d, e)}
    <2>6. e \in Prunable
      BY <2>2, <2>5 DEF Prunable
    <2>7. ASSUME NEW g \in G PROVE \E d \in D : d.info = ToBackupInfo(g)
      <3>1. Visible(g) /\ g \in Throughout /\ IsPrunable(ToBackupInfo(g)) /\ Before(g, f)
        BY <2>2
      <3>2. Before(g, e.info)
        BY <2>5, <3>1, InfoBefore
      <3>3. PICK d \in all : d.info = ToBackupInfo(g) /\ d.page <= e.page
        BY <2>1, <2>3, <3>1, <3>2 DEF Inv, OrderInv
      <3>4. d \in Prunable
        BY <3>1, <3>3 DEF Prunable
      <3>5. Before(d.info, e.info)
        BY <3>2, <3>3, InfoBefore
      <3>6. d.page \in Nat /\ e.page \in Nat
        BY <2>1, EntryFacts
      <3>7. Ahead(d, e)
        BY <3>3, <3>5, <3>6 DEF Before, Ahead
      <3>8. QED
        BY <3>3, <3>4, <3>7
    <2>8. Cardinality(G) <= Cardinality(D) /\ Cardinality(D) \in Nat
      <3> DEFINE F == [g \in G |-> CHOOSE d \in D : d.info = ToBackupInfo(g)]
      <3>1. \A g \in G : F[g] \in D /\ F[g].info = ToBackupInfo(g)
        BY <2>7
      <3>2. F \in [G -> D]
        BY <3>1
      <3>3. \A x, y \in G : F[x] = F[y] => x = y
        <4>1. ASSUME NEW x \in G, NEW y \in G, F[x] = F[y] PROVE x = y
          <5>1. x \in Known /\ y \in Known
            BY <2>2
          <5>2. ToBackupInfo(x) = ToBackupInfo(y)
            BY <3>1, <4>1
          <5>3. x.id = y.id
            BY <5>2, InfoBefore
          <5>4. QED
            BY <2>3, <5>1, <5>3 DEF FilesInv
        <4>2. QED
          BY <4>1
      <3>4. IsFiniteSet(D)
        <4>1. D \subseteq all /\ IsFiniteSet(all)
          BY <2>3 DEF Prunable, FilesInv
        <4>2. QED
          BY <4>1, FS_Subset
      <3>5. QED
        BY <3>2, <3>3, <3>4, Injected
    <2>9. Cardinality(D) >= Keep
      BY <2>3, <2>4, <2>8
    <2>10. e \in Candidates(all, Keep)
      BY <2>6, <2>9 DEF Candidates, Prunable
    <2>11. doomed = {}
      BY <2>1 DEF Inv, StageInv, TypeOK
    <2>12. e.info.id \in kept \/ \A g \in files : g.id # e.info.id
      BY <2>1, <2>10, <2>11 DEF Inv, RemovalInv
    <2>13. e.info.id = f.id
      BY <2>5, InfoBefore
    <2>14. QED
      BY <2>2, <2>12, <2>13
  <1>2. QED
    BY <1>1, InvCorrect, PTL

\* A cursor lists no backup twice.
LEMMA CursorNoExtra ==
  ASSUME Inv, op = "prune", tokens = "cursor"
  PROVE  Extra = {} /\ \A d, e \in all : d.info.id = e.info.id => d = e
  <1>1. \A e \in all : e.page \in Nat /\ e.info.id \in Nat /\ e.info.created_at \in Nat
    BY EntryFacts
  <1>2. ASSUME NEW d \in all, NEW e \in all, d.info.id = e.info.id
        PROVE  ~(d.page < e.page)
    <2>1. d.info = e.info
      BY <1>2, EntryFacts
    <2>2. ~Before(d.info, e.info)
      BY <1>1, <2>1 DEF Before
    <2>3. QED
      BY <2>2 DEF Inv, CursorInv
  <1>3. ASSUME NEW d \in all, NEW e \in all, d.info.id = e.info.id
        PROVE  d = e
    <2>1. ~(d.page < e.page) /\ ~(e.page < d.page)
      BY <1>2, <1>3
    <2>2. d.page = e.page
      BY <1>1, <2>1
    <2>3. QED
      BY <1>3, <2>2, EntryFacts
  <1>4. QED
    BY <1>2, <1>3 DEF Extra

\* With a cursor the order of the entries is that of the backups.
LEMMA CursorAheadBefore ==
  ASSUME Inv, op = "prune", tokens = "cursor", NEW d \in all, NEW e \in all
  PROVE  Ahead(d, e) <=> Before(d.info, e.info)
  <1>1. /\ d.page \in Nat /\ d.info.id \in Nat /\ d.info.created_at \in Nat
        /\ e.page \in Nat /\ e.info.id \in Nat /\ e.info.created_at \in Nat
    BY EntryFacts
  <1>2. /\ d.page < e.page => Before(d.info, e.info)
        /\ e.page < d.page => Before(e.info, d.info)
    BY DEF Inv, CursorInv
  <1>3. QED
    BY <1>1, <1>2 DEF Ahead, Before

\* Where a token is a cursor, the candidates that the service removes one by
\* one are the set RetentionCandidates that the other modules speak of.
THEOREM CandidatesAreTheSetCorrect == Spec => []CandidatesAreTheSet
  <1>1. Inv => CandidatesAreTheSet
    <2> DEFINE B == {e.info : e \in all}
               Q == {b \in B : IsPrunable(b)}
               D(e) == {d \in Prunable : Ahead(d, e)}
               N(b) == {g \in Q : Before(g, b)}
    <2>1. SUFFICES ASSUME Inv, tokens = "cursor", op = "prune"
                   PROVE  {e.info : e \in Candidates(all, Keep)} = RetentionCandidates(B, Keep)
      BY CursorNoExtra DEF CandidatesAreTheSet
    <2>2. Q = {e.info : e \in Prunable} /\ Prunable \subseteq all /\ IsFiniteSet(Prunable)
      <3>1. Prunable \subseteq all /\ IsFiniteSet(all)
        BY <2>1 DEF Prunable, Inv, FilesInv
      <3>2. QED
        BY <3>1, FS_Subset DEF Prunable
    <2>3. ASSUME NEW e \in Prunable
          PROVE  Cardinality(D(e)) = Cardinality(N(e.info)) /\ Cardinality(D(e)) \in Nat
      <3> DEFINE F == [d \in D(e) |-> d.info]
                 G == [g \in N(e.info) |-> CHOOSE d \in D(e) : d.info = g]
      <3>1. \A d \in Prunable : Ahead(d, e) <=> Before(d.info, e.info)
        BY <2>1, <2>2, CursorAheadBefore
      <3>2. F \in [D(e) -> N(e.info)]
        BY <2>2, <3>1
      <3>3. \A x, y \in D(e) : F[x] = F[y] => x = y
        BY <2>1, <2>2, CursorNoExtra
      <3>4. \A g \in N(e.info) : G[g] \in D(e) /\ G[g].info = g
        BY <2>2, <3>1
      <3>5. G \in [N(e.info) -> D(e)] /\ \A x, y \in N(e.info) : G[x] = G[y] => x = y
        BY <3>4
      <3>6. IsFiniteSet(D(e))
        BY <2>2, FS_Subset
      <3> HIDE DEF D, N, F, G
      <3>7. /\ IsFiniteSet(N(e.info)) /\ Cardinality(N(e.info)) <= Cardinality(D(e))
            /\ Cardinality(N(e.info)) \in Nat /\ Cardinality(D(e)) \in Nat
        BY <3>5, <3>6, Injected
      <3>8. Cardinality(D(e)) <= Cardinality(N(e.info))
        BY <3>2, <3>3, <3>7, Injected
      <3>9. QED
        BY <3>7, <3>8
    <2>4. Candidates(all, Keep) = {e \in Prunable : Cardinality(D(e)) >= Keep}
      BY DEF Candidates, Prunable
    <2>5. RetentionCandidates(B, Keep) = {b \in Q : ~(Cardinality(N(b)) < Keep)}
      BY DEF RetentionCandidates, First
    <2>6. Keep \in Nat
      BY ListingAssumption
    <2>7. \A e \in Prunable : e \in Candidates(all, Keep) <=> e.info \in RetentionCandidates(B, Keep)
      <3>1. ASSUME NEW e \in Prunable
            PROVE  e \in Candidates(all, Keep) <=> e.info \in RetentionCandidates(B, Keep)
        <4>1. e.info \in Q
          BY <2>2
        <4>2. PICK c \in Nat : c = Cardinality(D(e)) /\ c = Cardinality(N(e.info))
          BY <2>3
        <4>3. e \in Candidates(all, Keep) <=> c >= Keep
          BY <2>4, <4>2
        <4>4. e.info \in RetentionCandidates(B, Keep) <=> ~(c < Keep)
          BY <2>5, <4>1, <4>2
        <4>5. QED
          BY <2>6, <4>3, <4>4
      <3>2. QED
        BY <3>1
    <2>8. Candidates(all, Keep) \subseteq Prunable /\ RetentionCandidates(B, Keep) \subseteq Q
      BY <2>4, <2>5
    <2>9. QED
      BY <2>2, <2>7, <2>8
  <1>2. QED
    BY <1>1, InvCorrect, PTL

\* Every candidate has Keep entries that are kept ahead of it.
LEMMA KeptAhead ==
  ASSUME Inv, op = "prune", NEW c \in Candidates(all, Keep)
  PROVE  /\ Cardinality(Lowest(Prunable, AheadOn(Prunable), Keep)) = Keep
         /\ IsFiniteSet(Lowest(Prunable, AheadOn(Prunable), Keep))
         /\ \A k \in Lowest(Prunable, AheadOn(Prunable), Keep) :
              k.info.created_at >= c.info.created_at
  <1> DEFINE A == AheadOn(Prunable)
             L == Lowest(Prunable, A, Keep)
  <1>1. Keep \in Nat
    BY ListingAssumption
  <1>2. StrictOrder(Prunable, A) /\ c \in Prunable /\ c \notin L
    BY AheadOrder
  <1>3. Rank(Prunable, A, c) \in Nat /\ Rank(Prunable, A, c) < Cardinality(Prunable)
        /\ Cardinality(Prunable) \in Nat
    BY <1>2, RankType
  <1>4. Keep <= Rank(Prunable, A, c)
    BY <1>1, <1>2, <1>3 DEF Lowest
  <1>5. Keep <= Cardinality(Prunable)
    BY <1>1, <1>3, <1>4
  <1>6. Cardinality(L) = Keep /\ IsFiniteSet(L)
    BY <1>1, <1>2, <1>5, LowestSize
  <1>7. ASSUME NEW k \in L PROVE k.info.created_at >= c.info.created_at
    <2>1. k \in Prunable /\ k # c
      BY <1>2 DEF Lowest
    <2>2. <<c, k>> \notin A
      BY <1>1, <1>2, LowestDown
    <2>3. <<k, c>> \in A
      BY <1>2, <2>1, <2>2 DEF StrictOrder
    <2>4. Ahead(k, c)
      BY <2>3 DEF AheadOn
    <2>5. k.info.created_at \in Nat /\ c.info.created_at \in Nat
      BY <1>2, <2>1, EntryFacts DEF Prunable
    <2>6. QED
      BY <2>4, <2>5 DEF Ahead
  <1>8. QED
    BY <1>6, <1>7

\* The entries that are kept, and those of them that stand for a backup of
\* their own: neither a repetition nor a backup that goes all the same.
KeptEntries == Lowest(Prunable, AheadOn(Prunable), Keep)

Good ==
    {k \in KeptEntries \ Extra : \A c \in Candidates(all, Keep) : c.info.id # k.info.id}

\* Each kept entry that is not good is paid for by a repetition.
LEMMA BadEntries ==
  ASSUME Inv, op = "prune"
  PROVE  Cardinality(KeptEntries \ Good) <= Cardinality(Extra)
         /\ IsFiniteSet(KeptEntries \ Good)
  <1> DEFINE C == Candidates(all, Keep)
             Bad == KeptEntries \ Good
             F == [k \in Bad |-> IF k \in Extra THEN k
                                 ELSE CHOOSE c \in C : c.info.id = k.info.id]
  <1>1. KeptEntries \subseteq Prunable /\ Prunable \subseteq all /\ C = Prunable \ KeptEntries
    BY AheadOrder DEF KeptEntries, Lowest, Prunable
  <1>2. /\ \A e \in all : e.page \in Nat
        /\ \A d, e \in all : d.info.id = e.info.id /\ d.page = e.page => d = e
    BY EntryFacts
  <1>3. \A k \in Bad : k \in Extra => F[k] = k /\ F[k] \in KeptEntries
    OBVIOUS
  <1>4. ASSUME NEW k \in Bad, k \notin Extra
        PROVE  F[k] \in C /\ F[k].info.id = k.info.id /\ F[k] \in Extra
    <2>1. \E c \in C : c.info.id = k.info.id
      BY <1>4 DEF Good
    <2>2. F[k] = CHOOSE c \in C : c.info.id = k.info.id
      BY <1>4
    <2>3. PICK c \in C : c = F[k] /\ c.info.id = k.info.id
      BY <2>1, <2>2
    <2>4. c \in all /\ k \in all /\ c # k
      BY <1>1
    <2>5. ~(c.page < k.page)
      BY <1>4, <2>3, <2>4 DEF Extra
    <2>6. k.page < c.page
      BY <1>2, <2>3, <2>4, <2>5
    <2>7. c \in Extra
      BY <2>3, <2>4, <2>6 DEF Extra
    <2>8. QED
      BY <2>3, <2>7
  <1>5. F \in [Bad -> Extra]
    BY <1>3, <1>4
  <1>6. ASSUME NEW x \in Bad, NEW y \in Bad, F[x] = F[y] PROVE x = y
    <2>1. CASE x \in Extra /\ y \in Extra
      BY <1>3, <1>6, <2>1
    <2>2. CASE x \in Extra /\ y \notin Extra
      BY <1>1, <1>3, <1>4, <1>6, <2>2
    <2>3. CASE x \notin Extra /\ y \in Extra
      BY <1>1, <1>3, <1>4, <1>6, <2>3
    <2>4. CASE x \notin Extra /\ y \notin Extra
      <3>1. x.info.id = y.info.id
        BY <1>4, <1>6, <2>4
      <3>2. x \in all /\ y \in all
        BY <1>1
      <3>3. ~(x.page < y.page) /\ ~(y.page < x.page)
        BY <2>4, <3>1, <3>2 DEF Extra
      <3>4. x.page = y.page
        BY <1>2, <3>2, <3>3
      <3>5. QED
        BY <1>2, <3>1, <3>2, <3>4
    <2>5. QED
      BY <2>1, <2>2, <2>3, <2>4
  <1>7. IsFiniteSet(Extra)
    <2>1. Extra \subseteq all /\ IsFiniteSet(all)
      BY DEF Extra, Inv, FilesInv
    <2>2. QED
      BY <2>1, FS_Subset
  <1>8. \A x, y \in Bad : F[x] = F[y] => x = y
    BY <1>6
  <1>9. QED
    BY <1>5, <1>7, <1>8, Injected

\* Each good entry stands for a backup that stays.
LEMMA GoodEntries ==
  ASSUME Inv, op = "prune", NEW t \in Nat, \A k \in KeptEntries : k.info.created_at >= t
  PROVE  LET Staying == {f \in RegularBackups(files \cup removed) : f.created_at >= t}
         IN  /\ Cardinality(Good) <= Cardinality(Staying) /\ Cardinality(Staying) \in Nat
             /\ IsFiniteSet(Good)
  <1> DEFINE Staying == {f \in RegularBackups(files \cup removed) : f.created_at >= t}
             F == [k \in Good |-> CHOOSE f \in Staying : k.info = ToBackupInfo(f)]
  <1>1. FilesInv /\ EntriesInv /\ RemovalInv
    BY DEF Inv
  <1>2. /\ Good \subseteq KeptEntries /\ KeptEntries \subseteq all
        /\ \A k \in KeptEntries : IsPrunable(k.info)
    BY DEF Good, KeptEntries, Lowest, Prunable
  <1>3. ASSUME NEW k \in Good PROVE \E f \in Staying : k.info = ToBackupInfo(f)
    <2>1. PICK f \in Known : /\ Visible(f) /\ k.info = ToBackupInfo(f) /\ k.info.id = f.id
                             /\ k.info.created_at = f.created_at
      BY <1>1, <1>2, EntryFile
    <2>2. f \notin deleted
      <3>1. SUFFICES ASSUME f \in deleted PROVE FALSE
        OBVIOUS
      <3>2. PICK c \in Candidates(all, Keep) : c.info = ToBackupInfo(f)
        BY <1>1, <3>1 DEF RemovalInv
      <3>3. QED
        BY <2>1, <3>2 DEF Good
    <2>3. f \in files \cup removed
      BY <2>2 DEF Known
    <2>4. f \in RegularBackups(files \cup removed)
      BY <1>2, <2>1, <2>3 DEF RegularBackups, FolderQuery, Visible
    <2>5. QED
      BY <1>2, <2>1, <2>4
  <1>4. \A k \in Good : F[k] \in Staying /\ k.info = ToBackupInfo(F[k])
    BY <1>3
  <1>5. F \in [Good -> Staying]
    BY <1>4
  <1>6. \A x, y \in Good : F[x] = F[y] => x = y
    <2>1. ASSUME NEW x \in Good, NEW y \in Good, F[x] = F[y] PROVE x = y
      <3>1. x.info.id = y.info.id
        BY <1>4, <2>1
      <3>2. x \in all /\ y \in all /\ x \notin Extra /\ y \notin Extra
        BY <1>2 DEF Good
      <3>3. ~(x.page < y.page) /\ ~(y.page < x.page)
        BY <3>1, <3>2 DEF Extra
      <3>4. x.page \in Nat /\ y.page \in Nat
        BY <3>2, EntryFacts
      <3>5. x.page = y.page
        BY <3>3, <3>4
      <3>6. QED
        BY <3>1, <3>2, <3>5, EntryFacts
    <2>2. QED
      BY <2>1
  <1>7. IsFiniteSet(Staying)
    <2>1. Staying \subseteq Known /\ IsFiniteSet(Known)
      BY <1>1 DEF RegularBackups, FolderQuery, Known, FilesInv
    <2>2. QED
      BY <2>1, FS_Subset
  <1>8. /\ IsFiniteSet(Good) /\ Cardinality(Good) <= Cardinality(Staying)
        /\ Cardinality(Staying) \in Nat
    <2> HIDE DEF Staying, F
    <2>1. QED
      BY <1>5, <1>6, <1>7, Injected
  <1>9. QED
    BY <1>8

\* Retention removes a backup only if Keep regular backups at least as new
\* stay; with positions, each file that arrives may cost one of them.
THEOREM RetentionKeepsCorrect == Spec => []RetentionKeeps
  <1>1. Inv => RetentionKeeps
    <2> DEFINE Slack == IF tokens = "position" THEN arrived ELSE 0
    <2>1. SUFFICES ASSUME Inv, NEW d \in deleted
                   PROVE  Cardinality({f \in RegularBackups(files \cup removed) :
                                         f.created_at >= d.created_at}) + Slack >= Keep
      BY DEF RetentionKeeps
    <2>2. op = "prune" /\ d \in DriveFiles /\ arrived \in Nat
      BY <2>1 DEF Inv, FilesInv, Known
    <2>3. PICK t \in Nat : t = d.created_at
      BY <2>2 DEF DriveFiles
    <2>4. PICK c \in Candidates(all, Keep) : c.info = ToBackupInfo(d)
      BY <2>1 DEF Inv, RemovalInv
    <2>5. c.info.created_at = t
      BY <2>3, <2>4, InfoBefore
    <2>6. /\ Cardinality(KeptEntries) = Keep /\ IsFiniteSet(KeptEntries)
          /\ \A k \in KeptEntries : k.info.created_at >= t
      BY <2>1, <2>2, <2>5, KeptAhead DEF KeptEntries
    <2> DEFINE Staying == {f \in RegularBackups(files \cup removed) : f.created_at >= t}
    <2>7. /\ Cardinality(Good) <= Cardinality(Staying) /\ Cardinality(Staying) \in Nat
          /\ IsFiniteSet(Good)
      BY <2>1, <2>2, <2>6, GoodEntries
    <2>8. /\ Cardinality(KeptEntries \ Good) <= Cardinality(Extra)
          /\ IsFiniteSet(KeptEntries \ Good)
      BY <2>1, <2>2, BadEntries
    <2>9. Cardinality(Extra) <= Slack /\ Cardinality(Extra) \in Nat /\ Slack \in Nat
      <3>1. Extra \subseteq all /\ IsFiniteSet(all)
        BY <2>1 DEF Extra, Inv, FilesInv
      <3>2. Cardinality(Extra) \in Nat
        BY <3>1, FS_Subset, FS_CardinalityType
      <3>3. CASE tokens = "position"
        BY <2>1, <2>2, <3>2, <3>3 DEF Inv, PositionInv
      <3>4. CASE tokens = "cursor"
        BY <2>1, <2>2, <3>2, <3>4, CursorNoExtra, FS_EmptySet
      <3>5. QED
        BY <2>1, <3>3, <3>4 DEF Inv, TypeOK
    <2>10. Cardinality(KeptEntries \ Good) = Cardinality(KeptEntries) - Cardinality(Good)
      <3>1. Good \subseteq KeptEntries
        BY DEF Good
      <3>2. KeptEntries \cap Good = Good
        BY <3>1
      <3>3. Cardinality(KeptEntries \ Good) =
              Cardinality(KeptEntries) - Cardinality(KeptEntries \cap Good)
        BY <2>6, FS_Difference
      <3>4. QED
        BY <3>2, <3>3
    <2>11. Cardinality(Good) \in Nat /\ Keep \in Nat
      BY <2>7, FS_CardinalityType, ListingAssumption
    <2>12. Cardinality(Staying) + Slack >= Keep
      <3>1. PICK s \in Nat, l \in Nat, g \in Nat, x \in Nat :
              s = Cardinality(Staying) /\ l = Slack /\ g = Cardinality(Good) /\ x = Cardinality(Extra)
        BY <2>7, <2>9, <2>11
      <3> HIDE DEF Staying, Slack
      <3>2. Cardinality(KeptEntries \ Good) = Keep - g
        BY <2>6, <2>10, <3>1
      <3>3. g <= s /\ Keep - g <= x /\ x <= l
        BY <2>7, <2>8, <2>9, <3>1, <3>2
      <3>4. s + l >= Keep
        BY <2>11, <3>3
      <3>5. QED
        BY <3>1, <3>4
    <2>13. QED
      BY <2>3, <2>12
  <1>2. QED
    BY <1>1, InvCorrect, PTL
=============================================================================
