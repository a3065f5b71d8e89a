---------------------------- MODULE AgentFilesProofs ----------------------------
(***************************************************************************)
(* Proofs about AgentFiles, for any folders, names and bounds: no version  *)
(* of a file is lost, other than in the ways that NothingLost names; only  *)
(* duplicates are deleted for good on a review's word; and what is in the  *)
(* trash is listed.  The last part is about ServerFiles, the same tools as *)
(* the server runs them on its own disk.                                   *)
(***************************************************************************)
EXTENDS ServerFiles, WellFoundedInduction, SequenceTheorems, FiniteSetTheorems, TLAPS

USE FilesAssumption

storeVars == <<file, bak, trash, made, discarded, buried, editedAway, destroyed>>

\* The ways in which NothingLost lets a version go.
Gone(v) ==
  \/ v \in discarded \cup buried \cup editedAway
  \/ \E d \in destroyed : d[1][2] = v

\* A step loses nothing that adds to what is gone, and keeps the rest and what is new.
LEMMA NothingLostStep ==
  ASSUME NothingLost,
         discarded \subseteq discarded', buried \subseteq buried',
         editedAway \subseteq editedAway', destroyed \subseteq destroyed',
         \A v \in 1 .. made : Kept(v) => (Kept(v) \/ Gone(v))',
         \A v \in (1 .. made') \ (1 .. made) : Kept(v)'
  PROVE  NothingLost'
<1> SUFFICES ASSUME NEW v \in 1 .. made'
             PROVE  (Kept(v) \/ Gone(v))'
  BY DEF NothingLost, Gone
<1>1. CASE v \in 1 .. made
  <2>1. Kept(v) \/ Gone(v)
    BY <1>1 DEF NothingLost, Gone
  <2>2. Gone(v) => Gone(v)'
    BY DEF Gone
  <2>3. QED
    BY <1>1, <2>1, <2>2
<1>2. CASE v \notin 1 .. made
  BY <1>2
<1>3. QED
  BY <1>1, <1>2

\* The file at hand, and those after it.
LEMMA ThisIsAPath ==
  ASSUME StoreIsTyped, todo # <<>>
  PROVE  /\ This \in Paths
         /\ Head(todo) = todo[1] /\ 1 \in DOMAIN todo
         /\ Tail(todo) \in Seq(Items)
         /\ \A k \in DOMAIN Tail(todo) :
              k + 1 \in DOMAIN todo /\ k + 1 # 1 /\ Tail(todo)[k] = todo[k + 1]
         /\ \A k, l \in DOMAIN Tail(todo) : k + 1 = l + 1 => k = l
<1>1. todo \in Seq(Items) /\ Len(todo) \in Nat \ {0}
  BY EmptySeq DEF StoreIsTyped
<1>2. todo[1] \in Items /\ Head(todo) = todo[1] /\ DOMAIN todo = 1 .. Len(todo)
  BY <1>1, ElementOfSeq, LenProperties
<1>3. Tail(todo) \in Seq(Items) /\ Len(Tail(todo)) = Len(todo) - 1
      /\ \A i \in 1 .. Len(Tail(todo)) : Tail(todo)[i] = todo[i + 1]
  BY <1>1, HeadTailProperties
<1>4. DOMAIN Tail(todo) = 1 .. (Len(todo) - 1)
  BY <1>3, LenProperties
<1>5. This \in Paths
  BY <1>2 DEF This, Items
<1>6. QED
  BY <1>1, <1>2, <1>3, <1>4, <1>5

LEMMA VersionsAreNumbers ==
  ASSUME StoreIsTyped
  PROVE  /\ made \in Nat /\ NewVersion \in Nat
         /\ made < MaxVersions => NewVersion \in Versions
         /\ \A v \in 1 .. made : v \in Nat /\ v # 0 /\ v # ManifestText
BY DEF StoreIsTyped, NewVersion, Versions, ManifestText

\* A job that goes on to its next file is as sound as before.
LEMMA GoesOn ==
  ASSUME StoreIsTyped, JobIsSound, todo # <<>>, Goes,
         job.op = "trash" => \A k \in DOMAIN Tail(todo) :
           trash'[job.batch][Tail(todo)[k][1]] = trash[job.batch][Tail(todo)[k][1]]
  PROVE  JobIsSound' /\ todo' \in Seq(Items)
<1>1. todo' = Tail(todo) /\ job' = job
  BY DEF Goes
<1>2. todo' \in Seq(Items)
  BY <1>1, ThisIsAPath
<1>3. /\ job'.op \in {"move", "copy"} => job'.to \in Folders
      /\ job'.op = "rename" => job'.to \in Names
      /\ job'.op \in {"trash", "restore"} => job'.batch \in Batches
  BY <1>1 DEF JobIsSound
<1>4. ASSUME job'.op = "trash", NEW k \in DOMAIN todo'
      PROVE  /\ trash'[job'.batch][todo'[k][1]] = 0
             /\ \A l \in DOMAIN todo' : todo'[k][1] = todo'[l][1] => k = l
  <2>1. \A j \in DOMAIN Tail(todo) :
          j + 1 \in DOMAIN todo /\ Tail(todo)[j] = todo[j + 1]
    BY ThisIsAPath
  <2>2. job.op = "trash" /\ k \in DOMAIN Tail(todo)
    BY <1>1, <1>4
  <2>3. trash'[job'.batch][todo'[k][1]] = 0
    BY <1>1, <2>1, <2>2 DEF JobIsSound
  <2>4. ASSUME NEW l \in DOMAIN todo', todo'[k][1] = todo'[l][1]
        PROVE  k = l
    <3>1. todo[k + 1][1] = todo[l + 1][1]
      BY <1>1, <2>1, <2>2, <2>4
    <3>2. k + 1 = l + 1
      BY <1>1, <2>1, <2>2, <3>1 DEF JobIsSound
    <3>3. QED
      BY <1>1, <3>2, ThisIsAPath
  <2>5. QED
    BY <2>3, <2>4
<1>5. QED
  BY <1>2, <1>3, <1>4 DEF JobIsSound

\* A job at its end, or one that dies, leaves no job.
LEMMA NoJobIsSound ==
  ASSUME job' = NoJob
  PROVE  JobIsSound'
BY DEF JobIsSound, NoJob

\* What the steps that only look at the files leave alone.
LEMMA StoreStays ==
  ASSUME NothingLost, UNCHANGED storeVars
  PROVE  NothingLost'
BY DEF NothingLost, Kept, storeVars

LEMMA FilesInitIInv == FilesInit => FilesIInv
<1> SUFFICES ASSUME FilesInit
             PROVE  FilesIInv
  OBVIOUS
<1> USE DEF FilesInit
<1>1. <<>> \in Seq(Paths) /\ <<>> \in Seq(Items)
  BY EmptySeq
<1>2. manifest \in [Batches -> [written : BOOLEAN, items : Seq(Paths)]]
  BY <1>1 DEF NoManifest
<1>3. made \in 0 .. MaxVersions
  OBVIOUS
<1>4. StoreIsTyped
  BY <1>1, <1>2, <1>3 DEF StoreIsTyped
<1>5. JobIsSound
  BY DEF JobIsSound, NoJob
<1>6. NothingLost
  BY DEF NothingLost
<1>7. QED
  BY <1>4, <1>5, <1>6 DEF FilesIInv

LEMMA EmployeePreserves ==
  ASSUME FilesIInv, EmployeeStep
  PROVE  FilesIInv'
<1> USE DEF FilesIInv
<1>1. ASSUME NEW p \in Paths, EmployeeSaves(p)
      PROVE  FilesIInv'
  <2>1. file' = [file EXCEPT ![p] = NewVersion] /\ made' = NewVersion /\ made < MaxVersions
    BY <1>1 DEF EmployeeSaves, Save
  <2>2. UNCHANGED <<bak, trash, manifest, moved, todo, job, reviewVars, buried, editedAway,
                    destroyed>>
    BY <1>1 DEF EmployeeSaves
  <2>3. NewVersion \in Versions /\ made' \in 0 .. MaxVersions
    BY <2>1, VersionsAreNumbers DEF NewVersion
  <2>4. StoreIsTyped'
    BY <2>1, <2>2, <2>3 DEF StoreIsTyped, reviewVars
  <2>5. JobIsSound'
    BY <2>2 DEF JobIsSound
  <2>6. discarded \subseteq discarded' /\ (file[p] # 0 => file[p] \in discarded')
    BY <1>1 DEF EmployeeSaves, Discards
  <2>7. file'[p] = NewVersion /\ \A x \in Paths \ {p} : file'[x] = file[x]
    BY <2>1 DEF StoreIsTyped
  <2>8. \A v \in 1 .. made : Kept(v) => (Kept(v) \/ Gone(v))'
    BY <2>2, <2>6, <2>7, VersionsAreNumbers DEF Kept, Gone
  <2>9. \A v \in (1 .. made') \ (1 .. made) : Kept(v)'
    <3>1. \A v \in (1 .. made') \ (1 .. made) : v = NewVersion
      BY <2>1, VersionsAreNumbers DEF NewVersion
    <3>2. QED
      BY <2>7, <3>1 DEF Kept
  <2>10. NothingLost'
    BY <2>2, <2>6, <2>8, <2>9, NothingLostStep
  <2>11. QED
    BY <2>4, <2>5, <2>10
<1>2. ASSUME NEW p \in Paths, EmployeeDeletes(p)
      PROVE  FilesIInv'
  <2>1. file' = [file EXCEPT ![p] = 0]
        /\ UNCHANGED <<bak, trash, manifest, moved, todo, job, reviewVars, made, buried,
                       editedAway, destroyed>>
    BY <1>2 DEF EmployeeDeletes
  <2>2. discarded \subseteq discarded' /\ file[p] \in discarded'
    BY <1>2 DEF EmployeeDeletes, Discards
  <2>3. StoreIsTyped' /\ JobIsSound'
    BY <2>1 DEF StoreIsTyped, JobIsSound, reviewVars
  <2>4. \A x \in Paths \ {p} : file'[x] = file[x]
    BY <2>1 DEF StoreIsTyped
  <2>5. \A v \in 1 .. made : Kept(v) => (Kept(v) \/ Gone(v))'
    BY <2>1, <2>2, <2>4 DEF Kept, Gone
  <2>6. NothingLost'
    BY <2>1, <2>2, <2>5, NothingLostStep
  <2>7. QED
    BY <2>3, <2>6
<1>3. ASSUME NEW p \in Paths, NEW q \in Paths, EmployeeCopies(p, q)
      PROVE  FilesIInv'
  <2>1. /\ file' = [file EXCEPT ![q] = file[p]] /\ file[q] = 0
        /\ UNCHANGED <<bak, trash, manifest, moved, todo, job, reviewVars, made, discarded,
                       buried, editedAway, destroyed>>
    BY <1>3 DEF EmployeeCopies, historyVars
  <2>2. StoreIsTyped' /\ JobIsSound'
    BY <2>1 DEF StoreIsTyped, JobIsSound, reviewVars
  <2>3. \A x \in Paths \ {q} : file'[x] = file[x]
    BY <2>1 DEF StoreIsTyped
  <2>4. \A v \in 1 .. made : Kept(v) => (Kept(v) \/ Gone(v))'
    BY <2>1, <2>3, VersionsAreNumbers DEF Kept
  <2>5. NothingLost'
    BY <2>1, <2>4, NothingLostStep
  <2>6. QED
    BY <2>2, <2>5
<1>4. \A p \in Desks \X Names : p \in Paths
  BY DEF Paths
<1>5. QED
  BY <1>1, <1>2, <1>3, <1>4 DEF EmployeeStep

LEMMA ReviewPreserves ==
  ASSUME FilesIInv, (\E d \in Folders : Hash(d)) \/ Recommend
  PROVE  FilesIInv'
<1> USE DEF FilesIInv
<1>1. UNCHANGED <<file, bak, trash, manifest, made, moved, todo, job>> /\ UNCHANGED storeVars
  BY DEF Hash, Recommend, storeVars, historyVars
<1>2. \A p \in Paths : file[p] # 0 => Fingerprint(p) \in Fingerprints
  BY DEF StoreIsTyped, Fingerprint, Fingerprints
<1>3. hashed' \subseteq Fingerprints
  BY <1>2 DEF Hash, Recommend, FilesIn, StoreIsTyped
<1>4. reviewed' \subseteq Fingerprints /\ extra' \subseteq Fingerprints
  <2>1. CASE UNCHANGED <<reviewed, extra>>
    BY <2>1 DEF StoreIsTyped
  <2>2. CASE Recommend /\ \A f \in hashed : file[f[1]] # 0
    <3>1. \A f \in hashed : f[1] \in Paths
      BY DEF StoreIsTyped, Fingerprints
    <3>2. \A f \in hashed : Fingerprint(f[1]) \in Fingerprints
      BY <1>2, <2>2, <3>1
    <3>3. PICK keep \in SUBSET hashed :
            extra' = extra \cup {Fingerprint(p) : p \in {f[1] : f \in hashed \ keep}}
      BY <2>2 DEF Recommend
    <3>4. reviewed' = reviewed \cup hashed \cup {Fingerprint(f[1]) : f \in hashed}
      BY <2>2 DEF Recommend
    <3>5. QED
      BY <3>2, <3>3, <3>4 DEF StoreIsTyped
  <2>3. QED
    BY <2>1, <2>2 DEF Hash, Recommend
<1>5. StoreIsTyped' /\ JobIsSound'
  BY <1>1, <1>3, <1>4 DEF StoreIsTyped, JobIsSound
<1>6. QED
  BY <1>1, <1>5, StoreStays

\* A list of a job is a sequence in which no file comes twice.
LEMMA ListsAreSequences ==
  ASSUME NEW items, items \subseteq Items, NEW s \in ListsOf(items)
  PROVE  s \in Seq(Items) /\ s \in Seq(items) /\ IsInjective(s)
<1>1. PICK n \in 1 .. MaxItems : s \in [1 .. n -> items]
  BY DEF ListsOf
<1>2. n \in Nat /\ s \in [1 .. n -> Items]
  BY <1>1
<1>3. QED
  BY <1>1, <1>2, SeqDef DEF ListsOf

LEMMA StartPreserves ==
  ASSUME FilesIInv, NEW op, NEW to, NEW b, NEW items, Starts(op, to, b, items),
         items \in Seq(Items),
         op \in {"move", "copy"} => to \in Folders,
         op = "rename" => to \in Names,
         op \in {"trash", "restore"} => b \in Batches,
         op = "trash" => \A k \in DOMAIN items :
           /\ trash[b][items[k][1]] = 0
           /\ \A l \in DOMAIN items : items[k][1] = items[l][1] => k = l
  PROVE  FilesIInv'
<1> USE DEF FilesIInv
<1>1. /\ job' = [op |-> op, to |-> to, batch |-> b] /\ todo' = items /\ moved' = <<>>
      /\ UNCHANGED <<file, bak, trash, manifest, made, reviewVars>> /\ UNCHANGED storeVars
  BY DEF Starts, storeVars, historyVars
<1>2. <<>> \in Seq(Paths)
  BY EmptySeq
<1>3. StoreIsTyped' /\ JobIsSound'
  BY <1>1, <1>2 DEF StoreIsTyped, JobIsSound, reviewVars
<1>4. QED
  BY <1>1, <1>3, StoreStays

LEMMA JobStartsPreserves ==
  ASSUME FilesIInv, JobStarts
  PROVE  FilesIInv'
<1> USE DEF FilesIInv
<1>1. Unreviewed \subseteq Items /\ Fingerprints \subseteq Items
  BY DEF Unreviewed, Items, Fingerprints
<1>2. CASE MoveOrCopyStarts
  BY <1>1, <1>2, ListsAreSequences, StartPreserves DEF MoveOrCopyStarts
<1>3. CASE RecommendedStarts
  <2>1. reviewed \subseteq Items /\ extra \subseteq Items
    BY <1>1 DEF StoreIsTyped
  <2>2. QED
    BY <1>3, <2>1, ListsAreSequences, StartPreserves DEF RecommendedStarts
<1>4. \A f \in Unreviewed : <<f>> \in Seq(Items)
  BY <1>1
<1>5. CASE RenameStarts
  BY <1>4, <1>5, StartPreserves DEF RenameStarts
<1>6. CASE DeleteStarts
  BY <1>1, <1>6, ListsAreSequences, StartPreserves DEF DeleteStarts
<1>7. CASE TrashStarts
  <2>1. PICK b \in Batches, items \in ListsOf(Unreviewed) :
          Unused(b) /\ Starts("trash", "none", b, items)
    BY <1>7 DEF TrashStarts
  <2>2. items \in Seq(Items) /\ items \in Seq(Unreviewed) /\ IsInjective(items)
    BY <1>1, ListsAreSequences
  <2>3. \A k \in DOMAIN items : items[k] \in Unreviewed
    BY <2>2, ElementOfSeq, LenProperties
  <2>4. \A f, g \in Unreviewed : f[1] \in Paths /\ (f[1] = g[1] => f = g)
    BY DEF Unreviewed
  <2>5. \A k \in DOMAIN items :
          /\ trash[b][items[k][1]] = 0
          /\ \A l \in DOMAIN items : items[k][1] = items[l][1] => k = l
    BY <2>1, <2>2, <2>3, <2>4 DEF Unused, IsInjective
  <2>6. QED
    BY <2>1, <2>2, <2>5, StartPreserves
<1>8. CASE WriteOrEditStarts
  BY <1>4, <1>8, StartPreserves DEF WriteOrEditStarts
<1>9. CASE RestoreStarts
  <2>1. PICK b \in Batches : Starts("restore", "none", b, [k \in DOMAIN manifest[b].items |->
                                                             <<manifest[b].items[k], 0>>])
    BY <1>9 DEF RestoreStarts
  <2> DEFINE listed == manifest[b].items
             items == [k \in DOMAIN listed |-> <<listed[k], 0>>]
  <2>2. listed \in Seq(Paths)
    BY DEF StoreIsTyped
  <2>3. Len(listed) \in Nat /\ DOMAIN listed = 1 .. Len(listed)
        /\ \A k \in DOMAIN listed : listed[k] \in Paths
    <3> HIDE DEF listed
    <3>1. QED
      BY <2>2, LenProperties, ElementOfSeq
  <2>4. items \in [1 .. Len(listed) -> Items]
    BY <2>3 DEF Items
  <2>5. items \in Seq(Items)
    <3> HIDE DEF items, listed
    <3>1. QED
      BY <2>3, <2>4, SeqDef
  <2>6. QED
    BY <2>1, <2>5, StartPreserves
<1>10. QED
  BY <1>2, <1>3, <1>5, <1>6, <1>7, <1>8, <1>9 DEF JobStarts
-----------------------------------------------------------------------------
\* The files of a job.
LEMMA MovePreserves ==
  ASSUME FilesIInv, MoveFile \/ CopyFile \/ ServerMovesFile \/ ServerRenamesFile
  PROVE  FilesIInv'
<1> USE DEF FilesIInv
<1> DEFINE p == This
           q == Destination(This)
<1>1. todo # <<>> /\ Goes /\ file[p] # 0 /\ file[q] = 0
      /\ UNCHANGED <<bak, trash, manifest, moved, made, reviewVars, historyVars>>
  BY DEF MoveFile, CopyFile, ServerMovesFile, ServerRenamesFile, Handles, Destination
<1>2. p \in Paths
  BY <1>1, ThisIsAPath
<1>3. q \in Paths
  BY <1>2 DEF MoveFile, CopyFile, ServerMovesFile, ServerRenamesFile, Handles, Destination,
              JobIsSound, Paths
<1>4. p # q
  BY <1>1
<1>5. \/ file' = [file EXCEPT ![q] = file[p], ![p] = 0]
      \/ file' = [file EXCEPT ![q] = file[p]]
  BY DEF MoveFile, CopyFile, ServerMovesFile, ServerRenamesFile, Handles, Destination
<1>6. file \in [Paths -> Versions \cup {0}]
  BY DEF StoreIsTyped
<1> HIDE DEF p, q
<1>7. /\ file' \in [Paths -> Versions \cup {0}] /\ file'[q] = file[p]
      /\ \A x \in Paths \ {p, q} : file'[x] = file[x]
  BY <1>2, <1>3, <1>4, <1>5, <1>6
<1>8. JobIsSound' /\ todo' \in Seq(Items)
  BY <1>1, GoesOn
<1>9. StoreIsTyped'
  BY <1>1, <1>7, <1>8 DEF StoreIsTyped, reviewVars
<1>10. \A v \in 1 .. made : Kept(v) => Kept(v)'
  BY <1>1, <1>2, <1>3, <1>7, VersionsAreNumbers DEF Kept
<1>11. NothingLost'
  BY <1>1, <1>10, NothingLostStep DEF historyVars
<1>12. QED
  BY <1>8, <1>9, <1>11

LEMMA DeletePreserves ==
  ASSUME FilesIInv, DeleteFile \/ ServerDeletesFile
  PROVE  FilesIInv'
<1> USE DEF FilesIInv
<1> DEFINE p == This
<1>1. /\ todo # <<>> /\ Goes /\ file' = [file EXCEPT ![p] = 0]
      /\ UNCHANGED <<bak, trash, manifest, moved, made, reviewVars, discarded, buried,
                     editedAway>>
  BY DEF DeleteFile, ServerDeletesFile, Handles
<1>2. destroyed \subseteq destroyed' /\ \E d \in destroyed' : d[1][2] = file[p]
  <2>1. PICK v : destroyed' = destroyed \cup {<<Fingerprint(p), v>>}
    BY DEF DeleteFile, ServerDeletesFile
  <2>2. <<Fingerprint(p), v>>[1][2] = file[p]
    BY DEF Fingerprint
  <2>3. QED
    BY <2>1, <2>2
<1>3. p \in Paths
  BY <1>1, ThisIsAPath
<1> HIDE DEF p
<1>4. \A x \in Paths \ {p} : file'[x] = file[x]
  BY <1>1 DEF StoreIsTyped
<1>5. JobIsSound' /\ todo' \in Seq(Items)
  BY <1>1, GoesOn
<1>6. StoreIsTyped'
  BY <1>1, <1>5 DEF StoreIsTyped, reviewVars
<1>7. \A v \in 1 .. made : Kept(v) => (Kept(v) \/ Gone(v))'
  BY <1>1, <1>2, <1>4 DEF Kept, Gone
<1>8. NothingLost'
  BY <1>1, <1>2, <1>7, NothingLostStep
<1>9. QED
  BY <1>5, <1>6, <1>8

LEMMA TrashPreserves ==
  ASSUME FilesIInv, TrashFile
  PROVE  FilesIInv'
<1> USE DEF FilesIInv
<1> DEFINE p == This
           b == job.batch
<1>1. /\ todo # <<>> /\ Goes /\ job.op = "trash" /\ file' = [file EXCEPT ![p] = 0]
      /\ trash' = [trash EXCEPT ![b][p] = file[p]] /\ moved' = Append(moved, p)
      /\ UNCHANGED <<bak, manifest, made, reviewVars, historyVars>>
  BY DEF TrashFile, Handles
<1>2. p \in Paths /\ b \in Batches /\ trash[b][p] = 0
  BY <1>1, ThisIsAPath DEF JobIsSound, This
<1>3. \A k \in DOMAIN Tail(todo) : Tail(todo)[k][1] # p
  BY <1>1, ThisIsAPath DEF JobIsSound, This
<1>4. moved' \in Seq(Paths)
  BY <1>1, <1>2 DEF StoreIsTyped
<1> HIDE DEF p, b
<1>5. /\ \A x \in Paths \ {p} : file'[x] = file[x]
      /\ file' \in [Paths -> Versions \cup {0}]
  BY <1>1 DEF StoreIsTyped
<1>6. trash' \in [Batches -> [Paths -> Versions \cup {0}]]
  BY <1>1, <1>2 DEF StoreIsTyped
<1>7. /\ trash'[b][p] = file[p]
      /\ \A x \in Paths \ {p} : trash'[b][x] = trash[b][x]
      /\ \A c \in Batches \ {b} : trash'[c] = trash[c]
  BY <1>1, <1>2 DEF StoreIsTyped
<1>8. JobIsSound' /\ todo' \in Seq(Items)
  <2>1. ASSUME NEW k \in DOMAIN Tail(todo)
        PROVE  Tail(todo)[k][1] \in Paths
    <3>1. Tail(todo) \in Seq(Items)
      BY <1>1, ThisIsAPath
    <3>2. Tail(todo)[k] \in Items
      BY <3>1, LenProperties, ElementOfSeq
    <3>3. QED
      BY <3>2 DEF Items
  <2>2. \A k \in DOMAIN Tail(todo) :
          trash'[job.batch][Tail(todo)[k][1]] = trash[job.batch][Tail(todo)[k][1]]
    BY <1>3, <1>7, <2>1 DEF b
  <2>3. QED
    BY <1>1, <2>2, GoesOn
<1>9. StoreIsTyped'
  BY <1>1, <1>4, <1>5, <1>6, <1>8 DEF StoreIsTyped, reviewVars
<1>10. \A v \in 1 .. made : Kept(v) => Kept(v)'
  <2> SUFFICES ASSUME NEW v \in 1 .. made, Kept(v)
               PROVE  Kept(v)'
    OBVIOUS
  <2>1. ASSUME NEW x \in Paths, v = file[x]
        PROVE  Kept(v)'
    BY <1>2, <1>5, <1>7, <2>1 DEF Kept
  <2>2. ASSUME NEW x \in Paths, v = bak[x]
        PROVE  Kept(v)'
    BY <1>1, <2>2 DEF Kept
  <2>3. ASSUME NEW c \in Batches, NEW x \in Paths, trash[c][x] = v
        PROVE  Kept(v)'
    <3>1. ~(c = b /\ x = p)
      BY <1>2, <2>3, VersionsAreNumbers
    <3>2. trash'[c][x] = v
      BY <1>7, <2>3, <3>1
    <3>3. QED
      BY <3>2 DEF Kept
  <2>4. QED
    BY <2>1, <2>2, <2>3 DEF Kept
<1>11. NothingLost'
  BY <1>1, <1>10, NothingLostStep DEF historyVars
<1>12. QED
  BY <1>8, <1>9, <1>11

LEMMA WritePreserves ==
  ASSUME FilesIInv, WriteFile \/ EditFile \/ ServerWritesFile \/ ServerEditsFile
  PROVE  FilesIInv'
<1> USE DEF FilesIInv
<1> DEFINE p == This
<1>1. /\ todo # <<>> /\ Goes
      /\ UNCHANGED <<trash, manifest, moved, reviewVars, discarded, buried, destroyed>>
  BY DEF WriteFile, EditFile, ServerWritesFile, ServerEditsFile, Handles, historyVars
<1>2. p \in Paths
  BY <1>1, ThisIsAPath
<1>3. \/ UNCHANGED bak
      \/ bak[p] = 0 /\ bak' = [bak EXCEPT ![p] = file[p]]
  BY DEF WriteFile, EditFile, ServerWritesFile, ServerEditsFile, BackupOnce
<1>4. \/ UNCHANGED <<file, made>>
      \/ /\ made < MaxVersions /\ made' = NewVersion
         /\ file' = [file EXCEPT ![p] = NewVersion]
         /\ file[p] = 0 \/ bak'[p] = file[p] \/ file[p] \in editedAway'
  BY <1>2 DEF WriteFile, EditFile, ServerWritesFile, ServerEditsFile, BackupOnce, Save,
              StoreIsTyped
<1>5. editedAway \subseteq editedAway'
  BY DEF WriteFile, EditFile, ServerWritesFile, ServerEditsFile, historyVars
<1>6. file[p] \in Versions \cup {0}
  BY <1>2 DEF StoreIsTyped
<1> HIDE DEF p
<1>7. /\ bak' \in [Paths -> Versions \cup {0}]
      /\ \A x \in Paths : bak'[x] = bak[x] \/ bak[x] = 0
  BY <1>2, <1>3, <1>6 DEF StoreIsTyped
<1>8. /\ file' \in [Paths -> Versions \cup {0}] /\ made' \in 0 .. MaxVersions
      /\ \A x \in Paths \ {p} : file'[x] = file[x]
  <2>1. CASE UNCHANGED <<file, made>>
    BY <2>1 DEF StoreIsTyped
  <2>2. CASE made < MaxVersions /\ made' = NewVersion /\ file' = [file EXCEPT ![p] = NewVersion]
    <3>1. NewVersion \in Versions /\ made' \in 0 .. MaxVersions
      BY <2>2, VersionsAreNumbers DEF NewVersion
    <3>2. QED
      BY <2>2, <3>1 DEF StoreIsTyped
  <2>3. QED
    BY <1>4, <2>1, <2>2
<1>9. JobIsSound' /\ todo' \in Seq(Items)
  BY <1>1, GoesOn
<1>10. StoreIsTyped'
  BY <1>1, <1>7, <1>8, <1>9 DEF StoreIsTyped, reviewVars
<1>11. \A v \in 1 .. made : Kept(v) => (Kept(v) \/ Gone(v))'
  <2> SUFFICES ASSUME NEW v \in 1 .. made, Kept(v)
               PROVE  (Kept(v) \/ Gone(v))'
    OBVIOUS
  <2>1. v # 0
    BY VersionsAreNumbers
  <2>2. ASSUME NEW x \in Paths, v = file[x]
        PROVE  (Kept(v) \/ Gone(v))'
    <3>1. CASE file'[x] = file[x]
      BY <2>2, <3>1 DEF Kept
    <3>2. CASE file'[x] # file[x]
      <4>1. x = p
        BY <1>8, <3>2
      <4>2. bak'[p] = v \/ v \in editedAway'
        BY <1>4, <2>1, <2>2, <3>2, <4>1
      <4>3. QED
        BY <1>2, <4>2 DEF Kept, Gone
    <3>3. QED
      BY <3>1, <3>2
  <2>3. ASSUME NEW x \in Paths, v = bak[x]
        PROVE  (Kept(v) \/ Gone(v))'
    BY <1>7, <2>1, <2>3 DEF Kept
  <2>4. ASSUME NEW c \in Batches, NEW x \in Paths, trash[c][x] = v
        PROVE  (Kept(v) \/ Gone(v))'
    BY <1>1, <2>4 DEF Kept
  <2>5. QED
    BY <2>2, <2>3, <2>4 DEF Kept
<1>12. \A v \in (1 .. made') \ (1 .. made) : Kept(v)'
  <2> SUFFICES ASSUME NEW v \in (1 .. made') \ (1 .. made)
               PROVE  Kept(v)'
    OBVIOUS
  <2>1. made' = NewVersion /\ file' = [file EXCEPT ![p] = NewVersion]
    BY <1>4
  <2>2. v = NewVersion
    BY <2>1, VersionsAreNumbers DEF NewVersion
  <2>3. file'[p] = v
    BY <1>2, <2>1, <2>2 DEF StoreIsTyped
  <2>4. QED
    BY <1>2, <2>3 DEF Kept
<1>13. NothingLost'
  BY <1>1, <1>5, <1>11, <1>12, NothingLostStep
<1>14. QED
  BY <1>9, <1>10, <1>13

LEMMA SkipPreserves ==
  ASSUME FilesIInv, SkipFile \/ ServerSkipsFile
  PROVE  FilesIInv'
<1> USE DEF FilesIInv
<1>1. /\ todo # <<>> /\ Goes /\ UNCHANGED storeVars
      /\ UNCHANGED <<file, bak, trash, manifest, moved, made, reviewVars>>
  BY DEF SkipFile, ServerSkipsFile, storeVars, historyVars
<1>2. JobIsSound' /\ todo' \in Seq(Items)
  BY <1>1, GoesOn
<1>3. StoreIsTyped'
  BY <1>1, <1>2 DEF StoreIsTyped, reviewVars
<1>4. QED
  BY <1>1, <1>2, <1>3, StoreStays

\* One file of one trash folder is changed.
LEMMA TrashWith ==
  ASSUME StoreIsTyped, NEW b \in Batches, NEW p, NEW v \in Versions \cup {0},
         trash' = [trash EXCEPT ![b][p] = v]
  PROVE  /\ trash' \in [Batches -> [Paths -> Versions \cup {0}]]
         /\ \A c \in Batches, x \in Paths :
              trash'[c][x] = trash[c][x] \/ (c = b /\ x = p)
<1> DEFINE row == [trash[b] EXCEPT ![p] = v]
<1>1. trash[b] \in [Paths -> Versions \cup {0}]
  BY DEF StoreIsTyped
<1>2. /\ row \in [Paths -> Versions \cup {0}]
      /\ \A x \in Paths : row[x] = trash[b][x] \/ x = p
  BY <1>1
<1>3. trash' = [trash EXCEPT ![b] = row]
  OBVIOUS
<1> HIDE DEF row
<1>4. trash'[b] = row /\ \A c \in Batches \ {b} : trash'[c] = trash[c]
  BY <1>3 DEF StoreIsTyped
<1>5. trash' \in [Batches -> [Paths -> Versions \cup {0}]]
  BY <1>2, <1>3 DEF StoreIsTyped
<1>6. QED
  BY <1>2, <1>4, <1>5

LEMMA ManifestPreserves ==
  ASSUME FilesIInv, WriteManifest
  PROVE  FilesIInv'
<1> USE DEF FilesIInv
<1> DEFINE b == job.batch
           p == FirstNamed(moved)
<1>1. /\ job.op = "trash" /\ job' = NoJob /\ moved' = <<>>
      /\ manifest' = [manifest EXCEPT ![b] = [written |-> TRUE, items |-> moved]]
      /\ UNCHANGED <<file, bak, todo, reviewVars, made, discarded, destroyed, editedAway>>
  BY DEF WriteManifest
<1>2. \/ UNCHANGED <<trash, buried>>
      \/ /\ buried' = buried \cup {trash[b][p]}
         /\ trash' = [trash EXCEPT ![b][p] = ManifestText]
  BY DEF WriteManifest
<1>3. b \in Batches
  BY <1>1 DEF JobIsSound
<1> HIDE DEF b, p
<1>4. moved' \in Seq(Paths) /\ manifest' \in [Batches -> [written : BOOLEAN, items : Seq(Paths)]]
  BY <1>1, EmptySeq DEF StoreIsTyped
<1>5. ManifestText \in Versions
  BY DEF ManifestText, Versions
<1>6. trash' \in [Batches -> [Paths -> Versions \cup {0}]]
  <2>1. CASE UNCHANGED trash
    BY <2>1 DEF StoreIsTyped
  <2>2. CASE trash' = [trash EXCEPT ![b][p] = ManifestText]
    BY <1>3, <1>5, <2>2, TrashWith
  <2>3. QED
    BY <1>2, <2>1, <2>2
<1>7. \A c \in Batches, x \in Paths : trash'[c][x] = trash[c][x] \/ trash[c][x] \in buried'
  <2>1. CASE UNCHANGED trash
    BY <2>1
  <2>2. CASE buried' = buried \cup {trash[b][p]} /\ trash' = [trash EXCEPT ![b][p] = ManifestText]
    BY <1>3, <1>5, <2>2, TrashWith
  <2>3. QED
    BY <1>2, <2>1, <2>2
<1>8. buried \subseteq buried'
  BY <1>2
<1>9. StoreIsTyped' /\ JobIsSound'
  BY <1>1, <1>4, <1>6, NoJobIsSound DEF StoreIsTyped, reviewVars
<1>10. \A v \in 1 .. made : Kept(v) => (Kept(v) \/ Gone(v))'
  BY <1>1, <1>7 DEF Kept, Gone
<1>11. NothingLost'
  BY <1>1, <1>8, <1>10, NothingLostStep
<1>12. QED
  BY <1>9, <1>11

LEMMA RestorePreserves ==
  ASSUME FilesIInv, RestoreFile
  PROVE  FilesIInv'
<1> USE DEF FilesIInv
<1> DEFINE p == This
           b == job.batch
<1>1. /\ todo # <<>> /\ Goes /\ job.op = "restore"
      /\ UNCHANGED <<bak, moved, made, reviewVars, historyVars>>
  BY DEF RestoreFile, Handles
<1>2. \/ UNCHANGED <<file, trash, manifest>>
      \/ /\ file[p] = 0 /\ file' = [file EXCEPT ![p] = trash[b][p]]
         /\ trash' = [trash EXCEPT ![b][p] = 0]
         /\ UNCHANGED manifest \/ manifest' = [manifest EXCEPT ![b] = NoManifest]
  BY DEF RestoreFile, Restorable
<1>3. p \in Paths /\ b \in Batches
  BY <1>1, ThisIsAPath DEF JobIsSound
<1> HIDE DEF p, b
<1>4. manifest' \in [Batches -> [written : BOOLEAN, items : Seq(Paths)]]
  <2>1. NoManifest \in [written : BOOLEAN, items : Seq(Paths)]
    BY EmptySeq DEF NoManifest
  <2>2. QED
    BY <1>2, <2>1 DEF StoreIsTyped
<1>5. /\ file' \in [Paths -> Versions \cup {0}]
      /\ trash' \in [Batches -> [Paths -> Versions \cup {0}]]
      /\ \A x \in Paths : file'[x] = file[x] \/ file[x] = 0
      /\ \A c \in Batches, x \in Paths : trash'[c][x] = trash[c][x] \/ trash[c][x] = file'[x]
  <2>1. CASE UNCHANGED <<file, trash>>
    BY <2>1 DEF StoreIsTyped
  <2>2. CASE /\ file[p] = 0 /\ file' = [file EXCEPT ![p] = trash[b][p]]
             /\ trash' = [trash EXCEPT ![b][p] = 0]
    <3>1. trash[b][p] \in Versions \cup {0}
      BY <1>3 DEF StoreIsTyped
    <3>2. /\ file' \in [Paths -> Versions \cup {0}]
          /\ file'[p] = trash[b][p]
          /\ \A x \in Paths : file'[x] = file[x] \/ x = p
      BY <1>3, <2>2, <3>1 DEF StoreIsTyped
    <3>3. /\ trash' \in [Batches -> [Paths -> Versions \cup {0}]]
          /\ \A c \in Batches, x \in Paths :
               trash'[c][x] = trash[c][x] \/ (c = b /\ x = p)
      BY <1>3, <2>2, TrashWith
    <3>4. QED
      BY <2>2, <3>2, <3>3
  <2>3. QED
    BY <1>2, <2>1, <2>2
<1>8. JobIsSound' /\ todo' \in Seq(Items)
  BY <1>1, GoesOn
<1>9. StoreIsTyped'
  BY <1>1, <1>4, <1>5, <1>8 DEF StoreIsTyped, reviewVars
<1>10. \A v \in 1 .. made : Kept(v) => Kept(v)'
  BY <1>1, <1>5, VersionsAreNumbers DEF Kept
<1>11. NothingLost'
  BY <1>1, <1>10, NothingLostStep DEF historyVars
<1>12. QED
  BY <1>8, <1>9, <1>11

LEMMA EndPreserves ==
  ASSUME FilesIInv, RestoreEnds \/ JobEnds \/ ProgramDies \/ CallEnds \/ CallAborts
  PROVE  FilesIInv'
<1> USE DEF FilesIInv
<1> DEFINE b == job.batch
<1>1. /\ job' = NoJob
      /\ UNCHANGED <<file, bak, made, reviewed, extra, discarded, buried, editedAway, destroyed>>
  BY DEF RestoreEnds, JobEnds, ProgramDies, CallEnds, CallAborts, historyVars, reviewVars
<1>2. /\ todo' = todo \/ todo' = <<>>
      /\ moved' = moved \/ moved' = <<>>
      /\ hashed' = hashed \/ hashed' = {}
  BY DEF RestoreEnds, JobEnds, ProgramDies, CallEnds, CallAborts, reviewVars
<1>3. \/ UNCHANGED <<trash, manifest>>
      \/ /\ b \in Batches /\ Remaining(b) = {}
         /\ trash' = [trash EXCEPT ![b] = [x \in Paths |-> 0]]
         /\ manifest' = [manifest EXCEPT ![b] = NoManifest]
  BY DEF RestoreEnds, JobEnds, ProgramDies, CallEnds, CallAborts, JobIsSound
<1> HIDE DEF b
<1>4. manifest' \in [Batches -> [written : BOOLEAN, items : Seq(Paths)]]
  <2>1. NoManifest \in [written : BOOLEAN, items : Seq(Paths)]
    BY EmptySeq DEF NoManifest
  <2>2. QED
    BY <1>3, <2>1 DEF StoreIsTyped
<1>5. trash' \in [Batches -> [Paths -> Versions \cup {0}]]
  <2> DEFINE row == [x \in Paths |-> 0]
  <2>1. row \in [Paths -> Versions \cup {0}]
    OBVIOUS
  <2> HIDE DEF row
  <2>2. UNCHANGED trash \/ trash' = [trash EXCEPT ![b] = row]
    BY <1>3 DEF row
  <2>3. QED
    BY <2>1, <2>2 DEF StoreIsTyped
<1>6. todo' \in Seq(Items) /\ moved' \in Seq(Paths) /\ hashed' \subseteq Fingerprints
  BY <1>2, EmptySeq DEF StoreIsTyped
<1>7. \A c \in Batches, x \in Paths :
        trash'[c][x] = trash[c][x] \/ trash[c][x] \in {0, ManifestText}
  BY <1>3 DEF StoreIsTyped, Remaining
<1>8. StoreIsTyped' /\ JobIsSound'
  BY <1>1, <1>4, <1>5, <1>6, NoJobIsSound DEF StoreIsTyped
<1>9. \A v \in 1 .. made : Kept(v) => Kept(v)'
  BY <1>1, <1>7, VersionsAreNumbers DEF Kept
<1>10. NothingLost'
  BY <1>1, <1>9, NothingLostStep
<1>11. QED
  BY <1>8, <1>10

LEMMA FilesStep ==
  ASSUME FilesIInv, [FilesNext]_filesVars
  PROVE  FilesIInv'
<1>1. CASE UNCHANGED filesVars
  <2>1. StoreIsTyped' /\ JobIsSound'
    BY <1>1 DEF filesVars, reviewVars, FilesIInv, StoreIsTyped, JobIsSound
  <2>2. UNCHANGED storeVars
    BY <1>1 DEF filesVars, historyVars, storeVars
  <2>3. QED
    BY <2>1, <2>2, StoreStays DEF FilesIInv
<1>2. CASE JobStep
  BY <1>2, MovePreserves, DeletePreserves, TrashPreserves, WritePreserves, SkipPreserves,
     ManifestPreserves, RestorePreserves, EndPreserves DEF JobStep
<1>3. QED
  BY <1>1, <1>2, EmployeePreserves, ReviewPreserves, JobStartsPreserves, EndPreserves
     DEF FilesNext

\* Whatever the employee does between two files of a job, and wherever the program
\* dies, the store satisfies its inductive invariant.
THEOREM FilesInvariant == FilesSpec => []FilesIInv
BY FilesInitIInv, FilesStep, PTL DEF FilesSpec

\* No operation of the program on a computer (local_tools.py, trash.py) makes a version
\* of a file vanish that nobody gave up or asked to be destroyed, but for the two ways
\* that the property names.
THEOREM NoVersionIsLost == FilesSpec => []NothingLost
<1>1. FilesIInv => NothingLost
  BY DEF FilesIInv
<1>2. QED
  BY <1>1, FilesInvariant, PTL
-----------------------------------------------------------------------------
\* Deletions that were recommended.  Reviews first.
LEMMA HashKeeps ==
  ASSUME DuplicatesIInv, NEW d \in Folders, Hash(d)
  PROVE  DuplicatesIInv'
<1> USE DEF DuplicatesIInv
<1>1. /\ hashed' = {Fingerprint(p) : p \in FilesIn(d)}
      /\ UNCHANGED <<reviewed, extra, shifted, job, todo, destroyed>>
  BY DEF Hash, historyVars
<1>2. \A p \in FilesIn(d) : Fingerprint(p)[1] = p
  BY DEF Fingerprint
<1>3. HashedOnce'
  BY <1>1, <1>2 DEF HashedOnce
<1>4. QED
  BY <1>1, <1>3 DEF ExtrasHaveTwins, HasTwin, DeleteIsOfExtras, DeletesOnlyDuplicates

\* What a review has hashed and offers for deletion has a twin that it keeps.
LEMMA KeptTwin ==
  ASSUME NEW keep \in SUBSET hashed, KeepsOneOfEach(keep), HashedOnce,
         NEW f \in hashed \ keep
  PROVE  \E g \in hashed : g[1] # f[1] /\ g[2] = f[2]
<1> DEFINE same == {k \in keep : k[2] = f[2]}
<1>1. Cardinality(same) = 1
  BY DEF KeepsOneOfEach
<1> HIDE DEF same
<1>2. same # {}
  BY <1>1, FS_EmptySet
<1>3. PICK g \in keep : g[2] = f[2]
  BY <1>2 DEF same
<1>4. QED
  BY <1>3 DEF HashedOnce

LEMMA RecommendKeeps ==
  ASSUME StoreIsTyped, DuplicatesIInv, Recommend
  PROVE  DuplicatesIInv'
<1> USE DEF DuplicatesIInv
<1>1. hashed' = {} /\ UNCHANGED <<job, todo, destroyed>>
  BY DEF Recommend, historyVars
<1>2. reviewed \subseteq reviewed' /\ extra \subseteq extra' /\ shifted \subseteq shifted'
  BY DEF Recommend
<1>3. \A f : HasTwin(f) => HasTwin(f)'
  BY <1>2 DEF HasTwin
<1>4. \A f \in extra' : HasTwin(f)'
  <2>1. CASE UNCHANGED extra
    BY <1>3, <2>1 DEF ExtrasHaveTwins
  <2>2. CASE \E keep \in SUBSET hashed :
               LET duplicates == {f[1] : f \in hashed \ keep} IN
               /\ KeepsOneOfEach(keep)
               /\ extra' = extra \cup {Fingerprint(p) : p \in duplicates}
               /\ shifted' = shifted \cup ({Fingerprint(p) : p \in duplicates} \ hashed)
               /\ hashed \subseteq reviewed'
    <3>1. PICK keep \in SUBSET hashed :
            /\ KeepsOneOfEach(keep)
            /\ extra' = extra \cup {Fingerprint(p) : p \in {f[1] : f \in hashed \ keep}}
            /\ shifted' = shifted \cup
                 ({Fingerprint(p) : p \in {f[1] : f \in hashed \ keep}} \ hashed)
            /\ hashed \subseteq reviewed'
      BY <2>2
    <3>2. ASSUME NEW f \in hashed \ keep
          PROVE  HasTwin(Fingerprint(f[1]))'
      <4>1. CASE Fingerprint(f[1]) \in hashed
        <5>1. Fingerprint(f[1]) = f
          BY <4>1 DEF HashedOnce, Fingerprint
        <5>2. \E g \in hashed : g[1] # f[1] /\ g[2] = f[2]
          BY <3>1, KeptTwin
        <5>3. \E g \in reviewed' : g[1] # f[1] /\ g[2] = f[2]
          BY <3>1, <5>2
        <5>4. \A g : g = f => HasTwin(g)'
          BY <5>3 DEF HasTwin
        <5>5. ASSUME NEW g, g = Fingerprint(f[1])'
              PROVE  HasTwin(g)'
          <6>1. Fingerprint(f[1])' = Fingerprint(f[1])
            BY DEF Recommend, Fingerprint
          <6>2. QED
            BY <5>1, <5>4, <5>5, <6>1
        <5>6. QED
          BY <5>5
      <4>2. CASE Fingerprint(f[1]) \notin hashed
        <5>1. Fingerprint(f[1]) \in shifted'
          BY <3>1, <4>2
        <5>2. Fingerprint(f[1])' = Fingerprint(f[1])
          BY DEF Recommend, Fingerprint
        <5>3. QED
          BY <5>1, <5>2 DEF HasTwin
      <4>3. QED
        BY <4>1, <4>2
    <3>3. \A f \in extra' : f \in extra \/ \E g \in hashed \ keep : f = Fingerprint(g[1])
      BY <3>1
    <3>4. QED
      BY <1>3, <3>2, <3>3 DEF ExtrasHaveTwins, Recommend, Fingerprint
  <2>3. QED
    BY <2>1, <2>2 DEF Recommend
<1>5. DeleteIsOfExtras'
  BY <1>1, <1>2 DEF DeleteIsOfExtras
<1>6. DeletesOnlyDuplicates'
  BY <1>1, <1>2 DEF DeletesOnlyDuplicates
<1>7. QED
  BY <1>1, <1>4, <1>5, <1>6 DEF HashedOnce, ExtrasHaveTwins

\* The other steps leave what reviews have recorded.
LEMMA DuplicatesStay ==
  ASSUME DuplicatesIInv, UNCHANGED <<reviewed, extra, shifted, destroyed>>,
         hashed' = hashed \/ hashed' = {},
         job'.op = "delete" => \A k \in DOMAIN todo' : todo'[k][2] = 0 \/ todo'[k] \in extra
  PROVE  DuplicatesIInv'
<1> USE DEF DuplicatesIInv
<1>1. HashedOnce'
  BY DEF HashedOnce
<1>2. ExtrasHaveTwins' /\ DeletesOnlyDuplicates'
  BY DEF ExtrasHaveTwins, HasTwin, DeletesOnlyDuplicates
<1>3. DeleteIsOfExtras'
  BY DEF DeleteIsOfExtras
<1>4. QED
  BY <1>1, <1>2, <1>3

LEMMA TailIsOfExtras ==
  ASSUME StoreIsTyped, DeleteIsOfExtras, todo # <<>>, Goes
  PROVE  job'.op = "delete" => \A k \in DOMAIN todo' : todo'[k][2] = 0 \/ todo'[k] \in extra
<1>1. \A k \in DOMAIN Tail(todo) : k + 1 \in DOMAIN todo /\ Tail(todo)[k] = todo[k + 1]
  BY ThisIsAPath
<1>2. QED
  BY <1>1 DEF Goes, DeleteIsOfExtras

LEMMA DeleteFileKeeps ==
  ASSUME StoreIsTyped, DuplicatesIInv, DeleteFile
  PROVE  DuplicatesIInv'
<1> USE DEF DuplicatesIInv
<1>1. /\ todo # <<>> /\ Goes /\ job.op = "delete" /\ Validated
      /\ UNCHANGED <<reviewed, extra, shifted, hashed>>
      /\ destroyed' = destroyed \cup {<<Fingerprint(This), Head(todo)[2]>>}
  BY DEF DeleteFile, Handles, reviewVars
<1>2. Head(todo) = todo[1] /\ 1 \in DOMAIN todo /\ todo \in Seq(Items)
  BY <1>1, ThisIsAPath DEF StoreIsTyped
<1>3. Head(todo) \in Items
  BY <1>2, ElementOfSeq, LenProperties
<1>4. Head(todo)[2] # 0 => Head(todo) \in extra /\ Head(todo) = Fingerprint(This)
  BY <1>1, <1>2, <1>3 DEF DeleteIsOfExtras, Validated, Fingerprint, This, Items
<1>5. Head(todo)[2] # 0 => HasTwin(Fingerprint(This))
  BY <1>4 DEF ExtrasHaveTwins
<1>6. DeletesOnlyDuplicates'
  <2> SUFFICES ASSUME NEW d \in destroyed', d[2] # 0
               PROVE  d[1] \in shifted' \/ \E f \in reviewed' : f[1] # d[1][1] /\ f[2] = d[1][2]
    BY DEF DeletesOnlyDuplicates
  <2>1. CASE d \in destroyed
    BY <1>1, <2>1 DEF DeletesOnlyDuplicates
  <2>2. CASE d = <<Fingerprint(This), Head(todo)[2]>>
    <3>1. HasTwin(d[1])
      BY <1>5, <2>2
    <3>2. QED
      BY <1>1, <3>1 DEF HasTwin
  <2>3. QED
    BY <1>1, <2>1, <2>2
<1>7. HashedOnce' /\ ExtrasHaveTwins' /\ DeleteIsOfExtras'
  BY <1>1, TailIsOfExtras DEF HashedOnce, ExtrasHaveTwins, HasTwin, DeleteIsOfExtras
<1>8. QED
  BY <1>6, <1>7

LEMMA StartIsOfExtras ==
  ASSUME StoreIsTyped, JobStarts
  PROVE  job'.op = "delete" => \A k \in DOMAIN todo' : todo'[k][2] = 0 \/ todo'[k] \in extra
<1>1. Unreviewed \subseteq Items /\ extra \subseteq Items
  BY DEF Unreviewed, Items, Fingerprints, StoreIsTyped
<1>2. ASSUME NEW items, items \subseteq Items, NEW list \in ListsOf(items)
      PROVE  \A k \in DOMAIN list : list[k] \in items
  BY <1>2, ListsAreSequences, ElementOfSeq, LenProperties
<1>3. CASE DeleteStarts
  <2>1. PICK items \in ListsOf(Unreviewed) : Starts("delete", "none", 0, items)
    BY <1>3 DEF DeleteStarts
  <2>2. \A k \in DOMAIN items : items[k][2] = 0
    BY <1>1, <1>2 DEF Unreviewed
  <2>3. QED
    BY <2>1, <2>2 DEF Starts
<1>4. CASE \E items \in ListsOf(extra) : Starts("delete", "none", 0, items)
  BY <1>1, <1>2, <1>4 DEF Starts
<1>5. CASE job'.op # "delete"
  BY <1>5
<1>6. QED
  BY <1>3, <1>4, <1>5
     DEF JobStarts, MoveOrCopyStarts, RecommendedStarts, RenameStarts, TrashStarts,
         WriteOrEditStarts, RestoreStarts, Starts

LEMMA DuplicatesStep ==
  ASSUME StoreIsTyped, DuplicatesIInv, [FilesNext]_filesVars
  PROVE  DuplicatesIInv'
<1>1. CASE UNCHANGED filesVars \/ EmployeeStep
  <2>1. UNCHANGED <<reviewed, extra, shifted, hashed, destroyed, job, todo>>
    BY <1>1 DEF filesVars, reviewVars, historyVars, EmployeeStep, EmployeeSaves,
                EmployeeCopies, EmployeeDeletes
  <2>2. QED
    BY <2>1, DuplicatesStay DEF DuplicatesIInv, DeleteIsOfExtras
<1>2. CASE JobStarts
  <2>1. UNCHANGED <<reviewed, extra, shifted, hashed, destroyed>>
    BY <1>2 DEF JobStarts, MoveOrCopyStarts, RecommendedStarts, RenameStarts, DeleteStarts,
                TrashStarts, WriteOrEditStarts, RestoreStarts, Starts, reviewVars, historyVars
  <2>2. QED
    BY <1>2, <2>1, StartIsOfExtras, DuplicatesStay
<1>3. CASE MoveFile \/ CopyFile \/ TrashFile \/ WriteFile \/ EditFile \/ SkipFile \/ RestoreFile
  <2>1. /\ todo # <<>> /\ Goes
        /\ UNCHANGED <<reviewed, extra, shifted, hashed, destroyed>>
    BY <1>3 DEF MoveFile, CopyFile, TrashFile, WriteFile, EditFile, SkipFile, RestoreFile,
                Handles, reviewVars, historyVars
  <2>2. QED
    BY <2>1, TailIsOfExtras, DuplicatesStay DEF DuplicatesIInv
<1>4. CASE WriteManifest \/ RestoreEnds \/ JobEnds \/ ProgramDies
  <2>1. /\ job' = NoJob /\ UNCHANGED <<reviewed, extra, shifted, destroyed>>
        /\ hashed' = hashed \/ hashed' = {}
    BY <1>4 DEF WriteManifest, RestoreEnds, JobEnds, ProgramDies, reviewVars, historyVars
  <2>2. job'.op # "delete"
    BY <2>1 DEF NoJob
  <2>3. QED
    BY <2>1, <2>2, DuplicatesStay
<1>5. QED
  BY <1>1, <1>2, <1>3, <1>4, HashKeeps, RecommendKeeps, DeleteFileKeeps DEF FilesNext, JobStep

LEMMA DuplicatesInitIInv == FilesInit => DuplicatesIInv
BY DEF FilesInit, NoJob, DuplicatesIInv, HashedOnce, ExtrasHaveTwins, DeleteIsOfExtras,
       DeletesOnlyDuplicates

\* A delete that a review of local_tools.py recommended destroys a copy and no more,
\* however long ago the review was and whatever the employee has done to the files,
\* but for what was saved while the review was at work.
THEOREM OnlyDuplicatesAreDeleted == FilesSpec => []DeletesOnlyDuplicates
<1>1. FilesIInv /\ DuplicatesIInv /\ [FilesNext]_filesVars => DuplicatesIInv'
  BY DuplicatesStep DEF FilesIInv
<1>2. DuplicatesIInv => DeletesOnlyDuplicates
  BY DEF DuplicatesIInv
<1>3. QED
  BY <1>1, <1>2, DuplicatesInitIInv, FilesInvariant, PTL DEF FilesSpec
-----------------------------------------------------------------------------
\* What is in the trash can be asked back.  Nobody but the trash makes a manifest.
LEMMA NoManifestIsMade ==
  ASSUME StoreIsTyped, \A p \in Paths : file[p] # ManifestText,
         \/ EmployeeStep \/ MoveFile \/ CopyFile \/ DeleteFile \/ WriteFile \/ EditFile
         \/ ServerMovesFile \/ ServerCopiesFile \/ ServerRenamesFile \/ ServerDeletesFile
         \/ ServerWritesFile \/ ServerEditsFile
         \/ UNCHANGED file
  PROVE  \A p \in Paths : file'[p] # ManifestText
<1> USE DEF StoreIsTyped
<1>1. made < MaxVersions => NewVersion # ManifestText
  BY DEF NewVersion, ManifestText
<1>2. 0 # ManifestText
  BY DEF ManifestText
<1>3. ASSUME NEW p, Save(p)
      PROVE  \A x \in Paths : file'[x] # ManifestText
  BY <1>1, <1>3 DEF Save
<1>4. CASE EmployeeStep
  <2>1. \A p \in Desks \X Names : p \in Paths
    BY DEF Paths
  <2>2. ASSUME NEW p \in Paths, EmployeeDeletes(p)
        PROVE  \A x \in Paths : file'[x] # ManifestText
    BY <1>2, <2>2 DEF EmployeeDeletes
  <2>3. ASSUME NEW p \in Paths, NEW q \in Paths, EmployeeCopies(p, q)
        PROVE  \A x \in Paths : file'[x] # ManifestText
    BY <2>3 DEF EmployeeCopies
  <2>4. QED
    BY <1>3, <1>4, <2>1, <2>2, <2>3 DEF EmployeeStep, EmployeeSaves
<1>5. CASE MoveFile \/ CopyFile \/ ServerMovesFile \/ ServerCopiesFile \/ ServerRenamesFile
  <2>1. This \in Paths
    BY <1>5, ThisIsAPath DEF MoveFile, CopyFile, ServerMovesFile, ServerCopiesFile,
                             ServerRenamesFile, Handles
  <2>2. CASE MoveFile \/ ServerMovesFile \/ ServerRenamesFile
    BY <1>2, <2>1, <2>2 DEF MoveFile, ServerMovesFile, ServerRenamesFile
  <2>3. CASE CopyFile
    BY <2>1, <2>3 DEF CopyFile
  <2>4. QED
    BY <1>5, <2>2, <2>3 DEF ServerCopiesFile
<1>6. CASE DeleteFile \/ ServerDeletesFile
  BY <1>2, <1>6 DEF DeleteFile, ServerDeletesFile
<1>7. CASE \/ WriteFile \/ EditFile \/ ServerWritesFile \/ ServerEditsFile
           \/ UNCHANGED file
  BY <1>3, <1>7 DEF WriteFile, EditFile, ServerWritesFile, ServerEditsFile
<1>8. QED
  BY <1>4, <1>5, <1>6, <1>7

\* A step that leaves the trash alone, and the job that fills it.
LEMMA ListedStays ==
  ASSUME ListedIInv, UNCHANGED <<trash, manifest, buried, orphaned>>,
         UNCHANGED <<job, moved>> \/ job.op # "trash",
         job'.op = "trash" /\ job' # job => ~manifest[job'.batch].written,
         buried = {} => \A p \in Paths : file'[p] # ManifestText
  PROVE  ListedIInv'
<1> USE DEF ListedIInv
<1>1. FilledIsUnlisted'
  BY DEF FilledIsUnlisted
<1>2. ManifestsBury'
  BY DEF ManifestsBury
<1>3. TrashIsListed'
  <2>1. CASE UNCHANGED <<job, moved>>
    BY <2>1 DEF TrashIsListed
  <2>2. CASE job.op # "trash"
    BY <2>2 DEF TrashIsListed
  <2>3. QED
    BY <2>1, <2>2
<1>4. QED
  BY <1>1, <1>2, <1>3

LEMMA TrashFileIsListed ==
  ASSUME StoreIsTyped, JobIsSound, ListedIInv, TrashFile
  PROVE  ListedIInv'
<1> USE DEF ListedIInv
<1> DEFINE p == This
           b == job.batch
<1>1. /\ todo # <<>> /\ job.op = "trash" /\ file' = [file EXCEPT ![p] = 0]
      /\ trash' = [trash EXCEPT ![b][p] = file[p]] /\ moved' = Append(moved, p)
      /\ UNCHANGED <<job, manifest, buried, orphaned>>
  BY DEF TrashFile, Handles, historyVars, Goes
<1>2. p \in Paths /\ b \in Batches
  BY <1>1, ThisIsAPath DEF JobIsSound
<1>3. file[p] \in Versions \cup {0}
  BY <1>2 DEF StoreIsTyped
<1>4. p \in Range(moved') /\ \A x \in Range(moved) : x \in Range(moved')
  <2>1. moved \in Seq(Paths)
    BY DEF StoreIsTyped
  <2>2. /\ Len(moved) \in Nat /\ DOMAIN moved = 1 .. Len(moved)
        /\ DOMAIN moved' = 1 .. (Len(moved) + 1)
        /\ moved'[Len(moved) + 1] = p
        /\ \A k \in 1 .. Len(moved) : moved'[k] = moved[k]
    BY <1>1, <1>2, <2>1, LenProperties, AppendProperties
  <2>3. QED
    BY <2>2 DEF Range
<1> HIDE DEF p, b
<1>5. \A c \in Batches, x \in Paths :
        trash'[c][x] = trash[c][x] \/ (c = b /\ x = p /\ trash'[c][x] = file[p])
  <2>1. \A c \in Batches, x \in Paths :
          trash'[c][x] = trash[c][x] \/ (c = b /\ x = p)
    BY <1>1, <1>2, <1>3, TrashWith
  <2>2. trash'[b][p] = file[p]
    BY <1>1, <1>2 DEF StoreIsTyped
  <2>3. QED
    BY <2>1, <2>2
<1>6. ManifestsBury'
  <2>1. \A x \in Paths : file'[x] \in {0, file[x]}
    BY <1>1 DEF StoreIsTyped
  <2>2. 0 # ManifestText
    BY DEF ManifestText
  <2>3. QED
    BY <1>1, <1>2, <1>5, <2>1, <2>2 DEF ManifestsBury
<1>7. TrashIsListed'
  BY <1>1, <1>4, <1>5 DEF TrashIsListed, b
<1>8. QED
  BY <1>1, <1>6, <1>7 DEF FilledIsUnlisted

\* Once a manifest has been written over a file, nothing is promised.
LEMMA BuriedIsListed ==
  ASSUME FilledIsUnlisted', buried' # {}
  PROVE  ListedIInv'
BY DEF ListedIInv, ManifestsBury, TrashIsListed

LEMMA ManifestLists ==
  ASSUME StoreIsTyped, JobIsSound, ListedIInv, WriteManifest
  PROVE  ListedIInv'
<1> USE DEF ListedIInv
<1> DEFINE b == job.batch
<1>1. /\ job.op = "trash" /\ job' = NoJob
      /\ manifest' = [manifest EXCEPT ![b] = [written |-> TRUE, items |-> moved]]
      /\ UNCHANGED <<file, orphaned>>
  BY DEF WriteManifest
<1>2. buried' # {} \/ UNCHANGED <<trash, buried>>
  BY DEF WriteManifest
<1>3. FilledIsUnlisted'
  BY <1>1 DEF FilledIsUnlisted, NoJob
<1>4. CASE buried' # {}
  BY <1>3, <1>4, BuriedIsListed
<1>5. CASE UNCHANGED <<trash, buried>>
  <2>1. b \in Batches
    BY <1>1 DEF JobIsSound
  <2> HIDE DEF b
  <2>2. /\ manifest'[b].written /\ manifest'[b].items = moved
        /\ \A c \in Batches \ {b} : manifest'[c] = manifest[c]
    BY <1>1, <2>1 DEF StoreIsTyped
  <2>3. ManifestsBury'
    BY <1>1, <1>5 DEF ManifestsBury
  <2>4. ~manifest[b].written
    BY <1>1 DEF FilledIsUnlisted, b
  <2>5. TrashIsListed'
    BY <1>1, <1>5, <2>2, <2>4 DEF TrashIsListed, b
  <2>6. QED
    BY <1>3, <2>3, <2>5
<1>6. QED
  BY <1>2, <1>4, <1>5

LEMMA RestoreFileLists ==
  ASSUME StoreIsTyped, JobIsSound, ListedIInv, RestoreFile
  PROVE  ListedIInv'
<1> USE DEF ListedIInv
<1> DEFINE p == This
           b == job.batch
<1>1. /\ todo # <<>> /\ job.op = "restore"
      /\ UNCHANGED <<job, moved, buried, orphaned>>
  BY DEF RestoreFile, Handles, historyVars, Goes
<1>2. \/ UNCHANGED <<file, trash, manifest>>
      \/ /\ file' = [file EXCEPT ![p] = trash[b][p]]
         /\ trash' = [trash EXCEPT ![b][p] = 0]
         /\ trash[b][p] # ManifestText => UNCHANGED manifest
  BY DEF RestoreFile
<1>3. p \in Paths /\ b \in Batches
  BY <1>1, ThisIsAPath DEF JobIsSound
<1> HIDE DEF p, b
<1>4. FilledIsUnlisted'
  BY <1>1 DEF FilledIsUnlisted
<1>5. CASE buried # {}
  BY <1>1, <1>4, <1>5, BuriedIsListed
<1>6. CASE UNCHANGED <<file, trash, manifest>>
  BY <1>1, <1>6, ListedStays DEF ManifestsBury
<1>7. CASE /\ buried = {} /\ file' = [file EXCEPT ![p] = trash[b][p]]
           /\ trash' = [trash EXCEPT ![b][p] = 0]
           /\ trash[b][p] # ManifestText => UNCHANGED manifest
  <2>1. trash[b][p] # ManifestText /\ 0 # ManifestText
    BY <1>3, <1>7 DEF ManifestsBury, ManifestText
  <2>2. \A c \in Batches, x \in Paths :
          trash'[c][x] = trash[c][x] \/ trash'[c][x] = 0
    <3>1. trash'[b][p] = 0
      BY <1>3, <1>7 DEF StoreIsTyped
    <3>2. \A c \in Batches, x \in Paths :
            trash'[c][x] = trash[c][x] \/ (c = b /\ x = p)
      BY <1>3, <1>7, TrashWith
    <3>3. QED
      BY <3>1, <3>2
  <2>3. \A x \in Paths : file'[x] = file[x] \/ file'[x] = trash[b][p]
    BY <1>7 DEF StoreIsTyped
  <2>4. ManifestsBury'
    BY <1>7, <2>1, <2>2, <2>3 DEF ManifestsBury
  <2>5. TrashIsListed'
    BY <1>1, <1>7, <2>1, <2>2 DEF TrashIsListed
  <2>6. QED
    BY <1>4, <2>4, <2>5
<1>8. QED
  BY <1>2, <1>5, <1>6, <1>7

LEMMA EndLists ==
  ASSUME StoreIsTyped, JobIsSound, ListedIInv, RestoreEnds \/ JobEnds \/ ProgramDies
  PROVE  ListedIInv'
<1> USE DEF ListedIInv
<1> DEFINE b == job.batch
<1>1. job' = NoJob /\ UNCHANGED <<file, buried>>
  BY DEF RestoreEnds, JobEnds, ProgramDies, historyVars
<1>2. FilledIsUnlisted'
  BY <1>1 DEF FilledIsUnlisted, NoJob
<1>3. CASE job.op = "trash"
  <2>1. orphaned' = orphaned \cup {b} /\ UNCHANGED <<trash, manifest>>
    BY <1>3 DEF RestoreEnds, JobEnds, ProgramDies
  <2>2. QED
    BY <1>1, <1>2, <1>3, <2>1 DEF ManifestsBury, TrashIsListed
<1>4. CASE job.op # "trash" /\ UNCHANGED <<trash, manifest>>
  <2>1. UNCHANGED orphaned
    BY <1>4 DEF RestoreEnds, JobEnds, ProgramDies, historyVars
  <2>2. QED
    BY <1>1, <1>2, <1>4, <2>1 DEF ManifestsBury, TrashIsListed
<1>5. CASE RestoreEnds /\ Remaining(b) = {}
  <2>1. /\ b \in Batches /\ job.op = "restore" /\ UNCHANGED orphaned
        /\ trash' = [trash EXCEPT ![b] = [x \in Paths |-> 0]]
        /\ manifest' = [manifest EXCEPT ![b] = NoManifest]
    BY <1>5 DEF RestoreEnds, JobIsSound, historyVars
  <2> HIDE DEF b
  <2>2. /\ \A x \in Paths : trash'[b][x] = 0
        /\ \A c \in Batches \ {b} : trash'[c] = trash[c] /\ manifest'[c] = manifest[c]
    BY <2>1 DEF StoreIsTyped
  <2>3. 0 # ManifestText
    BY DEF ManifestText
  <2>4. ManifestsBury'
    BY <1>1, <2>2, <2>3 DEF ManifestsBury
  <2>5. TrashIsListed'
    BY <1>1, <2>1, <2>2 DEF TrashIsListed
  <2>6. QED
    BY <1>2, <2>4, <2>5
<1>6. QED
  BY <1>3, <1>4, <1>5 DEF RestoreEnds, JobEnds, ProgramDies

LEMMA ListedStep ==
  ASSUME StoreIsTyped, JobIsSound, ListedIInv, [FilesNext]_filesVars
  PROVE  ListedIInv'
<1> USE DEF ListedIInv
<1>1. CASE \/ EmployeeStep \/ MoveFile \/ CopyFile \/ DeleteFile \/ WriteFile \/ EditFile
           \/ SkipFile \/ UNCHANGED filesVars \/ Recommend \/ \E d \in Folders : Hash(d)
  <2>1. UNCHANGED <<trash, manifest, buried, orphaned, job, moved>>
    BY <1>1 DEF EmployeeStep, EmployeeSaves, EmployeeCopies, EmployeeDeletes, MoveFile, CopyFile,
                DeleteFile, WriteFile, EditFile, SkipFile, Recommend, Hash, Goes, filesVars,
                historyVars
  <2>2. \/ EmployeeStep \/ MoveFile \/ CopyFile \/ DeleteFile \/ WriteFile \/ EditFile
        \/ UNCHANGED file
    BY <1>1 DEF SkipFile, Recommend, Hash, filesVars
  <2>3. buried = {} => \A p \in Paths : file'[p] # ManifestText
    BY <2>2, NoManifestIsMade DEF ManifestsBury
  <2>4. QED
    BY <2>1, <2>3, ListedStays
<1>2. CASE JobStarts
  <2>1. job = NoJob /\ UNCHANGED <<file, trash, manifest, buried, orphaned>>
    BY <1>2 DEF JobStarts, MoveOrCopyStarts, RecommendedStarts, RenameStarts, DeleteStarts,
                TrashStarts, WriteOrEditStarts, RestoreStarts, Starts, historyVars
  <2>2. job'.op = "trash" => ~manifest[job'.batch].written
    <3>1. CASE TrashStarts
      BY <3>1 DEF TrashStarts, Starts, Unused
    <3>2. CASE job'.op # "trash"
      BY <3>2
    <3>3. QED
      BY <1>2, <3>1, <3>2 DEF JobStarts, MoveOrCopyStarts, RecommendedStarts, RenameStarts,
                              DeleteStarts, WriteOrEditStarts, RestoreStarts, Starts
  <2>3. QED
    BY <2>1, <2>2, ListedStays DEF NoJob, ManifestsBury
<1>3. QED
  BY <1>1, <1>2, TrashFileIsListed, ManifestLists, RestoreFileLists, EndLists
     DEF FilesNext, JobStep

LEMMA ListedInitIInv == FilesInit => ListedIInv
BY DEF FilesInit, NoJob, ListedIInv, FilledIsUnlisted, ManifestsBury, ManifestText,
       TrashIsListed

\* What trash.py has put into a trash folder is listed in its manifest, or the program
\* died before it wrote one, or the manifest itself has been taken for a file.
THEOREM TrashCanBeAskedBack == FilesSpec => []TrashIsListed
<1>1. FilesIInv /\ ListedIInv /\ [FilesNext]_filesVars => ListedIInv'
  BY ListedStep DEF FilesIInv
<1>2. ListedIInv => TrashIsListed
  BY DEF ListedIInv
<1>3. QED
  BY <1>1, <1>2, ListedInitIInv, FilesInvariant, PTL DEF FilesSpec
-----------------------------------------------------------------------------
\* The types that StoreIsTyped leaves out.
LEMMA BooksInit == FilesInit => BooksAreTyped
<1> SUFFICES ASSUME FilesInit
             PROVE  BooksAreTyped
  OBVIOUS
<1>1. job \in [op : Ops \cup {"none"}, to : Folders \cup Names \cup {"none"},
               batch : Batches \cup {0}]
  BY DEF FilesInit, NoJob
<1>2. QED
  BY <1>1 DEF FilesInit, BooksAreTyped

LEMMA StartIsBooked ==
  ASSUME BooksAreTyped, NEW op \in Ops, NEW to \in Folders \cup Names \cup {"none"},
         NEW b \in Batches \cup {0}, NEW items, Starts(op, to, b, items)
  PROVE  BooksAreTyped'
<1>1. job' \in [op : Ops \cup {"none"}, to : Folders \cup Names \cup {"none"},
                batch : Batches \cup {0}]
  BY DEF Starts
<1>2. jobs' \in 0 .. MaxJobs
  BY DEF Starts, BooksAreTyped
<1>3. QED
  BY <1>1, <1>2 DEF Starts, BooksAreTyped, reviewVars, historyVars

LEMMA JobStartIsBooked ==
  ASSUME BooksAreTyped, JobStarts
  PROVE  BooksAreTyped'
<1> USE StartIsBooked DEF Ops
<1>1. CASE MoveOrCopyStarts
  BY <1>1 DEF MoveOrCopyStarts
<1>2. CASE RecommendedStarts
  BY <1>2 DEF RecommendedStarts
<1>3. CASE RenameStarts
  BY <1>3 DEF RenameStarts
<1>4. CASE DeleteStarts
  BY <1>4 DEF DeleteStarts
<1>5. CASE TrashStarts
  BY <1>5 DEF TrashStarts
<1>6. CASE WriteOrEditStarts
  BY <1>6 DEF WriteOrEditStarts
<1>7. CASE RestoreStarts
  BY <1>7 DEF RestoreStarts
<1>8. QED
  BY <1>1, <1>2, <1>3, <1>4, <1>5, <1>6, <1>7 DEF JobStarts

LEMMA ReviewIsBooked ==
  ASSUME BooksAreTyped, (\E d \in Folders : Hash(d)) \/ Recommend
  PROVE  BooksAreTyped'
<1>1. /\ UNCHANGED job /\ UNCHANGED historyVars
      /\ jobs' = jobs \/ (jobs < MaxJobs /\ jobs' = jobs + 1)
  BY DEF Hash, Recommend
<1>2. jobs' \in 0 .. MaxJobs
  BY <1>1 DEF BooksAreTyped
<1>3. extra' \subseteq reviewed' /\ shifted' \subseteq extra'
  BY DEF Hash, Recommend, BooksAreTyped
<1>4. QED
  BY <1>1, <1>2, <1>3 DEF BooksAreTyped, historyVars

\* What was at a path, destroyed, overwritten or given up, was a version.
LEMMA HistoryIsBooked ==
  ASSUME BooksAreTyped, UNCHANGED <<reviewed, extra, shifted, jobs>>,
         job' = job \/ job' = NoJob,
         discarded' \subseteq discarded \cup Versions,
         destroyed' \subseteq destroyed \cup (Items \X (Versions \cup {0})),
         buried' \subseteq buried \cup Versions,
         editedAway' \subseteq editedAway \cup Versions,
         orphaned' \subseteq orphaned \cup Batches
  PROVE  BooksAreTyped'
<1>1. job' \in [op : Ops \cup {"none"}, to : Folders \cup Names \cup {"none"},
                batch : Batches \cup {0}]
  BY DEF BooksAreTyped, NoJob
<1>2. QED
  BY <1>1 DEF BooksAreTyped

LEMMA EmployeeIsBooked ==
  ASSUME StoreIsTyped, BooksAreTyped, EmployeeStep
  PROVE  BooksAreTyped'
<1>1. \A p \in Desks \X Names : file[p] \in Versions \cup {0}
  BY DEF StoreIsTyped, Paths
<1>2. /\ UNCHANGED <<reviewed, extra, shifted, jobs, job, destroyed, buried, editedAway,
                     orphaned>>
      /\ discarded' \subseteq discarded \cup Versions
  BY <1>1 DEF EmployeeStep, EmployeeSaves, EmployeeCopies, EmployeeDeletes, Discards,
              reviewVars, historyVars
<1>3. QED
  BY <1>2, HistoryIsBooked

LEMMA DeletionIsBooked ==
  ASSUME StoreIsTyped, BooksAreTyped, DeleteFile \/ ServerDeletesFile
  PROVE  BooksAreTyped'
<1>1. /\ todo # <<>> /\ Goes
      /\ UNCHANGED <<reviewVars, jobs, discarded, buried, editedAway, orphaned>>
      /\ \E v \in {0, Head(todo)[2]} :
           destroyed' = destroyed \cup {<<Fingerprint(This), v>>}
  BY DEF DeleteFile, ServerDeletesFile, Handles
<1>2. Head(todo) \in Items /\ This \in Paths
  BY <1>1, ThisIsAPath, ElementOfSeq, LenProperties DEF StoreIsTyped
<1>3. Fingerprint(This) \in Items /\ Head(todo)[2] \in Versions \cup {0}
  BY <1>2 DEF StoreIsTyped, Fingerprint, Items
<1>4. destroyed' \subseteq destroyed \cup (Items \X (Versions \cup {0}))
  BY <1>1, <1>3
<1>5. QED
  BY <1>1, <1>4, HistoryIsBooked DEF reviewVars, Goes

LEMMA HandlingIsBooked ==
  ASSUME StoreIsTyped, BooksAreTyped,
         \/ MoveFile \/ CopyFile \/ TrashFile \/ WriteFile \/ EditFile \/ SkipFile
         \/ RestoreFile
         \/ ServerMovesFile \/ ServerCopiesFile \/ ServerRenamesFile \/ ServerWritesFile
         \/ ServerEditsFile \/ ServerSkipsFile
  PROVE  BooksAreTyped'
<1>1. /\ todo # <<>> /\ Goes
      /\ UNCHANGED <<reviewVars, jobs, discarded, destroyed, buried, orphaned>>
      /\ editedAway' \subseteq editedAway \cup {file[This]} /\ (editedAway' = editedAway
           \/ file[This] # 0)
  BY DEF MoveFile, CopyFile, TrashFile, WriteFile, EditFile, SkipFile, RestoreFile,
         ServerMovesFile, ServerCopiesFile, ServerRenamesFile, ServerWritesFile,
         ServerEditsFile, ServerSkipsFile, Handles, historyVars
<1>2. file[This] \in Versions \cup {0}
  BY <1>1, ThisIsAPath DEF StoreIsTyped
<1>3. QED
  BY <1>1, <1>2, HistoryIsBooked DEF reviewVars, Goes

\* A set of positions that is not empty has a first one.
LEMMA FirstExists ==
  ASSUME NEW T \in SUBSET Nat, T # {}
  PROVE  \E k \in T : \A l \in T : k <= l
<1> DEFINE R == OpToRel(<, Nat)
<1>1. \A x, y \in Nat : <<x, y>> \in R <=> x < y
  BY DEF OpToRel
<1>2. IsWellFoundedOn(R, Nat)
  BY NatLessThanWellFounded
<1> HIDE DEF R
<1>3. PICK k \in T : \A l \in T : ~(<<l, k>> \in R)
  BY <1>2, WFMin
<1>4. \A l \in T : ~(l < k)
  BY <1>1, <1>3
<1>5. QED
  BY <1>4

\* The file of a trash folder that its manifest is written over.
LEMMA FirstNamedIsMoved ==
  ASSUME moved \in Seq(Paths), Named(moved) # {}
  PROVE  \E k \in DOMAIN moved : FirstNamed(moved) = moved[k]
<1>1. DOMAIN moved \subseteq Nat
  BY LenProperties
<1>2. Named(moved) \in SUBSET Nat /\ Named(moved) \subseteq DOMAIN moved
  BY <1>1 DEF Named
<1>3. \E k \in Named(moved) : \A l \in Named(moved) : k <= l
  BY <1>2, FirstExists
<1>4. (CHOOSE k \in Named(moved) : \A l \in Named(moved) : k <= l) \in Named(moved)
  BY <1>3
<1>5. QED
  BY <1>2, <1>4 DEF FirstNamed

LEMMA ManifestIsBooked ==
  ASSUME StoreIsTyped, JobIsSound, MovedIsInTrash, BooksAreTyped, WriteManifest
  PROVE  BooksAreTyped'
<1> DEFINE b == job.batch
           p == FirstNamed(moved)
<1>1. /\ job.op = "trash" /\ job' = NoJob
      /\ UNCHANGED <<reviewVars, jobs, discarded, destroyed, editedAway, orphaned>>
  BY DEF WriteManifest
<1>2. buried' = buried \/ (Named(moved) # {} /\ buried' = buried \cup {trash[b][p]})
  BY DEF WriteManifest
<1>3. b \in Batches /\ moved \in Seq(Paths)
  BY <1>1 DEF JobIsSound, StoreIsTyped
<1>4. ASSUME Named(moved) # {}
      PROVE  trash[b][p] \in Versions
  <2>1. PICK k \in DOMAIN moved : p = moved[k]
    BY <1>3, <1>4, FirstNamedIsMoved
  <2>2. trash[b][p] # 0
    BY <1>1, <2>1 DEF MovedIsInTrash
  <2>3. p \in Paths
    BY <1>3, <2>1, ElementOfSeq, LenProperties
  <2>4. QED
    BY <1>3, <2>2, <2>3 DEF StoreIsTyped
<1>5. buried' \subseteq buried \cup Versions
  BY <1>2, <1>4
<1>6. QED
  BY <1>1, <1>5, HistoryIsBooked DEF reviewVars

LEMMA EndIsBooked ==
  ASSUME JobIsSound, BooksAreTyped,
         RestoreEnds \/ JobEnds \/ ProgramDies \/ CallEnds \/ CallAborts
  PROVE  BooksAreTyped'
<1>1. /\ job' = NoJob
      /\ UNCHANGED <<reviewed, extra, shifted, jobs, discarded, destroyed, editedAway, buried>>
  BY DEF RestoreEnds, JobEnds, ProgramDies, CallEnds, CallAborts, reviewVars, historyVars
<1>2. orphaned' \subseteq orphaned \cup Batches
  BY DEF RestoreEnds, JobEnds, ProgramDies, CallEnds, CallAborts, historyVars, JobIsSound
<1>3. QED
  BY <1>1, <1>2, HistoryIsBooked

LEMMA BooksStep ==
  ASSUME StoreIsTyped, JobIsSound, BooksIInv, [FilesNext]_filesVars
  PROVE  BooksAreTyped'
<1> USE DEF BooksIInv
<1>1. CASE UNCHANGED filesVars
  BY <1>1 DEF filesVars, reviewVars, BooksAreTyped
<1>2. QED
  BY <1>1, EmployeeIsBooked, ReviewIsBooked, JobStartIsBooked, DeletionIsBooked,
     HandlingIsBooked, ManifestIsBooked, EndIsBooked DEF FilesNext, JobStep

\* What has been moved stays moved until the job is at its end.
LEMMA MovedStays ==
  ASSUME MovedIsInTrash,
         \/ job'.op # "trash"
         \/ moved' = <<>>
         \/ UNCHANGED <<job, moved, trash>>
  PROVE  MovedIsInTrash'
BY DEF MovedIsInTrash

LEMMA TrashFileMoves ==
  ASSUME StoreIsTyped, JobIsSound, MovedIsInTrash, TrashFile
  PROVE  MovedIsInTrash'
<1> DEFINE p == This
           b == job.batch
<1>1. /\ todo # <<>> /\ job.op = "trash" /\ UNCHANGED job /\ file[p] # 0
      /\ trash' = [trash EXCEPT ![b][p] = file[p]] /\ moved' = Append(moved, p)
  BY DEF TrashFile, Handles, Goes
<1>2. p \in Paths /\ b \in Batches
  BY <1>1, ThisIsAPath DEF JobIsSound
<1>3. file[p] \in Versions \cup {0} /\ moved \in Seq(Paths)
  BY <1>2 DEF StoreIsTyped
<1>4. /\ Len(moved) \in Nat /\ DOMAIN moved = 1 .. Len(moved)
      /\ DOMAIN moved' = 1 .. (Len(moved) + 1)
      /\ moved'[Len(moved) + 1] = p
      /\ \A k \in 1 .. Len(moved) : moved'[k] = moved[k] /\ moved[k] \in Paths
  BY <1>1, <1>2, <1>3, LenProperties, AppendProperties, ElementOfSeq
<1>5. /\ trash'[b][p] = file[p]
      /\ \A x \in Paths : trash'[b][x] = trash[b][x] \/ x = p
  BY <1>1, <1>2 DEF StoreIsTyped
<1> HIDE DEF p
<1>6. \A k \in DOMAIN moved' : trash'[b][moved'[k]] # 0
  BY <1>1, <1>4, <1>5 DEF MovedIsInTrash
<1>7. QED
  BY <1>1, <1>6 DEF MovedIsInTrash

LEMMA MovedStep ==
  ASSUME StoreIsTyped, JobIsSound, MovedIsInTrash, [FilesNext]_filesVars
  PROVE  MovedIsInTrash'
<1>1. CASE \/ EmployeeStep \/ Recommend \/ \E d \in Folders : Hash(d)
           \/ UNCHANGED filesVars \/ SkipFile
  <2>1. UNCHANGED <<job, moved, trash>>
    BY <1>1 DEF EmployeeStep, EmployeeSaves, EmployeeCopies, EmployeeDeletes, Recommend, Hash,
                filesVars, SkipFile, Goes
  <2>2. QED
    BY <2>1, MovedStays
<1>2. CASE JobStarts
  <2>1. moved' = <<>>
    BY <1>2 DEF JobStarts, MoveOrCopyStarts, RecommendedStarts, RenameStarts, DeleteStarts,
                TrashStarts, WriteOrEditStarts, RestoreStarts, Starts
  <2>2. QED
    BY <2>1, MovedStays
<1>3. CASE MoveFile \/ CopyFile \/ DeleteFile \/ WriteFile \/ EditFile \/ RestoreFile
  <2>1. job'.op # "trash"
    BY <1>3 DEF MoveFile, CopyFile, DeleteFile, WriteFile, EditFile, RestoreFile, Handles, Goes
  <2>2. QED
    BY <2>1, MovedStays
<1>4. CASE WriteManifest \/ RestoreEnds \/ JobEnds \/ ProgramDies
  <2>1. job' = NoJob
    BY <1>4 DEF WriteManifest, RestoreEnds, JobEnds, ProgramDies
  <2>2. QED
    BY <2>1, MovedStays DEF NoJob
<1>5. QED
  BY <1>1, <1>2, <1>3, <1>4, TrashFileMoves DEF FilesNext, JobStep

\* The two halves of the type invariant.
LEMMA FilesTypes == StoreIsTyped /\ BooksAreTyped => FilesTypeOK
BY DEF StoreIsTyped, BooksAreTyped, FilesTypeOK

LEMMA BooksInitIInv == FilesInit => BooksIInv
BY BooksInit DEF BooksIInv, FilesInit, MovedIsInTrash, NoJob

LEMMA BooksInvariant == FilesSpec => []BooksIInv
<1>1. FilesIInv /\ BooksIInv /\ [FilesNext]_filesVars => BooksIInv'
  BY BooksStep, MovedStep DEF BooksIInv, FilesIInv
<1>2. QED
  BY <1>1, BooksInitIInv, FilesInvariant, PTL DEF FilesSpec

\* The program on a computer (local_tools.py, trash.py) keeps every path, manifest and
\* fingerprint what it is supposed to be, its histories included.
THEOREM FilesWellTyped == FilesSpec => []FilesTypeOK
<1>1. FilesIInv /\ BooksIInv => FilesTypeOK
  BY FilesTypes DEF FilesIInv, BooksIInv
<1>2. QED
  BY <1>1, FilesInvariant, BooksInvariant, PTL
-----------------------------------------------------------------------------
\* The server's own file tools.
ServerStarts ==
  \/ ServerMoveOrCopyStarts \/ ServerRenameStarts
  \/ ServerDeleteStarts \/ ServerWriteOrEditStarts

\* What they are called for, and the files, of which no review has told anything.
LEMMA ServerCall ==
  ASSUME ServerStarts
  PROVE  \E op \in {"move", "copy", "rename", "delete", "write", "edit"},
            to \in Folders \cup Names \cup {"none"}, items \in Seq(Unreviewed) :
           /\ Starts(op, to, 0, items)
           /\ op \in {"move", "copy"} => to \in Folders
           /\ op = "rename" => to \in Names
<1>1. Unreviewed \subseteq Items
  BY DEF Unreviewed, Items
<1>2. \A items \in ListsOf(Unreviewed) : items \in Seq(Unreviewed)
  BY <1>1, ListsAreSequences
<1>3. \A f \in Unreviewed : <<f>> \in Seq(Unreviewed)
  OBVIOUS
<1>4. CASE ServerMoveOrCopyStarts
  BY <1>2, <1>4 DEF ServerMoveOrCopyStarts, CallStarts
<1>5. CASE ServerRenameStarts
  BY <1>3, <1>5 DEF ServerRenameStarts, CallStarts
<1>6. CASE ServerDeleteStarts
  BY <1>2, <1>6 DEF ServerDeleteStarts, CallStarts
<1>7. CASE ServerWriteOrEditStarts
  BY <1>3, <1>7 DEF ServerWriteOrEditStarts, CallStarts
<1>8. QED
  BY <1>4, <1>5, <1>6, <1>7 DEF ServerStarts

LEMMA ServerStartPreserves ==
  ASSUME ServerFilesIInv, ServerStarts
  PROVE  ServerFilesIInv'
<1> USE DEF ServerFilesIInv
<1>1. PICK op \in {"move", "copy", "rename", "delete", "write", "edit"},
           to \in Folders \cup Names \cup {"none"}, items \in Seq(Unreviewed) :
        /\ Starts(op, to, 0, items)
        /\ op \in {"move", "copy"} => to \in Folders
        /\ op = "rename" => to \in Names
  BY ServerCall
<1>2. /\ items \in Seq(Items)
      /\ \A k \in DOMAIN items : items[k][2] = 0
  <2>1. \A k \in DOMAIN items : items[k] \in Unreviewed
    BY ElementOfSeq, LenProperties
  <2>2. Unreviewed \subseteq Items
    BY DEF Unreviewed, Items
  <2>3. QED
    BY <2>1, <2>2 DEF Unreviewed
<1>3. FilesIInv'
  BY <1>1, <1>2, StartPreserves
<1>4. BooksAreTyped'
  <2>1. op \in Ops /\ 0 \in Batches \cup {0}
    BY DEF Ops
  <2>2. QED
    BY <1>1, <2>1, StartIsBooked DEF BooksIInv
<1>5. /\ job'.op = op /\ todo' = items /\ moved' = <<>> /\ job = NoJob
      /\ UNCHANGED <<reviewed, extra, shifted, hashed, destroyed, trash, manifest, buried,
                     orphaned, file>>
  BY <1>1 DEF Starts, reviewVars, historyVars
<1>6. BooksIInv' /\ NoTrashIsFilled'
  BY <1>1, <1>4, <1>5, MovedStays DEF BooksIInv, NoTrashIsFilled
<1>7. DuplicatesIInv'
  BY <1>2, <1>5, DuplicatesStay
<1>8. ListedIInv'
  BY <1>1, <1>5, ListedStays DEF NoJob, ListedIInv, ManifestsBury
<1>9. QED
  BY <1>3, <1>6, <1>7, <1>8

LEMMA ServerDeletePreserves ==
  ASSUME ServerFilesIInv, ServerDeletesFile
  PROVE  DuplicatesIInv'
<1> USE DEF ServerFilesIInv, DuplicatesIInv
<1>1. /\ todo # <<>> /\ Goes /\ UNCHANGED <<reviewed, extra, shifted, hashed>>
      /\ destroyed' = destroyed \cup {<<Fingerprint(This), 0>>}
  BY DEF ServerDeletesFile, Handles, reviewVars
<1>2. DeletesOnlyDuplicates'
  BY <1>1 DEF DeletesOnlyDuplicates
<1>3. HashedOnce' /\ ExtrasHaveTwins' /\ DeleteIsOfExtras'
  BY <1>1, TailIsOfExtras DEF HashedOnce, ExtrasHaveTwins, HasTwin, DeleteIsOfExtras, FilesIInv
<1>4. QED
  BY <1>2, <1>3

LEMMA ServerStepPreserves ==
  ASSUME ServerFilesIInv,
         \/ ServerMovesFile \/ ServerCopiesFile \/ ServerRenamesFile \/ ServerDeletesFile
         \/ ServerWritesFile \/ ServerEditsFile \/ ServerSkipsFile
  PROVE  ServerFilesIInv'
<1> USE DEF ServerFilesIInv
<1>1. FilesIInv'
  BY MovePreserves, DeletePreserves, WritePreserves, SkipPreserves DEF ServerCopiesFile
<1>2. BooksAreTyped'
  BY DeletionIsBooked, HandlingIsBooked DEF FilesIInv, BooksIInv
<1>3. /\ todo # <<>> /\ Goes
      /\ UNCHANGED <<reviewed, extra, shifted, hashed, trash, manifest, moved, buried,
                     orphaned>>
  BY DEF ServerMovesFile, ServerCopiesFile, CopyFile, ServerRenamesFile, ServerDeletesFile,
         ServerWritesFile, ServerEditsFile, ServerSkipsFile, Handles, reviewVars, historyVars
<1>4. BooksIInv' /\ NoTrashIsFilled'
  BY <1>2, <1>3, MovedStays DEF BooksIInv, NoTrashIsFilled, Goes
<1>5. DuplicatesIInv'
  <2>1. CASE ServerDeletesFile
    BY <2>1, ServerDeletePreserves
  <2>2. CASE UNCHANGED destroyed
    BY <1>3, <2>2, TailIsOfExtras, DuplicatesStay DEF FilesIInv, DuplicatesIInv
  <2>3. QED
    BY <2>1, <2>2 DEF ServerMovesFile, ServerCopiesFile, CopyFile, ServerRenamesFile,
                      ServerWritesFile, ServerEditsFile, ServerSkipsFile, historyVars
<1>6. ListedIInv'
  <2>1. buried = {} => \A p \in Paths : file'[p] # ManifestText
    <3>1. CASE ServerSkipsFile
      BY <3>1 DEF ServerSkipsFile, ListedIInv, ManifestsBury
    <3>2. QED
      BY <3>1, NoManifestIsMade DEF FilesIInv, ListedIInv, ManifestsBury
  <2>2. QED
    BY <1>3, <2>1, ListedStays DEF Goes
<1>7. QED
  BY <1>1, <1>4, <1>5, <1>6

LEMMA ServerEndPreserves ==
  ASSUME ServerFilesIInv, CallEnds \/ CallAborts
  PROVE  ServerFilesIInv'
<1> USE DEF ServerFilesIInv
<1>1. FilesIInv'
  BY EndPreserves
<1>2. BooksAreTyped'
  BY EndIsBooked DEF FilesIInv, BooksIInv
<1>3. /\ job' = NoJob
      /\ UNCHANGED <<reviewed, extra, shifted, hashed, destroyed, trash, manifest, buried,
                     orphaned, file>>
  BY DEF CallEnds, CallAborts, reviewVars, historyVars
<1>4. BooksIInv' /\ NoTrashIsFilled'
  BY <1>2, <1>3, MovedStays DEF BooksIInv, NoTrashIsFilled, NoJob
<1>5. DuplicatesIInv'
  BY <1>3, DuplicatesStay DEF NoJob
<1>6. ListedIInv'
  BY <1>3, ListedStays DEF NoTrashIsFilled, NoJob, ListedIInv, ManifestsBury
<1>7. QED
  BY <1>1, <1>4, <1>5, <1>6

\* Those who work on the server's files outside of its tools.
LEMMA OthersPreserve ==
  ASSUME ServerFilesIInv, EmployeeStep \/ UNCHANGED filesVars
  PROVE  ServerFilesIInv'
<1> USE DEF ServerFilesIInv
<1>1. [FilesNext]_filesVars
  BY DEF FilesNext
<1>2. FilesIInv' /\ BooksIInv'
  <2>1. FilesIInv'
    BY <1>1, FilesStep
  <2>2. QED
    BY <1>1, <2>1, BooksStep, MovedStep DEF FilesIInv, BooksIInv
<1>3. DuplicatesIInv' /\ ListedIInv'
  BY <1>1, DuplicatesStep, ListedStep DEF FilesIInv
<1>4. UNCHANGED job
  BY DEF EmployeeStep, EmployeeSaves, EmployeeCopies, EmployeeDeletes, filesVars
<1>5. QED
  BY <1>2, <1>3, <1>4 DEF NoTrashIsFilled

LEMMA ServerFilesStep ==
  ASSUME ServerFilesIInv, [ServerFilesNext]_filesVars
  PROVE  ServerFilesIInv'
BY OthersPreserve, ServerStartPreserves, ServerStepPreserves, ServerEndPreserves
   DEF ServerFilesNext, ServerStarts

LEMMA ServerInitIInv == FilesInit => ServerFilesIInv
BY FilesInitIInv, BooksInitIInv, DuplicatesInitIInv, ListedInitIInv
   DEF ServerFilesIInv, FilesInit, NoTrashIsFilled, NoJob

\* What the server's own tools (filesystem.py) do to its files, by themselves and
\* between the steps of those who work there, keeps its inductive invariant, wherever
\* a call is cut off.
THEOREM ServerFilesInvariant == ServerFilesSpec => []ServerFilesIInv
BY ServerInitIInv, ServerFilesStep, PTL DEF ServerFilesSpec

\* A file tool of the server that fails half way, or finds a place taken, has lost no
\* version: what is missing afterwards was given up, or deleted on request, or replaced
\* by an edit beside an older copy.
THEOREM NoServerVersionIsLost == ServerFilesSpec => []NothingLost
<1>1. ServerFilesIInv => NothingLost
  BY DEF ServerFilesIInv, FilesIInv
<1>2. QED
  BY <1>1, ServerFilesInvariant, PTL
=============================================================================
