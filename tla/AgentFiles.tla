------------------------------ MODULE AgentFiles ------------------------------
(***************************************************************************)
(* What the program on an employee's computer does to its files            *)
(* (local_tools.py, trash.py): moving, copying, renaming, deleting,        *)
(* writing, editing, the trash of reversible deletes, and the reviews that *)
(* recommend some of them.                                                 *)
(*                                                                         *)
(* A job handles its files one after the other.  Each file is one action,  *)
(* from the look at what exists to the call that changes it; between two   *)
(* of them the employee goes on working, and the program may die.  A job   *)
(* that is delivered again is a job that starts again.                     *)
(*                                                                         *)
(* The content of a file is a version.  Every save makes a new one, a copy *)
(* or a move keeps it.  0 is no file.  A file that is changed and changed  *)
(* back is a new version here; its fingerprint, too, has another time.     *)
(***************************************************************************)
EXTENDS Naturals, FiniteSets, Sequences, Functions

CONSTANTS Folders,       \* folders inside the allowed roots
          Desks,         \* those of them where the employee works
          Names,         \* file names; one may be "manifest.json"
          MaxVersions,   \* saves, by the employee or the program
          MaxBatches,    \* trash folders
          MaxItems,      \* files of a job
          MaxJobs        \* jobs, reviews and those delivered again included

ASSUME FilesAssumption ==
  /\ IsFiniteSet(Folders) /\ IsFiniteSet(Names)
  /\ Desks \subseteq Folders
  /\ MaxVersions \in Nat
  /\ MaxBatches \in Nat
  /\ MaxItems \in Nat
  /\ MaxJobs \in Nat

Paths == Folders \X Names

ManifestName == "manifest.json"

\* The text of a manifest, where it has taken a file's place.
ManifestText == MaxVersions + 1

Versions == 1 .. ManifestText

Batches == 1 .. MaxBatches

VARIABLES file,        \* the version at each path
          bak,         \* the version in the .bak beside it
          trash,       \* by batch: the version of each file that was moved there
          manifest,    \* by batch: the files its manifest.json lists, if it has one
          job,         \* the job at work
          todo,        \* the files it has still to handle: path and expected version
          moved,       \* the files it has moved into its trash folder
          reviewed,    \* the fingerprints that reviews have recorded
          extra,       \* those among them that were offered for deletion
          hashed,      \* what the review under way has found of each file
          shifted,     \* history: duplicates that were saved before they were recorded
          made,        \* saves so far
          jobs,        \* jobs so far
          discarded,   \* history: versions the employee overwrote or deleted
          destroyed,   \* history: deletions for good: path, version, expected version
          buried,      \* history: versions a manifest was written over
          editedAway,  \* history: versions an edit replaced beside an older .bak
          orphaned     \* history: batches whose job died

reviewVars == <<reviewed, extra, hashed, shifted>>

filesVars == <<file, bak, trash, manifest, job, todo, moved, reviewVars, made,
               jobs, discarded, destroyed, buried, editedAway, orphaned>>

historyVars == <<discarded, destroyed, buried, editedAway, orphaned>>

Ops == {"move", "copy", "rename", "delete", "trash", "write", "edit", "restore"}

NoJob == [op |-> "none", to |-> "none", batch |-> 0]

NoManifest == [written |-> FALSE, items |-> <<>>]

Fingerprints == Paths \X Versions

\* What a job is told of a file: where it is and, after a review, what it holds.
Items == Paths \X (Versions \cup {0})

FilesTypeOK ==
  /\ file \in [Paths -> Versions \cup {0}]
  /\ bak \in [Paths -> Versions \cup {0}]
  /\ trash \in [Batches -> [Paths -> Versions \cup {0}]]
  /\ manifest \in [Batches -> [written : BOOLEAN, items : Seq(Paths)]]
  /\ job \in [op : Ops \cup {"none"}, to : Folders \cup Names \cup {"none"},
              batch : Batches \cup {0}]
  /\ todo \in Seq(Items)
  /\ moved \in Seq(Paths)
  /\ reviewed \subseteq Fingerprints
  /\ extra \subseteq reviewed
  /\ hashed \subseteq Fingerprints
  /\ shifted \subseteq extra
  /\ made \in 0 .. MaxVersions
  /\ jobs \in 0 .. MaxJobs
  /\ discarded \subseteq Versions
  /\ destroyed \subseteq Items \X (Versions \cup {0})
  /\ buried \subseteq Versions
  /\ editedAway \subseteq Versions
  /\ orphaned \subseteq Batches

FilesInit ==
  /\ file = [p \in Paths |-> 0]
  /\ bak = [p \in Paths |-> 0]
  /\ trash = [b \in Batches |-> [p \in Paths |-> 0]]
  /\ manifest = [b \in Batches |-> NoManifest]
  /\ job = NoJob
  /\ todo = <<>>
  /\ moved = <<>>
  /\ reviewed = {}
  /\ extra = {}
  /\ hashed = {}
  /\ shifted = {}
  /\ made = 0
  /\ jobs = 0
  /\ discarded = {}
  /\ destroyed = {}
  /\ buried = {}
  /\ editedAway = {}
  /\ orphaned = {}

NewVersion == made + 1

Save(p) ==
  /\ made < MaxVersions
  /\ made' = NewVersion
  /\ file' = [file EXCEPT ![p] = NewVersion]

(***************************************************************************)
(* The employee.                                                           *)
(***************************************************************************)
Discards(p) == discarded' = IF file[p] = 0 THEN discarded ELSE discarded \cup {file[p]}

EmployeeSaves(p) ==
  /\ Save(p)
  /\ Discards(p)
  /\ UNCHANGED <<bak, trash, manifest, job, todo, moved, reviewVars, jobs, destroyed,
                 buried, editedAway, orphaned>>

\* Over another file it is a save.
EmployeeCopies(p, q) ==
  /\ file[p] # 0 /\ file[q] = 0
  /\ file' = [file EXCEPT ![q] = file[p]]
  /\ UNCHANGED <<bak, trash, manifest, job, todo, moved, reviewVars, made, jobs, historyVars>>

EmployeeDeletes(p) ==
  /\ file[p] # 0
  /\ file' = [file EXCEPT ![p] = 0]
  /\ Discards(p)
  /\ UNCHANGED <<bak, trash, manifest, job, todo, moved, reviewVars, made, jobs,
                 destroyed, buried, editedAway, orphaned>>

EmployeeStep ==
  \/ \E p \in Desks \X Names : EmployeeSaves(p) \/ EmployeeDeletes(p)
  \/ \E p, q \in Desks \X Names : EmployeeCopies(p, q)

(***************************************************************************)
(* Reviews.  The files of a folder are hashed one after the other.  Then   *)
(* their fingerprints are recorded, for sorting them into subfolders, and, *)
(* of all but the newest of each set of equal files, for deletion.  What   *)
(* the employee saves in between is recorded as it is then.                *)
(***************************************************************************)
FilesIn(d) == {p \in Paths : p[1] = d /\ file[p] # 0}

Fingerprint(p) == <<p, file[p]>>

Hash(d) ==
  /\ job = NoJob /\ hashed = {}
  /\ jobs < MaxJobs
  /\ jobs' = jobs + 1
  /\ FilesIn(d) # {}
  /\ hashed' = {Fingerprint(p) : p \in FilesIn(d)}
  /\ UNCHANGED <<file, bak, trash, manifest, job, todo, moved, reviewed, extra, shifted, made,
                 historyVars>>

KeepsOneOfEach(keep) ==
  \A f \in hashed : Cardinality({k \in keep : k[2] = f[2]}) = 1

\* When a file is gone the review fails and records nothing.
Recommend ==
  /\ hashed # {}
  /\ hashed' = {}
  /\ \/ /\ \A f \in hashed : file[f[1]] # 0
        /\ \E keep \in SUBSET hashed :
             LET duplicates == {f[1] : f \in hashed \ keep} IN
             /\ KeepsOneOfEach(keep)
             /\ extra' = extra \cup {Fingerprint(p) : p \in duplicates}
             /\ shifted' = shifted \cup ({Fingerprint(p) : p \in duplicates} \ hashed)
        /\ reviewed' = reviewed \cup hashed \cup {Fingerprint(f[1]) : f \in hashed}
     \/ /\ \E f \in hashed : file[f[1]] = 0
        /\ UNCHANGED <<reviewed, extra, shifted>>
  /\ UNCHANGED <<file, bak, trash, manifest, job, todo, moved, made, jobs, historyVars>>

(***************************************************************************)
(* Jobs.  The files of one that comes from a recommendation carry their    *)
(* fingerprints.                                                           *)
(***************************************************************************)
ListsOf(items) ==
  {s \in UNION {[1 .. n -> items] : n \in 1 .. MaxItems} : IsInjective(s)}

Unreviewed == Paths \X {0}

Starts(op, to, batch, items) ==
  /\ job = NoJob /\ hashed = {}
  /\ jobs < MaxJobs
  /\ jobs' = jobs + 1
  /\ job' = [op |-> op, to |-> to, batch |-> batch]
  /\ todo' = items
  /\ moved' = <<>>
  /\ UNCHANGED <<file, bak, trash, manifest, reviewVars, made, historyVars>>

MoveOrCopyStarts ==
  \E op \in {"move", "copy"}, d \in Folders, items \in ListsOf(Unreviewed) :
    Starts(op, d, 0, items)

\* A recommendation that was approved, of whichever review.
RecommendedStarts ==
  \/ \E d \in Folders, items \in ListsOf(reviewed) : Starts("move", d, 0, items)
  \/ \E items \in ListsOf(extra) : Starts("delete", "none", 0, items)

RenameStarts == \E f \in Unreviewed, n \in Names : Starts("rename", n, 0, <<f>>)

DeleteStarts == \E items \in ListsOf(Unreviewed) : Starts("delete", "none", 0, items)

AnyBatch(b) == TRUE

Unused(b) == ~manifest[b].written /\ \A p \in Paths : trash[b][p] = 0

\* A delete that must be reversible: no approval was asked for it.
TrashStarts ==
  \E b \in Batches, items \in ListsOf(Unreviewed) :
    /\ Unused(b)
    /\ \A c \in 1 .. (b - 1) : ~Unused(c)
    /\ Starts("trash", "none", b, items)

WriteOrEditStarts ==
  \E op \in {"write", "edit"}, f \in Unreviewed : Starts(op, "none", 0, <<f>>)

\* restore_trash finds its batch by the manifest.
RestoreStarts ==
  \E b \in Batches :
    /\ manifest[b].written
    /\ Starts("restore", "none", b, [k \in DOMAIN manifest[b].items |->
                                       <<manifest[b].items[k], 0>>])

JobStarts ==
  \/ MoveOrCopyStarts
  \/ RecommendedStarts
  \/ RenameStarts
  \/ DeleteStarts
  \/ TrashStarts
  \/ WriteOrEditStarts
  \/ RestoreStarts

(***************************************************************************)
(* The next file of the job.                                               *)
(***************************************************************************)
Handles(op) == job.op = op /\ todo # <<>>

This == Head(todo)[1]

Goes == todo' = Tail(todo) /\ UNCHANGED job

StillThere == file[This] # 0

\* _validate_fingerprint
Validated == Head(todo)[2] \in {0, file[This]}

Destination(p) == IF job.op = "rename" THEN <<p[1], job.to>> ELSE <<job.to, p[2]>>

MoveFile ==
  /\ Handles("move") \/ Handles("rename")
  /\ Goes
  /\ file[This] # 0
  /\ Validated
  /\ file[Destination(This)] = 0
  /\ file' = [file EXCEPT ![Destination(This)] = file[This], ![This] = 0]
  /\ UNCHANGED <<bak, trash, manifest, moved, reviewVars, made, jobs, historyVars>>

CopyFile ==
  /\ Handles("copy")
  /\ Goes
  /\ file[This] # 0
  /\ file[Destination(This)] = 0
  /\ file' = [file EXCEPT ![Destination(This)] = file[This]]
  /\ UNCHANGED <<bak, trash, manifest, moved, reviewVars, made, jobs, historyVars>>

DeleteFile ==
  /\ Handles("delete")
  /\ Goes
  /\ file[This] # 0
  /\ Validated
  /\ file' = [file EXCEPT ![This] = 0]
  /\ destroyed' = destroyed \cup {<<Fingerprint(This), Head(todo)[2]>>}
  /\ UNCHANGED <<bak, trash, manifest, moved, reviewVars, made, jobs, discarded, buried,
                 editedAway, orphaned>>

TrashFile ==
  /\ Handles("trash")
  /\ Goes
  /\ file[This] # 0
  /\ trash' = [trash EXCEPT ![job.batch][This] = file[This]]
  /\ file' = [file EXCEPT ![This] = 0]
  /\ moved' = Append(moved, This)
  /\ UNCHANGED <<bak, manifest, reviewVars, made, jobs, historyVars>>

\* A file that cannot be handled is reported, and the job goes on with the next.
Refused ==
  \/ file[This] = 0 /\ job.op # "write"
  \/ job.op \in {"move", "delete"} /\ ~Validated
  \/ job.op \in {"move", "rename", "copy"} /\ file[Destination(This)] # 0
  \/ job.op = "write" /\ file[This] # 0

SkipFile ==
  /\ todo # <<>>
  /\ job.op # "restore"
  /\ Refused
  /\ Goes
  /\ UNCHANGED <<file, bak, trash, manifest, moved, reviewVars, made, jobs, historyVars>>

WriteFile ==
  /\ Handles("write")
  /\ Goes
  /\ file[This] = 0
  /\ Save(This)
  /\ UNCHANGED <<bak, trash, manifest, moved, reviewVars, jobs, historyVars>>

\* The first edit leaves a .bak, and later ones leave it as it is.  An edit that is
\* refused, for its text or its format, has made the .bak already or nothing.
EditFile ==
  /\ Handles("edit")
  /\ Goes
  /\ file[This] # 0
  /\ bak' = IF bak[This] = 0 THEN [bak EXCEPT ![This] = file[This]] ELSE bak
  /\ \/ /\ Save(This)
        /\ editedAway' = IF bak[This] = 0 THEN editedAway ELSE editedAway \cup {file[This]}
     \/ UNCHANGED <<file, made, editedAway>>
  /\ UNCHANGED <<trash, manifest, moved, reviewVars, jobs, discarded, destroyed, buried,
                 orphaned>>

(***************************************************************************)
(* The trash.  The manifest is written into the folder that holds the      *)
(* files, under a name that one of them may have: the first such file is   *)
(* overwritten, and what is restored in its place is the manifest.         *)
(***************************************************************************)
Named(items) == {k \in DOMAIN items : items[k][2] = ManifestName}

FirstNamed(items) == items[CHOOSE k \in Named(items) : \A l \in Named(items) : k <= l]

WriteManifest ==
  LET b == job.batch
      under == FirstNamed(moved) IN
  /\ job.op = "trash" /\ todo = <<>>
  /\ manifest' = [manifest EXCEPT ![b] = [written |-> TRUE, items |-> moved]]
  /\ IF Named(moved) = {}
     THEN UNCHANGED <<trash, buried>>
     ELSE /\ buried' = buried \cup {trash[b][under]}
          /\ trash' = [trash EXCEPT ![b][under] = ManifestText]
  /\ job' = NoJob
  /\ moved' = <<>>
  /\ UNCHANGED <<file, bak, todo, reviewVars, made, jobs, discarded, destroyed, editedAway,
                 orphaned>>

RestorableOver(b, p) == trash[b][p] # 0

Restorable(b, p) == trash[b][p] # 0 /\ file[p] = 0

RestoreFile ==
  LET b == job.batch IN
  /\ Handles("restore")
  /\ Goes
  /\ IF Restorable(b, This)
     THEN /\ file' = [file EXCEPT ![This] = trash[b][This]]
          /\ trash' = [trash EXCEPT ![b][This] = 0]
          /\ manifest' = IF trash[b][This] = ManifestText
                         THEN [manifest EXCEPT ![b] = NoManifest] ELSE manifest
     ELSE UNCHANGED <<file, trash, manifest>>
  /\ UNCHANGED <<bak, moved, reviewVars, made, jobs, historyVars>>

\* The folder goes when nothing but the manifest is left in it.
Remaining(b) == {p \in Paths : trash[b][p] \notin {0, ManifestText}}

RestoreEnds ==
  LET b == job.batch IN
  /\ job.op = "restore" /\ todo = <<>>
  /\ IF Remaining(b) = {}
     THEN /\ trash' = [trash EXCEPT ![b] = [p \in Paths |-> 0]]
          /\ manifest' = [manifest EXCEPT ![b] = NoManifest]
     ELSE UNCHANGED <<trash, manifest>>
  /\ job' = NoJob
  /\ UNCHANGED <<file, bak, todo, moved, reviewVars, made, jobs, historyVars>>

JobEnds ==
  /\ job.op \notin {"none", "trash", "restore"} /\ todo = <<>>
  /\ job' = NoJob
  /\ UNCHANGED <<file, bak, trash, manifest, todo, moved, reviewVars, made, jobs, historyVars>>

ProgramDies ==
  /\ job # NoJob \/ hashed # {}
  /\ hashed' = {}
  /\ job' = NoJob
  /\ todo' = <<>>
  /\ moved' = <<>>
  /\ orphaned' = IF job.op = "trash" THEN orphaned \cup {job.batch} ELSE orphaned
  /\ UNCHANGED <<file, bak, trash, manifest, reviewed, extra, shifted, made, jobs, discarded, destroyed,
                 buried, editedAway>>

JobStep ==
  \/ MoveFile \/ CopyFile \/ DeleteFile \/ TrashFile \/ WriteFile \/ EditFile
  \/ SkipFile \/ RestoreFile \/ WriteManifest \/ RestoreEnds \/ JobEnds

FilesNext ==
  \/ EmployeeStep
  \/ \E d \in Folders : Hash(d)
  \/ Recommend
  \/ JobStarts
  \/ JobStep
  \/ ProgramDies

FilesSpec == FilesInit /\ [][FilesNext]_filesVars

(***************************************************************************)
(* Properties.                                                             *)
(***************************************************************************)
Kept(v) ==
  \/ \E p \in Paths : v \in {file[p], bak[p]}
  \/ \E b \in Batches, p \in Paths : trash[b][p] = v

\* Every version ever saved still exists somewhere, in place, in the trash or beside
\* an edited file, unless the employee gave it up or a delete for good was asked
\* for.  Two ways out remain: a manifest written over a file of its name, and an
\* edit beside a .bak that an earlier edit made.
NothingLost ==
  \A v \in 1 .. made :
    \/ Kept(v)
    \/ v \in discarded \cup buried \cup editedAway
    \/ \E d \in destroyed : d[1][2] = v

\* A deletion that was recommended only destroys content of which a review saw
\* another copy, whatever the employee has saved since at the paths it names.  The
\* one exception: what is saved while the review is at work is recorded unseen.
DeletesOnlyDuplicates ==
  \A d \in destroyed : d[2] # 0 =>
    \/ d[1] \in shifted
    \/ \E f \in reviewed : f[1] # d[1][1] /\ f[2] = d[1][2]

\* A file in the trash is one that the manifest of its folder lists, and that can be
\* asked back, unless the program died before it wrote the manifest or the manifest
\* itself was taken for a deleted file.
TrashIsListed ==
  \A b \in Batches, p \in Paths : trash[b][p] # 0 =>
    \/ manifest[b].written /\ p \in Range(manifest[b].items)
    \/ job.op = "trash" /\ job.batch = b /\ p \in Range(moved)
    \/ b \in orphaned
    \/ buried # {}

(***************************************************************************)
(* The inductive invariant of NothingLost.                                 *)
(***************************************************************************)
StoreIsTyped ==
  /\ file \in [Paths -> Versions \cup {0}]
  /\ bak \in [Paths -> Versions \cup {0}]
  /\ trash \in [Batches -> [Paths -> Versions \cup {0}]]
  /\ manifest \in [Batches -> [written : BOOLEAN, items : Seq(Paths)]]
  /\ made \in 0 .. MaxVersions
  /\ moved \in Seq(Paths)
  /\ todo \in Seq(Items)
  /\ reviewed \subseteq Fingerprints
  /\ extra \subseteq Fingerprints
  /\ hashed \subseteq Fingerprints

\* The rest of the types: the job, what the reviews have offered, and the histories.
BooksAreTyped ==
  /\ job \in [op : Ops \cup {"none"}, to : Folders \cup Names \cup {"none"},
              batch : Batches \cup {0}]
  /\ extra \subseteq reviewed
  /\ shifted \subseteq extra
  /\ jobs \in 0 .. MaxJobs
  /\ discarded \subseteq Versions
  /\ destroyed \subseteq Items \X (Versions \cup {0})
  /\ buried \subseteq Versions
  /\ editedAway \subseteq Versions
  /\ orphaned \subseteq Batches

\* What a job has moved into its trash folder is in it.
MovedIsInTrash ==
  job.op = "trash" => \A k \in DOMAIN moved : trash[job.batch][moved[k]] # 0

BooksIInv == BooksAreTyped /\ MovedIsInTrash

\* A job goes to where files can go, and one that fills a trash folder has each of
\* its files still before it, and room for it.
JobIsSound ==
  /\ job.op \in {"move", "copy"} => job.to \in Folders
  /\ job.op = "rename" => job.to \in Names
  /\ job.op \in {"trash", "restore"} => job.batch \in Batches
  /\ job.op = "trash" => \A k \in DOMAIN todo :
       /\ trash[job.batch][todo[k][1]] = 0
       /\ \A l \in DOMAIN todo : todo[k][1] = todo[l][1] => k = l

FilesIInv == StoreIsTyped /\ JobIsSound /\ NothingLost

(***************************************************************************)
(* The inductive invariants of DeletesOnlyDuplicates and TrashIsListed,    *)
(* beside the types.                                                       *)
(***************************************************************************)
HashedOnce == \A f, g \in hashed : f[1] = g[1] => f = g

\* What a review has seen of another copy, or not seen at all.
HasTwin(f) == f \in shifted \/ \E g \in reviewed : g[1] # f[1] /\ g[2] = f[2]

ExtrasHaveTwins == \A f \in extra : HasTwin(f)

\* Only a recommendation to delete names versions in a delete.
DeleteIsOfExtras ==
  job.op = "delete" => \A k \in DOMAIN todo : todo[k][2] = 0 \/ todo[k] \in extra

DuplicatesIInv == HashedOnce /\ ExtrasHaveTwins /\ DeleteIsOfExtras /\ DeletesOnlyDuplicates

\* The folder that is being filled has no manifest yet.
FilledIsUnlisted == job.op = "trash" => ~manifest[job.batch].written

\* A manifest that is taken for a file has been written over one.
ManifestsBury ==
  buried = {} =>
    /\ \A p \in Paths : file[p] # ManifestText
    /\ \A b \in Batches, p \in Paths : trash[b][p] # ManifestText

ListedIInv == FilledIsUnlisted /\ ManifestsBury /\ TrashIsListed
=============================================================================
