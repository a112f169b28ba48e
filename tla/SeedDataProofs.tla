----------------------------- MODULE SeedDataProofs -----------------------------
(***************************************************************************)
(* Theorems about the seed script in a deployment that people use, for     *)
(* every set of sample projects, sample files and uploads: what a run that *)
(* commits leaves, which files may be missing, and the totals.             *)
(***************************************************************************)
EXTENDS SeedData, FiniteSetTheorems, TLAPS

(***************************************************************************)
(* The inductive invariant.                                                *)
(***************************************************************************)

Project ==
    [present : BOOLEAN, deleted : BOOLEAN, name : Names, total : Int,
     seeded : BOOLEAN, renamed : BOOLEAN]

Document ==
    [key : UserKeys \cup SampleKeys, project : Ids, deleted : BOOLEAN]

Scripts ==
    [pc : {"idle", "select_documents", "unlink", "users", "projects", "documents"},
     failed : BOOLEAN, projects : SUBSET Ids, documents : SUBSET SampleKeys,
     unlink : SUBSET SampleKeys, created : SUBSET [name : DemoNames, id : Ids],
     write : SUBSET SampleKeys]

SeedTypeOK ==
    /\ nextId \in Nat \ {0}
    /\ projects \in [Ids -> Project]
    /\ documents \subseteq Document
    /\ script \in Scripts

\* A key belongs to one row, whatever becomes of it.
KeysUnique == \A d, e \in documents : d.key = e.key => d = e

\* Nothing but its deletion takes away the file of an upload.
UploadsStored ==
    \A d \in documents : ~d.deleted /\ d.key \notin SampleKeys => d.key \in files

\* After a run that committed, the samples have their files, too.
SamplesStored ==
    script.pc = "idle" /\ ~script.failed =>
        \A d \in documents : ~d.deleted /\ d.key \in SampleKeys => d.key \in files

\* No sample document appears behind the back of a run that has selected them.
SelectedAll ==
    script.pc \in {"unlink", "users", "projects", "documents"} =>
        SampleDocuments \subseteq script.documents

\* The files a run has written stay until it ends.
WrittenStay ==
    script.pc = "documents" => CreatedKeys \ script.write \subseteq files

FilesInv ==
    SeedTypeOK /\ KeysUnique /\ UploadsStored /\ SamplesStored /\ SelectedAll /\ WrittenStay

\* The id of a project that a run has inserted is nobody else's.
IdsFresh ==
    /\ \A d \in documents : d.project < nextId
    /\ \A i \in Ids : projects[i].present => i < nextId
    /\ \A c \in script.created :
        /\ c.id < nextId
        /\ ~projects[c.id].present
        /\ \A d \in documents : d.project # c.id

\* A sample document is one of the project its key names, which a run created.
SamplePlaces ==
    \A d \in documents :
        d.key \in SampleKeys => d.key[1] = d.project /\ projects[d.project].seeded

\* A run finds the sample projects of older runs, unless they were renamed.
SeededFound ==
    \A i \in Ids :
        projects[i].present /\ projects[i].seeded /\ ~projects[i].renamed =>
            /\ projects[i].name \in DemoNames
            /\ script.pc # "idle" => i \in script.projects

VisibleOf(i) == {d \in documents : d.project = i /\ ~d.deleted}

\* TotalsExact, with the finiteness that counting needs.
TotalsCounted ==
    \A i \in Ids :
        /\ IsFiniteSet(VisibleOf(i))
        /\ Active(i) /\ ~projects[i].renamed => projects[i].total = Cardinality(VisibleOf(i))

TotalsInv == IdsFresh /\ SamplePlaces /\ SeededFound /\ TotalsCounted

--------------------------------------------------------------------------------
(* Lemmas.                                                                 *)

USE SeedAssumption

LEMMA InitInv == Init => FilesInv /\ TotalsInv
  <1> SUFFICES ASSUME Init PROVE FilesInv /\ TotalsInv
    OBVIOUS
  <1> USE DEF Init, NoRun, NoProject
  <1>1. SeedTypeOK
    BY DEF SeedTypeOK, Project, Scripts, Names
  <1>2. \A i \in Ids : VisibleOf(i) = {}
    BY DEF VisibleOf
  <1>3. IdsFresh
    BY DEF IdsFresh
  <1>4. SeededFound
    BY DEF SeededFound
  <1>5. TotalsCounted
    BY <1>2, FS_EmptySet DEF TotalsCounted, Active
  <1>6. SamplePlaces
    BY DEF SamplePlaces
  <1>7. KeysUnique /\ UploadsStored /\ SamplesStored /\ SelectedAll /\ WrittenStay
    BY DEF KeysUnique, UploadsStored, SamplesStored, SelectedAll, WrittenStay
  <1> QED
    BY <1>1, <1>3, <1>4, <1>5, <1>6, <1>7 DEF FilesInv, TotalsInv

\* A step that leaves the API's rows and files alone keeps what is said of them.
LEMMA ScriptStep ==
    ASSUME FilesInv, TotalsInv, UNCHANGED api, SeedTypeOK',
           SamplesStored', SelectedAll', WrittenStay',
           script'.created \subseteq script.created,
           script'.pc # "idle" => \A i \in Ids :
                projects[i].present /\ projects[i].seeded /\ ~projects[i].renamed =>
                    i \in script'.projects
    PROVE  FilesInv' /\ TotalsInv'
  <1> USE DEF FilesInv, TotalsInv, api
  <1>1. KeysUnique' /\ UploadsStored'
    BY DEF KeysUnique, UploadsStored
  <1>2. IdsFresh'
    BY DEF IdsFresh
  <1>3. SamplePlaces'
    BY DEF SamplePlaces
  <1>4. SeededFound'
    BY DEF SeededFound
  <1>5. TotalsCounted'
    BY DEF TotalsCounted, Active, VisibleOf
  <1> QED
    BY <1>1, <1>2, <1>3, <1>4, <1>5

LEMMA SelectStep ==
    ASSUME FilesInv, TotalsInv, SelectProjects \/ SelectDocuments \/ FlushDeletes
                                  \/ UpsertUsers \/ Stop
    PROVE  FilesInv' /\ TotalsInv'
  <1> USE DEF FilesInv, TotalsInv, api, SeedTypeOK, Scripts
  <1>1. CASE SelectProjects
    <2>1. SeedTypeOK'
      BY <1>1 DEF SelectProjects
    <2>2. SamplesStored' /\ SelectedAll' /\ WrittenStay'
      BY <1>1 DEF SelectProjects, SamplesStored, SelectedAll, WrittenStay
    <2>3. \A i \in Ids :
            projects[i].present /\ projects[i].seeded /\ ~projects[i].renamed =>
                i \in script'.projects
      BY <1>1 DEF SelectProjects, SeededFound
    <2> QED
      BY <1>1, <2>1, <2>2, <2>3, ScriptStep DEF SelectProjects
  <1>2. CASE SelectDocuments
    <2> HIDE DEF Scripts
    <2> DEFINE s == [script EXCEPT !.pc = "unlink", !.documents = SampleDocuments,
                                   !.unlink = SampleDocuments]
    <2>0. SampleDocuments \subseteq SampleKeys
      BY DEF SampleDocuments
    <2>3. s \in Scripts
      BY <2>0 DEF Scripts
    <2>1. SeedTypeOK'
      BY <1>2, <2>3 DEF SelectDocuments
    <2>2. SamplesStored' /\ SelectedAll' /\ WrittenStay'
      BY <1>2 DEF SelectDocuments, SamplesStored, SelectedAll, WrittenStay, SampleDocuments
    <2> QED
      BY <1>2, <2>1, <2>2, ScriptStep DEF SelectDocuments, SeededFound
  <1>3. CASE FlushDeletes
    <2>1. SeedTypeOK'
      BY <1>3 DEF FlushDeletes
    <2>2. SamplesStored' /\ SelectedAll' /\ WrittenStay'
      BY <1>3 DEF FlushDeletes, SamplesStored, SelectedAll, WrittenStay, SampleDocuments
    <2> QED
      BY <1>3, <2>1, <2>2, ScriptStep DEF FlushDeletes, SeededFound
  <1>4. CASE UpsertUsers
    <2>1. SeedTypeOK'
      BY <1>4 DEF UpsertUsers
    <2>2. SamplesStored' /\ SelectedAll' /\ WrittenStay'
      BY <1>4 DEF UpsertUsers, SamplesStored, SelectedAll, WrittenStay, SampleDocuments
    <2> QED
      BY <1>4, <2>1, <2>2, ScriptStep DEF UpsertUsers, SeededFound
  <1>5. CASE Stop
    <2>1. SeedTypeOK'
      BY <1>5 DEF Stop, NoRun
    <2>2. SamplesStored' /\ SelectedAll' /\ WrittenStay'
      BY <1>5 DEF Stop, NoRun, SamplesStored, SelectedAll, WrittenStay
    <2> QED
      BY <1>5, <2>1, <2>2, ScriptStep DEF Stop, NoRun
  <1> QED
    BY <1>1, <1>2, <1>3, <1>4, <1>5

LEMMA FileStep ==
    ASSUME FilesInv, TotalsInv, NEW k \in SampleKeys, Unlink(k) \/ WriteFile(k)
    PROVE  FilesInv' /\ TotalsInv'
  <1> USE DEF FilesInv, TotalsInv, SeedTypeOK, Scripts
  <1>1. SeedTypeOK'
    BY DEF Unlink, WriteFile
  <1>2. UNCHANGED <<nextId, projects, documents, script.pc, script.projects,
                    script.documents, script.created>>
    BY DEF Unlink, WriteFile
  <1>3. KeysUnique' /\ UploadsStored'
    BY DEF Unlink, WriteFile, KeysUnique, UploadsStored
  <1>4. SamplesStored' /\ WrittenStay'
    BY DEF Unlink, WriteFile, SamplesStored, WrittenStay, CreatedKeys
  <1>5. SelectedAll'
    BY <1>2 DEF SelectedAll, SampleDocuments
  <1>6. IdsFresh' /\ SamplePlaces' /\ SeededFound'
    BY <1>2 DEF IdsFresh, SamplePlaces, SeededFound
  <1>7. TotalsCounted'
    BY <1>2 DEF TotalsCounted, Active, VisibleOf
  <1> QED
    BY <1>1, <1>3, <1>4, <1>5, <1>6, <1>7

LEMMA InsertStep ==
    ASSUME FilesInv, TotalsInv, NEW name \in DemoNames, InsertProject(name)
    PROVE  FilesInv' /\ TotalsInv'
  <1> USE DEF FilesInv, TotalsInv
  <1> DEFINE new == [name |-> name, id |-> nextId]
  <1>1. nextId \in Ids /\ new \in [name : DemoNames, id : Ids] /\ nextId' = nextId + 1
    BY DEF InsertProject, TakeId, SeedTypeOK, Ids
  <1>2. script'.created = script.created \cup {new}
    BY DEF InsertProject, SeedTypeOK, Scripts
  <1>3. UNCHANGED <<script.failed, script.projects, script.documents, script.unlink>>
    BY DEF InsertProject, SeedTypeOK, Scripts
  <1>4. \/ script'.pc = "projects" /\ script'.write = script.write
        \/ script'.pc = "documents" /\ script'.write = CreatedKeys'
    BY <1>2 DEF InsertProject, SeedTypeOK, Scripts, CreatedKeys
  <1>5. script'.created \subseteq [name : DemoNames, id : Ids]
    BY <1>1, <1>2 DEF SeedTypeOK, Scripts
  <1>6. CreatedKeys' \subseteq SampleKeys
    BY <1>5 DEF CreatedKeys, SampleKeys
  <1>7. SeedTypeOK'
    <2>1. script' \in Scripts
      BY <1>4, <1>5, <1>6 DEF InsertProject, SeedTypeOK, Scripts, CreatedKeys
    <2> QED
      BY <1>1, <2>1 DEF InsertProject, SeedTypeOK
  <1>8. UNCHANGED <<projects, documents, files>> /\ script.pc = "projects"
    BY DEF InsertProject
  <1>9. KeysUnique' /\ UploadsStored' /\ SamplesStored' /\ SelectedAll' /\ WrittenStay'
    BY <1>3, <1>4, <1>8
    DEF KeysUnique, UploadsStored, SamplesStored, SelectedAll, WrittenStay, SampleDocuments
  <1>10. IdsFresh'
    <2>1. \A i \in Ids : i \in Nat
      BY DEF Ids
    <2>2. \A d \in documents : d.project \in Nat
      BY <2>1 DEF SeedTypeOK, Document
    <2>3. \A c \in script.created : c.id \in Ids /\ c.id \in Nat
      BY <2>1 DEF SeedTypeOK, Scripts
    <2>4. nextId \in Nat
      BY DEF SeedTypeOK
    <2>5. \A d \in documents : d.project < nextId /\ d.project < nextId'
      BY <1>1, <2>2, <2>4 DEF IdsFresh
    <2>6. \A i \in Ids : projects[i].present => i < nextId /\ i < nextId'
      <3>1. \A i \in Ids : projects[i].present => i < nextId
        BY DEF IdsFresh
      <3> QED
        BY <1>1, <2>1, <2>4, <3>1
    <2>7. ~projects[nextId].present /\ \A d \in documents : d.project # nextId
      BY <1>1, <2>2, <2>4, <2>5, <2>6
    <2>8. \A c \in script.created : c.id < nextId'
      BY <1>1, <2>3, <2>4 DEF IdsFresh
    <2>9. new.id < nextId'
      BY <1>1, <2>4
    <2> QED
      BY <1>2, <1>8, <2>5, <2>6, <2>7, <2>8, <2>9 DEF IdsFresh
  <1>11. SamplePlaces' /\ SeededFound' /\ TotalsCounted'
    BY <1>3, <1>4, <1>8
    DEF SamplePlaces, SeededFound, TotalsCounted, Active, VisibleOf
  <1> QED
    BY <1>7, <1>9, <1>10, <1>11

\* What the commit of a run finds under the prefix is what it selected.
LEMMA CommitRows ==
    ASSUME FilesInv, Commit
    PROVE  /\ \A d \in documents' :
                \/ d \in documents /\ d \notin DeletedDocuments /\ d.key \notin SampleKeys
                \/ /\ d.key \in CreatedKeys
                   /\ d = [key |-> d.key, project |-> d.key[1], deleted |-> FALSE]
           /\ \A k \in CreatedKeys :
                [key |-> k, project |-> k[1], deleted |-> FALSE] \in documents'
           /\ CreatedKeys \subseteq files
           /\ CreatedKeys \subseteq SampleKeys
           /\ CreatedKeys = {c.id : c \in script.created} \X DemoFiles
  <1> USE DEF FilesInv
  <1>1. \A d \in documents : d.key \in SampleKeys => d \in DeletedDocuments
    BY DEF Commit, SelectedAll, SampleDocuments, DeletedDocuments
  <1>2. CreatedKeys \subseteq files
    BY DEF Commit, WrittenStay
  <1>3. CreatedKeys \subseteq SampleKeys
    BY DEF CreatedKeys, SampleKeys, SeedTypeOK, Scripts
  <1>4. documents' = (documents \ DeletedDocuments) \cup
                {[key |-> k, project |-> k[1], deleted |-> FALSE] : k \in CreatedKeys}
    BY DEF Commit
  <1> HIDE DEF FilesInv
  <1>5. CreatedKeys = {c.id : c \in script.created} \X DemoFiles
    BY DEF CreatedKeys
  <1>6. ASSUME NEW d \in documents'
        PROVE  \/ d \in documents /\ d \notin DeletedDocuments /\ d.key \notin SampleKeys
               \/ /\ d.key \in CreatedKeys
                  /\ d = [key |-> d.key, project |-> d.key[1], deleted |-> FALSE]
    BY <1>1, <1>4, <1>6
  <1>7. \A k \in CreatedKeys :
            [key |-> k, project |-> k[1], deleted |-> FALSE] \in documents'
    BY <1>4
  <1> QED
    BY <1>2, <1>3, <1>5, <1>6, <1>7

\* The projects a commit creates, deletes and leaves.
LEMMA CommitProjects ==
    ASSUME FilesInv, TotalsInv, Commit, NEW i \in Ids
    PROVE  /\ (\E c \in script.created : c.id = i) =>
                /\ projects'[i] \in Project
                /\ projects'[i].seeded /\ projects'[i].name \in DemoNames
                /\ projects'[i].total = Cardinality(DemoFiles)
           /\ ~(\E c \in script.created : c.id = i) =>
                projects'[i] = IF i \in script.projects THEN NoProject ELSE projects[i]
  <1>1. script.created \subseteq [name : DemoNames, id : Ids]
    BY DEF FilesInv, SeedTypeOK, Scripts
  <1>2. CASE \E c \in script.created : c.id = i
    <2> DEFINE c == CHOOSE e \in script.created : e.id = i
    <2>1. c \in script.created
      BY <1>2
    <2>2. projects'[i] = CreatedProject(c)
      BY <1>2 DEF Commit
    <2>3. c.name \in DemoNames
      BY <1>1, <2>1
    <2>4. Cardinality(DemoFiles) \in Int
      BY FS_CardinalityType
    <2> HIDE DEF c
    <2> QED
      BY <1>2, <2>2, <2>3, <2>4 DEF CreatedProject, NoProject, Project, Names
  <1>3. CASE ~\E c \in script.created : c.id = i
    BY <1>3 DEF Commit
  <1> QED
    BY <1>2, <1>3

LEMMA CommitFiles ==
    ASSUME FilesInv, TotalsInv, Commit
    PROVE  FilesInv'
  <1>1. SeedTypeOK'
    <2>1. projects' \in [Ids -> Project]
      <3>1. \A i \in Ids : projects'[i] \in Project
        <4> TAKE i \in Ids
        <4>1. projects[i] \in Project /\ NoProject \in Project
          BY DEF FilesInv, SeedTypeOK, NoProject, Project, Names
        <4> QED
          BY <4>1, CommitProjects
      <3>2. projects' = [i \in Ids |-> projects'[i]]
        BY DEF Commit
      <3> QED
        BY <3>1, <3>2
    <2>2. documents' \subseteq Document
      <3> SUFFICES ASSUME NEW d \in documents' PROVE d \in Document
        OBVIOUS
      <3>1. CASE d \in documents
        BY <3>1 DEF FilesInv, SeedTypeOK
      <3>2. CASE d.key \in SampleKeys /\ d = [key |-> d.key, project |-> d.key[1], deleted |-> FALSE]
        <4>1. d.key[1] \in Ids
          BY <3>2 DEF SampleKeys
        <4>2. [key |-> d.key, project |-> d.key[1], deleted |-> FALSE] \in Document
          BY <3>2, <4>1 DEF Document
        <4> QED
          BY <3>2, <4>2
      <3> QED
        BY <3>1, <3>2, CommitRows
    <2>3. script' \in Scripts
      BY DEF Commit, NoRun, Scripts
    <2> QED
      BY <2>1, <2>2, <2>3 DEF Commit, FilesInv, SeedTypeOK
  <1>2. KeysUnique'
    <2> SUFFICES ASSUME NEW d \in documents', NEW e \in documents', d.key = e.key
                 PROVE  d = e
      BY DEF KeysUnique
    <2> QED
      BY CommitRows DEF FilesInv, KeysUnique
  <1>3. UploadsStored' /\ SamplesStored'
    BY CommitRows DEF FilesInv, UploadsStored, SamplesStored, Commit
  <1>4. SelectedAll' /\ WrittenStay'
    BY DEF Commit, NoRun, SelectedAll, WrittenStay
  <1> QED
    BY <1>1, <1>2, <1>3, <1>4 DEF FilesInv

\* The documents of a project that a commit leaves are the documents it had.
LEMMA CommitLeaves ==
    ASSUME FilesInv, TotalsInv, Commit, NEW i \in Ids,
           i \notin script.projects, ~\E c \in script.created : c.id = i
    PROVE  /\ VisibleOf(i)' \subseteq VisibleOf(i)
           /\ Active(i) /\ ~projects[i].renamed => VisibleOf(i)' = VisibleOf(i)
  <1>1. \A d \in documents' : d.project = i => d \in documents
    <2> TAKE d \in documents'
    <2> SUFFICES ASSUME d.key \in CreatedKeys,
                        d = [key |-> d.key, project |-> d.key[1], deleted |-> FALSE]
                 PROVE  d.project # i
      BY CommitRows
    <2>1. d.key[1] \in {c.id : c \in script.created}
      BY CommitRows
    <2> QED
      BY <2>1
  <1>2. ASSUME Active(i), ~projects[i].renamed, NEW d \in documents, d.project = i
        PROVE  d \in documents'
    <2>1. script.documents \subseteq SampleKeys
      BY DEF FilesInv, SeedTypeOK, Scripts
    <2>2. d.key \in SampleKeys => projects[i].seeded
      BY <1>2 DEF TotalsInv, SamplePlaces
    <2>3. ~projects[i].seeded
      BY <1>2 DEF TotalsInv, SeededFound, Active, Commit
    <2>4. d \notin DeletedDocuments
      BY <1>2, <2>1, <2>2, <2>3 DEF DeletedDocuments
    <2> QED
      BY <2>4 DEF Commit
  <1> QED
    BY <1>1, <1>2 DEF VisibleOf

\* A project that a commit creates shows one document for each sample file.
LEMMA CommitCreates ==
    ASSUME FilesInv, TotalsInv, Commit, NEW i \in Ids,
           \E c \in script.created : c.id = i
    PROVE  /\ IsFiniteSet(VisibleOf(i)')
           /\ Cardinality(VisibleOf(i)') = Cardinality(DemoFiles)
  <1> DEFINE row == [f \in DemoFiles |-> [key |-> <<i, f>>, project |-> i, deleted |-> FALSE]]
  <1>1. \A d \in documents : d.project # i
    BY DEF TotalsInv, IdsFresh
  <1>2. \A f \in DemoFiles : <<i, f>> \in CreatedKeys
    BY DEF CreatedKeys
  <1>3. \A f \in DemoFiles : row[f] \in VisibleOf(i)'
    <2> TAKE f \in DemoFiles
    <2>1. [key |-> <<i, f>>, project |-> <<i, f>>[1], deleted |-> FALSE] \in documents'
      BY <1>2, CommitRows
    <2> QED
      BY <2>1 DEF VisibleOf
  <1>4. \A d \in VisibleOf(i)' : \E f \in DemoFiles : row[f] = d
    <2> SUFFICES ASSUME NEW d \in documents', d.project = i
                 PROVE  \E f \in DemoFiles : row[f] = d
      BY DEF VisibleOf
    <2>1. /\ d.key \in {c.id : c \in script.created} \X DemoFiles
          /\ d = [key |-> d.key, project |-> d.key[1], deleted |-> FALSE]
      BY <1>1, CommitRows
    <2>2. d.key[1] = i
      BY <2>1
    <2>3. d.key = <<i, d.key[2]>> /\ d.key[2] \in DemoFiles
      BY <2>1, <2>2
    <2>4. row[d.key[2]] = d
      BY <2>1, <2>2, <2>3
    <2> QED
      BY <2>3, <2>4
  <1>5. \A f, g \in DemoFiles : row[f] = row[g] => f = g
    OBVIOUS
  <1>6. row \in Bijection(DemoFiles, VisibleOf(i)')
    <2>1. row \in [DemoFiles -> VisibleOf(i)']
      BY <1>3
    <2> HIDE DEF row
    <2> QED
      BY <1>4, <1>5, <2>1 DEF Bijection, Injection, IsInjective, Surjection
  <1>7. ExistsBijection(DemoFiles, VisibleOf(i)')
    BY <1>6 DEF ExistsBijection
  <1> QED
    BY <1>7, FS_Bijection

LEMMA CommitTotals ==
    ASSUME FilesInv, TotalsInv, Commit
    PROVE  TotalsInv'
  <1> DEFINE Made(i) == \E c \in script.created : c.id = i
  <1>1. \A i \in Ids : Made(i) => i < nextId
    BY DEF TotalsInv, IdsFresh
  <1>2. \A k \in CreatedKeys : k[1] \in Ids /\ Made(k[1])
    BY DEF CreatedKeys, FilesInv, SeedTypeOK, Scripts
  <1>3. nextId' = nextId /\ script' = NoRun(FALSE)
    BY DEF Commit
  <1>4. IdsFresh'
    <2>1. \A d \in documents' : d.project < nextId
      BY <1>1, <1>2, CommitRows DEF TotalsInv, IdsFresh
    <2>2. \A i \in Ids : projects'[i].present => i < nextId
      BY <1>1, CommitProjects DEF TotalsInv, IdsFresh, NoProject
    <2> QED
      BY <1>3, <2>1, <2>2 DEF IdsFresh, NoRun
  <1>5. SamplePlaces'
    <2> SUFFICES ASSUME NEW d \in documents', d.key \in SampleKeys
                 PROVE  d.key[1] = d.project /\ projects'[d.project].seeded
      BY DEF SamplePlaces
    <2>1. d.key \in CreatedKeys /\ d.project = d.key[1]
      BY CommitRows
    <2> QED
      BY <1>2, <2>1, CommitProjects
  <1>6. SeededFound'
    BY <1>3, CommitProjects DEF TotalsInv, SeededFound, NoRun, NoProject
  <1>7. TotalsCounted'
    <2> SUFFICES ASSUME NEW i \in Ids
                 PROVE  /\ IsFiniteSet(VisibleOf(i)')
                        /\ Active(i)' /\ ~projects'[i].renamed =>
                                projects'[i].total = Cardinality(VisibleOf(i)')
      BY DEF TotalsCounted
    <2>1. CASE Made(i)
      BY <2>1, CommitCreates, CommitProjects
    <2>2. CASE ~Made(i) /\ i \in script.projects
      <3>1. VisibleOf(i)' = {}
        <4> SUFFICES ASSUME NEW d \in documents', d.project = i PROVE FALSE
          BY DEF VisibleOf
        <4>1. d \notin documents \/ d \in DeletedDocuments
          BY <2>2 DEF DeletedDocuments
        <4>2. d.key \in CreatedKeys /\ d = [key |-> d.key, project |-> d.key[1], deleted |-> FALSE]
          BY <4>1, CommitRows
        <4> QED
          BY <1>2, <2>2, <4>2
      <3>2. projects'[i] = NoProject
        BY <2>2, CommitProjects
      <3> QED
        BY <3>1, <3>2, FS_EmptySet DEF Active, NoProject
    <2>3. CASE ~Made(i) /\ i \notin script.projects
      <3>1. projects'[i] = projects[i]
        BY <2>3, CommitProjects
      <3>2. IsFiniteSet(VisibleOf(i))
        BY DEF TotalsInv, TotalsCounted
      <3>3. IsFiniteSet(VisibleOf(i)')
        BY <2>3, <3>2, CommitLeaves, FS_Subset
      <3> QED
        BY <2>3, <3>1, <3>3, CommitLeaves DEF TotalsInv, TotalsCounted, Active
    <2> QED
      BY <2>1, <2>2, <2>3
  <1> QED
    BY <1>4, <1>5, <1>6, <1>7 DEF TotalsInv

\* The operations that add and change projects, and Register.
LEMMA ProjectStep ==
    ASSUME FilesInv, TotalsInv, NEW i \in Ids, NEW name \in Names,
           CreateProject(name) \/ RenameProject(i, name) \/ DeleteProject(i) \/ Register
    PROVE  FilesInv' /\ TotalsInv'
  <1> USE DEF FilesInv, TotalsInv
  <1>1. UNCHANGED <<documents, files, script>>
    BY DEF CreateProject, RenameProject, DeleteProject, Register
  <1>2. KeysUnique' /\ UploadsStored' /\ SamplesStored' /\ SelectedAll' /\ WrittenStay'
    BY <1>1 DEF KeysUnique, UploadsStored, SamplesStored, SelectedAll, WrittenStay,
                SampleDocuments, CreatedKeys
  <1>3. \A j \in Ids : VisibleOf(j)' = VisibleOf(j)
    BY <1>1 DEF VisibleOf
  <1>4. nextId \in Nat \ {0} /\ \A j \in Ids : j \in Nat
    BY DEF SeedTypeOK, Ids
  <1>5. \A d \in documents : d.project \in Ids
    BY DEF SeedTypeOK, Document
  <1>6. \A c \in script.created : c.id \in Ids
    BY DEF SeedTypeOK, Scripts
  <1>7. CASE CreateProject(name)
    <2>1. /\ nextId \in Ids /\ nextId' = nextId + 1
          /\ projects' = [projects EXCEPT ![nextId] =
                            [NoProject EXCEPT !.present = TRUE, !.name = name]]
      BY <1>4, <1>7 DEF CreateProject, TakeId, Ids
    <2>2. SeedTypeOK'
      <3>0. NoProject \in Project
        BY DEF NoProject, Project, Names
      <3>1. [NoProject EXCEPT !.present = TRUE, !.name = name] \in Project
        BY <3>0 DEF Project
      <3>2. projects' \in [Ids -> Project]
        BY <2>1, <3>1 DEF SeedTypeOK
      <3> QED
        BY <1>1, <1>4, <2>1, <3>2 DEF SeedTypeOK
    <2>3. \A d \in documents : d.project # nextId
      BY <1>4, <1>5 DEF IdsFresh
    <2>4. IdsFresh'
      BY <1>1, <1>4, <1>5, <1>6, <2>1 DEF IdsFresh, SeedTypeOK
    <2>5. SamplePlaces'
      BY <1>1, <1>5, <2>1, <2>3 DEF SamplePlaces, SeedTypeOK
    <2>6. SeededFound'
      BY <1>1, <2>1 DEF SeededFound, NoProject, SeedTypeOK
    <2>7. VisibleOf(nextId) = {}
      BY <2>3 DEF VisibleOf
    <2>8. TotalsCounted'
      BY <1>3, <2>1, <2>7, FS_EmptySet DEF TotalsCounted, Active, NoProject, SeedTypeOK
    <2> QED
      BY <1>2, <2>2, <2>4, <2>5, <2>6, <2>8
  <1>8. CASE RenameProject(i, name) \/ DeleteProject(i) \/ Register
    <2>1. /\ nextId' = nextId
          /\ \/ projects' = [projects EXCEPT ![i].name = name, ![i].renamed = TRUE]
             \/ projects' = [projects EXCEPT ![i].deleted = TRUE]
             \/ projects' = projects
      BY <1>8 DEF RenameProject, DeleteProject, Register
    <2>2. SeedTypeOK'
      <3>1. projects[i] \in Project
        BY DEF SeedTypeOK
      <3>2. /\ [projects[i] EXCEPT !.name = name, !.renamed = TRUE] \in Project
            /\ [projects[i] EXCEPT !.deleted = TRUE] \in Project
        BY <3>1 DEF Project
      <3>3. projects' \in [Ids -> Project]
        BY <2>1, <3>2 DEF SeedTypeOK
      <3> QED
        BY <1>1, <2>1, <3>3 DEF SeedTypeOK
    <2>3. \A j \in Ids :
            /\ projects'[j].present = projects[j].present
            /\ projects'[j].seeded = projects[j].seeded
            /\ projects'[j].total = projects[j].total
            /\ \/ projects'[j].renamed
               \/ projects'[j].renamed = projects[j].renamed /\ projects'[j].name = projects[j].name
            /\ Active(j)' => Active(j)
            /\ projects[j].renamed => projects'[j].renamed
      BY <2>1 DEF SeedTypeOK, Project, Active
    <2>4. IdsFresh' /\ SamplePlaces' /\ SeededFound'
      BY <1>1, <1>5, <1>6, <2>1, <2>3 DEF IdsFresh, SamplePlaces, SeededFound
    <2>5. TotalsCounted'
      BY <1>3, <2>3 DEF TotalsCounted
    <2> QED
      BY <1>2, <2>2, <2>4, <2>5
  <1> QED
    BY <1>7, <1>8

LEMMA UploadStep ==
    ASSUME FilesInv, TotalsInv, NEW i \in Ids, NEW k \in UserKeys, Upload(i, k)
    PROVE  FilesInv' /\ TotalsInv'
  <1> USE DEF FilesInv, TotalsInv
  <1> DEFINE new == [key |-> k, project |-> i, deleted |-> FALSE]
  <1>1. /\ documents' = documents \cup {new}
        /\ files' = files \cup {k}
        /\ projects' = [projects EXCEPT ![i].total = @ + 1]
        /\ UNCHANGED <<nextId, script>>
        /\ \A d \in documents : d.key # k
        /\ projects[i].present
    BY DEF Upload, Active
  <1>2. k \notin SampleKeys
    OBVIOUS
  <1>3. SeedTypeOK'
    <2>1. projects[i] \in Project
      BY DEF SeedTypeOK
    <2>2. [projects[i] EXCEPT !.total = @ + 1] \in Project
      BY <2>1 DEF Project
    <2>3. projects' \in [Ids -> Project]
      BY <1>1, <2>2 DEF SeedTypeOK
    <2>4. new \in Document
      BY DEF Document
    <2> QED
      BY <1>1, <2>3, <2>4 DEF SeedTypeOK
  <1>4. KeysUnique' /\ UploadsStored' /\ SamplesStored' /\ SelectedAll' /\ WrittenStay'
    <2> HIDE DEF new
    <2>0. new.key = k
      BY DEF new
    <2>1. KeysUnique' /\ UploadsStored'
      BY <1>1, <2>0 DEF KeysUnique, UploadsStored
    <2>2. SamplesStored' /\ WrittenStay'
      BY <1>1, <1>2, <2>0 DEF SamplesStored, WrittenStay, CreatedKeys
    <2>3. SelectedAll'
      BY <1>1, <1>2, <2>0 DEF SelectedAll, SampleDocuments
    <2> QED
      BY <2>1, <2>2, <2>3
  <1>5. \A j \in Ids :
            /\ projects'[j].present = projects[j].present
            /\ projects'[j].seeded = projects[j].seeded
            /\ projects'[j].name = projects[j].name
            /\ projects'[j].renamed = projects[j].renamed
            /\ Active(j)' = Active(j)
            /\ projects'[j].total = IF j = i THEN projects[j].total + 1 ELSE projects[j].total
    BY <1>1 DEF SeedTypeOK, Project, Active
  <1>6. \A d \in documents' : d.project \in Ids
    BY <1>3 DEF SeedTypeOK, Document
  <1>7. \A c \in script.created : c.id \in Ids
    BY DEF SeedTypeOK, Scripts
  <1>8. IdsFresh' /\ SamplePlaces' /\ SeededFound'
    BY <1>1, <1>2, <1>5, <1>6, <1>7 DEF IdsFresh, SamplePlaces, SeededFound
  <1>9. TotalsCounted'
    <2> SUFFICES ASSUME NEW j \in Ids
                 PROVE  /\ IsFiniteSet(VisibleOf(j)')
                        /\ Active(j)' /\ ~projects'[j].renamed =>
                                projects'[j].total = Cardinality(VisibleOf(j)')
      BY DEF TotalsCounted
    <2>1. /\ IsFiniteSet(VisibleOf(j))
          /\ Active(j) /\ ~projects[j].renamed => projects[j].total = Cardinality(VisibleOf(j))
      BY DEF TotalsCounted
    <2>2. CASE j = i
      <3>1. VisibleOf(i)' = VisibleOf(i) \cup {new} /\ new \notin VisibleOf(i)
        BY <1>1 DEF VisibleOf
      <3> HIDE DEF new
      <3>2. IsFiniteSet(VisibleOf(i))
        BY <2>1, <2>2
      <3>3. /\ IsFiniteSet(VisibleOf(i) \cup {new})
            /\ Cardinality(VisibleOf(i) \cup {new}) = Cardinality(VisibleOf(i)) + 1
        BY <3>1, <3>2, FS_AddElement
      <3> QED
        BY <1>5, <2>1, <2>2, <3>1, <3>3
    <2>3. CASE j # i
      <3>1. VisibleOf(j)' = VisibleOf(j)
        BY <1>1, <2>3 DEF VisibleOf
      <3> QED
        BY <1>5, <2>1, <2>3, <3>1
    <2> QED
      BY <2>2, <2>3
  <1> QED
    BY <1>3, <1>4, <1>8, <1>9

LEMMA DeleteStep ==
    ASSUME FilesInv, TotalsInv, NEW d \in documents, DeleteDocument(d)
    PROVE  FilesInv' /\ TotalsInv'
  <1> USE DEF FilesInv, TotalsInv
  <1> DEFINE i == d.project
             new == [d EXCEPT !.deleted = TRUE]
  <1>1. /\ documents' = (documents \ {d}) \cup {new}
        /\ files' = files \ {d.key}
        /\ projects' = [projects EXCEPT ![i].total = @ - 1]
        /\ UNCHANGED <<nextId, script>>
        /\ ~d.deleted
        /\ d.key \notin script.documents \/ script.pc = "unlink"
    BY DEF DeleteDocument
  <1>2. i \in Ids /\ d \in Document
    BY DEF SeedTypeOK, Document
  <1>3. new \in Document /\ new.key = d.key /\ new.project = i /\ new.deleted
    BY <1>2 DEF Document
  <1> HIDE DEF new
  <1>4. SeedTypeOK'
    BY <1>1, <1>2, <1>3 DEF SeedTypeOK, Project
  <1>5. KeysUnique' /\ UploadsStored' /\ SamplesStored'
    BY <1>1, <1>3 DEF KeysUnique, UploadsStored, SamplesStored
  <1>6. SelectedAll'
    BY <1>1, <1>3 DEF SelectedAll, SampleDocuments
  <1>7. WrittenStay'
    <2> SUFFICES ASSUME script.pc = "documents"
                 PROVE  CreatedKeys \ script.write \subseteq files'
      BY <1>1 DEF WrittenStay, CreatedKeys
    <2>1. d.key \notin SampleKeys
      BY <1>1 DEF SelectedAll, SampleDocuments
    <2>2. CreatedKeys \subseteq SampleKeys
      BY DEF CreatedKeys, SampleKeys, SeedTypeOK, Scripts
    <2> QED
      BY <1>1, <2>1, <2>2 DEF WrittenStay
  <1>8. \A j \in Ids :
            /\ projects'[j].present = projects[j].present
            /\ projects'[j].seeded = projects[j].seeded
            /\ projects'[j].name = projects[j].name
            /\ projects'[j].renamed = projects[j].renamed
            /\ Active(j)' = Active(j)
            /\ projects'[j].total = IF j = i THEN projects[j].total - 1 ELSE projects[j].total
    BY <1>1 DEF SeedTypeOK, Project, Active
  <1>9. \A e \in documents' : e.project \in Ids
    BY <1>4 DEF SeedTypeOK, Document
  <1>10. \A c \in script.created : c.id \in Ids
    BY DEF SeedTypeOK, Scripts
  <1>11. IdsFresh' /\ SamplePlaces' /\ SeededFound'
    BY <1>1, <1>3, <1>8, <1>9, <1>10 DEF IdsFresh, SamplePlaces, SeededFound
  <1>12. TotalsCounted'
    <2> SUFFICES ASSUME NEW j \in Ids
                 PROVE  /\ IsFiniteSet(VisibleOf(j)')
                        /\ Active(j)' /\ ~projects'[j].renamed =>
                                projects'[j].total = Cardinality(VisibleOf(j)')
      BY DEF TotalsCounted
    <2>1. /\ IsFiniteSet(VisibleOf(j))
          /\ Active(j) /\ ~projects[j].renamed => projects[j].total = Cardinality(VisibleOf(j))
      BY DEF TotalsCounted
    <2>2. CASE j = i
      <3>1. VisibleOf(i)' = VisibleOf(i) \ {d} /\ d \in VisibleOf(i)
        BY <1>1, <1>3 DEF VisibleOf
      <3>2. /\ IsFiniteSet(VisibleOf(i)')
            /\ Cardinality(VisibleOf(i)') = Cardinality(VisibleOf(i)) - 1
        BY <2>1, <2>2, <3>1, FS_RemoveElement
      <3> QED
        BY <1>8, <2>1, <2>2, <3>2
    <2>3. CASE j # i
      <3>1. VisibleOf(j)' = VisibleOf(j)
        BY <1>1, <1>3, <2>3 DEF VisibleOf
      <3> QED
        BY <1>8, <2>1, <2>3, <3>1
    <2> QED
      BY <2>2, <2>3
  <1> QED
    BY <1>4, <1>5, <1>6, <1>7, <1>11, <1>12

LEMMA NextInv ==
    ASSUME FilesInv, TotalsInv, [Next]_vars
    PROVE  FilesInv' /\ TotalsInv'
  <1>1. CASE ApiOperation
    <2>1. ASSUME NEW name \in Names, CreateProject(name) PROVE FilesInv' /\ TotalsInv'
      <3>1. nextId \in Ids
        BY <2>1 DEF CreateProject, TakeId, FilesInv, SeedTypeOK, Ids
      <3> QED
        BY <2>1, <3>1, ProjectStep
    <2>2. ASSUME Register PROVE FilesInv' /\ TotalsInv'
      <3>1. UNCHANGED <<nextId, projects, documents, files, script>>
        BY <2>2 DEF Register
      <3>2. FilesInv'
        BY <3>1 DEF FilesInv, SeedTypeOK, KeysUnique, UploadsStored, SamplesStored,
                    SelectedAll, WrittenStay, SampleDocuments, CreatedKeys
      <3>3. TotalsInv'
        BY <3>1 DEF TotalsInv, IdsFresh, SamplePlaces, SeededFound, TotalsCounted,
                    VisibleOf, Active
      <3> QED
        BY <3>2, <3>3
    <2>3. ASSUME NEW i \in Ids, DeleteProject(i) PROVE FilesInv' /\ TotalsInv'
      BY <2>3, ProjectStep DEF Names
    <2> QED
      BY <1>1, <2>1, <2>2, <2>3, ProjectStep, UploadStep, DeleteStep DEF ApiOperation
  <1>2. CASE Run
    BY <1>2, SelectStep, FileStep, InsertStep, CommitFiles, CommitTotals DEF Run
  <1>3. CASE UNCHANGED vars
    <2>1. FilesInv'
      BY <1>3 DEF vars, api, FilesInv, SeedTypeOK, KeysUnique, UploadsStored, SamplesStored,
                  SelectedAll, WrittenStay, SampleDocuments, CreatedKeys
    <2>2. TotalsInv'
      BY <1>3 DEF vars, api, TotalsInv, IdsFresh, SamplePlaces, SeededFound, TotalsCounted,
                  VisibleOf, Active
    <2> QED
      BY <2>1, <2>2
  <1> QED
    BY <1>1, <1>2, <1>3 DEF Next

LEMMA SeedInv == Spec => [](FilesInv /\ TotalsInv)
  <1>1. FilesInv /\ TotalsInv /\ [Next]_vars => (FilesInv /\ TotalsInv)'
    BY NextInv
  <1> QED
    BY <1>1, InitInv, PTL DEF Spec

--------------------------------------------------------------------------------
(* Theorems.                                                               *)

\* A visible document misses its file only between a failed run of the script
\* (_delete_storage_file before the commit) and the end of the next one, and
\* only a sample does.
THEOREM OnlySamplesMissing == Spec => []MissingOnlyAfterFailure
  <1>1. FilesInv => MissingOnlyAfterFailure
    BY DEF FilesInv, UploadsStored, SamplesStored, MissingOnlyAfterFailure
  <1> QED
    BY <1>1, SeedInv, PTL

\* What the script promises of its commit: its own documents are the only
\* samples (_delete_sample_rows, _create_documents), and their files are there.
THEOREM SampleComplete == Spec => SeedComplete
  <1>1. ASSUME FilesInv, [Next]_vars, script.pc # "idle", script' = NoRun(FALSE)
        PROVE  SampleDocuments' = CreatedKeys /\ SampleDocuments' \subseteq files'
    <2>1. Commit
      <3>0. script' # script
        BY <1>1 DEF NoRun
      <3>1. ~ApiOperation /\ ~UNCHANGED vars
        BY <3>0 DEF ApiOperation, CreateProject, RenameProject, DeleteProject,
                    Upload, DeleteDocument, Register, vars
      <3>2. script \in Scripts
        BY <1>1 DEF FilesInv, SeedTypeOK
      <3>3. ~SelectProjects /\ ~Stop
        BY <1>1 DEF SelectProjects, Stop, NoRun
      <3>4. ~SelectDocuments /\ ~FlushDeletes /\ ~UpsertUsers
        BY <1>1, <3>2 DEF SelectDocuments, FlushDeletes, UpsertUsers, NoRun, Scripts
      <3>5. \A k \in SampleKeys : ~Unlink(k) /\ ~WriteFile(k)
        BY <1>1, <3>2 DEF Unlink, WriteFile, NoRun, Scripts
      <3>6. \A name \in DemoNames : ~InsertProject(name)
        BY <1>1, <3>2 DEF InsertProject, NoRun, Scripts
      <3> QED
        BY <1>1, <3>1, <3>3, <3>4, <3>5, <3>6 DEF Next, Run
    <2>2. \A d \in documents' : d.key \in SampleKeys => d.key \in CreatedKeys
      BY <1>1, <2>1, CommitRows
    <2>3. \A k \in CreatedKeys : \E d \in documents' : d.key = k /\ d.key \in SampleKeys
      <3> TAKE k \in CreatedKeys
      <3> DEFINE d == [key |-> k, project |-> k[1], deleted |-> FALSE]
      <3>1. d \in documents' /\ d.key = k /\ k \in SampleKeys
        BY <1>1, <2>1, CommitRows
      <3> QED
        BY <3>1
    <2>4. SampleDocuments' = CreatedKeys
      BY <2>2, <2>3 DEF SampleDocuments
    <2>5. CreatedKeys \subseteq files /\ files' = files
      BY <1>1, <2>1, CommitRows DEF Commit
    <2> QED
      BY <2>4, <2>5
  <1>2. FilesInv /\ [Next]_vars =>
            [script.pc # "idle" /\ script' = NoRun(FALSE) =>
                /\ SampleDocuments' = CreatedKeys
                /\ SampleDocuments' \subseteq files']_vars
    BY <1>1
  <1> QED
    BY <1>2, SeedInv, PTL DEF Spec, SeedComplete

\* The totals of a project that kept its name count its visible documents:
\* those of _create_documents, the API's uploads and its deletions, however
\* often the script has run or failed in between.
THEOREM TotalsAlwaysExact == Spec => []TotalsExact
  <1>1. TotalsInv => TotalsExact
    BY DEF TotalsInv, TotalsCounted, TotalsExact, VisibleOf
  <1> QED
    BY <1>1, SeedInv, PTL
================================================================================
