-------------------------------- MODULE SeedData --------------------------------
(***************************************************************************)
(* The seed script (scripts/seed-sample-data.py) in a deployment that      *)
(* people use.  It removes the sample rows and files and creates them anew *)
(* in ONE transaction; the files are outside of it.  The script may stop   *)
(* at any point and be run again, and between any two of its steps the API *)
(* commits operations, each one a step here (DocumentService and           *)
(* ProjectService show what is inside them).                               *)
(*                                                                         *)
(* Documents are counted, not measured.  Members are left out: they come   *)
(* and go with their project.  A rolled back INSERT uses up its id.        *)
(***************************************************************************)
EXTENDS Integers, FiniteSets

CONSTANTS
    DemoNames,  \* names of the sample projects
    OtherName,  \* a name of no sample project
    DemoFiles,  \* names of the sample files of each project
    UserKeys,   \* storage keys of uploads
    MaxId       \* bound: values of the sequence of projects.id

Ids == 1..MaxId
Names == DemoNames \cup {OtherName}
SampleKeys == Ids \X DemoFiles  \* sample/projects/<id>/<file>

\* The keys of uploads begin with "projects/", so they are no sample's.
ASSUME SeedAssumption ==
    /\ OtherName \notin DemoNames
    /\ IsFiniteSet(DemoFiles)
    /\ UserKeys \cap SampleKeys = {}
    /\ MaxId \in Nat

VARIABLES
    nextId,      \* the sequence of projects.id
    projects,    \* the committed projects rows
    documents,   \* the committed documents rows
    files,       \* keys of the files in the storage directory
    emailOwner,  \* whose is a sample user's e-mail: nobody's, "sample", "other"
    script       \* the run of the script, and whether the last one failed

api == <<nextId, projects, documents, files, emailOwner>>
vars == <<api, script>>

NoProject ==
    [present |-> FALSE, deleted |-> FALSE, name |-> OtherName, total |-> 0,
     seeded |-> FALSE, renamed |-> FALSE]

NoRun(failed) ==
    [pc |-> "idle", failed |-> failed, projects |-> {}, documents |-> {},
     unlink |-> {}, created |-> {}, write |-> {}]

Init ==
    /\ nextId = 1
    /\ projects = [i \in Ids |-> NoProject]
    /\ documents = {}
    /\ files = {}
    /\ emailOwner = "nobody"
    /\ script = NoRun(FALSE)

Active(i) == projects[i].present /\ ~projects[i].deleted

--------------------------------------------------------------------------------
(* The API.                                                                *)

\* The script's flushed DELETEs hold their rows until it ends.
Locked(i) == script.pc \in {"users", "projects", "documents"} /\ i \in script.projects

TakeId == nextId <= MaxId /\ nextId' = nextId + 1

CreateProject(name) ==
    /\ TakeId
    /\ projects' = [projects EXCEPT ![nextId] =
                        [NoProject EXCEPT !.present = TRUE, !.name = name]]
    /\ UNCHANGED <<documents, files, emailOwner, script>>

RenameProject(i, name) ==
    /\ Active(i) /\ ~Locked(i)
    /\ name # projects[i].name
    /\ projects' = [projects EXCEPT ![i].name = name, ![i].renamed = TRUE]
    /\ UNCHANGED <<nextId, documents, files, emailOwner, script>>

DeleteProject(i) ==
    /\ Active(i) /\ ~Locked(i)
    /\ projects' = [projects EXCEPT ![i].deleted = TRUE]
    /\ UNCHANGED <<nextId, documents, files, emailOwner, script>>

Upload(i, k) ==
    /\ Active(i) /\ ~Locked(i)
    /\ k \notin files /\ \A d \in documents : d.key # k
    /\ documents' = documents \cup {[key |-> k, project |-> i, deleted |-> FALSE]}
    /\ files' = files \cup {k}
    /\ projects' = [projects EXCEPT ![i].total = @ + 1]
    /\ UNCHANGED <<nextId, emailOwner, script>>

DeleteDocument(d) ==
    /\ d \in documents /\ ~d.deleted
    /\ Active(d.project) /\ ~Locked(d.project)
    /\ d.key \notin script.documents \/ script.pc = "unlink"
    /\ documents' = (documents \ {d}) \cup {[d EXCEPT !.deleted = TRUE]}
    /\ files' = files \ {d.key}
    /\ projects' = [projects EXCEPT ![d.project].total = @ - 1]
    /\ UNCHANGED <<nextId, emailOwner, script>>

\* Somebody registers with a sample user's e-mail under another login; the
\* unique index waits for a run that has inserted the sample user.
Register ==
    /\ emailOwner = "nobody" /\ script.pc \notin {"projects", "documents"}
    /\ emailOwner' = "other"
    /\ UNCHANGED <<nextId, projects, documents, files, script>>

ApiOperation ==
    \/ \E name \in Names :
        \/ CreateProject(name)
        \/ \E i \in Ids : RenameProject(i, name)
    \/ \E i \in Ids :
        \/ DeleteProject(i)
        \/ \E k \in UserKeys : Upload(i, k)
    \/ \E d \in documents : DeleteDocument(d)
    \/ Register

--------------------------------------------------------------------------------
(* The script.                                                             *)

\* Projects are recognised by their names, the deleted ones too.
SelectProjects ==
    /\ script.pc = "idle"
    /\ script' = [script EXCEPT
            !.pc = "select_documents",
            !.projects = {i \in Ids : projects[i].present /\ projects[i].name \in DemoNames}]
    /\ UNCHANGED api

\* Mutant: only the sample files of the sample projects are looked for.
SampleDocumentsOfProjects ==
    {d.key : d \in {e \in documents : e.key \in SampleKeys /\ e.project \in script.projects}}

\* Documents are recognised by the prefix of their keys.
SampleDocuments == {d.key : d \in {e \in documents : e.key \in SampleKeys}}

SelectDocuments ==
    /\ script.pc = "select_documents"
    /\ script' = [script EXCEPT !.pc = "unlink", !.documents = SampleDocuments,
                                !.unlink = SampleDocuments]
    /\ UNCHANGED api

Unlink(k) ==
    /\ script.pc = "unlink" /\ k \in script.unlink
    /\ files' = files \ {k}
    /\ script' = [script EXCEPT !.unlink = @ \ {k}]
    /\ UNCHANGED <<nextId, projects, documents, emailOwner>>

\* db.flush: the DELETEs wait for nobody here, since the API's steps are atomic.
FlushDeletes ==
    /\ script.pc = "unlink" /\ script.unlink = {}
    /\ script' = [script EXCEPT !.pc = "users"]
    /\ UNCHANGED api

UpsertUsers ==
    /\ script.pc = "users" /\ emailOwner # "other"
    /\ script' = [script EXCEPT !.pc = "projects"]
    /\ UNCHANGED api

\* One project of each name; then the files of all of them are written.
InsertProject(name) ==
    /\ script.pc = "projects"
    /\ name \notin {c.name : c \in script.created}
    /\ TakeId
    /\ LET created == script.created \cup {[name |-> name, id |-> nextId]}
           done == Cardinality(created) = Cardinality(DemoNames)
       IN  script' = [script EXCEPT
                !.created = created,
                !.pc = IF done THEN "documents" ELSE @,
                !.write = IF done THEN {c.id : c \in created} \X DemoFiles ELSE @]
    /\ UNCHANGED <<projects, documents, files, emailOwner>>

WriteFile(k) ==
    /\ script.pc = "documents" /\ k \in script.write
    /\ files' = files \cup {k}
    /\ script' = [script EXCEPT !.write = @ \ {k}]
    /\ UNCHANGED <<nextId, projects, documents, emailOwner>>

CreatedKeys == {c.id : c \in script.created} \X DemoFiles

\* Mutant: the totals of the new projects keep their defaults.
CreatedProjectEmpty(c) ==
    [NoProject EXCEPT !.present = TRUE, !.name = c.name, !.seeded = TRUE]

CreatedProject(c) ==
    [NoProject EXCEPT !.present = TRUE, !.name = c.name, !.seeded = TRUE,
                      !.total = Cardinality(DemoFiles)]

\* Mutant: only the deletion of the projects is written.
DeletedDocumentsByCascade == {d \in documents : d.project \in script.projects}

\* The rows of the selected documents, and by cascade all of the projects'.
DeletedDocuments ==
    {d \in documents : d.project \in script.projects \/ d.key \in script.documents}

Commit ==
    /\ script.pc = "documents" /\ script.write = {}
    /\ projects' = [i \in Ids |->
            IF \E c \in script.created : c.id = i
            THEN CreatedProject(CHOOSE c \in script.created : c.id = i)
            ELSE IF i \in script.projects THEN NoProject ELSE projects[i]]
    /\ documents' = (documents \ DeletedDocuments) \cup
            {[key |-> k, project |-> k[1], deleted |-> FALSE] : k \in CreatedKeys}
    /\ emailOwner' = "sample"
    /\ script' = NoRun(FALSE)
    /\ UNCHANGED <<nextId, files>>

\* The RuntimeError of an e-mail in use, a refused call or a kill: the
\* transaction is rolled back, the files are as they are.
Stop ==
    /\ script.pc # "idle"
    /\ script' = NoRun(TRUE)
    /\ UNCHANGED api

Run ==
    \/ SelectProjects \/ SelectDocuments \/ FlushDeletes \/ UpsertUsers
    \/ Commit \/ Stop
    \/ \E k \in SampleKeys : Unlink(k) \/ WriteFile(k)
    \/ \E name \in DemoNames : InsertProject(name)

Next == ApiOperation \/ Run

Spec == Init /\ [][Next]_vars

--------------------------------------------------------------------------------
(* Properties.                                                             *)

\* A run that commits leaves the whole sample and nothing of an older one: its
\* own documents are the only ones under the prefix, and their files are there,
\* whatever earlier runs and the API did.
SeedComplete ==
    [][script.pc # "idle" /\ script' = NoRun(FALSE) =>
        /\ SampleDocuments' = CreatedKeys
        /\ SampleDocuments' \subseteq files']_vars

\* Every visible document has its file, except between the unlinking of a run
\* that fails and the end of the next one that commits; and only samples miss it.
MissingOnlyAfterFailure ==
    \A d \in documents :
        Active(d.project) /\ ~d.deleted /\ d.key \notin files =>
            /\ d.key \in SampleKeys
            /\ script.pc # "idle" \/ script.failed

\* The totals count the visible documents, also of the projects that were used
\* between two runs.  A project that was renamed is another matter: a run that
\* takes away its sample documents leaves its totals as they are.
TotalsExact ==
    \A i \in Ids :
        Active(i) /\ ~projects[i].renamed =>
            projects[i].total = Cardinality({d \in documents : d.project = i /\ ~d.deleted})

\* "It recreates only the sample projects, sample memberships, and sample
\* document files" (README.md): what users have created stays.
UserProjectsStay ==
    [][\A i \in Ids :
            projects[i].present /\ ~projects[i].seeded => projects'[i].present]_vars
================================================================================
