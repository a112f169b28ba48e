---------------------------- MODULE DocumentService ----------------------------
(***************************************************************************)
(* The document operations of ProjectVault on the documents of ONE project *)
(* (app/services/document_service.py), with the rows they read and write   *)
(* (app/repositories, app/models) and the object store behind them         *)
(* (app/services/storage.py).                                              *)
(*                                                                         *)
(* An operation is a process with a database session: it reads rows, calls *)
(* the object store, flushes statements and commits.  Each step between    *)
(* two points where another session or a client can act is an action.      *)
(* PostgreSQL runs at READ COMMITTED: a SELECT sees the committed rows, a  *)
(* flushed UPDATE holds its row's lock until the transaction ends, and the *)
(* values it writes are the ones the session computed from what it LOADED. *)
(*                                                                         *)
(* API processes run requests (one request at a time each: the handlers    *)
(* never await); Lambda processes run ObjectCreated events.                *)
(***************************************************************************)
EXTENDS Integers, FiniteSets

CONSTANTS
    ApiProcesses,     \* processes that serve HTTP requests
    LambdaProcesses,  \* processes that run the S3 event handler
    Docs,             \* storage keys, one per document row
    Sizes,            \* sizes of files, in bytes
    Limit,            \* PROJECT_STORAGE_LIMIT_BYTES
    Operations,       \* the operations of the workload
    Faults,           \* may a call of the store or the database fail
    LambdaMayDelete,  \* does the event handler's role hold s3:DeleteObject
    NoDoc             \* the document of an idle session

Processes == ApiProcesses \cup LambdaProcesses

Uploads == {"upload", "presign_upload"}
Completions == {"complete_upload", "complete_upload_by_storage_key"}
Requests ==
    Uploads \cup {"complete_upload", "update", "delete", "delete_project"}

ASSUME ProcessAssumption ==
    /\ ApiProcesses \cap LambdaProcesses = {}
    /\ NoDoc \notin Docs

ASSUME DataAssumption ==
    /\ Sizes \subseteq Nat
    /\ Limit \in Int
    /\ Operations \subseteq Requests \cup Completions
    /\ Faults \in BOOLEAN
    /\ LambdaMayDelete \in BOOLEAN

VARIABLES
    documents,  \* the committed documents rows of the project
    project,    \* the committed projects row
    objects,    \* the object stored under each key: its size, or NoObject
    presigned,  \* keys a client was given an upload URL for
    notified,   \* keys whose client has sent a file, so that S3 issued an event
    session     \* what each process is doing, and what it has loaded

vars == <<documents, project, objects, presigned, notified, session>>

NoObject == -1

NoRow == [status |-> "absent", deleted |-> FALSE, size |-> 0]

NoSession ==
    [pc |-> "idle", op |-> "none", doc |-> NoDoc, size |-> 0, metadata |-> 0,
     count |-> 0, total |-> 0, flushed |-> {}]

Init ==
    /\ documents = [d \in Docs |-> NoRow]
    /\ project = [documents_count |-> 0, total_size_bytes |-> 0,
                  deleted |-> FALSE]
    /\ objects = [d \in Docs |-> NoObject]
    /\ presigned = {}
    /\ notified = {}
    /\ session = [p \in Processes |-> NoSession]

--------------------------------------------------------------------------------
(* What the statements of the repositories see and write.                  *)

\* A document the API returns: uploaded, not deleted (the project's own
\* deletion is checked beside it).
Live(d) == documents[d].status = "uploaded" /\ ~documents[d].deleted

LiveDocs == {d \in Docs : Live(d)}

\* A document that waits for its client's PUT.
Pending(d) == documents[d].status = "pending_upload" /\ ~documents[d].deleted

\* Mutant: the check forgets the size of the file at hand.
HasStorageAvailableBefore(total, requested) == Limit > 0 => total <= Limit

\* A limit of zero or less means that there is no limit.
HasStorageAvailable(total, requested) == Limit > 0 => total + requested <= Limit

\* generate_key: a uuid no row, object or session has used.
FreshKey(d) ==
    /\ documents[d] = NoRow
    /\ objects[d] = NoObject
    /\ d \notin presigned
    /\ \A p \in Processes : session[p].doc # d

\* The unit of work writes a column only when its value differs from the one
\* that was loaded.
Written(loaded, new, current) == IF new = loaded THEN current ELSE new

CountDelta(s) == IF s.op = "delete" THEN -1 ELSE 1
SizeDelta(s) == IF s.op = "delete" THEN -s.size ELSE s.metadata

\* Mutant: the total is incremented in SQL, on the value of the row.
AdjustedTotalInSql(s) == project.total_size_bytes + SizeDelta(s)

\* adjust_document_totals adds to the values the session loaded.
AdjustedCount(s) == s.count + CountDelta(s)
AdjustedTotal(s) ==
    Written(s.total, s.total + SizeDelta(s), project.total_size_bytes)

CreatedRow(s) ==
    [status |-> IF s.op = "upload" THEN "uploaded" ELSE "pending_upload",
     deleted |-> FALSE, size |-> s.metadata]

\* Mutant: the upload clears deleted_at.
MarkedRowRevived(s) ==
    [documents[s.doc] EXCEPT !.status = "uploaded", !.deleted = FALSE,
                             !.size = Written(s.size, s.metadata, @)]

\* mark_uploaded writes the size and the status, and leaves deleted_at alone.
MarkedRow(s) ==
    [documents[s.doc] EXCEPT !.status = "uploaded",
                             !.size = Written(s.size, s.metadata, @)]

DeletedRow(s) ==
    [documents[s.doc] EXCEPT !.status = "deleted", !.deleted = TRUE]

\* The documents row as the session's flushed statements leave it.
FlushedRow(s) ==
    IF "insert" \in s.flushed THEN CreatedRow(s)
    ELSE IF "mark" \in s.flushed THEN MarkedRow(s)
    ELSE IF "soft_delete" \in s.flushed THEN DeletedRow(s)
    ELSE documents[s.doc]

\* The projects row as the session's flushed statements leave it.
FlushedProject(s) ==
    IF "adjust" \in s.flushed
    THEN [project EXCEPT !.documents_count = AdjustedCount(s),
                         !.total_size_bytes = AdjustedTotal(s)]
    ELSE [project EXCEPT !.deleted = @ \/ "close" \in s.flushed]

\* Row locks, held from the flush of an UPDATE to the end of the transaction.
HoldsDocument(p, d) ==
    /\ session[p].doc = d
    /\ session[p].flushed \cap {"mark", "soft_delete", "rename"} # {}

HoldsProject(p) == session[p].flushed \cap {"adjust", "close"} # {}

DocumentFree(p) == \A q \in Processes \ {p} : ~HoldsDocument(q, session[p].doc)
ProjectFree(p) == \A q \in Processes \ {p} : ~HoldsProject(q)

--------------------------------------------------------------------------------
(* How a session moves.                                                    *)

At(p, pc) == session[p].pc = pc

Idle(p) == At(p, "idle")

\* The request of `op' is accepted; s holds what its first queries loaded.
Start(p, op, s) ==
    /\ op \in Operations
    /\ Idle(p)
    /\ session' = [session EXCEPT ![p] = s]
    /\ UNCHANGED <<documents, project, objects, presigned, notified>>

Opened(op, pc, d) == [NoSession EXCEPT !.op = op, !.pc = pc, !.doc = d]

Goto(p, pc) == session' = [session EXCEPT ![p].pc = pc]

Flush(p, statement, pc) ==
    /\ session' = [session EXCEPT ![p].flushed = @ \cup {statement},
                                  ![p].pc = pc]
    /\ UNCHANGED <<documents, project, objects, presigned, notified>>

\* The session is closed without a commit: nothing flushed is kept.
Close(p) ==
    /\ session' = [session EXCEPT ![p] = NoSession]
    /\ UNCHANGED <<documents, project, presigned, notified>>

--------------------------------------------------------------------------------
(* Requests and events: the queries and checks before the first effect.    *)

\* upload: the project is loaded once, and its totals are checked here.
Upload(p, d, size) ==
    /\ ~project.deleted
    /\ FreshKey(d)
    /\ HasStorageAvailable(project.total_size_bytes, size)
    /\ Start(p, "upload",
             [Opened("upload", "save", d) EXCEPT
                 !.metadata = size,
                 !.count = project.documents_count,
                 !.total = project.total_size_bytes])

\* presign_upload: a declared size is checked and then forgotten, so the
\* request that declares none stands for every accepted one.
PresignUpload(p, d) ==
    /\ ~project.deleted
    /\ FreshKey(d)
    /\ Start(p, "presign_upload", Opened("presign_upload", "insert", d))

\* Mutant: a document that is already uploaded is completed again.
CompleteUploadAgain(p, d) ==
    /\ ~project.deleted
    /\ Pending(d) \/ Live(d)
    /\ Start(p, "complete_upload",
             [Opened("complete_upload", "head", d) EXCEPT
                 !.size = documents[d].size])

\* complete_upload of a pending row (an uploaded one is returned as it is).
CompleteUpload(p, d) ==
    /\ ~project.deleted
    /\ Pending(d)
    /\ Start(p, "complete_upload",
             [Opened("complete_upload", "head", d) EXCEPT
                 !.size = documents[d].size])

\* complete_upload_by_storage_key, run for an ObjectCreated event: rows that
\* are absent, uploaded or deleted are skipped.
CompleteUploadByStorageKey(p, d) ==
    /\ d \in notified
    /\ ~project.deleted
    /\ Pending(d)
    /\ Start(p, "complete_upload_by_storage_key",
             [Opened("complete_upload_by_storage_key", "head", d) EXCEPT
                 !.size = documents[d].size])

\* update: renames a visible document.
Update(p, d) ==
    /\ ~project.deleted
    /\ Live(d)
    /\ Start(p, "update", Opened("update", "rename", d))

\* delete: the owner deletes a visible document.
Delete(p, d) ==
    /\ ~project.deleted
    /\ Live(d)
    /\ Start(p, "delete",
             [Opened("delete", "load_project", d) EXCEPT
                 !.size = documents[d].size])

\* ProjectService.delete, by the owner.
DeleteProject(p) ==
    /\ ~project.deleted
    /\ Start(p, "delete_project", Opened("delete_project", "close", NoDoc))

Request(p) ==
    \/ \E d \in Docs :
        \/ \E size \in Sizes : Upload(p, d, size)
        \/ PresignUpload(p, d)
        \/ CompleteUpload(p, d)
        \/ Update(p, d)
        \/ Delete(p, d)
    \/ DeleteProject(p)

Event(p) == \E d \in Docs : CompleteUploadByStorageKey(p, d)

--------------------------------------------------------------------------------
(* Calls of the object store.                                              *)

\* The event of this object is always skipped: its row is not there before the
\* commit and is uploaded after it.
Save(p) ==
    /\ At(p, "save")
    /\ objects' = [objects EXCEPT ![session[p].doc] = session[p].metadata]
    /\ Goto(p, "insert")
    /\ UNCHANGED <<documents, project, presigned, notified>>

\* Mutant: a missing object counts as an empty file.
HeadObjectOrEmpty(p) ==
    /\ At(p, "head")
    /\ session' = [session EXCEPT
                     ![p].metadata = IF objects[session[p].doc] = NoObject
                                     THEN 0 ELSE objects[session[p].doc],
                     ![p].pc = "load_project"]
    /\ UNCHANGED <<documents, project, objects, presigned, notified>>

\* get_metadata of an object that is there.
HeadObject(p) ==
    /\ At(p, "head")
    /\ objects[session[p].doc] # NoObject
    /\ session' = [session EXCEPT ![p].metadata = objects[session[p].doc],
                                  ![p].pc = "load_project"]
    /\ UNCHANGED <<documents, project, objects, presigned, notified>>

\* get_metadata fails: the client has not sent the file, or it is gone.
HeadMissing(p) ==
    /\ At(p, "head")
    /\ objects[session[p].doc] = NoObject
    /\ Close(p)
    /\ UNCHANGED objects

MayDeleteObjects(p) == p \in ApiProcesses \/ LambdaMayDelete

\* storage.delete succeeds whether or not the object is there.
Purge(p) ==
    /\ At(p, "purge")
    /\ MayDeleteObjects(p)
    /\ objects' = [objects EXCEPT ![session[p].doc] = NoObject]
    /\ Goto(p, "soft_delete")
    /\ UNCHANGED <<documents, project, presigned, notified>>

\* The store denies the call, and the error ends the session.
PurgeDenied(p) ==
    /\ At(p, "purge")
    /\ ~MayDeleteObjects(p)
    /\ Close(p)
    /\ UNCHANGED objects

--------------------------------------------------------------------------------
(* Statements of the session's transaction.                                *)

\* A completion accepts the file when it fits in the limit.
Accepts(s) ==
    /\ s.op \in Completions
    /\ HasStorageAvailable(project.total_size_bytes, s.metadata)

\* Mutant: a delete leaves the object to some later job.
LoadProjectKeepsObject(p) ==
    /\ At(p, "load_project")
    /\ session' = [session EXCEPT ![p] =
                    [@ EXCEPT !.count = project.documents_count,
                              !.total = project.total_size_bytes,
                              !.pc = IF Accepts(session[p]) THEN "mark"
                                     ELSE IF session[p].op = "delete"
                                     THEN "soft_delete"
                                     ELSE "purge"]]
    /\ UNCHANGED <<documents, project, objects, presigned, notified>>

\* Mutant: a file that does not fit is refused, and its row stays pending.
LoadProjectRefuses(p) ==
    /\ At(p, "load_project")
    /\ session' = [session EXCEPT ![p] =
                    IF Accepts(session[p])
                    THEN [@ EXCEPT !.count = project.documents_count,
                                   !.total = project.total_size_bytes,
                                   !.pc = "mark"]
                    ELSE NoSession]
    /\ UNCHANGED <<documents, project, objects, presigned, notified>>

\* document.project is loaded late: after the HEAD of a completion, which
\* then decides, and after the checks of a delete.
LoadProject(p) ==
    /\ At(p, "load_project")
    /\ session' = [session EXCEPT ![p] =
                    [@ EXCEPT !.count = project.documents_count,
                              !.total = project.total_size_bytes,
                              !.pc = IF Accepts(session[p]) THEN "mark" ELSE "purge"]]
    /\ UNCHANGED <<documents, project, objects, presigned, notified>>

Insert(p) ==
    /\ At(p, "insert")
    /\ Flush(p, "insert", IF session[p].op = "upload" THEN "adjust" ELSE "commit")

MarkUploaded(p) ==
    /\ At(p, "mark")
    /\ DocumentFree(p)
    /\ Flush(p, "mark", "adjust")

\* Mutant: the rejection of a file adjusts the totals too.
SoftDeleteAdjusts(p) ==
    /\ At(p, "soft_delete")
    /\ DocumentFree(p)
    /\ Flush(p, "soft_delete", "adjust")

\* soft_delete of a document: a delete goes on to the totals, the rejection of
\* an upload that does not fit commits at once.
SoftDelete(p) ==
    /\ At(p, "soft_delete")
    /\ DocumentFree(p)
    /\ Flush(p, "soft_delete",
             IF session[p].op = "delete" THEN "adjust" ELSE "commit")

\* update_filename writes no column of the model; it takes the row's lock.
Rename(p) ==
    /\ At(p, "rename")
    /\ DocumentFree(p)
    /\ Flush(p, "rename", "commit")

\* Mutant: the CHECKs are dropped.
TotalsCheckDropped(s) == TRUE

\* CHECK (documents_count >= 0) and CHECK (total_size_bytes >= 0).
TotalsCheck(s) == AdjustedCount(s) >= 0 /\ AdjustedTotal(s) >= 0

AdjustDocumentTotals(p) ==
    /\ At(p, "adjust")
    /\ ProjectFree(p)
    /\ TotalsCheck(session[p])
    /\ Flush(p, "adjust", "commit")

\* The IntegrityError of a CHECK: the transaction is rolled back.  Only a
\* delete subtracts, and delete does not catch it: the object is gone already.
AdjustViolatesCheck(p) ==
    /\ At(p, "adjust")
    /\ ProjectFree(p)
    /\ ~TotalsCheck(session[p])
    /\ Close(p)
    /\ UNCHANGED objects

\* Mutant: the deletion of the project goes on to a document's row.
CloseProjectCascades(p) ==
    /\ At(p, "close")
    /\ ProjectFree(p)
    /\ \/ /\ LiveDocs = {}
          /\ Flush(p, "close", "commit")
       \/ /\ \E d \in LiveDocs :
                session' = [session EXCEPT ![p] =
                                [@ EXCEPT !.flushed = {"close"}, !.doc = d,
                                          !.pc = "soft_delete"]]
          /\ UNCHANGED <<documents, project, objects, presigned, notified>>

\* ProjectRepository.soft_delete.
CloseProject(p) ==
    /\ At(p, "close")
    /\ ProjectFree(p)
    /\ Flush(p, "close", "commit")

\* The flushed rows become visible together, and the locks are released.  The
\* response to a presign carries the upload URL.
Commit(p) ==
    LET s == session[p] IN
    /\ At(p, "commit")
    /\ documents' = [d \in Docs |-> IF d = s.doc THEN FlushedRow(s)
                                                 ELSE documents[d]]
    /\ project' = FlushedProject(s)
    /\ presigned' = presigned \cup {d \in {s.doc} : s.op = "presign_upload"}
    /\ session' = [session EXCEPT ![p] = NoSession]
    /\ UNCHANGED <<objects, notified>>

--------------------------------------------------------------------------------
(* Clients and failures.                                                   *)

\* A client PUTs a file to its upload URL: once, again, or long after.
ClientPut(d) ==
    /\ d \in presigned
    /\ \E size \in Sizes : objects' = [objects EXCEPT ![d] = size]
    /\ notified' = notified \cup {d}
    /\ UNCHANGED <<documents, project, presigned, session>>

\* What an interrupted call of the store may have done to the object (a file
\* saved in part counts as saved).
InterruptedObject(s) ==
    IF s.pc = "save" THEN s.metadata
    ELSE IF s.pc = "purge" THEN NoObject
    ELSE objects[s.doc]

\* Mutant: a delete goes on when the store fails.
FailGoesOn(p) ==
    /\ Faults
    /\ ~Idle(p)
    /\ UNCHANGED objects
    /\ \/ At(p, "purge") /\ Goto(p, "soft_delete")
                         /\ UNCHANGED <<documents, project, presigned, notified>>
       \/ ~At(p, "purge") /\ Close(p)

\* The process dies, the database connection is lost or the store fails: the
\* session is gone, and a call that was under way may have taken effect.  (An
\* upload takes its object back only for an IntegrityError, which its INSERT
\* raises when a user or project it refers to is gone: no operation of the API
\* deletes such a row, so the branch is left out.)
Fail(p) ==
    /\ Faults
    /\ ~Idle(p)
    /\ Close(p)
    /\ \/ UNCHANGED objects
       \/ /\ MayDeleteObjects(p)
          /\ objects' = [d \in Docs |-> IF d = session[p].doc
                                        THEN InterruptedObject(session[p])
                                        ELSE objects[d]]

--------------------------------------------------------------------------------

\* Steps that wait for nobody.
Step(p) ==
    \/ Save(p) \/ HeadObject(p) \/ HeadMissing(p)
    \/ Purge(p) \/ PurgeDenied(p)
    \/ LoadProject(p) \/ Insert(p) \/ Commit(p)

\* Statements that wait for a row lock.
LockStep(p) ==
    \/ MarkUploaded(p) \/ SoftDelete(p) \/ Rename(p)
    \/ AdjustDocumentTotals(p) \/ AdjustViolatesCheck(p) \/ CloseProject(p)

Next ==
    \/ \E p \in ApiProcesses : Request(p)
    \/ \E p \in LambdaProcesses : Event(p)
    \/ \E p \in Processes : Step(p) \/ LockStep(p) \/ Fail(p)
    \/ \E d \in Docs : ClientPut(d)

Spec == Init /\ [][Next]_vars

\* A process that runs goes on running, and PostgreSQL queues the sessions
\* that wait for a row lock, so none of them waits for ever.
FairSpec ==
    /\ Spec
    /\ \A p \in Processes : WF_vars(Step(p)) /\ SF_vars(LockStep(p))

\* Besides, S3 delivers the event of a stored object until a handler takes it.
DeliverySpec ==
    /\ FairSpec
    /\ \A p \in LambdaProcesses, d \in Docs :
            SF_vars(CompleteUploadByStorageKey(p, d))

\* Or else the client goes on asking for the completion of its upload.
ClientSpec ==
    /\ FairSpec
    /\ \A p \in ApiProcesses, d \in Docs : SF_vars(CompleteUpload(p, d))

--------------------------------------------------------------------------------
(* Properties of every run, whatever the number of processes.              *)

ProgramCounters ==
    {"idle", "save", "insert", "head", "load_project", "purge", "mark",
     "soft_delete", "rename", "adjust", "close", "commit"}

Statements == {"insert", "mark", "soft_delete", "rename", "adjust", "close"}

Rows ==
    [status : {"absent", "pending_upload", "uploaded", "deleted"},
     deleted : BOOLEAN, size : Nat]

Sessions ==
    [pc : ProgramCounters, op : {"none"} \cup Requests \cup Completions,
     doc : Docs \cup {NoDoc}, size : Nat, metadata : Nat,
     count : Nat, total : Nat, flushed : SUBSET Statements]

\* The rows satisfy the column types and CHECK constraints of the models, and
\* every value a session holds was read from such a row or from an object.
TypeOK ==
    /\ documents \in [Docs -> Rows]
    /\ project \in [documents_count : Nat, total_size_bytes : Nat,
                    deleted : BOOLEAN]
    /\ objects \in [Docs -> Nat \cup {NoObject}]
    /\ presigned \subseteq Docs
    /\ notified \subseteq presigned
    /\ session \in [Processes -> Sessions]

\* The recorded total stays within the limit under every interleaving: it is
\* checked on a value loaded earlier, but the same loaded value is what the
\* flush adds to, so a stale check can only go with a lost update.
RecordedTotalWithinLimit == Limit > 0 => project.total_size_bytes <= Limit

\* p waits for a row lock that q holds.
WaitsFor(p, q) ==
    /\ p # q
    /\ \/ /\ session[p].pc \in {"mark", "soft_delete", "rename"}
          /\ HoldsDocument(q, session[p].doc)
       \/ /\ session[p].pc \in {"adjust", "close"}
          /\ HoldsProject(q)

\* No set of sessions waits for itself: every operation locks its documents
\* row before the projects row.
NoDeadlock ==
    \A S \in SUBSET Processes :
        S # {} => \E p \in S : \A q \in S : ~WaitsFor(p, q)

\* A deletion is final, although others may be at work on what is deleted: a
\* document never comes back, although mark_uploaded writes the status of a row it
\* may have loaded before the delete, and the commit of an operation that began
\* before the project was deleted does not bring the project back.
DeletionIsFinal ==
    [][/\ project.deleted => project'.deleted
       /\ \A d \in Docs :
            documents[d].deleted => documents'[d].deleted /\ ~Live(d)']_vars

\* The object of a direct upload is accounted for: by a visible row or by the
\* upload that is still at work on it.  Only an upload that fails before its
\* commit leaves one behind, and then no row refers to it; a delete takes the
\* object before the row, and never leaves it, wherever it fails.
NoStrayObject ==
    \A d \in Docs \ presigned :
        objects[d] # NoObject =>
            \/ Live(d)
            \/ \E p \in Processes : session[p].op = "upload" /\ session[p].doc = d
            \/ Faults /\ documents[d] = NoRow

\* Every request and event ends.
RequestsTerminate == \A p \in Processes : ~Idle(p) ~> Idle(p)

\* A file that was sent for a pending document is accepted or rejected, or its
\* project is deleted: the event handler alone sees to it if it may delete
\* objects (DeliverySpec), and the client's completion does (ClientSpec).
PendingUploadsResolve ==
    \A d \in Docs :
        d \in notified /\ Pending(d) ~> ~Pending(d) \/ project.deleted

--------------------------------------------------------------------------------
(* Properties of one process at a time: the deployment of one API worker   *)
(* and no event handler.                                                   *)

\* One element for every byte that the rows of S record.
Bytes(S) == UNION {{d} \X (1..documents[d].size) : d \in S}

\* The denormalised totals of the project are the number and the total size of
\* its uploaded documents.
LedgerExact ==
    /\ project.documents_count = Cardinality(LiveDocs)
    /\ project.total_size_bytes = Cardinality(Bytes(LiveDocs))

\* A document becomes visible only when its object is in the store, with the
\* size the row records unless its client sent the file again.
VisibleOnlyWhenStored ==
    [][\A d \in Docs :
            ~Live(d) /\ Live(d)' =>
                /\ objects[d] # NoObject
                /\ d \notin presigned => objects[d] = documents'[d].size]_vars

\* The object of a visible document is taken away by nothing but the deletion of
\* that document: neither a failure nor a completion that is repeated does it.
OnlyDeletionRemovesObject ==
    [][\A d \in LiveDocs :
            objects[d] # NoObject /\ objects'[d] = NoObject =>
                \E p \in Processes :
                    session[p].op = "delete" /\ session[p].doc = d]_vars

Ledger ==
    INSTANCE DocumentLedger WITH
        live <- LiveDocs,
        retired <- {d \in Docs : documents[d].deleted},
        size <- [d \in Docs |-> IF Live(d) THEN documents[d].size ELSE 0],
        documents_count <- project.documents_count,
        total_size_bytes <- project.total_size_bytes

\* The rows behave as the abstract ledger.
ImplementsLedger == Ledger!Spec

--------------------------------------------------------------------------------
(* What the documentation says and two sessions at a time break.           *)

\* "Repeating completion for an already uploaded document is idempotent."
\* (docs/API_CONVENTIONS.md): the totals do not change, and the document stays.
CompletionIdempotent ==
    [][\A p \in Processes, d \in LiveDocs :
            /\ At(p, "commit") /\ Idle(p)'
            /\ session[p].op \in Completions /\ session[p].doc = d
            => UNCHANGED project /\ Live(d)']_vars

\* "Uploads that would exceed `PROJECT_STORAGE_LIMIT_BYTES` return `413
\* PROJECT_STORAGE_LIMIT_EXCEEDED`." (docs/API_CONVENTIONS.md): so what the visible
\* rows record fits in the limit.
LiveBytesWithinLimit == Limit > 0 => Cardinality(Bytes(LiveDocs)) <= Limit
================================================================================
