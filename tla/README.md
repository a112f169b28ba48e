# ProjectVault: a formal model of the API

ProjectVault is a FastAPI application over PostgreSQL and an object store.  Users
own projects, invite participants, and keep documents in them.  A project carries
two denormalised totals (`documents_count`, `total_size_bytes`) and a storage
limit.  A document reaches the store either through the API (`upload`) or by a
presigned URL (`presign_upload`, the client's PUT, and then `complete_upload` or
an S3 event that a Lambda function handles).

What makes the program hard to test is that one operation touches three things
which no transaction spans: a documents row, the totals on the projects row, and
an object.  The rows are read without a lock (`READ COMMITTED`, no
`SELECT FOR UPDATE`), the totals are computed in Python from what was read, and
calls of the store come between the statements.  That is what the core of this
project models.

## 1. The system

| Part | State | Operations | Interacts with |
|---|---|---|---|
| `app/services/document_service.py` | none of its own | upload, presign_upload, complete_upload, complete_upload_by_storage_key, update, delete; list, get, download, download_url | repositories, object store |
| `app/repositories/{documents,projects}.py`, `app/models` | the `documents`, `projects` and `project_members` rows, with CHECK and UNIQUE constraints | the queries and the flushed statements of the services | PostgreSQL |
| `app/services/storage.py` | the objects of the bucket (or files of a directory) | generate_key, save, delete, get_metadata, presign_upload, presign_download, download_path | S3, MinIO or the file system |
| `app/lambda_handlers/s3_events.py` | none | handler: every record of a batch in a session of its own; any failure fails the batch | S3 (which redelivers), document service |
| `app/services/project_service.py` | the projects and members rows | create, update, delete, grant_participant, remove_member | repositories |
| `app/services/auth_service.py`, `app/core/security.py` | the users rows | register, login, decode_access_token | repositories |
| `app/db/session.py` | one session and connection per request | get_db, commit, rollback, close | everything above |
| `app/api` | none | the routes: one service call each, never awaiting | clients |
| `infra/terraform` | the role and the wiring of the Lambda function | | handler |
| `frontend/src/App.tsx` | the demo console's React state | loads and edits through the API | API |
| `scripts/seed-sample-data.py` | | replaces the sample rows and files | database, storage directory |

The behaviours that are hard, and what should hold of each part:

* **Document operations.**  Two sessions interleave at every statement and every
  call of the store; calls fail; processes die; clients PUT late or twice.  The
  totals should be those of the visible documents, the limit should hold, a
  deleted document should stay deleted, a visible document should have its
  object, no object should be left behind, no two sessions should deadlock, and
  every request should end.
* **Event handling.**  Events are delivered at least once, in any order, also for
  objects whose row is gone; a batch is retried as a whole.  Every file that was
  sent should in the end be accepted or rejected, and handling an event twice
  should change nothing.
* **Projects and members.**  Checks on the membership precede the effects; the
  unique constraints settle what two sessions do at once.  A project should keep
  exactly one owner and each user at most one membership of it.
* **Registration and login.**  Two check-then-insert races, settled by unique
  constraints, whose loser must be answered.  Logins and
  addresses should stay unique, a reported conflict should exist, a token should speak
  for the account whose password bought it.
* **Sample data.**  A script replaces rows in one transaction and files outside of it,
  in a deployment that is in use.  A run that ends should leave the whole sample,
  whatever earlier runs left behind, and touch nothing that users made.
* **Demo console.**  Answers arrive out of order, fail, or are lost after they took
  effect.  The selection should fit what is shown, loading should end, a token should
  not stay without a user, and the refresh that follows an edit should include it.

`PROJECT.json` lists every component with its status, and every hazard at the
line where it bites, with the property that covers it or the reason why none
does.

## 2. The modules

| Module | What it is |
|---|---|
| `DocumentService` | the core: the document operations on one project, at the grain of statements and store calls |
| `DocumentLedger` | the abstract specification: a set of visible documents with sizes, and two exact totals |
| `S3Events` | `DocumentService` with the event handler around it: batches, the records of an invocation, failures and repeated attempts |
| `ProjectService` | the projects row's own fields and the members, at the grain of queries and statements |
| `ProjectAccess` | the abstract specification: who has which role, and whether the project is there |
| `ProjectServiceHistory` | `ProjectService` with a history variable, for what is said of a whole request |
| `AuthService` | registration, query by query and index by index; logins and tokens |
| `AccountDirectory` | the abstract specification: accounts without duplicates, and who is signed in |
| `SeedData` | the seed script, step by step, between operations of the API |
| `AppConsole` | the demo console's state under answers that arrive in any order |
| `MCDocumentService`, `MCS3Events`, `MCProjectService`, `MCAuthService`, `MCSeedData`, `MCAppConsole` | the instances that TLC checks; the `.cfg` files give the constants |
| `DocumentServiceProofs` | theorems about the document operations for any number of processes |
| `SerialLedgerProofs` | theorems while one process adjusts the totals: the rows implement the ledger |
| `StoredObjectProofs` | theorems about rows and objects: while one process adjusts the totals, and for direct uploads in any number of processes |
| `S3EventsProofs` | theorems about the handler's batches: they add nothing to the sessions, and what they report is so |
| `ProjectServiceProofs` | theorems about projects and members, and about whole requests |
| `AuthServiceProofs` | theorems for any number of registrations at once |
| `SeedDataProofs` | theorems for any sample and any number of runs |
| `AppConsoleProofs` | theorems for any number of asynchronous functions that are under way |

### DocumentService: state

| Variable | The program's state |
|---|---|
| `documents[d]` | the committed documents row with storage key `d`: `status`, whether `deleted_at` is set, `size_bytes` |
| `project` | the committed projects row: the two totals, and whether `deleted_at` is set |
| `objects[d]` | the object under key `d`: its size, or `NoObject` |
| `presigned` | the keys a client was given an upload URL for |
| `notified` | the keys whose client has sent a file, so that S3 has issued an event |
| `session[p]` | what process `p` runs (`op`, `pc`), its document, and its SQLAlchemy session: `size`, `count` and `total` as *loaded*, `metadata` (the size of the file at hand), and the statements `flushed` but not committed |

A session is a program counter that walks through the code of its operation:

    upload            save -> insert -> adjust -> commit
    presign_upload    insert -> commit
    completion        head -> load_project -> mark -> adjust -> commit
                                           -> purge -> soft_delete -> commit
    update            rename -> commit
    delete            load_project -> purge -> soft_delete -> adjust -> commit
    delete_project    close -> commit

The queries and checks before the first effect are the action that opens the
session (`Upload`, `PresignUpload`, `CompleteUpload`,
`CompleteUploadByStorageKey`, `Update`, `Delete`, `DeleteProject`).  A request
that one of these checks turns away changes nothing and is no step.

### DocumentService: correspondence with the code

* **Grain.**  Another session or a client can act between two calls of the store
  or the database, and nowhere else, so those are the steps.  Several SELECTs in a
  row that decide one thing (the document, the membership) are one step: the
  properties do not tell the moments between them apart, except for the projects
  row, which `complete_upload` and `delete` load lazily through
  `document.project`, and which has its own step `LoadProject`.
* **READ COMMITTED.**  A SELECT sees committed rows.  The session works on its
  loaded copy from then on: `status` and `size_bytes` of a document are never read
  again before they are used, and `adjust_document_totals` adds to the loaded
  totals.  A flush writes an UPDATE of the columns whose value differs from the
  loaded one (`Written`: an empty file leaves `total_size_bytes` out of the
  UPDATE), applied to the committed row at the time of the commit
  (`FlushedRow`, `FlushedProject`); the lock the flush took keeps that row
  from changing in between.
* **Locks.**  A flushed UPDATE holds its row to the end of the transaction;
  another UPDATE of that row waits.  The INSERT of a document takes a key-share
  lock on the projects row, which an UPDATE of its totals does not conflict with.
* **Processes.**  The route handlers are `async def` and never await, so an API
  process runs a request from its first query to its commit before it serves
  another one: one session per process.  Several workers or hosts, and the Lambda
  function beside the API, are several processes.
* **Failures.**  `Fail` ends a session at any point: the process dies, the
  connection is lost, or the store or database raises.  Whatever was flushed is
  rolled back.  A call of the store that was under way may or may not have taken
  effect (`InterruptedObject`).  `AdjustViolatesCheck` is the IntegrityError of
  the CHECKs on the totals, `HeadMissing` the error of a completion without an
  object, `PurgeDenied` a store that denies `delete_object`.
* **Clients.**  A presigned URL is a capability: the client PUTs to it once, again,
  or never (`ClientPut`).  Its expiry is left out, so the model has more
  behaviours than the program.
* **Authorisation** is left out of this module: a project always has its owner,
  for whom every check of the operations passes (that is `OneOwner` of
  `ProjectService`), so membership only restricts who may send a request, not what
  two accepted ones do.
* **Names and types** are left out: filename, content type and timestamps.
* `upload` catches an `IntegrityError` of its INSERT, and then removes the object it
  saved.  The only constraints that it could meet are the foreign keys and the
  unique storage key; the API deletes no project or user and keys are uuids, so that
  branch is never taken, and it is left out.
* The bytes of the local backend behave as those of S3, without presigned URLs: a
  run whose `Operations` leave out `presign_upload` is that deployment.

### DocumentLedger

`Add`, `Remove` and `Reject` change the set of visible documents, the recorded
sizes and both totals in one step.  `Ledger!Spec`, under the mapping
at the end of `DocumentService` (`live` is what the list query returns, `retired`
the rows with `deleted_at`), is what one would like the rows to do.  It holds
while one process adjusts the totals, also when the event handler's batches are
repeated, and is refuted with two (below).

### S3Events

`S3Events` extends `DocumentService`: the session of a Lambda process is that of one
record, and three variables are added.

| Variable | The program's state |
|---|---|
| `created` | the keys whose ObjectCreated event S3 still has to send, or may send again |
| `retries` | the batches whose invocation failed, with the number of the attempt |
| `invocation[p]` | what the handler in process `p` holds: the batch, the records that are `left`, those that `failed` |

    Deliver/Redeliver -> (TakeRecord -> the session's steps | SkipRecord)* -> Return

* `TakeRecord` opens a session of its own for a record (`SessionLocal()` inside the
  loop) and is the action `CompleteUploadByStorageKey` of the service; `SkipRecord` is
  the row that is absent, deleted or uploaded already.  `RecordStep` carries the
  session on: its last step ends the record (`RecordDone`), well at the commit, or as a failure
  (`HeadMissing`, `PurgeDenied`, the CHECK).  `RecordFails` is any other exception;
  `RefreshFails` is one after the COMMIT (its answer is lost, or `db.refresh` fails): the
  file is settled and its record counts as failed.
* A failure is noted and the loop goes on; at the end the handler returns, or raises
  `S3EventProcessingError` if anything failed (`Return`).  Then, and after a
  `TimeOut`, Lambda repeats the whole batch until `MaxAttempts`.
* The records of a batch are a set: the handler takes them in any order, since S3
  promises none.  Records that `_parse_record` rejects or that are of another bucket
  change nothing and are left out.
* An accident (`RecordFails`, `RefreshFails`, `TimeOut`) is assumed not to happen in the last attempt
  of a batch; what fails because of the state fails in every attempt.  Without that
  assumption an event may be lost for good, and no property of progress could hold.

### ProjectService

| Variable | The program's state |
|---|---|
| `project` | the committed projects row: absent, active or deleted; `owner_id`; name and description |
| `members[i]` | the committed project_members row with id `i`: its user and role, and whether it has been inserted and deleted |
| `session[p]` | what process `p` runs (`op`, `pc`), its user, the user it acts on (`target`), the id of the row it loaded or inserted, and the fields an update sets |

    create    insert_project -> insert_owner -> commit
    update    load_project -> load_member -> write -> commit
    delete    load_project -> load_member -> close -> commit
    grant     load_project -> load_member -> load_target -> insert_member -> commit
    remove    load_project -> load_member -> load_target -> delete_member -> commit
    upload    load_project -> load_member -> save -> commit

Here every SELECT is a step of its own, since the questions are about what changes
between them.  `upload` stands for every document operation that asks for a
membership: it keeps no rows here, only the moment of its check and of its commit.

* **Constraints.**  `InsertMember` and `InsertViolatesUnique` are the INSERT under
  `UNIQUE (project_id, user_id)`; it waits while a transaction in flight has inserted
  or deleted the key (`KeyFree`).  `Write` and `WriteViolatesNotNull` are the UPDATE
  under `name NOT NULL`, which the payload's schema does not forbid.
* **Deletion by id.**  `DELETE` names the id that was loaded.  A row that is gone by
  then is no error to SQLAlchemy, so two overlapping removals both answer 204.
* **Unit of work.**  An update writes the columns whose value differs from the loaded
  one (`Changes`), so two updates of different fields do not undo each other.
* **Users** are never deleted by the API, so the caller's own row and the invited
  user's row are the constants `Users`; an unknown login changes nothing.
* An upload's lock on the projects row is left out: the model has more interleavings
  of updates with uploads than the database allows.

`ProjectAccess` has four steps: `Create` makes one owner, `Grant` and `Revoke` turn
nobody into a participant and back, `Delete` happens once.  The mapping takes a
user's role from the present row.  `Grant` and `Revoke` are allowed after `Delete`
because the code allows it: an invitation that was authorised before the deletion
commits after it.

`ProjectServiceHistory` records, for each request under way, whether the project has
been active and which roles its user has held at some moment since it arrived, which
fields it asked to set, and who has become a member since it looked up the membership
that it removes.

### AuthService

| Variable | The program's state |
|---|---|
| `users` | the committed users rows |
| `tokens` | the access tokens that have not expired, with the credentials they were given for |
| `session[p]` | the registration that process `p` serves: where it is, its payload, and the unique indexes its INSERT has entered |

    Register -> get_by_login -> get_by_email -> insert_login -> insert_email -> commit
             -> created | conflict -> (answer)

* `GetByLogin` and `GetByEmail` are the two checks, a query each.  The INSERT of the row
  is two steps, since PostgreSQL enters a row into the unique indexes one after the
  other, and at each of them waits for a transaction in flight that has entered the
  same key (`LoginFree`, `EmailFree`).  `InsertViolatesUnique` is the `except
  IntegrityError`; PostgreSQL gives up the keys at the error itself.
* `Fail` ends a registration anywhere, also after its commit: then the answer is
  lost, and the user may register again.
* An e-mail has an address and the case in which it is typed; `Lower` is
  `payload.email.lower()`.  A password's hash is the password, a token its subject:
  `verify_password` and the signature are library code, taken to be right.
* `Login` is one query and no row is changed, so it is one step.  `CurrentUser` is what
  `get_current_user` finds for a token; users are never deleted.
* The switch that turns public registration off only takes behaviours away.

`AccountDirectory` has `Register`, `Login` and `Expire`, one step each.  The mapping makes
an account of each row, with its address without the case, and signs in the account
that `CurrentUser` finds for a token, with the credentials the token was given for: a
token that spoke for somebody else would map to a pair that is no account.

### SeedData

| Variable | The program's state |
|---|---|
| `nextId` | the sequence of `projects.id`; a rolled back INSERT uses up its value |
| `projects[i]` | the committed projects row: there or not, deleted, its name, its count of documents, and whether a run of the script made it and anybody renamed it since |
| `documents` | the committed documents rows: storage key, project, deleted |
| `files` | the keys of the files in the storage directory |
| `emailOwner` | whether a sample user's e-mail is nobody's, the sample user's or another user's |
| `script` | the run of the script: what it has selected, what is left to unlink and to write, the projects it has inserted, and whether the last run failed |

    SelectProjects -> SelectDocuments -> Unlink* -> FlushDeletes -> UpsertUsers
                   -> InsertProject* -> WriteFile* -> Commit

* The script works in one transaction, so its rows appear at `Commit`, with the cascade
  that takes the documents and members of a deleted project; its files do not
  wait for that.  `Stop` ends it anywhere (a kill, a refused call, the RuntimeError of a
  sample user's e-mail that is taken): the rows are as they were, the files are not.
* An operation of the API is one step here: what is inside is the subject of the other
  modules.  It waits for the rows that the script's flushed DELETEs hold (`Locked`).
* Every sample project has the same sample files, and documents are counted, not
  measured.  Members come and go with their project and are left out, as are two
  scripts at once.

### AppConsole

| Variable | The program's state |
|---|---|
| `edits[p]` | the API's side: how often project `p` has been changed, 0 if it does not exist |
| `token`, `currentUser`, `projects`, `selectedProjectId`, `loading` | the `useState` hooks of `App` |
| `detail` | `selectedProject`, `members` and `documents`, which are always set together |
| `task[t]` | an asynchronous function under way: what it awaits, the token and the selection of the render it was started from, and the answer once the API has given it |

    login     login -> (saveToken, effect) -> session
    session   me -> list
    select    detail
    create    create -> list -> detail
    edit      edit -> list -> detail

A click starts a task and runs it up to its first await (`User`); the API answers a
request at any later moment (`Server`); the continuation runs at any moment after
that, or the await throws (`Continue`).  A 401 may be the answer to anything.  An
answer is a step of its own where its moment matters: to the lists and details,
which show the API's state of that moment, and to the requests that change it.
Those may take effect although their answer is lost.

The busy flags of the forms are left out, so the model can send a form twice;
so is registration, which only precedes a login, and everything about notices,
downloads and rendering.  `loadProjectDetail` awaits three requests at once; here they
are one, since edits are counted per project and not told apart.  What others do to a
project's membership is that the list may be any set of existing projects.

## 3. The runs

Bounds: `Docs` (storage keys) and `Sizes` are finite sets; every key is used
once, since generate_key never repeats one, so an instance stops when its keys
are used up (`CHECK_DEADLOCK FALSE`).  No other bound is needed: the totals are
bounded by the documents.

| Run | Instance | Shows |
|---|---|---|
| `Serial` | one API process, 3 keys, sizes 0-2, limit 3, every API operation, failures | `LedgerExact`, `ImplementsLedger`, `VisibleOnlyWhenStored`, `OnlyDeletionRemovesObject` |
| `Concurrent` | two API processes, 2 keys, sizes 1-2, limit 3, every API operation, failures | `TypeOK`, `RecordedTotalWithinLimit`, `NoDeadlock`, `DeletionIsFinal`, `NoStrayObject` |
| `Progress` | an API process and a handler with the role of `infra/terraform/main.tf`, 2 keys, sizes 1-2, limit 2, every operation, clients that ask for completion, no failures, fair | `NoStrayObject`, `PendingUploadsResolve`, `RequestsTerminate` |
| `EventBatches` | an API process that presigns and a handler of batches, 2 keys, sizes 1 and 3, limit 2, 2 attempts, failures and timeouts, fair | `ImplementsLedger`, `SuccessSettles`, `FittingFilesAccepted` |
| `Members` | two sessions, three users, three membership ids, every operation, cut off anywhere | `TypeOK`, `OneOwner`, `UniqueMembership`, `AuthorisedEffects`, `RemovalKeepsNewMembers`, `UpdateKeepsOtherFields`, `ImplementsAccess` |
| `Accounts` | two processes, two logins, two addresses, two passwords, two ids, failures, fair | `TypeOK`, `ConflictsAreReal`, `ImplementsDirectory`, `RegistrationsEnd` |
| `Reseed` | one sample project of one file, one upload, three ids, runs that stop anywhere | `SeedComplete`, `MissingOnlyAfterFailure`, `TotalsExact` |
| `Console` | two tasks at once, two projects, one user, fair | `TypeOK`, `LoadingEnds`, `SessionSettles`, `OwnEditsShown` |
| `CompletionTwice` | a client's completion beside the event of its object | `CompletionIdempotent` is violated |
| `Quota` | two uploads at once | `LiveBytesWithinLimit` is violated |
| `LambdaRole` | the handler alone, with its role | `PendingUploadsResolve` is violated |
| `SeedRemoves` | a user's project with the name of a sample project | `UserProjectsStay` is violated |

Why these bounds: a race here takes two sessions, and a third one only
repeats what one of the two does (the proofs below cover any number).  Three keys
with one process allow a document to come, a second one not to fit beside it, and
a third one to fit after the first is deleted.  Sizes 0, 1 and 2 with limit 3 give
an empty file, two files that fit together and two that do not.

`MaxAttempts` is 2, the least number that has an attempt that is repeated and one that is
the last; Lambda's own bound is three.  Size 3 under limit 2 is a file
that can never be accepted and whose rejection the role forbids, so it fails in every
attempt; size 1 fits twice: the batches of the two keys hold each of the combinations.

Two logins and two addresses let two registrations share a login, an address, both, or
cross; `Ids` bounds the accounts, and two are as many as there can be with two
logins.  `MaxId` bounds the projects over all runs: with three, a run can fail after
using up an id, or a user's project can come before, and two runs can still
follow each other.  `Accounts` and `Reseed` are checked for deadlock, too: a registration
can always arrive and a run of the script can always be started.

`MemberIds` bounds how many memberships are ever inserted: ids are never used twice,
and an INSERT that finds none left waits (`CHECK_DEADLOCK FALSE`).  Three ids are the
owner's, one that is granted, and one that is granted again to a user whose
membership is being removed, or that another invitation inserts at the same time;
three users are an owner, a participant and one more to invite.  One text and null
are two values of the description, enough for an update to undo another's.  One
project is followed; projects share no row but the users, so `create` happens once.
The sets are interchangeable, and no liveness is checked there.

`Tasks` bounds the asynchronous functions that are under way at once: two are enough
for answers that overtake each other.  `MaxEdits` bounds the edits of a project that
are accepted after the first count; an edit beyond it is refused or lost.

### What holds

* `LedgerExact`, `ImplementsLedger`: one process at a time keeps the totals equal
  to the documents, for every point of failure: each operation is one transaction.
  Late PUTs change objects, not rows.  With the event handler, a batch may be handled
  twice, be cut off within a record and hold records that fail, even after their
  commit: a record that was committed is skipped the next time.
* `VisibleOnlyWhenStored`: a document becomes visible only while its object is in
  the store.  `OnlyDeletionRemovesObject`: it keeps it until its own deletion, for every
  point of failure.  (`delete` removes the object before the row, so a deletion that
  fails in between leaves a visible document without its bytes.)
* `RecordedTotalWithinLimit`: the *recorded* total never exceeds the limit even
  when two uploads overlap.  The check is made on a stale total, but so is the
  addition: the write that would exceed the limit is the one that loses the other
  update.
* `NoDeadlock`: every operation that locks both rows locks the document first.
* `DeletionIsFinal`: `mark_uploaded` writes `status = "uploaded"` on a row that may
  have been deleted since it was loaded; the row stays invisible because it leaves
  `deleted_at` alone and every query checks both.  An upload or completion that is
  under way when the project is deleted commits into the deleted project; it does not
  bring the project back.
* `NoStrayObject`: the object of a direct upload belongs to a visible row or to an
  upload at work on it.  The one exception is an upload that fails between `save` and
  its commit: it leaves an object that no row refers to.  A delete never leaves one,
  wherever it fails.  `Concurrent` checks it with failures; in `Progress`, without
  failures, the exception does not exist.
* `RequestsTerminate`, `PendingUploadsResolve`: requests and events end although they
  wait for each other's rows, and a file that was sent is accepted or rejected in the
  end because its client asks; see the fairness below.
* `SuccessSettles`: an invocation that reports success has left none of its files
  waiting; Lambda would never send them again.  `FittingFilesAccepted`: a file that fits
  is accepted although another one in its batch fails in every attempt.
* `OneOwner`: whoever sees a project sees its owner's membership, and nobody else's
  as owner: `create` commits both rows together, invitations insert participants,
  and `remove_member` refuses the owner.
* `UniqueMembership`, `ImplementsAccess`: the check of an invitation and its INSERT
  are apart, and the unique constraint settles two of them.
* `AuthorisedEffects`: checks and effects are apart too, so an operation may take
  effect after its user was removed or the project deleted, but only if it had arrived
  before: the project was active at some moment of the request, and the user had the
  role at some moment of it, not necessarily the same one.
* `RemovalKeepsNewMembers`: a removal that lost the race against another one deletes
  by id, so it does not end a membership granted again in between.
* `UpdateKeepsOtherFields`: an update that loaded the row before another one's
  commit leaves the other's fields alone.
* `ConflictsAreReal`: a registration is refused only if its login or e-mail is there,
  perhaps as its own account, when the answer to its first attempt was lost.
* `TypeOK` of `AuthService`: e-mails are stored in lower case, however they were typed.
* `ImplementsDirectory`: of two registrations that overlap and collide one opens an
  account; e-mails that differ in case collide; a token speaks for the account
  whose password bought it.
* `RegistrationsEnd`: registrations enter the login before the e-mail, so they never wait
  for each other in a circle, and one that an index refuses is answered, not tried
  again by the server.
* `SeedComplete`: a run that commits leaves its own sample documents and no others, and
  their files, whatever earlier runs and the API did.  `MissingOnlyAfterFailure`: between
  a run that failed and the next one that commits, sample documents may miss
  their files, and no other document ever does.  `TotalsExact`: the counts fit the
  documents, except in sample projects that were renamed: the script removes their
  sample documents by key, and leaves their totals.
* `TypeOK` of `AppConsole`: the details of one project are never shown under the
  selection of another one, however two loads overtake each other, since
  `loadProjectDetail` sets both after its await.  (Which load wins is the order of
  the answers, not of the clicks.)
* `LoadingEnds`, `SessionSettles`: `loading` is one flag for all tasks, and each of
  them resets it in a `finally`; a token whose user cannot be loaded is forgotten.
* `OwnEditsShown`: the refresh after an edit is sent after its answer, so its details
  include the edit when they are shown.  An older load that is answered later may
  overwrite them; the property says nothing of that, and the code does not prevent it.

### What does not (findings)

Each is a run of one property that a sentence of the documentation states.

* `CompletionTwice` (`docs/API_CONVENTIONS.md`): "Repeating completion for an already
  uploaded document is idempotent."  A client's completion and the event of the same
  object both read the row as pending, both mark it, and the one that loads the totals
  second adds the file again: one document, counted twice, for good.  If the file takes
  more than half the limit, the second completion finds no room for what is
  already counted, and deletes the completed document and its object.
* `Quota` (the same): "Uploads that would exceed `PROJECT_STORAGE_LIMIT_BYTES` return
  `413 PROJECT_STORAGE_LIMIT_EXCEEDED`."  Two overlapping uploads of size 2 under limit 3 both succeed; the recorded
  total is 2.
* `LambdaRole` (the same): "The Lambda path ... applies the same ... storage-limit rules
  as `complete-upload`."  The role in `infra/terraform/main.tf` may only
  `s3:GetObject`: the rejection of a file fails at `delete_object`, before the row
  is touched, at every redelivery.  The file stays in the bucket and
  its document stays pending.
* `SeedRemoves` (`README.md`): "It recreates only the sample projects, sample
  memberships, and sample document files ..."  The script recognises projects by their
  names, so it deletes a user's project that is called like a sample one, with its
  members and documents, and leaves their files behind.

### Fairness

* `FairSpec`: weak fairness of the steps that wait for nobody: a process that runs
  goes on.  Strong fairness of the statements that wait for a row lock: PostgreSQL
  queues the waiters of a row, so a lock that is released again and again is
  granted in the end.  No fairness of requests, clients or failures.
* `ClientSpec` (`Progress`): besides, strong fairness of `complete_upload` of each
  document: a client repeats it until it is answered.
* `DeliverySpec` (`LambdaRole`): instead, strong fairness of the event of each object
  that was stored, which gives the handler more attempts than it has; the violation
  does not come from giving up.
* `ESpec` (`EventBatches`): weak fairness of an invocation that is under way; strong
  fairness of the delivery of each event (S3 delivers at least once) and of the
  repetition of each failed batch (Lambda retries).  Attempts are bounded, with the
  assumption on the last one stated above.
* `FairSpec` of `AuthService` (`Accounts`): weak fairness of the steps that wait for
  nobody, strong fairness of the entries into an index.
* `Spec` of `AppConsole`: weak fairness of each task's continuation.  `fetch` settles
  every request, with an answer or an error, and the browser runs what awaits it.
  No fairness of clicks or of successful answers.
* `Serial`, `Concurrent`, `Members`, `Reseed` and the other violations assume none.

## 4. The proofs

`DocumentServiceProofs` proves of `Spec`, for every set of processes, documents and
sizes, and every limit:

* `TypeCorrect`: `TypeOK`.  Not a mere matter of types: the totals stay natural
  because of the CHECKs, and a flushed update must still satisfy them when
  it commits, which holds since the lock keeps the row as it was checked.
* `TotalWithinLimit`: `RecordedTotalWithinLimit`.
* `DeadlockFreedom`: `NoDeadlock`.
* `DeletedStaysDeleted`: `DeletionIsFinal`, of documents and of the project.

The inductive invariant `IndInv` has five parts.  `ControlOK` says what a session's
place in its operation implies about the statements it has flushed (in particular
that the projects row is locked last, by a session whose new totals satisfy the
CHECKs).  `RoomOK` is what makes the limit go through: a session that is going to
add to the totals, or has flushed the addition, has room for it *on top of
the total it loaded*, whatever the total is by now.  `KeysOwned` says that a
key being uploaded has no row and no other session, so an INSERT never
overwrites a row.  There is one lemma per action; all of those that only move a session rest on
`SessionStep`.  Deadlock freedom needs no induction over the waiting graph: in a
set of sessions, one that holds a projects lock is at its commit and waits for
nobody; if there is none, one that waits for a document waits for a session that
waits for the projects row, and that one waits for nobody in the set.

`SerialLedgerProofs` assumes `Serial`: only one process runs the operations that adjust
the totals (upload, delete and both completions).  That is one API worker without the
event handler, or one event handler beside any number of API workers that only
presign, rename and close the project.  Under that assumption it proves

* `SerialImplementsLedger`: `ImplementsLedger`, by a refinement mapping: the commit
  of an upload or completion maps to `Add`, of a delete to `Remove`, of a rejection
  to `Reject`, and every other step to a stutter.  `SerialInv` says that what the
  adjusting session has loaded is still what the rows hold; the others may commit
  meanwhile, but only rows that were not there before (`CommitAddsPending`).
* `SerialTotalsExact`: `LedgerExact`.  The sum of the sizes is stated as the
  cardinality of the set of all recorded bytes (`Bytes`), which a library
  fact about disjoint unions extends by one document at a time.
* `SerialQuotaKept`: `LiveBytesWithinLimit`, from `LedgerExact` and
  `RecordedTotalWithinLimit`.  The documented quota, which `Quota` refutes, fails for
  no other reason than two adjusting sessions that overlap.

`StoredObjectProofs` has three parts.  The first assumes `Serial`, too:

* `SerialVisibleStored`: `VisibleOnlyWhenStored`, and `SerialObjectsStay`:
  `OnlyDeletionRemovesObject`.  `ObjectInv` says that the session's object is what the
  session knows of it: an upload's has the size it saved, a completion's that has been
  found stays until the completion purges it itself.

The second and the third are about any number of processes:

* `NothingStray`: `NoStrayObject`.  `StoredInv` adds that pending rows are presigned keys,
  which operations may be at which place (`PlaceOf`), that a deletion which has purged
  its object knows it gone (`PurgeOf`), and that every object of a direct upload has its
  row, its upload, or, after a failure, no row at all (`Kept`).  Nothing is assumed of
  failures: what one of them does is the lemma `FailStored`.
* `DirectVisibleStored`, `DirectObjectsStay`: what the first part says of every document
  holds of direct uploads without `Serial`, and whatever fails.  `DirectInv` says
  that completions work on presigned keys only, and that nobody else touches the
  object of an upload: its key has no row and no other session (`KeysOwned`), and no
  client has a URL for it.  `LocalVisibleStored` and `LocalObjectsStay` draw the
  conclusion for a deployment that presigns nothing (the local store refuses to):
  `VisibleOnlyWhenStored` and `OnlyDeletionRemovesObject` as they stand.

`S3EventsProofs` proves of `S3Events`, for every set of handlers, batches and attempts:

* `EventsAreSessions`: `ESpec` implies the `Spec` of `DocumentService`, so every theorem
  above holds with the handler around it; `BatchesImplementLedger` is the one the run
  `EventBatches` checks.
* `SuccessMeansSettled`: `SuccessSettles`.  `EventsInv` says that each record of an
  invocation's batch is left, has failed or is settled, that the session of the
  invocation works on a record that is left, and that events and retries are of
  presigned keys.  That a settled file stays settled, whatever other processes do
  (`RowsMove`), rests on the rows of presigned keys: once there, never pending again,
  since a commit that writes one is a completion's, a deletion's or a rename's
  (`ShapeOK`).

`ProjectServiceProofs` proves of `ProjectService`, for every set of processes, users,
ids and texts:

* `TypeCorrect`: `TypeOK`, in particular that a project always has a name.
* `OwnerStays`: `OneOwner`, and `MembershipUnique`: `UniqueMembership`.
* `AccessImplemented`: `ImplementsAccess`: the commit of each operation maps to the
  abstract step of its name (a removal whose row is gone, an update and an upload to
  a stutter) and every other step to a stutter.

The inductive invariant `Inv` adds four parts to these properties.  `InsertControl` is
what the unique index does for a transaction in flight: the id it inserted is nobody
else's and no present row or other INSERT in flight has its user.  `RemoveControl`
says that a removal's id once was a participant's row, so the owner's row is out
of its reach even if the row it looked up is gone.  `SessionControl` says what a
session's place says about its project (a project is absent until its creation
commits), and `OneCreator` that one creation is at work.  All actions that change
only a session rest on `SessionStep`; commits are treated by what they do to the rows
(`CommitInsertStep`, `CommitRemoveStep`, `CommitProjectStep`).

Its second part proves of `ProjectServiceHistory`, on top of `Inv`:

* `EffectsAuthorised`: `AuthorisedEffects`; `NewMembersStay`: `RemovalKeepsNewMembers`;
  `OtherFieldsStay`: `UpdateKeepsOtherFields`.

`SessionMoves` reduces every step to seven moves of a session (stay, end, arrive, load,
check, look up, go on), so the invariant `HistoryInv` is shown per move and not per
action.  Its part for removals says that the row that was looked up, if it is still
there, was there all the time (`RowsStay`: a removed row does not come back), so its user
cannot be among those who have become members since.

`AuthServiceProofs` proves of `AuthService`, for every set of processes, logins,
addresses, passwords and ids:

* `TypeCorrect`: `TypeOK`, with the lower case of stored e-mails; `ConflictsReal`:
  `ConflictsAreReal`.
* `DirectoryImplemented`: `ImplementsDirectory`: the commit maps to `Register`, a login to
  `Login`, an expiry to `Expire`, and every other step to a stutter.  The invariant says that rows are unique in id, login and e-mail, that e-mails
  are in lower case, that a token's credentials are those of its subject's row, and
  that a key an INSERT has entered is no committed row's and no other INSERT's.

`SeedDataProofs` proves of `SeedData`, for every set of sample projects, sample files and
uploads, and every bound on the ids:

* `OnlySamplesMissing`: `MissingOnlyAfterFailure`; `SampleComplete`: `SeedComplete`.
  `FilesInv` says that a key is in one row only, that no sample document appears behind
  the back of a run that has selected them, and that what a run has written stays.
* `TotalsAlwaysExact`: `TotalsExact`.  `TotalsInv` adds that the id of a project a run has
  inserted is nobody else's, that a sample document is of the project its key names,
  and that a run finds every sample project that kept its name.  The count of a new
  project's documents is a bijection with the sample files.

`AppConsoleProofs` proves of `AppConsole`, for every set of users, projects and
asynchronous functions, and every bound on the edits:

* `TypeCorrect`: `TypeOK`, in particular that the details on the screen are those of the
  selected project.
* `RefreshShowsEdit`: `OwnEditsShown`.  `ConsoleInv` adds what a task must know at each
  await (`TaskOK`: who signs in, which project is edited), and that the edit a task
  made is still there and in the details it has been given since (`EditKept`); the API
  only adds edits.

Assumptions: only those the modules name.  `DocumentService`: the kinds of processes are
disjoint, sizes are natural numbers, the limit an integer.  The theorems named `Serial...`
and `BatchesImplementLedger`: one process adjusts the totals (`Serial`); those named
`Local...`: nothing is presigned.  `ProjectService` and `AuthService`: null
values are no values.  `SeedData`: the keys of uploads (`projects/...`) are no sample keys
(`sample/projects/...`), and the sample files are finitely many.

Only model-checked: the liveness properties, which are out of the prover's reach
(`PendingUploadsResolve`, `RequestsTerminate`, `FittingFilesAccepted`,
`RegistrationsEnd`, `LoadingEnds`, `SessionSettles`).  Every other property of a run that
passes is a theorem.

## 5. What is not modelled, and the plan

Left out for good: rendering and the response envelope, field validation (stateless
and tested), password hashing and token signatures (library code), migrations and
shell scripts, the parsing of event records and key validation (pure functions of
their input).

Left out as abstractions: authorisation within `DocumentService` (it is
`ProjectService`'s `upload`), timestamps, file names and content types, the expiry of
presigned URLs, sizes and members within `SeedData`, and two seed scripts at once.

What could follow:

1. One module of `DocumentService` and `ProjectService` together, for a participant who
   is removed while a file of theirs is being stored.
2. `AppConsole`: registration and the busy flags of the forms.
3. Theorems of the safety half of the liveness arguments, such as a measure that every
   step of a session without failures decreases.
