-------------------------------- MODULE S3Events --------------------------------
(***************************************************************************)
(* The event handler (app/lambda_handlers/s3_events.py) around             *)
(* DocumentService: S3 sends the ObjectCreated events of the stored files  *)
(* in batches, at least once and in any order.  An invocation handles each *)
(* record of its batch in a session of its own, goes on after a record     *)
(* that fails, and fails as a whole in the end; it is then repeated with   *)
(* the same batch, up to a bound.  Records of other buckets and malformed  *)
(* ones are skipped and left out.                                          *)
(***************************************************************************)
EXTENDS DocumentService

CONSTANT MaxAttempts  \* invocations of one batch, the repeated ones included

ASSUME AttemptsAssumption == MaxAttempts \in Nat \ {0}

VARIABLES
    created,     \* keys whose event is still to be sent
    retries,     \* batches that failed, with the number of their attempts
    invocation   \* what each Lambda process handles

eventVars == <<created, retries, invocation>>
allVars == <<vars, eventVars>>

\* Batches that failed in an attempt that was not the last one.
Retries == [batch : SUBSET Docs, attempt : 1..(MaxAttempts - 1)]

NoInvocation == [attempt |-> 0, batch |-> {}, left |-> {}, failed |-> {}]

EInit ==
    /\ Init
    /\ created = {}
    /\ retries = {}
    /\ invocation = [p \in LambdaProcesses |-> NoInvocation]

Invoked(p) == invocation[p] # NoInvocation

Invoke(p, batch, attempt) ==
    /\ ~Invoked(p)
    /\ invocation' = [invocation EXCEPT ![p] =
            [attempt |-> attempt, batch |-> batch, left |-> batch, failed |-> {}]]
    /\ UNCHANGED vars

\* S3 sends the events of several objects at once, and may send them again.
Deliver(p, batch) ==
    /\ batch # {}
    /\ Invoke(p, batch, 1)
    /\ created' \in {created, created \ batch}
    /\ UNCHANGED retries

\* Lambda repeats an invocation that has failed.
Redeliver(p, r) ==
    /\ r \in retries
    /\ Invoke(p, r.batch, r.attempt + 1)
    /\ retries' = retries \ {r}
    /\ UNCHANGED created

\* Mutant: the project's totals are adjusted for an uploaded row, too.
TakeRecordAgain(p, d) ==
    /\ Invoked(p)
    /\ d \in invocation[p].left
    /\ ~project.deleted /\ documents[d].status \in {"pending_upload", "uploaded"}
    /\ Start(p, "complete_upload_by_storage_key",
             [Opened("complete_upload_by_storage_key", "head", d) EXCEPT
                 !.size = documents[d].size])
    /\ UNCHANGED eventVars

\* handler: the record of d is next, and opens a session for a pending row.
TakeRecord(p, d) ==
    /\ Invoked(p)
    /\ d \in invocation[p].left
    /\ CompleteUploadByStorageKey(p, d)
    /\ UNCHANGED eventVars

\* The record of d is done, and the loop goes on.
RecordDone(i, d) == [i EXCEPT !.left = @ \ {d}]

\* A row that is absent, deleted or uploaded is skipped.
SkipRecord(p, d) ==
    /\ Idle(p)
    /\ d \in invocation[p].left
    /\ project.deleted \/ ~Pending(d)
    /\ invocation' = [invocation EXCEPT ![p] = RecordDone(@, d)]
    /\ UNCHANGED <<vars, created, retries>>

\* Mutant: the first failure ends the loop.
RecordFailedBreaks(i, d) == [i EXCEPT !.left = {}, !.failed = @ \cup {d}]

\* Mutant: a failure is logged and forgotten.
RecordFailedForgets(i, d) == [i EXCEPT !.left = @ \ {d}]

\* except: the failure is noted, and the loop goes on.
RecordFailed(i, d) == [i EXCEPT !.left = @ \ {d}, !.failed = @ \cup {d}]

\* A step of the record's session; the last one ends the record.
RecordStep(p) ==
    LET d == session[p].doc IN
    /\ Step(p) \/ LockStep(p)
    /\ invocation' = [invocation EXCEPT ![p] =
                        IF ~Idle(p)' THEN @
                        ELSE IF At(p, "commit") THEN RecordDone(@, d)
                        ELSE RecordFailed(@, d)]
    /\ UNCHANGED <<created, retries>>

\* Any other exception in a record.  What fails by chance is assumed not to
\* fail in the last attempt.
RecordFails(p) ==
    /\ invocation[p].attempt < MaxAttempts
    /\ Fail(p)
    /\ invocation' = [invocation EXCEPT ![p] = RecordFailed(@, session[p].doc)]
    /\ UNCHANGED <<created, retries>>

\* The record's transaction commits and the record fails all the same: the answer
\* to the COMMIT is lost, or the row cannot be read again after it.
RefreshFails(p) ==
    /\ Faults
    /\ invocation[p].attempt < MaxAttempts
    /\ Commit(p)
    /\ invocation' = [invocation EXCEPT ![p] = RecordFailed(@, session[p].doc)]
    /\ UNCHANGED <<created, retries>>

\* A failed invocation is repeated, unless it was the last attempt.
Failed(p) ==
    LET i == invocation[p] IN
    /\ invocation' = [invocation EXCEPT ![p] = NoInvocation]
    /\ retries' = IF i.attempt = MaxAttempts THEN retries
                  ELSE retries \cup {[batch |-> i.batch, attempt |-> i.attempt]}
    /\ UNCHANGED created

\* The end of handler: it returns, or raises S3EventProcessingError.
Return(p) ==
    /\ Invoked(p) /\ Idle(p)
    /\ invocation[p].left = {}
    /\ UNCHANGED vars
    /\ IF invocation[p].failed # {} THEN Failed(p)
       ELSE /\ invocation' = [invocation EXCEPT ![p] = NoInvocation]
            /\ UNCHANGED <<created, retries>>

\* The function's timeout ends the invocation at any point.
TimeOut(p) ==
    /\ Faults /\ Invoked(p)
    /\ invocation[p].attempt < MaxAttempts
    /\ \/ Fail(p)
       \/ Idle(p) /\ UNCHANGED vars
    /\ Failed(p)

Handle(p) ==
    \/ \E d \in Docs : TakeRecord(p, d) \/ SkipRecord(p, d)
    \/ RecordStep(p) \/ Return(p)

ENext ==
    \/ \E p \in ApiProcesses :
        /\ Request(p) \/ Step(p) \/ LockStep(p) \/ Fail(p)
        /\ UNCHANGED eventVars
    \/ \E d \in Docs :
        /\ ClientPut(d)
        /\ created' = created \cup {d}
        /\ UNCHANGED <<retries, invocation>>
    \/ \E p \in LambdaProcesses :
        \/ \E batch \in SUBSET created : Deliver(p, batch)
        \/ \E r \in Retries : Redeliver(p, r)
        \/ Handle(p) \/ RecordFails(p) \/ RefreshFails(p) \/ TimeOut(p)

\* An invocation goes on; every event is sent, and every failed batch again.
ESpec ==
    /\ EInit /\ [][ENext]_allVars
    /\ \A p \in LambdaProcesses :
        /\ WF_allVars(Handle(p))
        /\ \A r \in Retries : SF_allVars(Redeliver(p, r))
        /\ \A d \in Docs :
            SF_allVars(\E batch \in SUBSET created : d \in batch /\ Deliver(p, batch))

--------------------------------------------------------------------------------
(* Properties.                                                             *)

\* An invocation that reports success leaves none of its files waiting.
SuccessSettles ==
    [][\A p \in LambdaProcesses :
            /\ Invoked(p) /\ ~Invoked(p)'
            /\ invocation[p].left = {} /\ invocation[p].failed = {}
            => \A d \in invocation[p].batch : ~Pending(d) \/ project.deleted]_allVars

\* A file that fits is accepted in the end, although its batch may hold another
\* one that fails at every attempt: one the handler would have to reject, but
\* whose object its role may not delete.
FittingFilesAccepted ==
    \A d \in Docs :
        d \in notified /\ Pending(d) ~>
            \/ ~Pending(d) \/ project.deleted
            \/ ~HasStorageAvailable(project.total_size_bytes, objects[d])
================================================================================
