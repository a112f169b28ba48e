----------------------------- MODULE S3EventsProofs -----------------------------
(***************************************************************************)
(* Theorems about the event handler for any number of invocations, batches *)
(* and attempts.  Around the sessions of DocumentService it only decides   *)
(* when they start, so what is proved of those holds here; and a batch     *)
(* that is reported as handled is.                                         *)
(***************************************************************************)
EXTENDS S3Events, StoredObjectProofs

(***************************************************************************)
(* The handler implements DocumentService.                                 *)
(***************************************************************************)

USE DEF Processes, Uploads, Completions, Requests, NoObject

LEMMA EventsStep == [ENext]_allVars => [Next]_vars
  <1> SUFFICES ASSUME [ENext]_allVars
               PROVE  [Next]_vars
    OBVIOUS
  <1>1. ASSUME NEW p \in ApiProcesses, Request(p) \/ Step(p) \/ LockStep(p) \/ Fail(p)
        PROVE  Next
    BY <1>1 DEF Next
  <1>2. ASSUME NEW d \in Docs, ClientPut(d) PROVE Next
    BY <1>2 DEF Next
  <1>3. ASSUME NEW p \in LambdaProcesses, NEW batch, NEW attempt, Invoke(p, batch, attempt)
        PROVE  UNCHANGED vars
    BY <1>3 DEF Invoke
  <1>4. ASSUME NEW p \in LambdaProcesses, Handle(p)
        PROVE  [Next]_vars
    <2>1. ASSUME NEW d \in Docs, TakeRecord(p, d) PROVE Next
      BY <2>1 DEF TakeRecord, Next, Event
    <2>2. ASSUME NEW d \in Docs, SkipRecord(p, d) PROVE UNCHANGED vars
      BY <2>2 DEF SkipRecord
    <2>3. CASE RecordStep(p)
      BY <2>3 DEF RecordStep, Next
    <2>4. CASE Return(p)
      BY <2>4 DEF Return
    <2> QED
      BY <1>4, <2>1, <2>2, <2>3, <2>4 DEF Handle
  <1>5. ASSUME NEW p \in LambdaProcesses, RecordFails(p) \/ RefreshFails(p) \/ TimeOut(p)
        PROVE  [Next]_vars
    BY <1>5 DEF RecordFails, RefreshFails, TimeOut, Step, Next
  <1>6. CASE UNCHANGED allVars
    BY <1>6 DEF allVars
  <1> QED
    BY <1>1, <1>2, <1>3, <1>4, <1>5, <1>6 DEF ENext, Deliver, Redeliver

\* The batches, repetitions and timeouts of the handler add nothing to what the
\* sessions may do one by one.
THEOREM EventsAreSessions == ESpec => Spec
  BY EventsStep, PTL DEF ESpec, EInit, Spec

\* One handler beside any number of API workers that presign: the rows behave as
\* the ledger, whatever is delivered again, repeated or cut short.
THEOREM BatchesImplementLedger ==
    ASSUME Serial
    PROVE  ESpec => ImplementsLedger
  BY EventsAreSessions, SerialImplementsLedger

(***************************************************************************)
(* What an invocation has done: the inductive invariant.                   *)
(***************************************************************************)

Settled(d) == ~Pending(d) \/ project.deleted

\* The records of a batch are left, have failed, or are settled; the session of
\* an invocation completes the upload of a record that is left.
BatchOK(p) ==
    LET i == invocation[p] IN
    /\ i.batch \subseteq presigned
    /\ i.left \subseteq i.batch
    /\ ~Idle(p) => /\ session[p].op = "complete_upload_by_storage_key"
                   /\ session[p].doc \in i.left
    /\ \A d \in i.batch : d \in i.left \cup i.failed \/ Settled(d)

Invocations ==
    [attempt : Nat, batch : SUBSET Docs, left : SUBSET Docs, failed : SUBSET Docs]

\* Only rows that once were pending have events: a row that is not pending any
\* more never is again.
EventsInv ==
    /\ \A d \in presigned : documents[d] # NoRow
    /\ created \subseteq presigned
    /\ \A r \in retries : r.batch \subseteq presigned
    /\ invocation \in [LambdaProcesses -> Invocations]
    /\ \A p \in LambdaProcesses : BatchOK(p)

--------------------------------------------------------------------------------
(* The rows.                                                               *)

\* Presigned keys keep their rows, and settled ones stay settled.
RowsMove ==
    /\ presigned \subseteq presigned'
    /\ \A d \in presigned' : documents'[d] # NoRow
    /\ \A d \in presigned : Settled(d) => Settled(d)'

LEMMA CommitMoves ==
    ASSUME IndInv, ShapeOK, \A d \in presigned : documents[d] # NoRow,
           NEW p \in Processes, Commit(p)
    PROVE  RowsMove
  <1> DEFINE s == session[p]
  <1>1. /\ s \in Sessions /\ SessionControl(s)
        /\ documents \in [Docs -> Rows] /\ presigned \subseteq Docs
    BY DEF IndInv, TypeOK, ControlOK
  <1>2. \A d \in Docs : documents'[d] = IF d = s.doc THEN FlushedRow(s) ELSE documents[d]
    BY DEF Commit
  <1>3. presigned' = presigned \cup {d \in {s.doc} : s.op = "presign_upload"}
    BY DEF Commit
  <1>4. "insert" \in s.flushed =>
            documents[s.doc] = NoRow /\ FlushedRow(s).status # "absent"
    BY <1>1 DEF SessionControl, IndInv, KeysOwned, KeyOwned, FlushedRow, CreatedRow
  <1>5. ASSUME s.doc \in Docs, "insert" \notin s.flushed
        PROVE  FlushedRow(s) = documents[s.doc]
                \/ FlushedRow(s).status \in {"uploaded", "deleted"}
    BY <1>1, <1>5 DEF FlushedRow, MarkedRow, DeletedRow, Rows
  <1>6. project.deleted => project'.deleted
    BY DEF Commit, FlushedProject, IndInv, TypeOK
  <1>7. s.op = "presign_upload" => s.doc \in Docs /\ "insert" \in s.flushed
    BY <1>1 DEF SessionControl, ShapeOK, SessionShape, Commit, At
  <1> QED
    BY <1>1, <1>2, <1>3, <1>4, <1>5, <1>6, <1>7 DEF RowsMove, Settled, Pending, NoRow

LEMMA RowsStep ==
    ASSUME IndInv, ShapeOK, \A d \in presigned : documents[d] # NoRow, [Next]_vars
    PROVE  RowsMove
  <1>1. UNCHANGED presigned \/ \E p \in Processes : Commit(p)
    BY DEF Next, Request, Event, Step, LockStep, Fail, ClientPut, Upload, PresignUpload,
           CompleteUpload, CompleteUploadByStorageKey, Update, Delete, DeleteProject,
           Start, Save, HeadObject, HeadMissing, Purge, PurgeDenied, LoadProject, Insert,
           MarkUploaded, SoftDelete, Rename, AdjustDocumentTotals, AdjustViolatesCheck,
           CloseProject, Flush, Close, vars
  <1>2. CASE UNCHANGED <<documents, project, presigned>>
    BY <1>2 DEF RowsMove, Settled, Pending
  <1> QED
    BY <1>1, <1>2, OnlyCommitWrites, CommitMoves

\* The commit of a completion settles its document.
LEMMA CommitSettles ==
    ASSUME IndInv, ShapeOK, NEW p \in Processes, Commit(p),
           session[p].op \in Completions, NEW d \in Docs, d = session[p].doc
    PROVE  Settled(d)'
  <1>1. session[p].flushed \in {{"mark", "adjust"}, {"soft_delete"}}
    BY DEF ShapeOK, SessionShape, Commit, At
  <1>2. documents'[d] = FlushedRow(session[p]) /\ documents[d] \in Rows
    BY DEF Commit, IndInv, TypeOK
  <1>3. documents'[d].status # "pending_upload"
    BY <1>1, <1>2 DEF FlushedRow, MarkedRow, DeletedRow, Rows
  <1> QED
    BY <1>3 DEF Settled, Pending

--------------------------------------------------------------------------------
(* The sessions of the other processes, and the end of a session.          *)

LEMMA OthersStay ==
    ASSUME IndInv, NEW p \in Processes,
           \/ Request(p) \/ Event(p) \/ Step(p) \/ LockStep(p) \/ Fail(p)
    PROVE  \A q \in Processes \ {p} : session'[q] = session[q]
  BY DEF IndInv, TypeOK, Request, Event, Step, LockStep, Fail, Upload, PresignUpload,
         CompleteUpload, CompleteUploadByStorageKey, Update, Delete, DeleteProject,
         Start, Save, HeadObject, HeadMissing, Purge, PurgeDenied, LoadProject, Insert,
         Commit, MarkUploaded, SoftDelete, Rename, AdjustDocumentTotals,
         AdjustViolatesCheck, CloseProject, Flush, Goto, Close

\* A session keeps its operation and its document until it ends; it ends at its
\* commit, or without one.
LEMMA SessionGoesOn ==
    ASSUME IndInv, NEW p \in Processes, Step(p) \/ LockStep(p)
    PROVE  /\ ~Idle(p)
           /\ \/ Idle(p)'
              \/ /\ session'[p].op = session[p].op
                 /\ session'[p].doc = session[p].doc
           /\ At(p, "commit") => Commit(p)
  <1>1. session[p] \in Sessions
    BY DEF IndInv, TypeOK
  <1>2. ASSUME NEW s, session' = [session EXCEPT ![p] = s]
        PROVE  session'[p] = s
    BY <1>2 DEF IndInv, TypeOK
  <1>3. CASE Save(p) \/ Purge(p)
    BY <1>1, <1>2, <1>3 DEF Save, Purge, Goto, Idle, At, Sessions, IndInv, TypeOK
  <1>4. CASE HeadObject(p)
    BY <1>1, <1>4 DEF HeadObject, Idle, At, Sessions, IndInv, TypeOK
  <1>5. CASE LoadProject(p)
    <2> DEFINE s == [session[p] EXCEPT
                       !.count = project.documents_count,
                       !.total = project.total_size_bytes,
                       !.pc = IF Accepts(session[p]) THEN "mark" ELSE "purge"]
    <2>1. s.op = session[p].op /\ s.doc = session[p].doc
      BY <1>1 DEF Sessions
    <2>2. session'[p] = s
      BY <1>5 DEF LoadProject, IndInv, TypeOK
    <2> HIDE DEF s
    <2> QED
      BY <1>5, <2>1, <2>2 DEF LoadProject, Idle, At
  <1>6. CASE \/ Insert(p) \/ MarkUploaded(p) \/ SoftDelete(p) \/ Rename(p)
             \/ AdjustDocumentTotals(p) \/ CloseProject(p)
    BY <1>1, <1>2, <1>6
    DEF Insert, MarkUploaded, SoftDelete, Rename, AdjustDocumentTotals, CloseProject,
        Flush, Idle, At, Sessions, IndInv, TypeOK
  <1>7. CASE \/ HeadMissing(p) \/ PurgeDenied(p) \/ AdjustViolatesCheck(p) \/ Commit(p)
    BY <1>2, <1>7
    DEF HeadMissing, PurgeDenied, AdjustViolatesCheck, Commit, Close, NoSession, Idle, At
  <1> QED
    BY <1>3, <1>4, <1>5, <1>6, <1>7 DEF Step, LockStep

--------------------------------------------------------------------------------
(* The handler.                                                            *)

\* A step that replaces the invocation of p.
LEMMA InvocationStep ==
    ASSUME EventsInv, RowsMove, NEW p \in LambdaProcesses, NEW i \in Invocations,
           invocation' = [invocation EXCEPT ![p] = i],
           \A q \in Processes \ {p} : session'[q] = session[q],
           i.batch \subseteq presigned', i.left \subseteq i.batch,
           Idle(p)' \/ /\ session'[p].op = "complete_upload_by_storage_key"
                       /\ session'[p].doc \in i.left,
           \A d \in i.batch : d \in i.left \cup i.failed \/ Settled(d)',
           created' \subseteq presigned,
           \A r \in retries' : r.batch \subseteq presigned
    PROVE  EventsInv'
  <1>1. invocation' \in [LambdaProcesses -> Invocations]
    BY DEF EventsInv
  <1>2. invocation'[p] = i /\ \A q \in LambdaProcesses \ {p} : invocation'[q] = invocation[q]
    BY DEF EventsInv
  <1>3. BatchOK(p)'
    BY <1>2 DEF BatchOK, Idle, At
  <1>4. ASSUME NEW q \in LambdaProcesses \ {p}
        PROVE  BatchOK(q)'
    <2>1. BatchOK(q) /\ session'[q] = session[q] /\ invocation'[q] = invocation[q]
      BY <1>2 DEF EventsInv
    <2> QED
      BY <2>1 DEF BatchOK, RowsMove, Idle, At
  <1>5. \A q \in LambdaProcesses : BatchOK(q)'
    BY <1>3, <1>4
  <1> QED
    BY <1>1, <1>5 DEF EventsInv, RowsMove

\* A step of the API processes and the clients.
LEMMA OutsideStep ==
    ASSUME EventsInv, RowsMove, UNCHANGED <<retries, invocation>>,
           \A q \in LambdaProcesses : session'[q] = session[q],
           created' \subseteq presigned
    PROVE  EventsInv'
  <1>1. \A q \in LambdaProcesses : BatchOK(q)'
    BY DEF EventsInv, BatchOK, RowsMove, Idle, At
  <1> QED
    BY <1>1 DEF EventsInv, RowsMove

\* An invocation starts when the process runs no other one.
LEMMA InvokeStep ==
    ASSUME IndInv, EventsInv, RowsMove, NEW p \in LambdaProcesses,
           NEW batch \in SUBSET presigned, NEW attempt \in Nat, Invoke(p, batch, attempt),
           created' \subseteq created, retries' \subseteq retries
    PROVE  EventsInv'
  <1> DEFINE i == [attempt |-> attempt, batch |-> batch, left |-> batch, failed |-> {}]
  <1>1. i \in Invocations
    BY DEF Invocations, IndInv, TypeOK
  <1>2. Idle(p)'
    BY DEF Invoke, Invoked, NoInvocation, EventsInv, BatchOK, Idle, At, vars
  <1>3. \A q \in Processes \ {p} : session'[q] = session[q]
    BY DEF Invoke, vars
  <1>4. invocation' = [invocation EXCEPT ![p] = i]
    BY DEF Invoke
  <1>5. /\ i.batch = batch /\ i.left = batch /\ i.failed = {}
    OBVIOUS
  <1> HIDE DEF i
  <1> QED
    BY <1>1, <1>2, <1>3, <1>4, <1>5, InvocationStep DEF EventsInv, RowsMove

LEMMA TakeRecordStep ==
    ASSUME IndInv, EventsInv, RowsMove, NEW p \in LambdaProcesses, NEW d \in Docs,
           TakeRecord(p, d)
    PROVE  EventsInv'
  <1> DEFINE i == invocation[p]
             s == [Opened("complete_upload_by_storage_key", "head", d)
                     EXCEPT !.size = documents[d].size]
  <1>1. i \in Invocations /\ BatchOK(p)
    BY DEF EventsInv
  <1>2. s.op = "complete_upload_by_storage_key" /\ s.doc = d
    BY DEF Opened, NoSession
  <1>3. session'[p] = s /\ \A q \in Processes \ {p} : session'[q] = session[q]
    BY DEF TakeRecord, CompleteUploadByStorageKey, Start, IndInv, TypeOK
  <1>4. invocation' = [invocation EXCEPT ![p] = i]
    BY DEF TakeRecord, eventVars, EventsInv
  <1>5. UNCHANGED <<created, retries>> /\ d \in i.left
    BY DEF TakeRecord, eventVars
  <1> HIDE DEF s
  <1>6. /\ i.batch \subseteq presigned' /\ i.left \subseteq i.batch
        /\ \A e \in i.batch : e \in i.left \cup i.failed \/ Settled(e)'
    BY <1>1 DEF BatchOK, RowsMove
  <1> QED
    BY <1>1, <1>2, <1>3, <1>4, <1>5, <1>6, InvocationStep DEF EventsInv

\* A record ends, as settled or as failed.
LEMMA RecordEnds ==
    ASSUME IndInv, EventsInv, RowsMove, NEW p \in LambdaProcesses, NEW d \in Docs,
           NEW i,
           \/ /\ i = RecordDone(invocation[p], d)
              /\ Settled(d)'
           \/ i = RecordFailed(invocation[p], d),
           invocation' = [invocation EXCEPT ![p] = i],
           Idle(p)', \A q \in Processes \ {p} : session'[q] = session[q],
           UNCHANGED <<created, retries>>
    PROVE  EventsInv'
  <1> DEFINE j == invocation[p]
  <1>1. j \in Invocations /\ BatchOK(p)
    BY DEF EventsInv
  <1>2. /\ i \in Invocations
        /\ i.batch = j.batch /\ i.left = j.left \ {d}
        /\ j.failed \subseteq i.failed
        /\ d \in i.failed \/ Settled(d)'
    <2>1. \/ i = [j EXCEPT !.left = j.left \ {d}] /\ Settled(d)'
          \/ i = [j EXCEPT !.left = j.left \ {d}, !.failed = j.failed \cup {d}]
      BY DEF RecordDone, RecordFailed
    <2> HIDE DEF j
    <2>2. j.left \ {d} \in SUBSET Docs /\ j.failed \cup {d} \in SUBSET Docs
      BY <1>1 DEF Invocations
    <2>3. CASE i = [j EXCEPT !.left = j.left \ {d}] /\ Settled(d)'
      BY <1>1, <2>2, <2>3 DEF Invocations
    <2>4. CASE i = [j EXCEPT !.left = j.left \ {d}, !.failed = j.failed \cup {d}]
      BY <1>1, <2>2, <2>4 DEF Invocations
    <2> QED
      BY <2>1, <2>3, <2>4
  <1>3. i.batch \subseteq presigned' /\ i.left \subseteq i.batch
    BY <1>1, <1>2 DEF BatchOK, RowsMove
  <1>4. ASSUME NEW e \in i.batch
        PROVE  e \in i.left \cup i.failed \/ Settled(e)'
    <2>1. e \in presigned /\ (e \in j.left \cup j.failed \/ Settled(e))
      BY <1>1, <1>2 DEF BatchOK
    <2>2. Settled(e) => Settled(e)'
      BY <2>1 DEF RowsMove
    <2> QED
      BY <1>2, <2>1, <2>2
  <1> QED
    BY <1>2, <1>3, <1>4, InvocationStep DEF EventsInv

LEMMA SkipRecordStep ==
    ASSUME IndInv, EventsInv, RowsMove, NEW p \in LambdaProcesses, NEW d \in Docs,
           SkipRecord(p, d)
    PROVE  EventsInv'
  <1>1. Settled(d)'
    BY DEF SkipRecord, Settled, Pending, vars
  <1>2. Idle(p)' /\ \A q \in Processes \ {p} : session'[q] = session[q]
    BY DEF SkipRecord, Idle, At, vars
  <1>3. invocation' = [invocation EXCEPT ![p] = RecordDone(invocation[p], d)]
    BY DEF SkipRecord, EventsInv
  <1> QED
    BY <1>1, <1>2, <1>3, RecordEnds DEF SkipRecord

LEMMA RecordStepStep ==
    ASSUME IndInv, ShapeOK, EventsInv, RowsMove, NEW p \in LambdaProcesses, RecordStep(p)
    PROVE  EventsInv'
  <1>1. /\ Step(p) \/ LockStep(p)
        /\ UNCHANGED <<created, retries>>
    BY DEF RecordStep
  <1>2. /\ ~Idle(p) /\ \A q \in Processes \ {p} : session'[q] = session[q]
        /\ \/ Idle(p)'
           \/ session'[p].op = session[p].op /\ session'[p].doc = session[p].doc
        /\ At(p, "commit") => Commit(p)
    BY <1>1, SessionGoesOn, OthersStay
  <1>3. invocation[p] \in Invocations /\ BatchOK(p) /\ presigned \subseteq Docs
    BY DEF EventsInv, IndInv, TypeOK
  <1>4. PICK d \in Docs : d = session[p].doc
    BY <1>2, <1>3 DEF BatchOK
  <1>5. CASE ~Idle(p)'
    <2>1. invocation' = [invocation EXCEPT ![p] = invocation[p]]
      BY <1>5 DEF RecordStep, EventsInv
    <2>2. /\ invocation[p].batch \subseteq presigned'
          /\ \A e \in invocation[p].batch :
                e \in invocation[p].left \cup invocation[p].failed \/ Settled(e)'
      BY <1>3 DEF BatchOK, RowsMove
    <2>3. /\ session'[p].op = "complete_upload_by_storage_key"
          /\ session'[p].doc \in invocation[p].left
          /\ invocation[p].left \subseteq invocation[p].batch
      BY <1>2, <1>3, <1>5 DEF BatchOK
    <2> QED
      BY <1>1, <1>2, <1>3, <2>1, <2>2, <2>3, InvocationStep DEF EventsInv
  <1>6. CASE Idle(p)' /\ At(p, "commit")
    <2>1. Settled(d)'
      BY <1>2, <1>3, <1>4, <1>6, CommitSettles DEF BatchOK
    <2>2. invocation' = [invocation EXCEPT ![p] = RecordDone(invocation[p], d)]
      BY <1>4, <1>6 DEF RecordStep, EventsInv
    <2> QED
      BY <1>1, <1>2, <1>6, <2>1, <2>2, RecordEnds
  <1>7. CASE Idle(p)' /\ ~At(p, "commit")
    <2>1. invocation' = [invocation EXCEPT ![p] = RecordFailed(invocation[p], d)]
      BY <1>4, <1>7 DEF RecordStep, EventsInv
    <2> QED
      BY <1>1, <1>2, <1>7, <2>1, RecordEnds
  <1> QED
    BY <1>5, <1>6, <1>7

LEMMA RecordFailsStep ==
    ASSUME IndInv, EventsInv, RowsMove, NEW p \in LambdaProcesses, RecordFails(p)
    PROVE  EventsInv'
  <1>1. /\ ~Idle(p) /\ Idle(p)'
        /\ \A q \in Processes \ {p} : session'[q] = session[q]
        /\ UNCHANGED <<created, retries>>
    BY OthersStay DEF RecordFails, Fail, Close, NoSession, Idle, At, IndInv, TypeOK
  <1>2. BatchOK(p) /\ presigned \subseteq Docs
    BY DEF EventsInv, IndInv, TypeOK
  <1>3. PICK d \in Docs : d = session[p].doc
    BY <1>1, <1>2 DEF BatchOK
  <1>4. invocation' = [invocation EXCEPT ![p] = RecordFailed(invocation[p], d)]
    BY <1>3 DEF RecordFails, EventsInv
  <1> QED
    BY <1>1, <1>4, RecordEnds

\* A record that is reported as failed although it has been committed.
LEMMA RefreshFailsStep ==
    ASSUME IndInv, EventsInv, RowsMove, NEW p \in LambdaProcesses, RefreshFails(p)
    PROVE  EventsInv'
  <1>1. /\ ~Idle(p) /\ Idle(p)'
        /\ \A q \in Processes \ {p} : session'[q] = session[q]
        /\ UNCHANGED <<created, retries>>
    BY DEF RefreshFails, Commit, NoSession, Idle, At, IndInv, TypeOK
  <1>2. BatchOK(p) /\ presigned \subseteq Docs
    BY DEF EventsInv, IndInv, TypeOK
  <1>3. PICK d \in Docs : d = session[p].doc
    BY <1>1, <1>2 DEF BatchOK
  <1>4. invocation' = [invocation EXCEPT ![p] = RecordFailed(invocation[p], d)]
    BY <1>3 DEF RefreshFails, EventsInv
  <1> QED
    BY <1>1, <1>4, RecordEnds

\* The end of an invocation.
LEMMA InvocationEnds ==
    ASSUME IndInv, EventsInv, RowsMove, NEW p \in LambdaProcesses,
           invocation' = [invocation EXCEPT ![p] = NoInvocation],
           Idle(p)', \A q \in Processes \ {p} : session'[q] = session[q],
           UNCHANGED <<created, retries>> \/ Failed(p)
    PROVE  EventsInv'
  <1>1. NoInvocation \in Invocations
    BY DEF NoInvocation, Invocations
  <1>2. /\ NoInvocation.batch = {} /\ NoInvocation.left = {}
    BY DEF NoInvocation
  <1>3. created' \subseteq presigned /\ \A r \in retries' : r.batch \subseteq presigned
    <2>1. BatchOK(p)
      BY DEF EventsInv
    <2> QED
      BY <2>1 DEF EventsInv, BatchOK, Failed
  <1> QED
    BY <1>1, <1>2, <1>3, InvocationStep

LEMMA TimeOutStep ==
    ASSUME IndInv, EventsInv, RowsMove, NEW p \in LambdaProcesses, TimeOut(p)
    PROVE  EventsInv'
  <1>1. Idle(p)' /\ \A q \in Processes \ {p} : session'[q] = session[q]
    BY OthersStay DEF TimeOut, Fail, Close, NoSession, Idle, At, IndInv, TypeOK, vars
  <1> QED
    BY <1>1, InvocationEnds DEF TimeOut, Failed

LEMMA ReturnStep ==
    ASSUME IndInv, EventsInv, RowsMove, NEW p \in LambdaProcesses, Return(p)
    PROVE  EventsInv'
  <1>1. Idle(p)' /\ \A q \in Processes \ {p} : session'[q] = session[q]
    BY DEF Return, Idle, At, vars
  <1> QED
    BY <1>1, InvocationEnds DEF Return, Failed

LEMMA EventsInitially == EInit => IndInv /\ ShapeOK /\ EventsInv
  <1>1. EInit => IndInv
    BY Initially DEF EInit
  <1>2. EInit => ShapeOK
    <2>1. SessionShape(NoSession)
      BY DEF NoSession, SessionShape
    <2> QED
      BY <2>1 DEF EInit, Init, ShapeOK
  <1>3. EInit => EventsInv
    BY DEF EInit, Init, EventsInv, BatchOK, NoInvocation, Invocations, NoSession, Idle, At
  <1> QED
    BY <1>1, <1>2, <1>3

LEMMA EventsInductive ==
    ASSUME IndInv, ShapeOK, EventsInv, [ENext]_allVars
    PROVE  EventsInv'
  <1>1. RowsMove
    BY EventsStep, RowsStep DEF EventsInv
  <1>2. created \subseteq presigned /\ notified \subseteq presigned
    BY DEF EventsInv, IndInv, TypeOK
  <1>3. ASSUME NEW p \in ApiProcesses, Request(p) \/ Step(p) \/ LockStep(p) \/ Fail(p),
               UNCHANGED eventVars
        PROVE  EventsInv'
    <2>1. \A q \in LambdaProcesses : session'[q] = session[q]
      BY <1>3, OthersStay, ProcessAssumption
    <2> QED
      BY <1>1, <1>2, <1>3, <2>1, OutsideStep DEF eventVars
  <1>4. ASSUME NEW d \in Docs, ClientPut(d), created' = created \cup {d},
               UNCHANGED <<retries, invocation>>
        PROVE  EventsInv'
    <2>1. d \in presigned /\ UNCHANGED session
      BY <1>4 DEF ClientPut
    <2> QED
      BY <1>1, <1>2, <1>4, <2>1, OutsideStep
  <1>5. ASSUME NEW p \in LambdaProcesses, NEW batch \in SUBSET created, Deliver(p, batch)
        PROVE  EventsInv'
    BY <1>1, <1>2, <1>5, InvokeStep DEF Deliver
  <1>6. ASSUME NEW p \in LambdaProcesses, NEW r \in Retries, Redeliver(p, r)
        PROVE  EventsInv'
    <2>1. r.batch \in SUBSET presigned /\ r.attempt + 1 \in Nat
      BY <1>6, AttemptsAssumption DEF Redeliver, EventsInv, Retries
    <2> QED
      BY <1>1, <1>6, <2>1, InvokeStep DEF Redeliver
  <1>7. ASSUME NEW p \in LambdaProcesses, Handle(p)
        PROVE  EventsInv'
    BY <1>1, <1>7, TakeRecordStep, SkipRecordStep, RecordStepStep, ReturnStep DEF Handle
  <1>8. ASSUME NEW p \in LambdaProcesses, RecordFails(p) \/ RefreshFails(p) \/ TimeOut(p)
        PROVE  EventsInv'
    BY <1>1, <1>8, RecordFailsStep, RefreshFailsStep, TimeOutStep
  <1>9. CASE UNCHANGED allVars
    BY <1>1, <1>2, <1>9, OutsideStep DEF allVars, eventVars, vars
  <1> QED
    BY <1>3, <1>4, <1>5, <1>6, <1>7, <1>8, <1>9 DEF ENext

LEMMA EventsInvariance == ESpec => [](IndInv /\ ShapeOK /\ EventsInv)
  <1>1. IndInv /\ ShapeOK /\ EventsInv /\ [ENext]_allVars
            => (IndInv /\ ShapeOK /\ EventsInv)'
    BY EventsStep, Inductive, ShapeInductive, EventsInductive
  <1> QED
    BY <1>1, EventsInitially, PTL DEF ESpec

\* An invocation that ends without a failure has settled every file of its batch,
\* also those it skipped and those that other processes handled meanwhile, and
\* however often the batch was cut short and repeated.
THEOREM SuccessMeansSettled == ESpec => SuccessSettles
  <1> DEFINE Settles ==
        \A p \in LambdaProcesses :
            /\ Invoked(p) /\ ~Invoked(p)'
            /\ invocation[p].left = {} /\ invocation[p].failed = {}
            => \A d \in invocation[p].batch : ~Pending(d) \/ project.deleted
  <1>1. EventsInv => Settles
    BY DEF EventsInv, BatchOK, Settled
  <1> QED
    BY <1>1, EventsInvariance, PTL DEF ESpec, SuccessSettles
================================================================================
