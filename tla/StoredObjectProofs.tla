--------------------------- MODULE StoredObjectProofs ---------------------------
(***************************************************************************)
(* The rows and the objects.  While one process adjusts the totals, they   *)
(* agree: a document becomes visible only with its object, and keeps it    *)
(* until it is deleted, for every set of documents and sizes, every limit  *)
(* and every failure.  Direct uploads keep that for any number of          *)
(* processes, and only an upload that fails leaves its object behind.      *)
(***************************************************************************)
EXTENDS SerialLedgerProofs

(***************************************************************************)
(* What a session knows of its object.                                     *)
(***************************************************************************)

\* The object of a session is as the session knows it.
ObjectKnown(s) ==
    /\ s.op = "upload" => s.doc \notin presigned
    /\ s.op = "upload" /\ s.pc \in {"insert", "adjust", "commit"} =>
            objects[s.doc] = s.metadata
    /\ s.op \in Completions
        /\ (s.pc \in {"load_project", "mark", "adjust"} \/ "mark" \in s.flushed) =>
            objects[s.doc] # NoObject

ObjectInv ==
    /\ \A d \in Docs : documents[d].status = "pending_upload" => d \in presigned
    /\ \A p \in Processes : ObjectKnown(session[p])

USE DEF Uploads, Completions, Requests, NoObject, Adjusting

--------------------------------------------------------------------------------

\* A step that moves only the session of p.
LEMMA KnownStep ==
    ASSUME IndInv, ObjectInv, NEW p \in Processes, NEW s,
           session' = [session EXCEPT ![p] = s],
           UNCHANGED <<documents, objects, presigned>>,
           ObjectKnown(s)
    PROVE  ObjectInv'
  <1>1. \A q \in Processes : session'[q] = IF q = p THEN s ELSE session[q]
    BY DEF IndInv, TypeOK
  <1>2. \A q \in Processes : ObjectKnown(session[q])'
    BY <1>1 DEF ObjectInv, ObjectKnown
  <1> QED
    BY <1>2 DEF ObjectInv

\* Steps that change an object or the rows: the sessions that look at objects are
\* those that adjust the totals, and such a session is alone.
LEMMA AloneKnown ==
    ASSUME Serial, IndInv, SerialInv, ObjectInv, NEW p \in Processes,
           session[p].op \in Adjusting, NEW s,
           session' = [session EXCEPT ![p] = s],
           ObjectKnown(session[p])'
    PROVE  \A q \in Processes : ObjectKnown(session[q])'
  <1>1. \A q \in Processes : session'[q] = IF q = p THEN s ELSE session[q]
    BY DEF IndInv, TypeOK
  <1>2. \A q \in Processes \ {p} : session[q].op \notin Adjusting
    BY AdjustsAlone
  <1> QED
    BY <1>1, <1>2 DEF ObjectKnown

LEMMA RequestKnown ==
    ASSUME IndInv, ObjectInv, NEW p \in ApiProcesses, Request(p)
    PROVE  ObjectInv'
  <1>1. ASSUME NEW d \in Docs, NEW size \in Sizes, Upload(p, d, size)
        PROVE  ObjectInv'
    <2> DEFINE s == [Opened("upload", "save", d) EXCEPT
                       !.metadata = size,
                       !.count = project.documents_count,
                       !.total = project.total_size_bytes]
    <2>1. ObjectKnown(s)
      BY <1>1 DEF Upload, FreshKey, ObjectKnown, Opened, NoSession
    <2> QED
      BY <1>1, <2>1, KnownStep DEF Processes, Upload, Start
  <1>2. ASSUME NEW d \in Docs, PresignUpload(p, d)
        PROVE  ObjectInv'
    <2> DEFINE s == Opened("presign_upload", "insert", d)
    <2>1. ObjectKnown(s)
      BY DEF ObjectKnown, Opened, NoSession
    <2> QED
      BY <1>2, <2>1, KnownStep DEF Processes, PresignUpload, Start
  <1>3. ASSUME NEW d \in Docs, CompleteUpload(p, d)
        PROVE  ObjectInv'
    <2> DEFINE s == [Opened("complete_upload", "head", d)
                       EXCEPT !.size = documents[d].size]
    <2>1. ObjectKnown(s)
      BY DEF ObjectKnown, Opened, NoSession
    <2> QED
      BY <1>3, <2>1, KnownStep DEF Processes, CompleteUpload, Start
  <1>4. ASSUME NEW d \in Docs, Update(p, d)
        PROVE  ObjectInv'
    <2> DEFINE s == Opened("update", "rename", d)
    <2>1. ObjectKnown(s)
      BY DEF ObjectKnown, Opened, NoSession
    <2> QED
      BY <1>4, <2>1, KnownStep DEF Processes, Update, Start
  <1>5. ASSUME NEW d \in Docs, Delete(p, d)
        PROVE  ObjectInv'
    <2> DEFINE s == [Opened("delete", "load_project", d)
                       EXCEPT !.size = documents[d].size]
    <2>1. ObjectKnown(s)
      BY DEF ObjectKnown, Opened, NoSession
    <2> QED
      BY <1>5, <2>1, KnownStep DEF Processes, Delete, Start
  <1>6. CASE DeleteProject(p)
    <2> DEFINE s == Opened("delete_project", "close", NoDoc)
    <2>1. ObjectKnown(s)
      BY DEF ObjectKnown, Opened, NoSession
    <2> QED
      BY <1>6, <2>1, KnownStep DEF Processes, DeleteProject, Start
  <1> QED
    BY <1>1, <1>2, <1>3, <1>4, <1>5, <1>6 DEF Request

LEMMA EventKnown ==
    ASSUME IndInv, ObjectInv, NEW p \in LambdaProcesses, Event(p)
    PROVE  ObjectInv'
  <1>1. PICK d \in Docs : CompleteUploadByStorageKey(p, d)
    BY DEF Event
  <1> DEFINE s == [Opened("complete_upload_by_storage_key", "head", d)
                     EXCEPT !.size = documents[d].size]
  <1>2. ObjectKnown(s)
    BY DEF ObjectKnown, Opened, NoSession
  <1> QED
    BY <1>1, <1>2, KnownStep DEF Processes, CompleteUploadByStorageKey, Start

\* Steps that change neither rows nor objects.

LEMMA HeadObjectKnown ==
    ASSUME IndInv, SerialInv, ObjectInv, NEW p \in Processes, HeadObject(p)
    PROVE  ObjectInv'
  <1> DEFINE s == [session[p] EXCEPT !.metadata = objects[session[p].doc],
                                     !.pc = "load_project"]
  <1>1. /\ session[p] \in Sessions /\ SerialSession(p, session[p])
        /\ SessionControl(session[p]) /\ ObjectKnown(session[p])
    BY DEF IndInv, TypeOK, ControlOK, SerialInv, ObjectInv
  <1>2. ObjectKnown(s)
    BY <1>1 DEF HeadObject, At, Sessions, SerialSession, SessionShape, SessionControl,
                ObjectKnown
  <1>3. session' = [session EXCEPT ![p] = s]
    BY DEF HeadObject, Goto, IndInv, TypeOK
  <1> QED
    BY <1>2, <1>3, KnownStep DEF HeadObject, Goto

LEMMA LoadProjectKnown ==
    ASSUME IndInv, SerialInv, ObjectInv, NEW p \in Processes, LoadProject(p)
    PROVE  ObjectInv'
  <1> DEFINE s == [session[p] EXCEPT
                     !.count = project.documents_count,
                     !.total = project.total_size_bytes,
                     !.pc = IF Accepts(session[p]) THEN "mark" ELSE "purge"]
  <1>1. /\ session[p] \in Sessions /\ SerialSession(p, session[p])
        /\ SessionControl(session[p]) /\ ObjectKnown(session[p])
    BY DEF IndInv, TypeOK, ControlOK, SerialInv, ObjectInv
  <1>2. ObjectKnown(s)
    BY <1>1 DEF LoadProject, At, Sessions, SerialSession, SessionShape, SessionControl,
                ObjectKnown
  <1>3. session' = [session EXCEPT ![p] = s]
    BY DEF LoadProject, Goto, IndInv, TypeOK
  <1> QED
    BY <1>2, <1>3, KnownStep DEF LoadProject, Goto

LEMMA InsertKnown ==
    ASSUME IndInv, SerialInv, ObjectInv, NEW p \in Processes, Insert(p)
    PROVE  ObjectInv'
  <1> DEFINE s == [session[p] EXCEPT !.flushed = @ \cup {"insert"},
                                     !.pc = IF session[p].op = "upload"
                                            THEN "adjust" ELSE "commit"]
  <1>1. /\ session[p] \in Sessions /\ SerialSession(p, session[p])
        /\ SessionControl(session[p]) /\ ObjectKnown(session[p])
    BY DEF IndInv, TypeOK, ControlOK, SerialInv, ObjectInv
  <1>2. ObjectKnown(s)
    BY <1>1 DEF Insert, At, Sessions, SerialSession, SessionShape, SessionControl,
                ObjectKnown
  <1>3. session' = [session EXCEPT ![p] = s]
    BY DEF Insert, Flush, IndInv, TypeOK
  <1> QED
    BY <1>2, <1>3, KnownStep DEF Insert, Flush

LEMMA MarkUploadedKnown ==
    ASSUME IndInv, SerialInv, ObjectInv, NEW p \in Processes, MarkUploaded(p)
    PROVE  ObjectInv'
  <1> DEFINE s == [session[p] EXCEPT !.flushed = @ \cup {"mark"},
                                     !.pc = "adjust"]
  <1>1. /\ session[p] \in Sessions /\ SerialSession(p, session[p])
        /\ SessionControl(session[p]) /\ ObjectKnown(session[p])
    BY DEF IndInv, TypeOK, ControlOK, SerialInv, ObjectInv
  <1>2. ObjectKnown(s)
    BY <1>1 DEF MarkUploaded, At, Sessions, SerialSession, SessionShape, SessionControl,
                ObjectKnown
  <1>3. session' = [session EXCEPT ![p] = s]
    BY DEF MarkUploaded, Flush, IndInv, TypeOK
  <1> QED
    BY <1>2, <1>3, KnownStep DEF MarkUploaded, Flush

LEMMA SoftDeleteKnown ==
    ASSUME IndInv, SerialInv, ObjectInv, NEW p \in Processes, SoftDelete(p)
    PROVE  ObjectInv'
  <1> DEFINE s == [session[p] EXCEPT !.flushed = @ \cup {"soft_delete"},
                                     !.pc = IF session[p].op = "delete"
                                            THEN "adjust" ELSE "commit"]
  <1>1. /\ session[p] \in Sessions /\ SerialSession(p, session[p])
        /\ SessionControl(session[p]) /\ ObjectKnown(session[p])
    BY DEF IndInv, TypeOK, ControlOK, SerialInv, ObjectInv
  <1>2. ObjectKnown(s)
    BY <1>1 DEF SoftDelete, At, Sessions, SerialSession, SessionShape, SessionControl,
                ObjectKnown
  <1>3. session' = [session EXCEPT ![p] = s]
    BY DEF SoftDelete, Flush, IndInv, TypeOK
  <1> QED
    BY <1>2, <1>3, KnownStep DEF SoftDelete, Flush

LEMMA RenameKnown ==
    ASSUME IndInv, SerialInv, ObjectInv, NEW p \in Processes, Rename(p)
    PROVE  ObjectInv'
  <1> DEFINE s == [session[p] EXCEPT !.flushed = @ \cup {"rename"},
                                     !.pc = "commit"]
  <1>1. /\ session[p] \in Sessions /\ SerialSession(p, session[p])
        /\ SessionControl(session[p]) /\ ObjectKnown(session[p])
    BY DEF IndInv, TypeOK, ControlOK, SerialInv, ObjectInv
  <1>2. ObjectKnown(s)
    BY <1>1 DEF Rename, At, Sessions, SerialSession, SessionShape, SessionControl,
                ObjectKnown
  <1>3. session' = [session EXCEPT ![p] = s]
    BY DEF Rename, Flush, IndInv, TypeOK
  <1> QED
    BY <1>2, <1>3, KnownStep DEF Rename, Flush

LEMMA AdjustDocumentTotalsKnown ==
    ASSUME IndInv, SerialInv, ObjectInv, NEW p \in Processes, AdjustDocumentTotals(p)
    PROVE  ObjectInv'
  <1> DEFINE s == [session[p] EXCEPT !.flushed = @ \cup {"adjust"},
                                     !.pc = "commit"]
  <1>1. /\ session[p] \in Sessions /\ SerialSession(p, session[p])
        /\ SessionControl(session[p]) /\ ObjectKnown(session[p])
    BY DEF IndInv, TypeOK, ControlOK, SerialInv, ObjectInv
  <1>2. ObjectKnown(s)
    BY <1>1 DEF AdjustDocumentTotals, At, Sessions, SerialSession, SessionShape, SessionControl,
                ObjectKnown
  <1>3. session' = [session EXCEPT ![p] = s]
    BY DEF AdjustDocumentTotals, Flush, IndInv, TypeOK
  <1> QED
    BY <1>2, <1>3, KnownStep DEF AdjustDocumentTotals, Flush

LEMMA CloseProjectKnown ==
    ASSUME IndInv, SerialInv, ObjectInv, NEW p \in Processes, CloseProject(p)
    PROVE  ObjectInv'
  <1> DEFINE s == [session[p] EXCEPT !.flushed = @ \cup {"close"},
                                     !.pc = "commit"]
  <1>1. /\ session[p] \in Sessions /\ SerialSession(p, session[p])
        /\ SessionControl(session[p]) /\ ObjectKnown(session[p])
    BY DEF IndInv, TypeOK, ControlOK, SerialInv, ObjectInv
  <1>2. ObjectKnown(s)
    BY <1>1 DEF CloseProject, At, Sessions, SerialSession, SessionShape, SessionControl,
                ObjectKnown
  <1>3. session' = [session EXCEPT ![p] = s]
    BY DEF CloseProject, Flush, IndInv, TypeOK
  <1> QED
    BY <1>2, <1>3, KnownStep DEF CloseProject, Flush

\* The calls of the store.

LEMMA SaveKnown ==
    ASSUME Serial, IndInv, SerialInv, ObjectInv, NEW p \in Processes, Save(p)
    PROVE  ObjectInv'
  <1> DEFINE s == [session[p] EXCEPT !.pc = "insert"]
  <1>1. /\ session[p] \in Sessions /\ SerialSession(p, session[p])
        /\ SessionControl(session[p]) /\ ObjectKnown(session[p])
        /\ session[p].pc = "save"
    BY DEF Save, At, IndInv, TypeOK, ControlOK, SerialInv, ObjectInv
  <1>2. session' = [session EXCEPT ![p] = s]
    BY DEF Save, Goto, IndInv, TypeOK
  <1>3. /\ session'[p].op = "upload" /\ session[p].op = "upload"
        /\ session'[p].doc = session[p].doc /\ session[p].doc \in Docs
        /\ session'[p].metadata = session[p].metadata
    BY <1>1, <1>2 DEF IndInv, TypeOK, SerialSession, SessionShape, SessionControl, Sessions
  <1>4. objects'[session[p].doc] = session[p].metadata
    BY <1>3 DEF Save, IndInv, TypeOK
  <1>5. ObjectKnown(session[p])'
    BY <1>1, <1>3, <1>4 DEF ObjectKnown, Save
  <1> QED
    BY <1>2, <1>3, <1>5, AloneKnown DEF ObjectInv, Save

LEMMA PurgeKnown ==
    ASSUME Serial, IndInv, SerialInv, ObjectInv, NEW p \in Processes, Purge(p)
    PROVE  ObjectInv'
  <1> DEFINE s == [session[p] EXCEPT !.pc = "soft_delete"]
  <1>1. /\ session[p] \in Sessions /\ SerialSession(p, session[p])
        /\ SessionControl(session[p]) /\ session[p].pc = "purge"
    BY DEF Purge, At, IndInv, TypeOK, ControlOK, SerialInv
  <1>2. session' = [session EXCEPT ![p] = s]
    BY DEF Purge, Goto, IndInv, TypeOK
  <1>3. /\ session'[p].op \in Completions \cup {"delete"}
        /\ session'[p].op = session[p].op
        /\ session'[p].pc = "soft_delete" /\ session'[p].flushed = {}
    BY <1>1, <1>2 DEF IndInv, TypeOK, SerialSession, SessionShape, SessionControl, Sessions
  <1>4. ObjectKnown(session[p])'
    BY <1>3 DEF ObjectKnown
  <1> QED
    BY <1>2, <1>3, <1>4, AloneKnown DEF ObjectInv, Purge

\* The end of a session that does not commit.
LEMMA CloseKnown ==
    ASSUME Serial, IndInv, SerialInv, ObjectInv, NEW p \in Processes, Close(p),
           UNCHANGED objects \/ session[p].op \in Adjusting
    PROVE  ObjectInv'
  <1>1. session' = [session EXCEPT ![p] = NoSession]
    BY DEF Close
  <1>2. ObjectKnown(NoSession) /\ ObjectKnown(session[p])'
    BY <1>1 DEF ObjectKnown, NoSession, IndInv, TypeOK
  <1>3. CASE UNCHANGED objects
    BY <1>1, <1>2, <1>3, KnownStep DEF Close
  <1>4. CASE session[p].op \in Adjusting
    BY <1>1, <1>2, <1>4, AloneKnown DEF Close, ObjectInv
  <1> QED
    BY <1>3, <1>4

\* Only a call of the store that is under way may take effect.
LEMMA FailKnown ==
    ASSUME Serial, IndInv, SerialInv, ObjectInv, NEW p \in Processes, Fail(p)
    PROVE  ObjectInv'
  <1>1. CASE session[p].pc \in {"save", "purge"}
    <2>1. session[p].op \in Adjusting
      BY <1>1 DEF SerialInv, SerialSession, SessionShape
    <2> QED
      BY <2>1, CloseKnown DEF Fail
  <1>2. CASE session[p].pc \notin {"save", "purge"}
    <2>1. UNCHANGED objects
      BY <1>2 DEF Fail, InterruptedObject, IndInv, TypeOK
    <2> QED
      BY <2>1, CloseKnown DEF Fail
  <1> QED
    BY <1>1, <1>2

LEMMA CommitKnown ==
    ASSUME IndInv, SerialInv, ObjectInv, NEW p \in Processes, Commit(p)
    PROVE  ObjectInv'
  <1> DEFINE s == session[p]
  <1>1. \A q \in Processes : session'[q] = IF q = p THEN NoSession ELSE session[q]
    BY DEF Commit, IndInv, TypeOK
  <1>2. ASSUME NEW q \in Processes
        PROVE  ObjectKnown(session[q])'
    <2>1. CASE q = p
      BY <1>1, <2>1 DEF ObjectKnown, NoSession
    <2>2. CASE q # p
      <3>1. session'[q] = session[q] /\ ObjectKnown(session[q])
        BY <1>1, <2>2 DEF ObjectInv
      <3>2. session[q].op = "upload" => session[q].doc # s.doc
        BY <2>2 DEF IndInv, KeysOwned, KeyOwned
      <3> QED
        BY <3>1, <3>2 DEF Commit, ObjectKnown
    <2> QED
      BY <2>1, <2>2
  <1>3. SerialSession(p, s) /\ s.pc = "commit"
    BY DEF Commit, At, SerialInv
  <1>4. ASSUME NEW d \in Docs, documents'[d].status = "pending_upload"
        PROVE  d \in presigned'
    <2>1. CASE d # s.doc
      BY <1>4, <2>1 DEF Commit, ObjectInv
    <2>2. CASE d = s.doc
      <3>1. documents'[d] = FlushedRow(s) /\ documents[d] \in Rows
        BY <2>2 DEF Commit, IndInv, TypeOK
      <3>2. \/ documents'[d] = documents[d]
            \/ s.op = "presign_upload"
        BY <1>3, <1>4, <2>2, <3>1
        DEF FlushedRow, CreatedRow, MarkedRow, DeletedRow, SerialSession, SessionShape,
            Rows
      <3> QED
        BY <1>4, <2>2, <3>2 DEF Commit, ObjectInv
    <2> QED
      BY <2>1, <2>2
  <1> QED
    BY <1>2, <1>4 DEF ObjectInv

LEMMA ClientPutKnown ==
    ASSUME IndInv, SerialInv, ObjectInv, NEW d \in Docs, ClientPut(d)
    PROVE  ObjectInv'
  <1>1. ASSUME NEW p \in Processes
        PROVE  ObjectKnown(session[p])'
    <2>1. /\ ObjectKnown(session[p]) /\ SerialSession(p, session[p])
          /\ SessionControl(session[p])
      BY DEF ObjectInv, SerialInv, IndInv, ControlOK
    <2>2. session[p].op \in Completions \cup {"upload"} => session[p].doc \in Docs
      BY <2>1 DEF SerialSession, RowCurrent, SessionControl
    <2>3. \A e \in Docs : /\ e # d => objects'[e] = objects[e]
                          /\ objects'[d] # NoObject
      BY DataAssumption DEF ClientPut, IndInv, TypeOK
    <2> QED
      BY <2>1, <2>2, <2>3 DEF ClientPut, ObjectKnown
  <1> QED
    BY <1>1 DEF ObjectInv, ClientPut

LEMMA KnownInitially == Init => ObjectInv
  BY DEF Init, ObjectInv, ObjectKnown, NoRow, NoSession

LEMMA KnownInductive ==
    ASSUME Serial
    PROVE  IndInv /\ SerialInv /\ ObjectInv /\ [Next]_vars => ObjectInv'
  <1> SUFFICES ASSUME IndInv, SerialInv, ObjectInv, [Next]_vars
               PROVE  ObjectInv'
    OBVIOUS
  <1>1. ASSUME NEW p \in ApiProcesses, Request(p) PROVE ObjectInv'
    BY <1>1, RequestKnown
  <1>2. ASSUME NEW p \in LambdaProcesses, Event(p) PROVE ObjectInv'
    BY <1>2, EventKnown
  <1>3. ASSUME NEW p \in Processes, Step(p) PROVE ObjectInv'
    <2>1. CASE HeadMissing(p) \/ PurgeDenied(p)
      BY <2>1, CloseKnown DEF HeadMissing, PurgeDenied
    <2> QED
      BY <1>3, <2>1, SaveKnown, HeadObjectKnown, PurgeKnown, LoadProjectKnown,
         InsertKnown, CommitKnown
      DEF Step
  <1>4. ASSUME NEW p \in Processes, LockStep(p) PROVE ObjectInv'
    <2>1. CASE AdjustViolatesCheck(p)
      BY <2>1, CloseKnown DEF AdjustViolatesCheck
    <2> QED
      BY <1>4, <2>1, MarkUploadedKnown, SoftDeleteKnown, RenameKnown,
         AdjustDocumentTotalsKnown, CloseProjectKnown
      DEF LockStep
  <1>5. ASSUME NEW p \in Processes, Fail(p) PROVE ObjectInv'
    BY <1>5, FailKnown
  <1>6. ASSUME NEW d \in Docs, ClientPut(d) PROVE ObjectInv'
    BY <1>6, ClientPutKnown
  <1>7. CASE UNCHANGED vars
    BY <1>7 DEF vars, ObjectInv, ObjectKnown
  <1> QED
    BY <1>1, <1>2, <1>3, <1>4, <1>5, <1>6, <1>7 DEF Next

LEMMA ObjectInvariance ==
    ASSUME Serial
    PROVE  Spec => [](IndInv /\ SerialInv /\ ObjectInv)
  BY Initially, SerialInit, KnownInitially, Inductive, SerialInductive,
     KnownInductive, PTL
  DEF Spec

--------------------------------------------------------------------------------

\* A document becomes visible by the commit of an upload, whose object is the file
\* that was saved, or of a completion, whose object the HEAD has found.
THEOREM SerialVisibleStored ==
    ASSUME Serial
    PROVE  Spec => VisibleOnlyWhenStored
  <1> DEFINE Shown ==
        \A d \in Docs :
            ~Live(d) /\ Live(d)' =>
                /\ objects[d] # NoObject
                /\ d \notin presigned => objects[d] = documents'[d].size
  <1>1. IndInv /\ SerialInv /\ ObjectInv /\ [Next]_vars => Shown
    <2> SUFFICES ASSUME IndInv, SerialInv, ObjectInv, [Next]_vars,
                        NEW d \in Docs, ~Live(d), Live(d)'
                 PROVE  /\ objects[d] # NoObject
                        /\ d \notin presigned => objects[d] = documents'[d].size
      OBVIOUS
    <2>1. PICK p \in Processes : Commit(p)
      BY OnlyCommitWrites DEF Live
    <2> DEFINE s == session[p]
    <2>2. /\ s \in Sessions /\ SerialSession(p, s) /\ ObjectKnown(s) /\ s.pc = "commit"
      BY <2>1 DEF Commit, At, IndInv, TypeOK, SerialInv, ObjectInv
    <2>3. d = s.doc /\ documents'[d] = FlushedRow(s) /\ documents[d] \in Rows
      BY <2>1 DEF Commit, Live, IndInv, TypeOK
    <2>4. CASE s.op = "upload"
      <3>1. documents'[d].size = s.metadata /\ s.metadata \in Nat
        BY <2>2, <2>3, <2>4
        DEF SerialSession, SessionShape, FlushedRow, CreatedRow, Sessions
      <3> QED
        BY <2>2, <2>3, <2>4, <3>1 DEF ObjectKnown
    <2>5. CASE s.op \in Completions
      <3>1. d \in presigned
        BY <2>2, <2>3, <2>5 DEF SerialSession, RowCurrent, Pending, ObjectInv
      <3>2. "mark" \in s.flushed
        BY <2>2, <2>3, <2>5
        DEF SerialSession, SessionShape, FlushedRow, DeletedRow, Rows, Live
      <3> QED
        BY <2>2, <2>3, <2>5, <3>1, <3>2 DEF ObjectKnown
    <2>6. CASE s.op \in {"presign_upload", "delete", "update", "delete_project"}
      BY <2>2, <2>3, <2>6
      DEF SerialSession, SessionShape, FlushedRow, CreatedRow, DeletedRow, Rows, Live
    <2> QED
      BY <2>2, <2>4, <2>5, <2>6 DEF SerialSession, SessionShape
  <1> QED
    BY <1>1, ObjectInvariance, PTL DEF Spec, VisibleOnlyWhenStored

\* An object is taken away only by a call of the store that purges it.
LEMMA OnlyPurgeRemoves ==
    ASSUME IndInv, [Next]_vars, NEW d \in Docs,
           objects[d] # NoObject, objects'[d] = NoObject
    PROVE  \E p \in Processes : session[p].pc = "purge" /\ session[p].doc = d
  <1>1. \A p \in Processes : session[p].metadata \in Nat
    BY DEF IndInv, TypeOK, Sessions
  <1>2. ASSUME NEW p \in Processes, Save(p) PROVE FALSE
    BY <1>1, <1>2 DEF Save, IndInv, TypeOK
  <1>3. ASSUME NEW p \in Processes, Purge(p)
        PROVE  session[p].pc = "purge" /\ session[p].doc = d
    BY <1>3 DEF Purge, At, IndInv, TypeOK
  <1>4. ASSUME NEW p \in Processes, Fail(p)
        PROVE  session[p].pc = "purge" /\ session[p].doc = d
    BY <1>1, <1>4 DEF Fail, InterruptedObject
  <1>5. ASSUME NEW e \in Docs, ClientPut(e) PROVE FALSE
    BY <1>5, DataAssumption DEF ClientPut, IndInv, TypeOK
  <1>6. objects' # objects
    OBVIOUS
  <1> QED
    BY <1>2, <1>3, <1>4, <1>5, <1>6
    DEF Next, Request, Event, Step, LockStep, Upload, PresignUpload, CompleteUpload,
        CompleteUploadByStorageKey, Update, Delete, DeleteProject, Start, HeadObject,
        HeadMissing, PurgeDenied, LoadProject, Insert, Commit, MarkUploaded,
        SoftDelete, Rename, AdjustDocumentTotals, AdjustViolatesCheck, CloseProject,
        Flush, vars

\* Nothing but the deletion of a visible document takes its object away: a
\* completion that rejects a file works on a document that is still pending.
THEOREM SerialObjectsStay ==
    ASSUME Serial
    PROVE  Spec => OnlyDeletionRemovesObject
  <1> DEFINE Stay ==
        \A d \in LiveDocs :
            objects[d] # NoObject /\ objects'[d] = NoObject =>
                \E p \in Processes : session[p].op = "delete" /\ session[p].doc = d
  <1>1. IndInv /\ SerialInv /\ [Next]_vars => Stay
    <2> SUFFICES ASSUME IndInv, SerialInv, [Next]_vars, NEW d \in LiveDocs,
                        objects[d] # NoObject, objects'[d] = NoObject
                 PROVE  \E p \in Processes :
                            session[p].op = "delete" /\ session[p].doc = d
      OBVIOUS
    <2>1. d \in Docs /\ Live(d)
      BY DEF LiveDocs
    <2>2. ASSUME NEW p \in Processes, session[p].pc = "purge", session[p].doc = d
          PROVE  session[p].op = "delete"
      BY <2>1, <2>2
      DEF SerialInv, SerialSession, SessionShape, RowCurrent, Pending, Live
    <2> QED
      BY <2>1, <2>2, OnlyPurgeRemoves
  <1> QED
    BY <1>1, ObjectInvariance, PTL DEF Spec, OnlyDeletionRemovesObject

(***************************************************************************)
(* No stray object, with several processes: the inductive invariant.       *)
(***************************************************************************)

\* The operations that may be at each place; a deletion runs in an API process.
PlaceOf(p, s) ==
    /\ s.pc \in {"head", "mark"} => s.op \in Completions
    /\ s.pc \in {"load_project", "purge", "soft_delete"} =>
            s.op \in Completions \cup {"delete"}
    /\ s.pc = "adjust" => s.op \in Completions \cup {"delete", "upload"}
    /\ s.pc = "save" => s.op = "upload"
    /\ s.pc = "rename" => s.op = "update"
    /\ s.pc = "close" => s.op = "delete_project"
    /\ s.op = "delete_project" => s.doc = NoDoc
    /\ s.op = "delete" => p \in ApiProcesses /\ s.doc \in Docs
    /\ s.op = "upload" /\ s.pc \in {"adjust", "commit"} => "insert" \in s.flushed
    /\ "mark" \in s.flushed => s.op \in Completions
    /\ "soft_delete" \in s.flushed => s.op \in Completions \cup {"delete"}

\* A deletion that has purged its object.
Purged(s) == s.op = "delete" /\ s.pc \in {"soft_delete", "adjust", "commit"}

\* Completions are of presigned keys, and a purged object does not come back.
PurgeOf(s) ==
    /\ s.op \in Completions => s.doc \in presigned
    /\ Purged(s) => s.doc \in presigned \/ objects[s.doc] = NoObject

\* A direct upload whose object is in the store.
Storing(s, d) == s.doc = d /\ s.op = "upload" /\ s.pc \in {"insert", "adjust", "commit"}

\* What only an upload that has failed leaves: there is no row.
Orphan(d) == Faults /\ documents[d] = NoRow

Kept(d) ==
    objects[d] # NoObject =>
        Live(d) \/ Orphan(d) \/ \E p \in Processes : Storing(session[p], d)

StoredInv ==
    /\ \A d \in Docs : documents[d].status = "pending_upload" => d \in presigned
    /\ \A p \in Processes : PlaceOf(p, session[p]) /\ PurgeOf(session[p])
    /\ \A d \in Docs \ presigned : Kept(d)

USE DEF Processes, Uploads, Completions, Requests, NoObject

--------------------------------------------------------------------------------

\* A step that moves only the session of p, and does not give up an object.
LEMMA MoveStep ==
    ASSUME IndInv, StoredInv, NEW p \in Processes, NEW s,
           session' = [session EXCEPT ![p] = s],
           UNCHANGED <<documents, objects, presigned>>,
           PlaceOf(p, s), PurgeOf(s),
           \A d \in Docs \ presigned :
                Storing(session[p], d) => Storing(s, d) \/ objects[d] = NoObject
    PROVE  StoredInv'
  <1>1. \A q \in Processes : session'[q] = IF q = p THEN s ELSE session[q]
    BY DEF IndInv, TypeOK
  <1>2. \A q \in Processes : (PlaceOf(q, session[q]) /\ PurgeOf(session[q]))'
    BY <1>1 DEF StoredInv, PurgeOf, PlaceOf, Purged
  <1>3. \A d \in Docs \ presigned : Kept(d)'
    <2> SUFFICES ASSUME NEW d \in Docs \ presigned, objects[d] # NoObject, ~Live(d),
                        ~Orphan(d)
                 PROVE  \E q \in Processes : Storing(session[q], d)'
      BY DEF Kept, Live, Orphan
    <2>1. PICK q \in Processes : Storing(session[q], d)
      BY DEF StoredInv, Kept
    <2> QED
      BY <1>1, <2>1 DEF Storing
  <1>4. (\A d \in Docs : documents[d].status = "pending_upload" => d \in presigned)'
    BY DEF StoredInv
  <1>5. (\A d \in Docs \ presigned : Kept(d))'
    BY <1>3
  <1> QED
    BY <1>2, <1>4, <1>5 DEF StoredInv

\* An idle process opens a session.
LEMMA OpenStep ==
    ASSUME IndInv, StoredInv, NEW p \in Processes, NEW op, NEW s,
           Start(p, op, s), PlaceOf(p, s), PurgeOf(s)
    PROVE  StoredInv'
  <1>1. \A e \in Docs : ~Storing(session[p], e)
    BY DEF Start, Idle, At, Storing
  <1> QED
    BY <1>1, MoveStep DEF Start

LEMMA UploadStored ==
    ASSUME IndInv, StoredInv, NEW p \in Processes, NEW d \in Docs, NEW size \in Sizes,
           Upload(p, d, size)
    PROVE  StoredInv'
  <1> DEFINE s == [Opened("upload", "save", d) EXCEPT
                     !.metadata = size,
                     !.count = project.documents_count,
                     !.total = project.total_size_bytes]
  <1>1. PlaceOf(p, s)
    BY DEF PlaceOf, Opened, NoSession
  <1>2. PurgeOf(s)
    BY DEF PurgeOf, Purged, Opened, NoSession
  <1> QED
    BY <1>1, <1>2, OpenStep DEF Upload

LEMMA PresignUploadStored ==
    ASSUME IndInv, StoredInv, NEW p \in Processes, NEW d \in Docs,
           PresignUpload(p, d)
    PROVE  StoredInv'
  <1> DEFINE s == Opened("presign_upload", "insert", d)
  <1>1. PlaceOf(p, s)
    BY DEF PlaceOf, Opened, NoSession
  <1>2. PurgeOf(s)
    BY DEF PurgeOf, Purged, Opened, NoSession
  <1> QED
    BY <1>1, <1>2, OpenStep DEF PresignUpload

LEMMA CompleteUploadStored ==
    ASSUME IndInv, StoredInv, NEW p \in Processes, NEW d \in Docs,
           CompleteUpload(p, d)
    PROVE  StoredInv'
  <1> DEFINE s == [Opened("complete_upload", "head", d)
                     EXCEPT !.size = documents[d].size]
  <1>1. PlaceOf(p, s)
    BY DEF PlaceOf, Opened, NoSession
  <1>2. PurgeOf(s)
    BY DEF PurgeOf, Purged, Opened, NoSession, CompleteUpload, Pending, StoredInv
  <1> QED
    BY <1>1, <1>2, OpenStep DEF CompleteUpload

LEMMA CompleteUploadByStorageKeyStored ==
    ASSUME IndInv, StoredInv, NEW p \in Processes, NEW d \in Docs,
           CompleteUploadByStorageKey(p, d)
    PROVE  StoredInv'
  <1> DEFINE s == [Opened("complete_upload_by_storage_key", "head", d)
                     EXCEPT !.size = documents[d].size]
  <1>1. PlaceOf(p, s)
    BY DEF PlaceOf, Opened, NoSession
  <1>2. PurgeOf(s)
    BY DEF PurgeOf, Purged, Opened, NoSession, CompleteUploadByStorageKey, Pending,
           StoredInv
  <1> QED
    BY <1>1, <1>2, OpenStep DEF CompleteUploadByStorageKey

LEMMA UpdateStored ==
    ASSUME IndInv, StoredInv, NEW p \in Processes, NEW d \in Docs,
           Update(p, d)
    PROVE  StoredInv'
  <1> DEFINE s == Opened("update", "rename", d)
  <1>1. PlaceOf(p, s)
    BY DEF PlaceOf, Opened, NoSession
  <1>2. PurgeOf(s)
    BY DEF PurgeOf, Purged, Opened, NoSession
  <1> QED
    BY <1>1, <1>2, OpenStep DEF Update

LEMMA DeleteStored ==
    ASSUME IndInv, StoredInv, NEW p \in ApiProcesses, NEW d \in Docs,
           Delete(p, d)
    PROVE  StoredInv'
  <1> DEFINE s == [Opened("delete", "load_project", d)
                     EXCEPT !.size = documents[d].size]
  <1>1. PlaceOf(p, s)
    BY DEF PlaceOf, Opened, NoSession
  <1>2. PurgeOf(s)
    BY DEF PurgeOf, Purged, Opened, NoSession
  <1> QED
    BY <1>1, <1>2, OpenStep DEF Delete

LEMMA DeleteProjectStored ==
    ASSUME IndInv, StoredInv, NEW p \in Processes, DeleteProject(p)
    PROVE  StoredInv'
  <1> DEFINE s == Opened("delete_project", "close", NoDoc)
  <1>1. PlaceOf(p, s)
    BY DEF PlaceOf, Opened, NoSession
  <1>2. PurgeOf(s)
    BY DEF PurgeOf, Purged, Opened, NoSession
  <1> QED
    BY <1>1, <1>2, OpenStep DEF DeleteProject

\* The steps that move a session and touch no object.

LEMMA HeadObjectStored ==
    ASSUME IndInv, StoredInv, NEW p \in Processes, HeadObject(p)
    PROVE  StoredInv'
  <1> DEFINE s == [session[p] EXCEPT !.metadata = objects[session[p].doc],
                                     !.pc = "load_project"]
  <1>1. /\ session[p] \in Sessions /\ SessionControl(session[p])
        /\ PlaceOf(p, session[p]) /\ PurgeOf(session[p])
    BY DEF IndInv, TypeOK, ControlOK, StoredInv
  <1>2. /\ session[p].pc = "head" /\ s.pc = "load_project"
        /\ s.op = session[p].op /\ s.doc = session[p].doc
        /\ s.flushed = session[p].flushed
    BY <1>1 DEF HeadObject, At, Sessions
  <1>3. session' = [session EXCEPT ![p] = s]
    BY DEF HeadObject, Goto, IndInv, TypeOK
  <1> HIDE DEF s
  <1>4. PlaceOf(p, s) /\ PurgeOf(s)
    BY <1>1, <1>2 DEF SessionControl, PlaceOf, PurgeOf, Purged
  <1>5. \A d \in Docs \ presigned : Storing(session[p], d) => Storing(s, d)
    BY <1>1, <1>2 DEF Storing, PlaceOf
  <1> QED
    BY <1>3, <1>4, <1>5, MoveStep DEF HeadObject, Goto

LEMMA LoadProjectStored ==
    ASSUME IndInv, StoredInv, NEW p \in Processes, LoadProject(p)
    PROVE  StoredInv'
  <1> DEFINE s == [session[p] EXCEPT
                     !.count = project.documents_count,
                     !.total = project.total_size_bytes,
                     !.pc = IF Accepts(session[p]) THEN "mark" ELSE "purge"]
  <1>1. /\ session[p] \in Sessions /\ SessionControl(session[p])
        /\ PlaceOf(p, session[p]) /\ PurgeOf(session[p])
    BY DEF IndInv, TypeOK, ControlOK, StoredInv
  <1>2. /\ session[p].pc = "load_project" /\ s.pc \in {"mark", "purge"}
        /\ s.pc = "mark" => s.op \in Completions
        /\ s.op = session[p].op /\ s.doc = session[p].doc
        /\ s.flushed = session[p].flushed
    BY <1>1 DEF LoadProject, Accepts, At, Sessions
  <1>3. session' = [session EXCEPT ![p] = s]
    BY DEF LoadProject, Goto, IndInv, TypeOK
  <1> HIDE DEF s
  <1>4. PlaceOf(p, s) /\ PurgeOf(s)
    BY <1>1, <1>2 DEF SessionControl, PlaceOf, PurgeOf, Purged
  <1>5. \A d \in Docs \ presigned : Storing(session[p], d) => Storing(s, d)
    BY <1>1, <1>2 DEF Storing, PlaceOf
  <1> QED
    BY <1>3, <1>4, <1>5, MoveStep DEF LoadProject, Goto

LEMMA InsertStored ==
    ASSUME IndInv, StoredInv, NEW p \in Processes, Insert(p)
    PROVE  StoredInv'
  <1> DEFINE s == [session[p] EXCEPT !.flushed = @ \cup {"insert"},
                                     !.pc = IF session[p].op = "upload"
                                            THEN "adjust" ELSE "commit"]
  <1>1. /\ session[p] \in Sessions /\ SessionControl(session[p])
        /\ PlaceOf(p, session[p]) /\ PurgeOf(session[p])
    BY DEF IndInv, TypeOK, ControlOK, StoredInv
  <1>2. /\ session[p].pc = "insert" /\ s.pc = IF s.op = "upload" THEN "adjust" ELSE "commit"
        /\ s.op = session[p].op /\ s.doc = session[p].doc
        /\ s.flushed = session[p].flushed \cup {"insert"}
    BY <1>1 DEF Insert, At, Sessions
  <1>3. session' = [session EXCEPT ![p] = s]
    BY DEF Insert, Flush, IndInv, TypeOK
  <1> HIDE DEF s
  <1>4. PlaceOf(p, s) /\ PurgeOf(s)
    BY <1>1, <1>2 DEF SessionControl, PlaceOf, PurgeOf, Purged
  <1>5. \A d \in Docs \ presigned : Storing(session[p], d) => Storing(s, d)
    BY <1>1, <1>2 DEF Storing, PlaceOf
  <1> QED
    BY <1>3, <1>4, <1>5, MoveStep DEF Insert, Flush

LEMMA MarkUploadedStored ==
    ASSUME IndInv, StoredInv, NEW p \in Processes, MarkUploaded(p)
    PROVE  StoredInv'
  <1> DEFINE s == [session[p] EXCEPT !.flushed = @ \cup {"mark"},
                                     !.pc = "adjust"]
  <1>1. /\ session[p] \in Sessions /\ SessionControl(session[p])
        /\ PlaceOf(p, session[p]) /\ PurgeOf(session[p])
    BY DEF IndInv, TypeOK, ControlOK, StoredInv
  <1>2. /\ session[p].pc = "mark" /\ s.pc = "adjust"
        /\ s.op = session[p].op /\ s.doc = session[p].doc
        /\ s.flushed = session[p].flushed \cup {"mark"}
    BY <1>1 DEF MarkUploaded, At, Sessions
  <1>3. session' = [session EXCEPT ![p] = s]
    BY DEF MarkUploaded, Flush, IndInv, TypeOK
  <1> HIDE DEF s
  <1>4. PlaceOf(p, s) /\ PurgeOf(s)
    BY <1>1, <1>2 DEF SessionControl, PlaceOf, PurgeOf, Purged
  <1>5. \A d \in Docs \ presigned : Storing(session[p], d) => Storing(s, d)
    BY <1>1, <1>2 DEF Storing, PlaceOf
  <1> QED
    BY <1>3, <1>4, <1>5, MoveStep DEF MarkUploaded, Flush

LEMMA SoftDeleteStored ==
    ASSUME IndInv, StoredInv, NEW p \in Processes, SoftDelete(p)
    PROVE  StoredInv'
  <1> DEFINE s == [session[p] EXCEPT !.flushed = @ \cup {"soft_delete"},
                                     !.pc = IF session[p].op = "delete"
                                            THEN "adjust" ELSE "commit"]
  <1>1. /\ session[p] \in Sessions /\ SessionControl(session[p])
        /\ PlaceOf(p, session[p]) /\ PurgeOf(session[p])
    BY DEF IndInv, TypeOK, ControlOK, StoredInv
  <1>2. /\ session[p].pc = "soft_delete" /\ s.pc = IF s.op = "delete" THEN "adjust" ELSE "commit"
        /\ s.op = session[p].op /\ s.doc = session[p].doc
        /\ s.flushed = session[p].flushed \cup {"soft_delete"}
    BY <1>1 DEF SoftDelete, At, Sessions
  <1>3. session' = [session EXCEPT ![p] = s]
    BY DEF SoftDelete, Flush, IndInv, TypeOK
  <1> HIDE DEF s
  <1>4. PlaceOf(p, s) /\ PurgeOf(s)
    BY <1>1, <1>2 DEF SessionControl, PlaceOf, PurgeOf, Purged
  <1>5. \A d \in Docs \ presigned : Storing(session[p], d) => Storing(s, d)
    BY <1>1, <1>2 DEF Storing, PlaceOf
  <1> QED
    BY <1>3, <1>4, <1>5, MoveStep DEF SoftDelete, Flush

LEMMA RenameStored ==
    ASSUME IndInv, StoredInv, NEW p \in Processes, Rename(p)
    PROVE  StoredInv'
  <1> DEFINE s == [session[p] EXCEPT !.flushed = @ \cup {"rename"},
                                     !.pc = "commit"]
  <1>1. /\ session[p] \in Sessions /\ SessionControl(session[p])
        /\ PlaceOf(p, session[p]) /\ PurgeOf(session[p])
    BY DEF IndInv, TypeOK, ControlOK, StoredInv
  <1>2. /\ session[p].pc = "rename" /\ s.pc = "commit"
        /\ s.op = session[p].op /\ s.doc = session[p].doc
        /\ s.flushed = session[p].flushed \cup {"rename"}
    BY <1>1 DEF Rename, At, Sessions
  <1>3. session' = [session EXCEPT ![p] = s]
    BY DEF Rename, Flush, IndInv, TypeOK
  <1> HIDE DEF s
  <1>4. PlaceOf(p, s) /\ PurgeOf(s)
    BY <1>1, <1>2 DEF SessionControl, PlaceOf, PurgeOf, Purged
  <1>5. \A d \in Docs \ presigned : Storing(session[p], d) => Storing(s, d)
    BY <1>1, <1>2 DEF Storing, PlaceOf
  <1> QED
    BY <1>3, <1>4, <1>5, MoveStep DEF Rename, Flush

LEMMA AdjustDocumentTotalsStored ==
    ASSUME IndInv, StoredInv, NEW p \in Processes, AdjustDocumentTotals(p)
    PROVE  StoredInv'
  <1> DEFINE s == [session[p] EXCEPT !.flushed = @ \cup {"adjust"},
                                     !.pc = "commit"]
  <1>1. /\ session[p] \in Sessions /\ SessionControl(session[p])
        /\ PlaceOf(p, session[p]) /\ PurgeOf(session[p])
    BY DEF IndInv, TypeOK, ControlOK, StoredInv
  <1>2. /\ session[p].pc = "adjust" /\ s.pc = "commit"
        /\ s.op = session[p].op /\ s.doc = session[p].doc
        /\ s.flushed = session[p].flushed \cup {"adjust"}
    BY <1>1 DEF AdjustDocumentTotals, At, Sessions
  <1>3. session' = [session EXCEPT ![p] = s]
    BY DEF AdjustDocumentTotals, Flush, IndInv, TypeOK
  <1> HIDE DEF s
  <1>4. PlaceOf(p, s) /\ PurgeOf(s)
    BY <1>1, <1>2 DEF SessionControl, PlaceOf, PurgeOf, Purged
  <1>5. \A d \in Docs \ presigned : Storing(session[p], d) => Storing(s, d)
    BY <1>1, <1>2 DEF Storing, PlaceOf
  <1> QED
    BY <1>3, <1>4, <1>5, MoveStep DEF AdjustDocumentTotals, Flush

LEMMA CloseProjectStored ==
    ASSUME IndInv, StoredInv, NEW p \in Processes, CloseProject(p)
    PROVE  StoredInv'
  <1> DEFINE s == [session[p] EXCEPT !.flushed = @ \cup {"close"},
                                     !.pc = "commit"]
  <1>1. /\ session[p] \in Sessions /\ SessionControl(session[p])
        /\ PlaceOf(p, session[p]) /\ PurgeOf(session[p])
    BY DEF IndInv, TypeOK, ControlOK, StoredInv
  <1>2. /\ session[p].pc = "close" /\ s.pc = "commit"
        /\ s.op = session[p].op /\ s.doc = session[p].doc
        /\ s.flushed = session[p].flushed \cup {"close"}
    BY <1>1 DEF CloseProject, At, Sessions
  <1>3. session' = [session EXCEPT ![p] = s]
    BY DEF CloseProject, Flush, IndInv, TypeOK
  <1> HIDE DEF s
  <1>4. PlaceOf(p, s) /\ PurgeOf(s)
    BY <1>1, <1>2 DEF SessionControl, PlaceOf, PurgeOf, Purged
  <1>5. \A d \in Docs \ presigned : Storing(session[p], d) => Storing(s, d)
    BY <1>1, <1>2 DEF Storing, PlaceOf
  <1> QED
    BY <1>3, <1>4, <1>5, MoveStep DEF CloseProject, Flush

\* Whoever gives up its session has stored nothing that is still there.
LEMMA CloseStored ==
    ASSUME IndInv, StoredInv, NEW p \in Processes, Close(p), UNCHANGED objects,
           \A d \in Docs \ presigned : ~Storing(session[p], d)
    PROVE  StoredInv'
  <1>1. PlaceOf(p, NoSession) /\ PurgeOf(NoSession)
    BY DEF NoSession, PlaceOf, PurgeOf, Purged
  <1> QED
    BY <1>1, MoveStep DEF Close

LEMMA HeadMissingStored ==
    ASSUME IndInv, StoredInv, NEW p \in Processes, HeadMissing(p)
    PROVE  StoredInv'
  BY CloseStored DEF HeadMissing, At, Storing

LEMMA PurgeDeniedStored ==
    ASSUME IndInv, StoredInv, NEW p \in Processes, PurgeDenied(p)
    PROVE  StoredInv'
  BY CloseStored DEF PurgeDenied, At, Storing

\* The CHECKs refuse only deletions: an upload adds to what it has loaded.
LEMMA AdjustViolatesCheckStored ==
    ASSUME IndInv, StoredInv, NEW p \in Processes, AdjustViolatesCheck(p)
    PROVE  StoredInv'
  <1>1. session[p] \in Sessions
    BY DEF IndInv, TypeOK
  <1>2. session[p].op # "upload"
    BY <1>1 DEF AdjustViolatesCheck, TotalsCheck, AdjustedCount, AdjustedTotal,
                CountDelta, SizeDelta, Written, Sessions, IndInv, TypeOK
  <1> QED
    BY <1>2, CloseStored DEF AdjustViolatesCheck, Storing

\* The calls of the store.

\* The object that is saved is the session's own: its key has no other.
LEMMA SaveStored ==
    ASSUME IndInv, StoredInv, NEW p \in Processes, Save(p)
    PROVE  StoredInv'
  <1> DEFINE s == [session[p] EXCEPT !.pc = "insert"]
             k == session[p].doc
  <1>1. /\ session[p] \in Sessions /\ SessionControl(session[p])
        /\ PlaceOf(p, session[p]) /\ PurgeOf(session[p])
    BY DEF IndInv, TypeOK, ControlOK, StoredInv
  <1>2. /\ session[p].pc = "save" /\ session[p].op = "upload"
        /\ s.pc = "insert" /\ s.op = session[p].op /\ s.doc = k
        /\ s.flushed = session[p].flushed
    BY <1>1 DEF Save, At, Sessions, PlaceOf
  <1>3. \A q \in Processes : session'[q] = IF q = p THEN s ELSE session[q]
    BY DEF Save, Goto, IndInv, TypeOK
  <1>4. \A d \in Docs : d # k => objects'[d] = objects[d]
    BY DEF Save, IndInv, TypeOK
  <1>5. \A q \in Processes \ {p} : session[q].doc # k
    BY <1>2 DEF IndInv, KeysOwned, KeyOwned
  <1> HIDE DEF s
  <1>6. PlaceOf(p, s)
    BY <1>1, <1>2 DEF SessionControl, PlaceOf
  <1>7. ASSUME NEW q \in Processes
        PROVE  (PlaceOf(q, session[q]) /\ PurgeOf(session[q]))'
    <2>1. CASE q = p
      BY <1>2, <1>3, <1>6, <2>1 DEF PlaceOf, PurgeOf, Purged
    <2>2. CASE q # p
      <3>1. session'[q] = session[q] /\ presigned' = presigned
        BY <1>3, <2>2 DEF Save
      <3>2. PlaceOf(q, session[q]) /\ PurgeOf(session[q])
        BY DEF StoredInv
      <3> QED
        BY <1>4, <1>5, <2>2, <3>1, <3>2 DEF PlaceOf, PurgeOf, Purged
    <2> QED
      BY <2>1, <2>2
  <1>8. (\A d \in Docs \ presigned : Kept(d))'
    <2> SUFFICES ASSUME NEW d \in Docs \ presigned, objects'[d] # NoObject, ~Live(d),
                        ~Orphan(d)
                 PROVE  \E q \in Processes : Storing(session[q], d)'
      BY DEF Kept, Live, Orphan, Save
    <2>1. CASE d = k
      BY <1>2, <1>3, <2>1 DEF Storing
    <2>2. CASE d # k
      <3>1. PICK q \in Processes : Storing(session[q], d)
        BY <1>4, <2>2 DEF StoredInv, Kept
      <3> QED
        BY <1>3, <2>2, <3>1 DEF Storing
    <2> QED
      BY <2>1, <2>2
  <1>9. (\A d \in Docs : documents[d].status = "pending_upload" => d \in presigned)'
    BY DEF Save, StoredInv
  <1> QED
    BY <1>7, <1>8, <1>9 DEF StoredInv

LEMMA PurgeStored ==
    ASSUME IndInv, StoredInv, NEW p \in Processes, Purge(p)
    PROVE  StoredInv'
  <1> DEFINE s == [session[p] EXCEPT !.pc = "soft_delete"]
             k == session[p].doc
  <1>1. /\ session[p] \in Sessions /\ SessionControl(session[p])
        /\ PlaceOf(p, session[p]) /\ PurgeOf(session[p])
    BY DEF IndInv, TypeOK, ControlOK, StoredInv
  <1>2. /\ session[p].pc = "purge" /\ k \in Docs
        /\ s.pc = "soft_delete" /\ s.op = session[p].op /\ s.doc = k
        /\ s.flushed = session[p].flushed
    BY <1>1 DEF Purge, At, Sessions, SessionControl
  <1>3. \A q \in Processes : session'[q] = IF q = p THEN s ELSE session[q]
    BY DEF Purge, Goto, IndInv, TypeOK
  <1>4. objects'[k] = NoObject /\ \A d \in Docs : d # k => objects'[d] = objects[d]
    BY <1>2 DEF Purge, IndInv, TypeOK
  <1> HIDE DEF s
  <1>5. PlaceOf(p, s)
    BY <1>1, <1>2 DEF SessionControl, PlaceOf
  <1>6. ASSUME NEW q \in Processes
        PROVE  (PlaceOf(q, session[q]) /\ PurgeOf(session[q]))'
    <2>1. CASE q = p
      BY <1>1, <1>2, <1>3, <1>4, <1>5, <2>1 DEF PlaceOf, PurgeOf, Purged, Purge
    <2>2. CASE q # p
      <3>1. session'[q] = session[q] /\ presigned' = presigned
        BY <1>3, <2>2 DEF Purge
      <3>2. PlaceOf(q, session[q]) /\ PurgeOf(session[q])
        BY DEF StoredInv
      <3> QED
        BY <1>4, <3>1, <3>2 DEF PlaceOf, PurgeOf, Purged
    <2> QED
      BY <2>1, <2>2
  <1>7. (\A d \in Docs \ presigned : Kept(d))'
    <2> SUFFICES ASSUME NEW d \in Docs \ presigned, objects'[d] # NoObject, ~Live(d),
                        ~Orphan(d)
                 PROVE  \E q \in Processes : Storing(session[q], d)'
      BY DEF Kept, Live, Orphan, Purge
    <2>1. objects'[d] = objects[d]
      BY <1>4
    <2>2. PICK q \in Processes : Storing(session[q], d)
      BY <2>1 DEF StoredInv, Kept
    <2> QED
      BY <1>2, <1>3, <2>2 DEF Storing
  <1>8. (\A d \in Docs : documents[d].status = "pending_upload" => d \in presigned)'
    BY DEF Purge, StoredInv
  <1> QED
    BY <1>6, <1>7, <1>8 DEF StoredInv

\* A file that a client sends is nobody's direct upload.
LEMMA ClientPutStored ==
    ASSUME IndInv, StoredInv, NEW d \in Docs, ClientPut(d)
    PROVE  StoredInv'
  <1>1. \A e \in Docs \ presigned : objects'[e] = objects[e]
    BY DEF ClientPut, IndInv, TypeOK
  <1>2. /\ d \in presigned
        /\ UNCHANGED <<documents, presigned, session>>
    BY DEF ClientPut
  <1>3. ASSUME NEW p \in Processes
        PROVE  (PlaceOf(p, session[p]) /\ PurgeOf(session[p]))'
    BY <1>1, <1>2 DEF StoredInv, PlaceOf, PurgeOf, Purged
  <1>4. (\A e \in Docs \ presigned : Kept(e))'
    BY <1>1, <1>2 DEF StoredInv, Kept, Live, Orphan, Storing
  <1>5. (\A e \in Docs : documents[e].status = "pending_upload" => e \in presigned)'
    BY <1>2 DEF StoredInv
  <1> QED
    BY <1>3, <1>4, <1>5 DEF StoredInv


\* The commit: an upload becomes visible, and a deletion has purged its object.
LEMMA CommitStored ==
    ASSUME IndInv, StoredInv, NEW p \in Processes, Commit(p)
    PROVE  StoredInv'
  <1> DEFINE s == session[p]
  <1>1. /\ s \in Sessions /\ SessionControl(s) /\ PlaceOf(p, s) /\ PurgeOf(s)
        /\ s.pc = "commit"
    BY DEF IndInv, TypeOK, ControlOK, StoredInv, Commit, At
  <1>2. \A q \in Processes : session'[q] = IF q = p THEN NoSession ELSE session[q]
    BY DEF Commit, IndInv, TypeOK
  <1>3. /\ \A d \in Docs : documents'[d] = IF d = s.doc THEN FlushedRow(s)
                                           ELSE documents[d]
        /\ presigned' = presigned \cup {d \in {s.doc} : s.op = "presign_upload"}
        /\ UNCHANGED objects
    BY DEF Commit
  <1>4. ASSUME s.doc \in Docs
        PROVE  \/ /\ s.op = "upload"
                  /\ FlushedRow(s).status = "uploaded" /\ ~FlushedRow(s).deleted
               \/ s.op = "presign_upload"
               \/ s.op \in Completions /\ FlushedRow(s).status # "pending_upload"
               \/ s.op = "delete" /\ FlushedRow(s).status = "deleted"
               \/ s.op \notin Uploads /\ FlushedRow(s) = documents[s.doc]
    <2>1. documents[s.doc] \in Rows
      BY <1>4 DEF IndInv, TypeOK
    <2>2. /\ CreatedRow(s).status =
                IF s.op = "upload" THEN "uploaded" ELSE "pending_upload"
          /\ ~CreatedRow(s).deleted
      BY DEF CreatedRow
    <2>3. MarkedRow(s).status = "uploaded" /\ DeletedRow(s).status = "deleted"
      BY <2>1 DEF MarkedRow, DeletedRow, Rows
    <2> QED
      BY <1>1, <2>2, <2>3 DEF FlushedRow, SessionControl, PlaceOf
  <1>5. (\A d \in Docs : documents[d].status = "pending_upload" => d \in presigned)'
    BY <1>1, <1>3, <1>4 DEF StoredInv, PurgeOf
  <1>6. ASSUME NEW q \in Processes
        PROVE  (PlaceOf(q, session[q]) /\ PurgeOf(session[q]))'
    <2>1. PlaceOf(q, NoSession) /\ PurgeOf(NoSession)'
      BY DEF NoSession, PlaceOf, PurgeOf, Purged
    <2>2. PlaceOf(q, session[q]) /\ PurgeOf(session[q])
      BY DEF StoredInv
    <2> QED
      BY <1>2, <1>3, <2>1, <2>2 DEF NoSession, PlaceOf, PurgeOf, Purged
  <1>7. (\A d \in Docs \ presigned : Kept(d))'
    <2> SUFFICES ASSUME NEW d \in Docs \ presigned', objects[d] # NoObject
                 PROVE  \/ Live(d)' \/ Orphan(d)'
                        \/ \E q \in Processes : Storing(session[q], d)'
      BY <1>3 DEF Kept
    <2>1. Kept(d) /\ d \notin presigned
      BY <1>3 DEF StoredInv
    <2>2. CASE Live(d) /\ d # s.doc
      BY <1>3, <2>2 DEF Live
    <2>3. CASE Live(d) /\ d = s.doc
      <3>1. s.op \notin Uploads
        BY <2>3 DEF IndInv, KeysOwned, KeyOwned, Live, NoRow
      <3>2. s.op \notin Completions /\ s.op # "delete"
        BY <1>1, <2>1, <2>3 DEF PurgeOf, Purged
      <3> QED
        BY <1>3, <1>4, <2>3, <3>1, <3>2 DEF Live
    <2>4. CASE \E q \in Processes : Storing(session[q], d)
      <3>1. PICK q \in Processes : Storing(session[q], d)
        BY <2>4
      <3>2. CASE q = p
        BY <1>3, <1>4, <3>1, <3>2 DEF Storing, Live
      <3>3. CASE q # p
        BY <1>2, <3>1, <3>3 DEF Storing
      <3> QED
        BY <3>2, <3>3
    <2>5. CASE Orphan(d) /\ d # s.doc
      BY <1>3, <2>5 DEF Orphan
    <2>6. CASE Orphan(d) /\ d = s.doc
      <3>1. s.op # "presign_upload" /\ s.op \notin Completions /\ s.op # "delete"
        BY <1>1, <1>3, <2>1, <2>6 DEF PurgeOf, Purged
      <3> QED
        BY <1>3, <1>4, <2>6, <3>1 DEF Orphan, Live
    <2> QED
      BY <2>1, <2>2, <2>3, <2>4, <2>5, <2>6 DEF Kept
  <1> QED
    BY <1>5, <1>6, <1>7 DEF StoredInv

\* A failure leaves the object of an upload that has not inserted its row; a call
\* under way when it happens has saved such an object or has taken one away.
LEMMA FailStored ==
    ASSUME IndInv, StoredInv, NEW p \in Processes, Fail(p)
    PROVE  StoredInv'
  <1> DEFINE k == session[p].doc
  <1>1. /\ session[p] \in Sessions /\ PlaceOf(p, session[p])
        /\ Faults /\ session'[p] = NoSession
        /\ \A q \in Processes \ {p} : session'[q] = session[q]
        /\ UNCHANGED <<documents, presigned>>
    BY DEF IndInv, TypeOK, StoredInv, Fail, Close
  <1>2. session[p].op = "upload" => documents[k] = NoRow
    BY DEF IndInv, KeysOwned, KeyOwned
  <1>3. \A d \in Docs :
            \/ objects'[d] = objects[d]
            \/ d = k /\ session[p].pc = "save"
            \/ d = k /\ objects'[d] = NoObject
    BY DEF Fail, InterruptedObject
  <1>4. session[p].pc = "save" =>
            session[p].op = "upload" /\ \A q \in Processes \ {p} : session[q].doc # k
    BY <1>1 DEF PlaceOf, IndInv, KeysOwned, KeyOwned
  <1>5. ASSUME NEW q \in Processes
        PROVE  (PlaceOf(q, session[q]) /\ PurgeOf(session[q]))'
    <2>1. CASE q = p
      BY <1>1, <2>1 DEF NoSession, PlaceOf, PurgeOf, Purged
    <2>2. CASE q # p
      <3>1. session'[q] = session[q] /\ PlaceOf(q, session[q]) /\ PurgeOf(session[q])
        BY <1>1, <2>2 DEF StoredInv
      <3>2. Purged(session[q]) => session[q].doc \in Docs
        BY <3>1 DEF PlaceOf, Purged
      <3> QED
        BY <1>1, <1>3, <1>4, <2>2, <3>1, <3>2 DEF PlaceOf, PurgeOf, Purged
    <2> QED
      BY <2>1, <2>2
  <1>6. ASSUME NEW d \in Docs \ presigned
        PROVE  Kept(d)'
    <2> SUFFICES ASSUME objects'[d] # NoObject, ~Live(d), ~Orphan(d)
                 PROVE  \E q \in Processes : Storing(session[q], d)'
      BY <1>1 DEF Kept, Live, Orphan
    <2>1. objects'[d] = objects[d]
      BY <1>1, <1>2, <1>3, <1>4 DEF Orphan
    <2>2. PICK q \in Processes : Storing(session[q], d)
      BY <2>1 DEF StoredInv, Kept
    <2>3. q # p
      BY <1>1, <1>2, <2>2 DEF Storing, Orphan
    <2> QED
      BY <1>1, <2>2, <2>3 DEF Storing
  <1> QED
    BY <1>1, <1>5, <1>6 DEF StoredInv

--------------------------------------------------------------------------------

LEMMA StoredInitially == Init => StoredInv
  BY DEF Init, StoredInv, NoRow, NoSession, PlaceOf, PurgeOf, Purged, Kept

LEMMA StoredInductive ==
    IndInv /\ StoredInv /\ [Next]_vars => StoredInv'
  <1> SUFFICES ASSUME IndInv, StoredInv, [Next]_vars
               PROVE  StoredInv'
    OBVIOUS
  <1>1. ASSUME NEW p \in ApiProcesses, Request(p) PROVE StoredInv'
    BY <1>1, UploadStored, PresignUploadStored, CompleteUploadStored, UpdateStored,
       DeleteStored, DeleteProjectStored
    DEF Request
  <1>2. ASSUME NEW p \in LambdaProcesses, Event(p) PROVE StoredInv'
    BY <1>2, CompleteUploadByStorageKeyStored DEF Event
  <1>3. ASSUME NEW p \in Processes, Step(p) PROVE StoredInv'
    BY <1>3, SaveStored, HeadObjectStored, HeadMissingStored, PurgeStored,
       PurgeDeniedStored, LoadProjectStored, InsertStored, CommitStored
    DEF Step
  <1>4. ASSUME NEW p \in Processes, LockStep(p) PROVE StoredInv'
    BY <1>4, MarkUploadedStored, SoftDeleteStored, RenameStored,
       AdjustDocumentTotalsStored, AdjustViolatesCheckStored, CloseProjectStored
    DEF LockStep
  <1>5. ASSUME NEW p \in Processes, Fail(p) PROVE StoredInv'
    BY <1>5, FailStored
  <1>6. ASSUME NEW d \in Docs, ClientPut(d) PROVE StoredInv'
    BY <1>6, ClientPutStored
  <1>7. CASE UNCHANGED vars
    BY <1>7 DEF vars, StoredInv, PlaceOf, PurgeOf, Purged, Kept, Live, Orphan, Storing
  <1> QED
    BY <1>1, <1>2, <1>3, <1>4, <1>5, <1>6, <1>7 DEF Next

\* However many processes interleave, and whatever fails, no object of a direct
\* upload is left without a visible row or the upload at work on it, but for those
\* of uploads that failed before they committed their rows.
THEOREM NothingStray == Spec => []NoStrayObject
  <1>1. IndInv /\ StoredInv => NoStrayObject
    BY DEF StoredInv, Kept, Orphan, Storing, NoStrayObject
  <1> QED
    BY <1>1, StoredInductive, StoredInitially, Invariance, PTL DEF Spec

(***************************************************************************)
(* Direct uploads, with several processes and failures.                    *)
(***************************************************************************)

(* The shape of a session, whatever the other processes do.                *)

ShapeOK == \A p \in Processes : SessionShape(session[p])

\* A step of p replaces its session, and leaves those of the others.
Replaces(p, s) == session' = [session EXCEPT ![p] = s]

LEMMA ShapeReplaced ==
    ASSUME IndInv, ShapeOK, NEW p \in Processes, NEW s, Replaces(p, s), SessionShape(s)
    PROVE  ShapeOK'
  <1>1. \A q \in Processes : session'[q] = IF q = p THEN s ELSE session[q]
    BY DEF Replaces, IndInv, TypeOK
  <1> QED
    BY <1>1 DEF ShapeOK

LEMMA RequestShape ==
    ASSUME IndInv, ShapeOK, NEW p \in Processes, Request(p) \/ Event(p)
    PROVE  ShapeOK'
  <1>1. ASSUME NEW op \in {"upload", "presign_upload", "complete_upload",
                           "complete_upload_by_storage_key", "update", "delete",
                           "delete_project"},
               NEW pc, NEW d, NEW s,
               \/ op = "upload" /\ pc = "save"
               \/ op = "presign_upload" /\ pc = "insert"
               \/ op \in Completions /\ pc = "head"
               \/ op = "update" /\ pc = "rename"
               \/ op = "delete" /\ pc = "load_project"
               \/ op = "delete_project" /\ pc = "close",
               s.op = op, s.pc = pc, Start(p, op, s)
        PROVE  ShapeOK'
    <2>1. SessionShape(s)
      BY <1>1 DEF SessionShape
    <2> QED
      BY <1>1, <2>1, ShapeReplaced DEF Start, Replaces
  <1>2. ASSUME NEW d \in Docs, NEW size \in Sizes, Upload(p, d, size) PROVE ShapeOK'
    <2> DEFINE s == [Opened("upload", "save", d) EXCEPT
                       !.metadata = size,
                       !.count = project.documents_count,
                       !.total = project.total_size_bytes]
    <2>1. s.op = "upload" /\ s.pc = "save"
      BY DEF Opened, NoSession
    <2> HIDE DEF s
    <2>2. Start(p, "upload", s)
      BY <1>2 DEF Upload, s
    <2> QED
      BY <1>1, <2>1, <2>2
  <1>3. ASSUME NEW d \in Docs, PresignUpload(p, d) PROVE ShapeOK'
    <2> DEFINE s == Opened("presign_upload", "insert", d)
    <2>1. s.op = "presign_upload" /\ s.pc = "insert"
      BY DEF Opened, NoSession
    <2> HIDE DEF s
    <2>2. Start(p, "presign_upload", s)
      BY <1>3 DEF PresignUpload, s
    <2> QED
      BY <1>1, <2>1, <2>2
  <1>4. ASSUME NEW d \in Docs, CompleteUpload(p, d) PROVE ShapeOK'
    <2> DEFINE s == [Opened("complete_upload", "head", d) EXCEPT !.size = documents[d].size]
    <2>1. s.op = "complete_upload" /\ s.pc = "head"
      BY DEF Opened, NoSession
    <2> HIDE DEF s
    <2>2. Start(p, "complete_upload", s)
      BY <1>4 DEF CompleteUpload, s
    <2> QED
      BY <1>1, <2>1, <2>2
  <1>5. ASSUME NEW d \in Docs, CompleteUploadByStorageKey(p, d) PROVE ShapeOK'
    <2> DEFINE s == [Opened("complete_upload_by_storage_key", "head", d) EXCEPT
                       !.size = documents[d].size]
    <2>1. s.op = "complete_upload_by_storage_key" /\ s.pc = "head"
      BY DEF Opened, NoSession
    <2> HIDE DEF s
    <2>2. Start(p, "complete_upload_by_storage_key", s)
      BY <1>5 DEF CompleteUploadByStorageKey, s
    <2> QED
      BY <1>1, <2>1, <2>2
  <1>6. ASSUME NEW d \in Docs, Update(p, d) PROVE ShapeOK'
    <2> DEFINE s == Opened("update", "rename", d)
    <2>1. s.op = "update" /\ s.pc = "rename"
      BY DEF Opened, NoSession
    <2> HIDE DEF s
    <2>2. Start(p, "update", s)
      BY <1>6 DEF Update, s
    <2> QED
      BY <1>1, <2>1, <2>2
  <1>7. ASSUME NEW d \in Docs, Delete(p, d) PROVE ShapeOK'
    <2> DEFINE s == [Opened("delete", "load_project", d) EXCEPT !.size = documents[d].size]
    <2>1. s.op = "delete" /\ s.pc = "load_project"
      BY DEF Opened, NoSession
    <2> HIDE DEF s
    <2>2. Start(p, "delete", s)
      BY <1>7 DEF Delete, s
    <2> QED
      BY <1>1, <2>1, <2>2
  <1>8. ASSUME DeleteProject(p) PROVE ShapeOK'
    <2> DEFINE s == Opened("delete_project", "close", NoDoc)
    <2>1. s.op = "delete_project" /\ s.pc = "close"
      BY DEF Opened, NoSession
    <2> HIDE DEF s
    <2>2. Start(p, "delete_project", s)
      BY <1>8 DEF DeleteProject, s
    <2> QED
      BY <1>1, <2>1, <2>2
  <1> QED
    BY <1>2, <1>3, <1>4, <1>5, <1>6, <1>7, <1>8 DEF Request, Event

LEMMA StepShape ==
    ASSUME IndInv, ShapeOK, NEW p \in Processes, Step(p) \/ LockStep(p) \/ Fail(p)
    PROVE  ShapeOK'
  <1>1. session[p] \in Sessions /\ SessionShape(session[p])
    BY DEF IndInv, TypeOK, ShapeOK
  <1>2. session[p].pc \notin {"adjust", "commit"} => session[p].flushed = {}
    BY DEF IndInv, ControlOK, SessionControl
  <1>3. CASE Save(p)
    <2> DEFINE s == [session[p] EXCEPT !.pc = "insert"]
    <2>1. SessionShape(s)
      BY <1>1, <1>2, <1>3 DEF Save, At, Sessions, SessionShape
    <2>2. Replaces(p, s)
      BY <1>3 DEF Save, Goto, Flush, Replaces, IndInv, TypeOK
    <2> QED
      BY <2>1, <2>2, ShapeReplaced
  <1>4. CASE HeadObject(p)
    <2> DEFINE s == [session[p] EXCEPT !.metadata = objects[session[p].doc],
                                       !.pc = "load_project"]
    <2>1. SessionShape(s)
      BY <1>1, <1>2, <1>4 DEF HeadObject, At, Sessions, SessionShape
    <2>2. Replaces(p, s)
      BY <1>4 DEF HeadObject, Goto, Flush, Replaces, IndInv, TypeOK
    <2> QED
      BY <2>1, <2>2, ShapeReplaced
  <1>5. CASE Purge(p)
    <2> DEFINE s == [session[p] EXCEPT !.pc = "soft_delete"]
    <2>1. SessionShape(s)
      BY <1>1, <1>2, <1>5 DEF Purge, At, Sessions, SessionShape
    <2>2. Replaces(p, s)
      BY <1>5 DEF Purge, Goto, Flush, Replaces, IndInv, TypeOK
    <2> QED
      BY <2>1, <2>2, ShapeReplaced
  <1>6. CASE LoadProject(p)
    <2> DEFINE s == [session[p] EXCEPT
                       !.count = project.documents_count,
                       !.total = project.total_size_bytes,
                       !.pc = IF Accepts(session[p]) THEN "mark" ELSE "purge"]
    <2>1. SessionShape(s)
      BY <1>1, <1>2, <1>6 DEF LoadProject, At, Sessions, SessionShape, Accepts
    <2>2. Replaces(p, s)
      BY <1>6 DEF LoadProject, Goto, Flush, Replaces, IndInv, TypeOK
    <2> QED
      BY <2>1, <2>2, ShapeReplaced
  <1>7. CASE Insert(p)
    <2> DEFINE s == [session[p] EXCEPT !.flushed = @ \cup {"insert"},
                                       !.pc = IF session[p].op = "upload"
                                              THEN "adjust" ELSE "commit"]
    <2>1. SessionShape(s)
      BY <1>1, <1>2, <1>7 DEF Insert, At, Sessions, SessionShape
    <2>2. Replaces(p, s)
      BY <1>7 DEF Insert, Goto, Flush, Replaces, IndInv, TypeOK
    <2> QED
      BY <2>1, <2>2, ShapeReplaced
  <1>8. CASE MarkUploaded(p)
    <2> DEFINE s == [session[p] EXCEPT !.flushed = @ \cup {"mark"}, !.pc = "adjust"]
    <2>1. SessionShape(s)
      BY <1>1, <1>2, <1>8 DEF MarkUploaded, At, Sessions, SessionShape
    <2>2. Replaces(p, s)
      BY <1>8 DEF MarkUploaded, Goto, Flush, Replaces, IndInv, TypeOK
    <2> QED
      BY <2>1, <2>2, ShapeReplaced
  <1>9. CASE SoftDelete(p)
    <2> DEFINE s == [session[p] EXCEPT !.flushed = @ \cup {"soft_delete"},
                                       !.pc = IF session[p].op = "delete"
                                              THEN "adjust" ELSE "commit"]
    <2>1. SessionShape(s)
      BY <1>1, <1>2, <1>9 DEF SoftDelete, At, Sessions, SessionShape
    <2>2. Replaces(p, s)
      BY <1>9 DEF SoftDelete, Goto, Flush, Replaces, IndInv, TypeOK
    <2> QED
      BY <2>1, <2>2, ShapeReplaced
  <1>10. CASE Rename(p)
    <2> DEFINE s == [session[p] EXCEPT !.flushed = @ \cup {"rename"}, !.pc = "commit"]
    <2>1. SessionShape(s)
      BY <1>1, <1>2, <1>10 DEF Rename, At, Sessions, SessionShape
    <2>2. Replaces(p, s)
      BY <1>10 DEF Rename, Goto, Flush, Replaces, IndInv, TypeOK
    <2> QED
      BY <2>1, <2>2, ShapeReplaced
  <1>11. CASE AdjustDocumentTotals(p)
    <2> DEFINE s == [session[p] EXCEPT !.flushed = @ \cup {"adjust"}, !.pc = "commit"]
    <2>1. SessionShape(s)
      BY <1>1, <1>2, <1>11 DEF AdjustDocumentTotals, At, Sessions, SessionShape
    <2>2. Replaces(p, s)
      BY <1>11 DEF AdjustDocumentTotals, Goto, Flush, Replaces, IndInv, TypeOK
    <2> QED
      BY <2>1, <2>2, ShapeReplaced
  <1>12. CASE CloseProject(p)
    <2> DEFINE s == [session[p] EXCEPT !.flushed = @ \cup {"close"}, !.pc = "commit"]
    <2>1. SessionShape(s)
      BY <1>1, <1>2, <1>12 DEF CloseProject, At, Sessions, SessionShape
    <2>2. Replaces(p, s)
      BY <1>12 DEF CloseProject, Goto, Flush, Replaces, IndInv, TypeOK
    <2> QED
      BY <2>1, <2>2, ShapeReplaced
  <1>13. CASE \/ HeadMissing(p) \/ PurgeDenied(p) \/ AdjustViolatesCheck(p) \/ Fail(p)
             \/ Commit(p)
    <2>1. SessionShape(NoSession)
      BY DEF NoSession, SessionShape
    <2>2. Replaces(p, NoSession)
      BY <1>13 DEF HeadMissing, PurgeDenied, AdjustViolatesCheck, Fail, Commit, Close, Replaces
    <2> QED
      BY <2>1, <2>2, ShapeReplaced
  <1> QED
    BY <1>3, <1>4, <1>5, <1>6, <1>7, <1>8, <1>9, <1>10, <1>11, <1>12, <1>13 DEF Step, LockStep

LEMMA ShapeInductive == IndInv /\ ShapeOK /\ [Next]_vars => ShapeOK'
  <1> SUFFICES ASSUME IndInv, ShapeOK, [Next]_vars
               PROVE  ShapeOK'
    OBVIOUS
  <1>1. UNCHANGED session => ShapeOK'
    BY DEF ShapeOK
  <1> QED
    BY <1>1, RequestShape, StepShape DEF Next, ClientPut, vars

--------------------------------------------------------------------------------
(* The inductive invariant.                                                *)

\* A completion works on a presigned key and a direct upload on another one, whose
\* object is the file it has saved.
DirectKnown(s) ==
    /\ s.op \in Completions => s.doc \in presigned
    /\ s.op = "upload" => s.doc \notin presigned
    /\ s.op = "upload" /\ s.pc \in {"insert", "adjust", "commit"} =>
            objects[s.doc] = s.metadata
    /\ s.op = "presign_upload" => "presign_upload" \in Operations

DirectInv ==
    /\ \A d \in Docs : documents[d].status = "pending_upload" => d \in presigned
    /\ presigned # {} => "presign_upload" \in Operations
    /\ \A p \in Processes : DirectKnown(session[p])

\* A step of p that changes no object but that of its session.
LEMMA DirectStep ==
    ASSUME IndInv, DirectInv, NEW p \in Processes, NEW s, Replaces(p, s),
           DirectKnown(s)',
           \A e \in Docs : e # session[p].doc => objects'[e] = objects[e],
           \/ UNCHANGED <<documents, presigned>>
           \/ Commit(p) /\ ShapeOK
    PROVE  DirectInv'
  <1>1. \A q \in Processes : session'[q] = IF q = p THEN s ELSE session[q]
    BY DEF Replaces, IndInv, TypeOK
  <1>2. /\ presigned \subseteq presigned'
        /\ presigned' \subseteq presigned \cup {session[p].doc}
        /\ presigned' # presigned => session[p].op = "presign_upload"
    BY DEF Commit
  <1>3. ASSUME NEW q \in Processes \ {p}
        PROVE  DirectKnown(session[q])'
    <2>1. session'[q] = session[q] /\ DirectKnown(session[q])
      BY <1>1 DEF DirectInv
    <2>2. CASE session[q].op = "upload"
      <3>1. session[q].doc \in Docs /\ session[q].doc # session[p].doc
        BY <2>2 DEF IndInv, ControlOK, SessionControl, KeysOwned, KeyOwned
      <3>2. objects'[session[q].doc] = objects[session[q].doc]
        BY <3>1
      <3> QED
        BY <1>2, <2>1, <2>2, <3>1, <3>2 DEF DirectKnown
    <2>3. CASE session[q].op # "upload"
      BY <1>2, <2>1, <2>3 DEF DirectKnown
    <2> QED
      BY <2>2, <2>3
  <1>4. DirectKnown(session[p])'
    BY <1>1 DEF DirectKnown
  <1>5. presigned' # {} => "presign_upload" \in Operations
    BY <1>2 DEF DirectInv, DirectKnown
  <1>6. ASSUME NEW d \in Docs, documents'[d].status = "pending_upload"
        PROVE  d \in presigned'
    <2>1. CASE documents'[d] = documents[d]
      BY <1>2, <1>6, <2>1 DEF DirectInv
    <2>2. CASE documents'[d] # documents[d]
      <3>1. Commit(p) /\ ShapeOK /\ d = session[p].doc
        BY <2>2 DEF Commit
      <3>2. documents'[d] = FlushedRow(session[p]) /\ documents[d] \in Rows
        BY <3>1 DEF Commit, IndInv, TypeOK
      <3>3. SessionShape(session[p]) /\ session[p].pc = "commit"
        BY <3>1 DEF ShapeOK, Commit, At
      <3>4. session[p].op = "presign_upload"
        BY <1>6, <2>2, <3>1, <3>2, <3>3
        DEF SessionShape, FlushedRow, CreatedRow, MarkedRow, DeletedRow, Rows
      <3> QED
        BY <3>1, <3>4 DEF Commit
    <2> QED
      BY <2>1, <2>2
  <1> QED
    BY <1>3, <1>4, <1>5, <1>6 DEF DirectInv

LEMMA NoSessionDirect == DirectKnown(NoSession)'
  BY DEF DirectKnown, NoSession

LEMMA RequestDirect ==
    ASSUME IndInv, DirectInv, NEW p \in Processes, Request(p) \/ Event(p)
    PROVE  DirectInv'
  <1>1. ASSUME NEW op, NEW s, Start(p, op, s), DirectKnown(s)
        PROVE  DirectInv'
    <2>1. DirectKnown(s)'
      BY <1>1 DEF Start, DirectKnown
    <2> QED
      BY <1>1, <2>1, DirectStep DEF Start, Replaces
  <1>2. ASSUME NEW d \in Docs, NEW size \in Sizes, Upload(p, d, size)
        PROVE  DirectInv'
    <2> DEFINE s == [Opened("upload", "save", d) EXCEPT
                       !.metadata = size,
                       !.count = project.documents_count,
                       !.total = project.total_size_bytes]
    <2>1. s.op = "upload" /\ s.pc = "save" /\ s.doc = d
      BY DEF Opened, NoSession
    <2>2. Start(p, "upload", s) /\ d \notin presigned
      BY <1>2 DEF Upload, FreshKey
    <2> HIDE DEF s
    <2> QED
      BY <1>1, <2>1, <2>2 DEF DirectKnown
  <1>3. ASSUME NEW d \in Docs, PresignUpload(p, d)
        PROVE  DirectInv'
    <2> DEFINE s == Opened("presign_upload", "insert", d)
    <2>1. s.op = "presign_upload"
      BY DEF Opened, NoSession
    <2>2. Start(p, "presign_upload", s) /\ "presign_upload" \in Operations
      BY <1>3 DEF PresignUpload, Start
    <2> HIDE DEF s
    <2> QED
      BY <1>1, <2>1, <2>2 DEF DirectKnown
  <1>4. ASSUME NEW d \in Docs, NEW op \in Completions, NEW s,
               s = [Opened(op, "head", d) EXCEPT !.size = documents[d].size],
               Start(p, op, s), Pending(d)
        PROVE  DirectInv'
    <2>1. s.op = op /\ s.doc = d
      BY <1>4 DEF Opened, NoSession
    <2>2. d \in presigned
      BY <1>4 DEF DirectInv, Pending
    <2> QED
      BY <1>1, <1>4, <2>1, <2>2 DEF DirectKnown
  <1>5. ASSUME NEW d \in Docs, CompleteUpload(p, d) \/ CompleteUploadByStorageKey(p, d)
        PROVE  DirectInv'
    BY <1>4, <1>5 DEF CompleteUpload, CompleteUploadByStorageKey
  <1>6. ASSUME NEW d \in Docs, Update(p, d) \/ Delete(p, d)
        PROVE  DirectInv'
    <2>1. PICK op \in {"update", "delete"} : \E s : s.op = op /\ Start(p, op, s)
      BY <1>6 DEF Update, Delete, Opened, NoSession
    <2>2. PICK s : s.op = op /\ Start(p, op, s)
      BY <2>1
    <2> QED
      BY <1>1, <2>1, <2>2 DEF DirectKnown
  <1>7. CASE DeleteProject(p)
    <2>1. PICK s : s.op = "delete_project" /\ Start(p, "delete_project", s)
      BY <1>7 DEF DeleteProject, Opened, NoSession
    <2> QED
      BY <1>1, <2>1 DEF DirectKnown
  <1> QED
    BY <1>2, <1>3, <1>5, <1>6, <1>7 DEF Request, Event

\* A step that goes on with the session of p keeps its operation, its document and,
\* of an upload, the size of its file; an upload that has saved its file leaves it.
LEMMA GoesOnDirect ==
    ASSUME IndInv, ShapeOK, DirectInv, NEW p \in Processes,
           Step(p) \/ LockStep(p), ~Commit(p), ~Save(p)
    PROVE  \E s : Replaces(p, s) /\ DirectKnown(s)'
  <1> DEFINE r == session[p]
  <1>1. r \in Sessions /\ SessionShape(r) /\ DirectKnown(r)
    BY DEF IndInv, TypeOK, ShapeOK, DirectInv
  <1>2. UNCHANGED presigned
    BY DEF Step, LockStep, HeadObject, HeadMissing, Purge, PurgeDenied, LoadProject,
           Insert, MarkUploaded, SoftDelete, Rename, AdjustDocumentTotals,
           AdjustViolatesCheck, CloseProject, Flush, Goto, Close
  <1>3. r.op = "upload" => UNCHANGED objects
    BY <1>1
    DEF SessionShape, At, Step, LockStep, HeadObject, HeadMissing, Purge, PurgeDenied,
        LoadProject, Insert, MarkUploaded, SoftDelete, Rename, AdjustDocumentTotals,
        AdjustViolatesCheck, CloseProject, Flush, Goto, Close
  <1>4. ASSUME NEW s, s.op = r.op, s.doc = r.doc,
               r.op = "upload" =>
                    s.metadata = r.metadata /\ r.pc \in {"insert", "adjust", "commit"}
        PROVE  DirectKnown(s)'
    BY <1>1, <1>2, <1>3, <1>4 DEF DirectKnown
  <1>5. CASE HeadObject(p)
    <2>1. PICK s : /\ s = [r EXCEPT !.metadata = objects[r.doc], !.pc = "load_project"]
                   /\ Replaces(p, s)
      BY <1>5 DEF HeadObject, Replaces, IndInv, TypeOK
    <2>2. r.op # "upload" /\ s.op = r.op /\ s.doc = r.doc
      BY <1>1, <1>5, <2>1 DEF HeadObject, At, SessionShape, Sessions
    <2> QED
      BY <1>4, <2>1, <2>2
  <1>6. CASE LoadProject(p)
    <2>1. PICK s : /\ s = [r EXCEPT
                             !.count = project.documents_count,
                             !.total = project.total_size_bytes,
                             !.pc = IF Accepts(r) THEN "mark" ELSE "purge"]
                   /\ Replaces(p, s)
      BY <1>6 DEF LoadProject, Replaces
    <2>2. r.op # "upload" /\ s.op = r.op /\ s.doc = r.doc
      BY <1>1, <1>6, <2>1 DEF LoadProject, At, SessionShape, Sessions
    <2> QED
      BY <1>4, <2>1, <2>2
  <1>7. CASE Purge(p)
    <2>1. PICK s : s = [r EXCEPT !.pc = "soft_delete"] /\ Replaces(p, s)
      BY <1>7 DEF Purge, Goto, Replaces, IndInv, TypeOK
    <2>2. r.op # "upload" /\ s.op = r.op /\ s.doc = r.doc
      BY <1>1, <1>7, <2>1 DEF Purge, At, SessionShape, Sessions
    <2> QED
      BY <1>4, <2>1, <2>2
  <1>8. CASE \/ Insert(p) \/ MarkUploaded(p) \/ SoftDelete(p) \/ Rename(p)
             \/ AdjustDocumentTotals(p) \/ CloseProject(p)
    <2>1. PICK statement, pc : Flush(p, statement, pc)
      BY <1>8 DEF Insert, MarkUploaded, SoftDelete, Rename, AdjustDocumentTotals,
                  CloseProject
    <2>2. PICK s : /\ s = [r EXCEPT !.flushed = r.flushed \cup {statement}, !.pc = pc]
                   /\ Replaces(p, s)
      BY <2>1 DEF Flush, Replaces, IndInv, TypeOK
    <2>3. s.op = r.op /\ s.doc = r.doc /\ s.metadata = r.metadata
      BY <1>1, <2>2 DEF Sessions
    <2>4. r.op = "upload" => r.pc \in {"insert", "adjust", "commit"}
      BY <1>1, <1>8
      DEF SessionShape, At, Insert, MarkUploaded, SoftDelete, Rename,
          AdjustDocumentTotals, CloseProject
    <2> QED
      BY <1>4, <2>2, <2>3, <2>4
  <1>9. CASE HeadMissing(p) \/ PurgeDenied(p) \/ AdjustViolatesCheck(p)
    BY <1>9, NoSessionDirect
    DEF HeadMissing, PurgeDenied, AdjustViolatesCheck, Close, Replaces
  <1> QED
    BY <1>5, <1>6, <1>7, <1>8, <1>9 DEF Step, LockStep

LEMMA StepDirect ==
    ASSUME IndInv, ShapeOK, DirectInv, NEW p \in Processes, Step(p) \/ LockStep(p)
    PROVE  DirectInv'
  <1>1. CASE Commit(p)
    BY <1>1, NoSessionDirect, DirectStep DEF Commit, Replaces
  <1>2. CASE Save(p)
    <2> DEFINE r == session[p]
    <2>1. r \in Sessions /\ SessionShape(r) /\ DirectKnown(r) /\ r.pc = "save"
      BY <1>2 DEF IndInv, TypeOK, ShapeOK, DirectInv, Save, At
    <2>2. PICK s : s = [r EXCEPT !.pc = "insert"] /\ Replaces(p, s)
      BY <1>2 DEF Save, Goto, Replaces, IndInv, TypeOK
    <2>3. r.op = "upload" /\ r.doc \in Docs
      BY <2>1 DEF SessionShape, IndInv, ControlOK, SessionControl
    <2>4. objects'[r.doc] = r.metadata /\ UNCHANGED <<documents, presigned>>
          /\ \A e \in Docs : e # r.doc => objects'[e] = objects[e]
      BY <1>2, <2>3 DEF Save, IndInv, TypeOK
    <2>5. s.op = r.op /\ s.doc = r.doc /\ s.metadata = r.metadata
      BY <2>1, <2>2 DEF Sessions
    <2>6. DirectKnown(s)'
      BY <2>1, <2>3, <2>4, <2>5 DEF DirectKnown
    <2> QED
      BY <2>2, <2>4, <2>6, DirectStep
  <1>3. CASE ~Commit(p) /\ ~Save(p)
    <2>1. PICK s : Replaces(p, s) /\ DirectKnown(s)'
      BY <1>3, GoesOnDirect
    <2>2. /\ UNCHANGED <<documents, presigned>>
          /\ \A e \in Docs : e # session[p].doc => objects'[e] = objects[e]
      BY <1>3
      DEF Step, LockStep, HeadObject, HeadMissing, Purge, PurgeDenied, LoadProject,
          Insert, MarkUploaded, SoftDelete, Rename, AdjustDocumentTotals,
          AdjustViolatesCheck, CloseProject, Flush, Goto, Close, IndInv, TypeOK
    <2> QED
      BY <2>1, <2>2, DirectStep
  <1> QED
    BY <1>1, <1>2, <1>3

LEMMA FailDirect ==
    ASSUME IndInv, DirectInv, NEW p \in Processes, Fail(p)
    PROVE  DirectInv'
  BY NoSessionDirect, DirectStep DEF Fail, Close, Replaces

LEMMA ClientPutDirect ==
    ASSUME IndInv, DirectInv, NEW d \in Docs, ClientPut(d)
    PROVE  DirectInv'
  <1>1. d \in presigned /\ \A e \in Docs \ {d} : objects'[e] = objects[e]
    BY DEF ClientPut, IndInv, TypeOK
  <1>2. ASSUME NEW p \in Processes
        PROVE  DirectKnown(session[p])'
    <2>1. DirectKnown(session[p])
      BY DEF DirectInv
    <2>2. session[p].op = "upload" => session[p].doc \in Docs \ {d}
      BY <1>1, <2>1 DEF DirectKnown, IndInv, ControlOK, SessionControl
    <2> QED
      BY <1>1, <2>1, <2>2 DEF DirectKnown, ClientPut
  <1> QED
    BY <1>2 DEF DirectInv, ClientPut

LEMMA DirectInductive == IndInv /\ ShapeOK /\ DirectInv /\ [Next]_vars => DirectInv'
  <1> SUFFICES ASSUME IndInv, ShapeOK, DirectInv, [Next]_vars
               PROVE  DirectInv'
    OBVIOUS
  <1>1. CASE UNCHANGED vars
    BY <1>1 DEF vars, DirectInv, DirectKnown
  <1> QED
    BY <1>1, RequestDirect, StepDirect, FailDirect, ClientPutDirect DEF Next

LEMMA DirectInvariance == Spec => [](IndInv /\ ShapeOK /\ DirectInv)
  <1>1. Init => ShapeOK
    <2>1. SessionShape(NoSession)
      BY DEF NoSession, SessionShape
    <2> QED
      BY <2>1 DEF Init, ShapeOK
  <1>2. Init => DirectInv
    BY DEF Init, DirectInv, DirectKnown, NoSession, NoRow
  <1> QED
    BY <1>1, <1>2, Initially, Inductive, ShapeInductive, DirectInductive, PTL DEF Spec

--------------------------------------------------------------------------------
(* The theorems.                                                           *)

\* What VisibleOnlyWhenStored and OnlyDeletionRemovesObject say of direct uploads.
DirectVisible ==
    [][\A d \in Docs \ presigned :
            ~Live(d) /\ Live(d)' => objects[d] = documents'[d].size]_vars

DirectStay ==
    [][\A d \in LiveDocs \ presigned :
            objects[d] # NoObject /\ objects'[d] = NoObject =>
                \E p \in Processes :
                    session[p].op = "delete" /\ session[p].doc = d]_vars

\* A direct upload's document becomes visible with its file, of the size that its row
\* records, whatever any number of processes do meanwhile and whatever fails.
THEOREM DirectVisibleStored == Spec => DirectVisible
  <1> DEFINE Shown ==
        \A d \in Docs \ presigned :
            ~Live(d) /\ Live(d)' => objects[d] = documents'[d].size
  <1>1. IndInv /\ ShapeOK /\ DirectInv /\ [Next]_vars => Shown
    <2> SUFFICES ASSUME IndInv, ShapeOK, DirectInv, [Next]_vars,
                        NEW d \in Docs \ presigned, ~Live(d), Live(d)'
                 PROVE  objects[d] = documents'[d].size
      OBVIOUS
    <2>1. PICK p \in Processes : Commit(p)
      BY OnlyCommitWrites DEF Live
    <2> DEFINE s == session[p]
    <2>2. s \in Sessions /\ SessionShape(s) /\ DirectKnown(s) /\ s.pc = "commit"
      BY <2>1 DEF Commit, At, IndInv, TypeOK, ShapeOK, DirectInv
    <2>3. d = s.doc /\ documents'[d] = FlushedRow(s) /\ documents[d] \in Rows
      BY <2>1 DEF Commit, Live, IndInv, TypeOK
    <2>4. s.op = "upload"
      BY <2>2, <2>3
      DEF SessionShape, DirectKnown, FlushedRow, CreatedRow, DeletedRow, Rows, Live
    <2>5. documents'[d].size = s.metadata
      BY <2>2, <2>3, <2>4 DEF SessionShape, FlushedRow, CreatedRow
    <2> QED
      BY <2>2, <2>3, <2>4, <2>5 DEF DirectKnown
  <1> QED
    BY <1>1, DirectInvariance, PTL DEF Spec, DirectVisible

\* Nothing but the deletion of that document takes its file away, either.
THEOREM DirectObjectsStay == Spec => DirectStay
  <1> DEFINE Stay ==
        \A d \in LiveDocs \ presigned :
            objects[d] # NoObject /\ objects'[d] = NoObject =>
                \E p \in Processes : session[p].op = "delete" /\ session[p].doc = d
  <1>1. IndInv /\ ShapeOK /\ DirectInv /\ [Next]_vars => Stay
    <2> SUFFICES ASSUME IndInv, ShapeOK, DirectInv, [Next]_vars,
                        NEW d \in LiveDocs \ presigned,
                        objects[d] # NoObject, objects'[d] = NoObject
                 PROVE  \E p \in Processes :
                            session[p].op = "delete" /\ session[p].doc = d
      OBVIOUS
    <2>1. d \in Docs
      BY DEF LiveDocs
    <2>2. ASSUME NEW p \in Processes, session[p].pc = "purge", session[p].doc = d
          PROVE  session[p].op = "delete"
      BY <2>2 DEF ShapeOK, SessionShape, DirectInv, DirectKnown
    <2> QED
      BY <2>1, <2>2, OnlyPurgeRemoves
  <1> QED
    BY <1>1, DirectInvariance, PTL DEF Spec, DirectStay

LEMMA NonePresigned ==
    ASSUME "presign_upload" \notin Operations
    PROVE  Spec => [](presigned = {})
  <1>1. DirectInv => presigned = {}
    BY DEF DirectInv
  <1> QED
    BY <1>1, DirectInvariance, PTL

\* In a deployment without presigned URLs, as one with the local store is, documents
\* become visible only with their objects, for any number of processes.
THEOREM LocalVisibleStored ==
    ASSUME "presign_upload" \notin Operations
    PROVE  Spec => VisibleOnlyWhenStored
  <1>1. ASSUME IndInv, IndInv', presigned = {},
               \A d \in Docs \ presigned :
                    ~Live(d) /\ Live(d)' => objects[d] = documents'[d].size
        PROVE  \A d \in Docs :
                    ~Live(d) /\ Live(d)' =>
                        /\ objects[d] # NoObject
                        /\ d \notin presigned => objects[d] = documents'[d].size
    BY <1>1 DEF IndInv, TypeOK, Rows
  <1> QED
    BY <1>1, NonePresigned, DirectInvariance, DirectVisibleStored, PTL
    DEF VisibleOnlyWhenStored, DirectVisible

\* And they keep them until they are deleted.
THEOREM LocalObjectsStay ==
    ASSUME "presign_upload" \notin Operations
    PROVE  Spec => OnlyDeletionRemovesObject
  <1>1. ASSUME presigned = {},
               \A d \in LiveDocs \ presigned :
                    objects[d] # NoObject /\ objects'[d] = NoObject =>
                        \E p \in Processes :
                            session[p].op = "delete" /\ session[p].doc = d
        PROVE  \A d \in LiveDocs :
                    objects[d] # NoObject /\ objects'[d] = NoObject =>
                        \E p \in Processes :
                            session[p].op = "delete" /\ session[p].doc = d
    BY <1>1
  <1> QED
    BY <1>1, NonePresigned, DirectObjectsStay, PTL
    DEF OnlyDeletionRemovesObject, DirectStay
================================================================================
