-------------------------- MODULE SerialLedgerProofs ---------------------------
(***************************************************************************)
(* While the operations that adjust the totals run in one process, the     *)
(* rows implement the abstract ledger: the totals of the project are exact *)
(* whatever fails between two steps, and whatever presigns, renames and    *)
(* deletions of the project the other processes interleave, for every set  *)
(* of documents and sizes and every limit.                                 *)
(***************************************************************************)
EXTENDS DocumentServiceProofs, FiniteSetTheorems

\* The operations that adjust the totals of the project.
Adjusting == {"upload", "delete"} \cup Completions

\* No process but w runs any of them: w is the only API process, or requests
\* only presign, rename and delete the project; w is the only event handler, or
\* no event is handled.
Sole(w) ==
    /\ ApiProcesses \subseteq {w}
        \/ Operations \cap {"upload", "complete_upload", "delete"} = {}
    /\ LambdaProcesses \subseteq {w}
        \/ "complete_upload_by_storage_key" \notin Operations

\* One adjusting operation at a time: one API worker and no event handler, or one
\* event handler beside any number of API workers that presign.
Serial == \E w \in Processes : Sole(w)

\* Whoever runs an adjusting operation is the only process that does.
Allowed(p, op) == op \in Adjusting => \A w \in Processes : Sole(w) => w = p

\* Which operations reach a point of the control, and what they have flushed.
SessionShape(s) ==
    /\ s.pc = "idle" => s = NoSession
    /\ s.pc = "save" => s.op = "upload"
    /\ s.pc = "insert" => s.op \in Uploads
    /\ s.pc \in {"head", "mark"} => s.op \in Completions
    /\ s.pc \in {"load_project", "purge", "soft_delete"} =>
            s.op \in Completions \cup {"delete"}
    /\ s.pc = "rename" => s.op = "update"
    /\ s.pc = "close" => s.op = "delete_project"
    /\ s.pc = "adjust" =>
            \/ s.op = "upload" /\ s.flushed = {"insert"}
            \/ s.op \in Completions /\ s.flushed = {"mark"}
            \/ s.op = "delete" /\ s.flushed = {"soft_delete"}
    /\ s.pc = "commit" =>
            \/ s.op = "upload" /\ s.flushed = {"insert", "adjust"}
            \/ s.op = "presign_upload" /\ s.flushed = {"insert"}
            \/ s.op \in Completions /\ s.flushed = {"mark", "adjust"}
            \/ s.op \in Completions /\ s.flushed = {"soft_delete"}
            \/ s.op = "delete" /\ s.flushed = {"soft_delete", "adjust"}
            \/ s.op = "update" /\ s.flushed = {"rename"}
            \/ s.op = "delete_project" /\ s.flushed = {"close"}

\* The totals the session loaded, once it has, are still those of the project.
TotalsCurrent(s) ==
    s.op \in Adjusting /\ s.pc \notin {"head", "load_project"} =>
            /\ s.count = project.documents_count
            /\ s.total = project.total_size_bytes

\* The row the session loaded is still as it was.
RowCurrent(s) ==
    /\ s.op \in Completions =>
            Pending(s.doc) /\ s.size = documents[s.doc].size /\ s.doc \in Docs
    /\ s.op = "delete" =>
            Live(s.doc) /\ s.size = documents[s.doc].size /\ s.doc \in Docs

\* The size that is added to the totals is the size of a file.
SizeKnown(s) ==
    /\ s.op = "upload" => s.metadata \in Sizes
    /\ s.op \in Completions /\ s.pc # "head" => s.metadata \in Sizes

SerialSession(p, s) ==
    /\ SessionShape(s) /\ TotalsCurrent(s) /\ RowCurrent(s) /\ SizeKnown(s)
    /\ Allowed(p, s.op)

SerialInv ==
    /\ \A d \in Docs : objects[d] \in Sizes \cup {NoObject}
    /\ \A p \in Processes : SerialSession(p, session[p])

USE DEF Uploads, Completions, Requests, NoObject, Adjusting

--------------------------------------------------------------------------------

\* A session that is replaced while the rows stay.
LEMMA SerialStep ==
    ASSUME IndInv, SerialInv, NEW p \in Processes, NEW s,
           session' = [session EXCEPT ![p] = s],
           SerialSession(p, s),
           UNCHANGED <<documents, project>>,
           \A d \in Docs : objects'[d] \in Sizes \cup {NoObject}
    PROVE  SerialInv'
  <1>1. ASSUME NEW q \in Processes
        PROVE  SerialSession(q, session[q])'
    <2>1. session'[q] = IF q = p THEN s ELSE session[q]
      BY DEF IndInv, TypeOK
    <2>2. SerialSession(q, session'[q])
      BY <2>1 DEF SerialInv
    <2> QED
      BY <2>2 DEF SerialSession, SessionShape, TotalsCurrent, RowCurrent, SizeKnown,
                  Pending, Live
  <1> QED
    BY <1>1 DEF SerialInv

LEMMA NoSessionSerial == \A p \in Processes : SerialSession(p, NoSession)
  BY DEF NoSession, SerialSession, SessionShape, TotalsCurrent, RowCurrent,
         SizeKnown, Allowed

\* Whoever adjusts does so alone.
LEMMA AdjustsAlone ==
    ASSUME Serial, SerialInv, NEW p \in Processes, session[p].op \in Adjusting,
           NEW q \in Processes, q # p
    PROVE  session[q].op \notin Adjusting
  BY DEF Serial, SerialInv, SerialSession, Allowed

LEMMA MayAdjust ==
    ASSUME NEW op \in Operations
    PROVE  /\ op # "complete_upload_by_storage_key" =>
                    \A p \in ApiProcesses : Allowed(p, op)
           /\ op = "complete_upload_by_storage_key" =>
                    \A p \in LambdaProcesses : Allowed(p, op)
  BY DEF Allowed, Sole

\* Requests and events.

LEMMA UploadSerial ==
    ASSUME IndInv, SerialInv, NEW p \in ApiProcesses, NEW d \in Docs, NEW size \in Sizes,
           Upload(p, d, size)
    PROVE  SerialInv'
  <1> DEFINE s == [Opened("upload", "save", d) EXCEPT
                     !.metadata = size,
                     !.count = project.documents_count,
                     !.total = project.total_size_bytes]
  <1>1. Allowed(p, s.op)
    BY MayAdjust DEF Upload, Start, Opened, NoSession
  <1>2. SerialSession(p, s)
    BY <1>1
    DEF Upload, Opened, NoSession, SerialSession, SessionShape, TotalsCurrent,
        RowCurrent, SizeKnown
  <1> QED
    BY <1>2, SerialStep DEF Processes, Upload, Start, SerialInv

LEMMA PresignUploadSerial ==
    ASSUME IndInv, SerialInv, NEW p \in ApiProcesses, NEW d \in Docs,
           PresignUpload(p, d)
    PROVE  SerialInv'
  <1> DEFINE s == Opened("presign_upload", "insert", d)
  <1>1. Allowed(p, s.op)
    BY MayAdjust DEF PresignUpload, Start, Opened, NoSession
  <1>2. SerialSession(p, s)
    BY <1>1
    DEF PresignUpload, Opened, NoSession, SerialSession, SessionShape, TotalsCurrent,
        RowCurrent, SizeKnown
  <1> QED
    BY <1>2, SerialStep DEF Processes, PresignUpload, Start, SerialInv

LEMMA CompleteUploadSerial ==
    ASSUME IndInv, SerialInv, NEW p \in ApiProcesses, NEW d \in Docs,
           CompleteUpload(p, d)
    PROVE  SerialInv'
  <1> DEFINE s == [Opened("complete_upload", "head", d)
                     EXCEPT !.size = documents[d].size]
  <1>1. Allowed(p, s.op)
    BY MayAdjust DEF CompleteUpload, Start, Opened, NoSession
  <1>2. SerialSession(p, s)
    BY <1>1
    DEF CompleteUpload, Opened, NoSession, SerialSession, SessionShape,
        TotalsCurrent, RowCurrent, SizeKnown
  <1> QED
    BY <1>2, SerialStep DEF Processes, CompleteUpload, Start, SerialInv

LEMMA CompleteUploadByStorageKeySerial ==
    ASSUME IndInv, SerialInv, NEW p \in LambdaProcesses, NEW d \in Docs,
           CompleteUploadByStorageKey(p, d)
    PROVE  SerialInv'
  <1> DEFINE s == [Opened("complete_upload_by_storage_key", "head", d)
                     EXCEPT !.size = documents[d].size]
  <1>1. Allowed(p, s.op)
    BY MayAdjust DEF CompleteUploadByStorageKey, Start, Opened, NoSession
  <1>2. SerialSession(p, s)
    BY <1>1
    DEF CompleteUploadByStorageKey, Opened, NoSession, SerialSession, SessionShape,
        TotalsCurrent, RowCurrent, SizeKnown
  <1> QED
    BY <1>2, SerialStep DEF Processes, CompleteUploadByStorageKey, Start, SerialInv

LEMMA DeleteSerial ==
    ASSUME IndInv, SerialInv, NEW p \in ApiProcesses, NEW d \in Docs,
           Delete(p, d)
    PROVE  SerialInv'
  <1> DEFINE s == [Opened("delete", "load_project", d)
                     EXCEPT !.size = documents[d].size]
  <1>1. Allowed(p, s.op)
    BY MayAdjust DEF Delete, Start, Opened, NoSession
  <1>2. SerialSession(p, s)
    BY <1>1
    DEF Delete, Opened, NoSession, SerialSession, SessionShape, TotalsCurrent,
        RowCurrent, SizeKnown
  <1> QED
    BY <1>2, SerialStep DEF Processes, Delete, Start, SerialInv

LEMMA UpdateSerial ==
    ASSUME IndInv, SerialInv, NEW p \in ApiProcesses, NEW d \in Docs,
           Update(p, d)
    PROVE  SerialInv'
  <1> DEFINE s == Opened("update", "rename", d)
  <1>1. Allowed(p, s.op)
    BY MayAdjust DEF Update, Start, Opened, NoSession
  <1>2. SerialSession(p, s)
    BY <1>1
    DEF Update, Opened, NoSession, SerialSession, SessionShape, TotalsCurrent,
        RowCurrent, SizeKnown
  <1> QED
    BY <1>2, SerialStep DEF Processes, Update, Start, SerialInv

LEMMA DeleteProjectSerial ==
    ASSUME IndInv, SerialInv, NEW p \in ApiProcesses,
           DeleteProject(p)
    PROVE  SerialInv'
  <1> DEFINE s == Opened("delete_project", "close", NoDoc)
  <1>1. Allowed(p, s.op)
    BY MayAdjust DEF DeleteProject, Start, Opened, NoSession
  <1>2. SerialSession(p, s)
    BY <1>1
    DEF DeleteProject, Opened, NoSession, SerialSession, SessionShape, TotalsCurrent,
        RowCurrent, SizeKnown
  <1> QED
    BY <1>2, SerialStep DEF Processes, DeleteProject, Start, SerialInv

\* Steps.

LEMMA SaveSerial ==
    ASSUME IndInv, SerialInv, NEW p \in Processes, Save(p)
    PROVE  SerialInv'
  <1> DEFINE s == [session[p] EXCEPT !.pc = "insert"]
  <1>1. session[p] \in Sessions /\ SerialSession(p, session[p])
    BY DEF IndInv, TypeOK, SerialInv
  <1>2. session[p].pc \notin {"adjust", "commit"} => session[p].flushed = {}
    BY DEF IndInv, ControlOK, SessionControl
  <1>3. SerialSession(p, s)
    BY <1>1, <1>2
    DEF Save, At, Sessions, SerialSession, SessionShape, TotalsCurrent, RowCurrent,
        SizeKnown
  <1>4. session' = [session EXCEPT ![p] = s]
    BY DEF Save, Goto, IndInv, TypeOK
  <1>5. \A d \in Docs : objects'[d] \in Sizes \cup {NoObject}
    BY <1>1 DEF Save, At, SerialInv, SerialSession, SessionShape,
                SizeKnown, IndInv, TypeOK
  <1> QED
    BY <1>1, <1>3, <1>4, <1>5, SerialStep DEF Save, Goto, SerialInv

LEMMA HeadObjectSerial ==
    ASSUME IndInv, SerialInv, NEW p \in Processes, HeadObject(p)
    PROVE  SerialInv'
  <1> DEFINE s == [session[p] EXCEPT !.metadata = objects[session[p].doc],
                                     !.pc = "load_project"]
  <1>1. session[p] \in Sessions /\ SerialSession(p, session[p])
    BY DEF IndInv, TypeOK, SerialInv
  <1>2. session[p].pc \notin {"adjust", "commit"} => session[p].flushed = {}
    BY DEF IndInv, ControlOK, SessionControl
  <1>3. SerialSession(p, s)
    BY <1>1, <1>2
    DEF HeadObject, At, Sessions, SerialInv, NoObject, SerialSession, SessionShape,
        TotalsCurrent, RowCurrent, SizeKnown
  <1>4. session' = [session EXCEPT ![p] = s]
    BY DEF HeadObject, Goto, IndInv, TypeOK
  <1> QED
    BY <1>1, <1>3, <1>4, SerialStep DEF HeadObject, Goto, SerialInv

LEMMA PurgeSerial ==
    ASSUME IndInv, SerialInv, NEW p \in Processes, Purge(p)
    PROVE  SerialInv'
  <1> DEFINE s == [session[p] EXCEPT !.pc = "soft_delete"]
  <1>1. session[p] \in Sessions /\ SerialSession(p, session[p])
    BY DEF IndInv, TypeOK, SerialInv
  <1>2. session[p].pc \notin {"adjust", "commit"} => session[p].flushed = {}
    BY DEF IndInv, ControlOK, SessionControl
  <1>3. SerialSession(p, s)
    BY <1>1, <1>2
    DEF Purge, At, Sessions, SerialSession, SessionShape, TotalsCurrent, RowCurrent,
        SizeKnown
  <1>4. session' = [session EXCEPT ![p] = s]
    BY DEF Purge, Goto, IndInv, TypeOK
  <1>5. \A d \in Docs : objects'[d] \in Sizes \cup {NoObject}
    BY <1>1 DEF Purge, At, SerialInv, SerialSession, SessionShape,
                SizeKnown, IndInv, TypeOK
  <1> QED
    BY <1>1, <1>3, <1>4, <1>5, SerialStep DEF Purge, Goto, SerialInv

LEMMA LoadProjectSerial ==
    ASSUME IndInv, SerialInv, NEW p \in Processes, LoadProject(p)
    PROVE  SerialInv'
  <1> DEFINE s == [session[p] EXCEPT
                     !.count = project.documents_count,
                     !.total = project.total_size_bytes,
                     !.pc = IF Accepts(session[p]) THEN "mark" ELSE "purge"]
  <1>1. session[p] \in Sessions /\ SerialSession(p, session[p])
    BY DEF IndInv, TypeOK, SerialInv
  <1>2. session[p].pc \notin {"adjust", "commit"} => session[p].flushed = {}
    BY DEF IndInv, ControlOK, SessionControl
  <1>3. SerialSession(p, s)
    BY <1>1, <1>2
    DEF LoadProject, At, Sessions, Accepts, SerialSession, SessionShape,
        TotalsCurrent, RowCurrent, SizeKnown
  <1>4. session' = [session EXCEPT ![p] = s]
    BY DEF LoadProject, Goto, IndInv, TypeOK
  <1> QED
    BY <1>1, <1>3, <1>4, SerialStep DEF LoadProject, Goto, SerialInv

LEMMA InsertSerial ==
    ASSUME IndInv, SerialInv, NEW p \in Processes, Insert(p)
    PROVE  SerialInv'
  <1> DEFINE s == [session[p] EXCEPT !.flushed = @ \cup {"insert"},
                                     !.pc = IF session[p].op = "upload"
                                            THEN "adjust" ELSE "commit"]
  <1>1. session[p] \in Sessions /\ SerialSession(p, session[p])
    BY DEF IndInv, TypeOK, SerialInv
  <1>2. session[p].pc \notin {"adjust", "commit"} => session[p].flushed = {}
    BY DEF IndInv, ControlOK, SessionControl
  <1>3. SerialSession(p, s)
    BY <1>1, <1>2
    DEF Insert, At, Sessions, SerialSession, SessionShape, TotalsCurrent, RowCurrent,
        SizeKnown
  <1>4. session' = [session EXCEPT ![p] = s]
    BY DEF Insert, Flush, IndInv, TypeOK
  <1> QED
    BY <1>1, <1>3, <1>4, SerialStep DEF Insert, Flush, SerialInv

LEMMA MarkUploadedSerial ==
    ASSUME IndInv, SerialInv, NEW p \in Processes, MarkUploaded(p)
    PROVE  SerialInv'
  <1> DEFINE s == [session[p] EXCEPT !.flushed = @ \cup {"mark"},
                                     !.pc = "adjust"]
  <1>1. session[p] \in Sessions /\ SerialSession(p, session[p])
    BY DEF IndInv, TypeOK, SerialInv
  <1>2. session[p].pc \notin {"adjust", "commit"} => session[p].flushed = {}
    BY DEF IndInv, ControlOK, SessionControl
  <1>3. SerialSession(p, s)
    BY <1>1, <1>2
    DEF MarkUploaded, At, Sessions, SerialSession, SessionShape, TotalsCurrent,
        RowCurrent, SizeKnown
  <1>4. session' = [session EXCEPT ![p] = s]
    BY DEF MarkUploaded, Flush, IndInv, TypeOK
  <1> QED
    BY <1>1, <1>3, <1>4, SerialStep DEF MarkUploaded, Flush, SerialInv

LEMMA SoftDeleteSerial ==
    ASSUME IndInv, SerialInv, NEW p \in Processes, SoftDelete(p)
    PROVE  SerialInv'
  <1> DEFINE s == [session[p] EXCEPT !.flushed = @ \cup {"soft_delete"},
                                     !.pc = IF session[p].op = "delete"
                                            THEN "adjust" ELSE "commit"]
  <1>1. session[p] \in Sessions /\ SerialSession(p, session[p])
    BY DEF IndInv, TypeOK, SerialInv
  <1>2. session[p].pc \notin {"adjust", "commit"} => session[p].flushed = {}
    BY DEF IndInv, ControlOK, SessionControl
  <1>3. SerialSession(p, s)
    BY <1>1, <1>2
    DEF SoftDelete, At, Sessions, SerialSession, SessionShape, TotalsCurrent,
        RowCurrent, SizeKnown
  <1>4. session' = [session EXCEPT ![p] = s]
    BY DEF SoftDelete, Flush, IndInv, TypeOK
  <1> QED
    BY <1>1, <1>3, <1>4, SerialStep DEF SoftDelete, Flush, SerialInv

LEMMA RenameSerial ==
    ASSUME IndInv, SerialInv, NEW p \in Processes, Rename(p)
    PROVE  SerialInv'
  <1> DEFINE s == [session[p] EXCEPT !.flushed = @ \cup {"rename"},
                                     !.pc = "commit"]
  <1>1. session[p] \in Sessions /\ SerialSession(p, session[p])
    BY DEF IndInv, TypeOK, SerialInv
  <1>2. session[p].pc \notin {"adjust", "commit"} => session[p].flushed = {}
    BY DEF IndInv, ControlOK, SessionControl
  <1>3. SerialSession(p, s)
    BY <1>1, <1>2
    DEF Rename, At, Sessions, SerialSession, SessionShape, TotalsCurrent, RowCurrent,
        SizeKnown
  <1>4. session' = [session EXCEPT ![p] = s]
    BY DEF Rename, Flush, IndInv, TypeOK
  <1> QED
    BY <1>1, <1>3, <1>4, SerialStep DEF Rename, Flush, SerialInv

LEMMA AdjustDocumentTotalsSerial ==
    ASSUME IndInv, SerialInv, NEW p \in Processes, AdjustDocumentTotals(p)
    PROVE  SerialInv'
  <1> DEFINE s == [session[p] EXCEPT !.flushed = @ \cup {"adjust"},
                                     !.pc = "commit"]
  <1>1. session[p] \in Sessions /\ SerialSession(p, session[p])
    BY DEF IndInv, TypeOK, SerialInv
  <1>2. session[p].pc \notin {"adjust", "commit"} => session[p].flushed = {}
    BY DEF IndInv, ControlOK, SessionControl
  <1>3. SerialSession(p, s)
    BY <1>1, <1>2
    DEF AdjustDocumentTotals, At, Sessions, SerialSession, SessionShape,
        TotalsCurrent, RowCurrent, SizeKnown
  <1>4. session' = [session EXCEPT ![p] = s]
    BY DEF AdjustDocumentTotals, Flush, IndInv, TypeOK
  <1> QED
    BY <1>1, <1>3, <1>4, SerialStep DEF AdjustDocumentTotals, Flush, SerialInv

LEMMA CloseProjectSerial ==
    ASSUME IndInv, SerialInv, NEW p \in Processes, CloseProject(p)
    PROVE  SerialInv'
  <1> DEFINE s == [session[p] EXCEPT !.flushed = @ \cup {"close"},
                                     !.pc = "commit"]
  <1>1. session[p] \in Sessions /\ SerialSession(p, session[p])
    BY DEF IndInv, TypeOK, SerialInv
  <1>2. session[p].pc \notin {"adjust", "commit"} => session[p].flushed = {}
    BY DEF IndInv, ControlOK, SessionControl
  <1>3. SerialSession(p, s)
    BY <1>1, <1>2
    DEF CloseProject, At, Sessions, SerialSession, SessionShape, TotalsCurrent,
        RowCurrent, SizeKnown
  <1>4. session' = [session EXCEPT ![p] = s]
    BY DEF CloseProject, Flush, IndInv, TypeOK
  <1> QED
    BY <1>1, <1>3, <1>4, SerialStep DEF CloseProject, Flush, SerialInv

\* The end of a session without a commit.
LEMMA CloseSerial ==
    ASSUME IndInv, SerialInv, NEW p \in Processes, Close(p),
           \A d \in Docs : objects'[d] \in Sizes \cup {NoObject}
    PROVE  SerialInv'
  BY NoSessionSerial, SerialStep DEF Close

LEMMA FailSerial ==
    ASSUME IndInv, SerialInv, NEW p \in Processes, Fail(p)
    PROVE  SerialInv'
  <1>1. session[p].pc = "save" => session[p].metadata \in Sizes
    BY DEF SerialInv, SerialSession, SessionShape, SizeKnown
  <1>2. \A d \in Docs : objects'[d] \in Sizes \cup {NoObject}
    BY <1>1 DEF Fail, InterruptedObject, SerialInv
  <1> QED
    BY <1>2, CloseSerial DEF Fail

\* A commit that does not adjust the totals: a presign adds a row, and nothing
\* else that the ledger looks at changes.
LEMMA CommitAddsPending ==
    ASSUME IndInv, SerialInv, NEW p \in Processes, Commit(p),
           session[p].op \notin Adjusting
    PROVE  /\ \A e \in Docs : \/ documents'[e] = documents[e]
                             \/ /\ documents[e] = NoRow
                                /\ documents'[e].status = "pending_upload"
                                /\ ~documents'[e].deleted
           /\ project'.documents_count = project.documents_count
           /\ project'.total_size_bytes = project.total_size_bytes
  <1> DEFINE s == session[p]
  <1>1. s.pc = "commit" /\ SerialSession(p, s)
    BY DEF Commit, At, SerialInv
  <1>2. /\ {"mark", "soft_delete", "adjust"} \cap s.flushed = {}
        /\ "insert" \in s.flushed => s.op = "presign_upload"
    BY <1>1 DEF SerialSession, SessionShape
  <1>3. ASSUME NEW e \in Docs, e = s.doc
        PROVE  \/ documents'[e] = documents[e]
               \/ /\ documents[e] = NoRow
                  /\ documents'[e].status = "pending_upload"
                  /\ ~documents'[e].deleted
    <2>1. documents'[e] = FlushedRow(s)
      BY <1>3 DEF Commit
    <2>2. s.op = "presign_upload" => documents[e] = NoRow
      BY <1>3 DEF IndInv, KeysOwned, KeyOwned
    <2> QED
      BY <1>2, <1>3, <2>1, <2>2 DEF FlushedRow, CreatedRow
  <1> QED
    BY <1>2, <1>3 DEF Commit, FlushedProject, IndInv, TypeOK

LEMMA CommitSerial ==
    ASSUME Serial, IndInv, SerialInv, NEW p \in Processes, Commit(p)
    PROVE  SerialInv'
  <1>1. \A q \in Processes : session'[q] = IF q = p THEN NoSession ELSE session[q]
    BY DEF Commit, IndInv, TypeOK
  <1>2. SerialSession(p, session[p])'
    BY <1>1
    DEF NoSession, SerialSession, SessionShape, TotalsCurrent, RowCurrent, SizeKnown,
        Allowed
  <1>3. ASSUME NEW q \in Processes, q # p
        PROVE  SerialSession(q, session[q])'
    <2>1. session'[q] = session[q] /\ SerialSession(q, session[q])
      BY <1>1, <1>3 DEF SerialInv
    <2>2. CASE session[q].op \notin Adjusting
      BY <2>1, <2>2
      DEF SerialSession, SessionShape, TotalsCurrent, RowCurrent, SizeKnown, Allowed
    <2>3. CASE session[q].op \in Adjusting
      <3>1. session[p].op \notin Adjusting
        BY <1>3, <2>3, AdjustsAlone
      <3>2. \A d \in Docs : Live(d) \/ Pending(d) => documents'[d] = documents[d]
        BY <3>1, CommitAddsPending DEF Live, Pending, NoRow
      <3>3. TotalsCurrent(session[q])'
        BY <2>1, <3>1, CommitAddsPending DEF SerialSession, TotalsCurrent
      <3>4. RowCurrent(session[q])'
        BY <2>1, <3>2 DEF SerialSession, RowCurrent, Live, Pending
      <3> QED
        BY <2>1, <3>3, <3>4 DEF SerialSession, SessionShape, SizeKnown, Allowed
    <2> QED
      BY <2>2, <2>3
  <1> QED
    BY <1>2, <1>3 DEF Commit, SerialInv

LEMMA ClientPutSerial ==
    ASSUME IndInv, SerialInv, NEW d \in Docs, ClientPut(d)
    PROVE  SerialInv'
  <1>1. \A e \in Docs : objects'[e] \in Sizes \cup {NoObject}
    BY DEF ClientPut, SerialInv, IndInv, TypeOK
  <1>2. \A p \in Processes : SerialSession(p, session[p])'
    BY DEF ClientPut, SerialInv, SerialSession, SessionShape, TotalsCurrent,
           RowCurrent, SizeKnown, Pending, Live
  <1> QED
    BY <1>1, <1>2 DEF SerialInv

LEMMA SerialInit == Init => SerialInv
  BY NoSessionSerial
  DEF Init, SerialInv, NoSession, SerialSession, SessionShape, TotalsCurrent,
      RowCurrent, SizeKnown

LEMMA SerialInductive ==
    ASSUME Serial
    PROVE  IndInv /\ SerialInv /\ [Next]_vars => SerialInv'
  <1> SUFFICES ASSUME IndInv, SerialInv, [Next]_vars
               PROVE  SerialInv'
    OBVIOUS
  <1>1. ASSUME NEW p \in ApiProcesses, Request(p) PROVE SerialInv'
    BY <1>1, UploadSerial, PresignUploadSerial, CompleteUploadSerial, UpdateSerial,
       DeleteSerial, DeleteProjectSerial
    DEF Request
  <1>2. ASSUME NEW p \in LambdaProcesses, Event(p) PROVE SerialInv'
    BY <1>2, CompleteUploadByStorageKeySerial DEF Event, Processes
  <1>3. ASSUME NEW p \in Processes, Step(p) PROVE SerialInv'
    <2>1. CASE HeadMissing(p) \/ PurgeDenied(p)
      BY <2>1, CloseSerial DEF HeadMissing, PurgeDenied, SerialInv
    <2> QED
      BY <1>3, <2>1, SaveSerial, HeadObjectSerial, PurgeSerial,
         LoadProjectSerial, InsertSerial, CommitSerial
      DEF Step
  <1>4. ASSUME NEW p \in Processes, LockStep(p) PROVE SerialInv'
    <2>1. CASE AdjustViolatesCheck(p)
      BY <2>1, CloseSerial DEF AdjustViolatesCheck, SerialInv
    <2> QED
      BY <1>4, <2>1, MarkUploadedSerial, SoftDeleteSerial, RenameSerial,
         AdjustDocumentTotalsSerial, CloseProjectSerial
      DEF LockStep
  <1>5. ASSUME NEW p \in Processes, Fail(p) PROVE SerialInv'
    BY <1>5, FailSerial
  <1>6. ASSUME NEW d \in Docs, ClientPut(d) PROVE SerialInv'
    BY <1>6, ClientPutSerial
  <1>7. CASE UNCHANGED vars
    BY <1>7
    DEF vars, SerialInv, SerialSession, SessionShape, TotalsCurrent, RowCurrent,
        SizeKnown, Pending, Live
  <1> QED
    BY <1>1, <1>2, <1>3, <1>4, <1>5, <1>6, <1>7 DEF Next

--------------------------------------------------------------------------------
(* The refinement.                                                         *)

Retired == {d \in Docs : documents[d].deleted}
LiveSize == [d \in Docs |-> IF Live(d) THEN documents[d].size ELSE 0]

\* A commit that makes its document visible with its size.
LEMMA CommitAdds ==
    ASSUME IndInv, SerialInv, NEW p \in Processes, Commit(p),
           NEW d \in Docs, d = session[p].doc,
           NEW n \in Sizes, n = session[p].metadata,
           \/ session[p].op = "upload"
           \/ session[p].op \in Completions /\ "mark" \in session[p].flushed
    PROVE  Ledger!Add(d, n)
  <1> DEFINE s == session[p]
  <1>1. s \in Sessions /\ s.pc = "commit" /\ SerialSession(p, s) /\ SessionControl(s)
    BY DEF Commit, At, IndInv, TypeOK, ControlOK, SerialInv
  <1>2. d \notin LiveDocs \cup Retired /\ ~documents[d].deleted
    BY <1>1
    DEF SerialSession, RowCurrent, SessionControl, Pending, Live, LiveDocs,
        Retired, IndInv, KeysOwned, KeyOwned, NoRow
  <1>3. documents'[d].status = "uploaded" /\ ~documents'[d].deleted
        /\ documents'[d].size = n
    <2>1. documents'[d] = FlushedRow(s)
      BY <1>2 DEF Commit
    <2>2. documents[d] \in Rows
      BY <1>2 DEF IndInv, TypeOK
    <2>3. CASE s.op = "upload"
      BY <1>1, <2>1, <2>3
      DEF SerialSession, SessionShape, FlushedRow, CreatedRow
    <2>4. CASE s.op \in Completions /\ s.flushed = {"mark", "adjust"}
      BY <1>1, <1>2, <2>1, <2>2, <2>4
      DEF SerialSession, RowCurrent, FlushedRow, MarkedRow, Written, Rows
    <2> QED
      BY <1>1, <2>3, <2>4 DEF SerialSession, SessionShape
  <1>4. \A e \in Docs \ {d} : documents'[e] = documents[e]
    BY DEF Commit
  <1>5. /\ LiveDocs' = LiveDocs \cup {d}
        /\ Retired' = Retired
        /\ LiveSize' = [LiveSize EXCEPT ![d] = n]
    BY <1>2, <1>3, <1>4 DEF LiveDocs, Live, Retired, LiveSize
  <1>6. /\ project'.documents_count = project.documents_count + 1
        /\ project'.total_size_bytes = project.total_size_bytes + n
        /\ Limit > 0 => project.total_size_bytes + n <= Limit
    <2>1. "adjust" \in s.flushed /\ s.op # "delete"
          /\ s.count = project.documents_count
          /\ s.total = project.total_size_bytes
      BY <1>1 DEF SerialSession, SessionShape, TotalsCurrent
    <2>2. project' = FlushedProject(s)
      BY DEF Commit
    <2>3. Limit > 0 => SessionRoom(s)
      BY DEF IndInv, RoomOK
    <2> QED
      BY <1>1, <2>1, <2>2, <2>3
      DEF FlushedProject, AdjustedCount, AdjustedTotal, CountDelta, SizeDelta,
          Written, SessionRoom, SettledRoom, Sessions, IndInv, TypeOK
  <1> QED
    BY <1>2, <1>5, <1>6 DEF Ledger!Add, Retired, LiveSize

\* A commit that deletes a visible document.
LEMMA CommitRemoves ==
    ASSUME IndInv, SerialInv, NEW p \in Processes, Commit(p),
           session[p].op = "delete",
           NEW d \in Docs, d = session[p].doc
    PROVE  Ledger!Remove(d)
  <1> DEFINE s == session[p]
  <1>1. s \in Sessions /\ s.pc = "commit" /\ SerialSession(p, s)
    BY DEF Commit, At, IndInv, TypeOK, SerialInv
  <1>2. d \in Docs /\ Live(d) /\ s.size = documents[d].size
        /\ s.flushed = {"soft_delete", "adjust"}
    BY <1>1 DEF SerialSession, SessionShape, RowCurrent
  <1>3. documents'[d].deleted
    <2>1. documents'[d] = DeletedRow(s)
      BY <1>2 DEF Commit, FlushedRow
    <2>2. documents[d] \in Rows
      BY <1>2 DEF IndInv, TypeOK
    <2> QED
      BY <2>1, <2>2 DEF DeletedRow, Rows
  <1>4. \A e \in Docs \ {d} : documents'[e] = documents[e]
    BY DEF Commit
  <1>5. /\ LiveDocs' = LiveDocs \ {d}
        /\ Retired' = Retired \cup {d}
        /\ LiveSize' = [LiveSize EXCEPT ![d] = 0]
    BY <1>2, <1>3, <1>4 DEF LiveDocs, Live, Retired, LiveSize
  <1>6. /\ project'.documents_count = project.documents_count - 1
        /\ project'.total_size_bytes = project.total_size_bytes - LiveSize[d]
    <2>1. s.count = project.documents_count /\ s.total = project.total_size_bytes
      BY <1>1 DEF SerialSession, TotalsCurrent
    <2>2. project' = FlushedProject(s)
      BY DEF Commit
    <2> QED
      BY <1>1, <1>2, <2>1, <2>2
      DEF FlushedProject, AdjustedCount, AdjustedTotal, CountDelta, SizeDelta,
          Written, LiveSize, Sessions, IndInv, TypeOK
  <1> QED
    BY <1>2, <1>5, <1>6 DEF Ledger!Remove, Retired, LiveSize, LiveDocs

\* A commit that rejects a file.
LEMMA CommitRejects ==
    ASSUME IndInv, SerialInv, NEW p \in Processes, Commit(p),
           session[p].op \in Completions, session[p].flushed = {"soft_delete"},
           NEW d \in Docs, d = session[p].doc
    PROVE  Ledger!Reject(d)
  <1> DEFINE s == session[p]
  <1>1. d \in Docs /\ Pending(d)
    BY DEF SerialInv, SerialSession, RowCurrent
  <1>2. documents'[d].deleted
    <2>1. documents'[d] = DeletedRow(s)
      BY <1>1 DEF Commit, FlushedRow
    <2>2. documents[d] \in Rows
      BY <1>1 DEF IndInv, TypeOK
    <2> QED
      BY <2>1, <2>2 DEF DeletedRow, Rows
  <1>3. \A e \in Docs \ {d} : documents'[e] = documents[e]
    BY DEF Commit
  <1>4. /\ LiveDocs' = LiveDocs
        /\ Retired' = Retired \cup {d}
        /\ LiveSize' = LiveSize
        /\ d \notin LiveDocs \cup Retired
    BY <1>1, <1>2, <1>3 DEF LiveDocs, Live, Pending, Retired, LiveSize
  <1>5. /\ project'.documents_count = project.documents_count
        /\ project'.total_size_bytes = project.total_size_bytes
    BY DEF Commit, FlushedProject, IndInv, TypeOK
  <1> QED
    BY <1>4, <1>5 DEF Ledger!Reject, Retired, LiveSize

\* The other commits leave the ledger alone.
LEMMA CommitKeeps ==
    ASSUME IndInv, SerialInv, NEW p \in Processes, Commit(p),
           session[p].op \notin Adjusting
    PROVE  UNCHANGED Ledger!ledgerVars
  <1>1. LiveDocs' = LiveDocs /\ Retired' = Retired /\ LiveSize' = LiveSize
    BY CommitAddsPending DEF LiveDocs, Live, Retired, LiveSize, NoRow
  <1> QED
    BY <1>1, CommitAddsPending DEF Ledger!ledgerVars, Retired, LiveSize

LEMMA CommitImplements ==
    ASSUME IndInv, SerialInv, NEW p \in Processes, Commit(p)
    PROVE  [Ledger!Next]_(Ledger!ledgerVars)
  <1> DEFINE s == session[p]
  <1>1. s.pc = "commit" /\ SerialSession(p, s) /\ SessionControl(s)
    BY DEF Commit, At, SerialInv, IndInv, ControlOK
  <1>2. CASE \/ s.op = "upload"
             \/ s.op \in Completions /\ "mark" \in s.flushed
    <2>1. s.doc \in Docs /\ s.metadata \in Sizes
      BY <1>1, <1>2 DEF SerialSession, RowCurrent, SizeKnown, SessionControl
    <2>2. PICK d \in Docs, n \in Sizes : d = s.doc /\ n = s.metadata
      BY <2>1
    <2>3. Ledger!Add(d, n)
      BY <1>2, <2>2, CommitAdds
    <2> QED
      BY <2>3 DEF Ledger!Next
  <1>3. CASE s.op = "delete"
    <2>1. PICK d \in Docs : d = s.doc
      BY <1>1, <1>3 DEF SerialSession, RowCurrent
    <2>2. Ledger!Remove(d)
      BY <1>3, <2>1, CommitRemoves
    <2> QED
      BY <2>2 DEF Ledger!Next
  <1>4. CASE s.op \in Completions /\ s.flushed = {"soft_delete"}
    <2>1. PICK d \in Docs : d = s.doc
      BY <1>1, <1>4 DEF SerialSession, RowCurrent
    <2>2. Ledger!Reject(d)
      BY <1>4, <2>1, CommitRejects
    <2> QED
      BY <2>2 DEF Ledger!Next
  <1>5. CASE s.op \notin Adjusting
    BY <1>5, CommitKeeps
  <1> QED
    BY <1>1, <1>2, <1>3, <1>4, <1>5 DEF SerialSession, SessionShape

LEMMA LedgerStep ==
    ASSUME IndInv, SerialInv, [Next]_vars
    PROVE  [Ledger!Next]_(Ledger!ledgerVars)
  <1>1. CASE \E p \in Processes : Commit(p)
    BY <1>1, CommitImplements
  <1>2. CASE UNCHANGED <<documents, project>>
    BY <1>2 DEF Ledger!ledgerVars, LiveDocs, Live
  <1> QED
    BY <1>1, <1>2, OnlyCommitWrites

\* The rows of a project whose totals one process adjusts behave as the ledger,
\* whatever the other processes presign, rename or close meanwhile.
THEOREM SerialImplementsLedger ==
    ASSUME Serial
    PROVE  Spec => ImplementsLedger
  <1>1. Init => Ledger!Init
    BY DEF Init, Ledger!Init, LiveDocs, Live, NoRow
  <1>2. IndInv /\ SerialInv /\ [Next]_vars => [Ledger!Next]_(Ledger!ledgerVars)
    BY LedgerStep
  <1>3. Spec => [](IndInv /\ SerialInv)
    BY Initially, SerialInit, Inductive, SerialInductive, PTL DEF Spec
  <1> QED
    BY <1>1, <1>2, <1>3, PTL DEF Spec, ImplementsLedger, Ledger!Spec

--------------------------------------------------------------------------------
(* The totals.                                                             *)

ByteSet(f, S) == UNION {{d} \X (1..f[d]) : d \in S}

\* One more document adds its size to the bytes of the others.
LEMMA OneMoreDocument ==
    ASSUME NEW S, NEW f, NEW g, NEW d, d \notin S, g[d] \in Nat,
           \A e \in S : g[e] = f[e],
           IsFiniteSet(ByteSet(f, S))
    PROVE  /\ IsFiniteSet(ByteSet(g, S \cup {d}))
           /\ Cardinality(ByteSet(g, S \cup {d})) =
                    Cardinality(ByteSet(f, S)) + g[d]
  <1> DEFINE B == ByteSet(f, S)
             D == {d} \X (1..g[d])
  <1>1. ByteSet(g, S \cup {d}) = B \cup D
    <2>1. B = UNION {{e} \X (1..g[e]) : e \in S}
      BY DEF ByteSet
    <2> QED
      BY <2>1 DEF ByteSet
  <1>2. B \cap D = {}
    BY DEF ByteSet
  <1>3. IsFiniteSet(D) /\ Cardinality(D) = g[d]
    <2>1. IsFiniteSet({d}) /\ Cardinality({d}) = 1
      BY FS_Singleton
    <2>2. IsFiniteSet(1..g[d]) /\ Cardinality(1..g[d]) = g[d]
      BY FS_Interval
    <2>3. IsFiniteSet(D) /\ Cardinality(D) = Cardinality({d}) * Cardinality(1..g[d])
      BY <2>1, <2>2, FS_Product, Zenon
    <2> QED
      BY <2>1, <2>2, <2>3
  <1>4. /\ IsFiniteSet(B \cup D)
        /\ Cardinality(B \cup D) =
                Cardinality(B) + Cardinality(D) - Cardinality(B \cap D)
    BY <1>3, FS_Union, Zenon
  <1>5. Cardinality(B) \in Nat /\ Cardinality(B \cap D) = 0
    BY <1>2, FS_CardinalityType, FS_EmptySet
  <1>6. Cardinality(B \cup D) = Cardinality(B) + g[d]
    BY <1>3, <1>4, <1>5
  <1> QED
    BY <1>1, <1>4, <1>6

LiveBytes == ByteSet(LiveSize, LiveDocs)

TotalsInv ==
    /\ IsFiniteSet(LiveDocs)
    /\ IsFiniteSet(LiveBytes)
    /\ project.documents_count = Cardinality(LiveDocs)
    /\ project.total_size_bytes = Cardinality(LiveBytes)

LEMMA TotalsAdd ==
    ASSUME TotalsInv, NEW d \in Docs, NEW n \in Sizes, Ledger!Add(d, n)
    PROVE  TotalsInv'
  <1>1. /\ d \notin LiveDocs /\ LiveDocs' = LiveDocs \cup {d}
        /\ LiveSize' = [LiveSize EXCEPT ![d] = n]
        /\ project'.documents_count = project.documents_count + 1
        /\ project'.total_size_bytes = project.total_size_bytes + n
    BY DEF Ledger!Add, LiveSize
  <1>2. LiveSize'[d] = n /\ n \in Nat /\ \A e \in LiveDocs : LiveSize'[e] = LiveSize[e]
    BY <1>1, DataAssumption DEF LiveSize, LiveDocs
  <1>3. LiveBytes' = ByteSet(LiveSize', LiveDocs \cup {d})
    BY <1>1 DEF LiveBytes, ByteSet
  <1>4. IsFiniteSet(LiveBytes') /\ Cardinality(LiveBytes') = Cardinality(LiveBytes) + n
    <2>1. PICK f, g, S : f = LiveSize /\ g = LiveSize' /\ S = LiveDocs
      OBVIOUS
    <2>2. /\ IsFiniteSet(ByteSet(g, S \cup {d}))
          /\ Cardinality(ByteSet(g, S \cup {d})) = Cardinality(ByteSet(f, S)) + g[d]
      <3>1. /\ d \notin S /\ g[d] \in Nat /\ \A e \in S : g[e] = f[e]
            /\ IsFiniteSet(ByteSet(f, S))
        BY <1>1, <1>2, <2>1 DEF TotalsInv, LiveBytes
      <3> QED
        BY <3>1, OneMoreDocument
    <2> QED
      BY <1>2, <1>3, <2>1, <2>2 DEF LiveBytes
  <1>5. IsFiniteSet(LiveDocs') /\ Cardinality(LiveDocs') = Cardinality(LiveDocs) + 1
    BY <1>1, FS_AddElement DEF TotalsInv
  <1> QED
    BY <1>1, <1>4, <1>5 DEF TotalsInv

LEMMA TotalsRemove ==
    ASSUME IndInv, TotalsInv, NEW d \in Docs, Ledger!Remove(d)
    PROVE  TotalsInv'
  <1>1. /\ d \in LiveDocs /\ LiveDocs' = LiveDocs \ {d}
        /\ LiveSize' = [LiveSize EXCEPT ![d] = 0]
        /\ project'.documents_count = project.documents_count - 1
        /\ project'.total_size_bytes = project.total_size_bytes - LiveSize[d]
    BY DEF Ledger!Remove, LiveSize
  <1>2. LiveSize[d] \in Nat /\ \A e \in LiveDocs' : LiveSize[e] = LiveSize'[e]
    BY <1>1 DEF LiveSize, LiveDocs, IndInv, TypeOK, Rows
  <1>3. LiveBytes' = ByteSet(LiveSize', LiveDocs') /\ LiveDocs = LiveDocs' \cup {d}
    BY <1>1 DEF LiveBytes, ByteSet
  <1>4. LiveBytes' \subseteq LiveBytes
    BY <1>2, <1>3 DEF LiveBytes, ByteSet
  <1>5. IsFiniteSet(LiveBytes') /\ Cardinality(LiveBytes') \in Nat
    BY <1>4, FS_Subset, FS_CardinalityType DEF TotalsInv
  <1>6. Cardinality(LiveBytes) = Cardinality(LiveBytes') + LiveSize[d]
    <2>1. PICK f, g, S : f = LiveSize' /\ g = LiveSize /\ S = LiveDocs'
      OBVIOUS
    <2>2. Cardinality(ByteSet(g, S \cup {d})) = Cardinality(ByteSet(f, S)) + g[d]
      <3>1. /\ d \notin S /\ g[d] \in Nat /\ \A e \in S : g[e] = f[e]
            /\ IsFiniteSet(ByteSet(f, S))
        BY <1>1, <1>2, <1>3, <1>5, <2>1
      <3> QED
        BY <3>1, OneMoreDocument
    <2> QED
      BY <1>3, <2>1, <2>2 DEF LiveBytes
  <1>7. /\ IsFiniteSet(LiveDocs') /\ Cardinality(LiveDocs') = Cardinality(LiveDocs) - 1
    BY <1>1, FS_RemoveElement DEF TotalsInv
  <1> QED
    BY <1>1, <1>2, <1>5, <1>6, <1>7 DEF TotalsInv

\* documents_count and total_size_bytes are exactly the number and the total
\* size of the uploaded documents, after every commit and every failure.
THEOREM SerialTotalsExact ==
    ASSUME Serial
    PROVE  Spec => []LedgerExact
  <1>1. Init => TotalsInv
    <2> SUFFICES ASSUME Init PROVE TotalsInv
      OBVIOUS
    <2>1. LiveDocs = {} /\ LiveBytes = {}
      BY DEF Init, LiveDocs, Live, NoRow, LiveBytes, ByteSet
    <2> QED
      BY <2>1, FS_EmptySet DEF Init, TotalsInv
  <1>2. IndInv /\ SerialInv /\ TotalsInv /\ [Next]_vars => TotalsInv'
    <2> SUFFICES ASSUME IndInv, SerialInv, TotalsInv, [Next]_vars
                 PROVE  TotalsInv'
      OBVIOUS
    <2>1. CASE UNCHANGED Ledger!ledgerVars
      BY <2>1 DEF Ledger!ledgerVars, TotalsInv, LiveBytes, LiveSize
    <2>2. CASE Ledger!Next
      <3>1. ASSUME NEW d \in Docs, Ledger!Reject(d) PROVE TotalsInv'
        BY <3>1 DEF Ledger!Reject, TotalsInv, LiveBytes, LiveSize
      <3> QED
        BY <2>2, <3>1, TotalsAdd, TotalsRemove DEF Ledger!Next
    <2> QED
      BY <2>1, <2>2, LedgerStep DEF Ledger!ledgerVars
  <1>3. TotalsInv /\ IndInv => LedgerExact
    <2> SUFFICES ASSUME TotalsInv, IndInv PROVE LedgerExact
      OBVIOUS
    <2>1. LiveBytes = Bytes(LiveDocs)
      BY DEF LiveBytes, ByteSet, Bytes, LiveSize, LiveDocs
    <2> QED
      BY <2>1 DEF TotalsInv, LedgerExact
  <1> QED
    BY <1>1, <1>2, <1>3, Initially, SerialInit, Inductive, SerialInductive, PTL
    DEF Spec

\* "Uploads that would exceed PROJECT_STORAGE_LIMIT_BYTES return 413" holds while
\* one process adjusts the totals: what two uploads at once break (LiveBytesWithinLimit).
THEOREM SerialQuotaKept ==
    ASSUME Serial
    PROVE  Spec => []LiveBytesWithinLimit
  <1>1. LedgerExact /\ RecordedTotalWithinLimit => LiveBytesWithinLimit
    BY DEF LedgerExact, RecordedTotalWithinLimit, LiveBytesWithinLimit
  <1> QED
    BY <1>1, SerialTotalsExact, TotalWithinLimit, PTL
================================================================================
