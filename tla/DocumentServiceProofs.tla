------------------------- MODULE DocumentServiceProofs -------------------------
(***************************************************************************)
(* Theorems about DocumentService for every number of processes, documents *)
(* and sizes, and every limit.                                             *)
(***************************************************************************)
EXTENDS DocumentService, TLAPS

(***************************************************************************)
(* The inductive invariant: the types, what a session's place in its       *)
(* operation says about its locks, and what the limit check has settled.   *)
(***************************************************************************)

\* A session names a document until it commits, unless it deletes the
\* project; it has flushed nothing before its first statement, and it takes
\* the project's lock last, with totals that the CHECKs accept.
SessionControl(s) ==
    /\ s.pc \notin {"idle", "close", "commit"} => s.doc \in Docs
    /\ s.op \in Uploads => s.doc \in Docs
    /\ s.pc \notin {"adjust", "commit"} => s.flushed = {}
    /\ "insert" \in s.flushed => s.op \in Uploads
    /\ s.pc \in {"save", "insert"} => s.op \in Uploads
    /\ s.pc = "adjust" => s.flushed \cap {"adjust", "close"} = {}
    /\ "adjust" \in s.flushed =>
            AdjustedCount(s) >= 0 /\ s.total + SizeDelta(s) >= 0

ControlOK == \A p \in Processes : SessionControl(session[p])

\* A session that will add to the totals, or has, fits in the limit on top of
\* the total it loaded.
SettledRoom(s) ==
    s.pc \in {"save", "insert", "mark", "adjust"} \/ "adjust" \in s.flushed

SessionRoom(s) ==
    /\ s.total <= Limit
    /\ SettledRoom(s) => s.total + SizeDelta(s) <= Limit

RoomOK == Limit > 0 => \A p \in Processes : SessionRoom(session[p])

\* A key that is being uploaded or presigned has no row yet and belongs to one
\* session.
KeyOwned(p) ==
    session[p].op \in Uploads =>
        /\ documents[session[p].doc] = NoRow
        /\ \A q \in Processes \ {p} : session[q].doc # session[p].doc

KeysOwned == \A p \in Processes : KeyOwned(p)

\* How the session of p comes to its key.
KeyMove(p, s) ==
    \/ s = NoSession
    \/ s.op = session[p].op /\ s.doc = session[p].doc
    \/ s.op \notin Uploads /\ (s.doc = NoDoc \/ documents[s.doc] # NoRow)
    \/ FreshKey(s.doc)

IndInv ==
    /\ TypeOK
    /\ ControlOK
    /\ RoomOK
    /\ KeysOwned
    /\ RecordedTotalWithinLimit

USE DEF Processes, Uploads, Completions, Requests, NoObject

--------------------------------------------------------------------------------

\* A step that replaces only the session of p keeps the invariant when the new
\* session is well formed.
LEMMA SessionStep ==
    ASSUME IndInv, NEW p \in Processes, NEW s \in Sessions,
           SessionControl(s), Limit > 0 => SessionRoom(s), KeyMove(p, s),
           session' = [session EXCEPT ![p] = s],
           UNCHANGED <<documents, project>>,
           (objects \in [Docs -> Nat \cup {NoObject}])',
           UNCHANGED <<presigned, notified>>
    PROVE  IndInv'
  <1>1. TypeOK'
    BY DEF IndInv, TypeOK
  <1>2. \A q \in Processes : session'[q] = IF q = p THEN s ELSE session[q]
    BY DEF IndInv, TypeOK
  <1>3. ControlOK'
    BY <1>2 DEF IndInv, ControlOK
  <1>4. RoomOK' /\ RecordedTotalWithinLimit'
    BY <1>2 DEF IndInv, RoomOK, RecordedTotalWithinLimit
  <1>5. KeysOwned'
    <2>1. \A q \in Processes : session[q].op \in Uploads => session[q].doc \in Docs
      BY DEF IndInv, ControlOK, SessionControl
    <2> QED
      BY <1>2, <2>1, ProcessAssumption
      DEF IndInv, KeysOwned, KeyOwned, KeyMove, FreshKey, NoSession, Sessions
  <1> QED
    BY <1>1, <1>3, <1>4, <1>5 DEF IndInv

\* The requests and the event: each opens a session.

LEMMA UploadStep ==
    ASSUME IndInv, NEW p \in Processes, NEW d \in Docs, NEW size \in Sizes,
           Upload(p, d, size)
    PROVE  IndInv'
  <1> DEFINE s == [Opened("upload", "save", d) EXCEPT
                     !.metadata = size,
                     !.count = project.documents_count,
                     !.total = project.total_size_bytes]
  <1>1. s \in Sessions
    BY DataAssumption
    DEF Upload, IndInv, TypeOK, Rows, Sessions, ProgramCounters, Statements, Opened, NoSession
  <1>2. SessionControl(s)
    BY DEF SessionControl, Opened, NoSession
  <1>3. Limit > 0 => SessionRoom(s)
    BY DataAssumption
    DEF Upload, HasStorageAvailable, SessionRoom, SettledRoom, SizeDelta,
        Opened, NoSession, IndInv, TypeOK, RecordedTotalWithinLimit
  <1>4. KeyMove(p, s)
    BY DEF Upload, KeyMove, Opened, NoSession
  <1> QED
    BY <1>1, <1>2, <1>3, <1>4, SessionStep DEF Upload, Start, IndInv, TypeOK

LEMMA PresignUploadStep ==
    ASSUME IndInv, NEW p \in Processes, NEW d \in Docs,
           PresignUpload(p, d)
    PROVE  IndInv'
  <1> DEFINE s == Opened("presign_upload", "insert", d)
  <1>1. s \in Sessions
    BY DataAssumption
    DEF PresignUpload, IndInv, TypeOK, Rows, Sessions, ProgramCounters, Statements, Opened, NoSession
  <1>2. SessionControl(s)
    BY DEF SessionControl, Opened, NoSession
  <1>3. Limit > 0 => SessionRoom(s)
    BY DataAssumption
    DEF PresignUpload, SessionRoom, SettledRoom, SizeDelta,
        Opened, NoSession, IndInv, TypeOK, RecordedTotalWithinLimit
  <1>4. KeyMove(p, s)
    BY DEF PresignUpload, KeyMove, Opened, NoSession
  <1> QED
    BY <1>1, <1>2, <1>3, <1>4, SessionStep DEF PresignUpload, Start, IndInv, TypeOK

LEMMA CompleteUploadStep ==
    ASSUME IndInv, NEW p \in Processes, NEW d \in Docs,
           CompleteUpload(p, d)
    PROVE  IndInv'
  <1> DEFINE s == [Opened("complete_upload", "head", d)
                     EXCEPT !.size = documents[d].size]
  <1>1. s \in Sessions
    BY DataAssumption
    DEF CompleteUpload, IndInv, TypeOK, Rows, Sessions, ProgramCounters, Statements, Opened, NoSession
  <1>2. SessionControl(s)
    BY DEF SessionControl, Opened, NoSession
  <1>3. Limit > 0 => SessionRoom(s)
    BY DataAssumption
    DEF CompleteUpload, SessionRoom, SettledRoom, SizeDelta,
        Opened, NoSession, IndInv, TypeOK, RecordedTotalWithinLimit
  <1>4. KeyMove(p, s)
    BY DEF CompleteUpload, Pending, Live, NoRow, KeyMove, Opened, NoSession
  <1> QED
    BY <1>1, <1>2, <1>3, <1>4, SessionStep DEF CompleteUpload, Start, IndInv, TypeOK

LEMMA CompleteUploadByStorageKeyStep ==
    ASSUME IndInv, NEW p \in Processes, NEW d \in Docs,
           CompleteUploadByStorageKey(p, d)
    PROVE  IndInv'
  <1> DEFINE s == [Opened("complete_upload_by_storage_key", "head", d)
                     EXCEPT !.size = documents[d].size]
  <1>1. s \in Sessions
    BY DataAssumption
    DEF CompleteUploadByStorageKey, IndInv, TypeOK, Rows, Sessions, ProgramCounters, Statements, Opened, NoSession
  <1>2. SessionControl(s)
    BY DEF SessionControl, Opened, NoSession
  <1>3. Limit > 0 => SessionRoom(s)
    BY DataAssumption
    DEF CompleteUploadByStorageKey, SessionRoom, SettledRoom, SizeDelta,
        Opened, NoSession, IndInv, TypeOK, RecordedTotalWithinLimit
  <1>4. KeyMove(p, s)
    BY DEF CompleteUploadByStorageKey, Pending, Live, NoRow, KeyMove, Opened, NoSession
  <1> QED
    BY <1>1, <1>2, <1>3, <1>4, SessionStep DEF CompleteUploadByStorageKey, Start, IndInv, TypeOK

LEMMA DeleteStep ==
    ASSUME IndInv, NEW p \in Processes, NEW d \in Docs,
           Delete(p, d)
    PROVE  IndInv'
  <1> DEFINE s == [Opened("delete", "load_project", d)
                     EXCEPT !.size = documents[d].size]
  <1>1. s \in Sessions
    BY DataAssumption
    DEF Delete, IndInv, TypeOK, Rows, Sessions, ProgramCounters, Statements, Opened, NoSession
  <1>2. SessionControl(s)
    BY DEF SessionControl, Opened, NoSession
  <1>3. Limit > 0 => SessionRoom(s)
    BY DataAssumption
    DEF Delete, SessionRoom, SettledRoom, SizeDelta,
        Opened, NoSession, IndInv, TypeOK, RecordedTotalWithinLimit
  <1>4. KeyMove(p, s)
    BY DEF Delete, Pending, Live, NoRow, KeyMove, Opened, NoSession
  <1> QED
    BY <1>1, <1>2, <1>3, <1>4, SessionStep DEF Delete, Start, IndInv, TypeOK

LEMMA UpdateStep ==
    ASSUME IndInv, NEW p \in Processes, NEW d \in Docs,
           Update(p, d)
    PROVE  IndInv'
  <1> DEFINE s == Opened("update", "rename", d)
  <1>1. s \in Sessions
    BY DataAssumption
    DEF Update, IndInv, TypeOK, Rows, Sessions, ProgramCounters, Statements, Opened, NoSession
  <1>2. SessionControl(s)
    BY DEF SessionControl, Opened, NoSession
  <1>3. Limit > 0 => SessionRoom(s)
    BY DataAssumption
    DEF Update, SessionRoom, SettledRoom, SizeDelta,
        Opened, NoSession, IndInv, TypeOK, RecordedTotalWithinLimit
  <1>4. KeyMove(p, s)
    BY DEF Update, Live, NoRow, KeyMove, Opened, NoSession
  <1> QED
    BY <1>1, <1>2, <1>3, <1>4, SessionStep DEF Update, Start, IndInv, TypeOK

LEMMA DeleteProjectStep ==
    ASSUME IndInv, NEW p \in Processes,
           DeleteProject(p)
    PROVE  IndInv'
  <1> DEFINE s == Opened("delete_project", "close", NoDoc)
  <1>1. s \in Sessions
    BY DataAssumption
    DEF DeleteProject, IndInv, TypeOK, Rows, Sessions, ProgramCounters, Statements, Opened, NoSession
  <1>2. SessionControl(s)
    BY DEF SessionControl, Opened, NoSession
  <1>3. Limit > 0 => SessionRoom(s)
    BY DataAssumption
    DEF DeleteProject, SessionRoom, SettledRoom, SizeDelta,
        Opened, NoSession, IndInv, TypeOK, RecordedTotalWithinLimit
  <1>4. KeyMove(p, s)
    BY DEF DeleteProject, KeyMove, Opened, NoSession
  <1> QED
    BY <1>1, <1>2, <1>3, <1>4, SessionStep DEF DeleteProject, Start, IndInv, TypeOK

\* The steps that wait for nobody.

LEMMA SaveStep ==
    ASSUME IndInv, NEW p \in Processes, Save(p)
    PROVE  IndInv'
  <1> DEFINE s == [session[p] EXCEPT !.pc = "insert"]
  <1>1. session[p] \in Sessions /\ SessionControl(session[p])
    BY DEF IndInv, TypeOK, ControlOK
  <1>2. Limit > 0 => SessionRoom(session[p])
    BY DEF IndInv, RoomOK
  <1>3. s \in Sessions
    BY <1>1 DEF Save, Sessions, ProgramCounters, Statements
  <1>4. SessionControl(s)
    BY <1>1 DEF Save, At, Sessions, SessionControl
  <1>5. Limit > 0 => SessionRoom(s)
    BY <1>1, <1>2, DataAssumption
    DEF Save, At, Sessions, SessionRoom, SettledRoom, SizeDelta
  <1>6. session' = [session EXCEPT ![p] = s]
    BY DEF Save, Goto, IndInv, TypeOK
  <1>7. KeyMove(p, s)
    BY <1>1 DEF KeyMove, Sessions
  <1> QED
    BY <1>3, <1>4, <1>5, <1>6, <1>7, SessionStep DEF Save, Sessions, IndInv, TypeOK

LEMMA HeadObjectStep ==
    ASSUME IndInv, NEW p \in Processes, HeadObject(p)
    PROVE  IndInv'
  <1> DEFINE s == [session[p] EXCEPT !.metadata = objects[session[p].doc],
                                     !.pc = "load_project"]
  <1>1. session[p] \in Sessions /\ SessionControl(session[p])
    BY DEF IndInv, TypeOK, ControlOK
  <1>2. Limit > 0 => SessionRoom(session[p])
    BY DEF IndInv, RoomOK
  <1>3. s \in Sessions
    BY <1>1 DEF HeadObject, At, SessionControl, IndInv, TypeOK, Sessions, ProgramCounters, Statements
  <1>4. SessionControl(s)
    BY <1>1 DEF HeadObject, At, Sessions, SessionControl
  <1>5. Limit > 0 => SessionRoom(s)
    BY <1>1, <1>2, DataAssumption
    DEF HeadObject, SessionControl, At, Sessions, SessionRoom, SettledRoom, SizeDelta
  <1>6. session' = [session EXCEPT ![p] = s]
    BY DEF HeadObject, Goto, IndInv, TypeOK
  <1>7. KeyMove(p, s)
    BY <1>1 DEF KeyMove, Sessions
  <1> QED
    BY <1>3, <1>4, <1>5, <1>6, <1>7, SessionStep DEF HeadObject, IndInv, TypeOK

LEMMA PurgeStep ==
    ASSUME IndInv, NEW p \in Processes, Purge(p)
    PROVE  IndInv'
  <1> DEFINE s == [session[p] EXCEPT !.pc = "soft_delete"]
  <1>1. session[p] \in Sessions /\ SessionControl(session[p])
    BY DEF IndInv, TypeOK, ControlOK
  <1>2. Limit > 0 => SessionRoom(session[p])
    BY DEF IndInv, RoomOK
  <1>3. s \in Sessions
    BY <1>1 DEF Purge, Sessions, ProgramCounters, Statements
  <1>4. SessionControl(s)
    BY <1>1 DEF Purge, At, Sessions, SessionControl
  <1>5. Limit > 0 => SessionRoom(s)
    BY <1>1, <1>2, DataAssumption
    DEF Purge, At, Sessions, SessionRoom, SettledRoom, SizeDelta
  <1>6. session' = [session EXCEPT ![p] = s]
    BY DEF Purge, Goto, IndInv, TypeOK
  <1>7. KeyMove(p, s)
    BY <1>1 DEF KeyMove, Sessions
  <1> QED
    BY <1>3, <1>4, <1>5, <1>6, <1>7, SessionStep DEF Purge, IndInv, TypeOK

LEMMA LoadProjectStep ==
    ASSUME IndInv, NEW p \in Processes, LoadProject(p)
    PROVE  IndInv'
  <1> DEFINE s == [session[p] EXCEPT
                     !.count = project.documents_count,
                     !.total = project.total_size_bytes,
                     !.pc = IF Accepts(session[p]) THEN "mark" ELSE "purge"]
  <1>1. session[p] \in Sessions /\ SessionControl(session[p])
    BY DEF IndInv, TypeOK, ControlOK
  <1>2. Limit > 0 => SessionRoom(session[p])
    BY DEF IndInv, RoomOK
  <1>3. s \in Sessions
    BY <1>1 DEF LoadProject, IndInv, TypeOK, Sessions, ProgramCounters, Statements
  <1>4. SessionControl(s)
    <2>1. /\ s.pc \in {"mark", "purge"}
          /\ s.doc = session[p].doc /\ s.op = session[p].op
          /\ s.flushed = session[p].flushed
      BY <1>1 DEF Sessions
    <2>2. session[p].pc = "load_project"
      BY DEF LoadProject, At
    <2> HIDE DEF s
    <2> QED
      BY <1>1, <2>1, <2>2 DEF SessionControl
  <1>5. Limit > 0 => SessionRoom(s)
    BY <1>1, <1>2, DataAssumption
    DEF LoadProject, Accepts, HasStorageAvailable, SessionControl, IndInv, TypeOK,
        RecordedTotalWithinLimit, At, Sessions, SessionRoom, SettledRoom, SizeDelta
  <1>6. session' = [session EXCEPT ![p] = s]
    BY DEF LoadProject, Goto, IndInv, TypeOK
  <1>7. KeyMove(p, s)
    BY <1>1 DEF KeyMove, Sessions
  <1> QED
    BY <1>3, <1>4, <1>5, <1>6, <1>7, SessionStep DEF LoadProject, IndInv, TypeOK

LEMMA InsertStep ==
    ASSUME IndInv, NEW p \in Processes, Insert(p)
    PROVE  IndInv'
  <1> DEFINE s == [session[p] EXCEPT !.flushed = @ \cup {"insert"},
                                     !.pc = IF session[p].op = "upload"
                                            THEN "adjust" ELSE "commit"]
  <1>1. session[p] \in Sessions /\ SessionControl(session[p])
    BY DEF IndInv, TypeOK, ControlOK
  <1>2. Limit > 0 => SessionRoom(session[p])
    BY DEF IndInv, RoomOK
  <1>3. s \in Sessions
    BY <1>1 DEF Insert, Sessions, ProgramCounters, Statements
  <1>4. SessionControl(s)
    BY <1>1 DEF Insert, At, Sessions, SessionControl
  <1>5. Limit > 0 => SessionRoom(s)
    BY <1>1, <1>2, DataAssumption
    DEF Insert, At, Sessions, SessionRoom, SettledRoom, SizeDelta
  <1>6. session' = [session EXCEPT ![p] = s]
    BY DEF Insert, Flush, IndInv, TypeOK
  <1>7. KeyMove(p, s)
    BY <1>1 DEF KeyMove, Sessions
  <1> QED
    BY <1>3, <1>4, <1>5, <1>6, <1>7, SessionStep DEF Insert, Flush, IndInv, TypeOK

\* The statements that wait for a row lock.

LEMMA MarkUploadedStep ==
    ASSUME IndInv, NEW p \in Processes, MarkUploaded(p)
    PROVE  IndInv'
  <1> DEFINE s == [session[p] EXCEPT !.flushed = @ \cup {"mark"},
                                     !.pc = "adjust"]
  <1>1. session[p] \in Sessions /\ SessionControl(session[p])
    BY DEF IndInv, TypeOK, ControlOK
  <1>2. Limit > 0 => SessionRoom(session[p])
    BY DEF IndInv, RoomOK
  <1>3. s \in Sessions
    BY <1>1 DEF MarkUploaded, Sessions, ProgramCounters, Statements
  <1>4. SessionControl(s)
    BY <1>1 DEF MarkUploaded, At, Sessions, SessionControl
  <1>5. Limit > 0 => SessionRoom(s)
    BY <1>1, <1>2, DataAssumption
    DEF MarkUploaded, At, Sessions, SessionRoom, SettledRoom, SizeDelta
  <1>6. session' = [session EXCEPT ![p] = s]
    BY DEF MarkUploaded, Flush, IndInv, TypeOK
  <1>7. KeyMove(p, s)
    BY <1>1 DEF KeyMove, Sessions
  <1> QED
    BY <1>3, <1>4, <1>5, <1>6, <1>7, SessionStep DEF MarkUploaded, Flush, IndInv, TypeOK

LEMMA SoftDeleteStep ==
    ASSUME IndInv, NEW p \in Processes, SoftDelete(p)
    PROVE  IndInv'
  <1> DEFINE s == [session[p] EXCEPT !.flushed = @ \cup {"soft_delete"},
                                     !.pc = IF session[p].op = "delete"
                                            THEN "adjust" ELSE "commit"]
  <1>1. session[p] \in Sessions /\ SessionControl(session[p])
    BY DEF IndInv, TypeOK, ControlOK
  <1>2. Limit > 0 => SessionRoom(session[p])
    BY DEF IndInv, RoomOK
  <1>3. s \in Sessions
    BY <1>1 DEF SoftDelete, Sessions, ProgramCounters, Statements
  <1>4. SessionControl(s)
    BY <1>1 DEF SoftDelete, At, Sessions, SessionControl
  <1>5. Limit > 0 => SessionRoom(s)
    BY <1>1, <1>2, DataAssumption
    DEF SoftDelete, At, Sessions, SessionRoom, SettledRoom, SizeDelta
  <1>6. session' = [session EXCEPT ![p] = s]
    BY DEF SoftDelete, Flush, IndInv, TypeOK
  <1>7. KeyMove(p, s)
    BY <1>1 DEF KeyMove, Sessions
  <1> QED
    BY <1>3, <1>4, <1>5, <1>6, <1>7, SessionStep DEF SoftDelete, Flush, IndInv, TypeOK

LEMMA RenameStep ==
    ASSUME IndInv, NEW p \in Processes, Rename(p)
    PROVE  IndInv'
  <1> DEFINE s == [session[p] EXCEPT !.flushed = @ \cup {"rename"},
                                     !.pc = "commit"]
  <1>1. session[p] \in Sessions /\ SessionControl(session[p])
    BY DEF IndInv, TypeOK, ControlOK
  <1>2. Limit > 0 => SessionRoom(session[p])
    BY DEF IndInv, RoomOK
  <1>3. s \in Sessions
    BY <1>1 DEF Rename, Sessions, ProgramCounters, Statements
  <1>4. SessionControl(s)
    BY <1>1 DEF Rename, At, Sessions, SessionControl
  <1>5. Limit > 0 => SessionRoom(s)
    BY <1>1, <1>2, DataAssumption
    DEF Rename, At, Sessions, SessionRoom, SettledRoom, SizeDelta
  <1>6. session' = [session EXCEPT ![p] = s]
    BY DEF Rename, Flush, IndInv, TypeOK
  <1>7. KeyMove(p, s)
    BY <1>1 DEF KeyMove, Sessions
  <1> QED
    BY <1>3, <1>4, <1>5, <1>6, <1>7, SessionStep DEF Rename, Flush, IndInv, TypeOK

LEMMA AdjustDocumentTotalsStep ==
    ASSUME IndInv, NEW p \in Processes, AdjustDocumentTotals(p)
    PROVE  IndInv'
  <1> DEFINE s == [session[p] EXCEPT !.flushed = @ \cup {"adjust"},
                                     !.pc = "commit"]
  <1>1. session[p] \in Sessions /\ SessionControl(session[p])
    BY DEF IndInv, TypeOK, ControlOK
  <1>2. Limit > 0 => SessionRoom(session[p])
    BY DEF IndInv, RoomOK
  <1>3. s \in Sessions
    BY <1>1 DEF AdjustDocumentTotals, Sessions, ProgramCounters, Statements
  <1>4. SessionControl(s)
    BY <1>1 DEF AdjustDocumentTotals, At, Sessions, SessionControl, TotalsCheck, AdjustedCount,
        AdjustedTotal, Written, CountDelta, SizeDelta, IndInv, TypeOK
  <1>5. Limit > 0 => SessionRoom(s)
    BY <1>1, <1>2, DataAssumption
    DEF AdjustDocumentTotals, At, Sessions, SessionRoom, SettledRoom, SizeDelta
  <1>6. session' = [session EXCEPT ![p] = s]
    BY DEF AdjustDocumentTotals, Flush, IndInv, TypeOK
  <1>7. KeyMove(p, s)
    BY <1>1 DEF KeyMove, Sessions
  <1> QED
    BY <1>3, <1>4, <1>5, <1>6, <1>7, SessionStep DEF AdjustDocumentTotals, Flush, IndInv, TypeOK

LEMMA CloseProjectStep ==
    ASSUME IndInv, NEW p \in Processes, CloseProject(p)
    PROVE  IndInv'
  <1> DEFINE s == [session[p] EXCEPT !.flushed = @ \cup {"close"},
                                     !.pc = "commit"]
  <1>1. session[p] \in Sessions /\ SessionControl(session[p])
    BY DEF IndInv, TypeOK, ControlOK
  <1>2. Limit > 0 => SessionRoom(session[p])
    BY DEF IndInv, RoomOK
  <1>3. s \in Sessions
    BY <1>1 DEF CloseProject, Sessions, ProgramCounters, Statements
  <1>4. SessionControl(s)
    BY <1>1 DEF CloseProject, At, Sessions, SessionControl
  <1>5. Limit > 0 => SessionRoom(s)
    BY <1>1, <1>2, DataAssumption
    DEF CloseProject, At, Sessions, SessionRoom, SettledRoom, SizeDelta
  <1>6. session' = [session EXCEPT ![p] = s]
    BY DEF CloseProject, Flush, IndInv, TypeOK
  <1>7. KeyMove(p, s)
    BY <1>1 DEF KeyMove, Sessions
  <1> QED
    BY <1>3, <1>4, <1>5, <1>6, <1>7, SessionStep DEF CloseProject, Flush, IndInv, TypeOK

\* The steps that close a session without a commit.
LEMMA CloseStep ==
    ASSUME IndInv, NEW p \in Processes, Close(p),
           (objects \in [Docs -> Nat \cup {NoObject}])'
    PROVE  IndInv'
  <1>1. NoSession \in Sessions
    BY DEF NoSession, Sessions, ProgramCounters, Statements
  <1>2. SessionControl(NoSession)
    BY DEF NoSession, SessionControl
  <1>3. Limit > 0 => SessionRoom(NoSession)
    BY DataAssumption DEF NoSession, SessionRoom, SettledRoom
  <1> QED
    BY <1>1, <1>2, <1>3, SessionStep DEF Close, KeyMove

LEMMA FailStep ==
    ASSUME IndInv, NEW p \in Processes, Fail(p)
    PROVE  IndInv'
  <1>1. session[p].metadata \in Nat
    BY DEF IndInv, TypeOK, Sessions
  <1>2. (objects \in [Docs -> Nat \cup {NoObject}])'
    BY <1>1 DEF Fail, InterruptedObject, IndInv, TypeOK
  <1> QED
    BY <1>2, CloseStep DEF Fail

\* Commit: the rows keep their types, and the total its limit.
LEMMA CommitStep ==
    ASSUME IndInv, NEW p \in Processes, Commit(p)
    PROVE  IndInv'
  <1> DEFINE s == session[p]
  <1>1. s \in Sessions /\ SessionControl(s)
    BY DEF IndInv, TypeOK, ControlOK
  <1>2. Limit > 0 => SessionRoom(s)
    BY DEF IndInv, RoomOK
  <1>3. \A q \in Processes : session'[q] = IF q = p THEN NoSession ELSE session[q]
    BY DEF Commit, IndInv, TypeOK
  <1>4. (documents \in [Docs -> Rows])'
    <2>1. ASSUME s.doc \in Docs PROVE FlushedRow(s) \in Rows
      <3>1. documents[s.doc] \in Rows /\ s.size \in Nat /\ s.metadata \in Nat
        BY <1>1, <2>1 DEF IndInv, TypeOK, Sessions
      <3>2. CreatedRow(s) \in Rows
        BY <3>1 DEF CreatedRow, Rows
      <3>3. MarkedRow(s) \in Rows
        BY <3>1 DEF MarkedRow, Written, Rows
      <3>4. DeletedRow(s) \in Rows
        BY <3>1 DEF DeletedRow, Rows
      <3> QED
        BY <3>1, <3>2, <3>3, <3>4 DEF FlushedRow
    <2> QED
      BY <2>1 DEF Commit, IndInv, TypeOK
  <1>5. (project \in [documents_count : Nat, total_size_bytes : Nat,
                      deleted : BOOLEAN])'
    <2>1. CASE "adjust" \in s.flushed
      <3>1. AdjustedCount(s) \in Nat
        BY <1>1, <2>1 DEF SessionControl, AdjustedCount, CountDelta, Sessions
      <3>2. AdjustedTotal(s) \in Nat
        BY <1>1, <2>1
        DEF SessionControl, AdjustedTotal, SizeDelta, Written, Sessions,
            IndInv, TypeOK
      <3> QED
        BY <2>1, <3>1, <3>2 DEF Commit, FlushedProject, IndInv, TypeOK
    <2>2. CASE "adjust" \notin s.flushed
      BY <2>2 DEF Commit, FlushedProject, IndInv, TypeOK
    <2> QED
      BY <2>1, <2>2
  <1>6. RecordedTotalWithinLimit'
    BY <1>1, <1>2, DataAssumption
    DEF Commit, FlushedProject, AdjustedTotal, Written, SessionRoom, SettledRoom,
        SizeDelta, Sessions, IndInv, TypeOK, RecordedTotalWithinLimit
  <1>7. TypeOK'
    <2>1. (presigned \subseteq Docs /\ notified \subseteq presigned)'
      BY <1>1 DEF Commit, SessionControl, IndInv, TypeOK
    <2>2. (session \in [Processes -> Sessions])'
      BY DEF Commit, NoSession, Sessions, ProgramCounters, Statements,
             IndInv, TypeOK
    <2> QED
      BY <1>4, <1>5, <2>1, <2>2 DEF Commit, IndInv, TypeOK
  <1>8. ControlOK'
    BY <1>3 DEF NoSession, SessionControl, IndInv, ControlOK
  <1>9. RoomOK'
    BY <1>3, DataAssumption DEF NoSession, SessionRoom, SettledRoom, IndInv, RoomOK
  <1>10. KeysOwned'
    <2>1. \A q \in Processes : session[q].op \in Uploads => session[q].doc \in Docs
      BY DEF IndInv, ControlOK, SessionControl
    <2>2. ASSUME NEW q \in Processes, session[q].op \in Uploads, q # p
          PROVE  documents'[session[q].doc] = documents[session[q].doc]
      BY <2>1, <2>2 DEF Commit, IndInv, KeysOwned, KeyOwned
    <2> QED
      BY <1>3, <2>1, <2>2, ProcessAssumption
      DEF IndInv, KeysOwned, KeyOwned, NoSession
  <1> QED
    BY <1>6, <1>7, <1>8, <1>9, <1>10 DEF IndInv

LEMMA ClientPutStep ==
    ASSUME IndInv, NEW d \in Docs, ClientPut(d)
    PROVE  IndInv'
  <1>1. TypeOK'
    BY DataAssumption DEF ClientPut, IndInv, TypeOK
  <1>2. ControlOK' /\ RoomOK' /\ KeysOwned' /\ RecordedTotalWithinLimit'
    BY DEF ClientPut, IndInv, ControlOK, RoomOK, KeysOwned, KeyOwned,
           RecordedTotalWithinLimit
  <1> QED
    BY <1>1, <1>2 DEF IndInv

LEMMA Initially == Init => IndInv
  <1>1. Init => TypeOK
    BY DEF Init, TypeOK, NoRow, Rows, NoSession, Sessions, ProgramCounters,
           Statements
  <1>2. Init => ControlOK /\ KeysOwned
    BY DEF Init, NoSession, ControlOK, SessionControl, KeysOwned, KeyOwned
  <1>3. Init => RoomOK /\ RecordedTotalWithinLimit
    BY DataAssumption
    DEF Init, NoSession, RoomOK, SessionRoom, SettledRoom,
        RecordedTotalWithinLimit
  <1> QED
    BY <1>1, <1>2, <1>3 DEF IndInv

LEMMA Inductive == IndInv /\ [Next]_vars => IndInv'
  <1> SUFFICES ASSUME IndInv, [Next]_vars
               PROVE  IndInv'
    OBVIOUS
  <1>1. ASSUME NEW p \in ApiProcesses, Request(p) PROVE IndInv'
    BY <1>1, UploadStep, PresignUploadStep, CompleteUploadStep, UpdateStep,
       DeleteStep, DeleteProjectStep
    DEF Request
  <1>2. ASSUME NEW p \in LambdaProcesses, Event(p) PROVE IndInv'
    BY <1>2, CompleteUploadByStorageKeyStep DEF Event
  <1>3. ASSUME NEW p \in Processes, Step(p) PROVE IndInv'
    <2>1. CASE HeadMissing(p) \/ PurgeDenied(p)
      BY <2>1, CloseStep DEF HeadMissing, PurgeDenied, IndInv, TypeOK
    <2> QED
      BY <1>3, <2>1, SaveStep, HeadObjectStep, PurgeStep, LoadProjectStep,
         InsertStep, CommitStep
      DEF Step
  <1>4. ASSUME NEW p \in Processes, LockStep(p) PROVE IndInv'
    <2>1. CASE AdjustViolatesCheck(p)
      BY <2>1, CloseStep DEF AdjustViolatesCheck, IndInv, TypeOK
    <2> QED
      BY <1>4, <2>1, MarkUploadedStep, SoftDeleteStep, RenameStep,
         AdjustDocumentTotalsStep, CloseProjectStep
      DEF LockStep
  <1>5. ASSUME NEW p \in Processes, Fail(p) PROVE IndInv'
    BY <1>5, FailStep
  <1>6. ASSUME NEW d \in Docs, ClientPut(d) PROVE IndInv'
    BY <1>6, ClientPutStep
  <1>7. CASE UNCHANGED vars
    BY <1>7
    DEF vars, IndInv, TypeOK, ControlOK, RoomOK, KeysOwned, KeyOwned,
        RecordedTotalWithinLimit
  <1> QED
    BY <1>1, <1>2, <1>3, <1>4, <1>5, <1>6, <1>7 DEF Next

THEOREM Invariance == Spec => []IndInv
  <1> QED
    BY Initially, Inductive, PTL DEF Spec

\* Rows, objects and sessions keep their types: the CHECK constraints hold,
\* and no session works with a size it did not read.
THEOREM TypeCorrect == Spec => []TypeOK
  <1>1. IndInv => TypeOK
    BY DEF IndInv
  <1> QED
    BY <1>1, Invariance, PTL

\* The recorded total of a project never exceeds the limit, however many
\* processes check it against totals that others have changed since.
THEOREM TotalWithinLimit == Spec => []RecordedTotalWithinLimit
  <1>1. IndInv => RecordedTotalWithinLimit
    BY DEF IndInv
  <1> QED
    BY <1>1, Invariance, PTL

--------------------------------------------------------------------------------

\* A session that holds the projects row only has to commit, and one that holds
\* a documents row waits at most for the projects row.
LEMMA LockOrder ==
    ASSUME IndInv, NEW p \in Processes
    PROVE  /\ HoldsProject(p) => session[p].pc = "commit"
           /\ \A d \in Docs :
                HoldsDocument(p, d) => session[p].pc \in {"adjust", "commit"}
  BY DEF IndInv, ControlOK, SessionControl, HoldsProject, HoldsDocument

\* No set of sessions, of any size, waits for itself.
THEOREM DeadlockFreedom == Spec => []NoDeadlock
  <1>1. IndInv => NoDeadlock
    <2> SUFFICES ASSUME IndInv, NEW S \in SUBSET Processes, S # {},
                        \A p \in S : \E q \in S : WaitsFor(p, q)
                 PROVE  FALSE
      BY DEF NoDeadlock
    <2>1. \A p, q \in S : WaitsFor(p, q) => session[q].pc \in {"adjust", "commit"}
      <3> SUFFICES ASSUME NEW p \in S, NEW q \in S, WaitsFor(p, q)
                   PROVE  session[q].pc \in {"adjust", "commit"}
        OBVIOUS
      <3>1. CASE HoldsProject(q)
        BY <3>1, LockOrder
      <3>2. CASE HoldsDocument(q, session[p].doc) /\ ~HoldsProject(q)
        <4>1. session[p].pc \in {"mark", "soft_delete", "rename"}
          BY <3>2 DEF WaitsFor
        <4>2. session[p].doc \in Docs
          BY <4>1 DEF IndInv, ControlOK, SessionControl
        <4> QED
          BY <3>2, <4>2, LockOrder
      <3> QED
        BY <3>1, <3>2 DEF WaitsFor
    <2>2. PICK q \in S : session[q].pc \in {"adjust", "commit"}
      BY <2>1
    <2>3. PICK r \in S : WaitsFor(q, r)
      OBVIOUS
    <2>4. HoldsProject(r)
      BY <2>2, <2>3 DEF WaitsFor
    <2>5. session[r].pc = "commit"
      BY <2>4, LockOrder
    <2> QED
      BY <2>5 DEF WaitsFor
  <1> QED
    BY <1>1, Invariance, PTL

--------------------------------------------------------------------------------

\* Rows change at a commit and nowhere else.
LEMMA OnlyCommitWrites ==
    ASSUME [Next]_vars
    PROVE  UNCHANGED <<documents, project>> \/ \E p \in Processes : Commit(p)
  BY DEF Next, Request, Event, Step, LockStep, Fail, ClientPut, Upload,
         PresignUpload, CompleteUpload, CompleteUploadByStorageKey, Update,
         Delete, DeleteProject, Start, Save, HeadObject, HeadMissing, Purge,
         PurgeDenied, LoadProject, Insert, MarkUploaded, SoftDelete, Rename,
         AdjustDocumentTotals, AdjustViolatesCheck, CloseProject, Flush, Close,
         Goto, vars

\* The only action that writes rows leaves a deleted one deleted: the INSERT of a
\* session goes to a key that has no row, and the totals are written to the
\* project's row as it is.
THEOREM DeletedStaysDeleted == Spec => DeletionIsFinal
  <1> DEFINE Final ==
        /\ project.deleted => project'.deleted
        /\ \A d \in Docs : documents[d].deleted => documents'[d].deleted /\ ~Live(d)'
  <1>1. IndInv /\ [Next]_vars => Final
    <2> SUFFICES ASSUME IndInv, [Next]_vars PROVE Final
      OBVIOUS
    <2>1. ASSUME NEW p \in Processes, Commit(p), project.deleted
          PROVE  project'.deleted
      <3>1. project' = FlushedProject(session[p]) /\ project.deleted = TRUE
        BY <2>1 DEF Commit, IndInv, TypeOK
      <3> QED
        BY <3>1 DEF FlushedProject, IndInv, TypeOK
    <2>2. ASSUME NEW p \in Processes, Commit(p), NEW d \in Docs, documents[d].deleted
          PROVE  documents'[d].deleted
      <3> DEFINE s == session[p]
      <3>1. CASE s.doc # d
        BY <2>2, <3>1 DEF Commit
      <3>2. CASE s.doc = d
        <4>1. documents'[d] = FlushedRow(s)
          BY <2>2, <3>2 DEF Commit
        <4>2. documents[d] # NoRow
          BY <2>2 DEF NoRow
        <4>3. s.op \notin Uploads
          BY <3>2, <4>2 DEF IndInv, KeysOwned, KeyOwned
        <4>4. "insert" \notin s.flushed
          BY <4>3 DEF IndInv, ControlOK, SessionControl
        <4>5. documents[d] \in Rows
          BY DEF IndInv, TypeOK
        <4> QED
          BY <2>2, <3>2, <4>1, <4>4, <4>5
          DEF FlushedRow, MarkedRow, DeletedRow, Rows
      <3> QED
        BY <3>1, <3>2
    <2>3. CASE \E p \in Processes : Commit(p)
      BY <2>1, <2>2, <2>3 DEF Live
    <2>4. CASE UNCHANGED <<documents, project>>
      BY <2>4 DEF Live
    <2> QED
      BY <2>3, <2>4, OnlyCommitWrites
  <1> QED
    BY <1>1, Invariance, PTL DEF Spec, DeletionIsFinal

================================================================================
