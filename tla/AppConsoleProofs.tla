---------------------------- MODULE AppConsoleProofs ----------------------------
(***************************************************************************)
(* Theorems about the demo console for any number of users, projects,      *)
(* edits and asynchronous functions that are under way at once.            *)
(***************************************************************************)
EXTENDS AppConsole, TLAPS

(***************************************************************************)
(* The inductive invariant.                                                *)
(***************************************************************************)

\* What a task awaits, and what it must know by then.
TaskOK(k) ==
    /\ k.op = "none" => k.pc = "idle"
    /\ k.op = "login" => k.pc = "login" /\ k.token \in Users
    /\ k.op = "session" => k.pc \in {"me", "list"} /\ k.token \in Users
    /\ k.op = "select" => k.pc = "detail" /\ k.project \in Projects
    /\ k.op = "create" =>
        /\ k.pc \in {"create", "list", "detail"}
        /\ k.pc # "create" \/ k.answer.given => k.project \in Projects
    /\ k.op = "edit" => k.pc \in {"edit", "list", "detail"} /\ k.project \in Projects

\* The edit of a task stays, and the details it loads afterwards hold it.
EditKept(k) ==
    k.op = "edit" =>
        /\ k.edits <= edits[k.project]
        /\ k.pc = "detail" /\ k.answer.given => k.edits <= k.answer.edits

Counts == 0..(MaxEdits + 1)

\* What is shown is nothing, or a project.
ViewOK ==
    /\ token \in Users \cup {NoToken}
    /\ currentUser \in Users \cup {NoUser}
    /\ projects \subseteq Projects
    /\ detail \in [project : Projects, edits : Counts] \cup {NoDetail}
    /\ selectedProjectId = detail.project

ConsoleInv ==
    /\ edits \in [Projects -> Counts]
    /\ ViewOK
    /\ task \in [Tasks -> TaskRecords]
    /\ \A t \in Tasks : TaskOK(task[t]) /\ EditKept(task[t])

LEMMA InvImpliesTypeOK == ConsoleInv => TypeOK
  BY DEF ConsoleInv, ViewOK, TypeOK, Counts

--------------------------------------------------------------------------------
(* What the steps have in common.                                          *)

\* The API only adds edits.
EditsGrow ==
    /\ edits' \in [Projects -> Counts]
    /\ \A p \in Projects : edits[p] <= edits'[p]

Replaces(t, k) == task' = [task EXCEPT ![t] = k]

LEMMA TaskReplaced ==
    ASSUME ConsoleInv, NEW t \in Tasks, NEW k \in TaskRecords, Replaces(t, k),
           TaskOK(k), EditKept(k)', EditsGrow, ViewOK'
    PROVE  ConsoleInv'
  <1>1. \A s \in Tasks : task'[s] = IF s = t THEN k ELSE task[s]
    BY DEF ConsoleInv, Replaces
  <1>2. task' \in [Tasks -> TaskRecords]
    BY DEF ConsoleInv, Replaces
  <1>3. ASSUME NEW s \in Tasks \ {t}
        PROVE  (TaskOK(task[s]) /\ EditKept(task[s]))'
    <2>1. task'[s] = task[s] /\ TaskOK(task[s]) /\ EditKept(task[s])
      BY <1>1 DEF ConsoleInv
    <2>2. task[s].op = "edit" => task[s].project \in Projects
      BY <2>1 DEF TaskOK
    <2>3. task[s].edits \in Nat
      BY BoundsAssumption DEF ConsoleInv, TaskRecords
    <2>4. TaskOK(task[s])'
      BY <2>1 DEF TaskOK
    <2>5. \A p \in Projects :
            edits[p] \in Nat /\ edits'[p] \in Nat /\ edits[p] <= edits'[p]
      BY BoundsAssumption DEF EditsGrow, ConsoleInv, Counts
    <2>6. EditKept(task[s])'
      BY <2>1, <2>2, <2>3, <2>5 DEF EditKept
    <2> QED
      BY <2>4, <2>6
  <1>4. (TaskOK(task[t]) /\ EditKept(task[t]))'
    BY <1>1 DEF TaskOK, EditKept
  <1> QED
    BY <1>2, <1>3, <1>4 DEF ConsoleInv, EditsGrow

LEMMA ViewStays ==
    ASSUME ConsoleInv, UNCHANGED view
    PROVE  ViewOK'
  BY DEF ConsoleInv, ViewOK, view

LEMMA EditsStay ==
    ASSUME ConsoleInv, UNCHANGED edits
    PROVE  EditsGrow
  BY BoundsAssumption DEF ConsoleInv, EditsGrow, Counts

LEMMA SessionCleared ==
    ASSUME clearSession
    PROVE  ViewOK'
  BY DEF clearSession, ViewOK, NoDetail

LEMMA ErrorHandled ==
    ASSUME ConsoleInv, NEW e \in Errors, handleError(e)
    PROVE  ViewOK'
  <1>1. CASE e = "unauthorized"
    BY <1>1, SessionCleared DEF handleError
  <1>2. CASE e # "unauthorized"
    BY <1>2 DEF handleError, ConsoleInv, ViewOK
  <1> QED
    BY <1>1, <1>2

LEMMA NoTaskRecord ==
    /\ NoTask \in TaskRecords
    /\ NoTask.op = "none" /\ NoTask.edits = 0 /\ NoTask.answer = NoAnswer
    /\ NoAnswer.given = FALSE
    /\ TaskOK(NoTask)
  BY BoundsAssumption DEF NoTask, NoAnswer, TaskRecords, TaskOK

LEMMA Ends ==
    ASSUME ConsoleInv, NEW t \in Tasks, End(t), EditsGrow, ViewOK'
    PROVE  ConsoleInv'
  BY NoTaskRecord, TaskReplaced DEF End, Replaces, EditKept

--------------------------------------------------------------------------------
(* The user.                                                               *)

\* A new task has edited nothing yet.
LEMMA Starts ==
    ASSUME ConsoleInv, NEW t \in Tasks, NEW k \in TaskRecords, Start(t, k), TaskOK(k),
           k.edits = 0, k.pc # "detail" \/ ~k.answer.given, UNCHANGED edits, ViewOK'
    PROVE  ConsoleInv'
  <1>1. EditKept(k)'
    BY BoundsAssumption DEF EditKept, TaskOK, ConsoleInv, Counts
  <1> QED
    BY <1>1, EditsStay, TaskReplaced DEF Start, Replaces

LEMMA LoginStep ==
    ASSUME ConsoleInv, NEW t \in Tasks, NEW u \in Users, Login(t, u)
    PROVE  ConsoleInv'
  <1> DEFINE k == [NoTask EXCEPT !.op = "login", !.pc = "login", !.token = u]
  <1>1. /\ k \in TaskRecords /\ k.edits = 0
        /\ k.op = "login" /\ k.pc = "login" /\ k.token = u
    BY NoTaskRecord DEF TaskRecords
  <1>2. Start(t, k) /\ UNCHANGED edits /\ ViewOK'
    BY ViewStays DEF Login
  <1> HIDE DEF k
  <1>3. TaskOK(k)
    BY <1>1 DEF TaskOK
  <1> QED
    BY <1>1, <1>2, <1>3, Starts

LEMMA SelectStep ==
    ASSUME ConsoleInv, NEW t \in Tasks, NEW p \in Projects, Select(t, p)
    PROVE  ConsoleInv'
  <1> DEFINE k == Detail(p)
  <1>1. /\ k \in TaskRecords /\ k.edits = 0 /\ k.op = "select" /\ k.pc = "detail"
        /\ k.project = p /\ ~k.answer.given
    BY NoTaskRecord DEF Detail, TaskRecords, ConsoleInv, ViewOK
  <1>2. Start(t, k) /\ UNCHANGED edits /\ ViewOK'
    BY DEF Select, ConsoleInv, ViewOK
  <1> HIDE DEF k
  <1>3. TaskOK(k)
    BY <1>1 DEF TaskOK
  <1> QED
    BY <1>1, <1>2, <1>3, Starts

LEMMA ChangeStep ==
    ASSUME ConsoleInv, NEW t \in Tasks, NEW op \in {"create", "edit"},
           NEW p \in Projects \cup {NoProject}, op = "edit" => p \in Projects,
           Change(t, op, op, p)
    PROVE  ConsoleInv'
  <1> DEFINE k == [NoTask EXCEPT !.op = op, !.pc = op, !.token = token,
                                 !.selected = selectedProjectId, !.project = p]
  <1>1. selectedProjectId \in Projects \cup {NoProject}
    BY DEF ConsoleInv, ViewOK, NoDetail
  <1>2. /\ k \in TaskRecords /\ k.edits = 0 /\ k.op = op /\ k.pc = op
        /\ k.project = p /\ ~k.answer.given
    BY <1>1, NoTaskRecord DEF TaskRecords, ConsoleInv, ViewOK
  <1>3. Start(t, k) /\ UNCHANGED edits /\ ViewOK'
    BY ViewStays DEF Change
  <1> HIDE DEF k
  <1>4. TaskOK(k)
    BY <1>2 DEF TaskOK
  <1> QED
    BY <1>2, <1>3, <1>4, Starts

LEMMA UserStep ==
    ASSUME ConsoleInv, User
    PROVE  ConsoleInv'
  <1>1. CASE Logout
    BY <1>1, SessionCleared DEF Logout, ConsoleInv, EditKept, TaskOK
  <1>2. ASSUME NEW t \in Tasks, NEW u \in Users, Login(t, u) PROVE ConsoleInv'
    BY <1>2, LoginStep
  <1>3. ASSUME NEW t \in Tasks, NEW p \in Projects, Select(t, p) PROVE ConsoleInv'
    BY <1>3, SelectStep
  <1>4. ASSUME NEW t \in Tasks, CreateProject(t) PROVE ConsoleInv'
    BY <1>4, ChangeStep DEF CreateProject
  <1>5. ASSUME NEW t \in Tasks, Edit(t) PROVE ConsoleInv'
    <2>1. detail.project \in Projects
      BY <1>5 DEF Edit, ConsoleInv, ViewOK
    <2> QED
      BY <1>5, <2>1, ChangeStep DEF Edit
  <1> QED
    BY <1>1, <1>2, <1>3, <1>4, <1>5 DEF User

--------------------------------------------------------------------------------
(* The API.                                                                *)

AnswerRecords ==
    [given : BOOLEAN, projects : SUBSET Projects, edits : Counts]

LEMMA GivenRecord == given \in AnswerRecords /\ given.given
  <1>1. NoAnswer \in AnswerRecords
    BY BoundsAssumption DEF NoAnswer, AnswerRecords, Counts
  <1> QED
    BY <1>1 DEF given, AnswerRecords

LEMMA AnswerRecord ==
    ASSUME NEW ps \in SUBSET Projects, NEW n \in Counts
    PROVE  /\ [given EXCEPT !.projects = ps] \in AnswerRecords
           /\ [given EXCEPT !.projects = ps].given
           /\ [given EXCEPT !.edits = n] \in AnswerRecords
           /\ [given EXCEPT !.edits = n].given
           /\ [given EXCEPT !.edits = n].edits = n
  BY GivenRecord DEF AnswerRecords

\* An answer to a request that does not change the project.
LEMMA Answered ==
    ASSUME ConsoleInv, NEW t \in Tasks, NEW a \in AnswerRecords, a.given,
           task[t].pc \in {"list", "detail"},
           task[t].pc = "detail" => a.edits = edits[task[t].project],
           Answer(t, a), UNCHANGED edits, ViewOK'
    PROVE  ConsoleInv'
  <1> DEFINE r == task[t]
  <1>1. r \in TaskRecords /\ TaskOK(r) /\ EditKept(r)
    BY DEF ConsoleInv
  <1>2. PICK k : k = [r EXCEPT !.answer = a] /\ Replaces(t, k)
    BY DEF Answer, Replaces
  <1>3. r.pc = "detail" => a.edits = edits[r.project]
    OBVIOUS
  <1>4. r.pc \in {"list", "detail"}
    OBVIOUS
  <1>5. /\ k \in TaskRecords
        /\ k.op = r.op /\ k.pc = r.pc /\ k.token = r.token /\ k.project = r.project
        /\ k.edits = r.edits /\ k.answer = a
    <2> HIDE DEF r
    <2> QED
      BY <1>1, <1>2 DEF TaskRecords, AnswerRecords, Counts
  <1> HIDE DEF r
  <1>6. TaskOK(k)
    BY <1>1, <1>4, <1>5 DEF TaskOK
  <1>7. EditKept(k)'
    BY <1>1, <1>3, <1>5 DEF EditKept
  <1> QED
    BY <1>2, <1>5, <1>6, <1>7, EditsStay, TaskReplaced

LEMMA AnswerCreateStep ==
    ASSUME ConsoleInv, NEW t \in Tasks, AnswerCreate(t), ViewOK'
    PROVE  ConsoleInv'
  <1>1. PICK p \in Projects :
            /\ edits[p] = 0 /\ edits' = [edits EXCEPT ![p] = 1]
            /\ task' = [task EXCEPT ![t].project = p, ![t].answer = given]
    BY DEF AnswerCreate
  <1> DEFINE r == task[t]
  <1>2. r \in TaskRecords /\ TaskOK(r) /\ EditKept(r) /\ r.pc = "create"
    BY DEF ConsoleInv, AnswerCreate, Answers
  <1>3. PICK k : k = [r EXCEPT !.project = p, !.answer = given] /\ Replaces(t, k)
    BY <1>1 DEF Replaces, ConsoleInv
  <1>4. EditsGrow
    BY <1>1, BoundsAssumption DEF EditsGrow, ConsoleInv, Counts
  <1>5. given \in AnswerRecords
    BY GivenRecord
  <1> HIDE DEF r
  <1>6. k \in TaskRecords /\ k.op = r.op /\ k.pc = r.pc /\ k.token = r.token /\ k.project = p
    BY <1>2, <1>3, <1>5 DEF TaskRecords, AnswerRecords, Counts
  <1>7. TaskOK(k) /\ EditKept(k)'
    BY <1>2, <1>6 DEF TaskOK, EditKept, TaskRecords
  <1> QED
    BY <1>3, <1>4, <1>6, <1>7, TaskReplaced

LEMMA AnswerEditStep ==
    ASSUME ConsoleInv, NEW t \in Tasks, AnswerEdit(t), ViewOK'
    PROVE  ConsoleInv'
  <1> DEFINE r == task[t]
             n == edits[r.project] + 1
  <1>1. /\ r \in TaskRecords /\ TaskOK(r) /\ EditKept(r) /\ r.pc = "edit"
    BY DEF ConsoleInv, AnswerEdit, Answers
  <1>2. r.op = "edit" /\ r.project \in Projects
    BY <1>1 DEF TaskOK, TaskRecords
  <1>3. PICK k : k = [r EXCEPT !.edits = n, !.answer = given] /\ Replaces(t, k)
    BY DEF AnswerEdit, Replaces, ConsoleInv
  <1>4. edits' = [edits EXCEPT ![r.project] = n] /\ n \in Counts
    BY <1>2, BoundsAssumption DEF AnswerEdit, ConsoleInv, Counts
  <1>5. given \in AnswerRecords
    BY GivenRecord
  <1> HIDE DEF r
  <1>6. EditsGrow /\ edits'[r.project] = n
    BY <1>2, <1>4, BoundsAssumption DEF EditsGrow, ConsoleInv, Counts
  <1> HIDE DEF n
  <1>7. /\ k \in TaskRecords /\ k.op = r.op /\ k.pc = r.pc /\ k.token = r.token
        /\ k.project = r.project /\ k.edits = n
    BY <1>1, <1>3, <1>4, <1>5 DEF TaskRecords, AnswerRecords, Counts
  <1>8. TaskOK(k)
    BY <1>1, <1>2, <1>7 DEF TaskOK
  <1>9. EditKept(k)'
    BY <1>1, <1>4, <1>6, <1>7, BoundsAssumption DEF EditKept, Counts
  <1> QED
    BY <1>3, <1>6, <1>7, <1>8, <1>9, TaskReplaced

LEMMA ServerStep ==
    ASSUME ConsoleInv, NEW t \in Tasks, Server(t)
    PROVE  ConsoleInv'
  <1>1. ViewOK'
    BY ViewStays DEF Server
  <1>2. CASE AnswerList(t)
    <2>1. PICK ps \in SUBSET {p \in Projects : edits[p] > 0} :
              Answer(t, [given EXCEPT !.projects = ps])
      BY <1>2 DEF AnswerList
    <2>2. 0 \in Counts
      BY BoundsAssumption DEF Counts
    <2> QED
      BY <1>1, <1>2, <2>1, <2>2, AnswerRecord, Answered DEF AnswerList, Answers
  <1>3. CASE AnswerDetail(t)
    <2>1. task[t].project \in Projects
      BY <1>3 DEF AnswerDetail, Answers, ConsoleInv, TaskOK, TaskRecords
    <2>2. edits[task[t].project] \in Counts
      BY <2>1 DEF ConsoleInv
    <2> QED
      BY <1>1, <1>3, <2>2, AnswerRecord, Answered DEF AnswerDetail, Answers
  <1> QED
    BY <1>1, <1>2, <1>3, AnswerCreateStep, AnswerEditStep DEF Server

--------------------------------------------------------------------------------
(* The continuations.                                                      *)

\* Signed in or after a change, a task awaits the list of projects.
LEMMA AwaitsList ==
    ASSUME ConsoleInv, NEW t \in Tasks,
           \/ task[t].pc = "me"
           \/ task[t].pc \in {"create", "edit"} /\ task[t].answer.given,
           Await(t, "list"), UNCHANGED edits, ViewOK'
    PROVE  ConsoleInv'
  <1> DEFINE r == task[t]
  <1>1. r \in TaskRecords /\ TaskOK(r) /\ EditKept(r)
    BY DEF ConsoleInv
  <1>2. PICK k : k = [r EXCEPT !.pc = "list", !.answer = NoAnswer] /\ Replaces(t, k)
    BY DEF Await, Replaces, ConsoleInv
  <1>3. \/ r.pc = "me"
        \/ r.pc \in {"create", "edit"} /\ r.answer.given
    OBVIOUS
  <1> HIDE DEF r
  <1>4. /\ k \in TaskRecords
        /\ k.op = r.op /\ k.pc = "list" /\ k.token = r.token /\ k.project = r.project
        /\ k.edits = r.edits
    BY <1>1, <1>2, <1>3, NoTaskRecord DEF TaskRecords
  <1>5. TaskOK(k)
    BY <1>1, <1>3, <1>4 DEF TaskOK
  <1>6. EditKept(k)'
    BY <1>1, <1>4 DEF EditKept
  <1> QED
    BY <1>2, <1>4, <1>5, <1>6, EditsStay, TaskReplaced

LEMMA SaveTokenStep ==
    ASSUME ConsoleInv, NEW t \in Tasks, SaveToken(t), UNCHANGED edits
    PROVE  ConsoleInv'
  <1>1. task[t].token \in Users /\ selectedProjectId \in Projects \cup {NoProject}
    BY DEF SaveToken, ConsoleInv, TaskOK, TaskRecords, ViewOK, NoDetail
  <1>2. PICK k : k = Session(task[t].token, selectedProjectId) /\ Replaces(t, k)
    BY DEF SaveToken, Replaces
  <1>3. /\ k \in TaskRecords
        /\ k.op = "session" /\ k.pc = "me" /\ k.token = task[t].token
    BY <1>1, <1>2, NoTaskRecord DEF Session, TaskRecords
  <1>4. TaskOK(k) /\ EditKept(k)'
    BY <1>1, <1>3 DEF TaskOK, EditKept
  <1>5. ViewOK'
    BY <1>1 DEF SaveToken, ConsoleInv, ViewOK
  <1> QED
    BY <1>2, <1>3, <1>4, <1>5, EditsStay, TaskReplaced

LEMMA SetProjectsStep ==
    ASSUME ConsoleInv, NEW t \in Tasks, SetProjects(t), UNCHANGED edits
    PROVE  ConsoleInv'
  <1> DEFINE r == task[t]
  <1>1. r \in TaskRecords /\ TaskOK(r) /\ EditKept(r)
    BY DEF ConsoleInv
  <1>2. ViewOK'
    <2>1. projects' \subseteq Projects
      BY <1>1 DEF SetProjects, TaskRecords
    <2>2. \/ UNCHANGED <<selectedProjectId, detail>>
          \/ selectedProjectId' = NoProject /\ detail' = NoDetail
      BY DEF SetProjects
    <2> QED
      BY <2>1, <2>2 DEF SetProjects, ConsoleInv, ViewOK, NoDetail
  <1>3. CASE r.op = "session"
    BY <1>2, <1>3, EditsStay, Ends DEF SetProjects
  <1>4. CASE r.op # "session"
    <2>1. PICK k : /\ k = [r EXCEPT !.pc = "detail", !.selected = NoProject,
                                    !.answer = NoAnswer]
                   /\ Replaces(t, k)
      BY <1>4 DEF SetProjects, Replaces, ConsoleInv
    <2>2. r.pc = "list" /\ r.op # "session"
      BY <1>4 DEF SetProjects, Arrived
    <2> HIDE DEF r
    <2>3. /\ k \in TaskRecords
          /\ k.op = r.op /\ k.pc = "detail" /\ k.project = r.project
          /\ k.edits = r.edits /\ k.answer = NoAnswer
      BY <1>1, <2>1, NoTaskRecord DEF TaskRecords
    <2>4. TaskOK(k)
      BY <1>1, <2>2, <2>3 DEF TaskOK, TaskRecords
    <2>5. EditKept(k)'
      BY <1>1, <2>3, NoTaskRecord DEF EditKept
    <2> QED
      BY <1>2, <2>1, <2>3, <2>4, <2>5, EditsStay, TaskReplaced
  <1> QED
    BY <1>3, <1>4

LEMMA SetDetailStep ==
    ASSUME ConsoleInv, NEW t \in Tasks, SetDetail(t), UNCHANGED edits
    PROVE  ConsoleInv'
  <1>1. task[t] \in TaskRecords /\ task[t].project \in Projects
    BY DEF SetDetail, Arrived, ConsoleInv, TaskOK, TaskRecords
  <1>2. ViewOK'
    BY <1>1 DEF SetDetail, ConsoleInv, ViewOK, TaskRecords, Counts
  <1> QED
    BY <1>2, EditsStay, Ends DEF SetDetail

LEMMA ContinueStep ==
    ASSUME ConsoleInv, NEW t \in Tasks, Continue(t)
    PROVE  ConsoleInv'
  <1>1. UNCHANGED edits /\ EditsGrow
    BY EditsStay DEF Continue
  <1>2. CASE SetUser(t)
    <2>1. task[t].token \in Users
      BY <1>2 DEF SetUser, ConsoleInv, TaskOK, TaskRecords
    <2>2. ViewOK'
      BY <1>2, <2>1 DEF SetUser, ConsoleInv, ViewOK
    <2> QED
      BY <1>1, <1>2, <2>2, AwaitsList DEF SetUser
  <1>3. CASE Created(t) \/ Edited(t)
    BY <1>1, <1>3, ViewStays, AwaitsList DEF Created, Edited, Arrived
  <1>4. CASE RefreshLost(t)
    BY <1>1, <1>4, ViewStays, Ends DEF RefreshLost
  <1>5. ASSUME NEW e \in Errors,
               SessionFailed(t, e) \/ DetailFailed(t, e) \/ FormFailed(t, e)
        PROVE  ConsoleInv'
    BY <1>1, <1>5, SessionCleared, ErrorHandled, Ends
    DEF SessionFailed, DetailFailed, FormFailed
  <1> QED
    BY <1>1, <1>2, <1>3, <1>4, <1>5, SaveTokenStep, SetProjectsStep, SetDetailStep
    DEF Continue

--------------------------------------------------------------------------------
(* The theorems.                                                           *)

LEMMA Initially == Init => ConsoleInv
  <1> SUFFICES ASSUME Init PROVE ConsoleInv
    OBVIOUS
  <1>1. edits \in [Projects -> Counts]
    BY BoundsAssumption DEF Init, Counts
  <1>2. ViewOK
    BY DEF Init, ViewOK, NoDetail
  <1>3. ASSUME NEW u \in Users
        PROVE  /\ Session(u, NoProject) \in TaskRecords
               /\ TaskOK(Session(u, NoProject)) /\ EditKept(Session(u, NoProject))
    <2> DEFINE k == Session(u, NoProject)
    <2>1. /\ k \in TaskRecords /\ k.op = "session" /\ k.pc = "me" /\ k.token = u
      BY NoTaskRecord DEF Session, TaskRecords
    <2> HIDE DEF k
    <2>2. TaskOK(k) /\ EditKept(k)
      BY <2>1 DEF TaskOK, EditKept
    <2> QED
      BY <2>1, <2>2 DEF k
  <1>4. NoTask \in TaskRecords /\ TaskOK(NoTask) /\ EditKept(NoTask)
    BY NoTaskRecord DEF EditKept
  <1>5. /\ task \in [Tasks -> TaskRecords]
        /\ \A t \in Tasks : TaskOK(task[t]) /\ EditKept(task[t])
    <2>1. CASE task = [t \in Tasks |-> NoTask]
      BY <1>4, <2>1
    <2>2. ASSUME token \in Users, NEW t \in Tasks,
                 task = [s \in Tasks |->
                            IF s = t THEN Session(token, NoProject) ELSE NoTask]
          PROVE  /\ task \in [Tasks -> TaskRecords]
                 /\ \A s \in Tasks : TaskOK(task[s]) /\ EditKept(task[s])
      BY <1>3, <1>4, <2>2
    <2> QED
      BY <2>1, <2>2 DEF Init
  <1> QED
    BY <1>1, <1>2, <1>5 DEF ConsoleInv

LEMMA Inductive == ConsoleInv /\ [Next]_vars => ConsoleInv'
  <1> SUFFICES ASSUME ConsoleInv, [Next]_vars PROVE ConsoleInv'
    OBVIOUS
  <1>1. CASE UNCHANGED vars
    BY <1>1 DEF vars, view, ConsoleInv, ViewOK, TaskOK, EditKept
  <1> QED
    BY <1>1, UserStep, ServerStep, ContinueStep DEF Next

LEMMA Invariance == Spec => []ConsoleInv
  BY Initially, Inductive, PTL DEF Spec

\* However the answers of the functions that are under way are ordered, lost or
\* refused, the details that are shown are those of the selected project.
THEOREM TypeCorrect == Spec => []TypeOK
  BY Invariance, InvImpliesTypeOK, PTL

\* Of the steps of a task whose details have arrived, only the one that shows them
\* ends it.
LEMMA OnlyShownEnds ==
    ASSUME ConsoleInv, [Next]_vars, NEW t \in Tasks, task[t].op = "edit",
           Arrived(t, "detail"), task'[t] = NoTask
    PROVE  SetDetail(t)
  <1>1. task[t] # NoTask /\ task[t].pc = "detail" /\ task[t].answer.given
    BY NoTaskRecord DEF Arrived
  <1>2. ~UNCHANGED task
    BY <1>1
  <1>3. ~User
    <2>1. \A s \in Tasks : \A k : Start(s, k) => task'[t] = task[t]
      BY <1>1 DEF Start, ConsoleInv
    <2> QED
      BY <1>1, <2>1 DEF User, Logout, Login, Select, CreateProject, Edit, Change
  <1>4. ASSUME NEW s \in Tasks \ {t}, Server(s) \/ Continue(s)
        PROVE  task'[t] = task[t]
    BY <1>4
    DEF Server, AnswerList, AnswerDetail, AnswerCreate, AnswerEdit, Answer, Continue,
        SaveToken, SetUser, Created, Edited, SetProjects, SetDetail, RefreshLost,
        SessionFailed, DetailFailed, FormFailed, End, Await, ConsoleInv
  <1>5. ~Server(t)
    BY <1>1 DEF Server, AnswerList, AnswerDetail, AnswerCreate, AnswerEdit, Answers
  <1>6. Continue(t) => SetDetail(t)
    BY <1>1 DEF Continue, SaveToken, SetUser, Created, Edited, SetProjects, RefreshLost,
                SessionFailed, DetailFailed, FormFailed, Arrived, MayFail
  <1> QED
    BY <1>1, <1>2, <1>3, <1>4, <1>5, <1>6 DEF Next, vars

\* The refresh that follows an edit shows it, whatever else is edited, selected or
\* refreshed meanwhile.
THEOREM RefreshShowsEdit == Spec => OwnEditsShown
  <1> DEFINE Shown ==
        \A t \in Tasks :
            /\ task[t].op = "edit" /\ Arrived(t, "detail")
            /\ task'[t] = NoTask
            => detail'.project = task[t].project /\ detail'.edits >= task[t].edits
  <1>1. ConsoleInv /\ [Next]_vars => Shown
    <2> SUFFICES ASSUME ConsoleInv, [Next]_vars, NEW t \in Tasks, task[t].op = "edit",
                        Arrived(t, "detail"), task'[t] = NoTask
                 PROVE  detail'.project = task[t].project /\ detail'.edits >= task[t].edits
      OBVIOUS
    <2>1. SetDetail(t)
      BY OnlyShownEnds
    <2>2. /\ detail'.project = task[t].project
          /\ detail'.edits = task[t].answer.edits
      BY <2>1 DEF SetDetail
    <2>3. task[t].edits <= task[t].answer.edits
      BY DEF ConsoleInv, EditKept, Arrived
    <2>4. task[t].edits \in Nat /\ task[t].answer.edits \in Nat
      BY BoundsAssumption DEF ConsoleInv, TaskRecords
    <2> QED
      BY <2>2, <2>3, <2>4
  <1> QED
    BY <1>1, Invariance, PTL DEF Spec, OwnEditsShown
================================================================================
