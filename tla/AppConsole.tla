------------------------------- MODULE AppConsole -------------------------------
(***************************************************************************)
(* The demo console (frontend/src/App.tsx) against the API.                *)
(*                                                                         *)
(* Each click starts an asynchronous function, a task here, that awaits    *)
(* one answer after the other and then sets the component's state.  The    *)
(* answers of different tasks arrive in any order.  A task goes on with    *)
(* the token and the selection of the render it was started from.          *)
(*                                                                         *)
(* The three requests of loadProjectDetail are one request here: only the  *)
(* documents change.  The busy flags of the forms are left out, so a form  *)
(* may be sent again while it is under way.  Which projects a user may see *)
(* changes at any time, by what others do.  Registration, notices and      *)
(* downloads are left out: they change nothing that is modelled here.      *)
(***************************************************************************)
EXTENDS Naturals

CONSTANTS
    Users, Projects,
    Tasks,      \* asynchronous functions that may be under way at once
    MaxEdits,   \* bound: edits of a project that are ever accepted
    NoToken, NoUser, NoProject

ASSUME BoundsAssumption ==
    /\ MaxEdits \in Nat
    /\ NoUser \notin Users /\ NoToken \notin Users /\ NoProject \notin Projects

VARIABLES
    \* The API.
    edits,              \* how often each project has been edited; 0 if not created
    \* The console.
    token,              \* the user it was issued to; also in the local storage
    currentUser,
    projects,           \* the ids that are listed
    selectedProjectId,
    detail,             \* selectedProject, members and documents
    loading,
    task                \* what each asynchronous function awaits

view == <<token, currentUser, projects, selectedProjectId, detail, loading>>
vars == <<edits, view, task>>

NoDetail == [project |-> NoProject, edits |-> 0]

NoAnswer == [given |-> FALSE, projects |-> {}, edits |-> 0]

NoTask ==
    [op |-> "none", pc |-> "idle", token |-> NoToken, selected |-> NoProject,
     project |-> NoProject, edits |-> 0, answer |-> NoAnswer]

Session(k, selected) ==
    [NoTask EXCEPT !.op = "session", !.pc = "me", !.token = k, !.selected = selected]

\* A fresh page: signed out, or with a token that an earlier visit has stored.
Init ==
    /\ edits \in [Projects -> {0, 1}]
    /\ currentUser = NoUser
    /\ projects = {}
    /\ selectedProjectId = NoProject
    /\ detail = NoDetail
    /\ \/ /\ token = NoToken
          /\ loading = FALSE
          /\ task = [t \in Tasks |-> NoTask]
       \/ /\ token \in Users
          /\ loading = TRUE
          /\ \E t \in Tasks :
                task = [s \in Tasks |->
                            IF s = t THEN Session(token, NoProject) ELSE NoTask]

--------------------------------------------------------------------------------
(* The user.                                                               *)

SignedIn == token # NoToken /\ currentUser # NoUser

Start(t, new) ==
    /\ task[t] = NoTask
    /\ task' = [task EXCEPT ![t] = new]

Login(t, u) ==
    /\ ~SignedIn
    /\ ~loading
    /\ Start(t, [NoTask EXCEPT !.op = "login", !.pc = "login", !.token = u])
    /\ UNCHANGED <<edits, view>>

clearSession ==
    /\ token' = NoToken
    /\ currentUser' = NoUser
    /\ projects' = {}
    /\ selectedProjectId' = NoProject
    /\ detail' = NoDetail

Logout ==
    /\ SignedIn
    /\ clearSession
    /\ UNCHANGED <<edits, loading, task>>

Detail(p) ==
    [NoTask EXCEPT !.op = "select", !.pc = "detail", !.token = token, !.project = p]

\* Mutant: the project is marked as selected before its details are there.
SelectAtOnce(t, p) ==
    /\ SignedIn
    /\ p \in projects
    /\ Start(t, Detail(p))
    /\ loading' = TRUE
    /\ selectedProjectId' = p
    /\ UNCHANGED <<edits, token, currentUser, projects, detail>>

\* loadProjectDetail, up to its await.
Select(t, p) ==
    /\ SignedIn
    /\ p \in projects
    /\ Start(t, Detail(p))
    /\ loading' = TRUE
    /\ UNCHANGED <<edits, token, currentUser, projects, selectedProjectId, detail>>

\* A click that changes the server and then refreshes what is shown.
Change(t, op, pc, p) ==
    /\ SignedIn
    /\ Start(t, [NoTask EXCEPT !.op = op, !.pc = pc, !.token = token,
                               !.selected = selectedProjectId, !.project = p])
    /\ UNCHANGED <<edits, view>>

CreateProject(t) == Change(t, "create", "create", NoProject)

\* Mutant: the refresh is sent together with the edit, and answered before or after.
EditWithoutAwait(t) ==
    /\ detail # NoDetail
    /\ SignedIn
    /\ edits[detail.project] <= MaxEdits
    /\ edits' = [edits EXCEPT ![detail.project] = @ + 1]
    /\ \E seen \in {edits[detail.project], edits'[detail.project]} :
        Start(t, [NoTask EXCEPT
                    !.op = "edit", !.pc = "detail", !.token = token,
                    !.project = detail.project, !.edits = edits'[detail.project],
                    !.answer = [NoAnswer EXCEPT !.given = TRUE, !.edits = seen]])
    /\ UNCHANGED view

\* An upload, rename, removal or grant in the project that is shown.
Edit(t) ==
    /\ detail # NoDetail
    /\ Change(t, "edit", "edit", detail.project)

User ==
    \/ Logout
    \/ \E t \in Tasks :
        \/ \E u \in Users : Login(t, u)
        \/ \E p \in Projects : Select(t, p)
        \/ CreateProject(t)
        \/ Edit(t)

--------------------------------------------------------------------------------
(* The API, as far as its answer depends on when it is given.              *)

Answers(t, pc) ==
    /\ task[t].pc = pc
    /\ ~task[t].answer.given

Answer(t, answer) == task' = [task EXCEPT ![t].answer = answer]

given == [NoAnswer EXCEPT !.given = TRUE]

AnswerList(t) ==
    /\ Answers(t, "list")
    /\ \E visible \in SUBSET {p \in Projects : edits[p] > 0} :
        Answer(t, [given EXCEPT !.projects = visible])
    /\ UNCHANGED edits

AnswerDetail(t) ==
    /\ Answers(t, "detail")
    /\ Answer(t, [given EXCEPT !.edits = edits[task[t].project]])
    /\ UNCHANGED edits

AnswerCreate(t) ==
    /\ Answers(t, "create")
    /\ \E p \in Projects :
        /\ edits[p] = 0
        /\ edits' = [edits EXCEPT ![p] = 1]
        /\ task' = [task EXCEPT ![t].project = p, ![t].answer = given]

AnswerEdit(t) ==
    /\ Answers(t, "edit")
    /\ LET p == task[t].project
       IN  /\ edits[p] <= MaxEdits
           /\ edits' = [edits EXCEPT ![p] = @ + 1]
           /\ task' = [task EXCEPT ![t].edits = edits[p] + 1, ![t].answer = given]

Server(t) ==
    /\ AnswerList(t) \/ AnswerDetail(t) \/ AnswerCreate(t) \/ AnswerEdit(t)
    /\ UNCHANGED view

--------------------------------------------------------------------------------
(* The continuations.                                                      *)

Arrived(t, pc) == task[t].pc = pc /\ task[t].answer.given

End(t) == task' = [task EXCEPT ![t] = NoTask]

Await(t, pc) == task' = [task EXCEPT ![t].pc = pc, ![t].answer = NoAnswer]

\* saveToken, and the effect of the new token: loadSession up to its await.
SaveToken(t) ==
    /\ task[t].pc = "login"
    /\ token' = task[t].token
    /\ task' = [task EXCEPT ![t] = Session(token', selectedProjectId)]
    /\ loading' = TRUE
    /\ UNCHANGED <<currentUser, projects, selectedProjectId, detail>>

SetUser(t) ==
    /\ task[t].pc = "me"
    /\ currentUser' = task[t].token
    /\ Await(t, "list")
    /\ UNCHANGED <<token, projects, selectedProjectId, detail, loading>>

Created(t) ==
    /\ Arrived(t, "create")
    /\ Await(t, "list")
    /\ UNCHANGED view

Edited(t) ==
    /\ Arrived(t, "edit")
    /\ Await(t, "list")
    /\ UNCHANGED view

\* loadProjects, after which a refresh goes on with loadProjectDetail.  The
\* selection it looks at is the one the task was started with.
SetProjects(t) ==
    /\ Arrived(t, "list")
    /\ projects' = task[t].answer.projects
    /\ IF task[t].selected \in projects' \cup {NoProject}
       THEN UNCHANGED <<selectedProjectId, detail>>
       ELSE selectedProjectId' = NoProject /\ detail' = NoDetail
    /\ IF task[t].op = "session"
       THEN End(t) /\ loading' = FALSE
       ELSE /\ task' = [task EXCEPT ![t].pc = "detail", ![t].selected = NoProject,
                                    ![t].answer = NoAnswer]
            /\ loading' = TRUE
    /\ UNCHANGED <<token, currentUser>>

SetDetail(t) ==
    /\ Arrived(t, "detail")
    /\ selectedProjectId' = task[t].project
    /\ detail' = [project |-> task[t].project, edits |-> task[t].answer.edits]
    /\ loading' = FALSE
    /\ End(t)
    /\ UNCHANGED <<token, currentUser, projects>>

\* An await throws: the request was refused, or it or its answer was lost.  The
\* loss of an answer matters to the requests that change something.
Errors == {"error", "unauthorized"}

MayFail(t) == task[t].answer.given => task[t].pc \in {"create", "edit"}

\* Only a 401 ends the session.
handleError(e) ==
    IF e = "unauthorized" THEN clearSession
    ELSE UNCHANGED <<token, currentUser, projects, selectedProjectId, detail>>

\* Mutant: an error that is not a 401 keeps the token without a user.
SessionFailedKeeps(t, e) ==
    /\ MayFail(t)
    /\ task[t].op = "session"
    /\ handleError(e)
    /\ loading' = FALSE
    /\ End(t)

\* loadSession gives the session up, whatever the error.
SessionFailed(t, e) ==
    /\ MayFail(t)
    /\ task[t].op = "session"
    /\ clearSession
    /\ loading' = FALSE
    /\ End(t)

\* Mutant: the flag is reset only when the details are shown.
DetailFailedLoading(t, e) ==
    /\ MayFail(t)
    /\ task[t].pc = "detail"
    /\ handleError(e)
    /\ End(t)
    /\ UNCHANGED loading

DetailFailed(t, e) ==
    /\ MayFail(t)
    /\ task[t].pc = "detail"
    /\ handleError(e)
    /\ loading' = FALSE
    /\ End(t)

\* ProjectCreator does not await onCreated: nobody sees that its refresh failed.
RefreshLost(t) ==
    /\ MayFail(t)
    /\ task[t].op = "create" /\ task[t].pc = "list"
    /\ End(t)
    /\ UNCHANGED view

FormFailed(t, e) ==
    /\ MayFail(t)
    /\ \/ task[t].pc \in {"login", "create", "edit"}
       \/ task[t].op = "edit" /\ task[t].pc = "list"
    /\ handleError(e)
    /\ End(t)
    /\ UNCHANGED loading

Continue(t) ==
    /\ \/ SaveToken(t) \/ SetUser(t) \/ Created(t) \/ Edited(t)
       \/ SetProjects(t) \/ SetDetail(t) \/ RefreshLost(t)
       \/ \E e \in Errors : SessionFailed(t, e) \/ DetailFailed(t, e) \/ FormFailed(t, e)
    /\ UNCHANGED edits

Next ==
    \/ User
    \/ \E t \in Tasks : Server(t) \/ Continue(t)

\* Every request is answered or fails, and the browser runs what awaits it.
Spec ==
    /\ Init /\ [][Next]_vars
    /\ \A t \in Tasks : WF_vars(Continue(t))

--------------------------------------------------------------------------------
(* Properties.                                                             *)

TaskRecords ==
    [op : {"none", "login", "session", "select", "create", "edit"},
     pc : {"idle", "login", "me", "list", "detail", "create", "edit"},
     token : Users \cup {NoToken},
     selected : Projects \cup {NoProject}, project : Projects \cup {NoProject},
     edits : 0..(MaxEdits + 1),
     answer : [given : BOOLEAN, projects : SUBSET Projects,
               edits : 0..(MaxEdits + 1)]]

\* The state of the component has the types that App.tsx declares, and what is
\* selected is what is shown: the details of a project are not shown under
\* another one's selection, however the answers of two clicks are ordered.
TypeOK ==
    /\ edits \in [Projects -> 0..(MaxEdits + 1)]
    /\ token \in Users \cup {NoToken}
    /\ currentUser \in Users \cup {NoUser}
    /\ projects \subseteq Projects
    /\ task \in [Tasks -> TaskRecords]
    /\ selectedProjectId = detail.project

\* The console does not stay in its loading state.
LoadingEnds == loading ~> ~loading

\* A token leads to a signed-in user or is forgotten.
SessionSettles ==
    token # NoToken /\ currentUser = NoUser ~> currentUser # NoUser \/ token = NoToken

\* When the refresh that follows an edit is shown, the edit is in it.  (An older
\* load that is answered later may still overwrite it.)
OwnEditsShown ==
    [][\A t \in Tasks :
            /\ task[t].op = "edit" /\ Arrived(t, "detail")
            /\ task'[t] = NoTask
            => detail'.project = task[t].project /\ detail'.edits >= task[t].edits]_vars
================================================================================
