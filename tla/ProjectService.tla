----------------------------- MODULE ProjectService -----------------------------
(***************************************************************************)
(* The operations of ProjectVault on ONE project and its members           *)
(* (app/services/project_service.py, app/repositories/projects.py), and,   *)
(* as "upload", every document operation that a member may start           *)
(* (app/services/document_service.py).                                     *)
(*                                                                         *)
(* A request is a session that queries the project, the membership of its  *)
(* user and the membership of its target one after the other, flushes a    *)
(* statement and commits; other sessions may commit in between.            *)
(* PostgreSQL runs at READ COMMITTED.                                      *)
(***************************************************************************)
CONSTANTS
    Processes,   \* processes that serve requests
    Users,       \* the registered users
    MemberIds,   \* ids of project_members rows, never used twice
    Texts,       \* names and descriptions
    Operations,  \* the operations of the workload
    Faults,      \* may a request be cut off
    NoUser, NoMember, NoText, Unset

Fields == {"name", "description"}

AllOperations == {"create", "update", "delete", "grant", "remove", "upload"}

\* What get_member must answer for the request to go on.
Required(op) ==
    IF op \in {"update", "upload"} THEN {"owner", "participant"} ELSE {"owner"}

ASSUME NamesAssumption ==
    /\ NoUser \notin Users
    /\ NoMember \notin MemberIds
    /\ NoText \notin Texts
    /\ Unset \notin Texts \cup {NoText}
    /\ Operations \subseteq AllOperations
    /\ Faults \in BOOLEAN

VARIABLES
    project,  \* the committed projects row
    members,  \* the committed project_members rows, by id
    session   \* what each process is doing

vars == <<project, members, session>>

NoRow == [user |-> NoUser, role |-> "none", status |-> "unused"]

NoPayload == [f \in Fields |-> Unset]

NoSession ==
    [pc |-> "idle", op |-> "none", user |-> NoUser, target |-> NoUser,
     member |-> NoMember, payload |-> NoPayload]

Init ==
    /\ project = [status |-> "absent", owner |-> NoUser,
                  fields |-> [f \in Fields |-> NoText]]
    /\ members = [i \in MemberIds |-> NoRow]
    /\ session = [p \in Processes |-> NoSession]

--------------------------------------------------------------------------------
(* What queries see, and what transactions in flight hold.                 *)

Present(i) == members[i].status = "present"

HasRole(u, role) ==
    \E i \in MemberIds :
        Present(i) /\ members[i].user = u /\ members[i].role = role

Member(u) == \E i \in MemberIds : Present(i) /\ members[i].user = u

At(p, pc) == session[p].pc = pc

Idle(p) == At(p, "idle")

\* The id a sequence gives an INSERT.
FreshMember(i) ==
    /\ members[i] = NoRow
    /\ \A p \in Processes : session[p].member # i

Creating(p) == session[p].op = "create"

\* A flushed INSERT that no one sees yet.
Inserting(p) == At(p, "commit") /\ session[p].op \in {"create", "grant"}

\* A flushed DELETE, whose row is still there for the others.
Deleting(p) == At(p, "commit") /\ session[p].op = "remove"

\* The unique index makes an INSERT wait for a transaction in flight that has
\* inserted or deleted the same key.
KeyFree(p, u) ==
    \A q \in Processes \ {p} :
        /\ Inserting(q) => session[q].target # u
        /\ Deleting(q) /\ Present(session[q].member) =>
                members[session[q].member].user # u

MemberFree(p) ==
    \A q \in Processes \ {p} : Deleting(q) => session[q].member # session[p].member

ProjectFree(p) ==
    \A q \in Processes \ {p} :
        ~(At(q, "commit") /\ session[q].op \in {"update", "delete"})

--------------------------------------------------------------------------------
(* How a session moves.                                                    *)

Goto(p, pc) ==
    /\ session' = [session EXCEPT ![p].pc = pc]
    /\ UNCHANGED <<project, members>>

\* The request is answered with an error and its session closed.
Close(p) ==
    /\ session' = [session EXCEPT ![p] = NoSession]
    /\ UNCHANGED <<project, members>>

Open(p, s) ==
    /\ Idle(p)
    /\ s.op \in Operations
    /\ session' = [session EXCEPT ![p] = s]
    /\ UNCHANGED <<project, members>>

--------------------------------------------------------------------------------
(* Requests.                                                               *)

\* create: the project that is followed here gets its id from one request.
Create(p, u) ==
    /\ project.status = "absent"
    /\ \A q \in Processes : ~Creating(q)
    /\ \E name \in Texts, description \in Texts \cup {NoText} :
        Open(p, [NoSession EXCEPT
                   !.pc = "insert_project", !.op = "create",
                   !.user = u, !.target = u,
                   !.payload = [name |-> name, description |-> description]])

\* update: a payload sets some of the fields, to a text or to null.
Update(p, u) ==
    \E payload \in [Fields -> Texts \cup {NoText, Unset}] :
        /\ payload # NoPayload
        /\ Open(p, [NoSession EXCEPT !.pc = "load_project", !.op = "update",
                                     !.user = u, !.payload = payload])

Delete(p, u) ==
    Open(p, [NoSession EXCEPT !.pc = "load_project", !.op = "delete", !.user = u])

GrantParticipant(p, u, target) ==
    Open(p, [NoSession EXCEPT !.pc = "load_project", !.op = "grant",
                              !.user = u, !.target = target])

RemoveMember(p, u, target) ==
    Open(p, [NoSession EXCEPT !.pc = "load_project", !.op = "remove",
                              !.user = u, !.target = target])

Upload(p, u) ==
    Open(p, [NoSession EXCEPT !.pc = "load_project", !.op = "upload", !.user = u])

Request(p) ==
    \E u \in Users :
        \/ Create(p, u) \/ Update(p, u) \/ Delete(p, u) \/ Upload(p, u)
        \/ \E target \in Users :
                GrantParticipant(p, u, target) \/ RemoveMember(p, u, target)

--------------------------------------------------------------------------------
(* Queries.                                                                *)

\* Mutant: the payload is filled up with the loaded fields, and all are written.
ChangesWhole(p) ==
    [f \in Fields |-> IF session[p].payload[f] = Unset
                      THEN project.fields[f] ELSE session[p].payload[f]]

\* The columns an update will write: those set to another value than was loaded.
Changes(p) ==
    [f \in Fields |-> IF session[p].payload[f] = project.fields[f]
                      THEN Unset ELSE session[p].payload[f]]

\* get_active_by_id.
LoadProject(p) ==
    /\ At(p, "load_project")
    /\ project.status = "active"
    /\ session' = [session EXCEPT
                     ![p] = [@ EXCEPT !.pc = "load_member", !.payload = Changes(p)]]
    /\ UNCHANGED <<project, members>>

ProjectNotFound(p) ==
    /\ At(p, "load_project")
    /\ project.status # "active"
    /\ Close(p)

AfterMember(op) ==
    CASE op = "update" -> "write"
      [] op = "delete" -> "close"
      [] op = "upload" -> "save"
      [] OTHER -> "load_target"

\* Mutant: an invitation is open to every user.
LoadMemberAny(p) ==
    /\ At(p, "load_member")
    /\ Goto(p, AfterMember(session[p].op))

\* get_member of the user, and the check of its role.
LoadMember(p) ==
    /\ At(p, "load_member")
    /\ \E role \in Required(session[p].op) : HasRole(session[p].user, role)
    /\ Goto(p, AfterMember(session[p].op))

Forbidden(p) ==
    /\ At(p, "load_member")
    /\ ~ \E role \in Required(session[p].op) : HasRole(session[p].user, role)
    /\ Close(p)

\* get_member of the user who is invited.
LoadInvited(p) ==
    /\ At(p, "load_target")
    /\ session[p].op = "grant"
    /\ ~Member(session[p].target)
    /\ Goto(p, "insert_member")

MemberExists(p) ==
    /\ At(p, "load_target")
    /\ session[p].op = "grant"
    /\ Member(session[p].target)
    /\ Close(p)

\* Mutant: any member can be removed.
LoadRemovedAny(p) ==
    /\ At(p, "load_target")
    /\ session[p].op = "remove"
    /\ \E i \in MemberIds :
        /\ Present(i)
        /\ members[i].user = session[p].target
        /\ session' = [session EXCEPT ![p].member = i, ![p].pc = "delete_member"]
    /\ UNCHANGED <<project, members>>

\* get_member of the user who is removed: only participants can be.
LoadRemoved(p) ==
    /\ At(p, "load_target")
    /\ session[p].op = "remove"
    /\ \E i \in MemberIds :
        /\ Present(i)
        /\ members[i].user = session[p].target
        /\ members[i].role = "participant"
        /\ session' = [session EXCEPT ![p].member = i, ![p].pc = "delete_member"]
    /\ UNCHANGED <<project, members>>

MemberNotRemovable(p) ==
    /\ At(p, "load_target")
    /\ session[p].op = "remove"
    /\ ~HasRole(session[p].target, "participant")
    /\ Close(p)

--------------------------------------------------------------------------------
(* Statements.                                                             *)

\* Mutant: the project is committed before its owner is added.
InsertProjectAlone(p) ==
    /\ At(p, "insert_project")
    /\ Goto(p, "commit")

InsertProject(p) ==
    /\ At(p, "insert_project")
    /\ Goto(p, "insert_owner")

InsertRow(p) ==
    /\ \E i \in MemberIds :
        /\ FreshMember(i)
        /\ session' = [session EXCEPT ![p].member = i, ![p].pc = "commit"]
    /\ UNCHANGED <<project, members>>

InsertOwner(p) ==
    /\ At(p, "insert_owner")
    /\ InsertRow(p)

\* Mutant: the table has no unique constraint.
InsertMemberTwice(p) ==
    /\ At(p, "insert_member")
    /\ InsertRow(p)

InsertMember(p) ==
    /\ At(p, "insert_member")
    /\ KeyFree(p, session[p].target)
    /\ ~Member(session[p].target)
    /\ InsertRow(p)

\* UNIQUE (project_id, user_id): rolled back, and reported as a conflict.
InsertViolatesUnique(p) ==
    /\ At(p, "insert_member")
    /\ KeyFree(p, session[p].target)
    /\ Member(session[p].target)
    /\ Close(p)

\* DELETE by the id that was loaded; a row that is gone by now is no error.
DeleteMember(p) ==
    /\ At(p, "delete_member")
    /\ MemberFree(p)
    /\ Goto(p, "commit")

\* Mutant: the name may be null.
WriteAny(p) ==
    /\ At(p, "write")
    /\ ProjectFree(p)
    /\ Goto(p, "commit")

Write(p) ==
    /\ At(p, "write")
    /\ ProjectFree(p)
    /\ session[p].payload["name"] # NoText
    /\ Goto(p, "commit")

\* name is NOT NULL, which the payload's schema does not say.
WriteViolatesNotNull(p) ==
    /\ At(p, "write")
    /\ ProjectFree(p)
    /\ session[p].payload["name"] = NoText
    /\ Close(p)

\* soft_delete.
CloseProject(p) ==
    /\ At(p, "close")
    /\ ProjectFree(p)
    /\ Goto(p, "commit")

\* The file is stored and its row inserted.
SaveDocument(p) ==
    /\ At(p, "save")
    /\ Goto(p, "commit")

--------------------------------------------------------------------------------
(* The end of a transaction.                                               *)

Updated(fields, payload) ==
    [f \in Fields |-> IF payload[f] = Unset THEN fields[f] ELSE payload[f]]

CommittedProject(s) ==
    CASE s.op = "create" ->
            [status |-> "active", owner |-> s.user, fields |-> s.payload]
      [] s.op = "update" ->
            [project EXCEPT !.fields = Updated(@, s.payload)]
      [] s.op = "delete" -> [project EXCEPT !.status = "deleted"]
      [] OTHER -> project

InsertedRow(s) ==
    [user |-> s.target, status |-> "present",
     role |-> IF s.op = "create" THEN "owner" ELSE "participant"]

\* Mutant: the rows of the user are deleted, whatever their ids.
CommittedMemberByUser(s, i) ==
    IF s.op = "remove" /\ members[i].user = s.target
    THEN [members[i] EXCEPT !.status = "removed"]
    ELSE IF s.op \in {"create", "grant"} /\ i = s.member
    THEN InsertedRow(s)
    ELSE members[i]

CommittedMember(s, i) ==
    IF i # s.member THEN members[i]
    ELSE IF s.op = "remove" THEN [members[i] EXCEPT !.status = "removed"]
    ELSE InsertedRow(s)

Commit(p) ==
    /\ At(p, "commit")
    /\ project' = CommittedProject(session[p])
    /\ members' = [i \in MemberIds |-> CommittedMember(session[p], i)]
    /\ session' = [session EXCEPT ![p] = NoSession]

\* The process dies or loses its connection: what it flushed is rolled back.
Fail(p) == Faults /\ ~Idle(p) /\ Close(p)

--------------------------------------------------------------------------------

Query(p) ==
    \/ LoadProject(p) \/ ProjectNotFound(p) \/ LoadMember(p) \/ Forbidden(p)
    \/ LoadInvited(p) \/ MemberExists(p) \/ LoadRemoved(p) \/ MemberNotRemovable(p)

Statement(p) ==
    \/ InsertProject(p) \/ InsertOwner(p) \/ InsertMember(p)
    \/ InsertViolatesUnique(p) \/ DeleteMember(p) \/ Write(p)
    \/ WriteViolatesNotNull(p) \/ CloseProject(p) \/ SaveDocument(p)

Next ==
    \E p \in Processes :
        Request(p) \/ Query(p) \/ Statement(p) \/ Commit(p) \/ Fail(p)

Spec == Init /\ [][Next]_vars

--------------------------------------------------------------------------------
(* Properties.                                                             *)

ProgramCounters ==
    {"idle", "load_project", "load_member", "load_target", "insert_project",
     "insert_owner", "insert_member", "delete_member", "write", "close", "save",
     "commit"}

Rows ==
    [user : Users \cup {NoUser}, role : {"none", "participant", "owner"},
     status : {"unused", "present", "removed"}]

Sessions ==
    [pc : ProgramCounters, op : {"none"} \cup AllOperations,
     user : Users \cup {NoUser}, target : Users \cup {NoUser},
     member : MemberIds \cup {NoMember},
     payload : [Fields -> Texts \cup {NoText, Unset}]]

\* The rows satisfy the column types: no committed field is a payload's
\* "unset", and a project that exists has a name, although a payload may ask
\* for a null one.
TypeOK ==
    /\ project \in [status : {"absent", "active", "deleted"},
                    owner : Users \cup {NoUser},
                    fields : [Fields -> Texts \cup {NoText}]]
    /\ project.status # "absent" => project.fields["name"] # NoText
    /\ members \in [MemberIds -> Rows]
    /\ session \in [Processes -> Sessions]

\* A project has exactly one owner's membership, that of the user its row
\* names, from the moment others can see it.
OneOwner ==
    project.status # "absent" =>
        /\ HasRole(project.owner, "owner")
        /\ \A u \in Users : HasRole(u, "owner") => u = project.owner

\* No user is a member twice, although the check and the INSERT of an
\* invitation are apart.
UniqueMembership ==
    \A i, j \in MemberIds :
        Present(i) /\ Present(j) /\ members[i].user = members[j].user => i = j

Access ==
    INSTANCE ProjectAccess WITH
        status <- project.status,
        role <- [u \in Users |-> IF HasRole(u, "owner") THEN "owner"
                                 ELSE IF HasRole(u, "participant")
                                 THEN "participant" ELSE "none"]

\* The access to a project develops as the abstract specification allows: every
\* commit is one of its steps, or changes nobody's access.
ImplementsAccess == Access!Spec
================================================================================
