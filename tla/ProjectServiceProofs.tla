-------------------------- MODULE ProjectServiceProofs --------------------------
(***************************************************************************)
(* Theorems about ProjectService for any number of processes, users and    *)
(* rows, and about whole requests: what was true when they arrived or      *)
(* while they were served.                                                 *)
(***************************************************************************)
EXTENDS ProjectServiceHistory, TLAPS

(***************************************************************************)
(* The inductive invariant.                                                *)
(***************************************************************************)

\* What a session's place in its operation says about what it holds.  Nothing
\* but a creation goes on while the project is absent.
SessionControl(s) ==
    /\ s.op = "create" =>
        /\ project.status = "absent"
        /\ s.user \in Users /\ s.target = s.user
        /\ s.payload \in [Fields -> Texts \cup {NoText}]
        /\ s.payload["name"] # NoText
        /\ s.pc \in {"insert_project", "insert_owner", "commit"}
    /\ s.pc \in {"insert_project", "insert_owner"} => s.op = "create"
    /\ s.pc \notin {"idle", "load_project"} /\ s.op # "create" =>
            project.status # "absent"
    /\ s.pc = "idle" <=> s.op = "none"
    /\ s.op = "grant" => s.target \in Users
    /\ s.pc = "insert_member" => s.op = "grant"
    /\ s.pc = "delete_member" => s.op = "remove"
    /\ s.pc = "write" => s.op = "update"
    /\ s.pc = "save" => s.op = "upload"
    /\ s.pc = "close" => s.op = "delete"
    /\ s.op = "update" /\ s.pc = "commit" => s.payload["name"] # NoText
    /\ s.op \in {"none", "update", "delete", "upload"} => s.member = NoMember

\* A removal holds the id of a row that once was a participant's.
RemoveControl(s) ==
    s.op = "remove" /\ s.pc \in {"delete_member", "commit"} =>
        /\ s.member \in MemberIds
        /\ members[s.member] # NoRow
        /\ members[s.member].role = "participant"

\* The row an INSERT of p has flushed is new, and its key is unused.
InsertControl(p, s) ==
    s.pc = "commit" /\ s.op \in {"create", "grant"} =>
        /\ s.member \in MemberIds
        /\ members[s.member] = NoRow
        /\ ~Member(s.target)
        /\ \A q \in Processes \ {p} :
            /\ session[q].member # s.member
            /\ Inserting(q) => session[q].target # s.target

OneCreator ==
    \A p, q \in Processes : Creating(p) /\ Creating(q) => p = q

\* The committed rows: every present row has a user and one of the two roles.
MembersControl ==
    /\ project.status = "absent" => \A i \in MemberIds : ~Present(i)
    /\ project.status # "absent" => project.owner \in Users
    /\ \A i \in MemberIds :
        /\ Present(i) => members[i].user \in Users
        /\ Present(i) => members[i].role \in {"owner", "participant"}
        /\ members[i] # NoRow => members[i].status # "unused"

Inv ==
    /\ TypeOK
    /\ OneOwner
    /\ UniqueMembership
    /\ OneCreator
    /\ MembersControl
    /\ \A p \in Processes :
            /\ SessionControl(session[p])
            /\ InsertControl(p, session[p])
            /\ RemoveControl(session[p])

USE DEF Present, Member, HasRole, At, Idle, Creating, Inserting, Fields
USE NamesAssumption

--------------------------------------------------------------------------------

LEMMA InitInv == Init => Inv
  BY DEF Init, Inv, TypeOK, OneOwner, UniqueMembership, OneCreator,
     MembersControl, SessionControl, InsertControl, RemoveControl,
     NoRow, NoSession, NoPayload, Rows, Sessions, ProgramCounters

\* A step that changes only the session of p, to one that is well formed, keeps
\* the invariant; if it names a row for an INSERT, the row is new.
LEMMA SessionStep ==
    ASSUME Inv, NEW p \in Processes, NEW s \in Sessions,
           session' = [session EXCEPT ![p] = s],
           UNCHANGED <<project, members>>,
           SessionControl(s), InsertControl(p, s), RemoveControl(s),
           s.op = "create" => \A q \in Processes \ {p} : ~Creating(q),
           \A q \in Processes \ {p} :
                Inserting(q) => s.member # session[q].member
    PROVE  Inv'
  <1>1. \A q \in Processes : session'[q] = IF q = p THEN s ELSE session[q]
    BY DEF Inv, TypeOK
  <1>2. TypeOK' /\ OneOwner' /\ UniqueMembership' /\ MembersControl'
    BY DEF Inv, TypeOK, OneOwner, UniqueMembership, MembersControl
  <1>3. OneCreator'
    BY <1>1 DEF Inv, OneCreator
  <1>4. ASSUME NEW q \in Processes
        PROVE  (SessionControl(session[q]) /\ RemoveControl(session[q]))'
    BY <1>1 DEF Inv, SessionControl, RemoveControl
  <1>5. ASSUME NEW q \in Processes
        PROVE  InsertControl(q, session[q])'
    <2>1. CASE q = p
      BY <1>1, <2>1 DEF InsertControl
    <2>2. CASE q # p
      BY <1>1, <2>2 DEF Inv, InsertControl
    <2> QED BY <2>1, <2>2
  <1> QED BY <1>2, <1>3, <1>4, <1>5 DEF Inv

\* The step that ends a request without an effect.
LEMMA CloseStep ==
    ASSUME Inv, NEW p \in Processes, Close(p)
    PROVE  Inv'
  <1>1. NoSession \in Sessions
    BY DEF NoSession, NoPayload, Sessions, ProgramCounters
  <1>2. /\ SessionControl(NoSession) /\ RemoveControl(NoSession)
        /\ InsertControl(p, NoSession)
        /\ NoSession.op # "create"
    BY DEF SessionControl, InsertControl, RemoveControl, NoSession
  <1>3. \A q \in Processes \ {p} :
            Inserting(q) => NoSession.member # session[q].member
    BY DEF Inv, InsertControl, NoSession
  <1> QED
    BY <1>1, <1>2, <1>3, SessionStep DEF Close

\* The arrival of a request.
LEMMA OpenStep ==
    ASSUME Inv, NEW p \in Processes, NEW s \in Sessions, Open(p, s),
           s.member = NoMember,
           s.pc \in {"load_project", "insert_project"},
           s.pc = "insert_project" <=> s.op = "create",
           s.op # "none",
           s.op = "grant" => s.target \in Users,
           s.op = "create" =>
                /\ project.status = "absent"
                /\ \A q \in Processes : ~Creating(q)
                /\ s.user \in Users /\ s.target = s.user
                /\ s.payload \in [Fields -> Texts \cup {NoText}]
                /\ s.payload["name"] # NoText
    PROVE  Inv'
  <1>1. SessionControl(s) /\ RemoveControl(s) /\ InsertControl(p, s)
    BY DEF SessionControl, InsertControl, RemoveControl
  <1>2. \A q \in Processes \ {p} : Inserting(q) => s.member # session[q].member
    BY DEF Inv, InsertControl
  <1> QED
    BY <1>1, <1>2, SessionStep DEF Open

LEMMA RequestStep ==
    ASSUME Inv, NEW p \in Processes, Request(p)
    PROVE  Inv'
  <1>1. ASSUME NEW u \in Users, Create(p, u)
        PROVE  Inv'
    <2>1. PICK name \in Texts, description \in Texts \cup {NoText} :
            Open(p, [NoSession EXCEPT
                       !.pc = "insert_project", !.op = "create",
                       !.user = u, !.target = u,
                       !.payload = [name |-> name, description |-> description]])
      BY <1>1 DEF Create
    <2> DEFINE payload == [name |-> name, description |-> description]
               s == [NoSession EXCEPT
                       !.pc = "insert_project", !.op = "create",
                       !.user = u, !.target = u, !.payload = payload]
    <2>2. payload \in [Fields -> Texts \cup {NoText}] /\ payload["name"] # NoText
      OBVIOUS
    <2>3. s \in Sessions
      BY <2>2 DEF NoSession, Sessions, ProgramCounters, AllOperations
    <2>4. /\ s.member = NoMember /\ s.pc = "insert_project" /\ s.op = "create"
          /\ s.user = u /\ s.target = u /\ s.payload = payload
      BY DEF NoSession
    <2>5. Open(p, s)
      BY <2>1
    <2> HIDE DEF s, payload
    <2> QED
      BY <1>1, <2>2, <2>3, <2>4, <2>5, OpenStep DEF Create
  <1> USE DEF NoSession, NoPayload, Sessions, ProgramCounters, AllOperations
  <1>2. ASSUME NEW u \in Users, Update(p, u)
        PROVE  Inv'
    BY <1>2, OpenStep DEF Update
  <1>3. ASSUME NEW u \in Users, Delete(p, u) \/ Upload(p, u)
        PROVE  Inv'
    BY <1>3, OpenStep DEF Delete, Upload
  <1>4. ASSUME NEW u \in Users, NEW target \in Users,
               GrantParticipant(p, u, target) \/ RemoveMember(p, u, target)
        PROVE  Inv'
    BY <1>4, OpenStep DEF GrantParticipant, RemoveMember
  <1> QED
    BY <1>1, <1>2, <1>3, <1>4 DEF Request

--------------------------------------------------------------------------------

\* A query that lets the request go on, or a statement that inserts no row.
LEMMA GotoStep ==
    ASSUME Inv, NEW p \in Processes, NEW pc \in ProgramCounters, Goto(p, pc),
           SessionControl([session[p] EXCEPT !.pc = pc]),
           RemoveControl([session[p] EXCEPT !.pc = pc]),
           session[p].pc # "commit",
           pc = "commit" => session[p].op \notin {"create", "grant"}
    PROVE  Inv'
  <1> DEFINE s == [session[p] EXCEPT !.pc = pc]
  <1>0. session \in [Processes -> Sessions] /\ session[p] \in Sessions
    BY DEF Inv, TypeOK
  <1>1. s \in Sessions /\ session' = [session EXCEPT ![p] = s]
    <2>1. s \in Sessions
      BY <1>0 DEF Sessions
    <2>2. session' = [session EXCEPT ![p].pc = pc]
      BY DEF Goto
    <2> QED
      BY <1>0, <2>1, <2>2
  <1>2. /\ s.op = session[p].op /\ s.member = session[p].member /\ s.pc = pc
        /\ InsertControl(p, s)
    <2>1. s.op = session[p].op /\ s.member = session[p].member /\ s.pc = pc
      BY <1>0 DEF Sessions
    <2> QED
      BY <2>1 DEF InsertControl
  <1>3. s.op = "create" => \A q \in Processes \ {p} : ~Creating(q)
    BY <1>2 DEF Inv, OneCreator
  <1>4. \A q \in Processes \ {p} : Inserting(q) => s.member # session[q].member
    BY <1>2 DEF Inv, InsertControl
  <1> HIDE DEF s
  <1> QED
    BY <1>1, <1>2, <1>3, <1>4, SessionStep DEF Goto, s

LEMMA LoadProjectStep ==
    ASSUME Inv, NEW p \in Processes, LoadProject(p)
    PROVE  Inv'
  <1> DEFINE payload == Changes(p)
             s == [session[p] EXCEPT !.pc = "load_member", !.payload = payload]
  <1>1. session' = [session EXCEPT ![p] = s]
    BY DEF LoadProject, Inv, TypeOK, Sessions
  <1>2. payload \in [Fields -> Texts \cup {NoText, Unset}]
    BY DEF Inv, TypeOK, Sessions, Changes
  <1>3. /\ s \in Sessions
        /\ s.op = session[p].op /\ s.target = session[p].target
        /\ s.member = session[p].member /\ s.pc = "load_member"
    <2>1. session[p] \in Sessions
      BY DEF Inv, TypeOK
    <2> HIDE DEF payload
    <2> QED
      BY <1>2, <2>1 DEF Sessions, ProgramCounters
  <1>4. s.op # "create" /\ s.op # "none"
    BY <1>3 DEF LoadProject, Inv, SessionControl
  <1> HIDE DEF s, payload
  <1>5. SessionControl(s) /\ RemoveControl(s) /\ InsertControl(p, s)
    BY <1>3, <1>4
    DEF LoadProject, Inv, SessionControl, RemoveControl, InsertControl
  <1>6. \A q \in Processes \ {p} : Inserting(q) => s.member # session[q].member
    BY <1>3 DEF Inv, InsertControl
  <1> QED
    BY <1>1, <1>3, <1>4, <1>5, <1>6, SessionStep DEF LoadProject

LEMMA LoadMemberStep ==
    ASSUME Inv, NEW p \in Processes, LoadMember(p)
    PROVE  Inv'
  <1> DEFINE pc == AfterMember(session[p].op)
             s == [session[p] EXCEPT !.pc = pc]
  <1>1. session[p] \in Sessions /\ At(p, "load_member") /\ Goto(p, pc)
    BY DEF LoadMember, Inv, TypeOK
  <1>2. SessionControl(session[p]) /\ project.status # "absent"
        /\ session[p].op \notin {"none", "create"}
    BY <1>1 DEF Inv, SessionControl
  <1>3. /\ pc \in {"write", "close", "save", "load_target"}
        /\ pc = "write" => session[p].op = "update"
        /\ pc = "save" => session[p].op = "upload"
        /\ pc = "close" => session[p].op = "delete"
    BY DEF AfterMember
  <1>4. /\ s.pc = pc /\ s.op = session[p].op /\ s.target = session[p].target
        /\ s.member = session[p].member /\ s.payload = session[p].payload
    BY <1>1 DEF Sessions
  <1>5. pc \in ProgramCounters
    BY <1>3 DEF ProgramCounters
  <1> HIDE DEF s, pc
  <1>6. SessionControl(s) /\ RemoveControl(s)
    BY <1>2, <1>3, <1>4 DEF SessionControl, RemoveControl
  <1> QED
    BY <1>1, <1>3, <1>5, <1>6, GotoStep DEF s

\* The look-up of a membership to be removed: a participant's.
LEMMA LoadRemovedStep ==
    ASSUME Inv, NEW p \in Processes, LoadRemoved(p)
    PROVE  Inv'
  <1>1. PICK i \in MemberIds :
            /\ Present(i) /\ members[i].role = "participant"
            /\ session' = [session EXCEPT ![p].member = i, ![p].pc = "delete_member"]
    BY DEF LoadRemoved
  <1> DEFINE s == [session[p] EXCEPT !.member = i, !.pc = "delete_member"]
  <1>2. session' = [session EXCEPT ![p] = s]
    BY <1>1 DEF Inv, TypeOK, Sessions
  <1>3. /\ s \in Sessions /\ s.op = "remove" /\ s.pc = "delete_member"
        /\ s.member = i
    BY DEF LoadRemoved, Inv, TypeOK, Sessions, ProgramCounters
  <1>4. members[i] # NoRow
    BY <1>1 DEF NoRow
  <1> HIDE DEF s
  <1>5. SessionControl(s) /\ RemoveControl(s) /\ InsertControl(p, s)
    BY <1>1, <1>3, <1>4
    DEF LoadRemoved, Inv, SessionControl, RemoveControl, InsertControl
  <1>6. \A q \in Processes \ {p} : Inserting(q) => s.member # session[q].member
    BY <1>1, <1>3, <1>4 DEF Inv, InsertControl
  <1> QED
    BY <1>2, <1>3, <1>5, <1>6, SessionStep DEF LoadRemoved

\* An INSERT: of the owner, or of a participant whose key nobody else has.
LEMMA InsertRowStep ==
    ASSUME Inv, NEW p \in Processes, InsertRow(p),
           session[p].op \in {"create", "grant"},
           session[p].pc \in {"insert_owner", "insert_member"},
           ~Member(session[p].target),
           \A q \in Processes \ {p} :
                Inserting(q) => session[q].target # session[p].target
    PROVE  Inv'
  <1>1. PICK i \in MemberIds :
            /\ FreshMember(i)
            /\ session' = [session EXCEPT ![p].member = i, ![p].pc = "commit"]
    BY DEF InsertRow
  <1> DEFINE s == [session[p] EXCEPT !.member = i, !.pc = "commit"]
  <1>2. session' = [session EXCEPT ![p] = s]
    BY <1>1 DEF Inv, TypeOK, Sessions
  <1>3. /\ s \in Sessions /\ s.op = session[p].op /\ s.pc = "commit"
        /\ s.member = i /\ s.target = session[p].target
        /\ s.user = session[p].user /\ s.payload = session[p].payload
    BY DEF Inv, TypeOK, Sessions, ProgramCounters
  <1> HIDE DEF s
  <1>4. SessionControl(s) /\ RemoveControl(s)
    BY <1>3 DEF Inv, SessionControl, RemoveControl
  <1>5. InsertControl(p, s)
    BY <1>1, <1>3 DEF InsertControl, FreshMember
  <1>6. s.op = "create" => \A q \in Processes \ {p} : ~Creating(q)
    BY <1>3 DEF Inv, OneCreator
  <1>7. \A q \in Processes \ {p} : Inserting(q) => s.member # session[q].member
    BY <1>1, <1>3 DEF FreshMember
  <1> QED
    BY <1>2, <1>3, <1>4, <1>5, <1>6, <1>7, SessionStep DEF InsertRow

LEMMA QueryStep ==
    ASSUME Inv, NEW p \in Processes, Query(p)
    PROVE  Inv'
  <1>1. CASE LoadInvited(p)
    <2>1. session[p] \in Sessions /\ SessionControl(session[p])
      BY DEF Inv, TypeOK
    <2>2. SessionControl([session[p] EXCEPT !.pc = "insert_member"])
      BY <1>1, <2>1 DEF LoadInvited, SessionControl, Sessions
    <2>3. RemoveControl([session[p] EXCEPT !.pc = "insert_member"])
      BY <2>1 DEF RemoveControl, Sessions
    <2> QED
      BY <1>1, <2>2, <2>3, GotoStep DEF LoadInvited, ProgramCounters
  <1>2. CASE ProjectNotFound(p) \/ Forbidden(p) \/ MemberExists(p) \/ MemberNotRemovable(p)
    BY <1>2, CloseStep DEF ProjectNotFound, Forbidden, MemberExists, MemberNotRemovable
  <1> QED
    BY <1>1, <1>2, LoadProjectStep, LoadMemberStep, LoadRemovedStep DEF Query

LEMMA StatementStep ==
    ASSUME Inv, NEW p \in Processes, Statement(p)
    PROVE  Inv'
  <1> DEFINE s(pc) == [session[p] EXCEPT !.pc = pc]
  <1>1. session[p] \in Sessions /\ SessionControl(session[p]) /\ RemoveControl(session[p])
    BY DEF Inv, TypeOK
  <1>2. ASSUME NEW pc \in ProgramCounters
        PROVE  /\ s(pc).pc = pc /\ s(pc).op = session[p].op
               /\ s(pc).user = session[p].user /\ s(pc).target = session[p].target
               /\ s(pc).member = session[p].member /\ s(pc).payload = session[p].payload
    BY <1>1 DEF Sessions
  <1>3. {"insert_owner", "commit"} \subseteq ProgramCounters
    BY DEF ProgramCounters
  <1>4. CASE InsertProject(p)
    <2>1. SessionControl(s("insert_owner")) /\ RemoveControl(s("insert_owner"))
      BY <1>1, <1>2, <1>3, <1>4 DEF InsertProject, SessionControl, RemoveControl
    <2> QED
      BY <1>3, <1>4, <2>1, GotoStep DEF InsertProject
  <1>5. CASE InsertOwner(p)
    <2>1. session[p].op = "create" /\ project.status = "absent"
      BY <1>1, <1>5 DEF InsertOwner, SessionControl
    <2>2. ~Member(session[p].target)
      BY <2>1 DEF Inv, MembersControl
    <2>3. ASSUME NEW q \in Processes \ {p}, Inserting(q)
          PROVE  FALSE
      <3>1. ~Creating(q)
        BY <2>1 DEF Inv, OneCreator
      <3> QED
        BY <2>1, <2>3, <3>1 DEF Inv, SessionControl
    <2> QED
      BY <1>5, <2>1, <2>2, <2>3, InsertRowStep DEF InsertOwner
  <1>6. CASE InsertMember(p)
    BY <1>1, <1>6, InsertRowStep DEF InsertMember, KeyFree, SessionControl
  <1>7. CASE DeleteMember(p) \/ Write(p) \/ CloseProject(p) \/ SaveDocument(p)
    <2>1. /\ Goto(p, "commit") /\ session[p].pc # "commit"
          /\ session[p].op \notin {"create", "grant"}
      BY <1>1, <1>7
      DEF DeleteMember, Write, CloseProject, SaveDocument, SessionControl
    <2>2. SessionControl(s("commit")) /\ RemoveControl(s("commit"))
      BY <1>1, <1>2, <1>3, <1>7
      DEF DeleteMember, Write, CloseProject, SaveDocument, SessionControl, RemoveControl
    <2> QED
      BY <1>3, <2>1, <2>2, GotoStep
  <1>8. CASE InsertViolatesUnique(p) \/ WriteViolatesNotNull(p)
    BY <1>8, CloseStep DEF InsertViolatesUnique, WriteViolatesNotNull
  <1> QED
    BY <1>4, <1>5, <1>6, <1>7, <1>8 DEF Statement

--------------------------------------------------------------------------------

(* Commits: what each one does to the rows. *)

LEMMA CommitCreate ==
    ASSUME Inv, NEW p \in Processes, Commit(p), session[p].op = "create"
    PROVE  /\ project.status = "absent"
           /\ project' = [status |-> "active", owner |-> session[p].user,
                          fields |-> session[p].payload]
           /\ session[p].user \in Users /\ session[p].member \in MemberIds
           /\ members' = [members EXCEPT ![session[p].member] =
                            [user |-> session[p].user, status |-> "present",
                             role |-> "owner"]]
  <1>1. SessionControl(session[p]) /\ InsertControl(p, session[p])
    BY DEF Inv
  <1>2. members \in [MemberIds -> Rows]
    BY DEF Inv, TypeOK
  <1>3. project' = [status |-> "active", owner |-> session[p].user,
                    fields |-> session[p].payload]
    BY DEF Commit, CommittedProject
  <1> QED
    BY <1>1, <1>2, <1>3
    DEF Commit, CommittedMember, InsertedRow, SessionControl, InsertControl

LEMMA CommitGrant ==
    ASSUME Inv, NEW p \in Processes, Commit(p), session[p].op = "grant"
    PROVE  /\ project' = project
           /\ project.status # "absent"
           /\ session[p].target \in Users /\ session[p].member \in MemberIds
           /\ members' = [members EXCEPT ![session[p].member] =
                            [user |-> session[p].target, status |-> "present",
                             role |-> "participant"]]
  <1>1. SessionControl(session[p]) /\ InsertControl(p, session[p])
    BY DEF Inv
  <1>2. members \in [MemberIds -> Rows]
    BY DEF Inv, TypeOK
  <1>3. project' = project
    BY DEF Commit, CommittedProject
  <1> QED
    BY <1>1, <1>2, <1>3
    DEF Commit, CommittedMember, InsertedRow, SessionControl, InsertControl

LEMMA CommitRemove ==
    ASSUME Inv, NEW p \in Processes, Commit(p), session[p].op = "remove"
    PROVE  /\ project' = project
           /\ session[p].member \in MemberIds
           /\ members[session[p].member] # NoRow
           /\ members[session[p].member].role = "participant"
           /\ members' = [members EXCEPT ![session[p].member].status = "removed"]
  <1>1. RemoveControl(session[p])
    BY DEF Inv
  <1>2. members \in [MemberIds -> Rows]
    BY DEF Inv, TypeOK
  <1>3. project' = project
    BY DEF Commit, CommittedProject
  <1> QED
    BY <1>1, <1>2, <1>3 DEF Commit, CommittedMember, RemoveControl

LEMMA CommitProject ==
    ASSUME Inv, NEW p \in Processes, Commit(p),
           session[p].op \in {"update", "delete", "upload"}
    PROVE  /\ members' = members
           /\ project.status # "absent"
           /\ project'.owner = project.owner
           /\ \/ project'.status = project.status
              \/ project.status = "active" /\ project'.status = "deleted"
           /\ project' \in [status : {"absent", "active", "deleted"},
                            owner : Users \cup {NoUser},
                            fields : [Fields -> Texts \cup {NoText}]]
           /\ project'.fields["name"] # NoText
  <1>1. /\ SessionControl(session[p]) /\ session[p] \in Sessions
        /\ members \in [MemberIds -> Rows]
        /\ project \in [status : {"absent", "active", "deleted"},
                        owner : Users \cup {NoUser},
                        fields : [Fields -> Texts \cup {NoText}]]
        /\ project.status # "absent" => project.fields["name"] # NoText
    BY DEF Inv, TypeOK
  <1>2. project.status # "absent" /\ session[p].member = NoMember
    BY <1>1 DEF Commit, SessionControl
  <1>3. members' = members
    BY <1>1, <1>2 DEF Commit, CommittedMember
  <1>4. CASE session[p].op = "update"
    <2>1. session[p].payload["name"] # NoText
      BY <1>1, <1>4 DEF Commit, SessionControl
    <2>2. Updated(project.fields, session[p].payload)
            \in [Fields -> Texts \cup {NoText}]
      BY <1>1 DEF Updated, Sessions
    <2>3. Updated(project.fields, session[p].payload)["name"] # NoText
      BY <1>1, <1>2, <2>1 DEF Updated
    <2>4. project' = [project EXCEPT
                        !.fields = Updated(project.fields, session[p].payload)]
      BY <1>4 DEF Commit, CommittedProject
    <2> QED
      BY <1>1, <1>2, <1>3, <2>2, <2>3, <2>4
  <1>5. CASE session[p].op = "delete"
    <2>1. project' = [project EXCEPT !.status = "deleted"]
      BY <1>5 DEF Commit, CommittedProject
    <2> QED
      BY <1>1, <1>2, <1>3, <2>1
  <1>6. CASE session[p].op = "upload"
    <2>1. project' = project
      BY <1>6 DEF Commit, CommittedProject
    <2> QED
      BY <1>1, <1>2, <1>3, <2>1
  <1> QED
    BY <1>4, <1>5, <1>6

\* Every commit is one of these.
LEMMA CommitOps ==
    ASSUME Inv, NEW p \in Processes, Commit(p)
    PROVE  session[p].op \in AllOperations
  BY DEF Inv, TypeOK, Sessions, SessionControl, Commit

\* What is left to show of a commit, once it is known what it does to the rows:
\* the other sessions stay as they were.
LEMMA CommitSessions ==
    ASSUME Inv, NEW p \in Processes, Commit(p)
    PROVE  /\ \A q \in Processes :
                session'[q] = IF q = p THEN NoSession ELSE session[q]
           /\ session' \in [Processes -> Sessions]
           /\ OneCreator'
  <1>1. NoSession \in Sessions
    BY DEF NoSession, NoPayload, Sessions, ProgramCounters
  <1>2. /\ \A q \in Processes :
                session'[q] = IF q = p THEN NoSession ELSE session[q]
        /\ session' \in [Processes -> Sessions]
    BY <1>1 DEF Commit, Inv, TypeOK
  <1> QED
    BY <1>2 DEF OneCreator, Inv, NoSession

LEMMA CommitInsertStep ==
    ASSUME Inv, NEW p \in Processes, Commit(p),
           session[p].op \in {"create", "grant"}
    PROVE  Inv'
  <1> DEFINE s == session[p]
             m == session[p].member
             u == session[p].target
             role == IF s.op = "create" THEN "owner" ELSE "participant"
  <1>1. /\ SessionControl(s) /\ InsertControl(p, s)
        /\ members \in [MemberIds -> Rows]
    BY DEF Inv, TypeOK
  <1>2. /\ m \in MemberIds /\ u \in Users /\ members[m] = NoRow
        /\ ~Member(u)
        /\ \A q \in Processes \ {p} :
            /\ session[q].member # m
            /\ Inserting(q) => session[q].target # u
    BY <1>1 DEF Commit, SessionControl, InsertControl
  <1>3. members' = [members EXCEPT ![m] =
                        [user |-> u, status |-> "present", role |-> role]]
    BY <1>1, CommitCreate, CommitGrant DEF SessionControl
  <1>4. /\ project'.status # "absent"
        /\ s.op = "create" => /\ project.status = "absent"
                              /\ project'.owner = u
        /\ s.op = "grant" => project' = project
    <2>1. CASE s.op = "create"
      <3>1. s.user = u
        BY <1>1, <2>1 DEF SessionControl
      <3>2. /\ project.status = "absent"
            /\ project' = [status |-> "active", owner |-> s.user,
                           fields |-> s.payload]
        BY <2>1, CommitCreate
      <3> QED
        BY <2>1, <3>1, <3>2
    <2>2. CASE s.op = "grant"
      BY <2>2, CommitGrant
    <2> QED
      BY <2>1, <2>2
  <1>5. /\ members' \in [MemberIds -> Rows]
        /\ \A i \in MemberIds \ {m} : members'[i] = members[i]
        /\ members'[m] = [user |-> u, status |-> "present", role |-> role]
    BY <1>1, <1>2, <1>3 DEF Rows
  <1> HIDE DEF role
  <1>6. TypeOK'
    <2>1. s \in Sessions
      BY DEF Inv, TypeOK
    <2>2. CASE s.op = "create"
      <3>1. /\ s.payload \in [Fields -> Texts \cup {NoText}]
            /\ s.payload["name"] # NoText
        BY <1>1, <2>2 DEF SessionControl
      <3>2. /\ s.user \in Users
            /\ project' = [status |-> "active", owner |-> s.user,
                           fields |-> s.payload]
        BY <2>2, CommitCreate
      <3> QED
        BY <1>5, <3>1, <3>2, CommitSessions DEF TypeOK
    <2>3. CASE s.op = "grant"
      BY <1>4, <1>5, <2>3, CommitSessions DEF TypeOK, Inv
    <2> QED
      BY <2>2, <2>3
  <1>7. MembersControl'
    <2>1. ASSUME NEW i \in MemberIds
          PROVE  /\ Present(i)' => members'[i].user \in Users
                 /\ Present(i)' => members'[i].role \in {"owner", "participant"}
                 /\ members'[i] # NoRow => members'[i].status # "unused"
      <3>1. CASE i = m
        BY <1>2, <1>5, <3>1 DEF NoRow, role
      <3>2. CASE i # m
        BY <1>5, <3>2 DEF Inv, MembersControl
      <3> QED BY <3>1, <3>2
    <2>2. project'.owner \in Users
      BY <1>2, <1>4, <1>1 DEF Inv, MembersControl, SessionControl, Commit
    <2> QED
      BY <1>4, <2>1, <2>2 DEF MembersControl
  <1>8. OneOwner'
    <2>1. CASE s.op = "create"
      <3>1. \A i \in MemberIds : ~Present(i)
        BY <1>4, <2>1 DEF Inv, MembersControl
      <3> QED
        BY <1>2, <1>4, <1>5, <2>1, <3>1 DEF OneOwner, role
    <2>2. CASE s.op = "grant"
      <3>1. /\ HasRole(project.owner, "owner")
            /\ \A v \in Users : HasRole(v, "owner") => v = project.owner
        BY <1>4, <2>2 DEF Inv, OneOwner
      <3>2. \A i \in MemberIds : Present(i) => i # m
        BY <1>2 DEF NoRow
      <3> QED
        BY <1>4, <1>5, <2>2, <3>1, <3>2 DEF OneOwner, role
    <2> QED
      BY <2>1, <2>2
  <1>9. UniqueMembership'
    BY <1>2, <1>5 DEF Inv, UniqueMembership, NoRow
  <1>10. ASSUME NEW q \in Processes
         PROVE  (/\ SessionControl(session[q])
                 /\ InsertControl(q, session[q])
                 /\ RemoveControl(session[q]))'
    <2>1. CASE q = p
      <3>1. session'[q] = NoSession
        BY <2>1, CommitSessions
      <3> QED
        BY <3>1 DEF NoSession, SessionControl, InsertControl, RemoveControl
    <2>2. CASE q # p
      <3>1. session'[q] = session[q]
        BY <2>2, CommitSessions
      <3>2. s.op = "create" => session[q].op # "create"
        BY <2>2 DEF Inv, OneCreator
      <3>3. session[q].op = "create" => project' = project
        BY <1>4, <3>2
      <3>4. SessionControl(session[q])'
        BY <1>4, <3>1, <3>3 DEF Inv, SessionControl
      <3>5. RemoveControl(session[q])'
        <4>1. RemoveControl(session[q])
          BY DEF Inv
        <4> QED
          BY <1>2, <1>5, <3>1, <4>1 DEF RemoveControl
      <3>6. InsertControl(q, session[q])'
        <4>1. InsertControl(q, session[q])
          BY DEF Inv
        <4>2. ASSUME Inserting(q)
              PROVE  /\ members'[session[q].member] = NoRow
                     /\ ~Member(session[q].target)'
          <5>1. /\ session[q].member \in MemberIds /\ session[q].member # m
                /\ members[session[q].member] = NoRow
                /\ ~Member(session[q].target)
                /\ session[q].target # u
            <6>1. session[q].member # m /\ session[q].target # u
              BY <1>2, <2>2, <4>2
            <6>2. /\ session[q].member \in MemberIds
                  /\ members[session[q].member] = NoRow
                  /\ ~Member(session[q].target)
              BY <4>1, <4>2 DEF InsertControl
            <6> QED
              BY <6>1, <6>2
          <5>2. ASSUME NEW i \in MemberIds, Present(i)'
                PROVE  members'[i].user # session[q].target
            <6>1. CASE i = m
              BY <1>5, <5>1, <6>1
            <6>2. CASE i # m
              <7>1. members'[i] = members[i] /\ Present(i)
                BY <1>5, <5>2, <6>2
              <7> QED
                BY <5>1, <7>1
            <6> QED
              BY <6>1, <6>2
          <5>3. members'[session[q].member] = NoRow
            BY <1>5, <5>1
          <5> QED
            BY <3>1, <5>2, <5>3
        <4>3. \A r \in Processes \ {q} :
                /\ session'[r].member # session[q].member \/ ~Inserting(q)
                /\ Inserting(r)' /\ Inserting(q) =>
                        session'[r].target # session[q].target
          BY <4>1, CommitSessions DEF InsertControl, NoSession
        <4> QED
          BY <3>1, <4>1, <4>2, <4>3 DEF InsertControl
      <3> QED
        BY <3>4, <3>5, <3>6
    <2> QED
      BY <2>1, <2>2
  <1> QED
    BY <1>6, <1>7, <1>8, <1>9, <1>10, CommitSessions DEF Inv

\* A removal that takes effect: the row, or one that is gone already.
LEMMA CommitRemoveStep ==
    ASSUME Inv, NEW p \in Processes, Commit(p), session[p].op = "remove"
    PROVE  Inv'
  <1> DEFINE m == session[p].member
  <1>1. /\ project' = project /\ m \in MemberIds
        /\ members[m] # NoRow /\ members[m].role = "participant"
        /\ members' = [members EXCEPT ![m].status = "removed"]
    BY CommitRemove
  <1>2. members \in [MemberIds -> Rows]
    BY DEF Inv, TypeOK
  <1>3. /\ members' \in [MemberIds -> Rows]
        /\ \A i \in MemberIds \ {m} : members'[i] = members[i]
        /\ members'[m].user = members[m].user
        /\ members'[m].role = "participant"
        /\ members'[m].status = "removed"
    BY <1>1, <1>2 DEF Rows
  <1> HIDE DEF m
  <1>4. TypeOK'
    BY <1>1, <1>3, CommitSessions DEF TypeOK, Inv
  <1>5. MembersControl'
    <2>1. ASSUME NEW i \in MemberIds
          PROVE  /\ Present(i)' => Present(i)
                 /\ Present(i)' => members'[i].user \in Users
                 /\ Present(i)' => members'[i].role \in {"owner", "participant"}
                 /\ members'[i] # NoRow => members'[i].status # "unused"
      <3>1. CASE i = m
        BY <1>3, <3>1
      <3>2. CASE i # m
        <4>1. members'[i] = members[i]
          BY <1>3, <3>2
        <4> QED
          BY <4>1 DEF Inv, MembersControl
      <3> QED BY <3>1, <3>2
    <2> QED
      BY <1>1, <2>1 DEF Inv, MembersControl
  <1>6. OneOwner'
    <2>1. \A i \in MemberIds :
            Present(i)' /\ members'[i].role = "owner" <=>
                Present(i) /\ members[i].role = "owner"
      BY <1>1, <1>3
    <2>2. \A i \in MemberIds : members'[i].user = members[i].user
      BY <1>3
    <2>3. \A v \in Users \cup {project.owner} :
            HasRole(v, "owner")' <=> HasRole(v, "owner")
      BY <2>1, <2>2
    <2> QED
      BY <1>1, <2>3 DEF Inv, OneOwner
  <1>7. UniqueMembership'
    BY <1>3 DEF Inv, UniqueMembership
  <1>8. ASSUME NEW q \in Processes
        PROVE  (/\ SessionControl(session[q])
                /\ InsertControl(q, session[q])
                /\ RemoveControl(session[q]))'
    <2>1. CASE q = p
      <3>1. session'[q] = NoSession
        BY <2>1, CommitSessions
      <3> QED
        BY <3>1 DEF NoSession, SessionControl, InsertControl, RemoveControl
    <2>2. CASE q # p
      <3>1. session'[q] = session[q]
        BY <2>2, CommitSessions
      <3>2. /\ SessionControl(session[q]) /\ InsertControl(q, session[q])
            /\ RemoveControl(session[q])
        BY DEF Inv
      <3>3. SessionControl(session[q])'
        BY <1>1, <3>1, <3>2 DEF SessionControl
      <3>4. RemoveControl(session[q])'
        <4>1. ASSUME NEW i \in MemberIds, members[i] # NoRow,
                     members[i].role = "participant"
              PROVE  members'[i] # NoRow /\ members'[i].role = "participant"
          BY <1>3, <4>1 DEF NoRow
        <4> QED
          BY <3>1, <3>2, <4>1 DEF RemoveControl
      <3>5. InsertControl(q, session[q])'
        <4>1. ASSUME Inserting(q)
              PROVE  /\ session[q].member \in MemberIds
                     /\ members'[session[q].member] = NoRow
                     /\ ~Member(session[q].target)'
          <5>1. /\ session[q].member \in MemberIds
                /\ members[session[q].member] = NoRow
                /\ ~Member(session[q].target)
            BY <3>2, <4>1 DEF InsertControl
          <5>2. members'[session[q].member] = NoRow
            BY <1>1, <1>3, <5>1
          <5>3. \A i \in MemberIds :
                    Present(i)' => Present(i) /\ members'[i].user = members[i].user
            BY <1>3
          <5>4. \A i \in MemberIds :
                    Present(i)' => members'[i].user # session[q].target
            BY <5>1, <5>3
          <5> QED
            BY <3>1, <5>1, <5>2, <5>4
        <4>2. \A r \in Processes \ {q} :
                Inserting(q) =>
                    /\ session'[r].member # session[q].member
                    /\ Inserting(r)' => session'[r].target # session[q].target
          BY <3>2, <4>1, CommitSessions DEF InsertControl, NoSession
        <4> QED
          BY <3>1, <4>1, <4>2 DEF InsertControl
      <3> QED
        BY <3>3, <3>4, <3>5
    <2> QED
      BY <2>1, <2>2
  <1> QED
    BY <1>4, <1>5, <1>6, <1>7, <1>8, CommitSessions DEF Inv

\* A commit that leaves the members as they were.
LEMMA CommitProjectStep ==
    ASSUME Inv, NEW p \in Processes, Commit(p),
           session[p].op \in {"update", "delete", "upload"}
    PROVE  Inv'
  <1>1. /\ members' = members
        /\ project.status # "absent" /\ project'.status # "absent"
        /\ project'.owner = project.owner
        /\ project' \in [status : {"absent", "active", "deleted"},
                         owner : Users \cup {NoUser},
                         fields : [Fields -> Texts \cup {NoText}]]
        /\ project'.fields["name"] # NoText
    BY CommitProject
  <1>2. TypeOK'
    BY <1>1, CommitSessions DEF TypeOK, Inv
  <1>3. MembersControl' /\ OneOwner' /\ UniqueMembership'
    BY <1>1 DEF Inv, MembersControl, OneOwner, UniqueMembership
  <1>4. ASSUME NEW q \in Processes
        PROVE  (/\ SessionControl(session[q])
                /\ InsertControl(q, session[q])
                /\ RemoveControl(session[q]))'
    <2>1. CASE q = p
      <3>1. session'[q] = NoSession
        BY <2>1, CommitSessions
      <3> QED
        BY <3>1 DEF NoSession, SessionControl, InsertControl, RemoveControl
    <2>2. CASE q # p
      <3>1. session'[q] = session[q]
        BY <2>2, CommitSessions
      <3>2. /\ SessionControl(session[q]) /\ InsertControl(q, session[q])
            /\ RemoveControl(session[q])
        BY DEF Inv
      <3>3. SessionControl(session[q])' /\ RemoveControl(session[q])'
        BY <1>1, <3>1, <3>2 DEF SessionControl, RemoveControl
      <3>4. InsertControl(q, session[q])'
        <4>1. Inserting(q) => session[q].member \in MemberIds
          BY <3>2 DEF InsertControl
        <4>2. \A r \in Processes \ {q} :
                Inserting(q) =>
                    /\ session'[r].member # session[q].member
                    /\ Inserting(r)' => session'[r].target # session[q].target
          BY <3>2, <4>1, CommitSessions DEF InsertControl, NoSession
        <4> QED
          BY <1>1, <3>1, <3>2, <4>1, <4>2 DEF InsertControl
      <3> QED
        BY <3>3, <3>4
    <2> QED
      BY <2>1, <2>2
  <1> QED
    BY <1>2, <1>3, <1>4, CommitSessions DEF Inv

--------------------------------------------------------------------------------

LEMMA Inductive == Inv /\ [Next]_vars => Inv'
  <1> SUFFICES ASSUME Inv, [Next]_vars
               PROVE  Inv'
    OBVIOUS
  <1>1. ASSUME NEW p \in Processes, Commit(p)
        PROVE  Inv'
    BY <1>1, CommitOps, CommitInsertStep, CommitRemoveStep, CommitProjectStep
    DEF AllOperations
  <1>2. ASSUME NEW p \in Processes, Fail(p)
        PROVE  Inv'
    BY <1>2, CloseStep DEF Fail
  <1>3. CASE UNCHANGED vars
    BY <1>3 DEF vars, Inv, TypeOK, OneOwner, UniqueMembership, OneCreator,
       MembersControl, SessionControl, InsertControl, RemoveControl
  <1> QED
    BY <1>1, <1>2, <1>3, RequestStep, QueryStep, StatementStep DEF Next

LEMMA Invariance == Spec => []Inv
  BY InitInv, Inductive, PTL DEF Spec

\* The rows keep their column types: no null name and no payload's "unset" is
\* ever committed by an update, a creation or a race of them.
THEOREM TypeCorrect == Spec => []TypeOK
  BY Invariance, PTL DEF Inv

\* A project that can be seen has exactly one owner's membership, that of the
\* user its row names: creation commits both rows or none, invitations insert
\* participants and removals reach participants only.
THEOREM OwnerStays == Spec => []OneOwner
  BY Invariance, PTL DEF Inv

\* No two memberships of a user are ever present, for any number of concurrent
\* invitations and removals.
THEOREM MembershipUnique == Spec => []UniqueMembership
  BY Invariance, PTL DEF Inv

--------------------------------------------------------------------------------
(* The abstract specification of the access to a project. *)

RoleOf(u) ==
    IF HasRole(u, "owner") THEN "owner"
    ELSE IF HasRole(u, "participant") THEN "participant" ELSE "none"

roles == [u \in Users |-> RoleOf(u)]

LEMMA AccessInit == Init => Access!Init
  BY DEF Init, Access!Init, NoRow

\* A step that commits nothing, seen from the abstract specification.
LEMMA Silent ==
    ASSUME UNCHANGED <<project, members>>
    PROVE  UNCHANGED Access!accessVars
  BY DEF Access!accessVars

LEMMA CreateAccess ==
    ASSUME Inv, NEW p \in Processes, Commit(p), session[p].op = "create"
    PROVE  Access!Next
  <1> DEFINE u == session[p].user
             m == session[p].member
  <1>1. /\ project.status = "absent" /\ project'.status = "active"
        /\ u \in Users /\ m \in MemberIds
        /\ members' = [members EXCEPT ![m] =
                        [user |-> u, status |-> "present", role |-> "owner"]]
    BY CommitCreate
  <1>2. members \in [MemberIds -> Rows] /\ \A i \in MemberIds : ~Present(i)
    BY <1>1 DEF Inv, TypeOK, MembersControl
  <1> HIDE DEF u, m
  <1>3. \A v \in Users, r \in {"owner", "participant"} :
            HasRole(v, r)' <=> v = u /\ r = "owner"
    BY <1>1, <1>2
  <1>4. \A v \in Users : RoleOf(v) = "none"
    BY <1>2 DEF RoleOf
  <1>5. \A v \in Users : RoleOf(v)' = IF v = u THEN "owner" ELSE RoleOf(v)
    BY <1>3, <1>4 DEF RoleOf
  <1>6. roles' = [roles EXCEPT ![u] = "owner"]
    BY <1>1, <1>5 DEF roles
  <1>7. \E v \in Users : Access!Create(v)
    BY <1>1, <1>6 DEF Access!Create, roles, RoleOf
  <1> QED
    BY <1>7 DEF Access!Next

LEMMA GrantAccess ==
    ASSUME Inv, NEW p \in Processes, Commit(p), session[p].op = "grant"
    PROVE  Access!Next
  <1> DEFINE u == session[p].target
             m == session[p].member
  <1>1. /\ project' = project /\ project.status # "absent"
        /\ u \in Users /\ m \in MemberIds
        /\ members' = [members EXCEPT ![m] =
                        [user |-> u, status |-> "present", role |-> "participant"]]
    BY CommitGrant
  <1>2. members \in [MemberIds -> Rows] /\ members[m] = NoRow /\ ~Member(u)
    BY DEF Inv, TypeOK, InsertControl, Commit
  <1> HIDE DEF u, m
  <1>3. /\ members'[m] = [user |-> u, status |-> "present", role |-> "participant"]
        /\ ~Present(m)
        /\ \A i \in MemberIds \ {m} : members'[i] = members[i]
    BY <1>1, <1>2 DEF NoRow
  <1>4. \A v \in Users, r \in {"owner", "participant"} :
            HasRole(v, r)' <=> HasRole(v, r) \/ (v = u /\ r = "participant")
    BY <1>1, <1>3
  <1>5. \A r \in {"owner", "participant"} : ~HasRole(u, r)
    BY <1>2
  <1>6. /\ RoleOf(u) = "none"
        /\ \A v \in Users : RoleOf(v)' = IF v = u THEN "participant" ELSE RoleOf(v)
    BY <1>1, <1>4, <1>5 DEF RoleOf
  <1>7. roles' = [roles EXCEPT ![u] = "participant"] /\ roles[u] = "none"
    BY <1>1, <1>6 DEF roles
  <1>8. \E v \in Users : Access!Grant(v)
    BY <1>1, <1>7 DEF Access!Grant, roles, RoleOf
  <1> QED
    BY <1>8 DEF Access!Next

\* A removal whose row is gone already is a stutter.
LEMMA RemoveAccess ==
    ASSUME Inv, NEW p \in Processes, Commit(p), session[p].op = "remove"
    PROVE  [Access!Next]_(Access!accessVars)
  <1> DEFINE m == session[p].member
             u == members[m].user
  <1>1. /\ project' = project /\ m \in MemberIds
        /\ members[m].role = "participant"
        /\ members' = [members EXCEPT ![m].status = "removed"]
    BY CommitRemove
  <1>2. members \in [MemberIds -> Rows]
    BY DEF Inv, TypeOK
  <1>3. /\ members'[m].status = "removed"
        /\ \A i \in MemberIds \ {m} : members'[i] = members[i]
    BY <1>1, <1>2 DEF Rows
  <1> HIDE DEF m
  <1>4. CASE ~Present(m)
    <2>1. \A v \in Users, r \in {"owner", "participant"} :
            HasRole(v, r)' <=> HasRole(v, r)
      BY <1>1, <1>3, <1>4
    <2>2. \A v \in Users : RoleOf(v)' = RoleOf(v)
      BY <2>1 DEF RoleOf
    <2>3. roles' = roles
      BY <2>2 DEF roles
    <2> QED
      BY <1>1, <2>3 DEF Access!accessVars, roles, RoleOf
  <1>5. CASE Present(m)
    <2>1. /\ u \in Users
          /\ \A i \in MemberIds : Present(i) /\ members[i].user = u => i = m
      BY <1>1, <1>5 DEF Inv, MembersControl, UniqueMembership
    <2>2. HasRole(u, "participant") /\ ~HasRole(u, "owner")
      BY <1>1, <1>5, <2>1
    <2> HIDE DEF u
    <2>3. members[m].user = u
      BY DEF u
    <2>4. \A v \in Users, r \in {"owner", "participant"} :
            HasRole(v, r)' <=> HasRole(v, r) /\ v # u
      BY <1>1, <1>3, <1>5, <2>1, <2>3
    <2>5. /\ RoleOf(u) = "participant"
          /\ \A v \in Users : RoleOf(v)' = IF v = u THEN "none" ELSE RoleOf(v)
      BY <2>2, <2>4 DEF RoleOf
    <2>6. roles' = [roles EXCEPT ![u] = "none"] /\ roles[u] = "participant"
      BY <2>1, <2>5 DEF roles
    <2>7. \E v \in Users : roles[v] = "participant" /\ roles' = [roles EXCEPT ![v] = "none"]
      BY <2>1, <2>6
    <2>8. \E v \in Users : Access!Revoke(v)
      BY <1>1, <2>7 DEF Access!Revoke, roles, RoleOf
    <2> QED
      BY <2>8 DEF Access!Next
  <1> QED
    BY <1>4, <1>5

LEMMA ProjectAccessStep ==
    ASSUME Inv, NEW p \in Processes, Commit(p),
           session[p].op \in {"update", "delete", "upload"}
    PROVE  [Access!Next]_(Access!accessVars)
  <1>1. /\ members' = members
        /\ \/ project'.status = project.status
           \/ project.status = "active" /\ project'.status = "deleted"
    BY CommitProject
  <1> QED
    BY <1>1 DEF Access!Next, Access!Delete, Access!accessVars

LEMMA AccessStep == Inv /\ [Next]_vars => [Access!Next]_(Access!accessVars)
  <1> SUFFICES ASSUME Inv, [Next]_vars
               PROVE  [Access!Next]_(Access!accessVars)
    OBVIOUS
  <1>1. ASSUME NEW p \in Processes, Commit(p)
        PROVE  [Access!Next]_(Access!accessVars)
    BY <1>1, CommitOps, CreateAccess, GrantAccess, RemoveAccess, ProjectAccessStep
    DEF AllOperations
  <1>2. ASSUME NEW p \in Processes,
               Request(p) \/ Query(p) \/ Statement(p) \/ Fail(p)
        PROVE  UNCHANGED <<project, members>>
    <2>1. CASE Request(p)
      BY <2>1 DEF Request, Create, Update, Delete, Upload, GrantParticipant,
         RemoveMember, Open
    <2>2. CASE Query(p)
      BY <2>2 DEF Query, LoadProject, ProjectNotFound, LoadMember, Forbidden,
         LoadInvited, MemberExists, LoadRemoved, MemberNotRemovable, Goto, Close
    <2>3. CASE Statement(p) \/ Fail(p)
      BY <2>3 DEF Statement, InsertProject, InsertOwner, InsertMember, InsertRow,
         InsertViolatesUnique, DeleteMember, Write, WriteViolatesNotNull,
         CloseProject, SaveDocument, Fail, Goto, Close
    <2> QED
      BY <1>2, <2>1, <2>2, <2>3
  <1>3. CASE UNCHANGED vars
    BY <1>3, Silent DEF vars
  <1> QED
    BY <1>1, <1>2, <1>3, Silent DEF Next

\* Every step of the program is a step of the abstract specification or changes
\* nobody's access: roles only ever go from none to owner at the creation, from
\* none to participant and from participant to none.
THEOREM AccessImplemented == Spec => ImplementsAccess
  BY AccessInit, AccessStep, Invariance, PTL DEF Spec, ImplementsAccess, Access!Spec

(***************************************************************************)
(* Requests and their histories: the inductive invariant.                  *)
(***************************************************************************)

\* A request that has passed a check has seen what the check asks for.
Checked(p) ==
    session[p].op # "create" =>
        /\ session[p].pc \notin {"idle", "load_project"} => history[p].active
        /\ session[p].pc \notin {"idle", "load_project", "load_member"} =>
                history[p].roles \cap Required(session[p].op) # {}

\* The membership that a removal has looked up was there all the time, if it is
\* still there; so its user has not become a member since.
LookedUp(p) ==
    session[p].op = "remove" =>
        /\ session[p].pc \in {"load_project", "load_member", "load_target"} =>
                session[p].member = NoMember /\ history[p].granted = {}
        /\ session[p].pc \in {"delete_member", "commit"} /\ Present(session[p].member) =>
                members[session[p].member].user \notin history[p].granted

\* What is left to write was asked for.
Asked(p) ==
    session[p].op = "update" =>
        \A f \in Fields : session[p].payload[f] # Unset => f \in history[p].asked

HistoryInv ==
    /\ history \in [Processes -> [active : BOOLEAN, roles : SUBSET {"participant", "owner"},
                                  granted : SUBSET Users, asked : SUBSET Fields]]
    /\ \A p \in Processes :
        /\ Idle(p) => history[p] = NoHistory
        /\ Checked(p) /\ LookedUp(p) /\ Asked(p)

--------------------------------------------------------------------------------
(* What a step does to the session of a process.                           *)

Arrives(s, t) ==
    /\ s.pc = "idle" /\ t.member = NoMember
    /\ t.pc = "load_project" \/ t.op = "create"

Loads(s, t) ==
    /\ s.pc = "load_project" /\ t.pc = "load_member"
    /\ t.op = s.op /\ t.member = s.member
    /\ \A f \in Fields : t.payload[f] # Unset => s.payload[f] # Unset
    /\ project.status = "active" /\ project' = project

Checks(s, t) ==
    /\ s.pc = "load_member" /\ t.pc \in {"write", "close", "save", "load_target"}
    /\ t.op = s.op /\ t.user = s.user /\ t.member = s.member /\ t.payload = s.payload
    /\ \E role \in Required(s.op) : HasRole(s.user, role)
    /\ members' = members

LooksUp(s, t) ==
    /\ s.pc = "load_target" /\ t.pc = "delete_member"
    /\ s.op = "remove" /\ t.op = s.op /\ t.payload = s.payload
    /\ members' = members

Goes(s, t) ==
    /\ s.pc \notin {"idle", "load_project", "load_member"}
    /\ t.pc \notin {"idle", "load_project", "load_member", "load_target"}
    /\ t.op = s.op /\ t.payload = s.payload
    /\ s.op = "remove" =>
        s.pc = "delete_member" /\ t.pc = "commit" /\ t.member = s.member

Moves(s, t) ==
    \/ t = s
    \/ t.pc = "idle"
    \/ Arrives(s, t) \/ Loads(s, t) \/ Checks(s, t) \/ LooksUp(s, t) \/ Goes(s, t)

LEMMA RequestMoves ==
    ASSUME Inv, NEW p \in Processes, Request(p)
    PROVE  Moves(session[p], session'[p])
  <1> USE DEF NoSession, NoPayload, Moves, Arrives
  <1>0. session \in [Processes -> Sessions]
    BY DEF Inv, TypeOK
  <1>1. ASSUME NEW u \in Users, Create(p, u)
        PROVE  Moves(session[p], session'[p])
    BY <1>0, <1>1 DEF Create, Open
  <1>2. ASSUME NEW u \in Users, Update(p, u)
        PROVE  Moves(session[p], session'[p])
    BY <1>0, <1>2 DEF Update, Open
  <1>3. ASSUME NEW u \in Users, Delete(p, u) \/ Upload(p, u)
        PROVE  Moves(session[p], session'[p])
    BY <1>0, <1>3 DEF Delete, Upload, Open
  <1>4. ASSUME NEW u \in Users, NEW target \in Users,
               GrantParticipant(p, u, target) \/ RemoveMember(p, u, target)
        PROVE  Moves(session[p], session'[p])
    <2>1. CASE GrantParticipant(p, u, target)
      BY <1>0, <2>1 DEF GrantParticipant, Open
    <2>2. CASE RemoveMember(p, u, target)
      BY <1>0, <2>2 DEF RemoveMember, Open
    <2> QED
      BY <1>4, <2>1, <2>2
  <1> QED
    BY <1>1, <1>2, <1>3, <1>4 DEF Request

LEMMA CloseMoves ==
    ASSUME Inv, NEW p \in Processes, Close(p) \/ Commit(p)
    PROVE  session'[p].pc = "idle"
  BY DEF Inv, TypeOK, Close, Commit, NoSession

LEMMA GotoMoves ==
    ASSUME Inv, NEW p \in Processes, NEW pc, Goto(p, pc)
    PROVE  /\ session'[p].pc = pc
           /\ \A f \in {"op", "user", "member", "payload"} : session'[p][f] = session[p][f]
           /\ members' = members
  BY DEF Inv, TypeOK, Sessions, Goto

LEMMA QueryMoves ==
    ASSUME Inv, NEW p \in Processes, Query(p)
    PROVE  Moves(session[p], session'[p])
  <1>0. session \in [Processes -> Sessions] /\ session[p] \in Sessions
    BY DEF Inv, TypeOK
  <1>1. CASE LoadProject(p)
    <2>1. session'[p] = [session[p] EXCEPT !.pc = "load_member", !.payload = Changes(p)]
      BY <1>0, <1>1 DEF LoadProject
    <2>2. \A f \in Fields : Changes(p)[f] # Unset => session[p].payload[f] # Unset
      BY DEF Changes
    <2>3. /\ session'[p].pc = "load_member" /\ session'[p].op = session[p].op
          /\ session'[p].member = session[p].member
          /\ session'[p].payload = Changes(p)
      BY <1>0, <2>1 DEF Sessions
    <2> QED
      BY <1>1, <2>2, <2>3 DEF LoadProject, Loads, Moves
  <1>2. CASE LoadMember(p)
    <2>1. session[p].op \notin {"none", "create"}
      BY <1>2 DEF Inv, SessionControl, LoadMember
    <2>2. AfterMember(session[p].op) \in {"write", "close", "save", "load_target"}
      BY <2>1 DEF AfterMember
    <2> QED
      BY <1>2, <2>2, GotoMoves DEF LoadMember, Checks, Moves
  <1>3. CASE LoadInvited(p)
    BY <1>3, GotoMoves DEF LoadInvited, Goes, Moves
  <1>4. CASE LoadRemoved(p)
    <2>1. PICK i \in MemberIds :
            session' = [session EXCEPT ![p].member = i, ![p].pc = "delete_member"]
      BY <1>4 DEF LoadRemoved
    <2>2. /\ session'[p].pc = "delete_member" /\ session'[p].op = session[p].op
          /\ session'[p].payload = session[p].payload
      BY <1>0, <2>1 DEF Sessions
    <2> QED
      BY <1>4, <2>2 DEF LoadRemoved, LooksUp, Moves
  <1>5. CASE ProjectNotFound(p) \/ Forbidden(p) \/ MemberExists(p) \/ MemberNotRemovable(p)
    BY <1>5, CloseMoves
    DEF ProjectNotFound, Forbidden, MemberExists, MemberNotRemovable, Moves
  <1> QED
    BY <1>1, <1>2, <1>3, <1>4, <1>5 DEF Query

LEMMA StatementMoves ==
    ASSUME Inv, NEW p \in Processes, Statement(p)
    PROVE  Moves(session[p], session'[p])
  <1>0. session \in [Processes -> Sessions] /\ session[p] \in Sessions
    BY DEF Inv, TypeOK
  <1>1. SessionControl(session[p])
    BY DEF Inv
  <1>2. CASE InsertOwner(p) \/ InsertMember(p)
    <2>1. InsertRow(p) /\ session[p].pc \in {"insert_owner", "insert_member"}
      BY <1>2 DEF InsertOwner, InsertMember
    <2>2. PICK i \in MemberIds :
            session' = [session EXCEPT ![p].member = i, ![p].pc = "commit"]
      BY <2>1 DEF InsertRow
    <2>3. /\ session'[p].pc = "commit" /\ session'[p].op = session[p].op
          /\ session'[p].payload = session[p].payload
      BY <1>0, <2>2 DEF Sessions
    <2>4. session[p].op # "remove"
      BY <1>1, <2>1 DEF SessionControl
    <2> QED
      BY <2>1, <2>3, <2>4 DEF Goes, Moves
  <1>3. CASE InsertProject(p)
    <2>1. session[p].op = "create"
      BY <1>1, <1>3 DEF InsertProject, SessionControl
    <2> QED
      BY <1>3, <2>1, GotoMoves DEF InsertProject, Goes, Moves
  <1>4. CASE DeleteMember(p) \/ Write(p) \/ CloseProject(p) \/ SaveDocument(p)
    <2>1. /\ session[p].pc \in {"delete_member", "write", "close", "save"}
          /\ Goto(p, "commit")
      BY <1>4 DEF DeleteMember, Write, CloseProject, SaveDocument
    <2>2. session[p].op = "remove" => session[p].pc = "delete_member"
      BY <1>1, <2>1 DEF SessionControl
    <2> QED
      BY <2>1, <2>2, GotoMoves DEF Goes, Moves
  <1>5. CASE InsertViolatesUnique(p) \/ WriteViolatesNotNull(p)
    BY <1>5, CloseMoves DEF InsertViolatesUnique, WriteViolatesNotNull, Moves
  <1> QED
    BY <1>2, <1>3, <1>4, <1>5 DEF Statement

\* Every session moves like this, the others staying where they are.
LEMMA SessionMoves ==
    ASSUME Inv, Next, NEW q \in Processes
    PROVE  Moves(session[q], session'[q])
  <1>1. PICK p \in Processes :
            Request(p) \/ Query(p) \/ Statement(p) \/ Commit(p) \/ Fail(p)
    BY DEF Next
  <1>2. CASE q = p
    BY <1>1, <1>2, RequestMoves, QueryMoves, StatementMoves, CloseMoves DEF Fail, Moves
  <1>3. CASE q # p
    <2>1. session'[q] = session[q]
      <3>0. session \in [Processes -> Sessions]
        BY DEF Inv, TypeOK
      <3>1. CASE Request(p)
        BY <1>3, <3>0, <3>1 DEF Request, Create, Update, Delete, Upload, GrantParticipant,
           RemoveMember, Open
      <3>2. CASE Query(p)
        BY <1>3, <3>0, <3>2 DEF Query, LoadProject, ProjectNotFound, LoadMember, Forbidden,
           LoadInvited, MemberExists, LoadRemoved, MemberNotRemovable, Goto, Close
      <3>3. CASE Statement(p) \/ Fail(p)
        BY <1>3, <3>0, <3>3 DEF Statement, InsertProject, InsertOwner, InsertMember,
           InsertRow, InsertViolatesUnique, DeleteMember, Write, WriteViolatesNotNull,
           CloseProject, SaveDocument, Fail, Goto, Close
      <3>4. CASE Commit(p)
        BY <1>3, <3>0, <3>4 DEF Commit
      <3> QED
        BY <1>1, <3>1, <3>2, <3>3, <3>4
    <2> QED
      BY <2>1 DEF Moves
  <1> QED
    BY <1>2, <1>3

\* A row keeps its user, and one that was removed does not come back.
LEMMA RowsStay ==
    ASSUME Inv, Next, NEW i \in MemberIds, members[i] # NoRow
    PROVE  /\ members'[i].user = members[i].user
           /\ Present(i)' => Present(i)
  <1>0. members \in [MemberIds -> Rows]
    BY DEF Inv, TypeOK
  <1>1. PICK p \in Processes :
            Request(p) \/ Query(p) \/ Statement(p) \/ Commit(p) \/ Fail(p)
    BY DEF Next
  <1>2. CASE Commit(p)
    <2>1. InsertControl(p, session[p])
      BY DEF Inv
    <2>2. CASE session[p].op \in {"create", "grant"}
      <3>1. session[p].member # i
        BY <1>2, <2>1, <2>2 DEF InsertControl, Commit
      <3> QED
        BY <1>2, <3>1 DEF Commit, CommittedMember
    <2>3. CASE session[p].op = "remove"
      <3> DEFINE m == session[p].member
      <3>1. m \in MemberIds /\ members' = [members EXCEPT ![m].status = "removed"]
        BY <1>2, <2>3, CommitRemove
      <3> HIDE DEF m
      <3>2. CASE i = m
        <4>1. members'[i] = [members[i] EXCEPT !.status = "removed"]
          BY <1>0, <3>1, <3>2
        <4>2. members[i] \in Rows
          BY <1>0
        <4> QED
          BY <4>1, <4>2 DEF Rows
      <3>3. CASE i # m
        BY <1>0, <3>1, <3>3
      <3> QED
        BY <3>2, <3>3
    <2>4. CASE session[p].op \in {"update", "delete", "upload"}
      BY <1>2, <2>4, CommitProject
    <2> QED
      BY <1>2, <2>2, <2>3, <2>4, CommitOps DEF AllOperations
  <1>3. CASE ~Commit(p)
    <2>1. members' = members
      <3>1. CASE Request(p)
        BY <3>1 DEF Request, Create, Update, Delete, Upload, GrantParticipant,
           RemoveMember, Open
      <3>2. CASE Query(p)
        BY <3>2 DEF Query, LoadProject, ProjectNotFound, LoadMember, Forbidden,
           LoadInvited, MemberExists, LoadRemoved, MemberNotRemovable, Goto, Close
      <3>3. CASE Statement(p) \/ Fail(p)
        BY <3>3 DEF Statement, InsertProject, InsertOwner, InsertMember, InsertRow,
           InsertViolatesUnique, DeleteMember, Write, WriteViolatesNotNull,
           CloseProject, SaveDocument, Fail, Goto, Close
      <3> QED
        BY <1>1, <1>3, <3>1, <3>2, <3>3
    <2> QED
      BY <2>1
  <1> QED
    BY <1>2, <1>3

--------------------------------------------------------------------------------
(* Preservation.                                                           *)

\* The history of a request that goes on.
LEMMA HistoryGrows ==
    ASSUME Inv, HistoryInv, HNext, NEW q \in Processes, ~Idle(q)'
    PROVE  /\ history[q].active => history'[q].active
           /\ project'.status = "active" => history'[q].active
           /\ history[q].roles \subseteq history'[q].roles
           /\ \A role \in {"participant", "owner"} :
                    HasRole(session[q].user, role)' => role \in history'[q].roles
           /\ session[q].member = NoMember => history'[q].granted = history[q].granted
           /\ \A u \in history'[q].granted :
                    u \in history[q].granted \/ (~Member(u) /\ Member(u)')
           /\ ~Idle(q) => history'[q].asked = history[q].asked
           /\ Idle(q) => history'[q].asked = {f \in Fields : session'[q].payload[f] # Unset}
  <1>1. history'[q] = Witnessed(q)
    BY DEF HNext
  <1>2. /\ history'[q].active = (history[q].active \/ project'.status = "active")
        /\ history'[q].roles = history[q].roles \cup
              {role \in {"participant", "owner"} : HasRole(session[q].user, role)'}
        /\ history'[q].granted = history[q].granted \cup
              {u \in Users : /\ session[q].member # NoMember
                             /\ ~Member(u) /\ Member(u)'}
        /\ history'[q].asked = IF Idle(q) THEN {f \in Fields : session'[q].payload[f] # Unset}
                                ELSE history[q].asked
    BY <1>1 DEF Witnessed
  <1>3. history[q].active => history'[q].active
    BY <1>2
  <1>4. /\ history[q].roles \subseteq history'[q].roles
        /\ \A role \in {"participant", "owner"} :
                HasRole(session[q].user, role)' => role \in history'[q].roles
    BY <1>2
  <1>5. /\ session[q].member = NoMember => history'[q].granted = history[q].granted
        /\ \A u \in history'[q].granted :
                u \in history[q].granted \/ (~Member(u) /\ Member(u)')
    BY <1>2
  <1> QED
    BY <1>2, <1>3, <1>4, <1>5

LEMMA CheckedStays ==
    ASSUME Inv, HistoryInv, HNext, NEW q \in Processes
    PROVE  Checked(q)'
  <1> SUFFICES ASSUME session'[q].op # "create", ~Idle(q)'
               PROVE  /\ session'[q].pc # "load_project" => history'[q].active
                      /\ session'[q].pc \notin {"load_project", "load_member"} =>
                            history'[q].roles \cap Required(session'[q].op) # {}
    BY DEF Checked
  <1>1. Moves(session[q], session'[q]) /\ Checked(q)
    BY SessionMoves DEF HNext, HistoryInv
  <1>2. CASE session'[q] = session[q] \/ Goes(session[q], session'[q])
    BY <1>1, <1>2, HistoryGrows DEF Checked, Goes
  <1>3. CASE Arrives(session[q], session'[q])
    BY <1>3 DEF Arrives
  <1>4. CASE Loads(session[q], session'[q])
    BY <1>4, HistoryGrows DEF Loads
  <1>5. CASE Checks(session[q], session'[q])
    <2>1. history'[q].active
      BY <1>1, <1>5, HistoryGrows DEF Checked, Checks
    <2>2. PICK role \in Required(session[q].op) : HasRole(session[q].user, role)
      BY <1>5 DEF Checks
    <2>3. role \in {"participant", "owner"} /\ HasRole(session[q].user, role)'
      BY <1>5, <2>2 DEF Checks, Required
    <2> QED
      BY <1>5, <2>1, <2>2, <2>3, HistoryGrows DEF Checks
  <1>6. CASE LooksUp(session[q], session'[q])
    BY <1>1, <1>6, HistoryGrows DEF Checked, LooksUp
  <1> QED
    BY <1>1, <1>2, <1>3, <1>4, <1>5, <1>6 DEF Moves

LEMMA LookedUpStays ==
    ASSUME Inv, Inv', HistoryInv, HNext, NEW q \in Processes
    PROVE  LookedUp(q)'
  <1> SUFFICES ASSUME session'[q].op = "remove", ~Idle(q)'
               PROVE  LookedUp(q)'
    BY DEF LookedUp
  <1>1. Moves(session[q], session'[q]) /\ LookedUp(q)
    BY SessionMoves DEF HNext, HistoryInv
  <1>2. CASE session[q].op = "remove" /\ session'[q].member = session[q].member
             /\ session[q].pc \in {"delete_member", "commit"}
             /\ session'[q].pc \in {"delete_member", "commit"}
    <2> DEFINE m == session[q].member
    <2>1. m \in MemberIds /\ members[m] # NoRow
      BY <1>2 DEF Inv, RemoveControl
    <2>0. Next
      BY DEF HNext
    <2> HIDE DEF m
    <2>2. members'[m].user = members[m].user /\ (members'[m].status = "present" => Present(m))
      BY <2>0, <2>1, RowsStay
    <2>4. session'[q].member = m /\ session[q].member = m
      BY <1>2 DEF m
    <2>3. ASSUME members'[m].status = "present" PROVE members[m].user \notin history'[q].granted
      <3>1. Member(members[m].user) /\ members[m].user \notin history[q].granted
        BY <1>1, <1>2, <2>1, <2>2, <2>3, <2>4 DEF LookedUp
      <3> QED
        BY <3>1, HistoryGrows
    <2> QED
      BY <1>2, <2>2, <2>3, <2>4 DEF LookedUp
  <1>3. CASE /\ session[q].op = "remove" /\ session'[q].member = session[q].member
             /\ session[q].pc \in {"load_project", "load_member", "load_target"}
             /\ session'[q].pc \in {"load_project", "load_member", "load_target"}
    BY <1>1, <1>3, HistoryGrows DEF LookedUp
  <1>4. CASE Arrives(session[q], session'[q])
    <2>1. history[q] = NoHistory /\ session[q].member = NoMember
      BY <1>4 DEF Arrives, HistoryInv, Inv, SessionControl
    <2> QED
      BY <1>4, <2>1, HistoryGrows DEF Arrives, LookedUp, NoHistory
  <1>5. CASE LooksUp(session[q], session'[q])
    <2>1. history'[q].granted = {}
      BY <1>1, <1>5, HistoryGrows DEF LookedUp, LooksUp
    <2> QED
      BY <1>5, <2>1 DEF LookedUp, LooksUp
  <1>6. CASE session'[q] = session[q]
    <2>1. session[q].pc \in {"load_project", "load_member", "load_target",
                             "delete_member", "commit"}
      BY <1>6 DEF Inv, TypeOK, Sessions, ProgramCounters, SessionControl
    <2> QED
      BY <1>2, <1>3, <1>6, <2>1
  <1>7. CASE Checks(session[q], session'[q])
    <2>1. session'[q].pc = "load_target"
      BY <1>7 DEF Checks, Inv, SessionControl
    <2> QED
      BY <1>3, <1>7, <2>1 DEF Checks
  <1>8. CASE Loads(session[q], session'[q])
    BY <1>3, <1>8 DEF Loads
  <1>9. CASE Goes(session[q], session'[q])
    BY <1>2, <1>9 DEF Goes
  <1> QED
    BY <1>1, <1>4, <1>5, <1>6, <1>7, <1>8, <1>9 DEF Moves

LEMMA AskedStays ==
    ASSUME Inv, Inv', HistoryInv, HNext, NEW q \in Processes
    PROVE  Asked(q)'
  <1> SUFFICES ASSUME session'[q].op = "update", ~Idle(q)'
               PROVE  \A f \in Fields : session'[q].payload[f] # Unset => f \in history'[q].asked
    <2>1. SessionControl(session[q])'
      BY DEF Inv
    <2> QED
      BY <2>1 DEF Asked, SessionControl
  <1>1. Moves(session[q], session'[q]) /\ Asked(q)
    BY SessionMoves DEF HNext, HistoryInv
  <1>2. CASE Idle(q)
    BY <1>2, HistoryGrows
  <1>3. CASE ~Idle(q)
    <2>1. session[q].op = "update" /\
          \A f \in Fields : session'[q].payload[f] # Unset => session[q].payload[f] # Unset
      BY <1>1, <1>3 DEF Moves, Arrives, Loads, Checks, LooksUp, Goes
    <2> QED
      BY <1>1, <1>3, <2>1, HistoryGrows DEF Asked
  <1> QED
    BY <1>2, <1>3

LEMMA HistoryInit == HInit => Inv /\ HistoryInv
  <1> SUFFICES ASSUME HInit PROVE HistoryInv
    BY InitInv DEF HInit
  <1> QED
    BY DEF HInit, Init, HistoryInv, NoHistory, NoSession, Checked, LookedUp, Asked

LEMMA HistoryStep ==
    ASSUME Inv, HistoryInv, [HNext]_historyVars
    PROVE  Inv' /\ HistoryInv'
  <1>1. CASE HNext
    <2>1. Inv'
      BY <1>1, Inductive DEF HNext
    <2>2. ASSUME NEW q \in Processes
          PROVE  /\ Idle(q)' => history'[q] = NoHistory
                 /\ history'[q] \in [active : BOOLEAN, roles : SUBSET {"participant", "owner"},
                                     granted : SUBSET Users, asked : SUBSET Fields]
      <3>1. CASE Idle(q)'
        BY <1>1, <3>1 DEF HNext, NoHistory
      <3>2. CASE ~Idle(q)'
        <4>1. history'[q] = Witnessed(q)
          BY <1>1, <3>2 DEF HNext
        <4>2. Witnessed(q) \in [active : BOOLEAN, roles : SUBSET {"participant", "owner"},
                                granted : SUBSET Users, asked : SUBSET Fields]
          BY DEF Witnessed, HistoryInv
        <4> QED
          BY <3>2, <4>1, <4>2
      <3> QED
        BY <3>1, <3>2
    <2>3. history' = [p \in Processes |-> history'[p]]
      BY <1>1 DEF HNext
    <2>4. \A q \in Processes : Checked(q)' /\ LookedUp(q)' /\ Asked(q)'
      BY <1>1, <2>1, CheckedStays, LookedUpStays, AskedStays
    <2> QED
      BY <2>1, <2>2, <2>3, <2>4 DEF HistoryInv
  <1>2. CASE UNCHANGED historyVars
    <2>1. Inv'
      BY <1>2, Inductive DEF historyVars
    <2> QED
      BY <1>2, <2>1 DEF historyVars, vars, HistoryInv, Checked, LookedUp, Asked
  <1> QED
    BY <1>1, <1>2

LEMMA HistoryInvariance == HSpec => [](Inv /\ HistoryInv)
  <1>1. Inv /\ HistoryInv /\ [HNext]_historyVars => (Inv /\ HistoryInv)'
    BY HistoryStep
  <1> QED
    BY <1>1, HistoryInit, PTL DEF HSpec

--------------------------------------------------------------------------------
(* Theorems.                                                               *)

\* A request that is about to take effect was authorised: the project was active
\* and its user had the role that the operation asks for at some moment since it
\* arrived, however the queries of _get_project_for_user interleave with others.
THEOREM EffectsAuthorised == HSpec => []AuthorisedEffects
  <1>1. Inv /\ HistoryInv => AuthorisedEffects
    BY DEF HistoryInv, Checked, AuthorisedEffects
  <1> QED
    BY <1>1, HistoryInvariance, PTL

\* The DELETE of remove_member names a row by its id, so it ends the membership
\* that was looked up or none.
THEOREM NewMembersStay == HSpec => RemovalKeepsNewMembers
  <1>1. ASSUME Inv, HistoryInv, HNext, NEW p \in Processes, Deleting(p), Idle(p)',
               NEW u \in history[p].granted, Member(u)
        PROVE  Member(u)'
    <2> DEFINE m == session[p].member
    <2>1. m \in MemberIds /\ members[m] # NoRow /\ members \in [MemberIds -> Rows]
      BY <1>1 DEF Inv, RemoveControl, Deleting, TypeOK
    <2>2. PICK i \in MemberIds : Present(i) /\ members[i].user = u
      BY <1>1
    <2>3. i # m
      BY <1>1, <2>2 DEF HistoryInv, LookedUp, Deleting
    <2>4. PICK q \in Processes :
            Request(q) \/ Query(q) \/ Statement(q) \/ Commit(q) \/ Fail(q)
      BY <1>1 DEF HNext, Next
    <2>5. CASE Commit(q)
      <3>1. q = p
        <4>1. session'[p].pc # session[p].pc
          BY <1>1 DEF Deleting
        <4> QED
          BY <1>1, <2>5, <4>1, CommitSessions
      <3>2. members'[i] = members[i]
        BY <2>3, <2>5, <3>1 DEF Commit, CommittedMember
      <3> QED
        BY <2>2, <3>2
    <2>6. CASE Request(q) \/ Query(q) \/ Statement(q) \/ Fail(q)
      <3>1. CASE Request(q)
        BY <2>2, <3>1 DEF Request, Create, Update, Delete, Upload, GrantParticipant,
           RemoveMember, Open
      <3>2. CASE Query(q)
        BY <2>2, <3>2 DEF Query, LoadProject, ProjectNotFound, LoadMember, Forbidden,
           LoadInvited, MemberExists, LoadRemoved, MemberNotRemovable, Goto, Close
      <3>3. CASE Statement(q) \/ Fail(q)
        BY <2>2, <3>3 DEF Statement, InsertProject, InsertOwner, InsertMember, InsertRow,
           InsertViolatesUnique, DeleteMember, Write, WriteViolatesNotNull,
           CloseProject, SaveDocument, Fail, Goto, Close
      <3> QED
        BY <2>6, <3>1, <3>2, <3>3
    <2> QED
      BY <2>4, <2>5, <2>6
  <1>2. Inv /\ HistoryInv /\ [HNext]_historyVars =>
            [\A p \in Processes :
                Deleting(p) /\ Idle(p)' =>
                    \A u \in history[p].granted : Member(u) => Member(u)']_historyVars
    BY <1>1
  <1> QED
    BY <1>2, HistoryInvariance, PTL DEF HSpec, RemovalKeepsNewMembers

\* ProjectService.update writes the columns whose values differ from the loaded
\* ones, and among them none that the payload did not set.
THEOREM OtherFieldsStay == HSpec => UpdateKeepsOtherFields
  <1>1. ASSUME Inv, HistoryInv, HNext, NEW p \in Processes,
               At(p, "commit"), session[p].op = "update", Idle(p)',
               NEW f \in Fields \ history[p].asked
        PROVE  project'.fields[f] = project.fields[f]
    <2>1. PICK q \in Processes :
            Request(q) \/ Query(q) \/ Statement(q) \/ Commit(q) \/ Fail(q)
      BY <1>1 DEF HNext, Next
    <2>2. CASE Commit(q)
      <3>1. q = p
        BY <1>1, <2>2, CommitSessions
      <3>2. session[p].payload[f] = Unset
        BY <1>1 DEF HistoryInv, Asked
      <3>3. project' = [project EXCEPT !.fields = Updated(@, session[p].payload)]
        BY <1>1, <2>2, <3>1 DEF Commit, CommittedProject
      <3>4. project'.fields = Updated(project.fields, session[p].payload)
        BY <1>1, <3>3 DEF Inv, TypeOK
      <3> QED
        BY <3>2, <3>4 DEF Updated
    <2>3. CASE Request(q) \/ Query(q) \/ Statement(q) \/ Fail(q)
      <3>1. CASE Request(q)
        BY <3>1 DEF Request, Create, Update, Delete, Upload, GrantParticipant,
           RemoveMember, Open
      <3>2. CASE Query(q)
        BY <3>2 DEF Query, LoadProject, ProjectNotFound, LoadMember, Forbidden,
           LoadInvited, MemberExists, LoadRemoved, MemberNotRemovable, Goto, Close
      <3>3. CASE Statement(q) \/ Fail(q)
        BY <3>3 DEF Statement, InsertProject, InsertOwner, InsertMember, InsertRow,
           InsertViolatesUnique, DeleteMember, Write, WriteViolatesNotNull,
           CloseProject, SaveDocument, Fail, Goto, Close
      <3> QED
        BY <2>3, <3>1, <3>2, <3>3
    <2> QED
      BY <2>1, <2>2, <2>3
  <1>2. Inv /\ HistoryInv /\ [HNext]_historyVars =>
            [\A p \in Processes :
                At(p, "commit") /\ session[p].op = "update" /\ Idle(p)' =>
                    \A f \in Fields \ history[p].asked :
                        project'.fields[f] = project.fields[f]]_historyVars
    BY <1>1
  <1> QED
    BY <1>2, HistoryInvariance, PTL DEF HSpec, UpdateKeepsOtherFields
================================================================================
