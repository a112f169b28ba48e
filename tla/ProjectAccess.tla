----------------------------- MODULE ProjectAccess -----------------------------
(***************************************************************************)
(* What ProjectVault promises of the access to one project: it is created  *)
(* with one owner, who stays its owner for good; other users come and go   *)
(* as participants; it is deleted once.                                    *)
(***************************************************************************)
CONSTANT Users

VARIABLES
    status,  \* "absent", "active" or "deleted"
    role     \* the role of each user: "none", "participant" or "owner"

accessVars == <<status, role>>

Init ==
    /\ status = "absent"
    /\ role = [u \in Users |-> "none"]

Create(u) ==
    /\ status = "absent"
    /\ status' = "active"
    /\ role' = [role EXCEPT ![u] = "owner"]

\* An invitation that was accepted before the project's deletion may take
\* effect after it.
Grant(u) ==
    /\ status # "absent"
    /\ role[u] = "none"
    /\ role' = [role EXCEPT ![u] = "participant"]
    /\ UNCHANGED status

Revoke(u) ==
    /\ role[u] = "participant"
    /\ role' = [role EXCEPT ![u] = "none"]
    /\ UNCHANGED status

Delete ==
    /\ status = "active"
    /\ status' = "deleted"
    /\ UNCHANGED role

Next ==
    \/ \E u \in Users : Create(u) \/ Grant(u) \/ Revoke(u)
    \/ Delete

Spec == Init /\ [][Next]_accessVars
================================================================================
