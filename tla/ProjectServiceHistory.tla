------------------------- MODULE ProjectServiceHistory -------------------------
(***************************************************************************)
(* ProjectService with a history variable: what has been true since each   *)
(* request arrived, so that the checks of a request, which look at         *)
(* different moments, can be compared with what it finally does.           *)
(***************************************************************************)
EXTENDS ProjectService

VARIABLE
    history  \* for each request under way, what held at some moment of it

historyVars == <<vars, history>>

NoHistory == [active |-> FALSE, roles |-> {}, granted |-> {}, asked |-> {}]

\* What a step adds to the history of the request that p serves; granted
\* counts from the look-up of a membership that is to be removed.
Witnessed(p) ==
    [active |-> history[p].active \/ project'.status = "active",
     roles |-> history[p].roles \cup
                  {role \in {"participant", "owner"} :
                        HasRole(session[p].user, role)'},
     granted |-> history[p].granted \cup
                    {u \in Users : /\ session[p].member # NoMember
                                   /\ ~Member(u) /\ Member(u)'},
     asked |-> IF Idle(p) THEN {f \in Fields : session'[p].payload[f] # Unset}
               ELSE history[p].asked]

HInit == Init /\ history = [p \in Processes |-> NoHistory]

HNext ==
    /\ Next
    /\ history' = [p \in Processes |-> IF Idle(p)' THEN NoHistory ELSE Witnessed(p)]

HSpec == HInit /\ [][HNext]_historyVars

\* A request takes effect only if the project was active at some moment after the
\* request arrived, and its user had the role the operation asks for at some such
\* moment, not necessarily the same one (two queries): later requests of a removed
\* member, or for a deleted project, have no effect.
AuthorisedEffects ==
    \A p \in Processes :
        At(p, "commit") /\ session[p].op # "create" =>
            /\ history[p].active
            /\ history[p].roles \cap Required(session[p].op) # {}

\* A removal ends the membership that it looked up: one that was granted
\* afterwards, the first being gone already, stays.
RemovalKeepsNewMembers ==
    [][\A p \in Processes :
            Deleting(p) /\ Idle(p)' =>
                \A u \in history[p].granted : Member(u) => Member(u)']_historyVars

\* An update changes no field that its request did not set, whatever others
\* have committed since it loaded the project.
UpdateKeepsOtherFields ==
    [][\A p \in Processes :
            At(p, "commit") /\ session[p].op = "update" /\ Idle(p)' =>
                \A f \in Fields \ history[p].asked :
                    project'.fields[f] = project.fields[f]]_historyVars
================================================================================
