---------------------------- MODULE MCProjectService ----------------------------
(***************************************************************************)
(* ProjectService and its history for TLC.                                 *)
(***************************************************************************)
EXTENDS ProjectServiceHistory, TLC

\* Processes, users, ids and texts are interchangeable.
Symmetry ==
    Permutations(Processes) \cup Permutations(Users)
        \cup Permutations(MemberIds) \cup Permutations(Texts)
================================================================================
