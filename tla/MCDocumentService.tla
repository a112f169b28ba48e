--------------------------- MODULE MCDocumentService ---------------------------
(***************************************************************************)
(* DocumentService for TLC.                                                *)
(***************************************************************************)
EXTENDS DocumentService, TLC

\* Processes of one kind, and keys, are interchangeable in the safety runs.
Symmetry == Permutations(ApiProcesses) \cup Permutations(Docs)
================================================================================
