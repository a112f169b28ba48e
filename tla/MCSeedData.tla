------------------------------- MODULE MCSeedData -------------------------------
(***************************************************************************)
(* SeedData for TLC.                                                       *)
(***************************************************************************)
EXTENDS SeedData
================================================================================
