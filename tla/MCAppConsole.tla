------------------------------ MODULE MCAppConsole ------------------------------
(***************************************************************************)
(* AppConsole for TLC.                                                     *)
(***************************************************************************)
EXTENDS AppConsole
================================================================================
