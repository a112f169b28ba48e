------------------------------- MODULE MCS3Events -------------------------------
(***************************************************************************)
(* S3Events for TLC.                                                       *)
(***************************************************************************)
EXTENDS S3Events
================================================================================
