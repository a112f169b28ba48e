------------------------------ MODULE MCAuthService ------------------------------
(***************************************************************************)
(* AuthService for TLC.                                                    *)
(***************************************************************************)
EXTENDS AuthService
================================================================================
