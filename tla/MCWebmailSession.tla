-------------------------- MODULE MCWebmailSession --------------------------
(***************************************************************************)
(* An instance of WebmailSession for TLC.                                  *)
(***************************************************************************)
EXTENDS WebmailSession

CONSTANTS r1, r2
=============================================================================
