----------------------------- MODULE MCApiClient -----------------------------
(***************************************************************************)
(* Instances of ApiClient for TLC.                                         *)
(***************************************************************************)
EXTENDS ApiClient

CONSTANTS get, post

MCRequest == {get, post}
MCGets == {get}
=============================================================================
