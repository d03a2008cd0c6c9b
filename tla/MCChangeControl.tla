-------------------------- MODULE MCChangeControl --------------------------
(***************************************************************************)
(* An instance of ChangeControl for TLC: a reviewer and a plain user.      *)
(***************************************************************************)
EXTENDS ChangeControl

CONSTANTS alice, bob

=============================================================================
