---------------------------- MODULE MCBinding ----------------------------
(* Small instance of Binding for TLC. *)
EXTENDS Binding

CONSTANTS nobody, friends
=============================================================================
