---------------------------- MODULE MCDocLife ----------------------------
(* Small instance of DocLife for TLC: two directories, one of them empty. *)
EXTENDS DocLife

CONSTANTS src, lib, f, g, buffer, none

MCInitFiles == {src} \X Names
=============================================================================
