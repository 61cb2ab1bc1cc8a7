----------------------------- MODULE MCDocSync -----------------------------
(* Small instances of DocSync for TLC. *)
EXTENDS DocSync

CONSTANTS o, a, b, RemoteOpens, LocalOpens

MCMaxOpens == [c \in Clients |-> IF c \in Local THEN LocalOpens ELSE RemoteOpens]
=============================================================================
