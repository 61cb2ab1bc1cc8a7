------------------------------ MODULE MCOtDoc ------------------------------
(* Small instances of OtDoc for TLC.  The sites are 1, 2, ... *)
EXTENDS OtDoc

CONSTANTS Kinds1, Kinds2, Edits1, Edits2

MCKinds == [c \in Clients |-> IF c = 1 THEN Kinds1 ELSE Kinds2]
MCMaxEdits == [c \in Clients |-> IF c = 1 THEN Edits1 ELSE Edits2]
=============================================================================
