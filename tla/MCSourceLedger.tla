--------------------------- MODULE MCSourceLedger ---------------------------
(* Values of SourceLedger's constants for TLC.                             *)
EXTENDS SourceLedger

CONSTANTS s1, s2

(* Files that have nothing to do with each other.                          *)
Alone == [s \in Source |-> NoParent]

(* s2 is forked from s1.                                                   *)
Forked == [s \in Source |-> IF s = s2 THEN s1 ELSE NoParent]

(* A fork goes on for longer than its parent.                              *)
Three       == [s \in Source |-> 3]
OneAndThree == [s \in Source |-> IF s = s1 THEN 1 ELSE 3]

=============================================================================
