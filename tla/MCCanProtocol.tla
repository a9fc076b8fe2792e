---------------------------- MODULE MCCanProtocol ---------------------------
(***************************************************************************)
(* Small instances of CanProtocol.                                         *)
(***************************************************************************)
EXTENDS CanProtocol

CONSTANTS c1, c2, c3, i1, i2, h1, h2, h3, s1, s2

\* The first client listens to one identifier, the others to another one.
MCWants == [c \in Client |-> IF c = c1 THEN {i1} ELSE {i2}]
=============================================================================
