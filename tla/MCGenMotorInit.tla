--------------------------- MODULE MCGenMotorInit ---------------------------
(***************************************************************************)
(* Small instances of GenMotorInit: the driver registers the clients c1    *)
(* and c2, other users of the transport the clients c3 and c4.             *)
(***************************************************************************)
EXTENDS GenMotorInit

CONSTANTS c1, c2, c3, c4, i1, i2, h1, h2, s1, s2

\* Which frames a filter admits makes no difference here.
MCWants == [c \in Client |-> {i1}]

\* Each filter of the driver admits a frame of its own.
TwoGroups == [c \in Client |-> IF c = c1 THEN {i1} ELSE {i2}]

MCFilters == <<c1, c2>>

MCNoHandle == SlotCount
=============================================================================
