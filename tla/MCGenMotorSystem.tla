-------------------------- MODULE MCGenMotorSystem --------------------------
(***************************************************************************)
(* Small instances of GenMotorSystem.                                      *)
(***************************************************************************)
EXTENDS GenMotorSystem

CONSTANTS c1, c2, t0, t1

\* Node IDs at the edges of the range: below and above the management ID.
MCDefaultNodeId == [m \in Motor |-> IF m = 0 THEN 125 ELSE 127]
MCDefaultPeriod == [m \in Motor |-> 10]
MCNodeIdArg == {1, 125}

\* One thread commands the motors and moves them to other node IDs.
OneThreadOps == [c \in Caller |-> {"set_node_id", "set_speed_target"}]

\* One thread commands the motors, another one changes their node IDs.
TwoThreadOps == [c \in Caller |-> IF c = c1 THEN {"set_speed_target"}
                                  ELSE {"set_node_id"}]
=============================================================================
