--------------------------- MODULE MCUartProtocol ----------------------------
(***************************************************************************)
(* Small instances of UartProtocol.                                        *)
(***************************************************************************)
EXTENDS UartProtocol

CONSTANTS Known, Other

MCCmd == {Known, Other}
MCTable == {<<Known>>}
=============================================================================
