---------------------------- MODULE MCPumpDrain ----------------------------
(* Model-checking instances of PumpPaced.                                  *)
EXTENDS PumpPaced
=============================================================================
