--------------------------- MODULE MC_SessionRunner ---------------------------
(* Two runs that are given the same directory.                      *)
EXTENDS SessionRunner

CONSTANTS first, second

MC_Runners == {first, second}
MC_Codes == {0, 1}
MC_Deaths == {11}
=============================================================================
