------------------------------ MODULE MC_CycInt ------------------------------
(* A small instance of CycInt: the VBL, the blitter, one timer.             *)
EXTENDS CycInt

CONSTANTS null, vbl, blitter, timerA, nil

MC_Ids == {null, vbl, blitter, timerA}
MC_Timers == {timerA}
MC_Shifts == {-1}
=============================================================================
