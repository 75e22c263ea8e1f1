---------------------------- MODULE MC_AutoSend ----------------------------
(* A small instance of AutoSend: the VBL, the blitter, the keyboard. *)
EXTENDS AutoSend

CONSTANTS null, vbl, blitter, autosend, nil

MC_Ids == {null, vbl, blitter, autosend}
============================================================================
