------------------------------- MODULE Gemdos -------------------------------
(***************************************************************************)
(* The GEMDOS drive emulation (gemdos.c) as a whole: handles and searches, *)
(* which programs use independently of each other, and what a reset, the   *)
(* mounting of drives and a snapshot do to both.                           *)
(***************************************************************************)
EXTENDS GemdosFiles, GemdosSearch

vars == <<fileVars, searchVars>>

(* Calls are intercepted while drives are mounted and TOS has booted. *)
GemDOS_Trap ==
  \/ Program /\ UNCHANGED searchVars
  \/ Running /\ SearchCalls /\ UNCHANGED fileVars

ResetMachine ==
  \/ GemDOS_Reset /\ ResetSearches
  \/ GemDOS_Boot /\ UNCHANGED searchVars

ChangeDrives ==
  \/ GemDOS_InitDrives /\ InitSearches
  \/ GemDOS_UnInitDrives /\ FreeSearches

GemDOS_MemorySnapShot_Capture ==
  \/ Save /\ SaveSearches
  \/ Restore /\ RestoreSearches
  \/ Discard /\ DiscardSearches

Init == FilesInit /\ SearchInit

Next == GemDOS_Trap \/ ResetMachine \/ ChangeDrives \/ GemDOS_MemorySnapShot_Capture

Spec == Init /\ [][Next]_vars

-----------------------------------------------------------------------------
(* Handles, redirections and searches are what they are said to be, and    *)
(* while a drive is mounted Fsfirst has a cache to use (gemdos.c,          *)
(* GemDOS_SFirst), whichever way the drives came about: mounted at the     *)
(* start, by the dialog or by a snapshot.                                  *)
TypeOK == FilesTypeOK /\ SearchTypeOK /\ (mounted => DTACount > 0)
=============================================================================
