------------------------------ MODULE AutoSend ------------------------------
(***************************************************************************)
(* The one handler that does something before it acknowledges:             *)
(* IKBD_InterruptHandler_AutoSend (ikbd.c) first has the user's events and *)
(* the commands of the control socket processed, and a reset among them    *)
(* starts the list of CycInt anew.                                         *)
(***************************************************************************)
EXTENDS CycInt

CONSTANT INTERRUPT_IKBD_AUTOSEND

(* "hatari-shortcut coldreset" on the control socket, or a shortcut while  *)
(* the emulation is paused.  The reset starts the keyboard and the video   *)
(* again, of which the VBL stands for all that is due in the first line.   *)
Reset_ST(autoSend, line) ==
  /\ phase = "called"
  /\ running = INTERRUPT_IKBD_AUTOSEND
  /\ Representable(Immediate + autoSend)
  /\ Representable(Immediate + line)
  /\ list' = Reschedule(Reschedule(EmptyList, INTERRUPT_IKBD_AUTOSEND, Immediate + autoSend),
                        VBL, Immediate + line)
  /\ delayed' = 0
  /\ ControlUnchanged

NextWithUser == Next \/ \E autoSend, line \in Delays : Reset_ST(autoSend, line)

SpecWithUser == Init /\ [][NextWithUser]_vars /\ Fairness

(* CycInt_AcknowledgeInterrupt takes the head of the list, whichever       *)
(* handler calls it: that must be the handler's own interrupt, or another  *)
(* one is lost.  Video_InterruptHandler_VBL looks before it acknowledges   *)
(* ("In that case we should not acknowledge else this will ack another     *)
(* int", video.c:4970), IKBD_InterruptHandler_AutoSend does not.           *)
AcknowledgesItself ==
  [][phase = "called" /\ phase' = "body" => running = list.ActiveInt]_vars
=============================================================================
