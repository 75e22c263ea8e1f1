---------------------------- MODULE CycIntHorizon ----------------------------
(* CycInt with the history variable of MFP: the time before which no       *)
(* interrupt is left to be processed.  It is the due time of the handler   *)
(* called last, and the present once CycInt_Process found nothing more     *)
(* due.  It restricts nothing: every behaviour of CycInt has one.          *)
EXTENDS CycInt

VARIABLE horizon

HorizonInit == Init /\ horizon = 0

HorizonNext ==
  /\ Next
  /\ horizon' = CASE CycInt_CallActiveHandler -> list.ActiveInt_Cycles
                  [] LoopEnds -> Immediate
                  [] OTHER -> horizon

HorizonSpec == HorizonInit /\ [][HorizonNext]_<<vars, horizon>>

(* What MFP assumes of its timers (InterruptHandler_Timer): their handlers *)
(* are called in the order of their due times, none for a time before the  *)
(* horizon and none for a time still ahead.                                *)
CalledInOrder ==
  [][CycInt_CallActiveHandler => list.ActiveInt_Cycles \in horizon..Immediate]_<<vars, horizon>>

(* The inductive invariant: nothing is due before the horizon.             *)
NothingBeforeHorizon ==
  /\ horizon \in 0..Immediate
  /\ \A i \in Linked(list) : horizon <= list.Cycles[i]

(* A timer that is due again at once, for a second input to its MFP before *)
(* the processor goes on, was just one period late, and its period is      *)
(* shorter than the longest instruction and pass of the blitter: the       *)
(* channels MFP names in Repeats.                                          *)
OnlyFastTimersRepeat ==
  [][\A p \in Periods :
       RestartTimer(p) /\ list'.Cycles[running] = Immediate
         => delayed = -p /\ p < MaxInstr + MaxPass]_vars
=============================================================================
