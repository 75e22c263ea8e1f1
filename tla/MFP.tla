-------------------------------- MODULE MFP --------------------------------
(***************************************************************************)
(* The interrupt controller of the MFP 68901 (mfp.c) and the places where  *)
(* the processor meets it (newcpu.c, m68000.c): inputs on its channels,    *)
(* writes to its registers in the middle of an instruction, the delay of   *)
(* the IRQ line and the interrupt acknowledge cycle.  A TT has two.        *)
(*                                                                         *)
(* Times are CPU cycles.  The events that the internal timers deliver come *)
(* in the order of their due times, as CycInt shows.                       *)
(***************************************************************************)
EXTENDS Integers, FiniteSets

CONSTANTS
  Main,             \* pMFP_Main
  TT,               \* pMFP_TT
  IsTT,             \* Config_IsMachineTT()
  CycleExact,       \* CpuRunCycleExact
  AccurateIPL,      \* m68k_accurate_ipl: a 68000 or 68010, cycle exact
  Channels,         \* the channels in use, MFP_INT_GPIP0 = 0 to MFP_INT_GPIP7 = 15
  Enables,          \* values written to IERA and IERB
  Masks,            \* values written to IMRA and IMRB
  Keeps,            \* values written to IPRA, IPRB, ISRA and ISRB: bits left alone
  Repeats,          \* channels that may have several inputs before an update:
                    \* timers faster than an instruction or a blitter's pass
  Never,            \* UINT64_MAX
  IRQ_DELAY_TO_CPU, \* MFP_IRQ_DELAY_TO_CPU
  IACK_START,       \* CPU_IACK_CYCLES_START
  WRITE_CYCLES,     \* cycles until a write access is completed
  EClock,           \* cycles that M68000_WaitEClock may take
  MaxInstr,         \* longest instruction
  MaxClock          \* bound: the clock stops there

ASSUME MachineAssumption ==
  /\ Main # TT
  /\ IsTT \in BOOLEAN
  /\ CycleExact \in BOOLEAN
  /\ AccurateIPL \in BOOLEAN
  /\ AccurateIPL => CycleExact

ASSUME RegisterAssumption ==
  /\ Channels \subseteq 0..15
  /\ Enables \subseteq SUBSET Channels /\ Enables # {}
  /\ Masks \subseteq SUBSET Channels /\ Masks # {}
  /\ Keeps \subseteq SUBSET Channels
  /\ Repeats \subseteq Channels

ASSUME TimeAssumption ==
  /\ Never \in Nat
  /\ IRQ_DELAY_TO_CPU \in Nat
  /\ IACK_START \in Nat
  /\ WRITE_CYCLES \in Nat
  /\ EClock \subseteq Nat
  /\ MaxInstr \in Nat \ {0}
  /\ MaxClock \in Nat /\ MaxClock < Never

(* No time of the model reaches UINT64_MAX. *)
ASSUME BoundAssumption ==
  /\ MaxInstr <= MaxClock
  /\ \A e \in EClock \union {0} : MaxClock + IACK_START + e < Never

MFPs == IF IsTT THEN {Main, TT} ELSE {Main}

NoInterrupt == -1

VARIABLES
  mfp,          \* the registers and the IRQ state of each MFP
  updateNeeded, \* MFP_UpdateNeeded
  spcMFP,       \* SPCFLAG_MFP in regs.spcflags
  level6,       \* bit 6 of pendingInterrupts
  video,        \* bit 2 or bit 4 of pendingInterrupts: an HBL or a VBL
  ipl_pin,      \* regs.ipl_pin = 6
  masked,       \* regs.intmask >= 6
  clock,        \* CyclesGlobalClockCounter
  currcycle,    \* cycles of the current instruction not yet in the clock
  served,       \* channels that had an input since the timers were last processed
  horizon,      \* due time of the last internal timer that was processed
  pc,           \* where the processor is in its loop
  accessed      \* the MFP whose register the instruction accesses

levels == <<level6, video, ipl_pin>>

vars == <<mfp, updateNeeded, spcMFP, levels, masked, clock, currcycle, served, horizon, pc, accessed>>

(* An A register and its B twin are one set of channels. *)
Registers ==
  [IER : SUBSET Channels, IPR : SUBSET Channels, ISR : SUBSET Channels,
   IMR : SUBSET Channels, SEI : BOOLEAN,
   IRQ : BOOLEAN, IRQ_CPU : BOOLEAN, IRQ_Time : Int,
   Current_Interrupt : Channels \union {NoInterrupt},
   Pending_Time : [Channels -> Int], Pending_Time_Min : Int]

Places == {"opcode", "timers", "access", "process", "special", "iack", "videoiack"}

(* CycInt_Process calls the handlers that are due. *)
Handlers == {"timers", "process", "iack", "videoiack"}

TypeOK ==
  /\ mfp \in [MFPs -> Registers]
  /\ updateNeeded \in BOOLEAN
  /\ spcMFP \in BOOLEAN
  /\ level6 \in BOOLEAN
  /\ video \in BOOLEAN
  /\ ipl_pin \in BOOLEAN
  /\ masked \in BOOLEAN
  /\ clock \in Nat
  /\ currcycle \in Nat
  /\ served \subseteq MFPs \X Channels
  /\ horizon \in Nat
  /\ pc \in Places
  /\ accessed \in MFPs

-----------------------------------------------------------------------------
(* The request logic of one MFP, r being its registers. *)

Unmasked(r) == r.IPR \intersect r.IMR

(* No channel of the same or a higher priority is in service. *)
NotBlocked(r, ch) == \A s \in r.ISR : s < ch

Allowed(r) == {ch \in Unmasked(r) : NotBlocked(r, ch)}

InterruptRequest(r, ch) ==
  /\ ch \in Unmasked(r)
  /\ r.Pending_Time[ch] <= r.Pending_Time_Min
  /\ NotBlocked(r, ch)

Highest(S) == CHOOSE n \in S : \A m \in S : m <= n

CheckPendingInterrupts(r) ==
  LET requests == {ch \in Channels : InterruptRequest(r, ch)}
  IN IF requests = {} THEN NoInterrupt ELSE Highest(requests)

(* A bug: Current_Interrupt is cleaned up when nothing can be requested.   *)
UpdateIRQ_ClearsCurrent(r, eventTime) ==
  LET new == CheckPendingInterrupts(r)
      time == IF eventTime # 0 THEN eventTime ELSE r.Pending_Time[new]
  IN IF new = NoInterrupt
       THEN [r EXCEPT !.IRQ = FALSE, !.Current_Interrupt = new,
                      !.Pending_Time_Min = Never]
       ELSE [r EXCEPT !.IRQ = TRUE, !.Current_Interrupt = new,
                      !.IRQ_Time = IF r.IRQ THEN @ ELSE time,
                      !.Pending_Time_Min = Never]

(* A bug: Pending_Time_Min is reset only when a request is found.          *)
UpdateIRQ_KeepsTimeMin(r, eventTime) ==
  LET new == CheckPendingInterrupts(r)
      time == IF eventTime # 0 THEN eventTime ELSE r.Pending_Time[new]
  IN IF new = NoInterrupt
       THEN [r EXCEPT !.IRQ = FALSE]
       ELSE [r EXCEPT !.IRQ = TRUE, !.Current_Interrupt = new,
                      !.IRQ_Time = IF r.IRQ THEN @ ELSE time,
                      !.Pending_Time_Min = Never]

UpdateIRQ(r, eventTime) ==
  LET new == CheckPendingInterrupts(r)
      time == IF eventTime # 0 THEN eventTime ELSE r.Pending_Time[new]
  IN IF new = NoInterrupt
       THEN [r EXCEPT !.IRQ = FALSE, !.Pending_Time_Min = Never]
       ELSE [r EXCEPT !.IRQ = TRUE,
                      !.Current_Interrupt = new,
                      !.IRQ_Time = IF r.IRQ THEN @ ELSE time,
                      !.Pending_Time_Min = Never]

(* A bug: masked inputs count for Pending_Time_Min too. *)
InputOnChannel_MaskedCounts(r, ch, time) ==
  IF ch \in r.IER
    THEN [r EXCEPT !.IPR = @ \union {ch},
                   !.Pending_Time[ch] = time,
                   !.Pending_Time_Min = IF time < @ THEN time ELSE @]
    ELSE [r EXCEPT !.IPR = @ \ {ch}]

InputOnChannel(r, ch, time) ==
  IF ch \in r.IER
    THEN [r EXCEPT !.IPR = @ \union {ch},
                   !.Pending_Time[ch] = time,
                   !.Pending_Time_Min =
                     IF ch \in r.IMR /\ time < @ THEN time ELSE @]
    ELSE [r EXCEPT !.IPR = @ \ {ch}]

(* The vector is taken from Current_Interrupt, whatever the first update   *)
(* has found.  There is no bit for MFP_Reset's -1.                         *)
ProcessIACK(r, time) ==
  LET now == UpdateIRQ(r, time)
      bit == {now.Current_Interrupt} \ {NoInterrupt}
  IN UpdateIRQ([now EXCEPT !.IPR = @ \ bit,
                           !.ISR = IF r.SEI THEN @ \union bit ELSE @ \ bit],
               time)

Delayed(r, time) == r.IRQ /\ time - r.IRQ_Time < IRQ_DELAY_TO_CPU

(* A bug: the processor does not see the line fall. *)
DelayIRQ_OnlyRising(r, time) ==
  IF Delayed(r, time) \/ ~r.IRQ THEN r ELSE [r EXCEPT !.IRQ_CPU = r.IRQ]

DelayIRQ(r, time) ==
  IF Delayed(r, time) THEN r ELSE [r EXCEPT !.IRQ_CPU = r.IRQ]

(* Every MFP_UpdateIRQ ends so, whichever MFP it was for. *)
Updated ==
  /\ spcMFP' = TRUE
  /\ updateNeeded' = FALSE

(* if ( MFP_UpdateNeeded ) MFP_UpdateIRQ_All ( 0 ) *)
UpdateIfNeeded ==
  IF updateNeeded
    THEN /\ mfp' = [m \in MFPs |-> UpdateIRQ(mfp[m], 0)]
         /\ Updated
    ELSE UNCHANGED <<mfp, updateNeeded, spcMFP>>


-----------------------------------------------------------------------------
(* Inputs. *)

CyclesImmediate == clock + (IF CycleExact THEN currcycle ELSE 0)

(* A timer is restarted after the time that is processed, and a line that  *)
(* triggered must be released first: only some channels have a second      *)
(* input before MFP_UpdateIRQ is called.                                   *)
Served(m, ch) ==
  /\ <<m, ch>> \in served => ch \in Repeats
  /\ served' = served \union {<<m, ch>>}

(* A handler tells how late it is relative to the time CycInt processes,   *)
(* and MFP_InputOnChannel takes that from the clock at the start of the    *)
(* instruction.                                                            *)
EventTime_Added(due) == clock + (CyclesImmediate - due)

EventTime(due) == clock - (CyclesImmediate - due)

(* The handler of a timer is called. *)
InterruptHandler_Timer(m, ch) ==
  /\ pc \in Handlers
  /\ \E due \in horizon..CyclesImmediate :
       /\ mfp' = [mfp EXCEPT ![m] = InputOnChannel(@, ch, EventTime(due))]
       /\ horizon' = due
  /\ Served(m, ch)
  /\ updateNeeded' = TRUE
  /\ UNCHANGED <<spcMFP, levels, masked, clock, currcycle, pc, accessed>>

(* An instruction accesses a device that changes an input line of the MFP, *)
(* or the handler of a device does: that is not late, even when the timers *)
(* around it are.                                                          *)
GPIP_Set_Line_Input(m, ch) ==
  /\ pc \in Handlers \union {"opcode"}
  /\ mfp' = [mfp EXCEPT ![m] = InputOnChannel(@, ch, clock)]
  /\ Served(m, ch)
  /\ updateNeeded' = TRUE
  /\ UNCHANGED <<spcMFP, levels, masked, clock, currcycle, horizon, pc, accessed>>

(* doint() takes the highest level to the pin, but is called only when     *)
(* some level is pending.                                                  *)
Update_intlev ==
  /\ level6' = \E m \in MFPs : mfp'[m].IRQ_CPU
  /\ ipl_pin' = IF level6' \/ video' THEN level6' ELSE ipl_pin

(* The handler of an HBL or a VBL is called. *)
InterruptHandler_Video ==
  /\ pc \in Handlers
  /\ video' = TRUE
  /\ UNCHANGED <<mfp, updateNeeded, spcMFP, masked, clock, currcycle, served, horizon, pc, accessed>>
  /\ Update_intlev

-----------------------------------------------------------------------------
(* An instruction accesses a register. *)

(* Wait states are added, then MFP_UpdateTimers lets CycInt process what   *)
(* is due: the handlers run while pc = "timers".                           *)
AccessRegister(m) ==
  /\ pc = "opcode"
  /\ accessed' = m
  /\ pc' = IF CycleExact THEN "timers" ELSE "access"
  /\ \E c \in currcycle..(MaxInstr - WRITE_CYCLES) : currcycle' = c
  /\ UNCHANGED <<mfp, updateNeeded, spcMFP, levels, masked, clock, served, horizon>>

UpdateTimers ==
  /\ pc = "timers"
  /\ pc' = "access"
  /\ horizon' = CyclesImmediate
  /\ served' = {}
  /\ IF updateNeeded
       THEN /\ mfp' = [mfp EXCEPT ![accessed] = UpdateIRQ(@, CyclesImmediate)]
            /\ Updated
       ELSE UNCHANGED <<mfp, updateNeeded, spcMFP>>
  /\ UNCHANGED <<levels, masked, clock, currcycle, accessed>>

(* The end of every handler of a register that changes what is requested.  *)
WriteRegister(r) ==
  /\ pc = "access"
  /\ pc' = "opcode"
  /\ mfp' = [mfp EXCEPT ![accessed] = UpdateIRQ(r, clock + currcycle + WRITE_CYCLES)]
  /\ currcycle' = currcycle + WRITE_CYCLES
  /\ Updated
  /\ UNCHANGED <<levels, masked, clock, served, horizon, accessed>>

(* A bug: an interrupt that is disabled stays pending. *)
Enable_WriteByte_KeepsPending(v) ==
  WriteRegister([mfp[accessed] EXCEPT !.IER = v])

Enable_WriteByte(v) ==
  WriteRegister([mfp[accessed] EXCEPT !.IER = v, !.IPR = @ \intersect v])

Pending_WriteByte(v) ==
  WriteRegister([mfp[accessed] EXCEPT !.IPR = @ \intersect v])

InService_WriteByte(v) ==
  WriteRegister([mfp[accessed] EXCEPT !.ISR = @ \intersect v])

Mask_WriteByte(v) ==
  WriteRegister([mfp[accessed] EXCEPT !.IMR = v])

(* Leaving the software end-of-interrupt mode ends every interrupt.        *)
VectorReg_LeaveSEI ==
  /\ mfp[accessed].SEI
  /\ WriteRegister([mfp[accessed] EXCEPT !.SEI = FALSE, !.ISR = {}])

VectorReg_EnterSEI ==
  /\ pc = "access"
  /\ pc' = "opcode"
  /\ mfp' = [mfp EXCEPT ![accessed].SEI = TRUE]
  /\ currcycle' = currcycle + WRITE_CYCLES
  /\ UNCHANGED <<updateNeeded, spcMFP, levels, masked, clock, served, horizon, accessed>>

(* The handlers of the reads end after MFP_UpdateTimers. *)
ReadByte ==
  /\ pc = "access"
  /\ pc' = "opcode"
  /\ UNCHANGED <<mfp, updateNeeded, spcMFP, levels, masked, clock, currcycle,
                 served, horizon, accessed>>

-----------------------------------------------------------------------------
(* The rest of the processor's loop. *)

ResetRegisters(r) ==
  [IER |-> {}, IPR |-> {}, ISR |-> {}, IMR |-> {}, SEI |-> FALSE,
   IRQ |-> FALSE, IRQ_CPU |-> FALSE, IRQ_Time |-> 0,
   Current_Interrupt |-> NoInterrupt,
   Pending_Time |-> [ch \in Channels |-> Never], Pending_Time_Min |-> Never]

(* The instruction RESET.  MFP_UpdateNeeded, SPCFLAG_MFP and the pin stay. *)
customreset ==
  /\ pc = "opcode"
  /\ mfp' = [m \in MFPs |-> ResetRegisters(mfp[m])]
  /\ level6' = FALSE
  /\ video' = FALSE
  /\ UNCHANGED <<updateNeeded, spcMFP, ipl_pin, masked, clock, currcycle, served, horizon, pc, accessed>>

(* A move to SR, or the RTE at the end of a handler. *)
ChangeIntmask ==
  /\ pc = "opcode"
  /\ masked' = ~masked
  /\ UNCHANGED <<mfp, updateNeeded, spcMFP, levels, clock, currcycle, served, horizon, pc, accessed>>

EndOfInstruction ==
  /\ pc = "opcode"
  /\ pc' = "process"
  /\ \E c \in 1..MaxInstr : c >= currcycle /\ clock' = clock + c
  /\ clock' <= MaxClock
  /\ currcycle' = 0
  /\ UNCHANGED <<mfp, updateNeeded, spcMFP, levels, masked, served, horizon, accessed>>

CycInt_Process ==
  /\ pc = "process"
  /\ pc' = "special"
  /\ horizon' = clock
  /\ served' = {}
  /\ UpdateIfNeeded
  /\ UNCHANGED <<levels, masked, clock, currcycle, accessed>>

(* A bug: SPCFLAG_MFP is unset though a line is still delayed. *)
PropagateIRQ_Unsets ==
  /\ UNCHANGED video
  /\ IF spcMFP
       THEN /\ mfp' = [m \in MFPs |-> DelayIRQ(mfp[m], clock)]
            /\ spcMFP' = FALSE
            /\ Update_intlev
       ELSE UNCHANGED <<mfp, spcMFP, level6, ipl_pin>>

(* A bug: one line that is not delayed is enough to unset SPCFLAG_MFP.     *)
PropagateIRQ_OneSuffices ==
  /\ UNCHANGED video
  /\ IF spcMFP
       THEN /\ mfp' = [m \in MFPs |-> DelayIRQ(mfp[m], clock)]
            /\ spcMFP' = \A m \in MFPs : Delayed(mfp[m], clock)
            /\ Update_intlev
       ELSE UNCHANGED <<mfp, spcMFP, level6, ipl_pin>>

(* MFP_DelayIRQ, then M68000_Update_intlev. *)
PropagateIRQ ==
  /\ UNCHANGED video
  /\ IF spcMFP
       THEN /\ mfp' = [m \in MFPs |-> DelayIRQ(mfp[m], clock)]
            /\ spcMFP' = \E m \in MFPs : Delayed(mfp[m], clock)
            /\ Update_intlev
       ELSE UNCHANGED <<mfp, spcMFP, level6, ipl_pin>>

(* time_for_interrupt() looks at the pin as it was latched, the other      *)
(* cores at pendingInterrupts.                                             *)
SeesLevel6 == IF AccurateIPL THEN ipl_pin' ELSE level6'

(* M68000_Update_intlev latches the pin at once.  Otherwise an instruction *)
(* latches it, perhaps too early for this time; and the other cores wait   *)
(* until SPCFLAG_DOINT has become SPCFLAG_INT.                             *)
MayBeLate == ~(AccurateIPL /\ spcMFP)

(* The processor takes level 6, or an HBL or a VBL, or goes on with the    *)
(* next instruction.  12 cycles lead to the acknowledge.                   *)
do_specialties_Level6 ==
  /\ pc = "special"
  /\ PropagateIRQ
  /\ SeesLevel6 /\ ~masked
  /\ pc' = "iack"
  /\ clock' = clock + IACK_START
  /\ UNCHANGED <<updateNeeded, masked, currcycle, served, horizon, accessed>>

do_specialties_Video ==
  /\ pc = "special"
  /\ PropagateIRQ
  /\ ~SeesLevel6 /\ video /\ ~masked
  /\ pc' = "videoiack"
  /\ \E e \in EClock : clock' = clock + IACK_START + e
  /\ UNCHANGED <<updateNeeded, masked, currcycle, served, horizon, accessed>>

do_specialties_None ==
  /\ pc = "special"
  /\ PropagateIRQ
  /\ SeesLevel6 => masked \/ MayBeLate
  /\ pc' = "opcode"
  /\ UNCHANGED <<updateNeeded, masked, clock, currcycle, served, horizon, accessed>>

-----------------------------------------------------------------------------
(* The acknowledge cycles: CycInt_Process has called the handlers that are *)
(* due by then.                                                            *)

(* The IRQ line of the TT MFP decides as it is, before it is updated.      *)
IACKFrom == IF IsTT /\ mfp[TT].IRQ THEN TT ELSE Main

(* A bug: do_interrupt() ends without doint(). *)
iack_cycle_Level6_KeepsPin ==
  /\ pc = "iack"
  /\ pc' = "opcode"
  /\ horizon' = clock
  /\ served' = {}
  /\ mfp' = [mfp EXCEPT ![IACKFrom] = ProcessIACK(@, clock)]
  /\ Updated
  /\ level6' = FALSE
  /\ masked' = TRUE
  /\ UNCHANGED <<video, ipl_pin, clock, currcycle, accessed>>

(* do_interrupt() ends with doint(). *)
iack_cycle_Level6 ==
  /\ pc = "iack"
  /\ pc' = "opcode"
  /\ horizon' = clock
  /\ served' = {}
  /\ mfp' = [mfp EXCEPT ![IACKFrom] = ProcessIACK(@, clock)]
  /\ Updated
  /\ level6' = FALSE
  /\ ipl_pin' = FALSE
  /\ masked' = TRUE
  /\ UNCHANGED <<video, clock, currcycle, accessed>>

(* One of HBL and VBL may be left. *)
iack_cycle_Video ==
  /\ pc = "videoiack"
  /\ pc' = "opcode"
  /\ horizon' = clock
  /\ served' = {}
  /\ UpdateIfNeeded
  /\ video' \in BOOLEAN
  /\ ipl_pin' = level6
  /\ UNCHANGED <<level6, masked, clock, currcycle, accessed>>

-----------------------------------------------------------------------------
(* A program has set the registers up and nothing has happened yet. *)
Init ==
  /\ \E ier \in Enables, imr \in Masks, sei \in BOOLEAN :
       mfp = [m \in MFPs |->
                [IER |-> ier, IPR |-> {}, ISR |-> {}, IMR |-> imr, SEI |-> sei,
                 IRQ |-> FALSE, IRQ_CPU |-> FALSE, IRQ_Time |-> 0,
                 Current_Interrupt |-> NoInterrupt,
                 Pending_Time |-> [ch \in Channels |-> Never],
                 Pending_Time_Min |-> Never]]
  /\ updateNeeded = FALSE
  /\ spcMFP = FALSE
  /\ level6 = FALSE
  /\ video = FALSE
  /\ ipl_pin = FALSE
  /\ masked = FALSE
  /\ clock = MaxInstr
  /\ currcycle = 0
  /\ served = {}
  /\ horizon = clock
  /\ pc = "opcode"
  /\ accessed = Main

Inputs ==
  \/ \E m \in MFPs, ch \in Channels :
       \/ InterruptHandler_Timer(m, ch)
       \/ GPIP_Set_Line_Input(m, ch)
  \/ InterruptHandler_Video

Accesses ==
  \/ \E m \in MFPs : AccessRegister(m)
  \/ UpdateTimers
  \/ \E v \in Enables : Enable_WriteByte(v)
  \/ \E v \in Masks : Mask_WriteByte(v)
  \/ \E v \in Keeps : Pending_WriteByte(v)
  \/ \E v \in Keeps : InService_WriteByte(v)
  \/ VectorReg_LeaveSEI
  \/ VectorReg_EnterSEI
  \/ ReadByte

Processor ==
  \/ customreset
  \/ ChangeIntmask
  \/ EndOfInstruction
  \/ CycInt_Process
  \/ do_specialties_Level6
  \/ do_specialties_Video
  \/ do_specialties_None
  \/ iack_cycle_Level6
  \/ iack_cycle_Video

Next == Inputs \/ Accesses \/ Processor

Spec == Init /\ [][Next]_vars

-----------------------------------------------------------------------------
(* Properties. *)

(* While an MFP asserts IRQ, the interrupt it would give the vector of is  *)
(* enabled, pending, not masked, and not blocked by one in service: no     *)
(* write to a register and no late timer leaves IRQ or Current_Interrupt   *)
(* behind.                                                                 *)
IRQJustified ==
  \A m \in MFPs :
    mfp[m].IRQ =>
      mfp[m].Current_Interrupt \in Allowed(mfp[m]) \intersect mfp[m].IER

(* An acknowledge cycle for a level 6 that is pending acknowledges a       *)
(* request that is allowed when it happens: however many inputs come       *)
(* between the decision and the acknowledge, no stale vector is taken and  *)
(* no interrupt is put in service under one of higher priority.  Level 6   *)
(* need not be pending: M68000_Update_intlev leaves the pin alone when     *)
(* nothing is (m68000.c:752), and a cycle exact 68000 then acknowledges a  *)
(* request that is gone.                                                   *)
AcknowledgesAllowed ==
  [][pc = "iack" /\ pc' = "opcode" /\ level6 =>
       \E m \in MFPs : \E ch \in Allowed(mfp[m]) :
         /\ mfp'[m].IPR = mfp[m].IPR \ {ch}
         /\ mfp'[m].ISR = IF mfp[m].SEI THEN mfp[m].ISR \union {ch}
                                        ELSE mfp[m].ISR \ {ch}]_vars

(* The pin is level 6 exactly when level 6 is pending, unless nothing that *)
(* the MFPs or the video ask for is: whatever happens between the updates  *)
(* of pendingInterrupts and the calls of doint(), that is the only case in *)
(* which the processor can see a level 6 that was withdrawn.               *)
PinFollows ==
  level6 \/ video => ipl_pin = level6

(* An input that is not masked and that MFP_UpdateIRQ has not seen yet     *)
(* keeps MFP_UpdateNeeded set ("Tell main CPU loop to call                 *)
(* MFP_UpdateIRQ()", mfp.c:1125).                                          *)
UpdateNotForgotten ==
  (\E m \in MFPs : mfp[m].Pending_Time_Min # Never) => updateNeeded

(* What the processor has seen of the IRQ lines is up to date, unless      *)
(* SPCFLAG_MFP will make it look again: clearing the flag when the delay   *)
(* of some line has not passed would lose an interrupt.                    *)
LineNotForgotten ==
  ~spcMFP =>
    /\ \A m \in MFPs : mfp[m].IRQ_CPU = mfp[m].IRQ
    /\ level6 = (\E m \in MFPs : mfp[m].IRQ_CPU)

(* An allowed request that is not signalled was left aside only for an     *)
(* earlier input: one that is blocked by an interrupt in service, or one   *)
(* of a channel that had several inputs at once.  Otherwise every unmasked *)
(* request that nothing in service blocks raises IRQ.                      *)
NoLostRequest ==
  ~updateNeeded =>
    \A m \in MFPs : ~mfp[m].IRQ =>
      \A ch \in Allowed(mfp[m]) :
        \E b \in Unmasked(mfp[m]) :
          \/ b \in Repeats
          \/ /\ b \notin Allowed(mfp[m])
             /\ mfp[m].Pending_Time[b] < mfp[m].Pending_Time[ch]

(* IRQ_Time is in the past when MFP_DelayIRQ subtracts it from the clock:  *)
(* the difference of two uint64_t does not wrap.                           *)
DelayNotNegative ==
  pc = "special" => \A m \in MFPs : mfp[m].IRQ => mfp[m].IRQ_Time <= clock
=============================================================================
