------------------------------- MODULE CycInt -------------------------------
(***************************************************************************)
(* The internal interrupt scheduler of the emulator (cycInt.c, cycInt.h):  *)
(* a doubly linked list of the active interrupts sorted by due time, the   *)
(* loops that call the handlers whose time has come, and the ways          *)
(* processor and handlers change the list meanwhile.                       *)
(*                                                                         *)
(* Times are in internal cycles (a CPU cycle << CYCINT_SHIFT).             *)
(***************************************************************************)
EXTENDS Integers

CONSTANTS
  Ids,              \* interrupt_id
  INTERRUPT_NULL,   \* the identifier that ends the list and never triggers
  VBL,              \* INTERRUPT_VIDEO_VBL: may be modified, may reset the machine
  Blitter,          \* INTERRUPT_BLITTER: its handler runs other handlers
  Timers,           \* timers whose handler restarts them (MFP timers)
  Nil,              \* -1 in IntList_Prev and IntList_Next
  NullCycles,       \* UINT64_MAX
  CycleExact,       \* CpuRunCycleExact
  Delays,           \* delays given to CycInt_AddRelativeInterrupt
  Periods,          \* periods the timers are programmed with
  Shifts,           \* corrections of the VBL position when a line gets longer
  MaxInstr,         \* longest instruction
  MaxPass,          \* longest time between two flushes of the blitter
  MaxClock          \* bound: the clock stops there

ASSUME IdsAssumption ==
  /\ INTERRUPT_NULL \in Ids
  /\ VBL \in Ids \ {INTERRUPT_NULL}
  /\ Blitter \in Ids \ {INTERRUPT_NULL}
  /\ Timers \subseteq Ids \ {INTERRUPT_NULL, VBL, Blitter}
  /\ VBL # Blitter
  /\ Nil \notin Ids \union Nat

ASSUME TimeAssumption ==
  /\ NullCycles \in Nat
  /\ CycleExact \in BOOLEAN
  /\ Delays \subseteq Nat \ {0}
  /\ Periods \subseteq Nat \ {0}
  /\ Shifts \subseteq Int
  /\ MaxInstr \in Nat \ {0} /\ MaxPass \in Nat /\ MaxClock \in Nat
  /\ MaxClock < NullCycles

Real == Ids \ {INTERRUPT_NULL}

VARIABLES
  list,      \* InterruptHandlers[], CycInt_ActiveInt and CycInt_ActiveInt_Cycles
  delayed,   \* CycInt_DelayedCycles and PendingInterruptCount
  clock,     \* CyclesGlobalClockCounter
  currcycle, \* cycles of the current instruction not yet in the clock
  phase,     \* "cpu", "loop", "called" (before its acknowledge) or "body"
  running,   \* the interrupt whose handler runs, INTERRUPT_NULL if none
  blit       \* the loop runs inside the blitter's handler

vars == <<list, delayed, clock, currcycle, phase, running, blit>>

Lists ==
  [Active : [Ids -> BOOLEAN], Cycles : [Ids -> Nat],
   Prev : [Ids -> Ids \union {Nil}], Next : [Ids -> Ids \union {Nil}],
   ActiveInt : Ids, ActiveInt_Cycles : Nat]

Phases == {"cpu", "loop", "called", "body"}

TypeOK ==
  /\ list \in Lists
  /\ delayed \in Int /\ delayed <= 0
  /\ clock \in Nat
  /\ currcycle \in Nat
  /\ phase \in Phases
  /\ running \in Ids
  /\ blit \in BOOLEAN

-----------------------------------------------------------------------------
(* Operations on the list. *)

Linked(l) == {i \in Ids : l.Active[i]}

EmptyList ==
  [Active |-> [i \in Ids |-> i = INTERRUPT_NULL],
   Cycles |-> [i \in Ids |-> IF i = INTERRUPT_NULL THEN NullCycles ELSE 0],
   Prev |-> [i \in Ids |-> Nil],
   Next |-> [i \in Ids |-> Nil],
   ActiveInt |-> INTERRUPT_NULL,
   ActiveInt_Cycles |-> NullCycles]

(* A bug: the new head still points back to the old one. *)
RemoveHead_StalePrev(l) ==
  LET new == l.Next[l.ActiveInt] IN
  [l EXCEPT !.Active[l.ActiveInt] = FALSE,
            !.ActiveInt = new,
            !.ActiveInt_Cycles = l.Cycles[new]]

RemoveHead(l) ==
  LET new == l.Next[l.ActiveInt] IN
  [l EXCEPT !.Active[l.ActiveInt] = FALSE,
            !.ActiveInt = new,
            !.ActiveInt_Cycles = l.Cycles[new],
            !.Prev[new] = Nil]

RemovePending(l, h) ==
  IF ~l.Active[h] THEN l
  ELSE IF h = l.ActiveInt THEN RemoveHead(l)
  ELSE [l EXCEPT !.Active[h] = FALSE,
                 !.Next[l.Prev[h]] = l.Next[h],
                 !.Prev[l.Next[h]] = l.Prev[h]]

(* A bug: the scan ends at the head, whatever is due there. *)
StopsAt_Head(l, c, n) == n = l.ActiveInt

(* Where the scan of CycInt_InsertInt stops for an interrupt due at c.     *)
StopsAt(l, c, n) ==
  /\ l.Active[n]
  /\ c <= l.Cycles[n]
  /\ n = l.ActiveInt \/ l.Cycles[l.Prev[n]] < c

ScanStop(l, c) == CHOOSE n \in Ids : StopsAt(l, c, n)

(* A bug: the scan goes past the interrupts due at the same time. *)
ScanLoop_PassesEqual(l, c) ==
  LET scan[n \in Linked(l)] == IF c >= l.Cycles[n] THEN scan[l.Next[n]] ELSE n
  IN scan[l.ActiveInt]

(* The loop itself: from the head, while the new interrupt is due later.   *)
ScanLoop(l, c) ==
  LET scan[n \in Linked(l)] == IF c > l.Cycles[n] THEN scan[l.Next[n]] ELSE n
  IN scan[l.ActiveInt]

(* h is not linked: it becomes active with due time c, just before n. *)
InsertBefore(l, h, c, n) ==
  LET linked == [l EXCEPT !.Active[h] = TRUE,
                          !.Cycles[h] = c,
                          !.Next[h] = n,
                          !.Prev[n] = h]
  IN IF n = l.ActiveInt
       THEN [linked EXCEPT !.ActiveInt = h,
                           !.ActiveInt_Cycles = c,
                           !.Prev[h] = Nil]
       ELSE [linked EXCEPT !.Prev[h] = l.Prev[n],
                           !.Next[l.Prev[n]] = h]

InsertInt(l, h, c) == InsertBefore(l, h, c, ScanStop(l, c))

Reschedule(l, h, c) == InsertInt(RemovePending(l, h), h, c)

(* Due times stay below UINT64_MAX: a bound of the model, far beyond the   *)
(* life of a session.                                                      *)
Representable(c) == c \in Nat /\ c < NullCycles

-----------------------------------------------------------------------------
Init ==
  /\ list = EmptyList
  /\ delayed = 0
  /\ clock = 0
  /\ currcycle = 0
  /\ phase = "cpu"
  /\ running = INTERRUPT_NULL
  /\ blit = FALSE

(* Cycles_GetClockCounterImmediate *)
Immediate == IF CycleExact THEN clock + currcycle ELSE clock

(* Devices are accessed by the instruction, or by the body of a handler;   *)
(* the handler of a timer does no more than restart it.                    *)
DevicesRun == phase = "cpu" \/ (phase = "body" /\ running \notin Timers)

ControlUnchanged == UNCHANGED <<clock, currcycle, phase, running, blit>>

CycInt_Reset ==
  /\ phase = "cpu" \/ (phase = "body" /\ running = VBL)
  /\ list' = EmptyList
  /\ delayed' = 0
  /\ ControlUnchanged

CycInt_AddRelativeInterrupt(h, d) ==
  /\ DevicesRun
  /\ Representable(Immediate + d)
  /\ list' = Reschedule(list, h, Immediate + d)
  /\ UNCHANGED delayed
  /\ ControlUnchanged

CycInt_RemovePendingInterrupt(h) ==
  /\ DevicesRun
  /\ list' = RemovePending(list, h)
  /\ UNCHANGED delayed
  /\ ControlUnchanged

(* Video_Update_Glue_State corrects the VBL of the last line, which is     *)
(* scheduled and still ahead.                                              *)
CycInt_ModifyInterrupt(d) ==
  LET c == list.Cycles[VBL] + d IN
  /\ phase = "cpu" \/ (phase = "body" /\ running = Blitter)
  /\ list.Active[VBL]
  /\ c > clock + currcycle
  /\ Representable(c)
  /\ list' = Reschedule(list, VBL, c)
  /\ UNCHANGED delayed
  /\ ControlUnchanged

(* The instruction goes on for d cycles. *)
Execute(d) ==
  /\ phase = "cpu"
  /\ currcycle + d <= MaxInstr
  /\ clock + currcycle + d <= MaxClock
  /\ currcycle' = currcycle + d
  /\ UNCHANGED <<list, delayed, clock, phase, running, blit>>

(* The instruction ends: its cycles reach the clock and CycInt_Process     *)
(* runs.  The same happens before an interrupt acknowledge sequence.       *)
EndInstruction ==
  /\ phase = "cpu"
  /\ currcycle > 0
  /\ clock' = clock + currcycle
  /\ currcycle' = 0
  /\ phase' = "loop"
  /\ UNCHANGED <<list, delayed, running, blit>>

(* MFP_UpdateTimers processes the events of the instruction so far before  *)
(* an MFP register is accessed.                                            *)
MFP_UpdateTimers ==
  /\ CycleExact
  /\ phase = "cpu"
  /\ phase' = "loop"
  /\ UNCHANGED <<list, delayed, clock, currcycle, running, blit>>

HeadIsDue == list.ActiveInt_Cycles <= Immediate

(* A bug: the delay has the wrong sign. *)
CycInt_CallActiveHandler_PositiveDelay ==
  /\ phase = "loop"
  /\ HeadIsDue
  /\ delayed' = Immediate - list.ActiveInt_Cycles
  /\ running' = list.ActiveInt
  /\ phase' = "called"
  /\ UNCHANGED <<list, clock, currcycle, blit>>

CycInt_CallActiveHandler ==
  /\ phase = "loop"
  /\ HeadIsDue
  /\ delayed' = list.ActiveInt_Cycles - Immediate
  /\ running' = list.ActiveInt
  /\ phase' = "called"
  /\ UNCHANGED <<list, clock, currcycle, blit>>

CycInt_AcknowledgeInterrupt ==
  /\ phase = "called"
  /\ list' = RemoveHead(list)
  /\ phase' = "body"
  /\ UNCHANGED <<delayed, clock, currcycle, running, blit>>

RestartTimerAt(c) ==
  /\ phase = "body"
  /\ running \in Timers
  /\ ~list.Active[running]
  /\ Representable(c)
  /\ list' = Reschedule(list, running, c)
  /\ UNCHANGED delayed
  /\ ControlUnchanged

(* A bug: the lateness is not taken off the next period. *)
RestartTimer_FromNow(p) == RestartTimerAt(Immediate + p)

(* A bug: the timer is restarted at once. *)
RestartTimer_NoPeriod(p) == RestartTimerAt(Immediate)

(* The handler of a timer starts the next period from the time this one    *)
(* should have ended, also when more than one period was missed.           *)
RestartTimer(p) ==
  LET over == IF -delayed > p THEN (-delayed) % p ELSE -delayed
  IN RestartTimerAt(Immediate + p - over)

HandlerReturns ==
  /\ phase = "body"
  /\ phase' = "loop"
  /\ running' = INTERRUPT_NULL
  /\ UNCHANGED <<list, delayed, clock, currcycle, blit>>

(* The blitter owns the bus for d cycles and has them processed. *)
Blitter_FlushCycles(d) ==
  LET flushed == IF CycleExact THEN currcycle ELSE 0 IN
  /\ phase = "body"
  /\ running = Blitter
  /\ ~blit
  /\ clock + currcycle + d <= MaxClock
  /\ clock' = clock + flushed + d
  /\ currcycle' = currcycle - flushed
  /\ phase' = "loop"
  /\ running' = INTERRUPT_NULL
  /\ blit' = TRUE
  /\ UNCHANGED <<list, delayed>>

(* A bug: CycInt_Process calls one handler and returns. *)
LoopEnds_CallsOnce ==
  /\ phase = "loop"
  /\ IF blit THEN phase' = "body" /\ running' = Blitter
             ELSE phase' = "cpu" /\ UNCHANGED running
  /\ blit' = FALSE
  /\ UNCHANGED <<list, delayed, clock, currcycle>>

(* Nothing is due: the loop returns to the instruction or to the blitter. *)
LoopEnds ==
  /\ phase = "loop"
  /\ ~HeadIsDue
  /\ IF blit THEN phase' = "body" /\ running' = Blitter
             ELSE phase' = "cpu" /\ UNCHANGED running
  /\ blit' = FALSE
  /\ UNCHANGED <<list, delayed, clock, currcycle>>

Devices ==
  \/ CycInt_Reset
  \/ \E h \in Real :
       \/ \E d \in Delays : CycInt_AddRelativeInterrupt(h, d)
       \/ CycInt_RemovePendingInterrupt(h)
  \/ \E d \in Shifts : CycInt_ModifyInterrupt(d)

Processor ==
  \/ \E d \in 1..MaxInstr : Execute(d)
  \/ EndInstruction
  \/ MFP_UpdateTimers

Loop ==
  \/ CycInt_CallActiveHandler
  \/ CycInt_AcknowledgeInterrupt
  \/ HandlerReturns
  \/ LoopEnds

Next ==
  \/ Devices
  \/ Processor
  \/ Loop
  \/ \E p \in Periods : RestartTimer(p)
  \/ \E d \in 1..MaxPass : Blitter_FlushCycles(d)

Spec == Init /\ [][Next]_vars

-----------------------------------------------------------------------------
(* What the list promises. *)

(* Following IntList_Next from CycInt_ActiveInt reaches every active       *)
(* interrupt: a set that holds the head and the successors of its members  *)
(* holds them all.  This is what lets an induction along the list stand in *)
(* for the loops of cycInt.c.                                              *)
HeadReachesAll(l) ==
  \A S \in SUBSET Linked(l) :
    /\ l.ActiveInt \in S
    /\ \A i \in S \ {INTERRUPT_NULL} : l.Next[i] \in S
    => S = Linked(l)

(* The list is doubly linked from the head to INTERRUPT_NULL, in the order *)
(* of the due times, and the cached due time is that of the head.          *)
WellLinked(l) ==
  /\ l.Active[l.ActiveInt]
  /\ l.Prev[l.ActiveInt] = Nil
  /\ l.ActiveInt_Cycles = l.Cycles[l.ActiveInt]
  /\ l.Active[INTERRUPT_NULL]
  /\ l.Cycles[INTERRUPT_NULL] = NullCycles
  /\ \A i \in Linked(l) \ {INTERRUPT_NULL} :
       /\ l.Cycles[i] < NullCycles
       /\ l.Next[i] \in Linked(l)
       /\ l.Next[i] # l.ActiveInt
       /\ l.Prev[l.Next[i]] = i
       /\ l.Cycles[i] <= l.Cycles[l.Next[i]]
  /\ \A i \in Linked(l) \ {l.ActiveInt} :
       /\ l.Prev[i] \in Linked(l) \ {INTERRUPT_NULL}
       /\ l.Next[l.Prev[i]] = i

ListOK == WellLinked(list) /\ HeadReachesAll(list)

(* No active interrupt is due before the one CycInt_Process looks at.      *)
EarliestFirst ==
  \A i \in Linked(list) : list.ActiveInt_Cycles <= list.Cycles[i]

(* The loop of CycInt_InsertInt stops where the list stays sorted, before  *)
(* the interrupts due at the same time.                                    *)
ScanFindsPlace ==
  \A c \in {Immediate} \union {list.Cycles[i] : i \in Linked(list) \ {INTERRUPT_NULL}} :
    ScanLoop(list, c) = ScanStop(list, c)

AllAfter(l, t) == \A i \in Linked(l) : t < l.Cycles[i]

(* While the processor executes an instruction, no event was due before    *)
(* that instruction: CycInt_Process left none behind.                      *)
NothingOverdue ==
  phase = "cpu" => AllAfter(list, clock)

(* A handler runs at most one instruction and one pass of the blitter      *)
(* after its time, and never before it.                                    *)
LatenessBounded ==
  phase \in {"called", "body"} => delayed <= 0 /\ -delayed < MaxInstr + MaxPass

(* What these rest on: the states the phases of the loop can be in.        *)
Phased ==
  /\ running = INTERRUPT_NULL <=> phase \in {"cpu", "loop"}
  /\ phase = "cpu" => ~blit
  /\ currcycle <= MaxInstr
  /\ clock + currcycle <= MaxClock

(* A handler acknowledges before it does anything else; the one that does *)
(* not is in AutoSend.                                                     *)
CalledIsHead ==
  phase = "called" => running = list.ActiveInt /\ running # INTERRUPT_NULL

NothingTooLate ==
  phase # "cpu" =>
    AllAfter(list, Immediate - MaxInstr - (IF blit THEN MaxPass ELSE 0))

SuspendedLateness ==
  blit => delayed <= 0 /\ -delayed < MaxInstr + MaxPass

IInv ==
  /\ TypeOK
  /\ ListOK
  /\ Phased
  /\ CalledIsHead
  /\ NothingOverdue
  /\ NothingTooLate
  /\ LatenessBounded
  /\ SuspendedLateness

(* A timer restarted by its handler keeps its phase however late it runs:  *)
(* the new due time is a whole number of periods after the old one, and it *)
(* is not in the past.                                                     *)
NoDrift ==
  [][\A p \in Periods : RestartTimer(p) =>
       LET t == running IN
       /\ list'.Cycles[t] > list.Cycles[t]
       /\ (list'.Cycles[t] - list.Cycles[t]) % p = 0
       /\ list'.Cycles[t] >= Immediate]_vars

(* How often the handler of e can still be called at the time it is now:   *)
(* one that is late may have its timer due again at once, and then not.    *)
CallsLeft(e) ==
  CASE list.Active[e] /\ list.Cycles[e] < Immediate -> 2
    [] list.Active[e] /\ list.Cycles[e] = Immediate -> 1
    [] ~list.Active[e] /\ phase = "body" /\ running = e /\ e \in Timers /\ delayed < 0 -> 1
    [] OTHER -> 0

(* While no time passes no handler comes to be called more often, whatever *)
(* the handlers schedule, and each call uses one up: CycInt_Process calls  *)
(* a handler at most twice before it comes to the processor or the blitter *)
(* makes a pass.                                                           *)
CallsBounded ==
  [][\A e \in Real :
       /\ Immediate' = Immediate => CallsLeft(e)' <= CallsLeft(e)
       /\ CycInt_AcknowledgeInterrupt /\ running = e => CallsLeft(e)' < CallsLeft(e)]_vars

(* Every run of the loop ends, whatever the handlers schedule.             *)
LoopTerminates == phase = "loop" ~> phase = "cpu"

(* The list is a queue that serves an earliest due event: EventQueue.      *)
Due(e) ==
  IF list.Active[e] /\ ~(phase = "called" /\ running = e)
    THEN list.Cycles[e] ELSE Nil

Queue == INSTANCE EventQueue WITH
  Events <- Real, Never <- Nil, None <- INTERRUPT_NULL,
  due <- [e \in Real |-> Due(e)],
  now <- Immediate,
  serving <- running,
  suspended <- IF blit THEN Blitter ELSE INTERRUPT_NULL

ImplementsQueue == Queue!Spec

-----------------------------------------------------------------------------
(* Fairness: the emulator is one thread, so the loop and the handlers it   *)
(* calls always take their next step; a handler always returns.            *)
Fairness == WF_vars(Loop)

FairSpec == Spec /\ Fairness
=============================================================================
