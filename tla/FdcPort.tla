------------------------------ MODULE FdcPort ------------------------------
(***************************************************************************)
(* What the floppy disk controller promises to the program that uses it:   *)
(* when it takes a command, when it is busy, and what its interrupt line,  *)
(* which the hard disk controller shares, stands for.  There is no disk,   *)
(* motor or head here, no state of a command and no DMA: FDC.tla has them  *)
(* and implements this module.                                             *)
(***************************************************************************)
EXTENDS Naturals

VARIABLES
  type,        \* of the command that runs, 1 to 3, or 0
  committed,   \* it has begun to move something
  busy,        \* the bit of the status register
  conditions,  \* of the forced interrupt that is in force
  sources,     \* who asks for an interrupt
  line         \* an interrupt is asked for

vars == <<type, committed, busy, conditions, sources, line>>

Runs(t) == type' = t /\ busy' = (t # 0) /\ committed' = FALSE

Asks(s) == sources' = s /\ line' = (s # {})

Uncommanded == UNCHANGED <<type, committed, busy, conditions>>

Unasked == UNCHANGED <<conditions, sources, line>>

Init ==
  /\ type = 0 /\ committed = FALSE /\ busy = FALSE
  /\ conditions = {} /\ sources = {} /\ line = FALSE

(* A source that an acknowledge leaves: an immediate forced interrupt is   *)
(* in force until the next command.                                        *)
Lasting == IF "IMMEDIATE" \in conditions THEN sources \intersect {"FORCED"} ELSE {}

-----------------------------------------------------------------------------
(* A command is taken when none runs, or in place of one of the same type  *)
(* that has moved nothing.  Whatever was asked for before is over.         *)
Begin(t) ==
  /\ type = 0 \/ (type = t /\ t # 3 /\ ~committed)
  /\ Runs(t)
  /\ conditions' = {}
  /\ Asks(Lasting)

Proceed ==
  /\ type # 0
  /\ committed' \in {committed, TRUE}
  /\ UNCHANGED <<type, busy>> /\ Unasked

(* The busy bit falls in the step that asks for the interrupt.             *)
Complete ==
  /\ type # 0
  /\ Runs(0)
  /\ Asks((sources \ {"HDC"}) \union {"COMPLETE"})
  /\ UNCHANGED conditions

(* A forced interrupt ends any command, at any time, and asks for no other *)
(* interrupt than its own.                                                 *)
Force(wanted) ==
  /\ Runs(0)
  /\ conditions' = wanted
  /\ IF "IMMEDIATE" \in wanted THEN Asks((sources \ {"HDC"}) \union {"FORCED"})
                                ELSE Asks(Lasting)

(* An index pulse asks only if a forced interrupt said so.                 *)
Pulse ==
  /\ "IP" \in conditions
  /\ Asks((sources \ {"HDC"}) \union {"INDEX"})
  /\ Uncommanded

Acknowledge == Asks(Lasting) /\ Uncommanded

(* The hard disk controller takes the line, or gives back what it took.    *)
Share == (Asks({"HDC"}) \/ Asks(sources \ {"HDC"})) /\ Uncommanded

Reset == Runs(0) /\ conditions' = {} /\ Asks({})

Next ==
  \/ \E t \in 1..3 : Begin(t)
  \/ Proceed \/ Complete
  \/ \E wanted \in SUBSET {"IMMEDIATE", "IP"} : Force(wanted)
  \/ Pulse \/ Acknowledge \/ Share \/ Reset

Spec == Init /\ [][Next]_vars
=============================================================================
