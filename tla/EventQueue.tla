----------------------------- MODULE EventQueue -----------------------------
(***************************************************************************)
(* What the internal interrupt scheduler of the emulator promises to the   *)
(* devices: events are pending with a due time, and the handler that runs  *)
(* next is that of an event with the smallest due time, which has passed.  *)
(* There is no list, no cached head and no clock of the current            *)
(* instruction here: CycInt.tla has them and implements this module.       *)
(***************************************************************************)
EXTENDS Integers

CONSTANTS Events,   \* identifiers of the internal events
          Never,    \* "not pending", in place of a due time
          None      \* "no event", in place of an identifier

VARIABLES due,        \* due[e]: when e is due, or Never
          now,        \* the clock the due times are compared with
          serving,    \* the event whose handler is running, or None
          suspended   \* the event whose handler waits for handlers it let run

vars == <<due, now, serving, suspended>>

TypeOK ==
  /\ due \in [Events -> Int \union {Never}]
  /\ now \in Nat
  /\ serving \in Events \union {None}
  /\ suspended \in Events \union {None}

Pending == {e \in Events : due[e] # Never}

Init ==
  /\ due = [e \in Events |-> Never]
  /\ now = 0
  /\ serving = None
  /\ suspended = None

-----------------------------------------------------------------------------
(* A device, or a handler, (re)schedules an event or cancels it. *)
Schedule(e) ==
  /\ due'[e] \in Int
  /\ due' = [due EXCEPT ![e] = due'[e]]
  /\ UNCHANGED <<now, serving, suspended>>

Cancel(e) ==
  /\ due' = [due EXCEPT ![e] = Never]
  /\ UNCHANGED <<now, serving, suspended>>

(* A reset of the machine forgets every event. *)
CancelAll ==
  /\ due' = [e \in Events |-> Never]
  /\ UNCHANGED <<now, serving, suspended>>

(* Time passes while the processor, or a handler that owns the bus, runs. *)
Tick ==
  /\ now' \in Nat
  /\ now' >= now
  /\ UNCHANGED <<due, serving, suspended>>

(* The promise: only an earliest event is served, once its time has come,  *)
(* and serving it is what removes it.                                      *)
Serve(e) ==
  /\ serving = None
  /\ e \in Pending
  /\ due[e] <= now
  /\ \A f \in Pending : due[e] <= due[f]
  /\ due' = [due EXCEPT ![e] = Never]
  /\ serving' = e
  /\ UNCHANGED <<now, suspended>>

Finish ==
  /\ serving # None
  /\ serving' = None
  /\ UNCHANGED <<due, now, suspended>>

(* One handler may let time pass and have the events of that time served. *)
Suspend ==
  /\ serving # None
  /\ suspended = None
  /\ suspended' = serving
  /\ serving' = None
  /\ now' \in Nat
  /\ now' >= now
  /\ UNCHANGED due

(* It goes on only when no pending event is overdue. *)
Resume ==
  /\ serving = None
  /\ suspended # None
  /\ \A e \in Pending : due[e] > now
  /\ serving' = suspended
  /\ suspended' = None
  /\ UNCHANGED <<due, now>>

Next ==
  \/ \E e \in Events : Schedule(e) \/ Cancel(e) \/ Serve(e)
  \/ CancelAll
  \/ Tick
  \/ Finish
  \/ Suspend
  \/ Resume

Spec == Init /\ [][Next]_vars
=============================================================================
