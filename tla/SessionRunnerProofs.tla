------------------------- MODULE SessionRunnerProofs -------------------------
(* What holds of any number of runners, signals and exit codes.             *)
EXTENDS SessionRunner, SequenceTheorems, TLAPS

(* The handlers are installed before the emulator is started, and stay     *)
(* until it is known to be gone.                                           *)
Armed ==
  \A r \in Runners :
    /\ pc[r] = "onInt" => SIGTERM \in handled[r]
    /\ pc[r] \in {"popen", "assign", "wait", "status"} => handled[r] = Signals

LiveWhileWaiting ==
  \A r \in Runners : Live(child[r]) => pc[r] \in {"assign", "wait"}

Guarded == TypeOK /\ Armed /\ LiveWhileWaiting

(* The initial state is typed and nothing runs in it.                      *)
LEMMA InitGuarded == Init => Guarded
<1> SUFFICES ASSUME Init PROVE Guarded
  OBVIOUS
<1>1. session \in Session
  BY DEF Init, Session
<1>2. events \in Seq(Event)
  BY DEF Init
<1>3. child \in [Runners -> Process]
  <2>1. [is |-> "none"] \in Process
    BY DEF Process
  <2> QED
    BY <2>1 DEF Init
<1>4. pc \in [Runners -> Labels]
  BY DEF Init, Labels
<1>5. TypeOK
  BY <1>1, <1>2, <1>3, <1>4 DEF Init, TypeOK
<1>6. Armed
  BY DEF Init, Armed
<1>7. LiveWhileWaiting
  <2>1. \A r \in Runners : child[r] = [is |-> "none"]
    BY DEF Init
  <2> QED
    BY <2>1 DEF LiveWhileWaiting, Live
<1> QED
  BY <1>5, <1>6, <1>7 DEF Guarded

(* Every step of main() keeps the state typed, the handlers in place and   *)
(* the emulator inside the span in which they are.                         *)
LEMMA MainGuarded ==
  ASSUME Guarded, NEW r \in Runners, Main(r)
  PROVE  Guarded'
<1> USE DEF Guarded
<1>1. CASE CheckSession(r) \/ CheckEvents(r) \/ PopenFails(r)
  BY <1>1 DEF CheckSession, CheckEvents, PopenFails, Goto, At, FilesUnchanged,
     TypeOK, Labels, Beginning, Ending, Over, Armed, LiveWhileWaiting
<1>2. CASE Truncate(r, "create", "write") \/ Truncate(r, "truncate", "finish")
           \/ WriteSession(r) \/ WriteFinal(r)
  <2>1. session' \in Session
    <3>1. rc[r] \in Int
      BY DEF TypeOK
    <3> QED
      BY <1>2, <3>1 DEF Truncate, WriteSession, WriteFinal, Session
  <2> QED
    BY <1>2, <2>1 DEF Truncate, WriteSession, WriteFinal, Goto, At,
       TypeOK, Labels, Beginning, Ending, Over, Armed, LiveWhileWaiting
<1>3. CASE AppendStart(r) \/ AppendStop(r)
  <2>1. events' \in Seq(Event)
    <3>1. \A e \in Event : Append(events, e) \in Seq(Event)
      BY DEF TypeOK
    <3>2. [type |-> "session.start", by |-> r] \in Event
      BY DEF Event
    <3>3. [type |-> "session.stop", by |-> r, exit_code |-> rc[r]] \in Event
      BY DEF Event, TypeOK
    <3> QED
      BY <1>3, <3>1, <3>2, <3>3 DEF AppendStart, AppendStop
  <2> QED
    BY <1>3, <2>1 DEF AppendStart, AppendStop, Goto, At,
       TypeOK, Labels, Beginning, Ending, Over, Armed, LiveWhileWaiting
<1>4. CASE OnSignal(r, SIGTERM, "onTerm", "onInt") \/ OnSignal(r, SIGINT, "onInt", "popen")
  <2>1. PICK s \in Signals, there \in {"onInt", "popen"} :
          /\ At(r, IF there = "onInt" THEN "onTerm" ELSE "onInt", there)
          /\ handled' = [handled EXCEPT ![r] = @ \union {s}]
          /\ s = IF there = "onInt" THEN SIGTERM ELSE SIGINT
          /\ FilesUnchanged
          /\ UNCHANGED <<child, known, shutdown, rc, sent, asked>>
    BY <1>4 DEF OnSignal, Signals
  <2>2. handled' \in [Runners -> SUBSET Signals]
    BY <2>1 DEF TypeOK
  <2>3. pc' \in [Runners -> Labels]
    BY <2>1 DEF At, TypeOK, Labels
  <2>4. TypeOK'
    BY <2>1, <2>2, <2>3 DEF FilesUnchanged, TypeOK
  <2>5. Armed'
    BY <2>1, <2>2 DEF At, TypeOK, Armed, Signals
  <2>6. LiveWhileWaiting'
    BY <2>1 DEF At, TypeOK, LiveWhileWaiting
  <2> QED
    BY <2>4, <2>5, <2>6
<1>5. CASE Popen(r) \/ Assign(r)
  <2>1. [is |-> "running"] \in Process
    BY DEF Process
  <2>2. TypeOK'
    BY <1>5, <2>1 DEF Popen, Assign, At, FilesUnchanged, TypeOK, Labels
  <2>3. Armed'
    BY <1>5 DEF Popen, Assign, At, TypeOK, Armed
  <2>4. LiveWhileWaiting'
    BY <1>5 DEF Popen, Assign, At, TypeOK, LiveWhileWaiting
  <2> QED
    BY <2>2, <2>3, <2>4
<1>6. CASE Wait(r) \/ Status(r)
  <2>1. child[r].is = "exited" => child[r].code \in Int
    BY DEF TypeOK, Process
  <2>2. rc' \in [Runners -> Int]
    <3>1. CASE Wait(r)
      BY <2>1, <3>1 DEF Wait, TypeOK
    <3>2. CASE Status(r)
      <4>1. shutdown[r] \in Int /\ rc[r] \in Int
        <5>1. shutdown[r] \in {0} \union Signals
          BY DEF TypeOK
        <5>2. shutdown[r] = 0 \/ shutdown[r] = SIGTERM \/ shutdown[r] = SIGINT
          BY <5>1 DEF Signals
        <5>3. rc[r] \in Int
          BY DEF TypeOK
        <5>4. 0 \in Int /\ SIGTERM \in Int /\ SIGINT \in Int
          BY RunnerAssumption
        <5>5. shutdown[r] \in Int
          BY <5>2, <5>4
        <5> QED
          BY <5>3, <5>5
      <4> QED
        BY <3>2, <4>1 DEF Status, TypeOK
    <3> QED
      BY <1>6, <3>1, <3>2
  <2>3. ~Live(child[r])
    <3>1. CASE Wait(r)
      BY <3>1 DEF Wait, Live
    <3>2. CASE Status(r)
      BY <3>2 DEF Status, At, LiveWhileWaiting
    <3> QED
      BY <1>6, <3>1, <3>2
  <2> QED
    BY <1>6, <2>2, <2>3 DEF Wait, Status, At, FilesUnchanged,
       TypeOK, Labels, Ending, Armed, LiveWhileWaiting
<1>7. CASE Restore(r, SIGTERM, "restoreTerm", "restoreInt")
           \/ Restore(r, SIGINT, "restoreInt", "stop")
  <2>1. PICK s \in Signals, there \in {"restoreInt", "stop"} :
          /\ At(r, IF there = "restoreInt" THEN "restoreTerm" ELSE "restoreInt", there)
          /\ handled' = [handled EXCEPT ![r] = @ \ {s}]
          /\ FilesUnchanged
          /\ UNCHANGED <<child, known, shutdown, rc, sent, asked>>
    BY <1>7 DEF Restore, Signals
  <2>2. handled' \in [Runners -> SUBSET Signals]
    BY <2>1 DEF TypeOK
  <2>3. pc' \in [Runners -> Labels]
    BY <2>1 DEF At, TypeOK, Labels, Ending
  <2>4. TypeOK'
    BY <2>1, <2>2, <2>3 DEF FilesUnchanged, TypeOK
  <2>5. Armed' /\ LiveWhileWaiting'
    BY <2>1 DEF At, TypeOK, Armed, LiveWhileWaiting
  <2> QED
    BY <2>4, <2>5
<1> QED
  BY <1>1, <1>2, <1>3, <1>4, <1>5, <1>6, <1>7 DEF Main

(* A signal kills a runner only while its emulator does not run; a handled *)
(* one only tells the emulator.                                            *)
LEMMA OthersGuarded ==
  ASSUME Guarded, NEW r \in Runners,
         \/ Start(r)
         \/ \E s \in Signals : RequestShutdown(r, s) \/ Killed(r, s)
         \/ ChildExits(r)
         \/ ChildObeys(r)
         \/ ChildKilled(r)
  PROVE  Guarded'
<1> USE RunnerAssumption DEF Guarded
<1>1. CASE Start(r)
  BY <1>1 DEF Start, Goto, At, FilesUnchanged,
     TypeOK, Labels, Beginning, Armed, LiveWhileWaiting
<1>2. ASSUME NEW s \in Signals, RequestShutdown(r, s)
      PROVE  Guarded'
  <2>1. child' \in [Runners -> Process]
        /\ \A q \in Runners : Live(child'[q]) => Live(child[q])
    <3>1. \A c \in Process : Terminated(c) \in Process /\ (Live(Terminated(c)) => Live(c))
      BY DEF Process, Terminated, Live
    <3> QED
      BY <1>2, <3>1 DEF RequestShutdown, TypeOK
  <2> QED
    BY <1>2, <2>1 DEF RequestShutdown, FilesUnchanged, TypeOK, Armed, LiveWhileWaiting
<1>3. ASSUME NEW s \in Signals, Killed(r, s)
      PROVE  Guarded'
  <2>1. ~Live(child[r])
    BY <1>3 DEF Killed, Armed, LiveWhileWaiting
  <2>2. TypeOK'
    BY <1>3 DEF Killed, FilesUnchanged, TypeOK, Labels, Over
  <2>3. Armed' /\ LiveWhileWaiting'
    BY <1>3, <2>1 DEF Killed, FilesUnchanged, TypeOK, Armed, LiveWhileWaiting
  <2> QED
    BY <2>2, <2>3
<1>4. CASE ChildExits(r) \/ ChildObeys(r) \/ ChildKilled(r)
  <2>1. PICK code \in Int : Exit(r, code)
    <3>1. Codes \subseteq Int /\ -SIGTERM \in Int /\ \A s \in Deaths : -s \in Int
      OBVIOUS
    <3> QED
      BY <1>4, <3>1 DEF ChildExits, ChildObeys, ChildKilled
  <2>2. child' \in [Runners -> Process]
        /\ \A q \in Runners : Live(child'[q]) => Live(child[q])
    <3>1. \A b \in BOOLEAN :
            /\ [is |-> "exited", code |-> code, told |-> b] \in Process
            /\ ~Live([is |-> "exited", code |-> code, told |-> b])
      BY DEF Process, Live
    <3> QED
      BY <2>1, <3>1 DEF Exit, TypeOK
  <2> QED
    BY <2>1, <2>2 DEF Exit, FilesUnchanged, runner, TypeOK, Armed, LiveWhileWaiting
<1> QED
  BY <1>1, <1>2, <1>3, <1>4

(* The invariant holds of every reachable state.                           *)
THEOREM GuardedAlways == Spec => []Guarded
<1>1. Guarded /\ [Next]_vars => Guarded'
  <2> SUFFICES ASSUME Guarded, [Next]_vars PROVE Guarded'
    OBVIOUS
  <2>1. CASE Next
    BY <2>1, MainGuarded, OthersGuarded DEF Next
  <2>2. CASE UNCHANGED vars
    BY <2>2 DEF vars, Guarded, TypeOK, Armed, LiveWhileWaiting
  <2> QED
    BY <2>1, <2>2
<1> QED
  BY <1>1, InitGuarded, PTL DEF Spec

(* The files and what each runner knows of its emulator keep their types.  *)
THEOREM TypeCorrect == Spec => []TypeOK
BY GuardedAlways, PTL DEF Guarded

(* Wherever a signal reaches a runner, its emulator does not outlive it.   *)
THEOREM NoOrphanCorrect == Spec => []NoOrphan
<1>1. Guarded => NoOrphan
  BY DEF Guarded, LiveWhileWaiting, NoOrphan, Over
<1> QED
  BY <1>1, GuardedAlways, PTL

-----------------------------------------------------------------------------
(* Runs that follow one another: the evidence has one owner.               *)

Single == \A q, r \in Runners : Active(q) /\ Active(r) => q = r

Unowned == session = Absent => events = <<>>

OneOwner == session # Absent => \A i \in DOMAIN events : events[i].by = session.by

Owning == {"write", "start", "onTerm", "onInt", "popen", "assign", "wait", "status"}
            \union Ending

Owner ==
  \A r \in Runners :
    /\ pc[r] \in {"checkEvents", "create"} => session = Absent
    /\ pc[r] \in Owning => session # Absent /\ session.by = r

Owned == Single /\ Unowned /\ OneOwner /\ Owner

(* What EvidenceKept says of a step.                                       *)
Kept ==
  /\ session # Absent => session'.by = session.by
  /\ \A i \in DOMAIN events : events'[i] = events[i]
  /\ events # <<>> => \A i \in DOMAIN events' : events'[i].by = events[1].by

(* A step that leaves the files as they are keeps them.                    *)
LEMMA SameFilesKept ==
  ASSUME TypeOK, Owned, FilesUnchanged
  PROVE  Kept /\ Unowned' /\ OneOwner'
<1>1. events # <<>> => 1 \in DOMAIN events
  BY DEF TypeOK
<1>2. events # <<>> => session # Absent
  BY DEF Owned, Unowned
<1> QED
  BY <1>1, <1>2 DEF FilesUnchanged, Kept, Owned, Unowned, OneOwner

(* One runner at a time: a step of the active one leaves no other active.  *)
LEMMA SingleStep ==
  ASSUME TypeOK, Single, NEW r \in Runners, Active(r),
         NEW l \in Labels, pc' = [pc EXCEPT ![r] = l]
  PROVE  Single'
BY DEF TypeOK, Single, Active

(* The owner of session.json may write it again, and append to the events. *)
LEMMA OwnerWrites ==
  ASSUME TypeOK, Owned, NEW r \in Runners, pc[r] \in Owning,
         NEW l \in Owning \union {"ended"}, pc' = [pc EXCEPT ![r] = l],
         \/ session' # Absent /\ session'.by = r /\ UNCHANGED events
         \/ UNCHANGED session
            /\ \E e \in Event : e.by = r /\ events' = Append(events, e)
  PROVE  Owned' /\ Kept
<1>1. Active(r)
  BY DEF Active, Owning, Ending, Over
<1>2. session # Absent /\ session.by = r /\ session' # Absent /\ session'.by = r
  BY DEF Owned, Owner
<1>3. Single'
  <2>1. l \in Labels
    BY DEF Labels, Owning, Ending, Over, Beginning
  <2> QED
    BY <1>1, <2>1, SingleStep DEF Owned
<1>4. Owner'
  <2> SUFFICES ASSUME NEW q \in Runners
               PROVE  /\ pc'[q] \in {"checkEvents", "create"} => session' = Absent
                      /\ pc'[q] \in Owning => session' # Absent /\ session'.by = q
    BY DEF Owner
  <2>1. CASE q = r
    BY <1>2, <2>1 DEF TypeOK, Owning, Ending
  <2>2. CASE q # r
    <3>1. pc'[q] = pc[q] /\ ~Active(q)
      BY <1>1, <2>2 DEF TypeOK, Owned, Single
    <3> QED
      BY <3>1 DEF Active, Owning, Ending, Over
  <2> QED
    BY <2>1, <2>2
<1>5. \A i \in DOMAIN events : events[i].by = r
  BY <1>2 DEF Owned, OneOwner
<1>6. events # <<>> => 1 \in DOMAIN events
  BY DEF TypeOK
<1>7. /\ \A i \in DOMAIN events : events'[i] = events[i]
      /\ \A i \in DOMAIN events' : events'[i].by = r
  <2>1. CASE UNCHANGED events
    BY <1>5, <2>1
  <2>2. ASSUME NEW e \in Event, e.by = r, events' = Append(events, e)
        PROVE  /\ \A i \in DOMAIN events : events'[i] = events[i]
               /\ \A i \in DOMAIN events' : events'[i].by = r
    <3>1. events \in Seq(Event)
      BY DEF TypeOK
    <3>2. /\ DOMAIN events = 1..Len(events) /\ Len(events) \in Nat
          /\ DOMAIN events' = 1..(Len(events) + 1)
          /\ \A i \in 1..Len(events) : events'[i] = events[i]
          /\ events'[Len(events) + 1] = e
      BY <2>2, <3>1
    <3>3. \A i \in DOMAIN events' : i \in DOMAIN events \/ i = Len(events) + 1
      BY <3>2
    <3> QED
      BY <1>5, <2>2, <3>2, <3>3
  <2> QED
    BY <2>1, <2>2
<1>8. Unowned' /\ OneOwner'
  BY <1>2, <1>7 DEF Unowned, OneOwner
<1>9. Kept
  BY <1>2, <1>5, <1>6, <1>7 DEF Kept
<1> QED
  BY <1>3, <1>4, <1>8, <1>9 DEF Owned

(* A step of the active runner that writes nothing.                        *)
LEMMA OwnerReads ==
  ASSUME TypeOK, Owned, FilesUnchanged, NEW r \in Runners, Active(r),
         NEW l \in Labels, pc' = [pc EXCEPT ![r] = l],
         l \in {"checkEvents", "create"} => session = Absent,
         l \in Owning => pc[r] \in Owning
  PROVE  Owned' /\ Kept
<1>1. Single'
  BY SingleStep DEF Owned
<1>2. Owner'
  <2> SUFFICES ASSUME NEW q \in Runners
               PROVE  /\ pc'[q] \in {"checkEvents", "create"} => session' = Absent
                      /\ pc'[q] \in Owning => session' # Absent /\ session'.by = q
    BY DEF Owner
  <2>1. CASE q = r
    BY <2>1 DEF TypeOK, Owned, Owner, FilesUnchanged
  <2>2. CASE q # r
    BY <2>2 DEF TypeOK, Owned, Owner, FilesUnchanged
  <2> QED
    BY <2>1, <2>2
<1> QED
  BY <1>1, <1>2, SameFilesKept DEF Owned

(* The evidence is opened when there is none.                              *)
LEMMA OwnerOpens ==
  ASSUME TypeOK, Owned, NEW r \in Runners, Truncate(r, "create", "write")
  PROVE  Owned' /\ Kept
<1>1. /\ pc[r] = "create" /\ pc' = [pc EXCEPT ![r] = "write"]
      /\ session' = [is |-> "empty", by |-> r] /\ events' = events
  BY DEF Truncate, Goto, At
<1>2. session = Absent /\ events = <<>>
  BY <1>1 DEF Owned, Owner, Unowned
<1>3. session' # Absent /\ session'.by = r
  BY <1>1 DEF Absent
<1>4. Active(r)
  BY <1>1 DEF Active, Over
<1>5. Single'
  BY <1>1, <1>4, SingleStep DEF Owned, Labels, Beginning
<1>6. Owner'
  <2> SUFFICES ASSUME NEW q \in Runners
               PROVE  /\ pc'[q] \in {"checkEvents", "create"} => session' = Absent
                      /\ pc'[q] \in Owning => session' # Absent /\ session'.by = q
    BY DEF Owner
  <2>1. CASE q = r
    BY <1>1, <1>3, <2>1 DEF TypeOK
  <2>2. CASE q # r
    <3>1. pc'[q] = pc[q] /\ ~Active(q)
      BY <1>1, <1>4, <2>2 DEF TypeOK, Owned, Single
    <3> QED
      BY <3>1 DEF Active, Owning, Ending, Over
  <2> QED
    BY <2>1, <2>2
<1> QED
  BY <1>1, <1>2, <1>3, <1>5, <1>6 DEF Owned, Unowned, OneOwner, Kept

(* Every step of main().                                                   *)
LEMMA MainKept ==
  ASSUME TypeOK, Owned, NEW r \in Runners, Main(r)
  PROVE  Owned' /\ Kept
<1> DEFINE Moves(l) == pc' = [pc EXCEPT ![r] = l]
<1>1. CASE CheckSession(r)
  <2>1. /\ FilesUnchanged /\ pc[r] = "checkSession"
        /\ Moves("refused") \/ (Moves("checkEvents") /\ session = Absent)
    BY <1>1 DEF CheckSession, Goto, At
  <2>2. Active(r)
    BY <2>1 DEF Active, Over
  <2> QED
    BY <2>1, <2>2, OwnerReads DEF Labels, Beginning, Over, Owning, Ending
<1>2. CASE CheckEvents(r)
  <2>1. /\ FilesUnchanged /\ pc[r] = "checkEvents"
        /\ Moves("refused") \/ Moves("create")
    BY <1>2 DEF CheckEvents, Goto, At
  <2>2. Active(r) /\ session = Absent
    BY <2>1 DEF Active, Over, Owned, Owner
  <2> QED
    BY <2>1, <2>2, OwnerReads DEF Labels, Beginning, Over, Owning, Ending
<1>3. CASE Truncate(r, "create", "write")
  BY <1>3, OwnerOpens
<1>4. CASE WriteSession(r) \/ Truncate(r, "truncate", "finish") \/ WriteFinal(r)
  <2>1. PICK l \in Owning \union {"ended"} : Moves(l)
    BY <1>4 DEF WriteSession, Truncate, WriteFinal, Goto, At, Owning, Ending
  <2>2. pc[r] \in Owning
    BY <1>4 DEF WriteSession, Truncate, WriteFinal, Goto, At, Owning, Ending
  <2>3. session' # Absent /\ session'.by = r /\ UNCHANGED events
    BY <1>4 DEF WriteSession, Truncate, WriteFinal, Absent
  <2> QED
    BY <2>1, <2>2, <2>3, OwnerWrites
<1>5. CASE AppendStart(r) \/ AppendStop(r)
  <2>1. PICK l \in Owning \union {"ended"} : Moves(l)
    BY <1>5 DEF AppendStart, AppendStop, Goto, At, Owning, Ending
  <2>2. pc[r] \in Owning
    BY <1>5 DEF AppendStart, AppendStop, Goto, At, Owning, Ending
  <2>3. UNCHANGED session /\ \E e \in Event : e.by = r /\ events' = Append(events, e)
    <3>1. [type |-> "session.start", by |-> r] \in Event
          /\ [type |-> "session.stop", by |-> r, exit_code |-> rc[r]] \in Event
      BY DEF Event, TypeOK
    <3> QED
      BY <1>5, <3>1 DEF AppendStart, AppendStop
  <2> QED
    BY <2>1, <2>2, <2>3, OwnerWrites
<1>6. CASE \/ OnSignal(r, SIGTERM, "onTerm", "onInt")
           \/ OnSignal(r, SIGINT, "onInt", "popen")
           \/ Popen(r) \/ PopenFails(r) \/ Assign(r) \/ Wait(r) \/ Status(r)
           \/ Restore(r, SIGTERM, "restoreTerm", "restoreInt")
           \/ Restore(r, SIGINT, "restoreInt", "stop")
  <2>1. FilesUnchanged
    BY <1>6 DEF OnSignal, Popen, PopenFails, Assign, Wait, Status, Restore
  <2>2. pc[r] \in Owning /\ \E l \in Owning : Moves(l)
    BY <1>6 DEF OnSignal, Popen, PopenFails, Assign, Wait, Status, Restore, Goto, At,
       Owning, Ending
  <2>3. PICK l \in Owning : Moves(l)
    BY <2>2
  <2>4. Active(r) /\ l \in Labels /\ l \notin {"checkEvents", "create"}
    BY <2>2 DEF Active, Over, Owning, Ending, Labels, Beginning
  <2> QED
    BY <2>1, <2>2, <2>3, <2>4, OwnerReads
<1> QED
  BY <1>1, <1>2, <1>3, <1>4, <1>5, <1>6 DEF Main

(* A run that starts when no other is active, a signal, an emulator's end. *)
LEMMA OthersKept ==
  ASSUME TypeOK, Owned, ~Concurrent, NEW r \in Runners,
         \/ Start(r)
         \/ \E s \in Signals : RequestShutdown(r, s) \/ Killed(r, s)
         \/ ChildExits(r)
         \/ ChildObeys(r)
         \/ ChildKilled(r)
  PROVE  Owned' /\ Kept
<1>1. CASE Start(r)
  <2>1. /\ FilesUnchanged /\ pc' = [pc EXCEPT ![r] = "checkSession"]
        /\ \A q \in Runners : ~Active(q)
    BY <1>1 DEF Start, Goto, At
  <2>2. Single'
    BY <2>1 DEF TypeOK, Single, Active
  <2>3. Owner'
    BY <2>1 DEF TypeOK, Owned, Owner, FilesUnchanged, Owning, Ending
  <2> QED
    BY <2>1, <2>2, <2>3, SameFilesKept DEF Owned
<1>2. ASSUME NEW s \in Signals, Killed(r, s)
      PROVE  Owned' /\ Kept
  BY <1>2, OwnerReads DEF Killed, Labels, Over, Owning, Ending
<1>3. CASE \/ \E s \in Signals : RequestShutdown(r, s)
           \/ ChildExits(r) \/ ChildObeys(r) \/ ChildKilled(r)
  <2>1. FilesUnchanged /\ UNCHANGED pc
    BY <1>3 DEF RequestShutdown, ChildExits, ChildObeys, ChildKilled, Exit, runner
  <2>2. Single' /\ Owner'
    BY <2>1 DEF FilesUnchanged, Owned, Single, Active, Owner
  <2> QED
    BY <2>1, <2>2, SameFilesKept DEF Owned
<1> QED
  BY <1>1, <1>2, <1>3

(* Every step of runs that follow one another.                             *)
LEMMA NextKept ==
  ASSUME ~Concurrent, TypeOK, Owned, [Next]_vars
  PROVE  Owned' /\ (Kept \/ UNCHANGED vars)
<1>1. CASE Next
  BY <1>1, MainKept, OthersKept DEF Next
<1>2. CASE UNCHANGED vars
  BY <1>2 DEF vars, Owned, Single, Unowned, OneOwner, Owner, Active
<1> QED
  BY <1>1, <1>2

(* The evidence has one owner in every reachable state.                    *)
LEMMA OwnedAlways ==
  ASSUME ~Concurrent
  PROVE  Spec => []Owned
<1>1. Init => Owned
  BY DEF Init, Owned, Single, Unowned, OneOwner, Owner, Active, Owning, Ending
<1>2. TypeOK /\ Owned /\ [Next]_vars => Owned'
  BY NextKept
<1> QED
  BY <1>1, <1>2, TypeCorrect, PTL DEF Spec

(* Of runs that follow one another only the first ever writes: what it     *)
(* wrote is never overwritten, wherever it was interrupted.                *)
THEOREM EvidenceKeptCorrect ==
  ASSUME ~Concurrent
  PROVE  Spec => EvidenceKept
<1>1. TypeOK /\ Owned /\ [Next]_vars => [Kept]_vars
  BY NextKept
<1>2. Spec => [][Kept]_vars
  BY <1>1, OwnedAlways, TypeCorrect, PTL DEF Spec
<1> QED
  BY <1>2 DEF EvidenceKept, Kept

-----------------------------------------------------------------------------
(* What the evidence says is true.                                         *)

(* A process was told to end by a signal that was noted.                   *)
Blamed(r) ==
  child[r].is = "told" \/ (child[r].is = "exited" /\ child[r].told) => shutdown[r] # 0

(* What the runner knows of its emulator at each label.                    *)
Reported(r) ==
  /\ pc[r] \in {"idle", "onInt", "popen"} \union Beginning => child[r].is = "none"
  /\ pc[r] = "status" => child[r].is = "exited" /\ rc[r] = child[r].code
  /\ pc[r] \in Ending \union {"ended"} /\ child[r].is = "exited" =>
       Fits(r, rc[r])

Accounted == \A r \in Runners : Blamed(r) /\ Reported(r)

(* Nothing has been started in the beginning.                              *)
LEMMA InitAccounted == Init => Accounted
<1> SUFFICES ASSUME Init, NEW r \in Runners PROVE Blamed(r) /\ Reported(r)
  BY DEF Accounted
<1>1. child[r] = [is |-> "none"] /\ pc[r] = "idle"
  BY DEF Init
<1> QED
  BY <1>1 DEF Blamed, Reported, Ending

(* A step that changes what is known of one runner only.                   *)
LEMMA OneAccounted ==
  ASSUME Accounted, NEW r \in Runners,
         \A q \in Runners : q # r => /\ pc'[q] = pc[q] /\ child'[q] = child[q]
                                     /\ rc'[q] = rc[q] /\ shutdown'[q] = shutdown[q],
         (Blamed(r) /\ Reported(r))'
  PROVE  Accounted'
<1> SUFFICES ASSUME NEW q \in Runners PROVE (Blamed(q) /\ Reported(q))'
  BY DEF Accounted
<1>1. CASE q = r
  BY <1>1
<1>2. CASE q # r
  BY <1>2 DEF Accounted, Blamed, Reported, Fits
<1> QED
  BY <1>1, <1>2

(* Every step of main() keeps the account of its emulator.                 *)
LEMMA MainAccounted ==
  ASSUME TypeOK, Accounted, NEW r \in Runners, Main(r)
  PROVE  Accounted'
<1> USE RunnerAssumption
<1>1. Blamed(r) /\ Reported(r)
  BY DEF Accounted
<1>2. CASE \/ CheckSession(r) \/ CheckEvents(r) \/ Truncate(r, "create", "write")
           \/ WriteSession(r) \/ AppendStart(r) \/ PopenFails(r) \/ AppendStop(r)
           \/ Truncate(r, "truncate", "finish") \/ WriteFinal(r)
  <2>1. /\ UNCHANGED <<child, rc, shutdown>>
        /\ \A q \in Runners : q # r => pc'[q] = pc[q]
        /\ pc'[r] \in {"idle", "onInt", "popen"} \union Beginning =>
             pc[r] \in {"idle", "onInt", "popen"} \union Beginning
        /\ pc'[r] # "status"
        /\ pc'[r] \in Ending \union {"ended"} => pc[r] \in Ending \union {"popen"}
    BY <1>2 DEF CheckSession, CheckEvents, Truncate, WriteSession, AppendStart, PopenFails,
       AppendStop, WriteFinal, Goto, At, TypeOK, Beginning, Ending
  <2>2. (Blamed(r) /\ Reported(r))'
    BY <1>1, <2>1 DEF Blamed, Reported, Fits
  <2> QED
    BY <2>1, <2>2, OneAccounted
<1>3. CASE \/ OnSignal(r, SIGTERM, "onTerm", "onInt") \/ OnSignal(r, SIGINT, "onInt", "popen")
           \/ Assign(r)
           \/ Restore(r, SIGTERM, "restoreTerm", "restoreInt")
           \/ Restore(r, SIGINT, "restoreInt", "stop")
  <2>1. /\ UNCHANGED <<child, rc, shutdown>>
        /\ \A q \in Runners : q # r => pc'[q] = pc[q]
        /\ pc'[r] \in {"idle", "onInt", "popen"} \union Beginning =>
             pc[r] \in {"idle", "onInt", "popen"} \union Beginning
        /\ pc'[r] # "status"
        /\ pc'[r] \in Ending \union {"ended"} => pc[r] \in Ending
    BY <1>3 DEF OnSignal, Assign, Restore, At, TypeOK, Beginning, Ending
  <2>2. (Blamed(r) /\ Reported(r))'
    BY <1>1, <2>1 DEF Blamed, Reported, Fits
  <2> QED
    BY <2>1, <2>2, OneAccounted
<1>4. CASE Popen(r)
  <2>1. /\ child'[r] = [is |-> "running"] /\ pc'[r] = "assign"
        /\ UNCHANGED <<rc, shutdown>>
        /\ \A q \in Runners : q # r => pc'[q] = pc[q] /\ child'[q] = child[q]
    BY <1>4 DEF Popen, At, TypeOK
  <2>2. (Blamed(r) /\ Reported(r))'
    BY <2>1 DEF Blamed, Reported, Beginning, Ending
  <2> QED
    BY <2>1, <2>2, OneAccounted
<1>5. CASE Wait(r)
  <2>1. /\ child[r].is = "exited" /\ rc'[r] = child[r].code /\ pc'[r] = "status"
        /\ UNCHANGED <<child, shutdown>>
        /\ \A q \in Runners : q # r => pc'[q] = pc[q] /\ rc'[q] = rc[q]
    BY <1>5 DEF Wait, At, TypeOK
  <2>2. (Blamed(r) /\ Reported(r))'
    BY <1>1, <2>1 DEF Blamed, Reported, Beginning, Ending
  <2> QED
    BY <2>1, <2>2, OneAccounted
<1>6. CASE Status(r)
  <2>1. /\ child[r].is = "exited" /\ rc[r] = child[r].code /\ pc'[r] = "restoreTerm"
        /\ rc'[r] = IF shutdown[r] # 0 /\ rc[r] < 0 THEN 128 + shutdown[r] ELSE rc[r]
        /\ UNCHANGED <<child, shutdown>>
        /\ \A q \in Runners : q # r => pc'[q] = pc[q] /\ rc'[q] = rc[q]
    BY <1>1, <1>6 DEF Status, At, TypeOK, Reported
  <2>2. Fits(r, rc[r])'
    <3>1. CASE shutdown[r] # 0 /\ child[r].code < 0
      <4>1. shutdown[r] \in Signals
        BY <3>1 DEF TypeOK
      <4>2. rc'[r] \in {128 + s : s \in Signals}
        BY <2>1, <3>1, <4>1
      <4> QED
        BY <2>1, <3>1, <4>2 DEF Fits
    <3>2. CASE ~(shutdown[r] # 0 /\ child[r].code < 0)
      <4>1. ~(child[r].code < 0 /\ child[r].told)
        BY <1>1, <2>1, <3>2 DEF Blamed
      <4> QED
        BY <2>1, <3>2, <4>1 DEF Fits
    <3> QED
      BY <3>1, <3>2
  <2>3. Blamed(r)'
    BY <1>1, <2>1 DEF Blamed
  <2>4. Reported(r)'
    BY <2>1, <2>2 DEF Reported, Beginning, Ending
  <2> QED
    BY <2>1, <2>3, <2>4, OneAccounted
<1> QED
  BY <1>2, <1>3, <1>4, <1>5, <1>6 DEF Main

(* So do signals and the emulator's end.                                   *)
LEMMA OthersAccounted ==
  ASSUME Guarded, Accounted, NEW r \in Runners,
         \/ Start(r)
         \/ \E s \in Signals : RequestShutdown(r, s) \/ Killed(r, s)
         \/ ChildExits(r)
         \/ ChildObeys(r)
         \/ ChildKilled(r)
  PROVE  Accounted'
<1> USE RunnerAssumption DEF Guarded
<1>1. Blamed(r) /\ Reported(r)
  BY DEF Accounted
<1>2. CASE Start(r) \/ \E s \in Signals : Killed(r, s)
  <2>1. /\ UNCHANGED <<child, rc, shutdown>>
        /\ (pc[r] = "idle" /\ pc'[r] = "checkSession") \/ pc'[r] = "killed"
        /\ \A q \in Runners : q # r => pc'[q] = pc[q]
    BY <1>2 DEF Start, Goto, At, Killed, TypeOK
  <2>2. (Blamed(r) /\ Reported(r))'
    BY <1>1, <2>1 DEF Blamed, Reported, Fits, Beginning, Ending
  <2> QED
    BY <2>1, <2>2, OneAccounted
<1>3. ASSUME NEW s \in Signals, RequestShutdown(r, s)
      PROVE  Accounted'
  <2>1. /\ child'[r] = child[r] \/ (Live(child[r]) /\ child'[r] = [is |-> "told"])
        /\ shutdown'[r] = s /\ UNCHANGED <<pc, rc>>
        /\ \A q \in Runners : q # r => child'[q] = child[q] /\ shutdown'[q] = shutdown[q]
    BY <1>3 DEF RequestShutdown, Terminated, TypeOK
  <2>2. Live(child[r]) => pc[r] \in {"assign", "wait"}
    BY DEF LiveWhileWaiting
  <2>3. s # 0
    <3>1. s = SIGTERM \/ s = SIGINT
      BY DEF Signals
    <3> QED
      BY <3>1
  <2>4. Blamed(r)'
    BY <2>1, <2>3 DEF Blamed
  <2>5. child'[r] = child[r] /\ Fits(r, rc[r]) => Fits(r, rc[r])'
    BY <2>1, <2>3 DEF Fits
  <2>6. Reported(r)'
    BY <1>1, <2>1, <2>2, <2>5 DEF Reported, Beginning, Ending
  <2> QED
    BY <2>1, <2>4, <2>6, OneAccounted
<1>4. CASE ChildExits(r) \/ ChildObeys(r) \/ ChildKilled(r)
  <2>1. PICK code \in Int :
          Exit(r, code) /\ Live(child[r])
    <3>1. Codes \union {-SIGTERM} \subseteq Int /\ \A s \in Deaths : -s \in Int
      OBVIOUS
    <3> QED
      BY <1>4, <3>1 DEF ChildExits, ChildObeys, ChildKilled, Live
  <2>2. /\ child'[r] = [is |-> "exited", code |-> code, told |-> child[r].is = "told"]
        /\ UNCHANGED <<pc, rc, shutdown>>
        /\ \A q \in Runners : q # r => child'[q] = child[q]
    BY <2>1 DEF Exit, runner, TypeOK
  <2>3. pc[r] \in {"assign", "wait"}
    BY <2>1 DEF LiveWhileWaiting
  <2>4. Blamed(r)'
    <3>1. CASE child[r].is = "told"
      <4>1. shutdown'[r] # 0
        BY <1>1, <2>2, <3>1 DEF Blamed
      <4> QED
        BY <4>1 DEF Blamed
    <3>2. CASE child[r].is # "told"
      <4>1. child'[r] = [is |-> "exited", code |-> code, told |-> FALSE]
        <5>1. (child[r].is = "told") = FALSE
          BY <3>2
        <5> QED
          BY <2>2, <5>1
      <4>2. child'[r].is = "exited" /\ ~child'[r].told
        BY <4>1
      <4> QED
        BY <4>2 DEF Blamed
    <3> QED
      BY <3>1, <3>2
  <2>5. Reported(r)'
    BY <2>2, <2>3 DEF Reported, Beginning, Ending
  <2> QED
    BY <2>2, <2>4, <2>5, OneAccounted
<1> QED
  BY <1>2, <1>3, <1>4

(* Also with runners at the same time, each reports its own emulator.      *)
LEMMA AccountedAlways == Spec => []Accounted
<1>1. Guarded /\ Accounted /\ [Next]_vars => Accounted'
  <2> SUFFICES ASSUME Guarded, Accounted, [Next]_vars PROVE Accounted'
    OBVIOUS
  <2>1. CASE Next
    BY <2>1, MainAccounted, OthersAccounted DEF Next, Guarded
  <2>2. CASE UNCHANGED vars
    BY <2>2 DEF vars, Accounted, Blamed, Reported, Fits
  <2> QED
    BY <2>1, <2>2
<1> QED
  BY <1>1, InitAccounted, GuardedAlways, PTL DEF Spec

StartOf(r) == [type |-> "session.start", by |-> r]
StopOf(r, code) == [type |-> "session.stop", by |-> r, exit_code |-> code]

(* Two events, one after the other.                                        *)
LEMMA AppendTwo == \A a, b \in Event : Append(<<a>>, b) = <<a, b>>
<1> TAKE a, b \in Event
<1>1. <<a>> \in Seq(Event) /\ Len(<<a>>) = 1 /\ <<a>>[1] = a
  OBVIOUS
<1>2. /\ Append(<<a>>, b) \in Seq(Event) /\ Len(Append(<<a>>, b)) = 2
      /\ Append(<<a>>, b)[1] = a /\ Append(<<a>>, b)[2] = b
  BY <1>1, AppendProperties
<1>3. <<a, b>> \in Seq(Event) /\ Len(<<a, b>>) = 2 /\ <<a, b>>[1] = a /\ <<a, b>>[2] = b
  OBVIOUS
<1>4. \A i \in 1..2 : i = 1 \/ i = 2
  OBVIOUS
<1> QED
  BY <1>2, <1>3, <1>4, SeqEqual

(* What the active runner has written when it is at each label.            *)
Written(r) ==
  /\ pc[r] \in {"write", "start"} => events = <<>>
  /\ pc[r] \in {"onTerm", "onInt", "popen", "assign", "wait", "status", "restoreTerm",
                "restoreInt", "stop"} => events = <<StartOf(r)>>
  /\ pc[r] \in {"truncate", "finish"} => events = <<StartOf(r), StopOf(r, rc[r])>>

Complete ==
  session.is = "completed" =>
    /\ pc[session.by] = "ended" /\ session.exit_code = rc[session.by]
    /\ events = <<StartOf(session.by), StopOf(session.by, session.exit_code)>>

Recorded == (\A r \in Runners : Written(r)) /\ Complete

(* The runner of complete evidence is one of them.                         *)
LEMMA CompletedBy == TypeOK /\ session.is = "completed" => session.by \in Runners
BY DEF TypeOK, Session, Absent

(* A step of the active runner that leaves files that are complete alone.  *)
LEMMA OneRecorded ==
  ASSUME TypeOK, Owned, Recorded, NEW r \in Runners, Active(r),
         \A q \in Runners : q # r => pc'[q] = pc[q] /\ rc'[q] = rc[q],
         Written(r)', session'.is = "completed" => FilesUnchanged
  PROVE  Recorded'
<1>1. ASSUME NEW q \in Runners, q # r
      PROVE  Written(q)'
  <2>1. ~Active(q) /\ pc'[q] = pc[q]
    BY <1>1 DEF Owned, Single
  <2> QED
    BY <2>1 DEF Written, Active, Over
<1>2. Complete'
  <2> SUFFICES ASSUME session'.is = "completed"
               PROVE  /\ pc'[session'.by] = "ended" /\ session'.exit_code = rc'[session'.by]
                      /\ events' = <<StartOf(session'.by), StopOf(session'.by, session'.exit_code)>>
    BY DEF Complete, StartOf, StopOf
  <2>1. session' = session /\ events' = events
    BY DEF FilesUnchanged
  <2>2. session.by \in Runners /\ session.by # r
    BY <2>1, CompletedBy DEF Recorded, Complete, Active, Over
  <2> QED
    BY <2>1, <2>2 DEF Recorded, Complete
<1> QED
  BY <1>1, <1>2 DEF Recorded

(* Every step of main().                                                   *)
LEMMA MainRecorded ==
  ASSUME TypeOK, Owned, Recorded, NEW r \in Runners, Main(r)
  PROVE  Recorded'
<1>1. Written(r) /\ Complete
  BY DEF Recorded
<1>2. Active(r)
  BY DEF Main, CheckSession, CheckEvents, Truncate, WriteSession, AppendStart, OnSignal, Popen,
     PopenFails, Assign, Wait, Status, Restore, AppendStop, WriteFinal, Goto, At, Active, Over
<1>3. \A q \in Runners : q # r => pc'[q] = pc[q] /\ rc'[q] = rc[q]
  BY DEF Main, CheckSession, CheckEvents, Truncate, WriteSession, AppendStart, OnSignal, Popen,
     PopenFails, Assign, Wait, Status, Restore, AppendStop, WriteFinal, Goto, At, TypeOK
<1>4. CASE CheckSession(r) \/ CheckEvents(r)
  <2>1. FilesUnchanged /\ pc'[r] \in {"checkEvents", "create", "refused"}
    BY <1>4 DEF CheckSession, CheckEvents, Goto, At, TypeOK
  <2>2. Written(r)'
    BY <2>1 DEF Written
  <2> QED
    BY <1>2, <1>3, <2>1, <2>2, OneRecorded
<1>5. CASE Truncate(r, "create", "write") \/ WriteSession(r)
  <2>1. /\ pc[r] \in {"create", "write"} /\ pc'[r] \in {"write", "start"}
        /\ session'.is # "completed" /\ events' = events
    BY <1>5 DEF Truncate, WriteSession, Goto, At, TypeOK
  <2>2. events = <<>>
    BY <1>1, <2>1 DEF Written, Owned, Owner, Unowned
  <2>3. Written(r)'
    BY <2>1, <2>2 DEF Written
  <2> QED
    BY <1>2, <1>3, <2>1, <2>3, OneRecorded
<1>6. CASE AppendStart(r) \/ AppendStop(r)
  <2>1. session'.is # "completed"
    <3>1. session.by = r /\ session' = session /\ pc[r] # "ended"
      BY <1>6 DEF AppendStart, AppendStop, Goto, At, Owned, Owner, Owning, Ending
    <3> QED
      BY <1>1, <3>1 DEF Complete
  <2>2. Written(r)'
    <3>1. CASE AppendStart(r)
      <4>1. events = <<>> /\ events' = Append(events, StartOf(r)) /\ pc'[r] = "onTerm"
        BY <1>1, <3>1 DEF AppendStart, Goto, At, TypeOK, Written, StartOf
      <4>2. events' = <<StartOf(r)>>
        BY <4>1
      <4> QED
        BY <4>1, <4>2 DEF Written, StartOf
    <3>2. CASE AppendStop(r)
      <4>1. /\ events = <<StartOf(r)>> /\ events' = Append(events, StopOf(r, rc[r]))
            /\ pc'[r] = "truncate" /\ rc'[r] = rc[r]
        BY <1>1, <3>2 DEF AppendStop, Goto, At, TypeOK, Written, StopOf
      <4>2. StartOf(r) \in Event /\ StopOf(r, rc[r]) \in Event
        BY DEF StartOf, StopOf, Event, TypeOK
      <4>3. events' = <<StartOf(r), StopOf(r, rc'[r])>>
        BY <4>1, <4>2, AppendTwo
      <4> QED
        BY <4>1, <4>3 DEF Written, StartOf, StopOf
    <3> QED
      BY <1>6, <3>1, <3>2
  <2> QED
    BY <1>2, <1>3, <2>1, <2>2, OneRecorded
<1>7. CASE \/ OnSignal(r, SIGTERM, "onTerm", "onInt")
           \/ OnSignal(r, SIGINT, "onInt", "popen")
           \/ Popen(r) \/ PopenFails(r) \/ Assign(r) \/ Wait(r) \/ Status(r)
           \/ Restore(r, SIGTERM, "restoreTerm", "restoreInt")
           \/ Restore(r, SIGINT, "restoreInt", "stop")
  <2> DEFINE Within == {"onTerm", "onInt", "popen", "assign", "wait", "status", "restoreTerm",
                        "restoreInt", "stop"}
  <2>1. FilesUnchanged /\ pc[r] \in Within /\ pc'[r] \in Within
    BY <1>7 DEF OnSignal, Popen, PopenFails, Assign, Wait, Status, Restore, Goto, At, TypeOK
  <2>2. Written(r)'
    BY <1>1, <2>1 DEF Written, FilesUnchanged, StartOf
  <2> QED
    BY <1>2, <1>3, <2>1, <2>2, OneRecorded
<1>8. CASE Truncate(r, "truncate", "finish")
  <2>1. /\ pc[r] = "truncate" /\ pc'[r] = "finish" /\ rc' = rc
        /\ session'.is # "completed" /\ events' = events
    BY <1>8 DEF Truncate, Goto, At, TypeOK
  <2>2. Written(r)'
    BY <1>1, <2>1 DEF Written, StartOf, StopOf
  <2> QED
    BY <1>2, <1>3, <2>1, <2>2, OneRecorded
<1>9. CASE WriteFinal(r)
  <2>1. /\ pc[r] = "finish" /\ pc' = [pc EXCEPT ![r] = "ended"] /\ rc' = rc
        /\ session' = [is |-> "completed", by |-> r, exit_code |-> rc[r]] /\ events' = events
    BY <1>9 DEF WriteFinal, Goto, At
  <2>2. Complete'
    BY <1>1, <2>1 DEF TypeOK, Complete, Written, StartOf, StopOf
  <2>3. ASSUME NEW q \in Runners
        PROVE  Written(q)'
    <3>1. q # r => ~Active(q)
      BY <1>2 DEF Owned, Single
    <3>2. pc'[q] \in {"idle", "ended"} \union Over
      BY <2>1, <3>1 DEF TypeOK, Active
    <3> QED
      BY <3>2 DEF Written, Over
  <2> QED
    BY <2>2, <2>3 DEF Recorded
<1> QED
  BY <1>4, <1>5, <1>6, <1>7, <1>8, <1>9 DEF Main

(* The other steps write nothing.                                          *)
LEMMA OthersRecorded ==
  ASSUME TypeOK, Recorded, NEW r \in Runners,
         \/ Start(r)
         \/ \E s \in Signals : RequestShutdown(r, s) \/ Killed(r, s)
         \/ ChildExits(r)
         \/ ChildObeys(r)
         \/ ChildKilled(r)
  PROVE  Recorded'
<1>1. /\ UNCHANGED <<session, events, rc>>
      /\ \/ UNCHANGED pc
         \/ /\ pc[r] # "ended"
            /\ \E l \in {"checkSession", "killed"} : pc' = [pc EXCEPT ![r] = l]
  BY DEF Start, Goto, At, RequestShutdown, Killed, ChildExits, ChildObeys, ChildKilled, Exit, runner,
     FilesUnchanged, Active, Over
<1>2. ASSUME NEW q \in Runners
      PROVE  Written(q)'
  <2>1. pc'[q] = pc[q] \/ pc'[q] \in {"checkSession", "killed"}
    BY <1>1 DEF TypeOK
  <2> QED
    BY <1>1, <2>1 DEF Recorded, Written, StartOf, StopOf
<1>3. Complete'
  <2>1. session.is = "completed" => session.by \in Runners
    BY CompletedBy
  <2>2. session.is = "completed" => pc'[session.by] = "ended"
    BY <1>1, <2>1 DEF TypeOK, Recorded, Complete
  <2> QED
    BY <1>1, <2>2 DEF Recorded, Complete, StartOf, StopOf
<1> QED
  BY <1>2, <1>3 DEF Recorded

(* Evidence that is complete tells one session in its order, with the exit *)
(* code of its emulator, of any number of runs that follow one another.    *)
THEOREM CompletedCorrect ==
  ASSUME ~Concurrent
  PROVE  Spec => []CompletedHonest
<1>1. Init => Recorded
  BY DEF Init, Recorded, Written, Complete, Absent
<1>2. TypeOK /\ Owned /\ Recorded /\ [Next]_vars => Recorded'
  <2> SUFFICES ASSUME TypeOK, Owned, Recorded, [Next]_vars PROVE Recorded'
    OBVIOUS
  <2>1. CASE Next
    BY <2>1, MainRecorded, OthersRecorded DEF Next
  <2>2. CASE UNCHANGED vars
    BY <2>2 DEF vars, Recorded, Written, Complete
  <2> QED
    BY <2>1, <2>2
<1>3. TypeOK /\ Accounted /\ Recorded => CompletedHonest
  <2> SUFFICES ASSUME TypeOK, Accounted, Recorded, session.is = "completed"
               PROVE  /\ events = <<[type |-> "session.start", by |-> session.by],
                                    [type |-> "session.stop", by |-> session.by,
                                     exit_code |-> session.exit_code]>>
                      /\ child[session.by].is = "exited" =>
                           Fits(session.by, session.exit_code)
    BY DEF CompletedHonest
  <2>1. session.by \in Runners
    BY CompletedBy
  <2>2. pc[session.by] = "ended" /\ session.exit_code = rc[session.by]
    BY DEF Recorded, Complete
  <2>3. child[session.by].is = "exited" => Fits(session.by, session.exit_code)
    BY <2>1, <2>2 DEF Accounted, Reported
  <2>4. events = <<StartOf(session.by), StopOf(session.by, session.exit_code)>>
    BY DEF Recorded, Complete
  <2> QED
    BY <2>3, <2>4 DEF StartOf, StopOf
<1> QED
  BY <1>1, <1>2, <1>3, OwnedAlways, AccountedAlways, TypeCorrect, PTL DEF Spec

-----------------------------------------------------------------------------
(* A run that is asked to end does.                                        *)

(* What is known of a runner from the assignment of the process on.        *)
Serving == {"wait", "status"} \union Ending \union Over

(* Who is asked has assigned the process, which was told or is gone.       *)
Answered(r) ==
  /\ pc[r] = "assign" => child[r].is # "none"
  /\ known[r] => pc[r] \in Serving /\ child[r].is # "none"
  /\ asked[r] => known[r] /\ child[r].is \in {"told", "exited"}

(* What an asked run has before it until it is over.                       *)
Steps(r) ==
  CASE pc[r] = "wait" /\ child[r].is = "told" -> 8
    [] pc[r] = "wait" /\ child[r].is # "told" -> 7
    [] pc[r] = "status" -> 6
    [] pc[r] = "restoreTerm" -> 5
    [] pc[r] = "restoreInt" -> 4
    [] pc[r] = "stop" -> 3
    [] pc[r] = "truncate" -> 2
    [] pc[r] = "finish" -> 1
    [] OTHER -> 0

Within(r, n) == asked[r] /\ Steps(r) <= n

LEMMA AnsweredStep ==
  ASSUME TypeOK, NEW r \in Runners, Answered(r), [Next]_vars
  PROVE  Answered(r)'
<1> USE DEF Answered, Serving, Ending, Over
<1>1. CASE UNCHANGED vars
  BY <1>1 DEF vars
<1>2. CASE Next
  <2>1. PICK q \in Runners :
          Start(q) \/ Main(q) \/ (\E s \in Signals : RequestShutdown(q, s) \/ Killed(q, s))
          \/ ChildExits(q) \/ ChildObeys(q) \/ ChildKilled(q)
    BY <1>2 DEF Next
  <2>2. CASE q # r
    <3>1. /\ pc'[r] = pc[r] /\ known'[r] = known[r]
          /\ child'[r] = child[r] /\ asked'[r] = asked[r]
      BY <2>1, <2>2 DEF TypeOK, Start, Main, CheckSession, CheckEvents, Truncate, WriteSession,
         AppendStart, OnSignal, Popen, PopenFails, Assign, Wait, Status, Restore, AppendStop,
         WriteFinal, RequestShutdown, Killed, ChildExits, ChildObeys, ChildKilled, Exit, Goto, At, runner
    <3> QED
      BY <3>1
  <2>3. CASE q = r /\ (Start(r) \/ Main(r))
    BY <2>3 DEF TypeOK, Start, Main, CheckSession, CheckEvents, Truncate, WriteSession,
       AppendStart, OnSignal, Popen, PopenFails, Assign, Wait, Status, Restore, AppendStop,
       WriteFinal, Goto, At
  <2>4. CASE q = r /\ \E s \in Signals : RequestShutdown(r, s) \/ Killed(r, s)
    BY <2>4 DEF TypeOK, RequestShutdown, Killed, Terminated, Live, Process
  <2>5. CASE q = r /\ (ChildExits(r) \/ ChildObeys(r) \/ ChildKilled(r))
    BY <2>5 DEF TypeOK, ChildExits, ChildObeys, ChildKilled, Exit, runner
  <2> QED
    BY <2>1, <2>2, <2>3, <2>4, <2>5
<1> QED
  BY <1>1, <1>2

(* No step of anybody takes an asked run back.                             *)
LEMMA AskedGoesOn ==
  ASSUME TypeOK, NEW r \in Runners, Answered(r), asked[r], [Next]_vars
  PROVE  asked[r]' /\ Steps(r)' <= Steps(r)
<1> USE DEF Answered, Serving, Ending, Over, Steps
<1>1. CASE UNCHANGED vars
  BY <1>1 DEF vars
<1>2. CASE Next
  <2>1. PICK q \in Runners :
          Start(q) \/ Main(q) \/ (\E s \in Signals : RequestShutdown(q, s) \/ Killed(q, s))
          \/ ChildExits(q) \/ ChildObeys(q) \/ ChildKilled(q)
    BY <1>2 DEF Next
  <2>2. CASE q # r
    <3>1. pc'[r] = pc[r] /\ child'[r] = child[r] /\ asked'[r] = asked[r]
      BY <2>1, <2>2 DEF TypeOK, Start, Main, CheckSession, CheckEvents, Truncate, WriteSession,
         AppendStart, OnSignal, Popen, PopenFails, Assign, Wait, Status, Restore, AppendStop,
         WriteFinal, RequestShutdown, Killed, ChildExits, ChildObeys, ChildKilled, Exit, Goto, At, runner
    <3> QED
      BY <3>1
  <2>3. CASE q = r /\ (Start(r) \/ Main(r))
    BY <2>3 DEF TypeOK, Start, Main, CheckSession, CheckEvents, Truncate, WriteSession,
       AppendStart, OnSignal, Popen, PopenFails, Assign, Wait, Status, Restore, AppendStop,
       WriteFinal, Goto, At
  <2>4. CASE q = r /\ \E s \in Signals : RequestShutdown(r, s) \/ Killed(r, s)
    BY <2>4 DEF TypeOK, RequestShutdown, Killed, Terminated, Live, Process
  <2>5. CASE q = r /\ (ChildExits(r) \/ ChildObeys(r) \/ ChildKilled(r))
    BY <2>5 DEF TypeOK, ChildExits, ChildObeys, ChildKilled, Exit, runner
  <2> QED
    BY <2>1, <2>2, <2>3, <2>4, <2>5
<1> QED
  BY <1>1, <1>2

(* Its own steps take it further.                                          *)
LEMMA MainGoesOn ==
  ASSUME TypeOK, NEW r \in Runners, Answered(r), asked[r], Steps(r) \in 1..7, Main(r)
  PROVE  Steps(r)' < Steps(r)
BY DEF Answered, Serving, Ending, Over, Steps, TypeOK, Main, CheckSession, CheckEvents, Truncate,
   WriteSession, AppendStart, OnSignal, Popen, PopenFails, Assign, Wait, Status, Restore,
   AppendStop, WriteFinal, Goto, At

(* An emulator that obeys is gone.                                         *)
LEMMA ChildGoesOn ==
  ASSUME TypeOK, NEW r \in Runners, ChildObeys(r)
  PROVE  Steps(r)' < 8
BY DEF Steps, TypeOK, ChildObeys, Exit

(* The run of r ends.                                                      *)
Ends(r) == asked[r] ~> pc[r] \in Over

LEMMA FairToEach ==
  ASSUME NEW r \in Runners
  PROVE  FairSpec => Spec /\ Fairness(r)
<1> HIDE DEF Spec, Fairness
<1> QED
  BY DEF FairSpec

LEMMA EachEnds ==
  ASSUME NEW r \in Runners
  PROVE  Spec /\ Fairness(r) /\ []AbleToEnd(r) => Ends(r)
<1>1. Init => Answered(r)
  BY DEF Init, Answered
<1>2. TypeOK /\ Answered(r) /\ [Next]_vars => Answered(r)'
  BY AnsweredStep
<1> DEFINE Inv == TypeOK /\ Answered(r)
<1>3. Spec => []Inv
  BY <1>1, <1>2, TypeCorrect, PTL DEF Spec
<1>4. Steps(r) \in 0..8
  BY DEF Steps
<1>5. Inv /\ [Next]_vars =>
        /\ (Within(r, 8) => Within(r, 8)') /\ (Within(r, 7) => Within(r, 7)')
        /\ (Within(r, 6) => Within(r, 6)') /\ (Within(r, 5) => Within(r, 5)')
        /\ (Within(r, 4) => Within(r, 4)') /\ (Within(r, 3) => Within(r, 3)')
        /\ (Within(r, 2) => Within(r, 2)') /\ (Within(r, 1) => Within(r, 1)')
        /\ (Within(r, 0) => Within(r, 0)')
  <2> SUFFICES ASSUME Inv, [Next]_vars, NEW n \in 0..8, Within(r, n)
               PROVE  Within(r, n)'
    OBVIOUS
  <2>1. asked[r]' /\ Steps(r)' <= Steps(r)
    BY AskedGoesOn DEF Within
  <2>2. Steps(r)' \in 0..8
    BY DEF Steps
  <2> QED
    BY <1>4, <2>1, <2>2 DEF Within
<1>6. Inv /\ [Next]_vars /\ <<Main(r)>>_vars =>
        /\ (Within(r, 7) => Within(r, 6)') /\ (Within(r, 6) => Within(r, 5)')
        /\ (Within(r, 5) => Within(r, 4)') /\ (Within(r, 4) => Within(r, 3)')
        /\ (Within(r, 3) => Within(r, 2)') /\ (Within(r, 2) => Within(r, 1)')
        /\ (Within(r, 1) => Within(r, 0)')
  <2> SUFFICES ASSUME Inv, [Next]_vars, <<Main(r)>>_vars, NEW n \in 1..7, Within(r, n)
               PROVE  Within(r, n - 1)'
    BY SMTT(30)
  <2>1. asked[r]' /\ Steps(r)' <= Steps(r)
    BY AskedGoesOn DEF Within
  <2>2. Steps(r)' \in 0..8
    BY DEF Steps
  <2>3. Steps(r) \in 1..7 => Steps(r)' < Steps(r)
    BY MainGoesOn DEF Within
  <2> QED
    BY <1>4, <2>1, <2>2, <2>3 DEF Within
<1>7. Inv /\ [Next]_vars /\ <<ChildObeys(r)>>_vars /\ Within(r, 8) => Within(r, 7)'
  <2> SUFFICES ASSUME Inv, [Next]_vars, <<ChildObeys(r)>>_vars, Within(r, 8)
               PROVE  Within(r, 7)'
    OBVIOUS
  <2>1. asked[r]'
    BY AskedGoesOn DEF Within
  <2>2. Steps(r)' \in 0..8
    BY DEF Steps
  <2>3. Steps(r)' < 8
    BY ChildGoesOn
  <2> QED
    BY <2>1, <2>2, <2>3 DEF Within
<1>8. Inv => /\ (asked[r] => Within(r, 8))
             /\ (Within(r, 8) => Within(r, 7) \/ child[r].is = "told")
             /\ (Within(r, 7) => Within(r, 6) \/ (pc[r] = "wait" /\ child[r].is = "exited"))
             /\ (Within(r, 6) => Within(r, 0) \/ pc[r] \in {"status"} \union Ending)
             /\ (Within(r, 0) => pc[r] \in Over)
  BY DEF Within, Steps, Answered, Serving, Ending, Over
<1>9. Within(r, 0) => Within(r, 1) /\ Within(r, 2) /\ Within(r, 3) /\ Within(r, 4) /\ Within(r, 5)
  BY <1>4 DEF Within
<1> HIDE DEF Inv
<1> QED
  BY <1>3, <1>5, <1>6, <1>7, <1>8, <1>9, PTL DEF Spec, Fairness, AbleToEnd, Ends

(* A signal that finds the emulator's process assigned ends the run        *)
(* (atarisandbox_run.py, request_shutdown and the rest of main), for any   *)
(* number of runners at once, if each goes on and no run is stuck (Able).  *)
THEOREM AskedEndsCorrect == FairSpec /\ []Able => AskedEnds
<1>1. ASSUME NEW r \in Runners PROVE FairSpec /\ []Able => Ends(r)
  <2>1. Able => AbleToEnd(r)
    <3> HIDE DEF AbleToEnd
    <3> QED
      BY DEF Able
  <2> HIDE DEF Spec, Fairness, FairSpec, Able, AbleToEnd, Ends
  <2> QED
    BY <2>1, FairToEach, EachEnds, PTL
<1>2. (\A r \in Runners : FairSpec /\ []Able => Ends(r)) =>
        (FairSpec /\ []Able => \A r \in Runners : Ends(r))
  <2> HIDE DEF FairSpec, Able, Ends
  <2> QED
    OBVIOUS
<1>3. (\A r \in Runners : Ends(r)) => AskedEnds
  BY DEF AskedEnds, Ends
<1> HIDE DEF FairSpec, Able, Ends
<1> QED
  BY <1>1, <1>2, <1>3
=============================================================================
