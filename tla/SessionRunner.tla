---------------------------- MODULE SessionRunner ----------------------------
(***************************************************************************)
(* tools/atarisandbox_run.py: a runner opens the evidence of a session in  *)
(* an analysis directory, starts the emulator, waits for it and closes the *)
(* evidence; signals that reach the runner end the emulator.               *)
(***************************************************************************)
EXTENDS Integers, Sequences

CONSTANTS
  Runners,     \* the runs that are given this analysis directory
  Concurrent,  \* may they run at the same time?
  SIGTERM,
  SIGINT,
  Codes,       \* what the emulator exits with by itself
  Deaths,      \* the signals it dies of that its runner did not send
  MaxSignals   \* bound: the signals sent to each runner

Signals == {SIGTERM, SIGINT}

ASSUME RunnerAssumption ==
  /\ Concurrent \in BOOLEAN
  /\ SIGTERM \in Nat \ {0} /\ SIGINT \in Nat \ {0}
  /\ Codes \subseteq Nat
  /\ Deaths \subseteq Nat \ {0}
  /\ MaxSignals \in Nat

VARIABLES
  session,   \* session.json
  events,    \* events.jsonl: <<>> when there is no file
  pc,        \* where the runner is
  handled,   \* the signals that request_shutdown is installed for
  child,     \* the emulator's process
  known,     \* has the variable child been assigned?
  shutdown,  \* shutdown_signal, 0 for None
  rc,
  sent,      \* signals so far
  asked      \* history: request_shutdown ran when child was known

runner == <<pc, handled, known, shutdown, rc>>
vars == <<session, events, pc, handled, child, known, shutdown, rc, sent, asked>>

(* Between two labels the runner does one step that others can see. *)
Beginning == {"checkSession", "checkEvents", "create", "write", "start", "onTerm"}
Ending == {"restoreTerm", "restoreInt", "stop", "truncate", "finish"}
Over == {"refused", "killed", "ended"}
Labels == {"idle", "onInt", "popen", "assign", "wait", "status"}
            \union Beginning \union Ending \union Over

Absent == [is |-> "absent"]
Live(c) == c.is \in {"running", "told"}

-----------------------------------------------------------------------------

At(r, here, there) == pc[r] = here /\ pc' = [pc EXCEPT ![r] = there]

Goto(r, here, there) ==
  /\ At(r, here, there)
  /\ UNCHANGED <<handled, child, known, shutdown, rc, sent, asked>>

FilesUnchanged == UNCHANGED <<session, events>>

Active(r) == pc[r] \notin {"idle"} \union Over

Start(r) ==
  /\ ~Concurrent => \A q \in Runners : ~Active(q)
  /\ Goto(r, "idle", "checkSession")
  /\ FilesUnchanged

(* A bug: only events.jsonl is looked for. *)
CheckSession_Skips(r) == Goto(r, "checkSession", "checkEvents") /\ FilesUnchanged

(* session_path.exists() or events_path.exists(): the run is refused. *)
CheckSession(r) ==
  /\ Goto(r, "checkSession", IF session = Absent THEN "checkEvents" ELSE "refused")
  /\ FilesUnchanged

CheckEvents(r) ==
  /\ Goto(r, "checkEvents", IF events = <<>> THEN "create" ELSE "refused")
  /\ FilesUnchanged

(* write_json empties the file before it writes it. *)
Truncate(r, here, there) ==
  /\ Goto(r, here, there)
  /\ session' = [is |-> "empty", by |-> r]
  /\ UNCHANGED events

WriteSession(r) ==
  /\ Goto(r, "write", "start")
  /\ session' = [is |-> "open", by |-> r]
  /\ UNCHANGED events

AppendStart(r) ==
  /\ Goto(r, "start", "onTerm")
  /\ events' = Append(events, [type |-> "session.start", by |-> r])
  /\ UNCHANGED session

(* A bug: the handler is not installed. *)
OnSignal_Default(r, s, here, there) == Goto(r, here, there) /\ FilesUnchanged

OnSignal(r, s, here, there) ==
  /\ At(r, here, there)
  /\ handled' = [handled EXCEPT ![r] = @ \union {s}]
  /\ FilesUnchanged
  /\ UNCHANGED <<child, known, shutdown, rc, sent, asked>>

Popen(r) ==
  /\ At(r, "popen", "assign")
  /\ child' = [child EXCEPT ![r] = [is |-> "running"]]
  /\ FilesUnchanged
  /\ UNCHANGED <<handled, known, shutdown, rc, sent, asked>>

(* The command cannot be run: the exception passes the finally block. *)
PopenFails(r) == Goto(r, "popen", "restoreTerm") /\ FilesUnchanged

Assign(r) ==
  /\ At(r, "assign", "wait")
  /\ known' = [known EXCEPT ![r] = TRUE]
  /\ FilesUnchanged
  /\ UNCHANGED <<handled, child, shutdown, rc, sent, asked>>

(* A bug: the death by a signal is not an exit. *)
Wait_Exited(r) ==
  /\ At(r, "wait", "status")
  /\ child[r].is = "exited" /\ child[r].code >= 0
  /\ rc' = [rc EXCEPT ![r] = child[r].code]
  /\ FilesUnchanged
  /\ UNCHANGED <<handled, child, known, shutdown, sent, asked>>

Wait(r) ==
  /\ At(r, "wait", "status")
  /\ child[r].is = "exited"
  /\ rc' = [rc EXCEPT ![r] = child[r].code]
  /\ FilesUnchanged
  /\ UNCHANGED <<handled, child, known, shutdown, sent, asked>>

(* A bug: every death by a signal is taken for a shutdown. *)
Status_Any(r) ==
  /\ At(r, "status", "restoreTerm")
  /\ rc' = [rc EXCEPT ![r] = IF @ < 0 THEN 128 + shutdown[r] ELSE @]
  /\ FilesUnchanged
  /\ UNCHANGED <<handled, child, known, shutdown, sent, asked>>

(* An emulator that died of a signal after one was noted here is reported  *)
(* the way a shell does.                                                   *)
Status(r) ==
  /\ At(r, "status", "restoreTerm")
  /\ rc' = [rc EXCEPT ![r] = IF shutdown[r] # 0 /\ @ < 0 THEN 128 + shutdown[r] ELSE @]
  /\ FilesUnchanged
  /\ UNCHANGED <<handled, child, known, shutdown, sent, asked>>

Restore(r, s, here, there) ==
  /\ At(r, here, there)
  /\ handled' = [handled EXCEPT ![r] = @ \ {s}]
  /\ FilesUnchanged
  /\ UNCHANGED <<child, known, shutdown, rc, sent, asked>>

AppendStop(r) ==
  /\ Goto(r, "stop", "truncate")
  /\ events' = Append(events, [type |-> "session.stop", by |-> r, exit_code |-> rc[r]])
  /\ UNCHANGED session

WriteFinal(r) ==
  /\ Goto(r, "finish", "ended")
  /\ session' = [is |-> "completed", by |-> r, exit_code |-> rc[r]]
  /\ UNCHANGED events

(* A bug: the signal is noted and the emulator not told. *)
Terminated_Not(c) == c

Terminated(c) == IF Live(c) THEN [is |-> "told"] ELSE c

(* A signal with request_shutdown installed; it may interrupt Popen after  *)
(* the process was created and before the variable is assigned.            *)
RequestShutdown(r, s) ==
  /\ Active(r)
  /\ s \in handled[r]
  /\ sent[r] < MaxSignals
  /\ sent' = [sent EXCEPT ![r] = @ + 1]
  /\ shutdown' = [shutdown EXCEPT ![r] = s]
  /\ child' = [child EXCEPT ![r] = IF known[r] THEN Terminated(@) ELSE @]
  /\ asked' = [asked EXCEPT ![r] = @ \/ known[r]]
  /\ FilesUnchanged
  /\ UNCHANGED <<pc, handled, known, rc>>

(* A signal with its default action ends the runner where it is: SIGTERM   *)
(* the process, SIGINT by a KeyboardInterrupt outside of the try block or  *)
(* in the finally block.                                                   *)
Killed(r, s) ==
  /\ Active(r)
  /\ s \notin handled[r]
  /\ sent[r] < MaxSignals
  /\ sent' = [sent EXCEPT ![r] = @ + 1]
  /\ pc' = [pc EXCEPT ![r] = "killed"]
  /\ FilesUnchanged
  /\ UNCHANGED <<handled, child, known, shutdown, rc, asked>>

(* Popen.wait gives -s for a process that died of the signal s.            *)
Exit(r, code) ==
  /\ child' = [child EXCEPT ![r] =
                 [is |-> "exited", code |-> code, told |-> @.is = "told"]]
  /\ FilesUnchanged
  /\ UNCHANGED <<runner, sent, asked>>

(* The emulator ends by itself; told to, it quits or dies of the signal.   *)
ChildExits(r) == child[r].is = "running" /\ \E c \in Codes : Exit(r, c)

ChildObeys(r) == child[r].is = "told" /\ \E c \in Codes \union {-SIGTERM} : Exit(r, c)

(* It crashes, or another process kills it, whatever the runner did.       *)
ChildKilled(r) == Live(child[r]) /\ \E s \in Deaths : Exit(r, -s)

Init ==
  /\ session = Absent
  /\ events = <<>>
  /\ pc = [r \in Runners |-> "idle"]
  /\ handled = [r \in Runners |-> {}]
  /\ child = [r \in Runners |-> [is |-> "none"]]
  /\ known = [r \in Runners |-> FALSE]
  /\ shutdown = [r \in Runners |-> 0]
  /\ rc = [r \in Runners |-> 127]
  /\ sent = [r \in Runners |-> 0]
  /\ asked = [r \in Runners |-> FALSE]

(* main(), from the check for earlier evidence to the end. *)
Main(r) ==
  \/ CheckSession(r)
  \/ CheckEvents(r)
  \/ Truncate(r, "create", "write")
  \/ WriteSession(r)
  \/ AppendStart(r)
  \/ OnSignal(r, SIGTERM, "onTerm", "onInt")
  \/ OnSignal(r, SIGINT, "onInt", "popen")
  \/ Popen(r)
  \/ PopenFails(r)
  \/ Assign(r)
  \/ Wait(r)
  \/ Status(r)
  \/ Restore(r, SIGTERM, "restoreTerm", "restoreInt")
  \/ Restore(r, SIGINT, "restoreInt", "stop")
  \/ AppendStop(r)
  \/ Truncate(r, "truncate", "finish")
  \/ WriteFinal(r)

Next ==
  \E r \in Runners :
    \/ Start(r)
    \/ Main(r)
    \/ \E s \in Signals : RequestShutdown(r, s) \/ Killed(r, s)
    \/ ChildExits(r)
    \/ ChildObeys(r)
    \/ ChildKilled(r)

Spec == Init /\ [][Next]_vars

(* The runner goes on, and an emulator that was told to end does.  One     *)
(* that was not may run for ever.                                          *)
Fairness(r) == WF_vars(Main(r)) /\ WF_vars(ChildObeys(r))

FairSpec == Spec /\ \A r \in Runners : Fairness(r)

-----------------------------------------------------------------------------
(* Properties. *)

Event == [type : {"session.start"}, by : Runners]
           \union [type : {"session.stop"}, by : Runners, exit_code : Int]

Session == {Absent} \union [is : {"empty", "open"}, by : Runners]
             \union [is : {"completed"}, by : Runners, exit_code : Int]

Process == [is : {"none", "running", "told"}] 
             \union [is : {"exited"}, code : Int, told : BOOLEAN]

TypeOK ==
  /\ session \in Session
  /\ events \in Seq(Event)
  /\ pc \in [Runners -> Labels]
  /\ handled \in [Runners -> SUBSET Signals]
  /\ child \in [Runners -> Process]
  /\ known \in [Runners -> BOOLEAN]
  /\ shutdown \in [Runners -> {0} \union Signals]
  /\ rc \in [Runners -> Int]
  /\ sent \in [Runners -> Nat]
  /\ asked \in [Runners -> BOOLEAN]

(* No emulator outlives its runner: wherever a signal reaches the runner,  *)
(* it is gone only when its emulator is (or was never started).            *)
NoOrphan == \A r \in Runners : pc[r] \in Over => ~Live(child[r])

(* What the evidence of r may say of its emulator: the code it returned; a *)
(* death by a signal is told as a shutdown when the runner ordered it, and *)
(* never unless the runner noted a signal.                                 *)
Fits(r, code) ==
  \/ code = child[r].code /\ ~(code < 0 /\ child[r].told)
  \/ child[r].code < 0 /\ shutdown[r] # 0 /\ code \in {128 + s : s \in Signals}

(* Complete evidence is one session: the session.json that says completed, *)
(* the two events in this order and the emulator that exited agree on the  *)
(* exit code, also of an emulator that crashed or that another killed      *)
(* before, while or after a shutdown was asked for.                        *)
CompletedHonest ==
  session.is = "completed" =>
    LET r == session.by IN
    /\ events = <<[type |-> "session.start", by |-> r],
                  [type |-> "session.stop", by |-> r, exit_code |-> session.exit_code]>>
    /\ child[r].is = "exited" => Fits(r, session.exit_code)

(* "existing evidence cannot be overwritten silently"                      *)
(* (docs/M1_ANALYSIS_MODE.md): of runs that follow one another, whatever   *)
(* became of the earlier ones, only the first writes.                      *)
EvidenceKept ==
  [][/\ session # Absent => session'.by = session.by
     /\ \A i \in DOMAIN events : events'[i] = events[i]
     /\ events # <<>> => \A i \in DOMAIN events' : events'[i].by = events[1].by]_vars

(* From the wait to the end main() is never stuck: an emulator that was    *)
(* told to end can, however it ends the wait is over, and what follows can *)
(* be done (process.wait and the finally block).                           *)
AbleToEnd(r) ==
  /\ child[r].is = "told" => ENABLED <<ChildObeys(r)>>_vars
  /\ pc[r] = "wait" /\ child[r].is = "exited" => ENABLED <<Main(r)>>_vars
  /\ pc[r] \in {"status"} \union Ending => ENABLED <<Main(r)>>_vars

Able == \A r \in Runners : AbleToEnd(r)

(* A signal that finds the emulator's process assigned ends the run.       *)
AskedEnds == \A r \in Runners : asked[r] ~> pc[r] \in Over
=============================================================================
