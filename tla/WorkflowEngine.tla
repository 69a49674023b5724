---------------------------- MODULE WorkflowEngine ----------------------------
(***************************************************************************)
(* The Workflow Service's driver (platform/workflow/domain/engine.ts over  *)
(* platform/workflow/data/pg-store.ts) and one execution: start, resume,   *)
(* pause, retry, compensation, and what is left of them when a call throws *)
(* or a process dies.                                                      *)
(*                                                                         *)
(* A call is one running start or resume, in the process HostOf gives it.  *)
(* The row of workflow_execution is shared; pauseRequests and inFlight are *)
(* the memory of one process.  Every await of the code is a point where    *)
(* another call may step in.  Steps are numbered in the order topoOrder    *)
(* puts them, which is the order of pendingSteps.                          *)
(***************************************************************************)
EXTENDS Integers, FiniteSets

CONSTANTS
  Hosts,        \* processes with an engine of their own
  Calls,        \* start / resume calls that may be running
  HostOf,       \* call -> host
  NSteps,       \* steps of the definition
  Attempts,     \* step -> maxAttempts
  Declared,     \* steps that declare a `compensate` key
  Hooks,        \* host -> declared steps whose hook is registered there
  MaxResumes,   \* bound: resume calls
  MaxOverlaps,  \* bound: resumes that come in while start, or another host,
                \* is driving
  MaxThrows,    \* bound: awaits that reject
  MaxCrashes    \* bound: processes that die

Steps == 1..NSteps

ASSUME StepsAssumption ==
  /\ NSteps \in Nat \ {0}
  /\ Attempts \in [Steps -> Nat \ {0}]
  /\ Declared \subseteq Steps
ASSUME HostsAssumption ==
  /\ HostOf \in [Calls -> Hosts]
  /\ Hooks \in [Hosts -> SUBSET Declared]
ASSUME LimitsAssumption ==
  /\ MaxResumes \in Nat /\ MaxOverlaps \in Nat
  /\ MaxThrows \in Nat /\ MaxCrashes \in Nat

VARIABLES
  rec,        \* the row: state, pendingSteps, status of each step's record
  audit,      \* audit actions recorded for the execution
  pauseReq,   \* host -> is the execution in pauseRequests?
  pc, op,     \* where a call is; "start" or "resume"
  my,         \* the call's copy: state, pending, completed
  saving,     \* the state its current persist writes
  attempt,    \* attempts of the step in hand
  runs,       \* step -> times its handler took effect
  undone,     \* step -> times its rollback hook took effect
  resumes, overlaps, throws, crashes

local   == <<pc, op, my, saving, attempt>>
effects == <<runs, undone>>
counts  == <<resumes, overlaps, throws, crashes>>
vars    == <<rec, audit, pauseReq, local, effects, counts>>

States == {"absent", "running", "paused", "completed", "compensating",
           "compensated"}
StepStatus == {"none", "completed", "failed", "compensated"}
Snapshots ==
  [state : States, pending : SUBSET Steps, done : [Steps -> StepStatus]]
PCs == {"idle", "select", "auditStarted", "load", "boundary", "handler",
        "save", "compensate", "auditCompensated"}

TypeOK ==
  /\ rec \in Snapshots
  /\ audit \subseteq {"workflow.started", "workflow.compensated"}
  /\ pauseReq \in [Hosts -> BOOLEAN]
  /\ pc \in [Calls -> PCs]
  /\ op \in [Calls -> {"start", "resume"}]
  /\ my \in [Calls -> Snapshots]
  /\ saving \in [Calls -> States]
  /\ attempt \in [Calls -> Nat]
  /\ runs \in [Steps -> Nat]
  /\ undone \in [Steps -> Nat]
  /\ resumes \in 0..MaxResumes
  /\ overlaps \in 0..MaxOverlaps
  /\ throws \in 0..MaxThrows
  /\ crashes \in 0..MaxCrashes
-----------------------------------------------------------------------------
Absent == [state |-> "absent", pending |-> {},
           done |-> [s \in Steps |-> "none"]]
Fresh  == [state |-> "running", pending |-> Steps,
           done |-> [s \in Steps |-> "none"]]

Init ==
  /\ rec = Absent
  /\ audit = {}
  /\ pauseReq = [h \in Hosts |-> FALSE]
  /\ pc = [c \in Calls |-> "idle"]
  /\ op = [c \in Calls |-> "start"]
  /\ my = [c \in Calls |-> Absent]
  /\ saving = [c \in Calls |-> "absent"]
  /\ attempt = [c \in Calls |-> 0]
  /\ runs = [s \in Steps |-> 0]
  /\ undone = [s \in Steps |-> 0]
  /\ resumes = 0
  /\ overlaps = 0
  /\ throws = 0
  /\ crashes = 0

Goto(c, label) == pc' = [pc EXCEPT ![c] = label]

\* persist(..., state): the copy is built now and written by Save.
Persist(c, copy, state) ==
  /\ my' = [my EXCEPT ![c] = copy]
  /\ saving' = [saving EXCEPT ![c] = state]
  /\ Goto(c, "save")

\* Defective form: a compensated execution is not terminal.
TerminalCompletedOnly(state) == state = "completed"

Terminal(state) == state \in {"completed", "compensated"}

\* Defective form: the claim is not looked at.
InFlightUnseen(h) == FALSE

\* inFlight has the execution: a resume of this process has not settled.
InFlight(h) ==
  \E d \in Calls : HostOf[d] = h /\ op[d] = "resume" /\ pc[d] # "idle"

\* What the comments at the head of drive and inFlight take for granted.
Alone(c) ==
  \A d \in Calls : pc[d] # "idle" => op[d] = "resume" /\ HostOf[d] = HostOf[c]
-----------------------------------------------------------------------------
(* Calls come in.                                                          *)

\* start up to its insert.  When the idempotency key is taken the call
\* returns the row it finds and changes nothing.
Start(c) ==
  /\ pc[c] = "idle"
  /\ rec.state = "absent"
  /\ rec' = Fresh
  /\ op' = [op EXCEPT ![c] = "start"]
  /\ Goto(c, "select")
  /\ UNCHANGED <<audit, pauseReq, my, saving, attempt, effects, counts>>

\* Defective form: the start is not audited.
SelectNoAudit(c) ==
  /\ pc[c] = "select"
  /\ my' = [my EXCEPT ![c] = rec]
  /\ Goto(c, "boundary")
  /\ UNCHANGED <<rec, audit, pauseReq, op, saving, attempt, effects, counts>>

\* The select that follows the insert; the id is its own, so it goes on with
\* whatever the row holds by then.
Select(c) ==
  /\ pc[c] = "select"
  /\ my' = [my EXCEPT ![c] = rec]
  /\ Goto(c, "auditStarted")
  /\ UNCHANGED <<rec, audit, pauseReq, op, saving, attempt, effects, counts>>

AuditStarted(c) ==
  /\ pc[c] = "auditStarted"
  /\ audit' = audit \cup {"workflow.started"}
  /\ Goto(c, "boundary")
  /\ UNCHANGED <<rec, pauseReq, op, my, saving, attempt, effects, counts>>

\* resume.  A second one in the same process joins the promise of the first
\* and changes nothing; start and another process are not looked at.
Resume(c) ==
  /\ pc[c] = "idle"
  /\ rec.state # "absent"
  /\ ~InFlight(HostOf[c])
  /\ Alone(c) \/ overlaps < MaxOverlaps
  /\ resumes < MaxResumes
  /\ resumes' = resumes + 1
  /\ overlaps' = IF Alone(c) THEN overlaps ELSE overlaps + 1
  /\ op' = [op EXCEPT ![c] = "resume"]
  /\ Goto(c, "load")
  /\ UNCHANGED <<rec, audit, pauseReq, my, saving, attempt, effects, throws,
                 crashes>>

\* getById finds a terminal execution: returned as it is.
LoadTerminal(c) ==
  /\ pc[c] = "load"
  /\ Terminal(rec.state)
  /\ Goto(c, "idle")
  /\ UNCHANGED <<rec, audit, pauseReq, op, my, saving, attempt, effects, counts>>

ForgetPause(h) == pauseReq' = [pauseReq EXCEPT ![h] = FALSE]

\* Anything else is marked running, pause requests of this process forgotten.
Load(c) ==
  /\ pc[c] = "load"
  /\ ~Terminal(rec.state)
  /\ ForgetPause(HostOf[c])
  /\ Persist(c, [rec EXCEPT !.state = "running"], "running")
  /\ UNCHANGED <<rec, audit, op, attempt, effects, counts>>

\* This process has not loaded the definition: resume throws after the delete.
LoadUnregistered(c) ==
  /\ pc[c] = "load"
  /\ ~Terminal(rec.state)
  /\ throws < MaxThrows
  /\ throws' = throws + 1
  /\ ForgetPause(HostOf[c])
  /\ Goto(c, "idle")
  /\ UNCHANGED <<rec, audit, op, my, saving, attempt, effects, resumes,
                 overlaps, crashes>>

\* pause: the id is only known once the execution exists.
Pause(h) ==
  /\ rec.state # "absent"
  /\ pauseReq' = [pauseReq EXCEPT ![h] = TRUE]
  /\ UNCHANGED <<rec, audit, local, effects, counts>>
-----------------------------------------------------------------------------
(* driveLocked.                                                            *)

\* Pending steps without a record; those with one are skipped.
Todo(c) == {s \in my[c].pending : my[c].done[s] = "none"}

\* Defective form: the last pending step is taken.
IsNextLast(c, s) == s \in Todo(c) /\ \A t \in Todo(c) : t <= s

IsNext(c, s) == s \in Todo(c) /\ \A t \in Todo(c) : s <= t

Asked(c) == pauseReq[HostOf[c]]

\* The head of the loop sees a pause request.
PauseHere(c) ==
  /\ pc[c] = "boundary"
  /\ my[c].pending # {}
  /\ Asked(c)
  /\ Persist(c, my[c], "paused")
  /\ UNCHANGED <<rec, audit, pauseReq, op, attempt, effects, counts>>

RunStep(c) ==
  /\ pc[c] = "boundary"
  /\ Todo(c) # {}
  /\ ~Asked(c)
  /\ attempt' = [attempt EXCEPT ![c] = 1]
  /\ Goto(c, "handler")
  /\ UNCHANGED <<rec, audit, pauseReq, op, my, saving, effects, counts>>

\* The loop ends.  The local state is "paused" only if start's select read it.
Finish(c) ==
  /\ pc[c] = "boundary"
  /\ Todo(c) = {}
  /\ my[c].pending # {} => ~Asked(c)
  /\ Persist(c, [my[c] EXCEPT !.pending = {}],
             IF my[c].state = "paused" THEN "paused" ELSE "completed")
  /\ UNCHANGED <<rec, audit, pauseReq, op, attempt, effects, counts>>

HandlerOk(c, s) ==
  /\ pc[c] = "handler"
  /\ IsNext(c, s)
  /\ runs' = [runs EXCEPT ![s] = @ + 1]
  /\ Persist(c, [my[c] EXCEPT !.done[s] = "completed",
                              !.pending = {t \in @ : t > s}], "running")
  /\ UNCHANGED <<rec, audit, pauseReq, op, attempt, undone, counts>>

\* Defective form: the count starts over instead of ending the retries.
HandlerRetryForever(c, s) ==
  /\ pc[c] = "handler"
  /\ IsNext(c, s)
  /\ attempt' = [attempt EXCEPT ![c] = IF @ = Attempts[s] THEN 1 ELSE @ + 1]
  /\ UNCHANGED <<rec, audit, pauseReq, pc, op, my, saving, effects, counts>>

HandlerRetry(c, s) ==
  /\ pc[c] = "handler"
  /\ IsNext(c, s)
  /\ attempt[c] < Attempts[s]
  /\ attempt' = [attempt EXCEPT ![c] = @ + 1]
  /\ UNCHANGED <<rec, audit, pauseReq, pc, op, my, saving, effects, counts>>

\* Defective form: marked failed, never compensated.
HandlerFailMarksFailed(c, s) ==
  /\ pc[c] = "handler"
  /\ IsNext(c, s)
  /\ Persist(c, [my[c] EXCEPT !.done[s] = "failed", !.pending = {}], "failed")
  /\ UNCHANGED <<rec, audit, pauseReq, op, attempt, effects, counts>>

\* The handler answers "fail", or "retry" on the last attempt.
HandlerFail(c, s) ==
  /\ pc[c] = "handler"
  /\ IsNext(c, s)
  /\ Persist(c, [my[c] EXCEPT !.done[s] = "failed", !.pending = {}],
             "compensating")
  /\ UNCHANGED <<rec, audit, pauseReq, op, attempt, effects, counts>>

\* Defective form: no break after the pause.
AfterSaveNoBreak(state) ==
  IF state \in {"running", "paused"} THEN "boundary"
  ELSE IF state = "compensating" THEN "compensate" ELSE "idle"

\* Where the code goes on once its save has returned.
AfterSave(state) ==
  IF state = "running" THEN "boundary"
  ELSE IF state = "compensating" THEN "compensate" ELSE "idle"

\* store.save: the whole snapshot, whatever the row holds by now.
Save(c) ==
  /\ pc[c] = "save"
  /\ rec' = [my[c] EXCEPT !.state = saving[c]]
  /\ Goto(c, AfterSave(saving[c]))
  /\ UNCHANGED <<audit, pauseReq, op, my, saving, attempt, effects, counts>>
-----------------------------------------------------------------------------
(* compensate.                                                             *)

ToUndo(c) == {s \in Hooks[HostOf[c]] : my[c].done[s] = "completed"}

\* Defective form: no reverse().
IsNextUndoFirst(c, s) == s \in ToUndo(c) /\ \A t \in ToUndo(c) : s <= t

IsNextUndo(c, s) == s \in ToUndo(c) /\ \A t \in ToUndo(c) : t <= s

Compensate(c, s) ==
  /\ pc[c] = "compensate"
  /\ IsNextUndo(c, s)
  /\ undone' = [undone EXCEPT ![s] = @ + 1]
  /\ my' = [my EXCEPT ![c].done[s] = "compensated"]
  /\ UNCHANGED <<rec, audit, pauseReq, pc, op, saving, attempt, runs, counts>>

CompensateDone(c) ==
  /\ pc[c] = "compensate"
  /\ ToUndo(c) = {}
  /\ Goto(c, "auditCompensated")
  /\ UNCHANGED <<rec, audit, pauseReq, op, my, saving, attempt, effects, counts>>

AuditCompensated(c) ==
  /\ pc[c] = "auditCompensated"
  /\ audit' = audit \cup {"workflow.compensated"}
  /\ Persist(c, my[c], "compensated")
  /\ UNCHANGED <<rec, pauseReq, op, attempt, effects, counts>>
-----------------------------------------------------------------------------
(* What goes wrong.                                                        *)

\* A handler, a hook, the store or the audit service rejects: nothing between
\* here and the caller catches it.
Throws(c) ==
  /\ pc[c] # "idle"
  /\ throws < MaxThrows
  /\ throws' = throws + 1
  /\ Goto(c, "idle")
  /\ UNCHANGED <<rec, audit, pauseReq, op, my, saving, attempt, effects,
                 resumes, overlaps, crashes>>

\* The process dies and comes back, its memory gone.
Crash(h) ==
  /\ crashes < MaxCrashes
  /\ crashes' = crashes + 1
  /\ pc' = [c \in Calls |-> IF HostOf[c] = h THEN "idle" ELSE pc[c]]
  /\ ForgetPause(h)
  /\ UNCHANGED <<rec, audit, op, my, saving, attempt, effects, resumes,
                 overlaps, throws>>
-----------------------------------------------------------------------------
\* A call under way takes its next step.
Proceed(c) ==
  \/ Select(c) \/ AuditStarted(c)
  \/ LoadTerminal(c) \/ Load(c)
  \/ PauseHere(c) \/ RunStep(c) \/ Finish(c)
  \/ Save(c) \/ CompensateDone(c) \/ AuditCompensated(c)
  \/ \E s \in Steps : \/ HandlerOk(c, s) \/ HandlerRetry(c, s)
                      \/ HandlerFail(c, s) \/ Compensate(c, s)

Next ==
  \/ \E c \in Calls : \/ Start(c) \/ Resume(c) \/ Proceed(c)
                      \/ LoadUnregistered(c) \/ Throws(c)
  \/ \E h \in Hosts : Pause(h) \/ Crash(h)

Spec == Init /\ [][Next]_vars

\* A process goes on with a call it has begun, and handlers, hooks, the store
\* and the audit service answer.  Nobody is bound to call anything.
FairSpec == Spec /\ \A c \in Calls : WF_vars(Proceed(c))
-----------------------------------------------------------------------------
(* Properties.                                                             *)

\* A step takes effect only after every step before it has, also while two
\* calls drive the execution from copies of different age and each writes its
\* own over the row: the copies differ in how far they know, never in the order.
DependenciesFirst ==
  \A s \in Steps : runs[s] > 0 => \A t \in Steps : t < s => runs[t] > 0

\* resume: "completed steps are never re-run" -- once the row says that a step
\* is completed, no call runs it again.
CompletedNeverRerun ==
  [][\A s \in Steps : rec.done[s] = "completed" => runs'[s] = runs[s]]_vars

\* What stands of that: a recorded step is run again only after a resume came
\* in while start or another process was driving.  Duplicated resumes of one
\* process, throws and crashes are no excuse.
RerunsNeedOverlap ==
  [][overlaps = 0 =>
       \A s \in Steps : rec.done[s] = "completed" => runs'[s] = runs[s]]_vars

\* "terminal executions are returned as-is": until two drives overlap no call,
\* however late, writes over a terminal row.
TerminalIsFinal ==
  [][overlaps = 0 /\ rec.state \in {"completed", "compensated"}
       => rec' = rec]_vars

\* A row that holds a failed step never ends as completed: "Step failed ... ->
\* compensate completed steps, mark failed".
FailedNeverCompletes ==
  rec.state = "completed" => \A s \in Steps : rec.done[s] # "failed"

\* Rollback goes backwards and undoes nothing twice ...
InReverse ==
  \A s \in Declared : undone[s] > 0 =>
    /\ undone[s] = 1
    /\ \A t \in Declared : t > s /\ rec.done[t] = "completed" => undone[t] > 0

\* ... also when a hook throws, the process dies between two hooks, or another
\* process without the hooks resumes: only overlapping drives break it.
UndoneInReverse == overlaps = 0 => InReverse

\* While the row says paused, no handler and no hook is running.
PausedMeansQuiet ==
  rec.state = "paused" =>
    \A c \in Calls : pc[c] \notin {"boundary", "handler", "compensate"}

\* No step takes effect before the audit has the start, and none is rolled
\* back for good without the audit saying so.
AuditTellsStory ==
  /\ (\E s \in Steps : runs[s] > 0) => "workflow.started" \in audit
  /\ rec.state = "compensated" => "workflow.compensated" \in audit

\* Once started, and after every resume, the execution comes to rest: completed,
\* compensated, or paused until somebody resumes it.
EventuallyRests ==
  rec.state \in {"running", "compensating"}
    ~> rec.state \in {"paused", "completed", "compensated"}

\* The rows, calls and copies together behave as the saga they stand for.
Phase ==
  IF rec.state = "absent" THEN "absent"
  ELSE IF rec.state \in {"running", "paused"} THEN "forward"
  ELSE IF rec.state = "compensating" THEN "backward"
  ELSE IF rec.state = "completed" THEN "succeeded" ELSE "rolledBack"

Saga == INSTANCE ExecutionSaga WITH phase <- Phase

ImplementsSaga == Saga!Spec
=============================================================================
