------------------------ MODULE WorkflowEngineProofs ------------------------
(***************************************************************************)
(* Proofs about WorkflowEngine, for every value of its constants.          *)
(***************************************************************************)
EXTENDS WorkflowEngine, TLAPS

-----------------------------------------------------------------------------
(* Types.                                                                  *)

\* The engine is well typed at the start ...
LEMMA TypeInit == Init => TypeOK
  BY LimitsAssumption
  DEF Init, TypeOK, Absent, Snapshots, States, StepStatus, PCs

\* ... and each action keeps it so.
LEMMA TypeNext == TypeOK /\ [Next]_vars => TypeOK'
<1> SUFFICES ASSUME TypeOK, [Next]_vars PROVE TypeOK'
  OBVIOUS
<1> USE LimitsAssumption, StepsAssumption, HostsAssumption
    DEF TypeOK, Snapshots, States, StepStatus, PCs, local, effects, counts,
        Goto, Persist, ForgetPause
<1>1. ASSUME NEW c \in Calls, Start(c) PROVE TypeOK'
  BY <1>1 DEF Start, Fresh
<1>2. ASSUME NEW c \in Calls, Resume(c) PROVE TypeOK'
  BY <1>2 DEF Resume
<1>3. ASSUME NEW c \in Calls, Select(c) PROVE TypeOK'
  BY <1>3 DEF Select
<1>4. ASSUME NEW c \in Calls, AuditStarted(c) PROVE TypeOK'
  BY <1>4 DEF AuditStarted
<1>5. ASSUME NEW c \in Calls, LoadTerminal(c) PROVE TypeOK'
  BY <1>5 DEF LoadTerminal
<1>6. ASSUME NEW c \in Calls, Load(c) PROVE TypeOK'
  BY <1>6 DEF Load
<1>7. ASSUME NEW c \in Calls, PauseHere(c) PROVE TypeOK'
  BY <1>7 DEF PauseHere
<1>8. ASSUME NEW c \in Calls, RunStep(c) PROVE TypeOK'
  BY <1>8 DEF RunStep
<1>9. ASSUME NEW c \in Calls, Finish(c) PROVE TypeOK'
  BY ZenonT(60), <1>9 DEF Finish
<1>10. ASSUME NEW c \in Calls, Save(c) PROVE TypeOK'
  BY <1>10 DEF Save, AfterSave
<1>11. ASSUME NEW c \in Calls, CompensateDone(c) PROVE TypeOK'
  BY <1>11 DEF CompensateDone
<1>12. ASSUME NEW c \in Calls, AuditCompensated(c) PROVE TypeOK'
  BY <1>12 DEF AuditCompensated
<1>13. ASSUME NEW c \in Calls, NEW s \in Steps, HandlerOk(c, s) PROVE TypeOK'
  <2>1. my[c] \in Snapshots
    OBVIOUS
  <2>2. [my[c].done EXCEPT ![s] = "completed"] \in [Steps -> StepStatus]
    BY <2>1
  <2>3. {t \in my[c].pending : t > s} \subseteq Steps
    BY <2>1
  <2> DEFINE copy == [my[c] EXCEPT !.done[s] = "completed",
                                   !.pending = {t \in @ : t > s}]
  <2>4. copy \in Snapshots
    BY <2>1, <2>2, <2>3
  <2>5. runs' \in [Steps -> Nat]
    BY <1>13 DEF HandlerOk
  <2>6. /\ my' = [my EXCEPT ![c] = copy]
        /\ saving' = [saving EXCEPT ![c] = "running"]
        /\ pc' = [pc EXCEPT ![c] = "save"]
        /\ UNCHANGED <<rec, audit, pauseReq, op, attempt, undone, counts>>
    BY <1>13 DEF HandlerOk
  <2> HIDE DEF copy
  <2> QED
    BY <2>4, <2>5, <2>6
<1>14. ASSUME NEW c \in Calls, NEW s \in Steps, HandlerRetry(c, s) PROVE TypeOK'
  BY <1>14 DEF HandlerRetry
<1>15. ASSUME NEW c \in Calls, NEW s \in Steps, HandlerFail(c, s) PROVE TypeOK'
  BY <1>15 DEF HandlerFail
<1>16. ASSUME NEW c \in Calls, NEW s \in Steps, Compensate(c, s) PROVE TypeOK'
  <2>1. my[c] \in Snapshots
    OBVIOUS
  <2>2. [my[c].done EXCEPT ![s] = "compensated"] \in [Steps -> StepStatus]
    BY <2>1
  <2> DEFINE copy == [my[c] EXCEPT !.done[s] = "compensated"]
  <2>3. copy \in Snapshots
    BY <2>1, <2>2
  <2>4. undone' \in [Steps -> Nat]
    BY <1>16 DEF Compensate
  <2>5. /\ my' = [my EXCEPT ![c] = copy]
        /\ UNCHANGED <<rec, audit, pauseReq, pc, op, saving, attempt, runs, counts>>
    BY <1>16 DEF Compensate
  <2> HIDE DEF copy
  <2> QED
    BY <2>3, <2>4, <2>5
<1>17. ASSUME NEW c \in Calls, LoadUnregistered(c) PROVE TypeOK'
  BY <1>17 DEF LoadUnregistered
<1>18. ASSUME NEW c \in Calls, Throws(c) PROVE TypeOK'
  BY <1>18 DEF Throws
<1>19. ASSUME NEW h \in Hosts, Pause(h) PROVE TypeOK'
  BY <1>19 DEF Pause
<1>20. ASSUME NEW h \in Hosts, Crash(h) PROVE TypeOK'
  BY <1>20 DEF Crash
<1>21. CASE UNCHANGED vars
  BY <1>21 DEF vars
<1> QED
  BY <1>1, <1>2, <1>3, <1>4, <1>5, <1>6, <1>7, <1>8, <1>9, <1>10, <1>11, <1>12, <1>13, <1>14, <1>15, <1>16, <1>17, <1>18, <1>19, <1>20, <1>21
  DEF Next, Proceed

\* Every reachable state is well typed; in particular no execution is ever
\* stored as "failed", whatever the handlers answer.
THEOREM TypeCorrect == Spec => []TypeOK
<1>1. Init => TypeOK
  BY TypeInit
<1>2. TypeOK /\ [Next]_vars => TypeOK'
  BY TypeNext
<1> QED
  BY <1>1, <1>2, PTL DEF Spec

-----------------------------------------------------------------------------
(* The order of steps, whoever drives and whatever fails: no copy of the   *)
(* row, of whatever age, has a step pending after one that never ran, and  *)
(* a pending step has no record.                                           *)

InOrder(copy) ==
  \A s \in copy.pending :
    /\ copy.done[s] = "none"
    /\ \A t \in Steps : t < s => t \in copy.pending \/ runs[t] > 0

OrderInv ==
  /\ InOrder(rec)
  /\ \A c \in Calls : InOrder(my[c])
  /\ DependenciesFirst

\* Nothing has run at the start.
LEMMA OrderInit == Init => OrderInv
  BY DEF Init, OrderInv, InOrder, Absent, DependenciesFirst

\* Each action keeps every copy and the row in order.
LEMMA OrderNext == TypeOK /\ OrderInv /\ [Next]_vars => OrderInv'
<1> SUFFICES ASSUME TypeOK, OrderInv, [Next]_vars PROVE OrderInv'
  OBVIOUS
<1> USE DEF OrderInv, InOrder, DependenciesFirst, TypeOK, Snapshots, local, effects,
        counts, Goto, Persist
<1>1. ASSUME NEW c \in Calls, Start(c) PROVE OrderInv'
  BY <1>1 DEF Start, Fresh
<1>2. ASSUME NEW c \in Calls, Resume(c) PROVE OrderInv'
  BY <1>2 DEF Resume
<1>3. ASSUME NEW c \in Calls, Select(c) PROVE OrderInv'
  BY <1>3 DEF Select
<1>4. ASSUME NEW c \in Calls, AuditStarted(c) PROVE OrderInv'
  BY <1>4 DEF AuditStarted
<1>5. ASSUME NEW c \in Calls, LoadTerminal(c) PROVE OrderInv'
  BY <1>5 DEF LoadTerminal
<1>6. ASSUME NEW c \in Calls, Load(c) PROVE OrderInv'
  BY <1>6 DEF Load
<1>7. ASSUME NEW c \in Calls, PauseHere(c) PROVE OrderInv'
  BY <1>7 DEF PauseHere
<1>8. ASSUME NEW c \in Calls, RunStep(c) PROVE OrderInv'
  BY <1>8 DEF RunStep
<1>9. ASSUME NEW c \in Calls, Finish(c) PROVE OrderInv'
  BY <1>9 DEF Finish
<1>10. ASSUME NEW c \in Calls, Save(c) PROVE OrderInv'
  BY <1>10 DEF Save, AfterSave
<1>11. ASSUME NEW c \in Calls, CompensateDone(c) PROVE OrderInv'
  BY <1>11 DEF CompensateDone
<1>12. ASSUME NEW c \in Calls, AuditCompensated(c) PROVE OrderInv'
  BY <1>12 DEF AuditCompensated
<1>13. ASSUME NEW c \in Calls, NEW s \in Steps, HandlerOk(c, s) PROVE OrderInv'
  <2>1. /\ s \in my[c].pending
        /\ my[c].done[s] = "none"
        /\ \A t \in my[c].pending : s <= t
        /\ runs' = [runs EXCEPT ![s] = @ + 1]
        /\ UNCHANGED rec
    BY <1>13 DEF HandlerOk, IsNext, Todo
  <2>2. \A t \in Steps : t < s => runs[t] > 0
    BY <2>1 DEF Steps
  <2>3. DependenciesFirst'
    BY <2>1, <2>2 DEF Steps
  <2>4. InOrder(rec)'
    BY <2>1
  <2> DEFINE copy == [my[c] EXCEPT !.done[s] = "completed",
                                   !.pending = {t \in @ : t > s}]
  <2>5. my' = [my EXCEPT ![c] = copy]
    BY <1>13 DEF HandlerOk
  <2>6. /\ copy.pending = {t \in my[c].pending : t > s}
        /\ \A t \in Steps : t > s => copy.done[t] = my[c].done[t]
    BY <2>1 DEF Steps
  <2> HIDE DEF copy
  <2>7. ASSUME NEW d \in Calls, d # c PROVE InOrder(my[d])'
    BY <2>1, <2>5, <2>7
  <2>8. InOrder(my[c])'
    <3>1. my'[c] = copy
      BY <2>5
    <3> SUFFICES ASSUME NEW u \in copy.pending
                 PROVE  /\ copy.done[u] = "none"
                        /\ \A t \in Steps : t < u => t \in copy.pending \/ runs'[t] > 0
      BY <3>1
    <3>2. u \in my[c].pending /\ u > s /\ u \in Steps
      BY <2>6
    <3>3. copy.done[u] = "none"
      BY <3>2, <2>6
    <3>4. ASSUME NEW t \in Steps, t < u PROVE t \in copy.pending \/ runs'[t] > 0
      BY <3>2, <3>4, <2>1, <2>2, <2>6 DEF Steps
    <3> QED
      BY <3>3, <3>4
  <2> QED
    BY <2>3, <2>4, <2>7, <2>8
<1>14. ASSUME NEW c \in Calls, NEW s \in Steps, HandlerRetry(c, s) PROVE OrderInv'
  BY <1>14 DEF HandlerRetry
<1>15. ASSUME NEW c \in Calls, NEW s \in Steps, HandlerFail(c, s) PROVE OrderInv'
  BY <1>15 DEF HandlerFail
<1>16. ASSUME NEW c \in Calls, NEW s \in Steps, Compensate(c, s) PROVE OrderInv'
  <2> DEFINE copy == [my[c] EXCEPT !.done[s] = "compensated"]
  <2>1. /\ my' = [my EXCEPT ![c] = copy]
        /\ my[c].done[s] = "completed"
        /\ UNCHANGED <<rec, runs>>
    BY <1>16 DEF Compensate, IsNextUndo, ToUndo
  <2>2. /\ copy.pending = my[c].pending
        /\ \A u \in copy.pending : u # s /\ copy.done[u] = my[c].done[u]
    BY <2>1
  <2> HIDE DEF copy
  <2>3. ASSUME NEW d \in Calls PROVE InOrder(my[d])'
    <3>1. CASE d = c
      BY <2>1, <2>2, <3>1
    <3>2. CASE d # c
      BY <2>1, <3>2
    <3> QED
      BY <3>1, <3>2
  <2> QED
    BY <2>1, <2>3
<1>17. ASSUME NEW c \in Calls, LoadUnregistered(c) PROVE OrderInv'
  BY <1>17 DEF LoadUnregistered
<1>18. ASSUME NEW c \in Calls, Throws(c) PROVE OrderInv'
  BY <1>18 DEF Throws
<1>19. ASSUME NEW h \in Hosts, Pause(h) PROVE OrderInv'
  BY <1>19 DEF Pause
<1>20. ASSUME NEW h \in Hosts, Crash(h) PROVE OrderInv'
  BY <1>20 DEF Crash
<1>21. CASE UNCHANGED vars
  BY <1>21 DEF vars
<1> QED
  BY <1>1, <1>2, <1>3, <1>4, <1>5, <1>6, <1>7, <1>8, <1>9, <1>10, <1>11, <1>12, <1>13, <1>14, <1>15, <1>16, <1>17, <1>18, <1>19, <1>20, <1>21
  DEF Next, Proceed

\* Steps take effect in the order of topoOrder, for any number of calls and
\* processes, overlapping or not, with any number of throws and crashes.
THEOREM OrderHolds == Spec => []DependenciesFirst
<1>1. Init => OrderInv
  BY OrderInit
<1>2. TypeOK /\ TypeOK' /\ OrderInv /\ [Next]_vars => OrderInv'
  BY OrderNext
<1>3. OrderInv => DependenciesFirst
  BY DEF OrderInv
<1> QED
  BY TypeCorrect, <1>1, <1>2, <1>3, PTL DEF Spec

-----------------------------------------------------------------------------
(* One driver at a time.  Until a resume comes in while start or another   *)
(* process drives, inFlight leaves a single call under way, and the row is *)
(* in the state that call believes it to be in.                            *)

Driving == {"select", "auditStarted", "boundary", "handler", "save",
            "compensate", "auditCompensated"}

OneCall == \A c, d \in Calls : pc[c] # "idle" /\ pc[d] # "idle" => c = d

RowFollows(c) ==
  /\ pc[c] \in {"select", "auditStarted", "boundary", "handler"}
       => rec.state = "running"
  /\ pc[c] \in {"compensate", "auditCompensated"} => rec.state = "compensating"
  /\ pc[c] = "save" => ~Terminal(rec.state)

\* What the row holds as completed, the driver's copy does too, or it has
\* undone it since.
KnowsDone(c) ==
  pc[c] \in Driving \ {"select"} =>
    \A s \in Steps : rec.done[s] = "completed"
                       => my[c].done[s] \in {"completed", "compensated"}

DriverInv ==
  /\ OneCall
  /\ rec.state = "absent" => \A c \in Calls : pc[c] = "idle"
  /\ \A c \in Calls : RowFollows(c) /\ KnowsDone(c)

\* Nobody drives at the start.
LEMMA DriverInit == Init => DriverInv
  BY DEF Init, DriverInv, OneCall, RowFollows, KnowsDone, Driving

\* Each action that is not an overlapping resume leaves one driver who knows
\* what the row holds.
LEMMA DriverNext ==
  TypeOK /\ DriverInv /\ [Next]_vars /\ overlaps' = 0 => DriverInv'
<1> SUFFICES ASSUME TypeOK, DriverInv, [Next]_vars, overlaps' = 0
             PROVE  DriverInv'
  OBVIOUS
<1> USE DEF DriverInv, OneCall, RowFollows, KnowsDone, Driving, TypeOK,
        Snapshots, Terminal, local, effects, counts, Goto, Persist
<1>1. ASSUME NEW c \in Calls, Start(c) PROVE DriverInv'
  BY <1>1 DEF Start, Fresh
<1>2. ASSUME NEW c \in Calls, Resume(c) PROVE DriverInv'
  <2>1. ~InFlight(HostOf[c]) /\ Alone(c)
    BY <1>2 DEF Resume
  <2> QED
    BY <1>2, <2>1 DEF Resume, InFlight, Alone
<1>3. ASSUME NEW c \in Calls, Select(c) PROVE DriverInv'
  BY <1>3 DEF Select
<1>4. ASSUME NEW c \in Calls, AuditStarted(c) PROVE DriverInv'
  BY <1>4 DEF AuditStarted
<1>5. ASSUME NEW c \in Calls, LoadTerminal(c) PROVE DriverInv'
  BY <1>5 DEF LoadTerminal
<1>6. ASSUME NEW c \in Calls, Load(c) PROVE DriverInv'
  BY <1>6 DEF Load
<1>7. ASSUME NEW c \in Calls, PauseHere(c) PROVE DriverInv'
  BY <1>7 DEF PauseHere
<1>8. ASSUME NEW c \in Calls, RunStep(c) PROVE DriverInv'
  BY <1>8 DEF RunStep
<1>9. ASSUME NEW c \in Calls, Finish(c) PROVE DriverInv'
  BY <1>9 DEF Finish
<1>10. ASSUME NEW c \in Calls, Save(c) PROVE DriverInv'
  <2>1. /\ pc[c] = "save"
        /\ rec'.state = saving[c]
        /\ rec'.done = my[c].done
        /\ pc' = [pc EXCEPT ![c] = AfterSave(saving[c])]
        /\ UNCHANGED my
    BY <1>10 DEF Save
  <2>2. \A d \in Calls : d # c => pc[d] = "idle" /\ pc'[d] = "idle"
    BY <2>1
  <2>3. pc'[c] = AfterSave(saving[c])
    BY <2>1
  <2>4. OneCall'
    BY <2>2
  <2>5. (rec.state = "absent" => \A d \in Calls : pc[d] = "idle")'
    BY <2>1, <2>2, <2>3 DEF AfterSave
  <2>6. \A d \in Calls : RowFollows(d)'
    BY <2>1, <2>2, <2>3 DEF AfterSave
  <2>7. \A d \in Calls : KnowsDone(d)'
    BY <2>1, <2>2, <2>3
  <2> QED
    BY <2>4, <2>5, <2>6, <2>7
<1>11. ASSUME NEW c \in Calls, CompensateDone(c) PROVE DriverInv'
  BY <1>11 DEF CompensateDone
<1>12. ASSUME NEW c \in Calls, AuditCompensated(c) PROVE DriverInv'
  BY <1>12 DEF AuditCompensated
<1>13. ASSUME NEW c \in Calls, NEW s \in Steps, HandlerOk(c, s) PROVE DriverInv'
  BY <1>13 DEF HandlerOk, IsNext, Todo
<1>14. ASSUME NEW c \in Calls, NEW s \in Steps, HandlerRetry(c, s) PROVE DriverInv'
  BY <1>14 DEF HandlerRetry
<1>15. ASSUME NEW c \in Calls, NEW s \in Steps, HandlerFail(c, s) PROVE DriverInv'
  BY <1>15 DEF HandlerFail, IsNext, Todo
<1>16. ASSUME NEW c \in Calls, NEW s \in Steps, Compensate(c, s) PROVE DriverInv'
  <2> DEFINE copy == [my[c] EXCEPT !.done[s] = "compensated"]
  <2>1. /\ my' = [my EXCEPT ![c] = copy]
        /\ UNCHANGED <<rec, pc>>
    BY <1>16 DEF Compensate
  <2>2. \A t \in Steps : copy.done[t] = IF t = s THEN "compensated" ELSE my[c].done[t]
    OBVIOUS
  <2> HIDE DEF copy
  <2>3. \A d \in Calls : KnowsDone(d)'
    BY <2>1, <2>2
  <2> QED
    BY <2>1, <2>3
<1>17. ASSUME NEW c \in Calls, LoadUnregistered(c) PROVE DriverInv'
  BY <1>17 DEF LoadUnregistered
<1>18. ASSUME NEW c \in Calls, Throws(c) PROVE DriverInv'
  BY <1>18 DEF Throws
<1>19. ASSUME NEW h \in Hosts, Pause(h) PROVE DriverInv'
  BY <1>19 DEF Pause
<1>20. ASSUME NEW h \in Hosts, Crash(h) PROVE DriverInv'
  BY <1>20 DEF Crash
<1>21. CASE UNCHANGED vars
  BY <1>21 DEF vars
<1> QED
  BY <1>1, <1>2, <1>3, <1>4, <1>5, <1>6, <1>7, <1>8, <1>9, <1>10, <1>11, <1>12, <1>13, <1>14, <1>15, <1>16, <1>17, <1>18, <1>19, <1>20, <1>21
  DEF Next, Proceed

\* The overlaps are counted, never forgotten.
LEMMA OverlapsGrow ==
  TypeOK /\ [Next]_vars => (overlaps' = 0 => overlaps = 0)
<1> SUFFICES ASSUME TypeOK, [Next]_vars, overlaps' = 0 PROVE overlaps = 0
  OBVIOUS
<1>1. (\E c \in Calls : Resume(c)) \/ UNCHANGED overlaps
  BY ZenonT(60)
  DEF Next, Proceed, Start, Select, AuditStarted, LoadTerminal, Load,
      LoadUnregistered, PauseHere, RunStep, Finish, HandlerOk, HandlerRetry,
      HandlerFail, Save, Compensate, CompensateDone, AuditCompensated, Throws,
      Pause, Crash, counts, vars
<1> QED
  BY <1>1 DEF Resume, TypeOK

SoleDriver == overlaps = 0 => DriverInv

\* What the theorems on a single driver rest on.
LEMMA DriverHolds == Spec => []SoleDriver
<1>1. Init => SoleDriver
  BY DriverInit DEF SoleDriver
<1>2. TypeOK /\ SoleDriver /\ [Next]_vars => SoleDriver'
  BY DriverNext, OverlapsGrow DEF SoleDriver
<1> QED
  BY TypeCorrect, <1>1, <1>2, PTL DEF Spec

\* Where no overlap is allowed there is none.
LEMMA AloneThroughout ==
  ASSUME MaxOverlaps = 0
  PROVE  Spec => []DriverInv
<1>1. TypeOK /\ SoleDriver => DriverInv
  BY DEF TypeOK, SoleDriver
<1> QED
  BY TypeCorrect, DriverHolds, <1>1, PTL

\* Until drives overlap a recorded step is never run again, with any number of
\* duplicated resumes, throws and crashes.
THEOREM NeverRerun == Spec => RerunsNeedOverlap
<1> DEFINE A == overlaps = 0 =>
                  \A s \in Steps : rec.done[s] = "completed" => runs'[s] = runs[s]
<1>1. TypeOK /\ SoleDriver /\ [Next]_vars => [A]_vars
  <2> SUFFICES ASSUME TypeOK, DriverInv, Next, overlaps = 0 PROVE A
    BY DEF vars, SoleDriver
  <2>1. CASE \E c \in Calls, s \in Steps : HandlerOk(c, s)
    <3>1. PICK c \in Calls, t \in Steps : HandlerOk(c, t)
      BY <2>1
    <3>2. /\ my[c].done[t] = "none"
          /\ pc[c] = "handler"
          /\ runs' = [runs EXCEPT ![t] = @ + 1]
      BY <3>1 DEF HandlerOk, IsNext, Todo
    <3>3. rec.done[t] # "completed"
      BY <3>2 DEF DriverInv, KnowsDone, Driving
    <3> QED
      BY <3>2, <3>3 DEF TypeOK
  <2>2. CASE UNCHANGED runs
    BY <2>2
  <2>3. (\E c \in Calls, s \in Steps : HandlerOk(c, s)) \/ UNCHANGED runs
    BY ZenonT(60) DEF Next, Proceed, Start, Resume, Select, AuditStarted, LoadTerminal, Load,
           LoadUnregistered, PauseHere, RunStep, Finish, HandlerRetry, HandlerFail,
           Save, Compensate, CompensateDone, AuditCompensated, Throws, Pause, Crash,
           effects
  <2> QED
    BY <2>1, <2>2, <2>3
<1> QED
  BY TypeCorrect, DriverHolds, <1>1, PTL DEF Spec, RerunsNeedOverlap

\* ... and a terminal row is final.
THEOREM TerminalHolds == Spec => TerminalIsFinal
<1>1. TypeOK /\ SoleDriver /\ [Next]_vars =>
         [overlaps = 0 /\ rec.state \in {"completed", "compensated"}
            => rec' = rec]_vars
  <2> SUFFICES ASSUME TypeOK, DriverInv, Next,
                      rec.state \in {"completed", "compensated"}
               PROVE  rec' = rec
    BY DEF vars, SoleDriver
  <2>1. rec.state # "absent"
    OBVIOUS
  <2>2. \A c \in Calls : pc[c] # "save"
    BY DEF DriverInv, RowFollows, Terminal
  <2>3. (\E c \in Calls : Start(c) \/ Save(c)) \/ UNCHANGED rec
    BY ZenonT(60) DEF Next, Proceed, Resume, Select, AuditStarted, LoadTerminal, Load,
           LoadUnregistered, PauseHere, RunStep, Finish, HandlerOk, HandlerRetry,
           HandlerFail, Compensate, CompensateDone, AuditCompensated, Throws, Pause,
           Crash
  <2> QED
    BY <2>1, <2>2, <2>3 DEF Start, Save
<1> QED
  BY TypeCorrect, DriverHolds, <1>1, PTL DEF Spec, TerminalIsFinal

\* While the row says paused nobody runs a handler or a hook.
THEOREM PausedIsQuiet ==
  ASSUME MaxOverlaps = 0
  PROVE  Spec => []PausedMeansQuiet
<1>1. DriverInv => PausedMeansQuiet
  BY DEF DriverInv, RowFollows, PausedMeansQuiet
<1> QED
  BY AloneThroughout, <1>1, PTL

-----------------------------------------------------------------------------
(* Rollback.  Only the call that saved the row as compensating rolls back, *)
(* and from then on nothing is pending anywhere: whoever resumes after a   *)
(* throw or a crash finds no step to fail, so no second rollback begins.   *)

NothingUndone == \A s \in Steps : undone[s] = 0

RollingBack(c) ==
  \/ pc[c] \in {"compensate", "auditCompensated"}
  \/ (pc[c] = "save" /\ saving[c] = "compensated")

GivingUp(c) == pc[c] = "save" /\ saving[c] = "compensating"

\* The copy of a call that rolls back is the row and what it has undone since.
RollsBackFromRow(c) ==
  /\ rec.pending = {}
  /\ my[c].pending = {}
  /\ \A s \in Steps :
       my[c].done[s] = IF undone[s] = 1 THEN "compensated" ELSE rec.done[s]

\* Any other copy was made before the first hook ran, or after the last.
LooksOn(c) ==
  NothingUndone \/ (my[c].pending = {} /\ my[c].done = rec.done)

UndoInv ==
  /\ \A s \in Steps : undone[s] \in {0, 1}
  /\ NothingUndone \/ rec.pending = {}
  /\ rec.state = "absent" => NothingUndone
  /\ \A c \in Calls :
       /\ RollingBack(c) => RollsBackFromRow(c)
       /\ pc[c] = "save" => saving[c] # "absent"
       /\ GivingUp(c) => NothingUndone /\ my[c].pending = {}
       /\ pc[c] \in Driving \ {"select"} /\ ~RollingBack(c) => LooksOn(c)
  /\ InReverse

\* A process registers all the hooks of the definition or none of them.
HooksWhole == \A h \in Hosts : Hooks[h] \in {{}, Declared}

\* Nothing is undone at the start.
LEMMA UndoInit == Init => UndoInv
  BY StepsAssumption
  DEF Init, UndoInv, NothingUndone, RollingBack, GivingUp, Driving,
      InReverse, Absent

\* Each action keeps the copy that rolls back in step with the row.
LEMMA UndoNext ==
  ASSUME HooksWhole
  PROVE  TypeOK /\ DriverInv /\ UndoInv /\ [Next]_vars => UndoInv'
<1> SUFFICES ASSUME TypeOK, DriverInv, UndoInv, [Next]_vars PROVE UndoInv'
  OBVIOUS
<1> USE StepsAssumption
    DEF UndoInv, NothingUndone, RollingBack, GivingUp, RollsBackFromRow, LooksOn,
        InReverse, Driving, DriverInv, OneCall, TypeOK, Snapshots, local,
        effects, counts, Goto, Persist
<1>1. ASSUME NEW c \in Calls, Start(c) PROVE UndoInv'
  BY <1>1 DEF Start, Fresh
<1>2. ASSUME NEW c \in Calls, Resume(c) PROVE UndoInv'
  BY <1>2 DEF Resume
<1>3. ASSUME NEW c \in Calls, Select(c) PROVE UndoInv'
  BY <1>3 DEF Select
<1>4. ASSUME NEW c \in Calls, AuditStarted(c) PROVE UndoInv'
  BY <1>4 DEF AuditStarted
<1>5. ASSUME NEW c \in Calls, LoadTerminal(c) PROVE UndoInv'
  BY <1>5 DEF LoadTerminal, Terminal
<1>6. ASSUME NEW c \in Calls, Load(c) PROVE UndoInv'
  BY <1>6 DEF Load
<1>7. ASSUME NEW c \in Calls, PauseHere(c) PROVE UndoInv'
  BY <1>7 DEF PauseHere
<1>8. ASSUME NEW c \in Calls, RunStep(c) PROVE UndoInv'
  BY <1>8 DEF RunStep
<1>9. ASSUME NEW c \in Calls, Finish(c) PROVE UndoInv'
  BY <1>9 DEF Finish
<1>10. ASSUME NEW c \in Calls, Save(c) PROVE UndoInv'
  <2>1. /\ pc[c] = "save"
        /\ rec'.state = saving[c]
        /\ rec'.pending = my[c].pending /\ rec'.done = my[c].done
        /\ pc' = [pc EXCEPT ![c] = AfterSave(saving[c])]
        /\ UNCHANGED <<my, saving, undone>>
    BY <1>10 DEF Save
  <2>2. \A d \in Calls : d # c => pc'[d] = "idle"
    BY <2>1
  <2>3. pc'[c] = AfterSave(saving[c])
    BY <2>1
  <2>4. CASE saving[c] = "compensated"
    <3>1. RollsBackFromRow(c) /\ pc'[c] = "idle"
      BY <2>1, <2>3, <2>4 DEF AfterSave
    <3>2. \A t \in Steps : my[c].done[t] = "completed" => rec.done[t] = "completed"
      BY <3>1
    <3>3. InReverse'
      BY <2>1, <3>2
    <3> QED
      BY <2>1, <2>2, <2>4, <3>1, <3>3
  <2>5. CASE saving[c] = "compensating"
    BY <2>1, <2>2, <2>3, <2>5 DEF AfterSave
  <2>6. CASE saving[c] \notin {"compensated", "compensating"}
    <3>1. LooksOn(c) /\ saving[c] # "absent" /\ rec'.state # "absent"
      BY <2>1, <2>6
    <3>2. pc'[c] \in {"boundary", "idle"}
      BY <2>3, <2>6 DEF AfterSave
    <3>3. CASE NothingUndone
      BY <2>1, <2>2, <3>1, <3>2, <3>3
    <3>4. CASE my[c].pending = {} /\ my[c].done = rec.done
      <4>1. rec'.pending = {} /\ rec'.done = rec.done
        BY <2>1, <3>4
      <4>2. InReverse'
        BY <4>1, <2>1
      <4>3. LooksOn(c)'
        BY <4>1, <2>1, <3>4
      <4> QED
        BY <4>1, <4>2, <4>3, <2>1, <2>2, <3>1, <3>2
    <3> QED
      BY <3>1, <3>3, <3>4
  <2> QED
    BY <2>4, <2>5, <2>6
<1>11. ASSUME NEW c \in Calls, CompensateDone(c) PROVE UndoInv'
  BY <1>11 DEF CompensateDone
<1>12. ASSUME NEW c \in Calls, AuditCompensated(c) PROVE UndoInv'
  BY <1>12 DEF AuditCompensated
<1>13. ASSUME NEW c \in Calls, NEW s \in Steps, HandlerOk(c, s) PROVE UndoInv'
  <2>1. /\ pc[c] = "handler" /\ s \in my[c].pending
        /\ UNCHANGED <<rec, undone>>
        /\ pc' = [pc EXCEPT ![c] = "save"]
        /\ saving' = [saving EXCEPT ![c] = "running"]
    BY <1>13 DEF HandlerOk, IsNext, Todo
  <2>2. NothingUndone
    BY <2>1
  <2>3. \A d \in Calls : d # c => pc'[d] = "idle"
    BY <2>1
  <2> QED
    BY <2>1, <2>2, <2>3
<1>14. ASSUME NEW c \in Calls, NEW s \in Steps, HandlerRetry(c, s) PROVE UndoInv'
  BY <1>14 DEF HandlerRetry
<1>15. ASSUME NEW c \in Calls, NEW s \in Steps, HandlerFail(c, s) PROVE UndoInv'
  <2>1. /\ pc[c] = "handler" /\ s \in my[c].pending
        /\ UNCHANGED <<rec, undone>>
        /\ pc' = [pc EXCEPT ![c] = "save"]
        /\ saving' = [saving EXCEPT ![c] = "compensating"]
        /\ my'[c].pending = {}
    BY <1>15 DEF HandlerFail, IsNext, Todo
  <2>2. NothingUndone
    BY <2>1
  <2>3. \A d \in Calls : d # c => pc'[d] = "idle"
    BY <2>1
  <2> QED
    BY <2>1, <2>2, <2>3
<1>16. ASSUME NEW c \in Calls, NEW s \in Steps, Compensate(c, s) PROVE UndoInv'
  <2> DEFINE copy == [my[c] EXCEPT !.done[s] = "compensated"]
  <2>1. /\ pc[c] = "compensate"
        /\ IsNextUndo(c, s)
        /\ undone' = [undone EXCEPT ![s] = @ + 1]
        /\ my' = [my EXCEPT ![c] = copy]
        /\ UNCHANGED <<rec, pc, saving>>
        /\ rec.state = "compensating"
    BY <1>16 DEF Compensate, RowFollows
  <2>2. /\ s \in Declared /\ my[c].done[s] = "completed"
        /\ \A t \in Declared : my[c].done[t] = "completed" => t <= s
    <3>1. s \in Hooks[HostOf[c]]
      BY <2>1 DEF IsNextUndo, ToUndo
    <3>2. Hooks[HostOf[c]] = Declared
      BY <3>1, HostsAssumption DEF HooksWhole
    <3> QED
      BY <2>1, <3>2 DEF IsNextUndo, ToUndo
  <2>3. /\ copy.pending = my[c].pending
        /\ \A t \in Steps :
             copy.done[t] = IF t = s THEN "compensated" ELSE my[c].done[t]
    OBVIOUS
  <2> HIDE DEF copy
  <2>4. undone[s] = 0 /\ RollsBackFromRow(c)
    BY <2>1, <2>2
  <2>5. \A t \in Steps : undone'[t] = IF t = s THEN 1 ELSE undone[t]
    BY <2>1, <2>4
  <2>6. my'[c] = copy
    BY <2>1
  <2>7. RollsBackFromRow(c)'
    BY <2>1, <2>3, <2>4, <2>5, <2>6
  <2>8. InReverse'
    <3> SUFFICES ASSUME NEW u \in Declared, undone'[u] > 0,
                        NEW t \in Declared, t > u, rec.done[t] = "completed"
                 PROVE  undone'[t] > 0
      BY <2>1, <2>5
    <3>1. CASE undone[t] = 1
      BY <3>1, <2>5
    <3>2. CASE undone[t] # 1
      <4>1. my[c].done[t] = "completed"
        BY <3>2, <2>4
      <4>2. t <= s /\ t \in Steps /\ u \in Steps
        BY <4>1, <2>2
      <4>3. u # s
        BY <4>2 DEF Steps
      <4>4. undone[u] > 0
        BY <4>2, <4>3, <2>5
      <4>5. undone[t] > 0
        BY <4>4
      <4> QED
        BY <3>2, <4>2, <4>5
    <3> QED
      BY <3>1, <3>2
  <2>9. \A d \in Calls : d # c => pc[d] = "idle"
    BY <2>1
  <2>10. \A t \in Steps : undone'[t] \in {0, 1}
    BY <2>5
  <2> QED
    BY <2>1, <2>4, <2>7, <2>8, <2>9, <2>10
<1>17. ASSUME NEW c \in Calls, LoadUnregistered(c) PROVE UndoInv'
  BY <1>17 DEF LoadUnregistered
<1>18. ASSUME NEW c \in Calls, Throws(c) PROVE UndoInv'
  BY <1>18 DEF Throws
<1>19. ASSUME NEW h \in Hosts, Pause(h) PROVE UndoInv'
  BY <1>19 DEF Pause
<1>20. ASSUME NEW h \in Hosts, Crash(h) PROVE UndoInv'
  BY <1>20 DEF Crash
<1>21. CASE UNCHANGED vars
  BY <1>21 DEF vars
<1> QED
  BY <1>1, <1>2, <1>3, <1>4, <1>5, <1>6, <1>7, <1>8, <1>9, <1>10, <1>11, <1>12, <1>13, <1>14, <1>15, <1>16, <1>17, <1>18, <1>19, <1>20, <1>21
  DEF Next, Proceed

\* Rollback goes backwards and undoes nothing twice, wherever throws and crashes
\* cut it short, as long as one call drives at a time.
THEOREM UndoneHolds ==
  ASSUME HooksWhole
  PROVE  Spec => []UndoneInReverse
<1> DEFINE SoleUndo == overlaps = 0 => UndoInv
<1>1. Init => SoleUndo
  BY UndoInit
<1>2. TypeOK /\ SoleDriver /\ SoleUndo /\ [Next]_vars => SoleUndo'
  BY UndoNext, OverlapsGrow DEF SoleDriver
<1>3. SoleUndo => UndoneInReverse
  BY DEF UndoInv, UndoneInReverse
<1> QED
  BY TypeCorrect, DriverHolds, <1>1, <1>2, <1>3, PTL DEF Spec

-----------------------------------------------------------------------------
(* The audit.  Both records are written before the row shows what they     *)
(* stand for; the first only if the call that starts the execution is not  *)
(* cut short, and nobody drives before it has recorded.                    *)

\* A rollback is saved by a call that has recorded it.
RollbackRecorded ==
  /\ rec.state = "compensated" => "workflow.compensated" \in audit
  /\ \A c \in Calls : pc[c] = "save" /\ saving[c] = "compensated"
                        => "workflow.compensated" \in audit

StartRecorded ==
  \/ "workflow.started" \in audit
  \/ /\ \A s \in Steps : runs[s] = 0
     /\ \/ rec.state = "absent"
        \/ \E c \in Calls : pc[c] \in {"select", "auditStarted"}

\* The audit is written before the state that claims it is saved.
LEMMA RollbackRecordedNext == TypeOK /\ RollbackRecorded /\ [Next]_vars => RollbackRecorded'
<1> SUFFICES ASSUME TypeOK, RollbackRecorded, [Next]_vars PROVE RollbackRecorded'
  OBVIOUS
<1> USE DEF RollbackRecorded, TypeOK, Snapshots, local, effects, counts, Goto, Persist
<1>1. ASSUME NEW c \in Calls, Start(c) PROVE RollbackRecorded'
  BY <1>1 DEF Start, Fresh
<1>2. ASSUME NEW c \in Calls, Resume(c) PROVE RollbackRecorded'
  BY <1>2 DEF Resume
<1>3. ASSUME NEW c \in Calls, Select(c) PROVE RollbackRecorded'
  BY <1>3 DEF Select
<1>4. ASSUME NEW c \in Calls, AuditStarted(c) PROVE RollbackRecorded'
  BY <1>4 DEF AuditStarted
<1>5. ASSUME NEW c \in Calls, LoadTerminal(c) PROVE RollbackRecorded'
  BY <1>5 DEF LoadTerminal
<1>6. ASSUME NEW c \in Calls, Load(c) PROVE RollbackRecorded'
  BY <1>6 DEF Load
<1>7. ASSUME NEW c \in Calls, PauseHere(c) PROVE RollbackRecorded'
  BY <1>7 DEF PauseHere
<1>8. ASSUME NEW c \in Calls, RunStep(c) PROVE RollbackRecorded'
  BY <1>8 DEF RunStep
<1>9. ASSUME NEW c \in Calls, Finish(c) PROVE RollbackRecorded'
  BY <1>9 DEF Finish
<1>10. ASSUME NEW c \in Calls, Save(c) PROVE RollbackRecorded'
  BY <1>10 DEF Save, AfterSave
<1>11. ASSUME NEW c \in Calls, CompensateDone(c) PROVE RollbackRecorded'
  BY <1>11 DEF CompensateDone
<1>12. ASSUME NEW c \in Calls, AuditCompensated(c) PROVE RollbackRecorded'
  BY <1>12 DEF AuditCompensated
<1>13. ASSUME NEW c \in Calls, NEW s \in Steps, HandlerOk(c, s) PROVE RollbackRecorded'
  BY <1>13 DEF HandlerOk
<1>14. ASSUME NEW c \in Calls, NEW s \in Steps, HandlerRetry(c, s) PROVE RollbackRecorded'
  BY <1>14 DEF HandlerRetry
<1>15. ASSUME NEW c \in Calls, NEW s \in Steps, HandlerFail(c, s) PROVE RollbackRecorded'
  BY <1>15 DEF HandlerFail
<1>16. ASSUME NEW c \in Calls, NEW s \in Steps, Compensate(c, s) PROVE RollbackRecorded'
  BY <1>16 DEF Compensate
<1>17. ASSUME NEW c \in Calls, LoadUnregistered(c) PROVE RollbackRecorded'
  BY <1>17 DEF LoadUnregistered
<1>18. ASSUME NEW c \in Calls, Throws(c) PROVE RollbackRecorded'
  BY <1>18 DEF Throws
<1>19. ASSUME NEW h \in Hosts, Pause(h) PROVE RollbackRecorded'
  BY <1>19 DEF Pause
<1>20. ASSUME NEW h \in Hosts, Crash(h) PROVE RollbackRecorded'
  BY <1>20 DEF Crash
<1>21. CASE UNCHANGED vars
  BY <1>21 DEF vars
<1> QED
  BY <1>1, <1>2, <1>3, <1>4, <1>5, <1>6, <1>7, <1>8, <1>9, <1>10, <1>11, <1>12, <1>13, <1>14, <1>15, <1>16, <1>17, <1>18, <1>19, <1>20, <1>21
  DEF Next, Proceed

\* No execution is stored as rolled back without the audit saying so, whoever
\* drives and whatever fails.
THEOREM RollbackIsAudited ==
  Spec => [](rec.state = "compensated" => "workflow.compensated" \in audit)
<1>1. Init => RollbackRecorded
  BY DEF Init, RollbackRecorded, Absent
<1>2. TypeOK /\ RollbackRecorded /\ [Next]_vars => RollbackRecorded'
  BY RollbackRecordedNext
<1>3. RollbackRecorded
        => (rec.state = "compensated" => "workflow.compensated" \in audit)
  BY DEF RollbackRecorded
<1> QED
  BY TypeCorrect, <1>1, <1>2, <1>3, PTL DEF Spec

\* Without faults nobody drives before the start is audited.
LEMMA StartRecordedNext ==
  ASSUME MaxThrows = 0, MaxCrashes = 0
  PROVE  TypeOK /\ DriverInv /\ StartRecorded /\ [Next]_vars => StartRecorded'
<1> SUFFICES ASSUME TypeOK, DriverInv, StartRecorded, [Next]_vars PROVE StartRecorded'
  OBVIOUS
<1> USE DEF StartRecorded, DriverInv, OneCall, TypeOK, Snapshots, local, effects, counts,
        Goto, Persist
<1>1. ASSUME NEW c \in Calls, Start(c) PROVE StartRecorded'
  BY <1>1 DEF Start
<1>2. ASSUME NEW c \in Calls, Resume(c) PROVE StartRecorded'
  BY <1>2 DEF Resume, Alone
<1>3. ASSUME NEW c \in Calls, Select(c) PROVE StartRecorded'
  BY <1>3 DEF Select
<1>4. ASSUME NEW c \in Calls, AuditStarted(c) PROVE StartRecorded'
  BY <1>4 DEF AuditStarted
<1>5. ASSUME NEW c \in Calls, LoadTerminal(c) PROVE StartRecorded'
  BY <1>5 DEF LoadTerminal
<1>6. ASSUME NEW c \in Calls, Load(c) PROVE StartRecorded'
  BY <1>6 DEF Load
<1>7. ASSUME NEW c \in Calls, PauseHere(c) PROVE StartRecorded'
  BY <1>7 DEF PauseHere
<1>8. ASSUME NEW c \in Calls, RunStep(c) PROVE StartRecorded'
  BY <1>8 DEF RunStep
<1>9. ASSUME NEW c \in Calls, Finish(c) PROVE StartRecorded'
  BY <1>9 DEF Finish
<1>10. ASSUME NEW c \in Calls, Save(c) PROVE StartRecorded'
  BY <1>10 DEF Save
<1>11. ASSUME NEW c \in Calls, CompensateDone(c) PROVE StartRecorded'
  BY <1>11 DEF CompensateDone
<1>12. ASSUME NEW c \in Calls, AuditCompensated(c) PROVE StartRecorded'
  BY <1>12 DEF AuditCompensated
<1>13. ASSUME NEW c \in Calls, NEW s \in Steps, HandlerOk(c, s) PROVE StartRecorded'
  BY <1>13 DEF HandlerOk
<1>14. ASSUME NEW c \in Calls, NEW s \in Steps, HandlerRetry(c, s) PROVE StartRecorded'
  BY <1>14 DEF HandlerRetry
<1>15. ASSUME NEW c \in Calls, NEW s \in Steps, HandlerFail(c, s) PROVE StartRecorded'
  BY <1>15 DEF HandlerFail
<1>16. ASSUME NEW c \in Calls, NEW s \in Steps, Compensate(c, s) PROVE StartRecorded'
  BY <1>16 DEF Compensate
<1>17. ASSUME NEW c \in Calls, LoadUnregistered(c) PROVE StartRecorded'
  BY <1>17 DEF LoadUnregistered
<1>18. ASSUME NEW c \in Calls, Throws(c) PROVE StartRecorded'
  BY <1>18 DEF Throws
<1>19. ASSUME NEW h \in Hosts, Pause(h) PROVE StartRecorded'
  BY <1>19 DEF Pause
<1>20. ASSUME NEW h \in Hosts, Crash(h) PROVE StartRecorded'
  BY <1>20 DEF Crash
<1>21. CASE UNCHANGED vars
  BY <1>21 DEF vars
<1> QED
  BY <1>1, <1>2, <1>3, <1>4, <1>5, <1>6, <1>7, <1>8, <1>9, <1>10, <1>11, <1>12, <1>13, <1>14, <1>15, <1>16, <1>17, <1>18, <1>19, <1>20, <1>21
  DEF Next, Proceed

\* Where nothing throws or crashes and nobody overtakes the start, the audit has
\* every start before a step takes effect and every rollback before it is stored.
THEOREM StoryHolds ==
  ASSUME MaxOverlaps = 0, MaxThrows = 0, MaxCrashes = 0
  PROVE  Spec => []AuditTellsStory
<1>1. Init => RollbackRecorded /\ StartRecorded
  BY DEF Init, RollbackRecorded, StartRecorded, Absent
<1>2. TypeOK /\ RollbackRecorded /\ [Next]_vars => RollbackRecorded'
  BY RollbackRecordedNext
<1>3. TypeOK /\ DriverInv /\ StartRecorded /\ [Next]_vars => StartRecorded'
  BY StartRecordedNext
<1>4. TypeOK /\ RollbackRecorded /\ StartRecorded => AuditTellsStory
  BY DEF RollbackRecorded, StartRecorded, AuditTellsStory, TypeOK
<1> QED
  BY TypeCorrect, AloneThroughout, <1>1, <1>2, <1>3, <1>4, PTL DEF Spec

-----------------------------------------------------------------------------
(* Without faults the engine implements the saga.                          *)

Faultless ==
  /\ MaxOverlaps = 0
  /\ MaxThrows = 0 /\ MaxCrashes = 0
  /\ \A h \in Hosts : Hooks[h] = Declared

\* The effects are those of a copy on its way forward: what is not pending ran
\* once and is recorded.
Forward(copy) ==
  \A s \in Steps :
    /\ runs[s] = IF s \in copy.pending THEN 0 ELSE 1
    /\ copy.done[s] = IF s \in copy.pending THEN "none" ELSE "completed"
    /\ undone[s] = 0

\* ... or on its way back: each effect stands or is undone as recorded.
Backward(copy) ==
  \A s \in Steps :
    /\ runs[s] = IF copy.done[s] \in {"completed", "compensated"} THEN 1 ELSE 0
    /\ undone[s] = IF copy.done[s] = "compensated" THEN 1 ELSE 0

GivenUp(copy) == Backward(copy) /\ \E s \in Steps : copy.done[s] = "failed"

Untouched == \A s \in Steps : runs[s] = 0 /\ undone[s] = 0

\* What the row and the effects are while nobody drives ...
AtRest ==
  /\ rec.state # "compensating"
  /\ rec.state \in {"running", "paused"} => Forward(rec)

\* ... and what the driver's copy is to them at each of its awaits.
Tracks(c) ==
  /\ pc[c] = "select" => Forward(rec)
  /\ pc[c] \in {"auditStarted", "boundary", "handler"} => Forward(my[c])
  /\ pc[c] = "compensate" => Backward(my[c])
  /\ pc[c] = "auditCompensated" => Backward(my[c]) /\ ToUndo(c) = {}
  /\ pc[c] = "save" =>
       \/ saving[c] \in {"running", "paused"} /\ Forward(my[c])
            /\ rec.state \in {"running", "paused"}
       \/ saving[c] = "completed" /\ Forward(my[c]) /\ my[c].pending = {}
            /\ rec.state = "running"
       \/ saving[c] = "compensating" /\ GivenUp(my[c]) /\ rec.state = "running"
       \/ saving[c] = "compensated" /\ Backward(my[c]) /\ ToUndo(c) = {}
            /\ rec.state = "compensating"

SagaInv ==
  /\ rec.state = "absent" => Untouched
  /\ (\A c \in Calls : pc[c] \in {"idle", "load"}) => AtRest
  /\ \A c \in Calls : Tracks(c)

SagaStep == [Saga!Next]_(Saga!svars)

\* What leaves row and effects alone is no step of the saga.
LEMMA SagaStutters == ASSUME UNCHANGED <<rec, runs, undone>> PROVE SagaStep
  BY DEF SagaStep, Saga!svars, Phase

\* The initial states are those of the saga.
LEMMA SagaInit == Init => SagaInv /\ Saga!Init
  BY DEF Init, SagaInv, Untouched, AtRest, Tracks, Saga!Init, Phase, Absent

\* Every step of the engine is one of the saga, or a stutter.
LEMMA SagaNext ==
  ASSUME Faultless
  PROVE  TypeOK /\ DriverInv /\ DriverInv' /\ SagaInv /\ [Next]_vars
           => SagaInv' /\ SagaStep
<1> SUFFICES ASSUME TypeOK, DriverInv, DriverInv', SagaInv, [Next]_vars
             PROVE  SagaInv' /\ SagaStep
  OBVIOUS
<1> USE DEF SagaInv, DriverInv, OneCall, RowFollows, TypeOK, Snapshots, Untouched,
        AtRest, Tracks, Terminal, local, effects, counts, Goto, Persist
<1>1. ASSUME NEW c \in Calls, Start(c) PROVE SagaInv' /\ SagaStep
  <2>1. /\ rec.state = "absent" /\ rec' = Fresh
        /\ pc' = [pc EXCEPT ![c] = "select"]
        /\ UNCHANGED <<my, saving, runs, undone>>
    BY <1>1 DEF Start
  <2>2. Forward(rec)'
    BY <2>1 DEF Forward, Fresh
  <2>3. rec'.state = "running"
    BY <2>1 DEF Fresh
  <2>4. SagaInv'
    <3>1. \A d \in Calls : d # c => pc'[d] = "idle"
      BY <2>1
    <3>2. pc'[c] = "select"
      BY <2>1
    <3> QED
      BY <3>1, <3>2, <2>2, <2>3
  <2>5. Saga!Begin
    BY <2>1, <2>3 DEF Saga!Begin, Phase
  <2> QED
    BY <2>4, <2>5 DEF SagaStep, Saga!Next
<1>2. ASSUME NEW c \in Calls, Resume(c) PROVE SagaInv' /\ SagaStep
  <2>1. UNCHANGED <<rec, runs, undone>>
    BY <1>2 DEF Resume
  <2>2. SagaInv'
    BY <1>2, HostsAssumption DEF Resume, Forward, Backward, ToUndo, InFlight, Alone
  <2> QED
    BY <2>1, <2>2, SagaStutters
<1>3. ASSUME NEW c \in Calls, Select(c) PROVE SagaInv' /\ SagaStep
  <2>1. UNCHANGED <<rec, runs, undone>>
    BY <1>3 DEF Select
  <2>2. SagaInv'
    BY <1>3, HostsAssumption DEF Select, Forward, Backward, ToUndo
  <2> QED
    BY <2>1, <2>2, SagaStutters
<1>4. ASSUME NEW c \in Calls, AuditStarted(c) PROVE SagaInv' /\ SagaStep
  <2>1. UNCHANGED <<rec, runs, undone>>
    BY <1>4 DEF AuditStarted
  <2>2. SagaInv'
    BY <1>4, HostsAssumption DEF AuditStarted, Forward, Backward, ToUndo
  <2> QED
    BY <2>1, <2>2, SagaStutters
<1>5. ASSUME NEW c \in Calls, LoadTerminal(c) PROVE SagaInv' /\ SagaStep
  <2>1. UNCHANGED <<rec, runs, undone>>
    BY <1>5 DEF LoadTerminal
  <2>2. SagaInv'
    BY <1>5, HostsAssumption DEF LoadTerminal, Forward, Backward, ToUndo
  <2> QED
    BY <2>1, <2>2, SagaStutters
<1>6. ASSUME NEW c \in Calls, Load(c) PROVE SagaInv' /\ SagaStep
  <2>1. UNCHANGED <<rec, runs, undone>>
    BY <1>6 DEF Load
  <2>2. \A d \in Calls : d # c => pc[d] = "idle" /\ pc'[d] = "idle"
    BY <1>6 DEF Load
  <2>3. rec.state \in {"running", "paused"} /\ Forward(rec)
    BY <1>6, <2>2 DEF Load, States
  <2>4. /\ pc'[c] = "save" /\ saving'[c] = "running"
        /\ my'[c].pending = rec.pending /\ my'[c].done = rec.done
    BY <1>6 DEF Load
  <2>5. Tracks(c)'
    BY <2>1, <2>3, <2>4 DEF Forward
  <2>6. SagaInv'
    BY <2>1, <2>2, <2>3, <2>4, <2>5
  <2> QED
    BY <2>1, <2>6, SagaStutters
<1>7. ASSUME NEW c \in Calls, PauseHere(c) PROVE SagaInv' /\ SagaStep
  <2>1. UNCHANGED <<rec, runs, undone>>
    BY <1>7 DEF PauseHere
  <2>2. SagaInv'
    BY <1>7, HostsAssumption DEF PauseHere, Forward, Backward, ToUndo
  <2> QED
    BY <2>1, <2>2, SagaStutters
<1>8. ASSUME NEW c \in Calls, RunStep(c) PROVE SagaInv' /\ SagaStep
  <2>1. UNCHANGED <<rec, runs, undone>>
    BY <1>8 DEF RunStep
  <2>2. SagaInv'
    BY <1>8, HostsAssumption DEF RunStep, Forward, Backward, ToUndo
  <2> QED
    BY <2>1, <2>2, SagaStutters
<1>9. ASSUME NEW c \in Calls, Finish(c) PROVE SagaInv' /\ SagaStep
  <2>1. UNCHANGED <<rec, runs, undone>>
    BY <1>9 DEF Finish
  <2>2. SagaInv'
    BY <1>9, HostsAssumption DEF Finish, Forward, Backward, ToUndo, Todo
  <2> QED
    BY <2>1, <2>2, SagaStutters
<1>10. ASSUME NEW c \in Calls, Save(c) PROVE SagaInv' /\ SagaStep
  <2>1. /\ pc[c] = "save"
        /\ rec'.state = saving[c]
        /\ rec'.pending = my[c].pending /\ rec'.done = my[c].done
        /\ pc' = [pc EXCEPT ![c] = AfterSave(saving[c])]
        /\ UNCHANGED <<my, saving, runs, undone>>
    BY <1>10 DEF Save
  <2>2. \A d \in Calls : d # c => pc[d] = "idle" /\ pc'[d] = "idle"
    BY <2>1
  <2>3. pc'[c] = AfterSave(saving[c])
    BY <2>1
  <2>4. CASE /\ saving[c] \in {"running", "paused"} /\ Forward(my[c])
             /\ rec.state \in {"running", "paused"}
    <3>1. SagaInv'
      BY <2>1, <2>2, <2>3, <2>4 DEF Forward, AfterSave
    <3>2. UNCHANGED Saga!svars
      BY <2>1, <2>4 DEF Saga!svars, Phase
    <3> QED
      BY <3>1, <3>2 DEF SagaStep
  <2>5. CASE /\ saving[c] = "completed" /\ Forward(my[c]) /\ my[c].pending = {}
             /\ rec.state = "running"
    <3>1. SagaInv'
      BY <2>1, <2>2, <2>3, <2>5 DEF AfterSave
    <3>2. Saga!Succeed
      BY <2>1, <2>5 DEF Saga!Succeed, Phase, Forward
    <3> QED
      BY <3>1, <3>2 DEF SagaStep, Saga!Next
  <2>6. CASE saving[c] = "compensating" /\ GivenUp(my[c]) /\ rec.state = "running"
    <3>1. SagaInv'
      BY <2>1, <2>2, <2>3, <2>6 DEF AfterSave, GivenUp, Backward
    <3>2. Saga!GiveUp
      BY SMTT(30), <2>1, <2>6 DEF Saga!GiveUp, Phase, GivenUp, Backward
    <3> QED
      BY <3>1, <3>2 DEF SagaStep, Saga!Next
  <2>7. CASE /\ saving[c] = "compensated" /\ Backward(my[c]) /\ ToUndo(c) = {}
             /\ rec.state = "compensating"
    <3>1. SagaInv'
      BY <2>1, <2>2, <2>3, <2>7 DEF AfterSave
    <3>2. \A s \in Declared : my[c].done[s] # "completed"
      BY <2>7, HostsAssumption DEF ToUndo, Faultless
    <3>3. \A s \in Steps : ~Saga!Standing(s)
      <4> SUFFICES ASSUME NEW s \in Steps, s \in Declared, runs[s] > undone[s]
                   PROVE  FALSE
        BY DEF Saga!Standing
      <4>1. Backward(my[c])
        BY <2>7
      <4>2. /\ runs[s] = IF my[c].done[s] \in {"completed", "compensated"}
                           THEN 1 ELSE 0
            /\ undone[s] = IF my[c].done[s] = "compensated" THEN 1 ELSE 0
        BY <4>1 DEF Backward
      <4>3. my[c].done[s] = "completed"
        BY <4>2
      <4> QED
        BY <3>2, <4>3
    <3>4. Saga!RollBack
      BY <2>1, <2>7, <3>3 DEF Saga!RollBack, Phase
    <3> QED
      BY <3>1, <3>4 DEF SagaStep, Saga!Next
  <2> QED
    BY <2>1, <2>4, <2>5, <2>6, <2>7
<1>11. ASSUME NEW c \in Calls, CompensateDone(c) PROVE SagaInv' /\ SagaStep
  <2>1. UNCHANGED <<rec, runs, undone>>
    BY <1>11 DEF CompensateDone
  <2>2. SagaInv'
    BY <1>11, HostsAssumption DEF CompensateDone, Forward, Backward, ToUndo
  <2> QED
    BY <2>1, <2>2, SagaStutters
<1>12. ASSUME NEW c \in Calls, AuditCompensated(c) PROVE SagaInv' /\ SagaStep
  <2>1. UNCHANGED <<rec, runs, undone>>
    BY <1>12 DEF AuditCompensated
  <2>2. SagaInv'
    BY <1>12, HostsAssumption DEF AuditCompensated, Forward, Backward, ToUndo
  <2> QED
    BY <2>1, <2>2, SagaStutters
<1>13. ASSUME NEW c \in Calls, NEW s \in Steps, HandlerOk(c, s) PROVE SagaInv' /\ SagaStep
  <2> DEFINE copy == [my[c] EXCEPT !.done[s] = "completed",
                                   !.pending = {t \in @ : t > s}]
  <2>1. /\ pc[c] = "handler"
        /\ s \in my[c].pending /\ my[c].done[s] = "none"
        /\ \A t \in Todo(c) : s <= t
        /\ runs' = [runs EXCEPT ![s] = @ + 1]
        /\ my' = [my EXCEPT ![c] = copy]
        /\ saving' = [saving EXCEPT ![c] = "running"]
        /\ pc' = [pc EXCEPT ![c] = "save"]
        /\ UNCHANGED <<rec, undone>>
    BY <1>13 DEF HandlerOk, IsNext, Todo
  <2>2. Forward(my[c]) /\ rec.state = "running"
    BY <2>1
  <2>3. \A t \in my[c].pending : s <= t
    BY <2>1, <2>2 DEF Todo, Forward
  <2>4. copy.pending = my[c].pending \ {s}
    BY <2>1, <2>3 DEF Steps
  <2>5. \A t \in Steps :
          copy.done[t] = IF t = s THEN "completed" ELSE my[c].done[t]
    OBVIOUS
  <2> HIDE DEF copy
  <2>6. my'[c] = copy /\ pc'[c] = "save" /\ saving'[c] = "running"
    BY <2>1
  <2>7. Forward(my[c])'
    <3> SUFFICES ASSUME NEW t \in Steps
                 PROVE  /\ runs'[t] = IF t \in copy.pending THEN 0 ELSE 1
                        /\ copy.done[t] =
                             IF t \in copy.pending THEN "none" ELSE "completed"
                        /\ undone'[t] = 0
      BY <2>6 DEF Forward
    <3>1. CASE t = s
      BY <2>1, <2>2, <2>4, <2>5, <3>1 DEF Forward
    <3>2. CASE t # s
      BY <2>1, <2>2, <2>4, <2>5, <3>2 DEF Forward
    <3> QED
      BY <3>1, <3>2
  <2>8. \A d \in Calls : d # c => pc'[d] = "idle"
    BY <2>1
  <2>9. SagaInv'
    BY <2>1, <2>2, <2>6, <2>7, <2>8
  <2>10. Saga!RunStep(s)
    <3>1. runs[s] = 0
      BY <2>1, <2>2 DEF Forward
    <3>2. \A t \in Steps : t < s => runs[t] = 1
      BY <2>2, <2>3 DEF Forward, Steps
    <3> QED
      BY <2>1, <2>2, <3>1, <3>2 DEF Saga!RunStep, Phase
  <2> QED
    BY <2>9, <2>10 DEF SagaStep, Saga!Next
<1>14. ASSUME NEW c \in Calls, NEW s \in Steps, HandlerRetry(c, s) PROVE SagaInv' /\ SagaStep
  <2>1. UNCHANGED <<rec, runs, undone, pc, my, saving>>
    BY <1>14 DEF HandlerRetry
  <2>2. SagaInv'
    BY <2>1 DEF Forward, Backward, GivenUp, ToUndo
  <2> QED
    BY <2>1, <2>2, SagaStutters
<1>15. ASSUME NEW c \in Calls, NEW s \in Steps, HandlerFail(c, s) PROVE SagaInv' /\ SagaStep
  <2>1. UNCHANGED <<rec, runs, undone>>
    BY <1>15 DEF HandlerFail
  <2>2. SagaInv'
    BY <1>15, HostsAssumption DEF HandlerFail, Forward, Backward, ToUndo, GivenUp, IsNext, Todo
  <2> QED
    BY <2>1, <2>2, SagaStutters
<1>16. ASSUME NEW c \in Calls, NEW s \in Steps, Compensate(c, s) PROVE SagaInv' /\ SagaStep
  <2> DEFINE copy == [my[c] EXCEPT !.done[s] = "compensated"]
  <2>1. /\ pc[c] = "compensate"
        /\ s \in Declared /\ my[c].done[s] = "completed"
        /\ \A t \in Declared : my[c].done[t] = "completed" => t <= s
        /\ undone' = [undone EXCEPT ![s] = @ + 1]
        /\ my' = [my EXCEPT ![c] = copy]
        /\ UNCHANGED <<rec, pc, saving, runs>>
    <3>1. Hooks[HostOf[c]] = Declared
      BY HostsAssumption DEF Faultless
    <3>2. IsNextUndo(c, s)
      BY <1>16 DEF Compensate
    <3>3. /\ s \in Declared /\ my[c].done[s] = "completed"
          /\ \A t \in Declared : my[c].done[t] = "completed" => t <= s
      BY <3>1, <3>2 DEF IsNextUndo, ToUndo
    <3> QED
      BY <1>16, <3>3 DEF Compensate
  <2>2. Backward(my[c]) /\ rec.state = "compensating"
    BY <2>1
  <2>3. \A t \in Steps :
          copy.done[t] = IF t = s THEN "compensated" ELSE my[c].done[t]
    OBVIOUS
  <2> HIDE DEF copy
  <2>4. my'[c] = copy
    BY <2>1
  <2>5. Backward(my[c])'
    <3> SUFFICES ASSUME NEW t \in Steps
                 PROVE  /\ runs'[t] = IF copy.done[t] \in {"completed", "compensated"}
                                        THEN 1 ELSE 0
                        /\ undone'[t] = IF copy.done[t] = "compensated" THEN 1 ELSE 0
      BY <2>4 DEF Backward
    <3>1. CASE t = s
      BY <2>1, <2>2, <2>3, <3>1 DEF Backward
    <3>2. CASE t # s
      BY <2>1, <2>2, <2>3, <3>2 DEF Backward
    <3> QED
      BY <3>1, <3>2
  <2>6. \A d \in Calls : d # c => pc'[d] = "idle"
    BY <2>1
  <2>7. SagaInv'
    BY <2>1, <2>2, <2>5, <2>6
  <2>8. Saga!Undo(s)
    <3>1. runs[s] = 1 /\ undone[s] = 0
      BY <2>1, <2>2 DEF Backward
    <3>2. \A t \in Steps : t > s => ~Saga!Standing(t)
      <4> SUFFICES ASSUME NEW t \in Steps, t > s, t \in Declared, runs[t] > undone[t]
                   PROVE  FALSE
        BY DEF Saga!Standing
      <4>1. my[c].done[t] = "completed"
        BY <2>2 DEF Backward
      <4> QED
        BY <4>1, <2>1 DEF Steps
    <3>3. undone' = [undone EXCEPT ![s] = 1]
      BY <2>1, <3>1
    <3> QED
      BY <2>1, <2>2, <3>1, <3>2, <3>3 DEF Saga!Undo, Saga!Standing, Phase
  <2> QED
    BY <2>7, <2>8 DEF SagaStep, Saga!Next
<1>17. ASSUME NEW c \in Calls, LoadUnregistered(c) PROVE SagaInv' /\ SagaStep
  BY <1>17, LimitsAssumption DEF LoadUnregistered, Faultless
<1>18. ASSUME NEW c \in Calls, Throws(c) PROVE SagaInv' /\ SagaStep
  BY <1>18, LimitsAssumption DEF Throws, Faultless
<1>19. ASSUME NEW h \in Hosts, Pause(h) PROVE SagaInv' /\ SagaStep
  <2>1. UNCHANGED <<rec, runs, undone, pc, my, saving>>
    BY <1>19 DEF Pause
  <2>2. SagaInv'
    BY <2>1 DEF Forward, Backward, GivenUp, ToUndo
  <2> QED
    BY <2>1, <2>2, SagaStutters
<1>20. ASSUME NEW h \in Hosts, Crash(h) PROVE SagaInv' /\ SagaStep
  BY <1>20, LimitsAssumption DEF Crash, Faultless
<1>21. CASE UNCHANGED vars
  <2>1. UNCHANGED <<rec, runs, undone, pc, my, saving>>
    BY <1>21 DEF vars
  <2>2. SagaInv'
    BY <2>1 DEF Forward, Backward, GivenUp, ToUndo
  <2> QED
    BY <2>1, <2>2, SagaStutters
<1> QED
  BY <1>1, <1>2, <1>3, <1>4, <1>5, <1>6, <1>7, <1>8, <1>9, <1>10, <1>11, <1>12, <1>13, <1>14, <1>15, <1>16, <1>17, <1>18, <1>19, <1>20, <1>21
  DEF Next, Proceed

\* Without faults and overlap, and with every declared hook registered, the
\* engine implements the saga: each step runs once, in order; then all ran, or
\* what ran and declares a hook is undone, last first.
THEOREM Implements ==
  ASSUME Faultless
  PROVE  Spec => ImplementsSaga
<1>1. Init => SagaInv /\ Saga!Init
  BY SagaInit
<1>2. TypeOK /\ DriverInv /\ DriverInv' /\ SagaInv /\ [Next]_vars
        => SagaInv' /\ SagaStep
  BY SagaNext
<1>3. Spec => []DriverInv
  BY AloneThroughout DEF Faultless
<1> QED
  BY TypeCorrect, <1>1, <1>2, <1>3, PTL
  DEF Spec, SagaStep, ImplementsSaga, Saga!Spec
=============================================================================
