------------------------- MODULE EventDeliveryProofs -------------------------
(***************************************************************************)
(* Proofs about EventDelivery, for every value of its constants.           *)
(***************************************************************************)
EXTENDS EventDelivery, FiniteSetTheorems, TLAPS

\* pc values at which a worker has a row, and a consumer, in hand.
AtRow      == PCs \ {"idle", "rows"}
AtConsumer == {"handler", "markProcessed", "auditDelivered"}

\* What a worker, or a producer about to audit, holds is in the outbox.
HoldsEnqueued ==
  /\ \A e \in emitting : status[e] # "absent"
  /\ \A w \in Workers :
       /\ \A e \in batch[w] : status[e] # "absent"
       /\ pc[w] \in AtRow => cur[w] \in Events /\ status[cur[w]] # "absent"
       /\ pc[w] \in AtConsumer => con[w] \in Consumers

TypeInv == TypeOK /\ HoldsEnqueued

-----------------------------------------------------------------------------
\* At the start nobody holds anything.
LEMMA TypeInvInit == Init => TypeInv
  BY WiredAssumption, ProcessAssumption, PolicyAssumption, BoundsAssumption
  DEF Init, TypeInv, TypeOK, HoldsEnqueued, Status, PCs, AtRow, AtConsumer,
      AuditEntries

\* One step per action: each keeps the types and leaves workers rows of the outbox.
LEMMA TypeInvNext == TypeInv /\ [Next]_vars => TypeInv'
<1> SUFFICES ASSUME TypeInv, [Next]_vars PROVE TypeInv'
  OBVIOUS
<1> USE PolicyAssumption, BoundsAssumption
    DEF TypeInv, TypeOK, HoldsEnqueued, Status, PCs, AtRow, AtConsumer,
        outbox, tables, local, counts, Goto, Slip, Deliveries
<1>1. ASSUME NEW e \in Events, EmitEvent(e) PROVE TypeInv'
  BY <1>1 DEF EmitEvent
<1>2. ASSUME NEW e \in Events, AuditEnqueued(e) PROVE TypeInv'
  BY <1>2 DEF AuditEnqueued, AuditEntries
<1>3. ASSUME NEW e \in Events, CrashEmit(e) PROVE TypeInv'
  BY <1>3 DEF CrashEmit
<1>4. ASSUME NEW p \in Processes, NEW c \in Consumers, Subscribe(p, c) PROVE TypeInv'
  BY <1>4 DEF Subscribe
<1>4r. ASSUME NEW p \in Processes, Restart(p) PROVE TypeInv'
  BY <1>4r, WiredAssumption DEF Restart
<1>5. CASE Tick
  BY <1>5 DEF Tick
<1>6. ASSUME NEW w \in Workers, Claim(w) PROVE TypeInv'
  BY <1>6 DEF Claim, Claimable, FullLease
<1>7. ASSUME NEW w \in Workers, Replay(w) PROVE TypeInv'
  BY <1>7 DEF Replay
<1>8. ASSUME NEW w \in Workers, BeginRow(w) PROVE TypeInv'
  <2>1. PICK e \in batch[w] :
          /\ cur' = [cur EXCEPT ![w] = e]
          /\ batch' = [batch EXCEPT ![w] = @ \ {e}]
          /\ matching' = [matching EXCEPT ![w] = Matching(w, e)]
          /\ todo' = [todo EXCEPT ![w] = Matching(w, e)]
    BY <1>8 DEF BeginRow
  <2>2. Matching(w, e) \subseteq Consumers
    BY ProcessAssumption DEF Matching
  <2>3. QED
    BY <1>8, <2>1, <2>2 DEF BeginRow
<1>9. ASSUME NEW w \in Workers, Dedup(w) PROVE TypeInv'
  <2>1. PICK c \in todo[w] :
          /\ pc[w] = "consumers"
          /\ todo' = [todo EXCEPT ![w] = @ \ {c}]
          /\ \/ UNCHANGED <<pc, con>>
             \/ con' = [con EXCEPT ![w] = c] /\ Goto(w, "handler")
    BY <1>9 DEF Dedup
  <2>2. UNCHANGED <<tables, audit, effects, subscribed, emitting, op, batch, cur,
                    matching, failed, counts>>
    BY <1>9 DEF Dedup
  <2>3. TypeOK'
    <3>1. /\ pc' \in [Workers -> PCs]
          /\ con' \in [Workers -> Consumers \cup {None}]
          /\ todo' \in [Workers -> SUBSET Consumers]
      BY SMTT(30), <2>1
    <3>2. QED
      BY <3>1, <2>2
  <2>4. HoldsEnqueued'
    <3>1. CASE UNCHANGED <<pc, con>>
      BY <3>1, <2>2
    <3>2. CASE con' = [con EXCEPT ![w] = c] /\ Goto(w, "handler")
      <4>1. c \in Consumers /\ cur[w] \in Events /\ status[cur[w]] # "absent"
        BY <2>1
      <4>2. \A v \in Workers \ {w} : pc'[v] = pc[v] /\ con'[v] = con[v]
        BY <3>2
      <4>3. QED
        BY <2>2, <3>2, <4>1, <4>2
    <3>3. QED
      BY <2>1, <3>1, <3>2
  <2>5. QED
    BY <2>3, <2>4
<1>10. ASSUME NEW w \in Workers, HandlerOk(w) PROVE TypeInv'
  BY SMTT(30), <1>10 DEF HandlerOk
<1>11. ASSUME NEW w \in Workers, HandlerThrows(w) PROVE TypeInv'
  BY <1>11 DEF HandlerThrows, Caught
<1>12. ASSUME NEW w \in Workers, MarkProcessed(w) PROVE TypeInv'
  BY <1>12 DEF MarkProcessed
<1>13. ASSUME NEW w \in Workers, MarkProcessedThrows(w) PROVE TypeInv'
  BY <1>13 DEF MarkProcessedThrows, Caught
<1>14. ASSUME NEW w \in Workers, AuditDelivered(w) PROVE TypeInv'
  BY <1>14 DEF AuditDelivered, AuditEntries
<1>15. ASSUME NEW w \in Workers, AuditDeliveredThrows(w) PROVE TypeInv'
  BY <1>15 DEF AuditDeliveredThrows, Caught
<1>16. ASSUME NEW w \in Workers, MarkDelivered(w) PROVE TypeInv'
  BY <1>16 DEF MarkDelivered, RowDone
<1>17. ASSUME NEW w \in Workers, MarkFailed(w) PROVE TypeInv'
  BY SMTT(30), <1>17 DEF MarkFailed, RowDone
<1>18. ASSUME NEW w \in Workers, InsertDeadLetter(w) PROVE TypeInv'
  BY <1>18 DEF InsertDeadLetter
<1>19. ASSUME NEW w \in Workers, AuditDeadLettered(w) PROVE TypeInv'
  <2>1. audit' \subseteq AuditEntries
    <3>1. cur[w] \in Events
      BY <1>19 DEF AuditDeadLettered
    <3>2. [action |-> "event.dead_lettered", event |-> cur[w]] \in AuditEntries
      BY <3>1 DEF AuditEntries
    <3>3. QED
      BY <1>19, <3>2 DEF AuditDeadLettered
  <2>2. QED
    BY <1>19, <2>1 DEF AuditDeadLettered
<1>20. ASSUME NEW w \in Workers, ReplayedRow(w) PROVE TypeInv'
  BY <1>20 DEF ReplayedRow, RowDone
<1>21. ASSUME NEW w \in Workers, Return(w) PROVE TypeInv'
  BY <1>21 DEF Return, Forget, AuditEntries
<1>22. ASSUME NEW w \in Workers, Crash(w) PROVE TypeInv'
  <2>1. slips' \in [Events -> Nat]
    BY <1>22 DEF Crash
  <2>2. TypeOK'
    BY <1>22, <2>1 DEF Crash, Forget
  <2>3. HoldsEnqueued'
    BY <1>22 DEF Crash, Forget
  <2>4. QED
    BY <2>2, <2>3
<1>23. CASE UNCHANGED vars
  BY <1>23 DEF vars
<1>24. QED
  BY <1>1, <1>2, <1>3, <1>4, <1>4r, <1>5, <1>6, <1>7, <1>8, <1>9, <1>10, <1>11,
     <1>12, <1>13, <1>14, <1>15, <1>16, <1>17, <1>18, <1>19, <1>20, <1>21,
     <1>22, <1>23 DEF Next, Produce, Work

\* The platform's tables, audit log and worker state stay well typed, and no
\* worker ever holds a row the outbox does not have.
THEOREM TypeCorrect == Spec => []TypeInv
  BY TypeInvInit, TypeInvNext, PTL DEF Spec

\* ... the part of it the runs check.
THEOREM SpecTypeOK == Spec => []TypeOK
  BY TypeCorrect, PTL DEF TypeInv

-----------------------------------------------------------------------------
(* Attempts.  ClaimableHasAttempts is inductive once it also speaks of the *)
(* rows not yet inserted.                                                  *)

UnsettledHasAttempts ==
  \A e \in Events :
    status[e] \notin {"delivered", "dead_lettered"} => attempts[e] < MaxAttempts

\* A failure that uses up the attempts settles the row, so none is left without.
LEMMA AttemptsNext ==
  TypeInv /\ UnsettledHasAttempts /\ [Next]_vars => UnsettledHasAttempts'
<1> SUFFICES ASSUME TypeInv, UnsettledHasAttempts, [Next]_vars
             PROVE  UnsettledHasAttempts'
  OBVIOUS
<1> USE PolicyAssumption
    DEF TypeInv, TypeOK, UnsettledHasAttempts, HoldsEnqueued, AtRow, PCs,
        Status, outbox, tables, local, counts
<1>1. ASSUME NEW e \in Events, EmitEvent(e) PROVE UnsettledHasAttempts'
  BY <1>1 DEF EmitEvent
<1>2. ASSUME NEW e \in Events, AuditEnqueued(e) PROVE UnsettledHasAttempts'
  BY <1>2 DEF AuditEnqueued
<1>3. ASSUME NEW e \in Events, CrashEmit(e) PROVE UnsettledHasAttempts'
  BY <1>3 DEF CrashEmit
<1>4. ASSUME NEW p \in Processes, NEW c \in Consumers, Subscribe(p, c) PROVE UnsettledHasAttempts'
  BY <1>4 DEF Subscribe
<1>4r. ASSUME NEW p \in Processes, Restart(p) PROVE UnsettledHasAttempts'
  BY <1>4r DEF Restart
<1>5. CASE Tick
  BY <1>5 DEF Tick
<1>6. ASSUME NEW w \in Workers, Claim(w) PROVE UnsettledHasAttempts'
  BY <1>6 DEF Claim, Claimable, FullLease
<1>7. ASSUME NEW w \in Workers, Replay(w) PROVE UnsettledHasAttempts'
  BY <1>7 DEF Replay
<1>8. ASSUME NEW w \in Workers, BeginRow(w) PROVE UnsettledHasAttempts'
  BY <1>8 DEF BeginRow, Matching
<1>9. ASSUME NEW w \in Workers, Dedup(w) PROVE UnsettledHasAttempts'
  BY <1>9 DEF Dedup, IsProcessed
<1>10. ASSUME NEW w \in Workers, HandlerOk(w) PROVE UnsettledHasAttempts'
  BY <1>10 DEF HandlerOk
<1>11. ASSUME NEW w \in Workers, HandlerThrows(w) PROVE UnsettledHasAttempts'
  BY <1>11 DEF HandlerThrows, Caught
<1>12. ASSUME NEW w \in Workers, MarkProcessed(w) PROVE UnsettledHasAttempts'
  BY <1>12 DEF MarkProcessed
<1>13. ASSUME NEW w \in Workers, MarkProcessedThrows(w) PROVE UnsettledHasAttempts'
  BY <1>13 DEF MarkProcessedThrows, Caught
<1>14. ASSUME NEW w \in Workers, AuditDelivered(w) PROVE UnsettledHasAttempts'
  BY <1>14 DEF AuditDelivered
<1>15. ASSUME NEW w \in Workers, AuditDeliveredThrows(w) PROVE UnsettledHasAttempts'
  BY <1>15 DEF AuditDeliveredThrows, Caught
<1>16. ASSUME NEW w \in Workers, MarkDelivered(w) PROVE UnsettledHasAttempts'
  BY <1>16 DEF MarkDelivered, RowDone, AnyFailure
<1>17. ASSUME NEW w \in Workers, MarkFailed(w) PROVE UnsettledHasAttempts'
  BY <1>17 DEF MarkFailed, RowDone, AnyFailure, Exhausted
<1>18. ASSUME NEW w \in Workers, InsertDeadLetter(w) PROVE UnsettledHasAttempts'
  BY <1>18 DEF InsertDeadLetter
<1>19. ASSUME NEW w \in Workers, AuditDeadLettered(w) PROVE UnsettledHasAttempts'
  BY <1>19 DEF AuditDeadLettered
<1>20. ASSUME NEW w \in Workers, ReplayedRow(w) PROVE UnsettledHasAttempts'
  BY <1>20 DEF ReplayedRow, RowDone
<1>21. ASSUME NEW w \in Workers, Return(w) PROVE UnsettledHasAttempts'
  BY <1>21 DEF Return, Forget
<1>22. ASSUME NEW w \in Workers, Crash(w) PROVE UnsettledHasAttempts'
  BY <1>22 DEF Crash, Forget
<1>23. CASE UNCHANGED vars
  BY <1>23 DEF vars
<1>24. QED
  BY <1>1, <1>2, <1>3, <1>4, <1>4r, <1>5, <1>6, <1>7, <1>8, <1>9, <1>10, <1>11,
     <1>12, <1>13, <1>14, <1>15, <1>16, <1>17, <1>18, <1>19, <1>20, <1>21,
     <1>22, <1>23 DEF Next, Produce, Work

\* An event whose attempts are used up is never claimable again, however late
\* a worker that lost its lease reports its outcome.
THEOREM ExhaustedNeverClaimed == Spec => []ClaimableHasAttempts
<1>1. Init => UnsettledHasAttempts
  BY PolicyAssumption DEF Init, UnsettledHasAttempts
<1>2. TypeOK /\ UnsettledHasAttempts => ClaimableHasAttempts
  BY DEF UnsettledHasAttempts, ClaimableHasAttempts
<1>3. QED
  BY <1>1, <1>2, AttemptsNext, TypeCorrect, SpecTypeOK, PTL DEF Spec
-----------------------------------------------------------------------------
(* Delivery.                                                               *)

\* While no consumer has failed on the row a worker has in hand, each wired
\* consumer that wants it is still to visit, being visited, or on record.
OnTrack(w) ==
  pc[w] \in AtConsumer \cup {"consumers"} /\ ~failed[w] =>
    \A c \in WiredEverywhere : cur[w] \in Wants[c] =>
      \/ c \in todo[w]
      \/ pc[w] \in {"handler", "markProcessed"} /\ con[w] = c
      \/ <<c, cur[w]>> \in processed

\* A consumer wired everywhere is a consumer, and wired in each process.
LEMMA WiredEvery ==
  /\ WiredEverywhere \subseteq Consumers
  /\ \A p \in Processes : WiredEverywhere \subseteq WiredAtStart[p]
  BY DEF WiredEverywhere

DeliveryInv ==
  /\ \A p \in Processes : WiredEverywhere \subseteq subscribed[p]
  /\ ProcessedHasEffect
  /\ \A w \in Workers :
       /\ pc[w] = "markProcessed" => effects[<<con[w], cur[w]>>] > 0
       /\ OnTrack(w)
  /\ \A e \in Events, c \in WiredEverywhere :
       status[e] = "delivered" /\ e \in Wants[c] => <<c, e>> \in processed

\* Each action keeps what a worker believes about its row true of the tables.
LEMMA DeliveryNext ==
  TypeInv /\ DeliveryInv /\ [Next]_vars => DeliveryInv'
<1> SUFFICES ASSUME TypeInv, DeliveryInv, [Next]_vars
             PROVE  DeliveryInv'
  OBVIOUS
<1> USE WiredAssumption, ProcessAssumption, WantsAssumption
    DEF TypeInv, TypeOK, DeliveryInv, OnTrack, ProcessedHasEffect,
        HoldsEnqueued, AtRow, AtConsumer, PCs, Status, Deliveries, Goto,
        outbox, tables, local, counts
<1>1. ASSUME NEW e \in Events, EmitEvent(e) PROVE DeliveryInv'
  BY <1>1 DEF EmitEvent
<1>2. ASSUME NEW e \in Events, AuditEnqueued(e) PROVE DeliveryInv'
  BY <1>2 DEF AuditEnqueued
<1>3. ASSUME NEW e \in Events, CrashEmit(e) PROVE DeliveryInv'
  BY <1>3 DEF CrashEmit
<1>4. ASSUME NEW p \in Processes, NEW c \in Consumers, Subscribe(p, c) PROVE DeliveryInv'
  BY <1>4 DEF Subscribe
<1>4r. ASSUME NEW p \in Processes, Restart(p) PROVE DeliveryInv'
  BY <1>4r, WiredEvery DEF Restart
<1>5. CASE Tick
  BY <1>5 DEF Tick
<1>6. ASSUME NEW w \in Workers, Claim(w) PROVE DeliveryInv'
  BY <1>6 DEF Claim, Claimable, FullLease
<1>7. ASSUME NEW w \in Workers, Replay(w) PROVE DeliveryInv'
  BY <1>7 DEF Replay
<1>8. ASSUME NEW w \in Workers, BeginRow(w) PROVE DeliveryInv'
  BY <1>8 DEF BeginRow, Matching
<1>9. ASSUME NEW w \in Workers, Dedup(w) PROVE DeliveryInv'
  <2>1. PICK c \in todo[w] :
          /\ todo' = [todo EXCEPT ![w] = @ \ {c}]
          /\ \/ <<c, cur[w]>> \in processed /\ UNCHANGED <<pc, con>>
             \/ con' = [con EXCEPT ![w] = c] /\ Goto(w, "handler")
    BY <1>9 DEF Dedup, IsProcessed
  <2>2. /\ pc[w] = "consumers"
        /\ UNCHANGED <<tables, audit, effects, subscribed, emitting, op, batch,
                       cur, matching, failed, counts>>
    BY <1>9 DEF Dedup
  <2>3. ASSUME NEW v \in Workers PROVE OnTrack(v)'
    <3>1. CASE v # w
      BY <2>1, <2>2, <3>1
    <3>2. CASE v = w /\ <<c, cur[w]>> \in processed /\ UNCHANGED <<pc, con>>
      BY <2>1, <2>2, <3>2
    <3>3. CASE v = w /\ con' = [con EXCEPT ![w] = c] /\ Goto(w, "handler")
      BY <2>1, <2>2, <3>3
    <3>4. QED
      BY <2>1, <3>1, <3>2, <3>3
  <2>4. ASSUME NEW v \in Workers, (pc[v] = "markProcessed")'
        PROVE  (effects[<<con[v], cur[v]>>] > 0)'
    BY <2>1, <2>2, <2>4
  <2>5. QED
    BY <2>2, <2>3, <2>4
<1>10. ASSUME NEW w \in Workers, HandlerOk(w) PROVE DeliveryInv'
  BY SMTT(30), <1>10 DEF HandlerOk
<1>11. ASSUME NEW w \in Workers, HandlerThrows(w) PROVE DeliveryInv'
  BY <1>11 DEF HandlerThrows, Caught
<1>12. ASSUME NEW w \in Workers, MarkProcessed(w) PROVE DeliveryInv'
  BY <1>12 DEF MarkProcessed
<1>13. ASSUME NEW w \in Workers, MarkProcessedThrows(w) PROVE DeliveryInv'
  BY <1>13 DEF MarkProcessedThrows, Caught
<1>14. ASSUME NEW w \in Workers, AuditDelivered(w) PROVE DeliveryInv'
  BY <1>14 DEF AuditDelivered
<1>15. ASSUME NEW w \in Workers, AuditDeliveredThrows(w) PROVE DeliveryInv'
  BY <1>15 DEF AuditDeliveredThrows, Caught
<1>16. ASSUME NEW w \in Workers, MarkDelivered(w) PROVE DeliveryInv'
  BY <1>16 DEF MarkDelivered, RowDone, AnyFailure
<1>17. ASSUME NEW w \in Workers, MarkFailed(w) PROVE DeliveryInv'
  BY <1>17 DEF MarkFailed, RowDone, AnyFailure, Exhausted
<1>18. ASSUME NEW w \in Workers, InsertDeadLetter(w) PROVE DeliveryInv'
  BY <1>18 DEF InsertDeadLetter
<1>19. ASSUME NEW w \in Workers, AuditDeadLettered(w) PROVE DeliveryInv'
  BY <1>19 DEF AuditDeadLettered
<1>20. ASSUME NEW w \in Workers, ReplayedRow(w) PROVE DeliveryInv'
  BY <1>20 DEF ReplayedRow, RowDone
<1>21. ASSUME NEW w \in Workers, Return(w) PROVE DeliveryInv'
  BY <1>21 DEF Return, Forget
<1>22. ASSUME NEW w \in Workers, Crash(w) PROVE DeliveryInv'
  BY <1>22 DEF Crash, Forget
<1>23. CASE UNCHANGED vars
  BY <1>23 DEF vars
<1>24. QED
  BY <1>1, <1>2, <1>3, <1>4, <1>4r, <1>5, <1>6, <1>7, <1>8, <1>9, <1>10, <1>11,
     <1>12, <1>13, <1>14, <1>15, <1>16, <1>17, <1>18, <1>19, <1>20, <1>21,
     <1>22, <1>23 DEF Next, Produce, Work

\* At-least-once, for any number of workers, events, crashes and replays: an
\* event marked delivered has been handled to the end by every wired consumer
\* that wants it.
THEOREM AtLeastOnce == Spec => []DeliveredReachedEveryone
<1>1. Init => DeliveryInv
  BY WiredEvery DEF Init, DeliveryInv, ProcessedHasEffect, OnTrack, AtConsumer
<1>2. DeliveryInv => DeliveredReachedEveryone
  BY DEF DeliveryInv, DeliveredReachedEveryone, ProcessedHasEffect
<1>3. QED
  BY <1>1, <1>2, DeliveryNext, TypeCorrect, PTL DEF Spec
-----------------------------------------------------------------------------
(* Refinement: every step is a step of DeliveryLedger or invisible to it.  *)

LedgerStep == [Ledger!Next]_(Ledger!ledger)

\* Accepting, delivering, reopening and abandoning an event are steps of the ledger ...
LEMMA LedgerMoves ==
  ASSUME NEW e \in Events,
         Ledger!Accept(e) \/ Ledger!Deliver(e) \/ Ledger!Reopen(e)
           \/ Ledger!Abandon(e)
  PROVE  LedgerStep
  BY DEF LedgerStep, Ledger!Next

\* ... and so are running a consumer and confirming its record.
LEMMA LedgerHandles ==
  ASSUME NEW c \in Consumers, NEW e \in Events,
         Ledger!Run(c, e) \/ Ledger!Confirm(c, e)
  PROVE  LedgerStep
  BY DEF LedgerStep, Ledger!Next

\* What leaves the variables of the ledger alone is no step of it.
LEMMA LedgerStutters == ASSUME UNCHANGED Ledger!ledger PROVE LedgerStep
  BY DEF LedgerStep

\* Every step of the platform is one of the ledger, or a stutter.
LEMMA LedgerNext ==
  TypeInv /\ DeliveryInv /\ [Next]_vars => LedgerStep
<1> SUFFICES ASSUME TypeInv, DeliveryInv, [Next]_vars
             PROVE  LedgerStep
  OBVIOUS
<1> USE PolicyAssumption
    DEF TypeInv, TypeOK, HoldsEnqueued, AtRow, AtConsumer, PCs, Status,
        Deliveries, outbox, tables, local, counts
<1>1. ASSUME NEW e \in Events, EmitEvent(e) PROVE LedgerStep
  <2>1. CASE status[e] = "absent"
    <3>1. Ledger!Accept(e)
      BY <1>1, <2>1 DEF EmitEvent, Ledger!Accept
    <3>2. QED
      BY <3>1, LedgerMoves
  <2>2. CASE status[e] # "absent"
    BY <1>1, <2>2, LedgerStutters DEF Ledger!ledger, EmitEvent
  <2>3. QED
    BY <2>1, <2>2
<1>2. ASSUME NEW e \in Events, AuditEnqueued(e) PROVE LedgerStep
  BY <1>2, LedgerStutters DEF Ledger!ledger, AuditEnqueued
<1>3. ASSUME NEW e \in Events, CrashEmit(e) PROVE LedgerStep
  BY <1>3, LedgerStutters DEF Ledger!ledger, CrashEmit
<1>4. ASSUME NEW p \in Processes, NEW c \in Consumers, Subscribe(p, c) PROVE LedgerStep
  BY <1>4, LedgerStutters DEF Ledger!ledger, Subscribe
<1>4r. ASSUME NEW p \in Processes, Restart(p) PROVE LedgerStep
  BY <1>4r, LedgerStutters DEF Ledger!ledger, Restart
<1>5. CASE Tick
  BY <1>5, LedgerStutters DEF Ledger!ledger, Tick
<1>6. ASSUME NEW w \in Workers, Claim(w) PROVE LedgerStep
  BY SMTT(30), <1>6, LedgerStutters DEF Ledger!ledger, Claim, Claimable, FullLease
<1>7. ASSUME NEW w \in Workers, Replay(w) PROVE LedgerStep
  BY <1>7, LedgerStutters DEF Ledger!ledger, Replay
<1>8. ASSUME NEW w \in Workers, BeginRow(w) PROVE LedgerStep
  BY <1>8, LedgerStutters DEF Ledger!ledger, BeginRow, Matching
<1>9. ASSUME NEW w \in Workers, Dedup(w) PROVE LedgerStep
  BY <1>9, LedgerStutters DEF Ledger!ledger, Dedup, IsProcessed
<1>10. ASSUME NEW w \in Workers, HandlerOk(w) PROVE LedgerStep
  <2>1. con[w] \in Consumers /\ cur[w] \in Events /\ status[cur[w]] # "absent"
    BY <1>10 DEF HandlerOk
  <2>2. Ledger!Run(con[w], cur[w])
    BY <1>10, <2>1 DEF HandlerOk, Ledger!Run
  <2>3. QED
    BY <2>1, <2>2, LedgerHandles
<1>11. ASSUME NEW w \in Workers, HandlerThrows(w) PROVE LedgerStep
  BY <1>11, LedgerStutters DEF Ledger!ledger, HandlerThrows, Caught
<1>12. ASSUME NEW w \in Workers, MarkProcessed(w) PROVE LedgerStep
  <2>1. con[w] \in Consumers /\ cur[w] \in Events
    BY <1>12 DEF MarkProcessed
  <2>2. effects[<<con[w], cur[w]>>] > 0
    BY <1>12 DEF MarkProcessed, DeliveryInv
  <2>3. Ledger!Confirm(con[w], cur[w])
    BY <1>12, <2>1, <2>2 DEF MarkProcessed, Ledger!Confirm
  <2>4. QED
    BY <2>1, <2>3, LedgerHandles
<1>13. ASSUME NEW w \in Workers, MarkProcessedThrows(w) PROVE LedgerStep
  BY <1>13, LedgerStutters DEF Ledger!ledger, MarkProcessedThrows, Caught
<1>14. ASSUME NEW w \in Workers, AuditDelivered(w) PROVE LedgerStep
  BY <1>14, LedgerStutters DEF Ledger!ledger, AuditDelivered
<1>15. ASSUME NEW w \in Workers, AuditDeliveredThrows(w) PROVE LedgerStep
  BY <1>15, LedgerStutters DEF Ledger!ledger, AuditDeliveredThrows, Caught
<1>16. ASSUME NEW w \in Workers, MarkDelivered(w) PROVE LedgerStep
  <2>1. PICK e \in Events : e = cur[w] /\ status[e] # "absent"
    BY <1>16 DEF MarkDelivered, RowDone
  <2>2. \A c \in WiredEverywhere : e \in Wants[c] => <<c, e>> \in processed
    BY <1>16, <2>1 DEF MarkDelivered, RowDone, AnyFailure, DeliveryInv, OnTrack
  <2>3. Ledger!Deliver(e)
    BY <1>16, <2>1, <2>2 DEF MarkDelivered, Ledger!Deliver
  <2>4. QED
    BY <2>3, LedgerMoves
<1>17. ASSUME NEW w \in Workers, MarkFailed(w) PROVE LedgerStep
  <2>1. PICK e \in Events : e = cur[w] /\ status[e] # "absent"
    BY <1>17 DEF MarkFailed, RowDone
  <2>2. /\ attempts' = [attempts EXCEPT ![e] = @ + 1]
        /\ UNCHANGED <<deadLetters, processed, effects>>
    BY <1>17, <2>1 DEF MarkFailed
  <2>3. CASE Exhausted(e)
    <3>1. Ledger!Abandon(e)
      BY <1>17, <2>1, <2>3 DEF MarkFailed, Exhausted, Ledger!Abandon
    <3>2. QED
      BY <3>1, LedgerMoves
  <2>4. CASE ~Exhausted(e)
    <3>1. status' = [status EXCEPT ![e] = "pending"]
      BY <1>17, <2>1, <2>4 DEF MarkFailed
    <3>2. attempts[e] + 1 < MaxAttempts
      BY <2>1, <2>4 DEF Exhausted
    <3>3. {f \in Events : attempts'[f] >= MaxAttempts}
            = {f \in Events : attempts[f] >= MaxAttempts}
      BY <2>1, <2>2, <3>2
    <3>4. {f \in Events : status'[f] # "absent"}
            = {f \in Events : status[f] # "absent"}
      BY <2>1, <3>1
    <3>5. ~(attempts[e] >= MaxAttempts)
      BY <2>1, <3>2
    <3>6. [f \in Events |-> IF status'[f] \in {"delivered", "dead_lettered"}
                              THEN status'[f] ELSE "open"]
            = [[f \in Events |-> IF status[f] \in {"delivered", "dead_lettered"}
                                   THEN status[f] ELSE "open"]
                 EXCEPT ![e] = "open"]
      BY <2>1, <3>1
    <3>7. Ledger!Reopen(e)
      BY <2>1, <2>2, <3>3, <3>4, <3>5, <3>6 DEF Ledger!Reopen
    <3>8. QED
      BY <3>7, LedgerMoves
  <2>5. QED
    BY <2>3, <2>4
<1>18. ASSUME NEW w \in Workers, InsertDeadLetter(w) PROVE LedgerStep
  BY <1>18, LedgerStutters DEF Ledger!ledger, InsertDeadLetter
<1>19. ASSUME NEW w \in Workers, AuditDeadLettered(w) PROVE LedgerStep
  BY <1>19, LedgerStutters DEF Ledger!ledger, AuditDeadLettered
<1>20. ASSUME NEW w \in Workers, ReplayedRow(w) PROVE LedgerStep
  BY <1>20, LedgerStutters DEF Ledger!ledger, ReplayedRow, RowDone
<1>21. ASSUME NEW w \in Workers, Return(w) PROVE LedgerStep
  BY <1>21, LedgerStutters DEF Ledger!ledger, Return, Forget
<1>22. ASSUME NEW w \in Workers, Crash(w) PROVE LedgerStep
  BY <1>22, LedgerStutters DEF Ledger!ledger, Crash, Forget
<1>23. CASE UNCHANGED vars
  BY <1>23, LedgerStutters DEF Ledger!ledger, vars
<1>24. QED
  BY <1>1, <1>2, <1>3, <1>4, <1>4r, <1>5, <1>6, <1>7, <1>8, <1>9, <1>10, <1>11,
     <1>12, <1>13, <1>14, <1>15, <1>16, <1>17, <1>18, <1>19, <1>20, <1>21,
     <1>22, <1>23 DEF Next, Produce, Work

\* The platform implements the ledger: at-least-once delivery with a bounded
\* number of attempts, for every choice of the constants.
THEOREM Implements == Spec => ImplementsLedger
<1>1. Init => Ledger!Init
  BY PolicyAssumption DEF Init, Ledger!Init, Deliveries
<1>2. Init => DeliveryInv
  BY WiredEvery DEF Init, DeliveryInv, ProcessedHasEffect, OnTrack, AtConsumer
<1>3. QED
  BY <1>1, <1>2, LedgerNext, DeliveryNext, TypeCorrect, PTL
  DEF Spec, ImplementsLedger, Ledger!Spec, LedgerStep
-----------------------------------------------------------------------------
(* The audit log and the dead letters.                                     *)

AuditInv ==
  /\ AuditTellsTruth
  /\ DeadLetterIsExhausted
  /\ \A w \in Workers :
       /\ pc[w] = "auditDelivered" => <<con[w], cur[w]>> \in processed
       /\ pc[w] \in {"deadLetter", "auditDeadLettered"}
            => attempts[cur[w]] >= MaxAttempts
       /\ pc[w] = "auditDeadLettered" => cur[w] \in deadLetters

\* An entry is written where its fact already holds, and facts stay.
LEMMA AuditNext == TypeInv /\ AuditInv /\ [Next]_vars => AuditInv'
<1> SUFFICES ASSUME TypeInv, AuditInv, [Next]_vars PROVE AuditInv'
  OBVIOUS
<1> USE PolicyAssumption
    DEF TypeInv, TypeOK, AuditInv, AuditTellsTruth, DeadLetterIsExhausted,
        HoldsEnqueued, AtRow, AtConsumer, PCs, Status, Deliveries, Goto,
        AuditEntries, outbox, tables, local, counts
<1>1. ASSUME NEW e \in Events, EmitEvent(e) PROVE AuditInv'
  BY <1>1 DEF EmitEvent
<1>2. ASSUME NEW e \in Events, AuditEnqueued(e) PROVE AuditInv'
  BY <1>2 DEF AuditEnqueued
<1>3. ASSUME NEW e \in Events, CrashEmit(e) PROVE AuditInv'
  BY <1>3 DEF CrashEmit
<1>4. ASSUME NEW p \in Processes, NEW c \in Consumers, Subscribe(p, c) PROVE AuditInv'
  BY <1>4 DEF Subscribe
<1>4r. ASSUME NEW p \in Processes, Restart(p) PROVE AuditInv'
  BY <1>4r DEF Restart
<1>5. CASE Tick
  BY <1>5 DEF Tick
<1>6. ASSUME NEW w \in Workers, Claim(w) PROVE AuditInv'
  BY <1>6 DEF Claim, Claimable, FullLease
<1>7. ASSUME NEW w \in Workers, Replay(w) PROVE AuditInv'
  BY <1>7 DEF Replay
<1>8. ASSUME NEW w \in Workers, BeginRow(w) PROVE AuditInv'
  BY <1>8 DEF BeginRow, Matching
<1>9. ASSUME NEW w \in Workers, Dedup(w) PROVE AuditInv'
  BY <1>9 DEF Dedup, IsProcessed
<1>10. ASSUME NEW w \in Workers, HandlerOk(w) PROVE AuditInv'
  BY <1>10 DEF HandlerOk
<1>11. ASSUME NEW w \in Workers, HandlerThrows(w) PROVE AuditInv'
  BY <1>11 DEF HandlerThrows, Caught
<1>12. ASSUME NEW w \in Workers, MarkProcessed(w) PROVE AuditInv'
  BY <1>12 DEF MarkProcessed
<1>13. ASSUME NEW w \in Workers, MarkProcessedThrows(w) PROVE AuditInv'
  BY <1>13 DEF MarkProcessedThrows, Caught
<1>14. ASSUME NEW w \in Workers, AuditDelivered(w) PROVE AuditInv'
  BY <1>14 DEF AuditDelivered
<1>15. ASSUME NEW w \in Workers, AuditDeliveredThrows(w) PROVE AuditInv'
  BY <1>15 DEF AuditDeliveredThrows, Caught
<1>16. ASSUME NEW w \in Workers, MarkDelivered(w) PROVE AuditInv'
  BY <1>16 DEF MarkDelivered, RowDone, AnyFailure
<1>17. ASSUME NEW w \in Workers, MarkFailed(w) PROVE AuditInv'
  BY <1>17 DEF MarkFailed, RowDone, AnyFailure, Exhausted
<1>18. ASSUME NEW w \in Workers, InsertDeadLetter(w) PROVE AuditInv'
  BY <1>18 DEF InsertDeadLetter
<1>19. ASSUME NEW w \in Workers, AuditDeadLettered(w) PROVE AuditInv'
  <2>1. cur[w] \in deadLetters
    BY <1>19 DEF AuditDeadLettered
  <2>2. ASSUME NEW a \in audit'
        PROVE  /\ a.action = "event.enqueued" => status'[a.event] # "absent"
               /\ a.action = "event.delivered"
                    => <<a.consumer, a.event>> \in processed'
               /\ a.action = "event.dead_lettered" => a.event \in deadLetters'
    <3>1. CASE a \in audit
      BY <1>19, <3>1 DEF AuditDeadLettered
    <3>2. CASE a = [action |-> "event.dead_lettered", event |-> cur[w]]
      BY <1>19, <2>1, <3>2 DEF AuditDeadLettered
    <3>3. QED
      BY <1>19, <3>1, <3>2 DEF AuditDeadLettered
  <2>3. QED
    BY <1>19, <2>2 DEF AuditDeadLettered
<1>20. ASSUME NEW w \in Workers, ReplayedRow(w) PROVE AuditInv'
  BY <1>20 DEF ReplayedRow, RowDone
<1>21. ASSUME NEW w \in Workers, Return(w) PROVE AuditInv'
  BY <1>21 DEF Return, Forget
<1>22. ASSUME NEW w \in Workers, Crash(w) PROVE AuditInv'
  BY <1>22 DEF Crash, Forget
<1>23. CASE UNCHANGED vars
  BY <1>23 DEF vars
<1>24. QED
  BY <1>1, <1>2, <1>3, <1>4, <1>4r, <1>5, <1>6, <1>7, <1>8, <1>9, <1>10, <1>11,
     <1>12, <1>13, <1>14, <1>15, <1>16, <1>17, <1>18, <1>19, <1>20, <1>21,
     <1>22, <1>23 DEF Next, Produce, Work

\* Whatever crashes, lapses or is replayed, the audit log reports no enqueue,
\* delivery or dead letter that is not in the platform's tables.
THEOREM AuditIsTrue == Spec => []AuditTellsTruth
<1>1. Init => AuditInv
  BY DEF Init, AuditInv, AuditTellsTruth, DeadLetterIsExhausted
<1>2. AuditInv => AuditTellsTruth
  BY DEF AuditInv
<1>3. QED
  BY <1>1, <1>2, AuditNext, TypeCorrect, PTL DEF Spec
-----------------------------------------------------------------------------
(* Duplicates.  For one consumer and one event, each worker that may still *)
(* run the handler is counted as a run, and the sum is held against what   *)
(* the event has slipped.  A worker that holds the row keeps its share     *)
(* until it lets go of the row: it is that share which pays for the claim  *)
(* that may follow its markFailed.                                         *)

\* Workers that are to take up e, or are at it and not between c's handler and
\* its record.
Holding(c, e) ==
  {w \in Workers :
     \/ pc[w] # "idle" /\ e \in batch[w]
     \/ /\ pc[w] \in AtRow \ {"deadLetter", "auditDeadLettered"}
        /\ cur[w] = e
        /\ ~(pc[w] = "markProcessed" /\ con[w] = c)}

Running(c, e) ==
  {w \in Workers : pc[w] = "handler" /\ con[w] = c /\ cur[w] = e}

\* Once c is on record, only a worker past its isProcessed may run c again.
Spending(c, e) ==
  IF IsProcessed(c, e) THEN Running(c, e) ELSE Holding(c, e)

\* A row waiting to be claimed owes the run its next claim may bring.
Allowance(c, e) ==
  slips[e] + IF IsProcessed(c, e) \/ status[e] \notin {"absent", "pending"}
               THEN 1 ELSE 0

Accounted(c, e) ==
  /\ IsFiniteSet(Holding(c, e))
  /\ effects[<<c, e>>] + Cardinality(Spending(c, e)) <= Allowance(c, e)

\* A row in hand is not in the rest of the batch.
HoldsOnce == \A w \in Workers : pc[w] \in AtRow => cur[w] \notin batch[w]

CauseInv == HoldsOnce /\ \A c \in Consumers, e \in Events : Accounted(c, e)

\* A set that gains at most one element gains at most one in number.
LEMMA OneMore ==
  ASSUME NEW S, NEW T, NEW x, IsFiniteSet(S), T \subseteq S \cup {x}
  PROVE  /\ IsFiniteSet(T)
         /\ Cardinality(S) \in Nat /\ Cardinality(T) \in Nat
         /\ Cardinality(T) <= Cardinality(S) + 1
<1>1. /\ IsFiniteSet(S \cup {x})
      /\ Cardinality(S \cup {x}) = IF x \in S THEN Cardinality(S) ELSE Cardinality(S) + 1
  BY FS_AddElement
<1>2. IsFiniteSet(T) /\ Cardinality(T) <= Cardinality(S \cup {x})
  BY <1>1, FS_Subset
<1>3. /\ Cardinality(S) \in Nat /\ Cardinality(T) \in Nat
      /\ Cardinality(S \cup {x}) \in Nat
  BY <1>1, <1>2, FS_CardinalityType
<1> QED
  BY <1>1, <1>2, <1>3

\* A set without one of its elements has one fewer.
LEMMA OneLess ==
  ASSUME NEW S, NEW T, NEW x \in S, IsFiniteSet(S), T \subseteq S \ {x}
  PROVE  /\ IsFiniteSet(T)
         /\ Cardinality(S) \in Nat /\ Cardinality(T) \in Nat
         /\ Cardinality(T) + 1 <= Cardinality(S)
<1>1. IsFiniteSet(S \ {x}) /\ Cardinality(S \ {x}) = Cardinality(S) - 1
  BY FS_RemoveElement
<1>2. IsFiniteSet(T) /\ Cardinality(T) <= Cardinality(S \ {x})
  BY <1>1, FS_Subset
<1>3. Cardinality(S) \in Nat /\ Cardinality(T) \in Nat
  BY <1>2, FS_CardinalityType
<1> QED
  BY <1>1, <1>2, <1>3

\* Whoever spends holds the row, and there are finitely many of them.
LEMMA SpendersHold ==
  ASSUME TypeOK, NEW c \in Consumers, NEW e \in Events, Accounted(c, e)
  PROVE  /\ Spending(c, e) \subseteq Holding(c, e)
         /\ IsFiniteSet(Spending(c, e))
         /\ Cardinality(Spending(c, e)) \in Nat
         /\ effects[<<c, e>>] \in Nat /\ Allowance(c, e) \in Nat
<1>1. Running(c, e) \subseteq Holding(c, e)
  BY DEF Running, Holding, AtRow, PCs
<1>2. Spending(c, e) \subseteq Holding(c, e)
  BY <1>1 DEF Spending
<1>3. IsFiniteSet(Spending(c, e))
  BY <1>2, FS_Subset DEF Accounted
<1> QED
  BY <1>2, <1>3, FS_CardinalityType DEF TypeOK, Allowance, Deliveries

\* The account is kept by a step that counts for at most one worker x: it may
\* join the spenders against a larger allowance, ...
LEMMA AccountGrows ==
  ASSUME TypeOK, TypeOK', NEW c \in Consumers, NEW e \in Events, NEW x,
         Accounted(c, e),
         Holding(c, e)' \subseteq Holding(c, e) \cup {x},
         Spending(c, e)' \subseteq Spending(c, e) \cup {x},
         effects'[<<c, e>>] = effects[<<c, e>>],
         Allowance(c, e)' = Allowance(c, e) + 1
  PROVE  Accounted(c, e)'
<1>1. /\ IsFiniteSet(Spending(c, e)) /\ effects[<<c, e>>] \in Nat
      /\ Allowance(c, e) \in Nat
  BY SpendersHold
<1>2. IsFiniteSet(Holding(c, e)')
  BY OneMore DEF Accounted
<1>3. /\ Cardinality(Spending(c, e)') <= Cardinality(Spending(c, e)) + 1
      /\ Cardinality(Spending(c, e)) \in Nat /\ Cardinality(Spending(c, e)') \in Nat
  BY <1>1, OneMore
<1> QED
  BY <1>1, <1>2, <1>3 DEF Accounted

\* ... leave them, to pay for a run or for a smaller allowance, ...
LEMMA AccountShrinks ==
  ASSUME TypeOK, TypeOK', NEW c \in Consumers, NEW e \in Events,
         Accounted(c, e), NEW x \in Spending(c, e),
         Holding(c, e)' \subseteq Holding(c, e),
         Spending(c, e)' \subseteq Spending(c, e) \ {x},
         \/ /\ effects'[<<c, e>>] = effects[<<c, e>>] + 1
            /\ Allowance(c, e)' = Allowance(c, e)
         \/ /\ effects'[<<c, e>>] = effects[<<c, e>>]
            /\ Allowance(c, e)' >= Allowance(c, e) - 1
  PROVE  Accounted(c, e)'
<1>1. /\ IsFiniteSet(Spending(c, e)) /\ effects[<<c, e>>] \in Nat
      /\ Allowance(c, e) \in Nat
  BY SpendersHold
<1>2. IsFiniteSet(Holding(c, e)')
  BY FS_Subset DEF Accounted
<1>3. /\ Cardinality(Spending(c, e)') + 1 <= Cardinality(Spending(c, e))
      /\ Cardinality(Spending(c, e)) \in Nat /\ Cardinality(Spending(c, e)') \in Nat
  BY <1>1, OneLess
<1>4. Allowance(c, e)' \in Nat
  BY DEF TypeOK, Allowance
<1> QED
  BY <1>1, <1>2, <1>3, <1>4 DEF Accounted

\* ... or none of this.
LEMMA AccountStays ==
  ASSUME TypeOK, TypeOK', NEW c \in Consumers, NEW e \in Events, NEW x,
         Accounted(c, e),
         Holding(c, e)' \subseteq Holding(c, e) \cup {x},
         Spending(c, e)' \subseteq Spending(c, e),
         effects'[<<c, e>>] = effects[<<c, e>>],
         Allowance(c, e)' >= Allowance(c, e)
  PROVE  Accounted(c, e)'
<1>1. /\ IsFiniteSet(Spending(c, e)) /\ effects[<<c, e>>] \in Nat
      /\ Allowance(c, e) \in Nat
      /\ Cardinality(Spending(c, e)) \in Nat
  BY SpendersHold
<1>2. IsFiniteSet(Holding(c, e)')
  BY OneMore DEF Accounted
<1>3. /\ IsFiniteSet(Spending(c, e)')
      /\ Cardinality(Spending(c, e)') <= Cardinality(Spending(c, e))
  BY <1>1, FS_Subset
<1>4. Cardinality(Spending(c, e)') \in Nat
  BY <1>3, FS_CardinalityType
<1>5. Allowance(c, e)' \in Nat
  BY DEF TypeOK, Allowance
<1> QED
  BY <1>1, <1>2, <1>3, <1>4, <1>5 DEF Accounted

\* What a step does that starts no run, loses no record and lets no row wait.
Quiet(c, e) ==
  /\ Holding(c, e)' \subseteq Holding(c, e)
  /\ Spending(c, e)' \subseteq Spending(c, e)
  /\ effects'[<<c, e>>] = effects[<<c, e>>]
  /\ Allowance(c, e)' >= Allowance(c, e)

\* A step that is quiet about an event keeps its account.
LEMMA QuietSteps ==
  ASSUME TypeOK, TypeOK', NEW c \in Consumers, NEW e \in Events,
         Accounted(c, e), Quiet(c, e)
  PROVE  Accounted(c, e)'
  BY AccountStays DEF Quiet

\* A row is taken from the batch when it is taken in hand.
LEMMA HoldsOnceNext == TypeOK /\ HoldsOnce /\ [Next]_vars => HoldsOnce'
<1> SUFFICES ASSUME TypeOK, HoldsOnce, [Next]_vars PROVE HoldsOnce'
  OBVIOUS
<1> USE DEF HoldsOnce, AtRow, PCs, Goto, TypeOK
<1>1. ASSUME NEW w \in Workers, Claim(w) \/ Replay(w) PROVE HoldsOnce'
  BY <1>1 DEF Claim, Replay
<1>2. ASSUME NEW w \in Workers, BeginRow(w) PROVE HoldsOnce'
  BY <1>2 DEF BeginRow
<1>3. ASSUME NEW w \in Workers, Return(w) \/ Crash(w) PROVE HoldsOnce'
  BY <1>3 DEF Return, Crash, Forget
<1>4. ASSUME NEW w \in Workers,
             \/ Dedup(w) \/ HandlerOk(w) \/ HandlerThrows(w) \/ MarkProcessed(w)
             \/ MarkProcessedThrows(w) \/ AuditDelivered(w)
             \/ AuditDeliveredThrows(w) \/ MarkDelivered(w) \/ MarkFailed(w)
             \/ InsertDeadLetter(w) \/ AuditDeadLettered(w) \/ ReplayedRow(w)
      PROVE  HoldsOnce'
  <2>1. pc[w] \in AtRow /\ UNCHANGED <<batch, cur>>
    BY <1>4 DEF Dedup, HandlerOk, HandlerThrows, MarkProcessed, MarkProcessedThrows,
                Caught, AuditDelivered, AuditDeliveredThrows, MarkDelivered,
                MarkFailed, RowDone, InsertDeadLetter, AuditDeadLettered, ReplayedRow
  <2>2. \A v \in Workers : v # w => pc'[v] = pc[v]
    BY <1>4 DEF Dedup, HandlerOk, HandlerThrows, MarkProcessed, MarkProcessedThrows,
                Caught, AuditDelivered, AuditDeliveredThrows, MarkDelivered,
                MarkFailed, RowDone, InsertDeadLetter, AuditDeadLettered, ReplayedRow
  <2> QED
    BY <2>1, <2>2
<1>5. CASE UNCHANGED local
  BY <1>5 DEF local
<1> QED
  BY <1>1, <1>2, <1>3, <1>4, <1>5
  DEF Next, Produce, Work, EmitEvent, AuditEnqueued, CrashEmit, Subscribe, Restart, Tick, vars

\* Every step keeps the account, of every consumer and event.
LEMMA CauseNext ==
  TypeInv /\ TypeInv' /\ CauseInv /\ [Next]_vars => CauseInv'
<1> SUFFICES ASSUME TypeInv, TypeInv', CauseInv, [Next]_vars,
                    NEW d \in Consumers, NEW f \in Events
             PROVE  Accounted(d, f)'
  BY HoldsOnceNext DEF CauseInv, TypeInv
<1>o. HoldsOnce
  BY DEF CauseInv
<1>t. TypeOK /\ TypeOK' /\ HoldsEnqueued
  BY DEF TypeInv
<1>a. Accounted(d, f)
  BY DEF CauseInv
<1>q. ASSUME Quiet(d, f) PROVE Accounted(d, f)'
  BY <1>a, <1>q, <1>t, QuietSteps
<1> USE DEF Quiet, Holding, Spending, Running, IsProcessed, Allowance, AtRow, PCs, Goto,
        Slip, outbox, tables, local, counts
<1>1. ASSUME NEW e \in Events, EmitEvent(e) PROVE Accounted(d, f)'
  <2>1. Quiet(d, f)
    BY <1>t, <1>1 DEF EmitEvent, TypeOK
  <2> QED
    BY <2>1, <1>q
<1>2. ASSUME NEW e \in Events, AuditEnqueued(e) PROVE Accounted(d, f)'
  <2>1. Quiet(d, f)
    BY <1>t, <1>2 DEF AuditEnqueued, TypeOK
  <2> QED
    BY <2>1, <1>q
<1>3. ASSUME NEW e \in Events, CrashEmit(e) PROVE Accounted(d, f)'
  <2>1. Quiet(d, f)
    BY <1>t, <1>3 DEF CrashEmit, TypeOK
  <2> QED
    BY <2>1, <1>q
<1>4. ASSUME NEW p \in Processes, NEW c \in Consumers, Subscribe(p, c)
      PROVE Accounted(d, f)'
  <2>1. Quiet(d, f)
    BY <1>t, <1>4 DEF Subscribe, TypeOK
  <2> QED
    BY <2>1, <1>q
<1>4r. ASSUME NEW p \in Processes, Restart(p) PROVE Accounted(d, f)'
  <2>1. Quiet(d, f)
    BY <1>t, <1>4r DEF Restart, TypeOK
  <2> QED
    BY <2>1, <1>q
<1>5. CASE Tick
  <2>1. Quiet(d, f)
    BY <1>t, <1>5 DEF Tick, TypeOK
  <2> QED
    BY <2>1, <1>q
<1>6. ASSUME NEW w \in Workers, Claim(w) PROVE Accounted(d, f)'
  <2>1. PICK rows \in SUBSET Claimable :
          /\ batch' = [batch EXCEPT ![w] = rows]
          /\ status' = [e \in Events |->
                          IF e \in rows THEN "delivering" ELSE status[e]]
          /\ slips' = [e \in Events |->
                         IF e \in rows /\ status[e] = "delivering"
                           THEN slips[e] + 1 ELSE slips[e]]
    BY <1>6 DEF Claim
  <2>2. /\ pc[w] = "idle" /\ pc' = [pc EXCEPT ![w] = "rows"]
        /\ UNCHANGED <<processed, effects, cur, con>>
    BY <1>6 DEF Claim
  <2>3. CASE f \in rows
    <3>1. Allowance(d, f)' >= Allowance(d, f)
      BY <1>t, <2>1, <2>2, <2>3 DEF TypeOK
    <3>2. CASE IsProcessed(d, f)
      <4>1. /\ Holding(d, f)' \subseteq Holding(d, f) \cup {w}
            /\ Spending(d, f)' \subseteq Spending(d, f)
        BY <1>t, <2>1, <2>2, <3>2 DEF TypeOK
      <4> HIDE DEF Holding, Spending, Allowance
      <4> QED
        BY <1>t, <1>a, <2>2, <3>1, <4>1, AccountStays
    <3>3. CASE ~IsProcessed(d, f)
      <4>1. /\ Holding(d, f)' \subseteq Holding(d, f) \cup {w}
            /\ Spending(d, f)' \subseteq Spending(d, f) \cup {w}
        BY <1>t, <2>1, <2>2, <3>3 DEF TypeOK
      <4>2. Allowance(d, f)' = Allowance(d, f) + 1
        BY <1>t, <2>1, <2>2, <2>3, <3>3 DEF TypeOK, Claimable
      <4> HIDE DEF Holding, Spending, Allowance
      <4> QED
        BY <1>t, <1>a, <2>2, <4>1, <4>2, AccountGrows
    <3> QED
      BY <3>2, <3>3
  <2>4. CASE f \notin rows
    <3>1. Quiet(d, f)
      BY <1>t, <2>1, <2>2, <2>4 DEF TypeOK
    <3> QED
      BY <3>1, <1>q
  <2> QED
    BY <2>3, <2>4
<1>7. ASSUME NEW w \in Workers, Replay(w) PROVE Accounted(d, f)'
  <2>1. PICK rows \in SUBSET Events :
          /\ batch' = [batch EXCEPT ![w] = rows]
          /\ slips' = [e \in Events |->
                         IF e \in rows THEN slips[e] + 1 ELSE slips[e]]
    BY <1>7 DEF Replay
  <2>2. /\ pc[w] = "idle" /\ pc' = [pc EXCEPT ![w] = "rows"]
        /\ UNCHANGED <<status, processed, effects, cur, con>>
    BY <1>7 DEF Replay
  <2>3. CASE f \in rows
    <3>1. /\ Holding(d, f)' \subseteq Holding(d, f) \cup {w}
          /\ Spending(d, f)' \subseteq Spending(d, f) \cup {w}
      BY <1>t, <2>1, <2>2 DEF TypeOK
    <3>2. Allowance(d, f)' = Allowance(d, f) + 1
      BY <1>t, <2>1, <2>2, <2>3 DEF TypeOK
    <3> HIDE DEF Holding, Spending, Allowance
    <3> QED
      BY <1>t, <1>a, <2>2, <3>1, <3>2, AccountGrows
  <2>4. CASE f \notin rows
    <3>1. Quiet(d, f)
      BY <1>t, <2>1, <2>2, <2>4 DEF TypeOK
    <3> QED
      BY <3>1, <1>q
  <2> QED
    BY <2>3, <2>4
<1>8. ASSUME NEW w \in Workers, BeginRow(w) PROVE Accounted(d, f)'
  <2>1. Quiet(d, f)
    BY <1>t, <1>8 DEF BeginRow, Matching, TypeOK
  <2> QED
    BY <2>1, <1>q
<1>9. ASSUME NEW w \in Workers, Dedup(w) PROVE Accounted(d, f)'
  <2>1. PICK c \in todo[w] :
          \/ UNCHANGED <<pc, con>>
          \/ /\ ~IsProcessed(c, cur[w])
             /\ con' = [con EXCEPT ![w] = c]
             /\ pc' = [pc EXCEPT ![w] = "handler"]
    BY <1>9 DEF Dedup
  <2>2. /\ pc[w] = "consumers"
        /\ UNCHANGED <<status, processed, effects, batch, cur, slips>>
    BY <1>9 DEF Dedup
  <2>3. Quiet(d, f)
    <3>1. CASE UNCHANGED <<pc, con>>
      BY <1>t, <2>2, <3>1 DEF TypeOK
    <3>2. CASE /\ ~IsProcessed(c, cur[w])
               /\ con' = [con EXCEPT ![w] = c]
               /\ pc' = [pc EXCEPT ![w] = "handler"]
      <4>1. Holding(d, f)' \subseteq Holding(d, f)
        BY <1>t, <2>2, <3>2 DEF TypeOK
      <4>2. IsProcessed(d, f) => Running(d, f)' \subseteq Running(d, f)
        BY <1>t, <2>2, <3>2 DEF TypeOK
      <4>3. Allowance(d, f)' = Allowance(d, f) /\ Allowance(d, f) \in Nat
        BY <1>t, <2>2 DEF TypeOK
      <4> HIDE DEF Holding, Running, Allowance
      <4> QED
        BY <2>2, <4>1, <4>2, <4>3
    <3> QED
      BY <2>1, <3>1, <3>2
  <2> QED
    BY <2>3, <1>q
<1>10. ASSUME NEW w \in Workers, HandlerOk(w) PROVE Accounted(d, f)'
  <2>1. /\ pc[w] = "handler" /\ pc' = [pc EXCEPT ![w] = "markProcessed"]
        /\ effects' = [effects EXCEPT ![<<con[w], cur[w]>>] = @ + 1]
        /\ UNCHANGED <<status, processed, batch, cur, con, slips>>
    BY <1>10 DEF HandlerOk
  <2>2. CASE con[w] = d /\ cur[w] = f
    <3>1. /\ w \in Spending(d, f)
          /\ Holding(d, f)' \subseteq Holding(d, f)
      BY <1>t, <2>1, <2>2 DEF TypeOK
    <3>2. Spending(d, f)' \subseteq Spending(d, f) \ {w}
      BY <1>t, <1>o, <2>1, <2>2 DEF TypeOK, HoldsOnce
    <3>3. /\ effects'[<<d, f>>] = effects[<<d, f>>] + 1
          /\ Allowance(d, f)' = Allowance(d, f)
      BY <1>t, <2>1, <2>2 DEF TypeOK, Deliveries
    <3> HIDE DEF Holding, Spending, Allowance
    <3> QED
      BY <1>t, <1>a, <3>1, <3>2, <3>3, AccountShrinks
  <2>3. CASE ~(con[w] = d /\ cur[w] = f)
    <3>1. effects'[<<d, f>>] = effects[<<d, f>>]
      BY <1>t, <2>1, <2>3 DEF TypeOK, Deliveries
    <3>2. Quiet(d, f)
      BY <1>t, <2>1, <2>3, <3>1 DEF TypeOK
    <3> QED
      BY <3>2, <1>q
  <2> QED
    BY <2>2, <2>3
<1>11. ASSUME NEW w \in Workers, HandlerThrows(w) PROVE Accounted(d, f)'
  <2>1. Quiet(d, f)
    BY <1>t, <1>11 DEF HandlerThrows, Caught, TypeOK
  <2> QED
    BY <2>1, <1>q
<1>12. ASSUME NEW w \in Workers, MarkProcessed(w) PROVE Accounted(d, f)'
  <2>1. /\ pc[w] = "markProcessed" /\ pc'[w] \in {"auditDelivered", "consumers"}
        /\ \A v \in Workers : v # w => pc'[v] = pc[v]
        /\ processed' = processed \cup {<<con[w], cur[w]>>}
        /\ UNCHANGED <<status, effects, batch, cur, con, slips>>
    BY <1>t, <1>12 DEF MarkProcessed, TypeOK
  <2>2. Holding(d, f)' \subseteq Holding(d, f) \cup {w}
    BY <1>t, <2>1 DEF TypeOK
  <2>3. Running(d, f)' \subseteq Running(d, f) /\ Running(d, f) \subseteq Holding(d, f)
    BY <1>t, <2>1 DEF TypeOK
  <2>4. Allowance(d, f)' >= Allowance(d, f)
    BY <1>t, <2>1 DEF TypeOK
  <2>5. Spending(d, f)' \subseteq Spending(d, f)
    <3>1. CASE IsProcessed(d, f)'
      BY <2>3, <3>1
    <3>2. CASE ~IsProcessed(d, f)'
      <4>1. ~IsProcessed(d, f) /\ ~(con[w] = d /\ cur[w] = f)
        BY <2>1, <3>2
      <4>2. Holding(d, f)' \subseteq Holding(d, f)
        BY <1>t, <2>1, <4>1 DEF TypeOK
      <4> QED
        BY <3>2, <4>1, <4>2
    <3> QED
      BY <3>1, <3>2
  <2> HIDE DEF Holding, Spending, Allowance
  <2> QED
    BY <1>t, <1>a, <2>1, <2>2, <2>4, <2>5, AccountStays
<1>13. ASSUME NEW w \in Workers, MarkProcessedThrows(w) PROVE Accounted(d, f)'
  <2>1. /\ pc[w] = "markProcessed" /\ pc' = [pc EXCEPT ![w] = "consumers"]
        /\ slips' = [slips EXCEPT ![cur[w]] = @ + 1]
        /\ UNCHANGED <<status, processed, effects, batch, cur, con>>
    BY <1>13 DEF MarkProcessedThrows, Caught
  <2>2. CASE con[w] = d /\ cur[w] = f
    <3>1. /\ Holding(d, f)' \subseteq Holding(d, f) \cup {w}
          /\ Spending(d, f)' \subseteq Spending(d, f) \cup {w}
      BY <1>t, <2>1 DEF TypeOK
    <3>2. Allowance(d, f)' = Allowance(d, f) + 1
      BY <1>t, <2>1, <2>2 DEF TypeOK
    <3> HIDE DEF Holding, Spending, Allowance
    <3> QED
      BY <1>t, <1>a, <2>1, <3>1, <3>2, AccountGrows
  <2>3. CASE ~(con[w] = d /\ cur[w] = f)
    <3>1. Quiet(d, f)
      BY <1>t, <2>1, <2>3 DEF TypeOK
    <3> QED
      BY <3>1, <1>q
  <2> QED
    BY <2>2, <2>3
<1>14. ASSUME NEW w \in Workers, AuditDelivered(w) PROVE Accounted(d, f)'
  <2>1. Quiet(d, f)
    BY <1>t, <1>14 DEF AuditDelivered, TypeOK
  <2> QED
    BY <2>1, <1>q
<1>15. ASSUME NEW w \in Workers, AuditDeliveredThrows(w) PROVE Accounted(d, f)'
  <2>1. Quiet(d, f)
    BY <1>t, <1>15 DEF AuditDeliveredThrows, Caught, TypeOK
  <2> QED
    BY <2>1, <1>q
<1>16. ASSUME NEW w \in Workers, MarkDelivered(w) PROVE Accounted(d, f)'
  <2>1. Quiet(d, f)
    BY <1>t, <1>16 DEF MarkDelivered, RowDone, TypeOK
  <2> QED
    BY <2>1, <1>q
<1>17. ASSUME NEW w \in Workers, MarkFailed(w) PROVE Accounted(d, f)'
  <2>1. /\ pc[w] = "consumers" /\ cur[w] \in Events
        /\ pc'[w] \in {"deadLetter", "rows"}
        /\ \A v \in Workers : v # w => pc'[v] = pc[v]
        /\ \A e \in Events : e # cur[w] => status'[e] = status[e]
        /\ UNCHANGED <<processed, effects, batch, cur, con, slips>>
    BY <1>t, <1>17 DEF MarkFailed, RowDone, TypeOK, HoldsEnqueued
  <2>2. CASE cur[w] = f /\ ~IsProcessed(d, f)
    <3>1. w \in Spending(d, f) /\ Holding(d, f)' \subseteq Holding(d, f)
      BY <1>t, <2>1, <2>2 DEF TypeOK
    <3>2. Spending(d, f)' \subseteq Spending(d, f) \ {w}
      BY <1>t, <1>o, <2>1, <2>2 DEF TypeOK, HoldsOnce
    <3>3. /\ effects'[<<d, f>>] = effects[<<d, f>>]
          /\ Allowance(d, f)' >= Allowance(d, f) - 1
      BY <1>t, <2>1, <2>2 DEF TypeOK
    <3> HIDE DEF Holding, Spending, Allowance
    <3> QED
      BY <1>t, <1>a, <3>1, <3>2, <3>3, AccountShrinks
  <2>3. CASE cur[w] # f \/ IsProcessed(d, f)
    <3>1. Quiet(d, f)
      BY <1>t, <2>1, <2>3 DEF TypeOK
    <3> QED
      BY <3>1, <1>q
  <2> QED
    BY <2>2, <2>3
<1>18. ASSUME NEW w \in Workers, InsertDeadLetter(w) PROVE Accounted(d, f)'
  <2>1. Quiet(d, f)
    BY <1>t, <1>18 DEF InsertDeadLetter, TypeOK
  <2> QED
    BY <2>1, <1>q
<1>19. ASSUME NEW w \in Workers, AuditDeadLettered(w) PROVE Accounted(d, f)'
  <2>1. Quiet(d, f)
    BY <1>t, <1>19 DEF AuditDeadLettered, TypeOK
  <2> QED
    BY <2>1, <1>q
<1>20. ASSUME NEW w \in Workers, ReplayedRow(w) PROVE Accounted(d, f)'
  <2>1. Quiet(d, f)
    BY <1>t, <1>20 DEF ReplayedRow, RowDone, TypeOK
  <2> QED
    BY <2>1, <1>q
<1>21. ASSUME NEW w \in Workers, Return(w) PROVE Accounted(d, f)'
  <2>1. Quiet(d, f)
    BY <1>t, <1>21 DEF Return, Forget, TypeOK
  <2> QED
    BY <2>1, <1>q
<1>22. ASSUME NEW w \in Workers, Crash(w) PROVE Accounted(d, f)'
  <2>1. Quiet(d, f)
    BY <1>t, <1>22 DEF Crash, Forget, TypeOK
  <2> QED
    BY <2>1, <1>q
<1>23. CASE UNCHANGED vars
  <2>1. Quiet(d, f)
    BY <1>t, <1>23 DEF vars, TypeOK
  <2> QED
    BY <2>1, <1>q
<1>24. QED
  BY <1>1, <1>2, <1>3, <1>4, <1>4r, <1>5, <1>6, <1>7, <1>8, <1>9, <1>10, <1>11, <1>12, <1>13, <1>14, <1>15, <1>16, <1>17, <1>18, <1>19, <1>20, <1>21, <1>22, <1>23
  DEF Next, Produce, Work

\* Every repeated effect is paid for by a lease taken over, a replay or a lost
\* record, for any number of workers, events, failures and crashes.
THEOREM DuplicatesAreCaused == Spec => []DuplicatesHaveCauses
<1>1. Init => CauseInv
  <2> SUFFICES ASSUME Init, NEW c \in Consumers, NEW e \in Events
               PROVE  Accounted(c, e)
    BY DEF CauseInv, HoldsOnce, Init, AtRow
  <2>1. Holding(c, e) = {} /\ Spending(c, e) = {}
    BY DEF Init, Holding, Spending, AtRow, IsProcessed
  <2>2. effects[<<c, e>>] = 0 /\ Allowance(c, e) = 0
    BY DEF Init, Deliveries, Allowance, IsProcessed
  <2> QED
    BY <2>1, <2>2, FS_EmptySet DEF Accounted
<1>2. TypeOK /\ CauseInv => DuplicatesHaveCauses
  <2> SUFFICES ASSUME TypeOK, CauseInv, NEW c \in Consumers, NEW e \in Events
               PROVE  effects[<<c, e>>] <= 1 + slips[e]
    BY DEF DuplicatesHaveCauses
  <2>1. Accounted(c, e)
    BY DEF CauseInv
  <2>2. Cardinality(Spending(c, e)) \in Nat /\ effects[<<c, e>>] \in Nat
    BY <2>1, SpendersHold
  <2> QED
    BY <2>1, <2>2 DEF Accounted, Allowance, TypeOK
<1>3. QED
  BY <1>1, <1>2, CauseNext, TypeCorrect, SpecTypeOK, PTL DEF Spec
=============================================================================
