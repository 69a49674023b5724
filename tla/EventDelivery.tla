---------------------------- MODULE EventDelivery ----------------------------
(***************************************************************************)
(* The Event Platform's outbox, its delivery workers and replay            *)
(* (platform/event/domain/platform.ts over platform/event/data/pg-store.ts *)
(* and migration 0002; data/store.ts is the in-memory twin).               *)
(*                                                                         *)
(* A worker is one running call of deliverPending or replay, in one of the *)
(* processes; the consumers subscribed in a process are that process's     *)
(* own.  Every await of the code is a point where another worker, a        *)
(* producer or the clock may step in, so each store call, each consumer    *)
(* handler and each audit record is an action of its own.                  *)
(*                                                                         *)
(* An event stands for its (producer, idempotency key): the unique index   *)
(* of migration 0002 makes the two coincide.  Payload, type and version    *)
(* are frozen, so what tells events apart is who wants them.               *)
(***************************************************************************)
EXTENDS Integers, FiniteSets

CONSTANTS
  Events,        \* durable events, one per (producer, idempotency key)
  Consumers,     \* consumer names
  Processes,     \* instances of EventPlatformImpl
  Workers,       \* running calls of deliverPending / replay
  ProcessOf,     \* worker -> the process it runs in
  Wants,         \* consumer -> events its subscription's types match
  WiredAtStart,  \* process -> consumers its start subscribes
  MaxAttempts,   \* RetryPolicy.maxAttempts
  LeaseTicks,    \* RetryPolicy.leaseMs, in clock ticks
  MaxBatch,      \* deliverPending(maxBatch)
  MaxCrashes,    \* bound: calls that die half way
  MaxReplays     \* bound: calls of replay

ASSUME WantsAssumption == Wants \in [Consumers -> SUBSET Events]
ASSUME ProcessAssumption == ProcessOf \in [Workers -> Processes]
ASSUME WiredAssumption == WiredAtStart \in [Processes -> SUBSET Consumers]
ASSUME PolicyAssumption ==
  /\ MaxAttempts \in Nat \ {0}
  /\ LeaseTicks \in Nat
  /\ MaxBatch \in Nat \ {0}
ASSUME BoundsAssumption == MaxCrashes \in Nat /\ MaxReplays \in Nat

VARIABLES
  \* event_outbox
  status,        \* delivery_status; "absent" before the insert
  attempts,      \* delivery_attempts
  leaseLeft,     \* ticks until leased_until is in the past; 0 also for NULL
  deadLetters,   \* event_dead_letter
  processed,     \* consumer_processed
  \* the audit log, and what the consumers did
  audit,         \* audit entries, one per idempotency key
  effects,       \* completed handler runs per (consumer, event)
  \* the processes
  subscribed,    \* per process: `consumers`, registered with subscribe()
  emitting,      \* emits that enqueued and have not yet audited
  pc, op,        \* where a worker is, and in which call
  batch,         \* rows of the call not yet begun
  cur,           \* the row in hand
  matching,      \* the row's `matching` consumers
  todo, con,     \* consumers still to visit, and the one being visited
  failed,        \* anyFailure
  \* bookkeeping for bounds and properties
  crashes, replays,
  slips          \* per event: lapsed leases taken over, replays, lost records

outbox  == <<status, attempts, leaseLeft>>
tables  == <<status, attempts, leaseLeft, deadLetters, processed>>
local   == <<pc, op, batch, cur, matching, todo, con, failed>>
counts  == <<crashes, replays, slips>>
vars    == <<tables, audit, effects, subscribed, emitting, local, counts>>

None   == "none"
Status == {"absent", "pending", "delivering", "delivered", "dead_lettered"}
PCs    == {"idle", "rows", "consumers", "handler", "markProcessed",
           "auditDelivered", "deadLetter", "auditDeadLettered"}
Deliveries == Consumers \X Events

AuditEntries ==
  [action : {"event.enqueued", "event.dead_lettered"}, event : Events]
    \cup [action : {"event.delivered"}, event : Events, consumer : Consumers]
    \cup [action : {"event.replayed"}, nr : Nat]

TypeOK ==
  /\ status \in [Events -> Status]
  /\ attempts \in [Events -> Nat]
  /\ leaseLeft \in [Events -> 0..(LeaseTicks + 1)]
  /\ deadLetters \subseteq Events
  /\ processed \subseteq Deliveries
  /\ audit \subseteq AuditEntries
  /\ effects \in [Deliveries -> Nat]
  /\ subscribed \in [Processes -> SUBSET Consumers]
  /\ emitting \subseteq Events
  /\ pc \in [Workers -> PCs]
  /\ op \in [Workers -> {"deliver", "replay"}]
  /\ batch \in [Workers -> SUBSET Events]
  /\ cur \in [Workers -> Events \cup {None}]
  /\ matching \in [Workers -> SUBSET Consumers]
  /\ todo \in [Workers -> SUBSET Consumers]
  /\ con \in [Workers -> Consumers \cup {None}]
  /\ failed \in [Workers -> BOOLEAN]
  /\ crashes \in 0..MaxCrashes
  /\ replays \in 0..MaxReplays
  /\ slips \in [Events -> Nat]
-----------------------------------------------------------------------------
Init ==
  /\ status = [e \in Events |-> "absent"]
  /\ attempts = [e \in Events |-> 0]
  /\ leaseLeft = [e \in Events |-> 0]
  /\ deadLetters = {}
  /\ processed = {}
  /\ audit = {}
  /\ effects = [d \in Deliveries |-> 0]
  /\ subscribed = WiredAtStart
  /\ emitting = {}
  /\ pc = [w \in Workers |-> "idle"]
  /\ op = [w \in Workers |-> "deliver"]
  /\ batch = [w \in Workers |-> {}]
  /\ cur = [w \in Workers |-> None]
  /\ matching = [w \in Workers |-> {}]
  /\ todo = [w \in Workers |-> {}]
  /\ con = [w \in Workers |-> None]
  /\ failed = [w \in Workers |-> FALSE]
  /\ crashes = 0
  /\ replays = 0
  /\ slips = [e \in Events |-> 0]

Goto(w, label) == pc' = [pc EXCEPT ![w] = label]

Slip(e) == slips' = [slips EXCEPT ![e] = @ + 1]
-----------------------------------------------------------------------------
(* Producers and wiring.                                                   *)

\* emitInternal up to its first await: INSERT ... ON CONFLICT DO NOTHING.  A
\* retried emit leaves the durable row alone, and audits it again.
EmitEvent(e) ==
  /\ e \notin emitting
  /\ status' = IF status[e] = "absent"
                 THEN [status EXCEPT ![e] = "pending"] ELSE status
  /\ emitting' = emitting \cup {e}
  /\ UNCHANGED <<attempts, leaseLeft, deadLetters, processed, audit, effects,
                 subscribed, local, counts>>

\* The "transactional" audit record, which is a later call of its own.
AuditEnqueued(e) ==
  /\ e \in emitting
  /\ audit' = audit \cup {[action |-> "event.enqueued", event |-> e]}
  /\ emitting' = emitting \ {e}
  /\ UNCHANGED <<tables, effects, subscribed, local, counts>>

\* The producer dies, or its audit call throws, after the insert.
CrashEmit(e) ==
  /\ e \in emitting
  /\ crashes < MaxCrashes
  /\ emitting' = emitting \ {e}
  /\ crashes' = crashes + 1
  /\ UNCHANGED <<tables, audit, effects, subscribed, local, replays, slips>>

\* subscribe pushes a consumer onto the list of one process.
Subscribe(p, c) ==
  /\ c \notin subscribed[p]
  /\ subscribed' = [subscribed EXCEPT ![p] = @ \cup {c}]
  /\ UNCHANGED <<tables, audit, effects, emitting, local, counts>>

\* A process whose calls have all ended (each died in a Crash of its own, or
\* returned) starts anew, with the consumers that its start subscribes.
Restart(p) ==
  /\ \A w \in Workers : ProcessOf[w] = p => pc[w] = "idle"
  /\ subscribed' = [subscribed EXCEPT ![p] = WiredAtStart[p]]
  /\ UNCHANGED <<tables, audit, effects, emitting, local, counts>>

\* Date.now() advances: every lease is one tick nearer its end.
Tick ==
  /\ \E e \in Events : leaseLeft[e] > 0
  /\ leaseLeft' = [e \in Events |->
                     IF leaseLeft[e] > 0 THEN leaseLeft[e] - 1 ELSE 0]
  /\ UNCHANGED <<status, attempts, deadLetters, processed, audit, effects,
                 subscribed, emitting, local, counts>>
-----------------------------------------------------------------------------
(* Delivery.                                                               *)

\* mutants: the lease not consulted again; the
\* lease added to `now` twice.
ClaimablePendingOnly == {e \in Events : status[e] = "pending"}
LeaseTwice == 2 * LeaseTicks + 1

Claimable == {e \in Events : \/ status[e] = "pending"
                             \/ status[e] = "delivering" /\ leaseLeft[e] = 0}

\* leased_until = now + leaseMs is compared with < now.
FullLease == LeaseTicks + 1

\* deliverPending: claimPending, FOR UPDATE SKIP LOCKED, takes the oldest
\* MaxBatch claimable rows; here any MaxBatch of them, which no property needs
\* narrowed.
Claim(w) ==
  /\ pc[w] = "idle"
  /\ \E rows \in SUBSET Claimable \ {{}} :
       /\ \/ rows = Claimable /\ Cardinality(rows) <= MaxBatch
          \/ Cardinality(rows) = MaxBatch
       /\ batch' = [batch EXCEPT ![w] = rows]
       /\ status' = [e \in Events |->
                       IF e \in rows THEN "delivering" ELSE status[e]]
       /\ leaseLeft' = [e \in Events |->
                          IF e \in rows THEN FullLease ELSE leaseLeft[e]]
       /\ slips' = [e \in Events |->
                      IF e \in rows /\ status[e] = "delivering"
                        THEN slips[e] + 1 ELSE slips[e]]
  /\ op' = [op EXCEPT ![w] = "deliver"]
  /\ Goto(w, "rows")
  /\ UNCHANGED <<attempts, deadLetters, processed, audit, effects, subscribed,
                 emitting, cur, matching, todo, con, failed, crashes, replays>>

\* replay: forReplay selects rows by type, producer and time window, whatever
\* their delivery status.
Replay(w) ==
  /\ pc[w] = "idle"
  /\ replays < MaxReplays
  /\ replays' = replays + 1
  /\ \E rows \in SUBSET {e \in Events : status[e] # "absent"} :
       /\ batch' = [batch EXCEPT ![w] = rows]
       /\ slips' = [e \in Events |->
                      IF e \in rows THEN slips[e] + 1 ELSE slips[e]]
  /\ op' = [op EXCEPT ![w] = "replay"]
  /\ Goto(w, "rows")
  /\ UNCHANGED <<tables, audit, effects, subscribed, emitting, cur, matching,
                 todo, con, failed, crashes>>

\* mutant: an empty eventTypes list read as "no type" instead of "all types".
MatchingEmptyIsNone(w, e) ==
  {c \in subscribed[ProcessOf[w]] : e \in Wants[c] /\ Wants[c] # Events}

\* The consumers the worker's own process knows, whoever else wants the event.
Matching(w, e) == {c \in subscribed[ProcessOf[w]] : e \in Wants[c]}

\* The head of the row loop; RETURNING promises no order within a batch.
BeginRow(w) ==
  /\ pc[w] = "rows"
  /\ \E e \in batch[w] :
       /\ cur' = [cur EXCEPT ![w] = e]
       /\ batch' = [batch EXCEPT ![w] = @ \ {e}]
       /\ matching' = [matching EXCEPT ![w] = Matching(w, e)]
       /\ todo' = [todo EXCEPT ![w] = Matching(w, e)]
  /\ failed' = [failed EXCEPT ![w] = FALSE]
  /\ Goto(w, "consumers")
  /\ UNCHANGED <<tables, audit, effects, subscribed, emitting, op, con, counts>>

\* mutant: the synchronous contract helper isAlreadyProcessed used instead.
NeverProcessed(c, e) == FALSE

IsProcessed(c, e) == <<c, e>> \in processed

\* isProcessed for the next consumer: skip it, or go on to its handler.
Dedup(w) ==
  /\ pc[w] = "consumers"
  /\ \E c \in todo[w] :
       /\ todo' = [todo EXCEPT ![w] = @ \ {c}]
       /\ IF IsProcessed(c, cur[w])
            THEN UNCHANGED <<pc, con>>
            ELSE con' = [con EXCEPT ![w] = c] /\ Goto(w, "handler")
  /\ UNCHANGED <<tables, audit, effects, subscribed, emitting, op, batch, cur,
                 matching, failed, counts>>

\* The consumer's handler returns ...
HandlerOk(w) ==
  /\ pc[w] = "handler"
  /\ effects' = [effects EXCEPT ![<<con[w], cur[w]>>] = @ + 1]
  /\ Goto(w, "markProcessed")
  /\ UNCHANGED <<tables, audit, subscribed, emitting, op, batch, cur, matching,
                 todo, con, failed, counts>>

\* The catch of the consumer loop: anyFailure, on to the next consumer.
Caught(w) ==
  /\ failed' = [failed EXCEPT ![w] = TRUE]
  /\ Goto(w, "consumers")
  /\ UNCHANGED <<tables, audit, effects, subscribed, emitting, op, batch, cur,
                 matching, todo, con, crashes, replays>>

\* mutant: the record written in a `finally`, for a handler that threw too.
HandlerThrowsRecorded(w) ==
  /\ pc[w] = "handler"
  /\ Goto(w, "markProcessed")
  /\ UNCHANGED <<tables, audit, effects, subscribed, emitting, op, batch, cur,
                 matching, todo, con, failed, counts>>

\* ... or throws.
HandlerThrows(w) == pc[w] = "handler" /\ Caught(w) /\ UNCHANGED slips

\* markProcessed; replay writes no "event.delivered" entry.
MarkProcessed(w) ==
  /\ pc[w] = "markProcessed"
  /\ processed' = processed \cup {<<con[w], cur[w]>>}
  /\ Goto(w, IF op[w] = "deliver" THEN "auditDelivered" ELSE "consumers")
  /\ UNCHANGED <<outbox, deadLetters, audit, effects, subscribed, emitting, op,
                 batch, cur, matching, todo, con, failed, counts>>

MarkProcessedThrows(w) == pc[w] = "markProcessed" /\ Caught(w) /\ Slip(cur[w])

AuditDelivered(w) ==
  /\ pc[w] = "auditDelivered"
  /\ audit' = audit \cup {[action |-> "event.delivered", event |-> cur[w],
                           consumer |-> con[w]]}
  /\ Goto(w, "consumers")
  /\ UNCHANGED <<tables, effects, subscribed, emitting, op, batch, cur,
                 matching, todo, con, failed, counts>>

AuditDeliveredThrows(w) ==
  pc[w] = "auditDelivered" /\ Caught(w) /\ UNCHANGED slips

\* mutant: attempts compared with > instead of >=.
ExhaustedLate(e) == attempts[e] + 1 > MaxAttempts

AnyFailure(w) == failed[w]

Exhausted(e) == attempts[e] + 1 >= MaxAttempts

RowDone(w) == pc[w] = "consumers" /\ todo[w] = {}

\* UPDATE event_outbox by event_id alone: no check that the row is still
\* "delivering", nor that the lease is this worker's.
MarkDelivered(w) ==
  /\ RowDone(w) /\ op[w] = "deliver" /\ ~AnyFailure(w)
  /\ status' = [status EXCEPT ![cur[w]] = "delivered"]
  /\ leaseLeft' = [leaseLeft EXCEPT ![cur[w]] = 0]
  /\ Goto(w, "rows")
  /\ UNCHANGED <<attempts, deadLetters, processed, audit, effects, subscribed,
                 emitting, op, batch, cur, matching, todo, con, failed, counts>>

\* The first statement of markFailed, again by event_id alone.
MarkFailed(w) ==
  /\ RowDone(w) /\ op[w] = "deliver" /\ AnyFailure(w)
  /\ LET exhausted == Exhausted(cur[w]) IN
       /\ status' = [status EXCEPT ![cur[w]] =
                       IF exhausted THEN "dead_lettered" ELSE "pending"]
       /\ Goto(w, IF exhausted THEN "deadLetter" ELSE "rows")
  /\ attempts' = [attempts EXCEPT ![cur[w]] = @ + 1]
  /\ leaseLeft' = [leaseLeft EXCEPT ![cur[w]] = 0]
  /\ UNCHANGED <<deadLetters, processed, audit, effects, subscribed, emitting,
                 op, batch, cur, matching, todo, con, failed, counts>>

\* mutant: the caller audits a dead letter that nobody inserted.
InsertDeadLetterSkipped(w) ==
  /\ pc[w] = "deadLetter"
  /\ Goto(w, "auditDeadLettered")
  /\ UNCHANGED <<tables, audit, effects, subscribed, emitting, op, batch, cur,
                 matching, todo, con, failed, counts>>

\* Its second statement: INSERT INTO event_dead_letter ON CONFLICT DO NOTHING.
InsertDeadLetter(w) ==
  /\ pc[w] = "deadLetter"
  /\ deadLetters' = deadLetters \cup {cur[w]}
  /\ Goto(w, "auditDeadLettered")
  /\ UNCHANGED <<outbox, processed, audit, effects, subscribed, emitting, op,
                 batch, cur, matching, todo, con, failed, counts>>

AuditDeadLettered(w) ==
  /\ pc[w] = "auditDeadLettered"
  /\ audit' = audit \cup {[action |-> "event.dead_lettered", event |-> cur[w]]}
  /\ Goto(w, "rows")
  /\ UNCHANGED <<tables, effects, subscribed, emitting, op, batch, cur,
                 matching, todo, con, failed, counts>>

\* A replayed row is not settled: its delivery status stays as it is.
ReplayedRow(w) ==
  /\ RowDone(w) /\ op[w] = "replay"
  /\ Goto(w, "rows")
  /\ UNCHANGED <<tables, audit, effects, subscribed, emitting, op, batch, cur,
                 matching, todo, con, failed, counts>>

\* What a call leaves behind when it ends: nothing in memory.
Forget(w) ==
  /\ Goto(w, "idle")
  /\ batch' = [batch EXCEPT ![w] = {}]
  /\ cur' = [cur EXCEPT ![w] = None]
  /\ matching' = [matching EXCEPT ![w] = {}]
  /\ todo' = [todo EXCEPT ![w] = {}]
  /\ con' = [con EXCEPT ![w] = None]
  /\ failed' = [failed EXCEPT ![w] = FALSE]
  /\ UNCHANGED op

\* The call returns; replay audits itself, under a fresh key, first.
Return(w) ==
  /\ pc[w] = "rows" /\ batch[w] = {}
  /\ IF op[w] = "deliver"
       THEN UNCHANGED audit
       ELSE \E entry \in [action : {"event.replayed"}, nr : 1..MaxReplays] :
              entry \notin audit /\ audit' = audit \cup {entry}
  /\ Forget(w)
  /\ UNCHANGED <<tables, effects, subscribed, emitting, counts>>

\* The process dies, or a store or audit call outside the try throws: the rest
\* of the batch keeps its lease.  An effect not yet recorded is lost to de-dup.
Crash(w) ==
  /\ pc[w] # "idle"
  /\ crashes < MaxCrashes
  /\ crashes' = crashes + 1
  /\ Forget(w)
  /\ IF pc[w] = "markProcessed" THEN Slip(cur[w]) ELSE UNCHANGED slips
  /\ UNCHANGED <<tables, audit, effects, subscribed, emitting, replays>>
-----------------------------------------------------------------------------
\* A step of a call that is under way.
Work(w) ==
  \/ BeginRow(w) \/ Dedup(w)
  \/ HandlerOk(w) \/ HandlerThrows(w)
  \/ MarkProcessed(w) \/ MarkProcessedThrows(w)
  \/ AuditDelivered(w) \/ AuditDeliveredThrows(w)
  \/ MarkDelivered(w) \/ MarkFailed(w)
  \/ InsertDeadLetter(w) \/ AuditDeadLettered(w)
  \/ ReplayedRow(w) \/ Return(w)

Produce(e) == EmitEvent(e) \/ AuditEnqueued(e) \/ CrashEmit(e)

Next ==
  \/ \E e \in Events : Produce(e)
  \/ \E p \in Processes : Restart(p) \/ \E c \in Consumers : Subscribe(p, c)
  \/ Tick
  \/ \E w \in Workers : Claim(w) \/ Replay(w) \/ Work(w) \/ Crash(w)

Spec == Init /\ [][Next]_vars

\* The delivery loop keeps calling deliverPending, a call under way keeps
\* running (handlers return or throw), and the clock advances.
Fairness ==
  /\ \A w \in Workers : WF_vars(Claim(w)) /\ WF_vars(Work(w))
  /\ WF_vars(Tick)

FairSpec == Spec /\ Fairness
-----------------------------------------------------------------------------
(* What the design promises.                                               *)

\* A row that can still be claimed has attempts left: neither a late failure
\* nor a late success of a worker whose lease lapsed (markFailed and
\* markDelivered go by event_id alone) puts an exhausted event back to work.
ClaimableHasAttempts ==
  \A e \in Events :
    status[e] \in {"pending", "delivering"} => attempts[e] < MaxAttempts

\* What every process subscribes at its start.  A consumer that some process
\* lacks is passed over when that process happens to claim the event.
WiredEverywhere ==
  {c \in Consumers : \A p \in Processes : c \in WiredAtStart[p]}

\* At-least-once: a row says "delivered" only when every consumer that every
\* process wires at its start and that wants the event has run its handler to
\* the end and is on record for it, whichever workers, of processes that know
\* different consumers, did what share of the work.
DeliveredReachedEveryone ==
  \A e \in Events, c \in WiredEverywhere :
    status[e] = "delivered" /\ e \in Wants[c]
      => <<c, e>> \in processed /\ effects[<<c, e>>] > 0

\* De-dup never hides work that was not done: a consumer on record as having
\* processed an event (consumer_processed) has run its handler to the end.
ProcessedHasEffect == \A d \in processed : effects[d] > 0

\* The audit log claims nothing that did not happen: an event reported
\* enqueued is in the outbox, a delivery reported is on record as processed,
\* an event reported dead-lettered has its event_dead_letter row.
AuditTellsTruth ==
  \A a \in audit :
    /\ a.action = "event.enqueued" => status[a.event] # "absent"
    /\ a.action = "event.delivered" => <<a.consumer, a.event>> \in processed
    /\ a.action = "event.dead_lettered" => a.event \in deadLetters

\* A dead letter is an event whose attempts were used up.
DeadLetterIsExhausted == \A e \in deadLetters : attempts[e] >= MaxAttempts

\* Every repeated effect has a cause: the handler of one consumer runs to the
\* end for one event at most once, plus once for each lapsed lease taken over,
\* replay of the event, and effect whose record was lost.
DuplicatesHaveCauses ==
  \A c \in Consumers, e \in Events : effects[<<c, e>>] <= 1 + slips[e]

\* An event once enqueued is settled, delivered or dead-lettered, and in the
\* end stays so, through crashed workers and late ones.
EventuallySettled ==
  \A e \in Events :
    (status[e] = "pending") ~> [](status[e] \in {"delivered", "dead_lettered"})

\* The delivery ledger this design implements: workers, leases and batches are
\* gone, "pending" and "delivering" are one open state.
Ledger == INSTANCE DeliveryLedger WITH
  accepted  <- {e \in Events : status[e] # "absent"},
  ran       <- effects,
  confirmed <- processed,
  outcome   <- [e \in Events |->
                  IF status[e] \in {"delivered", "dead_lettered"}
                    THEN status[e] ELSE "open"],
  spent     <- {e \in Events : attempts[e] >= MaxAttempts}

\* Every step of the platform is a step of the ledger, or changes nothing the
\* ledger sees: at-least-once, no confirmation without an effect, no delivery
\* short of a consumer wired everywhere, and no event whose attempts are used
\* up is ever open to be claimed again.  (Replay and a late worker may still
\* run handlers for a dead-lettered event, and a late worker may turn it
\* "delivered": the ledger lets them.)
ImplementsLedger == Ledger!Spec
=============================================================================
