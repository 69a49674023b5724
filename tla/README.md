# Formal model of the DSUSA platform services

TLA+ specifications of the platform services and the web application in this
repository, TLC configurations that check them on small instances, and TLAPS proofs about them
for every instance. Paths below are relative to the repository root.

## 1. The system

Five platform services (`platform/*`), each a domain class behind an edge that
gates calls by role, over a store port with an in-memory twin (tests) and a
Postgres adapter (production), share four libraries (`libs/*`) and the contracts
in `contracts/src`. The services run as Node processes: one thread each, but
every `await` lets another call of the same process in, and several processes
share one database.

| Component | State | Operations | Who calls whom |
|---|---|---|---|
| Event Platform | `event_outbox` (status, attempts, lease), `event_dead_letter`, `consumer_processed`; subscriptions in memory | declareOutcome, emitEvent, subscribe, deliverPending, replay | calls consumers' handlers and the audit sink |
| Workflow Service | `workflow_execution` rows, `workflow_definition`; `inFlight` and `pauseRequests` in memory | registerWorkflow, start, resume, pause, replay | calls step handlers, rollback hooks and the audit sink |
| Authorization Service | capabilities and providers in memory, the decision log | defineCapability, registerFactProvider, isAuthorized, reproduceDecision | awaits fact providers, then audits, then logs |
| Rules Engine | immutable rule sets behind a write-behind cache, the evaluation log | registerRuleSet, evaluate, replay | audits, then logs |
| Audit Service | append-only entries, one per (component, idempotency key) | record, recordBatch, queryAudit | called by all the others; a query audits itself |
| auth-kit, idempotency-kit, audit-kit | registered principals; stored results; in-memory entries | role gates; `idempotent`; sinks | called by edges and services |
| Web application | a mock provider with entrepreneurs, stage machines for funding, vehicles and loads; routes and timers of the screens | submit, review, plan, accept, advance | React screens call the provider; Presentation Mode drives the routes |

Hard to test, and what this project is for:

* **Delivery.** A worker's lease lapses under it and its late outcome overwrites
  that of the worker that took over; a process dies between an effect and the
  record of it, or between two statements the documents call atomic; a replay
  runs through a delivery; one consumer of several fails; audit calls reject.
* **Execution.** A resume overlaps the start that is still driving, or another
  process; each drive writes whole snapshots of a copy it read long ago; handlers,
  hooks, the store and the audit reject or the process dies at any await, also in
  the middle of compensation; pause requests race the last step and the resume
  that deletes them.
* **Decisions.** Facts are read one await at a time against a clock read once, while
  producers publish, providers are replaced and capabilities redefined; a provider's
  answer races its timeout; the audit has a decision the log refuses.
* **Registries and logs.** A registry answers from a cache whose insert nobody awaited
  and which another process may have lost to; a batch is written one await at a time
  between other callers; a page boundary is cut from an order that is not numeric.
* **Screens.** A review or a plan ends after its screen was left; screens offer what
  they read when they were opened; the provider they call refuses almost nothing.

`PROJECT.json` lists every hazard at its line, with the properties that would catch it.

What makes each component correct:

* Event Platform: at-least-once delivery to every consumer that all processes
  wire, no record of work not done, bounded attempts (an event whose attempts are
  used up is never claimable again), no event left unsettled; repeated effects only
  for a nameable cause. Giving up is not the end of all work: a replay, or a worker
  that outlived its lease, still runs handlers for a dead-lettered event, and such a
  worker may turn it `delivered`.
* Workflow Service: steps in dependency order whoever drives; recorded steps never
  re-run, terminal rows final and rollback in reverse as long as no two drives overlap;
  a failed execution never called completed, every execution comes to rest. The code
  breaks the second once drives overlap and the third outright, see section 4.
* Authorization Service: fail closed at every exit, all recorded facts of a type from
  one producer, every answer on record and reproducible by the definition it began
  with, hence by its version unless that was defined twice. Rules Engine: first rule wins,
  replay matches, versions immutable, every evaluation audited before it is logged.
  Audit Service: batches whole or refused, one entry per key, paging misses nothing.
* Edges: an operation is served only to a role held at that moment; a plan that starts
  can be ordered; all emissions under one key that are answered with an event are
  answered with the same one, the one that is stored and audited (a retry may instead
  be refused, its mapping being inactive by then, or be told of an error).
* Web application: an operating business has a plan and a ready vehicle, a partner has
  one record per name and counts those it added, a load has one hauler. That is less
  than "an applicant counts once", which the code does not do: Maria (section 4).

## 2. Modules

| Module | What it is |
|---|---|
| `EventDelivery` | Outbox, claim and lease, delivery loop, de-dup, retry, dead letters, replay, emit, crash |
| `DeliveryLedger` | What event delivery promises, with no workers, leases or batches |
| `WorkflowEngine` | One execution: start, resume, pause, drive, retry, compensate, throw, crash |
| `ExecutionSaga` | What one execution promises, with no calls, copies or rows |
| `Authorization` | Decisions, fact by fact, against changing facts, providers, capabilities and clock |
| `VersionRegistry` | The write-behind registry of versions that rules and workflow definitions share |
| `RulesEngine` | Evaluations over such a registry: audit, log, dry run, replay, restart |
| `RuleEval` | The rule interpreter and validator, as operators |
| `InterpretedRules` | `RulesEngine` with that interpreter, and what the two promise together |
| `RoleGate` | auth-kit's registrations and the role gates of all edges |
| `WorkflowPlan` | `validateWorkflow` and `topoOrder`, as operators |
| `Edges` | Event and workflow edges: gate, mapping, idempotency key, registration, start (composes `RoleGate` and `WorkflowPlan`) |
| `AuditLog` | The audit store, batches, gated and self-audited paging (composes `RoleGate`) |
| `Journey` | The web application's provider |
| `Screens` | Screens, routes, timers and Presentation Mode over `Journey` |
| `MC...` | Instances for TLC of the module named after `MC` |
| `...Proofs` | Theorems about the module named before `Proofs` (`RulesEngineProofs` is also about `VersionRegistry`, `RuleEval` and `InterpretedRules`, `AuditLogProofs` and `EdgesProofs` are also about `RoleGate`, `ScreensProofs` is also about `Journey`) |

Each specification names in a comment the source file it is taken from, and
`PROJECT.json` maps each definition to the lines it stands for. Definitions marked
"not the code", "mutants" or "Defective form" are not part of the specification: each is
a bug the definition after it could have had, kept to show that a property notices it.

### EventDelivery

A worker is one running call of `deliverPending` or `replay` in the process `ProcessOf`
gives it; its program counter stands at the await it is in. `subscribed` is each
process's own list of consumers: `Subscribe` adds to one of them, `Restart` brings it
back to what the process wires at its start. `status`, `attempts` and `leaseLeft`
are the outbox row, `deadLetters` and `processed` the other two tables, `effects`
counts completed handler runs, `audit` holds one entry per idempotency key.

* `Claim` is the one UPDATE ... RETURNING that leases a batch; `Replay` the select
  of `forReplay`. `BeginRow` computes `matching` from what the worker's process has
  subscribed at that moment, `Dedup` is `isProcessed`, `HandlerOk`/`HandlerThrows` the handler,
  `MarkProcessed` and `AuditDelivered` (or their failure, `Caught`) what follows it.
* `MarkDelivered`, `MarkFailed` and `InsertDeadLetter` are separate statements and
  separate actions, as in `pg-store.ts`; they go by event id and do not look at the
  lease, so a worker that has lost its lease still takes them.
* `Tick` lets leases run out; `Crash` ends a call between any two awaits, `CrashEmit`
  a producer between the outbox insert and its audit record.
* `slips` is bookkeeping: per event, how often a lapsed lease was taken over, a
  replay began, or an effect's record was lost.

Abstracted: payload, type and version (frozen, so events differ only in who wants
them), attempt timestamps, the order of rows in a batch. One subscription per
consumer name. External: the consumers' handlers, which may succeed or throw.

### WorkflowEngine

A call is one running `start` or `resume` in the process `HostOf` gives it. `rec` is
the row; `my[c]` the copy a call drives from; `saving[c]` the state its current
`persist` writes. `pauseReq` is `pauseRequests` of each process. `inFlight` is the
operator `InFlight`: it holds exactly while a resume of that process is under way.
Steps are numbered in the order of `topoOrder`, so "dependencies first" becomes the
stronger "every earlier step first".

* `Start` is the INSERT ... ON CONFLICT, `Select` the SELECT after it, two statements
  of `createIfAbsent`; a duplicate start finds the key taken and changes nothing. A
  second resume in a process joins the first and changes nothing.
* `PauseHere`, `RunStep` and `Finish` are the three ways on from the head of the
  loop; `HandlerOk`, `HandlerRetry` and `HandlerFail` the three answers (the last
  also stands for a retry on the last attempt). `Save` writes the whole copy
  unconditionally, as the UPDATE does, and goes on where the code does.
* `Compensate` runs the hook of the last completed step that has one registered in
  this process; the row learns of it only with the final save.
* `Throws` is a rejecting await, at any point; nothing in the engine catches it.
  `Crash` ends every call of a process and empties its memory. `LoadUnregistered` is
  a process that has not loaded the definition.
* `overlaps` counts the resumes that came in while `start` or another process was
  driving. None is what the comments at `engine.ts:47-50` and `:151-152` take for
  granted; `RerunsNeedOverlap`, `TerminalIsFinal` and `UndoneInReverse` hold until the
  first, `DependenciesFirst` whatever overlaps.

Abstracted: step outputs, explanations, timestamps; one execution, one definition.
`runs` and `undone` count the effects of handlers and hooks.

### Authorization

A decision is one running call of `isAuthorized`. `IsAuthorized` reads the capability
and the clock, `Proceed` goes through the list of required facts, in order and with
repetitions, to the next await. A provider that was asked reads the fact at a moment of
its own (`ProviderReads`); `Answer` brings what it read to the decision, or nowhere if
the race of `withTimeout` is over; `FactFails` is the timer or a rejecting provider, which
share one catch. What a provider reads after the race was lost is left out: nobody looks
at it. `RecordAudit` and `AppendLog` are the
two awaits of `finalize`, `Rejects` either of them failing. Between any two of these
`Publish` changes a fact, `Tick` the clock, `DefineCapability` and
`RegisterFactProvider` the service's maps: a definition may replace another of the same
version (`installed` remembers them all, `Forked` names such versions), a provider another
of the same producer, also while that one is being read. A fact carries the revision at
which it was published, so that "not older than the request" can be said, and the producer
it came from.

### VersionRegistry, RulesEngine, RuleEval

`Put` fills the cache of one process and leaves the insert in flight; `InsertLands`
brings it to the table in any order, where the row that is there wins; `LoadSelect` and
`LoadFill` are `load()` before and after its await. `RulesEngine` adds evaluations
(`Begin`, `RecordAudit`, `AppendLog` or `AppendRefused` by the foreign key) and
`Restart`. Its operators `Evaluate` and `Valid` are anything in the module itself;
`InterpretedRules` makes `Evaluate` that of `RuleEval`, and the runs both. `RuleEval`
keeps JavaScript's comparison of mixed types and the exception a missing input raises.
Its interpreter and validator are recursive functions on the expressions of all rule
sets; `Levels` lists these so that each comes after its parts, as finite trees allow.

### RoleGate, WorkflowPlan, Edges, AuditLog

`RoleGate` has the operation-to-roles table of every edge and answers by what is
registered at that moment. `Edges` handles a request in one step up to the first await.
For `registerWorkflow` and `start` that answers it; an emission goes on: `Enqueue` is the
insert and the row it finds, `RecordEnqueued` the audit entry and the answer, `EmitFails`
either await rejecting, its work done or not. `emitting` holds the emissions under way,
`audited` the events with an entry, `told` what callers were given. Operations whose services have modules of their own
(`Elsewhere`) are answered by the gate alone. `assertAcyclic` and `topoOrder` are written
as the code has them, as a depth-first search with gray and black steps (`visit`) and as
rounds that each take the first ready step (`Extended`), both by way of recursive
functions, so that they can be proved about. `AuditLog` numbers entries as the store does;
`TextBefore` is the comparison of ids as text, in which `audit-10` comes before
`audit-9`, for any number of digits. A batch is inserted one entry a step; a reader is
recorded, then reads. A call of `queryAudit` that passes no reader (`Unnamed`) meets no
gate and leaves no entry, as in the code; its reads are steps of their own, though the code
has no await between. Filters pick by entity type, which stands for the fields of
`AuditQueryFilter`.

### Journey, Screens

A method of the provider is one action of `Journey`; `Screens` says when a screen calls
it. `route`, `shown` and `listed` are the open location and what it shows; `pending`
holds the timers. A handler whose awaits are only of provider methods is one step:
resolved promises are continued before the next click or timer. The two pauses (a review
of 1400 ms, a plan of 1200 ms) are timers that fire in the order in which they can end.
`Open` is navigation with the mount effects of the screen that opens. One user, one
page. The seven screens that show constants are the page "stakeholders".

## 3. Runs

With two TLC workers every run ends within four minutes.

| Run | Instance | Shows |
|---|---|---|
| `delivery_leases` | 1 event, 1 consumer wired from the start, 2 workers, 2 attempts, 1 crash, 1 replay, fair | No exhausted event is claimed again, the audit claims nothing the tables do not hold, repeated effects have causes, the ledger is implemented, and every event is settled in the end, all while leases lapse |
| `delivery_wiring` | 1 event, 2 consumers, 2 workers in 2 processes of which only one wires the second consumer at its start, lapsing leases, 1 crash, restarts | Delivered means every consumer wired everywhere was reached, whichever process settled the event, and however late the others subscribe |
| `workflow_saga` | 4 steps, 1 process, 2 calls, 3 resumes, fair | The saga is implemented: each step once and in order, rollback complete and in reverse; the audit tells the same story; the execution comes to rest |
| `workflow_faults` | 3 steps, 2 processes, 3 calls, 3 resumes of which 1 overlaps another drive, 1 throw, 1 crash, hooks in one process only | The order of steps, also while two calls drive from copies of different age; until they do, recorded steps never re-run, terminal rows final, rollback in reverse |
| `authz_decisions` | 2 decisions, 2 facts, 2 producers with 4 providers, 3 definitions (two under one version, one of them with a fact listed twice), 2 changes, 1 fault, fair | An allow was earned by facts fresh when the clock was read; a fact revoked before the request is seen; answers are on record, reproducible by the definition they began with and by their version unless it was forked; a verdict is not turned around; all facts of a type come from one producer; every decision ends |
| `rules_shared` | 2 processes, 2 versions, 2 puts, 1 restart, 5 rule sets | Logged is audited; replay matches unless the processes hold different definitions; the first matching rule decides; a refusal is for want of an input; rows are immutable |
| `edges` | 1 definition that is well named and 2 that are not, the plans of up to 3 steps, 1 principal under both name spaces, 2 requests, 3 changes of wiring | Only a role held at that moment is served; what starts can be ordered; emissions under one key are answered with one event, also when audits fail, awaits interleave and the mapping changes |
| `audit_trail` | 8 entries to begin with, 2 callers, readers with, without and outside a role or unnamed, pages of 5, a clock of two values | Paging misses nothing that was there; batches are whole or refused |
| `journey` | 3 entrepreneurs (one still to come), 2 partners, 3 loads, 8 calls, 2 timers | Operating businesses are equipped, a partner records and counts nobody it added twice, a load has one hauler, in every order of clicks, timers and Presentation Mode |
| `overlap_reruns` | 2 steps, 1 overlapping resume | violation: "completed steps are never re-run" |
| `failed_completes` | 2 steps, 1 throw | violation: "Step failed ... -> compensate completed steps, mark failed" |
| `rules_unrecorded` | 1 process, 1 version | violation: "Every evaluation is fully recorded" |

**Bounds.** `delivery_wiring` takes one row at a time: that the outcome of a row does not
leak into the next one of its batch is left to the proofs, which hold for any `MaxBatch`.
Two workers are enough for every take-over (a third would only repeat the
second's part); one tick of lease separates "held" from "lapsed"; two attempts separate
"tried again" from "given up". In the engine four steps give rollback an order to get
wrong and a step without a hook (the last one); the first step may be retried once;
three resumes allow a resume after a resume that was itself cut short, and one overlap
already sets two drives against each other. `workflow_faults` compares states by a VIEW
that leaves out what a call no longer reads (`WhatIsRead`). Two facts make a
decision that reads one before and one after a change, two changes allow a revocation and
a redefinition. Two processes and two puts let two inserts of one version race. Eight
entries bring the ids 9 and 10, where the textual order turns, into the run. Plans of
three steps contain every cycle up to length three, a missing dependency, a repeated id.
Eight calls tell the whole story from submission to an operating business; by way of
Presentation Mode five suffice, which leaves three for a plan generated again or a late
review. A load is hauled, paid and followed by the next in six. `MaxCrashes`, `MaxReplays`,
`MaxResumes`, `MaxOverlaps`, `MaxThrows`, `MaxChanges`, `MaxFaults`, `MaxPuts`, `MaxRestarts`,
`MaxGrants`, `MaxRequests`, `MaxWiring`, `MaxClock`, `MaxCalls` and `MaxPending` are the
only bounds in guards: they bound the environment (who calls, what fails), not what the
code does on its own, except `MaxCalls` and `MaxPending`, which also hold back a timer or
the opening of business creation once the bound is reached. Passing runs check deadlock,
except `edges`, which ends when its requests are used up.

**Symmetry** is used where two calls or processes are interchangeable and no liveness is
checked: `workflow_faults` (the two calls of one process), `rules_shared` (the processes).

**Fairness.** `EventDelivery`'s `FairSpec` assumes that the delivery loop keeps calling
`deliverPending`, that a call under way goes on (handlers return or throw), and that time
passes: `interface/edge.ts:6` has a background worker that invokes `deliverPending` out
of band. `WorkflowEngine`'s assumes only that a process goes on with a call it has begun
and that handlers, hooks, the store and the audit answer. Nobody is bound to resume or
pause. `Authorization`'s assumes that a decision goes on: the provider's await ends,
because `withTimeout` ends it, and the audit and the log answer or reject. No fairness is
put on the outcome of a handler, of a provider, or on anything outside.

## 4. Where the code and its documents disagree

`PROJECT.json` quotes these in "findings".

* **Resume during start** (`overlap_reruns`). `start` drives without an `inFlight`
  entry and `save` has no condition on the row, so a resume that arrives meanwhile
  runs recorded steps again, and the slower of the two also overwrites a terminal row.
* **Failed executions that complete** (`failed_completes`). A rollback cut short leaves
  `compensating` with nothing pending; `resume` takes the empty list for success and
  stores `completed`.
* **Evaluations without a record** (`rules_unrecorded`). The evaluation is audited; its
  log row refers to a rule set whose insert nobody awaited, and is refused if it comes
  first.

Seen while modelling, without a run of their own.

*Events.* "Exactly-once EFFECT" is not what a crash between a handler and `markProcessed`
leaves (`DuplicatesHaveCauses` says what holds). `markFailed` is called atomic but is two
statements; a crash between them loses the dead letter (`AuditTellsTruth` allows for it).
Two subscriptions under one consumer name share a de-dup key. A retry of an outcome is
refused as unmapped once its mapping is inactive, though the event of the first
declaration stands. A producer may be told of an error though its event is stored, and
even audited. A process that lacks a consumer, or where it subscribes late, marks an event
delivered without it. A replay or a late worker runs handlers of an event that was given
up, and the late worker may turn it `delivered`.

*Workflows.* A step is run a second time after a crash between handler and save. A hook
that is not registered where compensation runs is skipped in silence. A crash between
`createIfAbsent` and the audit record leaves a start that is never audited. The state
`failed` of the contract is never stored.

*Other services.* A fact dated in the future has a negative age and passes as fresh. A
denial because the capability is inactive records version 0. `defineCapability` stores
another definition under a version already used, so that `reproduceDecision`, which compares
versions only, may recompose a decision by a definition it was not made with, though its
comment (`authorization/domain/service.ts:223-227`) says that the recorded facts yield the
same answer. "Pure + total" (`rules/domain/evaluator.ts:54`) is not so: besides malformed
rules a comparison with a missing input throws. `queryAudit` without a reader is served
ungated and leaves no trace of itself. Nothing calls `load()` of the
registries. Two reads of one correlation id in the same millisecond share one self-audit
entry. The audit edge's `record` and `recordBatch` pass no gate, though its comment has
writers authenticate as service identities, and entries of a batch carry no audit class.

*Web application.* `components/ui.tsx` is, at this commit, a copy of
`EntrepreneurDashboard.tsx` and exports none of the components the screens import; the
screens are modelled as they are written. Going back to business creation (for instance
with Presentation Mode's "previous") generates the plan again and starts an operating
business over, though `App.tsx:4` has every route advance the story. Presentation Mode
reaches a created business without a qualification. Dashboards of other partners always
offer to submit Maria, and a submission there makes her a second entrepreneur, which that
partner counts; her submission at Defy, where she is seeded as a prospect not yet submitted
(`mock.ts:27`), finds her by name and is never counted. A review that ends late leaves the stage "qualified" beside a
vehicle that is ready. The load under way is one for all entrepreneurs. "Restart the
demonstration" only navigates.

## 5. Proofs

All theorems hold for every value of the constants that satisfies the named
assumptions in the modules, which TLC evaluates in every run. Every proof is layered:
types first, then one inductive invariant per concern, one step per action, each using
the layers below it. Every inductive invariant was an invariant of a run before it was
proved.

| Assumption | Says | Because |
|---|---|---|
| `PolicyAssumption`, `BoundsAssumption`, those of `WorkflowEngine` | attempts, batches and leases are numbers, steps are counted, bounds are numbers | defaults and options of the services |
| `SentinelAssumption`, `AbsenceAssumption` | a fact not read, a provider not there, a date that does not parse are none | the maps answer `undefined`, `Date.parse` NaN |
| `CapabilityAssumption`, `WiringAssumption`, `LimitAssumption` | a definition lists fact types and has a version number, a provider reports one fact type for one producer, ceilings are numbers | `contracts/src/authorization.ts`; several definitions may share a version |
| `LogAssumption` | a page has a size, a batch is finite and not empty, new keys are not old ones | an empty batch is answered at once |
| `SeededAssumption` | the entrepreneurs the demonstration begins with are well formed and do not share applications | `data/mock.ts` |
| `GrantAssumption`, `KindsAssumption` | roles granted are roles, actor types are those of `libs/types` | the tables' CHECKs and the types |
| `LevelsAssumption`, `RuleSetsAssumption` | an expression is a finite tree of the seven kinds whose literals are comparable; a rule set is a finite list of rules with such conditions | the types `Expr`, `Rule` and `RuleSet` in `contracts/src/rules.ts` |
| `InterpreterAssumption` | the engine evaluates with `pureEvaluate`, and a malformed rule is what that throws | `engine.ts`; only the two theorems about what the interpreter answers use it |
| `PlansAssumption` | a plan is a finite sequence of steps | it is a JSON array |

### Event Platform: `EventDeliveryProofs`

* `SpecTypeOK`. `TypeInv` adds that whatever a worker holds is in the outbox.
* `ExhaustedNeverClaimed` (`ClaimableHasAttempts`). The invariant
  `UnsettledHasAttempts` carries it through late `markFailed` and `markDelivered`.
* `AtLeastOnce` (`DeliveredReachedEveryone`). `DeliveryInv` relates each worker's
  `todo`, `failed` and `matching` to `processed`: a consumer no longer in `todo` is
  either on record or the row has failed. Without it `MarkDelivered` cannot be justified.
* `AuditIsTrue` (`AuditTellsTruth`). `AuditInv` says at which program counters the
  fact an entry will claim already holds.
* `DuplicatesAreCaused` (`DuplicatesHaveCauses`). An account, per consumer and event.
  The first delivery and each slip allow for one run (`Allowance`). A run is spent when
  the handler completes (`effects`) and already when a worker may still run it
  (`Spending`: before the de-dup record exists that is every worker that has the row in
  hand or in its batch, `Holding`; after, only those past the de-dup check, `Running`).
  `CauseInv`: no more is spent than allowed. Each action moves at most one worker in or
  out (`AccountGrows`, `AccountShrinks`, `AccountStays`).
* `Implements` (`ImplementsLedger`). Each action is a step of the ledger or leaves its
  variables alone.

### Workflow Service: `WorkflowEngineProofs`

* `TypeCorrect`.
* `OrderHolds` (`DependenciesFirst`), with no assumption on overlap. `OrderInv`: in the
  row and in every copy, however old, a pending step has no record and every step
  before it is pending too or has run. It is about all copies at once because any of
  them may be the next row.
* `NeverRerun`, `TerminalHolds` (`RerunsNeedOverlap`, `TerminalIsFinal`) and, where
  `MaxOverlaps = 0`, `PausedIsQuiet` (`PausedMeansQuiet`). `DriverInv`, which holds until
  the first overlap (`SoleDriver`): one call is under way, the row is in the state that
  call believes it in, and what the row holds as completed the call's copy knows.
  `overlap_reruns` shows that the condition cannot be dropped.
* `UndoneHolds` (`UndoneInReverse`) when a process has registered all of the definition's
  hooks or none (`HooksWhole`), through any throw and crash, again until the first overlap.
  `UndoInv`: the copy that rolls back is the row without what has been undone since
  (`RollsBackFromRow`), and once a step is undone nothing after it is pending. With only
  some hooks registered it is false: the process passes over the step whose hook it lacks
  and undoes the steps before it (`PROJECT.json` has the hazard).
* `RollbackIsAudited`: no row says `compensated` without the audit entry, whatever
  overlaps, throws or dies. `StoryHolds` (`AuditTellsStory`) without faults and overlap;
  with them the start goes unaudited, as said above.
* `Implements` (`ImplementsSaga`) under `Faultless`: no overlap, nothing throws or dies,
  every declared hook registered. `SagaInv` ties the effects to the copy of the one
  driver (`Forward` until a step fails, `Backward` after), and to the row when nobody
  drives.

### Plans: `WorkflowPlanProofs`

About plans of any length. There is no induction rule to use here, so each recursion is
proved by its least counterexample (`Least`, from the well-foundedness of the numbers).

* `TopoOrderIsCanonical`: on a plan that can be run, `topoOrder` gives each step once,
  after what it depends on, and a step defined earlier goes later only if it had to wait.
  `SomethingIsReady` is the heart: the steps not yet placed contain one that waits for
  none of them. `Steady` is what each round keeps.
* `ValidationIsExact`: `validateWorkflow` accepts exactly the plans that can be run
  (`Runnable`: no set of steps waits for itself) and whose steps are in order and told
  apart. That the recursion of the depth-first search has a solution, and one only, rests on
  `Weight`, which every call lowers (`CallsWeighLess`, `AcyclicUnfolds`). Without a cycle
  the black steps are `Grounded` throughout (`NoCycleGrounds`); the other way, the places
  in the canonical order rank the steps above all they depend on, so the search meets no
  gray one (`RankedHasNoCycle`).

### Edges and audit: `EdgesProofs`, `AuditLogProofs`

* `Inductive`, `TypeCorrect` of both.
* `RolesDecide` (`ServedInRole`). `HeldIsLastGranted`: the two maps of the substrate agree
  with the history of registrations, each in its own name space.
* `RetriesKeepOneEvent` (`RetriesAgree`). `Agreed`: what any caller was told, and what any
  emission past its insert holds, is the row, which is never written again.
* `PlansAreRunInOrder` (`PlansRunInOrder`). `PlansInOrder`: the registry holds accepted
  plans and an execution the order of the plan that is still there; the rest is the two
  theorems about plans.
* `LogIsAppendOnly`, and `WritesAreAnswered` (`WritesAreWhole`): `RepliesAreWhole` follows
  a batch from entry to entry while others write.
* `NoPageMisses` (`PagingMissesNothing`). `PagesAreSafe` speaks of the ranks of entries in
  the order pages are cut from: what was there when the reader began and ranks before its
  offset has been given to it. A page after which something is left is full (`PageIsFull`).

### Decisions and rules: `AuthorizationProofs`, `RulesEngineProofs`

* `TypeCorrect` of both.
* `AllowsAreEarned`, `RevocationsAreSeen` (`AllowIsEarned`, `RevocationSeen`): what a
  decision has gathered so far was published, by the provider it asked, in time and fresh
  by its own clock. `AnswersAreRecorded` (`AnswersAreOnRecord`, with any number of
  definitions under one version), `VerdictsAreFinal`
  (`VerdictIsFinal`), `FactsComeFromOneSource` (`FactsHaveOneSource`).
* `ResultsComeFromDefinitions`: every audited result is what the interpreter makes of its
  inputs and a definition accepted as its version. From it `ReplaysMatch`
  (`ReplayMatchesUnlessForked`); beside it `LogsAreAudited` (`LogIsAudited`) and
  `RowsNeverChange` (`RowsAreImmutable`). `Evaluate` is any operator here.
* `FirstRulesDecide` (`FirstRuleDecides`) adds what the interpreter answers:
  `FiredInOrder`, for rule sets of any length, says that the rules that fire are listed
  in order and none is left out, and `ResultIsFirst` that the first of them resolves.
* `RefusalsWantInput` (`RefusedForWantOfInput`). `ThrowsByPart`: an expression has no
  comparable value only if its own path leads to none or a part has none; so the least
  deep expression that threw without a cause (`ThrowsForInput`) does not exist. That the
  interpreter's recursion has a solution is proved level by level (`EvaluatesExists`).
  The proof needs no validation: depth and empty lists are limits the validator sets, and
  no evaluation of a finite tree depends on them.

### Web application: `ScreensProofs`

* `TypeCorrect`, `Equipped`, `CountIsOfRecords`, `Hauled` (`TypeOK`, `OperatingIsEquipped`,
  `RecordedOncePerPartner`, `OneHaulerPerLoad`). One lemma per method of the provider shows that it
  keeps types and equipment whenever it is called, which is why late timers do no harm.
  The screens are needed for the rest: `PageOK` (a dashboard is a known partner's, any
  other screen is about somebody who exists) for whom an application may be submitted,
  and `HaulInv` (a load that is available was accepted by nobody) for the one hauler.
* `WaterfallBalances`. For every payment the deductions and the net make up the payment,
  the net is the marketplace's estimate, and it is more than half, roundings aside.

### Only model-checked

* Liveness (`EventuallySettled`, `EventuallyRests`, `EveryDecisionEnds`): it needs fairness
  and ENABLED, which the proof system does not treat.
* The three runs that expect a violation refute a statement, which needs no proof.

## 6. Not modelled, and why

* `WorkflowService.replay` and `getExecution`: they read one row and compare.
* The `dryRun` flag of an execution, which the engine only passes on to handlers.
* Step outputs, payloads, explanations, the texts of audit entries, and timestamps where
  no decision depends on them.
* The Postgres adapter of the Audit Service (not in the repository), grants and down
  migrations.
* `libs/idempotency-kit`: no service calls it; each enforces its keys with a unique
  constraint, which the modules of the services have. `libs/audit-kit`: its sink is a
  twin of the store in `AuditLog`, its history helper has no user.
* `libs/types` (no state), the notification contract (no implementation).
* Rendering, the stakeholder screens' constants, the staged reveal of the waterfall, the
  browser's back button, and React's double effects in development mode.
* `ops`: deployment, verification and CI scripts, one sequential process each.
