-------------------------------- MODULE Edges --------------------------------
(* The edges through which requests reach the services, with what each does *)
(* before it hands over: the role gate, and then, at the event edge, the    *)
(* outcome mapping and the producer's idempotency key, and at the workflow  *)
(* edge the validation and registration of a plan and the start of an       *)
(* execution.  A request is answered in the turn it arrives, except an      *)
(* emission, which awaits the outbox and then the audit.                    *)
EXTENDS RoleGate, WorkflowPlan

CONSTANTS
  Kinds,         \* actor types presented
  Outcomes,      \* (producerComponent, outcomeKey)
  EventTypes,
  EventKeys,     \* (producerComponent, idempotencyKey)
  Versions,      \* [workflowId, version]
  Plans,         \* definitions that may be registered
  None,          \* nothing there
  MaxRequests,   \* bound: requests
  MaxWiring      \* bound: registrations of principals and handlers, definitions of mappings

ASSUME KindsAssumption == Kinds \subseteq ACTOR_TYPES
ASSUME PlansAssumption ==
  \A plan \in Plans : plan \in Seq({plan[i] : i \in DOMAIN plan})

VARIABLES
  mappings,      \* outcome -> [eventType, isActive], or None
  mapped,        \* bound: mappings defined so far
  outbox,        \* producer's key -> the event stored, or None
  emitting,      \* emissions under way
  audited,       \* events with an `event.enqueued` entry
  told,          \* history: producer's key -> events callers were answered with
  registry,      \* version -> plan, or None
  ready,         \* the step handlers are registered
  started,       \* version -> order of the execution started, or None
  requests,      \* bound: requests so far
  last           \* the last request and its answer

emission == <<outbox, emitting, audited, told>>
intake == <<mappings, mapped, emission>>
engine == <<registry, ready, started>>
vars == <<gate, intake, engine, requests, last>>

Init ==
  /\ GateInit
  /\ mappings = [o \in Outcomes |-> None]
  /\ mapped = 0
  /\ outbox = [k \in EventKeys |-> None]
  /\ emitting = {} /\ audited = {}
  /\ told = [k \in EventKeys |-> {}]
  /\ registry = [v \in Versions |-> None]
  /\ ready = FALSE
  /\ started = [v \in Versions |-> None]
  /\ requests = 0
  /\ last = None

\* An event is the emission that made it, by the number of its request.
Events == [id: Nat, type: EventTypes]
Callers == [actorType: Kinds, actorId: Principals]
\* Where an emission is: its event, and what the outbox returned for it.
Emissions ==
  [ctx: Callers, op: {"emitEvent", "declareOutcome"}, at: Nat, key: EventKeys,
   event: Events, stored: Events \cup {None}]

TypeOK ==
  /\ GateTypeOK
  /\ requests \in Nat
  /\ mappings \in [Outcomes -> [eventType: EventTypes, isActive: BOOLEAN] \cup {None}]
  /\ outbox \in [EventKeys -> Events \cup {None}]
  /\ emitting \subseteq Emissions /\ audited \subseteq Events
  /\ told \in [EventKeys -> SUBSET Events]
  /\ DOMAIN registry = Versions /\ DOMAIN started = Versions
  /\ \A v \in Versions : registry[v] = None => started[v] = None
  /\ \A v \in Versions : registry[v] # None => registry[v] \in Plans \ {<< >>}
-----------------------------------------------------------------------------
Arrives == requests' = requests + 1 /\ UNCHANGED gate

\* A request of caller ctx, let through or not by the registrations there were
\* then, answered with a code and what comes with it.
Reply(ctx, op, at, code, data) ==
  last' = [ctx |-> ctx, op |-> op, at |-> at, code |-> code, data |-> data]

\* Answered in the turn it arrives.
Answer(ctx, op, code, data) == Arrives /\ Reply(ctx, op, Len(grants), code, data)

\* An operation that is denied, or goes on to the service behind the edge.
Gated(ctx, op, roles) ==
  /\ Answer(ctx, op, IF requireAnyRole(ctx, roles) THEN "ok" ELSE "denied", None)
  /\ UNCHANGED <<intake, engine>>

\* The gate of every operation, by the edge it belongs to.  (The audit edge
\* passes its reader on; queryAudit called without one, in AuditLog, is no
\* request of an edge.)
AnyGate ==
  [op \in UNION {DOMAIN EventGate, DOMAIN WorkflowGate, DOMAIN RulesGate,
                 DOMAIN AuthorizationGate, DOMAIN AuditGate} |->
     CASE op \in DOMAIN EventGate         -> EventGate[op]
       [] op \in DOMAIN WorkflowGate      -> WorkflowGate[op]
       [] op \in DOMAIN RulesGate         -> RulesGate[op]
       [] op \in DOMAIN AuthorizationGate -> AuthorizationGate[op]
       [] op \in DOMAIN AuditGate         -> AuditGate[op]]

\* The operations whose services are modelled elsewhere.
Elsewhere ==
  DOMAIN AnyGate \ {"emitEvent", "declareOutcome", "registerWorkflow", "start"}
-----------------------------------------------------------------------------
(* The event edge.                                                         *)

Wiring == mapped + Len(grants) + (IF ready THEN 1 ELSE 0) < MaxWiring

defineMapping ==
  /\ Wiring
  /\ mapped' = mapped + 1
  /\ \E o \in Outcomes, m \in [eventType: EventTypes, isActive: BOOLEAN] :
       mappings' = [mappings EXCEPT ![o] = m]
  /\ UNCHANGED <<gate, emission, engine, requests, last>>

\* mutant: the row of a retried emission is written again.
enqueueAgain(k, ev) == outbox' = [outbox EXCEPT ![k] = ev]

\* The event under this key is the one stored first.
enqueueIfAbsent(k, ev) ==
  outbox' = IF outbox[k] = None THEN [outbox EXCEPT ![k] = ev] ELSE outbox

\* An event is made, of the type asked for now, and goes to the outbox.
emitInternal(ctx, op, k, t) ==
  /\ Arrives
  /\ emitting' = emitting \cup
       {[ctx |-> ctx, op |-> op, at |-> Len(grants), key |-> k,
         event |-> [id |-> requests, type |-> t], stored |-> None]}
  /\ UNCHANGED <<outbox, audited, told, last>>

\* What is stored under the key, of this emission or of another, comes back.
Enqueue(e) ==
  /\ e.stored = None
  /\ enqueueIfAbsent(e.key, e.event)
  /\ emitting' = (emitting \ {e}) \cup {[e EXCEPT !.stored = outbox'[e.key]]}
  /\ UNCHANGED <<gate, mappings, mapped, audited, told, engine, requests, last>>

\* The stored event has its audit entry, once, and the caller the event.
RecordEnqueued(e) ==
  /\ e.stored # None
  /\ audited' = audited \cup {e.stored}
  /\ told' = [told EXCEPT ![e.key] = @ \cup {e.stored}]
  /\ Reply(e.ctx, e.op, e.at, "ok", e.stored)
  /\ emitting' = emitting \ {e}
  /\ UNCHANGED <<gate, mappings, mapped, outbox, engine, requests>>

\* A store rejects, having done its work or not.  The caller is told of an
\* error, whether or not an event is stored and has its entry.
EmitFails(e) ==
  /\ audited' \in {audited, audited \cup ({e.stored} \ {None})}
  /\ Reply(e.ctx, e.op, e.at, "error", None)
  /\ emitting' = emitting \ {e}
  /\ UNCHANGED <<gate, mappings, mapped, outbox, told, engine, requests>>

emitEvent(ctx, k, t) ==
  /\ IF requireAnyRole(ctx, EventGate.emitEvent)
       THEN emitInternal(ctx, "emitEvent", k, t)
       ELSE Answer(ctx, "emitEvent", "denied", None) /\ UNCHANGED emission
  /\ UNCHANGED <<mappings, mapped, engine>>

\* An outcome without an active mapping is refused, a retried one as well.
declareOutcome(ctx, o, k) ==
  /\ IF ~requireAnyRole(ctx, EventGate.declareOutcome)
       THEN Answer(ctx, "declareOutcome", "denied", None) /\ UNCHANGED emission
     ELSE IF mappings[o] = None \/ ~mappings[o].isActive
       THEN Answer(ctx, "declareOutcome", "unmapped", None) /\ UNCHANGED emission
     ELSE emitInternal(ctx, "declareOutcome", k, mappings[o].eventType)
  /\ UNCHANGED <<mappings, mapped, engine>>
-----------------------------------------------------------------------------
(* The workflow edge.                                                      *)

registerHandlers ==
  /\ Wiring /\ ~ready /\ ready' = TRUE
  /\ UNCHANGED <<gate, intake, registry, started, requests, last>>

\* What is right of a definition: a version, and steps that can be told apart
\* and run.
Sound(v, plan) ==
  /\ Identified(v) /\ plan # << >> /\ Cardinality(Ids(plan)) = Len(plan)
  /\ \A i \in DOMAIN plan : plan[i].fields
  /\ Runnable(plan)

Accepted == [v \in Versions |-> {plan \in Plans : validateWorkflow(v, plan)}]
SoundPlans == [v \in Versions |-> {plan \in Plans : Sound(v, plan)}]

\* mutant: the registry alone decides.
RegisterUnchecked(ctx, v, plan) ==
  IF ~requireAnyRole(ctx, WorkflowGate.registerWorkflow) THEN "denied"
  ELSE IF registry[v] # None THEN "immutable" ELSE "ok"

\* validateWorkflow, then the registry, which takes a version once.
RegisterCode(ctx, v, plan) ==
  IF ~requireAnyRole(ctx, WorkflowGate.registerWorkflow) THEN "denied"
  ELSE IF plan \notin Accepted[v] THEN "malformed"
  ELSE IF registry[v] # None THEN "immutable" ELSE "ok"

registerWorkflow(ctx, v, plan) ==
  LET code == RegisterCode(ctx, v, plan) IN
  /\ Answer(ctx, "registerWorkflow", code,
            IF code = "denied" THEN None ELSE [sound |-> plan \in SoundPlans[v]])
  /\ registry' = IF code = "ok" THEN [registry EXCEPT ![v] = plan] ELSE registry
  /\ UNCHANGED <<intake, ready, started>>

\* The definition, the handlers of its steps, then the order they will run in.
StartCode(ctx, v) ==
  IF ~requireAnyRole(ctx, WorkflowGate.start) THEN "denied"
  ELSE IF registry[v] = None THEN "not_found"
  ELSE IF ~ready THEN "missing_handler" ELSE "ok"

start(ctx, v) ==
  LET code == StartCode(ctx, v) IN
  /\ Answer(ctx, "start", code, None)
  /\ started' = IF code = "ok" /\ started[v] = None
                  THEN [started EXCEPT ![v] = topoOrder(registry[v])] ELSE started
  /\ UNCHANGED <<intake, registry, ready>>
-----------------------------------------------------------------------------
Request(ctx) ==
  \/ \E op \in Elsewhere : Gated(ctx, op, AnyGate[op])
  \/ \E k \in EventKeys :
       \/ \E t \in EventTypes : emitEvent(ctx, k, t)
       \/ \E o \in Outcomes : declareOutcome(ctx, o, k)
  \/ \E v \in Versions : start(ctx, v) \/ \E p \in Plans : registerWorkflow(ctx, v, p)

Next ==
  \/ Wiring /\ GateStep /\ UNCHANGED <<intake, engine, requests, last>>
  \/ defineMapping \/ registerHandlers
  \/ \E e \in emitting : Enqueue(e) \/ RecordEnqueued(e) \/ EmitFails(e)
  \/ requests < MaxRequests /\ \E ctx \in Callers : Request(ctx)

Spec == Init /\ [][Next]_vars
-----------------------------------------------------------------------------
\* Served means in the role, denied means not: a request is let through
\* exactly when the caller's last registration, in the name space of its own
\* kind, granted one of the roles its operation needs.  A service's roles say
\* nothing of the human with the same id, `ai` is never let through, and a
\* role taken away is gone with the next request.
ServedInRole ==
  last # None =>
    (last.code # "denied"
       <=> RegisteredAs(last.ctx, last.at) \cap AnyGate[last.op] # {})

\* A definition is refused as malformed exactly when it has no name or version,
\* could not be run to its end or leaves steps indistinct, and what is registered is started in
\* the one canonical order, so that `topoOrder` never fails on it.
PlansRunInOrder ==
  /\ last # None /\ last.op = "registerWorkflow" /\ last.code # "denied" =>
       (last.code # "malformed" <=> last.data.sound)
  /\ \A v \in Versions : started[v] # None => Canonical(registry[v], started[v])

\* All who are ever answered under a key are answered with one event: the one
\* stored first, which has its audit entry and stays what it was ("frozen"),
\* though its own producer may have been told of an error, two retries may be
\* under way at once and the mapping may have been changed in between.  (A retry
\* is refused if the mapping is inactive by then: its producer never learns of
\* the event, which stands.)
RetriesAgree ==
  [][\A k \in EventKeys :
       /\ outbox[k] # None => outbox'[k] = outbox[k]
       /\ \A ev \in told'[k] : outbox'[k] = ev /\ ev \in audited']_vars
=============================================================================
