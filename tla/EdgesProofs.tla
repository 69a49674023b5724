----------------------------- MODULE EdgesProofs -----------------------------
(***************************************************************************)
(* Proofs about RoleGate and Edges: for any principals, registrations,     *)
(* outcomes, keys, plans and requests.                                     *)
(***************************************************************************)
EXTENDS Edges, WorkflowPlanProofs

Registrations == [kind: {"service", "human"}, id: Principals, roles: Granted]

\* What a name space holds of a principal, and the registrations behind it.
Held(kind, p) == IF kind = "human" THEN humans[p] ELSE services[p]
Mine(kind, p, at) == {i \in 1..at : grants[i].kind = kind /\ grants[i].id = p}
LastOf(kind, p, at, roles) ==
  \E i \in Mine(kind, p, at) :
    grants[i].roles = roles /\ \A j \in Mine(kind, p, at) : j <= i

\* The two maps of the substrate agree with the history of registrations.
HeldIsLastGranted ==
  \A kind \in {"service", "human"}, p \in Principals :
    IF Held(kind, p) = Unknown THEN Mine(kind, p, Len(grants)) = {}
    ELSE LastOf(kind, p, Len(grants), Held(kind, p))
GateSafe ==
  /\ GateTypeOK /\ grants \in Seq(Registrations)
  /\ HeldIsLastGranted

Admits(ctx, at, op) == RegisteredAs(ctx, at) \cap AnyGate[op] # {}

\* The last answer was given by the registrations there were.
AnswerIsEarned ==
  last # None =>
    /\ last.ctx \in Callers /\ last.at \in 0..Len(grants)
    /\ last.code # "denied" <=> Admits(last.ctx, last.at, last.op)

\* So was every emission under way let through.
EmissionsAreEarned ==
  \A e \in emitting : e.at \in 0..Len(grants) /\ Admits(e.ctx, e.at, e.op)

\* What callers and emissions under way were given is what is stored.
Agreed ==
  /\ \A k \in EventKeys : \A ev \in told[k] :
       ev # None /\ outbox[k] = ev /\ ev \in audited
  /\ \A e \in emitting : e.stored # None => outbox[e.key] = e.stored

\* The registry holds plans that were validated, an execution was started in
\* the order computed from the plan that is still there, and a definition was
\* found malformed exactly when it cannot be run.
PlansInOrder ==
  /\ \A v \in Versions :
       /\ registry[v] # None => registry[v] \in Accepted[v]
       /\ started[v] # None =>
            registry[v] # None /\ started[v] = topoOrder(registry[v])
  /\ last # None /\ last.op = "registerWorkflow" /\ last.code # "denied" =>
       (last.code # "malformed" <=> last.data.sound)

Safe == TypeOK /\ GateSafe /\ AnswerIsEarned /\ EmissionsAreEarned
------------------------------------------------------------------------------
\* What the gate asks is what the last registration of the caller granted, in
\* the name space of its kind.
LEMMA GateAnswers ==
  ASSUME GateSafe, NEW ctx \in Contexts, NEW roles \in SUBSET ROLES
  PROVE  requireAnyRole(ctx, roles) <=> RegisteredAs(ctx, Len(grants)) \cap roles # {}
<1> DEFINE kind == IF ctx.actorType = "human" THEN "human" ELSE "service"
           p == ctx.actorId
           mine == {i \in 1..Len(grants) : grants[i].kind = kind /\ grants[i].id = p}
<1>1. ctx.actorType \in ACTOR_TYPES /\ p \in Principals
  BY DEF Contexts
<1>2. CASE ctx.actorType = "ai"
  <2>1. rolesFor(ctx) = Unknown
    BY <1>2 DEF rolesFor
  <2>2. RegisteredAs(ctx, Len(grants)) = {}
    BY <1>2 DEF RegisteredAs
  <2>3. QED
    BY <2>1, <2>2 DEF requireAnyRole
<1>3. CASE ctx.actorType # "ai"
  <2>1. rolesFor(ctx) = Held(kind, p) /\ kind \in {"service", "human"}
    BY <1>1, <1>3 DEF rolesFor, Held, ACTOR_TYPES
  <2>2. mine = Mine(kind, p, Len(grants))
    BY DEF Mine
  <2>3. CASE Held(kind, p) = Unknown
    <3>1. mine = {}
      BY <1>1, <2>1, <2>2, <2>3 DEF GateSafe, HeldIsLastGranted
    <3>2. RegisteredAs(ctx, Len(grants)) = {}
      BY <3>1 DEF RegisteredAs
    <3>3. QED
      BY <2>1, <2>3, <3>2 DEF requireAnyRole
  <2>4. CASE Held(kind, p) # Unknown
    <3>1. LastOf(kind, p, Len(grants), Held(kind, p))
      BY <1>1, <2>1, <2>4 DEF GateSafe, HeldIsLastGranted
    <3>2. PICK i \in mine : grants[i].roles = Held(kind, p) /\ \A j \in mine : j <= i
      BY <2>2, <3>1 DEF LastOf
    <3> DEFINE l == CHOOSE k \in mine : \A j \in mine : j <= k
    <3>3. l \in mine /\ \A j \in mine : j <= l
      BY <3>2
    <3>4. l = i
      <4>1. mine \subseteq Int
        OBVIOUS
      <4>2. l <= i /\ i <= l /\ l \in Int /\ i \in Int
        BY <3>2, <3>3, <4>1
      <4>3. QED
        BY ONLY <4>2
    <3>5. RegisteredAs(ctx, Len(grants)) = grants[l].roles
      BY <1>3, <3>2 DEF RegisteredAs
    <3>6. RegisteredAs(ctx, Len(grants)) = rolesFor(ctx)
      BY <2>1, <3>2, <3>4, <3>5
    <3>7. QED
      BY <2>1, <2>4, <3>6 DEF requireAnyRole
  <2>5. QED
    BY <2>3, <2>4
<1>4. QED
  BY <1>2, <1>3

\* A registration becomes the last one of its principal, and of no other.
LEMMA GateStepSafe == GateSafe /\ GateStep => GateSafe'
<1> SUFFICES ASSUME GateSafe, NEW p \in Principals, NEW roles \in Granted,
                    registerService(p, roles) \/ registerHuman(p, roles)
             PROVE  GateSafe'
  BY DEF GateStep
<1>0. GateTypeOK /\ grants \in Seq(Registrations) /\ HeldIsLastGranted
  BY DEF GateSafe
<1>1. roles \in SUBSET ROLES /\ roles # Unknown
  BY GrantAssumption
<1>2. PICK kind \in {"service", "human"} :
        /\ grants' = Append(grants, [kind |-> kind, id |-> p, roles |-> roles])
        /\ \A k \in {"service", "human"}, q \in Principals :
             Held(k, q)' = IF k = kind /\ q = p THEN roles ELSE Held(k, q)
  <2>1. CASE registerService(p, roles)
    BY <1>0, <2>1 DEF registerService, Granting, Held, GateTypeOK
  <2>2. CASE registerHuman(p, roles)
    BY <1>0, <2>2 DEF registerHuman, Granting, Held, GateTypeOK
  <2>3. QED
    BY <2>1, <2>2
<1>3. GateTypeOK'
  BY <1>0, <1>1 DEF GateTypeOK, registerService, registerHuman
<1>4. /\ grants' \in Seq(Registrations) /\ Len(grants') = Len(grants) + 1
      /\ Len(grants) \in Nat
      /\ \A i \in 1..Len(grants) : grants'[i] = grants[i]
      /\ grants'[Len(grants) + 1] = [kind |-> kind, id |-> p, roles |-> roles]
  BY <1>0, <1>2 DEF Registrations
<1>5. ASSUME NEW k \in {"service", "human"}, NEW q \in Principals
      PROVE  IF Held(k, q)' = Unknown THEN Mine(k, q, Len(grants))' = {}
             ELSE LastOf(k, q, Len(grants), Held(k, q))'
  <2>1. Mine(k, q, Len(grants))' =
          Mine(k, q, Len(grants)) \cup (IF k = kind /\ q = p THEN {Len(grants) + 1} ELSE {})
    <3>1. 1..(Len(grants) + 1) = 1..Len(grants) \cup {Len(grants) + 1}
      BY <1>4
    <3>2. \A i \in 1..Len(grants) :
            i \in Mine(k, q, Len(grants)) <=> i \in Mine(k, q, Len(grants))'
      BY <1>4 DEF Mine
    <3>3. Len(grants) + 1 \in Mine(k, q, Len(grants))' <=> k = kind /\ q = p
      BY <1>4 DEF Mine
    <3>4. Mine(k, q, Len(grants)) \subseteq 1..Len(grants)
      BY DEF Mine
    <3>5. Mine(k, q, Len(grants))' \subseteq 1..(Len(grants) + 1)
      BY <1>4 DEF Mine
    <3>6. QED
      BY ONLY <3>1, <3>2, <3>3, <3>4, <3>5
  <2>2. CASE k = kind /\ q = p
    <3>1. Held(k, q)' = roles
      BY <1>2, <2>2
    <3>2. LastOf(k, q, Len(grants), roles)'
      <4>1. \A j \in Mine(k, q, Len(grants))' : j <= Len(grants) + 1
        BY <1>4 DEF Mine
      <4>2. Len(grants) + 1 \in Mine(k, q, Len(grants))'
        BY <2>1, <2>2
      <4>3. grants'[Len(grants) + 1].roles = roles
        BY <1>4
      <4>4. QED
        BY <4>1, <4>2, <4>3 DEF LastOf
    <3>3. QED
      BY <1>1, <3>1, <3>2 DEF LastOf
  <2>3. CASE ~(k = kind /\ q = p)
    <3>1. Held(k, q)' = Held(k, q) /\ Mine(k, q, Len(grants))' = Mine(k, q, Len(grants))
      BY <1>2, <2>1, <2>3
    <3>2. \A i \in Mine(k, q, Len(grants)) : grants'[i] = grants[i]
      BY <1>4 DEF Mine
    <3>3. QED
      BY <1>0, <3>1, <3>2 DEF HeldIsLastGranted, LastOf
  <2>4. QED
    BY <2>2, <2>3
<1>6. HeldIsLastGranted'
  BY <1>5 DEF HeldIsLastGranted
<1>7. QED
  BY <1>3, <1>4, <1>6 DEF GateSafe


------------------------------------------------------------------------------
\* Every gate lists roles there are, and those of the operations modelled
\* here are the ones their own edge lists.
LEMMA NeededRoles ==
  /\ AnyGate["emitEvent"] = EventGate.emitEvent
  /\ AnyGate["declareOutcome"] = EventGate.declareOutcome
  /\ AnyGate["registerWorkflow"] = WorkflowGate.registerWorkflow
  /\ AnyGate["start"] = WorkflowGate.start
  /\ \A op \in DOMAIN AnyGate : AnyGate[op] \in SUBSET ROLES
  /\ {"emitEvent", "declareOutcome", "registerWorkflow", "start"} \subseteq DOMAIN AnyGate
<1> DEFINE ops == UNION {DOMAIN EventGate, DOMAIN WorkflowGate, DOMAIN RulesGate,
                         DOMAIN AuthorizationGate, DOMAIN AuditGate}
<1>1. DOMAIN EventGate = {"declareOutcome", "emitEvent", "replayEvents"}
      /\ \A op \in DOMAIN EventGate : EventGate[op] \in SUBSET ROLES
  BY DEF EventGate, ROLES
<1>2. DOMAIN WorkflowGate = {"registerWorkflow", "start", "resume", "pause", "replayWorkflow"}
      /\ \A op \in DOMAIN WorkflowGate : WorkflowGate[op] \in SUBSET ROLES
  BY DEF WorkflowGate, ROLES
<1>3. DOMAIN RulesGate = {"registerRuleSet", "evaluate", "replayRules"}
      /\ \A op \in DOMAIN RulesGate : RulesGate[op] \in SUBSET ROLES
  BY DEF RulesGate, ROLES
<1>4. DOMAIN AuthorizationGate = {"defineCapability", "registerProvider"}
      /\ \A op \in DOMAIN AuthorizationGate : AuthorizationGate[op] \in SUBSET ROLES
  BY DEF AuthorizationGate, ROLES
<1>5. DOMAIN AuditGate = {"queryAudit"}
      /\ \A op \in DOMAIN AuditGate : AuditGate[op] \in SUBSET ROLES
  BY DEF AuditGate, ROLES
<1>6. DOMAIN AnyGate = ops
  BY DEF AnyGate
<1>7. \A op \in {"emitEvent", "declareOutcome"} : op \in ops /\ AnyGate[op] = EventGate[op]
  <2>1. \A op \in {"emitEvent", "declareOutcome"} :
          /\ op \in DOMAIN EventGate /\ op \notin DOMAIN WorkflowGate
          /\ op \notin DOMAIN RulesGate /\ op \notin DOMAIN AuthorizationGate
          /\ op \notin DOMAIN AuditGate
    BY <1>1, <1>2, <1>3, <1>4, <1>5
  <2>2. QED
    BY <2>1 DEF AnyGate
<1>8. \A op \in {"registerWorkflow", "start"} : op \in ops /\ AnyGate[op] = WorkflowGate[op]
  <2>1. \A op \in {"registerWorkflow", "start"} :
          /\ op \in DOMAIN WorkflowGate /\ op \notin DOMAIN EventGate
          /\ op \notin DOMAIN RulesGate /\ op \notin DOMAIN AuthorizationGate
          /\ op \notin DOMAIN AuditGate
    BY <1>1, <1>2, <1>3, <1>4, <1>5
  <2>2. QED
    BY <2>1 DEF AnyGate
<1>9. \A op \in DOMAIN AnyGate : AnyGate[op] \in SUBSET ROLES
  <2> SUFFICES ASSUME NEW op \in ops PROVE AnyGate[op] \in SUBSET ROLES
    BY <1>6
  <2>1. AnyGate[op] =
          CASE op \in DOMAIN EventGate         -> EventGate[op]
            [] op \in DOMAIN WorkflowGate      -> WorkflowGate[op]
            [] op \in DOMAIN RulesGate         -> RulesGate[op]
            [] op \in DOMAIN AuthorizationGate -> AuthorizationGate[op]
            [] op \in DOMAIN AuditGate         -> AuditGate[op]
    BY DEF AnyGate
  <2>2. \/ op \in DOMAIN EventGate \/ op \in DOMAIN WorkflowGate \/ op \in DOMAIN RulesGate
        \/ op \in DOMAIN AuthorizationGate \/ op \in DOMAIN AuditGate
    OBVIOUS
  <2> HIDE DEF ops
  <2>3. QED
    BY <1>1, <1>2, <1>3, <1>4, <1>5, <2>1, <2>2
<1>10. QED
  BY <1>1, <1>2, <1>6, <1>7, <1>8, <1>9


------------------------------------------------------------------------------
\* Whether a request is let through is decided by the registrations so far.
Decided(ctx, op, code) ==
  code # "denied" <=> RegisteredAs(ctx, Len(grants)) \cap AnyGate[op] # {}

\* A step that leaves the registrations alone keeps what was earned by them.
LEMMA GateKept ==
  ASSUME GateSafe, UNCHANGED gate
  PROVE  /\ GateSafe' /\ Len(grants') = Len(grants) /\ Len(grants) \in Nat
         /\ \A ctx, at : RegisteredAs(ctx, at)' = RegisteredAs(ctx, at)
         /\ \A ctx, at, op : Admits(ctx, at, op)' <=> Admits(ctx, at, op)
<1>1. services' = services /\ humans' = humans /\ grants' = grants
  BY DEF gate
<1>2. GateSafe'
  BY <1>1 DEF GateSafe, GateTypeOK, HeldIsLastGranted, Held, LastOf, Mine
<1>3. Len(grants) \in Nat
  BY DEF GateSafe
<1>4. \A ctx, at : RegisteredAs(ctx, at)' = RegisteredAs(ctx, at)
  BY <1>1 DEF RegisteredAs
<1>5. QED
  BY <1>1, <1>2, <1>3, <1>4 DEF Admits

\* A request's answer is earned, and earlier registrations stay what they are.
LEMMA AnswerEffect ==
  ASSUME Safe, NEW ctx \in Callers, NEW op, NEW code, NEW data,
         Answer(ctx, op, code, data), Decided(ctx, op, code), UNCHANGED emitting
  PROVE  GateSafe' /\ AnswerIsEarned' /\ EmissionsAreEarned'
<1>1. /\ UNCHANGED gate
      /\ last' = [ctx |-> ctx, op |-> op, at |-> Len(grants), code |-> code, data |-> data]
  BY DEF Answer, Arrives, Reply
<1>2. /\ GateSafe' /\ Len(grants') = Len(grants) /\ Len(grants) \in Nat
      /\ \A c, at, o : Admits(c, at, o)' <=> Admits(c, at, o)
  BY <1>1, GateKept DEF Safe
<1>3. AnswerIsEarned'
  <2>1. code # "denied" <=> Admits(ctx, Len(grants), op)
    BY DEF Decided, Admits
  <2>2. /\ last'.ctx = ctx /\ last'.op = op /\ last'.code = code
        /\ last'.at = Len(grants) /\ Len(grants) \in 0..Len(grants')
    BY <1>1, <1>2
  <2>3. QED
    BY <1>2, <2>1, <2>2 DEF AnswerIsEarned
<1>4. EmissionsAreEarned'
  BY <1>2 DEF Safe, EmissionsAreEarned
<1>5. QED
  BY <1>2, <1>3, <1>4

\* An emission that is let through is earned.
LEMMA EmissionEffect ==
  ASSUME Safe, NEW ctx \in Callers, NEW op, NEW k, NEW t,
         emitInternal(ctx, op, k, t), Decided(ctx, op, "ok")
  PROVE  GateSafe' /\ AnswerIsEarned' /\ EmissionsAreEarned'
<1> DEFINE e == [ctx |-> ctx, op |-> op, at |-> Len(grants), key |-> k,
                 event |-> [id |-> requests, type |-> t], stored |-> None]
<1>1. UNCHANGED gate /\ last' = last /\ emitting' = emitting \cup {e}
  BY DEF emitInternal, Arrives
<1>2. /\ GateSafe' /\ Len(grants') = Len(grants) /\ Len(grants) \in Nat
      /\ \A c, at, o : Admits(c, at, o)' <=> Admits(c, at, o)
  BY <1>1, GateKept DEF Safe
<1>3. AnswerIsEarned'
  BY <1>1, <1>2 DEF Safe, AnswerIsEarned
<1>4. Admits(ctx, Len(grants), op)
  BY DEF Decided, Admits
<1>5. EmissionsAreEarned'
  BY <1>1, <1>2, <1>4 DEF Safe, EmissionsAreEarned
<1>6. QED
  BY <1>2, <1>3, <1>5

\* An emission goes on, or is answered, by the roles it was let through with.
LEMMA EmissionGoesOn ==
  ASSUME Safe, NEW e \in emitting, Enqueue(e) \/ RecordEnqueued(e) \/ EmitFails(e)
  PROVE  GateSafe' /\ AnswerIsEarned' /\ EmissionsAreEarned'
<1>1. UNCHANGED gate
  BY DEF Enqueue, RecordEnqueued, EmitFails
<1>2. /\ GateSafe' /\ Len(grants') = Len(grants) /\ Len(grants) \in Nat
      /\ \A c, at, o : Admits(c, at, o)' <=> Admits(c, at, o)
  BY <1>1, GateKept DEF Safe
<1>3. e \in Emissions /\ e.at \in 0..Len(grants) /\ Admits(e.ctx, e.at, e.op)
  BY DEF Safe, TypeOK, EmissionsAreEarned
<1>4. EmissionsAreEarned'
  <2>1. CASE emitting' = emitting \ {e}
    BY <1>2, <2>1 DEF Safe, EmissionsAreEarned
  <2>2. CASE Enqueue(e)
    <3> DEFINE f == [e EXCEPT !.stored = outbox'[e.key]]
    <3>1. emitting' = (emitting \ {e}) \cup {f}
      BY <2>2 DEF Enqueue
    <3>2. f.ctx = e.ctx /\ f.at = e.at /\ f.op = e.op
      BY <1>3 DEF Emissions
    <3> HIDE DEF f
    <3>3. QED
      BY <1>2, <1>3, <3>1, <3>2 DEF Safe, EmissionsAreEarned
  <2>3. QED
    BY <2>1, <2>2 DEF RecordEnqueued, EmitFails
<1>5. AnswerIsEarned'
  <2>1. CASE last' = last
    BY <1>2, <2>1 DEF Safe, AnswerIsEarned
  <2>2. CASE \E code, data : code # "denied" /\ Reply(e.ctx, e.op, e.at, code, data)
    BY <1>2, <1>3, <2>2 DEF Reply, AnswerIsEarned, Emissions
  <2>3. QED
    BY <2>1, <2>2 DEF Enqueue, RecordEnqueued, EmitFails
<1>6. QED
  BY <1>2, <1>4, <1>5

\* The gate of an operation decides by the roles that operation needs.
LEMMA GateDecides ==
  ASSUME GateSafe, NEW ctx \in Callers, NEW op \in DOMAIN AnyGate, NEW code,
         code # "denied" <=> requireAnyRole(ctx, AnyGate[op])
  PROVE  Decided(ctx, op, code)
<1>1. ctx \in Contexts
  BY KindsAssumption DEF Callers, Contexts
<1>2. AnyGate[op] \in SUBSET ROLES
  BY NeededRoles
<1>3. QED
  BY <1>1, <1>2, GateAnswers DEF Decided

\* Every request, whichever edge it is made to, is answered, or goes on to the
\* outbox, as its caller's registrations deserve.
LEMMA RequestsAreDecided ==
  ASSUME Safe, NEW ctx \in Callers, Request(ctx)
  PROVE  \E op \in DOMAIN AnyGate :
           \/ \E code, data : /\ Answer(ctx, op, code, data) /\ UNCHANGED emitting
                              /\ code # "denied" <=> requireAnyRole(ctx, AnyGate[op])
           \/ \E k, t : emitInternal(ctx, op, k, t) /\ requireAnyRole(ctx, AnyGate[op])
<1> DEFINE Answered(op, roles) ==
             \E code, data : /\ Answer(ctx, op, code, data) /\ UNCHANGED emitting
                             /\ code # "denied" <=> requireAnyRole(ctx, roles)
           Emits(op, roles) ==
             \E k, t : emitInternal(ctx, op, k, t) /\ requireAnyRole(ctx, roles)
<1>1. ASSUME NEW op \in Elsewhere, Gated(ctx, op, AnyGate[op])
      PROVE  Answered(op, AnyGate[op])
  BY <1>1 DEF Gated, intake, emission
<1>2. ASSUME NEW k \in EventKeys, NEW t \in EventTypes, emitEvent(ctx, k, t)
      PROVE  Answered("emitEvent", EventGate.emitEvent) \/ Emits("emitEvent", EventGate.emitEvent)
  BY <1>2 DEF emitEvent, emission
<1>3. ASSUME NEW k \in EventKeys, NEW o \in Outcomes, declareOutcome(ctx, o, k)
      PROVE  \/ Answered("declareOutcome", EventGate.declareOutcome)
             \/ Emits("declareOutcome", EventGate.declareOutcome)
  <2>1. CASE ~requireAnyRole(ctx, EventGate.declareOutcome)
    BY <1>3, <2>1 DEF declareOutcome, emission
  <2>2. CASE requireAnyRole(ctx, EventGate.declareOutcome)
    BY <1>3, <2>2 DEF declareOutcome, emission
  <2>3. QED
    BY <2>1, <2>2
<1>4. ASSUME NEW v \in Versions, start(ctx, v)
      PROVE  Answered("start", WorkflowGate.start)
  BY <1>4 DEF start, StartCode, intake, emission
<1>5. ASSUME NEW v \in Versions, NEW p \in Plans, registerWorkflow(ctx, v, p)
      PROVE  Answered("registerWorkflow", WorkflowGate.registerWorkflow)
  BY <1>5 DEF registerWorkflow, RegisterCode, intake, emission
<1>6. Elsewhere \subseteq DOMAIN AnyGate
  BY DEF Elsewhere
<1> HIDE DEF Answered, Emits
<1>7. \E op \in DOMAIN AnyGate : Answered(op, AnyGate[op]) \/ Emits(op, AnyGate[op])
  BY <1>1, <1>2, <1>3, <1>4, <1>5, <1>6, NeededRoles DEF Request
<1>8. QED
  BY <1>7 DEF Answered, Emits


\* A new registration says nothing of the answers given before it.
LEMMA OldAnswersStay ==
  ASSUME Safe, GateStep, UNCHANGED <<last, emitting>>
  PROVE  AnswerIsEarned' /\ EmissionsAreEarned'
<1>0. grants \in Seq(Registrations) /\ AnswerIsEarned /\ EmissionsAreEarned
  BY DEF Safe, GateSafe
<1>1. PICK g : grants' = Append(grants, g)
  BY DEF GateStep, registerService, registerHuman, Granting
<1>2. /\ Len(grants) \in Nat /\ Len(grants') = Len(grants) + 1
      /\ \A i \in 1..Len(grants) : grants'[i] = grants[i]
  BY <1>0, <1>1
<1>3. ASSUME NEW ctx, NEW at \in 0..Len(grants)
      PROVE  RegisteredAs(ctx, at)' = RegisteredAs(ctx, at)
  <2> DEFINE kind == IF ctx.actorType = "human" THEN "human" ELSE "service"
             mine == {i \in 1..at : grants[i].kind = kind /\ grants[i].id = ctx.actorId}
  <2>1. \A i \in 1..at : grants'[i] = grants[i]
    BY <1>2
  <2>2. mine' = mine
    BY <2>1
  <2>3. CASE mine = {}
    BY <2>2, <2>3 DEF RegisteredAs
  <2>4. CASE mine # {} /\ ctx.actorType = "ai"
    BY <2>4 DEF RegisteredAs
  <2>5. CASE mine # {} /\ ctx.actorType # "ai"
    <3> DEFINE l == CHOOSE i \in mine : \A j \in mine : j <= i
    <3>1. at \in Nat /\ mine \in SUBSET (0..at)
      BY <1>2
    <3> HIDE DEF mine
    <3>2. \E x \in mine : \A y \in mine : y <= x
      BY ONLY <2>5, <3>1, Greatest
    <3>3. l \in mine
      BY <3>2
    <3> USE DEF mine
    <3>4. grants'[l] = grants[l]
      BY <2>1, <3>3
    <3>5. RegisteredAs(ctx, at) = grants[l].roles
      BY <2>5 DEF RegisteredAs
    <3>6. RegisteredAs(ctx, at)' = grants'[CHOOSE i \in mine' : \A j \in mine' : j <= i].roles
      BY <2>2, <2>5 DEF RegisteredAs
    <3>7. QED
      BY ONLY <2>2, <3>4, <3>5, <3>6
  <2>6. QED
    BY <2>3, <2>4, <2>5
<1>4. AnswerIsEarned'
  BY <1>0, <1>2, <1>3 DEF AnswerIsEarned, Admits
<1>5. EmissionsAreEarned'
  BY <1>0, <1>2, <1>3 DEF EmissionsAreEarned, Admits
<1>6. QED
  BY <1>4, <1>5


------------------------------------------------------------------------------
\* A new emission, and one that goes on, has its type.
LEMMA EmissionTypes ==
  ASSUME TypeOK, NEW ctx \in Callers, NEW op \in {"emitEvent", "declareOutcome"},
         NEW k \in EventKeys, NEW t \in EventTypes, Len(grants) \in Nat,
         emitInternal(ctx, op, k, t)
  PROVE  /\ emitting' \subseteq Emissions /\ requests' \in Nat
         /\ UNCHANGED <<outbox, audited, told>>
BY DEF emitInternal, Arrives, TypeOK, Emissions, Events

LEMMA EmissionTypesKept ==
  ASSUME TypeOK, NEW e \in emitting, Enqueue(e) \/ RecordEnqueued(e) \/ EmitFails(e)
  PROVE  /\ emitting' \subseteq Emissions /\ outbox' \in [EventKeys -> Events \cup {None}]
         /\ audited' \subseteq Events /\ told' \in [EventKeys -> SUBSET Events]
<1>1. /\ e \in Emissions /\ e.key \in EventKeys /\ e.event \in Events
      /\ e.stored \in Events \cup {None}
      /\ emitting \subseteq Emissions /\ outbox \in [EventKeys -> Events \cup {None}]
      /\ audited \subseteq Events /\ told \in [EventKeys -> SUBSET Events]
  BY DEF TypeOK, Emissions
<1>2. CASE Enqueue(e)
  <2>1. outbox' \in [EventKeys -> Events \cup {None}] /\ UNCHANGED <<audited, told>>
    BY <1>1, <1>2 DEF Enqueue, enqueueIfAbsent
  <2>2. [e EXCEPT !.stored = outbox'[e.key]] \in Emissions
    BY <1>1, <2>1 DEF Emissions
  <2>3. QED
    BY <1>1, <1>2, <2>1, <2>2 DEF Enqueue
<1>3. CASE RecordEnqueued(e)
  BY ONLY <1>1, <1>3 DEF RecordEnqueued
<1>4. CASE EmitFails(e)
  BY ONLY <1>1, <1>4 DEF EmitFails
<1>5. QED
  BY <1>2, <1>3, <1>4

\* What is wired, stored and registered keeps its type.
LEMMA TypesStep ==
  ASSUME Safe, [Next]_vars, GateSafe' PROVE TypeOK'
<1>0. TypeOK /\ GateTypeOK' /\ Len(grants) \in Nat
  BY DEF Safe, GateSafe
<1>1. CASE UNCHANGED <<mappings, emission, registry, started, requests>>
  BY <1>0, <1>1 DEF TypeOK, emission
<1>2. CASE defineMapping
  BY <1>0, <1>2 DEF TypeOK, defineMapping, engine, emission
<1>3. ASSUME NEW ctx, NEW op, NEW code, NEW data, Answer(ctx, op, code, data),
             UNCHANGED <<mappings, emission, registry, started>>
      PROVE  TypeOK'
  BY <1>0, <1>3 DEF TypeOK, Answer, Arrives, emission
<1>4. ASSUME NEW ctx \in Callers, NEW op \in {"emitEvent", "declareOutcome"},
             NEW k \in EventKeys, NEW t \in EventTypes, emitInternal(ctx, op, k, t),
             UNCHANGED <<mappings, registry, started>>
      PROVE  TypeOK'
  <2>1. /\ emitting' \subseteq Emissions /\ requests' \in Nat
        /\ UNCHANGED <<outbox, audited, told>>
    BY <1>0, <1>4, EmissionTypes
  <2>2. QED
    BY <1>0, <1>4, <2>1 DEF TypeOK
<1>5. ASSUME NEW e \in emitting, Enqueue(e) \/ RecordEnqueued(e) \/ EmitFails(e)
      PROVE  TypeOK'
  <2>1. /\ emitting' \subseteq Emissions /\ outbox' \in [EventKeys -> Events \cup {None}]
        /\ audited' \subseteq Events /\ told' \in [EventKeys -> SUBSET Events]
    BY <1>0, <1>5, EmissionTypesKept
  <2>2. UNCHANGED <<mappings, registry, started, requests>>
    BY <1>5 DEF Enqueue, RecordEnqueued, EmitFails, engine
  <2>3. QED
    BY <1>0, <2>1, <2>2 DEF TypeOK
<1>6. ASSUME NEW ctx \in Callers, NEW k \in EventKeys, NEW o \in Outcomes,
             declareOutcome(ctx, o, k)
      PROVE  TypeOK'
  <2>1. mappings[o] = None \/ mappings[o].eventType \in EventTypes
    BY <1>0 DEF TypeOK
  <2>2. UNCHANGED <<mappings, registry, started>>
    BY <1>6 DEF declareOutcome, engine
  <2>3. CASE emitInternal(ctx, "declareOutcome", k, mappings[o].eventType) /\ mappings[o] # None
    BY <1>4, <2>1, <2>2, <2>3
  <2>4. CASE \E code, data : Answer(ctx, "declareOutcome", code, data) /\ UNCHANGED emission
    BY <1>3, <2>2, <2>4
  <2>5. QED
    BY <1>6, <2>3, <2>4 DEF declareOutcome
<1>7. ASSUME NEW ctx \in Callers, NEW v \in Versions, start(ctx, v) PROVE TypeOK'
  <2>1. UNCHANGED <<mappings, emission, registry>> /\ requests' = requests + 1
    BY <1>7 DEF start, intake, Answer, Arrives
  <2>2. \A w \in Versions : registry[w] = None => started'[w] = started[w]
    BY <1>7 DEF start, StartCode
  <2>3. DOMAIN started' = Versions
    BY <1>0, <1>7 DEF TypeOK, start
  <2>4. QED
    BY <1>0, <2>1, <2>2, <2>3 DEF TypeOK, emission
<1>8. ASSUME NEW ctx \in Callers, NEW v \in Versions, NEW p \in Plans,
             registerWorkflow(ctx, v, p)
      PROVE  TypeOK'
  <2>1. UNCHANGED <<mappings, emission, started>> /\ requests' = requests + 1
    BY <1>8 DEF registerWorkflow, intake, Answer, Arrives
  <2>2. CASE registry' = registry
    BY <1>0, <2>1, <2>2 DEF TypeOK, emission
  <2>3. CASE /\ registry' = [registry EXCEPT ![v] = p]
             /\ registry[v] = None /\ p \in Accepted[v]
    <3>1. p # << >>
      BY <2>3 DEF Accepted, validateWorkflow
    <3>2. \A w \in Versions : registry'[w] = registry[w] \/ (registry[w] = None /\ registry'[w] = p)
      BY <2>3
    <3>3. DOMAIN registry' = Versions
      BY <1>0, <2>3 DEF TypeOK
    <3>4. QED
      BY <1>0, <2>1, <3>1, <3>2, <3>3 DEF TypeOK, emission
  <2>4. QED
    BY <1>8, <2>2, <2>3 DEF registerWorkflow, RegisterCode
<1>9. ASSUME NEW ctx \in Callers, Request(ctx) PROVE TypeOK'
  <2>1. ASSUME NEW k \in EventKeys, NEW t \in EventTypes, emitEvent(ctx, k, t) PROVE TypeOK'
    BY <1>3, <1>4, <2>1 DEF emitEvent, engine
  <2>2. ASSUME NEW op \in Elsewhere, Gated(ctx, op, AnyGate[op]) PROVE TypeOK'
    BY <1>3, <2>2 DEF Gated, intake, engine
  <2>3. QED
    BY <1>6, <1>7, <1>8, <1>9, <2>1, <2>2 DEF Request
<1>10. QED
  BY <1>1, <1>2, <1>5, <1>9 DEF Next, registerHandlers, intake, engine, vars

\* Every step keeps the invariant.
LEMMA Step == Safe /\ [Next]_vars => Safe'
<1> SUFFICES ASSUME Safe, [Next]_vars PROVE Safe'
  OBVIOUS
<1>0. GateSafe /\ AnswerIsEarned /\ EmissionsAreEarned
  BY DEF Safe
<1>1. CASE UNCHANGED <<gate, last, emitting>>
  <2>1. /\ GateSafe' /\ Len(grants') = Len(grants)
        /\ \A c, at, o : Admits(c, at, o)' <=> Admits(c, at, o)
    BY <1>0, <1>1, GateKept
  <2>2. AnswerIsEarned' /\ EmissionsAreEarned'
    BY <1>0, <1>1, <2>1 DEF AnswerIsEarned, EmissionsAreEarned
  <2>3. QED
    BY <2>1, <2>2, TypesStep DEF Safe
<1>2. CASE GateStep /\ UNCHANGED <<last, emitting>>
  BY <1>0, <1>2, GateStepSafe, OldAnswersStay, TypesStep DEF Safe
<1>3. CASE \E e \in emitting : Enqueue(e) \/ RecordEnqueued(e) \/ EmitFails(e)
  BY <1>3, EmissionGoesOn, TypesStep DEF Safe
<1>4. ASSUME NEW ctx \in Callers, Request(ctx) PROVE Safe'
  <2>1. PICK op \in DOMAIN AnyGate :
          \/ \E code, data : /\ Answer(ctx, op, code, data) /\ UNCHANGED emitting
                             /\ code # "denied" <=> requireAnyRole(ctx, AnyGate[op])
          \/ \E k, t : emitInternal(ctx, op, k, t) /\ requireAnyRole(ctx, AnyGate[op])
    BY <1>4, RequestsAreDecided
  <2>2. CASE \E code, data : /\ Answer(ctx, op, code, data) /\ UNCHANGED emitting
                             /\ code # "denied" <=> requireAnyRole(ctx, AnyGate[op])
    <3>1. PICK code, data : /\ Answer(ctx, op, code, data) /\ UNCHANGED emitting
                            /\ code # "denied" <=> requireAnyRole(ctx, AnyGate[op])
      BY <2>2
    <3>2. Decided(ctx, op, code)
      BY <1>0, <3>1, GateDecides
    <3>3. QED
      BY <3>1, <3>2, AnswerEffect, TypesStep DEF Safe
  <2>3. CASE \E k, t : emitInternal(ctx, op, k, t) /\ requireAnyRole(ctx, AnyGate[op])
    <3>1. Decided(ctx, op, "ok")
      BY <1>0, <2>3, GateDecides
    <3>2. QED
      BY <2>3, <3>1, EmissionEffect, TypesStep DEF Safe
  <2>4. QED
    BY <2>1, <2>2, <2>3
<1>5. QED
  BY <1>1, <1>2, <1>3, <1>4
     DEF Next, defineMapping, registerHandlers, intake, emission, vars

\* Safe is an invariant, and inductive.
THEOREM Inductive == Spec => []Safe
<1>1. Init => Safe
  <2> SUFFICES ASSUME Init PROVE Safe
    OBVIOUS
  <2>1. grants = << >> /\ Len(grants) = 0
    BY DEF Init, GateInit
  <2>2. GateTypeOK
    BY DEF Init, GateInit, GateTypeOK
  <2>3. HeldIsLastGranted
    BY <2>1 DEF Init, GateInit, HeldIsLastGranted, Held, Mine
  <2>4. TypeOK
    BY <2>2 DEF Init, TypeOK
  <2>5. AnswerIsEarned
    BY DEF Init, AnswerIsEarned
  <2>6. EmissionsAreEarned
    BY DEF Init, EmissionsAreEarned
  <2>7. QED
    BY <2>1, <2>2, <2>3, <2>4, <2>5, <2>6 DEF Safe, GateSafe
<1>2. QED
  BY <1>1, Step, PTL DEF Spec

\* What the edges keep is well typed; no execution exists of a version that
\* is not registered, and no plan without steps is.
THEOREM TypeCorrect == Spec => []TypeOK
<1>1. Safe => TypeOK
  BY DEF Safe
<1>2. QED
  BY <1>1, Inductive, PTL

\* Every gate of every edge: a request is let through exactly when the last
\* registration of its caller, in the name space of its kind, granted a role
\* the operation needs.
THEOREM RolesDecide == Spec => []ServedInRole
<1>1. Safe => ServedInRole
  BY DEF Safe, AnswerIsEarned, Admits, ServedInRole
<1>2. QED
  BY <1>1, Inductive, PTL

\* What was given to a caller or to an emission under way stays stored.
LEMMA AgreedStep == TypeOK /\ Agreed /\ [Next]_vars => Agreed'
<1> SUFFICES ASSUME TypeOK, Agreed, [Next]_vars PROVE Agreed'
  OBVIOUS
<1>1. CASE UNCHANGED emission
  BY <1>1 DEF Agreed, emission
<1>2. ASSUME NEW ctx, NEW op, NEW k, NEW t, emitInternal(ctx, op, k, t) PROVE Agreed'
  BY <1>2 DEF emitInternal, Agreed
<1>3. ASSUME NEW e \in emitting, Enqueue(e) PROVE Agreed'
  <2>1. e \in Emissions /\ e.key \in EventKeys /\ outbox \in [EventKeys -> Events \cup {None}]
    BY DEF TypeOK, Emissions
  <2>2. \A k \in EventKeys : outbox[k] # None => outbox'[k] = outbox[k]
    BY <1>3, <2>1 DEF Enqueue, enqueueIfAbsent
  <2> DEFINE f == [e EXCEPT !.stored = outbox'[e.key]]
  <2>3. f.key = e.key /\ f.stored = outbox'[e.key]
    BY <2>1 DEF Emissions
  <2>4. emitting' = (emitting \ {e}) \cup {f} /\ UNCHANGED <<audited, told>>
    BY <1>3 DEF Enqueue
  <2> HIDE DEF f
  <2>5. \A g \in emitting : g.key \in EventKeys
    BY DEF TypeOK, Emissions
  <2>6. QED
    BY <2>2, <2>3, <2>4, <2>5 DEF Agreed
<1>4. ASSUME NEW e \in emitting, RecordEnqueued(e) PROVE Agreed'
  <2>1. e.key \in EventKeys /\ told \in [EventKeys -> SUBSET Events]
    BY DEF TypeOK, Emissions
  <2>2. /\ outbox' = outbox /\ emitting' = emitting \ {e}
        /\ audited' = audited \cup {e.stored} /\ e.stored # None
        /\ told' = [told EXCEPT ![e.key] = @ \cup {e.stored}]
    BY <1>4 DEF RecordEnqueued
  <2>3. QED
    BY <2>1, <2>2 DEF Agreed
<1>5. ASSUME NEW e \in emitting, EmitFails(e) PROVE Agreed'
  <2>1. /\ UNCHANGED <<outbox, told>> /\ emitting' \subseteq emitting
        /\ audited \subseteq audited'
    BY <1>5 DEF EmitFails
  <2>2. QED
    BY <2>1 DEF Agreed
<1>6. ASSUME NEW ctx \in Callers, Request(ctx) PROVE Agreed'
  BY <1>1, <1>2, <1>6 DEF Request, Gated, emitEvent, declareOutcome, start, registerWorkflow,
     intake
<1>7. QED
  BY <1>1, <1>3, <1>4, <1>5, <1>6 DEF Next, defineMapping, registerHandlers, intake, vars

\* An event once stored is not replaced.
LEMMA StoredStays ==
  ASSUME TypeOK, [Next]_vars, NEW k \in EventKeys, outbox[k] # None
  PROVE  outbox'[k] = outbox[k]
<1>1. CASE UNCHANGED outbox
  BY <1>1
<1>2. ASSUME NEW e \in emitting, Enqueue(e) PROVE outbox'[k] = outbox[k]
  BY <1>2 DEF Enqueue, enqueueIfAbsent, TypeOK
<1>3. ASSUME NEW ctx \in Callers, Request(ctx) PROVE UNCHANGED outbox
  BY <1>3 DEF Request, Gated, emitEvent, declareOutcome, emitInternal, start, registerWorkflow,
     intake, emission
<1>4. QED
  BY <1>1, <1>2, <1>3 DEF Next, defineMapping, registerHandlers, RecordEnqueued, EmitFails,
     intake, emission, vars

\* emitInternal, its retries and its failures: all who are ever answered under
\* a key are given one event, which is stored, audited and never replaced.
THEOREM RetriesKeepOneEvent == Spec => RetriesAgree
<1>1. Init => Agreed
  BY DEF Init, Agreed
<1>2. TypeOK /\ Agreed /\ Agreed' /\ [Next]_vars =>
        [\A k \in EventKeys :
           /\ outbox[k] # None => outbox'[k] = outbox[k]
           /\ \A ev \in told'[k] : outbox'[k] = ev /\ ev \in audited']_vars
  BY StoredStays DEF Agreed
<1>3. QED
  BY <1>1, <1>2, AgreedStep, TypeCorrect, PTL DEF Spec, RetriesAgree

------------------------------------------------------------------------------
\* The registry takes exactly the sound ones among the plans.
LEMMA AcceptedAreSound == ASSUME NEW v \in Versions PROVE Accepted[v] = SoundPlans[v]
<1>1. ASSUME NEW plan \in Plans PROVE validateWorkflow(v, plan) <=> Sound(v, plan)
  <2> DEFINE D == {plan[i] : i \in DOMAIN plan}
  <2>1. plan \in Seq(D)
    BY PlansAssumption
  <2> HIDE DEF D
  <2>2. validateWorkflow(v, plan) <=>
          /\ Identified(v) /\ plan # << >> /\ Cardinality(Ids(plan)) = Len(plan)
          /\ \A i \in DOMAIN plan : plan[i].fields
          /\ Runnable(plan)
    BY ONLY <2>1, ValidationIsExact
  <2> QED
    BY <2>2 DEF Sound
<1> QED
  BY <1>1 DEF Accepted, SoundPlans

\* What is registered runs in the canonical order.
LEMMA AcceptedRunInOrder ==
  ASSUME NEW v \in Versions, NEW plan \in Accepted[v] PROVE Canonical(plan, topoOrder(plan))
<1> DEFINE D == {plan[i] : i \in DOMAIN plan}
<1>1. plan \in Seq(D)
  BY PlansAssumption DEF Accepted
<1>2. Distinct(plan)
  BY DEF Accepted, validateWorkflow, Distinct
<1>3. Runnable(plan)
  <2>1. plan \in SoundPlans[v]
    BY AcceptedAreSound
  <2> QED
    BY <2>1 DEF SoundPlans, Sound
<1> HIDE DEF D
<1> QED
  BY <1>1, <1>2, <1>3, TopoOrderIsCanonical

\* A registration answers by the plan, and a version keeps the plan that the
\* order of its execution was computed from.
LEMMA PlansStep == TypeOK /\ PlansInOrder /\ [Next]_vars => PlansInOrder'
<1> SUFFICES ASSUME TypeOK, PlansInOrder, [Next]_vars PROVE PlansInOrder'
  OBVIOUS
<1>0. DOMAIN registry = Versions /\ DOMAIN started = Versions
  BY DEF TypeOK
<1>1. CASE UNCHANGED <<registry, started, last>>
  BY <1>1 DEF PlansInOrder
<1>2. ASSUME NEW ctx, NEW op, NEW code, NEW data, UNCHANGED <<registry, started>>,
             Answer(ctx, op, code, data), op # "registerWorkflow"
      PROVE  PlansInOrder'
  BY <1>2 DEF Answer, Reply, PlansInOrder
<1>3. ASSUME NEW ctx \in Callers, NEW op \in Elsewhere, Gated(ctx, op, AnyGate[op])
      PROVE  PlansInOrder'
  <2>1. op # "registerWorkflow"
    BY DEF Elsewhere
  <2> QED
    BY <1>2, <1>3, <2>1 DEF Gated, engine
<1>4. ASSUME UNCHANGED <<registry, started>>, last' = last
             \/ \E e \in emitting : \E code, data : Reply(e.ctx, e.op, e.at, code, data)
      PROVE  PlansInOrder'
  <2>1. \A e \in emitting : e.op # "registerWorkflow"
    BY DEF TypeOK, Emissions
  <2>2. QED
    BY <1>4, <2>1 DEF Reply, PlansInOrder
<1>5. ASSUME NEW ctx \in Callers, NEW k \in EventKeys,
             \/ \E t \in EventTypes : emitEvent(ctx, k, t)
             \/ \E o \in Outcomes : declareOutcome(ctx, o, k)
      PROVE  PlansInOrder'
  BY <1>2, <1>4, <1>5 DEF emitEvent, declareOutcome, emitInternal, engine
<1>6. ASSUME NEW ctx \in Callers, NEW v \in Versions, start(ctx, v)
      PROVE  PlansInOrder'
  <2>1. registry' = registry /\ last'.op = "start"
    BY <1>6 DEF start, Answer, Reply
  <2>2. \/ started' = started
        \/ registry[v] # None /\ started' = [started EXCEPT ![v] = topoOrder(registry[v])]
    BY <1>6 DEF start, StartCode
  <2>3. ASSUME NEW w \in Versions, started'[w] # None
        PROVE  registry[w] # None /\ started'[w] = topoOrder(registry[w])
    BY <1>0, <2>2, <2>3 DEF PlansInOrder
  <2> QED
    BY <2>1, <2>3 DEF PlansInOrder
<1>7. ASSUME NEW ctx \in Callers, NEW v \in Versions, NEW p \in Plans,
             registerWorkflow(ctx, v, p)
      PROVE  PlansInOrder'
  <2> DEFINE code == RegisterCode(ctx, v, p)
  <2>1. /\ started' = started
        /\ registry' = IF code = "ok" THEN [registry EXCEPT ![v] = p] ELSE registry
        /\ last'.code = code
        /\ code # "denied" => last'.data = [sound |-> p \in SoundPlans[v]]
    BY <1>7 DEF registerWorkflow, Answer, Reply
  <2>2. code # "denied" => (code # "malformed" <=> p \in Accepted[v])
    BY DEF RegisterCode
  <2>3. code = "ok" => registry[v] = None /\ p \in Accepted[v]
    BY DEF RegisterCode
  <2> HIDE DEF code
  <2>4. ASSUME NEW w \in Versions
        PROVE  \/ registry'[w] = registry[w]
               \/ registry[w] = None /\ registry'[w] \in Accepted[w]
    BY <1>0, <2>1, <2>3
  <2>5. \A w \in Versions : registry'[w] # None => registry'[w] \in Accepted[w]
    BY <2>4 DEF PlansInOrder
  <2>6. \A w \in Versions : started[w] # None => registry'[w] = registry[w]
    BY <2>4 DEF PlansInOrder
  <2>7. \A w \in Versions :
          started'[w] # None => registry'[w] # None /\ started'[w] = topoOrder(registry'[w])
    BY <2>1, <2>6 DEF PlansInOrder
  <2>8. ASSUME last'.code # "denied"
        PROVE  last'.code # "malformed" <=> last'.data.sound
    <3>1. last'.data.sound <=> p \in SoundPlans[v]
      <4> DEFINE sound == p \in SoundPlans[v]
      <4>1. sound \in BOOLEAN
        OBVIOUS
      <4>2. last'.data = [sound |-> sound]
        BY <2>1, <2>8
      <4> HIDE DEF sound
      <4>3. last'.data.sound = sound
        BY ONLY <4>2
      <4> QED
        BY ONLY <4>1, <4>3 DEF sound
    <3>2. last'.code # "malformed" <=> p \in Accepted[v]
      BY <2>1, <2>2, <2>8
    <3> QED
      BY ONLY <3>1, <3>2, AcceptedAreSound
  <2> QED
    BY <2>5, <2>7, <2>8 DEF PlansInOrder
<1> QED
  <2>1. ASSUME NEW ctx \in Callers, Request(ctx) PROVE PlansInOrder'
    BY <1>3, <1>5, <1>6, <1>7, <2>1 DEF Request
  <2>2. ASSUME NEW e \in emitting, Enqueue(e) \/ RecordEnqueued(e) \/ EmitFails(e)
        PROVE  PlansInOrder'
    BY <1>4, <2>2 DEF Enqueue, RecordEnqueued, EmitFails, engine
  <2> QED
    BY <1>1, <2>1, <2>2 DEF Next, defineMapping, registerHandlers, engine, vars

\* validateWorkflow and topoOrder behind the edge: a definition is refused as
\* malformed exactly when it cannot be run to its end or leaves its steps
\* indistinct, and every execution has the canonical order of its plan.
THEOREM PlansAreRunInOrder == Spec => []PlansRunInOrder
<1>1. Init => PlansInOrder
  BY DEF Init, PlansInOrder
<1>2. TypeOK /\ PlansInOrder => PlansRunInOrder
  <2> SUFFICES ASSUME PlansInOrder, NEW v \in Versions, started[v] # None
               PROVE  Canonical(registry[v], started[v])
    BY DEF PlansInOrder, PlansRunInOrder
  <2>1. registry[v] \in Accepted[v] /\ started[v] = topoOrder(registry[v])
    BY DEF PlansInOrder
  <2> QED
    BY <2>1, AcceptedRunInOrder
<1> QED
  BY <1>1, <1>2, PlansStep, TypeCorrect, PTL DEF Spec
==============================================================================
