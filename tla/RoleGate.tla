------------------------------ MODULE RoleGate ------------------------------
(* The authentication substrate (libs/auth-kit) and the role gates of the   *)
(* services' edges.  Principals are registered under one of two names'      *)
(* spaces, services or humans; registering again replaces the roles.  Every *)
(* gated operation asks, before anything else, whether the caller holds one *)
(* of the roles its edge lists, and is answered "denied" if not.            *)
EXTENDS Integers, FiniteSets, Sequences

CONSTANTS
  Principals,   \* ids that callers present
  Granted,      \* the sets of roles registrations grant
  Unknown,      \* no registration
  MaxGrants     \* bound: registrations

VARIABLES
  services,     \* service identity -> its roles, or Unknown
  humans,       \* human principal -> its roles, or Unknown
  grants        \* history: every registration made, oldest first

gate == <<services, humans, grants>>

ROLES == {"platform_admin", "identity_steward", "audit_reader",
          "governance_admin", "agent_admin", "reviewer", "service"}
ACTOR_TYPES == {"agent", "service", "human", "ai", "system"}

ASSUME GrantAssumption ==
  /\ Granted \subseteq SUBSET ROLES
  /\ Unknown \notin Granted
  /\ MaxGrants \in Nat

Contexts == [actorType: ACTOR_TYPES, actorId: Principals]

\* mutant: whoever is not found among the humans is looked up as a service.
rolesForAny(ctx) ==
  IF ctx.actorType = "human" /\ humans[ctx.actorId] # Unknown
    THEN humans[ctx.actorId] ELSE services[ctx.actorId]

\* Agents and the system authenticate as services; `ai` holds no role.
rolesFor(ctx) ==
  CASE ctx.actorType \in {"service", "system", "agent"} -> services[ctx.actorId]
    [] ctx.actorType = "human" -> humans[ctx.actorId]
    [] OTHER -> Unknown

requireAnyRole(ctx, roles) ==
  rolesFor(ctx) # Unknown /\ rolesFor(ctx) \cap roles # {}

\* The roles each edge lists for its operations.
EventGate ==
  [declareOutcome |-> {"service", "agent_admin", "platform_admin"},
   emitEvent      |-> {"service", "agent_admin", "platform_admin"},
   replayEvents   |-> {"platform_admin"}]
WorkflowGate ==
  [registerWorkflow |-> {"governance_admin", "platform_admin"},
   start            |-> {"service", "agent_admin", "platform_admin"},
   resume           |-> {"service", "agent_admin", "platform_admin"},
   pause            |-> {"service", "agent_admin", "platform_admin"},
   replayWorkflow   |-> {"service", "platform_admin", "audit_reader"}]
RulesGate ==
  [registerRuleSet |-> {"governance_admin", "platform_admin"},
   evaluate        |-> {"service", "agent_admin", "platform_admin", "reviewer"},
   replayRules     |-> {"service", "platform_admin", "audit_reader"}]
AuthorizationGate ==
  [defineCapability |-> {"platform_admin"}, registerProvider |-> {"platform_admin"}]
AuditGate == [queryAudit |-> {"audit_reader", "platform_admin"}]

-----------------------------------------------------------------------------
GateInit ==
  /\ services = [p \in Principals |-> Unknown]
  /\ humans = [p \in Principals |-> Unknown]
  /\ grants = << >>

Granting(kind, p, roles) ==
  /\ Len(grants) < MaxGrants
  /\ grants' = Append(grants, [kind |-> kind, id |-> p, roles |-> roles])

registerService(p, roles) ==
  /\ Granting("service", p, roles)
  /\ services' = [services EXCEPT ![p] = roles]
  /\ UNCHANGED humans

registerHuman(p, roles) ==
  /\ Granting("human", p, roles)
  /\ humans' = [humans EXCEPT ![p] = roles]
  /\ UNCHANGED services

GateStep ==
  \/ \E p \in Principals, roles \in Granted :
       registerService(p, roles) \/ registerHuman(p, roles)
-----------------------------------------------------------------------------
GateTypeOK ==
  /\ services \in [Principals -> (SUBSET ROLES) \cup {Unknown}]
  /\ humans \in [Principals -> (SUBSET ROLES) \cup {Unknown}]

\* What a caller of this kind was last registered as: the roles of the last
\* registration, at or before `at`, in the name space of its kind.
RegisteredAs(ctx, at) ==
  LET kind == IF ctx.actorType = "human" THEN "human" ELSE "service"
      mine == {i \in 1..at : grants[i].kind = kind /\ grants[i].id = ctx.actorId}
  IN IF mine = {} \/ ctx.actorType = "ai" THEN {}
     ELSE grants[CHOOSE i \in mine : \A j \in mine : j <= i].roles
=============================================================================
