---------------------------- MODULE Authorization ----------------------------
(***************************************************************************)
(* The Authorization Service (platform/authorization/domain/service.ts):   *)
(* decisions composed of facts read one await at a time, while producers   *)
(* publish, capabilities are redefined, providers are registered, clocks   *)
(* run and stores reject.                                                  *)
(*                                                                         *)
(* One capability code and one subject.  A decision is one running call of *)
(* isAuthorized; it is also the decisionId, which newOpaqueId makes unique.*)
(***************************************************************************)
EXTENDS Integers, Sequences, FiniteSets

CONSTANTS
  Decisions, FactTypes, Producers,
  Providers,     \* FactProvider objects
  FactOf,        \* provider -> its factType
  ProducerOf,    \* provider -> its producingService
  Nobody,        \* no provider is registered
  Wired,         \* fact type -> provider registered at start-up
  Definitions,   \* capability definitions an administrator may install
  Undefined,     \* the code is not configured
  Values,        \* what a fact may say
  Initially,     \* what each fact says at first
  Unparsable,    \* an asOf that Date.parse does not understand
  Unread,        \* a fact not (yet) among the facts of a decision
  Compose(_, _), \* definition, facts -> "allow" or "throws"; all else denies
  MaxStaleness,  \* decision -> ceiling of its request, or the default
  Skew,          \* by how much producers' clocks run ahead
  MaxChanges, MaxFaults   \* bounds: changes around the decisions, rejections

ASSUME CapabilityAssumption ==
  /\ \A c \in Definitions :
       /\ c.requires \in Seq(FactTypes)
       /\ c.version \in Nat
       /\ c.active \in BOOLEAN
  /\ Undefined \notin Definitions
ASSUME WiringAssumption ==
  /\ FactOf \in [Providers -> FactTypes]
  /\ ProducerOf \in [Providers -> Producers]
  /\ Wired \in [FactTypes -> Providers \cup {Nobody}]
ASSUME SentinelAssumption == Nobody \notin Providers /\ Unparsable \notin Int
ASSUME LimitAssumption ==
  /\ MaxStaleness \in [Decisions -> Nat]
  /\ Initially \in [FactTypes -> Values]
  /\ Skew \in Nat

VARIABLES
  capability,   \* what defineCapability stored last
  installed,    \* history: every definition it ever stored
  provider,     \* fact type -> provider registered last
  world,        \* fact type -> what its producer asserts now
  clock,
  pc,           \* where a decision is
  cap,          \* the definition it looked up
  started,      \* nowMs, and the revision each fact had then
  facts,        \* what it has read
  reading,      \* index of the fact it awaits
  verdict,      \* allowed, reason, rulesVersion
  inFlight,     \* getFact calls no provider has answered yet
  audit, log,   \* decisions audited, decisions logged
  changes, faults

rules  == <<capability, installed>>
call   == <<pc, cap, started, facts, reading, verdict>>
record == <<audit, log>>
counts == <<changes, faults>>
vars   == <<rules, provider, world, clock, call, inFlight, record, counts>>

NoVerdict == [allowed |-> FALSE, reason |-> "none", version |-> 0]
Reasons == {"none", "unconfigured_capability", "missing_provider",
            "fact_unavailable", "stale_fact",
            "composition_error", "composed_allow", "composed_deny"}
Dates == Int \cup {Unparsable}
Assertion == [value : Values, asOf : Dates, rev : Nat]
Fact == [value : Values, asOf : Dates, rev : Nat, by : Producers]
Read == Fact \cup {Unread}
ASSUME AbsenceAssumption == Unread \notin Fact

\* One getFact: the decision that awaits it, the index of the requirement, the
\* provider asked, and the fact that provider has read, if it has.
Calls == [of : Decisions, nth : Nat, asked : Providers, fact : Read]

\* Mutants.
StaleIgnoresNaN(fact, nowMs, ceiling) ==
  IF fact.asOf = Unparsable THEN FALSE ELSE nowMs - fact.asOf > ceiling
VerdictFailsOpen(outcome, version) ==
  [allowed |-> outcome \notin {"deny", "unconfigured_capability"},
   reason  |-> IF outcome = "throws" THEN "composition_error" ELSE
               IF outcome = "allow" THEN "composed_allow" ELSE
               IF outcome = "deny" THEN "composed_deny" ELSE outcome,
   version |-> version]

\* NaN or too old.  The age of a fact dated in the future is negative.
Stale(fact, nowMs, ceiling) ==
  IF fact.asOf = Unparsable THEN TRUE ELSE nowMs - fact.asOf > ceiling

\* What the predicate made of the facts: whatever is not an allow denies.
Composed(c, fs) ==
  IF Compose(c, fs) \in {"allow", "throws"} THEN Compose(c, fs) ELSE "deny"

\* What finalize is told: every outcome but a composed "allow" denies.
Verdict(outcome, version) ==
  [allowed |-> outcome = "allow",
   reason  |-> CASE outcome = "allow"  -> "composed_allow"
                 [] outcome = "deny"   -> "composed_deny"
                 [] outcome = "throws" -> "composition_error"
                 [] OTHER -> outcome,
   version |-> version]

Init ==
  /\ capability = Undefined
  /\ installed = {}
  /\ provider = Wired
  /\ world = [f \in FactTypes |-> [value |-> Initially[f], asOf |-> 0, rev |-> 0]]
  /\ clock = 0
  /\ pc = [d \in Decisions |-> "idle"]
  /\ cap = [d \in Decisions |-> Undefined]
  /\ started = [d \in Decisions |-> [at |-> 0, rev |-> [f \in FactTypes |-> 0]]]
  /\ facts = [d \in Decisions |-> [f \in FactTypes |-> Unread]]
  /\ reading = [d \in Decisions |-> 0]
  /\ verdict = [d \in Decisions |-> NoVerdict]
  /\ inFlight = {}
  /\ audit = {} /\ log = {}
  /\ changes = 0 /\ faults = 0

------------------------------------------------------------------------------
\* The surroundings.

Publish(f, v, t) ==
  /\ changes < MaxChanges
  /\ world' = [world EXCEPT ![f] = [value |-> v, asOf |-> t, rev |-> @.rev + 1]]
  /\ changes' = changes + 1
  /\ UNCHANGED <<rules, provider, clock, call, inFlight, record, faults>>

Tick ==
  /\ changes < MaxChanges
  /\ clock' = clock + 1
  /\ changes' = changes + 1
  /\ UNCHANGED <<rules, provider, world, call, inFlight, record, faults>>

\* Whatever was stored is replaced, also under the version it carried.
DefineCapability(c) ==
  /\ changes < MaxChanges
  /\ capability' = c
  /\ installed' = installed \cup {c}
  /\ changes' = changes + 1
  /\ UNCHANGED <<provider, world, clock, call, inFlight, record, faults>>

\* Mutant: the last registration wins.
RegisterAnyone(p) ==
  /\ provider' = [provider EXCEPT ![FactOf[p]] = p]
  /\ UNCHANGED <<rules, world, clock, call, inFlight, record, counts>>

\* A second producer is refused with DuplicateProducerError; another provider
\* of the same producer replaces the first, also while that one is being read.
RegisterFactProvider(p) ==
  /\ LET existing == provider[FactOf[p]] IN
       existing # Nobody => ProducerOf[existing] = ProducerOf[p]
  /\ provider' = [provider EXCEPT ![FactOf[p]] = p]
  /\ UNCHANGED <<rules, world, clock, call, inFlight, record, counts>>

\* Between the call and its answer a provider reads what its producer asserts,
\* at a moment of its own.
ProviderReads(k) ==
  /\ k.fact = Unread
  /\ LET now == world[cap[k.of].requires[k.nth]]
         fact == [value |-> now.value, asOf |-> now.asOf, rev |-> now.rev,
                  by |-> ProducerOf[k.asked]]
     IN  inFlight' = (inFlight \ {k}) \cup {[k EXCEPT !.fact = fact]}
  /\ UNCHANGED <<rules, provider, world, clock, call, record, counts>>

------------------------------------------------------------------------------
\* isAuthorized.

Conclude(d, outcome, version) ==
  /\ verdict' = [verdict EXCEPT ![d] = Verdict(outcome, version)]
  /\ pc' = [pc EXCEPT ![d] = "audit"]
  /\ UNCHANGED reading

\* From the head of the loop, with n facts read, to the next await: ask the
\* next provider, deny because there is none, or compose.
Proceed(d, c, n, fs, unanswered) ==
  \/ /\ n = Len(c.requires)
     /\ Conclude(d, Composed(c, fs), c.version)
     /\ inFlight' = unanswered
  \/ /\ n < Len(c.requires) /\ provider[c.requires[n + 1]] = Nobody
     /\ Conclude(d, "missing_provider", c.version)
     /\ inFlight' = unanswered
  \/ /\ n < Len(c.requires) /\ provider[c.requires[n + 1]] # Nobody
     /\ pc' = [pc EXCEPT ![d] = "reading"]
     /\ reading' = [reading EXCEPT ![d] = n + 1]
     /\ inFlight' = unanswered \cup
          {[of |-> d, nth |-> n + 1, asked |-> provider[c.requires[n + 1]],
            fact |-> Unread]}
     /\ UNCHANGED verdict

IsAuthorized(d) ==
  /\ pc[d] = "idle"
  /\ cap' = [cap EXCEPT ![d] = capability]
  /\ started' = [started EXCEPT ![d] =
                   [at |-> clock, rev |-> [f \in FactTypes |-> world[f].rev]]]
  /\ IF capability = Undefined \/ ~capability.active
     THEN Conclude(d, "unconfigured_capability", 0) /\ UNCHANGED inFlight
     ELSE Proceed(d, capability, 0, facts[d], inFlight)
  /\ UNCHANGED <<rules, provider, world, clock, facts, record, counts>>

\* Mutant: the fact of an earlier decision is taken for the live one.
AnswerCached(d, k) ==
  /\ k.fact # Unread /\ pc[d] = "reading" /\ reading[d] = k.nth
  /\ LET f == cap[d].requires[k.nth]
         past == {e.facts[f] : e \in log} \ {Unread}
         fact == IF past = {} THEN k.fact ELSE CHOOSE x \in past : TRUE
         fs == [facts[d] EXCEPT ![f] = fact]
     IN  /\ facts' = [facts EXCEPT ![d] = fs]
         /\ Proceed(d, cap[d], k.nth, fs, inFlight \ {k})
  /\ UNCHANGED <<rules, provider, world, clock, cap, started, record, counts>>

\* Mutant: a late answer is taken though the race is over.
AnswerLate(d, k) ==
  /\ k.fact # Unread
  /\ LET fs == [facts[d] EXCEPT ![cap[d].requires[k.nth]] = k.fact]
     IN  /\ facts' = [facts EXCEPT ![d] = fs]
         /\ Conclude(d, Composed(cap[d], fs), cap[d].version)
         /\ inFlight' = inFlight \ {k}
  /\ UNCHANGED <<rules, provider, world, clock, cap, started, record, counts>>

\* Mutant: the definition is looked up again after the await.
AnswerNewRules(d, k) ==
  LET fs == [facts[d] EXCEPT ![cap[d].requires[k.nth]] = k.fact] IN
  /\ k.fact # Unread /\ pc[d] = "reading" /\ reading[d] = k.nth
  /\ facts' = [facts EXCEPT ![d] = fs]
  /\ IF k.nth < Len(cap[d].requires) THEN Proceed(d, cap[d], k.nth, fs, inFlight)
     ELSE /\ Conclude(d, Composed(capability, fs), cap[d].version)
          /\ UNCHANGED inFlight
  /\ UNCHANGED <<rules, provider, world, clock, cap, started, record, counts>>

\* The answer arrives with what the provider read.  An answer whose race is
\* over goes nowhere.
Answer(d, k) ==
  LET fs == [facts[d] EXCEPT ![cap[d].requires[k.nth]] = k.fact]
      unanswered == inFlight \ {k}
      racing == pc[d] = "reading" /\ reading[d] = k.nth
      stale == Stale(k.fact, started[d].at, MaxStaleness[d])
  IN
  /\ k.fact # Unread
  /\ \/ /\ ~racing
        /\ inFlight' = unanswered
        /\ UNCHANGED <<facts, pc, reading, verdict>>
     \/ /\ racing /\ stale
        /\ Conclude(d, "stale_fact", cap[d].version)
        /\ inFlight' = unanswered
        /\ UNCHANGED facts
     \/ /\ racing /\ ~stale
        /\ facts' = [facts EXCEPT ![d] = fs]
        /\ Proceed(d, cap[d], k.nth, fs, unanswered)
  /\ UNCHANGED <<rules, provider, world, clock, cap, started, record, counts>>

\* Mutant: without a timer only an answered read can fail.
FactFailsUntimed(d) ==
  /\ pc[d] = "reading"
  /\ \A k \in inFlight : k.of = d /\ k.nth = reading[d] => k.fact # Unread
  /\ Conclude(d, "fact_unavailable", cap[d].version)
  /\ UNCHANGED <<rules, provider, world, clock, cap, started, facts,
                 inFlight, record, counts>>

\* The timer of withTimeout, or a provider that throws: one catch takes both,
\* and only its wording tells them apart.  A fact already read may still
\* arrive; what a provider reads after the race goes nowhere, and is not kept.
FactFails(d) ==
  /\ pc[d] = "reading"
  /\ Conclude(d, "fact_unavailable", cap[d].version)
  /\ inFlight' = {k \in inFlight : k.of # d \/ k.fact # Unread}
  /\ UNCHANGED <<rules, provider, world, clock, cap, started, facts, record,
                 counts>>

\* What is recorded of a decision, in the audit and in the log.
Entry(d) == [id |-> d, facts |-> facts[d], verdict |-> verdict[d]]

\* Mutant: the append does not wait for the audit entry.
AuditForgotten(d) ==
  /\ pc[d] = "audit"
  /\ pc' = [pc EXCEPT ![d] = "append"]
  /\ UNCHANGED <<rules, provider, world, clock, cap, started, facts,
                 reading, inFlight, verdict, record, counts>>

\* finalize: first the audit entry, then the log, then the answer.
RecordAudit(d) ==
  /\ pc[d] = "audit"
  /\ audit' = audit \cup {Entry(d)}
  /\ pc' = [pc EXCEPT ![d] = "append"]
  /\ UNCHANGED <<rules, provider, world, clock, cap, started, facts,
                 reading, inFlight, verdict, log, counts>>

AppendLog(d) ==
  /\ pc[d] = "append"
  /\ log' = log \cup {Entry(d)}
  /\ pc' = [pc EXCEPT ![d] = "returned"]
  /\ UNCHANGED <<rules, provider, world, clock, cap, started, facts,
                 reading, inFlight, verdict, audit, counts>>

\* A store rejects, or the process dies: the caller has no decision.
Rejects(d) ==
  /\ pc[d] \in {"audit", "append"}
  /\ faults < MaxFaults
  /\ faults' = faults + 1
  /\ pc' = [pc EXCEPT ![d] = "rejected"]
  /\ UNCHANGED <<rules, provider, world, clock, cap, started, facts,
                 reading, inFlight, verdict, record, changes>>

Surroundings ==
  \/ \E f \in FactTypes, v \in Values, t \in {clock + Skew, Unparsable} :
       Publish(f, v, t)
  \/ Tick
  \/ \E c \in Definitions : DefineCapability(c)
  \/ \E p \in Providers : RegisterFactProvider(p)
  \/ \E k \in inFlight : ProviderReads(k)
Decide(d) ==
  \/ IsAuthorized(d)
  \/ \E k \in inFlight : k.of = d /\ Answer(d, k)
  \/ FactFails(d)
  \/ RecordAudit(d)
  \/ AppendLog(d)
  \/ Rejects(d)

Next == Surroundings \/ (\E d \in Decisions : Decide(d))
Spec == Init /\ [][Next]_vars

\* No provider is bound to answer: the timer fires, stores answer or reject.
FairSpec ==
  /\ Spec
  /\ \A d \in Decisions :
       /\ WF_vars(FactFails(d))
       /\ WF_vars(RecordAudit(d) \/ AppendLog(d))
------------------------------------------------------------------------------
TypeOK ==
  /\ capability \in Definitions \cup {Undefined}
  /\ installed \subseteq Definitions
  /\ provider \in [FactTypes -> Providers \cup {Nobody}]
  /\ world \in [FactTypes -> Assertion]
  /\ clock \in Nat
  /\ pc \in [Decisions -> {"idle", "reading", "audit", "append", "returned", "rejected"}]
  /\ cap \in [Decisions -> Definitions \cup {Undefined}]
  /\ started \in [Decisions -> [at : Nat, rev : [FactTypes -> Nat]]]
  /\ facts \in [Decisions -> [FactTypes -> Read]]
  /\ reading \in [Decisions -> Nat]
  /\ inFlight \subseteq Calls
  /\ verdict \in [Decisions -> [allowed : BOOLEAN, reason : Reasons, version : Nat]]
  /\ audit \subseteq [id : Decisions, facts : [FactTypes -> Read],
                      verdict : [allowed : BOOLEAN, reason : Reasons, version : Nat]]
  /\ log \subseteq audit

\* An allow that was recorded anywhere rests on every fact its capability
\* required when the decision began, none of them older than the request
\* allowed then, and on nothing a later redefinition, timeout or failure left
\* behind, though the definition, the providers and the facts may all have
\* been replaced between two reads
\* (service.ts: "FAIL CLOSED: provider error/timeout/missing/stale").
AllowIsEarned ==
  \A e \in audit : e.verdict.allowed =>
    LET c == cap[e.id] IN
      /\ c \in installed /\ c.active /\ c.version = e.verdict.version
      /\ Compose(c, e.facts) = "allow"
      /\ \A i \in 1..Len(c.requires) :
           LET fact == e.facts[c.requires[i]] IN
           /\ fact # Unread /\ fact.asOf # Unparsable
           /\ started[e.id].at - fact.asOf <= MaxStaleness[e.id]

\* No enforcement cache: a fact a decision composed is no older than what its
\* producer asserted when the decision began, so a revocation published
\* before a request is never missed.
RevocationSeen ==
  \A d \in Decisions, f \in FactTypes :
    facts[d][f] # Unread => facts[d][f].rev >= started[d].rev[f]

\* reproduceDecision: the recorded version must be the capability's; a denial
\* that composed nothing counts as reproduced.
Reproduces(e, c) ==
  /\ e.verdict.version = c.version
  /\ \/ e.verdict.reason \notin {"composed_allow", "composed_deny"}
     \/ (Compose(c, e.facts) = "allow") = e.verdict.allowed

\* Two different definitions were stored under version v: defineCapability
\* lets them.
Forked(v) ==
  \E c1, c2 \in installed : c1 # c2 /\ c1.version = v /\ c2.version = v

\* What a caller was told is what the audit holds and what the log can
\* reproduce, one entry per decision, whatever rejected on the way; and a
\* logged decision is reproduced by the definition it began with, whatever was
\* redefined meanwhile, hence by every definition ever stored under the version
\* it names unless that version was forked.
AnswersAreOnRecord ==
  /\ \A e1, e2 \in audit : e1.id = e2.id => e1 = e2
  /\ \A d \in Decisions : pc[d] = "returned" => Entry(d) \in log /\ Entry(d) \in audit
  /\ \A e \in log : cap[e.id] # Undefined /\ cap[e.id].active
                      => Reproduces(e, cap[e.id])
  /\ \A e \in log, c \in installed :
       c.version = e.verdict.version => Reproduces(e, c) \/ Forked(c.version)

\* Once a decision is concluded nothing that arrives late turns it around.
VerdictIsFinal ==
  [][\A d \in Decisions : pc[d] \notin {"idle", "reading"} =>
       /\ verdict'[d] = verdict[d]
       /\ facts'[d] = facts[d]
       /\ pc'[d] \notin {"idle", "reading"}]_vars

\* One authoritative producer: every fact on record, of any decision at any
\* time, came from the producer whose provider is registered for its type now,
\* though that provider may have been replaced while it was being read.
FactsHaveOneSource ==
  \A e \in audit, f \in FactTypes :
    e.facts[f] # Unread =>
      provider[f] # Nobody /\ e.facts[f].by = ProducerOf[provider[f]]

\* A caller is answered even if no provider ever answers.
EveryDecisionEnds ==
  \A d \in Decisions : pc[d] # "idle" ~> pc[d] \in {"returned", "rejected"}
==============================================================================
