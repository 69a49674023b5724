-------------------------- MODULE AuthorizationProofs --------------------------
(***************************************************************************)
(* Proofs about Authorization: whatever the capabilities, the facts, the   *)
(* clocks and the number of overlapping decisions are.                     *)
(***************************************************************************)
EXTENDS Authorization, TLAPS

\* A fact decision d read and may compose.
Usable(d, f) ==
  /\ facts[d][f] # Unread
  /\ ~Stale(facts[d][f], started[d].at, MaxStaleness[d])

\* While it reads, d holds an active definition and a usable fact for every
\* index it has passed; before it begins it has read nothing.
SafeReading(d) ==
  /\ pc[d] = "idle" => \A f \in FactTypes : facts[d][f] = Unread
  /\ pc[d] = "reading" =>
       /\ cap[d] \in Definitions /\ cap[d].active
       /\ reading[d] \in 1..Len(cap[d].requires)
       /\ \A i \in 1..(reading[d] - 1) : Usable(d, cap[d].requires[i])
ReadingIsSafe == \A d \in Decisions : SafeReading(d)

\* Revisions only grow after a decision took note of them.
RevisionsGrow ==
  /\ \A d \in Decisions, f \in FactTypes :
       pc[d] # "idle" => world[f].rev >= started[d].rev[f]
  /\ RevocationSeen

\* p is a provider of the producer that is registered for f.
Authoritative(p, f) ==
  provider[f] # Nobody /\ ProducerOf[provider[f]] = ProducerOf[p]

\* A call under way was made for a requirement of its decision, of a provider
\* of the one producer, and what it read is no older than its decision.
SafeCall(k) ==
  LET f == cap[k.of].requires[k.nth] IN
  /\ pc[k.of] # "idle" /\ cap[k.of] \in Definitions
  /\ k.nth \in 1..Len(cap[k.of].requires)
  /\ Authoritative(k.asked, f)
  /\ k.fact # Unread => /\ k.fact.rev >= started[k.of].rev[f]
                        /\ k.fact.by = ProducerOf[k.asked]
CallsAreSafe == \A k \in inFlight : SafeCall(k)

\* What a decision has read came from the one producer.
Sourced(d) ==
  \A f \in FactTypes : facts[d][f] # Unread =>
    provider[f] # Nobody /\ facts[d][f].by = ProducerOf[provider[f]]
FactsAreSourced == \A d \in Decisions : Sourced(d)

\* A definition in use was installed.
InUse ==
  /\ capability \in installed \cup {Undefined}
  /\ \A d \in Decisions : cap[d] \in installed \cup {Undefined}

\* What a concluded verdict rests on.
Rests(d, c) ==
  /\ c \in Definitions
  /\ (Compose(c, facts[d]) = "allow") = verdict[d].allowed
  /\ verdict[d].allowed =>
       c.active /\ \A i \in 1..Len(c.requires) : Usable(d, c.requires[i])
SafeVerdict(d) ==
  /\ pc[d] \in {"idle", "reading"} => verdict[d] = NoVerdict
  /\ pc[d] \notin {"idle", "reading"} /\ cap[d] # Undefined /\ cap[d].active =>
       verdict[d].version = cap[d].version
  /\ verdict[d].allowed => verdict[d].reason = "composed_allow"
  /\ verdict[d].reason \in {"composed_allow", "composed_deny"} =>
       Rests(d, cap[d]) /\ verdict[d].version = cap[d].version
VerdictsRest == \A d \in Decisions : SafeVerdict(d)

\* An audit entry is its decision's, and the audit comes first.
SafeEntry(d) ==
  /\ \A e \in audit :
       e.id = d => e = Entry(d) /\ pc[d] \in {"append", "returned", "rejected"}
  /\ pc[d] \in {"append", "returned"} => Entry(d) \in audit
  /\ pc[d] = "returned" => Entry(d) \in log
EntriesAreOwn == \A d \in Decisions : SafeEntry(d)

Safe ==
  /\ TypeOK /\ InUse /\ ReadingIsSafe /\ RevisionsGrow
  /\ CallsAreSafe /\ FactsAreSourced /\ VerdictsRest /\ EntriesAreOwn

------------------------------------------------------------------------------
\* What a decision can be concluded with.
Composable == {"allow", "deny", "throws"}
Outcomes == Composable \cup
  {"unconfigured_capability", "missing_provider", "fact_unavailable", "stale_fact"}
Verdicts == [allowed : BOOLEAN, reason : Reasons, version : Nat]

\* Whatever a capability's predicate does, the code takes it for one of three
\* outcomes, and only an allow for an allow.
LEMMA ComposedShape ==
  ASSUME NEW c, NEW fs
  PROVE  /\ Composed(c, fs) \in Composable
         /\ Composed(c, fs) = "allow" <=> Compose(c, fs) = "allow"
BY DEF Composed, Composable

\* finalize is told a verdict of the declared type, and which outcome it was
\* can be read off it: only an allow allows.
LEMMA VerdictShape ==
  ASSUME NEW outcome \in Outcomes, NEW version \in Nat
  PROVE  LET v == Verdict(outcome, version) IN
         /\ v \in Verdicts
         /\ v.version = version
         /\ v.allowed <=> outcome = "allow"
         /\ v.reason = "composed_allow" <=> outcome = "allow"
         /\ v.reason = "composed_deny" <=> outcome = "deny"
BY DEF Outcomes, Composable, Verdict, Verdicts, Reasons

\* A definition's requirements are fact types.
LEMMA RequirementsAreFactTypes ==
  ASSUME NEW c \in Definitions
  PROVE  /\ Len(c.requires) \in Nat
         /\ \A i \in 1..Len(c.requires) : c.requires[i] \in FactTypes
         /\ c.version \in Nat
BY CapabilityAssumption

\* Concluding d moves d to the audit and leaves every other decision alone.
LEMMA ConcludeEffect ==
  ASSUME TypeOK, NEW d \in Decisions, NEW outcome \in Outcomes,
         NEW version \in Nat, Conclude(d, outcome, version)
  PROVE  /\ verdict' \in [Decisions -> Verdicts]
         /\ pc' \in [Decisions -> {"idle", "reading", "audit", "append", "returned", "rejected"}]
         /\ reading' = reading
         /\ pc'[d] = "audit" /\ verdict'[d] = Verdict(outcome, version)
         /\ \A o \in Decisions \ {d} : pc'[o] = pc[o] /\ verdict'[o] = verdict[o]
<1>1. Verdict(outcome, version) \in Verdicts
  BY VerdictShape
<1>2. QED
  BY <1>1 DEF Conclude, TypeOK, Verdicts

\* The call that asks for requirement n + 1.
NextCall(d, c, n) ==
  [of |-> d, nth |-> n + 1, asked |-> provider[c.requires[n + 1]], fact |-> Unread]

\* From the head of the loop d either concludes, and composes only after the
\* last requirement, or awaits the next one.
LEMMA ProceedEffect ==
  ASSUME TypeOK, NEW d \in Decisions, NEW c \in Definitions,
         NEW n \in 0..Len(c.requires), NEW fs, NEW unanswered,
         Proceed(d, c, n, fs, unanswered)
  PROVE  \/ \E outcome \in Outcomes :
              /\ outcome \in {"allow", "deny"} =>
                   /\ n = Len(c.requires)
                   /\ (Compose(c, fs) = "allow") = (outcome = "allow")
              /\ Conclude(d, outcome, c.version)
              /\ inFlight' = unanswered
         \/ /\ n + 1 \in 1..Len(c.requires)
            /\ provider[c.requires[n + 1]] # Nobody
            /\ pc' = [pc EXCEPT ![d] = "reading"]
            /\ reading' = [reading EXCEPT ![d] = n + 1]
            /\ inFlight' = unanswered \cup {NextCall(d, c, n)}
            /\ verdict' = verdict
<1>1. Len(c.requires) \in Nat
  BY RequirementsAreFactTypes
<1>2. CASE /\ n = Len(c.requires)
           /\ Conclude(d, Composed(c, fs), c.version)
           /\ inFlight' = unanswered
  BY <1>2, ComposedShape DEF Outcomes
<1>3. CASE /\ Conclude(d, "missing_provider", c.version)
           /\ inFlight' = unanswered
  BY <1>3 DEF Outcomes
<1>4. CASE /\ n < Len(c.requires) /\ provider[c.requires[n + 1]] # Nobody
           /\ pc' = [pc EXCEPT ![d] = "reading"]
           /\ reading' = [reading EXCEPT ![d] = n + 1]
           /\ inFlight' = unanswered \cup {NextCall(d, c, n)}
           /\ UNCHANGED verdict
  BY <1>1, <1>4
<1>5. QED
  BY <1>2, <1>3, <1>4 DEF Proceed, NextCall

------------------------------------------------------------------------------
\* An awaited fact that arrives in time is one the decision requires.
LEMMA AwaitedFact ==
  ASSUME TypeOK, ReadingIsSafe, NEW d \in Decisions, pc[d] = "reading"
  PROVE  /\ cap[d] \in Definitions
         /\ reading[d] \in 1..Len(cap[d].requires)
         /\ cap[d].requires[reading[d]] \in FactTypes
<1>1. /\ cap[d] \in Definitions
      /\ reading[d] \in 1..Len(cap[d].requires)
  BY DEF ReadingIsSafe, SafeReading
<1>2. cap[d].requires[reading[d]] \in FactTypes
  BY <1>1, RequirementsAreFactTypes
<1>3. QED
  BY <1>1, <1>2 DEF TypeOK

\* What a provider reads is a fact, its producer's.
LEMMA ReadTyped ==
  ASSUME TypeOK, CallsAreSafe, NEW k \in inFlight, ProviderReads(k)
  PROVE  \E fact \in Fact :
           /\ inFlight' = (inFlight \ {k}) \cup {[k EXCEPT !.fact = fact]}
           /\ inFlight' \subseteq Calls
           /\ fact.rev = world[cap[k.of].requires[k.nth]].rev
           /\ fact.by = ProducerOf[k.asked]
<1> DEFINE now == world[cap[k.of].requires[k.nth]]
           fact == [value |-> now.value, asOf |-> now.asOf, rev |-> now.rev,
                    by |-> ProducerOf[k.asked]]
<1>1. k \in Calls /\ SafeCall(k)
  BY DEF TypeOK, CallsAreSafe
<1>2. now \in Assertion
  <2>1. cap[k.of].requires[k.nth] \in FactTypes
    BY <1>1, RequirementsAreFactTypes DEF SafeCall
  <2>2. QED
    BY <2>1 DEF TypeOK
<1>3. fact \in Fact
  BY <1>1, <1>2, WiringAssumption DEF Assertion, Fact, Calls
<1>4. [k EXCEPT !.fact = fact] \in Calls
  BY <1>1, <1>3 DEF Calls, Read
<1>5. inFlight' = (inFlight \ {k}) \cup {[k EXCEPT !.fact = fact]}
  BY DEF ProviderReads
<1>6. inFlight' \subseteq Calls
  BY <1>4, <1>5 DEF TypeOK
<1>7. QED
  BY <1>3, <1>5, <1>6

\* Every step keeps the types, a step of the surroundings first.
LEMMA SurroundingsTyped == TypeOK /\ CallsAreSafe /\ Surroundings => TypeOK'
<1> SUFFICES ASSUME TypeOK, CallsAreSafe, Surroundings PROVE TypeOK'
  OBVIOUS
<1>1. ASSUME NEW f \in FactTypes, NEW v \in Values,
             NEW t \in {clock + Skew, Unparsable}, Publish(f, v, t)
      PROVE  TypeOK'
  <2>1. t \in Int \cup {Unparsable}
    BY LimitAssumption DEF TypeOK
  <2>2. world[f].rev + 1 \in Nat
    BY DEF TypeOK, Assertion
  <2>3. [value |-> v, asOf |-> t, rev |-> world[f].rev + 1] \in Assertion
    BY <2>1, <2>2 DEF Assertion, Dates
  <2>4. world' \in [FactTypes -> Assertion]
    BY <1>1, <2>3 DEF Publish, TypeOK
  <2>5. QED
    BY <1>1, <2>4 DEF Publish, TypeOK, rules, call, record
<1>2. CASE Tick
  BY <1>2 DEF Tick, TypeOK, rules, call, record
<1>3. CASE \E c \in Definitions : DefineCapability(c)
  BY <1>3 DEF DefineCapability, TypeOK, call, record
<1>4. CASE \E p \in Providers : RegisterFactProvider(p)
  BY <1>4, WiringAssumption DEF RegisterFactProvider, TypeOK, rules, call, record, counts
<1>5. CASE \E k \in inFlight : ProviderReads(k)
  <2>1. PICK k \in inFlight : ProviderReads(k)
    BY <1>5
  <2>2. inFlight' \subseteq Calls
    BY <2>1, ReadTyped DEF TypeOK
  <2>3. QED
    BY <2>1, <2>2 DEF ProviderReads, TypeOK, rules, call, record, counts
<1>6. QED
  BY <1>1, <1>2, <1>3, <1>4, <1>5 DEF Surroundings

\* Proceeding to the next await or to a verdict keeps the types.
LEMMA ProceedTyped ==
  ASSUME TypeOK, NEW d \in Decisions, NEW c \in Definitions,
         NEW n \in 0..Len(c.requires), NEW fs,
         NEW unanswered \in SUBSET Calls,
         Proceed(d, c, n, fs, unanswered)
  PROVE  /\ verdict' \in [Decisions -> Verdicts]
         /\ pc' \in [Decisions -> {"idle", "reading", "audit", "append", "returned", "rejected"}]
         /\ reading' \in [Decisions -> Nat]
         /\ inFlight' \subseteq Calls
<1>1. c.version \in Nat
  BY RequirementsAreFactTypes
<1>2. CASE \E outcome \in Outcomes :
             Conclude(d, outcome, c.version) /\ inFlight' = unanswered
  BY <1>1, <1>2, ConcludeEffect DEF TypeOK
<1>3. CASE /\ n + 1 \in 1..Len(c.requires)
           /\ provider[c.requires[n + 1]] # Nobody
           /\ pc' = [pc EXCEPT ![d] = "reading"]
           /\ reading' = [reading EXCEPT ![d] = n + 1]
           /\ inFlight' = unanswered \cup {NextCall(d, c, n)}
           /\ verdict' = verdict
  <2>1. n + 1 \in Nat
    BY RequirementsAreFactTypes
  <2>2. provider[c.requires[n + 1]] \in Providers
    BY <1>3, RequirementsAreFactTypes DEF TypeOK
  <2>3. NextCall(d, c, n) \in Calls
    BY <2>1, <2>2 DEF NextCall, Calls, Read
  <2>4. QED
    BY <1>3, <2>1, <2>3 DEF TypeOK, Verdicts
<1>4. QED
  BY <1>2, <1>3, ProceedEffect

\* Beginning a decision keeps the types.
LEMMA IsAuthorizedTyped ==
  ASSUME TypeOK, NEW d \in Decisions, IsAuthorized(d)
  PROVE  TypeOK'
<1>1. /\ cap' \in [Decisions -> Definitions \cup {Undefined}]
      /\ started' \in [Decisions -> [at : Nat, rev : [FactTypes -> Nat]]]
  <2>1. [f \in FactTypes |-> world[f].rev] \in [FactTypes -> Nat]
    BY DEF TypeOK, Assertion
  <2>2. QED
    BY <2>1 DEF IsAuthorized, TypeOK
<1>2. /\ verdict' \in [Decisions -> Verdicts]
      /\ pc' \in [Decisions -> {"idle", "reading", "audit", "append", "returned", "rejected"}]
      /\ reading' \in [Decisions -> Nat]
      /\ inFlight' \subseteq Calls
  <2>1. CASE Conclude(d, "unconfigured_capability", 0) /\ UNCHANGED inFlight
    BY <2>1, ConcludeEffect DEF Outcomes, TypeOK
  <2>2. CASE /\ capability \in Definitions
             /\ Proceed(d, capability, 0, facts[d], inFlight)
    <3>1. 0 \in 0..Len(capability.requires)
      BY <2>2, RequirementsAreFactTypes
    <3>2. inFlight \in SUBSET Calls
      BY DEF TypeOK
    <3>3. QED
      BY <2>2, <3>1, <3>2, ProceedTyped
  <2>3. QED
    BY <2>1, <2>2 DEF IsAuthorized, TypeOK
<1>3. QED
  BY <1>1, <1>2 DEF IsAuthorized, TypeOK, Verdicts, rules, record, counts

\* So does a provider's answer, in time or late,
LEMMA AnswerTyped ==
  ASSUME TypeOK, ReadingIsSafe, NEW d \in Decisions,
         NEW k \in inFlight, k.of = d, Answer(d, k)
  PROVE  TypeOK'
<1> DEFINE n == k.nth
           fs == [facts[d] EXCEPT ![cap[d].requires[n]] = k.fact]
           unanswered == inFlight \ {k}
<1>1. unanswered \in SUBSET Calls
  BY DEF TypeOK
<1>2. CASE /\ inFlight' = unanswered
           /\ UNCHANGED <<facts, pc, reading, verdict>>
  BY <1>1, <1>2 DEF Answer, TypeOK, rules, record, counts
<1>3. CASE /\ pc[d] = "reading" /\ reading[d] = n
           /\ Conclude(d, "stale_fact", cap[d].version)
           /\ inFlight' = unanswered
           /\ UNCHANGED facts
  <2>1. cap[d].version \in Nat
    BY <1>3, AwaitedFact, RequirementsAreFactTypes
  <2>2. /\ verdict' \in [Decisions -> Verdicts]
        /\ pc' \in [Decisions -> {"idle", "reading", "audit", "append", "returned", "rejected"}]
        /\ reading' = reading
    BY <1>3, <2>1, ConcludeEffect DEF Outcomes
  <2>3. QED
    BY <1>1, <1>3, <2>2 DEF Answer, TypeOK, Verdicts, rules, record, counts
<1>4. CASE /\ pc[d] = "reading" /\ reading[d] = n
           /\ facts' = [facts EXCEPT ![d] = fs]
           /\ Proceed(d, cap[d], n, fs, unanswered)
  <2>1. cap[d] \in Definitions /\ n \in 1..Len(cap[d].requires) /\ k.fact \in Read
    BY <1>4, AwaitedFact DEF TypeOK, Calls
  <2>2. n \in 0..Len(cap[d].requires)
    BY <2>1, RequirementsAreFactTypes
  <2>3. fs \in [FactTypes -> Read]
    BY <2>1 DEF TypeOK
  <2>4. /\ verdict' \in [Decisions -> Verdicts]
        /\ pc' \in [Decisions -> {"idle", "reading", "audit", "append", "returned", "rejected"}]
        /\ reading' \in [Decisions -> Nat]
        /\ inFlight' \subseteq Calls
    BY ONLY TypeOK, d \in Decisions, <2>1, <2>2, <1>1, <1>4, ProceedTyped
  <2>5. facts' \in [Decisions -> [FactTypes -> Read]]
    BY <1>4, <2>3 DEF TypeOK
  <2>6. QED
    BY <2>4, <2>5 DEF Answer, TypeOK, Verdicts, rules, record, counts
<1>5. QED
  BY <1>2, <1>3, <1>4 DEF Answer

\* a read that fails or times out,
LEMMA FactFailsTyped ==
  ASSUME TypeOK, ReadingIsSafe, NEW d \in Decisions, FactFails(d)
  PROVE  TypeOK'
<1>1. cap[d].version \in Nat
  BY AwaitedFact, RequirementsAreFactTypes DEF FactFails
<1>2. PICK outcome \in Outcomes : Conclude(d, outcome, cap[d].version)
  BY DEF FactFails, Outcomes
<1>3. /\ verdict' \in [Decisions -> Verdicts]
      /\ pc' \in [Decisions -> {"idle", "reading", "audit", "append", "returned", "rejected"}]
      /\ reading' = reading
  BY <1>1, <1>2, ConcludeEffect
<1>4. inFlight' \subseteq Calls
  BY DEF FactFails, TypeOK
<1>5. QED
  BY <1>3, <1>4 DEF FactFails, TypeOK, Verdicts, rules, record, counts

\* and finalize, whether its stores accept or reject.
LEMMA RecordingTyped ==
  ASSUME TypeOK, EntriesAreOwn, NEW d \in Decisions,
         RecordAudit(d) \/ AppendLog(d) \/ Rejects(d)
  PROVE  TypeOK'
<1>1. Entry(d) \in [id : Decisions, facts : [FactTypes -> Read],
                    verdict : [allowed : BOOLEAN, reason : Reasons, version : Nat]]
  BY DEF Entry, TypeOK
<1>2. CASE RecordAudit(d)
  BY <1>1, <1>2 DEF RecordAudit, TypeOK, rules, counts
<1>3. CASE AppendLog(d)
  BY <1>3 DEF AppendLog, TypeOK, EntriesAreOwn, SafeEntry, rules, counts
<1>4. CASE Rejects(d)
  BY <1>4 DEF Rejects, TypeOK, rules, record
<1>5. QED
  BY <1>2, <1>3, <1>4

\* A type-correct state stays one.
LEMMA StepTyped ==
  TypeOK /\ ReadingIsSafe /\ CallsAreSafe /\ EntriesAreOwn /\ [Next]_vars => TypeOK'
<1> SUFFICES ASSUME TypeOK, ReadingIsSafe, CallsAreSafe, EntriesAreOwn, [Next]_vars
             PROVE  TypeOK'
  OBVIOUS
<1>1. CASE Surroundings
  BY <1>1, SurroundingsTyped
<1>2. ASSUME NEW d \in Decisions, Decide(d) PROVE TypeOK'
  BY <1>2, IsAuthorizedTyped, AnswerTyped, FactFailsTyped, RecordingTyped DEF Decide
<1>3. CASE UNCHANGED vars
  BY <1>3 DEF vars, rules, call, record, counts, TypeOK
<1>4. QED
  BY <1>1, <1>2, <1>3 DEF Next

------------------------------------------------------------------------------
\* Overlapping decisions do not touch each other: a step of d leaves the local
\* state of every other decision as it is, and the surroundings leave all.
LEMMA Isolation ==
  ASSUME TypeOK, ReadingIsSafe, NEW d \in Decisions, Decide(d),
         NEW o \in Decisions \ {d}
  PROVE  /\ pc'[o] = pc[o] /\ cap'[o] = cap[o] /\ started'[o] = started[o]
         /\ facts'[o] = facts[o] /\ reading'[o] = reading[o]
         /\ verdict'[o] = verdict[o]
<1> DEFINE Local == /\ pc'[o] = pc[o] /\ reading'[o] = reading[o]
                    /\ verdict'[o] = verdict[o]
<1>1. ASSUME NEW outcome, NEW version, Conclude(d, outcome, version)
      PROVE  Local
  BY <1>1 DEF Conclude, TypeOK
<1>2. ASSUME NEW c, NEW n, NEW fs, NEW unanswered, Proceed(d, c, n, fs, unanswered)
      PROVE  Local
  BY <1>1, <1>2 DEF Proceed, TypeOK
<1>3. CASE IsAuthorized(d)
  <2>1. Local
    BY <1>1, <1>2, <1>3 DEF IsAuthorized
  <2>2. QED
    BY <2>1, <1>3 DEF IsAuthorized, TypeOK
<1>4. ASSUME NEW k \in inFlight, k.of = d, Answer(d, k)
      PROVE  /\ Local
             /\ facts'[o] = facts[o] /\ cap'[o] = cap[o] /\ started'[o] = started[o]
  <2>1. Local
    BY <1>1, <1>2, <1>4 DEF Answer
  <2>2. QED
    BY <2>1, <1>4 DEF Answer, TypeOK
<1>5. CASE FactFails(d)
  BY <1>1, <1>5 DEF FactFails, TypeOK
<1>6. CASE RecordAudit(d) \/ AppendLog(d) \/ Rejects(d)
  BY <1>6 DEF RecordAudit, AppendLog, Rejects, TypeOK, record, counts
<1>7. QED
  BY <1>3, <1>4, <1>5, <1>6 DEF Decide

\* What one step of isAuthorized makes of its own decision: it takes an
\* answer into account only while it awaits it, and composes only when every
\* requirement is among its facts.
LEMMA AnswerEffect ==
  ASSUME TypeOK, ReadingIsSafe, NEW d \in Decisions,
         NEW k \in inFlight, k.of = d, Answer(d, k)
  PROVE  LET n == k.nth
             fs == [facts[d] EXCEPT ![cap[d].requires[n]] = k.fact]
         IN
         \/ UNCHANGED <<facts, pc, reading, verdict>>
         \/ /\ pc[d] = "reading"
            /\ Conclude(d, "stale_fact", cap[d].version)
            /\ UNCHANGED facts
         \/ /\ pc[d] = "reading" /\ reading[d] = n
            /\ k.fact # Unread
            /\ ~Stale(k.fact, started[d].at, MaxStaleness[d])
            /\ facts' = [facts EXCEPT ![d] = fs]
            /\ \/ \E outcome \in Outcomes :
                    /\ outcome \in {"allow", "deny"} =>
                         /\ n = Len(cap[d].requires)
                         /\ (Compose(cap[d], fs) = "allow") = (outcome = "allow")
                    /\ Conclude(d, outcome, cap[d].version)
               \/ /\ n + 1 \in 1..Len(cap[d].requires)
                  /\ pc' = [pc EXCEPT ![d] = "reading"]
                  /\ reading' = [reading EXCEPT ![d] = n + 1]
                  /\ verdict' = verdict
<1> DEFINE n == k.nth
           fs == [facts[d] EXCEPT ![cap[d].requires[n]] = k.fact]
           unanswered == inFlight \ {k}
<1>1. CASE /\ pc[d] = "reading" /\ reading[d] = n
           /\ Proceed(d, cap[d], n, fs, unanswered)
  <2>1. cap[d] \in Definitions /\ n \in 0..Len(cap[d].requires)
    BY <1>1, AwaitedFact, RequirementsAreFactTypes
  <2>2. \/ \E outcome \in Outcomes :
             /\ outcome \in {"allow", "deny"} =>
                  /\ n = Len(cap[d].requires)
                  /\ (Compose(cap[d], fs) = "allow") = (outcome = "allow")
             /\ Conclude(d, outcome, cap[d].version)
             /\ inFlight' = unanswered
        \/ /\ n + 1 \in 1..Len(cap[d].requires)
           /\ pc' = [pc EXCEPT ![d] = "reading"]
           /\ reading' = [reading EXCEPT ![d] = n + 1]
           /\ inFlight' = unanswered \cup {NextCall(d, cap[d], n)}
           /\ verdict' = verdict
    BY ONLY TypeOK, d \in Decisions, <2>1, <1>1, ProceedEffect
  <2>3. QED
    BY <2>2, <1>1 DEF Answer
<1>2. CASE ~(pc[d] = "reading" /\ reading[d] = n /\ Proceed(d, cap[d], n, fs, unanswered))
  BY <1>2 DEF Answer
<1>3. QED
  BY <1>1, <1>2

\* Beginning a decision either denies outright, composes the facts of a
\* capability that requires none, or asks for the first requirement.
LEMMA BeginEffect ==
  ASSUME TypeOK, NEW d \in Decisions, IsAuthorized(d)
  PROVE  \/ /\ Conclude(d, "unconfigured_capability", 0)
            /\ ~(capability # Undefined /\ capability.active)
         \/ /\ capability \in Definitions /\ capability.active
            /\ \/ \E outcome \in Outcomes :
                    /\ outcome \in {"allow", "deny"} =>
                         /\ Len(capability.requires) = 0
                         /\ (Compose(capability, facts[d]) = "allow") = (outcome = "allow")
                    /\ Conclude(d, outcome, capability.version)
               \/ /\ 1 \in 1..Len(capability.requires)
                  /\ pc' = [pc EXCEPT ![d] = "reading"]
                  /\ reading' = [reading EXCEPT ![d] = 1]
                  /\ verdict' = verdict
<1>1. CASE /\ capability \in Definitions /\ capability.active
           /\ Proceed(d, capability, 0, facts[d], inFlight)
  <2>1. 0 \in 0..Len(capability.requires)
    BY <1>1, RequirementsAreFactTypes
  <2>2. \/ \E outcome \in Outcomes :
             /\ outcome \in {"allow", "deny"} =>
                  /\ 0 = Len(capability.requires)
                  /\ (Compose(capability, facts[d]) = "allow") = (outcome = "allow")
             /\ Conclude(d, outcome, capability.version)
             /\ inFlight' = inFlight
        \/ /\ 0 + 1 \in 1..Len(capability.requires)
           /\ pc' = [pc EXCEPT ![d] = "reading"]
           /\ reading' = [reading EXCEPT ![d] = 0 + 1]
           /\ inFlight' = inFlight \cup {NextCall(d, capability, 0)}
           /\ verdict' = verdict
    BY ONLY TypeOK, d \in Decisions, <2>1, <1>1, ProceedEffect
  <2>3. QED
    BY <2>2, <1>1
<1>2. CASE /\ Conclude(d, "unconfigured_capability", 0)
           /\ ~(capability # Undefined /\ capability.active)
  BY <1>2
<1>3. QED
  BY <1>1, <1>2 DEF IsAuthorized, TypeOK

------------------------------------------------------------------------------
\* The reads of a decision stay safe under its own steps.
LEMMA OwnReading ==
  ASSUME TypeOK, TypeOK', ReadingIsSafe, NEW d \in Decisions, Decide(d)
  PROVE  SafeReading(d)'
<1>1. SafeReading(d)
  BY DEF ReadingIsSafe
<1>2. ASSUME NEW outcome, NEW version, Conclude(d, outcome, version)
      PROVE  SafeReading(d)'
  BY <1>2 DEF Conclude, SafeReading, TypeOK
<1>3. CASE IsAuthorized(d)
  <2>1. CASE /\ capability \in Definitions /\ capability.active
             /\ 1 \in 1..Len(capability.requires)
             /\ pc' = [pc EXCEPT ![d] = "reading"]
             /\ reading' = [reading EXCEPT ![d] = 1]
    <3>1. cap'[d] = capability
      BY <1>3 DEF IsAuthorized, TypeOK
    <3>2. QED
      BY <2>1, <3>1 DEF SafeReading, TypeOK
  <2>2. QED
    BY <1>2, <1>3, <2>1, BeginEffect
<1>4. ASSUME NEW k \in inFlight, k.of = d, Answer(d, k) PROVE SafeReading(d)'
  <2> DEFINE n == k.nth
             f == cap[d].requires[n]
             fs == [facts[d] EXCEPT ![f] = k.fact]
  <2>0. cap' = cap /\ started' = started
    BY <1>4 DEF Answer
  <2>1. CASE UNCHANGED <<facts, pc, reading, verdict>>
    BY <1>1, <2>0, <2>1 DEF SafeReading, Usable
  <2>2. CASE /\ pc[d] = "reading" /\ reading[d] = n
             /\ k.fact # Unread
             /\ ~Stale(k.fact, started[d].at, MaxStaleness[d])
             /\ facts' = [facts EXCEPT ![d] = fs]
             /\ n + 1 \in 1..Len(cap[d].requires)
             /\ pc' = [pc EXCEPT ![d] = "reading"]
             /\ reading' = [reading EXCEPT ![d] = n + 1]
    <3>1. /\ cap[d] \in Definitions /\ n \in 1..Len(cap[d].requires)
          /\ f \in FactTypes
      BY <2>2, AwaitedFact
    <3>2. facts'[d] = fs /\ pc'[d] = "reading" /\ reading'[d] = n + 1
      BY <2>2 DEF TypeOK
    <3>3. facts[d] \in [FactTypes -> Read]
      BY DEF TypeOK
    <3>4. Usable(d, f)'
      BY <2>0, <2>2, <3>1, <3>2, <3>3 DEF Usable
    <3>5. ASSUME NEW i \in 1..n PROVE Usable(d, cap[d].requires[i])'
      <4>1. cap[d].requires[i] \in FactTypes
        BY <3>1, RequirementsAreFactTypes
      <4>2. CASE cap[d].requires[i] = f
        BY <3>4, <4>2, <2>0
      <4>3. CASE cap[d].requires[i] # f
        <5>1. i \in 1..(n - 1)
          BY <4>3, <3>1, RequirementsAreFactTypes
        <5>2. Usable(d, cap[d].requires[i])
          BY <1>1, <2>2, <5>1 DEF SafeReading
        <5>3. facts'[d][cap[d].requires[i]] = facts[d][cap[d].requires[i]]
          BY <3>2, <3>3, <4>1, <4>3
        <5>4. QED
          BY <5>2, <5>3, <2>0 DEF Usable
      <4>4. QED
        BY <4>2, <4>3
    <3>6. cap[d].active
      BY <1>1, <2>2 DEF SafeReading
    <3>7. (n + 1) - 1 = n
      BY <3>1, RequirementsAreFactTypes
    <3>8. QED
      BY <2>0, <2>2, <3>1, <3>2, <3>5, <3>6, <3>7 DEF SafeReading
  <2>3. QED
    BY <1>2, <1>4, <2>1, <2>2, AnswerEffect
<1>5. CASE FactFails(d)
  BY <1>2, <1>5 DEF FactFails
<1>6. CASE RecordAudit(d) \/ AppendLog(d) \/ Rejects(d)
  BY <1>6 DEF RecordAudit, AppendLog, Rejects, SafeReading, TypeOK
<1>7. QED
  BY <1>3, <1>4, <1>5, <1>6 DEF Decide

\* No step makes a decision's reads unsafe.
LEMMA StepReading ==
  TypeOK /\ TypeOK' /\ ReadingIsSafe /\ [Next]_vars => ReadingIsSafe'
<1> SUFFICES ASSUME TypeOK, TypeOK', ReadingIsSafe, [Next]_vars, NEW o \in Decisions
             PROVE  SafeReading(o)'
  BY DEF ReadingIsSafe
<1>1. SafeReading(o)
  BY DEF ReadingIsSafe
<1>2. CASE UNCHANGED call
  BY <1>1, <1>2 DEF call, SafeReading, Usable
<1>3. ASSUME NEW d \in Decisions, Decide(d) PROVE SafeReading(o)'
  <2>1. CASE o = d
    BY <1>3, <2>1, OwnReading
  <2>2. CASE o # d
    BY <1>1, <1>3, <2>2, Isolation DEF SafeReading, Usable
  <2>3. QED
    BY <2>1, <2>2
<1>4. Surroundings \/ UNCHANGED vars => UNCHANGED call
  BY DEF Surroundings, Publish, Tick, DefineCapability, RegisterFactProvider, ProviderReads,
         vars
<1>5. QED
  BY <1>2, <1>3, <1>4 DEF Next

------------------------------------------------------------------------------
\* Deciding without composing rests on nothing and allows nothing.
LEMMA DeniedOutright ==
  ASSUME TypeOK, NEW d \in Decisions, NEW outcome \in Outcomes \ {"allow", "deny"},
         NEW version \in Nat, Conclude(d, outcome, version),
         cap'[d] # Undefined /\ cap'[d].active => version = cap'[d].version
  PROVE  SafeVerdict(d)'
<1>1. pc'[d] = "audit" /\ verdict'[d] = Verdict(outcome, version)
  BY ConcludeEffect
<1>2. /\ ~verdict'[d].allowed /\ verdict'[d].version = version
      /\ verdict'[d].reason \notin {"composed_allow", "composed_deny"}
  BY <1>1, VerdictShape
<1>3. QED
  BY <1>1, <1>2 DEF SafeVerdict

\* Composing once every requirement is a usable fact earns the verdict.
LEMMA ComposedVerdict ==
  ASSUME TypeOK, NEW d \in Decisions, NEW c \in Definitions, cap'[d] = c,
         NEW outcome \in {"allow", "deny"}, Conclude(d, outcome, c.version),
         (Compose(c, facts'[d]) = "allow") = (outcome = "allow"),
         c.active, \A i \in 1..Len(c.requires) : Usable(d, c.requires[i])'
  PROVE  SafeVerdict(d)'
<1>1. outcome \in Outcomes /\ c.version \in Nat
  BY RequirementsAreFactTypes DEF Outcomes, Composable
<1>2. pc'[d] = "audit" /\ verdict'[d] = Verdict(outcome, c.version)
  BY <1>1, ConcludeEffect
<1>3. /\ verdict'[d].version = c.version
      /\ verdict'[d].allowed <=> outcome = "allow"
      /\ verdict'[d].allowed \in BOOLEAN
      /\ verdict'[d].reason = "composed_allow" <=> outcome = "allow"
  BY <1>1, <1>2, VerdictShape DEF Verdicts
<1>4. Rests(d, c)'
  BY <1>3 DEF Rests
<1>5. QED
  BY <1>2, <1>3, <1>4 DEF SafeVerdict

\* A verdict rests on facts read before it, under its own decision's steps.
LEMMA OwnVerdict ==
  ASSUME TypeOK, TypeOK', ReadingIsSafe, ReadingIsSafe', VerdictsRest,
         NEW d \in Decisions, Decide(d)
  PROVE  SafeVerdict(d)'
<1>1. SafeVerdict(d) /\ SafeReading(d)
  BY DEF VerdictsRest, ReadingIsSafe
<1>2. ASSUME pc[d] \in {"idle", "reading"}, pc' = [pc EXCEPT ![d] = "reading"],
             verdict' = verdict
      PROVE  SafeVerdict(d)'
  BY <1>1, <1>2 DEF SafeVerdict, NoVerdict, TypeOK
<1>3. CASE IsAuthorized(d)
  <2>0. cap'[d] = capability
    BY <1>3 DEF IsAuthorized, TypeOK
  <2>1. CASE /\ Conclude(d, "unconfigured_capability", 0)
             /\ ~(capability # Undefined /\ capability.active)
    BY <2>0, <2>1, DeniedOutright DEF Outcomes
  <2>2. ASSUME NEW outcome \in Outcomes, capability \in Definitions, capability.active,
               outcome \in {"allow", "deny"} =>
                 /\ Len(capability.requires) = 0
                 /\ (Compose(capability, facts[d]) = "allow") = (outcome = "allow"),
               Conclude(d, outcome, capability.version)
        PROVE  SafeVerdict(d)'
    <3>1. CASE outcome \in {"allow", "deny"}
      <4>1. facts' = facts
        BY <1>3 DEF IsAuthorized
      <4>2. \A i \in 1..Len(capability.requires) : Usable(d, capability.requires[i])'
        BY <2>2, <3>1
      <4>3. QED
        BY <2>0, <2>2, <3>1, <4>1, <4>2, ComposedVerdict
    <3>2. CASE outcome \notin {"allow", "deny"}
      BY <2>0, <2>2, <3>2, DeniedOutright, RequirementsAreFactTypes
    <3>3. QED
      BY <3>1, <3>2
  <2>3. pc[d] = "idle"
    BY <1>3 DEF IsAuthorized
  <2>4. QED
    BY <1>2, <1>3, <2>1, <2>2, <2>3, BeginEffect
<1>4. ASSUME NEW k \in inFlight, k.of = d, Answer(d, k) PROVE SafeVerdict(d)'
  <2> DEFINE n == k.nth
             f == cap[d].requires[n]
             fs == [facts[d] EXCEPT ![f] = k.fact]
  <2>0. cap' = cap /\ started' = started
    BY <1>4 DEF Answer
  <2>1. CASE UNCHANGED <<facts, pc, reading, verdict>>
    BY <1>1, <2>0, <2>1 DEF SafeVerdict, Rests, Usable
  <2>2. CASE pc[d] = "reading" /\ Conclude(d, "stale_fact", cap[d].version)
    BY <2>0, <2>2, AwaitedFact, RequirementsAreFactTypes, DeniedOutright DEF Outcomes
  <2>3. ASSUME NEW outcome \in Outcomes,
               pc[d] = "reading", reading[d] = n,
               k.fact # Unread,
               ~Stale(k.fact, started[d].at, MaxStaleness[d]),
               facts' = [facts EXCEPT ![d] = fs],
               outcome \in {"allow", "deny"} =>
                 /\ n = Len(cap[d].requires)
                 /\ (Compose(cap[d], fs) = "allow") = (outcome = "allow"),
               Conclude(d, outcome, cap[d].version)
        PROVE  SafeVerdict(d)'
    <3>1. /\ cap[d] \in Definitions /\ n \in 1..Len(cap[d].requires)
          /\ f \in FactTypes
      BY <2>3, AwaitedFact
    <3>2. CASE outcome \in {"allow", "deny"}
      <4>1. facts'[d] = fs /\ facts[d] \in [FactTypes -> Read]
        BY <2>3 DEF TypeOK
      <4>2. ASSUME NEW i \in 1..Len(cap[d].requires)
            PROVE  Usable(d, cap[d].requires[i])'
        <5>1. cap[d].requires[i] \in FactTypes
          BY <3>1, RequirementsAreFactTypes
        <5>2. CASE cap[d].requires[i] = f
          BY <2>0, <2>3, <3>1, <4>1, <5>2 DEF Usable
        <5>3. CASE cap[d].requires[i] # f
          <6>1. i \in 1..(n - 1)
            BY <2>3, <3>1, <3>2, <5>3, RequirementsAreFactTypes
          <6>2. Usable(d, cap[d].requires[i])
            BY <1>1, <2>3, <6>1 DEF SafeReading
          <6>3. facts'[d][cap[d].requires[i]] = facts[d][cap[d].requires[i]]
            BY <4>1, <5>1, <5>3
          <6>4. QED
            BY <2>0, <6>2, <6>3 DEF Usable
        <5>4. QED
          BY <5>2, <5>3
      <4>3. cap[d].active
        BY <1>1, <2>3 DEF SafeReading
      <4>4. (Compose(cap[d], facts'[d]) = "allow") = (outcome = "allow")
        BY <2>3, <3>2, <4>1
      <4>5. PICK c \in Definitions : c = cap[d]
        BY <3>1
      <4>6. \A i \in 1..Len(c.requires) : Usable(d, c.requires[i])'
        BY <2>0, <4>2, <4>5
      <4>7. QED
        BY <2>0, <2>3, <3>2, <4>3, <4>4, <4>5, <4>6, ComposedVerdict
    <3>3. CASE outcome \notin {"allow", "deny"}
      BY <2>0, <2>3, <3>1, <3>3, DeniedOutright, RequirementsAreFactTypes
    <3>4. QED
      BY <3>2, <3>3
  <2>4. CASE /\ pc[d] = "reading"
             /\ pc' = [pc EXCEPT ![d] = "reading"]
             /\ verdict' = verdict
    BY <1>2, <2>4
  <2>5. CASE /\ pc[d] = "reading" /\ reading[d] = n
             /\ k.fact # Unread
             /\ ~Stale(k.fact, started[d].at, MaxStaleness[d])
             /\ facts' = [facts EXCEPT ![d] = fs]
             /\ \E outcome \in Outcomes :
                  /\ outcome \in {"allow", "deny"} =>
                       /\ n = Len(cap[d].requires)
                       /\ (Compose(cap[d], fs) = "allow") = (outcome = "allow")
                  /\ Conclude(d, outcome, cap[d].version)
    BY <2>3, <2>5
  <2>6. QED
    BY <1>4, <2>1, <2>2, <2>4, <2>5, AnswerEffect
<1>5. CASE FactFails(d)
  <2>1. Conclude(d, "fact_unavailable", cap[d].version) /\ cap' = cap
    BY <1>5 DEF FactFails
  <2>2. cap[d].version \in Nat
    BY <1>5, AwaitedFact, RequirementsAreFactTypes DEF FactFails
  <2>3. QED
    BY <2>1, <2>2, DeniedOutright DEF Outcomes
<1>6. CASE RecordAudit(d) \/ AppendLog(d) \/ Rejects(d)
  <2>1. /\ UNCHANGED <<cap, started, facts, verdict>>
        /\ pc[d] \notin {"idle", "reading"} /\ pc'[d] \notin {"idle", "reading"}
    BY <1>6 DEF RecordAudit, AppendLog, Rejects, TypeOK
  <2>2. QED
    BY <1>1, <2>1 DEF SafeVerdict, Rests, Usable
<1>7. QED
  BY <1>3, <1>4, <1>5, <1>6 DEF Decide

\* No step leaves a verdict without what it rests on.
LEMMA StepVerdicts ==
  TypeOK /\ TypeOK' /\ ReadingIsSafe /\ ReadingIsSafe' /\ VerdictsRest /\ [Next]_vars
  => VerdictsRest'
<1> SUFFICES ASSUME TypeOK, TypeOK', ReadingIsSafe, ReadingIsSafe', VerdictsRest,
                    [Next]_vars, NEW o \in Decisions
             PROVE  SafeVerdict(o)'
  BY DEF VerdictsRest
<1>1. SafeVerdict(o)
  BY DEF VerdictsRest
<1>2. CASE UNCHANGED call
  BY <1>1, <1>2 DEF call, SafeVerdict, Rests, Usable
<1>3. ASSUME NEW d \in Decisions, Decide(d) PROVE SafeVerdict(o)'
  <2>1. CASE o = d
    BY <1>3, <2>1, OwnVerdict
  <2>2. CASE o # d
    BY <1>1, <1>3, <2>2, Isolation DEF SafeVerdict, Rests, Usable
  <2>3. QED
    BY <2>1, <2>2
<1>4. Surroundings \/ UNCHANGED vars => UNCHANGED call
  BY DEF Surroundings, Publish, Tick, DefineCapability, RegisterFactProvider, ProviderReads,
         vars
<1>5. QED
  BY <1>2, <1>3, <1>4 DEF Next

------------------------------------------------------------------------------
\* A decision that began has seen revisions no newer than the world's, and
\* what it read since is no older than what it saw then.
LEMMA StepRevisions ==
  TypeOK /\ TypeOK' /\ ReadingIsSafe /\ RevisionsGrow /\ CallsAreSafe /\ [Next]_vars
  => RevisionsGrow'
<1> SUFFICES ASSUME TypeOK, TypeOK', ReadingIsSafe, RevisionsGrow, CallsAreSafe,
                    [Next]_vars, NEW o \in Decisions, NEW g \in FactTypes
             PROVE  /\ pc'[o] # "idle" => world'[g].rev >= started'[o].rev[g]
                    /\ facts'[o][g] # Unread => facts'[o][g].rev >= started'[o].rev[g]
  BY DEF RevisionsGrow, RevocationSeen
<1>1. /\ pc[o] # "idle" => world[g].rev >= started[o].rev[g]
      /\ facts[o][g] # Unread => facts[o][g].rev >= started[o].rev[g]
      /\ pc[o] = "idle" => facts[o][g] = Unread
  BY DEF RevisionsGrow, RevocationSeen, ReadingIsSafe, SafeReading
<1>2. world[g].rev \in Nat /\ started[o].rev[g] \in Nat
  BY DEF TypeOK, Assertion
<1>3. CASE Surroundings
  <2>1. UNCHANGED call
    BY <1>3 DEF Surroundings, Publish, Tick, DefineCapability, RegisterFactProvider,
             ProviderReads
  <2>2. world'[g].rev >= world[g].rev
    <3>1. CASE \E f \in FactTypes, v \in Values, t \in {clock + Skew, Unparsable} :
                 Publish(f, v, t)
      BY <1>2, <3>1 DEF Publish, TypeOK
    <3>2. CASE UNCHANGED world
      BY <1>2, <3>2
    <3>3. QED
      BY <1>3, <3>1, <3>2 DEF Surroundings, Tick, DefineCapability, RegisterFactProvider,
               ProviderReads
  <2>3. world'[g].rev \in Nat
    BY DEF TypeOK, Assertion
  <2>4. QED
    BY <1>1, <1>2, <2>1, <2>2, <2>3 DEF call
<1>4. ASSUME NEW d \in Decisions, Decide(d)
      PROVE  /\ pc'[o] # "idle" => world'[g].rev >= started'[o].rev[g]
             /\ facts'[o][g] # Unread => facts'[o][g].rev >= started'[o].rev[g]
  <2>0. world' = world
    BY <1>4 DEF Decide, IsAuthorized, Answer, FactFails, RecordAudit, AppendLog, Rejects
  <2>1. CASE o # d
    BY <1>1, <1>4, <2>0, <2>1, Isolation
  <2>2. CASE o = d /\ IsAuthorized(d)
    <3>1. /\ started'[d].rev = [f \in FactTypes |-> world[f].rev]
          /\ facts' = facts /\ pc[d] = "idle"
      BY <2>2 DEF IsAuthorized, TypeOK
    <3>2. QED
      BY <1>1, <1>2, <2>0, <2>2, <3>1
  <2>3. ASSUME o = d, NEW k \in inFlight, k.of = d, Answer(d, k)
        PROVE  /\ pc'[o] # "idle" => world'[g].rev >= started'[o].rev[g]
               /\ facts'[o][g] # Unread => facts'[o][g].rev >= started'[o].rev[g]
    <3>1. started' = started
      BY <2>3 DEF Answer
    <3>2. CASE UNCHANGED facts /\ (pc[d] # "idle" \/ UNCHANGED pc)
      BY <1>1, <2>0, <2>3, <3>1, <3>2
    <3>3. CASE /\ pc[d] = "reading" /\ reading[d] = k.nth /\ k.fact # Unread
               /\ facts' = [facts EXCEPT ![d] =
                              [facts[d] EXCEPT ![cap[d].requires[k.nth]] = k.fact]]
      <4>1. facts[d] \in [FactTypes -> Read]
        BY DEF TypeOK
      <4>2. \/ facts'[d][g] = facts[d][g]
            \/ g = cap[d].requires[k.nth] /\ facts'[d][g] = k.fact
        BY <3>3, <4>1 DEF TypeOK
      <4>3. k.fact.rev >= started[d].rev[cap[d].requires[k.nth]]
        BY <2>3, <3>3 DEF CallsAreSafe, SafeCall
      <4>4. QED
        BY <1>1, <2>0, <2>3, <3>1, <3>3, <4>2, <4>3
    <3>4. QED
      BY <2>3, <3>2, <3>3, AnswerEffect
  <2>4. CASE FactFails(d) \/ RecordAudit(d) \/ AppendLog(d) \/ Rejects(d)
    <3>1. UNCHANGED <<facts, started>> /\ pc[d] # "idle"
      BY <2>4 DEF FactFails, RecordAudit, AppendLog, Rejects
    <3>2. CASE o = d
      BY <1>1, <2>0, <3>1, <3>2
    <3>3. QED
      BY <2>1, <3>2
  <2>5. QED
    BY <1>4, <2>1, <2>2, <2>3, <2>4 DEF Decide
<1>5. CASE UNCHANGED vars
  BY <1>1, <1>5 DEF vars, call
<1>6. QED
  BY <1>3, <1>4, <1>5 DEF Next

\* A definition in use stays among the installed ones.
LEMMA StepInUse == TypeOK /\ InUse /\ [Next]_vars => InUse'
<1> SUFFICES ASSUME TypeOK, InUse, [Next]_vars PROVE InUse'
  OBVIOUS
<1>1. CASE \E c \in Definitions : DefineCapability(c)
  BY <1>1 DEF DefineCapability, InUse, call
<1>2. CASE \E d \in Decisions : IsAuthorized(d)
  BY <1>2 DEF IsAuthorized, InUse, TypeOK, rules
<1>3. CASE UNCHANGED <<rules, cap>>
  BY <1>3 DEF InUse, rules
<1>4. QED
  BY <1>1, <1>2, <1>3 DEF Next, Surroundings, Publish, Tick, RegisterFactProvider,
     ProviderReads, Decide, Answer, FactFails, RecordAudit, AppendLog, Rejects, vars, call

\* A replaced provider leaves the producer of its fact type as it was.
LEMMA OneProducer ==
  ASSUME TypeOK, [Next]_vars, NEW f \in FactTypes, provider[f] # Nobody
  PROVE  provider'[f] # Nobody /\ ProducerOf[provider'[f]] = ProducerOf[provider[f]]
<1>1. CASE UNCHANGED provider
  BY <1>1
<1>2. CASE \E p \in Providers : RegisterFactProvider(p)
  BY <1>2, SentinelAssumption, WiringAssumption DEF RegisterFactProvider, TypeOK
<1>3. QED
  BY <1>1, <1>2 DEF Next, Surroundings, Publish, Tick, DefineCapability,
     ProviderReads, Decide, IsAuthorized, Answer, FactFails, RecordAudit, AppendLog,
     Rejects, vars

\* A call stays safe while its decision keeps what it began with.
LEMMA CallKept ==
  ASSUME TypeOK, [Next]_vars, NEW k \in inFlight, SafeCall(k),
         cap'[k.of] = cap[k.of], started'[k.of] = started[k.of], pc'[k.of] # "idle"
  PROVE  SafeCall(k)'
<1>1. cap[k.of].requires[k.nth] \in FactTypes
  BY RequirementsAreFactTypes DEF SafeCall
<1>2. QED
  BY <1>1, OneProducer DEF SafeCall, Authoritative

\* A call just made asks the registered provider for what its decision needs.
LEMMA CallMade ==
  ASSUME NEW d \in Decisions, NEW c \in Definitions, NEW n \in Nat,
         n + 1 \in 1..Len(c.requires), provider[c.requires[n + 1]] # Nobody,
         pc'[d] = "reading", cap'[d] = c, provider' = provider
  PROVE  \A k : k = NextCall(d, c, n) => SafeCall(k)'
BY DEF SafeCall, NextCall, Authoritative

\* Every call under way stays safe, whoever's step it is.
LEMMA StepCalls ==
  TypeOK /\ ReadingIsSafe /\ RevisionsGrow /\ CallsAreSafe /\ [Next]_vars => CallsAreSafe'
<1> SUFFICES ASSUME TypeOK, ReadingIsSafe, RevisionsGrow, CallsAreSafe, [Next]_vars
             PROVE  CallsAreSafe'
  OBVIOUS
<1>0. \A k \in inFlight : SafeCall(k) /\ k.of \in Decisions
  BY DEF CallsAreSafe, TypeOK, Calls
<1>1. CASE UNCHANGED <<call, inFlight>>
  BY <1>0, <1>1, CallKept DEF CallsAreSafe, call, SafeCall
<1>2. CASE \E k \in inFlight : ProviderReads(k)
  <2>1. PICK k \in inFlight, fact \in Fact :
          /\ inFlight' = (inFlight \ {k}) \cup {[k EXCEPT !.fact = fact]}
          /\ fact.rev = world[cap[k.of].requires[k.nth]].rev
          /\ fact.by = ProducerOf[k.asked]
    BY <1>2, ReadTyped
  <2>2. UNCHANGED <<call, provider>>
    BY <1>2 DEF ProviderReads
  <2>3. ASSUME NEW j \in inFlight PROVE SafeCall(j)'
    BY <1>0, <2>2, <2>3 DEF SafeCall, Authoritative, call
  <2>4. SafeCall([k EXCEPT !.fact = fact])'
    <3> DEFINE j == [k EXCEPT !.fact = fact]
    <3>1. k \in Calls /\ SafeCall(k)
      BY <1>0 DEF TypeOK
    <3>2. j.of = k.of /\ j.nth = k.nth /\ j.asked = k.asked /\ j.fact = fact
      BY <3>1 DEF Calls
    <3>3. fact.rev >= started[k.of].rev[cap[k.of].requires[k.nth]]
      BY <1>0, <2>1, <3>1, RequirementsAreFactTypes DEF SafeCall, RevisionsGrow
    <3>4. QED
      BY <2>1, <2>2, <3>1, <3>2, <3>3 DEF SafeCall, Authoritative, call
  <2>5. QED
    BY <2>1, <2>3, <2>4 DEF CallsAreSafe
<1>3. ASSUME NEW d \in Decisions, Decide(d) PROVE CallsAreSafe'
  <2>0. provider' = provider
    BY <1>3 DEF Decide, IsAuthorized, Answer, FactFails, RecordAudit, AppendLog, Rejects
  <2>1. ASSUME NEW k \in inFlight, k.of # d PROVE SafeCall(k)'
    <3>1. SafeCall(k) /\ k.of \in Decisions
      BY <1>0
    <3>2. /\ pc'[k.of] = pc[k.of] /\ cap'[k.of] = cap[k.of]
          /\ started'[k.of] = started[k.of]
      BY <1>3, <2>1, <3>1, Isolation
    <3>3. pc[k.of] # "idle"
      BY <3>1 DEF SafeCall
    <3>4. QED
      BY <3>1, <3>2, <3>3, CallKept
  <2>2. ASSUME NEW k \in inFlight, UNCHANGED <<cap, started>>, pc'[d] # "idle"
        PROVE  SafeCall(k)'
    BY <1>0, <2>1, <2>2, CallKept
  <2>3. CASE IsAuthorized(d)
    <3>1. \A k \in inFlight : k.of # d
      BY <1>0, <2>3 DEF IsAuthorized, SafeCall
    <3>2. CASE inFlight' = inFlight
      BY <2>1, <3>1, <3>2 DEF CallsAreSafe
    <3>3. CASE /\ capability \in Definitions /\ Proceed(d, capability, 0, facts[d], inFlight)
      <4>1. 0 \in 0..Len(capability.requires)
        BY <3>3, RequirementsAreFactTypes
      <4>2. CASE inFlight' = inFlight
        BY <3>2, <4>2
      <4>3. CASE /\ 0 + 1 \in 1..Len(capability.requires)
                 /\ provider[capability.requires[0 + 1]] # Nobody
                 /\ pc' = [pc EXCEPT ![d] = "reading"]
                 /\ inFlight' = inFlight \cup {NextCall(d, capability, 0)}
        <5>1. cap'[d] = capability /\ pc'[d] = "reading"
          BY <2>3, <4>3 DEF IsAuthorized, TypeOK
        <5>2. \A k : k = NextCall(d, capability, 0) => SafeCall(k)'
          BY ONLY d \in Decisions, 0 \in Nat, <2>0, <3>3, <4>3, <5>1, CallMade
        <5>3. QED
          BY <2>1, <3>1, <4>3, <5>2 DEF CallsAreSafe
      <4>4. QED
        BY ONLY TypeOK, d \in Decisions, <3>3, <4>1, <4>2, <4>3, ProceedEffect
    <3>4. QED
      BY <2>3, <3>2, <3>3 DEF IsAuthorized, TypeOK
  <2>4. ASSUME NEW k \in inFlight, k.of = d, Answer(d, k) PROVE CallsAreSafe'
    <3> DEFINE n == k.nth
               fs == [facts[d] EXCEPT ![cap[d].requires[n]] = k.fact]
               unanswered == inFlight \ {k}
    <3>0. UNCHANGED <<cap, started>> /\ pc[d] # "idle"
      BY <1>0, <2>4 DEF Answer, SafeCall
    <3>1. pc'[d] # "idle"
      <4>1. \A v \in {"reading", "audit"} : [pc EXCEPT ![d] = v][d] = v
        BY DEF TypeOK
      <4>2. QED
        BY <2>4, <3>0, <4>1, AnswerEffect DEF Conclude
    <3>2. CASE inFlight' = unanswered
      BY <2>2, <3>0, <3>1, <3>2 DEF CallsAreSafe
    <3>3. CASE /\ pc[d] = "reading" /\ reading[d] = n
               /\ Proceed(d, cap[d], n, fs, unanswered)
      <4>1. cap[d] \in Definitions /\ n \in 0..Len(cap[d].requires)
        BY <3>3, AwaitedFact, RequirementsAreFactTypes
      <4>2. CASE /\ n + 1 \in 1..Len(cap[d].requires)
                 /\ provider[cap[d].requires[n + 1]] # Nobody
                 /\ pc' = [pc EXCEPT ![d] = "reading"]
                 /\ inFlight' = unanswered \cup {NextCall(d, cap[d], n)}
        <5>1. cap'[d] = cap[d] /\ pc'[d] = "reading" /\ n \in Nat
          BY <3>0, <4>1, <4>2, RequirementsAreFactTypes DEF TypeOK
        <5>2. \A c : c = NextCall(d, cap[d], n) => SafeCall(c)'
          BY <2>0, <4>1, <4>2, <5>1, CallMade
        <5>3. QED
          BY <2>2, <3>0, <3>1, <4>2, <5>2 DEF CallsAreSafe
      <4>3. \/ inFlight' = unanswered
            \/ /\ n + 1 \in 1..Len(cap[d].requires)
               /\ provider[cap[d].requires[n + 1]] # Nobody
               /\ pc' = [pc EXCEPT ![d] = "reading"]
               /\ inFlight' = unanswered \cup {NextCall(d, cap[d], n)}
        BY ONLY TypeOK, d \in Decisions, <3>3, <4>1, ProceedEffect
      <4>4. QED
        BY <3>2, <4>2, <4>3
    <3>4. QED
      BY <2>4, <3>2, <3>3 DEF Answer
  <2>5. CASE FactFails(d) \/ RecordAudit(d) \/ AppendLog(d) \/ Rejects(d)
    <3>1. UNCHANGED <<cap, started>> /\ pc'[d] # "idle" /\ inFlight' \subseteq inFlight
      BY <2>5 DEF FactFails, Conclude, RecordAudit, AppendLog, Rejects, TypeOK
    <3>2. QED
      BY <2>2, <3>1 DEF CallsAreSafe
  <2>6. QED
    BY <1>3, <2>3, <2>4, <2>5 DEF Decide
<1>4. Surroundings \/ UNCHANGED vars =>
        UNCHANGED <<call, inFlight>> \/ \E k \in inFlight : ProviderReads(k)
  BY DEF Surroundings, Publish, Tick, DefineCapability, RegisterFactProvider, vars
<1>5. QED
  BY <1>1, <1>2, <1>3, <1>4 DEF Next

\* What a decision reads it reads of the one producer, and keeps it so.
LEMMA StepSourced ==
  TypeOK /\ ReadingIsSafe /\ CallsAreSafe /\ FactsAreSourced /\ [Next]_vars
  => FactsAreSourced'
<1> SUFFICES ASSUME TypeOK, ReadingIsSafe, CallsAreSafe, FactsAreSourced, [Next]_vars,
                    NEW o \in Decisions, NEW f \in FactTypes, facts'[o][f] # Unread
             PROVE  /\ provider'[f] # Nobody
                    /\ facts'[o][f].by = ProducerOf[provider'[f]]
  BY DEF FactsAreSourced, Sourced
<1>1. CASE facts'[o][f] = facts[o][f]
  BY <1>1, OneProducer DEF FactsAreSourced, Sourced
<1>2. ASSUME NEW d \in Decisions, NEW k \in inFlight, k.of = d, Answer(d, k),
             facts'[o][f] # facts[o][f]
      PROVE  /\ provider'[f] # Nobody
             /\ facts'[o][f].by = ProducerOf[provider'[f]]
  <2>1. /\ k.fact # Unread /\ provider' = provider
        /\ facts' = [facts EXCEPT ![d] =
             [facts[d] EXCEPT ![cap[d].requires[k.nth]] = k.fact]]
    BY <1>2 DEF Answer
  <2>2. o = d /\ f = cap[d].requires[k.nth] /\ facts'[o][f] = k.fact
    BY <1>2, <2>1 DEF TypeOK
  <2>3. SafeCall(k)
    BY DEF CallsAreSafe
  <2>4. QED
    BY <1>2, <2>1, <2>2, <2>3 DEF SafeCall, Authoritative
<1>3. QED
  BY <1>1, <1>2 DEF Next, Surroundings, Publish, Tick, DefineCapability,
     RegisterFactProvider, ProviderReads, Decide, IsAuthorized, FactFails, RecordAudit,
     AppendLog, Rejects, vars, call

\* An entry is written once, by its decision, after its verdict is final.
LEMMA StepEntries ==
  TypeOK /\ TypeOK' /\ ReadingIsSafe /\ EntriesAreOwn /\ [Next]_vars => EntriesAreOwn'
<1> SUFFICES ASSUME TypeOK, TypeOK', ReadingIsSafe, EntriesAreOwn, [Next]_vars,
                    NEW o \in Decisions
             PROVE  SafeEntry(o)'
  BY DEF EntriesAreOwn
<1>0. SafeEntry(o)
  BY DEF EntriesAreOwn
<1>1. ASSUME UNCHANGED <<call, record>> PROVE SafeEntry(o)'
  BY <1>0, <1>1 DEF SafeEntry, Entry, call, record
<1>2. ASSUME NEW d \in Decisions, Decide(d) PROVE SafeEntry(o)'
  <2>0. \A v \in {"reading", "audit"} : [pc EXCEPT ![d] = v][d] = v
    BY DEF TypeOK
  <2>1. CASE /\ o = d /\ pc[d] \in {"idle", "reading"} /\ UNCHANGED record
             /\ pc'[d] \in {"idle", "reading", "audit"}
    BY <1>0, <2>1 DEF SafeEntry, record
  <2>2. CASE UNCHANGED <<facts, pc, verdict, record>>
    BY <1>0, <2>2 DEF SafeEntry, Entry, record
  <2>3. CASE o # d /\ UNCHANGED record
    BY <1>0, <1>2, <2>3, Isolation DEF SafeEntry, Entry, record
  <2>4. CASE RecordAudit(d)
    BY <1>0, <2>4 DEF RecordAudit, SafeEntry, Entry, TypeOK
  <2>5. CASE AppendLog(d)
    BY <1>0, <2>5 DEF AppendLog, SafeEntry, Entry, TypeOK
  <2>6. CASE Rejects(d)
    BY <1>0, <2>6 DEF Rejects, SafeEntry, Entry, TypeOK, record
  <2>7. ASSUME NEW k \in inFlight, k.of = d, Answer(d, k) PROVE SafeEntry(o)'
    <3>1. UNCHANGED record
      BY <2>7 DEF Answer
    <3>2. CASE UNCHANGED <<facts, pc, verdict>>
      BY <2>2, <3>1, <3>2
    <3>3. CASE pc[d] = "reading" /\ pc'[d] \in {"reading", "audit"}
      BY <2>1, <2>3, <3>1, <3>3
    <3>4. pc[d] = "reading" => UNCHANGED pc \/ pc'[d] \in {"reading", "audit"}
      BY <2>7, <2>0, AnswerEffect DEF Conclude
    <3>5. QED
      BY <2>7, <3>2, <3>3, <3>4, AnswerEffect
  <2>8. CASE IsAuthorized(d)
    <3>1. pc[d] = "idle" /\ UNCHANGED record
      BY <2>8 DEF IsAuthorized
    <3>2. pc'[d] \in {"reading", "audit"}
      BY <2>8, <2>0, BeginEffect DEF Conclude
    <3>3. QED
      BY <2>1, <2>3, <3>1, <3>2
  <2>9. CASE FactFails(d)
    BY <2>1, <2>3, <2>9 DEF FactFails, Conclude, TypeOK
  <2>10. QED
    BY <1>2, <2>4, <2>5, <2>6, <2>7, <2>8, <2>9 DEF Decide
<1>3. Surroundings \/ UNCHANGED vars => UNCHANGED <<call, record>>
  BY DEF Surroundings, Publish, Tick, DefineCapability, RegisterFactProvider, ProviderReads,
         vars
<1>4. QED
  BY <1>1, <1>2, <1>3 DEF Next

------------------------------------------------------------------------------
\* Before the first call there is nothing to be unsafe.
LEMMA InitSafe == Init => Safe
<1> SUFFICES ASSUME Init PROVE Safe
  OBVIOUS
<1>1. TypeOK
  <2>1. \A f \in FactTypes :
          [value |-> Initially[f], asOf |-> 0, rev |-> 0] \in Assertion
    BY LimitAssumption DEF Assertion, Dates
  <2>2. NoVerdict \in [allowed : BOOLEAN, reason : Reasons, version : Nat]
    BY DEF NoVerdict, Reasons
  <2>3. QED
    BY <2>1, <2>2, WiringAssumption DEF Init, TypeOK, Read
<1>2. ReadingIsSafe
  BY DEF Init, ReadingIsSafe, SafeReading
<1>3. RevisionsGrow
  BY DEF Init, RevisionsGrow, RevocationSeen
<1>4. VerdictsRest
  BY DEF Init, VerdictsRest, SafeVerdict, NoVerdict
<1>5. EntriesAreOwn
  BY DEF Init, EntriesAreOwn, SafeEntry
<1>6. InUse /\ CallsAreSafe /\ FactsAreSourced
  BY DEF Init, InUse, CallsAreSafe, FactsAreSourced, Sourced
<1>7. QED
  BY <1>1, <1>2, <1>3, <1>4, <1>5, <1>6 DEF Safe

\* The inductive invariant.
THEOREM Inductive == Spec => []Safe
<1>1. Init => Safe
  BY InitSafe
<1>2. Safe /\ [Next]_vars => Safe'
  BY StepTyped, StepInUse, StepReading, StepRevisions, StepCalls, StepSourced,
     StepVerdicts, StepEntries DEF Safe
<1>3. QED
  BY <1>1, <1>2, PTL DEF Spec

\* Every state of isAuthorized's bookkeeping has its declared type, and nothing
\* is in the log that the audit does not hold.
THEOREM TypeCorrect == Spec => []TypeOK
BY Inductive, PTL DEF Safe

\* Whatever the capabilities, the clocks and the interleaving of decisions, a
\* recorded allow composed every fact its active definition requires, each
\* fresh when the decision began (isAuthorized fails closed).
THEOREM AllowsAreEarned == Spec => []AllowIsEarned
<1>1. Safe => AllowIsEarned
  <2> SUFFICES ASSUME Safe, NEW e \in audit, e.verdict.allowed
               PROVE  LET c == cap[e.id] IN
                      /\ c \in installed /\ c.active /\ c.version = e.verdict.version
                      /\ Compose(c, e.facts) = "allow"
                      /\ \A i \in 1..Len(c.requires) :
                           LET fact == e.facts[c.requires[i]] IN
                           /\ fact # Unread /\ fact.asOf # Unparsable
                           /\ started[e.id].at - fact.asOf <= MaxStaleness[e.id]
    BY DEF AllowIsEarned
  <2> DEFINE d == e.id
             c == cap[d]
  <2>1. d \in Decisions /\ SafeEntry(d) /\ SafeVerdict(d)
    BY DEF Safe, TypeOK, EntriesAreOwn, VerdictsRest
  <2>2. e.facts = facts[d] /\ e.verdict = verdict[d]
    BY <2>1 DEF SafeEntry, Entry
  <2>3. Rests(d, c) /\ verdict[d].version = c.version
    BY <2>1, <2>2 DEF SafeVerdict
  <2>4. /\ c \in Definitions /\ c.active /\ c.version = e.verdict.version
        /\ Compose(c, e.facts) = "allow"
        /\ \A i \in 1..Len(c.requires) : Usable(d, c.requires[i])
    <3>1. verdict[d].allowed \in BOOLEAN
      BY <2>1 DEF Safe, TypeOK
    <3>2. QED
      BY <2>2, <2>3, <3>1 DEF Rests
  <2>5. ASSUME NEW i \in 1..Len(c.requires)
        PROVE  LET fact == e.facts[c.requires[i]] IN
               /\ fact # Unread /\ fact.asOf # Unparsable
               /\ started[d].at - fact.asOf <= MaxStaleness[d]
    <3>1. c.requires[i] \in FactTypes
      BY <2>4, RequirementsAreFactTypes
    <3>2. Usable(d, c.requires[i]) /\ facts[d][c.requires[i]] \in Fact
      BY <2>1, <2>4, <3>1 DEF Safe, TypeOK, Read, Usable
    <3>3. started[d].at \in Nat /\ MaxStaleness[d] \in Nat
      BY <2>1, LimitAssumption DEF Safe, TypeOK
    <3> DEFINE fact == facts[d][c.requires[i]]
    <3>4. fact.asOf \in Int \cup {Unparsable} /\ fact # Unread
          /\ ~Stale(fact, started[d].at, MaxStaleness[d])
      BY <3>2 DEF Usable, Fact, Dates
    <3> HIDE DEF fact
    <3>5. fact.asOf # Unparsable /\ started[d].at - fact.asOf <= MaxStaleness[d]
      BY ONLY <3>3, <3>4 DEF Stale
    <3>6. QED
      BY <2>2, <3>4, <3>5 DEF fact
  <2>6. c \in installed
    BY <2>1, <2>4, CapabilityAssumption DEF Safe, InUse
  <2>7. QED
    BY <2>4, <2>5, <2>6
<1>2. QED
  BY <1>1, Inductive, PTL

\* A fact a decision composed is no older than what its producer asserted when
\* the decision began: there is no cache a revocation would have to outrun.
THEOREM RevocationsAreSeen == Spec => []RevocationSeen
BY Inductive, PTL DEF Safe, RevisionsGrow

\* What a caller was told is audited and logged, once; the definition a logged
\* decision began with reproduces it, and so does every definition ever stored
\* under the version it names, unless two different ones were (finalize,
\* reproduceDecision, defineCapability).
THEOREM AnswersAreRecorded == Spec => []AnswersAreOnRecord
<1>1. Safe => AnswersAreOnRecord
  <2> SUFFICES ASSUME Safe PROVE AnswersAreOnRecord
    OBVIOUS
  <2>0. \A e \in audit : e.id \in Decisions
    BY DEF Safe, TypeOK
  <2>1. \A e1, e2 \in audit : e1.id = e2.id => e1 = e2
    BY <2>0 DEF Safe, EntriesAreOwn, SafeEntry
  <2>2. \A d \in Decisions : pc[d] = "returned" => Entry(d) \in log /\ Entry(d) \in audit
    BY DEF Safe, EntriesAreOwn, SafeEntry
  <2>3. ASSUME NEW e \in log
        PROVE  /\ e.facts = facts[e.id] /\ e.verdict = verdict[e.id]
               /\ SafeVerdict(e.id) /\ pc[e.id] \notin {"idle", "reading"}
               /\ cap[e.id] \in installed \cup {Undefined}
    <3>1. e \in audit /\ e.id \in Decisions
      BY <2>0 DEF Safe, TypeOK
    <3>2. SafeEntry(e.id) /\ SafeVerdict(e.id)
      BY <3>1 DEF Safe, EntriesAreOwn, VerdictsRest
    <3>3. QED
      BY <3>1, <3>2 DEF SafeEntry, Entry, Safe, InUse
  <2>4. ASSUME NEW e \in log, cap[e.id] # Undefined, cap[e.id].active
        PROVE  Reproduces(e, cap[e.id])
    BY <2>3, <2>4 DEF SafeVerdict, Rests, Reproduces
  <2>5. ASSUME NEW e \in log, NEW c \in installed, c.version = e.verdict.version
        PROVE  Reproduces(e, c) \/ Forked(c.version)
    <3>1. CASE e.verdict.reason \in {"composed_allow", "composed_deny"}
      <4>1. /\ Rests(e.id, cap[e.id]) /\ verdict[e.id].version = cap[e.id].version
            /\ cap[e.id] \in installed
        BY <2>3, <3>1, CapabilityAssumption DEF SafeVerdict, Rests
      <4>2. CASE cap[e.id] = c
        BY <2>3, <2>5, <4>1, <4>2 DEF Rests, Reproduces
      <4>3. CASE cap[e.id] # c
        BY <2>3, <2>5, <4>1, <4>3 DEF Forked
      <4>4. QED
        BY <4>2, <4>3
    <3>2. CASE e.verdict.reason \notin {"composed_allow", "composed_deny"}
      BY <2>5, <3>2 DEF Reproduces
    <3>3. QED
      BY <3>1, <3>2
  <2>6. QED
    BY <2>1, <2>2, <2>4, <2>5 DEF AnswersAreOnRecord
<1>2. QED
  BY <1>1, Inductive, PTL

\* No step turns a concluded decision around: a late answer, a late timer and
\* the surroundings all leave its verdict and its facts as they were.
THEOREM VerdictsAreFinal == Spec => VerdictIsFinal
<1> DEFINE Final == \A d \in Decisions : pc[d] \notin {"idle", "reading"} =>
                      /\ verdict'[d] = verdict[d]
                      /\ facts'[d] = facts[d]
                      /\ pc'[d] \notin {"idle", "reading"}
<1>1. Safe /\ [Next]_vars => [Final]_vars
  <2> SUFFICES ASSUME Safe, [Next]_vars, NEW o \in Decisions,
                      pc[o] \notin {"idle", "reading"}
               PROVE  /\ verdict'[o] = verdict[o]
                      /\ facts'[o] = facts[o]
                      /\ pc'[o] \notin {"idle", "reading"}
    OBVIOUS
  <2>1. CASE UNCHANGED call
    BY <2>1 DEF call
  <2>2. ASSUME NEW d \in Decisions, Decide(d), o # d
        PROVE  /\ verdict'[o] = verdict[o]
               /\ facts'[o] = facts[o]
               /\ pc'[o] = pc[o]
    BY <2>2, Isolation DEF Safe
  <2>3. ASSUME Decide(o)
        PROVE  /\ verdict'[o] = verdict[o]
               /\ facts'[o] = facts[o]
               /\ pc'[o] \notin {"idle", "reading"}
    <3>1. CASE RecordAudit(o) \/ AppendLog(o) \/ Rejects(o)
      BY <3>1 DEF RecordAudit, AppendLog, Rejects, Safe, TypeOK
    <3>2. ASSUME NEW k \in inFlight, k.of = o, Answer(o, k)
          PROVE  UNCHANGED <<facts, pc, verdict>>
      BY <3>2, AnswerEffect DEF Safe
    <3>3. QED
      BY <2>3, <3>1, <3>2 DEF Decide, IsAuthorized, FactFails
  <2>4. Surroundings \/ UNCHANGED vars => UNCHANGED call
    BY DEF Surroundings, Publish, Tick, DefineCapability, RegisterFactProvider, ProviderReads,
         vars
  <2>5. QED
    BY <2>1, <2>2, <2>3, <2>4 DEF Next
<1>2. QED
  BY <1>1, Inductive, PTL DEF Spec, VerdictIsFinal

\* Every fact on record came from the producer that is registered for its type
\* now (registerFactProvider), though its provider may have been replaced
\* between being asked and answering.
THEOREM FactsComeFromOneSource == Spec => []FactsHaveOneSource
<1>1. Safe => FactsHaveOneSource
  <2> SUFFICES ASSUME Safe, NEW e \in audit, NEW f \in FactTypes, e.facts[f] # Unread
               PROVE  provider[f] # Nobody /\ e.facts[f].by = ProducerOf[provider[f]]
    BY DEF FactsHaveOneSource
  <2>1. e.id \in Decisions
    BY DEF Safe, TypeOK
  <2>2. e.facts = facts[e.id]
    <3>1. e = Entry(e.id)
      BY <2>1 DEF Safe, EntriesAreOwn, SafeEntry
    <3>2. QED
      BY ONLY <3>1 DEF Entry
  <2>3. QED
    BY <2>1, <2>2 DEF Safe, FactsAreSourced, Sourced
<1>2. QED
  BY <1>1, Inductive, PTL
==============================================================================
