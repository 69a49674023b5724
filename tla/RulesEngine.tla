----------------------------- MODULE RulesEngine -----------------------------
(***************************************************************************)
(* The Rules Engine (platform/rules/domain/engine.ts): rule sets in a      *)
(* registry that several processes share, evaluations that are audited and *)
(* then logged, and replay from what was logged.                           *)
(***************************************************************************)
EXTENDS VersionRegistry

CONSTANTS
  Evaluations,     \* calls of evaluate; also the evaluationId
  Inputs,          \* inputs a caller may supply
  Evaluate(_, _),  \* rule set, inputs -> the result body, or Malformed
  Malformed,       \* MalformedRuleError
  MaxRestarts      \* bound: restarts and rejecting stores

ASSUME RestartsAssumption == MaxRestarts \in Nat

VARIABLES
  pc,        \* where an evaluation is
  request,   \* what it was asked: process, version, inputs, dryRun
  result,    \* the result body pureEvaluate gave it
  audit, log,
  restarts

evaluation == <<pc, request, result>>
vars == <<registry, evaluation, audit, log, restarts>>

Requests == [process : Processes, version : Versions, inputs : Inputs,
             dryRun : BOOLEAN]

Init ==
  /\ RegistryInit
  /\ pc = [e \in Evaluations |-> "idle"]
  /\ request \in [Evaluations -> Requests]
  /\ result = [e \in Evaluations |-> Malformed]
  /\ audit = {} /\ log = {} /\ restarts = 0

Register ==
  /\ RegistryStep
  /\ UNCHANGED <<evaluation, audit, log, restarts>>

\* Mutant: the newest version the process knows.
BeginLatest(e) ==
  LET r == request[e]
      known == {v \in Versions : cache[r.process][v] # Absent}
      latest == CHOOSE v \in known : \A w \in known : w <= v
  IN
  /\ pc[e] = "idle" /\ known # {}
  /\ result' = [result EXCEPT ![e] = Evaluate(cache[r.process][latest], r.inputs)]
  /\ pc' = [pc EXCEPT ![e] = IF result'[e] = Malformed THEN "malformed" ELSE "audit"]
  /\ UNCHANGED <<registry, request, audit, log, restarts>>

\* Mutant: an evaluation that threw is recorded like any other.
BeginUnchecked(e) ==
  LET r == request[e] IN
  /\ pc[e] = "idle"
  /\ cache[r.process][r.version] # Absent
  /\ result' = [result EXCEPT ![e] = Evaluate(cache[r.process][r.version], r.inputs)]
  /\ pc' = [pc EXCEPT ![e] = "audit"]
  /\ UNCHANGED <<registry, request, audit, log, restarts>>

\* evaluate: look up, evaluate, all before the first await.
Begin(e) ==
  LET r == request[e] IN
  /\ pc[e] = "idle"
  /\ IF cache[r.process][r.version] = Absent
     THEN pc' = [pc EXCEPT ![e] = "notFound"] /\ UNCHANGED result
     ELSE /\ result' = [result EXCEPT ![e] =
                          Evaluate(cache[r.process][r.version], r.inputs)]
          /\ pc' = [pc EXCEPT ![e] =
                      IF result'[e] = Malformed THEN "malformed" ELSE "audit"]
  /\ UNCHANGED <<registry, request, audit, log, restarts>>

Record(e) == [id |-> e, version |-> request[e].version,
              inputs |-> request[e].inputs, result |-> result[e]]

\* Mutant: a dry run goes on to the log too.
AuditAndGoOn(e) ==
  /\ pc[e] = "audit"
  /\ audit' = audit \cup {Record(e)}
  /\ pc' = [pc EXCEPT ![e] = "append"]
  /\ UNCHANGED <<registry, request, result, log, restarts>>

\* A dry run is audited and returned; it leaves no evaluation record.
RecordAudit(e) ==
  /\ pc[e] = "audit"
  /\ audit' = audit \cup {Record(e)}
  /\ pc' = [pc EXCEPT ![e] = IF request[e].dryRun THEN "returned" ELSE "append"]
  /\ UNCHANGED <<registry, request, result, log, restarts>>

\* The row is inserted if its rule set's row is there (a foreign key).
AppendLog(e) ==
  /\ pc[e] = "append"
  /\ table[request[e].version] # Absent
  /\ log' = log \cup {Record(e)}
  /\ pc' = [pc EXCEPT ![e] = "returned"]
  /\ UNCHANGED <<registry, request, result, audit, restarts>>

AppendRefused(e) ==
  /\ pc[e] = "append"
  /\ table[request[e].version] = Absent
  /\ pc' = [pc EXCEPT ![e] = "rejected"]
  /\ UNCHANGED <<registry, request, result, audit, log, restarts>>

\* The audit or the log rejects.
Rejects(e) ==
  /\ pc[e] \in {"audit", "append"}
  /\ restarts < MaxRestarts
  /\ restarts' = restarts + 1
  /\ pc' = [pc EXCEPT ![e] = "rejected"]
  /\ UNCHANGED <<registry, request, result, audit, log>>

\* The process dies with its cache and its calls, and starts again.
Restart(p) ==
  /\ restarts < MaxRestarts
  /\ restarts' = restarts + 1
  /\ RestartRegistry(p)
  /\ pc' = [e \in Evaluations |->
       IF request[e].process = p /\ pc[e] \in {"audit", "append"}
       THEN "rejected" ELSE pc[e]]
  /\ UNCHANGED <<request, result, audit, log>>

Next ==
  \/ Register
  \/ \E e \in Evaluations : Begin(e) \/ RecordAudit(e) \/ AppendLog(e)
                             \/ AppendRefused(e) \/ Rejects(e)
  \/ \E p \in Processes : Restart(p)

Spec == Init /\ [][Next]_vars

TypeOK ==
  /\ RegistryTypeOK
  /\ pc \in [Evaluations -> {"idle", "audit", "append", "returned",
                             "notFound", "malformed", "rejected"}]
  /\ request \in [Evaluations -> Requests]
  /\ \A e \in Evaluations : pc[e] \in {"audit", "append"} => result[e] # Malformed
  /\ restarts \in 0..MaxRestarts

\* replay, in a process that has the version: evaluated again from the record.
Matches(p, r) == Evaluate(cache[p][r.version], r.inputs) = r.result

\* "Every evaluation is fully recorded for replay" (contracts/src/rules.ts):
\* where no store and no process fails, an evaluation is not rejected.
EvaluationsAreRecorded ==
  restarts = 0 => \A e \in Evaluations : pc[e] # "rejected"

\* A replay matches in every process, whatever was restarted, lost or loaded
\* meanwhile, unless two different definitions were accepted as one version.
ReplayMatchesUnlessForked ==
  \A r \in log, p \in Processes :
    cache[p][r.version] # Absent /\ ~Matches(p, r)
      => Cardinality(accepted[r.version]) > 1

\* The log holds no dry run, nothing the audit does not hold, one record per
\* evaluation, and only records whose rule set outlives every cache.
LogIsAudited ==
  /\ log \subseteq audit
  /\ \A r \in log : ~request[r.id].dryRun /\ table[r.version] # Absent
  /\ \A r1, r2 \in audit : r1.id = r2.id => r1 = r2
==============================================================================
