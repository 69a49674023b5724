--------------------------- MODULE RulesEngineProofs ---------------------------
(***************************************************************************)
(* Proofs about RulesEngine, the VersionRegistry under it and the          *)
(* interpreter of RuleEval: for any number of processes that share the     *)
(* table, and any interleaving of puts, inserts, loads, restarts and       *)
(* evaluations.  Only FirstRulesDecide and RefusalsWantInput depend on     *)
(* what the interpreter computes.                                          *)
(***************************************************************************)
EXTENDS InterpretedRules, WellFoundedInduction, FiniteSetTheorems, TLAPS

\* Whatever stands in the table, in a cache, in an insert on its way or in the
\* rows a load selected was accepted by some put() under that version.
ComesFrom(contents) ==
  \A v \in Versions : contents[v] # Absent => contents[v] \in accepted[v]
Provenance ==
  /\ \A v \in Versions : IsFiniteSet(accepted[v])
  /\ ComesFrom(table)
  /\ \A p \in Processes : ComesFrom(cache[p])
  /\ \A p \in Processes : loading[p] # Absent => ComesFrom(loading[p])
  /\ \A i \in inserts : i[2] \in accepted[i[1]]

\* What evaluation e is about to record, or recorded.
SafeEvaluation(e) ==
  /\ pc[e] \notin {"idle", "notFound"} =>
       \E def \in accepted[request[e].version] :
         result[e] = Evaluate(def, request[e].inputs)
  /\ pc[e] = "malformed" => result[e] = Malformed
  /\ pc[e] = "append" => Record(e) \in audit /\ ~request[e].dryRun
  /\ \A r \in audit :
       r.id = e => r = Record(e) /\ pc[e] \in {"append", "returned", "rejected"}

\* An audited evaluation is one of the evaluations and did not throw; a logged
\* one is audited, was no dry run, and its rule set has a row.
RecordsAreOwn ==
  /\ \A r \in audit : r.id \in Evaluations /\ r.result # Malformed
  /\ \A r \in log : /\ r \in audit
                    /\ ~request[r.id].dryRun
                    /\ r.version \in Versions /\ table[r.version] # Absent

\* Every audited result is what the interpreter makes of the recorded inputs
\* and a definition some put() accepted under the recorded version.
AuditedResultsAreEvaluations ==
  \A r \in audit : \E def \in accepted[r.version] : r.result = Evaluate(def, r.inputs)

Safe ==
  /\ TypeOK
  /\ result = [e \in Evaluations |-> result[e]]
  /\ Provenance
  /\ \A e \in Evaluations : SafeEvaluation(e)
  /\ RecordsAreOwn

------------------------------------------------------------------------------
\* A step of the registry keeps its types,
LEMMA RegistryTyped ==
  RegistryTypeOK /\ RegistryStep => RegistryTypeOK'
<1> SUFFICES ASSUME RegistryTypeOK, RegistryStep PROVE RegistryTypeOK'
  OBVIOUS
<1>1. ASSUME NEW p \in Processes, NEW v \in Versions, NEW def \in Definitions,
             Put(p, v, def)
      PROVE  RegistryTypeOK'
  <2>1. cache' \in [Processes -> Contents]
    BY <1>1 DEF Put, RegistryTypeOK, Contents
  <2>2. puts' \in 0..MaxPuts
    BY <1>1, RegistryAssumption DEF Put, RegistryTypeOK
  <2>3. QED
    BY <1>1, <2>1, <2>2 DEF Put, RegistryTypeOK
<1>2. ASSUME NEW v \in Versions, NEW def \in Definitions, InsertLands(v, def)
      PROVE  RegistryTypeOK'
  BY <1>2 DEF InsertLands, RegistryTypeOK, Contents
<1>3. ASSUME NEW p \in Processes, LoadSelect(p) PROVE RegistryTypeOK'
  BY <1>3 DEF LoadSelect, RegistryTypeOK
<1>4. ASSUME NEW p \in Processes, LoadFill(p) PROVE RegistryTypeOK'
  BY <1>4 DEF LoadFill, RegistryTypeOK, Contents
<1>5. QED
  BY <1>1, <1>2, <1>3, <1>4 DEF RegistryStep

\* and so does the restart of a process.
LEMMA RestartTyped ==
  ASSUME RegistryTypeOK, NEW p \in Processes, RestartRegistry(p)
  PROVE  RegistryTypeOK'
BY DEF RestartRegistry, RegistryTypeOK, Contents, Empty

\* Nothing enters the registry that no put() accepted, and what was accepted
\* stays accepted.
LEMMA RegistryKeepsProvenance ==
  ASSUME RegistryTypeOK, Provenance,
         RegistryStep \/ \E p \in Processes : RestartRegistry(p)
  PROVE  /\ Provenance'
         /\ \A v \in Versions : accepted[v] \subseteq accepted'[v]
<1>1. ASSUME NEW p \in Processes, NEW v \in Versions, NEW def \in Definitions,
             Put(p, v, def)
      PROVE  Provenance' /\ \A w \in Versions : accepted[w] \subseteq accepted'[w]
  <2>1. \A w \in Versions :
          accepted'[w] = IF w = v THEN accepted[w] \cup {def} ELSE accepted[w]
    BY <1>1 DEF Put, RegistryTypeOK
  <2>2. ASSUME NEW w \in Versions PROVE IsFiniteSet(accepted'[w])
    <3>1. IsFiniteSet(accepted[w])
      BY DEF Provenance
    <3>2. IsFiniteSet(accepted[w] \cup {def})
      BY ONLY <3>1, FS_AddElement
    <3>3. QED
      BY <2>1, <3>1, <3>2
  <2>3. \A q \in Processes, w \in Versions :
          cache'[q][w] = IF q = p /\ w = v THEN def ELSE cache[q][w]
    BY <1>1 DEF Put, RegistryTypeOK, Contents
  <2>4. ASSUME NEW i \in inserts' PROVE i[2] \in accepted'[i[1]]
    <3>1. CASE i = <<v, def>>
      BY <2>1, <3>1
    <3>2. CASE i \in inserts
      <4>1. i[1] \in Versions /\ i[2] \in accepted[i[1]]
        BY <3>2 DEF Provenance, RegistryTypeOK
      <4>2. QED
        BY <2>1, <4>1
    <3>3. QED
      BY <1>1, <3>1, <3>2 DEF Put
  <2>5. table' = table /\ loading' = loading
    BY <1>1 DEF Put
  <2>6. ComesFrom(table)'
    BY <2>1, <2>5 DEF Provenance, ComesFrom
  <2>7. ASSUME NEW q \in Processes, loading'[q] # Absent PROVE ComesFrom(loading[q])'
    BY <2>1, <2>5, <2>7 DEF Provenance, ComesFrom
  <2>8. ASSUME NEW q \in Processes PROVE ComesFrom(cache[q])'
    <3>1. ASSUME NEW w \in Versions, cache'[q][w] # Absent
          PROVE  cache'[q][w] \in accepted'[w]
      <4>1. CASE q = p /\ w = v
        BY <2>1, <2>3, <4>1
      <4>2. CASE ~(q = p /\ w = v)
        <5>1. cache'[q][w] = cache[q][w]
          BY <2>3, <4>2
        <5>2. cache[q][w] \in accepted[w]
          BY <3>1, <5>1 DEF Provenance, ComesFrom
        <5> QED
          BY <2>1, <5>1, <5>2
      <4> QED
        BY <4>1, <4>2
    <3> QED
      BY <3>1 DEF ComesFrom
  <2>9. QED
    BY <2>1, <2>2, <2>4, <2>6, <2>7, <2>8 DEF Provenance
<1>2. ASSUME NEW v \in Versions, NEW def \in Definitions, InsertLands(v, def)
      PROVE  Provenance' /\ accepted' = accepted
  <2>1. def \in accepted[v]
    BY <1>2 DEF InsertLands, Provenance
  <2>2. QED
    BY <1>2, <2>1 DEF InsertLands, Provenance, ComesFrom, RegistryTypeOK, Contents
<1>3. ASSUME NEW p \in Processes, LoadSelect(p)
      PROVE  Provenance' /\ accepted' = accepted
  BY <1>3 DEF LoadSelect, Provenance, ComesFrom, RegistryTypeOK
<1>4. ASSUME NEW p \in Processes, LoadFill(p)
      PROVE  Provenance' /\ accepted' = accepted
  BY <1>4 DEF LoadFill, Provenance, ComesFrom, RegistryTypeOK
<1>5. ASSUME NEW p \in Processes, RestartRegistry(p)
      PROVE  Provenance' /\ accepted' = accepted
  BY <1>5 DEF RestartRegistry, Provenance, ComesFrom, RegistryTypeOK, Empty
<1>6. QED
  BY <1>1, <1>2, <1>3, <1>4, <1>5 DEF RegistryStep

\* A row that is there is never rewritten, by no step and no restart.
LEMMA RowsKept ==
  ASSUME RegistryTypeOK, RegistryStep \/ \E p \in Processes : RestartRegistry(p)
  PROVE  \A v \in Versions : table[v] # Absent => table'[v] = table[v]
<1>1. ASSUME NEW v \in Versions, NEW def \in Definitions, InsertLands(v, def)
      PROVE  \A w \in Versions : table[w] # Absent => table'[w] = table[w]
  BY <1>1 DEF InsertLands, RegistryTypeOK, Contents
<1>2. QED
  BY <1>1 DEF RegistryStep, Put, LoadSelect, LoadFill, RestartRegistry

------------------------------------------------------------------------------
\* Beginning, recording, rejecting and restarting keep the types.
LEMMA StepTyped == Safe /\ [Next]_vars => TypeOK' /\ result' = [e \in Evaluations |-> result'[e]]
<1> SUFFICES ASSUME Safe, [Next]_vars
             PROVE  TypeOK' /\ result' = [e \in Evaluations |-> result'[e]]
  OBVIOUS
<1>0. TypeOK /\ RegistryTypeOK /\ result = [e \in Evaluations |-> result[e]]
  BY DEF Safe, TypeOK
<1>1. CASE Register
  BY <1>0, <1>1, RegistryTyped DEF Register, TypeOK, evaluation
<1>2. ASSUME NEW e \in Evaluations, Begin(e)
      PROVE  TypeOK' /\ result' = [o \in Evaluations |-> result'[o]]
  BY <1>0, <1>2 DEF Begin, TypeOK, RegistryTypeOK, registry
<1>3. ASSUME NEW e \in Evaluations,
             RecordAudit(e) \/ AppendLog(e) \/ AppendRefused(e) \/ Rejects(e)
      PROVE  TypeOK' /\ UNCHANGED result
  BY <1>0, <1>3, RestartsAssumption DEF RecordAudit, AppendLog, AppendRefused,
         Rejects, TypeOK, RegistryTypeOK, registry
<1>4. ASSUME NEW p \in Processes, Restart(p)
      PROVE  TypeOK' /\ UNCHANGED result
  <2>1. RegistryTypeOK'
    BY <1>0, <1>4, RestartTyped DEF Restart
  <2>2. QED
    BY <1>0, <1>4, <2>1, RestartsAssumption DEF Restart, TypeOK
<1>5. CASE UNCHANGED vars
  BY <1>0, <1>5 DEF vars, evaluation, TypeOK, RegistryTypeOK, registry
<1>6. QED
  BY <1>0, <1>1, <1>2, <1>3, <1>4, <1>5 DEF Next

\* What a step makes of the registry, seen from the evaluations: contents keep
\* their origin, accepted definitions and rows stay.
LEMMA StepRegistry ==
  ASSUME Safe, [Next]_vars
  PROVE  /\ Provenance'
         /\ \A v \in Versions : accepted[v] \subseteq accepted'[v]
         /\ \A v \in Versions : table[v] # Absent => table'[v] = table[v]
<1>1. CASE Register \/ \E p \in Processes : Restart(p)
  BY <1>1, RegistryKeepsProvenance, RowsKept DEF Register, Restart, Safe, TypeOK
<1>2. CASE UNCHANGED registry
  BY <1>2 DEF registry, Safe, Provenance, ComesFrom
<1>3. QED
  BY <1>1, <1>2 DEF Next, Begin, RecordAudit, AppendLog, AppendRefused, Rejects, vars

\* An evaluation records what pureEvaluate gave it, under its own id.
LEMMA StepEvaluation ==
  ASSUME Safe, [Next]_vars, NEW o \in Evaluations
  PROVE  SafeEvaluation(o)'
<1>0. /\ SafeEvaluation(o) /\ TypeOK
      /\ result = [e \in Evaluations |-> result[e]]
      /\ request' = request /\ request[o] \in Requests
  BY DEF Safe, TypeOK, Next, Register, Begin, RecordAudit, AppendLog, AppendRefused,
         Rejects, Restart, vars, evaluation
<1>1. accepted[request[o].version] \subseteq accepted'[request[o].version]
  BY <1>0, StepRegistry DEF Requests
<1>2. ASSUME UNCHANGED <<pc, result, audit>> PROVE SafeEvaluation(o)'
  BY <1>0, <1>1, <1>2 DEF SafeEvaluation, Record
<1>3. ASSUME NEW e \in Evaluations, Begin(e) PROVE SafeEvaluation(o)'
  <2>1. pc[e] = "idle" /\ audit' = audit
    BY <1>3 DEF Begin
  <2>2. CASE e # o
    <3>1. pc'[o] = pc[o] /\ result'[o] = result[o]
      BY <1>0, <1>3, <2>2 DEF Begin, TypeOK
    <3>2. QED
      BY <1>0, <1>1, <2>1, <3>1 DEF SafeEvaluation, Record
  <2>3. CASE e = o
    <3>1. \A r \in audit : r.id # o
      BY <1>0, <2>1, <2>3 DEF SafeEvaluation
    <3>2. CASE pc'[o] = "notFound"
      BY <2>1, <3>1, <3>2 DEF SafeEvaluation
    <3>3. CASE /\ cache[request[o].process][request[o].version] # Absent
               /\ result'[o] = Evaluate(cache[request[o].process][request[o].version],
                                        request[o].inputs)
               /\ pc'[o] = IF result'[o] = Malformed THEN "malformed" ELSE "audit"
      <4>1. cache[request[o].process][request[o].version] \in accepted[request[o].version]
        BY <1>0, <3>3 DEF Safe, Provenance, ComesFrom, Requests
      <4>2. \E def \in accepted'[request'[o].version] :
              result'[o] = Evaluate(def, request'[o].inputs)
        BY <1>0, <1>1, <3>3, <4>1
      <4>3. QED
        BY <2>1, <3>1, <3>3, <4>2 DEF SafeEvaluation
    <3>4. QED
      BY <1>0, <1>3, <2>3, <3>2, <3>3 DEF Begin, TypeOK
  <2>4. QED
    BY <2>2, <2>3
<1>4. ASSUME NEW e \in Evaluations, RecordAudit(e) PROVE SafeEvaluation(o)'
  BY <1>0, <1>1, <1>4 DEF RecordAudit, SafeEvaluation, Record, TypeOK
<1>5. ASSUME NEW e \in Evaluations, AppendLog(e) \/ AppendRefused(e) \/ Rejects(e)
      PROVE  SafeEvaluation(o)'
  BY <1>0, <1>1, <1>5 DEF AppendLog, AppendRefused, Rejects, SafeEvaluation, Record, TypeOK
<1>6. ASSUME NEW p \in Processes, Restart(p) PROVE SafeEvaluation(o)'
  BY <1>0, <1>1, <1>6 DEF Restart, SafeEvaluation, Record, TypeOK
<1>7. CASE Register \/ UNCHANGED vars
  BY <1>2, <1>7 DEF Register, vars, evaluation
<1>8. QED
  BY <1>3, <1>4, <1>5, <1>6, <1>7 DEF Next

\* The log takes over what the audit holds and no dry run, while the row of
\* its rule set is there.
LEMMA StepRecords ==
  ASSUME Safe, [Next]_vars
  PROVE  RecordsAreOwn'
<1>0. /\ RecordsAreOwn /\ TypeOK /\ request' = request
      /\ \A v \in Versions : table[v] # Absent => table'[v] = table[v]
      /\ \A e \in Evaluations : SafeEvaluation(e) /\ request[e].version \in Versions
      /\ \A e \in Evaluations : pc[e] = "audit" => result[e] # Malformed
  BY StepRegistry DEF Safe, TypeOK, Requests, Next, Register, Begin, RecordAudit,
         AppendLog, AppendRefused, Rejects, Restart, vars, evaluation
<1>1. CASE UNCHANGED <<audit, log>>
  BY <1>0, <1>1 DEF RecordsAreOwn
<1>2. ASSUME NEW e \in Evaluations, RecordAudit(e) PROVE RecordsAreOwn'
  BY <1>0, <1>2 DEF RecordAudit, RecordsAreOwn, Record
<1>3. ASSUME NEW e \in Evaluations, AppendLog(e) PROVE RecordsAreOwn'
  BY <1>0, <1>3 DEF AppendLog, RecordsAreOwn, Record, SafeEvaluation
<1>4. QED
  BY <1>1, <1>2, <1>3 DEF Next, Register, Begin, AppendRefused, Rejects, Restart, vars

\* At the start nothing is stored, evaluated or on record.
LEMMA InitSafe == Init => Safe
<1> SUFFICES ASSUME Init PROVE Safe
  OBVIOUS
<1>1. RegistryTypeOK
  BY RegistryAssumption DEF Init, RegistryInit, RegistryTypeOK, Contents, Empty
<1>2. TypeOK
  BY <1>1, RestartsAssumption DEF Init, TypeOK
<1>3. Provenance
  BY FS_EmptySet DEF Init, RegistryInit, Provenance, ComesFrom, Empty
<1>4. QED
  BY <1>2, <1>3 DEF Init, Safe, SafeEvaluation, RecordsAreOwn

------------------------------------------------------------------------------
\* The invariant says of every audit entry which call it records, hence what
\* its result was computed from.
LEMMA SafeResults == Safe => AuditedResultsAreEvaluations
<1> SUFFICES ASSUME Safe, NEW r \in audit
             PROVE  \E def \in accepted[r.version] : r.result = Evaluate(def, r.inputs)
  BY DEF AuditedResultsAreEvaluations
<1>1. SafeEvaluation(r.id)
  BY DEF Safe, RecordsAreOwn
<1>2. r = Record(r.id) /\ pc[r.id] \in {"append", "returned", "rejected"}
  BY <1>1 DEF SafeEvaluation
<1>3. /\ r.version = request[r.id].version
      /\ r.inputs = request[r.id].inputs
      /\ r.result = result[r.id]
  BY <1>2 DEF Record
<1>4. QED
  BY <1>1, <1>2, <1>3 DEF SafeEvaluation

\* The inductive invariant.
THEOREM Inductive == Spec => []Safe
<1>1. Safe /\ [Next]_vars => Safe'
  BY StepTyped, StepRegistry, StepEvaluation, StepRecords DEF Safe
<1>2. QED
  BY <1>1, InitSafe, PTL DEF Spec

\* Registry, evaluations and bounds have their declared types, and nothing
\* that threw is on its way to the audit.
THEOREM TypeCorrect == Spec => []TypeOK
BY Inductive, PTL DEF Safe

\* The row of a version is never rewritten, whichever process inserts, loads
\* or restarts (the unique key and the revoked UPDATE).
THEOREM RowsNeverChange == Spec => RowsAreImmutable
<1>1. Safe /\ [Next]_vars =>
        [\A v \in Versions : table[v] # Absent => table'[v] = table[v]]_registry
  BY StepRegistry
<1>2. QED
  BY <1>1, Inductive, PTL DEF Spec, RowsAreImmutable

\* evaluate answers from the version it was asked for, whatever another process
\* puts or loads under it while the call awaits its stores.
THEOREM ResultsComeFromDefinitions == Spec => []AuditedResultsAreEvaluations
BY SafeResults, Inductive, PTL

\* The log holds no dry run, nothing unaudited, one record per evaluation, and
\* only records whose rule set is in the table.
THEOREM LogsAreAudited == Spec => []LogIsAudited
<1>1. Safe => LogIsAudited
  BY DEF Safe, RecordsAreOwn, SafeEvaluation, LogIsAudited
<1>2. QED
  BY <1>1, Inductive, PTL

\* Replay answers what was logged, in every process and whatever restarted,
\* was lost or loaded, unless two definitions were accepted as one version.
THEOREM ReplaysMatch == Spec => []ReplayMatchesUnlessForked
<1>1. Safe => ReplayMatchesUnlessForked
  <2> SUFFICES ASSUME Safe, NEW r \in log, NEW p \in Processes,
                      cache[p][r.version] # Absent, ~Matches(p, r)
               PROVE  Cardinality(accepted[r.version]) > 1
    BY DEF ReplayMatchesUnlessForked
  <2> DEFINE A == accepted[r.version]
             mine == cache[p][r.version]
  <2>1. r \in audit /\ r.version \in Versions /\ r.id \in Evaluations
    BY DEF Safe, RecordsAreOwn
  <2>2. mine \in A /\ IsFiniteSet(A)
    BY <2>1 DEF Safe, Provenance, ComesFrom
  <2>3. PICK def \in A : r.result = Evaluate(def, r.inputs)
    BY <2>1, SafeResults DEF AuditedResultsAreEvaluations
  <2>4. def # mine
    BY <2>3 DEF Matches
  <2>5. Cardinality(A) \in Nat
    BY <2>2, FS_CardinalityType
  <2>6. Cardinality(A) # 0
    BY <2>2, FS_EmptySet
  <2>7. Cardinality(A) # 1
    BY <2>2, <2>3, <2>4, FS_Singleton
  <2>8. QED
    BY <2>5, <2>6, <2>7
<1>2. QED
  BY <1>1, Inductive, PTL

------------------------------------------------------------------------------
(* The rules that fire, and what makes an expression throw.  Induction over *)
(* numbers is by the least counterexample, as in WorkflowPlanProofs.        *)

Smaller == {p \in Nat \X Nat : p[1] < p[2]}

\* The natural numbers are well founded under <,
LEMMA SmallerIsWellFounded == IsWellFoundedOn(Smaller, Nat)
<1>1. OpToRel(<, Nat) = Smaller
  BY DEF OpToRel, Smaller
<1>2. QED
  BY <1>1, NatLessThanWellFounded

\* so a set of them that is not empty has a least one.
LEMMA Least ==
  ASSUME NEW T \in SUBSET Nat, T # {}
  PROVE  \E x \in T : \A y \in T : x <= y
<1>1. PICK x \in T : \A y \in T : ~(<<y, x>> \in Smaller)
  BY ONLY T \in SUBSET Nat, T # {}, SmallerIsWellFounded, WFMin
<1>2. ASSUME NEW y \in T PROVE x <= y
  <2>1. y \in Nat /\ x \in Nat
    OBVIOUS
  <2>2. y < x => <<y, x>> \in Smaller
    BY <2>1 DEF Smaller
  <2>3. QED
    BY ONLY <1>1, <2>1, <2>2, y \in T
<1>3. QED
  BY <1>2

\* The recursion of Fired, on the numbers up to n.
Firing(v, f, n) ==
  \A k \in 0..n :
    f[k] = IF k = 0 THEN << >>
           ELSE IF truthy(v[k]) THEN Append(f[k - 1], k) ELSE f[k - 1]

\* It has a solution as far as one looks ...
LEMMA FiringExists ==
  ASSUME NEW v, NEW n \in Nat
  PROVE  \E f : Firing(v, f, n)
<1> DEFINE T == {m \in Nat : \A f : ~Firing(v, f, m)}
<1> SUFFICES ASSUME T # {} PROVE FALSE
  OBVIOUS
<1>1. PICK m \in T : \A x \in T : m <= x
  BY Least
<1>2. m \in Nat /\ \A f : ~Firing(v, f, m)
  OBVIOUS
<1>3. CASE m = 0
  <2>1. Firing(v, [k \in {0} |-> << >>], 0)
    BY DEF Firing
  <2> QED
    BY <1>2, <1>3, <2>1
<1>4. CASE m # 0
  <2>1. m - 1 \in Nat /\ m - 1 \notin T
    BY <1>1, <1>2, <1>4
  <2>2. PICK g : Firing(v, g, m - 1)
    BY <2>1
  <2> DEFINE f == [k \in 0..m |->
                    IF k = m THEN IF truthy(v[m]) THEN Append(g[m - 1], m) ELSE g[m - 1]
                    ELSE g[k]]
  <2>3. ASSUME NEW k \in 0..m
        PROVE  f[k] = IF k = 0 THEN << >>
                      ELSE IF truthy(v[k]) THEN Append(f[k - 1], k) ELSE f[k - 1]
    <3>1. CASE k = m
      <4>1. /\ f[k] = IF truthy(v[m]) THEN Append(g[m - 1], m) ELSE g[m - 1]
            /\ f[k - 1] = g[m - 1]
        BY <3>1, <2>1
      <4> QED
        BY <4>1, <3>1, <1>4
    <3>2. CASE k = 0
      BY <3>2, <2>1, <2>2, <1>4 DEF Firing
    <3>3. CASE k # m /\ k # 0
      <4>1. k \in 0..(m - 1) /\ k - 1 \in 0..m /\ k - 1 # m
        BY <3>3, <2>1
      <4>2. f[k] = g[k] /\ f[k - 1] = g[k - 1]
        BY <4>1, <3>3
      <4>3. g[k] = IF truthy(v[k]) THEN Append(g[k - 1], k) ELSE g[k - 1]
        BY <4>1, <3>3, <2>2 DEF Firing
      <4> QED
        BY <4>2, <4>3, <3>3
    <3> QED
      BY <3>1, <3>2, <3>3
  <2>4. Firing(v, f, m)
    BY <2>3 DEF Firing
  <2> QED
    BY <2>4, <1>2
<1> QED
  BY <1>3, <1>4

\* ... and Fired is its last value.
LEMMA FiredUnfolds ==
  ASSUME NEW v, Len(v) \in Nat
  PROVE  \E f : Firing(v, f, Len(v)) /\ Fired(v) = f[Len(v)]
<1> DEFINE N == Len(v)
           Is(f) == f = [n \in 0..N |->
                          IF n = 0 THEN << >>
                          ELSE IF truthy(v[n]) THEN Append(f[n - 1], n) ELSE f[n - 1]]
           fired == CHOOSE f : Is(f)
<1>1. \E f : Is(f)
  <2>1. PICK g : Firing(v, g, N)
    BY FiringExists
  <2> DEFINE f == [n \in 0..N |-> g[n]]
  <2>2. ASSUME NEW n \in 0..N
        PROVE  f[n] = IF n = 0 THEN << >>
                      ELSE IF truthy(v[n]) THEN Append(f[n - 1], n) ELSE f[n - 1]
    <3>1. n # 0 => n - 1 \in 0..N
      OBVIOUS
    <3>2. n # 0 => f[n - 1] = g[n - 1]
      BY <3>1
    <3>3. f[n] = IF n = 0 THEN << >>
                 ELSE IF truthy(v[n]) THEN Append(g[n - 1], n) ELSE g[n - 1]
      BY <2>1 DEF Firing
    <3> QED
      BY <3>2, <3>3
  <2>3. Is(f)
    BY <2>2
  <2> QED
    BY <2>3
<1>2. Is(fired)
  BY <1>1
<1>3. Fired(v) = fired[N]
  BY DEF Fired
<1> HIDE DEF fired, N
<1>4. Firing(v, fired, N)
  BY <1>2 DEF Firing
<1> QED
  BY <1>3, <1>4 DEF N

\* The true places among the first n, in order.
Lists(s, v, n) ==
  /\ s \in Seq(1..n)
  /\ \A i \in 1..n : truthy(v[i]) <=> \E k \in 1..Len(s) : s[k] = i
  /\ \A k, l \in 1..Len(s) : k < l => s[k] < s[l]

\* One more place is listed if it is true,
LEMMA ListsOneMore ==
  ASSUME NEW v, NEW n \in Nat, NEW s, Lists(s, v, n)
  PROVE  Lists(IF truthy(v[n + 1]) THEN Append(s, n + 1) ELSE s, v, n + 1)
<1>0. s \in Seq(1..n) /\ Len(s) \in Nat /\ \A k \in 1..Len(s) : s[k] \in 1..n
  BY DEF Lists
<1>1. s \in Seq(1..(n + 1))
  <2>1. 1..n \subseteq 1..(n + 1)
    OBVIOUS
  <2> QED
    BY <1>0, <2>1
<1>2. CASE ~truthy(v[n + 1])
  <2>1. \A i \in 1..(n + 1) : i \in 1..n \/ i = n + 1
    OBVIOUS
  <2>2. \A k \in 1..Len(s) : s[k] # n + 1
    BY <1>0
  <2>3. \A i \in 1..(n + 1) : truthy(v[i]) <=> \E k \in 1..Len(s) : s[k] = i
    BY <1>2, <2>1, <2>2 DEF Lists
  <2> QED
    BY <1>1, <1>2, <2>3 DEF Lists
<1>3. CASE truthy(v[n + 1])
  <2> DEFINE u == Append(s, n + 1)
  <2>1. /\ u \in Seq(1..(n + 1)) /\ Len(u) = Len(s) + 1
        /\ \A k \in 1..Len(s) : u[k] = s[k]
        /\ u[Len(s) + 1] = n + 1
    BY <1>0, <1>1
  <2> HIDE DEF u
  <2>2. \A k \in 1..Len(u) : k \in 1..Len(s) \/ k = Len(s) + 1
    BY <1>0, <2>1
  <2>3. Len(s) + 1 \in 1..Len(u) /\ \A k \in 1..Len(s) : k \in 1..Len(u)
    BY <1>0, <2>1
  <2>4. ASSUME NEW i \in 1..(n + 1)
        PROVE  truthy(v[i]) <=> \E k \in 1..Len(u) : u[k] = i
    <3>1. CASE i = n + 1
      BY <1>3, <2>1, <2>3, <3>1
    <3>2. CASE i \in 1..n
      <4>1. i # n + 1
        BY <3>2
      <4>2. (\E k \in 1..Len(u) : u[k] = i) <=> \E k \in 1..Len(s) : s[k] = i
        BY <2>1, <2>2, <2>3, <4>1
      <4> QED
        BY <3>2, <4>2 DEF Lists
    <3> QED
      BY <3>1, <3>2
  <2>5. ASSUME NEW k \in 1..Len(u), NEW l \in 1..Len(u), k < l
        PROVE  u[k] < u[l]
    <3>0. k \in 1..Len(s)
      <4>1. Len(s) \in Nat /\ Len(u) = Len(s) + 1
        BY <1>0, <2>1
      <4> QED
        BY ONLY <2>5, <4>1, k \in 1..Len(u), l \in 1..Len(u)
    <3>1. k \in 1..Len(s) /\ s[k] \in 1..n /\ u[k] = s[k]
      BY <1>0, <2>1, <3>0
    <3>2. CASE l = Len(s) + 1
      BY <2>1, <3>1, <3>2
    <3>3. CASE l \in 1..Len(s)
      BY <2>1, <2>5, <3>1, <3>3 DEF Lists
    <3> QED
      BY <2>2, <3>2, <3>3
  <2>6. Lists(u, v, n + 1)
    BY <2>1, <2>4, <2>5 DEF Lists
  <2> QED
    BY <1>3, <2>6 DEF u
<1> QED
  BY <1>2, <1>3

\* so what fires is every true place, in order.
LEMMA FiredInOrder ==
  ASSUME NEW v, Len(v) \in Nat
  PROVE  Lists(Fired(v), v, Len(v))
<1> DEFINE N == Len(v)
<1>1. PICK f : Firing(v, f, N) /\ Fired(v) = f[N]
  BY FiredUnfolds
<1> DEFINE T == {n \in 0..N : ~Lists(f[n], v, n)}
<1> SUFFICES ASSUME T # {} PROVE FALSE
  BY <1>1
<1>2. PICK n \in T : \A x \in T : n <= x
  <2>1. T \in SUBSET Nat
    OBVIOUS
  <2> QED
    BY <2>1, Least
<1>3. n \in 0..N /\ ~Lists(f[n], v, n)
  OBVIOUS
<1>4. CASE n = 0
  <2>1. f[0] = << >>
    BY <1>1 DEF Firing
  <2>2. Lists(<< >>, v, 0)
    BY DEF Lists
  <2> QED
    BY <1>3, <1>4, <2>1, <2>2
<1>5. CASE n # 0
  <2>1. n - 1 \in 0..N /\ n - 1 \in Nat /\ n - 1 \notin T /\ (n - 1) + 1 = n
    BY <1>2, <1>3, <1>5
  <2>2. Lists(f[n - 1], v, n - 1)
    BY <2>1
  <2>3. f[n] = IF truthy(v[n]) THEN Append(f[n - 1], n) ELSE f[n - 1]
    BY <1>1, <1>3, <1>5 DEF Firing
  <2>4. Lists(IF truthy(v[n]) THEN Append(f[n - 1], n) ELSE f[n - 1], v, n)
    BY ONLY <2>1, <2>2, ListsOneMore
  <2> QED
    BY <1>3, <2>3, <2>4
<1> QED
  BY <1>4, <1>5

------------------------------------------------------------------------------
\* An expression is on a level, and its parts are on earlier ones.
LEMMA LevelsNest ==
  /\ Len(Levels) \in Nat /\ DOMAIN Levels = 1..Len(Levels)
  /\ \A x \in Expressions : \E n \in 1..Len(Levels) : x \in Levels[n]
  /\ \A n \in 1..Len(Levels) : \A x \in Levels[n] :
       /\ x \in Expressions
       /\ Parts(x) \subseteq Expressions
       /\ \A y \in Parts(x) : \E m \in 1..(n - 1) : y \in Levels[m]
<1>1. Len(Levels) \in Nat /\ DOMAIN Levels = 1..Len(Levels)
  BY LevelsAssumption
<1>2. \A x \in Expressions : \E n \in 1..Len(Levels) : x \in Levels[n]
  BY <1>1 DEF Expressions
<1>3. ASSUME NEW n \in 1..Len(Levels), NEW x \in Levels[n]
      PROVE  /\ x \in Expressions
             /\ \A y \in Parts(x) : y \in Expressions /\ \E m \in 1..(n - 1) : y \in Levels[m]
  <2>1. x \in Expressions
    BY <1>1 DEF Expressions
  <2>2. ASSUME NEW y \in Parts(x) PROVE \E m \in 1..(n - 1) : y \in Levels[m]
    BY <1>1, LevelsAssumption
  <2>3. ASSUME NEW y \in Parts(x) PROVE y \in Expressions
    <3>1. PICK m \in 1..(n - 1) : y \in Levels[m]
      BY <2>2
    <3>2. m \in DOMAIN Levels
      BY <1>1
    <3> QED
      BY <3>1, <3>2 DEF Expressions
  <2> QED
    BY <2>1, <2>2, <2>3
<1> QED
  BY <1>1, <1>2, <1>3

\* The value of an expression depends on the values of its parts only.
LEMMA ValueOfParts ==
  ASSUME NEW n \in 1..Len(Levels), NEW x \in Levels[n], NEW inputs, NEW f, NEW g,
         \A y \in Parts(x) : f[y] = g[y]
  PROVE  ValueOf(x, inputs, f) = ValueOf(x, inputs, g)
<1>1. x.kind \in {"lit", "input", "not", "and", "or", "cmp", "in"}
  BY LevelsAssumption, LevelsNest
<1>2. CASE x.kind \in {"and", "or"}
  <2>1. \A i \in 1..Len(x.exprs) : x.exprs[i] \in Parts(x)
    BY <1>2 DEF Parts
  <2>2. [i \in 1..Len(x.exprs) |-> f[x.exprs[i]]] = [i \in 1..Len(x.exprs) |-> g[x.exprs[i]]]
    BY <2>1
  <2> QED
    BY <1>2, <2>2 DEF ValueOf
<1>3. CASE x.kind = "cmp"
  <2>1. f[x.left] = g[x.left] /\ f[x.right] = g[x.right]
    BY <1>3 DEF Parts
  <2> QED
    BY <1>3, <2>1 DEF ValueOf
<1>4. CASE x.kind \in {"not", "in"}
  BY <1>4 DEF Parts, ValueOf
<1>5. CASE x.kind \in {"lit", "input"}
  BY <1>5 DEF ValueOf
<1> QED
  BY <1>1, <1>2, <1>3, <1>4, <1>5

\* The recursions of evalExpr and of Mentions, on the first n levels.
Evaluates(f, inputs, n) ==
  \A m \in 1..n : \A y \in Levels[m] : f[y] = ValueOf(y, inputs, f)
Collects(f, n) ==
  \A m \in 1..n : \A y \in Levels[m] : f[y] = Reads(y, f)

\* They have solutions: level by level, ...
LEMMA EvaluatesExists ==
  ASSUME NEW inputs, NEW n \in 0..Len(Levels)
  PROVE  \E f : Evaluates(f, inputs, n)
<1> DEFINE N == Len(Levels)
           T == {m \in 0..N : \A f : ~Evaluates(f, inputs, m)}
<1> SUFFICES ASSUME T # {} PROVE FALSE
  OBVIOUS
<1>0. N \in Nat
  BY LevelsNest
<1>1. PICK m \in T : \A x \in T : m <= x
  <2>1. T \in SUBSET Nat
    BY <1>0
  <2> QED
    BY <2>1, Least
<1>2. m \in 0..N /\ \A f : ~Evaluates(f, inputs, m)
  OBVIOUS
<1>3. m # 0
  BY <1>2 DEF Evaluates
<1>4. m - 1 \in 0..N /\ m - 1 \notin T
  BY <1>0, <1>1, <1>2, <1>3
<1>5. PICK g : Evaluates(g, inputs, m - 1)
  BY <1>4
<1> DEFINE f == [y \in Expressions |-> ValueOf(y, inputs, g)]
<1>6. ASSUME NEW k \in 1..m, NEW y \in Levels[k]
      PROVE  f[y] = ValueOf(y, inputs, f)
  <2>1. k \in 1..N
    BY <1>0, <1>2
  <2>2. f[y] = ValueOf(y, inputs, g)
    BY <2>1, LevelsNest
  <2>3. ASSUME NEW z \in Parts(y) PROVE g[z] = f[z]
    <3>1. z \in Expressions /\ \E j \in 1..(k - 1) : z \in Levels[j]
      BY <2>1, LevelsNest
    <3>2. PICK j \in 1..(m - 1) : z \in Levels[j]
      BY <3>1, <1>2, <2>1
    <3>3. g[z] = ValueOf(z, inputs, g)
      BY <3>2, <1>5 DEF Evaluates
    <3> QED
      BY <3>1, <3>3
  <2> HIDE DEF f, N
  <2>4. ValueOf(y, inputs, g) = ValueOf(y, inputs, f)
    BY <2>1, <2>3, ValueOfParts DEF N
  <2> QED
    BY <2>2, <2>4
<1> HIDE DEF f
<1>7. Evaluates(f, inputs, m)
  BY <1>6 DEF Evaluates
<1> QED
  BY <1>2, <1>7

LEMMA CollectsExists ==
  ASSUME NEW n \in 0..Len(Levels)
  PROVE  \E f : Collects(f, n)
<1> DEFINE N == Len(Levels)
           T == {m \in 0..N : \A f : ~Collects(f, m)}
<1> SUFFICES ASSUME T # {} PROVE FALSE
  OBVIOUS
<1>0. N \in Nat
  BY LevelsNest
<1>1. PICK m \in T : \A x \in T : m <= x
  <2>1. T \in SUBSET Nat
    BY <1>0
  <2> QED
    BY <2>1, Least
<1>2. m \in 0..N /\ \A f : ~Collects(f, m)
  OBVIOUS
<1>3. m # 0
  BY <1>2 DEF Collects
<1>4. m - 1 \in 0..N /\ m - 1 \notin T
  BY <1>0, <1>1, <1>2, <1>3
<1>5. PICK g : Collects(g, m - 1)
  BY <1>4
<1> DEFINE f == [y \in Expressions |-> Reads(y, g)]
<1>6. ASSUME NEW k \in 1..m, NEW y \in Levels[k]
      PROVE  f[y] = Reads(y, f)
  <2>1. k \in 1..N
    BY <1>0, <1>2
  <2>2. f[y] = Reads(y, g)
    BY <2>1, LevelsNest
  <2>3. ASSUME NEW z \in Parts(y) PROVE g[z] = f[z]
    <3>1. z \in Expressions /\ \E j \in 1..(k - 1) : z \in Levels[j]
      BY <2>1, LevelsNest
    <3>2. PICK j \in 1..(m - 1) : z \in Levels[j]
      BY <3>1, <1>2, <2>1
    <3>3. g[z] = Reads(z, g)
      BY <3>2, <1>5 DEF Collects
    <3> QED
      BY <3>1, <3>3
  <2> HIDE DEF f, N
  <2>4. {g[z] : z \in Parts(y)} = {f[z] : z \in Parts(y)}
    BY <2>3
  <2> QED
    BY <2>2, <2>4 DEF Reads
<1> HIDE DEF f
<1>7. Collects(f, m)
  BY <1>6 DEF Collects
<1> QED
  BY <1>2, <1>7

\* ... which evalExpr and Mentions are.
LEMMA EvalUnfolds ==
  ASSUME NEW inputs
  PROVE  \E f : /\ Evaluates(f, inputs, Len(Levels))
                /\ \A x : evalExpr(x, inputs) = f[x]
<1> DEFINE Is(f) == f = [y \in Expressions |-> ValueOf(y, inputs, f)]
           value == CHOOSE f : Is(f)
<1>0. Len(Levels) \in 0..Len(Levels)
  BY LevelsNest
<1>1. PICK g : Evaluates(g, inputs, Len(Levels))
  BY <1>0, EvaluatesExists
<1> DEFINE f == [y \in Expressions |-> g[y]]
<1>2. ASSUME NEW y \in Expressions PROVE f[y] = ValueOf(y, inputs, f)
  <2>1. PICK n \in 1..Len(Levels) : y \in Levels[n]
    BY LevelsNest
  <2>2. g[y] = ValueOf(y, inputs, g)
    BY <2>1, <1>1 DEF Evaluates
  <2>3. \A z \in Parts(y) : g[z] = f[z]
    BY <2>1, LevelsNest
  <2>4. f[y] = g[y]
    OBVIOUS
  <2> HIDE DEF f
  <2>5. ValueOf(y, inputs, g) = ValueOf(y, inputs, f)
    BY <2>1, <2>3, ValueOfParts
  <2> QED
    BY <2>2, <2>4, <2>5
<1>3. Is(f)
  BY <1>2
<1>4. Is(value)
  BY <1>3
<1>5. \A x : evalExpr(x, inputs) = value[x]
  BY DEF evalExpr
<1> HIDE DEF value
<1>6. Evaluates(value, inputs, Len(Levels))
  BY <1>4, LevelsNest DEF Evaluates
<1> QED
  BY <1>5, <1>6

LEMMA MentionsUnfolds ==
  \E f : Collects(f, Len(Levels)) /\ \A x : Mentions(x) = f[x]
<1> DEFINE Is(f) == f = [y \in Expressions |-> Reads(y, f)]
           mentioned == CHOOSE f : Is(f)
<1>0. Len(Levels) \in 0..Len(Levels)
  BY LevelsNest
<1>1. PICK g : Collects(g, Len(Levels))
  BY <1>0, CollectsExists
<1> DEFINE f == [y \in Expressions |-> g[y]]
<1>2. ASSUME NEW y \in Expressions PROVE f[y] = Reads(y, f)
  <2>1. PICK n \in 1..Len(Levels) : y \in Levels[n]
    BY LevelsNest
  <2>2. g[y] = Reads(y, g)
    BY <2>1, <1>1 DEF Collects
  <2>3. \A z \in Parts(y) : g[z] = f[z]
    BY <2>1, LevelsNest
  <2>4. f[y] = g[y]
    OBVIOUS
  <2> HIDE DEF f
  <2>5. {g[z] : z \in Parts(y)} = {f[z] : z \in Parts(y)}
    BY <2>3
  <2> QED
    BY <2>2, <2>4, <2>5 DEF Reads
<1>3. Is(f)
  BY <1>2
<1>4. Is(mentioned)
  BY <1>3
<1>5. \A x : Mentions(x) = mentioned[x]
  BY DEF Mentions
<1> HIDE DEF mentioned
<1>6. Collects(mentioned, Len(Levels))
  BY <1>4, LevelsNest DEF Collects
<1> QED
  BY <1>5, <1>6


\* A quantified operand list throws only if one of its operands does.
LEMMA UntilThrows ==
  ASSUME NEW vs, Len(vs) \in Nat, NEW settles, NEW otherwise
  PROVE  /\ ~Comparable(Until(vs, settles, otherwise))
              => \E i \in 1..Len(vs) : vs[i] = Throws
<1> DEFINE settled == {i \in 1..Len(vs) : vs[i] = Throws \/ truthy(vs[i]) = settles}
           first == CHOOSE i \in settled : \A j \in settled : i <= j
<1>1. \A b : Comparable(Bool(b))
  BY DEF Comparable, Bool, Val
<1>2. CASE settled = {}
  BY <1>1, <1>2 DEF Until
<1>3. CASE settled # {}
  <2>1. settled \in SUBSET Nat
    OBVIOUS
  <2>2. \E i \in settled : \A j \in settled : i <= j
    BY <1>3, <2>1, Least
  <2>3. first \in settled
    BY <2>2
  <2> HIDE DEF first
  <2>4. Until(vs, settles, otherwise) = IF vs[first] = Throws THEN Throws ELSE Bool(settles)
    BY <1>3 DEF Until, first
  <2> QED
    BY <1>1, <2>3, <2>4
<1> QED
  BY <1>2, <1>3

\* An expression has no comparable value only if its own path, or one of its
\* parts, has none.
LEMMA ThrowsByPart ==
  ASSUME NEW n \in 1..Len(Levels), NEW x \in Levels[n], NEW inputs, NEW f,
         ~Comparable(ValueOf(x, inputs, f))
  PROVE  \/ x.kind = "input" /\ ~Comparable(inputs[x.path])
         \/ \E y \in Parts(x) : ~Comparable(f[y])
<1>0. /\ x.kind \in {"lit", "input", "not", "and", "or", "cmp", "in"}
      /\ x.kind = "lit" => Comparable(x.value)
      /\ x.kind \in {"and", "or"} => x.exprs \in Seq(Expressions)
  BY LevelsAssumption, LevelsNest
<1>1. ~Comparable(Throws) /\ \A b : Comparable(Bool(b))
  BY DEF Comparable, Throws, Bool, Val
<1>2. CASE x.kind \in {"lit", "input"}
  BY <1>0, <1>2 DEF ValueOf
<1>3. CASE x.kind = "not"
  <2>1. f[x.expr] = Throws
    BY <1>1, <1>3 DEF ValueOf
  <2> QED
    BY <1>1, <1>3, <2>1 DEF Parts
<1>4. CASE x.kind \in {"and", "or"}
  <2> DEFINE vs == [i \in 1..Len(x.exprs) |-> f[x.exprs[i]]]
  <2>1. Len(x.exprs) \in Nat
    BY <1>0, <1>4
  <2>2. Len(vs) = Len(x.exprs) /\ \A i \in 1..Len(vs) : vs[i] = f[x.exprs[i]]
    BY <2>1
  <2>3. \/ ~Comparable(Until(vs, FALSE, TRUE)) \/ ~Comparable(Until(vs, TRUE, FALSE))
    BY <1>4 DEF ValueOf
  <2> HIDE DEF vs
  <2>4. PICK i \in 1..Len(vs) : vs[i] = Throws
    BY <2>1, <2>2, <2>3, UntilThrows
  <2>5. x.exprs[i] \in Parts(x) /\ f[x.exprs[i]] = Throws
    BY <1>4, <2>2, <2>4 DEF Parts
  <2> QED
    BY <1>1, <2>5
<1>5. CASE x.kind = "cmp"
  <2>1. ~Comparable(f[x.left]) \/ ~Comparable(f[x.right])
    BY <1>1, <1>5 DEF ValueOf, compare
  <2> QED
    BY <1>5, <2>1 DEF Parts
<1>6. CASE x.kind = "in"
  <2>1. ~Comparable(f[x.left])
    BY <1>1, <1>6 DEF ValueOf
  <2> QED
    BY <1>6, <2>1 DEF Parts
<1> QED
  BY <1>0, <1>2, <1>3, <1>4, <1>5, <1>6

\* An expression throws only for a path it mentions that leads to no
\* comparable value: "pure + total".
LEMMA ThrowsForInput ==
  ASSUME NEW x \in Expressions, NEW inputs, evalExpr(x, inputs) = Throws
  PROVE  \E path \in Mentions(x) : ~Comparable(inputs[path])
<1> DEFINE N == Len(Levels)
<1>1. PICK f : Evaluates(f, inputs, N) /\ \A y : evalExpr(y, inputs) = f[y]
  BY EvalUnfolds
<1>2. PICK mentioned : Collects(mentioned, N) /\ \A y : Mentions(y) = mentioned[y]
  BY MentionsUnfolds
<1> DEFINE Unexplained(y) == /\ ~Comparable(f[y])
                             /\ \A path \in mentioned[y] : Comparable(inputs[path])
           T == {n \in 1..N : \E y \in Levels[n] : Unexplained(y)}
<1>3. T = {}
  <2> SUFFICES ASSUME T # {} PROVE FALSE
    OBVIOUS
  <2>1. PICK n \in T : \A k \in T : n <= k
    <3>1. T \in SUBSET Nat
      OBVIOUS
    <3> QED
      BY <3>1, Least
  <2>2. n \in 1..N
    OBVIOUS
  <2>3. PICK y \in Levels[n] : Unexplained(y)
    OBVIOUS
  <2>4. f[y] = ValueOf(y, inputs, f) /\ mentioned[y] = Reads(y, mentioned)
    BY <1>1, <1>2, <2>2 DEF Evaluates, Collects
  <2>5. ~(y.kind = "input" /\ ~Comparable(inputs[y.path]))
    BY <2>3, <2>4 DEF Reads
  <2>6. PICK z \in Parts(y) : ~Comparable(f[z])
    BY <2>2, <2>3, <2>4, <2>5, ThrowsByPart
  <2>7. PICK m \in 1..(n - 1) : z \in Levels[m]
    BY <2>2, LevelsNest
  <2>8. mentioned[z] \subseteq mentioned[y]
    BY <2>4, <2>6 DEF Reads
  <2>9. Unexplained(z)
    BY <2>3, <2>6, <2>8
  <2>10. N \in Nat
    BY LevelsNest
  <2>11. m \in 1..N /\ m < n
    BY <2>2, <2>10
  <2>12. m \in T
    BY <2>7, <2>9, <2>11
  <2> QED
    BY <2>1, <2>2, <2>11, <2>12
<1>4. PICK n \in 1..N : x \in Levels[n]
  BY LevelsNest
<1>5. ~Unexplained(x)
  BY <1>3, <1>4
<1>6. ~Comparable(f[x])
  BY <1>1 DEF Comparable, Throws, Val
<1> QED
  BY <1>2, <1>5, <1>6

\* What pureEvaluate returns, and when it throws.
LEMMA ResultIsFirst ==
  ASSUME NEW def, Len(def.rules) \in Nat, NEW inputs,
         pureEvaluate(def, inputs) # Throws
  PROVE  LET fired == pureEvaluate(def, inputs).fired
             holds == {i \in 1..Len(def.rules) :
                         truthy(evalExpr(def.rules[i].condition, inputs))}
         IN  /\ {fired[k] : k \in 1..Len(fired)} = holds
             /\ \A k, l \in 1..Len(fired) : k < l => fired[k] < fired[l]
             /\ pureEvaluate(def, inputs).resolved =
                  IF holds = {} THEN def.defaultEffect
                  ELSE def.rules[CHOOSE i \in holds : \A j \in holds : i <= j].effect
<1> DEFINE N == Len(def.rules)
           v == [i \in 1..N |-> evalExpr(def.rules[i].condition, inputs)]
           fired == Fired(v)
           holds == {i \in 1..N : truthy(evalExpr(def.rules[i].condition, inputs))}
           least == CHOOSE i \in holds : \A j \in holds : i <= j
<1>1. Len(v) = N /\ \A i \in 1..N : v[i] = evalExpr(def.rules[i].condition, inputs)
  OBVIOUS
<1>2. pureEvaluate(def, inputs) =
        [fired |-> fired, resolved |-> IF fired = << >> THEN def.defaultEffect
                                       ELSE def.rules[fired[1]].effect]
  BY DEF pureEvaluate
<1> HIDE DEF v
<1>3. Lists(fired, v, N)
  BY <1>1, FiredInOrder
<1> HIDE DEF fired
<1>4. fired \in Seq(1..N) /\ Len(fired) \in Nat /\ \A k \in 1..Len(fired) : fired[k] \in 1..N
  BY <1>3 DEF Lists
<1>5. \A i \in 1..N : i \in holds <=> \E k \in 1..Len(fired) : fired[k] = i
  BY <1>1, <1>3 DEF Lists
<1>6. {fired[k] : k \in 1..Len(fired)} = holds
  BY <1>4, <1>5
<1>7. \A k, l \in 1..Len(fired) : k < l => fired[k] < fired[l]
  BY <1>3 DEF Lists
<1>8. fired = << >> <=> holds = {}
  <2>1. fired = << >> <=> 1 \notin 1..Len(fired)
    BY <1>4
  <2> QED
    BY <1>4, <1>6, <2>1
<1>9. ASSUME holds # {} PROVE fired[1] = least
  <2>1. 1 \in 1..Len(fired)
    BY <1>4, <1>8, <1>9
  <2>2. fired[1] \in holds
    BY <1>6, <2>1
  <2>3. ASSUME NEW j \in holds PROVE fired[1] <= j
    <3>1. PICK k \in 1..Len(fired) : fired[k] = j
      BY <1>6
    <3>2. k = 1 \/ 1 < k
      OBVIOUS
    <3>3. fired[1] \in Int /\ j \in Int
      BY <1>4, <2>1
    <3> QED
      BY <1>7, <2>1, <3>1, <3>2, <3>3
  <2>4. \A i \in holds : (\A j \in holds : i <= j) => i = fired[1]
    <3>1. \A i \in holds : i \in Int
      OBVIOUS
    <3> QED
      BY <2>2, <2>3, <3>1
  <2> QED
    BY <2>2, <2>3, <2>4
<1> HIDE DEF holds, least
<1>10. pureEvaluate(def, inputs).fired = fired
       /\ pureEvaluate(def, inputs).resolved =
            IF holds = {} THEN def.defaultEffect ELSE def.rules[least].effect
  BY <1>2, <1>8, <1>9
<1> QED
  BY <1>6, <1>7, <1>10 DEF holds, least

LEMMA ThrowsForRule ==
  ASSUME NEW def, NEW inputs, pureEvaluate(def, inputs) = Throws
  PROVE  \E i \in 1..Len(def.rules) : evalExpr(def.rules[i].condition, inputs) = Throws
<1> DEFINE v == [i \in 1..Len(def.rules) |-> evalExpr(def.rules[i].condition, inputs)]
           fired == Fired(v)
<1>1. \A a, b : [fired |-> a, resolved |-> b] # Throws
  BY DEF Throws, Val
<1>2. \E i \in 1..Len(def.rules) : v[i] = Throws
  BY <1>1 DEF pureEvaluate
<1> QED
  BY <1>2

------------------------------------------------------------------------------
\* An audited result lists every rule that fires on the recorded inputs and
\* resolves to the effect of the first of them, of a definition some put()
\* accepted under the recorded version.
THEOREM FirstRulesDecide == Spec => []FirstRuleDecides
<1>1. Safe => FirstRuleDecides
  <2> SUFFICES ASSUME Safe PROVE FirstRuleDecides
    OBVIOUS
  <2> SUFFICES ASSUME NEW r \in audit
               PROVE  \E def \in accepted[r.version] :
                 LET fired == r.result.fired
                     holds == {i \in 1..Len(def.rules) :
                                 truthy(evalExpr(def.rules[i].condition, r.inputs))}
                 IN  /\ {fired[k] : k \in 1..Len(fired)} = holds
                     /\ \A k, l \in 1..Len(fired) : k < l => fired[k] < fired[l]
                     /\ r.result.resolved =
                          IF holds = {} THEN def.defaultEffect
                          ELSE def.rules[CHOOSE i \in holds : \A j \in holds : i <= j].effect
    BY DEF FirstRuleDecides
  <2>1. PICK def \in accepted[r.version] : r.result = Evaluate(def, r.inputs)
    BY SafeResults DEF AuditedResultsAreEvaluations
  <2>2. r.id \in Evaluations /\ r.result # Malformed /\ SafeEvaluation(r.id)
    BY DEF Safe, RecordsAreOwn
  <2>3. r.version = request[r.id].version /\ r.inputs = request[r.id].inputs
    BY <2>2 DEF SafeEvaluation, Record
  <2>4. r.version \in Versions /\ r.inputs \in Inputs
    BY <2>2, <2>3 DEF Safe, TypeOK, Requests
  <2>5. def \in Definitions
    BY <2>1, <2>4 DEF Safe, TypeOK, RegistryTypeOK
  <2>6. r.result = pureEvaluate(def, r.inputs) /\ Malformed = Throws
    BY <2>1, <2>4, <2>5, InterpreterAssumption
  <2>7. Len(def.rules) \in Nat
    BY <2>5, RuleSetsAssumption
  <2>8. pureEvaluate(def, r.inputs) # Throws
    BY <2>2, <2>6
  <2> DEFINE outcome == pureEvaluate(def, r.inputs)
             holds == {i \in 1..Len(def.rules) :
                         truthy(evalExpr(def.rules[i].condition, r.inputs))}
  <2>9. /\ {outcome.fired[k] : k \in 1..Len(outcome.fired)} = holds
        /\ \A k, l \in 1..Len(outcome.fired) :
             k < l => outcome.fired[k] < outcome.fired[l]
        /\ outcome.resolved =
             IF holds = {} THEN def.defaultEffect
             ELSE def.rules[CHOOSE i \in holds : \A j \in holds : i <= j].effect
    BY ONLY <2>7, <2>8, ResultIsFirst
  <2>10. /\ {r.result.fired[k] : k \in 1..Len(r.result.fired)} = holds
         /\ \A k, l \in 1..Len(r.result.fired) :
              k < l => r.result.fired[k] < r.result.fired[l]
         /\ r.result.resolved =
              IF holds = {} THEN def.defaultEffect
              ELSE def.rules[CHOOSE i \in holds : \A j \in holds : i <= j].effect
    <3>1. r.result = outcome
      BY <2>6
    <3> HIDE DEF outcome
    <3> QED
      BY ONLY <2>9, <3>1
  <2> QED
    BY ONLY <2>1, <2>10
<1> QED
  BY <1>1, Inductive, PTL

\* An evaluation is refused as malformed only for an input its rule set
\* mentions and the caller did not supply ("pure + total").
THEOREM RefusalsWantInput == Spec => []RefusedForWantOfInput
<1>1. Safe => RefusedForWantOfInput
  <2> SUFFICES ASSUME Safe, NEW e \in Evaluations, pc[e] = "malformed"
               PROVE  \E def \in accepted[request[e].version] :
                        \E i \in 1..Len(def.rules) :
                          \E path \in Mentions(def.rules[i].condition) :
                            ~Comparable(request[e].inputs[path])
    BY DEF RefusedForWantOfInput
  <2>1. SafeEvaluation(e) /\ request[e] \in Requests
    BY DEF Safe, TypeOK
  <2>2. PICK def \in accepted[request[e].version] :
          Malformed = Evaluate(def, request[e].inputs)
    BY <2>1 DEF SafeEvaluation
  <2>3. def \in Definitions /\ request[e].inputs \in Inputs
    BY <2>1, <2>2 DEF Safe, TypeOK, RegistryTypeOK, Requests
  <2>4. pureEvaluate(def, request[e].inputs) = Throws
    BY <2>2, <2>3, InterpreterAssumption
  <2>5. PICK i \in 1..Len(def.rules) :
          evalExpr(def.rules[i].condition, request[e].inputs) = Throws
    BY <2>4, ThrowsForRule
  <2>6. def.rules[i].condition \in Expressions
    BY <2>3, RuleSetsAssumption
  <2> QED
    BY <2>5, <2>6, ThrowsForInput
<1> QED
  BY <1>1, Inductive, PTL
==============================================================================
