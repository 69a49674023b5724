--------------------------- MODULE InterpretedRules ---------------------------
(***************************************************************************)
(* The Rules Engine with its interpreter: RulesEngine whose Evaluate and   *)
(* Valid are pureEvaluate and validateRuleSet of RuleEval.                 *)
(***************************************************************************)
EXTENDS RulesEngine, RuleEval

ASSUME InterpreterAssumption ==
  /\ Malformed = Throws
  /\ \A def \in Definitions, inputs \in Inputs :
       Evaluate(def, inputs) = pureEvaluate(def, inputs)
ASSUME RuleSetsAssumption ==
  \A def \in Definitions :
    /\ Len(def.rules) \in Nat
    /\ \A i \in 1..Len(def.rules) : def.rules[i].condition \in Expressions

\* The paths an expression reads: its own and those of its parts.
Reads(y, mentioned) ==
  (IF y.kind = "input" THEN {y.path} ELSE {})
  \cup UNION {mentioned[part] : part \in Parts(y)}
Mentions(x) ==
  LET mentioned[y \in Expressions] == Reads(y, mentioned) IN mentioned[x]

\* What an evaluation resolved to is the effect of the first rule that fired,
\* and the default only if none did; what it lists is every rule that fired,
\* in order of definition.
FirstRuleDecides ==
  \A r \in audit : \E def \in accepted[r.version] :
    LET fired == r.result.fired
        holds == {i \in 1..Len(def.rules) :
                    truthy(evalExpr(def.rules[i].condition, r.inputs))}
    IN  /\ {fired[k] : k \in 1..Len(fired)} = holds
        /\ \A k, l \in 1..Len(fired) : k < l => fired[k] < fired[l]
        /\ r.result.resolved =
             IF holds = {} THEN def.defaultEffect
             ELSE def.rules[CHOOSE i \in holds : \A j \in holds : i <= j].effect

\* "Pure + total" (evaluator.ts): a validated rule set refuses an evaluation
\* only for an input it mentions and the caller did not supply.
RefusedForWantOfInput ==
  \A e \in Evaluations : pc[e] = "malformed" =>
    \E def \in accepted[request[e].version] : \E i \in 1..Len(def.rules) :
      \E path \in Mentions(def.rules[i].condition) :
        ~Comparable(request[e].inputs[path])
==============================================================================
