------------------------------ MODULE RuleEval ------------------------------
(***************************************************************************)
(* The rule interpreter and validator (platform/rules/domain/evaluator.ts) *)
(* and pureEvaluate of the engine.                                         *)
(*                                                                         *)
(* A value is a record of its JavaScript type and a number: the order of   *)
(* numbers, of booleans (0, 1) and of strings, none of which reads as a    *)
(* number.  Inputs map every dotted path to a value; a path that leads     *)
(* nowhere has the value Undef.                                            *)
(***************************************************************************)
EXTENDS Integers, Sequences

CONSTANTS
  MAX_DEPTH,
  Levels      \* the expressions of all rule sets, each after its parts

Val(type, n) == [t |-> type, n |-> n]
Undef  == Val("undefined", 0)
Null   == Val("null", 0)
Throws == Val("throws", 0)
Bool(b) == Val("boolean", IF b THEN 1 ELSE 0)
truthy(v) == v = Bool(TRUE)
Comparable(v) == v.t \in {"string", "number", "boolean", "null"}

\* JavaScript's <, over comparands: strings by their order, otherwise as
\* numbers, and a string is no number.
Orderable(l, r) == (l.t = "string") = (r.t = "string")

\* Mutant: null is taken for a missing input.
compareNoNull(op, l, r) ==
  IF Null \in {l, r} \/ ~Comparable(l) \/ ~Comparable(r) THEN Throws
  ELSE Bool(CASE op = "eq" -> l = r [] op = "ne" -> l # r
              [] OTHER -> Orderable(l, r) /\ IF op \in {"lt", "lte"} THEN l.n < r.n
                                              ELSE l.n > r.n)

compare(op, l, r) ==
  IF ~Comparable(l) \/ ~Comparable(r) THEN Throws
  ELSE Bool(CASE op = "eq"  -> l = r
              [] op = "ne"  -> l # r
              [] op = "lt"  -> Orderable(l, r) /\ l.n < r.n
              [] op = "lte" -> Orderable(l, r) /\ l.n <= r.n
              [] op = "gt"  -> Orderable(l, r) /\ l.n > r.n
              [] op = "gte" -> Orderable(l, r) /\ l.n >= r.n)

\* every and some stop at the first operand that settles them; the operands
\* after it are not evaluated, so theirs is not the error that is thrown.
Until(vs, settles, otherwise) ==
  LET settled == {i \in 1..Len(vs) : vs[i] = Throws \/ truthy(vs[i]) = settles}
      first == CHOOSE i \in settled : \A j \in settled : i <= j
  IN  IF settled = {} THEN Bool(otherwise)
      ELSE IF vs[first] = Throws THEN Throws ELSE Bool(settles)

\* An expression is a finite tree: a constant, a path into the inputs, or made
\* of expressions of earlier levels.
Expressions == UNION {Levels[n] : n \in DOMAIN Levels}
Parts(x) ==
  CASE x.kind = "not"           -> {x.expr}
    [] x.kind \in {"and", "or"} -> {x.exprs[i] : i \in 1..Len(x.exprs)}
    [] x.kind = "cmp"           -> {x.left, x.right}
    [] x.kind = "in"            -> {x.left}
    [] OTHER                    -> {}

ASSUME LevelsAssumption ==
  /\ Levels \in Seq(SUBSET Expressions)
  /\ \A n \in DOMAIN Levels : \A x \in Levels[n] :
       /\ x.kind \in {"lit", "input", "not", "and", "or", "cmp", "in"}
       /\ x.kind = "lit" => Comparable(x.value)
       /\ x.kind \in {"and", "or"} => x.exprs \in Seq(Expressions)
       /\ \A y \in Parts(x) : \E m \in 1..(n - 1) : y \in Levels[m]

\* The value of an expression whose parts have the values in `value`.
ValueOf(x, inputs, value) ==
  CASE x.kind = "lit"   -> x.value
    [] x.kind = "input" -> inputs[x.path]
    [] x.kind = "not"   -> IF value[x.expr] = Throws THEN Throws
                           ELSE Bool(~truthy(value[x.expr]))
    [] x.kind = "and"   -> Until([i \in 1..Len(x.exprs) |-> value[x.exprs[i]]], FALSE, TRUE)
    [] x.kind = "or"    -> Until([i \in 1..Len(x.exprs) |-> value[x.exprs[i]]], TRUE, FALSE)
    [] x.kind = "cmp"   -> compare(x.op, value[x.left], value[x.right])
    [] x.kind = "in"    -> IF Comparable(value[x.left]) THEN Bool(value[x.left] \in x.set)
                           ELSE Throws

evalExpr(x, inputs) ==
  LET value[y \in Expressions] == ValueOf(y, inputs, value) IN value[x]

validateExpr(x, depth) ==
  LET valid[v \in Expressions \X Nat] ==
        LET y == v[1] IN
        /\ v[2] <= MAX_DEPTH
        /\ y.kind \in {"and", "or"} => y.exprs # << >>
        /\ \A part \in Parts(y) : valid[<<part, v[2] + 1>>]
  IN valid[<<x, depth>>]

\* The ids of the rules must differ.
validateRuleSet(rs) ==
  /\ \A i, j \in 1..Len(rs.rules) : rs.rules[i].id = rs.rules[j].id => i = j
  /\ \A i \in 1..Len(rs.rules) : validateExpr(rs.rules[i].condition, 0)

\* The rules that fire, in order of definition.
Fired(v) ==
  LET fired[n \in 0..Len(v)] ==
        IF n = 0 THEN << >>
        ELSE IF truthy(v[n]) THEN Append(fired[n - 1], n) ELSE fired[n - 1]
  IN fired[Len(v)]

\* Mutant: a later rule overrides an earlier one.
LastRuleWins(rs, inputs) ==
  LET v == [i \in 1..Len(rs.rules) |-> evalExpr(rs.rules[i].condition, inputs)]
      fired == Fired(v)
  IN  IF \E i \in 1..Len(rs.rules) : v[i] = Throws THEN Throws
      ELSE [fired |-> fired,
            resolved |-> IF fired = <<>> THEN rs.defaultEffect
                         ELSE rs.rules[fired[Len(fired)]].effect]

\* Every rule is evaluated, in order of definition; the first that fires
\* resolves, and one that throws refuses the whole rule set.
pureEvaluate(rs, inputs) ==
  LET v == [i \in 1..Len(rs.rules) |-> evalExpr(rs.rules[i].condition, inputs)]
      fired == Fired(v)
  IN  IF \E i \in 1..Len(rs.rules) : v[i] = Throws THEN Throws
      ELSE [fired |-> fired,
            resolved |-> IF fired = <<>> THEN rs.defaultEffect
                         ELSE rs.rules[fired[1]].effect]
==============================================================================
