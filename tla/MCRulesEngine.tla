---------------------------- MODULE MCRulesEngine ----------------------------
(* Small instances of RulesEngine, with the interpreter of RuleEval as its  *)
(* Evaluate and Valid.                                                      *)
EXTENDS InterpretedRules, TLC

CONSTANTS p1, p2, e1, e2

Lit(v)    == [kind |-> "lit", value |-> v]
In(path)  == [kind |-> "input", path |-> path]
Cmp(op, l, r) == [kind |-> "cmp", op |-> op, left |-> l, right |-> r]
Every(xs)   == [kind |-> "and", exprs |-> xs]
Some(xs)   == [kind |-> "or", exprs |-> xs]
Not(x)    == [kind |-> "not", expr |-> x]
Among(x, vs) == [kind |-> "in", left |-> x, set |-> vs]
Num(n)    == Val("number", n)
Good      == Val("string", 1)
Rule(id, condition, effect) == [id |-> id, condition |-> condition, effect |-> effect]

IsGood == Cmp("eq", In("standing"), Lit(Good))
AtLeast2 == Cmp("gte", In("amount"), Lit(Num(2)))
Below2   == Cmp("lt", In("amount"), Lit(Num(2)))
OneOrTwo == Among(In("amount"), {Num(1), Num(2)})
GoodAndEnough == Every(<<IsGood, AtLeast2>>)
GoodOrLittle  == Some(<<IsGood, Below2>>)
\* What the conditions below are made of, by how deep it nests.
Nested ==
  <<{In("standing"), In("amount"), Lit(Good), Lit(Num(2))},
    {IsGood, AtLeast2, Below2, OneOrTwo, Every(<< >>)},
    {GoodAndEnough, GoodOrLittle, Not(IsGood)},
    {Not(GoodOrLittle), Not(Not(IsGood))},
    {Not(Not(Not(IsGood)))}, {Not(Not(Not(Not(IsGood))))}>>
\* Two rule sets that differ in meaning, one that nests too deep, one with an
\* empty conjunction and one with a repeated rule id.
Policies ==
  {[rules |-> <<Rule("a", GoodAndEnough, "ALLOW"),
                Rule("b", OneOrTwo, "REVIEW")>>,
    defaultEffect |-> "DENY"],
   [rules |-> <<Rule("a", Not(GoodOrLittle), "DENY")>>,
    defaultEffect |-> "ALLOW"],
   [rules |-> <<Rule("a", Not(Not(Not(Not(IsGood)))), "ALLOW")>>, defaultEffect |-> "DENY"],
   [rules |-> <<Rule("a", Every(<<>>), "ALLOW")>>, defaultEffect |-> "DENY"],
   [rules |-> <<Rule("a", IsGood, "ALLOW"), Rule("a", IsGood, "DENY")>>,
    defaultEffect |-> "DENY"]}
Supplied(standing, amount) ==
  [path \in {"standing", "amount"} |-> IF path = "standing" THEN standing ELSE amount]
SomeInputs ==
  {Supplied(Good, Num(2)), Supplied(Good, Num(1)), Supplied(Null, Num(2)),
   Supplied(Good, Undef), Supplied(Undef, Num(1))}
AlikeProcesses == Permutations({p1, p2})
==============================================================================
