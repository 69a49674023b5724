------------------------------- MODULE MCEdges -------------------------------
(* A small instance of Edges for TLC: plans of up to three steps, one        *)
(* outcome, one key, a principal that may be a service, a human or both.     *)
EXTENDS Edges

CONSTANTS a, b, c, p, o, k

SomeVersions ==
  {[workflowId |-> "w", version |-> 1], [workflowId |-> "w", version |-> 0],
   [workflowId |-> "", version |-> 1]}

SomeGrants == {{"platform_admin"}, {"audit_reader", "service"}}

\* The steps are named in the order of their definition.  Of two, each may
\* depend on itself, the other or a missing step; of three, on the others.
Step(id, deps) == [id |-> id, dependsOn |-> deps, fields |-> TRUE]
AllPlans ==
  {<< >>, <<Step(a, {}), Step(a, {})>>, <<[Step(a, {}) EXCEPT !.fields = FALSE]>>}
  \cup {<<Step(a, d), Step(b, e)>> : d, e \in {{}, {a}, {b}, {c}}}
  \cup {<<Step(a, d), Step(b, e), Step(c, f)>> :
          d \in SUBSET {b, c}, e \in SUBSET {a, c}, f \in SUBSET {a, b}}
=============================================================================
