---------------------------- MODULE WorkflowPlan ----------------------------
(* Workflow definitions: what validateWorkflow accepts and the order in     *)
(* which topoOrder has their steps run (platform/workflow/domain/           *)
(* validator.ts).  A plan is a sequence of steps [id, dependsOn, fields],    *)
(* `fields` telling whether id, action and maxAttempts are in order, defined *)
(* as a version [workflowId, version].                                      *)
EXTENDS Integers, Sequences, FiniteSets

Ids(plan) == {plan[i].id : i \in DOMAIN plan}
\* The graph is a Map: a later step of the same id would replace an earlier.
DependsOn(plan, id) ==
  plan[CHOOSE i \in DOMAIN plan : plan[i].id = id
                               /\ \A j \in DOMAIN plan : plan[j].id = id => j <= i].dependsOn

\* Depth-first search from `deps`, with the steps on the path gray and those
\* done with black: which steps are black after it, and whether an edge has
\* met a gray one.  `visited` is the search itself, on what it calls next.
visit(plan, visited, deps, gray, black) ==
  IF deps = {} THEN [black |-> black, cycle |-> FALSE]
  ELSE LET d == CHOOSE x \in deps : TRUE
           below == IF d \in black THEN [black |-> black, cycle |-> FALSE]
                    ELSE visited[<<DependsOn(plan, d), gray \cup {d}, black>>]
       IN IF d \in gray \/ below.cycle THEN [black |-> black, cycle |-> TRUE]
          ELSE visited[<<deps \ {d}, gray, below.black \cup {d}>>]

Colourings(plan) == LET S == SUBSET Ids(plan) IN S \X S \X S

assertAcyclic(plan) ==
  LET visited[v \in Colourings(plan)] == visit(plan, visited, v[1], v[2], v[3])
  IN ~visited[<<Ids(plan), {}, {}>>].cycle

\* A name of its own and a version to count from.
Identified(v) == v.workflowId # "" /\ v.version >= 1

\* mutant: only edges from a step to itself are looked for.
validateNoLoops(v, plan) ==
  /\ Identified(v) /\ plan # << >>
  /\ \A i \in DOMAIN plan : plan[i].fields /\ plan[i].id \notin plan[i].dependsOn
  /\ \A i, j \in DOMAIN plan : plan[i].id = plan[j].id => i = j
  /\ \A i \in DOMAIN plan : plan[i].dependsOn \subseteq Ids(plan)

validateWorkflow(v, plan) ==
  /\ Identified(v) /\ plan # << >>
  /\ \A i \in DOMAIN plan : plan[i].fields
  /\ \A i, j \in DOMAIN plan : plan[i].id = plan[j].id => i = j
  /\ \A i \in DOMAIN plan : plan[i].dependsOn \subseteq Ids(plan)
  /\ assertAcyclic(plan)

\* Steps not yet in `order` whose dependencies all are.
Ready(plan, order) ==
  LET done == {order[k] : k \in DOMAIN order}
  IN {i \in DOMAIN plan : plan[i].id \notin done /\ plan[i].dependsOn \subseteq done}

First(S) == CHOOSE i \in S : \A j \in S : i <= j

\* The first ready step in the order of definition goes next.
Extended(plan, order) ==
  LET ready == Ready(plan, order)
  IN IF ready = {} THEN order ELSE Append(order, plan[First(ready)].id)

topoOrder(plan) ==
  LET order[n \in 0..Len(plan)] ==
        IF n = 0 THEN << >> ELSE Extended(plan, order[n - 1])
  IN order[Len(plan)]
-----------------------------------------------------------------------------
(* What they have to compute.                                              *)

\* A plan can be run to its end: no steps wait for each other in a circle, and
\* none waits for a step that is not there.
Runnable(plan) ==
  \A S \in SUBSET DOMAIN plan :
    S # {} => \E i \in S :
      plan[i].dependsOn \subseteq Ids(plan) \ {plan[j].id : j \in S}

\* Each step once, after what it depends on, and a step defined earlier goes
\* later only if it still had to wait.
Canonical(plan, order) ==
  LET index(id) == CHOOSE i \in DOMAIN plan : plan[i].id = id
      before(k) == {order[m] : m \in 1..(k - 1)}
  IN /\ Len(order) = Len(plan) /\ {order[k] : k \in DOMAIN order} = Ids(plan)
     /\ \A k \in DOMAIN order :
          /\ plan[index(order[k])].dependsOn \subseteq before(k)
          /\ \A m \in (k + 1)..Len(order) :
               index(order[m]) < index(order[k]) =>
                 ~(plan[index(order[m])].dependsOn \subseteq before(k))
=============================================================================
