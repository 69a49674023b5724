--------------------------- MODULE MCWorkflowEngine ---------------------------
(* Small instances of WorkflowEngine for TLC.                              *)
EXTENDS WorkflowEngine, TLC

CONSTANTS h1, h2, c1, c2, c3

OneHost  == {h1}
TwoHosts == {h1, h2}
TwoCalls == {c1, c2}
ThreeCalls == {c1, c2, c3}

AllOnOne == [c \in Calls |-> h1]

\* The first step may be tried twice, the others once.
FirstRetried == [s \in Steps |-> IF s = 1 THEN 2 ELSE 1]

\* The last step declares no hook.
ButLast == 1..(NSteps - 1)

HooksEverywhere == [h \in Hosts |-> Declared]
\* The second process never registered its hooks.
HooksOnFirst == [h \in Hosts |-> IF h = h1 THEN Declared ELSE {}]

\* c1 and c2 run in the first process, c3 in the second.
ThirdApart == [c \in Calls |-> IF c = c3 THEN h2 ELSE h1]

\* A call reads its copy, what it saves and its count of attempts only at some
\* of its awaits; states that differ in what is not read again are the same.
InUse(c) ==
  [op      |-> IF pc[c] = "idle" THEN "start" ELSE op[c],
   my      |-> IF pc[c] \in {"idle", "load", "select"} THEN Absent ELSE my[c],
   saving  |-> IF pc[c] = "save" THEN saving[c] ELSE "absent",
   attempt |-> IF pc[c] = "handler" THEN attempt[c] ELSE 0]
WhatIsRead ==
  <<rec, audit, pauseReq, pc, [c \in Calls |-> InUse(c)], effects, counts>>

FirstTwoAlike == Permutations({c1, c2})
=============================================================================
