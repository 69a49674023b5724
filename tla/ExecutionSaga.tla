----------------------------- MODULE ExecutionSaga -----------------------------
(***************************************************************************)
(* What one workflow execution promises its caller, whoever drives it:     *)
(* steps run once each, in order; then either all of them ran and the      *)
(* execution is completed, or one failed and every step that ran and has a *)
(* rollback hook is undone, last first, before it is called compensated.   *)
(* (contracts/src/workflow.ts, the header and WorkflowService.)            *)
(***************************************************************************)
EXTENDS Naturals

CONSTANTS Steps,     \* step numbers (naturals), in the order of topoOrder
          Declared   \* steps among them that declare a rollback hook

VARIABLES phase, runs, undone

svars == <<phase, runs, undone>>

Init ==
  /\ phase = "absent"
  /\ runs = [s \in Steps |-> 0]
  /\ undone = [s \in Steps |-> 0]

\* A hooked step whose effect is still standing.
Standing(s) == s \in Declared /\ runs[s] > undone[s]

Begin == phase = "absent" /\ phase' = "forward" /\ UNCHANGED <<runs, undone>>

RunStep(s) ==
  /\ phase = "forward"
  /\ runs[s] = 0
  /\ \A t \in Steps : t < s => runs[t] = 1
  /\ runs' = [runs EXCEPT ![s] = 1]
  /\ UNCHANGED <<phase, undone>>

Succeed ==
  /\ phase = "forward"
  /\ \A s \in Steps : runs[s] = 1
  /\ phase' = "succeeded"
  /\ UNCHANGED <<runs, undone>>

GiveUp ==
  /\ phase = "forward"
  /\ \E s \in Steps : runs[s] = 0
  /\ phase' = "backward"
  /\ UNCHANGED <<runs, undone>>

Undo(s) ==
  /\ phase = "backward"
  /\ Standing(s)
  /\ \A t \in Steps : t > s => ~Standing(t)
  /\ undone' = [undone EXCEPT ![s] = 1]
  /\ UNCHANGED <<phase, runs>>

RollBack ==
  /\ phase = "backward"
  /\ \A s \in Steps : ~Standing(s)
  /\ phase' = "rolledBack"
  /\ UNCHANGED <<runs, undone>>

Next ==
  \/ Begin \/ Succeed \/ GiveUp \/ RollBack
  \/ \E s \in Steps : RunStep(s) \/ Undo(s)

Spec == Init /\ [][Next]_svars
=============================================================================
