------------------------------ MODULE MCScreens ------------------------------
(***************************************************************************)
(* Small instances of Screens: Maria at Defy Ventures, James who already   *)
(* operates there, a second partner, and the id nextId hands out next.     *)
(***************************************************************************)
EXTENDS Screens

CONSTANTS james, new, fortune, l1, l2, l3

Someone(name, stage, qualification, class) ==
  [name |-> name, referralPartnerId |-> defy, stage |-> stage,
   qualification |-> qualification, businessClass |-> class]

\* makeMaria and the first of seedPriorEntrepreneurs.
FirstDay == (maria :> Someone("Maria Rodriguez", "referred", "pending", None))
         @@ (james :> Someone("James Carter", "operating", "approved",
                              "cargo_van"))
==============================================================================
