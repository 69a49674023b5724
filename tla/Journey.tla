------------------------------ MODULE Journey ------------------------------
(***************************************************************************)
(* The state the demonstration's MockDataProvider keeps for the whole web  *)
(* application (src/apps/web/src/data/mock.ts): entrepreneurs and the      *)
(* stage each has reached, the plans, funding and vehicle pipelines that   *)
(* exist once a business was generated, the freight loads, and how many    *)
(* applicants each referral partner has submitted.                         *)
(*                                                                         *)
(* A method of the provider is one action.  The provider itself refuses    *)
(* almost nothing: in which order and under which conditions its methods   *)
(* are called is decided by the screens (module Screens).  Its methods     *)
(* have no await inside, so each of them is one step.                      *)
(***************************************************************************)
EXTENDS Integers, Sequences, FiniteSets

CONSTANTS
  Ids,          \* ids of entrepreneurs, those nextId will hand out included
  Seeded,       \* [subset of Ids -> Entrepreneur]: makeMaria and seedPrior...
  Partners,     \* referral partners
  Names,        \* names of applicants
  Loads,        \* seedLoads
  None          \* null

VARIABLES
  entrepreneurs,  \* [subset of Ids -> Entrepreneur]
  plans,          \* ids a business plan was generated for
  funding,        \* [plans -> stage of the funding request]
  vehicles,       \* [plans -> stage of the vehicle assignment]
  loads,          \* [Loads -> status]
  accepted,       \* [Ids -> load accepted last, or None]
  submitted       \* [Partners -> submittedCount, counted from its seed]

data == <<entrepreneurs, plans, funding, vehicles, loads, accepted, submitted>>

-----------------------------------------------------------------------------
JourneyStage == {"referred", "applying", "qualifying", "qualified",
                 "business_created", "vehicle_assigned", "operating"}
Flow == [load    |-> <<"available", "assigned", "in_transit", "delivered",
                       "payment_pending", "completed">>,
         funding |-> <<"requested", "submitted", "under_review", "approved",
                       "complete">>,
         vehicle |-> <<"matching", "available", "assigned", "insured",
                       "ready">>]
Stages(flow) == {flow[i] : i \in DOMAIN flow}

\* flow[Math.min(i + 1, flow.length - 1)], the last stage is kept.
After(flow, s) ==
  LET i == CHOOSE j \in DOMAIN flow : flow[j] = s
  IN  flow[IF i < Len(flow) THEN i + 1 ELSE i]

Entrepreneur ==
  [name : Names, referralPartnerId : Partners, stage : JourneyStage,
   qualification : {"pending", "approved", "review", "declined"},
   businessClass : {"cargo_van", "box_truck", None}]

ASSUME SeededAssumption ==
  /\ None \notin Loads
  /\ DOMAIN Seeded \subseteq Ids
  /\ \A e \in DOMAIN Seeded : Seeded[e] \in Entrepreneur
  /\ \A e, f \in DOMAIN Seeded :
       /\ Seeded[e].name = Seeded[f].name
       /\ Seeded[e].referralPartnerId = Seeded[f].referralPartnerId
       => e = f

TypeOK ==
  /\ DOMAIN entrepreneurs \subseteq Ids
  /\ \A e \in DOMAIN entrepreneurs : entrepreneurs[e] \in Entrepreneur
  /\ plans \subseteq DOMAIN entrepreneurs
  /\ funding \in [plans -> Stages(Flow.funding)]
  /\ vehicles \in [plans -> Stages(Flow.vehicle)]
  /\ loads \in [Loads -> Stages(Flow.load)]
  /\ accepted \in [Ids -> Loads \cup {None}]
  /\ submitted \in [Partners -> Nat]

DataInit ==
  /\ entrepreneurs = Seeded
  /\ plans = {}
  /\ funding = << >>
  /\ vehicles = << >>
  /\ loads = [l \in Loads |-> "available"]
  /\ accepted = [e \in Ids |-> None]
  /\ submitted = [p \in Partners |-> 0]

-----------------------------------------------------------------------------
\* f with the entry of x set to v, added if it is missing (Map.set).
With(f, x, v) == [y \in DOMAIN f \cup {x} |-> IF y = x THEN v ELSE f[y]]

Known(p, name) == {e \in DOMAIN entrepreneurs :
                     /\ entrepreneurs[e].referralPartnerId = p
                     /\ entrepreneurs[e].name = name}

(***************************************************************************)
(* submitApplicant: somebody the partner has already submitted under that  *)
(* name goes back to "applying", keeping the qualification and the         *)
(* pipelines; anybody else is a new entrepreneur and counts for the        *)
(* partner.  who is the entrepreneur it returns.                           *)
(***************************************************************************)
ResubmitCounting(p, name, who) ==     \* not the code: !existing forgotten
  /\ who \in Known(p, name)
  /\ entrepreneurs' = [entrepreneurs EXCEPT ![who].stage = "applying"]
  /\ submitted' = [submitted EXCEPT ![p] = @ + 1]
Resubmit(p, name, who) ==
  /\ who \in Known(p, name)
  /\ entrepreneurs' = [entrepreneurs EXCEPT ![who].stage = "applying"]
  /\ UNCHANGED submitted

Register(p, name, who) ==
  /\ Known(p, name) = {}
  /\ who \in Ids \ DOMAIN entrepreneurs
  /\ entrepreneurs' = With(entrepreneurs, who,
       [name |-> name, referralPartnerId |-> p, stage |-> "applying",
        qualification |-> "pending", businessClass |-> None])
  /\ submitted' = [submitted EXCEPT ![p] = @ + 1]

submitApplicant(p, name, who) ==
  /\ Resubmit(p, name, who) \/ Register(p, name, who)
  /\ UNCHANGED <<plans, funding, vehicles, loads, accepted>>

\* The demonstration approves everybody, whatever stage they are in.
runQualification(e) ==
  /\ e \in DOMAIN entrepreneurs
  /\ entrepreneurs' = [entrepreneurs EXCEPT
       ![e].stage = "qualified", ![e].qualification = "approved",
       ![e].businessClass = "cargo_van"]
  /\ UNCHANGED <<plans, funding, vehicles, loads, accepted, submitted>>

\* Not the code: a plan generated again leaves the stage where it is.
GenerateInPlace(e) ==
  /\ e \in DOMAIN entrepreneurs
  /\ plans' = plans \cup {e}
  /\ entrepreneurs' = [entrepreneurs EXCEPT ![e].stage =
                         IF @ = "operating" THEN @ ELSE "business_created"]
  /\ funding' = With(funding, e, "submitted")
  /\ vehicles' = With(vehicles, e, "matching")
  /\ UNCHANGED <<loads, accepted, submitted>>

\* Not the code: the vehicle request is left to the first advanceVehicle.
GenerateNoVehicle(e) ==
  /\ e \in DOMAIN entrepreneurs
  /\ plans' = plans \cup {e}
  /\ entrepreneurs' = [entrepreneurs EXCEPT ![e].stage = "business_created"]
  /\ funding' = With(funding, e, "submitted")
  /\ UNCHANGED <<vehicles, loads, accepted, submitted>>

\* A plan generated again starts both pipelines, and the stage, over.
generateBusinessPlan(e) ==
  /\ e \in DOMAIN entrepreneurs
  /\ plans' = plans \cup {e}
  /\ entrepreneurs' = [entrepreneurs EXCEPT ![e].stage = "business_created"]
  /\ funding' = With(funding, e, "submitted")
  /\ vehicles' = With(vehicles, e, "matching")
  /\ UNCHANGED <<loads, accepted, submitted>>

advanceFunding(e) ==
  /\ e \in plans
  /\ funding' = [funding EXCEPT ![e] = After(Flow.funding, @)]
  /\ UNCHANGED <<entrepreneurs, plans, vehicles, loads, accepted, submitted>>

\* The step that makes the vehicle ready makes the business operate.
advanceVehicle(e) ==
  /\ e \in plans
  /\ vehicles' = [vehicles EXCEPT ![e] = After(Flow.vehicle, @)]
  /\ entrepreneurs' = IF vehicles'[e] = "ready"
                      THEN [entrepreneurs EXCEPT ![e].stage = "operating"]
                      ELSE entrepreneurs
  /\ UNCHANGED <<plans, funding, loads, accepted, submitted>>

\* The status the load had is not looked at.
acceptLoad(e, l) ==
  /\ loads' = [loads EXCEPT ![l] = "assigned"]
  /\ accepted' = [accepted EXCEPT ![e] = l]
  /\ UNCHANGED <<entrepreneurs, plans, funding, vehicles, submitted>>

advanceLoad(l) ==
  /\ loads' = [loads EXCEPT ![l] = After(Flow.load, @)]
  /\ UNCHANGED <<entrepreneurs, plans, funding, vehicles, accepted, submitted>>

-----------------------------------------------------------------------------
(***************************************************************************)
(* The payment waterfall.  Shares are whole percentages; Math.round rounds *)
(* a half up.  buildWaterfall keeps the legs, estimateNet only what is     *)
(* left; each computes the shares for itself.                              *)
(***************************************************************************)
Share(gross, percent) == (2 * gross * percent + 100) \div 200

buildWaterfall(gross) ==
  LET lender == Share(gross, 18)    insurance == Share(gross, 8)
      warranty == Share(gross, 3)   fuel == Share(gross, 14)
      platform == Share(gross, 5)
  IN  [customerPayment |-> gross,
       platform |-> platform, lender |-> lender, insurance |-> insurance,
       warranty |-> warranty, fuel |-> fuel,
       entrepreneurNet |->
         gross - lender - insurance - warranty - fuel - platform]

estimateNet(gross) ==
  gross - Share(gross, 18) - Share(gross, 8) - Share(gross, 3)
        - Share(gross, 14) - Share(gross, 5)

=============================================================================
