--------------------------- MODULE ScreensProofs ---------------------------
(***************************************************************************)
(* What holds of the web application for any entrepreneurs, partners and   *)
(* loads.  The argument is about the provider: each of its methods keeps   *)
(* the types and keeps operating businesses equipped, whenever it is       *)
(* called; the screens add that a dashboard is some partner's, that the    *)
(* other screens are about an entrepreneur who exists, and that a load is  *)
(* only accepted while nobody hauls one.                                   *)
(***************************************************************************)
EXTENDS Screens, FiniteSetTheorems, TLAPS

-----------------------------------------------------------------------------
(***************************************************************************)
(* The stage machines.                                                     *)
(***************************************************************************)

\* Advancing along a flow (advanceLoad, advanceFunding, advanceVehicle) stays
\* on the flow.
LEMMA AfterStays ==
  ASSUME NEW flow, DOMAIN flow = 1 .. Len(flow), Len(flow) \in Nat,
         NEW s \in Stages(flow)
  PROVE  After(flow, s) \in Stages(flow)
<1> DEFINE i == CHOOSE j \in DOMAIN flow : flow[j] = s
<1>1. i \in DOMAIN flow
  BY DEF Stages
<1>2. (IF i < Len(flow) THEN i + 1 ELSE i) \in DOMAIN flow
  BY <1>1
<1> QED
  BY <1>2 DEF After, Stages

\* The flows of the provider are sequences, and a ready vehicle stays ready.
LEMMA Flows ==
  /\ \A s \in Stages(Flow.load) : After(Flow.load, s) \in Stages(Flow.load)
  /\ \A s \in Stages(Flow.funding) :
       After(Flow.funding, s) \in Stages(Flow.funding)
  /\ \A s \in Stages(Flow.vehicle) :
       After(Flow.vehicle, s) \in Stages(Flow.vehicle)
<1>1. /\ DOMAIN Flow.load = 1 .. Len(Flow.load) /\ Len(Flow.load) \in Nat
      /\ DOMAIN Flow.funding = 1 .. Len(Flow.funding)
      /\ Len(Flow.funding) \in Nat
      /\ DOMAIN Flow.vehicle = 1 .. Len(Flow.vehicle)
      /\ Len(Flow.vehicle) \in Nat
  BY DEF Flow
<1> QED
  BY <1>1, AfterStays

\* Nothing comes after a vehicle that is ready.
LEMMA ReadyStays == After(Flow.vehicle, "ready") = "ready"
<1> DEFINE flow == Flow.vehicle
           i == CHOOSE j \in DOMAIN flow : flow[j] = "ready"
<1>1. DOMAIN flow = 1 .. 5 /\ Len(flow) = 5 /\ flow[5] = "ready"
      /\ \A j \in 1 .. 4 : flow[j] # "ready"
  BY DEF Flow
<1>2. i \in 1 .. 5 /\ flow[i] = "ready"
  BY <1>1
<1>3. i = 5
  BY <1>1, <1>2
<1> QED
  BY <1>1, <1>3 DEF After

\* The stages things begin with are stages.
LEMMA Starts ==
  /\ "submitted" \in Stages(Flow.funding)
  /\ "matching" \in Stages(Flow.vehicle) /\ "matching" # "ready"
  /\ "available" \in Stages(Flow.load) /\ "assigned" \in Stages(Flow.load)
<1>1. /\ 2 \in DOMAIN Flow.funding /\ Flow.funding[2] = "submitted"
      /\ 1 \in DOMAIN Flow.vehicle /\ Flow.vehicle[1] = "matching"
      /\ 1 \in DOMAIN Flow.load /\ Flow.load[1] = "available"
      /\ 2 \in DOMAIN Flow.load /\ Flow.load[2] = "assigned"
  BY DEF Flow
<1> QED
  BY <1>1 DEF Stages

-----------------------------------------------------------------------------
(***************************************************************************)
(* One lemma per method of the provider.                                   *)
(***************************************************************************)
DataInv == TypeOK /\ OperatingIsEquipped

\* The data is in order at the start.
LEMMA InitKeeps == DataInit => DataInv
<1> SUFFICES ASSUME DataInit PROVE DataInv
  OBVIOUS
<1>1. TypeOK
  BY SeededAssumption, Starts DEF DataInit, TypeOK
<1>2. OperatingIsEquipped
  BY DEF DataInit, OperatingIsEquipped
<1> QED
  BY <1>1, <1>2 DEF DataInv

\* submitApplication keeps the data in order.
LEMMA SubmitKeeps ==
  ASSUME DataInv, NEW p \in Partners, NEW name \in Names, NEW who,
         submitApplicant(p, name, who)
  PROVE  DataInv'
<1> USE DEF DataInv, submitApplicant
<1>1. CASE Resubmit(p, name, who)
  <2>1. who \in DOMAIN entrepreneurs
    BY <1>1 DEF Resubmit, Known
  <2>2. TypeOK'
    BY <1>1, <2>1 DEF Resubmit, TypeOK, Entrepreneur, JourneyStage
  <2>3. OperatingIsEquipped'
    BY <1>1, <2>1 DEF Resubmit, TypeOK, OperatingIsEquipped, Entrepreneur
  <2> QED
    BY <2>2, <2>3
<1>2. CASE Register(p, name, who)
  <2> DEFINE e == [name |-> name, referralPartnerId |-> p,
                   stage |-> "applying", qualification |-> "pending",
                   businessClass |-> None]
  <2>1. e \in Entrepreneur /\ e.stage = "applying"
    BY DEF Entrepreneur, JourneyStage
  <2>2. /\ DOMAIN entrepreneurs' = DOMAIN entrepreneurs \cup {who}
        /\ who \in Ids /\ who \notin DOMAIN entrepreneurs
        /\ entrepreneurs'[who] = e
        /\ \A x \in DOMAIN entrepreneurs :
             entrepreneurs'[x] = entrepreneurs[x]
    BY <1>2 DEF Register, With
  <2>3. submitted' \in [Partners -> Nat]
    BY <1>2 DEF Register, TypeOK
  <2>4. TypeOK'
    BY <2>1, <2>2, <2>3 DEF TypeOK
  <2>5. OperatingIsEquipped'
    BY <2>1, <2>2 DEF TypeOK, OperatingIsEquipped
  <2> QED
    BY <2>4, <2>5
<1> QED
  BY <1>1, <1>2

\* runQualification keeps the data in order.
LEMMA QualificationKeeps ==
  ASSUME DataInv, NEW e, runQualification(e)
  PROVE  DataInv'
<1>1. TypeOK'
  BY DEF DataInv, runQualification, TypeOK, Entrepreneur, JourneyStage
<1>2. OperatingIsEquipped'
  BY DEF DataInv, runQualification, TypeOK, OperatingIsEquipped, Entrepreneur
<1> QED
  BY <1>1, <1>2 DEF DataInv

\* generatePlan keeps the data in order.
LEMMA PlanKeeps ==
  ASSUME DataInv, NEW e, generateBusinessPlan(e)
  PROVE  DataInv'
<1>1. /\ e \in DOMAIN entrepreneurs
      /\ DOMAIN entrepreneurs' = DOMAIN entrepreneurs
      /\ entrepreneurs'[e] \in Entrepreneur
      /\ entrepreneurs'[e].stage = "business_created"
      /\ \A x \in DOMAIN entrepreneurs :
           x # e => entrepreneurs'[x] = entrepreneurs[x]
  BY DEF DataInv, generateBusinessPlan, TypeOK, Entrepreneur, JourneyStage
<1>2. /\ funding' \in [plans' -> Stages(Flow.funding)]
      /\ vehicles' \in [plans' -> Stages(Flow.vehicle)]
      /\ vehicles'[e] = "matching"
      /\ \A x \in plans : x # e => vehicles'[x] = vehicles[x]
  BY Starts DEF DataInv, generateBusinessPlan, TypeOK, With
<1>3. plans' = plans \cup {e} /\ UNCHANGED <<loads, accepted, submitted>>
  BY DEF generateBusinessPlan
<1>4. TypeOK'
  BY <1>1, <1>2, <1>3 DEF DataInv, TypeOK
<1>5. OperatingIsEquipped'
  BY <1>1, <1>2, <1>3 DEF DataInv, TypeOK, OperatingIsEquipped
<1> QED
  BY <1>4, <1>5 DEF DataInv

\* advanceFunding keeps the data in order.
LEMMA FundingKeeps ==
  ASSUME DataInv, NEW e, advanceFunding(e)
  PROVE  DataInv'
<1>1. funding' \in [plans -> Stages(Flow.funding)]
  BY Flows DEF DataInv, advanceFunding, TypeOK
<1>2. TypeOK'
  BY <1>1 DEF DataInv, advanceFunding, TypeOK
<1>3. OperatingIsEquipped'
  BY DEF DataInv, advanceFunding, OperatingIsEquipped
<1> QED
  BY <1>2, <1>3 DEF DataInv

\* advanceVehicle keeps the data in order.
LEMMA VehicleKeeps ==
  ASSUME DataInv, NEW e, advanceVehicle(e)
  PROVE  DataInv'
<1>1. /\ vehicles' \in [plans -> Stages(Flow.vehicle)]
      /\ vehicles'[e] = After(Flow.vehicle, vehicles[e])
      /\ \A x \in plans : x # e => vehicles'[x] = vehicles[x]
      /\ e \in plans /\ plans' = plans
  BY Flows DEF DataInv, advanceVehicle, TypeOK
<1>2. CASE vehicles'[e] = "ready"
  <2>1. /\ DOMAIN entrepreneurs' = DOMAIN entrepreneurs
        /\ entrepreneurs'[e] \in Entrepreneur
        /\ entrepreneurs'[e].stage = "operating"
        /\ \A x \in DOMAIN entrepreneurs :
             x # e => entrepreneurs'[x] = entrepreneurs[x]
    BY <1>1, <1>2
    DEF DataInv, advanceVehicle, TypeOK, Entrepreneur, JourneyStage
  <2>2. TypeOK'
    BY <1>1, <2>1 DEF DataInv, advanceVehicle, TypeOK
  <2>3. OperatingIsEquipped'
    BY <1>1, <1>2, <2>1 DEF DataInv, TypeOK, OperatingIsEquipped
  <2> QED
    BY <2>2, <2>3 DEF DataInv
<1>3. CASE vehicles'[e] # "ready"
  <2>1. vehicles[e] # "ready"
    BY <1>1, <1>3, ReadyStays
  <2>2. entrepreneurs' = entrepreneurs
    BY <1>3 DEF advanceVehicle
  <2>3. TypeOK'
    BY <1>1, <2>2 DEF DataInv, advanceVehicle, TypeOK
  <2>4. OperatingIsEquipped'
    BY <1>1, <1>3, <2>1, <2>2 DEF DataInv, TypeOK, OperatingIsEquipped
  <2> QED
    BY <2>3, <2>4 DEF DataInv
<1> QED
  BY <1>2, <1>3

\* Accepting and advancing a load keep the data in order.
LEMMA LoadsKeep ==
  ASSUME DataInv, NEW l \in Loads,
         (\E e : acceptLoad(e, l)) \/ advanceLoad(l)
  PROVE  DataInv'
<1>1. loads' \in [Loads -> Stages(Flow.load)]
  BY Flows, Starts DEF DataInv, TypeOK, acceptLoad, advanceLoad
<1>2. accepted' \in [Ids -> Loads \cup {None}]
  BY DEF DataInv, TypeOK, acceptLoad, advanceLoad
<1>3. UNCHANGED <<entrepreneurs, plans, funding, vehicles, submitted>>
  BY DEF acceptLoad, advanceLoad
<1>4. TypeOK'
  BY <1>1, <1>2, <1>3 DEF DataInv, TypeOK
<1>5. OperatingIsEquipped'
  BY <1>3 DEF DataInv, OperatingIsEquipped
<1> QED
  BY <1>4, <1>5 DEF DataInv

-----------------------------------------------------------------------------
(***************************************************************************)
(* Counting applicants.                                                    *)
(***************************************************************************)
New == DOMAIN entrepreneurs \ DOMAIN Seeded
CountInv ==
  /\ DOMAIN Seeded \subseteq DOMAIN entrepreneurs
  /\ IsFiniteSet(New)
  /\ RecordedOncePerPartner

\* The seeded applicants are counted once.
LEMMA InitCounts == DataInit => CountInv
<1> SUFFICES ASSUME DataInit PROVE CountInv
  OBVIOUS
<1>1. \A p \in Partners :
        {e \in DOMAIN entrepreneurs : entrepreneurs[e].referralPartnerId = p}
          \ DOMAIN Seeded = {}
  BY DEF DataInit
<1>2. RecordedOncePerPartner
  <2> SUFFICES ASSUME NEW p \in Partners
               PROVE  LET own == {e \in DOMAIN entrepreneurs :
                                   entrepreneurs[e].referralPartnerId = p}
                      IN  /\ submitted[p] = Cardinality(own \ DOMAIN Seeded)
                          /\ \A e, f \in own :
                               entrepreneurs[e].name = entrepreneurs[f].name
                               => e = f
    BY DEF RecordedOncePerPartner
  <2>1. Cardinality({e \in DOMAIN entrepreneurs :
                       entrepreneurs[e].referralPartnerId = p}
                      \ DOMAIN Seeded) = 0
    BY <1>1, FS_EmptySet
  <2>2. submitted[p] = 0
    BY DEF DataInit
  <2>3. \A e, f \in DOMAIN entrepreneurs :
          /\ entrepreneurs[e].name = entrepreneurs[f].name
          /\ entrepreneurs[e].referralPartnerId =
               entrepreneurs[f].referralPartnerId
          => e = f
    BY SeededAssumption DEF DataInit
  <2> QED
    BY <2>1, <2>2, <2>3
<1>3. IsFiniteSet(New)
  BY FS_EmptySet DEF DataInit, New
<1> QED
  BY <1>2, <1>3 DEF CountInv, DataInit

\* A step that leaves everybody's name and partner alone.
LEMMA SameCount ==
  ASSUME CountInv, submitted' = submitted,
         DOMAIN entrepreneurs' = DOMAIN entrepreneurs,
         \A e \in DOMAIN entrepreneurs :
           /\ entrepreneurs'[e].name = entrepreneurs[e].name
           /\ entrepreneurs'[e].referralPartnerId =
                entrepreneurs[e].referralPartnerId
  PROVE  CountInv'
<1>1. RecordedOncePerPartner'
  <2> SUFFICES ASSUME NEW p \in Partners
               PROVE  LET own == {e \in DOMAIN entrepreneurs' :
                                    entrepreneurs'[e].referralPartnerId = p}
                      IN  /\ submitted'[p] = Cardinality(own \ DOMAIN Seeded)
                          /\ \A e, f \in own :
                               entrepreneurs'[e].name = entrepreneurs'[f].name
                               => e = f
    BY DEF RecordedOncePerPartner
  <2> DEFINE own == {e \in DOMAIN entrepreneurs :
                       entrepreneurs[e].referralPartnerId = p}
             own1 == {e \in DOMAIN entrepreneurs' :
                        entrepreneurs'[e].referralPartnerId = p}
  <2>1. own1 = own
    OBVIOUS
  <2>2. /\ submitted[p] = Cardinality(own \ DOMAIN Seeded)
        /\ \A e, f \in own : entrepreneurs[e].name = entrepreneurs[f].name
                             => e = f
    BY DEF CountInv, RecordedOncePerPartner
  <2>3. submitted'[p] = Cardinality(own1 \ DOMAIN Seeded)
    BY <2>1, <2>2
  <2>4. \A e, f \in own1 : entrepreneurs'[e].name = entrepreneurs'[f].name
                           => e = f
    BY <2>1, <2>2
  <2> QED
    BY <2>3, <2>4
<1>2. IsFiniteSet(New')
  BY DEF CountInv, New
<1> QED
  BY <1>1, <1>2 DEF CountInv

\* A submission counts an applicant who was not counted before.
LEMMA SubmitCounts ==
  ASSUME TypeOK, CountInv, NEW p \in Partners, NEW name \in Names, NEW who,
         submitApplicant(p, name, who)
  PROVE  /\ CountInv'
         /\ who \in DOMAIN entrepreneurs'
         /\ DOMAIN entrepreneurs \subseteq DOMAIN entrepreneurs'
<1>1. CASE Resubmit(p, name, who)
  <2>1. who \in DOMAIN entrepreneurs
    BY <1>1 DEF Resubmit, Known
  <2>2. /\ submitted' = submitted
        /\ DOMAIN entrepreneurs' = DOMAIN entrepreneurs
        /\ \A e \in DOMAIN entrepreneurs :
             /\ entrepreneurs'[e].name = entrepreneurs[e].name
             /\ entrepreneurs'[e].referralPartnerId =
                  entrepreneurs[e].referralPartnerId
    BY <1>1, <2>1 DEF Resubmit, TypeOK, Entrepreneur
  <2>3. CountInv'
    BY <2>2, SameCount
  <2> QED
    BY <2>1, <2>2, <2>3
<1>2. CASE Register(p, name, who)
  <2>1. /\ DOMAIN entrepreneurs' = DOMAIN entrepreneurs \cup {who}
        /\ who \notin DOMAIN entrepreneurs
        /\ entrepreneurs'[who].name = name
        /\ entrepreneurs'[who].referralPartnerId = p
        /\ \A e \in DOMAIN entrepreneurs :
             entrepreneurs'[e] = entrepreneurs[e]
    BY <1>2 DEF Register, With
  <2>2. /\ submitted'[p] = submitted[p] + 1
        /\ \A q \in Partners : q # p => submitted'[q] = submitted[q]
    BY <1>2 DEF Register, TypeOK
  <2>3. \A e \in DOMAIN entrepreneurs :
          entrepreneurs[e].referralPartnerId = p
          => entrepreneurs[e].name # name
    BY <1>2 DEF Register, Known
  <2>4. who \notin DOMAIN Seeded
    BY <2>1 DEF CountInv
  <2>5. New' = New \cup {who}
    BY <2>1, <2>4 DEF New
  <2>6. IsFiniteSet(New')
    BY <2>5, FS_AddElement DEF CountInv
  <2>7. RecordedOncePerPartner'
    <3> SUFFICES ASSUME NEW q \in Partners
                 PROVE  LET own == {e \in DOMAIN entrepreneurs' :
                                     entrepreneurs'[e].referralPartnerId = q}
                        IN  /\ submitted'[q] =
                                 Cardinality(own \ DOMAIN Seeded)
                            /\ \A e, f \in own : entrepreneurs'[e].name =
                                                   entrepreneurs'[f].name
                                                 => e = f
      BY DEF RecordedOncePerPartner
    <3> DEFINE own == {e \in DOMAIN entrepreneurs :
                         entrepreneurs[e].referralPartnerId = q}
               own1 == {e \in DOMAIN entrepreneurs' :
                          entrepreneurs'[e].referralPartnerId = q}
    <3>1. /\ submitted[q] = Cardinality(own \ DOMAIN Seeded)
          /\ \A e, f \in own : entrepreneurs[e].name = entrepreneurs[f].name
                               => e = f
      BY DEF CountInv, RecordedOncePerPartner
    <3>2. CASE q # p
      <4>1. own1 = own
        BY <2>1, <3>2
      <4>2. submitted'[q] = Cardinality(own1 \ DOMAIN Seeded)
        BY <2>2, <3>1, <3>2, <4>1
      <4>3. \A e, f \in own1 :
              entrepreneurs'[e].name = entrepreneurs'[f].name => e = f
        BY <2>1, <3>1, <4>1
      <4> QED
        BY <4>2, <4>3
    <3>3. CASE q = p
      <4>1. own1 = own \cup {who}
        BY <2>1, <3>3
      <4>2. own1 \ DOMAIN Seeded = (own \ DOMAIN Seeded) \cup {who}
        BY <2>4, <4>1
      <4>3. IsFiniteSet(own \ DOMAIN Seeded) /\ who \notin own
        <5>1. own \ DOMAIN Seeded \in SUBSET New
          BY DEF New
        <5>2. IsFiniteSet(New)
          BY DEF CountInv
        <5>3. IsFiniteSet(own \ DOMAIN Seeded)
          BY ONLY <5>1, <5>2, FS_Subset
        <5> QED
          BY <2>1, <5>3
      <4>4. Cardinality(own1 \ DOMAIN Seeded) =
              Cardinality(own \ DOMAIN Seeded) + 1
        <5>1. Cardinality((own \ DOMAIN Seeded) \cup {who}) =
                Cardinality(own \ DOMAIN Seeded) + 1
          BY <4>3, FS_AddElement
        <5> QED
          BY <4>2, <5>1
      <4>5. submitted'[q] = Cardinality(own1 \ DOMAIN Seeded)
        BY <2>2, <3>1, <3>3, <4>4
      <4>6. \A e, f \in own1 :
              entrepreneurs'[e].name = entrepreneurs'[f].name => e = f
        BY <2>1, <2>3, <3>1, <3>3, <4>1
      <4> QED
        BY <4>5, <4>6
    <3> QED
      BY <3>2, <3>3
  <2> QED
    BY <2>1, <2>6, <2>7 DEF CountInv
<1> QED
  BY <1>1, <1>2 DEF submitApplicant

-----------------------------------------------------------------------------
(***************************************************************************)
(* Hauling.  A load that is available has not been accepted by anybody,    *)
(* which is why accepting it makes exactly one hauler.                     *)
(***************************************************************************)
HaulInv ==
  /\ OneHaulerPerLoad
  /\ \A l, m \in Active : l = m
  /\ \A l \in Loads : loads[l] = "available" => \A e \in Ids : accepted[e] # l

\* No load becomes available again.
LEMMA NeverAgain ==
  \A s \in Stages(Flow.load) :
    s # "available" => After(Flow.load, s) # "available"
<1> DEFINE flow == Flow.load
<1>1. /\ DOMAIN flow = 1 .. 6 /\ Len(flow) = 6 /\ flow[1] = "available"
      /\ \A j \in 2 .. 6 : flow[j] # "available"
  BY DEF Flow
<1> SUFFICES ASSUME NEW s \in Stages(flow), s # "available"
             PROVE  After(flow, s) # "available"
  OBVIOUS
<1> DEFINE i == CHOOSE j \in DOMAIN flow : flow[j] = s
<1>2. i \in 1 .. 6 /\ flow[i] = s
  BY <1>1 DEF Stages
<1>3. After(flow, s) = flow[IF i < Len(flow) THEN i + 1 ELSE i]
  BY DEF After
<1> HIDE DEF i, flow
<1>4. (IF i < Len(flow) THEN i + 1 ELSE i) \in 2 .. 6
  BY <1>1, <1>2
<1> QED
  BY <1>1, <1>3, <1>4

\* No load has a hauler at the start.
LEMMA InitHauls == DataInit => HaulInv
<1> SUFFICES ASSUME DataInit PROVE HaulInv
  OBVIOUS
<1>1. Active = {}
  BY DEF Active, DataInit
<1>2. Cardinality(Active) = 0
  BY <1>1, FS_EmptySet
<1>3. \A l \in Loads, e \in Ids : accepted[e] # l
  BY SeededAssumption DEF DataInit
<1> QED
  BY <1>1, <1>2, <1>3 DEF HaulInv, OneHaulerPerLoad

\* Accepting while no load is active, by somebody who exists.
LEMMA AcceptHauls ==
  ASSUME TypeOK, HaulInv, NEW e \in Ids, NEW l \in Loads, Active = {},
         loads[l] = "available", acceptLoad(e, l)
  PROVE  HaulInv'
<1>1. /\ loads'[l] = "assigned" /\ accepted'[e] = l
      /\ \A x \in Loads : x # l => loads'[x] = loads[x]
      /\ \A x \in Ids : x # e => accepted'[x] = accepted[x]
  BY DEF acceptLoad, TypeOK
<1>2. Active' = {l}
  BY <1>1 DEF Active
<1>3. {x \in Ids : accepted'[x] = l} = {e}
  BY <1>1 DEF HaulInv
<1>4. Cardinality({l}) = 1 /\ Cardinality({e}) = 1
  BY FS_Singleton
<1>5. OneHaulerPerLoad'
  BY <1>2, <1>3, <1>4 DEF OneHaulerPerLoad
<1>6. \A x \in Loads : loads'[x] = "available"
                       => \A y \in Ids : accepted'[y] # x
  BY <1>1 DEF HaulInv
<1>7. \A x, y \in Active' : x = y
  BY <1>2
<1> QED
  BY <1>5, <1>6, <1>7 DEF HaulInv

\* Advancing loads gives none a second hauler.
LEMMA AdvanceHauls ==
  ASSUME TypeOK, HaulInv, NEW l \in Active, advanceLoad(l)
  PROVE  HaulInv'
<1>1. /\ l \in Loads /\ loads[l] # "available"
      /\ loads[l] \in Stages(Flow.load)
  BY DEF Active, TypeOK
<1>2. /\ loads'[l] # "available"
      /\ \A x \in Loads : x # l => loads'[x] = loads[x]
      /\ accepted' = accepted
  BY <1>1, NeverAgain DEF advanceLoad, TypeOK
<1>3. Active = {l}
  BY DEF HaulInv
<1>4. Active' \in {{}, {l}}
  BY <1>2, <1>3 DEF Active
<1>5. OneHaulerPerLoad'
  <2>1. Cardinality(Active') <= 1
    BY <1>4, FS_EmptySet, FS_Singleton
  <2>2. Cardinality({e \in Ids : accepted[e] = l}) = 1
    BY DEF HaulInv, OneHaulerPerLoad
  <2> QED
    BY <1>2, <1>4, <2>1, <2>2 DEF OneHaulerPerLoad
<1>6. \A x \in Loads : loads'[x] = "available"
                       => \A y \in Ids : accepted'[y] # x
  BY <1>1, <1>2 DEF HaulInv
<1>7. \A x, y \in Active' : x = y
  BY <1>4
<1> QED
  BY <1>5, <1>6, <1>7 DEF HaulInv

-----------------------------------------------------------------------------
(***************************************************************************)
(* The screens.  A dashboard is the dashboard of a known partner; every    *)
(* other screen but the two without a subject is about an entrepreneur who *)
(* exists; a dashboard lists only entrepreneurs who exist.                 *)
(***************************************************************************)
RouteOK(r, known) ==
  /\ r.page \in Dashboards => r.who \in Partners
  /\ r.page \notin Dashboards \cup {"welcome", "stakeholders"} => r.who \in known
PageOK ==
  /\ RouteOK(route, DOMAIN entrepreneurs)
  /\ DOMAIN listed \subseteq DOMAIN entrepreneurs

\* A step that leads to a page in order and drops nobody leaves the page in order.
LEMMA PageStays ==
  ASSUME PageOK, DOMAIN entrepreneurs \subseteq DOMAIN entrepreneurs',
         RouteOK(route', DOMAIN entrepreneurs'),
         listed' = listed \/ listed' = People'
  PROVE  PageOK'
<1>1. DOMAIN People' \subseteq DOMAIN entrepreneurs'
  <2>1. CASE route'.page \in Dashboards
    BY <2>1 DEF People
  <2>2. CASE route'.page \notin Dashboards
    BY <2>2 DEF People
  <2> QED
    BY <2>1, <2>2
<1> QED
  BY <1>1 DEF PageOK

\* The guided sequence stays on routes that exist.
LEMMA StepsKnown ==
  ASSUME maria \in DOMAIN entrepreneurs
  PROVE  /\ Len(Steps) = 11 /\ StepIndex \in 1 .. 11
         /\ \A i \in 1 .. 11 : RouteOK(Steps[i], DOMAIN entrepreneurs)
<1>1. Len(Steps) = 11 /\ DOMAIN Steps = 1 .. 11
  BY DEF Steps
<1>2. StepIndex \in 1 .. 11
  <2> DEFINE matching == {i \in 1 .. 11 : Steps[i].page = route.page}
  <2>1. StepIndex = IF matching = {} THEN 1 ELSE CHOOSE i \in matching : TRUE
    BY <1>1 DEF StepIndex
  <2>2. matching # {} => (CHOOSE i \in matching : TRUE) \in matching
    OBVIOUS
  <2> HIDE DEF matching
  <2>3. matching \subseteq 1 .. 11
    BY DEF matching
  <2> QED
    BY <2>1, <2>2, <2>3
<1>3. \A i \in 1 .. 11 : RouteOK(Steps[i], DOMAIN entrepreneurs)
  <2> SUFFICES ASSUME NEW i \in 1 .. 11
               PROVE  RouteOK(Steps[i], DOMAIN entrepreneurs)
    OBVIOUS
  <2>1. /\ Steps[i].page \notin Dashboards \/ Steps[i] = At("partner", defy)
        /\ \/ Steps[i].page \in {"welcome", "stakeholders", "partner"}
           \/ Steps[i].who = maria
    BY DEF Steps, At, Payment, Dashboards
  <2> QED
    BY <2>1, StoryAssumption DEF RouteOK, At, Dashboards
<1> QED
  BY <1>1, <1>2, <1>3

\* The header leads to pages about known partners and people ...
LEMMA HeaderKnown ==
  ASSUME maria \in DOMAIN entrepreneurs, NEW r \in HeaderLinks
  PROVE  RouteOK(r, DOMAIN entrepreneurs)
BY StoryAssumption DEF HeaderLinks, Home, At, RouteOK, Dashboards

\* ... and so do the ways out of a screen.
LEMMA ExitsKnown ==
  ASSUME PageOK, NEW r \in Exits
  PROVE  RouteOK(r, DOMAIN entrepreneurs)
<1>1. CASE route.page \in Dashboards
  <2>1. r \in DashboardExits
    BY <1>1 DEF Exits, Dashboards
  <2>2. CASE \E p \in Partners : r = PartnerPage(p)
    BY <2>2, StoryAssumption
    DEF PartnerPage, Home, At, RouteOK, Dashboards
  <2>3. CASE \E x \in DOMAIN listed : r = RouteForStage(x, listed[x])
    <3>1. PICK x \in DOMAIN listed : r = RouteForStage(x, listed[x])
      BY <2>3
    <3>2. r.who = x /\ r.page \in {"apply", "qualify", "business",
                                   "entrepreneur"}
      BY <3>1 DEF RouteForStage, At
    <3> QED
      BY <3>2 DEF PageOK, RouteOK, Dashboards
  <2> QED
    BY <2>1, <2>2, <2>3 DEF DashboardExits
<1>2. CASE route.page \in {"qualify", "business", "capital", "vehicle",
                           "entrepreneur", "marketplace", "waterfall"}
  <2>1. route.who \in DOMAIN entrepreneurs
    BY <1>2 DEF PageOK, RouteOK, Dashboards
  <2>2. r.who = route.who /\ r.page \notin Dashboards
    BY <1>2 DEF Exits, QualificationExits, BusinessExits, CapitalExits,
                VehicleExits, EntrepreneurExits, MarketplaceExits,
                WaterfallExits, At, Payment, Dashboards
  <2> QED
    BY <2>1, <2>2 DEF RouteOK
<1>3. CASE route.page = "stakeholders"
  BY <1>3, StoryAssumption DEF Exits, Home, At, RouteOK, Dashboards
<1>4. CASE route.page \notin Dashboards \cup
             {"qualify", "business", "capital", "vehicle", "entrepreneur",
              "marketplace", "waterfall", "stakeholders"}
  BY <1>4 DEF Exits, Dashboards
<1> QED
  BY <1>1, <1>2, <1>3, <1>4

-----------------------------------------------------------------------------
(***************************************************************************)
(* Every step of the application.                                          *)
(***************************************************************************)
IInv == TypeOK /\ OperatingIsEquipped /\ CountInv /\ HaulInv /\ PageOK

\* The invariant holds at the start.
LEMMA InitHolds == Init => IInv
<1> SUFFICES ASSUME Init PROVE IInv
  OBVIOUS
<1>1. DataInv /\ CountInv /\ HaulInv
  BY InitKeeps, InitCounts, InitHauls DEF Init
<1>2. PageOK
  <2>1. RouteOK(route, DOMAIN entrepreneurs)
    BY StoryAssumption DEF Init, Home, At, RouteOK, Dashboards
  <2>2. DOMAIN listed \subseteq DOMAIN entrepreneurs
    BY DEF Init, People, Home, At, Dashboards
  <2> QED
    BY <2>1, <2>2 DEF PageOK
<1> QED
  BY <1>1, <1>2 DEF IInv, DataInv

\* A step that leaves the provider alone.
LEMMA QuietHolds ==
  ASSUME IInv, UNCHANGED data,
         RouteOK(route', DOMAIN entrepreneurs),
         listed' = listed \/ listed' = People'
  PROVE  IInv'
<1>1. TypeOK' /\ OperatingIsEquipped'
  BY DEF IInv, data, TypeOK, OperatingIsEquipped
<1>2. CountInv'
  BY DEF IInv, data, CountInv, RecordedOncePerPartner, New
<1>3. HaulInv'
  BY DEF IInv, data, HaulInv, OneHaulerPerLoad, Active
<1>4. PageOK'
  BY PageStays DEF IInv, data
<1> QED
  BY <1>1, <1>2, <1>3, <1>4 DEF IInv

\* The steps that only navigate, or only change what the screen shows.
LEMMA NavigationHolds ==
  ASSUME IInv,
         \/ FollowHeader \/ Begin \/ GoPrev \/ GoNext \/ DoExit \/ Follow
         \/ TickDocuments \/ RunReview
  PROVE  IInv'
<1>1. maria \in DOMAIN entrepreneurs
  BY StoryAssumption DEF IInv, CountInv
<1>2. PageOK /\ RouteOK(route, DOMAIN entrepreneurs)
  BY DEF IInv, PageOK
<1>3. UNCHANGED data
  BY DEF FollowHeader, Begin, GoPrev, GoNext, DoExit, Follow, TickDocuments,
         RunReview, Quiet
<1>4. CASE \E r : RouteOK(r, DOMAIN entrepreneurs) /\ Open(r)
  BY <1>3, <1>4, QuietHolds DEF Open
<1>5. CASE FollowHeader
  BY <1>1, <1>4, <1>5, HeaderKnown DEF FollowHeader
<1>6. CASE Begin
  BY <1>1, <1>4, <1>6, StepsKnown DEF Begin
<1>7. CASE GoPrev
  <2>1. StepIndex - 1 \in 1 .. 11
    BY <1>1, <1>7, StepsKnown DEF GoPrev
  <2> QED
    BY <1>1, <1>4, <1>7, <2>1, StepsKnown DEF GoPrev
<1>8. CASE GoNext
  <2>1. StepIndex \in 1 .. 11 /\ Len(Steps) = 11
    BY <1>1, StepsKnown
  <2>2. StepIndex < Len(Steps) /\ Open(Steps[StepIndex + 1])
    BY <1>8 DEF GoNext
  <2>3. StepIndex + 1 \in 1 .. 11
    BY <2>1, <2>2
  <2> QED
    BY <1>1, <1>4, <2>2, <2>3, StepsKnown
<1>9. CASE DoExit
  <2>1. RouteOK(Home, DOMAIN entrepreneurs)
    BY <1>1, HeaderKnown DEF HeaderLinks
  <2> QED
    BY <1>4, <1>9, <2>1 DEF DoExit
<1>10. CASE Follow
  BY <1>2, <1>4, <1>10, ExitsKnown DEF Follow
<1>11. CASE TickDocuments \/ RunReview
  <2>1. route' = route /\ listed' = listed
    BY <1>11 DEF TickDocuments, RunReview, Stay
  <2> QED
    BY <1>2, <1>3, <2>1, QuietHolds
<1> QED
  BY <1>5, <1>6, <1>7, <1>8, <1>9, <1>10, <1>11

\* Submitting, from a dashboard or from the application screen.
LEMMA SubmittingHolds ==
  ASSUME IInv, SubmitMaria \/ SubmitApplication
  PROVE  IInv'
<1>1. DataInv /\ TypeOK /\ CountInv /\ PageOK
  BY DEF IInv, DataInv
<1>2. \E p \in Partners, name \in Names, who \in Ids :
        /\ submitApplicant(p, name, who)
        /\ \/ Open(At("apply", who))
           \/ /\ route.who \in DOMAIN entrepreneurs
              /\ Open(At("qualify", route.who))
  <2>1. CASE SubmitMaria
    <3>1. route.who \in Partners /\ mariaName \in Names
      BY <1>1, <2>1, StoryAssumption DEF SubmitMaria, PageOK, RouteOK
    <3> QED
      BY <2>1, <3>1 DEF SubmitMaria
  <2>2. CASE SubmitApplication
    <3>1. route.who \in DOMAIN entrepreneurs
      BY <1>1, <2>2 DEF SubmitApplication, PageOK, RouteOK, Dashboards
    <3>2. /\ entrepreneurs[route.who].referralPartnerId \in Partners
          /\ entrepreneurs[route.who].name \in Names
      BY <1>1, <3>1 DEF TypeOK, Entrepreneur
    <3> QED
      BY <2>2, <3>1, <3>2 DEF SubmitApplication
  <2> QED
    BY <2>1, <2>2
<1>3. PICK p \in Partners, name \in Names, who \in Ids :
        /\ submitApplicant(p, name, who)
        /\ \/ Open(At("apply", who))
           \/ /\ route.who \in DOMAIN entrepreneurs
              /\ Open(At("qualify", route.who))
  BY <1>2
<1>4. /\ CountInv' /\ who \in DOMAIN entrepreneurs'
      /\ DOMAIN entrepreneurs \subseteq DOMAIN entrepreneurs'
  BY <1>1, <1>3, SubmitCounts
<1>5. DataInv'
  BY <1>1, <1>3, SubmitKeeps
<1>6. HaulInv'
  <2>1. UNCHANGED <<loads, accepted>>
    BY <1>3 DEF submitApplicant
  <2> QED
    BY <2>1 DEF IInv, HaulInv, OneHaulerPerLoad, Active
<1>7. /\ RouteOK(route', DOMAIN entrepreneurs')
      /\ listed' = listed \/ listed' = People'
  BY <1>3, <1>4 DEF Open, At, RouteOK, Dashboards
<1>8. PageOK'
  BY <1>1, <1>4, <1>7, PageStays
<1> QED
  BY <1>4, <1>5, <1>6, <1>8 DEF IInv, DataInv

\* The reviews, the plans and the two pipelines: nobody new, no load moves,
\* the screen stays.
LEMMA PipelinesHold ==
  ASSUME IInv,
         \/ \E i \in 1 .. MaxPending : ReviewEnds(i) \/ PlanGenerated(i)
         \/ AdvanceFunding \/ AdvanceVehicle
  PROVE  IInv'
<1>1. DataInv /\ TypeOK /\ CountInv /\ PageOK
  BY DEF IInv, DataInv
<1>2. PICK e : \/ runQualification(e) \/ generateBusinessPlan(e)
               \/ advanceFunding(e) \/ advanceVehicle(e)
  BY DEF ReviewEnds, PlanGenerated, AdvanceFunding, AdvanceVehicle
<1>3. DataInv'
  BY <1>1, <1>2, QualificationKeeps, PlanKeeps, FundingKeeps, VehicleKeeps
<1>4. /\ UNCHANGED <<submitted, loads, accepted>>
      /\ \/ UNCHANGED entrepreneurs
         \/ /\ e \in DOMAIN entrepreneurs
            /\ \/ runQualification(e) \/ generateBusinessPlan(e)
               \/ advanceVehicle(e)
  BY <1>1, <1>2 DEF runQualification, generateBusinessPlan, advanceFunding,
                    advanceVehicle, TypeOK
<1>5. /\ DOMAIN entrepreneurs' = DOMAIN entrepreneurs
      /\ \A x \in DOMAIN entrepreneurs :
           /\ entrepreneurs'[x].name = entrepreneurs[x].name
           /\ entrepreneurs'[x].referralPartnerId =
                entrepreneurs[x].referralPartnerId
  <2>1. CASE UNCHANGED entrepreneurs
    BY <2>1
  <2>2. CASE runQualification(e)
    BY <1>1, <2>2 DEF runQualification, TypeOK, Entrepreneur
  <2>3. CASE generateBusinessPlan(e)
    BY <1>1, <2>3 DEF generateBusinessPlan, TypeOK, Entrepreneur
  <2>4. CASE e \in DOMAIN entrepreneurs /\ advanceVehicle(e)
    BY <1>1, <2>4 DEF advanceVehicle, TypeOK, Entrepreneur
  <2> QED
    BY <1>4, <2>1, <2>2, <2>3, <2>4
<1>6. CountInv'
  BY <1>1, <1>4, <1>5, SameCount
<1>7. HaulInv'
  BY <1>4 DEF IInv, HaulInv, OneHaulerPerLoad, Active
<1>8. route' = route /\ listed' = listed
  BY DEF ReviewEnds, PlanGenerated, Fires, AdvanceFunding, AdvanceVehicle,
         Stay
<1>9. PageOK'
  BY <1>1, <1>5, <1>8, PageStays DEF PageOK
<1> QED
  BY <1>3, <1>6, <1>7, <1>9 DEF IInv, DataInv

\* The marketplace.
LEMMA MarketplaceHolds ==
  ASSUME IInv, Accept \/ Advance
  PROVE  IInv'
<1>1. DataInv /\ TypeOK /\ CountInv /\ HaulInv /\ PageOK
  BY DEF IInv, DataInv
<1>2. route.page = "marketplace" /\ route.who \in DOMAIN entrepreneurs
  BY <1>1 DEF Accept, Advance, PageOK, RouteOK, Dashboards
<1>3. route.who \in Ids
  BY <1>1, <1>2 DEF TypeOK
<1>4. /\ HaulInv' /\ DataInv'
      /\ UNCHANGED <<entrepreneurs, submitted>>
  <2>1. CASE Accept
    <3>1. PICK l \in Offered : acceptLoad(route.who, l)
      BY <2>1 DEF Accept
    <3>2. l \in Loads /\ Active = {} /\ loads[l] = "available"
      BY <3>1, StoryAssumption DEF Offered
    <3> QED
      BY <1>1, <1>3, <3>1, <3>2, AcceptHauls, LoadsKeep DEF acceptLoad
  <2>2. CASE Advance
    <3>1. PICK l \in Active : advanceLoad(l)
      BY <2>2 DEF Advance
    <3>2. l \in Loads
      BY DEF Active
    <3> QED
      BY <1>1, <3>1, <3>2, AdvanceHauls, LoadsKeep DEF advanceLoad
  <2> QED
    BY <2>1, <2>2
<1>5. CountInv'
  BY <1>1, <1>4, SameCount
<1>6. /\ RouteOK(route', DOMAIN entrepreneurs')
      /\ listed' = listed \/ listed' = People'
  <2>1. \/ route' = route /\ listed' = listed
        \/ \E l : Open(Payment(route.who, l))
    BY DEF Accept, Advance, Stay
  <2> QED
    BY <1>1, <1>2, <1>4, <2>1
    DEF Open, Payment, PageOK, RouteOK, Dashboards
<1>7. PageOK'
  BY <1>1, <1>4, <1>6, PageStays
<1> QED
  BY <1>4, <1>5, <1>7 DEF IInv, DataInv

\* One step per click and timer.
LEMMA StepHolds == IInv /\ [Next]_vars => IInv'
<1> SUFFICES ASSUME IInv, [Next]_vars PROVE IInv'
  OBVIOUS
<1>1. CASE \/ FollowHeader \/ Begin \/ GoPrev \/ GoNext \/ DoExit \/ Follow
           \/ TickDocuments \/ RunReview
  BY <1>1, NavigationHolds
<1>2. CASE SubmitMaria \/ SubmitApplication
  BY <1>2, SubmittingHolds
<1>3. CASE \/ \E i \in 1 .. MaxPending : ReviewEnds(i) \/ PlanGenerated(i)
           \/ AdvanceFunding \/ AdvanceVehicle
  BY <1>3, PipelinesHold
<1>4. CASE Accept \/ Advance
  BY <1>4, MarketplaceHolds
<1>5. CASE UNCHANGED vars
  <2>1. UNCHANGED data /\ route' = route /\ listed' = listed
    BY <1>5 DEF vars, ui
  <2> QED
    BY <2>1, QuietHolds DEF IInv, PageOK
<1> QED
  BY <1>1, <1>2, <1>3, <1>4, <1>5 DEF Next

-----------------------------------------------------------------------------
(***************************************************************************)
(* The theorems.                                                           *)
(***************************************************************************)

\* The inductive invariant.
LEMMA Inductive == Spec => []IInv
<1>1. Init => IInv
  BY InitHolds
<1>2. IInv /\ [Next]_vars => IInv'
  BY StepHolds
<1> QED
  BY <1>1, <1>2, PTL DEF Spec

\* The provider's state keeps its types under whatever the screens call.
THEOREM TypeCorrect == Spec => []TypeOK
<1>1. IInv => TypeOK
  BY DEF IInv
<1> QED
  BY <1>1, Inductive, PTL

\* An operating business has a plan and a ready vehicle, in every order of
\* clicks, reviews and plan generations.
THEOREM Equipped == Spec => []OperatingIsEquipped
<1>1. IInv => OperatingIsEquipped
  BY DEF IInv
<1> QED
  BY <1>1, Inductive, PTL

\* A partner has one record per name, and counts those its submissions added.
THEOREM CountIsOfRecords == Spec => []RecordedOncePerPartner
<1>1. IInv => RecordedOncePerPartner
  BY DEF IInv, CountInv
<1> QED
  BY <1>1, Inductive, PTL

\* At most one load is on its way, and one entrepreneur hauls it.
THEOREM Hauled == Spec => []OneHaulerPerLoad
<1>1. IInv => OneHaulerPerLoad
  BY DEF IInv, HaulInv
<1> QED
  BY <1>1, Inductive, PTL

\* buildWaterfall gives away exactly what the customer paid, and leaves the
\* entrepreneur what the marketplace promised with estimateNet, which rounds
\* the shares for itself; more than half of the payment less the roundings.
THEOREM WaterfallBalances ==
  ASSUME NEW gross \in Nat
  PROVE  LET w == buildWaterfall(gross)
         IN  /\ w.customerPayment = w.platform + w.lender + w.insurance
                  + w.warranty + w.fuel + w.entrepreneurNet
             /\ w.entrepreneurNet = estimateNet(gross)
             /\ 2 * w.entrepreneurNet + 6 > gross
<1> DEFINE w == buildWaterfall(gross)
<1>1. /\ Share(gross, 18) \in Int /\ Share(gross, 8) \in Int
      /\ Share(gross, 3) \in Int /\ Share(gross, 14) \in Int
      /\ Share(gross, 5) \in Int
  BY DEF Share
<1>2. /\ 200 * Share(gross, 18) <= 36 * gross + 100
      /\ 200 * Share(gross, 8) <= 16 * gross + 100
      /\ 200 * Share(gross, 3) <= 6 * gross + 100
      /\ 200 * Share(gross, 14) <= 28 * gross + 100
      /\ 200 * Share(gross, 5) <= 10 * gross + 100
  BY DEF Share
<1>3. /\ w.customerPayment = gross
      /\ w.lender = Share(gross, 18) /\ w.insurance = Share(gross, 8)
      /\ w.warranty = Share(gross, 3) /\ w.fuel = Share(gross, 14)
      /\ w.platform = Share(gross, 5)
      /\ w.entrepreneurNet = gross - w.lender - w.insurance - w.warranty
                               - w.fuel - w.platform
  BY DEF buildWaterfall
<1> HIDE DEF w
<1>4. w.entrepreneurNet = estimateNet(gross)
  BY <1>1, <1>3 DEF estimateNet
<1>5. /\ w.customerPayment = w.platform + w.lender + w.insurance + w.warranty
                               + w.fuel + w.entrepreneurNet
      /\ 2 * w.entrepreneurNet + 6 > gross
  BY <1>1, <1>2, <1>3
<1> QED
  BY <1>4, <1>5 DEF w

=============================================================================
