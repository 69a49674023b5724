------------------------------ MODULE Screens ------------------------------
(***************************************************************************)
(* The screens of the web application (src/apps/web/src/screens), the      *)
(* routes between them (App.tsx) and Presentation Mode, over the provider  *)
(* of module Journey.  A screen decides by what it read when it was opened *)
(* or last refreshed which buttons it shows; a button calls the provider   *)
(* and may open another screen.                                            *)
(*                                                                         *)
(* One user, one page: the provider lives in the page's memory.  A handler *)
(* whose awaits are all of provider methods is one step, because resolved  *)
(* promises are continued before the next click or timer.  The two pauses  *)
(* of the code (qualification review 1400 ms, plan generation 1200 ms) are *)
(* timers: the user may leave the screen, and come back, before they fire. *)
(* The seven screens that only show constants are the page "stakeholders". *)
(***************************************************************************)
EXTENDS Journey, SequencesExt

CONSTANTS
  maria, mariaName,  \* DEMO.entrepreneurId and the name submitMaria sends
  defy,              \* DEMO.partnerId
  DemoLoad,          \* DEMO.loadId
  Compatible,        \* loads for a cargo van
  MaxPending,        \* bound: timers running at a time
  MaxCalls           \* bound: calls that change the provider's data

ASSUME StoryAssumption ==
  /\ maria \in DOMAIN Seeded /\ mariaName \in Names /\ defy \in Partners
  /\ DemoLoad \in Loads /\ Compatible \subseteq Loads
  /\ MaxPending \in Nat /\ MaxCalls \in Nat

VARIABLES
  route,       \* [page, who, load] of the location
  shown,       \* what the open screen shows of the entrepreneur it is about
  listed,      \* referral dashboard: [entrepreneurs listed -> stage shown]
  pending,     \* running timers in the order they were started
  presenting,  \* Presentation Mode is active
  calls        \* provider calls so far

ui == <<route, shown, listed, pending, presenting>>
vars == <<data, ui, calls>>

-----------------------------------------------------------------------------
At(page, who) == [page |-> page, who |-> who, load |-> None]
Payment(who, l) == [page |-> "waterfall", who |-> who, load |-> l]
Home == At("home", defy)              \* "/", the dashboard of Defy Ventures
PartnerPage(p) == IF p = defy THEN Home ELSE At("partner", p)
Dashboards == {"home", "partner"}

\* The guided sequence: existing routes, with Maria's ids.
Steps == <<At("welcome", None), At("partner", defy), At("apply", maria),
           At("qualify", maria), At("business", maria), At("capital", maria),
           At("vehicle", maria), At("entrepreneur", maria),
           At("marketplace", maria), Payment(maria, DemoLoad),
           At("stakeholders", None)>>

\* currentStepIndex: by the path's first segment; "/" belongs to none.
StepIndex ==
  LET matching == {i \in DOMAIN Steps : Steps[i].page = route.page}
  IN  IF matching = {} THEN 1 ELSE CHOOSE i \in matching : TRUE

HeaderLinks == {Home, At("entrepreneur", maria), At("stakeholders", None),
                At("welcome", None)}

\* routeForStage: where "continue" and a row of the dashboard lead.
RouteForStage(e, stage) ==
  At(CASE stage \in {"referred", "applying"} -> "apply"
       [] stage = "qualifying" -> "qualify"
       [] stage = "qualified" -> "business"
       [] OTHER -> "entrepreneur", e)

-----------------------------------------------------------------------------
\* What the effects of the screen at route read when it is opened.
getFunding(e) == IF e \in plans THEN funding[e] ELSE None
getVehicle(e) == IF e \in plans THEN vehicles[e] ELSE None
Mounted ==
  CASE route.page = "apply" -> "documents missing"
    [] route.page = "qualify" -> "received"
    [] route.page = "business" -> "generating"
    [] route.page = "capital" -> getFunding(route.who)
    [] route.page = "vehicle" -> getVehicle(route.who)
    [] OTHER -> None
People ==
  IF route.page \in Dashboards
  THEN [e \in {x \in DOMAIN entrepreneurs :
                 entrepreneurs[x].referralPartnerId = route.who}
          |-> entrepreneurs[e].stage]
  ELSE << >>

\* A screen that is left no longer hears from its timers.
Abandoned == [i \in DOMAIN pending |-> [pending[i] EXCEPT !.heard = FALSE]]
Timer(kind, e) == [kind |-> kind, who |-> e, heard |-> TRUE]
MayStart == Len(pending) < MaxPending

\* Navigation.  "/" and "/partner/defy" are one mounted component that has
\* nothing to fetch again, and so is a screen with itself; business creation
\* starts generating at once.
Open(r) ==
  /\ route' = r
  /\ IF \/ r = route
        \/ {r.page, route.page} \subseteq Dashboards /\ r.who = route.who
     THEN UNCHANGED <<shown, listed, pending>>
     ELSE /\ r.page = "business" => MayStart
          /\ shown' = Mounted'
          /\ listed' = People'
          /\ pending' = IF r.page = "business"
                        THEN Append(Abandoned, Timer("plan", r.who))
                        ELSE Abandoned

\* Marketplace: the load somebody is hauling.  The screen shows the first one
\* in the list, OneHaulerPerLoad says there is never a second.
Active == {l \in Loads : loads[l] \notin {"available", "completed"}}

Calling == calls < MaxCalls /\ calls' = calls + 1
Quiet == UNCHANGED <<data, calls>>

-----------------------------------------------------------------------------
(***************************************************************************)
(* Navigation that changes no data.                                        *)
(***************************************************************************)
FollowHeader ==
  /\ ~presenting /\ Quiet
  /\ \E r \in HeaderLinks : Open(r)
  /\ UNCHANGED presenting

\* PresentationWelcome begin; PresentationControls goPrev, goNext, doExit.
Begin ==
  /\ route.page = "welcome"
  /\ Quiet
  /\ presenting' = TRUE
  /\ Open(Steps[2])
GoPrev ==
  /\ presenting /\ StepIndex > 1
  /\ Quiet /\ UNCHANGED presenting
  /\ Open(Steps[StepIndex - 1])
GoNext ==
  /\ presenting /\ StepIndex < Len(Steps)
  /\ Quiet /\ UNCHANGED presenting
  /\ Open(Steps[StepIndex + 1])
DoExit ==
  /\ presenting
  /\ Quiet
  /\ presenting' = FALSE
  /\ Open(Home)

\* The buttons of each screen that only lead elsewhere.
DashboardExits ==
  {PartnerPage(p) : p \in Partners}
  \cup {RouteForStage(x, listed[x]) : x \in DOMAIN listed}
QualificationExits ==
  IF shown = "result" THEN {At("business", route.who)} ELSE {}
BusinessExits ==
  IF shown = "plan" THEN {At("capital", route.who)} ELSE {}
CapitalExits ==
  IF shown \in {"approved", "complete"} THEN {At("vehicle", route.who)} ELSE {}
VehicleExits ==
  IF shown = "ready" THEN {At("marketplace", route.who)} ELSE {}
EntrepreneurExits == {At("marketplace", route.who)}
MarketplaceExits ==
  {Payment(route.who, l) : l \in {x \in Active : loads[x] = "payment_pending"}}
WaterfallExits == {At("marketplace", route.who), At("entrepreneur", route.who)}

Exits ==
  CASE route.page \in Dashboards -> DashboardExits
    [] route.page = "qualify" -> QualificationExits
    [] route.page = "business" -> BusinessExits
    [] route.page = "capital" -> CapitalExits
    [] route.page = "vehicle" -> VehicleExits
    [] route.page = "entrepreneur" -> EntrepreneurExits
    [] route.page = "marketplace" -> MarketplaceExits
    [] route.page = "waterfall" -> WaterfallExits
    [] route.page = "stakeholders" -> {Home}
    [] OTHER -> {}
Follow ==
  /\ Quiet /\ UNCHANGED presenting
  /\ \E r \in Exits : Open(r)

-----------------------------------------------------------------------------
(***************************************************************************)
(* Handlers that call the provider, and the two timers.                    *)
(***************************************************************************)
Stay == UNCHANGED <<route, listed, pending, presenting>>

\* ReferralDashboard submitMaria.  The button is there while the list shows no
\* Maria, or shows her as referred: on another partner's dashboard, always.
SubmitMaria ==
  /\ Calling
  /\ route.page \in Dashboards
  /\ maria \in DOMAIN listed => listed[maria] = "referred"
  /\ \E who \in Ids : /\ submitApplicant(route.who, mariaName, who)
                      /\ Open(At("apply", who))
  /\ UNCHANGED presenting

\* Application: the boxes, all ticked or not all, and submit.
TickDocuments ==
  /\ route.page = "apply"
  /\ shown' = IF shown = "documents provided" THEN "documents missing"
              ELSE "documents provided"
  /\ Stay /\ Quiet
SubmitApplication ==
  /\ Calling
  /\ route.page = "apply" /\ shown = "documents provided"
  /\ LET e == entrepreneurs[route.who]
     IN  \E who \in Ids : submitApplicant(e.referralPartnerId, e.name, who)
  /\ Open(At("qualify", route.who))
  /\ UNCHANGED presenting

\* Qualification runReview: a pause, then the call, wherever the user is now.
RunReview ==
  /\ route.page = "qualify" /\ shown = "received" /\ MayStart
  /\ shown' = "reviewing"
  /\ pending' = Append(pending, Timer("review", route.who))
  /\ UNCHANGED <<route, listed, presenting>> /\ Quiet

\* Timers fire in the order they end: a plan (1200 ms) may overtake the
\* reviews (1400 ms) started before it, and nothing overtakes a plan.
Fires(i, kind) ==
  /\ i \in DOMAIN pending /\ pending[i].kind = kind
  /\ \A j \in 1 .. i - 1 : pending[j].kind = "review" /\ kind = "plan"
  /\ pending' = RemoveAt(pending, i)
  /\ UNCHANGED <<route, listed, presenting>>

ReviewEnds(i) ==
  /\ Calling
  /\ Fires(i, "review")
  /\ runQualification(pending[i].who)
  /\ shown' = IF pending[i].heard THEN "result" ELSE shown

\* BusinessCreation: leaving cancels the display, not the call.
PlanGenerated(i) ==
  /\ Calling
  /\ Fires(i, "plan")
  /\ generateBusinessPlan(pending[i].who)
  /\ shown' = IF pending[i].heard THEN "plan" ELSE shown

\* CapitalCoordination and VehicleAssignment: advance, then refresh.
AdvanceFunding ==
  /\ Calling
  /\ route.page = "capital" /\ shown \notin {None, "complete"}
  /\ advanceFunding(route.who)
  /\ Stay /\ shown' = Mounted'
AdvanceVehicle ==
  /\ Calling
  /\ route.page = "vehicle" /\ shown \notin {None, "ready"}
  /\ advanceVehicle(route.who)
  /\ Stay /\ shown' = Mounted'

\* Marketplace: nothing is offered while any load is under way; a load for
\* another vehicle class is shown with its button disabled.
OfferedAlways ==            \* not the code: the list shown under an active load
  {l \in Compatible : loads[l] = "available"}
Offered == IF Active = {} THEN {l \in Compatible : loads[l] = "available"}
           ELSE {}
Accept ==
  /\ Calling
  /\ route.page = "marketplace"
  /\ \E l \in Offered : acceptLoad(route.who, l)
  /\ UNCHANGED shown /\ Stay
Advance ==
  /\ Calling
  /\ route.page = "marketplace"
  /\ \E l \in Active :
       /\ advanceLoad(l)
       /\ IF loads'[l] \in {"payment_pending", "completed"}
          THEN Open(Payment(route.who, l)) /\ UNCHANGED presenting
          ELSE UNCHANGED shown /\ Stay

Init ==
  /\ DataInit
  /\ route = Home /\ shown = None /\ listed = People
  /\ pending = << >> /\ presenting = FALSE /\ calls = 0

Next ==
  \/ FollowHeader \/ Begin \/ GoPrev \/ GoNext \/ DoExit \/ Follow
  \/ SubmitMaria \/ TickDocuments \/ SubmitApplication \/ RunReview
  \/ \E i \in 1 .. MaxPending : ReviewEnds(i) \/ PlanGenerated(i)
  \/ AdvanceFunding \/ AdvanceVehicle \/ Accept \/ Advance

Spec == Init /\ [][Next]_vars

-----------------------------------------------------------------------------
(***************************************************************************)
(* Properties.                                                             *)
(***************************************************************************)

\* A business that runs has what it runs on: whoever the demonstration shows
\* as operating (but the entrepreneurs seeded so) has a plan and a vehicle
\* that is ready, and whoever is shown with a created business has a plan,
\* although reviews and plan generations end after their screens were left
\* and a plan generated again starts the pipelines over.
OperatingIsEquipped ==
  \A e \in DOMAIN entrepreneurs :
    entrepreneurs[e].stage \in {"business_created", "operating"} =>
      \/ e \in DOMAIN Seeded /\ entrepreneurs[e] = Seeded[e]
      \/ /\ e \in plans
         /\ (entrepreneurs[e].stage = "operating") <=> (vehicles[e] = "ready")

\* What a partner counts are the records its submissions added, each once, and
\* it has one record per name, although the application screen submits again
\* and the dashboards of other partners keep offering to submit Maria.  It says
\* no more than that of people: Maria, seeded at Defy as a prospect, is found
\* there and never counted; another partner that submits her gets a second
\* record of her, and counts it.
RecordedOncePerPartner ==
  \A p \in Partners :
    LET own == {e \in DOMAIN entrepreneurs :
                  entrepreneurs[e].referralPartnerId = p}
    IN  /\ submitted[p] = Cardinality(own \ DOMAIN Seeded)
        /\ \A e, f \in own : entrepreneurs[e].name = entrepreneurs[f].name
                             => e = f

\* acceptLoad looks at no status, yet through the marketplace a load on its way
\* has exactly one entrepreneur it was accepted by, and it is the only one
\* on its way, whoever's marketplace is open.
OneHaulerPerLoad ==
  /\ Cardinality(Active) <= 1
  /\ \A l \in Active : Cardinality({e \in Ids : accepted[e] = l}) = 1

=============================================================================
