----------------------------- MODULE MCServices -----------------------------
(* The queues towards the outside for TLC: two instances of Billing, one   *)
(* about seats and one about the order of events, and one of               *)
(* WebhookDelivery, side by side.  A behaviour follows one of them.        *)
EXTENDS Billing

CONSTANTS
  EvSubs, EvMax, EvHandlers,  \* the second Billing
  Sweep1,                     \* the one sweep over the deliveries
  MaxAttempts, DisableAfter

VARIABLES
  focus,
  status, attempts, due, endpoint, strikes, sweep, lost, crossed

wVars == <<status, attempts, due, endpoint, strikes, sweep, lost, crossed>>
mcVars == <<focus, vars, wVars>>

Ev == INSTANCE Billing WITH Subs <- EvSubs, MaxEvents <- EvMax,
        Handlers <- EvHandlers, Pushers <- {}, MaxMembers <- 1
W  == INSTANCE WebhookDelivery WITH Deliveries <- Pushers, Sweeps <- {Sweep1}

ASSUME InstanceAssumptions == Ev!BillingAssumption /\ W!DeliveryAssumption

MCInit ==
  /\ focus \in {"seats", "events", "hooks"}
  /\ IF focus = "events" THEN Ev!Init ELSE Init
  /\ W!Init

FollowSeats  == focus = "seats" /\ Next /\ UNCHANGED wVars
FollowEvents == focus = "events" /\ Ev!Next /\ UNCHANGED wVars
FollowHooks  == focus = "hooks" /\ W!Next /\ UNCHANGED vars

MCNext == (FollowSeats \/ FollowEvents \/ FollowHooks) /\ UNCHANGED focus

(* Fairness of Billing and of WebhookDelivery, for the instance that moves.*)
(* A pusher and a delivery of one name share their strong fairness: as a   *)
(* behaviour follows one instance this says the same as one condition for  *)
(* each, with half the cases for TLC.                                      *)
Seats(A) == focus = "seats" /\ A /\ UNCHANGED <<focus, wVars>>
Hooks(A) == focus = "hooks" /\ A /\ UNCHANGED <<focus, vars>>

MCSpec ==
  /\ MCInit /\ [][MCNext]_mcVars
  /\ WF_mcVars(Seats(\E p \in Pushers : Reconcile(p)))
  /\ WF_mcVars(Hooks(W!Sweep(Sweep1)))
  /\ \A x \in Pushers :
       /\ WF_mcVars(Seats(PushGoesOn(x)))
       /\ WF_mcVars(Hooks(W!Elapse(x)))
       /\ SF_mcVars(Seats(ReadSeats(x)) \/ Hooks(W!Send(Sweep1, x)))
       /\ SF_mcVars(Seats(FindItem(x)) \/ Hooks(sweep[Sweep1].d = x /\ W!Record(Sweep1)))
       /\ SF_mcVars(Seats(CallStripe(x)))

-----------------------------------------------------------------------------
(* The properties of the modules, each about the instance that moves.      *)
TypesOK ==
  CASE focus = "seats"  -> TypeOK
    [] focus = "events" -> Ev!TypeOK
    [] focus = "hooks"  -> W!TypeOK

(* Billing: from a moment at which Stripe bills what the row says, a team  *)
(* whose members stay ends up billed for them.                             *)
SeatsSettle == focus = "seats" => SeatsSettleFromRecord

(* Billing: the work of a Stripe event is begun once, however often it is  *)
(* delivered.                                                              *)
EventsOnce == IF focus = "events" THEN Ev!EventsApplyOnce ELSE EventsApplyOnce

(* Billing: with every event worked off in its turn, the plan is a paid    *)
(* one exactly while Stripe has the team subscribed.                       *)
PlanFollowsStripe == focus = "events" => Ev!PlanAgrees

(* WebhookDelivery: what went through is not sent again, and its row stays.*)
DeliveredStays == W!DeliveredStays

(* WebhookDelivery: a sweep switches an endpoint off only after enough     *)
(* deliveries in a row were given up.                                      *)
DisableIsEarned == W!DisableIsEarned

(* WebhookDelivery: a queued delivery is in the end delivered, given up or *)
(* gone, unless its endpoint is switched off.                              *)
EveryDeliveryIsSettled == W!EveryDeliveryIsSettled
=============================================================================
