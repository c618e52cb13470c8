------------------------------- MODULE Billing ------------------------------
(***************************************************************************)
(* What one team pays for:                                                 *)
(*   src/routes/billing.ts         the checkout, with its seat line        *)
(*   src/routes/webhooks.ts        Stripe's events, claimed by their id    *)
(*   src/scheduler/seatSync.ts     pushSeats and the reconciler            *)
(*   src/lib/seats.ts, pricing.ts  the seats to be billed                  *)
(*                                                                         *)
(* Stripe is external: it keeps the subscriptions and sends their events,  *)
(* each at least once, in any order.  Stripe calls can fail, and a process *)
(* can die between two steps.                                              *)
(***************************************************************************)
EXTENDS Integers, FiniteSets

CONSTANTS
  Subs,        \* ids Stripe gives to subscriptions
  MaxEvents,   \* bound: events Stripe sends, numbered in their order
  Handlers,    \* webhook requests that run at once
  Pushers,     \* pushSeats calls that run at once
  Included,    \* plans.included_seats
  MaxMembers   \* bound: members of the team

ASSUME BillingAssumption ==
  IsFiniteSet(Subs) /\ MaxEvents \in Nat /\ Included \in Nat /\ MaxMembers \in Nat \ {0}

VARIABLES
  members,   \* rows of team_members
  tier,      \* teams.plan_tier: "free" or "paid"
  row,       \* the subscriptions row: sub, status, item, qty; sub None: no row
  stripe,    \* external: per subscription its state and its seat quantity
  checkout,  \* external: the seat quantity of an open checkout session, or Null
  events,    \* external: events sent so far: kind, subscription, status in it
  claimed,   \* stripe_events
  task,      \* per handler: the event it works on and its next statement
  push,      \* per pusher: its next statement and what it has read
  applied,   \* history: how often the work of an event was begun
  disorder   \* history: events met, overtook one another or were lost

billVars == <<members, tier, row, push>>
stripeVars == <<stripe, checkout, events>>
hookVars == <<claimed, task, applied, disorder>>
vars == <<members, tier, row, push, stripe, checkout, events, claimed, task,
          applied, disorder>>

None == "none"
Null == -1                              \* a NULL quantity
Quantities == 0..MaxMembers
EventIds == 1..MaxEvents

(* billableSeats: Stripe is charged for the seats past the allowance.      *)
Billable(n) == IF n > Included THEN n - Included ELSE 0

NoTask == [ev |-> 0, at |-> None, st |-> None]
NoPush == [at |-> None, sub |-> None, item |-> None, n |-> 0]

Init ==
  /\ members = 1 /\ tier = "free"
  /\ row = [sub |-> None, status |-> None, item |-> None, qty |-> Null]
  /\ stripe = [s \in Subs |-> [st |-> "new", qty |-> 0]]
  /\ checkout = Null
  /\ events = [e \in EventIds |-> [kind |-> None, sub |-> None, st |-> None]]
  /\ claimed = {}
  /\ task = [w \in Handlers |-> NoTask]
  /\ push = [p \in Pushers |-> NoPush]
  /\ applied = [e \in EventIds |-> 0]
  /\ disorder = FALSE

-----------------------------------------------------------------------------
(* Faulty variants of definitions below, each a slip the code could have.  *)

(* An event id that is already there is taken all the same.                *)
ClaimAgain(e) == claimed' = claimed \cup {e}

(* The deletion of a subscription is noted, the team keeps its plan.       *)
CancelRowOnly == row' = [row EXCEPT !.status = "canceled"] /\ UNCHANGED tier

(* Only seats that are missing on the bill are a drift.                    *)
DriftUpwards ==
  IF Billable(members) > row.qty THEN Billable(members) - row.qty ELSE 0

-----------------------------------------------------------------------------
(* Stripe.                                                                 *)

Active(s) == s \in Subs /\ stripe[s].st = "active"

Sent == {e \in EventIds : events[e].kind # None}
Emit(k, s, st) ==
  \E e \in EventIds :
    /\ e = Cardinality(Sent) + 1
    /\ events' = [events EXCEPT ![e] = [kind |-> k, sub |-> s, st |-> st]]

(* The session is opened with the seats of the moment; nothing looks for a *)
(* subscription the team already has.                                      *)
OpenCheckout ==
  /\ checkout = Null
  /\ checkout' = Billable(members)
  /\ UNCHANGED <<billVars, stripe, events, hookVars>>

CompleteCheckout(s) ==
  /\ checkout # Null /\ stripe[s].st = "new"
  /\ stripe' = [stripe EXCEPT ![s] = [st |-> "active", qty |-> checkout]]
  /\ checkout' = Null
  /\ Emit("checkout", s, "active")
  /\ disorder' = (disorder \/ \E r \in Subs : Active(r))
  /\ UNCHANGED <<billVars, claimed, task, applied>>

(* A renewal, or any other change to a running subscription.               *)
RenewSub(s) ==
  /\ Active(s)
  /\ Emit("updated", s, "active")
  /\ UNCHANGED <<billVars, stripe, checkout, hookVars>>

CancelSub(s) ==
  /\ Active(s)
  /\ stripe' = [stripe EXCEPT ![s].st = "canceled"]
  /\ Emit("deleted", s, "canceled")
  /\ UNCHANGED <<billVars, checkout, hookVars>>

-----------------------------------------------------------------------------
(* The webhook.                                                            *)

(* One INSERT claims the event; who finds it claimed answers and is done.  *)
Claim(e) == e \notin claimed /\ claimed' = claimed \cup {e}

Receive(w, e) ==
  /\ task[w] = NoTask /\ e \in Sent
  /\ Claim(e)
  /\ task' = [task EXCEPT ![w] =
       [ev |-> e, at |-> IF events[e].kind = "checkout" THEN "retrieve" ELSE "row",
        st |-> events[e].st]]
  /\ applied' = [applied EXCEPT ![e] = IF @ < 2 THEN @ + 1 ELSE 2]
  /\ disorder' = \/ disorder \/ \E v \in Handlers : task[v] # NoTask
                 \/ \E d \in Sent : d < e /\ d \notin claimed
  /\ UNCHANGED <<billVars, stripeVars>>

(* A completed checkout is looked up as it is now.                         *)
Retrieve(w) ==
  /\ task[w].at = "retrieve"
  /\ task' = [task EXCEPT ![w].at = "row", ![w].st = stripe[events[task[w].ev].sub].st]
  /\ UNCHANGED <<billVars, stripeVars, claimed, applied, disorder>>

(* The upsert of syncSubscription keeps the item and the quantity that are *)
(* in the row, whichever subscription they belong to.                      *)
Upsert(w) ==
  LET e == events[task[w].ev] IN
  /\ task[w].at = "row" /\ e.kind # "deleted"
  /\ row' = [row EXCEPT !.sub = e.sub, !.status = task[w].st]
  /\ task' = [task EXCEPT ![w].at = "tier"]
  /\ UNCHANGED <<members, tier, push, stripeVars, claimed, applied, disorder>>

SetTier(w) ==
  /\ task[w].at = "tier"
  /\ tier' = IF task[w].st = "active" THEN "paid" ELSE "free"
  /\ task' = [task EXCEPT ![w] = NoTask]
  /\ UNCHANGED <<members, row, push, stripeVars, claimed, applied, disorder>>

(* The row loses its status and the team its plan, whichever subscription  *)
(* it was that ended (two statements, nothing reads in between).           *)
EndPlan == row' = [row EXCEPT !.status = "canceled"] /\ tier' = "free"

EndSubscription(w) ==
  /\ task[w].at = "row" /\ events[task[w].ev].kind = "deleted"
  /\ EndPlan
  /\ task' = [task EXCEPT ![w] = NoTask]
  /\ UNCHANGED <<members, push, stripeVars, claimed, applied, disorder>>

(* The handler throws, or its process dies: the event stays claimed.       *)
HookFails(w) ==
  /\ task[w] # NoTask
  /\ task' = [task EXCEPT ![w] = NoTask]
  /\ disorder' = TRUE
  /\ UNCHANGED <<billVars, stripeVars, claimed, applied>>

-----------------------------------------------------------------------------
(* Seats.                                                                  *)

HasSub == row.sub # None
Start(p) == push[p] = NoPush /\ push' = [push EXCEPT ![p].at = "read"]

(* Somebody joins or leaves.  The push that follows runs on its own; it    *)
(* is not begun when the process dies first.                               *)
MembersChange ==
  /\ members' \in {members - 1, members + 1} \cap 1..MaxMembers
  /\ UNCHANGED push \/ \E p \in Pushers : Start(p)
  /\ UNCHANGED <<tier, row, stripeVars, hookVars>>

(* A tick of the reconciler finds the team among the drifted ones.  Here a *)
(* NULL quantity differs from every number.                                *)
Reconcile(p) ==
  /\ \A q \in Pushers : push[q] = NoPush
  /\ HasSub /\ row.status = "active" /\ tier = "paid"
  /\ Billable(members) # row.qty
  /\ Start(p)
  /\ UNCHANGED <<members, tier, row, stripeVars, hookVars>>

(* seatState and seatDrift.  Here a NULL quantity counts as none billed.   *)
Drift == Billable(members) - (IF row.qty = Null THEN 0 ELSE row.qty)

ReadSeats(p) ==
  /\ push[p].at = "read"
  /\ push' = [push EXCEPT ![p] =
       IF ~HasSub \/ Drift = 0 THEN NoPush
       ELSE [at |-> "item", sub |-> row.sub, item |-> None, n |-> Billable(members)]]
  /\ UNCHANGED <<members, tier, row, stripeVars, hookVars>>

(* The item on record, or the one found on the subscription.               *)
FindItem(p) ==
  LET item == IF row.item = None THEN push[p].sub ELSE row.item IN
  /\ push[p].at = "item"
  /\ row' = [row EXCEPT !.item = item]
  /\ push' = [push EXCEPT ![p].at = "call", ![p].item = item]
  /\ UNCHANGED <<members, tier, stripeVars, hookVars>>

(* An item of a subscription that has ended is refused.                    *)
CallStripe(p) ==
  /\ push[p].at = "call" /\ Active(push[p].item)
  /\ stripe' = [stripe EXCEPT ![push[p].item].qty = push[p].n]
  /\ push' = [push EXCEPT ![p].at = "record"]
  /\ UNCHANGED <<members, tier, row, checkout, events, hookVars>>

Record(p) ==
  /\ push[p].at = "record"
  /\ row' = [row EXCEPT !.qty = push[p].n, !.item = push[p].item]
  /\ push' = [push EXCEPT ![p] = NoPush]
  /\ UNCHANGED <<members, tier, stripeVars, hookVars>>

(* The catch, or the end of the process.                                   *)
PushFails(p) ==
  /\ push[p] # NoPush
  /\ push' = [push EXCEPT ![p] = NoPush]
  /\ UNCHANGED <<members, tier, row, stripeVars, hookVars>>

PushGoesOn(p) ==
  ReadSeats(p) \/ FindItem(p) \/ CallStripe(p) \/ Record(p) \/ PushFails(p)

-----------------------------------------------------------------------------
Next ==
  \/ OpenCheckout \/ MembersChange
  \/ \E s \in Subs : CompleteCheckout(s) \/ RenewSub(s) \/ CancelSub(s)
  \/ \E w \in Handlers :
       \/ \E e \in EventIds : Receive(w, e)
       \/ Retrieve(w) \/ Upsert(w) \/ SetTier(w) \/ EndSubscription(w) \/ HookFails(w)
  \/ \E p \in Pushers : Reconcile(p) \/ PushGoesOn(p)

Spec == Init /\ [][Next]_vars

(* The reconciler's timer keeps firing, a push that runs ends, and not     *)
(* every one of them fails at the same statement.                          *)
Fairness ==
  /\ WF_vars(\E p \in Pushers : Reconcile(p))
  /\ \A p \in Pushers :
       /\ WF_vars(PushGoesOn(p))
       /\ SF_vars(ReadSeats(p)) /\ SF_vars(FindItem(p)) /\ SF_vars(CallStripe(p))

FairSpec == Spec /\ Fairness

-----------------------------------------------------------------------------
TypeOK ==
  /\ members \in 1..MaxMembers /\ tier \in {"free", "paid"}
  /\ row \in [sub : Subs \cup {None}, status : {None, "active", "canceled"},
              item : Subs \cup {None}, qty : Quantities \cup {Null}]
  /\ stripe \in [Subs -> [st : {"new", "active", "canceled"}, qty : Quantities]]
  /\ checkout \in Quantities \cup {Null}
  /\ claimed \subseteq Sent
  /\ applied \in [EventIds -> 0..2] /\ disorder \in BOOLEAN
  /\ \A p \in Pushers :
       /\ push[p].at \in {None, "read", "item", "call", "record"}
       /\ push[p].n \in Quantities

(* However often and from however many sides Stripe delivers an event, its *)
(* work is begun once: one mail for a failed payment, one change of plan.  *)
EventsApplyOnce == \A e \in EventIds : applied[e] <= 1

(* When every event has been worked off, in its turn and without a         *)
(* failure, and no second subscription was bought over a running one, the  *)
(* team has a paid plan exactly while Stripe has it subscribed.            *)
PlanAgrees ==
  (~disorder /\ claimed = Sent /\ \A w \in Handlers : task[w] = NoTask)
    => (tier = "paid" <=> \E s \in Subs : Active(s))

(* The subscription the row names runs, and the row's item is one of its.  *)
Subscribed ==
  /\ Active(row.sub) /\ row.status = "active" /\ tier = "paid"
  /\ row.item \in {None, row.sub}
Billed == IF Active(row.sub) THEN stripe[row.sub].qty ELSE Null

(* From a moment on at which Stripe bills what the row says and no push is *)
(* under way, a team whose members stay ends up billed for them: too few   *)
(* seats or too many, and through any failed calls, calls whose record was *)
(* lost and ticks that met late pushes.                                    *)
Recorded ==
  Subscribed /\ row.qty = Billed /\ \A p \in Pushers : push[p] = NoPush
SeatsSettleFromRecord ==
  \A n \in 1..MaxMembers :
    (Recorded /\ [](members = n /\ Subscribed)) ~> [](Billed = Billable(n))

-----------------------------------------------------------------------------
(* Statements of the repository's comments.                                *)

(* The reconciler is what makes the invoice right (lib/seats.ts:28-30):    *)
(* whatever a push dropped, a team that stays as it is ends up billed for  *)
(* its seats.                                                              *)
ReconcilerHeals ==
  \A n \in 1..MaxMembers :
    [](members = n /\ Subscribed) ~> [](Billed = Billable(n))
=============================================================================
