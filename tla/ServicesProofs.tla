--------------------------- MODULE ServicesProofs ---------------------------
(***************************************************************************)
(* Proofs about the queues towards the outside, as MCServices runs them:   *)
(* the events of Stripe that move a team's plan, and the deliveries of the *)
(* outgoing webhooks.                                                      *)
(***************************************************************************)
EXTENDS MCServices, FiniteSetTheorems, TLAPS

(* Without the fairness, which safety does not need.                       *)
LEMMA Steps == MCSpec => MCInit /\ [][MCNext]_mcVars
BY PTL DEF MCSpec

-----------------------------------------------------------------------------
(* The events of Stripe.                                                   *)

EvIds == 1..EvMax
Letter == [kind : {Ev!None, "checkout", "updated", "deleted"},
           sub : EvSubs \cup {Ev!None}, st : {Ev!None, "active", "canceled"}]
Work == [ev : EvIds \cup {0}, at : {Ev!None, "retrieve", "row", "tier"},
         st : {Ev!None, "new", "active", "canceled"}]
Account == [st : {"new", "active", "canceled"}, qty : Int]

EvType ==
  /\ events \in [EvIds -> Letter] /\ task \in [EvHandlers -> Work]
  /\ stripe \in [EvSubs -> Account] /\ checkout \in Int /\ members \in Int
  /\ claimed \subseteq Ev!Sent

(* Stripe numbers its events on; one that is not about an end says that    *)
(* its subscription is active.  A handler at work has claimed its event,   *)
(* and goes the way of the event's kind.                                   *)
Numbered == \E k \in 0..EvMax : Ev!Sent = 1..k
Truthful ==
  \A e \in Ev!Sent :
    events[e].kind # "deleted" => events[e].sub \in EvSubs /\ events[e].st = "active"
AtWork ==
  \A w \in EvHandlers :
    /\ task[w].at = Ev!None <=> task[w] = Ev!NoTask
    /\ task[w].at # Ev!None => task[w].ev \in claimed
    /\ task[w].at = "retrieve" => events[task[w].ev].kind # "deleted"
    /\ task[w].at = "tier" => events[task[w].ev].kind # "deleted"

IsLast(e) == e \in Ev!Sent /\ \A d \in Ev!Sent : d <= e

(* In good order: the last event tells which subscription runs, the events *)
(* are claimed without a gap, and who is at work is at work on the latest  *)
(* of them, alone.                                                         *)
LastTells ==
  /\ Ev!Sent = {} => \A s \in EvSubs : stripe[s].st # "active"
  /\ \A e \in EvIds : IsLast(e) =>
       \A s \in EvSubs :
         stripe[s].st = "active" <=> (events[e].kind # "deleted" /\ s = events[e].sub)
NoGap == \A c \in claimed, d \in Ev!Sent : d < c => d \in claimed
OneAtWork ==
  \A w \in EvHandlers : task[w].at # Ev!None =>
    /\ \A c \in claimed : c <= task[w].ev
    /\ \A v \in EvHandlers : v # w => task[v].at = Ev!None
    /\ (task[w].at # "retrieve" /\ events[task[w].ev].kind # "deleted" /\ IsLast(task[w].ev))
         => task[w].st = "active"
InOrder == LastTells /\ NoGap /\ OneAtWork

(* Then the plan follows, as soon as the last event has been worked off.   *)
PlanTold ==
  (claimed = Ev!Sent /\ \A w \in EvHandlers : task[w].at = Ev!None) =>
    (tier = "paid" <=> \E e \in EvIds : IsLast(e) /\ events[e].kind # "deleted")

Ledger ==
  /\ EvType /\ Numbered /\ Truthful /\ AtWork
  /\ ~disorder => InOrder /\ PlanTold

LEMMA LedgerInit == Ev!Init => Ledger
<1> SUFFICES ASSUME Ev!Init
             PROVE  Ledger
  OBVIOUS
<1>1. /\ events = [e \in EvIds |-> [kind |-> Ev!None, sub |-> Ev!None, st |-> Ev!None]]
      /\ task = [w \in EvHandlers |-> Ev!NoTask] /\ claimed = {} /\ tier = "free"
      /\ stripe = [s \in EvSubs |-> [st |-> "new", qty |-> 0]]
      /\ checkout = -1 /\ members = 1
  BY DEF Ev!Init, Ev!EventIds, Ev!Null, EvIds
<1>2. Ev!Sent = {}
  BY <1>1 DEF Ev!Sent, Ev!EventIds, EvIds
<1>3. Ev!NoTask \in Work /\ Ev!NoTask.at = Ev!None
  BY DEF Ev!NoTask, Work
<1>4. EvType
  BY <1>1, <1>2, <1>3 DEF EvType, Letter, Account
<1>5. Numbered
  BY <1>2, InstanceAssumptions DEF Numbered, Ev!BillingAssumption
<1>6. Truthful /\ AtWork
  BY <1>1, <1>2, <1>3 DEF Truthful, AtWork, Ev!None
<1>7. InOrder
  BY <1>1, <1>2, <1>3 DEF InOrder, LastTells, NoGap, OneAtWork, IsLast
<1>8. PlanTold
  BY <1>1, <1>2 DEF PlanTold, IsLast
<1>9. QED BY <1>4, <1>5, <1>6, <1>7, <1>8 DEF Ledger

LEMMA EventSize == \A X : Ev!Cardinality(X) = Cardinality(X)
<1>1. \A X : Ev!IsFiniteSet(X) <=> IsFiniteSet(X)
  BY DEF Ev!IsFiniteSet, IsFiniteSet
<1>2. QED BY <1>1 DEF Ev!Cardinality, Cardinality

(* A new event is the last one, and nobody has claimed it.                 *)
Told(k, s, st, e) ==
  /\ events'[e] = [kind |-> k, sub |-> s, st |-> st]
  /\ events' \in [EvIds -> Letter] /\ Ev!Sent' = Ev!Sent \cup {e}
  /\ \A d \in Ev!Sent : d \in EvIds /\ d < e /\ events'[d] = events[d]
  /\ Numbered'

LEMMA EmitIsLast ==
  ASSUME EvType, Numbered, NEW k \in {"checkout", "updated", "deleted"},
         NEW s \in EvSubs, NEW st \in {"active", "canceled"}, Ev!Emit(k, s, st)
  PROVE  \E e \in EvIds : Told(k, s, st, e)
<1>1. PICK n \in 0..EvMax : Ev!Sent = 1..n
  BY DEF Numbered
<1>2. EvMax \in Nat
  BY InstanceAssumptions DEF Ev!BillingAssumption
<1>3. Cardinality(1..n) = n
  BY <1>2, FS_Interval
<1> DEFINE e == n + 1
           new == [kind |-> k, sub |-> s, st |-> st]
<1>4. e \in EvIds /\ events' = [events EXCEPT ![e] = new]
  BY <1>1, <1>2, <1>3, EventSize DEF Ev!Emit, Ev!EventIds, EvIds
<1>5. new \in Letter /\ new.kind # Ev!None
  BY DEF Letter, Ev!None
<1> HIDE DEF new
<1>6. events' \in [EvIds -> Letter] /\ events'[e] = new
  BY <1>4, <1>5 DEF EvType
<1>7. Ev!Sent' = Ev!Sent \cup {e}
  BY <1>4, <1>5, <1>6 DEF EvType, Ev!Sent, Ev!EventIds, EvIds
<1>8. Ev!Sent' = 1..e
  BY <1>1, <1>2, <1>7
<1>9. Numbered'
  BY <1>2, <1>4, <1>8 DEF Numbered, EvIds
<1>10. \A d \in Ev!Sent : d \in EvIds /\ d < e /\ events'[d] = events[d]
  BY <1>1, <1>2, <1>4 DEF EvType, EvIds
<1>11. QED BY <1>4, <1>6, <1>7, <1>9, <1>10 DEF new, Told

(* Stripe changes one of its subscriptions, or none, and tells of it.      *)
LEMMA StripeStep ==
  ASSUME Ledger, NEW k \in {"checkout", "updated", "deleted"}, NEW s \in EvSubs,
         NEW st \in {"active", "canceled"}, Ev!Emit(k, s, st),
         checkout' \in Int, members' \in Int,
         k # "deleted" => st = "active", stripe' \in [EvSubs -> Account],
         stripe'[s].st = st, k = "deleted" => st = "canceled",
         \A r \in EvSubs \ {s} : stripe'[r].st = stripe[r].st,
         ~disorder' => ~disorder,
         ~disorder' => \A r \in EvSubs : stripe[r].st = "active" => r = s,
         UNCHANGED <<tier, claimed, task>>
  PROVE  Ledger'
<1>1. EvType /\ Numbered
  BY DEF Ledger
<1>2. PICK e \in EvIds : Told(k, s, st, e)
  BY <1>1, EmitIsLast
<1>3. /\ events'[e].kind = k /\ events'[e].sub = s /\ events'[e].st = st
      /\ events' \in [EvIds -> Letter] /\ Ev!Sent' = Ev!Sent \cup {e}
      /\ \A d \in Ev!Sent : d \in EvIds /\ d < e /\ events'[d] = events[d]
      /\ Numbered'
  BY <1>2 DEF Told
<1>4. EvType'
  BY <1>1, <1>3 DEF EvType
<1>5. Truthful'
  BY <1>3 DEF Ledger, Truthful
<1>6. \A w \in EvHandlers : task[w].at # Ev!None =>
        task[w].ev \in Ev!Sent /\ events'[task[w].ev] = events[task[w].ev]
  BY <1>3 DEF Ledger, EvType, AtWork
<1>7. AtWork'
  BY <1>6 DEF Ledger, AtWork, Ev!None
<1>8. IsLast(e)' /\ \A d \in EvIds : IsLast(d)' => d = e
  BY <1>3 DEF IsLast, EvIds
<1>9. ~disorder' => LastTells'
  BY <1>3, <1>8 DEF LastTells
<1>10. ~disorder' => NoGap'
  BY <1>1, <1>3 DEF Ledger, InOrder, NoGap, EvType, EvIds
<1>11. e \notin claimed
  BY <1>1, <1>3 DEF EvType, EvIds
<1>12. ~disorder' => OneAtWork'
  <2>1. \A w \in EvHandlers : task[w].at # Ev!None => ~IsLast(task[w].ev)'
    BY <1>1, <1>3, <1>8, <1>11 DEF Ledger, AtWork, EvType
  <2>2. QED BY <1>6, <2>1 DEF Ledger, InOrder, OneAtWork
<1>13. PlanTold'
  BY <1>3, <1>11 DEF PlanTold
<1>14. QED BY <1>3, <1>4, <1>5, <1>7, <1>9, <1>10, <1>12, <1>13 DEF Ledger, InOrder

(* A handler claims an event: it is at work from then on, and in good      *)
(* order it is the only one and at the latest event.                       *)
LEMMA ReceiveStep ==
  ASSUME Ledger, NEW w \in EvHandlers, NEW e \in EvIds, Ev!Receive(w, e)
  PROVE  Ledger'
<1> DEFINE new == [ev |-> e, at |-> IF events[e].kind = "checkout" THEN "retrieve" ELSE "row",
                   st |-> events[e].st]
<1>1. /\ task[w] = Ev!NoTask /\ e \in Ev!Sent /\ e \notin claimed
      /\ claimed' = claimed \cup {e} /\ task' = [task EXCEPT ![w] = new]
      /\ ~disorder' => /\ ~disorder /\ \A v \in EvHandlers : task[v] = Ev!NoTask
                       /\ \A d \in Ev!Sent : d < e => d \in claimed
      /\ UNCHANGED <<events, stripe, tier, checkout, members>>
  BY DEF Ev!Receive, Ev!Claim, Ev!billVars, Ev!stripeVars
<1>2. /\ new \in Work /\ new.ev = e /\ new.at \in {"retrieve", "row"}
      /\ new.at = "retrieve" => events[e].kind # "deleted"
      /\ new.st = events[e].st
  BY DEF Ledger, EvType, Letter, Work, Ev!None
<1> HIDE DEF new
<1>3. task' \in [EvHandlers -> Work] /\ task'[w] = new
      /\ \A v \in EvHandlers \ {w} : task'[v] = task[v]
  BY <1>1, <1>2 DEF Ledger, EvType
<1>4. Ev!Sent' = Ev!Sent
  BY <1>1 DEF Ev!Sent, Ev!EventIds
<1>5. EvType' /\ Numbered' /\ Truthful'
  BY <1>1, <1>3, <1>4 DEF Ledger, EvType, Numbered, Truthful
<1>6. AtWork'
  <2>1. new.at # Ev!None /\ new # Ev!NoTask /\ new.at # "tier"
    BY <1>2 DEF Ev!None, Ev!NoTask
  <2>2. QED BY <1>1, <1>2, <1>3, <2>1 DEF Ledger, AtWork
<1>7. ASSUME ~disorder'
      PROVE  InOrder' /\ PlanTold'
  <2>1. LastTells'
    BY <1>1, <1>4, <1>7 DEF Ledger, InOrder, LastTells, IsLast
  <2>2. \A c \in claimed : c <= e
    <3>1. ASSUME NEW c \in claimed, ~(c <= e)
          PROVE  FALSE
      <4>1. c \in EvIds /\ e < c
        BY <3>1 DEF Ledger, EvType, Ev!Sent, Ev!EventIds, EvIds
      <4>2. QED BY <1>1, <1>7, <4>1 DEF Ledger, InOrder, NoGap
    <3>2. QED BY <3>1
  <2>3. NoGap'
    BY <1>1, <1>4, <1>7 DEF Ledger, InOrder, NoGap, EvIds
  <2>4. \A v \in EvHandlers : v # w => task'[v].at = Ev!None
    BY <1>1, <1>3, <1>7 DEF Ev!NoTask
  <2>5. OneAtWork'
    BY <1>1, <1>2, <1>3, <2>2, <2>4 DEF Ledger, Truthful, OneAtWork, EvIds
  <2>6. PlanTold'
    BY <1>2, <1>3 DEF PlanTold, Ev!None
  <2>7. QED BY <2>1, <2>3, <2>5, <2>6 DEF InOrder
<1>8. QED BY <1>5, <1>6, <1>7 DEF Ledger

(* A handler goes on, and keeps its event.                                 *)
LEMMA WorkStep ==
  ASSUME Ledger, NEW w \in EvHandlers, NEW new \in Work, task' = [task EXCEPT ![w] = new],
         task[w].at # Ev!None, new.ev = task[w].ev, new.at \in {"row", "tier"},
         new.at = "tier" => events[task[w].ev].kind # "deleted",
         ~disorder /\ events[task[w].ev].kind # "deleted" /\ IsLast(task[w].ev)
           => new.st = "active",
         UNCHANGED <<events, stripe, tier, claimed, disorder, checkout, members>>
  PROVE  Ledger'
<1>1. task' \in [EvHandlers -> Work] /\ task'[w] = new
      /\ \A v \in EvHandlers \ {w} : task'[v] = task[v]
  BY DEF Ledger, EvType
<1>2. Ev!Sent' = Ev!Sent /\ \A e : IsLast(e)' <=> IsLast(e)
  BY DEF Ev!Sent, Ev!EventIds, IsLast
<1>3. EvType' /\ Numbered' /\ Truthful'
  BY <1>1, <1>2 DEF Ledger, EvType, Numbered, Truthful
<1>4. AtWork'
  <2>1. new.at # Ev!None /\ new # Ev!NoTask /\ new.at # "retrieve"
    BY DEF Ev!None, Ev!NoTask
  <2>2. QED BY <1>1, <2>1 DEF Ledger, AtWork
<1>5. ASSUME ~disorder'
      PROVE  InOrder' /\ PlanTold'
  <2>1. ~disorder
    BY <1>5
  <2>2. LastTells' /\ NoGap'
    BY <1>2, <2>1 DEF Ledger, InOrder, LastTells, NoGap
  <2>3. OneAtWork'
    BY <1>1, <1>2, <2>1 DEF Ledger, InOrder, OneAtWork
  <2>4. PlanTold'
    BY <1>1 DEF PlanTold, Ev!None
  <2>5. QED BY <2>2, <2>3, <2>4 DEF InOrder
<1>6. QED BY <1>3, <1>4, <1>5 DEF Ledger

(* A handler is done: with the latest event, when all are claimed.         *)
Heeds(w) ==
  ~disorder' /\ IsLast(task[w].ev)
    => (tier' = "paid" <=> events[task[w].ev].kind # "deleted")

LEMMA DoneStep ==
  ASSUME Ledger, NEW w \in EvHandlers, task' = [task EXCEPT ![w] = Ev!NoTask],
         task[w].at # Ev!None, Heeds(w),
         ~disorder' => ~disorder,
         UNCHANGED <<events, stripe, claimed, checkout, members>>
  PROVE  Ledger'
<1>1. Ev!NoTask \in Work /\ Ev!NoTask.at = Ev!None
  BY DEF Ev!NoTask, Work
<1>2. task' \in [EvHandlers -> Work] /\ task'[w] = Ev!NoTask
      /\ \A v \in EvHandlers \ {w} : task'[v] = task[v]
  BY <1>1 DEF Ledger, EvType
<1>3. Ev!Sent' = Ev!Sent /\ \A e : IsLast(e)' <=> IsLast(e)
  BY DEF Ev!Sent, Ev!EventIds, IsLast
<1>4. EvType' /\ Numbered' /\ Truthful'
  BY <1>2, <1>3 DEF Ledger, EvType, Numbered, Truthful
<1>5. AtWork'
  BY <1>1, <1>2 DEF Ledger, AtWork, Ev!None
<1>6. ASSUME ~disorder'
      PROVE  InOrder' /\ PlanTold'
  <2>1. ~disorder
    BY <1>6
  <2>2. LastTells' /\ NoGap'
    BY <1>3, <2>1 DEF Ledger, InOrder, LastTells, NoGap
  <2>3. OneAtWork'
    BY <1>1, <1>2, <1>3, <2>1 DEF Ledger, InOrder, OneAtWork
  <2>4. PlanTold'
    <3> SUFFICES ASSUME claimed = Ev!Sent
                 PROVE  tier' = "paid" <=>
                          \E e \in EvIds : IsLast(e) /\ events[e].kind # "deleted"
      BY <1>3 DEF PlanTold
    <3>1. IsLast(task[w].ev) /\ task[w].ev \in EvIds
      BY <2>1 DEF Ledger, EvType, AtWork, InOrder, OneAtWork, IsLast, Ev!Sent, Ev!EventIds, EvIds
    <3>2. \A e \in EvIds : IsLast(e) => e = task[w].ev
      BY <3>1 DEF IsLast, EvIds
    <3>3. QED BY <1>6, <3>1, <3>2 DEF Heeds
  <2>5. QED BY <2>2, <2>3, <2>4 DEF InOrder
<1>7. QED BY <1>4, <1>5, <1>6 DEF Ledger

(* In good order one subscription runs at most.                            *)
LEMMA OneRuns ==
  ASSUME Ledger, NEW s \in EvSubs, stripe[s].st = "active"
  PROVE  ~disorder => \A r \in EvSubs : stripe[r].st = "active" => r = s
<1>1. PICK n \in 0..EvMax : Ev!Sent = 1..n
  BY DEF Ledger, Numbered
<1>2. CASE n = 0
  BY <1>1, <1>2 DEF Ledger, InOrder, LastTells
<1>3. CASE n # 0
  <2>1. n \in EvIds /\ IsLast(n)
    BY <1>1, <1>3, InstanceAssumptions DEF IsLast, EvIds, Ev!BillingAssumption
  <2>2. QED BY <2>1 DEF Ledger, InOrder, LastTells
<1>4. QED BY <1>2, <1>3

LEMMA LedgerStep == Ledger /\ [Ev!Next]_(Ev!vars) => Ledger'
<1> SUFFICES ASSUME Ledger, [Ev!Next]_(Ev!vars)
             PROVE  Ledger'
  OBVIOUS
<1>1. CASE \/ Ev!OpenCheckout \/ Ev!MembersChange
           \/ \E p \in {} : Ev!Reconcile(p) \/ Ev!PushGoesOn(p)
           \/ UNCHANGED Ev!vars
  <2>1. UNCHANGED <<events, task, claimed, tier, disorder, stripe>>
    BY <1>1 DEF Ev!OpenCheckout, Ev!MembersChange, Ev!vars, Ev!billVars, Ev!stripeVars,
      Ev!hookVars
  <2>2. checkout' \in Int /\ members' \in Int
    BY <1>1, InstanceAssumptions
    DEF Ledger, EvType, Ev!OpenCheckout, Ev!MembersChange, Ev!vars, Ev!billVars,
      Ev!stripeVars, Ev!Billable, Ev!BillingAssumption
  <2>3. Ev!Sent' = Ev!Sent
    BY <2>1 DEF Ev!Sent, Ev!EventIds
  <2>4. EvType'
    BY <2>1, <2>2, <2>3 DEF Ledger, EvType
  <2>5. Numbered' /\ Truthful' /\ AtWork'
    BY <2>1, <2>3 DEF Ledger, Numbered, Truthful, AtWork
  <2>6. ~disorder' => InOrder'
    BY <2>1, <2>3 DEF Ledger, InOrder, LastTells, NoGap, OneAtWork, IsLast
  <2>7. ~disorder' => PlanTold'
    BY <2>1, <2>3 DEF Ledger, PlanTold, IsLast
  <2>8. QED BY <2>4, <2>5, <2>6, <2>7 DEF Ledger
<1>3. ASSUME NEW s \in EvSubs, Ev!CompleteCheckout(s)
      PROVE  Ledger'
  <2> DEFINE new == [st |-> "active", qty |-> checkout]
  <2>1. /\ stripe[s].st = "new" /\ stripe' = [stripe EXCEPT ![s] = new]
        /\ Ev!Emit("checkout", s, "active") /\ checkout' = -1
        /\ ~disorder' => ~disorder /\ \A r \in EvSubs : stripe[r].st # "active"
        /\ UNCHANGED <<tier, claimed, task, members>>
    BY <1>3 DEF Ev!CompleteCheckout, Ev!Active, Ev!billVars, Ev!Null
  <2>2. new \in Account /\ new.st = "active"
    BY DEF Ledger, EvType, Account
  <2> HIDE DEF new
  <2>3. /\ stripe' \in [EvSubs -> Account] /\ stripe'[s].st = "active"
        /\ \A r \in EvSubs \ {s} : stripe'[r].st = stripe[r].st
        /\ checkout' \in Int /\ members' \in Int
    BY <2>1, <2>2 DEF Ledger, EvType
  <2>4. QED BY <2>1, <2>3, StripeStep
<1>4. ASSUME NEW s \in EvSubs, Ev!RenewSub(s)
      PROVE  Ledger'
  <2>1. /\ stripe[s].st = "active" /\ Ev!Emit("updated", s, "active")
        /\ UNCHANGED <<stripe, checkout, members, tier, claimed, task, disorder>>
    BY <1>4 DEF Ev!RenewSub, Ev!Active, Ev!billVars, Ev!hookVars
  <2>2. ~disorder => \A r \in EvSubs : stripe[r].st = "active" => r = s
    BY <2>1, OneRuns
  <2>3. stripe' \in [EvSubs -> Account] /\ checkout' \in Int /\ members' \in Int
    BY <2>1 DEF Ledger, EvType
  <2>4. QED BY <2>1, <2>2, <2>3, StripeStep
<1>5. ASSUME NEW s \in EvSubs, Ev!CancelSub(s)
      PROVE  Ledger'
  <2>1. /\ stripe[s].st = "active" /\ stripe' = [stripe EXCEPT ![s].st = "canceled"]
        /\ Ev!Emit("deleted", s, "canceled")
        /\ UNCHANGED <<checkout, members, tier, claimed, task, disorder>>
    BY <1>5 DEF Ev!CancelSub, Ev!Active, Ev!billVars, Ev!hookVars
  <2>2. ~disorder => \A r \in EvSubs : stripe[r].st = "active" => r = s
    BY <2>1, OneRuns
  <2>3. /\ stripe' \in [EvSubs -> Account] /\ stripe'[s].st = "canceled"
        /\ \A r \in EvSubs \ {s} : stripe'[r].st = stripe[r].st
        /\ checkout' \in Int /\ members' \in Int
    BY <2>1 DEF Ledger, EvType, Account
  <2>4. QED BY <2>1, <2>2, <2>3, StripeStep
<1>6. ASSUME NEW w \in EvHandlers, NEW e \in EvIds, Ev!Receive(w, e)
      PROVE  Ledger'
  BY <1>6, ReceiveStep
<1>7. ASSUME NEW w \in EvHandlers, Ev!Retrieve(w)
      PROVE  Ledger'
  <2> DEFINE e == task[w].ev
             After(x, st) == [x EXCEPT !.at = "row", !.st = st]
             new == After(task[w], stripe[events[e].sub].st)
  <2>1. /\ task[w].at = "retrieve" /\ task' = [task EXCEPT ![w] = new]
        /\ UNCHANGED <<events, stripe, tier, claimed, disorder, checkout, members>>
    BY <1>7 DEF Ledger, EvType, Ev!Retrieve, Ev!billVars, Ev!stripeVars
  <2>2. /\ task[w] \in Work /\ e \in EvIds /\ e \in Ev!Sent
        /\ events[e].kind # "deleted" /\ events[e].sub \in EvSubs
    BY <2>1 DEF Ledger, EvType, AtWork, Truthful, Ev!Sent, Ev!EventIds, EvIds, Ev!None
  <2>3. stripe[events[e].sub].st \in {"new", "active", "canceled"}
    BY <2>2 DEF Ledger, EvType, Account
  <2>4. /\ new \in Work /\ new.ev = e /\ new.at = "row"
        /\ new.st = stripe[events[e].sub].st
    <3>1. ASSUME NEW x \in Work, NEW st \in {"new", "active", "canceled"}
          PROVE  /\ After(x, st) \in Work /\ After(x, st).ev = x.ev
                 /\ After(x, st).at = "row" /\ After(x, st).st = st
      BY DEF Work
    <3> HIDE DEF After
    <3>2. QED BY <2>2, <2>3, <3>1
  <2>5. ~disorder /\ IsLast(e) => new.st = "active"
    BY <2>2, <2>4 DEF Ledger, InOrder, LastTells
  <2> HIDE DEF new
  <2>6. QED BY <2>1, <2>4, <2>5, WorkStep DEF Ev!None
<1>8. ASSUME NEW w \in EvHandlers, Ev!Upsert(w)
      PROVE  Ledger'
  <2> DEFINE e == task[w].ev
             After(x) == [x EXCEPT !.at = "tier"]
             new == After(task[w])
  <2>1. /\ task[w].at = "row" /\ task' = [task EXCEPT ![w] = new]
        /\ events[e].kind # "deleted"
        /\ UNCHANGED <<events, stripe, tier, claimed, disorder, checkout, members>>
    BY <1>8 DEF Ledger, EvType, Ev!Upsert, Ev!billVars, Ev!stripeVars
  <2>2. /\ new \in Work /\ new.ev = e /\ new.at = "tier" /\ new.st = task[w].st
    <3>1. ASSUME NEW x \in Work
          PROVE  /\ After(x) \in Work /\ After(x).ev = x.ev
                 /\ After(x).at = "tier" /\ After(x).st = x.st
      BY DEF Work
    <3>2. task[w] \in Work
      BY DEF Ledger, EvType
    <3> HIDE DEF After
    <3>3. QED BY <3>1, <3>2
  <2>3. ~disorder /\ IsLast(e) => new.st = "active"
    BY <2>1, <2>2 DEF Ledger, InOrder, OneAtWork, Ev!None
  <2> HIDE DEF new
  <2>4. QED BY <2>1, <2>2, <2>3, WorkStep DEF Ev!None
<1>9. ASSUME NEW w \in EvHandlers, Ev!SetTier(w) \/ Ev!EndSubscription(w) \/ Ev!HookFails(w)
      PROVE  Ledger'
  <2>1. /\ task' = [task EXCEPT ![w] = Ev!NoTask]
        /\ ~disorder' => ~disorder
        /\ UNCHANGED <<events, stripe, claimed, checkout, members>>
    BY <1>9 DEF Ev!SetTier, Ev!EndSubscription, Ev!EndPlan, Ev!HookFails, Ev!billVars,
      Ev!stripeVars
  <2>2. task[w].at # Ev!None
    BY <1>9 DEF Ledger, AtWork, Ev!SetTier, Ev!EndSubscription, Ev!HookFails, Ev!None
  <2>3. ASSUME ~disorder', IsLast(task[w].ev)
        PROVE  tier' = "paid" <=> events[task[w].ev].kind # "deleted"
    <3>1. CASE Ev!SetTier(w)
      BY <2>1, <2>2, <2>3, <3>1 DEF Ledger, AtWork, InOrder, OneAtWork, Ev!SetTier
    <3>2. CASE Ev!EndSubscription(w)
      BY <3>2 DEF Ev!EndSubscription, Ev!EndPlan
    <3>3. QED BY <1>9, <2>3, <3>1, <3>2 DEF Ev!HookFails
  <2>4. Heeds(w)
    BY <2>3 DEF Heeds
  <2>5. QED BY <2>1, <2>2, <2>4, DoneStep
<1>10. QED
  BY <1>1, <1>3, <1>4, <1>5, <1>6, <1>7, <1>8, <1>9 DEF Ev!Next, Ev!EventIds, EvIds

(* With every event worked off, in its turn and without a failure, and no  *)
(* second subscription bought over a running one, the team has a paid plan *)
(* exactly while Stripe has it subscribed: for any number of              *)
(* subscriptions, of events that are delivered in any order and again, and *)
(* of handlers.                                                            *)
THEOREM PlanKeepsToStripe == MCSpec => []PlanFollowsStripe
<1> DEFINE Inv == focus = "events" => Ledger
<1>1. MCInit => Inv
  BY LedgerInit DEF MCInit
<1>2. Inv /\ [MCNext]_mcVars => Inv'
  <2> SUFFICES ASSUME Inv, [MCNext]_mcVars, focus' = "events"
               PROVE  Ledger'
    OBVIOUS
  <2>1. focus = "events" /\ [Ev!Next]_(Ev!vars)
    BY DEF MCNext, mcVars, FollowSeats, FollowEvents, FollowHooks, vars, Ev!vars
  <2>2. QED BY <2>1, LedgerStep
<1>3. Inv => PlanFollowsStripe
  <2> SUFFICES ASSUME Ledger
               PROVE  Ev!PlanAgrees
    BY DEF PlanFollowsStripe
  <2>1. SUFFICES ASSUME ~disorder, claimed = Ev!Sent, \A w \in EvHandlers : task[w] = Ev!NoTask
                 PROVE  tier = "paid" <=> \E s \in EvSubs : Ev!Active(s)
    BY DEF Ev!PlanAgrees
  <2>2. tier = "paid" <=> \E e \in EvIds : IsLast(e) /\ events[e].kind # "deleted"
    BY <2>1 DEF Ledger, PlanTold, Ev!NoTask
  <2>3. PICK n \in 0..EvMax : Ev!Sent = 1..n
    BY DEF Ledger, Numbered
  <2>4. CASE n = 0
    BY <2>1, <2>2, <2>3, <2>4 DEF Ledger, InOrder, LastTells, IsLast, Ev!Active
  <2>5. CASE n # 0
    <3>1. n \in EvIds /\ IsLast(n) /\ \A e \in EvIds : IsLast(e) => e = n
      BY <2>3, <2>5, InstanceAssumptions DEF IsLast, EvIds, Ev!BillingAssumption
    <3>2. \A s \in EvSubs :
            stripe[s].st = "active" <=> (events[n].kind # "deleted" /\ s = events[n].sub)
      BY <2>1, <3>1 DEF Ledger, InOrder, LastTells
    <3>3. events[n].kind # "deleted" => events[n].sub \in EvSubs
      BY <3>1 DEF Ledger, Truthful, IsLast
    <3>4. QED BY <2>2, <3>1, <3>2, <3>3 DEF Ev!Active
  <2>6. QED BY <2>4, <2>5
<1>4. QED BY <1>1, <1>2, <1>3, Steps, PTL

(* What was begun had been claimed.                                        *)
Begun(Ids) ==
  /\ applied \in [Ids -> {0, 1}]
  /\ \A e \in Ids : applied[e] = 1 => e \in claimed

LEMMA BegunStep ==
  ASSUME NEW Ids, Begun(Ids), NEW e \in Ids, e \notin claimed, claimed' = claimed \cup {e},
         applied' = [applied EXCEPT ![e] = IF @ < 2 THEN @ + 1 ELSE 2]
  PROVE  Begun(Ids)'
BY DEF Begun

(* However often and from however many sides Stripe delivers an event, its *)
(* work is begun once: its id is claimed in the statement that tells who   *)
(* begins.  So it is in both behaviours of Billing.                        *)
THEOREM EventsAreBegunOnce == MCSpec => []EventsOnce
<1> DEFINE Inv == Begun(IF focus = "events" THEN EvIds ELSE EventIds)
<1>1. MCInit => Inv
  <2>1. Init => Begun(EventIds)
    BY DEF Init, Begun
  <2>2. Ev!Init => Begun(EvIds)
    BY DEF Ev!Init, Ev!EventIds, EvIds, Begun
  <2>3. QED BY <2>1, <2>2 DEF MCInit
<1>2. Inv /\ [MCNext]_mcVars => Inv'
  <2> SUFFICES ASSUME Inv, [MCNext]_mcVars
               PROVE  Inv'
    OBVIOUS
  <2>1. focus' = focus
    BY DEF MCNext, mcVars
  <2>2. CASE UNCHANGED <<claimed, applied>>
    BY <2>1, <2>2 DEF Begun
  <2>3. CASE FollowSeats
    <3>1. ASSUME NEW w \in Handlers, NEW e \in EventIds, Receive(w, e)
          PROVE  Inv'
      <4>1. /\ e \notin claimed /\ claimed' = claimed \cup {e}
            /\ applied' = [applied EXCEPT ![e] = IF @ < 2 THEN @ + 1 ELSE 2]
        BY <3>1 DEF Receive, Claim
      <4>2. focus # "events"
        BY <2>3 DEF FollowSeats
      <4>3. QED BY <2>1, <4>1, <4>2, BegunStep
    <3>2. CASE \/ OpenCheckout \/ MembersChange
               \/ \E s \in Subs : CompleteCheckout(s) \/ RenewSub(s) \/ CancelSub(s)
               \/ \E w \in Handlers :
                    Retrieve(w) \/ Upsert(w) \/ SetTier(w) \/ EndSubscription(w) \/ HookFails(w)
               \/ \E p \in Pushers : Reconcile(p) \/ PushGoesOn(p)
      <4>1. UNCHANGED <<claimed, applied>>
        BY <3>2 DEF OpenCheckout, MembersChange, CompleteCheckout, RenewSub, CancelSub,
          Retrieve, Upsert, SetTier, EndSubscription, HookFails, Reconcile, PushGoesOn,
          ReadSeats, FindItem, CallStripe, Record, PushFails, hookVars
      <4>2. QED BY <2>2, <4>1
    <3>3. QED BY <2>3, <3>1, <3>2 DEF FollowSeats, Next
  <2>4. CASE FollowEvents
    <3>1. ASSUME NEW w \in EvHandlers, NEW e \in EvIds, Ev!Receive(w, e)
          PROVE  Inv'
      <4>1. /\ e \notin claimed /\ claimed' = claimed \cup {e}
            /\ applied' = [applied EXCEPT ![e] = IF @ < 2 THEN @ + 1 ELSE 2]
        BY <3>1 DEF Ev!Receive, Ev!Claim
      <4>2. focus = "events"
        BY <2>4 DEF FollowEvents
      <4>3. QED BY <2>1, <4>1, <4>2, BegunStep
    <3>2. CASE \/ Ev!OpenCheckout \/ Ev!MembersChange
               \/ \E s \in EvSubs :
                    Ev!CompleteCheckout(s) \/ Ev!RenewSub(s) \/ Ev!CancelSub(s)
               \/ \E w \in EvHandlers :
                    \/ Ev!Retrieve(w) \/ Ev!Upsert(w) \/ Ev!SetTier(w)
                    \/ Ev!EndSubscription(w) \/ Ev!HookFails(w)
      <4>1. UNCHANGED <<claimed, applied>>
        BY <3>2 DEF Ev!OpenCheckout, Ev!MembersChange, Ev!CompleteCheckout, Ev!RenewSub,
          Ev!CancelSub, Ev!Retrieve, Ev!Upsert, Ev!SetTier, Ev!EndSubscription,
          Ev!HookFails, Ev!hookVars
      <4>2. QED BY <2>2, <4>1
    <3>3. QED BY <2>4, <3>1, <3>2 DEF FollowEvents, Ev!Next, Ev!EventIds, EvIds
  <2>5. CASE FollowHooks \/ UNCHANGED mcVars
    BY <2>2, <2>5 DEF FollowHooks, mcVars, vars
  <2>6. QED BY <2>3, <2>4, <2>5 DEF MCNext
<1>3. Inv => EventsOnce
  BY DEF Begun, EventsOnce, EventsApplyOnce, Ev!EventsApplyOnce, Ev!EventIds, EvIds
<1>4. QED BY <1>1, <1>2, <1>3, Steps, PTL

-----------------------------------------------------------------------------
(* The outgoing webhooks.                                                  *)

Status == {"new", "pending", "delivered", "failed", "gone"}
Batches ==
  [at : {W!None, "send", "record", "clear", "strike", "disable"},
   batch : SUBSET Pushers, d : Pushers \cup {W!None}, ok : BOOLEAN,
   read : [Pushers -> 0..(MaxAttempts - 1)]]

HookType ==
  /\ status \in [Pushers -> Status] /\ due \subseteq Pushers
  /\ attempts \in [Pushers -> 0..MaxAttempts]
  /\ \A d \in Pushers : status[d] = "pending" => attempts[d] < MaxAttempts
  /\ endpoint \in {"on", "off", "gone"}
  /\ strikes \in 0..DisableAfter /\ lost \in 0..DisableAfter
  /\ sweep \in [{Sweep1} -> Batches]
  /\ sweep[Sweep1].at = W!None <=> sweep[Sweep1] = W!Resting
  /\ sweep[Sweep1].at = "record" => sweep[Sweep1].d \in Pushers

(* What a sweep has yet to send or to record is still open, or its         *)
(* endpoint was deleted.                                                   *)
Open(d) == status[d] \in {"pending", "gone"}
BatchIsOpen ==
  /\ \A d \in sweep[Sweep1].batch : Open(d)
  /\ sweep[Sweep1].at = "record" =>
       Open(sweep[Sweep1].d) /\ sweep[Sweep1].d \notin sweep[Sweep1].batch

(* Unless the sweep crossed an administrator, or died before it cleared    *)
(* them, each strike is one of the deliveries lost since the last success. *)
StrikesAreLosses ==
  /\ sweep[Sweep1].at # "clear" => strikes <= lost
  /\ sweep[Sweep1].at = "strike" => strikes < lost \/ lost = DisableAfter
  /\ sweep[Sweep1].at = "disable" => strikes = DisableAfter

HookInv == HookType /\ BatchIsOpen /\ (~crossed => StrikesAreLosses)

LEMMA HookConstants == DisableAfter \in Nat \ {0} /\ MaxAttempts \in Nat \ {0}
BY InstanceAssumptions DEF W!DeliveryAssumption

LEMMA RestingIs ==
  W!Resting \in Batches /\ W!Resting.at = W!None /\ W!Resting.batch = {}
BY HookConstants DEF W!Resting, Batches

LEMMA HookInit == W!Init => HookInv
<1> SUFFICES ASSUME W!Init
             PROVE  HookInv
  OBVIOUS
<1>1. /\ status = [d \in Pushers |-> "new"] /\ attempts = [d \in Pushers |-> 0] /\ due = {}
      /\ endpoint = "on" /\ strikes = 0 /\ lost = 0
      /\ sweep = [w \in {Sweep1} |-> W!Resting]
  BY DEF W!Init
<1>2. sweep[Sweep1] = W!Resting /\ sweep \in [{Sweep1} -> Batches]
  BY <1>1, RestingIs
<1>3. HookType
  BY <1>1, <1>2, RestingIs, HookConstants DEF HookType, Status, W!None
<1>4. BatchIsOpen /\ StrikesAreLosses
  BY <1>1, <1>2, RestingIs DEF BatchIsOpen, StrikesAreLosses, W!None
<1>5. QED BY <1>3, <1>4 DEF HookInv

(* A sweep goes on to its next statement.                                  *)
Moves(new) == sweep' = [sweep EXCEPT ![Sweep1] = new]

LEMMA SweepMoves ==
  ASSUME HookType, NEW new \in Batches, Moves(new),
         new.at = W!None <=> new = W!Resting, new.at = "record" => new.d \in Pushers
  PROVE  /\ sweep' \in [{Sweep1} -> Batches] /\ sweep'[Sweep1] = new
         /\ sweep'[Sweep1].at = W!None <=> sweep'[Sweep1] = W!Resting
         /\ sweep'[Sweep1].at = "record" => sweep'[Sweep1].d \in Pushers
BY DEF HookType, Moves

LEMMA NextInBatchIs ==
  ASSUME HookType, W!NextInBatch(Sweep1)
  PROVE  \E new \in Batches :
           /\ Moves(new) /\ new.at \in {W!None, "send"} /\ new.batch = sweep[Sweep1].batch
           /\ new.at = W!None <=> new = W!Resting
<1> DEFINE After(x) == [x EXCEPT !.at = "send", !.d = W!None, !.ok = FALSE]
<1>1. sweep[Sweep1] \in Batches
  BY DEF HookType
<1>2. ASSUME NEW x \in Batches
      PROVE  /\ After(x) \in Batches /\ After(x).at = "send" /\ After(x).batch = x.batch
  BY DEF Batches
<1>3. CASE sweep[Sweep1].batch = {}
  <2>1. Moves(W!Resting)
    BY <1>3 DEF W!NextInBatch, W!Put, Moves
  <2>2. QED BY <1>3, <2>1, RestingIs
<1>4. CASE sweep[Sweep1].batch # {}
  <2>1. Moves(After(sweep[Sweep1]))
    BY <1>4 DEF W!NextInBatch, W!Put, Moves
  <2> HIDE DEF After
  <2>2. After(sweep[Sweep1]).at # W!None /\ After(sweep[Sweep1]) # W!Resting
    BY <1>1, <1>2, RestingIs DEF W!None
  <2>3. QED BY <1>1, <1>2, <2>1, <2>2
<1>5. QED BY <1>3, <1>4

(* Steps that only touch the rows and the endpoint.                        *)
LEMMA RowsStep ==
  ASSUME HookInv, UNCHANGED <<sweep>>,
         status' \in [Pushers -> Status], attempts' \in [Pushers -> 0..MaxAttempts],
         due' \subseteq Pushers, endpoint' \in {"on", "off", "gone"},
         strikes' \in 0..DisableAfter, lost' \in 0..DisableAfter,
         \A d \in Pushers : status'[d] = "pending" => attempts'[d] < MaxAttempts,
         \A d \in Pushers : Open(d) => status'[d] \in {"pending", "gone"},
         ~crossed' => /\ ~crossed
                      /\ \/ UNCHANGED <<strikes, lost>>
                         \/ sweep[Sweep1] = W!Resting /\ strikes' = 0 /\ lost' = 0
  PROVE  HookInv'
<1>1. HookType'
  BY DEF HookInv, HookType
<1>2. BatchIsOpen'
  BY DEF HookInv, HookType, Batches, BatchIsOpen, Open
<1>3. ~crossed' => StrikesAreLosses'
  BY HookConstants, RestingIs DEF HookInv, HookType, StrikesAreLosses, W!None
<1>4. QED BY <1>1, <1>2, <1>3 DEF HookInv

LEMMA QueueStep ==
  ASSUME HookInv, NEW d \in Pushers, status[d] \in {"new", "failed"}, W!Queue(d),
         ~crossed' => ~crossed, UNCHANGED <<endpoint, strikes, sweep, lost>>
  PROVE  HookInv'
<1>1. /\ status' = [status EXCEPT ![d] = "pending"]
      /\ attempts' = [attempts EXCEPT ![d] = 0] /\ due' = due \cup {d}
  BY DEF W!Queue
<1>2. /\ status' \in [Pushers -> Status] /\ attempts' \in [Pushers -> 0..MaxAttempts]
      /\ due' \subseteq Pushers
      /\ endpoint' \in {"on", "off", "gone"} /\ strikes' \in 0..DisableAfter
      /\ lost' \in 0..DisableAfter
  BY <1>1, HookConstants DEF HookInv, HookType, Status
<1>3. \A c \in Pushers : status'[c] = "pending" => attempts'[c] < MaxAttempts
  BY <1>1, HookConstants DEF HookInv, HookType
<1>4. \A c \in Pushers : Open(c) => status'[c] \in {"pending", "gone"}
  BY <1>1 DEF HookInv, HookType, Open
<1>5. QED BY <1>2, <1>3, <1>4, RowsStep

LEMMA AdminStep ==
  ASSUME HookInv,
         W!Patch("on") \/ W!Patch("off") \/ W!DeleteEndpoint
           \/ \E d \in Pushers : W!Elapse(d)
  PROVE  HookInv'
<1>1. CASE \E d \in Pushers : W!Elapse(d)
  BY <1>1, RowsStep DEF HookInv, HookType, Open, W!Elapse, W!endVars
<1>2. CASE W!DeleteEndpoint
  <2>1. /\ endpoint' = "gone" /\ status' = [d \in Pushers |-> "gone"]
        /\ UNCHANGED <<attempts, due, strikes, sweep, lost, crossed>>
    BY <1>2 DEF W!DeleteEndpoint
  <2>2. status' \in [Pushers -> Status]
    BY <2>1 DEF Status
  <2>3. QED BY <2>1, <2>2, RowsStep DEF HookInv, HookType
<1>3. ASSUME NEW new \in {"on", "off"}, W!Patch(new)
      PROVE  HookInv'
  <2>1. /\ endpoint' = new
        /\ \/ UNCHANGED <<strikes, lost>>
           \/ strikes' = 0 /\ lost' = 0
        /\ crossed' <=> (crossed \/ sweep[Sweep1] # W!Resting)
        /\ UNCHANGED <<status, attempts, due, sweep>>
    BY <1>3 DEF W!Patch, W!Meets, W!rowVars
  <2>2. strikes' \in 0..DisableAfter /\ lost' \in 0..DisableAfter
    BY <2>1, HookConstants DEF HookInv, HookType
  <2>3. ~crossed' => /\ ~crossed
                     /\ \/ UNCHANGED <<strikes, lost>>
                        \/ sweep[Sweep1] = W!Resting /\ strikes' = 0 /\ lost' = 0
    BY <2>1
  <2>4. QED BY <2>1, <2>2, <2>3, RowsStep DEF HookInv, HookType, Open
<1>4. QED BY <1>1, <1>2, <1>3

(* Steps of the sweep that leave the rows alone.                           *)
LEMMA StartStep == ASSUME HookInv, W!StartSweep(Sweep1) PROVE HookInv'
<1> DEFINE After(x, b, r) == [x EXCEPT !.at = "send", !.batch = b, !.read = r]
           read == [d \in Pushers |-> IF d \in W!Due THEN attempts[d] ELSE 0]
           new == After(W!Resting, W!Due, read)
<1>1. /\ Moves(new) /\ sweep[Sweep1] = W!Resting
      /\ ~crossed' => ~crossed
      /\ UNCHANGED <<status, attempts, due, endpoint, strikes, lost>>
  BY DEF W!StartSweep, W!Put, Moves, W!rowVars, W!endVars
<1>2. W!Due \subseteq Pushers /\ \A d \in W!Due : status[d] = "pending"
  BY DEF HookInv, HookType, W!Due
<1>3. read \in [Pushers -> 0..(MaxAttempts - 1)]
  BY <1>2, HookConstants DEF HookInv, HookType
<1>4. /\ new \in Batches /\ new.at = "send" /\ new.batch = W!Due
  <2>1. ASSUME NEW x \in Batches, NEW b \in SUBSET Pushers,
               NEW r \in [Pushers -> 0..(MaxAttempts - 1)]
        PROVE  After(x, b, r) \in Batches /\ After(x, b, r).at = "send"
               /\ After(x, b, r).batch = b
    BY DEF Batches
  <2> HIDE DEF After, read
  <2>2. QED BY <1>2, <1>3, <2>1, RestingIs
<1> HIDE DEF new
<1>5. /\ sweep' \in [{Sweep1} -> Batches] /\ sweep'[Sweep1] = new
      /\ sweep'[Sweep1].at = W!None <=> sweep'[Sweep1] = W!Resting
      /\ sweep'[Sweep1].at = "record" => sweep'[Sweep1].d \in Pushers
  <2>1. new.at # W!None /\ new # W!Resting /\ new.at # "record"
    BY <1>4, RestingIs DEF W!None
  <2>2. QED BY <1>1, <1>4, <2>1, SweepMoves DEF HookInv
<1>6. HookType'
  BY <1>1, <1>5 DEF HookInv, HookType
<1>7. BatchIsOpen'
  BY <1>1, <1>2, <1>4, <1>5 DEF BatchIsOpen, Open
<1>8. ~crossed' => StrikesAreLosses'
  BY <1>1, <1>4, <1>5, RestingIs DEF HookInv, StrikesAreLosses, W!None
<1>9. QED BY <1>6, <1>7, <1>8 DEF HookInv

LEMMA SendStep ==
  ASSUME HookInv, NEW d \in Pushers, W!Send(Sweep1, d)
  PROVE  HookInv'
<1> DEFINE After(x, ok) == [x EXCEPT !.at = "record", !.d = d, !.ok = ok, !.batch = @ \ {d}]
           r == sweep[Sweep1]
<1>1. PICK ok \in BOOLEAN : Moves(After(r, ok))
  BY DEF W!Send, W!Put, Moves
<1>2. /\ r.at = "send" /\ d \in r.batch /\ r \in Batches
      /\ UNCHANGED <<status, attempts, due, endpoint, strikes, lost, crossed>>
  BY DEF HookInv, HookType, W!Send, W!rowVars, W!endVars
<1> DEFINE new == After(r, ok)
<1>3. /\ new \in Batches /\ new.at = "record" /\ new.batch = r.batch \ {d} /\ new.d = d
  <2>1. ASSUME NEW x \in Batches, NEW o \in BOOLEAN
        PROVE  /\ After(x, o) \in Batches /\ After(x, o).at = "record"
               /\ After(x, o).batch = x.batch \ {d} /\ After(x, o).d = d
    BY DEF Batches
  <2> HIDE DEF After, r
  <2>2. QED BY <1>2, <2>1
<1> HIDE DEF new, After
<1>4. /\ sweep' \in [{Sweep1} -> Batches] /\ sweep'[Sweep1] = new
      /\ sweep'[Sweep1].at = W!None <=> sweep'[Sweep1] = W!Resting
      /\ sweep'[Sweep1].at = "record" => sweep'[Sweep1].d \in Pushers
  <2>1. new.at # W!None /\ new # W!Resting
    BY <1>3, RestingIs DEF W!None
  <2>2. QED BY <1>1, <1>3, <2>1, SweepMoves DEF HookInv, new
<1>5. HookType'
  BY <1>2, <1>4 DEF HookInv, HookType
<1>6. BatchIsOpen'
  BY <1>2, <1>3, <1>4 DEF HookInv, BatchIsOpen, Open
<1>7. ~crossed' => StrikesAreLosses'
  BY <1>2, <1>3, <1>4 DEF HookInv, StrikesAreLosses
<1>8. QED BY <1>5, <1>6, <1>7 DEF HookInv

(* What came of a delivery: its row, if it is still there, and the next    *)
(* statement of the sweep.                                                 *)
Outcome == {"delivered", "failed", "pending"}
Writes(d, n, new) ==
  \/ status[d] = "gone" /\ UNCHANGED <<status, attempts, due>>
  \/ /\ status' = [status EXCEPT ![d] = new] /\ attempts' = [attempts EXCEPT ![d] = n]
     /\ due' = IF new = "pending" THEN due \ {d} ELSE due

LEMMA RecordIs ==
  ASSUME HookInv, W!Record(Sweep1)
  PROVE  /\ sweep[Sweep1].at = "record" /\ sweep[Sweep1].d \in Pushers
         /\ \E new \in Outcome, n \in 1..MaxAttempts :
              /\ Writes(sweep[Sweep1].d, n, new)
              /\ new = "pending" => n < MaxAttempts /\ W!NextInBatch(Sweep1) /\ lost' = lost
              /\ new = "delivered" =>
                   Moves([sweep[Sweep1] EXCEPT !.at = "clear"]) /\ lost' = 0
              /\ new = "failed" =>
                   /\ Moves([sweep[Sweep1] EXCEPT !.at = "strike"])
                   /\ lost' = IF lost < DisableAfter THEN lost + 1 ELSE lost
         /\ UNCHANGED <<endpoint, strikes, crossed>>
<1> DEFINE d == sweep[Sweep1].d
           n == sweep[Sweep1].read[d] + 1
           new == IF sweep[Sweep1].ok THEN "delivered"
                  ELSE IF W!Exhausted(n) THEN "failed" ELSE "pending"
<1>1. sweep[Sweep1].at = "record" /\ d \in Pushers
  BY DEF HookInv, HookType, W!Record
<1>2. n \in 1..MaxAttempts
  BY <1>1, HookConstants DEF HookInv, HookType, Batches
<1>3. new \in Outcome /\ (new = "delivered" <=> sweep[Sweep1].ok)
  BY DEF Outcome
<1>4. Writes(d, n, new)
  BY DEF W!Record, Writes, W!rowVars
<1>5. new = "pending" => n < MaxAttempts
  BY <1>2, HookConstants DEF W!Exhausted
<1>6. /\ CASE sweep[Sweep1].ok -> W!Put(Sweep1, [sweep[Sweep1] EXCEPT !.at = "clear"])
           [] new = "failed"   -> W!Put(Sweep1, [sweep[Sweep1] EXCEPT !.at = "strike"])
           [] new = "pending"  -> W!NextInBatch(Sweep1)
      /\ lost' = CASE new = "delivered" -> 0
                   [] new = "failed" /\ lost < DisableAfter -> lost + 1
                   [] OTHER -> lost
      /\ UNCHANGED <<endpoint, strikes, crossed>>
  BY DEF W!Record, W!endVars
<1> HIDE DEF new, n, d
<1>7. /\ new = "pending" => W!NextInBatch(Sweep1) /\ lost' = lost
      /\ new = "delivered" => Moves([sweep[Sweep1] EXCEPT !.at = "clear"]) /\ lost' = 0
      /\ new = "failed" => /\ Moves([sweep[Sweep1] EXCEPT !.at = "strike"])
                           /\ lost' = IF lost < DisableAfter THEN lost + 1 ELSE lost
  <2>1. CASE new = "delivered"
    BY <1>3, <1>6, <2>1 DEF W!Put, Moves
  <2>2. CASE new = "failed"
    BY <1>3, <1>6, <2>2 DEF W!Put, Moves
  <2>3. CASE new = "pending"
    BY <1>3, <1>6, <2>3 DEF W!Put, Moves
  <2>4. QED BY <1>3, <2>1, <2>2, <2>3 DEF Outcome
<1>8. QED BY <1>1, <1>2, <1>3, <1>4, <1>5, <1>6, <1>7 DEF d

(* The record of a delivery keeps the others open, and counts a loss.      *)
LEMMA RecordStep == ASSUME HookInv, W!Record(Sweep1) PROVE HookInv'
<1> DEFINE r == sweep[Sweep1]
           At(x, a) == [x EXCEPT !.at = a]
<1>1. PICK new \in Outcome, n \in 1..MaxAttempts :
        /\ Writes(r.d, n, new)
        /\ new = "pending" => n < MaxAttempts /\ W!NextInBatch(Sweep1) /\ lost' = lost
        /\ new = "delivered" => Moves(At(r, "clear")) /\ lost' = 0
        /\ new = "failed" => /\ Moves(At(r, "strike"))
                             /\ lost' = IF lost < DisableAfter THEN lost + 1 ELSE lost
  BY RecordIs
<1>2. /\ r.at = "record" /\ r.d \in Pushers /\ r \in Batches
      /\ UNCHANGED <<endpoint, strikes, crossed>>
  BY RecordIs DEF HookInv, HookType
<1>3. \E b \in Batches :
        /\ Moves(b) /\ b.batch = r.batch /\ b.at # "record"
        /\ b.at = W!None <=> b = W!Resting
        /\ new = "pending" => b.at \in {W!None, "send"}
        /\ new = "delivered" => b.at = "clear"
        /\ new = "failed" => b.at = "strike"
  <2>1. CASE new = "pending"
    BY <1>1, <2>1, NextInBatchIs DEF HookInv, W!None
  <2>2. ASSUME NEW a \in {"clear", "strike"}, Moves(At(r, a))
        PROVE  /\ At(r, a) \in Batches /\ At(r, a).batch = r.batch /\ At(r, a).at = a
               /\ At(r, a) # W!Resting
    <3>1. ASSUME NEW x \in Batches
          PROVE  At(x, a) \in Batches /\ At(x, a).batch = x.batch /\ At(x, a).at = a
      BY DEF Batches
    <3>2. a # W!None
      BY DEF W!None
    <3> HIDE DEF At, r
    <3>3. QED BY <1>2, <3>1, <3>2, RestingIs
  <2> HIDE DEF At, r
  <2>3. CASE new = "delivered"
    BY <1>1, <2>2, <2>3 DEF W!None
  <2>4. CASE new = "failed"
    BY <1>1, <2>2, <2>4 DEF W!None
  <2>5. QED BY <2>1, <2>3, <2>4 DEF Outcome
<1>4. PICK b \in Batches :
        /\ Moves(b) /\ b.batch = r.batch /\ b.at # "record"
        /\ b.at = W!None <=> b = W!Resting
        /\ new = "pending" => b.at \in {W!None, "send"}
        /\ new = "delivered" => b.at = "clear"
        /\ new = "failed" => b.at = "strike"
  BY <1>3
<1>5. /\ sweep' \in [{Sweep1} -> Batches] /\ sweep'[Sweep1] = b
      /\ sweep'[Sweep1].at = W!None <=> sweep'[Sweep1] = W!Resting
  BY <1>4, SweepMoves DEF HookInv
<1>6. /\ status' \in [Pushers -> Status] /\ due' \subseteq Pushers
      /\ attempts' \in [Pushers -> 0..MaxAttempts]
      /\ \A d \in Pushers : status'[d] = "pending" => attempts'[d] < MaxAttempts
      /\ \A d \in Pushers \ {r.d} : status'[d] = status[d]
  <2>1. CASE status[r.d] = "gone" /\ UNCHANGED <<status, attempts, due>>
    BY <2>1 DEF HookInv, HookType
  <2>2. CASE /\ status' = [status EXCEPT ![r.d] = new]
             /\ attempts' = [attempts EXCEPT ![r.d] = n]
             /\ due' = IF new = "pending" THEN due \ {r.d} ELSE due
    <3>1. new \in Status /\ n \in 0..MaxAttempts /\ (new = "pending" => n < MaxAttempts)
      BY <1>1, HookConstants DEF Outcome, Status
    <3> HIDE DEF r
    <3>2. QED BY <1>2, <2>2, <3>1 DEF HookInv, HookType
  <2>3. QED BY <1>1, <2>1, <2>2 DEF Writes
<1>7. lost' \in 0..DisableAfter
  BY <1>1, HookConstants DEF HookInv, HookType, Outcome
<1>8. HookType'
  BY <1>2, <1>4, <1>5, <1>6, <1>7 DEF HookInv, HookType
<1>9. BatchIsOpen'
  BY <1>2, <1>4, <1>5, <1>6 DEF HookInv, HookType, Batches, BatchIsOpen, Open
<1>10. ~crossed' => StrikesAreLosses'
  <2>1. ~crossed => strikes <= lost
    BY <1>2 DEF HookInv, StrikesAreLosses
  <2>2. CASE new = "delivered"
    BY <1>4, <1>5, <2>2 DEF StrikesAreLosses
  <2>3. CASE new = "failed"
    BY <1>1, <1>2, <1>4, <1>5, <2>1, <2>3, HookConstants DEF HookInv, HookType, StrikesAreLosses
  <2>4. CASE new = "pending"
    BY <1>1, <1>2, <1>4, <1>5, <2>1, <2>4 DEF StrikesAreLosses, W!None
  <2>5. QED BY <2>2, <2>3, <2>4 DEF Outcome
<1>11. QED BY <1>8, <1>9, <1>10 DEF HookInv

(* The other statements of the sweep, and its end.                         *)
LEMMA EndStep ==
  ASSUME HookInv, NEW b \in Batches, Moves(b), b.batch \subseteq sweep[Sweep1].batch,
         b.at # "record", b.at = W!None <=> b = W!Resting,
         UNCHANGED <<status, attempts, due, lost>>, endpoint' \in {"on", "off", "gone"},
         strikes' \in 0..DisableAfter,
         ~crossed' => /\ ~crossed /\ b.at # "clear" /\ b.at # "strike" /\ strikes' <= lost
                      /\ b.at = "disable" => strikes' = DisableAfter
  PROVE  HookInv'
<1>1. /\ sweep' \in [{Sweep1} -> Batches] /\ sweep'[Sweep1] = b
      /\ sweep'[Sweep1].at = W!None <=> sweep'[Sweep1] = W!Resting
  BY SweepMoves DEF HookInv
<1>2. HookType'
  BY <1>1 DEF HookInv, HookType
<1>3. BatchIsOpen'
  BY <1>1 DEF HookInv, BatchIsOpen, Open
<1>4. ~crossed' => StrikesAreLosses'
  BY <1>1 DEF StrikesAreLosses
<1>5. QED BY <1>2, <1>3, <1>4 DEF HookInv

LEMMA HookStep == HookInv /\ [W!Next]_(W!vars) => HookInv'
<1> SUFFICES ASSUME HookInv, [W!Next]_(W!vars)
             PROVE  HookInv'
  OBVIOUS
<1> DEFINE r == sweep[Sweep1]
<1>1. ASSUME NEW d \in Pushers, W!Emit(d) \/ W!Redeliver(d)
      PROVE  HookInv'
  <2>1. /\ status[d] \in {"new", "failed"} /\ W!Queue(d)
        /\ UNCHANGED <<endpoint, strikes, sweep, lost>>
    BY <1>1 DEF W!Emit, W!Redeliver, W!endVars
  <2>2. ~crossed' => ~crossed
    BY <1>1 DEF W!Emit, W!Redeliver, W!Meets
  <2>3. QED BY <2>1, <2>2, QueueStep
<1>2. CASE \/ W!Patch("on") \/ W!Patch("off") \/ W!DeleteEndpoint
           \/ \E d \in Pushers : W!Elapse(d)
  BY <1>2, AdminStep
<1>3. CASE W!Clear(Sweep1) \/ W!Disable(Sweep1)
  <2>1. PICK b \in Batches :
          /\ Moves(b) /\ b.at \in {W!None, "send"} /\ b.batch = r.batch
          /\ b.at = W!None <=> b = W!Resting
    BY <1>3, NextInBatchIs DEF HookInv, W!Clear, W!Disable
  <2>2. /\ UNCHANGED <<status, attempts, due, lost, crossed>>
        /\ endpoint' \in {"on", "off", "gone"} /\ strikes' \in 0..DisableAfter
    BY <1>3, HookConstants
    DEF HookInv, HookType, W!Clear, W!Disable, W!ForgetStrikes, W!rowVars
  <2>3. ~crossed => strikes' <= lost
    BY <1>3 DEF HookInv, HookType, StrikesAreLosses, W!Clear, W!Disable, W!ForgetStrikes
  <2>4. b.at # "record" /\ b.at # "clear" /\ b.at # "strike" /\ b.at # "disable"
    BY <2>1 DEF W!None
  <2>5. QED BY <2>1, <2>2, <2>3, <2>4, EndStep
<1>4. CASE W!Strike(Sweep1)
  <2>1. /\ r.at = "strike" /\ strikes' = IF strikes < DisableAfter THEN strikes + 1 ELSE strikes
        /\ UNCHANGED <<status, attempts, due, endpoint, lost, crossed>>
    BY <1>4 DEF W!Strike, W!rowVars
  <2>2. strikes' \in 0..DisableAfter /\ (~crossed => strikes' <= lost)
    BY <2>1, HookConstants DEF HookInv, HookType, StrikesAreLosses
  <2>3. CASE strikes' >= DisableAfter
    <3> DEFINE After(x) == [x EXCEPT !.at = "disable"]
    <3>1. Moves(After(r))
      BY <1>4, <2>3 DEF W!Strike, W!Put, Moves
    <3>2. ASSUME NEW x \in Batches
          PROVE  After(x) \in Batches /\ After(x).at = "disable" /\ After(x).batch = x.batch
      BY DEF Batches
    <3>3. r \in Batches
      BY DEF HookInv, HookType
    <3> HIDE DEF After, r
    <3>4. /\ After(r) \in Batches /\ After(r).at = "disable" /\ After(r).batch = r.batch
          /\ After(r) # W!Resting
      BY <3>2, <3>3, RestingIs DEF W!None
    <3>5. strikes' = DisableAfter
      BY <2>2, <2>3, HookConstants
    <3> DEFINE b == After(r)
    <3> HIDE DEF b
    <3>6. b \in Batches /\ Moves(b) /\ b.at = "disable" /\ b.batch = r.batch /\ b # W!Resting
      BY <3>1, <3>4 DEF b
    <3>7. QED BY <2>1, <2>2, <3>5, <3>6, EndStep DEF HookInv, HookType, W!None, r
  <2>4. CASE ~(strikes' >= DisableAfter)
    <3>1. PICK b \in Batches :
            /\ Moves(b) /\ b.at \in {W!None, "send"} /\ b.batch = r.batch
            /\ b.at = W!None <=> b = W!Resting
      BY <1>4, <2>4, NextInBatchIs DEF HookInv, W!Strike
    <3>2. b.at # "record" /\ b.at # "clear" /\ b.at # "strike" /\ b.at # "disable"
      BY <3>1 DEF W!None
    <3>3. QED BY <2>1, <2>2, <3>1, <3>2, EndStep DEF HookInv, HookType
  <2>5. QED BY <2>3, <2>4
<1>5. CASE W!Dies(Sweep1)
  <2>1. /\ Moves(W!Resting) /\ r # W!Resting
        /\ crossed' <=> (crossed \/ r.at = "clear")
        /\ UNCHANGED <<status, attempts, due, endpoint, strikes, lost>>
    BY <1>5 DEF W!Dies, W!Put, Moves, W!rowVars, W!endVars
  <2>2. ~crossed' => ~crossed /\ strikes <= lost
    BY <2>1 DEF HookInv, StrikesAreLosses
  <2>3. QED BY <2>1, <2>2, RestingIs, EndStep DEF HookInv, HookType, W!None
<1>6. CASE UNCHANGED W!vars
  BY <1>6 DEF W!vars, HookInv, HookType, BatchIsOpen, Open, StrikesAreLosses
<1>7. QED
  BY <1>1, <1>2, <1>3, <1>4, <1>5, <1>6, StartStep, SendStep, RecordStep
  DEF W!Next, W!Sweep

LEMMA HooksAlone == MCSpec => W!Spec
<1>1. MCInit => W!Init
  BY DEF MCInit
<1>2. [MCNext]_mcVars => [W!Next]_(W!vars)
  BY DEF MCNext, mcVars, FollowSeats, FollowEvents, FollowHooks, wVars, W!vars
<1>3. QED BY <1>1, <1>2, Steps, PTL DEF W!Spec

LEMMA HooksHold == MCSpec => []HookInv
BY HookInit, HookStep, HooksAlone, PTL DEF W!Spec

(* Whatever dies, is redelivered, switched or deleted while a sweep works  *)
(* on what it has read, a delivery that went through is not sent again and *)
(* its row stays: for any number of deliveries and of attempts.            *)
THEOREM DeliveredIsFinal == MCSpec => DeliveredStays
<1>1. ASSUME HookInv, [W!Next]_(W!vars), NEW d \in Pushers, status[d] = "delivered"
      PROVE  status'[d] \in {"delivered", "gone"}
  <2>1. d \notin sweep[Sweep1].batch
    BY <1>1 DEF HookInv, BatchIsOpen, Open
  <2>2. CASE W!Record(Sweep1)
    <3>1. sweep[Sweep1].d # d
      BY <1>1, <2>2 DEF HookInv, BatchIsOpen, Open, W!Record
    <3>2. QED BY <1>1, <2>2, <3>1, RecordIs DEF HookInv, HookType, Writes
  <2>3. ASSUME NEW c \in Pushers, W!Emit(c) \/ W!Redeliver(c)
        PROVE  status'[d] = status[d]
    BY <1>1, <2>3 DEF HookInv, HookType, W!Emit, W!Redeliver, W!Queue
  <2>4. CASE W!DeleteEndpoint
    BY <2>4 DEF W!DeleteEndpoint
  <2>5. CASE \/ W!Patch("on") \/ W!Patch("off")
             \/ \E c \in Pushers : W!Elapse(c) \/ W!Send(Sweep1, c)
             \/ W!StartSweep(Sweep1) \/ W!Clear(Sweep1) \/ W!Strike(Sweep1)
             \/ W!Disable(Sweep1) \/ W!Dies(Sweep1) \/ UNCHANGED W!vars
    BY <1>1, <2>5 DEF W!Patch, W!Elapse, W!Send, W!StartSweep, W!Clear, W!Strike, W!Disable,
      W!Dies, W!vars, W!rowVars
  <2>6. QED BY <1>1, <2>2, <2>3, <2>4, <2>5 DEF W!Next, W!Sweep
<1>2. HookInv /\ [W!Next]_(W!vars) =>
        [\A d \in Pushers :
           status[d] = "delivered" /\ ~crossed' => status'[d] \in {"delivered", "gone"}]_(W!vars)
  BY <1>1
<1>3. QED
  BY <1>2, HooksHold, HooksAlone, PTL DEF W!Spec, DeliveredStays, W!DeliveredStays

(* A sweep switches an endpoint off only after DisableAfter deliveries in  *)
(* a row were given up, whatever died on the way, unless it crossed an     *)
(* administrator or left the strikes of an earlier failure: its count of   *)
(* strikes never outgrows the losses it stands for.                        *)
THEOREM SwitchOffIsEarned == MCSpec => DisableIsEarned
<1>1. HookInv =>
        \A w \in {Sweep1} : W!Disable(w) /\ endpoint = "on" /\ ~crossed => lost >= DisableAfter
  BY HookConstants DEF HookInv, HookType, StrikesAreLosses, W!Disable
<1>2. QED
  BY <1>1, HooksHold, PTL DEF DisableIsEarned, W!DisableIsEarned
-----------------------------------------------------------------------------
(* The types of both behaviours of Billing: one with subscriptions S,      *)
(* events I, handlers K, pushers P and at most M members.                  *)

Letters(S) == [kind : {None, "checkout", "updated", "deleted"},
               sub : S \cup {None}, st : {None, "active", "canceled"}]
Jobs(I) == [ev : I \cup {0}, at : {None, "retrieve", "row", "tier"},
            st : {None, "new", "active", "canceled"}]
Calls(S, M) == [at : {None, "read", "item", "call", "record"},
                sub : S \cup {None}, item : S \cup {None}, n : 0..M]
Rows(S, M) == [sub : S \cup {None}, status : {None, "active", "canceled"},
               item : S \cup {None}, qty : 0..M \cup {Null}]

TeamTyped(S, M) ==
  /\ members \in 1..M /\ tier \in {"free", "paid"} /\ row \in Rows(S, M)
  /\ checkout \in 0..M \cup {Null} /\ disorder \in BOOLEAN
StripeTyped(S, M) == stripe \in [S -> [st : {"new", "active", "canceled"}, qty : 0..M]]
PushTyped(S, P, M) == push \in [P -> Calls(S, M)]

(* An event names a subscription that was bought; what is claimed was      *)
(* sent; a handler at work has an event, and takes no status to the row    *)
(* that a subscription has only before it is bought.                       *)
EventsTyped(S, I) ==
  /\ events \in [I -> Letters(S)]
  /\ \A e \in I : events[e].kind # None =>
       events[e].sub \in S /\ stripe[events[e].sub].st # "new"
  /\ claimed \subseteq {e \in I : events[e].kind # None}
  /\ applied \in [I -> 0..2]
TasksTyped(I, K) ==
  /\ task \in [K -> Jobs(I)]
  /\ \A w \in K :
       /\ task[w].at # None => task[w].ev \in I
       /\ task[w].at = "retrieve" => events[task[w].ev].kind # None
       /\ task[w].at \in {"row", "tier"} => task[w].st # "new"

Books(S, I, K, P, M) ==
  /\ TeamTyped(S, M) /\ StripeTyped(S, M) /\ EventsTyped(S, I)
  /\ TasksTyped(I, K) /\ PushTyped(S, P, M)

(* A handler goes on, or is done.                                          *)
LEMMA TasksGoOn ==
  ASSUME NEW I, NEW K, NEW w \in K, NEW j \in Jobs(I), TasksTyped(I, K),
         task' = [task EXCEPT ![w] = j], events' = events,
         j.at # None => j.ev \in I,
         j.at = "retrieve" => events[j.ev].kind # None,
         j.at \in {"row", "tier"} => j.st # "new"
  PROVE  TasksTyped(I, K)'
BY DEF TasksTyped

(* A step of the team or of a push, that Stripe does not notice.           *)
LEMMA BooksTeam ==
  ASSUME NEW S, NEW I, NEW K, NEW P, NEW M, Books(S, I, K, P, M),
         TeamTyped(S, M)', PushTyped(S, P, M)',
         UNCHANGED <<stripe, events, claimed, applied, task>>
  PROVE  Books(S, I, K, P, M)'
BY DEF Books, StripeTyped, EventsTyped, TasksTyped

(* Stripe tells of a subscription that was bought.                         *)
LEMMA BooksTold ==
  ASSUME NEW S, NEW I, NEW K, NEW P, NEW M, Books(S, I, K, P, M),
         NEW e \in I, NEW s \in S,
         NEW k \in {"checkout", "updated", "deleted"}, NEW st \in {"active", "canceled"},
         events' = [events EXCEPT ![e] = [kind |-> k, sub |-> s, st |-> st]],
         TeamTyped(S, M)', StripeTyped(S, M)', stripe'[s].st # "new",
         \A r \in S \ {s} : stripe'[r].st = stripe[r].st,
         UNCHANGED <<claimed, applied, task, push>>
  PROVE  Books(S, I, K, P, M)'
<1> DEFINE new == [kind |-> k, sub |-> s, st |-> st]
<1>1. new \in Letters(S) /\ new.sub = s /\ new.kind # None
  BY DEF Letters, None
<1> HIDE DEF new
<1>2. /\ events' \in [I -> Letters(S)] /\ events'[e] = new
      /\ \A d \in I \ {e} : events'[d] = events[d]
  BY <1>1 DEF Books, EventsTyped, new
<1>3. EventsTyped(S, I)'
  BY <1>1, <1>2 DEF Books, EventsTyped
<1>4. TasksTyped(I, K)'
  BY <1>1, <1>2 DEF Books, TasksTyped, None
<1>5. PushTyped(S, P, M)'
  BY DEF Books, PushTyped
<1>6. QED BY <1>3, <1>4, <1>5 DEF Books

(* What a handler does, by what it leaves to be done.                      *)
LEMMA BooksTask ==
  ASSUME NEW S, NEW I, NEW K, NEW P, NEW M, Books(S, I, K, P, M),
         TasksTyped(I, K)', TeamTyped(S, M)',
         UNCHANGED <<stripe, events, claimed, applied, push>>
  PROVE  Books(S, I, K, P, M)'
BY DEF Books, StripeTyped, EventsTyped, PushTyped

LEMMA BooksReceive ==
  ASSUME NEW S, NEW I, NEW K, NEW P, NEW M, Books(S, I, K, P, M),
         NEW w \in K, NEW e \in I, events[e].kind # None,
         claimed' = claimed \cup {e},
         task' = [task EXCEPT ![w] =
           [ev |-> e, at |-> IF events[e].kind = "checkout" THEN "retrieve" ELSE "row",
            st |-> events[e].st]],
         applied' = [applied EXCEPT ![e] = IF @ < 2 THEN @ + 1 ELSE 2],
         disorder' \in BOOLEAN,
         UNCHANGED <<members, tier, row, push, stripe, checkout, events>>
  PROVE  Books(S, I, K, P, M)'
<1> DEFINE j == [ev |-> e, at |-> IF events[e].kind = "checkout" THEN "retrieve" ELSE "row",
                 st |-> events[e].st]
<1>1. events[e] \in Letters(S)
  BY DEF Books, EventsTyped
<1>2. j \in Jobs(I) /\ j.ev = e /\ j.st # "new"
  BY <1>1 DEF Jobs, Letters, None
<1>3. TasksTyped(I, K)'
  <2>1. task' = [task EXCEPT ![w] = j]
    OBVIOUS
  <2> HIDE DEF j
  <2>2. QED BY <1>2, <2>1, TasksGoOn DEF Books
<1>4. StripeTyped(S, M)' /\ EventsTyped(S, I)'
  BY DEF Books, StripeTyped, EventsTyped
<1>5. TeamTyped(S, M)' /\ PushTyped(S, P, M)'
  BY DEF Books, TeamTyped, PushTyped
<1>6. QED BY <1>3, <1>4, <1>5 DEF Books

LEMMA BooksRetrieve ==
  ASSUME NEW S, NEW I, NEW K, NEW P, NEW M, Books(S, I, K, P, M),
         NEW w \in K, task[w].at = "retrieve",
         task' = [task EXCEPT ![w].at = "row",
                              ![w].st = stripe[events[task[w].ev].sub].st],
         UNCHANGED <<members, tier, row, push, stripe, checkout, events, claimed, applied,
                     disorder>>
  PROVE  Books(S, I, K, P, M)'
<1> DEFINE e == task[w].ev
           After(x, st) == [x EXCEPT !.at = "row", !.st = st]
           j == After(task[w], stripe[events[e].sub].st)
<1>1. task' = [task EXCEPT ![w] = j]
  BY DEF Books, TasksTyped
<1>2. /\ task[w] \in Jobs(I) /\ e \in I
      /\ stripe[events[e].sub].st \in {"active", "canceled"}
  BY DEF Books, TasksTyped, EventsTyped, StripeTyped, None
<1>3. ASSUME NEW x \in Jobs(I), NEW st \in {"active", "canceled"}
      PROVE  /\ After(x, st) \in Jobs(I) /\ After(x, st).ev = x.ev
             /\ After(x, st).at = "row" /\ After(x, st).st = st
  BY DEF Jobs
<1> HIDE DEF After
<1>4. j \in Jobs(I) /\ j.ev = e /\ j.at = "row" /\ j.st # "new"
  BY <1>2, <1>3
<1> HIDE DEF j
<1>5. TasksTyped(I, K)'
  BY <1>1, <1>2, <1>4, TasksGoOn DEF Books
<1>6. TeamTyped(S, M)'
  BY DEF Books, TeamTyped
<1>7. QED BY <1>5, <1>6, BooksTask

LEMMA BooksUpsert ==
  ASSUME NEW S, NEW I, NEW K, NEW P, NEW M, Books(S, I, K, P, M),
         NEW w \in K, task[w].at = "row", task' = [task EXCEPT ![w].at = "tier"],
         row' = [row EXCEPT !.sub = events[task[w].ev].sub, !.status = task[w].st],
         UNCHANGED <<members, tier, push, stripe, checkout, events, claimed, applied,
                     disorder>>
  PROVE  Books(S, I, K, P, M)'
<1> DEFINE e == task[w].ev
           After(x) == [x EXCEPT !.at = "tier"]
           j == After(task[w])
<1>1. task' = [task EXCEPT ![w] = j]
  BY DEF Books, TasksTyped
<1>2. /\ task[w] \in Jobs(I) /\ e \in I /\ task[w].st # "new"
      /\ events[e].sub \in S \cup {None}
  BY DEF Books, TasksTyped, EventsTyped, Letters, None
<1>3. ASSUME NEW x \in Jobs(I)
      PROVE  /\ After(x) \in Jobs(I) /\ After(x).ev = x.ev
             /\ After(x).at = "tier" /\ After(x).st = x.st
  BY DEF Jobs
<1> HIDE DEF After
<1>4. j \in Jobs(I) /\ j.ev = e /\ j.at = "tier" /\ j.st # "new"
  BY <1>2, <1>3
<1> HIDE DEF j
<1>5. TasksTyped(I, K)'
  BY <1>1, <1>2, <1>4, TasksGoOn DEF Books
<1>6. task[w].st \in {None, "active", "canceled"}
  BY <1>2 DEF Jobs
<1>7. TeamTyped(S, M)'
  BY <1>2, <1>6 DEF Books, TeamTyped, Rows
<1>8. QED BY <1>5, <1>7, BooksTask

LEMMA BooksDone ==
  ASSUME NEW S, NEW I, NEW K, NEW P, NEW M, Books(S, I, K, P, M), NEW w \in K,
         task' = [task EXCEPT ![w] = NoTask],
         tier' \in {"free", "paid"}, disorder' \in BOOLEAN,
         row' = row \/ row' = [row EXCEPT !.status = "canceled"],
         UNCHANGED <<members, push, stripe, checkout, events, claimed, applied>>
  PROVE  Books(S, I, K, P, M)'
<1>1. NoTask \in Jobs(I) /\ NoTask.at = None
  BY DEF NoTask, Jobs
<1>2. TasksTyped(I, K)'
  BY <1>1, TasksGoOn DEF Books, None
<1>3. TeamTyped(S, M)'
  BY DEF Books, TeamTyped, Rows
<1>4. QED BY <1>2, <1>3, BooksTask

(* What is billed is a number of members.                                  *)
LEMMA BillableIs ==
  ASSUME NEW M \in Nat, members \in 1..M
  PROVE  Billable(members) \in 0..M
BY BillingAssumption DEF Billable

SeatBooks == Books(Subs, EventIds, Handlers, Pushers, MaxMembers)

LEMMA SeatBooksInit == Init => SeatBooks
<1> SUFFICES ASSUME Init
             PROVE  SeatBooks
  OBVIOUS
<1>1. MaxMembers \in Nat \ {0}
  BY BillingAssumption
<1>2. TeamTyped(Subs, MaxMembers)
  <2>1. disorder \in BOOLEAN /\ tier \in {"free", "paid"}
    BY DEF Init
  <2>2. members \in 1..MaxMembers /\ checkout \in 0..MaxMembers \cup {Null}
    BY <1>1 DEF Init
  <2>3. [sub |-> None, status |-> None, item |-> None, qty |-> Null] \in Rows(Subs, MaxMembers)
    BY DEF Rows
  <2>4. QED BY <2>1, <2>2, <2>3 DEF TeamTyped, Init
<1>3. StripeTyped(Subs, MaxMembers)
  BY <1>1 DEF StripeTyped, Init
<1>4. EventsTyped(Subs, EventIds)
  BY <1>1 DEF EventsTyped, Letters, Init, None
<1>5. TasksTyped(EventIds, Handlers)
  BY <1>1 DEF TasksTyped, Jobs, Init, NoTask, None
<1>6. PushTyped(Subs, Pushers, MaxMembers)
  BY <1>1 DEF PushTyped, Calls, Init, NoPush, None
<1>7. QED BY <1>2, <1>3, <1>4, <1>5, <1>6 DEF SeatBooks, Books

LEMMA SeatBooksStep == SeatBooks /\ [Next]_(vars) => SeatBooks'
<1> SUFFICES ASSUME Books(Subs, EventIds, Handlers, Pushers, MaxMembers), [Next]_(vars)
             PROVE  Books(Subs, EventIds, Handlers, Pushers, MaxMembers)'
  BY DEF SeatBooks
<1>t. /\ TeamTyped(Subs, MaxMembers) /\ StripeTyped(Subs, MaxMembers)
      /\ EventsTyped(Subs, EventIds) /\ TasksTyped(EventIds, Handlers) /\ PushTyped(Subs, Pushers, MaxMembers)
      /\ MaxMembers \in Nat /\ Billable(members) \in 0..MaxMembers
  BY BillingAssumption, BillableIs DEF Books, TeamTyped
<1>k. /\ UNCHANGED <<members, tier, row, checkout, disorder>> => TeamTyped(Subs, MaxMembers)'
      /\ UNCHANGED push => PushTyped(Subs, Pushers, MaxMembers)'
  BY <1>t DEF TeamTyped, PushTyped
<1>1. CASE OpenCheckout
  <2>1. TeamTyped(Subs, MaxMembers)'
    BY <1>1, <1>t DEF OpenCheckout, billVars, hookVars, TeamTyped
  <2>2. QED BY <1>1, <1>k, <2>1, BooksTeam DEF OpenCheckout, billVars, hookVars
<1>2. CASE MembersChange
  <2>1. TeamTyped(Subs, MaxMembers)'
    BY <1>2, <1>t DEF MembersChange, stripeVars, hookVars, TeamTyped
  <2>2. PushTyped(Subs, Pushers, MaxMembers)'
    BY <1>2, <1>t DEF MembersChange, Start, PushTyped, Calls
  <2>3. QED BY <1>2, <2>1, <2>2, BooksTeam DEF MembersChange, stripeVars, hookVars
<1>3. ASSUME NEW s \in Subs, CompleteCheckout(s) \/ RenewSub(s) \/ CancelSub(s)
      PROVE  Books(Subs, EventIds, Handlers, Pushers, MaxMembers)'
  <2>1. TeamTyped(Subs, MaxMembers)'
    BY <1>3, <1>t
    DEF CompleteCheckout, RenewSub, CancelSub, Active, billVars, hookVars, stripeVars,
        TeamTyped
  <2>2. /\ StripeTyped(Subs, MaxMembers)' /\ stripe'[s].st # "new"
        /\ \A r \in Subs \ {s} : stripe'[r].st = stripe[r].st
    <3>1. CASE CompleteCheckout(s)
      BY <1>t, <3>1 DEF CompleteCheckout, StripeTyped, TeamTyped, Null
    <3>2. CASE RenewSub(s)
      BY <1>t, <3>2 DEF RenewSub, Active, StripeTyped
    <3>3. CASE CancelSub(s)
      BY <1>t, <3>3 DEF CancelSub, Active, StripeTyped
    <3>4. QED BY <1>3, <3>1, <3>2, <3>3
  <2>3. PICK e \in EventIds, k \in {"checkout", "updated", "deleted"},
             st \in {"active", "canceled"} :
          events' = [events EXCEPT ![e] = [kind |-> k, sub |-> s, st |-> st]]
    BY <1>3 DEF CompleteCheckout, RenewSub, CancelSub, Emit
  <2>4. UNCHANGED <<claimed, applied, task, push>>
    BY <1>3 DEF CompleteCheckout, RenewSub, CancelSub, billVars, hookVars
  <2>5. QED BY <2>1, <2>2, <2>3, <2>4, BooksTold
<1>4. ASSUME NEW w \in Handlers, NEW e \in EventIds, Receive(w, e)
      PROVE  Books(Subs, EventIds, Handlers, Pushers, MaxMembers)'
  <2>1. disorder' \in BOOLEAN
    BY <1>4, <1>t DEF Receive, TeamTyped
  <2>2. events[e].kind # None
    BY <1>4 DEF Receive, Sent
  <2>3. QED
    BY <1>4, <2>1, <2>2, BooksReceive DEF Receive, Claim, billVars, stripeVars
<1>5. ASSUME NEW w \in Handlers, Retrieve(w)
      PROVE  Books(Subs, EventIds, Handlers, Pushers, MaxMembers)'
  BY <1>5, BooksRetrieve DEF Retrieve, billVars, stripeVars
<1>6. ASSUME NEW w \in Handlers, Upsert(w)
      PROVE  Books(Subs, EventIds, Handlers, Pushers, MaxMembers)'
  BY <1>6, BooksUpsert DEF Upsert, stripeVars
<1>7. ASSUME NEW w \in Handlers, SetTier(w) \/ EndSubscription(w) \/ HookFails(w)
      PROVE  Books(Subs, EventIds, Handlers, Pushers, MaxMembers)'
  <2>1. /\ task' = [task EXCEPT ![w] = NoTask]
        /\ row' = row \/ row' = [row EXCEPT !.status = "canceled"]
        /\ UNCHANGED <<members, push, stripe, checkout, events, claimed, applied>>
    BY <1>7 DEF SetTier, EndSubscription, EndPlan, HookFails, billVars, stripeVars
  <2>2. disorder' \in BOOLEAN /\ tier' \in {"free", "paid"}
    BY <1>7, <1>t DEF SetTier, EndSubscription, EndPlan, HookFails, billVars, TeamTyped
  <2>3. QED BY <2>1, <2>2, BooksDone
<1>8. ASSUME NEW p \in Pushers, Reconcile(p)
      PROVE  Books(Subs, EventIds, Handlers, Pushers, MaxMembers)'
  <2>1. PushTyped(Subs, Pushers, MaxMembers)'
    BY <1>8, <1>t DEF Reconcile, Start, PushTyped, Calls
  <2>2. QED BY <1>8, <1>k, <2>1, BooksTeam DEF Reconcile, stripeVars, hookVars
<1>9. ASSUME NEW p \in Pushers, ReadSeats(p) \/ PushFails(p)
      PROVE  Books(Subs, EventIds, Handlers, Pushers, MaxMembers)'
  <2>1. NoPush \in Calls(Subs, MaxMembers)
    BY <1>t DEF NoPush, Calls
  <2>2. row.sub \in Subs \cup {None}
    BY <1>t DEF TeamTyped, Rows
  <2>3. PushTyped(Subs, Pushers, MaxMembers)'
    BY <1>9, <1>t, <2>1, <2>2 DEF ReadSeats, PushFails, PushTyped, Calls
  <2>4. QED BY <1>9, <1>k, <2>3, BooksTeam DEF ReadSeats, PushFails, stripeVars, hookVars
<1>10. ASSUME NEW p \in Pushers, FindItem(p)
       PROVE  Books(Subs, EventIds, Handlers, Pushers, MaxMembers)'
  <2> DEFINE item == IF row.item = None THEN push[p].sub ELSE row.item
  <2>1. /\ row' = [row EXCEPT !.item = item]
        /\ push' = [push EXCEPT ![p].at = "call", ![p].item = item]
        /\ UNCHANGED <<members, tier, stripe, checkout, events, claimed, applied, task,
                       disorder>>
    BY <1>10 DEF FindItem, stripeVars, hookVars
  <2>2. item \in Subs \cup {None}
    BY <1>t DEF TeamTyped, PushTyped, Rows, Calls
  <2> HIDE DEF item
  <2>3. PushTyped(Subs, Pushers, MaxMembers)'
    BY <1>t, <2>1, <2>2 DEF PushTyped, Calls
  <2>4. TeamTyped(Subs, MaxMembers)'
    BY <1>t, <2>1, <2>2 DEF TeamTyped, Rows
  <2>5. QED BY <2>1, <2>3, <2>4, BooksTeam
<1>11. ASSUME NEW p \in Pushers, CallStripe(p)
       PROVE  Books(Subs, EventIds, Handlers, Pushers, MaxMembers)'
  <2>1. push[p].item \in Subs /\ push[p].n \in 0..MaxMembers
    BY <1>11, <1>t DEF CallStripe, Active, PushTyped, Calls
  <2>2. /\ stripe' = [stripe EXCEPT ![push[p].item].qty = push[p].n]
        /\ push' = [push EXCEPT ![p].at = "record"]
        /\ UNCHANGED <<members, tier, row, checkout, events, claimed, applied, task, disorder>>
    BY <1>11 DEF CallStripe, hookVars
  <2>3. PushTyped(Subs, Pushers, MaxMembers)'
    BY <1>t, <2>2 DEF PushTyped, Calls
  <2>4. StripeTyped(Subs, MaxMembers)' /\ \A s \in Subs : stripe'[s].st = stripe[s].st
    BY <1>t, <2>1, <2>2 DEF StripeTyped
  <2>5. EventsTyped(Subs, EventIds)' /\ TasksTyped(EventIds, Handlers)'
    BY <1>t, <2>2, <2>4 DEF EventsTyped, TasksTyped
  <2>6. QED BY <1>k, <2>2, <2>3, <2>4, <2>5 DEF Books
<1>12. ASSUME NEW p \in Pushers, Record(p)
       PROVE  Books(Subs, EventIds, Handlers, Pushers, MaxMembers)'
  <2>1. /\ push[p].item \in Subs \cup {None} /\ push[p].n \in 0..MaxMembers
        /\ NoPush \in Calls(Subs, MaxMembers)
    BY <1>t DEF NoPush, PushTyped, Calls
  <2>2. PushTyped(Subs, Pushers, MaxMembers)'
    BY <1>12, <1>t, <2>1 DEF Record, PushTyped
  <2>3. TeamTyped(Subs, MaxMembers)'
    BY <1>12, <1>t, <2>1 DEF Record, TeamTyped, Rows, stripeVars, hookVars
  <2>4. QED BY <1>12, <2>2, <2>3, BooksTeam DEF Record, stripeVars, hookVars
<1>13. CASE UNCHANGED vars
  BY <1>13, <1>k, BooksTeam DEF vars
<1>14. QED
  BY <1>1, <1>2, <1>3, <1>4, <1>5, <1>6, <1>7, <1>8, <1>9, <1>10, <1>11, <1>12, <1>13
  DEF Next, PushGoesOn

EventBooks == Books(EvSubs, EvIds, EvHandlers, {}, 1)

LEMMA EventBooksInit == Ev!Init => EventBooks
<1> SUFFICES ASSUME Ev!Init
             PROVE  EventBooks
  OBVIOUS
<1>e. Ev!EventIds = EvIds /\ Ev!None = None /\ Ev!Null = Null /\ Ev!NoTask = NoTask
  BY DEF Ev!EventIds, EvIds, Ev!None, None, Ev!Null, Null, Ev!NoTask, NoTask
<1>1. 1 \in Nat \ {0}
  BY BillingAssumption
<1>2. TeamTyped(EvSubs, 1)
  <2>1. disorder \in BOOLEAN /\ tier \in {"free", "paid"}
    BY DEF Ev!Init
  <2>2. members \in 1..1 /\ checkout \in 0..1 \cup {Null}
    BY <1>e, <1>1 DEF Ev!Init
  <2>3. [sub |-> None, status |-> None, item |-> None, qty |-> Null] \in Rows(EvSubs, 1)
    BY DEF Rows
  <2>4. QED BY <1>e, <2>1, <2>2, <2>3 DEF TeamTyped, Ev!Init
<1>3. StripeTyped(EvSubs, 1)
  BY <1>1 DEF StripeTyped, Ev!Init
<1>4. EventsTyped(EvSubs, EvIds)
  BY <1>e, <1>1 DEF EventsTyped, Letters, Ev!Init, None
<1>5. TasksTyped(EvIds, EvHandlers)
  BY <1>e, <1>1 DEF TasksTyped, Jobs, Ev!Init, NoTask, None
<1>6. PushTyped(EvSubs, {}, 1)
  BY DEF PushTyped, Ev!Init
<1>7. QED BY <1>2, <1>3, <1>4, <1>5, <1>6 DEF EventBooks, Books

LEMMA EventBooksStep == EventBooks /\ [Ev!Next]_(Ev!vars) => EventBooks'
<1> SUFFICES ASSUME Books(EvSubs, EvIds, EvHandlers, {}, 1), [Ev!Next]_(Ev!vars)
             PROVE  Books(EvSubs, EvIds, EvHandlers, {}, 1)'
  BY DEF EventBooks
<1>e. Ev!EventIds = EvIds /\ Ev!None = None /\ Ev!Null = Null /\ Ev!NoTask = NoTask
      /\ \A n : Ev!Billable(n) = Billable(n)
  BY DEF Ev!EventIds, EvIds, Ev!None, None, Ev!Null, Null, Ev!NoTask, NoTask,
    Ev!Billable, Billable
<1>t. /\ TeamTyped(EvSubs, 1) /\ StripeTyped(EvSubs, 1)
      /\ EventsTyped(EvSubs, EvIds) /\ TasksTyped(EvIds, EvHandlers) /\ PushTyped(EvSubs, {}, 1)
      /\ 1 \in Nat /\ Billable(members) \in 0..1
  BY BillingAssumption, BillableIs DEF Books, TeamTyped
<1>k. /\ UNCHANGED <<members, tier, row, checkout, disorder>> => TeamTyped(EvSubs, 1)'
      /\ UNCHANGED push => PushTyped(EvSubs, {}, 1)'
  BY <1>t DEF TeamTyped, PushTyped
<1>1. CASE Ev!OpenCheckout
  <2>1. TeamTyped(EvSubs, 1)'
    BY <1>1, <1>e, <1>t DEF Ev!OpenCheckout, Ev!billVars, Ev!hookVars, TeamTyped
  <2>2. QED BY <1>1, <1>k, <2>1, BooksTeam DEF Ev!OpenCheckout, Ev!billVars, Ev!hookVars
<1>2. CASE Ev!MembersChange
  <2>1. TeamTyped(EvSubs, 1)'
    BY <1>2, <1>t DEF Ev!MembersChange, Ev!stripeVars, Ev!hookVars, TeamTyped
  <2>2. PushTyped(EvSubs, {}, 1)'
    BY <1>2, <1>t DEF Ev!MembersChange, Ev!Start, PushTyped, Calls
  <2>3. QED BY <1>2, <2>1, <2>2, BooksTeam DEF Ev!MembersChange, Ev!stripeVars, Ev!hookVars
<1>3. ASSUME NEW s \in EvSubs, Ev!CompleteCheckout(s) \/ Ev!RenewSub(s) \/ Ev!CancelSub(s)
      PROVE  Books(EvSubs, EvIds, EvHandlers, {}, 1)'
  <2>1. TeamTyped(EvSubs, 1)'
    BY <1>3, <1>e, <1>t
    DEF Ev!CompleteCheckout, Ev!RenewSub, Ev!CancelSub, Ev!Active, Ev!billVars,
        Ev!hookVars, Ev!stripeVars, TeamTyped
  <2>2. /\ StripeTyped(EvSubs, 1)' /\ stripe'[s].st # "new"
        /\ \A r \in EvSubs \ {s} : stripe'[r].st = stripe[r].st
    <3>1. CASE Ev!CompleteCheckout(s)
      BY <1>e, <1>t, <3>1 DEF Ev!CompleteCheckout, StripeTyped, TeamTyped, Null
    <3>2. CASE Ev!RenewSub(s)
      BY <1>t, <3>2 DEF Ev!RenewSub, Ev!Active, StripeTyped
    <3>3. CASE Ev!CancelSub(s)
      BY <1>t, <3>3 DEF Ev!CancelSub, Ev!Active, StripeTyped
    <3>4. QED BY <1>3, <3>1, <3>2, <3>3
  <2>3. PICK e \in EvIds, k \in {"checkout", "updated", "deleted"},
             st \in {"active", "canceled"} :
          events' = [events EXCEPT ![e] = [kind |-> k, sub |-> s, st |-> st]]
    BY <1>e, <1>3 DEF Ev!CompleteCheckout, Ev!RenewSub, Ev!CancelSub, Ev!Emit
  <2>4. UNCHANGED <<claimed, applied, task, push>>
    BY <1>3 DEF Ev!CompleteCheckout, Ev!RenewSub, Ev!CancelSub, Ev!billVars, Ev!hookVars
  <2>5. QED BY <2>1, <2>2, <2>3, <2>4, BooksTold
<1>4. ASSUME NEW w \in EvHandlers, NEW e \in EvIds, Ev!Receive(w, e)
      PROVE  Books(EvSubs, EvIds, EvHandlers, {}, 1)'
  <2>1. disorder' \in BOOLEAN
    BY <1>4, <1>t DEF Ev!Receive, TeamTyped
  <2>2. events[e].kind # None
    BY <1>e, <1>4 DEF Ev!Receive, Ev!Sent
  <2>3. QED
    BY <1>4, <2>1, <2>2, BooksReceive DEF Ev!Receive, Ev!Claim, Ev!billVars, Ev!stripeVars
<1>5. ASSUME NEW w \in EvHandlers, Ev!Retrieve(w)
      PROVE  Books(EvSubs, EvIds, EvHandlers, {}, 1)'
  BY <1>5, BooksRetrieve DEF Ev!Retrieve, Ev!billVars, Ev!stripeVars
<1>6. ASSUME NEW w \in EvHandlers, Ev!Upsert(w)
      PROVE  Books(EvSubs, EvIds, EvHandlers, {}, 1)'
  BY <1>6, BooksUpsert DEF Ev!Upsert, Ev!stripeVars
<1>7. ASSUME NEW w \in EvHandlers, Ev!SetTier(w) \/ Ev!EndSubscription(w) \/ Ev!HookFails(w)
      PROVE  Books(EvSubs, EvIds, EvHandlers, {}, 1)'
  <2>1. /\ task' = [task EXCEPT ![w] = NoTask]
        /\ row' = row \/ row' = [row EXCEPT !.status = "canceled"]
        /\ UNCHANGED <<members, push, stripe, checkout, events, claimed, applied>>
    BY <1>e, <1>7
    DEF Ev!SetTier, Ev!EndSubscription, Ev!EndPlan, Ev!HookFails, Ev!billVars,
        Ev!stripeVars
  <2>2. disorder' \in BOOLEAN /\ tier' \in {"free", "paid"}
    BY <1>7, <1>t
    DEF Ev!SetTier, Ev!EndSubscription, Ev!EndPlan, Ev!HookFails, Ev!billVars,
        TeamTyped
  <2>3. QED BY <2>1, <2>2, BooksDone
<1>8. CASE UNCHANGED Ev!vars
  BY <1>8, <1>k, BooksTeam DEF Ev!vars
<1>9. QED
  BY <1>e, <1>1, <1>2, <1>3, <1>4, <1>5, <1>6, <1>7, <1>8 DEF Ev!Next

CrossedType == crossed \in BOOLEAN

LEMMA CrossedTyped == MCSpec => []CrossedType
<1>1. W!Init => CrossedType
  BY DEF W!Init, CrossedType
<1>2. CrossedType /\ [W!Next]_(W!vars) => CrossedType'
  <2> SUFFICES ASSUME CrossedType, [W!Next]_(W!vars)
               PROVE  crossed' \in BOOLEAN
    BY DEF CrossedType
  <2>1. CASE UNCHANGED crossed
    BY <2>1 DEF CrossedType
  <2>2. CASE W!Meets
    BY <2>2 DEF W!Meets
  <2>3. CASE crossed' = (crossed \/ sweep[Sweep1].at = "clear")
    BY <2>3
  <2>4. CASE crossed' = (crossed \/ \E v \in {Sweep1} : sweep[v] # W!Resting)
    BY <2>4
  <2>5. QED
    BY <2>1, <2>2, <2>3, <2>4 DEF W!Next, W!Sweep, W!Emit, W!Redeliver, W!Queue,
      W!DeleteEndpoint, W!Patch, W!Elapse, W!StartSweep, W!Send, W!Record, W!Clear, W!Strike,
      W!Disable, W!Dies, W!vars
<1>3. QED BY <1>1, <1>2, HooksAlone, PTL DEF W!Spec

OneFollowed == focus \in {"seats", "events", "hooks"}

(* At every step of both behaviours of Billing and of the webhooks: no     *)
(* quantity is billed that was never a number of members, no status on the *)
(* row but what Stripe gave to a subscription that was bought, nothing     *)
(* claimed that was not sent, no delivery beyond its attempts and no       *)
(* strike beyond the limit.                                                *)
THEOREM QueuesAreTyped == MCSpec => []TypesOK
<1> DEFINE Inv == IF focus = "events" THEN EventBooks ELSE SeatBooks
<1>1. MCInit => Inv
  BY SeatBooksInit, EventBooksInit DEF MCInit
<1>2. Inv /\ [MCNext]_mcVars => Inv'
  <2> SUFFICES ASSUME Inv, [MCNext]_mcVars
               PROVE  Inv'
    OBVIOUS
  <2>1. focus' = focus
    BY DEF MCNext, mcVars
  <2>2. CASE focus = "events"
    <3>1. [Ev!Next]_(Ev!vars)
      BY <2>2 DEF MCNext, mcVars, FollowSeats, FollowEvents, FollowHooks, vars, Ev!vars
    <3>2. QED BY <2>1, <2>2, <3>1, EventBooksStep
  <2>3. CASE focus # "events"
    <3>1. [Next]_vars
      BY <2>3 DEF MCNext, mcVars, FollowSeats, FollowEvents, FollowHooks
    <3>2. QED BY <2>1, <2>3, <3>1, SeatBooksStep
  <2>4. QED BY <2>2, <2>3
<1>3. Inv /\ focus = "seats" => TypeOK
  <2> SUFFICES ASSUME Books(Subs, EventIds, Handlers, Pushers, MaxMembers)
               PROVE  TypeOK
    BY DEF SeatBooks
  <2>1. \A p \in Pushers :
          /\ push[p].at \in {None, "read", "item", "call", "record"}
          /\ push[p].n \in Quantities
    BY DEF Books, PushTyped, Calls, Quantities
  <2>2. /\ tier \in {"free", "paid"} /\ members \in 1..MaxMembers
        /\ checkout \in Quantities \cup {Null} /\ disorder \in BOOLEAN
    BY DEF Books, TeamTyped, Quantities
  <2>3. /\ row \in Rows(Subs, MaxMembers)
        /\ stripe \in [Subs -> [st : {"new", "active", "canceled"}, qty : 0..MaxMembers]]
        /\ claimed \subseteq Sent /\ applied \in [EventIds -> 0..2]
    BY DEF Books, TeamTyped, StripeTyped, EventsTyped, Sent
  <2>4. QED BY <2>1, <2>2, <2>3 DEF TypeOK, Rows, Quantities
<1>4. Inv /\ focus = "events" => Ev!TypeOK
  <2> SUFFICES ASSUME Books(EvSubs, EvIds, EvHandlers, {}, 1)
               PROVE  Ev!TypeOK
    BY DEF EventBooks
  <2>e. Ev!EventIds = EvIds /\ Ev!None = None /\ Ev!Null = Null /\ Ev!Quantities = 0..1
    BY DEF Ev!EventIds, EvIds, Ev!None, None, Ev!Null, Null, Ev!Quantities
  <2>1. /\ tier \in {"free", "paid"} /\ members \in 1..1
        /\ checkout \in 0..1 \cup {Null} /\ disorder \in BOOLEAN
    BY DEF Books, TeamTyped
  <2>2. /\ row \in Rows(EvSubs, 1)
        /\ stripe \in [EvSubs -> [st : {"new", "active", "canceled"}, qty : 0..1]]
        /\ claimed \subseteq Ev!Sent /\ applied \in [EvIds -> 0..2]
    BY <2>e DEF Books, TeamTyped, StripeTyped, EventsTyped, Ev!Sent
  <2>3. QED BY <2>e, <2>1, <2>2 DEF Ev!TypeOK, Rows
<1>5. HookInv /\ CrossedType => W!TypeOK
  <2> SUFFICES ASSUME HookType, crossed \in BOOLEAN
               PROVE  W!TypeOK
    BY DEF HookInv, CrossedType
  <2>1. MaxAttempts \in Nat /\ DisableAfter \in Nat
    BY HookConstants
  <2>2. sweep[Sweep1] \in Batches
    BY DEF HookType
  <2>3. /\ sweep[Sweep1].at \in {W!None, "send", "record", "clear", "strike", "disable"}
        /\ sweep[Sweep1].batch \subseteq Pushers
        /\ sweep[Sweep1].read \in [Pushers -> 0..MaxAttempts]
    BY <2>1, <2>2 DEF Batches
  <2>4. QED BY <2>3 DEF HookType, Status, W!TypeOK
<1>6. Inv /\ HookInv /\ CrossedType /\ OneFollowed => TypesOK
  BY <1>3, <1>4, <1>5 DEF TypesOK, OneFollowed
<1>7. MCInit => OneFollowed
  BY DEF MCInit, OneFollowed
<1>8. OneFollowed /\ [MCNext]_mcVars => OneFollowed'
  BY DEF MCNext, mcVars, OneFollowed
<1> HIDE DEF Inv
<1>9. QED
  BY <1>1, <1>2, <1>6, <1>7, <1>8, HooksHold, CrossedTyped, Steps, PTL
=============================================================================
