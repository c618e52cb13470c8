--------------------------- MODULE WebhookDelivery ---------------------------
(***************************************************************************)
(* The outgoing webhooks of one endpoint:                                  *)
(*   src/lib/webhooks.ts                 emitWebhook queues a delivery     *)
(*   src/scheduler/webhookDelivery.ts    the sweep that sends them         *)
(*   src/routes/outgoingWebhooks.ts      what a team admin does to both    *)
(*                                                                         *)
(* The receiver is external: it answers, or it does not, whether or not it *)
(* has taken the request.  A sweep can die at any step, and a second one   *)
(* runs beside it when the session that holds the lock is lost.            *)
(***************************************************************************)
EXTENDS Naturals, FiniteSets

CONSTANTS
  Deliveries,    \* ids of rows of webhook_deliveries
  Sweeps,        \* sweeps that may run at once
  MaxAttempts,   \* MAX_ATTEMPTS
  DisableAfter   \* DISABLE_AFTER_FAILURES

DeliveryAssumption ==
  /\ IsFiniteSet(Deliveries) /\ IsFiniteSet(Sweeps)
  /\ MaxAttempts \in Nat \ {0} /\ DisableAfter \in Nat \ {0}

VARIABLES
  status,     \* deliveries: "new", "pending", "delivered", "failed", "gone"
  attempts,   \* deliveries: webhook_deliveries.attempts
  due,        \* deliveries whose next_attempt_at has come
  endpoint,   \* webhook_endpoints: "on", "off" or "gone"
  strikes,    \* webhook_endpoints.consecutive_failures
  sweep,      \* per sweep: its statement, the rest of its batch, what it read
  lost,       \* history: deliveries given up since the last one that went
              \* through, or since the endpoint was switched on
  crossed     \* history: two sweeps, or a sweep and an admin, have met, or
              \* a sweep died between its two statements about a success

rowVars == <<status, attempts, due>>
endVars == <<endpoint, strikes>>
vars == <<status, attempts, due, endpoint, strikes, sweep, lost, crossed>>

None == "none"
Resting == [at |-> None, batch |-> {}, d |-> None, ok |-> FALSE,
            read |-> [d \in Deliveries |-> 0]]

Init ==
  /\ status = [d \in Deliveries |-> "new"]
  /\ attempts = [d \in Deliveries |-> 0]
  /\ due = {}
  /\ endpoint = "on" /\ strikes = 0
  /\ sweep = [w \in Sweeps |-> Resting]
  /\ lost = 0 /\ crossed = FALSE

-----------------------------------------------------------------------------
(* Faulty variants of definitions below, each a slip the code could have.  *)

(* The sweep looks at the time of the next attempt alone.                  *)
DueByTime == {d \in due : status[d] # "gone"}

(* ... or takes deliveries that were never tried.                          *)
DueUntried == {d \in due : status[d] = "pending" /\ attempts[d] = 0}

(* A delivery is given up one attempt too late.                            *)
ExhaustedLate(n) == n > MaxAttempts

(* A success does not forget the earlier failures.                         *)
KeepStrikes == UNCHANGED strikes

-----------------------------------------------------------------------------
Queue(d) ==
  /\ status' = [status EXCEPT ![d] = "pending"]
  /\ attempts' = [attempts EXCEPT ![d] = 0]
  /\ due' = due \cup {d}

(* emitWebhook, for an endpoint that is switched on; the test delivery of  *)
(* an admin is queued for any.                                             *)
Emit(d) ==
  /\ status[d] = "new" /\ endpoint # "gone"
  /\ Queue(d)
  /\ UNCHANGED <<endVars, sweep, lost, crossed>>

(* next_attempt_at comes.                                                  *)
Elapse(d) ==
  /\ status[d] = "pending" /\ d \notin due
  /\ due' = due \cup {d}
  /\ UNCHANGED <<status, attempts, endVars, sweep, lost, crossed>>

-----------------------------------------------------------------------------
(* The sweep.                                                              *)

Due == {d \in due : status[d] = "pending"}

Put(w, r) == sweep' = [sweep EXCEPT ![w] = r]
NextInBatch(w) ==
  Put(w, IF sweep[w].batch = {} THEN Resting
         ELSE [sweep[w] EXCEPT !.at = "send", !.d = None, !.ok = FALSE])

StartSweep(w) ==
  /\ sweep[w] = Resting /\ endpoint = "on" /\ Due # {}
  /\ Put(w, [Resting EXCEPT !.at = "send", !.batch = Due,
       !.read = [d \in Deliveries |-> IF d \in Due THEN attempts[d] ELSE 0]])
  /\ crossed' = (crossed \/ \E v \in Sweeps : sweep[v] # Resting)
  /\ UNCHANGED <<rowVars, endVars, lost>>

(* A 2xx within the time is a success, whatever else a failure.            *)
Send(w, d) ==
  /\ sweep[w].at = "send" /\ d \in sweep[w].batch
  /\ \E ok \in BOOLEAN :
       Put(w, [sweep[w] EXCEPT !.at = "record", !.d = d, !.ok = ok,
                               !.batch = @ \ {d}])
  /\ UNCHANGED <<rowVars, endVars, lost, crossed>>

Exhausted(n) == n >= MaxAttempts

(* The attempts are those of the batch, plus one; the row is written       *)
(* whatever it has become since, unless it is gone.                        *)
Record(w) ==
  LET d == sweep[w].d
      n == sweep[w].read[d] + 1
      new == IF sweep[w].ok THEN "delivered"
             ELSE IF Exhausted(n) THEN "failed" ELSE "pending"
  IN  /\ sweep[w].at = "record"
      /\ IF status[d] = "gone" THEN UNCHANGED rowVars
         ELSE /\ status' = [status EXCEPT ![d] = new]
              /\ attempts' = [attempts EXCEPT ![d] = n]
              /\ due' = IF new = "pending" THEN due \ {d} ELSE due
      /\ CASE sweep[w].ok      -> Put(w, [sweep[w] EXCEPT !.at = "clear"])
           [] new = "failed"   -> Put(w, [sweep[w] EXCEPT !.at = "strike"])
           [] new = "pending"  -> NextInBatch(w)
      /\ lost' = CASE new = "delivered" -> 0
                   [] new = "failed" /\ lost < DisableAfter -> lost + 1
                   [] OTHER -> lost
      /\ UNCHANGED <<endVars, crossed>>

ForgetStrikes == strikes' = 0

Clear(w) ==
  /\ sweep[w].at = "clear"
  /\ ForgetStrikes
  /\ NextInBatch(w)
  /\ UNCHANGED <<rowVars, endpoint, lost, crossed>>

Strike(w) ==
  /\ sweep[w].at = "strike"
  /\ strikes' = IF strikes < DisableAfter THEN strikes + 1 ELSE strikes
  /\ IF strikes' >= DisableAfter THEN Put(w, [sweep[w] EXCEPT !.at = "disable"])
                                 ELSE NextInBatch(w)
  /\ UNCHANGED <<rowVars, endpoint, lost, crossed>>

Disable(w) ==
  /\ sweep[w].at = "disable"
  /\ endpoint' = IF endpoint = "on" THEN "off" ELSE endpoint
  /\ NextInBatch(w)
  /\ UNCHANGED <<rowVars, strikes, lost, crossed>>

Dies(w) ==
  /\ sweep[w] # Resting
  /\ Put(w, Resting)
  /\ crossed' = (crossed \/ sweep[w].at = "clear")
  /\ UNCHANGED <<rowVars, endVars, lost>>

Sweep(w) ==
  \/ StartSweep(w) \/ \E d \in Deliveries : Send(w, d)
  \/ Record(w) \/ Clear(w) \/ Strike(w) \/ Disable(w)

-----------------------------------------------------------------------------
(* The team admin.                                                         *)

Meets == crossed' = (crossed \/ \E w \in Sweeps : sweep[w] # Resting)

(* Switching an endpoint on clears its strikes.                            *)
Patch(new) ==
  /\ endpoint # "gone"
  /\ endpoint' = new
  /\ strikes' = IF new = "on" THEN 0 ELSE strikes
  /\ lost' = IF new = "on" THEN 0 ELSE lost
  /\ Meets
  /\ UNCHANGED <<rowVars, sweep>>

(* Its deliveries go with an endpoint.                                     *)
DeleteEndpoint ==
  /\ endpoint # "gone"
  /\ endpoint' = "gone"
  /\ status' = [d \in Deliveries |-> "gone"]
  /\ UNCHANGED <<attempts, due, strikes, sweep, lost, crossed>>

Redeliver(d) ==
  /\ status[d] = "failed"
  /\ Queue(d)
  /\ Meets
  /\ UNCHANGED <<endVars, sweep, lost>>

Next ==
  \/ \E d \in Deliveries : Emit(d) \/ Elapse(d) \/ Redeliver(d)
  \/ \E w \in Sweeps : Sweep(w) \/ Dies(w)
  \/ Patch("on") \/ Patch("off") \/ DeleteEndpoint

Spec == Init /\ [][Next]_vars

(* The timer keeps firing, time passes, and not every sweep dies before it *)
(* has written down what came of a delivery.                               *)
Fairness ==
  /\ \A w \in Sweeps :
       /\ WF_vars(Sweep(w))
       /\ \A d \in Deliveries :
            /\ SF_vars(Send(w, d))
            /\ SF_vars(sweep[w].d = d /\ Record(w))
  /\ \A d \in Deliveries : WF_vars(Elapse(d))

FairSpec == Spec /\ Fairness

-----------------------------------------------------------------------------
TypeOK ==
  /\ status \in [Deliveries -> {"new", "pending", "delivered", "failed", "gone"}]
  /\ attempts \in [Deliveries -> 0..MaxAttempts]
  /\ due \subseteq Deliveries
  /\ endpoint \in {"on", "off", "gone"}
  /\ strikes \in 0..DisableAfter /\ lost \in 0..DisableAfter
  /\ crossed \in BOOLEAN
  /\ \A w \in Sweeps :
       /\ sweep[w].at \in {None, "send", "record", "clear", "strike", "disable"}
       /\ sweep[w].batch \subseteq Deliveries
       /\ sweep[w].read \in [Deliveries -> 0..MaxAttempts]

(* While one sweep runs at a time, whatever dies, is redelivered, switched *)
(* or deleted in between, a delivery that went through is never sent again *)
(* and its row stays.                                                      *)
DeliveredStays ==
  [][\A d \in Deliveries :
       status[d] = "delivered" /\ ~crossed' => status'[d] \in {"delivered", "gone"}]_vars

(* A sweep switches an endpoint off only after DisableAfter deliveries in a *)
(* row were given up with none delivered in between, whatever sweeps died  *)
(* on the way: unless it crossed another sweep or an admin, or a sweep     *)
(* died before it had cleared the strikes of an earlier failure.           *)
DisableIsEarned ==
  [][\A w \in Sweeps :
       Disable(w) /\ endpoint = "on" /\ ~crossed => lost >= DisableAfter]_vars

(* Every delivery on the queue is in the end delivered, given up or gone,  *)
(* unless its endpoint is switched off.                                    *)
EveryDeliveryIsSettled ==
  \A d \in Deliveries :
    status[d] = "pending" ~> status[d] # "pending" \/ endpoint = "off"
=============================================================================
