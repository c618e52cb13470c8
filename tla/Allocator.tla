----------------------------- MODULE Allocator -----------------------------
(***************************************************************************)
(* The environment allocator of the control plane:                         *)
(*   src/scheduler/allocator.ts    reserveSlot, tryAssign, requestEnv-     *)
(*                                 ironment, releaseEnvironment,           *)
(*                                 reclaimStaleAssignments                 *)
(*   src/scheduler/queueWorker.ts  the tick that retries queued requests   *)
(*   src/routes/environments.ts    POST and DELETE /environments           *)
(*                                                                         *)
(* API handlers and queue-worker ticks are concurrent tasks over the rows  *)
(* of environment_requests.  A task is one async call chain; an action is  *)
(* what it does between two awaits, which is one SQL statement, one        *)
(* transaction, or one call to a host's agent.  Hosts are abstracted to    *)
(* the number of candidates a task has tried and the set of VMs alive on   *)
(* all agents together.  The only clock is the one the reclaim threshold   *)
(* is compared with: it runs while an agent is being waited for.           *)
(***************************************************************************)
EXTENDS Naturals, FiniteSets

CONSTANTS
  Teams,
  Requests,      \* row identities, numbered in the order of requested_at
  TeamOf,        \* the team a row belongs to
  Handlers,      \* API handler tasks that can be in flight at once
  Workers,       \* queue-worker ticks that can be in flight at once
  VMs,           \* identities the agents can give to VMs
  PlanCaps,      \* parallelism caps a team's plan can have (0: trial lapsed)
  MaxHosts,      \* most candidate hosts rankHosts returns
  BatchLimit,    \* rows a tick reads (20 in the code)
  MaxAttempts,   \* MAX_ASSIGN_ATTEMPTS (5 in the code)
  CreateTimeout, \* seconds createVm may take on one host (110 in the code)
  ReclaimAfter,  \* seconds after which a claim is stale (180 in the code)
  MaxAborts,     \* bound: tasks that die half way in one behaviour
  NoTask, NoVm

ASSUME AllocatorAssumption ==
  /\ IsFiniteSet(Requests) /\ Requests \subseteq Nat \ {0}
  /\ TeamOf \in [Requests -> Teams]
  /\ PlanCaps \subseteq Nat
  /\ MaxHosts \in Nat \ {0} /\ BatchLimit \in Nat \ {0}
  /\ MaxAttempts \in Nat \ {0} /\ MaxAborts \in Nat
  /\ CreateTimeout \in Nat /\ ReclaimAfter \in Nat
  /\ Handlers \cap Workers = {}
  /\ NoVm \notin VMs /\ NoTask \notin Workers

VARIABLES
  planCap,    \* parallelEnvs of each team's plan as the database has it now
  peakCap,    \* history: the largest cap each team has had
  status,     \* environment_requests.status ("absent" before the INSERT)
  stale,      \* claims whose claimed_at is older than the reclaim threshold
  attempts,   \* environment_requests.attempts
  rowVm,      \* environment_requests.vm_id of an assigned row
  blocked,    \* rows whose capacity_blocked_at is stamped
  live,       \* VMs that exist on some agent
  abandoned,  \* history: VMs only the agents' TTL reaper will ever remove
  lock,       \* the worker whose session holds the queue-worker advisory lock
  pc, req, cap, vm,  \* per task: where it is and what it has read
  hosts,      \* per task: candidate hosts that have failed it
  todo, snap, \* per worker: rows of its batch left, plans read with the batch
  limitHooks, \* history: environment.queued_at_limit webhooks per row
  starts, stops, failures,  \* history: usage_events rows per request
  orphans,    \* history: claims whose task died
  aborts

planVars  == <<planCap, peakCap>>
rowVars   == <<status, stale, attempts, rowVm, blocked, orphans>>
vmVars    == <<live, abandoned>>
batchVars == <<todo, snap>>
taskVars  == <<pc, req, cap, hosts, vm>>
meterVars == <<limitHooks, starts, stops, failures>>
vars == <<planVars, rowVars, vmVars, lock, taskVars, batchVars, meterVars,
          aborts>>

-----------------------------------------------------------------------------
Tasks    == Handlers \cup Workers
Statuses == {"absent", "queued", "assigning", "assigned", "released", "failed"}
Holding  == {"assigning", "assigned"}   \* what reserveSlot counts
Waiting  == {"queued", "assigning"}     \* what DELETE releases outright
Final    == {"released", "failed"}

(* The steps of tryAssign at which the task answers for a claim.           *)
ClaimSteps == {"hosts", "create", "record", "bump", "fail", "requeue"}
Steps == ClaimSteps \cup {"idle", "plan", "reserve", "cleanup", "account",
           "failEvent", "deleteVm", "settle", "select", "next"}

(* Counters that only matter up to "more than once" stop at two, and the   *)
(* attempts column stops mattering once it has reached the limit.          *)
Seen(n) == IF n < 2 THEN n + 1 ELSE 2
Attempted(n) == IF n < MaxAttempts THEN n + 1 ELSE MaxAttempts

(* Faulty: a run that is being assigned does not count yet.                *)
HoldersAssignedOnly(t) == {r \in Requests : TeamOf[r] = t /\ status[r] = "assigned"}

Holders(t)   == {r \in Requests : TeamOf[r] = t /\ status[r] \in Holding}
Occupancy(t) == Cardinality(Holders(t))

(* Agents never hand out an id that is in use or still being referred to.  *)
FreshVms == VMs \ (live \cup {vm[p] : p \in Tasks} \cup {rowVm[r] : r \in Requests})

Init ==
  /\ planCap \in [Teams -> PlanCaps]
  /\ peakCap = planCap
  /\ status = [r \in Requests |-> "absent"]
  /\ stale = {} /\ blocked = {} /\ orphans = {}
  /\ attempts = [r \in Requests |-> 0]
  /\ rowVm = [r \in Requests |-> NoVm]
  /\ live = {} /\ abandoned = {}
  /\ lock = NoTask
  /\ pc = [p \in Tasks |-> "idle"]
  /\ req = [p \in Tasks |-> 0]
  /\ cap = [p \in Tasks |-> 0]
  /\ hosts = [p \in Tasks |-> 0]
  /\ vm = [p \in Tasks |-> NoVm]
  /\ todo = [p \in Tasks |-> {}]
  /\ snap = [p \in Tasks |-> [t \in Teams |-> 0]]
  /\ limitHooks = [r \in Requests |-> 0]
  /\ starts = [r \in Requests |-> 0]
  /\ stops = [r \in Requests |-> 0]
  /\ failures = [r \in Requests |-> 0]
  /\ aborts = 0

-----------------------------------------------------------------------------
(* Helpers of the actions.                                                 *)

Goto(p, step) == pc' = [pc EXCEPT ![p] = step]

(* tryAssign or a handler returns: a handler is done, a worker takes the   *)
(* next row of its batch.                                                  *)
Return(p) ==
  /\ Goto(p, IF p \in Workers THEN "next" ELSE "idle")
  /\ req' = [req EXCEPT ![p] = 0]
  /\ cap' = [cap EXCEPT ![p] = 0]
  /\ hosts' = [hosts EXCEPT ![p] = 0]
  /\ vm' = [vm EXCEPT ![p] = NoVm]

(* UPDATE ... SET status = s WHERE id = r, with the columns that only mean *)
(* something for a claim.                                                  *)
SetStatus(r, s) ==
  /\ status' = [status EXCEPT ![r] = s]
  /\ stale' = stale \ {r}
  /\ orphans' = orphans \ {r}

(* Faulty: without the condition on the status, which would take a run     *)
(* that was released meanwhile back into the queue.                        *)
SetRegardless(r, s) == SetStatus(r, s)

(* UPDATE ... SET status = s WHERE id = r AND status = 'assigning'.        *)
SetIfAssigning(r, s) ==
  IF status[r] = "assigning" THEN SetStatus(r, s)
                             ELSE UNCHANGED <<status, stale, orphans>>

-----------------------------------------------------------------------------
(* Faulty variants of actions below, each a slip the code could have; the  *)
(* properties are checked to notice them.                                  *)

(* The webhook of every refusal, not only of the first.                    *)
SlotRefusedLoudly(p) ==
  LET r == req[p] IN
  /\ pc[p] = "reserve"
  /\ Occupancy(TeamOf[r]) >= cap[p]
  /\ blocked' = blocked \cup {r}
  /\ limitHooks' = [limitHooks EXCEPT ![r] = Seen(@)]
  /\ Return(p)
  /\ UNCHANGED <<planVars, status, stale, attempts, rowVm, orphans, vmVars, lock,
                 batchVars, starts, stops, failures, aborts>>

(* A refused row ends the tick instead of making way for the next row.     *)
SlotRefusedEndsTick(p) ==
  /\ pc[p] = "reserve"
  /\ Occupancy(TeamOf[req[p]]) >= cap[p]
  /\ todo' = [todo EXCEPT ![p] = {}]
  /\ Return(p)
  /\ UNCHANGED <<planVars, rowVars, vmVars, lock, snap, meterVars, aborts>>

(* The early return without giving the slot back.                          *)
NoHostFitsKeepsClaim(p) ==
  /\ pc[p] = "hosts"
  /\ Return(p)
  /\ UNCHANGED <<planVars, rowVars, vmVars, lock, batchVars, meterVars, aborts>>

(* The assignment without the condition on the status.                     *)
RecordVmRegardless(p) ==
  LET r == req[p] IN
  /\ pc[p] = "record"
  /\ SetStatus(r, "assigned")
  /\ rowVm' = [rowVm EXCEPT ![r] = vm[p]]
  /\ Goto(p, "account")
  /\ UNCHANGED <<planVars, attempts, blocked, vmVars, lock, req, cap, hosts, vm,
                 batchVars, meterVars, aborts>>

(* A run that moved on during createVm, without the deleteVm.              *)
ClaimLostLeavesVm(p) ==
  /\ pc[p] = "record"
  /\ status[req[p]] # "assigning"
  /\ Return(p)
  /\ UNCHANGED <<planVars, rowVars, vmVars, lock, batchVars, meterVars, aborts>>

(* The catch tears down the VM of a run that is already assigned.          *)
AccountFailsTearsDown(p) ==
  /\ pc[p] = "account"
  /\ Goto(p, "cleanup")
  /\ UNCHANGED <<planVars, rowVars, vmVars, lock, req, cap, hosts, vm, batchVars,
                 meterVars, aborts>>

(* A status the column does not have.                                      *)
FailRequestMisspelt(p) ==
  /\ pc[p] = "fail"
  /\ SetIfAssigning(req[p], "error")
  /\ Goto(p, "failEvent")
  /\ UNCHANGED <<planVars, attempts, rowVm, blocked, vmVars, lock, req, cap, hosts,
                 vm, batchVars, meterVars, aborts>>

(* The reclaim takes every claim, however young ...                        *)
TickReclaimsAll(p) ==
  LET reclaimed == {r \in Requests : status[r] = "assigning"} IN
  /\ p \in Workers /\ pc[p] = "idle"
  /\ lock = NoTask
  /\ lock' = p
  /\ status' = [r \in Requests |-> IF r \in reclaimed THEN "queued" ELSE status[r]]
  /\ stale' = stale \ reclaimed
  /\ orphans' = orphans \ reclaimed
  /\ Goto(p, "select")
  /\ UNCHANGED <<planVars, attempts, rowVm, blocked, vmVars, req, cap, hosts, vm,
                 batchVars, meterVars, aborts>>

(* ... or there is none.                                                   *)
TickReclaimsNone(p) ==
  /\ p \in Workers /\ pc[p] = "idle"
  /\ lock = NoTask
  /\ lock' = p
  /\ Goto(p, "select")
  /\ UNCHANGED <<planVars, rowVars, vmVars, req, cap, hosts, vm, batchVars,
                 meterVars, aborts>>

-----------------------------------------------------------------------------
(* POST /environments.                                                     *)

(* The 402 check on a plan without slots, then the INSERT.  A lapse of the *)
(* plan between the two is the same as one right after the INSERT.         *)
PostEnvironment(p, r) ==
  /\ p \in Handlers /\ pc[p] = "idle"
  /\ status[r] = "absent"
  /\ \A q \in Requests : q < r => status[q] # "absent"
  /\ planCap[TeamOf[r]] > 0
  /\ status' = [status EXCEPT ![r] = "queued"]
  /\ req' = [req EXCEPT ![p] = r]
  /\ Goto(p, "plan")
  /\ UNCHANGED <<planVars, stale, attempts, rowVm, blocked, orphans, vmVars, lock,
                 cap, hosts, vm, batchVars, meterVars, aborts>>

(* effectivePlan: the handler reads its team's cap afresh.                 *)
EffectivePlan(p) ==
  /\ pc[p] = "plan"
  /\ cap' = [cap EXCEPT ![p] = planCap[TeamOf[req[p]]]]
  /\ Goto(p, "reserve")
  /\ UNCHANGED <<planVars, rowVars, vmVars, lock, req, hosts, vm, batchVars,
                 meterVars, aborts>>

-----------------------------------------------------------------------------
(* tryAssign.                                                              *)

(* reserveSlot, refused: the transaction counts under the per-team lock    *)
(* and stamps the row once.  The webhook of the first refusal is sent      *)
(* after COMMIT by a call that cannot fail, so it is part of the step.     *)
SlotRefused(p) ==
  LET r == req[p] IN
  /\ pc[p] = "reserve"
  /\ Occupancy(TeamOf[r]) >= cap[p]
  /\ IF cap[p] > 0 /\ r \notin blocked
       THEN /\ blocked' = blocked \cup {r}
            /\ limitHooks' = [limitHooks EXCEPT ![r] = Seen(@)]
       ELSE UNCHANGED <<blocked, limitHooks>>
  /\ Return(p)
  /\ UNCHANGED <<planVars, status, stale, attempts, rowVm, orphans, vmVars, lock,
                 batchVars, starts, stops, failures, aborts>>

(* reserveSlot, granted: the count and the claim are one step.             *)
SlotGranted(p) ==
  LET r == req[p] IN
  /\ pc[p] = "reserve"
  /\ Occupancy(TeamOf[r]) < cap[p]
  /\ status[r] = "queued"
  /\ SetStatus(r, "assigning")
  /\ Goto(p, "hosts")
  /\ UNCHANGED <<planVars, attempts, rowVm, blocked, vmVars, lock, req, cap,
                 hosts, vm, batchVars, meterVars, aborts>>

(* reserveSlot, the row is no longer queued: someone else has it.          *)
SlotGone(p) ==
  LET r == req[p] IN
  /\ pc[p] = "reserve"
  /\ Occupancy(TeamOf[r]) < cap[p]
  /\ status[r] # "queued"
  /\ Return(p)
  /\ UNCHANGED <<planVars, rowVars, vmVars, lock, batchVars, meterVars, aborts>>

(* candidateHosts finds some hosts that fit ...                            *)
HostsFound(p) ==
  /\ pc[p] = "hosts"
  /\ Goto(p, "create")
  /\ UNCHANGED <<planVars, rowVars, vmVars, lock, req, cap, hosts, vm, batchVars,
                 meterVars, aborts>>

(* ... or none, and the slot is given back.                                *)
NoHostFits(p) ==
  /\ pc[p] = "hosts"
  /\ SetIfAssigning(req[p], "queued")
  /\ Return(p)
  /\ UNCHANGED <<planVars, attempts, rowVm, blocked, vmVars, lock, batchVars,
                 meterVars, aborts>>

(* After an error, the loop's next host if there is one (how many there    *)
(* were is settled as the loop gets to them), or the bookkeeping of a      *)
(* round in which every host failed.                                       *)
NextHost(p) ==
  /\ hosts' = [hosts EXCEPT ![p] = @ + 1]
  /\ vm' = [vm EXCEPT ![p] = NoVm]
  /\ \/ hosts[p] + 1 < MaxHosts /\ Goto(p, "create")
     \/ Goto(p, "bump")

(* createVm answers with a booted VM.                                      *)
CreateVm(p) ==
  /\ pc[p] = "create"
  /\ \E v \in FreshVms :
       /\ live' = live \cup {v}
       /\ vm' = [vm EXCEPT ![p] = v]
  /\ Goto(p, "record")
  /\ UNCHANGED <<planVars, rowVars, abandoned, lock, req, cap, hosts, batchVars,
                 meterVars, aborts>>

(* The agent refuses or cannot be reached.                                 *)
CreateVmFails(p) ==
  /\ pc[p] = "create"
  /\ NextHost(p)
  /\ UNCHANGED <<planVars, rowVars, vmVars, lock, req, cap, batchVars, meterVars,
                 aborts>>

(* The call times out although the agent did boot a VM.                    *)
CreateVmTimesOut(p) ==
  /\ pc[p] = "create"
  /\ \E v \in FreshVms : live' = live \cup {v} /\ abandoned' = abandoned \cup {v}
  /\ NextHost(p)
  /\ UNCHANGED <<planVars, rowVars, lock, req, cap, batchVars, meterVars, aborts>>

(* The claim still stands: the row becomes assigned and names the VM.      *)
RecordVm(p) ==
  LET r == req[p] IN
  /\ pc[p] = "record"
  /\ status[r] = "assigning"
  /\ SetStatus(r, "assigned")
  /\ rowVm' = [rowVm EXCEPT ![r] = vm[p]]
  /\ Goto(p, "account")
  /\ UNCHANGED <<planVars, attempts, blocked, vmVars, lock, req, cap, hosts, vm,
                 batchVars, meterVars, aborts>>

(* Released or otherwise moved on while createVm was in flight.            *)
ClaimLost(p) ==
  /\ pc[p] = "record"
  /\ status[req[p]] # "assigning"
  /\ Goto(p, "cleanup")
  /\ UNCHANGED <<planVars, rowVars, vmVars, lock, req, cap, hosts, vm, batchVars,
                 meterVars, aborts>>

(* The UPDATE itself throws: the catch moves on to the next host and       *)
(* nobody remembers the VM.                                                *)
RecordVmFails(p) ==
  /\ pc[p] = "record"
  /\ abandoned' = abandoned \cup ({vm[p]} \cap live)
  /\ NextHost(p)
  /\ UNCHANGED <<planVars, rowVars, live, lock, req, cap, batchVars, meterVars,
                 aborts>>

(* deleteVm of the VM nobody asked for; its failure is only logged.        *)
Cleanup(p) ==
  /\ pc[p] = "cleanup"
  /\ \/ live' = live \ {vm[p]} /\ abandoned' = abandoned \ {vm[p]}
     \/ abandoned' = abandoned \cup ({vm[p]} \cap live) /\ UNCHANGED live
  /\ Return(p)
  /\ UNCHANGED <<planVars, rowVars, lock, batchVars, meterVars, aborts>>

(* The transaction that writes the start event; the answer is "assigned".  *)
Account(p) ==
  /\ pc[p] = "account"
  /\ starts' = [starts EXCEPT ![req[p]] = Seen(@)]
  /\ Return(p)
  /\ UNCHANGED <<planVars, rowVars, vmVars, lock, batchVars, limitHooks, stops,
                 failures, aborts>>

(* That transaction fails: the catch treats it like a failed host although *)
(* the row is assigned and its VM is running.                              *)
AccountFails(p) ==
  /\ pc[p] = "account"
  /\ NextHost(p)
  /\ UNCHANGED <<planVars, rowVars, vmVars, lock, req, cap, batchVars, meterVars,
                 aborts>>

(* Every candidate failed: count the attempt, give up at the limit.        *)
BumpAttempts(p) ==
  LET n == Attempted(attempts[req[p]]) IN
  /\ pc[p] = "bump"
  /\ attempts' = [attempts EXCEPT ![req[p]] = n]
  /\ Goto(p, IF n >= MaxAttempts THEN "fail" ELSE "requeue")
  /\ UNCHANGED <<planVars, status, stale, rowVm, blocked, orphans, vmVars, lock,
                 req, cap, hosts, vm, batchVars, meterVars, aborts>>

FailRequest(p) ==
  /\ pc[p] = "fail"
  /\ SetIfAssigning(req[p], "failed")
  /\ Goto(p, "failEvent")
  /\ UNCHANGED <<planVars, attempts, rowVm, blocked, vmVars, lock, req, cap, hosts,
                 vm, batchVars, meterVars, aborts>>

(* The start_failed event and the environment.failed webhook, whatever the *)
(* UPDATE before them matched.                                             *)
FailEvent(p) ==
  /\ pc[p] = "failEvent"
  /\ failures' = [failures EXCEPT ![req[p]] = Seen(@)]
  /\ Return(p)
  /\ UNCHANGED <<planVars, rowVars, vmVars, lock, batchVars, limitHooks, starts,
                 stops, aborts>>

Requeue(p) ==
  /\ pc[p] = "requeue"
  /\ SetIfAssigning(req[p], "queued")
  /\ Return(p)
  /\ UNCHANGED <<planVars, attempts, rowVm, blocked, vmVars, lock, batchVars,
                 meterVars, aborts>>

-----------------------------------------------------------------------------
(* DELETE /environments/:id.                                               *)

(* A waiting run is released at once; an attempt in flight finds out later. *)
ReleaseWaiting(p, r) ==
  /\ p \in Handlers /\ pc[p] = "idle"
  /\ status[r] \in Waiting
  /\ SetStatus(r, "released")
  /\ UNCHANGED <<planVars, attempts, rowVm, blocked, vmVars, lock, taskVars,
                 batchVars, meterVars, aborts>>

(* The row was read as assigned; its VM is torn down first.                *)
ReleaseAssigned(p, r) ==
  /\ p \in Handlers /\ pc[p] = "idle"
  /\ status[r] = "assigned"
  /\ req' = [req EXCEPT ![p] = r]
  /\ vm' = [vm EXCEPT ![p] = rowVm[r]]
  /\ Goto(p, "deleteVm")
  /\ UNCHANGED <<planVars, rowVars, vmVars, lock, cap, hosts, batchVars, meterVars,
                 aborts>>

(* Best effort: an unreachable host leaves the VM to its reaper.           *)
DeleteVm(p) ==
  /\ pc[p] = "deleteVm"
  /\ \/ live' = live \ {vm[p]} /\ abandoned' = abandoned \ {vm[p]}
     \/ abandoned' = abandoned \cup ({vm[p]} \cap live) /\ UNCHANGED live
  /\ vm' = [vm EXCEPT ![p] = NoVm]
  /\ Goto(p, "settle")
  /\ UNCHANGED <<planVars, rowVars, lock, req, cap, hosts, batchVars, meterVars,
                 aborts>>

(* The transaction of the release: status, stop event, host accounting.    *)
(* Its UPDATE has no condition on the status.                              *)
Settle(p) ==
  LET r == req[p] IN
  /\ pc[p] = "settle"
  /\ SetStatus(r, "released")
  /\ rowVm' = [rowVm EXCEPT ![r] = NoVm]
  /\ stops' = [stops EXCEPT ![r] = Seen(@)]
  /\ Return(p)
  /\ UNCHANGED <<planVars, attempts, blocked, vmVars, lock, batchVars, limitHooks,
                 starts, failures, aborts>>

-----------------------------------------------------------------------------
(* The queue worker.                                                       *)

(* A tick that gets the advisory lock starts with the reclaim of stale     *)
(* claims; a tick that does not get it is skipped.                         *)
Tick(p) ==
  LET reclaimed == {r \in stale : status[r] = "assigning"} IN
  /\ p \in Workers /\ pc[p] = "idle"
  /\ lock = NoTask
  /\ lock' = p
  /\ status' = [r \in Requests |-> IF r \in reclaimed THEN "queued" ELSE status[r]]
  /\ stale' = stale \ reclaimed
  /\ orphans' = orphans \ reclaimed
  /\ Goto(p, "select")
  /\ UNCHANGED <<planVars, attempts, rowVm, blocked, vmVars, req, cap, hosts, vm,
                 batchVars, meterVars, aborts>>

Queued == {r \in Requests : status[r] = "queued"}
Oldest(n, S) == {r \in S : Cardinality({q \in S : q < r}) < n}

(* The oldest queued rows, joined with their teams' plans.                 *)
SelectBatch(p) ==
  /\ pc[p] = "select"
  /\ todo' = [todo EXCEPT ![p] = Oldest(BatchLimit, Queued)]
  /\ snap' = [snap EXCEPT ![p] = IF Queued = {} THEN snap[p] ELSE planCap]
  /\ Goto(p, "next")
  /\ UNCHANGED <<planVars, rowVars, vmVars, lock, req, cap, hosts, vm, meterVars,
                 aborts>>

(* The rows are tried one after the other with the plans of the batch.     *)
NextRow(p) ==
  /\ pc[p] = "next"
  /\ \E r \in todo[p] :
       /\ \A q \in todo[p] : r <= q
       /\ todo' = [todo EXCEPT ![p] = @ \ {r}]
       /\ req' = [req EXCEPT ![p] = r]
       /\ cap' = [cap EXCEPT ![p] = snap[p][TeamOf[r]]]
  /\ Goto(p, "reserve")
  /\ UNCHANGED <<planVars, rowVars, vmVars, lock, hosts, vm, snap, meterVars, aborts>>

Unlocked(p) == IF lock = p THEN NoTask ELSE lock

EndTick(p) ==
  /\ pc[p] = "next" /\ todo[p] = {}
  /\ lock' = Unlocked(p)
  /\ snap' = [snap EXCEPT ![p] = [t \in Teams |-> 0]]
  /\ Goto(p, "idle")
  /\ UNCHANGED <<planVars, rowVars, vmVars, req, cap, hosts, vm, todo, meterVars,
                 aborts>>

-----------------------------------------------------------------------------
(* The surroundings.                                                       *)

(* Upgrade, downgrade, override or trial lapse.                            *)
ChangePlan(t) ==
  /\ \E c \in PlanCaps \ {planCap[t]} :
       /\ planCap' = [planCap EXCEPT ![t] = c]
       /\ peakCap' = [peakCap EXCEPT ![t] = IF c > @ THEN c ELSE @]
  /\ UNCHANGED <<rowVars, vmVars, lock, taskVars, batchVars, meterVars, aborts>>

(* Seconds the task may have spent on its claim, at most.                  *)
Spent(p) == CreateTimeout * (IF pc[p] \in {"create", "record"} THEN hosts[p] + 1
                                                              ELSE hosts[p])

(* A claim outlives the reclaim threshold: its task is dead, or is allowed *)
(* to have been waiting for agents that long.                              *)
ClaimAges(r) ==
  /\ status[r] = "assigning" /\ r \notin stale
  /\ \A p \in Tasks : req[p] = r /\ pc[p] \in ClaimSteps => Spent(p) > ReclaimAfter
  /\ stale' = stale \cup {r}
  /\ UNCHANGED <<planVars, status, attempts, rowVm, blocked, orphans, vmVars, lock,
                 taskVars, batchVars, meterVars, aborts>>

(* The agent's TTL reaper removes a VM, whoever still counts on it.        *)
Reap(v) ==
  /\ v \in live
  /\ live' = live \ {v}
  /\ abandoned' = abandoned \ {v}
  /\ UNCHANGED <<planVars, rowVars, lock, taskVars, batchVars, meterVars, aborts>>

(* The database ends the session that holds the advisory lock before the   *)
(* tick is over.                                                           *)
LockLost(p) ==
  /\ lock = p /\ p \in Workers
  /\ lock' = NoTask
  /\ UNCHANGED <<planVars, rowVars, vmVars, taskVars, batchVars, meterVars, aborts>>

(* A task dies half way: the process is killed, or an error escapes.  A    *)
(* createVm it was waiting for may still boot a VM.                        *)
Abort(p) ==
  /\ pc[p] # "idle" /\ aborts < MaxAborts
  /\ aborts' = aborts + 1
  /\ \/ abandoned' = abandoned \cup (IF pc[p] \in {"record", "cleanup"}
                                       THEN {vm[p]} \cap live ELSE {})
        /\ UNCHANGED live
     \/ /\ pc[p] = "create"
        /\ \E v \in FreshVms : /\ live' = live \cup {v}
                               /\ abandoned' = abandoned \cup {v}
  /\ orphans' = IF pc[p] \in ClaimSteps /\ status[req[p]] = "assigning"
                  THEN orphans \cup {req[p]} ELSE orphans
  /\ Goto(p, "idle")
  /\ req' = [req EXCEPT ![p] = 0]
  /\ cap' = [cap EXCEPT ![p] = 0]
  /\ hosts' = [hosts EXCEPT ![p] = 0]
  /\ vm' = [vm EXCEPT ![p] = NoVm]
  /\ todo' = [todo EXCEPT ![p] = {}]
  /\ snap' = [snap EXCEPT ![p] = [t \in Teams |-> 0]]
  /\ lock' = Unlocked(p)
  /\ UNCHANGED <<planVars, status, stale, attempts, rowVm, blocked, meterVars>>
-----------------------------------------------------------------------------
(* One step of a task that is under way.                                   *)
Proceed(p) ==
  \/ EffectivePlan(p)
  \/ SlotRefused(p) \/ SlotGranted(p) \/ SlotGone(p)
  \/ HostsFound(p) \/ NoHostFits(p)
  \/ CreateVm(p) \/ CreateVmFails(p) \/ CreateVmTimesOut(p)
  \/ RecordVm(p) \/ ClaimLost(p) \/ RecordVmFails(p) \/ Cleanup(p)
  \/ Account(p) \/ AccountFails(p)
  \/ BumpAttempts(p) \/ FailRequest(p) \/ FailEvent(p) \/ Requeue(p)
  \/ DeleteVm(p) \/ Settle(p)
  \/ SelectBatch(p) \/ NextRow(p) \/ EndTick(p)

Next ==
  \/ \E p \in Tasks : Proceed(p) \/ Tick(p) \/ LockLost(p) \/ Abort(p)
  \/ \E p \in Tasks, r \in Requests :
        PostEnvironment(p, r) \/ ReleaseWaiting(p, r) \/ ReleaseAssigned(p, r)
  \/ \E r \in Requests : ClaimAges(r)
  \/ \E t \in Teams : ChangePlan(t)
  \/ \E v \in VMs : Reap(v)

Spec == Init /\ [][Next]_vars

(* What the runtime guarantees: a task that was started goes on (every     *)
(* call to an agent has a timeout), the worker's timer keeps firing, and   *)
(* time passes for a claim nobody works on.  Nothing is assumed of         *)
(* customers, hosts or plans.                                              *)
FairSpec ==
  /\ Spec
  /\ \A p \in Tasks : WF_vars(Proceed(p))
  /\ \A p \in Workers : WF_vars(Tick(p))
  /\ \A r \in Requests : WF_vars(ClaimAges(r))

(* What may be hoped for on top of that when asking whether the queue is   *)
(* served: customers end the runs they were given, some host has room      *)
(* again and again, and the database does not fail every time.             *)
HospitableSpec ==
  /\ FairSpec
  /\ \A r \in Requests : SF_vars(\E p \in Handlers : ReleaseAssigned(p, r))
  /\ \A p \in Tasks : SF_vars(HostsFound(p))

-----------------------------------------------------------------------------
TypeOK ==
  /\ planCap \in [Teams -> Nat] /\ peakCap \in [Teams -> Nat]
  /\ status \in [Requests -> Statuses]
  /\ stale \subseteq Requests /\ blocked \subseteq Requests
  /\ orphans \subseteq Requests
  /\ attempts \in [Requests -> Nat]
  /\ rowVm \in [Requests -> VMs \cup {NoVm}]
  /\ live \subseteq VMs /\ abandoned \subseteq live
  /\ lock \in Workers \cup {NoTask}
  /\ pc \in [Tasks -> Steps]
  /\ req \in [Tasks -> Requests \cup {0}]
  /\ cap \in [Tasks -> Nat] /\ hosts \in [Tasks -> Nat]
  /\ vm \in [Tasks -> VMs \cup {NoVm}]
  /\ todo \in [Tasks -> SUBSET Requests]
  /\ snap \in [Tasks -> [Teams -> Nat]]
  /\ limitHooks \in [Requests -> 0..2]
  /\ starts \in [Requests -> 0..2]
  /\ stops \in [Requests -> 0..2]
  /\ failures \in [Requests -> 0..2]
  /\ aborts \in 0..MaxAborts

(* What customers pay for: however many handlers and ticks decide at once, *)
(* and whatever plans they read, a team never holds more slots than the    *)
(* largest cap it has had (reserveSlot's count and claim are one step).    *)
SlotsWithinPlan == \A t \in Teams : Occupancy(t) <= peakCap[t]

(* Only a claim whose attempt died is left for the reclaim: every return   *)
(* path of tryAssign gives the claim back or moves the row on.             *)
NoLeakedClaim ==
  \A r \in Requests : status[r] = "assigning" =>
    \/ r \in orphans
    \/ \E p \in Tasks : req[p] = r /\ pc[p] \in ClaimSteps

(* No VM is silently forgotten: each one that exists is named by an        *)
(* assigned row, in the hands of an attempt that will record or delete it, *)
(* or was lost to a failure the code leaves to the TTL reaper.             *)
NoForgottenVm ==
  \A v \in live :
    \/ v \in abandoned
    \/ \E r \in Requests : status[r] = "assigned" /\ rowVm[r] = v
    \/ \E p \in Tasks : pc[p] \in {"record", "cleanup"} /\ vm[p] = v

(* Two runs never share a VM, and the VM an attempt is about to clean up   *)
(* is never one that some run has been promised.                           *)
VmsAreExclusive ==
  \A r \in Requests : status[r] = "assigned" =>
    /\ \A q \in Requests \ {r} : rowVm[q] # rowVm[r]
    /\ \A p \in Tasks : pc[p] \in {"record", "cleanup"} => vm[p] # rowVm[r]

(* The meter: a run is started at most once, and only if it was assigned,  *)
(* even when two attempts raced for it or one failed after recording.      *)
StartedOnce ==
  \A r \in Requests :
    /\ starts[r] <= 1
    /\ starts[r] = 1 => status[r] \in {"assigned", "released"}

(* environment.queued_at_limit is sent on the first refusal of a run and   *)
(* never again, although every tick retries the run.                       *)
LimitHookOnce == \A r \in Requests : limitHooks[r] = IF r \in blocked THEN 1 ELSE 0

(* A released or failed run is never revived, not by the revert of an      *)
(* attempt still in flight and not by the reclaim.                         *)
FinalIsFinal ==
  [][\A r \in Requests : status[r] \in Final => status'[r] = status[r]]_vars

(* A claim never lasts: the attempt ends it, or the reclaim does.          *)
ClaimsResolve ==
  \A r \in Requests : status[r] = "assigning" ~> status[r] # "assigning"

(* The allocator implements the pool of slots: nothing it does to a run    *)
(* shows as anything but joining, taking, giving back, release or failure.  *)
Pool == INSTANCE SlotPool WITH
          size     <- peakCap,
          waiting  <- Queued,
          holding  <- {r \in Requests : status[r] \in Holding},
          released <- {r \in Requests : status[r] = "released"},
          failed   <- {r \in Requests : status[r] = "failed"}
ImplementsPool == Pool!Spec

(* A queued run whose team keeps a plan with slots is served in the end    *)
(* (or given up on with a failure, or cancelled).                          *)
PaidRunsAreServed ==
  \A r \in Requests :
    (status[r] = "queued" /\ [](planCap[TeamOf[r]] > 0))
      ~> status[r] \in {"assigned"} \cup Final

-----------------------------------------------------------------------------
(* Statements of the repository's comments and migrations.                 *)

(* No two attempts work on one run (allocator.ts:205-210, migration 005).  *)
OneAttemptPerRun ==
  \A p, q \in Tasks : p # q /\ req[p] = req[q] /\ req[p] # 0 =>
    ~(pc[p] \in ClaimSteps /\ pc[q] \in ClaimSteps)

(* A release subtracts what assignment added, once (allocator.ts:399).     *)
SettledOnce == \A r \in Requests : stops[r] <= 1

=============================================================================
