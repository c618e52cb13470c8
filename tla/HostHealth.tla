----------------------------- MODULE HostHealth -----------------------------
(***************************************************************************)
(* One row of hosts and everybody who writes it:                           *)
(*   src/scheduler/healthPoller.ts  pollHostHealth, the ticks that ask the *)
(*                                  agent every few seconds                *)
(*   src/routes/hosts.ts            registration and the agent's heartbeat *)
(*   src/scheduler/allocator.ts     the optimistic accounting of tryAssign *)
(*                                  and releaseEnvironment                 *)
(*                                                                         *)
(* The agent is external.  Both directions of the network can fail on      *)
(* their own.  A unit of time is the longest a health call takes; status   *)
(* 'draining' counts as online, and a VM counts as one unit of CPU.        *)
(***************************************************************************)
EXTENDS Naturals, FiniteSets

CONSTANTS
  Pollers,   \* poller ticks in flight at once (two after a lost lock)
  Envs,      \* runs that are placed on this host
  Timeout    \* agentHeartbeatTimeoutSeconds, in units of a health call

ASSUME HostAssumption == IsFiniteSet(Envs) /\ Timeout \in Nat \ {0}

VARIABLES
  status,    \* hosts.status
  age,       \* time since hosts.last_heartbeat; a host never heard of is old
  alerted,   \* hosts.offline_alerted_at is stamped
  used,      \* hosts.cpu_used
  pc,        \* per poller: where it is
  seen,      \* per poller: age of the last_heartbeat it has read, by now
  answer,    \* per poller: the usage the agent reported to it
  waited,    \* per poller: the health call has taken its unit of time
  agent,     \* external: the agent process is "up" or "down"
  reachable, \* external: calls to the agent arrive
  beats,     \* heartbeats on their way, by the usage they report
  vmOn,      \* runs whose VM exists on the agent
  charge,    \* where the control plane's accounting of each run is
  mails      \* history: host-offline alerts since the last healthy poll

rowVars    == <<status, age, alerted, used>>
pollVars   == <<pc, seen, answer, waited>>
agentVars  == <<agent, reachable, beats>>
ledgerVars == <<vmOn, charge>>
vars == <<rowVars, pollVars, agentVars, ledgerVars, mails>>

Never   == Timeout + 1               \* any age past the timeout
Ages    == 0..Never
Usage   == 0..Cardinality(Envs)
Older(a) == IF a < Never THEN a + 1 ELSE Never
Stale(a) == a > Timeout
Actual  == Cardinality(vmOn)         \* what the agent itself counts

Charges == {"none", "booted", "charged", "deleting", "settled"}

(* A new row: offline, never heard of, nothing used.                       *)
Init ==
  /\ status = "offline" /\ age = Never /\ alerted = FALSE /\ used = 0
  /\ pc = [p \in Pollers |-> "idle"]
  /\ seen = [p \in Pollers |-> 0]
  /\ answer = [p \in Pollers |-> 0]
  /\ waited = [p \in Pollers |-> FALSE]
  /\ agent = "down" /\ reachable = TRUE /\ beats = {}
  /\ vmOn = {} /\ charge = [e \in Envs |-> "none"]
  /\ mails = 0

-----------------------------------------------------------------------------
(* Faulty variants of definitions below, each a slip the code could have.  *)

(* The agent's own count is only believed when it is higher.               *)
OverwriteUpwards(u) == used' = IF u > used THEN u ELSE used

(* The row is marked whether or not an alert is open.                      *)
MarkOfflineRegardless(p) ==
  /\ pc[p] = "offline"
  /\ status' = "offline" /\ alerted' = TRUE
  /\ mails' = IF mails < 2 THEN mails + 1 ELSE 2
  /\ pc' = [pc EXCEPT ![p] = "idle"]
  /\ seen' = [seen EXCEPT ![p] = 0]
  /\ UNCHANGED <<age, used, answer, waited, agentVars, ledgerVars>>

(* The row is marked but the alert is not claimed.                         *)
MarkOfflineSilently(p) ==
  /\ pc[p] = "offline"
  /\ status' = IF alerted THEN status ELSE "offline"
  /\ pc' = [pc EXCEPT ![p] = "idle"]
  /\ seen' = [seen EXCEPT ![p] = 0]
  /\ UNCHANGED <<age, alerted, used, answer, waited, agentVars, ledgerVars, mails>>

(* A release subtracts without the clamp at zero.                          *)
SettleUnclamped(e) ==
  /\ charge[e] = "deleting"
  /\ used' = used - 1
  /\ charge' = [charge EXCEPT ![e] = "settled"]
  /\ UNCHANGED <<status, age, alerted, pollVars, agentVars, vmOn, mails>>

(* A heartbeat that leaves the status alone.                               *)
HeartbeatKeepsStatus(u) ==
  /\ u \in beats
  /\ beats' = beats \ {u}
  /\ age' = 0 /\ used' = u
  /\ UNCHANGED <<status, alerted, pollVars, agent, reachable, ledgerVars, mails>>

-----------------------------------------------------------------------------
(* The poller.                                                             *)

(* Both writers overwrite the optimistic accounting with the agent's view. *)
Overwrite(u) == used' = u

Idle(p) ==
  /\ pc' = [pc EXCEPT ![p] = "idle"]
  /\ seen' = [seen EXCEPT ![p] = 0]
  /\ answer' = [answer EXCEPT ![p] = 0]
  /\ waited' = [waited EXCEPT ![p] = FALSE]

PollStart(p) ==
  /\ pc[p] = "idle"
  /\ pc' = [pc EXCEPT ![p] = "call"]
  /\ seen' = [seen EXCEPT ![p] = age]
  /\ UNCHANGED <<rowVars, answer, waited, agentVars, ledgerVars, mails>>

HealthAnswers(p) ==
  /\ pc[p] = "call" /\ agent = "up" /\ reachable
  /\ pc' = [pc EXCEPT ![p] = "update"]
  /\ answer' = [answer EXCEPT ![p] = Actual]
  /\ UNCHANGED <<rowVars, seen, waited, agentVars, ledgerVars, mails>>

(* A healthy poll ends the outage and its alert.                           *)
PollUpdate(p) ==
  /\ pc[p] = "update"
  /\ status' = "online" /\ age' = 0 /\ alerted' = FALSE
  /\ Overwrite(answer[p])
  /\ mails' = 0
  /\ Idle(p)
  /\ UNCHANGED <<agentVars, ledgerVars>>

(* The catch, of a failed call or of a failed UPDATE: how old the          *)
(* heartbeat is now is worked out from the heartbeat as it was read before *)
(* the call.                                                               *)
HealthFails(p) ==
  /\ pc[p] \in {"call", "update"}
  /\ IF Stale(seen[p])
       THEN /\ pc' = [pc EXCEPT ![p] = "offline"]
            /\ answer' = [answer EXCEPT ![p] = 0]
            /\ waited' = [waited EXCEPT ![p] = FALSE]
            /\ UNCHANGED seen
       ELSE Idle(p)
  /\ UNCHANGED <<rowVars, agentVars, ledgerVars, mails>>

(* One UPDATE marks the row and claims the alert, if none is open.         *)
MarkOffline(p) ==
  /\ pc[p] = "offline"
  /\ IF alerted THEN UNCHANGED <<status, alerted, mails>>
                ELSE /\ status' = "offline" /\ alerted' = TRUE
                     /\ mails' = IF mails < 2 THEN mails + 1 ELSE 2
  /\ Idle(p)
  /\ UNCHANGED <<age, used, agentVars, ledgerVars>>

-----------------------------------------------------------------------------
(* The heartbeat.                                                          *)

SendHeartbeat ==
  /\ agent = "up"
  /\ beats' = beats \cup {Actual}
  /\ UNCHANGED <<rowVars, pollVars, agent, reachable, ledgerVars, mails>>

Heartbeat(u) ==
  /\ u \in beats
  /\ beats' = beats \ {u}
  /\ status' = "online" /\ age' = 0
  /\ Overwrite(u)
  /\ UNCHANGED <<alerted, pollVars, agent, reachable, ledgerVars, mails>>

LoseHeartbeat(u) ==
  /\ u \in beats
  /\ beats' = beats \ {u}
  /\ UNCHANGED <<rowVars, pollVars, agent, reachable, ledgerVars, mails>>

-----------------------------------------------------------------------------
(* The allocator's accounting on this host.                                *)

SetCharge(e, c) == charge' = [charge EXCEPT ![e] = c]

(* The agent boots the VM and counts it at once ...                        *)
BootVm(e) ==
  /\ charge[e] = "none" /\ agent = "up" /\ reachable
  /\ vmOn' = vmOn \cup {e}
  /\ SetCharge(e, "booted")
  /\ UNCHANGED <<rowVars, pollVars, agentVars, mails>>

(* ... the control plane adds it to the row a little later.                *)
Account(e) ==
  /\ charge[e] = "booted"
  /\ used' = used + 1
  /\ SetCharge(e, "charged")
  /\ UNCHANGED <<status, age, alerted, pollVars, agentVars, vmOn, mails>>

(* The accounting transaction fails; the run is assigned all the same.     *)
AccountFails(e) ==
  /\ charge[e] = "booted"
  /\ SetCharge(e, "charged")
  /\ UNCHANGED <<rowVars, pollVars, agentVars, vmOn, mails>>

(* The run was released during createVm: its VM is deleted, if the agent   *)
(* can be reached, and nothing is booked.                                  *)
DropVm(e) ==
  /\ charge[e] = "booted"
  /\ vmOn' \in {vmOn, vmOn \ {e}}
  /\ SetCharge(e, "settled")
  /\ UNCHANGED <<rowVars, pollVars, agentVars, mails>>

DeleteVm(e) ==
  /\ charge[e] = "charged"
  /\ vmOn' \in {vmOn, vmOn \ {e}}
  /\ SetCharge(e, "deleting")
  /\ UNCHANGED <<rowVars, pollVars, agentVars, mails>>

Settle(e) ==
  /\ charge[e] = "deleting"
  /\ used' = IF used > 0 THEN used - 1 ELSE 0
  /\ SetCharge(e, "settled")
  /\ UNCHANGED <<status, age, alerted, pollVars, agentVars, vmOn, mails>>

-----------------------------------------------------------------------------
(* The surroundings.                                                       *)

(* Time passes, but a health call does not outlast its timeout.            *)
TimePasses ==
  /\ \A p \in Pollers : pc[p] = "call" => ~waited[p]
  /\ age' = Older(age)
  /\ seen' = [p \in Pollers |-> IF pc[p] = "call" THEN Older(seen[p]) ELSE seen[p]]
  /\ waited' = [p \in Pollers |-> pc[p] = "call"]
  /\ UNCHANGED <<status, alerted, used, pc, answer, agentVars, ledgerVars, mails>>

AgentStarts ==
  /\ agent = "down" /\ agent' = "up"
  /\ UNCHANGED <<rowVars, pollVars, reachable, beats, ledgerVars, mails>>

AgentDies ==
  /\ agent = "up" /\ agent' = "down"
  /\ UNCHANGED <<rowVars, pollVars, reachable, beats, ledgerVars, mails>>

LinkChanges ==
  /\ reachable' = ~reachable
  /\ UNCHANGED <<rowVars, pollVars, agent, beats, ledgerVars, mails>>

(* The TTL reaper of a running agent.                                      *)
Reap(e) ==
  /\ e \in vmOn /\ agent = "up"
  /\ vmOn' = vmOn \ {e}
  /\ UNCHANGED <<rowVars, pollVars, agentVars, charge, mails>>

-----------------------------------------------------------------------------
Poll(p) ==
  PollStart(p) \/ HealthAnswers(p) \/ PollUpdate(p) \/ HealthFails(p) \/ MarkOffline(p)

Book(e) == Account(e) \/ AccountFails(e) \/ DropVm(e) \/ Settle(e)

Next ==
  \/ \E p \in Pollers : Poll(p)
  \/ SendHeartbeat
  \/ \E u \in Usage : Heartbeat(u) \/ LoseHeartbeat(u)
  \/ \E e \in Envs : BootVm(e) \/ Book(e) \/ DeleteVm(e) \/ Reap(e)
  \/ TimePasses \/ AgentStarts \/ AgentDies \/ LinkChanges

Spec == Init /\ [][Next]_vars

(* What the runtime guarantees: the poller's timer keeps firing and every  *)
(* call it makes ends, time passes, the allocator's bookkeeping goes on, a *)
(* running agent keeps sending heartbeats and not all of them are lost.    *)
FairSpec ==
  /\ Spec
  /\ \A p \in Pollers : WF_vars(Poll(p))
  /\ WF_vars(TimePasses)
  /\ WF_vars(SendHeartbeat)
  /\ \A u \in Usage : SF_vars(Heartbeat(u))
  /\ \A e \in Envs : WF_vars(Book(e))

-----------------------------------------------------------------------------
TypeOK ==
  /\ status \in {"online", "offline"} /\ age \in Ages
  /\ alerted \in BOOLEAN /\ used \in 0..(2 * Cardinality(Envs))
  /\ pc \in [Pollers -> {"idle", "call", "update", "offline"}]
  /\ seen \in [Pollers -> Ages] /\ answer \in [Pollers -> Usage]
  /\ waited \in [Pollers -> BOOLEAN]
  /\ agent \in {"up", "down"} /\ reachable \in BOOLEAN
  /\ beats \subseteq Usage
  /\ vmOn \subseteq Envs /\ charge \in [Envs -> Charges]
  /\ mails \in 0..2

(* However many ticks overlap and however heartbeats and polls alternate,  *)
(* operations get one host-offline alert until a healthy poll has ended    *)
(* the outage, and the stamp says whether it was sent.                     *)
OneAlertPerOutage == mails = IF alerted THEN 1 ELSE 0

(* No booking is under way.                                                *)
Quiet == \A e \in Envs : charge[e] \in {"none", "charged", "settled"}

-----------------------------------------------------------------------------
(* Statements of the repository's comments and migrations.                 *)

(* A fresh outage is an outage again (migration 019): a host that has died *)
(* for good does not stay online.                                          *)
DeadHostGoesOffline == [](agent = "down") ~> status = "offline"
=============================================================================
