-------------------------- MODULE AllocatorProofs --------------------------
(***************************************************************************)
(* Theorems about Allocator for every number of teams, requests, handlers, *)
(* ticks and VMs and every set of plans.                                   *)
(***************************************************************************)
EXTENDS Allocator, FiniteSetTheorems, TLAPS

-----------------------------------------------------------------------------
(* What the helpers of the actions return and keep in its domain.          *)

LEMMA SeenType == \A n \in 0..2 : Seen(n) \in 0..2
  BY DEF Seen

LEMMA AttemptedType == \A n \in Nat : Attempted(n) \in Nat
  BY AllocatorAssumption DEF Attempted

LEMMA FreshVmsAreVms == FreshVms \subseteq VMs
  BY DEF FreshVms

TasksTyped ==
  /\ pc \in [Tasks -> Steps]
  /\ req \in [Tasks -> Requests \cup {0}]
  /\ cap \in [Tasks -> Nat] /\ hosts \in [Tasks -> Nat]
  /\ vm \in [Tasks -> VMs \cup {NoVm}]

StatusTyped ==
  /\ status \in [Requests -> Statuses]
  /\ stale \subseteq Requests /\ orphans \subseteq Requests

(* A task that is under way works on some row.                             *)
TasksHaveRows ==
  \A p \in Tasks : pc[p] \notin {"idle", "select", "next"} => req[p] \in Requests

LEMMA ReturnType ==
  ASSUME TasksTyped, NEW p \in Tasks, Return(p) PROVE TasksTyped'
  BY DEF TasksTyped, Return, Goto, Steps, ClaimSteps

LEMMA NextHostType ==
  ASSUME TasksTyped, NEW p \in Tasks, NextHost(p), UNCHANGED <<req, cap>>
  PROVE  TasksTyped'
  BY DEF TasksTyped, NextHost, Goto, Steps, ClaimSteps

LEMMA GotoType ==
  ASSUME TasksTyped, NEW p \in Tasks, NEW step \in Steps, Goto(p, step)
  PROVE  pc' \in [Tasks -> Steps]
  BY DEF TasksTyped, Goto

LEMMA SetStatusType ==
  ASSUME StatusTyped, NEW r, NEW s \in Statuses, SetStatus(r, s)
  PROVE  StatusTyped'
  BY DEF StatusTyped, SetStatus

LEMMA SetIfAssigningType ==
  ASSUME StatusTyped, NEW r, NEW s \in Statuses, SetIfAssigning(r, s)
  PROVE  StatusTyped'
  BY SetStatusType DEF SetIfAssigning, StatusTyped

-----------------------------------------------------------------------------
(* Every step keeps every column and every local variable in its domain.   *)
(* EffectivePlan needs to know that the task has a row to ask about.       *)
LEMMA TypeStep == TypeOK /\ TasksHaveRows /\ [Next]_vars => TypeOK'
<1> SUFFICES ASSUME TypeOK, TasksHaveRows, [Next]_vars PROVE TypeOK'
  OBVIOUS
<1> USE AllocatorAssumption
    DEF TypeOK, TasksTyped, StatusTyped, Statuses, Steps, ClaimSteps, planVars,
        rowVars, vmVars, batchVars, taskVars, meterVars
<1>1. ASSUME NEW p \in Tasks, EffectivePlan(p) PROVE TypeOK'
  BY <1>1, GotoType DEF EffectivePlan, TasksHaveRows
<1>2. ASSUME NEW p \in Tasks, SlotRefused(p) PROVE TypeOK'
  <2>1. TasksTyped'
    BY <1>2, ReturnType DEF SlotRefused
  <2>2. blocked' \subseteq Requests /\ limitHooks' \in [Requests -> 0..2]
    <3>1. req[p] \in Requests
      BY <1>2 DEF SlotRefused, TasksHaveRows
    <3>2. limitHooks[req[p]] \in 0..2 /\ Seen(limitHooks[req[p]]) \in 0..2
      BY <3>1, SeenType
    <3>3. CASE cap[p] > 0 /\ req[p] \notin blocked
      <4>1. /\ blocked' = blocked \cup {req[p]}
            /\ limitHooks' = [limitHooks EXCEPT ![req[p]] = Seen(limitHooks[req[p]])]
        BY <1>2, <3>3, Zenon DEF SlotRefused
      <4>q. QED
        BY <3>1, <3>2, <4>1
    <3>4. CASE ~(cap[p] > 0 /\ req[p] \notin blocked)
      BY <1>2, <3>4 DEF SlotRefused
    <3>q. QED
      BY <3>3, <3>4
  <2>q. QED
    BY <1>2, <2>1, <2>2 DEF SlotRefused
<1>3. ASSUME NEW p \in Tasks, SlotGranted(p) PROVE TypeOK'
  BY <1>3, SetStatusType, GotoType DEF SlotGranted
<1>4. ASSUME NEW p \in Tasks, SlotGone(p) PROVE TypeOK'
  BY <1>4, ReturnType DEF SlotGone
<1>5. ASSUME NEW p \in Tasks, HostsFound(p) PROVE TypeOK'
  BY <1>5, GotoType DEF HostsFound
<1>6. ASSUME NEW p \in Tasks, NoHostFits(p) PROVE TypeOK'
  BY <1>6, SetIfAssigningType, ReturnType DEF NoHostFits
<1>7. ASSUME NEW p \in Tasks, CreateVm(p) PROVE TypeOK'
  BY <1>7, FreshVmsAreVms, GotoType DEF CreateVm
<1>8. ASSUME NEW p \in Tasks, CreateVmFails(p) PROVE TypeOK'
  BY <1>8, NextHostType DEF CreateVmFails
<1>9. ASSUME NEW p \in Tasks, CreateVmTimesOut(p) PROVE TypeOK'
  BY <1>9, NextHostType, FreshVmsAreVms DEF CreateVmTimesOut
<1>10. ASSUME NEW p \in Tasks, RecordVm(p) PROVE TypeOK'
  BY <1>10, SetStatusType, GotoType DEF RecordVm
<1>11. ASSUME NEW p \in Tasks, ClaimLost(p) PROVE TypeOK'
  BY <1>11, GotoType DEF ClaimLost
<1>12. ASSUME NEW p \in Tasks, RecordVmFails(p) PROVE TypeOK'
  BY <1>12, NextHostType DEF RecordVmFails
<1>13. ASSUME NEW p \in Tasks, Cleanup(p) PROVE TypeOK'
  BY <1>13, ReturnType DEF Cleanup
<1>14. ASSUME NEW p \in Tasks, Account(p) PROVE TypeOK'
  BY <1>14, ReturnType, SeenType DEF Account
<1>15. ASSUME NEW p \in Tasks, AccountFails(p) PROVE TypeOK'
  BY <1>15, NextHostType DEF AccountFails
<1>16. ASSUME NEW p \in Tasks, BumpAttempts(p) PROVE TypeOK'
  BY <1>16, AttemptedType DEF BumpAttempts, Goto
<1>17. ASSUME NEW p \in Tasks, FailRequest(p) PROVE TypeOK'
  BY <1>17, SetIfAssigningType, GotoType DEF FailRequest
<1>18. ASSUME NEW p \in Tasks, FailEvent(p) PROVE TypeOK'
  BY <1>18, ReturnType, SeenType DEF FailEvent
<1>19. ASSUME NEW p \in Tasks, Requeue(p) PROVE TypeOK'
  BY <1>19, SetIfAssigningType, ReturnType DEF Requeue
<1>20. ASSUME NEW p \in Tasks, DeleteVm(p) PROVE TypeOK'
  BY <1>20, GotoType DEF DeleteVm
<1>21. ASSUME NEW p \in Tasks, Settle(p) PROVE TypeOK'
  BY <1>21, SetStatusType, ReturnType, SeenType DEF Settle
<1>22. ASSUME NEW p \in Tasks, SelectBatch(p) PROVE TypeOK'
  BY <1>22, GotoType DEF SelectBatch, Oldest, Queued
<1>23. ASSUME NEW p \in Tasks, NextRow(p) PROVE TypeOK'
  BY <1>23, GotoType DEF NextRow
<1>24. ASSUME NEW p \in Tasks, EndTick(p) PROVE TypeOK'
  BY <1>24, GotoType DEF EndTick, Unlocked
<1>25. ASSUME NEW p \in Tasks, Tick(p) PROVE TypeOK'
  BY <1>25, GotoType DEF Tick
<1>26. ASSUME NEW p \in Tasks, LockLost(p) PROVE TypeOK'
  BY <1>26 DEF LockLost
<1>27. ASSUME NEW p \in Tasks, Abort(p) PROVE TypeOK'
  <2>1. TasksTyped'
    BY <1>27, GotoType DEF Abort, Goto
  <2>2. live' \subseteq VMs /\ abandoned' \subseteq live'
    BY <1>27, FreshVmsAreVms DEF Abort
  <2>3. todo' \in [Tasks -> SUBSET Requests] /\ snap' \in [Tasks -> [Teams -> Nat]]
    BY <1>27 DEF Abort
  <2>4. orphans' \subseteq Requests /\ lock' \in Workers \cup {NoTask}
    BY <1>27 DEF Abort, Unlocked, TasksHaveRows
  <2>q. QED
    BY <1>27, <2>1, <2>2, <2>3, <2>4 DEF Abort
<1>28. ASSUME NEW p \in Tasks, NEW r \in Requests, PostEnvironment(p, r) PROVE TypeOK'
  BY <1>28, GotoType DEF PostEnvironment
<1>29. ASSUME NEW p \in Tasks, NEW r \in Requests, ReleaseWaiting(p, r) PROVE TypeOK'
  BY <1>29, SetStatusType DEF ReleaseWaiting
<1>30. ASSUME NEW p \in Tasks, NEW r \in Requests, ReleaseAssigned(p, r) PROVE TypeOK'
  BY <1>30, GotoType DEF ReleaseAssigned
<1>31. ASSUME NEW r \in Requests, ClaimAges(r) PROVE TypeOK'
  BY <1>31 DEF ClaimAges
<1>32. ASSUME NEW t \in Teams, ChangePlan(t) PROVE TypeOK'
  BY <1>32 DEF ChangePlan
<1>33. ASSUME NEW v \in VMs, Reap(v) PROVE TypeOK'
  BY <1>33 DEF Reap
<1>34. CASE UNCHANGED vars
  BY <1>34 DEF vars
<1>q. QED
  BY <1>1, <1>2, <1>3, <1>4, <1>5, <1>6, <1>7, <1>8, <1>9, <1>10, <1>11,
     <1>12, <1>13, <1>14, <1>15, <1>16, <1>17, <1>18, <1>19, <1>20, <1>21,
     <1>22, <1>23, <1>24, <1>25, <1>26, <1>27, <1>28, <1>29, <1>30, <1>31,
     <1>32, <1>33, <1>34
    DEF Next, Proceed

-----------------------------------------------------------------------------
(* A task gets its row before it gets to the steps that use it, and drops  *)
(* it only when it leaves them.                                            *)
LEMMA RowsStep == TypeOK /\ TasksHaveRows /\ [Next]_vars => TasksHaveRows'
<1> SUFFICES ASSUME TypeOK, TasksHaveRows, [Next]_vars PROVE TasksHaveRows'
  OBVIOUS
<1> /\ pc \in [Tasks -> Steps] /\ req \in [Tasks -> Requests \cup {0}]
    /\ todo \in [Tasks -> SUBSET Requests]
  BY DEF TypeOK
<1> USE DEF TasksHaveRows, Goto, Steps, ClaimSteps, taskVars
<1>1. ASSUME NEW p \in Tasks, EffectivePlan(p) PROVE TasksHaveRows'
  BY <1>1 DEF EffectivePlan
<1>2. ASSUME NEW p \in Tasks, SlotRefused(p) PROVE TasksHaveRows'
  BY <1>2 DEF SlotRefused, Return
<1>3. ASSUME NEW p \in Tasks, SlotGranted(p) PROVE TasksHaveRows'
  BY <1>3 DEF SlotGranted
<1>4. ASSUME NEW p \in Tasks, SlotGone(p) PROVE TasksHaveRows'
  BY <1>4 DEF SlotGone, Return
<1>5. ASSUME NEW p \in Tasks, HostsFound(p) PROVE TasksHaveRows'
  BY <1>5 DEF HostsFound
<1>6. ASSUME NEW p \in Tasks, NoHostFits(p) PROVE TasksHaveRows'
  BY <1>6 DEF NoHostFits, Return
<1>7. ASSUME NEW p \in Tasks, CreateVm(p) PROVE TasksHaveRows'
  BY <1>7 DEF CreateVm
<1>8. ASSUME NEW p \in Tasks, CreateVmFails(p) PROVE TasksHaveRows'
  BY <1>8 DEF CreateVmFails, NextHost
<1>9. ASSUME NEW p \in Tasks, CreateVmTimesOut(p) PROVE TasksHaveRows'
  BY <1>9 DEF CreateVmTimesOut, NextHost
<1>10. ASSUME NEW p \in Tasks, RecordVm(p) PROVE TasksHaveRows'
  BY <1>10 DEF RecordVm
<1>11. ASSUME NEW p \in Tasks, ClaimLost(p) PROVE TasksHaveRows'
  BY <1>11 DEF ClaimLost
<1>12. ASSUME NEW p \in Tasks, RecordVmFails(p) PROVE TasksHaveRows'
  BY <1>12 DEF RecordVmFails, NextHost
<1>13. ASSUME NEW p \in Tasks, Cleanup(p) PROVE TasksHaveRows'
  BY <1>13 DEF Cleanup, Return
<1>14. ASSUME NEW p \in Tasks, Account(p) PROVE TasksHaveRows'
  BY <1>14 DEF Account, Return
<1>15. ASSUME NEW p \in Tasks, AccountFails(p) PROVE TasksHaveRows'
  BY <1>15 DEF AccountFails, NextHost
<1>16. ASSUME NEW p \in Tasks, BumpAttempts(p) PROVE TasksHaveRows'
  BY <1>16 DEF BumpAttempts
<1>17. ASSUME NEW p \in Tasks, FailRequest(p) PROVE TasksHaveRows'
  BY <1>17 DEF FailRequest
<1>18. ASSUME NEW p \in Tasks, FailEvent(p) PROVE TasksHaveRows'
  BY <1>18 DEF FailEvent, Return
<1>19. ASSUME NEW p \in Tasks, Requeue(p) PROVE TasksHaveRows'
  BY <1>19 DEF Requeue, Return
<1>20. ASSUME NEW p \in Tasks, DeleteVm(p) PROVE TasksHaveRows'
  BY <1>20 DEF DeleteVm
<1>21. ASSUME NEW p \in Tasks, Settle(p) PROVE TasksHaveRows'
  BY <1>21 DEF Settle, Return
<1>22. ASSUME NEW p \in Tasks, SelectBatch(p) PROVE TasksHaveRows'
  BY <1>22 DEF SelectBatch
<1>23. ASSUME NEW p \in Tasks, NextRow(p) PROVE TasksHaveRows'
  BY <1>23 DEF NextRow
<1>24. ASSUME NEW p \in Tasks, EndTick(p) PROVE TasksHaveRows'
  BY <1>24 DEF EndTick
<1>25. ASSUME NEW p \in Tasks, Tick(p) PROVE TasksHaveRows'
  BY <1>25 DEF Tick
<1>26. ASSUME NEW p \in Tasks, LockLost(p) PROVE TasksHaveRows'
  BY <1>26 DEF LockLost
<1>27. ASSUME NEW p \in Tasks, Abort(p) PROVE TasksHaveRows'
  BY <1>27 DEF Abort
<1>28. ASSUME NEW p \in Tasks, NEW r \in Requests, PostEnvironment(p, r) PROVE TasksHaveRows'
  BY <1>28 DEF PostEnvironment
<1>29. ASSUME NEW p \in Tasks, NEW r \in Requests, ReleaseWaiting(p, r) PROVE TasksHaveRows'
  BY <1>29 DEF ReleaseWaiting
<1>30. ASSUME NEW p \in Tasks, NEW r \in Requests, ReleaseAssigned(p, r) PROVE TasksHaveRows'
  BY <1>30 DEF ReleaseAssigned
<1>31. ASSUME NEW r \in Requests, ClaimAges(r) PROVE TasksHaveRows'
  BY <1>31 DEF ClaimAges
<1>32. ASSUME NEW t \in Teams, ChangePlan(t) PROVE TasksHaveRows'
  BY <1>32 DEF ChangePlan
<1>33. ASSUME NEW v \in VMs, Reap(v) PROVE TasksHaveRows'
  BY <1>33 DEF Reap
<1>34. CASE UNCHANGED vars
  BY <1>34 DEF vars
<1>q. QED
  BY <1>1, <1>2, <1>3, <1>4, <1>5, <1>6, <1>7, <1>8, <1>9, <1>10, <1>11,
     <1>12, <1>13, <1>14, <1>15, <1>16, <1>17, <1>18, <1>19, <1>20, <1>21,
     <1>22, <1>23, <1>24, <1>25, <1>26, <1>27, <1>28, <1>29, <1>30, <1>31,
     <1>32, <1>33, <1>34
     DEF Next, Proceed

(* The initial state of every instance is in the domains.                  *)
LEMMA TypeInit == Init => TypeOK /\ TasksHaveRows
<1> SUFFICES ASSUME Init PROVE TypeOK /\ TasksHaveRows
  OBVIOUS
<1> USE AllocatorAssumption DEF Init
<1>1. planCap \in [Teams -> Nat] /\ peakCap \in [Teams -> Nat]
  OBVIOUS
<1>2. StatusTyped /\ TasksTyped
  BY DEF StatusTyped, TasksTyped, Statuses, Steps, ClaimSteps
<1>3. snap \in [Tasks -> [Teams -> Nat]] /\ todo \in [Tasks -> SUBSET Requests]
  OBVIOUS
<1>4. /\ limitHooks \in [Requests -> 0..2] /\ starts \in [Requests -> 0..2]
      /\ stops \in [Requests -> 0..2] /\ failures \in [Requests -> 0..2]
      /\ attempts \in [Requests -> Nat] /\ aborts \in 0..MaxAborts
  OBVIOUS
<1>5. TasksHaveRows
  BY DEF TasksHaveRows
<1>q. QED
  BY <1>1, <1>2, <1>3, <1>4, <1>5 DEF TypeOK, StatusTyped, TasksTyped

(* No reachable row, VM, task or meter entry leaves its domain, and a task *)
(* that is under way always has a row to work on.                          *)
THEOREM TypeCorrect == Spec => [](TypeOK /\ TasksHaveRows)
<1>1. Init => TypeOK /\ TasksHaveRows
  BY TypeInit
<1>2. TypeOK /\ TasksHaveRows /\ [Next]_vars => (TypeOK /\ TasksHaveRows)'
  BY TypeStep, RowsStep
<1>q. QED
  BY <1>1, <1>2, PTL DEF Spec

-----------------------------------------------------------------------------
(* SlotsWithinPlan is not inductive: a grant looks at the cap the task has *)
(* read, so what has been read must be bounded by what the plan has been.  *)
CapsWithinPeak ==
  /\ \A t \in Teams : planCap[t] <= peakCap[t]
  /\ \A p \in Tasks, t \in Teams : snap[p][t] <= peakCap[t]
  /\ \A p \in Tasks : pc[p] = "reserve" => cap[p] <= peakCap[TeamOf[req[p]]]

LEMMA HoldersFinite ==
  \A t : /\ IsFiniteSet(Holders(t)) /\ Occupancy(t) \in Nat
        /\ Occupancy(t)' \in Nat
  BY AllocatorAssumption, FS_Subset, FS_CardinalityType DEF Holders, Occupancy

(* A step that makes no run a holder raises no team's occupancy.           *)
NoNewHolder == \A r \in Requests : status'[r] \in Holding => status[r] \in Holding

LEMMA OccupancyShrinks ==
  ASSUME NoNewHolder, NEW t PROVE Occupancy(t)' <= Occupancy(t)
<1>1. Holders(t)' \subseteq Holders(t)
  BY DEF NoNewHolder, Holders
<1>q. QED
  BY <1>1, HoldersFinite, FS_Subset DEF Occupancy

(* What tasks have read stays within what plans have been.                 *)
LEMMA CapsStep ==
  TypeOK /\ TasksHaveRows /\ CapsWithinPeak /\ [Next]_vars => CapsWithinPeak'
<1> SUFFICES ASSUME TypeOK, TasksHaveRows, CapsWithinPeak, [Next]_vars
             PROVE  CapsWithinPeak'
  OBVIOUS
<1> /\ planCap \in [Teams -> Nat] /\ peakCap \in [Teams -> Nat]
    /\ pc \in [Tasks -> Steps] /\ req \in [Tasks -> Requests \cup {0}]
    /\ cap \in [Tasks -> Nat] /\ snap \in [Tasks -> [Teams -> Nat]]
    /\ todo \in [Tasks -> SUBSET Requests]
  BY DEF TypeOK
<1> TeamOf \in [Requests -> Teams] /\ PlanCaps \subseteq Nat
  BY AllocatorAssumption
<1> USE DEF CapsWithinPeak, Goto, Steps, ClaimSteps, planVars, batchVars, taskVars
<1>1. ASSUME NEW p \in Tasks, EffectivePlan(p) PROVE CapsWithinPeak'
  BY <1>1 DEF EffectivePlan, TasksHaveRows
<1>2. ASSUME NEW p \in Tasks, SlotRefused(p) PROVE CapsWithinPeak'
  BY <1>2 DEF SlotRefused, Return
<1>3. ASSUME NEW p \in Tasks, SlotGranted(p) PROVE CapsWithinPeak'
  BY <1>3 DEF SlotGranted
<1>4. ASSUME NEW p \in Tasks, SlotGone(p) PROVE CapsWithinPeak'
  BY <1>4 DEF SlotGone, Return
<1>5. ASSUME NEW p \in Tasks, HostsFound(p) PROVE CapsWithinPeak'
  BY <1>5 DEF HostsFound
<1>6. ASSUME NEW p \in Tasks, NoHostFits(p) PROVE CapsWithinPeak'
  BY <1>6 DEF NoHostFits, Return
<1>7. ASSUME NEW p \in Tasks, CreateVm(p) PROVE CapsWithinPeak'
  BY <1>7 DEF CreateVm
<1>8. ASSUME NEW p \in Tasks, CreateVmFails(p) PROVE CapsWithinPeak'
  BY <1>8 DEF CreateVmFails, NextHost
<1>9. ASSUME NEW p \in Tasks, CreateVmTimesOut(p) PROVE CapsWithinPeak'
  BY <1>9 DEF CreateVmTimesOut, NextHost
<1>10. ASSUME NEW p \in Tasks, RecordVm(p) PROVE CapsWithinPeak'
  BY <1>10 DEF RecordVm
<1>11. ASSUME NEW p \in Tasks, ClaimLost(p) PROVE CapsWithinPeak'
  BY <1>11 DEF ClaimLost
<1>12. ASSUME NEW p \in Tasks, RecordVmFails(p) PROVE CapsWithinPeak'
  BY <1>12 DEF RecordVmFails, NextHost
<1>13. ASSUME NEW p \in Tasks, Cleanup(p) PROVE CapsWithinPeak'
  BY <1>13 DEF Cleanup, Return
<1>14. ASSUME NEW p \in Tasks, Account(p) PROVE CapsWithinPeak'
  BY <1>14 DEF Account, Return
<1>15. ASSUME NEW p \in Tasks, AccountFails(p) PROVE CapsWithinPeak'
  BY <1>15 DEF AccountFails, NextHost
<1>16. ASSUME NEW p \in Tasks, BumpAttempts(p) PROVE CapsWithinPeak'
  BY <1>16 DEF BumpAttempts
<1>17. ASSUME NEW p \in Tasks, FailRequest(p) PROVE CapsWithinPeak'
  BY <1>17 DEF FailRequest
<1>18. ASSUME NEW p \in Tasks, FailEvent(p) PROVE CapsWithinPeak'
  BY <1>18 DEF FailEvent, Return
<1>19. ASSUME NEW p \in Tasks, Requeue(p) PROVE CapsWithinPeak'
  BY <1>19 DEF Requeue, Return
<1>20. ASSUME NEW p \in Tasks, DeleteVm(p) PROVE CapsWithinPeak'
  BY <1>20 DEF DeleteVm
<1>21. ASSUME NEW p \in Tasks, Settle(p) PROVE CapsWithinPeak'
  BY <1>21 DEF Settle, Return
<1>22. ASSUME NEW p \in Tasks, SelectBatch(p) PROVE CapsWithinPeak'
  BY <1>22 DEF SelectBatch
<1>23. ASSUME NEW p \in Tasks, NextRow(p) PROVE CapsWithinPeak'
  BY <1>23 DEF NextRow
<1>24. ASSUME NEW p \in Tasks, EndTick(p) PROVE CapsWithinPeak'
  BY <1>24 DEF EndTick
<1>25. ASSUME NEW p \in Tasks, Tick(p) PROVE CapsWithinPeak'
  BY <1>25 DEF Tick
<1>26. ASSUME NEW p \in Tasks, LockLost(p) PROVE CapsWithinPeak'
  BY <1>26 DEF LockLost
<1>27. ASSUME NEW p \in Tasks, Abort(p) PROVE CapsWithinPeak'
  BY <1>27 DEF Abort
<1>28. ASSUME NEW p \in Tasks, NEW r \in Requests, PostEnvironment(p, r) PROVE CapsWithinPeak'
  BY <1>28 DEF PostEnvironment
<1>29. ASSUME NEW p \in Tasks, NEW r \in Requests, ReleaseWaiting(p, r) PROVE CapsWithinPeak'
  BY <1>29 DEF ReleaseWaiting
<1>30. ASSUME NEW p \in Tasks, NEW r \in Requests, ReleaseAssigned(p, r) PROVE CapsWithinPeak'
  BY <1>30 DEF ReleaseAssigned
<1>31. ASSUME NEW r \in Requests, ClaimAges(r) PROVE CapsWithinPeak'
  BY <1>31 DEF ClaimAges
<1>32. ASSUME NEW t \in Teams, ChangePlan(t) PROVE CapsWithinPeak'
  BY <1>32 DEF ChangePlan
<1>33. ASSUME NEW v \in VMs, Reap(v) PROVE CapsWithinPeak'
  BY <1>33 DEF Reap
<1>34. CASE UNCHANGED vars
  BY <1>34 DEF vars
<1>q. QED
  BY <1>1, <1>2, <1>3, <1>4, <1>5, <1>6, <1>7, <1>8, <1>9, <1>10, <1>11,
     <1>12, <1>13, <1>14, <1>15, <1>16, <1>17, <1>18, <1>19, <1>20, <1>21,
     <1>22, <1>23, <1>24, <1>25, <1>26, <1>27, <1>28, <1>29, <1>30, <1>31,
     <1>32, <1>33, <1>34
     DEF Next, Proceed

(* Only a grant adds a holder, and it counts under the lock it claims in.  *)
LEMMA SlotsStep ==
  /\ TypeOK /\ TasksHaveRows /\ CapsWithinPeak /\ SlotsWithinPlan /\ [Next]_vars
  => SlotsWithinPlan'
<1> SUFFICES ASSUME TypeOK, TasksHaveRows, CapsWithinPeak, SlotsWithinPlan,
                    [Next]_vars
             PROVE  SlotsWithinPlan'
  OBVIOUS
<1> /\ status \in [Requests -> Statuses] /\ peakCap \in [Teams -> Nat]
    /\ cap \in [Tasks -> Nat]
  BY DEF TypeOK
<1>a. ASSUME NoNewHolder,
             \A t \in Teams : peakCap'[t] \in Nat /\ peakCap[t] <= peakCap'[t]
      PROVE  SlotsWithinPlan'
  <2> SUFFICES ASSUME NEW t \in Teams PROVE Occupancy(t)' <= peakCap'[t]
    BY DEF SlotsWithinPlan
  <2>1. /\ Occupancy(t)' <= Occupancy(t) /\ Occupancy(t) <= peakCap[t]
        /\ peakCap[t] <= peakCap'[t]
    BY <1>a, OccupancyShrinks DEF SlotsWithinPlan
  <2>2. Occupancy(t)' \in Nat /\ Occupancy(t) \in Nat
    BY HoldersFinite
  <2>q. QED
    BY <1>a, <2>1, <2>2
<1>b. ASSUME NoNewHolder, UNCHANGED planVars PROVE SlotsWithinPlan'
  BY <1>a, <1>b DEF planVars
<1>c. ASSUME UNCHANGED planVars, UNCHANGED rowVars PROVE SlotsWithinPlan'
  BY <1>b, <1>c DEF NoNewHolder, rowVars
<1>1. ASSUME NEW p \in Tasks, EffectivePlan(p) PROVE SlotsWithinPlan'
  BY <1>1, <1>c DEF EffectivePlan
<1>2. ASSUME NEW p \in Tasks, SlotRefused(p) PROVE SlotsWithinPlan'
  BY <1>2, <1>b DEF SlotRefused, NoNewHolder, Holding
<1>3. ASSUME NEW p \in Tasks, SlotGranted(p) PROVE SlotsWithinPlan'
  <2> DEFINE r == req[p]
  <2>1. r \in Requests /\ TeamOf[r] \in Teams
    BY <1>3, AllocatorAssumption DEF SlotGranted, TasksHaveRows
  <2>2. /\ Occupancy(TeamOf[r]) < cap[p] /\ cap[p] <= peakCap[TeamOf[r]]
        /\ status[r] = "queued" /\ status' = [status EXCEPT ![r] = "assigning"]
        /\ UNCHANGED planVars
    BY <1>3 DEF SlotGranted, SetStatus, CapsWithinPeak
  <2> SUFFICES ASSUME NEW t \in Teams PROVE Occupancy(t)' <= peakCap'[t]
    BY DEF SlotsWithinPlan
  <2>3. CASE t = TeamOf[r]
    <3>1. Holders(t)' = Holders(t) \cup {r} /\ r \notin Holders(t)
      BY <2>1, <2>2, <2>3 DEF Holders, Holding
    <3>2. Occupancy(t)' = Occupancy(t) + 1
      BY <3>1, HoldersFinite, FS_AddElement DEF Occupancy
    <3>q. QED
      BY <2>1, <2>2, <2>3, <3>2, HoldersFinite DEF planVars
  <2>4. CASE t # TeamOf[r]
    <3>1. Holders(t)' = Holders(t)
      BY <2>1, <2>2, <2>4 DEF Holders, Holding
    <3>q. QED
      BY <2>2, <3>1 DEF Occupancy, SlotsWithinPlan, planVars
  <2>q. QED
    BY <2>3, <2>4
<1>4. ASSUME NEW p \in Tasks, SlotGone(p) PROVE SlotsWithinPlan'
  BY <1>4, <1>c DEF SlotGone
<1>5. ASSUME NEW p \in Tasks, HostsFound(p) PROVE SlotsWithinPlan'
  BY <1>5, <1>c DEF HostsFound
<1>6. ASSUME NEW p \in Tasks, NoHostFits(p) PROVE SlotsWithinPlan'
  BY <1>6, <1>b DEF NoHostFits, NoNewHolder, Holding, SetIfAssigning, SetStatus
<1>7. ASSUME NEW p \in Tasks, CreateVm(p) PROVE SlotsWithinPlan'
  BY <1>7, <1>c DEF CreateVm
<1>8. ASSUME NEW p \in Tasks, CreateVmFails(p) PROVE SlotsWithinPlan'
  BY <1>8, <1>c DEF CreateVmFails
<1>9. ASSUME NEW p \in Tasks, CreateVmTimesOut(p) PROVE SlotsWithinPlan'
  BY <1>9, <1>c DEF CreateVmTimesOut
<1>10. ASSUME NEW p \in Tasks, RecordVm(p) PROVE SlotsWithinPlan'
  BY <1>10, <1>b DEF RecordVm, NoNewHolder, Holding, SetStatus
<1>11. ASSUME NEW p \in Tasks, ClaimLost(p) PROVE SlotsWithinPlan'
  BY <1>11, <1>c DEF ClaimLost
<1>12. ASSUME NEW p \in Tasks, RecordVmFails(p) PROVE SlotsWithinPlan'
  BY <1>12, <1>c DEF RecordVmFails
<1>13. ASSUME NEW p \in Tasks, Cleanup(p) PROVE SlotsWithinPlan'
  BY <1>13, <1>c DEF Cleanup
<1>14. ASSUME NEW p \in Tasks, Account(p) PROVE SlotsWithinPlan'
  BY <1>14, <1>c DEF Account
<1>15. ASSUME NEW p \in Tasks, AccountFails(p) PROVE SlotsWithinPlan'
  BY <1>15, <1>c DEF AccountFails
<1>16. ASSUME NEW p \in Tasks, BumpAttempts(p) PROVE SlotsWithinPlan'
  BY <1>16, <1>b DEF BumpAttempts, NoNewHolder, Holding
<1>17. ASSUME NEW p \in Tasks, FailRequest(p) PROVE SlotsWithinPlan'
  BY <1>17, <1>b DEF FailRequest, NoNewHolder, Holding, SetIfAssigning, SetStatus
<1>18. ASSUME NEW p \in Tasks, FailEvent(p) PROVE SlotsWithinPlan'
  BY <1>18, <1>c DEF FailEvent
<1>19. ASSUME NEW p \in Tasks, Requeue(p) PROVE SlotsWithinPlan'
  BY <1>19, <1>b DEF Requeue, NoNewHolder, Holding, SetIfAssigning, SetStatus
<1>20. ASSUME NEW p \in Tasks, DeleteVm(p) PROVE SlotsWithinPlan'
  BY <1>20, <1>c DEF DeleteVm
<1>21. ASSUME NEW p \in Tasks, Settle(p) PROVE SlotsWithinPlan'
  BY <1>21, <1>b DEF Settle, NoNewHolder, Holding, SetStatus
<1>22. ASSUME NEW p \in Tasks, SelectBatch(p) PROVE SlotsWithinPlan'
  BY <1>22, <1>c DEF SelectBatch
<1>23. ASSUME NEW p \in Tasks, NextRow(p) PROVE SlotsWithinPlan'
  BY <1>23, <1>c DEF NextRow
<1>24. ASSUME NEW p \in Tasks, EndTick(p) PROVE SlotsWithinPlan'
  BY <1>24, <1>c DEF EndTick
<1>25. ASSUME NEW p \in Tasks, Tick(p) PROVE SlotsWithinPlan'
  BY <1>25, <1>b DEF Tick, NoNewHolder, Holding
<1>26. ASSUME NEW p \in Tasks, LockLost(p) PROVE SlotsWithinPlan'
  BY <1>26, <1>c DEF LockLost
<1>27. ASSUME NEW p \in Tasks, Abort(p) PROVE SlotsWithinPlan'
  BY <1>27, <1>b DEF Abort, NoNewHolder
<1>28. ASSUME NEW p \in Tasks, NEW r \in Requests, PostEnvironment(p, r) PROVE SlotsWithinPlan'
  BY <1>28, <1>b DEF PostEnvironment, NoNewHolder, Holding
<1>29. ASSUME NEW p \in Tasks, NEW r \in Requests, ReleaseWaiting(p, r) PROVE SlotsWithinPlan'
  BY <1>29, <1>b DEF ReleaseWaiting, NoNewHolder, Holding, SetStatus
<1>30. ASSUME NEW p \in Tasks, NEW r \in Requests, ReleaseAssigned(p, r) PROVE SlotsWithinPlan'
  BY <1>30, <1>c DEF ReleaseAssigned
<1>31. ASSUME NEW r \in Requests, ClaimAges(r) PROVE SlotsWithinPlan'
  BY <1>31, <1>b DEF ClaimAges, NoNewHolder, Holding
<1>32. ASSUME NEW t \in Teams, ChangePlan(t) PROVE SlotsWithinPlan'
  <2>1. NoNewHolder
    BY <1>32 DEF ChangePlan, NoNewHolder, rowVars
  <2>2. \A u \in Teams : peakCap'[u] \in Nat /\ peakCap[u] <= peakCap'[u]
    BY <1>32, AllocatorAssumption DEF ChangePlan
  <2>q. QED
    BY <1>a, <2>1, <2>2
<1>33. ASSUME NEW v \in VMs, Reap(v) PROVE SlotsWithinPlan'
  BY <1>33, <1>c DEF Reap
<1>34. CASE UNCHANGED vars
  BY <1>34, <1>c DEF vars
<1>q. QED
  BY <1>1, <1>2, <1>3, <1>4, <1>5, <1>6, <1>7, <1>8, <1>9, <1>10, <1>11,
     <1>12, <1>13, <1>14, <1>15, <1>16, <1>17, <1>18, <1>19, <1>20, <1>21,
     <1>22, <1>23, <1>24, <1>25, <1>26, <1>27, <1>28, <1>29, <1>30, <1>31,
     <1>32, <1>33, <1>34
     DEF Next, Proceed

LEMMA SlotsInit == Init => CapsWithinPeak /\ SlotsWithinPlan
<1> SUFFICES ASSUME Init PROVE CapsWithinPeak /\ SlotsWithinPlan
  OBVIOUS
<1>1. planCap \in [Teams -> Nat] /\ peakCap \in [Teams -> Nat]
  BY TypeInit DEF TypeOK
<1>2. CapsWithinPeak
  BY <1>1 DEF Init, CapsWithinPeak
<1>3. \A t \in Teams : Holders(t) = {}
  BY DEF Init, Holders, Holding
<1>4. SlotsWithinPlan
  BY <1>1, <1>3, FS_EmptySet DEF SlotsWithinPlan, Occupancy
<1>q. QED
  BY <1>2, <1>4

(* However many handlers and ticks decide at once and however stale the    *)
(* plans they have read are, no team ever holds more slots than the        *)
(* largest cap it has had: the count and the claim of reserveSlot are one  *)
(* step and nothing else turns a run into a holder.                        *)
THEOREM SlotsStayWithinPlan == Spec => []SlotsWithinPlan
<1> DEFINE Inv == TypeOK /\ TasksHaveRows /\ CapsWithinPeak /\ SlotsWithinPlan
<1>1. Init => Inv
  BY TypeInit, SlotsInit
<1>2. Inv /\ [Next]_vars => Inv'
  BY TypeStep, RowsStep, CapsStep, SlotsStep
<1>3. Inv => SlotsWithinPlan
  OBVIOUS
<1>q. QED
  BY <1>1, <1>2, <1>3, PTL DEF Spec

-----------------------------------------------------------------------------
(* A release in progress only ever finds its run assigned or already       *)
(* released by another release, which is why its unconditional UPDATE      *)
(* revives nothing.                                                        *)
SettlesAssigned ==
  \A p \in Tasks : pc[p] \in {"deleteVm", "settle"} =>
    status[req[p]] \in {"assigned", "released"}

(* An assigned run can only become released, and a run that is over stays  *)
(* as it is.                                                               *)
NoWayBack ==
  \A r \in Requests :
    /\ status[r] = "assigned" => status'[r] \in {"assigned", "released"}
    /\ status[r] \in Final => status'[r] = status[r]

LEMMA NoWayBackStep ==
  TypeOK /\ TasksHaveRows /\ SettlesAssigned /\ [Next]_vars => NoWayBack
<1> SUFFICES ASSUME TypeOK, TasksHaveRows, SettlesAssigned, [Next]_vars
             PROVE  NoWayBack
  OBVIOUS
<1> status \in [Requests -> Statuses]
  BY DEF TypeOK
<1>a. ASSUME UNCHANGED rowVars PROVE NoWayBack
  BY <1>a DEF NoWayBack, rowVars
<1> USE DEF NoWayBack, Final
<1>1. ASSUME NEW p \in Tasks, EffectivePlan(p) PROVE NoWayBack
  BY <1>1, <1>a DEF EffectivePlan
<1>2. ASSUME NEW p \in Tasks, SlotRefused(p) PROVE NoWayBack
  BY <1>2 DEF SlotRefused
<1>3. ASSUME NEW p \in Tasks, SlotGranted(p) PROVE NoWayBack
  BY <1>3 DEF SlotGranted, SetStatus, SettlesAssigned
<1>4. ASSUME NEW p \in Tasks, SlotGone(p) PROVE NoWayBack
  BY <1>4, <1>a DEF SlotGone
<1>5. ASSUME NEW p \in Tasks, HostsFound(p) PROVE NoWayBack
  BY <1>5, <1>a DEF HostsFound
<1>6. ASSUME NEW p \in Tasks, NoHostFits(p) PROVE NoWayBack
  BY <1>6 DEF NoHostFits, SetIfAssigning, SetStatus
<1>7. ASSUME NEW p \in Tasks, CreateVm(p) PROVE NoWayBack
  BY <1>7, <1>a DEF CreateVm
<1>8. ASSUME NEW p \in Tasks, CreateVmFails(p) PROVE NoWayBack
  BY <1>8, <1>a DEF CreateVmFails
<1>9. ASSUME NEW p \in Tasks, CreateVmTimesOut(p) PROVE NoWayBack
  BY <1>9, <1>a DEF CreateVmTimesOut
<1>10. ASSUME NEW p \in Tasks, RecordVm(p) PROVE NoWayBack
  BY <1>10 DEF RecordVm, SetStatus, SettlesAssigned
<1>11. ASSUME NEW p \in Tasks, ClaimLost(p) PROVE NoWayBack
  BY <1>11, <1>a DEF ClaimLost
<1>12. ASSUME NEW p \in Tasks, RecordVmFails(p) PROVE NoWayBack
  BY <1>12, <1>a DEF RecordVmFails
<1>13. ASSUME NEW p \in Tasks, Cleanup(p) PROVE NoWayBack
  BY <1>13, <1>a DEF Cleanup
<1>14. ASSUME NEW p \in Tasks, Account(p) PROVE NoWayBack
  BY <1>14, <1>a DEF Account
<1>15. ASSUME NEW p \in Tasks, AccountFails(p) PROVE NoWayBack
  BY <1>15, <1>a DEF AccountFails
<1>16. ASSUME NEW p \in Tasks, BumpAttempts(p) PROVE NoWayBack
  BY <1>16 DEF BumpAttempts
<1>17. ASSUME NEW p \in Tasks, FailRequest(p) PROVE NoWayBack
  BY <1>17 DEF FailRequest, SetIfAssigning, SetStatus
<1>18. ASSUME NEW p \in Tasks, FailEvent(p) PROVE NoWayBack
  BY <1>18, <1>a DEF FailEvent
<1>19. ASSUME NEW p \in Tasks, Requeue(p) PROVE NoWayBack
  BY <1>19 DEF Requeue, SetIfAssigning, SetStatus
<1>20. ASSUME NEW p \in Tasks, DeleteVm(p) PROVE NoWayBack
  BY <1>20, <1>a DEF DeleteVm
<1>21. ASSUME NEW p \in Tasks, Settle(p) PROVE NoWayBack
  BY <1>21 DEF Settle, SetStatus, SettlesAssigned
<1>22. ASSUME NEW p \in Tasks, SelectBatch(p) PROVE NoWayBack
  BY <1>22, <1>a DEF SelectBatch
<1>23. ASSUME NEW p \in Tasks, NextRow(p) PROVE NoWayBack
  BY <1>23, <1>a DEF NextRow
<1>24. ASSUME NEW p \in Tasks, EndTick(p) PROVE NoWayBack
  BY <1>24, <1>a DEF EndTick
<1>25. ASSUME NEW p \in Tasks, Tick(p) PROVE NoWayBack
  BY <1>25 DEF Tick
<1>26. ASSUME NEW p \in Tasks, LockLost(p) PROVE NoWayBack
  BY <1>26, <1>a DEF LockLost
<1>27. ASSUME NEW p \in Tasks, Abort(p) PROVE NoWayBack
  BY <1>27 DEF Abort
<1>28. ASSUME NEW p \in Tasks, NEW r \in Requests, PostEnvironment(p, r) PROVE NoWayBack
  BY <1>28 DEF PostEnvironment
<1>29. ASSUME NEW p \in Tasks, NEW r \in Requests, ReleaseWaiting(p, r) PROVE NoWayBack
  BY <1>29 DEF ReleaseWaiting, SetStatus, Waiting
<1>30. ASSUME NEW p \in Tasks, NEW r \in Requests, ReleaseAssigned(p, r) PROVE NoWayBack
  BY <1>30, <1>a DEF ReleaseAssigned
<1>31. ASSUME NEW r \in Requests, ClaimAges(r) PROVE NoWayBack
  BY <1>31 DEF ClaimAges
<1>32. ASSUME NEW t \in Teams, ChangePlan(t) PROVE NoWayBack
  BY <1>32, <1>a DEF ChangePlan
<1>33. ASSUME NEW v \in VMs, Reap(v) PROVE NoWayBack
  BY <1>33, <1>a DEF Reap
<1>34. CASE UNCHANGED vars
  BY <1>34, <1>a DEF vars
<1>q. QED
  BY <1>1, <1>2, <1>3, <1>4, <1>5, <1>6, <1>7, <1>8, <1>9, <1>10, <1>11,
     <1>12, <1>13, <1>14, <1>15, <1>16, <1>17, <1>18, <1>19, <1>20, <1>21,
     <1>22, <1>23, <1>24, <1>25, <1>26, <1>27, <1>28, <1>29, <1>30, <1>31,
     <1>32, <1>33, <1>34
     DEF Next, Proceed

LEMMA SettlesStep ==
  /\ TypeOK /\ TasksHaveRows /\ SettlesAssigned /\ [Next]_vars
  => SettlesAssigned'
<1> SUFFICES ASSUME TypeOK, TasksHaveRows, SettlesAssigned, [Next]_vars,
                    NEW q \in Tasks, (pc[q] \in {"deleteVm", "settle"})'
             PROVE  status'[req'[q]] \in {"assigned", "released"}
  BY DEF SettlesAssigned
<1> /\ pc \in [Tasks -> Steps] /\ req \in [Tasks -> Requests \cup {0}]
    /\ status \in [Requests -> Statuses]
  BY DEF TypeOK
<1>w. NoWayBack
  BY NoWayBackStep
<1>a. ASSUME pc[q] \in {"deleteVm", "settle"}, req'[q] = req[q]
      PROVE  status'[req'[q]] \in {"assigned", "released"}
  BY <1>a, <1>w DEF NoWayBack, Final, SettlesAssigned, TasksHaveRows
<1> USE <1>a DEF Goto, Steps, ClaimSteps, taskVars
<1>1. ASSUME NEW p \in Tasks, EffectivePlan(p) PROVE status'[req'[q]] \in {"assigned", "released"}
  BY <1>1 DEF EffectivePlan
<1>2. ASSUME NEW p \in Tasks, SlotRefused(p) PROVE status'[req'[q]] \in {"assigned", "released"}
  BY <1>2 DEF SlotRefused, Return
<1>3. ASSUME NEW p \in Tasks, SlotGranted(p) PROVE status'[req'[q]] \in {"assigned", "released"}
  BY <1>3 DEF SlotGranted
<1>4. ASSUME NEW p \in Tasks, SlotGone(p) PROVE status'[req'[q]] \in {"assigned", "released"}
  BY <1>4 DEF SlotGone, Return
<1>5. ASSUME NEW p \in Tasks, HostsFound(p) PROVE status'[req'[q]] \in {"assigned", "released"}
  BY <1>5 DEF HostsFound
<1>6. ASSUME NEW p \in Tasks, NoHostFits(p) PROVE status'[req'[q]] \in {"assigned", "released"}
  BY <1>6 DEF NoHostFits, Return
<1>7. ASSUME NEW p \in Tasks, CreateVm(p) PROVE status'[req'[q]] \in {"assigned", "released"}
  BY <1>7 DEF CreateVm
<1>8. ASSUME NEW p \in Tasks, CreateVmFails(p) PROVE status'[req'[q]] \in {"assigned", "released"}
  BY <1>8 DEF CreateVmFails, NextHost
<1>9. ASSUME NEW p \in Tasks, CreateVmTimesOut(p)
      PROVE status'[req'[q]] \in {"assigned", "released"}
  BY <1>9 DEF CreateVmTimesOut, NextHost
<1>10. ASSUME NEW p \in Tasks, RecordVm(p) PROVE status'[req'[q]] \in {"assigned", "released"}
  BY <1>10 DEF RecordVm
<1>11. ASSUME NEW p \in Tasks, ClaimLost(p) PROVE status'[req'[q]] \in {"assigned", "released"}
  BY <1>11 DEF ClaimLost
<1>12. ASSUME NEW p \in Tasks, RecordVmFails(p) PROVE status'[req'[q]] \in {"assigned", "released"}
  BY <1>12 DEF RecordVmFails, NextHost
<1>13. ASSUME NEW p \in Tasks, Cleanup(p) PROVE status'[req'[q]] \in {"assigned", "released"}
  BY <1>13 DEF Cleanup, Return
<1>14. ASSUME NEW p \in Tasks, Account(p) PROVE status'[req'[q]] \in {"assigned", "released"}
  BY <1>14 DEF Account, Return
<1>15. ASSUME NEW p \in Tasks, AccountFails(p) PROVE status'[req'[q]] \in {"assigned", "released"}
  BY <1>15 DEF AccountFails, NextHost
<1>16. ASSUME NEW p \in Tasks, BumpAttempts(p) PROVE status'[req'[q]] \in {"assigned", "released"}
  BY <1>16 DEF BumpAttempts
<1>17. ASSUME NEW p \in Tasks, FailRequest(p) PROVE status'[req'[q]] \in {"assigned", "released"}
  BY <1>17 DEF FailRequest
<1>18. ASSUME NEW p \in Tasks, FailEvent(p) PROVE status'[req'[q]] \in {"assigned", "released"}
  BY <1>18 DEF FailEvent, Return
<1>19. ASSUME NEW p \in Tasks, Requeue(p) PROVE status'[req'[q]] \in {"assigned", "released"}
  BY <1>19 DEF Requeue, Return
<1>20. ASSUME NEW p \in Tasks, DeleteVm(p) PROVE status'[req'[q]] \in {"assigned", "released"}
  BY <1>20 DEF DeleteVm
<1>21. ASSUME NEW p \in Tasks, Settle(p) PROVE status'[req'[q]] \in {"assigned", "released"}
  BY <1>21 DEF Settle, Return
<1>22. ASSUME NEW p \in Tasks, SelectBatch(p) PROVE status'[req'[q]] \in {"assigned", "released"}
  BY <1>22 DEF SelectBatch
<1>23. ASSUME NEW p \in Tasks, NextRow(p) PROVE status'[req'[q]] \in {"assigned", "released"}
  BY <1>23 DEF NextRow
<1>24. ASSUME NEW p \in Tasks, EndTick(p) PROVE status'[req'[q]] \in {"assigned", "released"}
  BY <1>24 DEF EndTick
<1>25. ASSUME NEW p \in Tasks, Tick(p) PROVE status'[req'[q]] \in {"assigned", "released"}
  BY <1>25 DEF Tick
<1>26. ASSUME NEW p \in Tasks, LockLost(p) PROVE status'[req'[q]] \in {"assigned", "released"}
  BY <1>26 DEF LockLost
<1>27. ASSUME NEW p \in Tasks, Abort(p) PROVE status'[req'[q]] \in {"assigned", "released"}
  BY <1>27 DEF Abort
<1>28. ASSUME NEW p \in Tasks, NEW r \in Requests, PostEnvironment(p, r)
      PROVE status'[req'[q]] \in {"assigned", "released"}
  BY <1>28 DEF PostEnvironment
<1>29. ASSUME NEW p \in Tasks, NEW r \in Requests, ReleaseWaiting(p, r)
      PROVE status'[req'[q]] \in {"assigned", "released"}
  BY <1>29 DEF ReleaseWaiting
<1>30. ASSUME NEW p \in Tasks, NEW r \in Requests, ReleaseAssigned(p, r)
      PROVE status'[req'[q]] \in {"assigned", "released"}
  <2>1. CASE q = p
    BY <1>30, <2>1 DEF ReleaseAssigned, rowVars
  <2>2. CASE q # p
    BY <1>30, <2>2 DEF ReleaseAssigned
  <2>q. QED
    BY <2>1, <2>2
<1>31. ASSUME NEW r \in Requests, ClaimAges(r) PROVE status'[req'[q]] \in {"assigned", "released"}
  BY <1>31 DEF ClaimAges
<1>32. ASSUME NEW t \in Teams, ChangePlan(t) PROVE status'[req'[q]] \in {"assigned", "released"}
  BY <1>32 DEF ChangePlan
<1>33. ASSUME NEW v \in VMs, Reap(v) PROVE status'[req'[q]] \in {"assigned", "released"}
  BY <1>33 DEF Reap
<1>34. CASE UNCHANGED vars
  BY <1>34 DEF vars
<1>q. QED
  BY <1>1, <1>2, <1>3, <1>4, <1>5, <1>6, <1>7, <1>8, <1>9, <1>10, <1>11,
     <1>12, <1>13, <1>14, <1>15, <1>16, <1>17, <1>18, <1>19, <1>20, <1>21,
     <1>22, <1>23, <1>24, <1>25, <1>26, <1>27, <1>28, <1>29, <1>30, <1>31,
     <1>32, <1>33, <1>34
     DEF Next, Proceed

(* Nothing is ever done to a run that is over: not by the revert of an     *)
(* attempt that was in flight when it ended, not by the reclaim of stale   *)
(* claims, not by a second release, however they interleave.               *)
THEOREM FinalStaysFinal == Spec => FinalIsFinal
<1> DEFINE Inv == TypeOK /\ TasksHaveRows /\ SettlesAssigned
           Kept == \A r \in Requests : status[r] \in Final => status'[r] = status[r]
<1>1. Init => Inv
  <2>1. Init => SettlesAssigned
    BY DEF Init, SettlesAssigned
  <2>q. QED
    BY <2>1, TypeInit
<1>2. Inv /\ [Next]_vars => Inv'
  BY TypeStep, RowsStep, SettlesStep
<1>3. Inv /\ [Next]_vars => Kept
  BY NoWayBackStep DEF NoWayBack
<1>q. QED
  BY <1>1, <1>2, <1>3, PTL DEF Spec, FinalIsFinal

-----------------------------------------------------------------------------
(* Who answers for the claim of a run: a death on record, or an attempt.   *)
AnsweredFor(r) ==
  \/ r \in orphans
  \/ \E p \in Tasks : req[p] = r /\ pc[p] \in ClaimSteps

LEMMA LeakStep ==
  TypeOK /\ TasksHaveRows /\ NoLeakedClaim /\ [Next]_vars => NoLeakedClaim'
<1> SUFFICES ASSUME TypeOK, TasksHaveRows, NoLeakedClaim, [Next]_vars,
                    NEW r0 \in Requests, status'[r0] = "assigning"
             PROVE  AnsweredFor(r0)'
  BY DEF NoLeakedClaim, AnsweredFor
<1> /\ pc \in [Tasks -> Steps] /\ req \in [Tasks -> Requests \cup {0}]
    /\ status \in [Requests -> Statuses]
  BY DEF TypeOK
<1>a. ASSUME status[r0] = "assigning", r0 \in orphans => r0 \in orphans',
             \A p \in Tasks : req[p] = r0 /\ pc[p] \in ClaimSteps =>
               req'[p] = r0 /\ pc'[p] \in ClaimSteps
      PROVE  AnsweredFor(r0)'
  BY <1>a DEF NoLeakedClaim, AnsweredFor
<1> USE <1>a DEF Goto, ClaimSteps, Steps, rowVars, taskVars
<1>1. ASSUME NEW p \in Tasks, EffectivePlan(p) PROVE AnsweredFor(r0)'
  BY <1>1 DEF EffectivePlan
<1>2. ASSUME NEW p \in Tasks, SlotRefused(p) PROVE AnsweredFor(r0)'
  BY <1>2 DEF SlotRefused, Return
<1>3. ASSUME NEW p \in Tasks, SlotGranted(p) PROVE AnsweredFor(r0)'
  <2>1. CASE r0 = req[p]
    BY <1>3, <2>1 DEF SlotGranted, AnsweredFor
  <2>2. CASE r0 # req[p]
    BY <1>3, <2>2 DEF SlotGranted, SetStatus
  <2>q. QED
    BY <2>1, <2>2
<1>4. ASSUME NEW p \in Tasks, SlotGone(p) PROVE AnsweredFor(r0)'
  BY <1>4 DEF SlotGone, Return
<1>5. ASSUME NEW p \in Tasks, HostsFound(p) PROVE AnsweredFor(r0)'
  BY <1>5 DEF HostsFound
<1>6. ASSUME NEW p \in Tasks, NoHostFits(p) PROVE AnsweredFor(r0)'
  BY <1>6 DEF NoHostFits, Return, SetIfAssigning, SetStatus
<1>7. ASSUME NEW p \in Tasks, CreateVm(p) PROVE AnsweredFor(r0)'
  BY <1>7 DEF CreateVm
<1>8. ASSUME NEW p \in Tasks, CreateVmFails(p) PROVE AnsweredFor(r0)'
  BY <1>8 DEF CreateVmFails, NextHost
<1>9. ASSUME NEW p \in Tasks, CreateVmTimesOut(p) PROVE AnsweredFor(r0)'
  BY <1>9 DEF CreateVmTimesOut, NextHost
<1>10. ASSUME NEW p \in Tasks, RecordVm(p) PROVE AnsweredFor(r0)'
  BY <1>10 DEF RecordVm, SetStatus, TasksHaveRows
<1>11. ASSUME NEW p \in Tasks, ClaimLost(p) PROVE AnsweredFor(r0)'
  BY <1>11 DEF ClaimLost
<1>12. ASSUME NEW p \in Tasks, RecordVmFails(p) PROVE AnsweredFor(r0)'
  BY <1>12 DEF RecordVmFails, NextHost
<1>13. ASSUME NEW p \in Tasks, Cleanup(p) PROVE AnsweredFor(r0)'
  BY <1>13 DEF Cleanup, Return
<1>14. ASSUME NEW p \in Tasks, Account(p) PROVE AnsweredFor(r0)'
  BY <1>14 DEF Account, Return
<1>15. ASSUME NEW p \in Tasks, AccountFails(p) PROVE AnsweredFor(r0)'
  BY <1>15 DEF AccountFails, NextHost
<1>16. ASSUME NEW p \in Tasks, BumpAttempts(p) PROVE AnsweredFor(r0)'
  BY <1>16 DEF BumpAttempts
<1>17. ASSUME NEW p \in Tasks, FailRequest(p) PROVE AnsweredFor(r0)'
  BY <1>17 DEF FailRequest, SetIfAssigning, SetStatus
<1>18. ASSUME NEW p \in Tasks, FailEvent(p) PROVE AnsweredFor(r0)'
  BY <1>18 DEF FailEvent, Return
<1>19. ASSUME NEW p \in Tasks, Requeue(p) PROVE AnsweredFor(r0)'
  BY <1>19 DEF Requeue, Return, SetIfAssigning, SetStatus
<1>20. ASSUME NEW p \in Tasks, DeleteVm(p) PROVE AnsweredFor(r0)'
  BY <1>20 DEF DeleteVm
<1>21. ASSUME NEW p \in Tasks, Settle(p) PROVE AnsweredFor(r0)'
  BY <1>21 DEF Settle, Return, SetStatus, TasksHaveRows
<1>22. ASSUME NEW p \in Tasks, SelectBatch(p) PROVE AnsweredFor(r0)'
  BY <1>22 DEF SelectBatch
<1>23. ASSUME NEW p \in Tasks, NextRow(p) PROVE AnsweredFor(r0)'
  BY <1>23 DEF NextRow
<1>24. ASSUME NEW p \in Tasks, EndTick(p) PROVE AnsweredFor(r0)'
  BY <1>24 DEF EndTick
<1>25. ASSUME NEW p \in Tasks, Tick(p) PROVE AnsweredFor(r0)'
  BY <1>25 DEF Tick
<1>26. ASSUME NEW p \in Tasks, LockLost(p) PROVE AnsweredFor(r0)'
  BY <1>26 DEF LockLost
<1>27. ASSUME NEW p \in Tasks, Abort(p) PROVE AnsweredFor(r0)'
  <2>1. CASE r0 = req[p] /\ pc[p] \in ClaimSteps
    BY <1>27, <2>1 DEF Abort, AnsweredFor
  <2>2. CASE ~(r0 = req[p] /\ pc[p] \in ClaimSteps)
    BY <1>27, <2>2 DEF Abort
  <2>q. QED
    BY <2>1, <2>2
<1>28. ASSUME NEW p \in Tasks, NEW r \in Requests, PostEnvironment(p, r) PROVE AnsweredFor(r0)'
  BY <1>28 DEF PostEnvironment
<1>29. ASSUME NEW p \in Tasks, NEW r \in Requests, ReleaseWaiting(p, r) PROVE AnsweredFor(r0)'
  BY <1>29 DEF ReleaseWaiting, SetStatus
<1>30. ASSUME NEW p \in Tasks, NEW r \in Requests, ReleaseAssigned(p, r) PROVE AnsweredFor(r0)'
  BY <1>30 DEF ReleaseAssigned
<1>31. ASSUME NEW r \in Requests, ClaimAges(r) PROVE AnsweredFor(r0)'
  BY <1>31 DEF ClaimAges
<1>32. ASSUME NEW t \in Teams, ChangePlan(t) PROVE AnsweredFor(r0)'
  BY <1>32 DEF ChangePlan
<1>33. ASSUME NEW v \in VMs, Reap(v) PROVE AnsweredFor(r0)'
  BY <1>33 DEF Reap
<1>34. CASE UNCHANGED vars
  BY <1>34 DEF vars
<1>q. QED
  BY <1>1, <1>2, <1>3, <1>4, <1>5, <1>6, <1>7, <1>8, <1>9, <1>10, <1>11,
     <1>12, <1>13, <1>14, <1>15, <1>16, <1>17, <1>18, <1>19, <1>20, <1>21,
     <1>22, <1>23, <1>24, <1>25, <1>26, <1>27, <1>28, <1>29, <1>30, <1>31,
     <1>32, <1>33, <1>34
     DEF Next, Proceed

(* Every way out of tryAssign gives the claim back or moves the run on: a  *)
(* run that is being assigned has an attempt working on it, or one that    *)
(* died and left it to the reclaim.                                        *)
THEOREM NoClaimLeaks == Spec => []NoLeakedClaim
<1> DEFINE Inv == TypeOK /\ TasksHaveRows /\ NoLeakedClaim
<1>1. Init => Inv
  <2>1. Init => NoLeakedClaim
    BY DEF Init, NoLeakedClaim
  <2>q. QED
    BY <2>1, TypeInit
<1>2. Inv /\ [Next]_vars => Inv'
  BY TypeStep, RowsStep, LeakStep
<1>3. Inv => NoLeakedClaim
  OBVIOUS
<1>q. QED
  BY <1>1, <1>2, <1>3, PTL DEF Spec

-----------------------------------------------------------------------------
(* What a step can do to the parts of the state that the next invariants   *)
(* are about: the actions that matter to each, and that every other step   *)
(* leaves the part alone.                                                  *)

LEMMA HooksFootprint ==
  [Next]_vars =>
    \/ UNCHANGED <<blocked, limitHooks>>
    \/ \E p \in Tasks : SlotRefused(p)
<1> SUFFICES ASSUME [Next]_vars, ~\E p \in Tasks : SlotRefused(p)
             PROVE  UNCHANGED <<blocked, limitHooks>>
  OBVIOUS
<1> USE DEF rowVars, meterVars
<1>1. ASSUME NEW p \in Tasks, Proceed(p)
      PROVE  UNCHANGED <<blocked, limitHooks>>
  BY <1>1 DEF Proceed, EffectivePlan, SlotGranted, SlotGone, HostsFound,
     NoHostFits, CreateVm, CreateVmFails, CreateVmTimesOut, RecordVm, ClaimLost,
     RecordVmFails, Cleanup, Account, AccountFails, BumpAttempts, FailRequest,
     FailEvent, Requeue, DeleteVm, Settle, SelectBatch, NextRow, EndTick
<1>2. ASSUME NEW p \in Tasks, Tick(p) \/ LockLost(p) \/ Abort(p)
      PROVE  UNCHANGED <<blocked, limitHooks>>
  BY <1>2 DEF Tick, LockLost, Abort
<1>3. ASSUME NEW p \in Tasks, NEW r \in Requests,
             PostEnvironment(p, r) \/ ReleaseWaiting(p, r) \/ ReleaseAssigned(p, r)
      PROVE  UNCHANGED <<blocked, limitHooks>>
  BY <1>3 DEF PostEnvironment, ReleaseWaiting, ReleaseAssigned
<1>4. ASSUME NEW r, ClaimAges(r) \/ ChangePlan(r) \/ Reap(r)
      PROVE  UNCHANGED <<blocked, limitHooks>>
  BY <1>4 DEF ClaimAges, ChangePlan, Reap
<1>5. CASE UNCHANGED vars
  BY <1>5 DEF vars
<1>q. QED
  BY <1>1, <1>2, <1>3, <1>4, <1>5 DEF Next

(* However often a run is retried, the webhook about the limit is sent     *)
(* with the first refusal for want of slots and with no other.             *)
THEOREM LimitHookSentOnce == Spec => []LimitHookOnce
<1> DEFINE Inv == TypeOK /\ TasksHaveRows /\ LimitHookOnce
<1>1. Init => LimitHookOnce
  BY DEF Init, LimitHookOnce
<1>2. Inv /\ [Next]_vars => LimitHookOnce'
  <2> SUFFICES ASSUME Inv, [Next]_vars PROVE LimitHookOnce'
    OBVIOUS
  <2>1. CASE UNCHANGED <<blocked, limitHooks>>
    BY <2>1 DEF LimitHookOnce
  <2>2. ASSUME NEW p \in Tasks, SlotRefused(p) PROVE LimitHookOnce'
    <3>1. req[p] \in Requests /\ limitHooks \in [Requests -> 0..2]
      BY <2>2 DEF SlotRefused, TasksHaveRows, TypeOK
    <3>2. CASE cap[p] > 0 /\ req[p] \notin blocked
      <4>1. /\ blocked' = blocked \cup {req[p]}
            /\ limitHooks' = [limitHooks EXCEPT ![req[p]] = Seen(limitHooks[req[p]])]
        BY <2>2, <3>2, Zenon DEF SlotRefused
      <4>2. Seen(limitHooks[req[p]]) = 1
        BY <3>1, <3>2 DEF LimitHookOnce, Seen
      <4>q. QED
        BY <3>1, <4>1, <4>2 DEF LimitHookOnce
    <3>3. CASE ~(cap[p] > 0 /\ req[p] \notin blocked)
      BY <2>2, <3>3 DEF SlotRefused, LimitHookOnce
    <3>q. QED
      BY <3>2, <3>3
  <2>q. QED
    BY <2>1, <2>2, HooksFootprint
<1>3. Inv /\ [Next]_vars => Inv'
  BY <1>2, TypeStep, RowsStep
<1>q. QED
  BY <1>1, <1>3, TypeInit, PTL DEF Spec

-----------------------------------------------------------------------------
(* StartedOnce needs the window between recording the VM and writing the   *)
(* start event: at most one attempt is in it for a run, nothing has been   *)
(* metered yet, and the run can only have been released meanwhile.         *)
AccountsOnce ==
  /\ \A p \in Tasks : pc[p] = "account" =>
       starts[req[p]] = 0 /\ status[req[p]] \in {"assigned", "released"}
  /\ \A p, q \in Tasks : p # q /\ pc[p] = "account" /\ pc[q] = "account" =>
       req[p] # req[q]

(* Only RecordVm opens the window, and only Account meters.                *)
WindowQuiet ==
  /\ UNCHANGED starts
  /\ \A q \in Tasks : pc'[q] = "account" => pc[q] = "account" /\ req'[q] = req[q]

LEMMA WindowFootprint ==
  TypeOK /\ [Next]_vars =>
    WindowQuiet \/ \E p \in Tasks : RecordVm(p) \/ Account(p)
<1> SUFFICES ASSUME TypeOK, [Next]_vars,
                    ~\E p \in Tasks : RecordVm(p) \/ Account(p)
             PROVE  WindowQuiet
  OBVIOUS
<1> /\ pc \in [Tasks -> Steps] /\ req \in [Tasks -> Requests \cup {0}]
  BY DEF TypeOK
<1> USE DEF WindowQuiet, Goto, meterVars, taskVars
<1>1. ASSUME NEW p \in Tasks,
             \/ EffectivePlan(p) \/ SlotGranted(p) \/ HostsFound(p)
             \/ CreateVm(p) \/ ClaimLost(p) \/ BumpAttempts(p) \/ FailRequest(p)
             \/ DeleteVm(p) \/ SelectBatch(p) \/ NextRow(p) \/ EndTick(p)
             \/ Tick(p) \/ LockLost(p)
      PROVE  WindowQuiet
  BY <1>1 DEF EffectivePlan, SlotGranted, HostsFound, CreateVm, ClaimLost,
     BumpAttempts, FailRequest, DeleteVm, SelectBatch, NextRow, EndTick, Tick,
     LockLost
<1>2. ASSUME NEW p \in Tasks,
             \/ SlotRefused(p) \/ SlotGone(p) \/ NoHostFits(p) \/ Cleanup(p)
             \/ FailEvent(p) \/ Requeue(p) \/ Settle(p)
      PROVE  WindowQuiet
  BY <1>2 DEF SlotRefused, SlotGone, NoHostFits, Cleanup, FailEvent, Requeue,
     Settle, Return
<1>3. ASSUME NEW p \in Tasks,
             \/ CreateVmFails(p) \/ CreateVmTimesOut(p) \/ RecordVmFails(p)
             \/ AccountFails(p)
      PROVE  WindowQuiet
  BY <1>3 DEF CreateVmFails, CreateVmTimesOut, RecordVmFails, AccountFails,
     NextHost
<1>4. ASSUME NEW p \in Tasks, Abort(p) PROVE WindowQuiet
  BY <1>4 DEF Abort
<1>5. ASSUME NEW p \in Tasks, NEW r \in Requests,
             PostEnvironment(p, r) \/ ReleaseWaiting(p, r) \/ ReleaseAssigned(p, r)
      PROVE  WindowQuiet
  BY <1>5 DEF PostEnvironment, ReleaseWaiting, ReleaseAssigned
<1>6. ASSUME NEW r, ClaimAges(r) \/ ChangePlan(r) \/ Reap(r) PROVE WindowQuiet
  BY <1>6 DEF ClaimAges, ChangePlan, Reap
<1>7. CASE UNCHANGED vars
  BY <1>7 DEF vars
<1>q. QED
  BY <1>1, <1>2, <1>3, <1>4, <1>5, <1>6, <1>7 DEF Next, Proceed

LEMMA MeterStep ==
  /\ TypeOK /\ TasksHaveRows /\ SettlesAssigned /\ AccountsOnce /\ StartedOnce
  /\ [Next]_vars
  => AccountsOnce' /\ StartedOnce'
<1> SUFFICES ASSUME TypeOK, TasksHaveRows, SettlesAssigned, AccountsOnce,
                    StartedOnce, [Next]_vars
             PROVE  AccountsOnce' /\ StartedOnce'
  OBVIOUS
<1> /\ pc \in [Tasks -> Steps] /\ req \in [Tasks -> Requests \cup {0}]
    /\ status \in [Requests -> Statuses] /\ starts \in [Requests -> 0..2]
  BY DEF TypeOK
<1>a. \A r \in Requests : status[r] \in {"assigned", "released"} =>
        status'[r] \in {"assigned", "released"}
  BY NoWayBackStep DEF NoWayBack, Final
<1>b. \A p \in Tasks : pc[p] = "account" => req[p] \in Requests
  BY DEF TasksHaveRows
<1> USE DEF AccountsOnce, StartedOnce
<1>1. CASE WindowQuiet
  BY <1>1, <1>a, <1>b DEF WindowQuiet
<1>2. ASSUME NEW p \in Tasks, RecordVm(p) PROVE AccountsOnce' /\ StartedOnce'
  <2>1. /\ req[p] \in Requests /\ status[req[p]] = "assigning"
        /\ status' = [status EXCEPT ![req[p]] = "assigned"]
        /\ pc' = [pc EXCEPT ![p] = "account"] /\ req' = req /\ starts' = starts
    BY <1>2 DEF RecordVm, SetStatus, Goto, TasksHaveRows, meterVars
  <2>2. starts[req[p]] = 0
    BY <2>1
  <2>3. \A q \in Tasks : pc[q] = "account" => req[q] # req[p]
    BY <2>1
  <2>q. QED
    BY <1>a, <1>b, <2>1, <2>2, <2>3
<1>3. ASSUME NEW p \in Tasks, Account(p) PROVE AccountsOnce' /\ StartedOnce'
  <2>1. /\ req[p] \in Requests /\ pc[p] = "account" /\ status' = status
        /\ starts' = [starts EXCEPT ![req[p]] = Seen(starts[req[p]])]
        /\ \A q \in Tasks : pc'[q] = "account" =>
             q # p /\ pc[q] = "account" /\ req'[q] = req[q]
    BY <1>3 DEF Account, Return, Goto, TasksHaveRows, rowVars
  <2>2. starts[req[p]] = 0 /\ status[req[p]] \in {"assigned", "released"}
    BY <2>1
  <2>3. starts' = [starts EXCEPT ![req[p]] = 1]
    BY <2>1, <2>2 DEF Seen
  <2>q. QED
    BY <1>b, <2>1, <2>2, <2>3
<1>q. QED
  BY <1>1, <1>2, <1>3, WindowFootprint

(* A run is metered as started at most once and only if it was assigned:   *)
(* not twice when the reclaim hands it to a second attempt while the first *)
(* is still waiting for an agent, and not at all when it was released      *)
(* before its VM came up.                                                  *)
THEOREM RunsStartOnce == Spec => []StartedOnce
<1> DEFINE Inv == /\ TypeOK /\ TasksHaveRows /\ SettlesAssigned
                  /\ AccountsOnce /\ StartedOnce
<1>1. Init => Inv
  <2>1. Init => SettlesAssigned /\ AccountsOnce /\ StartedOnce
    BY DEF Init, SettlesAssigned, AccountsOnce, StartedOnce
  <2>q. QED
    BY <2>1, TypeInit
<1>2. Inv /\ [Next]_vars => Inv'
  BY TypeStep, RowsStep, SettlesStep, MeterStep
<1>3. Inv => StartedOnce
  OBVIOUS
<1>q. QED
  BY <1>1, <1>2, <1>3, PTL DEF Spec

-----------------------------------------------------------------------------
(* The VMs.  An assigned run names one and no other run does; an attempt   *)
(* that has just created one, or is about to clean one up, is the only one *)
(* to know it.                                                             *)
HoldsVm(p) == pc[p] \in {"record", "cleanup"}

RowsNameVms ==
  \A r \in Requests : IF status[r] = "assigned" THEN rowVm[r] \in VMs
                                                ELSE rowVm[r] = NoVm
VmsApart ==
  /\ \A r, q \in Requests : r # q /\ rowVm[r] # NoVm => rowVm[r] # rowVm[q]
  /\ \A p \in Tasks : HoldsVm(p) =>
       vm[p] \in VMs /\ \A r \in Requests : rowVm[r] # vm[p]
  /\ \A p, q \in Tasks : p # q /\ HoldsVm(p) /\ HoldsVm(q) => vm[p] # vm[q]

(* A release takes the VM it has read from the row down before it clears   *)
(* the row, unless another release was faster.                             *)
TearsDownFirst ==
  \A p \in Tasks :
    /\ pc[p] = "deleteVm" => rowVm[req[p]] \in {vm[p], NoVm}
    /\ pc[p] = "settle" /\ rowVm[req[p]] \in live => rowVm[req[p]] \in abandoned

VmSteps == {"record", "cleanup", "deleteVm", "settle"}

(* The steps that concern no VM and no assigned run ...                    *)
VmQuiet ==
  /\ UNCHANGED <<rowVm, live, abandoned>>
  /\ \A r \in Requests : status'[r] = "assigned" <=> status[r] = "assigned"
  /\ \A q \in Tasks : pc[q] \in VmSteps \/ pc'[q] \in VmSteps =>
       pc'[q] = pc[q] /\ vm'[q] = vm[q] /\ req'[q] = req[q]

(* ... and those that do.                                                  *)
VmStep(p) ==
  \/ CreateVm(p) \/ CreateVmTimesOut(p)
  \/ RecordVm(p) \/ ClaimLost(p) \/ RecordVmFails(p) \/ Cleanup(p)
  \/ DeleteVm(p) \/ Settle(p) \/ Abort(p)
  \/ \E r \in Requests : ReleaseAssigned(p, r)

LEMMA VmFootprint ==
  TypeOK /\ TasksHaveRows /\ [Next]_vars =>
    \/ VmQuiet
    \/ \E p \in Tasks : VmStep(p)
    \/ \E v \in VMs : Reap(v)
<1> SUFFICES ASSUME TypeOK, TasksHaveRows, [Next]_vars,
                    ~\E p \in Tasks : VmStep(p), ~\E v \in VMs : Reap(v)
             PROVE  VmQuiet
  OBVIOUS
<1> /\ pc \in [Tasks -> Steps] /\ req \in [Tasks -> Requests \cup {0}]
    /\ vm \in [Tasks -> VMs \cup {NoVm}] /\ status \in [Requests -> Statuses]
  BY DEF TypeOK
<1> USE DEF VmQuiet, VmSteps, Goto, rowVars, vmVars, taskVars
<1>1. ASSUME NEW p \in Tasks,
             \/ EffectivePlan(p) \/ HostsFound(p) \/ BumpAttempts(p)
             \/ SelectBatch(p) \/ NextRow(p) \/ EndTick(p) \/ LockLost(p)
      PROVE  VmQuiet
  BY <1>1 DEF EffectivePlan, HostsFound, BumpAttempts, SelectBatch, NextRow,
     EndTick, LockLost
<1>2. ASSUME NEW p \in Tasks,
             SlotRefused(p) \/ SlotGone(p) \/ FailEvent(p) \/ Account(p)
      PROVE  VmQuiet
  BY <1>2 DEF SlotRefused, SlotGone, FailEvent, Account, Return
<1>3. ASSUME NEW p \in Tasks, CreateVmFails(p) \/ AccountFails(p) PROVE VmQuiet
  BY <1>3 DEF CreateVmFails, AccountFails, NextHost
<1>4. ASSUME NEW p \in Tasks,
             SlotGranted(p) \/ NoHostFits(p) \/ FailRequest(p) \/ Requeue(p) \/ Tick(p)
      PROVE  VmQuiet
  BY <1>4 DEF SlotGranted, NoHostFits, FailRequest, Requeue, Tick, Return,
     SetIfAssigning, SetStatus
<1>5. ASSUME NEW p \in Tasks, NEW r \in Requests,
             PostEnvironment(p, r) \/ ReleaseWaiting(p, r)
      PROVE  VmQuiet
  BY <1>5 DEF PostEnvironment, ReleaseWaiting, SetStatus, Waiting
<1>6. ASSUME NEW r, ClaimAges(r) \/ ChangePlan(r) PROVE VmQuiet
  BY <1>6 DEF ClaimAges, ChangePlan
<1>7. CASE UNCHANGED vars
  BY <1>7 DEF vars
<1>q. QED
  BY <1>1, <1>2, <1>3, <1>4, <1>5, <1>6, <1>7 DEF Next, Proceed, VmStep

LEMMA VmsStep ==
  /\ TypeOK /\ TasksHaveRows /\ SettlesAssigned
  /\ RowsNameVms /\ VmsApart /\ TearsDownFirst /\ [Next]_vars
  => RowsNameVms' /\ VmsApart' /\ TearsDownFirst'
<1> SUFFICES ASSUME TypeOK, TasksHaveRows, SettlesAssigned, RowsNameVms,
                    VmsApart, TearsDownFirst, [Next]_vars
             PROVE  RowsNameVms' /\ VmsApart' /\ TearsDownFirst'
  OBVIOUS
<1> /\ pc \in [Tasks -> Steps] /\ req \in [Tasks -> Requests \cup {0}]
    /\ vm \in [Tasks -> VMs \cup {NoVm}] /\ status \in [Requests -> Statuses]
    /\ rowVm \in [Requests -> VMs \cup {NoVm}]
    /\ live \subseteq VMs /\ abandoned \subseteq live
  BY DEF TypeOK
<1> NoVm \notin VMs
  BY AllocatorAssumption
<1> \A p \in Tasks : pc[p] \in VmSteps => req[p] \in Requests
  BY DEF TasksHaveRows, VmSteps
<1> USE DEF RowsNameVms, VmsApart, TearsDownFirst, HoldsVm, VmSteps
<1> DEFINE Kept == RowsNameVms' /\ VmsApart' /\ TearsDownFirst'
<1>1. CASE VmQuiet
  BY <1>1 DEF VmQuiet
<1>2. ASSUME NEW p \in Tasks, CreateVm(p) PROVE Kept
  BY <1>2 DEF CreateVm, FreshVms, Goto, rowVars
<1>3. ASSUME NEW p \in Tasks, CreateVmTimesOut(p) PROVE Kept
  BY <1>3 DEF CreateVmTimesOut, FreshVms, NextHost, Goto, rowVars
<1>4. ASSUME NEW p \in Tasks, RecordVm(p) PROVE Kept
  BY <1>4 DEF RecordVm, SetStatus, Goto, vmVars, SettlesAssigned
<1>5. ASSUME NEW p \in Tasks, ClaimLost(p) PROVE Kept
  BY <1>5 DEF ClaimLost, Goto, rowVars, vmVars
<1>6. ASSUME NEW p \in Tasks, RecordVmFails(p) PROVE Kept
  BY <1>6 DEF RecordVmFails, NextHost, Goto, rowVars
<1>7. ASSUME NEW p \in Tasks, Cleanup(p) PROVE Kept
  BY <1>7 DEF Cleanup, Return, Goto, rowVars
<1>8. ASSUME NEW p \in Tasks, DeleteVm(p) PROVE Kept
  BY <1>8 DEF DeleteVm, Goto, rowVars
<1>9. ASSUME NEW p \in Tasks, Settle(p) PROVE Kept
  BY <1>9 DEF Settle, SetStatus, Return, Goto, vmVars
<1>10. ASSUME NEW p \in Tasks, Abort(p) PROVE Kept
  BY <1>10 DEF Abort, FreshVms, Goto
<1>11. ASSUME NEW p \in Tasks, NEW r \in Requests, ReleaseAssigned(p, r) PROVE Kept
  BY <1>11 DEF ReleaseAssigned, Goto, rowVars, vmVars
<1>12. ASSUME NEW v \in VMs, Reap(v) PROVE Kept
  BY <1>12 DEF Reap, rowVars, taskVars
<1>q. QED
  BY <1>1, <1>2, <1>3, <1>4, <1>5, <1>6, <1>7, <1>8, <1>9, <1>10, <1>11,
     <1>12, VmFootprint DEF VmStep

(* Where a VM that exists can be.                                          *)
Accounted(v) ==
  \/ v \in abandoned
  \/ \E r \in Requests : status[r] = "assigned" /\ rowVm[r] = v
  \/ \E p \in Tasks : HoldsVm(p) /\ vm[p] = v

LEMMA ForgottenStep ==
  /\ TypeOK /\ TasksHaveRows /\ SettlesAssigned
  /\ RowsNameVms /\ VmsApart /\ TearsDownFirst /\ NoForgottenVm /\ [Next]_vars
  => NoForgottenVm'
<1> SUFFICES ASSUME TypeOK, TasksHaveRows, SettlesAssigned, RowsNameVms,
                    VmsApart, TearsDownFirst, NoForgottenVm, [Next]_vars,
                    NEW u, u \in live'
             PROVE  Accounted(u)'
  BY DEF NoForgottenVm, Accounted, HoldsVm
<1> /\ pc \in [Tasks -> Steps] /\ req \in [Tasks -> Requests \cup {0}]
    /\ vm \in [Tasks -> VMs \cup {NoVm}] /\ status \in [Requests -> Statuses]
    /\ rowVm \in [Requests -> VMs \cup {NoVm}]
    /\ live \subseteq VMs /\ abandoned \subseteq live
  BY DEF TypeOK
<1> NoVm \notin VMs
  BY AllocatorAssumption
<1> \A p \in Tasks : pc[p] \in VmSteps => req[p] \in Requests
  BY DEF TasksHaveRows, VmSteps
<1>a. u \in live => Accounted(u)
  BY DEF NoForgottenVm, Accounted, HoldsVm
<1> USE <1>a DEF Accounted, HoldsVm, VmSteps
<1>1. CASE VmQuiet
  BY <1>1 DEF VmQuiet
<1>2. ASSUME NEW p \in Tasks, CreateVm(p) PROVE Accounted(u)'
  BY <1>2 DEF CreateVm, Goto, rowVars
<1>3. ASSUME NEW p \in Tasks, CreateVmTimesOut(p) PROVE Accounted(u)'
  BY <1>3 DEF CreateVmTimesOut, NextHost, Goto, rowVars
<1>4. ASSUME NEW p \in Tasks, RecordVm(p) PROVE Accounted(u)'
  BY <1>4 DEF RecordVm, SetStatus, Goto, vmVars
<1>5. ASSUME NEW p \in Tasks, ClaimLost(p) PROVE Accounted(u)'
  BY <1>5 DEF ClaimLost, Goto, rowVars, vmVars
<1>6. ASSUME NEW p \in Tasks, RecordVmFails(p) PROVE Accounted(u)'
  BY <1>6 DEF RecordVmFails, NextHost, Goto, rowVars
<1>7. ASSUME NEW p \in Tasks, Cleanup(p) PROVE Accounted(u)'
  BY <1>7 DEF Cleanup, Return, Goto, rowVars
<1>8. ASSUME NEW p \in Tasks, DeleteVm(p) PROVE Accounted(u)'
  BY <1>8 DEF DeleteVm, Goto, rowVars
<1>9. ASSUME NEW p \in Tasks, Settle(p) PROVE Accounted(u)'
  BY <1>9 DEF Settle, SetStatus, Return, Goto, vmVars, TearsDownFirst
<1>10. ASSUME NEW p \in Tasks, Abort(p) PROVE Accounted(u)'
  BY <1>10 DEF Abort, Goto
<1>11. ASSUME NEW p \in Tasks, NEW r \in Requests, ReleaseAssigned(p, r)
       PROVE  Accounted(u)'
  BY <1>11 DEF ReleaseAssigned, Goto, rowVars, vmVars
<1>12. ASSUME NEW v \in VMs, Reap(v) PROVE Accounted(u)'
  BY <1>12 DEF Reap, rowVars, taskVars
<1>q. QED
  BY <1>1, <1>2, <1>3, <1>4, <1>5, <1>6, <1>7, <1>8, <1>9, <1>10, <1>11,
     <1>12, VmFootprint DEF VmStep

VmInv == /\ TypeOK /\ TasksHaveRows /\ SettlesAssigned
         /\ RowsNameVms /\ VmsApart /\ TearsDownFirst

LEMMA VmInvariant == Spec => []VmInv
<1>1. Init => VmInv
  <2>1. Init => SettlesAssigned /\ RowsNameVms /\ VmsApart /\ TearsDownFirst
    BY DEF Init, SettlesAssigned, RowsNameVms, VmsApart, TearsDownFirst, HoldsVm
  <2>q. QED
    BY <2>1, TypeInit DEF VmInv
<1>2. VmInv /\ [Next]_vars => VmInv'
  BY TypeStep, RowsStep, SettlesStep, VmsStep DEF VmInv
<1>q. QED
  BY <1>1, <1>2, PTL DEF Spec

(* Two runs are never given the same VM, and what an attempt cleans up     *)
(* after losing its claim is never the VM of a run, whichever attempts and *)
(* releases are in flight and whatever dies half way.                      *)
THEOREM VmsStayExclusive == Spec => []VmsAreExclusive
<1>1. VmInv => VmsAreExclusive
  BY AllocatorAssumption DEF VmInv, RowsNameVms, VmsApart, HoldsVm, VmsAreExclusive
<1>q. QED
  BY <1>1, VmInvariant, PTL

(* A VM that exists is named by an assigned run, or some attempt is about  *)
(* to record it or delete it, or it was lost at one of the places where    *)
(* the code leaves it to the agents' reaper: no path forgets one silently. *)
THEOREM NoVmIsForgotten == Spec => []NoForgottenVm
<1>1. Init => NoForgottenVm
  BY DEF Init, NoForgottenVm
<1>2. VmInv /\ NoForgottenVm /\ [Next]_vars => NoForgottenVm'
  BY ForgottenStep DEF VmInv
<1>q. QED
  BY <1>1, <1>2, VmInvariant, PTL DEF Spec

-----------------------------------------------------------------------------
(* OneAttemptPerRun.  The claim of the code's comment is that the reclaim  *)
(* threshold outlasts an attempt.  It does when the time all candidate     *)
(* hosts together may take fits in the threshold: that is the hypothesis   *)
(* of the theorem below, and without it the statement is false (it takes   *)
(* two slow hosts with the code's 110 and 180 seconds).                    *)
ThresholdOutlastsAttempt == MaxHosts * CreateTimeout <= ReclaimAfter

(* An attempt goes on after its run was recorded: if the start event fails *)
(* it moves on to the next host.                                           *)
AttemptSteps == ClaimSteps \cup {"account"}

(* The hosts an attempt has tried are never more than there are.           *)
HostsCounted ==
  \A p \in Tasks :
    /\ pc[p] \in {"idle", "plan", "reserve", "select", "next", "hosts"} => hosts[p] = 0
    /\ pc[p] \in {"create", "record", "account"} => hosts[p] < MaxHosts
    /\ pc[p] \in {"bump", "fail", "requeue"} => hosts[p] <= MaxHosts

(* No two attempts work on one run; a run somebody attempts is not         *)
(* waiting to be claimed, and its claim is not stale.                      *)
AttemptsApart ==
  /\ \A p, q \in Tasks :
       p # q /\ pc[p] \in AttemptSteps /\ pc[q] \in AttemptSteps => req[p] # req[q]
  /\ \A p \in Tasks : pc[p] \in AttemptSteps =>
       /\ status[req[p]] \notin {"absent", "queued"}
       /\ req[p] \in stale => status[req[p]] # "assigning"
  /\ \A p \in Tasks : pc[p] = "account" => status[req[p]] \in {"assigned", "released"}

LEMMA HostsStep ==
  TypeOK /\ HostsCounted /\ [Next]_vars => HostsCounted'
<1> SUFFICES ASSUME TypeOK, HostsCounted, [Next]_vars PROVE HostsCounted'
  OBVIOUS
<1> /\ pc \in [Tasks -> Steps] /\ hosts \in [Tasks -> Nat] /\ MaxHosts \in Nat \ {0}
  BY AllocatorAssumption DEF TypeOK
<1> USE DEF HostsCounted, Goto, taskVars
<1>1. ASSUME NEW p \in Tasks,
             \/ EffectivePlan(p) \/ SlotGranted(p) \/ HostsFound(p)
             \/ CreateVm(p) \/ RecordVm(p) \/ ClaimLost(p) \/ BumpAttempts(p)
             \/ FailRequest(p)
      PROVE  HostsCounted'
  BY <1>1 DEF EffectivePlan, SlotGranted, HostsFound, CreateVm, RecordVm,
     ClaimLost, BumpAttempts, FailRequest
<1>2. ASSUME NEW p \in Tasks,
             \/ SlotRefused(p) \/ SlotGone(p) \/ NoHostFits(p) \/ Cleanup(p)
             \/ Account(p) \/ FailEvent(p) \/ Requeue(p) \/ Settle(p)
      PROVE  HostsCounted'
  BY <1>2 DEF SlotRefused, SlotGone, NoHostFits, Cleanup, Account, FailEvent,
     Requeue, Settle, Return
<1>3. ASSUME NEW p \in Tasks,
             \/ CreateVmFails(p) \/ CreateVmTimesOut(p) \/ RecordVmFails(p)
             \/ AccountFails(p)
      PROVE  HostsCounted'
  <2>1. /\ NextHost(p) /\ hosts[p] < MaxHosts
    BY <1>3 DEF CreateVmFails, CreateVmTimesOut, RecordVmFails, AccountFails
  <2>q. QED
    BY <2>1 DEF NextHost
<1>4. ASSUME NEW p \in Tasks, DeleteVm(p) \/ SelectBatch(p) \/ NextRow(p) \/ EndTick(p)
      PROVE  HostsCounted'
  BY <1>4 DEF DeleteVm, SelectBatch, NextRow, EndTick
<1>5. ASSUME NEW p \in Tasks, Tick(p) \/ LockLost(p) \/ Abort(p) PROVE HostsCounted'
  BY <1>5 DEF Tick, LockLost, Abort
<1>6. ASSUME NEW p \in Tasks, NEW r \in Requests,
             PostEnvironment(p, r) \/ ReleaseWaiting(p, r) \/ ReleaseAssigned(p, r)
      PROVE  HostsCounted'
  BY <1>6 DEF PostEnvironment, ReleaseWaiting, ReleaseAssigned
<1>7. ASSUME NEW r, ClaimAges(r) \/ ChangePlan(r) \/ Reap(r) PROVE HostsCounted'
  BY <1>7 DEF ClaimAges, ChangePlan, Reap
<1>8. CASE UNCHANGED vars
  BY <1>8 DEF vars
<1>q. QED
  BY <1>1, <1>2, <1>3, <1>4, <1>5, <1>6, <1>7, <1>8 DEF Next, Proceed

(* A factor more does not make a product smaller.                          *)
LEMMA TimesMonotone ==
  \A c, a, b \in Nat : a <= b => c * a <= b * c
<1> SUFFICES ASSUME NEW c \in Nat, NEW a \in Nat, NEW b \in Nat, a <= b
             PROVE  c * a <= b * c
  OBVIOUS
<1>1. PICK d \in Nat : b = a + d
  <2>1. b - a \in Nat /\ b = a + (b - a)
    OBVIOUS
  <2>q. QED
    BY <2>1
<1>2. b * c = c * a + c * d /\ c * d \in Nat /\ c * a \in Nat
  BY <1>1
<1>q. QED
  BY <1>2

(* What an attempt may have taken so far.                                  *)
LEMMA SpentFits ==
  ASSUME TypeOK, HostsCounted, ThresholdOutlastsAttempt, NEW p \in Tasks,
         pc[p] \in ClaimSteps
  PROVE  ~(Spent(p) > ReclaimAfter)
<1> DEFINE n == IF pc[p] \in {"create", "record"} THEN hosts[p] + 1 ELSE hosts[p]
<1>1. /\ hosts[p] \in Nat /\ MaxHosts \in Nat \ {0}
      /\ CreateTimeout \in Nat /\ ReclaimAfter \in Nat
  BY AllocatorAssumption DEF TypeOK
<1>2. n \in Nat /\ n <= MaxHosts
  BY <1>1 DEF HostsCounted, ClaimSteps
<1>3. Spent(p) = CreateTimeout * n
  BY DEF Spent
<1> HIDE DEF n
<1>4. CreateTimeout * n <= MaxHosts * CreateTimeout
  BY <1>1, <1>2, TimesMonotone
<1>5. CreateTimeout * n \in Nat /\ MaxHosts * CreateTimeout \in Nat
  BY <1>1, <1>2
<1>q. QED
  BY <1>1, <1>3, <1>4, <1>5 DEF ThresholdOutlastsAttempt

(* The steps that neither start an attempt nor make a run claimable.       *)
AttemptQuiet ==
  /\ \A q \in Tasks : pc'[q] \in AttemptSteps =>
       pc[q] \in AttemptSteps /\ req'[q] = req[q]
  /\ \A q \in Tasks : pc'[q] = "account" => pc[q] = "account"
  /\ \A r \in Requests :
       /\ status'[r] \in {"absent", "queued"} => status[r] = status'[r]
       /\ r \in stale' /\ status'[r] = "assigning" =>
            r \in stale /\ status[r] = "assigning"

LEMMA AttemptFootprint ==
  TypeOK /\ TasksHaveRows /\ [Next]_vars =>
    \/ AttemptQuiet
    \/ \E p \in Tasks : \/ SlotGranted(p) \/ RecordVm(p) \/ NoHostFits(p)
                        \/ Requeue(p) \/ Tick(p)
    \/ \E p \in Tasks, r \in Requests : PostEnvironment(p, r)
    \/ \E r \in Requests : ClaimAges(r)
<1> SUFFICES ASSUME TypeOK, TasksHaveRows, [Next]_vars,
                    ~\E p \in Tasks : \/ SlotGranted(p) \/ RecordVm(p)
                                      \/ NoHostFits(p) \/ Requeue(p) \/ Tick(p),
                    ~\E p \in Tasks, r \in Requests : PostEnvironment(p, r),
                    ~\E r \in Requests : ClaimAges(r)
             PROVE  AttemptQuiet
  OBVIOUS
<1> /\ pc \in [Tasks -> Steps] /\ req \in [Tasks -> Requests \cup {0}]
    /\ status \in [Requests -> Statuses]
  BY DEF TypeOK
<1> USE DEF AttemptQuiet, AttemptSteps, ClaimSteps, Goto, rowVars, taskVars
<1>1. ASSUME NEW p \in Tasks,
             \/ EffectivePlan(p) \/ HostsFound(p) \/ CreateVm(p) \/ ClaimLost(p)
             \/ BumpAttempts(p) \/ DeleteVm(p) \/ SelectBatch(p) \/ NextRow(p)
             \/ EndTick(p) \/ LockLost(p)
      PROVE  AttemptQuiet
  BY <1>1 DEF EffectivePlan, HostsFound, CreateVm, ClaimLost, BumpAttempts,
     DeleteVm, SelectBatch, NextRow, EndTick, LockLost
<1>2. ASSUME NEW p \in Tasks,
             \/ SlotRefused(p) \/ SlotGone(p) \/ Cleanup(p) \/ Account(p)
             \/ FailEvent(p)
      PROVE  AttemptQuiet
  BY <1>2 DEF SlotRefused, SlotGone, Cleanup, Account, FailEvent, Return
<1>3. ASSUME NEW p \in Tasks,
             \/ CreateVmFails(p) \/ CreateVmTimesOut(p) \/ RecordVmFails(p)
             \/ AccountFails(p)
      PROVE  AttemptQuiet
  BY <1>3 DEF CreateVmFails, CreateVmTimesOut, RecordVmFails, AccountFails,
     NextHost
<1>4. ASSUME NEW p \in Tasks, FailRequest(p) \/ Settle(p) \/ Abort(p)
      PROVE  AttemptQuiet
  BY <1>4 DEF FailRequest, Settle, Abort, Return, SetIfAssigning, SetStatus
<1>5. ASSUME NEW p \in Tasks, NEW r \in Requests,
             ReleaseWaiting(p, r) \/ ReleaseAssigned(p, r)
      PROVE  AttemptQuiet
  BY <1>5 DEF ReleaseWaiting, ReleaseAssigned, SetStatus
<1>6. ASSUME NEW r, ChangePlan(r) \/ Reap(r) PROVE AttemptQuiet
  BY <1>6 DEF ChangePlan, Reap
<1>7. CASE UNCHANGED vars
  BY <1>7 DEF vars
<1>q. QED
  BY <1>1, <1>2, <1>3, <1>4, <1>5, <1>6, <1>7 DEF Next, Proceed

LEMMA AttemptsStep ==
  ASSUME ThresholdOutlastsAttempt
  PROVE  /\ TypeOK /\ TasksHaveRows /\ SettlesAssigned
         /\ HostsCounted /\ AttemptsApart /\ [Next]_vars
         => AttemptsApart'
<1> SUFFICES ASSUME TypeOK, TasksHaveRows, SettlesAssigned, HostsCounted,
                    AttemptsApart, [Next]_vars
             PROVE  AttemptsApart'
  OBVIOUS
<1> /\ pc \in [Tasks -> Steps] /\ req \in [Tasks -> Requests \cup {0}]
    /\ status \in [Requests -> Statuses]
  BY DEF TypeOK
<1> \A p \in Tasks : pc[p] \in AttemptSteps \cup {"reserve"} => req[p] \in Requests
  BY DEF TasksHaveRows, AttemptSteps, ClaimSteps
<1>a. \A r \in Requests : status[r] \in {"assigned", "released"} =>
        status'[r] \in {"assigned", "released"}
  BY NoWayBackStep DEF NoWayBack, Final
<1> USE DEF AttemptsApart, AttemptSteps, ClaimSteps
<1>1. CASE AttemptQuiet
  BY <1>1, <1>a DEF AttemptQuiet
<1>2. ASSUME NEW p \in Tasks, SlotGranted(p) PROVE AttemptsApart'
  BY <1>2 DEF SlotGranted, SetStatus, Goto
<1>3. ASSUME NEW p \in Tasks, RecordVm(p) PROVE AttemptsApart'
  BY <1>3 DEF RecordVm, SetStatus, Goto
<1>4. ASSUME NEW p \in Tasks, NoHostFits(p) \/ Requeue(p) PROVE AttemptsApart'
  BY <1>4 DEF NoHostFits, Requeue, Return, SetIfAssigning, SetStatus, Goto
<1>5. ASSUME NEW p \in Tasks, Tick(p) PROVE AttemptsApart'
  BY <1>5 DEF Tick, Goto
<1>6. ASSUME NEW p \in Tasks, NEW r \in Requests, PostEnvironment(p, r)
      PROVE  AttemptsApart'
  BY <1>6 DEF PostEnvironment, Goto
<1>7. ASSUME NEW r \in Requests, ClaimAges(r) PROVE AttemptsApart'
  <2>1. \A p \in Tasks : pc[p] \in ClaimSteps => req[p] # r
    BY <1>7, SpentFits DEF ClaimAges
  <2>2. \A p \in Tasks : pc[p] = "account" => req[p] # r
    BY <1>7 DEF ClaimAges
  <2>q. QED
    BY <1>7, <2>1, <2>2 DEF ClaimAges, taskVars
<1>q. QED
  BY <1>1, <1>2, <1>3, <1>4, <1>5, <1>6, <1>7, AttemptFootprint

(* When the reclaim threshold outlasts what the candidate hosts may take   *)
(* together, no two attempts ever work on one run, even if attempts die    *)
(* and their claims are reclaimed, or fail after they have recorded a VM.  *)
THEOREM OneAttempt ==
  ASSUME ThresholdOutlastsAttempt PROVE Spec => []OneAttemptPerRun
<1> DEFINE Inv == /\ TypeOK /\ TasksHaveRows /\ SettlesAssigned
                  /\ HostsCounted /\ AttemptsApart
<1>1. Init => Inv
  <2>1. Init => SettlesAssigned /\ HostsCounted /\ AttemptsApart
    BY AllocatorAssumption
       DEF Init, SettlesAssigned, HostsCounted, AttemptsApart, AttemptSteps, ClaimSteps
  <2>q. QED
    BY <2>1, TypeInit
<1>2. Inv /\ [Next]_vars => Inv'
  BY TypeStep, RowsStep, SettlesStep, HostsStep, AttemptsStep
<1>3. Inv => OneAttemptPerRun
  BY DEF AttemptsApart, AttemptSteps, OneAttemptPerRun
<1>q. QED
  BY <1>1, <1>2, <1>3, PTL DEF Spec
=============================================================================
