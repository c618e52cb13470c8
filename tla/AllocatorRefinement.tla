------------------------ MODULE AllocatorRefinement ------------------------
(***************************************************************************)
(* Every instance of Allocator implements SlotPool: seen through the       *)
(* refinement mapping of Allocator (waiting is the queued rows, holding    *)
(* the rows being assigned or assigned, released and failed the rows over, *)
(* size the largest cap a plan has had), a step of a handler, a tick or    *)
(* the surroundings is a step of the pool or changes nothing.              *)
(***************************************************************************)
EXTENDS AllocatorProofs

Held  == {r \in Requests : status[r] \in Holding}
Freed == {r \in Requests : status[r] = "released"}
Lost  == {r \in Requests : status[r] = "failed"}

PoolStep == [Pool!Next]_(Pool!poolVars)

LEMMA PoolInit == Init => Pool!Init
<1> SUFFICES ASSUME Init PROVE Pool!Init
  OBVIOUS
<1>1. peakCap \in [Teams -> Nat]
  BY TypeInit DEF TypeOK
<1>2. Queued = {} /\ Held = {} /\ Freed = {} /\ Lost = {}
  BY DEF Init, Queued, Held, Freed, Lost, Holding
<1>q. QED
  BY <1>1, <1>2 DEF Pool!Init, Held, Freed, Lost

-----------------------------------------------------------------------------
(* What a step does to the rows decides which step of the pool it is.      *)

(* Nothing the pool sees has changed.                                      *)
LEMMA Stutter ==
  ASSUME UNCHANGED <<status, peakCap>> PROVE PoolStep
<1>1. UNCHANGED <<Queued, Held, Freed, Lost>>
  BY DEF Queued, Held, Freed, Lost
<1>q. QED
  BY <1>1 DEF PoolStep, Pool!poolVars, Held, Freed, Lost

(* Held runs stay held although they may change their status.              *)
LEMMA StillHeld ==
  ASSUME UNCHANGED peakCap, NEW r \in Requests, StatusTyped,
         status[r] = "assigning", status' = [status EXCEPT ![r] = "assigned"]
  PROVE  PoolStep
<1>1. UNCHANGED <<Queued, Held, Freed, Lost>>
  BY DEF StatusTyped, Queued, Held, Freed, Lost, Holding
<1>q. QED
  BY <1>1 DEF PoolStep, Pool!poolVars, Held, Freed, Lost

(* Runs being assigned go back to the queue.                               *)
LEMMA BackToQueue ==
  ASSUME UNCHANGED peakCap, StatusTyped, NEW S \in SUBSET Requests,
         \A r \in S : status[r] = "assigning",
         status' = [r \in Requests |-> IF r \in S THEN "queued" ELSE status[r]]
  PROVE  PoolStep
<1>1. /\ Queued' = Queued \cup S /\ Held' = Held \ S /\ UNCHANGED <<Freed, Lost>>
      /\ S \subseteq Held
  BY DEF StatusTyped, Queued, Held, Freed, Lost, Holding
<1>2. CASE S = {}
  BY <1>1, <1>2 DEF PoolStep, Pool!poolVars, Held, Freed, Lost
<1>3. CASE S # {}
  <2>1. Pool!GiveBack(S)
    BY <1>1, <1>3 DEF Pool!GiveBack, Held, Freed, Lost
  <2>q. QED
    BY <2>1 DEF PoolStep, Pool!Next
<1>q. QED
  BY <1>2, <1>3

(* A queued run takes a slot its team has left.                            *)
LEMMA Takes ==
  ASSUME UNCHANGED peakCap, StatusTyped, NEW r \in Requests,
         Occupancy(TeamOf[r]) < peakCap[TeamOf[r]],
         status[r] = "queued", status' = [status EXCEPT ![r] = "assigning"]
  PROVE  PoolStep
<1>1. /\ Queued' = Queued \ {r} /\ Held' = Held \cup {r} /\ UNCHANGED <<Freed, Lost>>
      /\ r \in Queued
  BY DEF StatusTyped, Queued, Held, Freed, Lost, Holding
<1>2. Pool!HeldBy(TeamOf[r]) = Holders(TeamOf[r])
  BY DEF Pool!HeldBy, Holders
<1>3. Pool!Cardinality(Holders(TeamOf[r])) = Occupancy(TeamOf[r])
  BY DEF Pool!Cardinality, Cardinality, Occupancy
<1>4. Pool!Take(r)
  BY <1>1, <1>2, <1>3 DEF Pool!Take, Held, Freed, Lost
<1>q. QED
  BY <1>4 DEF PoolStep, Pool!Next

(* A run that waits or holds a slot is released.                           *)
LEMMA Releases ==
  ASSUME UNCHANGED peakCap, StatusTyped, NEW r \in Requests,
         status[r] \in {"queued"} \cup Holding,
         status' = [status EXCEPT ![r] = "released"]
  PROVE  PoolStep
<1>1. /\ Queued' = Queued \ {r} /\ Held' = Held \ {r} /\ UNCHANGED Lost
      /\ Freed' = Freed \cup {r} /\ r \in Queued \cup Held
  BY DEF StatusTyped, Queued, Held, Freed, Lost, Holding
<1>2. Pool!Release(r)
  BY <1>1 DEF Pool!Release, Held, Freed, Lost
<1>q. QED
  BY <1>2 DEF PoolStep, Pool!Next

(* A run fails that holds a slot.                                          *)
LEMMA Fails ==
  ASSUME UNCHANGED peakCap, StatusTyped, NEW r \in Requests,
         status[r] = "assigning", status' = [status EXCEPT ![r] = "failed"]
  PROVE  PoolStep
<1>1. /\ Held' = Held \ {r} /\ UNCHANGED <<Queued, Freed>>
      /\ Lost' = Lost \cup {r} /\ r \in Held
  BY DEF StatusTyped, Queued, Held, Freed, Lost, Holding
<1>2. Pool!Fail(r)
  BY <1>1 DEF Pool!Fail, Held, Freed, Lost
<1>q. QED
  BY <1>2 DEF PoolStep, Pool!Next

-----------------------------------------------------------------------------
RefineInv ==
  TypeOK /\ TasksHaveRows /\ CapsWithinPeak /\ SettlesAssigned

LEMMA PoolNext == RefineInv /\ [Next]_vars => PoolStep
<1> SUFFICES ASSUME RefineInv, [Next]_vars PROVE PoolStep
  OBVIOUS
<1> StatusTyped /\ status \in [Requests -> Statuses]
  BY DEF RefineInv, TypeOK, StatusTyped
<1> USE DEF planVars, rowVars
<1>1. ASSUME NEW p \in Tasks, EffectivePlan(p) PROVE PoolStep
  BY <1>1, Stutter DEF EffectivePlan
<1>2. ASSUME NEW p \in Tasks, SlotRefused(p) PROVE PoolStep
  BY <1>2, Stutter DEF SlotRefused
<1>3. ASSUME NEW p \in Tasks, SlotGranted(p) PROVE PoolStep
  <2>1. req[p] \in Requests /\ TeamOf[req[p]] \in Teams
    BY <1>3, AllocatorAssumption DEF SlotGranted, RefineInv, TasksHaveRows
  <2>2. /\ Occupancy(TeamOf[req[p]]) < cap[p] /\ cap[p] <= peakCap[TeamOf[req[p]]]
        /\ cap[p] \in Nat /\ peakCap[TeamOf[req[p]]] \in Nat
    BY <1>3, <2>1 DEF SlotGranted, RefineInv, CapsWithinPeak, TypeOK
  <2>3. Occupancy(TeamOf[req[p]]) < peakCap[TeamOf[req[p]]]
    BY <2>2, HoldersFinite
  <2>q. QED
    BY <1>3, <2>1, <2>3, Takes DEF SlotGranted, SetStatus
<1>4. ASSUME NEW p \in Tasks, SlotGone(p) PROVE PoolStep
  BY <1>4, Stutter DEF SlotGone
<1>5. ASSUME NEW p \in Tasks, HostsFound(p) PROVE PoolStep
  BY <1>5, Stutter DEF HostsFound
<1>6. ASSUME NEW p \in Tasks, NoHostFits(p) PROVE PoolStep
  <2>1. CASE status[req[p]] = "assigning"
    <3>1. req[p] \in Requests
      BY <1>6 DEF NoHostFits, RefineInv, TasksHaveRows
    <3>2. status' = [r \in Requests |-> IF r \in {req[p]} THEN "queued"
                                                        ELSE status[r]]
      BY <1>6, <2>1, <3>1 DEF NoHostFits, SetIfAssigning, SetStatus
    <3>3. /\ {req[p]} \in SUBSET Requests /\ UNCHANGED peakCap
          /\ \A r \in {req[p]} : status[r] = "assigning"
      BY <1>6, <2>1, <3>1 DEF NoHostFits
    <3>q. QED
      BY <3>2, <3>3, BackToQueue
  <2>2. CASE status[req[p]] # "assigning"
    BY <1>6, <2>2, Stutter DEF NoHostFits, SetIfAssigning
  <2>q. QED
    BY <2>1, <2>2
<1>7. ASSUME NEW p \in Tasks, CreateVm(p) PROVE PoolStep
  BY <1>7, Stutter DEF CreateVm
<1>8. ASSUME NEW p \in Tasks, CreateVmFails(p) PROVE PoolStep
  BY <1>8, Stutter DEF CreateVmFails
<1>9. ASSUME NEW p \in Tasks, CreateVmTimesOut(p) PROVE PoolStep
  BY <1>9, Stutter DEF CreateVmTimesOut
<1>10. ASSUME NEW p \in Tasks, RecordVm(p) PROVE PoolStep
  <2>1. req[p] \in Requests
    BY <1>10 DEF RecordVm, RefineInv, TasksHaveRows
  <2>q. QED
    BY <1>10, <2>1, StillHeld DEF RecordVm, SetStatus
<1>11. ASSUME NEW p \in Tasks, ClaimLost(p) PROVE PoolStep
  BY <1>11, Stutter DEF ClaimLost
<1>12. ASSUME NEW p \in Tasks, RecordVmFails(p) PROVE PoolStep
  BY <1>12, Stutter DEF RecordVmFails
<1>13. ASSUME NEW p \in Tasks, Cleanup(p) PROVE PoolStep
  BY <1>13, Stutter DEF Cleanup
<1>14. ASSUME NEW p \in Tasks, Account(p) PROVE PoolStep
  BY <1>14, Stutter DEF Account
<1>15. ASSUME NEW p \in Tasks, AccountFails(p) PROVE PoolStep
  BY <1>15, Stutter DEF AccountFails
<1>16. ASSUME NEW p \in Tasks, BumpAttempts(p) PROVE PoolStep
  BY <1>16, Stutter DEF BumpAttempts
<1>17. ASSUME NEW p \in Tasks, FailRequest(p) PROVE PoolStep
  <2>1. CASE status[req[p]] = "assigning"
    <3>1. req[p] \in Requests
      BY <1>17 DEF FailRequest, RefineInv, TasksHaveRows
    <3>q. QED
      BY <1>17, <2>1, <3>1, Fails DEF FailRequest, SetIfAssigning, SetStatus
  <2>2. CASE status[req[p]] # "assigning"
    BY <1>17, <2>2, Stutter DEF FailRequest, SetIfAssigning
  <2>q. QED
    BY <2>1, <2>2
<1>18. ASSUME NEW p \in Tasks, FailEvent(p) PROVE PoolStep
  BY <1>18, Stutter DEF FailEvent
<1>19. ASSUME NEW p \in Tasks, Requeue(p) PROVE PoolStep
  <2>1. CASE status[req[p]] = "assigning"
    <3>1. req[p] \in Requests
      BY <1>19 DEF Requeue, RefineInv, TasksHaveRows
    <3>2. status' = [r \in Requests |-> IF r \in {req[p]} THEN "queued"
                                                        ELSE status[r]]
      BY <1>19, <2>1, <3>1 DEF Requeue, SetIfAssigning, SetStatus
    <3>3. /\ {req[p]} \in SUBSET Requests /\ UNCHANGED peakCap
          /\ \A r \in {req[p]} : status[r] = "assigning"
      BY <1>19, <2>1, <3>1 DEF Requeue
    <3>q. QED
      BY <3>2, <3>3, BackToQueue
  <2>2. CASE status[req[p]] # "assigning"
    BY <1>19, <2>2, Stutter DEF Requeue, SetIfAssigning
  <2>q. QED
    BY <2>1, <2>2
<1>20. ASSUME NEW p \in Tasks, DeleteVm(p) PROVE PoolStep
  BY <1>20, Stutter DEF DeleteVm
<1>21. ASSUME NEW p \in Tasks, Settle(p) PROVE PoolStep
  <2>1. /\ req[p] \in Requests /\ status[req[p]] \in {"assigned", "released"}
        /\ UNCHANGED peakCap /\ status' = [status EXCEPT ![req[p]] = "released"]
    BY <1>21 DEF Settle, SetStatus, RefineInv, TasksHaveRows, SettlesAssigned
  <2>2. CASE status[req[p]] = "assigned"
    BY <2>1, <2>2, Releases DEF Holding
  <2>3. CASE status[req[p]] = "released"
    BY <2>1, <2>3, Stutter
  <2>q. QED
    BY <2>1, <2>2, <2>3
<1>22. ASSUME NEW p \in Tasks, SelectBatch(p) PROVE PoolStep
  BY <1>22, Stutter DEF SelectBatch
<1>23. ASSUME NEW p \in Tasks, NextRow(p) PROVE PoolStep
  BY <1>23, Stutter DEF NextRow
<1>24. ASSUME NEW p \in Tasks, EndTick(p) PROVE PoolStep
  BY <1>24, Stutter DEF EndTick
<1>25. ASSUME NEW p \in Tasks, Tick(p) PROVE PoolStep
  <2> DEFINE reclaimed == {r \in stale : status[r] = "assigning"}
  <2>1. /\ reclaimed \in SUBSET Requests
        /\ \A r \in reclaimed : status[r] = "assigning"
    BY DEF StatusTyped
  <2>q. QED
    BY <1>25, <2>1, BackToQueue DEF Tick
<1>26. ASSUME NEW p \in Tasks, LockLost(p) PROVE PoolStep
  BY <1>26, Stutter DEF LockLost
<1>27. ASSUME NEW p \in Tasks, Abort(p) PROVE PoolStep
  BY <1>27, Stutter DEF Abort
<1>28. ASSUME NEW p \in Tasks, NEW r \in Requests, PostEnvironment(p, r) PROVE PoolStep
  <2>1. /\ Queued' = Queued \cup {r} /\ UNCHANGED <<Held, Freed, Lost>>
        /\ r \notin Queued \cup Held \cup Freed \cup Lost
    BY <1>28 DEF PostEnvironment, Queued, Held, Freed, Lost, Holding
  <2>2. Pool!Submit(r)
    BY <1>28, <2>1 DEF PostEnvironment, Pool!Submit, Held, Freed, Lost
  <2>q. QED
    BY <2>2 DEF PoolStep, Pool!Next
<1>29. ASSUME NEW p \in Tasks, NEW r \in Requests, ReleaseWaiting(p, r) PROVE PoolStep
  BY <1>29, Releases DEF ReleaseWaiting, SetStatus, Waiting, Holding
<1>30. ASSUME NEW p \in Tasks, NEW r \in Requests, ReleaseAssigned(p, r) PROVE PoolStep
  BY <1>30, Stutter DEF ReleaseAssigned
<1>31. ASSUME NEW r \in Requests, ClaimAges(r) PROVE PoolStep
  BY <1>31, Stutter DEF ClaimAges
<1>32. ASSUME NEW t \in Teams, ChangePlan(t) PROVE PoolStep
  <2>1. UNCHANGED <<Queued, Held, Freed, Lost>>
    BY <1>32 DEF ChangePlan, Queued, Held, Freed, Lost
  <2>2. PICK c \in PlanCaps :
          peakCap' = [peakCap EXCEPT ![t] = IF c > peakCap[t] THEN c ELSE peakCap[t]]
    BY <1>32 DEF ChangePlan
  <2>3. peakCap \in [Teams -> Nat] /\ c \in Nat
    BY AllocatorAssumption DEF RefineInv, TypeOK
  <2>4. CASE c > peakCap[t]
    <3>1. peakCap'[t] = c /\ peakCap' = [peakCap EXCEPT ![t] = peakCap'[t]]
      BY <2>2, <2>3, <2>4
    <3>2. Pool!Grow(t)
      BY <2>1, <2>4, <3>1 DEF Pool!Grow, Held, Freed, Lost
    <3>q. QED
      BY <3>2 DEF PoolStep, Pool!Next
  <2>5. CASE ~(c > peakCap[t])
    BY <2>1, <2>2, <2>3, <2>5 DEF PoolStep, Pool!poolVars, Held, Freed, Lost
  <2>q. QED
    BY <2>4, <2>5
<1>33. ASSUME NEW v \in VMs, Reap(v) PROVE PoolStep
  BY <1>33, Stutter DEF Reap
<1>34. CASE UNCHANGED vars
  BY <1>34, Stutter DEF vars
<1>q. QED
  BY <1>1, <1>2, <1>3, <1>4, <1>5, <1>6, <1>7, <1>8, <1>9, <1>10, <1>11,
     <1>12, <1>13, <1>14, <1>15, <1>16, <1>17, <1>18, <1>19, <1>20, <1>21,
     <1>22, <1>23, <1>24, <1>25, <1>26, <1>27, <1>28, <1>29, <1>30, <1>31,
     <1>32, <1>33, <1>34
     DEF Next, Proceed

(* The allocator implements the pool of slots: whatever handlers, ticks,   *)
(* hosts, failures and plan changes do, a team sees runs that queue, take  *)
(* a slot only if one is free, give it back, are released or fail, and     *)
(* stay what they then are.                                                *)
THEOREM Refinement == Spec => ImplementsPool
<1>1. Init => RefineInv /\ Pool!Init
  <2>1. Init => SettlesAssigned
    BY DEF Init, SettlesAssigned
  <2>q. QED
    BY <2>1, TypeInit, SlotsInit, PoolInit DEF RefineInv
<1>2. RefineInv /\ [Next]_vars => RefineInv'
  BY TypeStep, RowsStep, CapsStep, SettlesStep DEF RefineInv
<1>3. RefineInv /\ [Next]_vars => [Pool!Next]_(Pool!poolVars)
  BY PoolNext DEF PoolStep
<1>q. QED
  BY <1>1, <1>2, <1>3, PTL DEF Spec, ImplementsPool, Pool!Spec
=============================================================================
