----------------------------- MODULE SlotPool ------------------------------
(***************************************************************************)
(* What the allocator promises a team, with everything about handlers,     *)
(* ticks, hosts and VMs left out: a team has a pool of slots, a run waits  *)
(* for one, holds at most one, and once it is released or has failed it    *)
(* stays so.                                                               *)
(* size is the largest cap the team's plan has had: work that was admitted *)
(* under a plan is not revoked when the plan shrinks.                      *)
(***************************************************************************)
EXTENDS Naturals, FiniteSets

CONSTANTS Teams, Requests, TeamOf

VARIABLES
  size,     \* slots of each team's pool
  waiting,  \* runs that want a slot
  holding,  \* runs that hold one
  released, failed  \* runs that are over, and how they ended

poolVars == <<size, waiting, holding, released, failed>>

HeldBy(t) == {r \in holding : TeamOf[r] = t}

Init ==
  /\ size \in [Teams -> Nat]
  /\ waiting = {} /\ holding = {} /\ released = {} /\ failed = {}

(* A run that was never seen before joins the queue.                       *)
Submit(r) ==
  /\ r \notin waiting \cup holding \cup released \cup failed
  /\ waiting' = waiting \cup {r}
  /\ UNCHANGED <<size, holding, released, failed>>

(* A run takes a slot, one run at a time and only if one is free.          *)
Take(r) ==
  /\ r \in waiting
  /\ Cardinality(HeldBy(TeamOf[r])) < size[TeamOf[r]]
  /\ waiting' = waiting \ {r}
  /\ holding' = holding \cup {r}
  /\ UNCHANGED <<size, released, failed>>

(* Runs go back to the queue.                                              *)
GiveBack(S) ==
  /\ S # {} /\ S \subseteq holding
  /\ waiting' = waiting \cup S
  /\ holding' = holding \ S
  /\ UNCHANGED <<size, released, failed>>

(* A run is released, from the queue or from its slot.                     *)
Release(r) ==
  /\ r \in waiting \cup holding
  /\ waiting' = waiting \ {r}
  /\ holding' = holding \ {r}
  /\ released' = released \cup {r}
  /\ UNCHANGED <<size, failed>>

(* Only a run that was given a slot can fail.                              *)
Fail(r) ==
  /\ r \in holding
  /\ holding' = holding \ {r}
  /\ failed' = failed \cup {r}
  /\ UNCHANGED <<size, waiting, released>>

(* A larger plan adds slots.                                               *)
Grow(t) ==
  /\ size'[t] > size[t]
  /\ size' = [size EXCEPT ![t] = size'[t]]
  /\ UNCHANGED <<waiting, holding, released, failed>>

Next ==
  \/ \E r \in Requests : Submit(r) \/ Take(r) \/ Release(r) \/ Fail(r)
  \/ \E S \in SUBSET Requests : GiveBack(S)
  \/ \E t \in Teams : Grow(t)

Spec == Init /\ [][Next]_poolVars
=============================================================================
