----------------------------- MODULE Placement -----------------------------
(***************************************************************************)
(* Which host a new environment lands on, and what is known of the hosts:  *)
(*   src/scheduler/placement.ts   fits, loadScore, rankHosts               *)
(*   src/lib/hostUsage.ts         when a measurement is too old            *)
(*   src/routes/hosts.ts          measurements that come with a heartbeat  *)
(*   src/scheduler/allocator.ts   the room that a placed VM takes          *)
(*                                                                         *)
(* Memory is filtered on as CPU is and is left out.                        *)
(***************************************************************************)
EXTENDS Integers, Sequences, FiniteSets

CONSTANTS
  Names,        \* hosts, as numbers: the order of their names
  CpuTotal,     \* cpu_total, the same for all
  Sizes,        \* vCPUs a run may ask for
  Loads,        \* values of cpu_busy_pct
  StaleAfter    \* USAGE_STALE_AFTER_MS

PlacementAssumption ==
  IsFiniteSet(Names) /\ Names \subseteq Nat
  /\ CpuTotal \in Nat /\ Sizes \subseteq Nat \ {0}
  /\ Loads \subseteq 0..100 /\ StaleAfter \in Nat

Never == -1
Bucket == 5     \* LOAD_BUCKET

VARIABLES
  used,      \* cpu_used
  busy,      \* cpu_busy_pct, Never when it was never reported
  age,       \* time since usage_reported_at, up to StaleAfter + 1
  known      \* history: what the agent has measured within StaleAfter

vars == <<used, busy, age, known>>

Init ==
  /\ used \in [Names -> 0..CpuTotal]
  /\ busy = [n \in Names |-> Never]
  /\ age = [n \in Names |-> StaleAfter + 1]
  /\ known = [n \in Names |-> Never]

-----------------------------------------------------------------------------
(* Faulty variant of MeasurementFresh, a slip the code could have: what    *)
(* was reported once counts for ever.                                      *)
MeasuredEver(n) == busy[n] # Never

MeasurementFresh(n) == busy[n] # Never /\ age[n] <= StaleAfter

Free(n) == CpuTotal - used[n]
Fits(n, vcpu) == Free(n) >= vcpu

(* loadScore in steps of Bucket: without a fresh measurement a host is as  *)
(* loaded as its reservations say.                                         *)
Load(n) ==
  IF MeasurementFresh(n) THEN busy[n] \div Bucket
  ELSE IF CpuTotal = 0 \/ used[n] >= CpuTotal THEN 100 \div Bucket
  ELSE (used[n] * 100) \div (CpuTotal * Bucket)

Before(a, b) ==
  \/ Load(a) < Load(b)
  \/ Load(a) = Load(b) /\ Free(a) > Free(b)
  \/ Load(a) = Load(b) /\ Free(a) = Free(b) /\ a < b

RankHosts(vcpu) ==
  LET fit == {n \in Names : Fits(n, vcpu)} IN
  CHOOSE r \in [1..Cardinality(fit) -> fit] :
    \A i, j \in DOMAIN r : i < j => Before(r[i], r[j])

-----------------------------------------------------------------------------
(* A heartbeat with a measurement; one without leaves all of it alone.     *)
Measure(n, load) ==
  /\ busy' = [busy EXCEPT ![n] = load] /\ age' = [age EXCEPT ![n] = 0]
  /\ known' = [known EXCEPT ![n] = load]
  /\ UNCHANGED used

TimePasses ==
  /\ age' = [n \in Names |-> IF age[n] > StaleAfter THEN age[n] ELSE age[n] + 1]
  /\ known' = [n \in Names |-> IF age[n] >= StaleAfter THEN Never ELSE known[n]]
  /\ UNCHANGED <<used, busy>>

(* tryAssign on the first host, and a release.                             *)
Place(vcpu) ==
  /\ RankHosts(vcpu) # <<>>
  /\ used' = [used EXCEPT ![Head(RankHosts(vcpu))] = @ + vcpu]
  /\ UNCHANGED <<busy, age, known>>
Release(n, vcpu) ==
  /\ used[n] > 0
  /\ used' = [used EXCEPT ![n] = IF @ > vcpu THEN @ - vcpu ELSE 0]
  /\ UNCHANGED <<busy, age, known>>

Next ==
  \/ TimePasses
  \/ \E n \in Names, load \in Loads : Measure(n, load)
  \/ \E v \in Sizes : Place(v) \/ \E n \in Names : Release(n, v)

Spec == Init /\ [][Next]_vars

-----------------------------------------------------------------------------
TypeOK ==
  /\ used \in [Names -> 0..CpuTotal] /\ busy \in [Names -> Loads \cup {Never}]
  /\ age \in [Names -> 0..StaleAfter + 1]

(* What the load of a host is by the evidence there is today.              *)
Evidence(n) == IF known[n] # Never THEN known[n] ELSE (used[n] * 100) \div CpuTotal

(* The ranking has every host with room, once, and none without; and a     *)
(* host is never ahead of one that by today's evidence is less loaded by a *)
(* step or more: an agent that fell silent draws no runs to its host.      *)
LeastLoadedFirst ==
  \A v \in Sizes :
    LET r == RankHosts(v) IN
    /\ {r[i] : i \in DOMAIN r} = {n \in Names : used[n] + v <= CpuTotal}
    /\ Len(r) = Cardinality({r[i] : i \in DOMAIN r})
    /\ \A i, j \in DOMAIN r : i < j => Evidence(r[i]) < Evidence(r[j]) + Bucket
=============================================================================
