-------------------------- MODULE HostHealthProofs --------------------------
(***************************************************************************)
(* Theorems about HostHealth for every number of overlapping polls, runs   *)
(* and heartbeats in flight and every timeout.                             *)
(***************************************************************************)
EXTENDS HostHealth, FiniteSetTheorems, TLAPS

(* However many ticks of the poller overlap, operations get one alert per  *)
(* outage: the row is marked and the alert claimed by one UPDATE, and only *)
(* a healthy poll, which starts a new count, withdraws the claim.          *)
THEOREM AlertOncePerOutage == Spec => []OneAlertPerOutage
<1> DEFINE Inv == alerted \in BOOLEAN /\ OneAlertPerOutage
<1> USE DEF OneAlertPerOutage
<1>1. Init => Inv
  BY DEF Init
<1>2. Inv /\ [Next]_vars => Inv'
  <2> SUFFICES ASSUME Inv, [Next]_vars PROVE Inv'
    OBVIOUS
  <2>1. ASSUME NEW p \in Pollers, PollUpdate(p) PROVE Inv'
    BY <2>1 DEF PollUpdate
  <2>2. ASSUME NEW p \in Pollers, MarkOffline(p) PROVE Inv'
    <3>1. CASE alerted
      BY <2>2, <3>1 DEF MarkOffline
    <3>2. CASE ~alerted
      <4>1. alerted' = TRUE /\ mails = 0
        BY <2>2, <3>2 DEF MarkOffline
      <4>2. mails' = 1
        BY <2>2, <3>2, <4>1 DEF MarkOffline
      <4>q. QED
        BY <4>1, <4>2
    <3>q. QED
      BY <3>1, <3>2
  <2>3. ASSUME UNCHANGED <<alerted, mails>> PROVE Inv'
    BY <2>3
  <2>4. ASSUME NEW p \in Pollers, PollStart(p) \/ HealthAnswers(p) \/ HealthFails(p)
        PROVE  Inv'
    BY <2>3, <2>4 DEF PollStart, HealthAnswers, HealthFails, rowVars
  <2>5. CASE SendHeartbeat
    BY <2>3, <2>5 DEF SendHeartbeat, rowVars
  <2>6. ASSUME NEW u \in Usage, Heartbeat(u) \/ LoseHeartbeat(u) PROVE Inv'
    BY <2>3, <2>6 DEF Heartbeat, LoseHeartbeat, rowVars
  <2>7. ASSUME NEW e \in Envs, BootVm(e) \/ Book(e) \/ DeleteVm(e) \/ Reap(e)
        PROVE  Inv'
    BY <2>3, <2>7
       DEF BootVm, Book, Account, AccountFails, DropVm, Settle, DeleteVm, Reap, rowVars
  <2>8. CASE TimePasses \/ AgentStarts \/ AgentDies \/ LinkChanges
    BY <2>3, <2>8 DEF TimePasses, AgentStarts, AgentDies, LinkChanges, rowVars
  <2>9. CASE UNCHANGED vars
    BY <2>3, <2>9 DEF vars, rowVars
  <2>q. QED
    BY <2>1, <2>2, <2>4, <2>5, <2>6, <2>7, <2>8, <2>9 DEF Next, Poll
<1>q. QED
  BY <1>1, <1>2, PTL DEF Spec

-----------------------------------------------------------------------------
(* Types.                                                                  *)

(* Runs that the control plane has booked, or will not book any more.      *)
Spent == {e \in Envs : charge[e] \in {"charged", "deleting", "settled"}}

(* What the row counts: at most the VMs an agent counted, and on top of    *)
(* them one for each run that was booked since.                            *)
UsedBound == used \in Nat /\ used <= Cardinality(Envs) + Cardinality(Spent)

PollType ==
  /\ pc \in [Pollers -> {"idle", "call", "update", "offline"}]
  /\ seen \in [Pollers -> Ages] /\ answer \in [Pollers -> Usage]
  /\ waited \in [Pollers -> BOOLEAN]
RowType ==
  /\ status \in {"online", "offline"} /\ age \in Ages
  /\ alerted \in BOOLEAN /\ mails \in 0..2
AgentType ==
  /\ agent \in {"up", "down"} /\ reachable \in BOOLEAN
  /\ beats \subseteq Usage
LedgerType == vmOn \subseteq Envs /\ charge \in [Envs -> Charges]

HostTypes == PollType /\ RowType /\ AgentType /\ LedgerType /\ UsedBound

LEMMA Counts ==
  /\ IsFiniteSet(Envs) /\ Cardinality(Envs) \in Nat
  /\ \A X \in SUBSET Envs :
       IsFiniteSet(X) /\ Cardinality(X) \in Nat /\ Cardinality(X) <= Cardinality(Envs)
BY HostAssumption, FS_CardinalityType, FS_Subset

LEMMA SpentCounts ==
  Cardinality(Spent) \in Nat /\ Cardinality(Spent) <= Cardinality(Envs)
<1>1. Spent \in SUBSET Envs
  BY DEF Spent
<1>2. QED BY <1>1, Counts

LEMMA AgesAre == Never \in Ages /\ 0 \in Ages /\ \A a \in Ages : Older(a) \in Ages
BY HostAssumption DEF Ages, Never, Older

(* Booking a run, or dropping it, adds it to those spent; nothing takes    *)
(* one out.                                                                *)
LEMMA SpentGrows ==
  ASSUME LedgerType, NEW e \in Envs, NEW c \in {"charged", "deleting", "settled"},
         SetCharge(e, c)
  PROVE  /\ Cardinality(Spent') \in Nat /\ Cardinality(Spent) \in Nat
         /\ Cardinality(Spent) <= Cardinality(Spent')
         /\ charge[e] = "booted" => Cardinality(Spent') = Cardinality(Spent) + 1
<1>1. Spent' = Spent \cup {e} /\ Spent \in SUBSET Envs /\ Spent' \in SUBSET Envs
  BY DEF Spent, SetCharge, LedgerType
<1>2. charge[e] = "booted" => e \notin Spent
  BY DEF Spent
<1>3. IsFiniteSet(Spent) /\ Cardinality(Spent) \in Nat /\ Cardinality(Spent') \in Nat
  BY <1>1, Counts
<1>4. Cardinality(Spent \cup {e}) =
        IF e \in Spent THEN Cardinality(Spent) ELSE Cardinality(Spent) + 1
  BY <1>3, FS_AddElement
<1>5. Cardinality(Spent) <= Cardinality(Spent')
  BY <1>1, <1>3, <1>4
<1>6. QED BY <1>1, <1>2, <1>3, <1>4, <1>5

LEMMA TypesInit == Init => HostTypes
<1> SUFFICES ASSUME Init
             PROVE  HostTypes
  OBVIOUS
<1>1. 0 \in Usage
  BY Counts DEF Usage
<1>2. PollType
  BY <1>1, AgesAre DEF Init, PollType
<1>3. RowType /\ AgentType /\ LedgerType
  <2>1. alerted \in BOOLEAN /\ reachable \in BOOLEAN
    BY DEF Init
  <2>2. QED
    BY <2>1, AgesAre DEF Init, RowType, AgentType, LedgerType, Charges
<1>4. UsedBound
  BY Counts, SpentCounts DEF Init, UsedBound
<1>5. QED BY <1>2, <1>3, <1>4 DEF HostTypes

(* The agent's own count takes the place of the row's.                     *)
LEMMA OverwriteBound ==
  ASSUME NEW u \in Usage, Overwrite(u), UNCHANGED charge
  PROVE  UsedBound'
<1>1. u \in Nat /\ u <= Cardinality(Envs) /\ Cardinality(Envs) \in Nat
  BY Counts DEF Usage
<1>2. Cardinality(Spent)' \in Nat
  BY SpentCounts DEF Spent
<1>3. used' = u
  BY DEF Overwrite
<1>4. QED BY <1>1, <1>2, <1>3 DEF UsedBound

LEMMA TypesStep == HostTypes /\ [Next]_vars => HostTypes'
<1> SUFFICES ASSUME HostTypes, [Next]_vars
             PROVE  HostTypes'
  OBVIOUS
<1> USE DEF HostTypes
<1>0. Actual \in Usage /\ 0 \in Usage
  BY Counts DEF Usage, Actual, LedgerType
<1>1. UNCHANGED charge /\ UNCHANGED used => UsedBound'
  BY DEF UsedBound, Spent
<1>2. ASSUME NEW p \in Pollers, Poll(p)
      PROVE  HostTypes'
  <2>1. AgentType' /\ LedgerType'
    BY <1>2
    DEF Poll, PollStart, HealthAnswers, PollUpdate, HealthFails, MarkOffline,
      AgentType, LedgerType, agentVars, ledgerVars
  <2>2. PollType'
    <3>1. Idle(p) => PollType'
      BY <1>0, AgesAre DEF Idle, PollType
    <3>2. PollStart(p) => PollType'
      BY DEF PollStart, PollType, RowType
    <3>3. HealthAnswers(p) => PollType'
      BY <1>0 DEF HealthAnswers, PollType
    <3>4. HealthFails(p) => PollType'
      BY <1>0, <3>1 DEF HealthFails, PollType
    <3>5. QED BY <1>2, <3>1, <3>2, <3>3, <3>4 DEF Poll, PollUpdate, MarkOffline
  <2>3. RowType'
    <3>1. MarkOffline(p) => RowType'
      <4> SUFFICES ASSUME MarkOffline(p)
                   PROVE  RowType'
        OBVIOUS
      <4>1. alerted' \in BOOLEAN
        BY DEF MarkOffline, RowType
      <4>2. mails' \in 0..2 /\ status' \in {"online", "offline"} /\ age' \in Ages
        BY DEF MarkOffline, RowType
      <4>3. QED BY <4>1, <4>2 DEF RowType
    <3>2. PollUpdate(p) => RowType'
      <4> SUFFICES ASSUME PollUpdate(p)
                   PROVE  RowType'
        OBVIOUS
      <4>1. alerted' \in BOOLEAN
        BY DEF PollUpdate
      <4>2. mails' \in 0..2 /\ status' \in {"online", "offline"} /\ age' \in Ages
        BY AgesAre DEF PollUpdate
      <4>3. QED BY <4>1, <4>2 DEF RowType
    <3>3. PollStart(p) \/ HealthAnswers(p) \/ HealthFails(p) => RowType'
      BY DEF PollStart, HealthAnswers, HealthFails, RowType, rowVars
    <3>4. QED BY <1>2, <3>1, <3>2, <3>3 DEF Poll
  <2>4. UsedBound'
    <3>1. CASE PollUpdate(p)
      <4>1. answer[p] \in Usage /\ Overwrite(answer[p]) /\ UNCHANGED charge
        BY <3>1 DEF PollUpdate, PollType, ledgerVars
      <4>2. QED BY <4>1, OverwriteBound
    <3>2. CASE ~PollUpdate(p)
      BY <1>1, <1>2, <3>2
      DEF Poll, PollStart, HealthAnswers, HealthFails, MarkOffline, rowVars, ledgerVars
    <3>3. QED BY <3>1, <3>2
  <2>5. QED BY <2>1, <2>2, <2>3, <2>4
<1>3. CASE SendHeartbeat
  BY <1>0, <1>1, <1>3
  DEF SendHeartbeat, rowVars, pollVars, ledgerVars, PollType, RowType, AgentType,
    LedgerType
<1>4. ASSUME NEW u \in Usage, Heartbeat(u) \/ LoseHeartbeat(u)
      PROVE  HostTypes'
  <2>1. PollType' /\ LedgerType' /\ AgentType'
    BY <1>4
    DEF Heartbeat, LoseHeartbeat, pollVars, ledgerVars, PollType, AgentType, LedgerType
  <2>2. RowType'
    BY <1>4, AgesAre DEF Heartbeat, LoseHeartbeat, rowVars, RowType
  <2>3. UsedBound'
    BY <1>1, <1>4, OverwriteBound DEF Heartbeat, LoseHeartbeat, rowVars, ledgerVars
  <2>4. QED BY <2>1, <2>2, <2>3
<1>5. ASSUME NEW e \in Envs, BootVm(e) \/ Book(e) \/ DeleteVm(e) \/ Reap(e)
      PROVE  HostTypes'
  <2>1. PollType' /\ RowType' /\ AgentType'
    BY <1>5
    DEF BootVm, Book, Account, AccountFails, DropVm, Settle, DeleteVm, Reap,
      pollVars, rowVars, agentVars, PollType, RowType, AgentType
  <2>2. LedgerType'
    <3>1. vmOn' \subseteq Envs
      BY <1>5
      DEF LedgerType, BootVm, Book, Account, AccountFails, DropVm, Settle, DeleteVm, Reap
    <3>2. charge' \in [Envs -> Charges]
      BY <1>5
      DEF LedgerType, Charges, SetCharge, BootVm, Book, Account, AccountFails, DropVm,
        Settle, DeleteVm, Reap
    <3>3. QED BY <3>1, <3>2 DEF LedgerType
  <2>3. UsedBound'
    <3>1. CASE Account(e)
      <4>1. used' = used + 1 /\ charge[e] = "booted" /\ SetCharge(e, "charged")
        BY <3>1 DEF Account
      <4>2. /\ Cardinality(Spent)' = Cardinality(Spent) + 1
            /\ Cardinality(Spent) \in Nat /\ Cardinality(Envs) \in Nat
        BY <4>1, SpentGrows, Counts
      <4>3. QED BY <4>1, <4>2 DEF UsedBound
    <3>2. CASE AccountFails(e) \/ DropVm(e) \/ DeleteVm(e) \/ Settle(e)
      <4>1. PICK c \in {"charged", "deleting", "settled"} : SetCharge(e, c)
        BY <3>2 DEF AccountFails, DropVm, DeleteVm, Settle
      <4>2. /\ Cardinality(Spent) <= Cardinality(Spent)'
            /\ Cardinality(Spent) \in Nat /\ Cardinality(Spent)' \in Nat
            /\ Cardinality(Envs) \in Nat
        BY <4>1, SpentGrows, Counts
      <4>3. used' \in Nat /\ used' <= used
        BY <3>2 DEF AccountFails, DropVm, DeleteVm, Settle, rowVars, UsedBound
      <4>4. QED BY <4>2, <4>3 DEF UsedBound
    <3>3. CASE BootVm(e)
      <4>1. Spent' = Spent /\ used' = used
        BY <3>3 DEF BootVm, SetCharge, Spent, rowVars, LedgerType
      <4>2. QED BY <4>1 DEF UsedBound
    <3>4. CASE Reap(e)
      BY <1>1, <3>4 DEF Reap, rowVars
    <3>5. QED BY <1>5, <3>1, <3>2, <3>3, <3>4 DEF Book
  <2>4. QED BY <2>1, <2>2, <2>3
<1>6. CASE TimePasses
  <2>1. RowType' /\ AgentType' /\ LedgerType'
    BY <1>6, AgesAre
    DEF TimePasses, RowType, AgentType, LedgerType, agentVars, ledgerVars
  <2>2. PollType'
    BY <1>6, AgesAre DEF TimePasses, PollType
  <2>3. QED BY <1>1, <1>6, <2>1, <2>2 DEF TimePasses, ledgerVars
<1>7. CASE AgentStarts \/ AgentDies \/ LinkChanges
  BY <1>1, <1>7
  DEF AgentStarts, AgentDies, LinkChanges, rowVars, pollVars, ledgerVars, PollType,
    RowType, AgentType, LedgerType
<1>8. CASE UNCHANGED vars
  BY <1>1, <1>8
  DEF vars, rowVars, pollVars, agentVars, ledgerVars, PollType, RowType, AgentType,
    LedgerType
<1>9. QED BY <1>2, <1>3, <1>4, <1>5, <1>6, <1>7, <1>8 DEF Next

LEMMA TypesHold == HostTypes => TypeOK
<1> SUFFICES ASSUME HostTypes
             PROVE  TypeOK
  OBVIOUS
<1>1. used \in 0..(2 * Cardinality(Envs))
  BY SpentCounts, Counts DEF HostTypes, UsedBound
<1>2. QED
  BY <1>1 DEF HostTypes, PollType, RowType, AgentType, LedgerType, TypeOK

(* Whatever the order of polls, heartbeats and bookings, the row never     *)
(* counts more than twice the runs that were placed on the host, nor less  *)
(* than none.                                                              *)
THEOREM HostTypeCorrect == Spec => []TypeOK
BY TypesInit, TypesStep, TypesHold, PTL DEF Spec
=============================================================================
