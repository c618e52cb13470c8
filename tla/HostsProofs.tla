----------------------------- MODULE HostsProofs -----------------------------
(***************************************************************************)
(* The types of MCHosts: those of both of its hosts, by what               *)
(* HostHealthProofs shows of each.                                         *)
(***************************************************************************)
EXTENDS MCHosts, HostHealthProofs

AlertsProofs == INSTANCE HostHealthProofs WITH Pollers <- Overlapping, Envs <- {}

AlertsTypes == AlertsProofs!HostTypes

(* The facts about the host with the overlapping ticks.                    *)
LEMMA AlertsFacts ==
  /\ Alerts!Init => AlertsTypes
  /\ AlertsTypes /\ [Alerts!Next]_(Alerts!vars) => AlertsTypes'
  /\ AlertsTypes => Alerts!TypeOK
<1>1. AlertsProofs!HostAssumption
  <2>1. AlertsProofs!IsFiniteSet({}) <=> IsFiniteSet({})
    BY DEF AlertsProofs!IsFiniteSet, IsFiniteSet
  <2>2. QED BY <2>1, HostAssumption, FS_EmptySet DEF AlertsProofs!HostAssumption
<1>2. Alerts!Init => AlertsProofs!Init
  BY DEF Alerts!Init, AlertsProofs!Init, Alerts!Never, AlertsProofs!Never
<1>3. UNCHANGED Alerts!vars => UNCHANGED AlertsProofs!vars
  BY DEF Alerts!vars, AlertsProofs!vars, Alerts!rowVars, AlertsProofs!rowVars,
      Alerts!pollVars, AlertsProofs!pollVars, Alerts!agentVars, AlertsProofs!agentVars,
      Alerts!ledgerVars, AlertsProofs!ledgerVars
<1>4. /\ Alerts!Usage = AlertsProofs!Usage /\ Alerts!Actual = AlertsProofs!Actual
      /\ Alerts!Ages = AlertsProofs!Ages
      /\ \A a : Alerts!Older(a) = AlertsProofs!Older(a)
      /\ \A a : Alerts!Stale(a) <=> AlertsProofs!Stale(a)
  BY DEF Alerts!Usage, AlertsProofs!Usage, Alerts!Actual, AlertsProofs!Actual,
      Alerts!Ages, AlertsProofs!Ages, Alerts!Never, AlertsProofs!Never,
      Alerts!Older, AlertsProofs!Older, Alerts!Stale, AlertsProofs!Stale,
      Alerts!Cardinality, AlertsProofs!Cardinality, Alerts!IsFiniteSet, AlertsProofs!IsFiniteSet
<1>5. Alerts!Next => AlertsProofs!Next
  <2> SUFFICES ASSUME Alerts!Next
               PROVE  AlertsProofs!Next
    OBVIOUS
  <2> USE DEF Alerts!rowVars, AlertsProofs!rowVars, Alerts!pollVars, AlertsProofs!pollVars,
      Alerts!agentVars, AlertsProofs!agentVars, Alerts!ledgerVars, AlertsProofs!ledgerVars,
      Alerts!Overwrite, AlertsProofs!Overwrite, Alerts!Idle, AlertsProofs!Idle
  <2>1. ASSUME NEW p \in Overlapping, Alerts!Poll(p)
        PROVE  AlertsProofs!Poll(p)
    <3>1. Alerts!PollStart(p) => AlertsProofs!PollStart(p)
      BY <1>4 DEF Alerts!PollStart, AlertsProofs!PollStart
    <3>2. Alerts!HealthAnswers(p) => AlertsProofs!HealthAnswers(p)
      BY <1>4 DEF Alerts!HealthAnswers, AlertsProofs!HealthAnswers
    <3>3. Alerts!PollUpdate(p) => AlertsProofs!PollUpdate(p)
      BY <1>4 DEF Alerts!PollUpdate, AlertsProofs!PollUpdate
    <3>4. Alerts!HealthFails(p) => AlertsProofs!HealthFails(p)
      BY <1>4 DEF Alerts!HealthFails, AlertsProofs!HealthFails
    <3>5. Alerts!MarkOffline(p) => AlertsProofs!MarkOffline(p)
      BY <1>4 DEF Alerts!MarkOffline, AlertsProofs!MarkOffline
    <3>6. QED BY <2>1, <3>1, <3>2, <3>3, <3>4, <3>5 DEF Alerts!Poll, AlertsProofs!Poll
  <2>2. Alerts!SendHeartbeat => AlertsProofs!SendHeartbeat
    BY <1>4 DEF Alerts!SendHeartbeat, AlertsProofs!SendHeartbeat
  <2>3. ASSUME NEW u
        PROVE  /\ Alerts!Heartbeat(u) => AlertsProofs!Heartbeat(u)
               /\ Alerts!LoseHeartbeat(u) => AlertsProofs!LoseHeartbeat(u)
    BY <1>4 DEF Alerts!Heartbeat, AlertsProofs!Heartbeat,
      Alerts!LoseHeartbeat, AlertsProofs!LoseHeartbeat
  <2>4. Alerts!TimePasses => AlertsProofs!TimePasses
    BY <1>4 DEF Alerts!TimePasses, AlertsProofs!TimePasses
  <2>5. /\ Alerts!AgentStarts => AlertsProofs!AgentStarts
        /\ Alerts!AgentDies => AlertsProofs!AgentDies
        /\ Alerts!LinkChanges => AlertsProofs!LinkChanges
    BY DEF Alerts!AgentStarts, AlertsProofs!AgentStarts, Alerts!AgentDies, AlertsProofs!AgentDies,
      Alerts!LinkChanges, AlertsProofs!LinkChanges
  <2>6. QED
    BY <1>4, <2>1, <2>2, <2>3, <2>4, <2>5 DEF Alerts!Next, AlertsProofs!Next
<1>6. AlertsProofs!TypeOK => Alerts!TypeOK
  BY <1>4 DEF AlertsProofs!TypeOK, Alerts!TypeOK, Alerts!Cardinality, AlertsProofs!Cardinality
<1>7. Alerts!Init => AlertsTypes
  BY <1>1, <1>2, AlertsProofs!TypesInit DEF AlertsTypes
<1>8. AlertsTypes /\ [Alerts!Next]_(Alerts!vars) => AlertsTypes'
  <2>1. AlertsProofs!HostTypes /\ [AlertsProofs!Next]_(AlertsProofs!vars)
          => AlertsProofs!HostTypes'
    BY <1>1, AlertsProofs!TypesStep
  <2>2. [Alerts!Next]_(Alerts!vars) => [AlertsProofs!Next]_(AlertsProofs!vars)
    BY <1>3, <1>5
  <2>3. QED BY <2>1, <2>2 DEF AlertsTypes
<1>9. AlertsTypes => Alerts!TypeOK
  BY <1>1, <1>6, AlertsProofs!TypesHold DEF AlertsTypes
<1>10. QED BY <1>7, <1>8, <1>9

(* The row of either host never counts more than twice its runs, and every *)
(* other variable of the pollers, the agent and the ledger has its type.   *)
THEOREM TypesCorrect == MCSpec => []TypesOK
<1> DEFINE Inv == /\ focus \in {"alerts", "books"}
                  /\ focus = "alerts" => AlertsTypes
                  /\ focus = "books" => HostTypes
<1>1. MCInit => Inv
  BY AlertsFacts, TypesInit DEF MCInit
<1>2. Inv /\ [MCNext]_mcVars => Inv'
  <2> SUFFICES ASSUME Inv, [MCNext]_mcVars
               PROVE  Inv'
    OBVIOUS
  <2>1. focus' = focus
    BY DEF MCNext, FollowAlerts, FollowBooks, Books, mcVars
  <2>2. focus = "alerts" => [Alerts!Next]_(Alerts!vars)
    BY DEF MCNext, FollowAlerts, FollowBooks, Books, mcVars, vars, rowVars, pollVars,
      agentVars, ledgerVars, Alerts!vars, Alerts!rowVars, Alerts!pollVars,
      Alerts!agentVars, Alerts!ledgerVars
  <2>3. focus = "books" => [Next]_vars
    BY DEF MCNext, FollowAlerts, FollowBooks, Books, mcVars
  <2>4. QED BY <2>1, <2>2, <2>3, AlertsFacts, TypesStep
<1>3. Inv => TypesOK
  BY AlertsFacts, TypesHold DEF TypesOK
<1>4. MCSpec => MCInit /\ [][MCNext]_mcVars
  BY PTL DEF MCSpec
<1>5. QED BY <1>1, <1>2, <1>3, <1>4, PTL
=============================================================================
