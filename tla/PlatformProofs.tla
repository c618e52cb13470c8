--------------------------- MODULE PlatformProofs ---------------------------
(***************************************************************************)
(* Proofs about what keeps the platform and its operators in touch: the    *)
(* tunnels of an environment, the alerts about errors, the mails of the    *)
(* sweeps, the ranking of the hosts and the public status page, as         *)
(* MCPortal runs them side by side, and that the portal as a whole is      *)
(* typed.  Each part is proved about its own specification;                *)
(* "PlatformAlone" carries the result over to theirs.                      *)
(***************************************************************************)
EXTENDS LoginProofs, MembershipProofs, WellFoundedInduction

(* A behaviour of the portal is one of each of its parts: they share no    *)
(* variable, and what follows one leaves the others as they are.           *)
LEMMA PlatformAlone ==
  MCSpec => T!Spec /\ P!Spec /\ E!Spec /\ N!Spec /\ H!Spec
<1>1. MCInit => T!Init /\ P!Init /\ E!Init /\ N!Init /\ H!Init
  BY DEF MCInit
<1>2. [MCNext]_mcVars =>
        /\ [T!Next]_(T!vars) /\ [P!Next]_(P!vars) /\ [E!Next]_(E!vars)
        /\ [N!Next]_(N!vars) /\ [H!Next]_(H!vars)
  <2>1. UNCHANGED mcVars => UNCHANGED <<T!vars, P!vars, E!vars, N!vars, H!vars>>
    BY DEF mcVars, tVars, pVars, eVars, nVars, hVars, T!vars, P!vars, E!vars, N!vars,
      H!vars
  <2>2. MCNext => /\ T!Next \/ UNCHANGED T!vars
                  /\ P!Next \/ UNCHANGED P!vars
                  /\ E!Next \/ UNCHANGED E!vars
                  /\ N!Next \/ UNCHANGED N!vars
                  /\ H!Next \/ UNCHANGED H!vars
    BY DEF MCNext, FollowTeam, FollowSession, FollowFactor, FollowLink,
      FollowDevice, FollowTunnel, FollowPage, FollowErrors, FollowNotices,
      FollowHosts, tVars, pVars, eVars, nVars, hVars, T!vars, P!vars, E!vars, N!vars,
      H!vars
  <2>3. QED BY <2>1, <2>2
<1>3. QED
  BY <1>1, <1>2, PTL DEF MCSpec, mcVars, T!Spec, P!Spec, E!Spec, N!Spec, H!Spec

-----------------------------------------------------------------------------
(* Tunnels.                                                                *)

EndsType ==
  /\ active \in Int
  /\ socket \in [Clients -> {"new", "open", "closing", "closed", "gone"}]
  /\ relay \in [Clients -> {"none", "connecting", "piping", "closed"}]
  /\ tcp \in [Clients -> {"none", "dialling", "open", "destroyed"}]
FlowType ==
  /\ waiting \in [Clients -> Seq(Nat)] /\ got \in [Clients -> Seq(Nat)]
  /\ sent \in [Clients -> Nat]
TunnelType == EndsType /\ FlowType

InOrder(q) == \A i \in 1..Len(q) : q[i] = i

(* How the three sockets of a relay go together, and where the client's    *)
(* messages are: before the upstream is there all of them wait, after that *)
(* it has all of them.                                                     *)
Together(c) ==
  /\ InOrder(got[c])
  /\ socket[c] = "new" => relay[c] = "none"
  /\ socket[c] = "open" => relay[c] \in {"connecting", "piping"}
  /\ socket[c] = "gone" => relay[c] \in {"none", "closed"}
  /\ relay[c] = "none" => /\ socket[c] \in {"new", "gone"} /\ tcp[c] = "none"
                          /\ sent[c] = 0 /\ waiting[c] = <<>> /\ got[c] = <<>>
  /\ relay[c] = "connecting" => /\ tcp[c] = "dialling" /\ got[c] = <<>>
                                /\ InOrder(waiting[c]) /\ Len(waiting[c]) = sent[c]
  /\ relay[c] = "piping" => tcp[c] = "open" /\ Len(got[c]) = sent[c] /\ waiting[c] = <<>>
  /\ relay[c] = "closed" => tcp[c] # "open"

(* Numbering on, and flushing what waited.                                 *)
LEMMA NextInOrder ==
  ASSUME NEW q \in Seq(Nat), InOrder(q)
  PROVE  /\ Append(q, Len(q) + 1) \in Seq(Nat) /\ InOrder(Append(q, Len(q) + 1))
         /\ Len(Append(q, Len(q) + 1)) = Len(q) + 1
BY DEF InOrder
LEMMA FlushToEmpty == ASSUME NEW q \in Seq(Nat) PROVE <<>> \o q = q
OBVIOUS

TunnelInv ==
  /\ TunnelType /\ active = Cardinality(InUse)
  /\ \A c \in Clients : Together(c)

(* The instance's notion of size is the one of FiniteSets.                 *)
LEMMA TunnelSize ==
  /\ \A X : T!IsFiniteSet(X) <=> IsFiniteSet(X)
  /\ \A X : T!Cardinality(X) = Cardinality(X)
<1>1. \A X : T!IsFiniteSet(X) <=> IsFiniteSet(X)
  BY DEF T!IsFiniteSet, IsFiniteSet
<1>2. \A X : T!Cardinality(X) = Cardinality(X)
  BY <1>1 DEF T!Cardinality, Cardinality
<1>3. QED BY <1>1, <1>2

LEMMA InUseFinite == IsFiniteSet(InUse) /\ Cardinality(InUse) \in Nat
<1>1. IsFiniteSet(Clients)
  BY InstanceAssumptions, TunnelSize DEF T!TunnelAssumption
<1>2. InUse \subseteq Clients
  BY DEF InUse
<1>3. QED BY <1>1, <1>2, FS_Subset, FS_CardinalityType

(* A step is of one client; the count follows that client's relay.         *)
LEMMA CountFollows ==
  ASSUME TunnelInv, NEW c \in Clients, TunnelType',
         \A d \in Clients \ {c} : relay'[d] = relay[d],
         \/ (c \in InUse <=> c \in InUse') /\ active' = active
         \/ c \notin InUse /\ c \in InUse' /\ active' = active + 1
         \/ c \in InUse /\ c \notin InUse' /\ active' = active - 1
  PROVE  active' = Cardinality(InUse')
<1>1. CASE c \in InUse <=> c \in InUse'
  <2>1. InUse' = InUse
    BY <1>1 DEF InUse
  <2>2. QED BY <1>1, <2>1 DEF TunnelInv
<1>2. CASE c \notin InUse /\ c \in InUse'
  <2>1. InUse' = InUse \cup {c}
    BY <1>2 DEF InUse
  <2>2. QED BY <1>2, <2>1, InUseFinite, FS_AddElement DEF TunnelInv
<1>3. CASE c \in InUse /\ c \notin InUse'
  <2>1. InUse' = InUse \ {c}
    BY <1>3 DEF InUse
  <2>2. QED BY <1>3, <2>1, InUseFinite, FS_RemoveElement DEF TunnelInv
<1>4. QED BY <1>1, <1>2, <1>3

LEMMA TunnelInit == T!Init => TunnelInv
<1> SUFFICES ASSUME T!Init
             PROVE  TunnelInv
  OBVIOUS
<1>1. TunnelType
  BY DEF T!Init, TunnelType, EndsType, FlowType
<1>2. \A c \in Clients : Together(c)
  BY DEF T!Init, Together, InOrder
<1>3. InUse = {}
  BY DEF T!Init, InUse
<1>4. QED BY <1>1, <1>2, <1>3, FS_EmptySet DEF T!Init, TunnelInv

LEMMA TunnelStep == TunnelInv /\ [T!Next]_(T!vars) => TunnelInv'
<1> SUFFICES ASSUME TunnelInv, [T!Next]_(T!vars)
             PROVE  TunnelInv'
  OBVIOUS
<1>1. ASSUME NEW c \in Clients, T!Open(c)
      PROVE  TunnelInv'
  <2>1. TunnelType'
    <3>1. EndsType'
      BY <1>1 DEF TunnelInv, TunnelType, EndsType, T!Open
    <3>2. FlowType'
      BY <1>1 DEF TunnelInv, TunnelType, FlowType, T!Open
    <3>3. QED BY <3>1, <3>2 DEF TunnelType
  <2>2. \A d \in Clients \ {c} : relay'[d] = relay[d]
    BY <1>1 DEF TunnelInv, TunnelType, EndsType, T!Open
  <2>3. active' = Cardinality(InUse')
    BY <1>1, <2>1, <2>2, CountFollows
    DEF TunnelInv, TunnelType, EndsType, InUse, Together, T!Open
  <2>4. \A d \in Clients \ {c} : Together(d)'
    BY <1>1 DEF TunnelInv, TunnelType, EndsType, FlowType, Together, InOrder, T!Open
  <2>5. Together(c)'
    BY <1>1 DEF TunnelInv, TunnelType, EndsType, FlowType, Together, InOrder, T!Open
  <2>6. QED BY <2>1, <2>3, <2>4, <2>5 DEF TunnelInv
<1>2. ASSUME NEW c \in Clients, T!OpenTooLate(c)
      PROVE  TunnelInv'
  <2>1. TunnelType'
    <3>1. EndsType'
      BY <1>2 DEF TunnelInv, TunnelType, EndsType, T!OpenTooLate
    <3>2. FlowType'
      BY <1>2 DEF TunnelInv, TunnelType, FlowType, T!OpenTooLate
    <3>3. QED BY <3>1, <3>2 DEF TunnelType
  <2>2. \A d \in Clients \ {c} : relay'[d] = relay[d]
    BY <1>2 DEF TunnelInv, TunnelType, EndsType, T!OpenTooLate
  <2>3. active' = Cardinality(InUse')
    BY <1>2, <2>1, <2>2, CountFollows
    DEF TunnelInv, TunnelType, EndsType, InUse, Together, T!OpenTooLate
  <2>4. \A d \in Clients \ {c} : Together(d)'
    BY <1>2 DEF TunnelInv, TunnelType, EndsType, FlowType, Together, InOrder, T!OpenTooLate
  <2>5. Together(c)'
    BY <1>2 DEF TunnelInv, TunnelType, EndsType, FlowType, Together, InOrder, T!OpenTooLate
  <2>6. QED BY <2>1, <2>3, <2>4, <2>5 DEF TunnelInv
<1>3. ASSUME NEW c \in Clients, T!Message(c)
      PROVE  TunnelInv'
  <2>1. /\ Together(c) /\ EndsType /\ FlowType
        /\ waiting[c] \in Seq(Nat) /\ got[c] \in Seq(Nat) /\ sent[c] \in Nat
    BY DEF TunnelInv, TunnelType, FlowType
  <2>2. /\ socket[c] = "open" /\ relay[c] \in {"connecting", "piping"}
        /\ sent' = [sent EXCEPT ![c] = @ + 1]
    BY <1>3, <2>1 DEF T!Message, Together
  <2>3. CASE relay[c] = "piping"
    <3> DEFINE q == Append(got[c], sent[c] + 1)
    <3>1. /\ got' = [got EXCEPT ![c] = q]
          /\ UNCHANGED <<active, socket, relay, tcp, waiting>>
      BY <1>3, <2>3 DEF T!Message
    <3>2. q \in Seq(Nat) /\ InOrder(q) /\ Len(q) = sent[c] + 1
      BY <2>1, <2>3, NextInOrder DEF Together
    <3> HIDE DEF q
    <3>3. TunnelType'
      BY <2>1, <2>2, <3>1, <3>2 DEF TunnelType, EndsType, FlowType
    <3>4. \A d \in Clients : Together(d)'
      BY <2>1, <2>2, <2>3, <3>1, <3>2 DEF TunnelInv, FlowType, Together
    <3>5. QED BY <3>1, <3>3, <3>4 DEF TunnelInv, InUse
  <2>4. CASE relay[c] # "piping" /\ Len(waiting[c]) >= MaxPending
    <3>1. /\ active' = active - 1 /\ relay' = [relay EXCEPT ![c] = "closed"]
          /\ tcp' = [tcp EXCEPT ![c] = tcp[c]] /\ socket' = [socket EXCEPT ![c] = "closing"]
          /\ UNCHANGED <<waiting, got>>
      BY <1>3, <2>2, <2>4 DEF T!Message, T!Cleanup
    <3>2. TunnelType'
      BY <2>1, <2>2, <3>1 DEF TunnelType, EndsType, FlowType
    <3>3. \A d \in Clients : Together(d)'
      BY <2>1, <2>2, <2>4, <3>1 DEF TunnelInv, EndsType, FlowType, Together
    <3>4. active' = Cardinality(InUse')
      BY <2>1, <2>2, <3>1, <3>2, CountFollows DEF EndsType, InUse
    <3>5. QED BY <3>2, <3>3, <3>4 DEF TunnelInv
  <2>5. CASE relay[c] # "piping" /\ ~(Len(waiting[c]) >= MaxPending)
    <3> DEFINE q == Append(waiting[c], sent[c] + 1)
    <3>1. /\ waiting' = [waiting EXCEPT ![c] = q]
          /\ UNCHANGED <<active, socket, relay, tcp, got>>
      BY <1>3, <2>5 DEF T!Message
    <3>2. q \in Seq(Nat) /\ InOrder(q) /\ Len(q) = sent[c] + 1
      BY <2>1, <2>2, <2>5, NextInOrder DEF Together
    <3> HIDE DEF q
    <3>3. TunnelType'
      BY <2>1, <2>2, <3>1, <3>2 DEF TunnelType, EndsType, FlowType
    <3>4. \A d \in Clients : Together(d)'
      BY <2>1, <2>2, <2>5, <3>1, <3>2 DEF TunnelInv, FlowType, Together
    <3>5. QED BY <3>1, <3>3, <3>4 DEF TunnelInv, InUse
  <2>6. QED BY <2>3, <2>4, <2>5
<1>4. ASSUME NEW c \in Clients, T!SocketCloses(c)
      PROVE  TunnelInv'
  <2>1. TunnelType'
    <3>1. EndsType'
      BY <1>4 DEF TunnelInv, TunnelType, EndsType, T!SocketCloses
    <3>2. FlowType'
      BY <1>4 DEF TunnelInv, TunnelType, FlowType, T!SocketCloses
    <3>3. QED BY <3>1, <3>2 DEF TunnelType
  <2>2. \A d \in Clients \ {c} : relay'[d] = relay[d]
    BY <1>4 DEF TunnelInv, TunnelType, EndsType, T!SocketCloses
  <2>3. active' = Cardinality(InUse')
    BY <1>4, <2>1, <2>2, CountFollows
    DEF TunnelInv, TunnelType, EndsType, InUse, Together, T!SocketCloses
  <2>4. \A d \in Clients \ {c} : Together(d)'
    BY <1>4 DEF TunnelInv, TunnelType, EndsType, FlowType, Together, InOrder, T!SocketCloses
  <2>5. Together(c)'
    BY <1>4 DEF TunnelInv, TunnelType, EndsType, FlowType, Together, InOrder, T!SocketCloses
  <2>6. QED BY <2>1, <2>3, <2>4, <2>5 DEF TunnelInv
<1>5. ASSUME NEW c \in Clients, T!SocketClosed(c)
      PROVE  TunnelInv'
  <2>1. TunnelType'
    <3>1. EndsType'
      BY <1>5 DEF TunnelInv, TunnelType, EndsType, T!SocketClosed, T!Cleanup
    <3>2. FlowType'
      BY <1>5 DEF TunnelInv, TunnelType, FlowType, T!SocketClosed, T!Cleanup
    <3>3. QED BY <3>1, <3>2 DEF TunnelType
  <2>2. \A d \in Clients \ {c} : relay'[d] = relay[d]
    BY <1>5 DEF TunnelInv, TunnelType, EndsType, T!SocketClosed, T!Cleanup
  <2>3. active' = Cardinality(InUse')
    BY <1>5, <2>1, <2>2, CountFollows
    DEF TunnelInv, TunnelType, EndsType, InUse, Together, T!SocketClosed, T!Cleanup
  <2>4. \A d \in Clients \ {c} : Together(d)'
    BY <1>5
      DEF TunnelInv, TunnelType, EndsType, FlowType, Together, InOrder, T!SocketClosed,
        T!Cleanup
  <2>5. Together(c)'
    BY <1>5
      DEF TunnelInv, TunnelType, EndsType, FlowType, Together, InOrder, T!SocketClosed,
        T!Cleanup
  <2>6. QED BY <2>1, <2>3, <2>4, <2>5 DEF TunnelInv
<1>6. ASSUME NEW c \in Clients, T!Connected(c)
      PROVE  TunnelInv'
  <2>1. /\ Together(c) /\ EndsType /\ FlowType
        /\ waiting[c] \in Seq(Nat) /\ got[c] \in Seq(Nat) /\ sent[c] \in Nat
    BY DEF TunnelInv, TunnelType, FlowType
  <2>2. CASE relay[c] = "closed"
    <3>1. /\ tcp' = [tcp EXCEPT ![c] = "destroyed"]
          /\ UNCHANGED <<active, socket, relay, waiting, sent, got>>
      BY <1>6, <2>2 DEF T!Connected
    <3>2. TunnelType'
      BY <2>1, <3>1 DEF TunnelType, EndsType, FlowType
    <3>3. \A d \in Clients : Together(d)'
      BY <2>1, <2>2, <3>1 DEF TunnelInv, EndsType, Together
    <3>4. QED BY <3>1, <3>2, <3>3 DEF TunnelInv, InUse
  <2>3. CASE relay[c] # "closed"
    <3>1. /\ tcp' = [tcp EXCEPT ![c] = "open"] /\ relay' = [relay EXCEPT ![c] = "piping"]
          /\ got' = [got EXCEPT ![c] = @ \o waiting[c]]
          /\ waiting' = [waiting EXCEPT ![c] = <<>>]
          /\ UNCHANGED <<active, socket, sent>> /\ tcp[c] = "dialling"
      BY <1>6, <2>3 DEF T!Connected
    <3>2. /\ relay[c] = "connecting" /\ got[c] = <<>>
          /\ InOrder(waiting[c]) /\ Len(waiting[c]) = sent[c]
      BY <2>1, <2>3, <3>1 DEF Together, EndsType
    <3>3. got' = [got EXCEPT ![c] = waiting[c]]
      BY <2>1, <3>1, <3>2, FlushToEmpty DEF FlowType
    <3>4. TunnelType'
      BY <2>1, <3>1, <3>3 DEF TunnelType, EndsType, FlowType
    <3>5. \A d \in Clients : Together(d)'
      BY <2>1, <3>1, <3>2, <3>3 DEF TunnelInv, EndsType, FlowType, Together
    <3>6. active' = Cardinality(InUse')
      BY <2>1, <3>1, <3>2, <3>4, CountFollows DEF EndsType, InUse
    <3>7. QED BY <3>4, <3>5, <3>6 DEF TunnelInv
  <2>4. QED BY <2>2, <2>3
<1>7. ASSUME NEW c \in Clients, T!UpstreamEnds(c)
      PROVE  TunnelInv'
  <2>1. TunnelType'
    <3>1. EndsType'
      BY <1>7 DEF TunnelInv, TunnelType, EndsType, T!UpstreamEnds, T!Cleanup
    <3>2. FlowType'
      BY <1>7 DEF TunnelInv, TunnelType, FlowType, T!UpstreamEnds, T!Cleanup
    <3>3. QED BY <3>1, <3>2 DEF TunnelType
  <2>2. \A d \in Clients \ {c} : relay'[d] = relay[d]
    BY <1>7 DEF TunnelInv, TunnelType, EndsType, T!UpstreamEnds, T!Cleanup
  <2>3. active' = Cardinality(InUse')
    BY <1>7, <2>1, <2>2, CountFollows
    DEF TunnelInv, TunnelType, EndsType, InUse, Together, T!UpstreamEnds, T!Cleanup
  <2>4. \A d \in Clients \ {c} : Together(d)'
    BY <1>7
      DEF TunnelInv, TunnelType, EndsType, FlowType, Together, InOrder, T!UpstreamEnds,
        T!Cleanup
  <2>5. Together(c)'
    BY <1>7
      DEF TunnelInv, TunnelType, EndsType, FlowType, Together, InOrder, T!UpstreamEnds,
        T!Cleanup
  <2>6. QED BY <2>1, <2>3, <2>4, <2>5 DEF TunnelInv
<1>8. CASE UNCHANGED T!vars
  BY <1>8 DEF T!vars, TunnelInv, TunnelType, EndsType, FlowType, Together, InOrder, InUse
<1>9. QED
  BY <1>1, <1>2, <1>3, <1>4, <1>5, <1>6, <1>7, <1>8 DEF T!Next

(* Relays are counted while they live, closed at both ends, and deliver    *)
(* what the client sent, all of it and in order, while both live: for any  *)
(* number of clients and any order of the callbacks.                       *)
THEOREM RelaysAreFaithful == MCSpec => []RelayIsFaithful
<1>1. TunnelInv => RelayIsFaithful
  <2> SUFFICES ASSUME TunnelInv
               PROVE  T!RelayIsFaithful
    BY DEF RelayIsFaithful
  <2>1. \A c \in Clients : got[c] = [i \in 1..Len(got[c]) |-> i]
    BY DEF TunnelInv, TunnelType, EndsType, FlowType, Together, InOrder
  <2>2. QED
    BY <2>1, TunnelSize DEF TunnelInv, Together, InUse, T!RelayIsFaithful
<1>2. QED
  BY <1>1, TunnelInit, TunnelStep, PlatformAlone, PTL DEF T!Spec

(* The limits of an environment: tunnels in use and messages that wait.    *)
WithinLimits ==
  active <= MaxTunnels /\ \A c \in Clients : Len(waiting[c]) <= MaxPending

(* A step without a new tunnel and without a message that waits.           *)
LEMMA LimitsKept ==
  ASSUME TunnelInv, TunnelInv', WithinLimits, active' <= active,
         \A c \in Clients : waiting'[c] = waiting[c] \/ waiting'[c] = <<>>
  PROVE  WithinLimits'
<1>1. MaxTunnels \in Nat /\ MaxPending \in Nat
  BY InstanceAssumptions DEF T!TunnelAssumption
<1>2. active \in Int /\ active' \in Int
  BY DEF TunnelInv, TunnelType, EndsType
<1>3. \A c \in Clients : Len(waiting'[c]) <= MaxPending
  <2>1. Len(<<>>) = 0
    OBVIOUS
  <2>2. QED BY <1>1, <2>1 DEF WithinLimits
<1>4. QED BY <1>1, <1>2, <1>3 DEF WithinLimits

LEMMA LimitsStep ==
  TunnelInv /\ TunnelInv' /\ WithinLimits /\ [T!Next]_(T!vars) => WithinLimits'
<1> SUFFICES ASSUME TunnelInv, TunnelInv', WithinLimits, [T!Next]_(T!vars)
             PROVE  WithinLimits'
  OBVIOUS
<1>t. /\ EndsType /\ FlowType /\ \A c \in Clients : Together(c)
      /\ MaxTunnels \in Nat /\ MaxPending \in Nat
  BY InstanceAssumptions DEF TunnelInv, TunnelType, T!TunnelAssumption
<1>1. ASSUME NEW c \in Clients, T!Open(c)
      PROVE  WithinLimits'
  <2>1. /\ waiting' = waiting
        /\ active' = active \/ (active < MaxTunnels /\ active' = active + 1)
    BY <1>1, <1>t DEF T!Open, EndsType
  <2>2. QED BY <2>1, <1>t DEF WithinLimits, EndsType
<1>2. ASSUME NEW c \in Clients, T!OpenTooLate(c)
      PROVE  WithinLimits'
  BY <1>2, <1>t, LimitsKept DEF T!OpenTooLate, EndsType
<1>3. ASSUME NEW c \in Clients, T!Message(c)
      PROVE  WithinLimits'
  <2>1. CASE waiting' = waiting
    <3>1. active' <= active
      BY <1>3, <1>t DEF T!Message, T!Cleanup, EndsType
    <3>2. QED BY <2>1, <3>1, LimitsKept
  <2>2. CASE waiting' # waiting
    <3> DEFINE q == Append(waiting[c], sent[c] + 1)
    <3>1. /\ Len(waiting[c]) < MaxPending /\ active' = active
          /\ waiting' = [waiting EXCEPT ![c] = q]
      <4>1. waiting[c] \in Seq(Nat) /\ Len(waiting[c]) \in Nat
        BY <1>t DEF FlowType
      <4>2. QED BY <1>3, <2>2, <1>t, <4>1 DEF T!Message
    <3>2. Len(q) = Len(waiting[c]) + 1
      BY <1>t DEF FlowType
    <3> HIDE DEF q
    <3>3. \A d \in Clients : Len(waiting'[d]) <= MaxPending
      <4>1. Len(waiting[c]) \in Nat
        BY <1>t DEF FlowType
      <4>2. waiting'[c] = q /\ \A d \in Clients \ {c} : waiting'[d] = waiting[d]
        BY <3>1, <1>t DEF FlowType
      <4>3. QED BY <3>1, <3>2, <4>1, <4>2, <1>t DEF WithinLimits
    <3>4. QED BY <3>1, <3>3 DEF WithinLimits
  <2>3. QED BY <2>1, <2>2
<1>4. ASSUME NEW c \in Clients, T!SocketCloses(c)
      PROVE  WithinLimits'
  BY <1>4, <1>t, LimitsKept DEF T!SocketCloses, EndsType
<1>5. ASSUME NEW c \in Clients, T!SocketClosed(c)
      PROVE  WithinLimits'
  BY <1>5, <1>t, LimitsKept DEF T!SocketClosed, T!Cleanup, EndsType
<1>6. ASSUME NEW c \in Clients, T!Connected(c)
      PROVE  WithinLimits'
  <2>1. active' = active /\ (waiting' = waiting \/ waiting' = [waiting EXCEPT ![c] = <<>>])
    BY <1>6 DEF T!Connected
  <2>2. QED BY <2>1, <1>t, LimitsKept DEF EndsType, FlowType
<1>7. ASSUME NEW c \in Clients, T!UpstreamEnds(c)
      PROVE  WithinLimits'
  BY <1>7, <1>t, LimitsKept DEF T!UpstreamEnds, T!Cleanup, EndsType
<1>8. CASE UNCHANGED T!vars
  BY <1>8, <1>t, LimitsKept DEF T!vars, EndsType
<1>9. QED
  BY <1>1, <1>2, <1>3, <1>4, <1>5, <1>6, <1>7, <1>8 DEF T!Next

(* No order of callbacks takes an environment beyond its tunnels or below  *)
(* none, or lets more messages wait for an upstream than the limit, for    *)
(* any limits and any number of clients.                                   *)
THEOREM TunnelsStayWithinLimits == MCSpec => []T!TypeOK
<1> DEFINE Inv == TunnelInv /\ WithinLimits
<1>1. T!Init => Inv
  <2>1. T!Init => WithinLimits
    BY InstanceAssumptions DEF T!Init, T!TunnelAssumption, WithinLimits
  <2>2. QED BY <2>1, TunnelInit
<1>2. Inv /\ [T!Next]_(T!vars) => Inv'
  BY TunnelStep, LimitsStep
<1>3. Inv => T!TypeOK
  <2> SUFFICES ASSUME Inv
               PROVE  T!TypeOK
    OBVIOUS
  <2>1. active \in 0..MaxTunnels
    BY InUseFinite, InstanceAssumptions DEF T!TunnelAssumption, TunnelInv, WithinLimits
  <2>2. QED BY <2>1 DEF TunnelInv, TunnelType, EndsType, WithinLimits, T!TypeOK
<1>4. T!Spec => []Inv
  BY <1>1, <1>2, PTL DEF T!Spec
<1>5. QED
  BY <1>3, <1>4, PlatformAlone, PTL

(* The size of a channel's limit is that of FiniteSets.                    *)
LEMMA ChannelSize == \A X : W!Cardinality(X) = Cardinality(X)
BY DEF W!Cardinality, Cardinality

(* A tunnel begins, and nothing has been sent.                             *)
LEMMA ChannelInit == T!Init => W!Init
<1> SUFFICES ASSUME T!Init
             PROVE  W!Init
  OBVIOUS
<1>1. \A c \in Clients : relay[c] = "none" /\ got[c] = <<>> /\ waiting[c] = <<>>
  BY DEF T!Init
<1>2. InUse = {} /\ Finished = {}
  BY <1>1 DEF InUse, Finished
<1>3. Stream = [c \in Clients |-> <<>>] /\ Through = [c \in Clients |-> 0]
  BY <1>1 DEF Stream, Through
<1>4. QED BY <1>2, <1>3 DEF W!Init

(* What a client sees of a step that leaves its flow alone.                *)
LEMMA FlowStays ==
  ASSUME UNCHANGED <<got, waiting>>
  PROVE  Stream' = Stream /\ Through' = Through
BY DEF Stream, Through

(* A message more at the end of what one client has put in.                *)
LEMMA StreamGrows ==
  ASSUME NEW c \in Clients, NEW y, got'[c] \o waiting'[c] = y,
         \A d \in Clients \ {c} : got'[d] = got[d] /\ waiting'[d] = waiting[d]
  PROVE  Stream' = [Stream EXCEPT ![c] = y]
<1>1. Stream' = [d \in Clients |-> got'[d] \o waiting'[d]]
  BY DEF Stream
<1>2. [Stream EXCEPT ![c] = y] = [d \in Clients |-> IF d = c THEN y ELSE Stream[d]]
  BY DEF Stream
<1>3. \A d \in Clients : got'[d] \o waiting'[d] = IF d = c THEN y ELSE Stream[d]
  BY DEF Stream
<1>4. QED BY <1>1, <1>2, <1>3
LEMMA AppendIsLast ==
  ASSUME NEW p \in Seq(Nat), NEW q \in Seq(Nat), NEW m \in Nat
  PROVE  /\ p \o Append(q, m) = Append(p \o q, m)
         /\ p \o <<>> = p /\ <<>> \o p = p
         /\ Append(p, m) \in Seq(Nat) /\ Len(Append(p, m)) = Len(p) + 1
<1> DEFINE x == p \o Append(q, m)
           y == Append(p \o q, m)
           n == Len(p) + Len(q) + 1
<1>1. x \in Seq(Nat) /\ y \in Seq(Nat) /\ Len(x) = n /\ Len(y) = n /\ n \in Nat
  OBVIOUS
<1>2. \A i \in 1..n : x[i] = y[i]
  OBVIOUS
<1>3. x = y
  <2> HIDE DEF x, y, n
  <2>1. QED BY <1>1, <1>2
<1>4. p \o <<>> = p /\ <<>> \o p = p
  OBVIOUS
<1>5. Append(p, m) \in Seq(Nat) /\ Len(Append(p, m)) = Len(p) + 1
  OBVIOUS
<1>6. QED BY <1>3, <1>4, <1>5

(* A step of one client's relay, as its channel sees it.                   *)
LEMMA RelayMoves ==
  ASSUME TunnelInv, NEW c \in Clients, NEW x, relay' = [relay EXCEPT ![c] = x]
  PROVE  /\ InUse' = IF x \in {"connecting", "piping"} THEN InUse \cup {c} ELSE InUse \ {c}
         /\ Finished' = IF x = "closed" THEN Finished \cup {c} ELSE Finished \ {c}
<1>1. \A d \in Clients : relay'[d] = IF d = c THEN x ELSE relay[d]
  BY DEF TunnelInv, TunnelType, EndsType
<1>2. QED BY <1>1 DEF InUse, Finished

(* The end of a relay is the end of its channel, unless it had ended.      *)
LEMMA RelayEnds ==
  ASSUME TunnelInv, NEW c \in Clients, relay[c] # "none", NEW x, T!Cleanup(c, x),
         UNCHANGED <<got, waiting>>
  PROVE  [W!Next]_(W!channelVars)
<1>1. CASE relay[c] = "closed"
  <2>1. relay' = relay
    BY <1>1 DEF T!Cleanup
  <2>2. UNCHANGED W!channelVars
    BY <2>1, FlowStays DEF W!channelVars, InUse, Finished
  <2>3. QED BY <2>2
<1>2. CASE relay[c] # "closed"
  <2>1. relay' = [relay EXCEPT ![c] = "closed"]
    BY <1>2 DEF T!Cleanup
  <2>2. InUse' = InUse \ {c} /\ Finished' = Finished \cup {c}
    BY <2>1, RelayMoves
  <2>3. c \in InUse
    BY <1>2 DEF TunnelInv, TunnelType, EndsType, InUse
  <2>4. W!End(c)
    BY <2>2, <2>3, FlowStays DEF W!End
  <2>5. QED BY <2>4 DEF W!Next
<1>3. QED BY <1>1, <1>2

LEMMA ChannelStep == TunnelInv /\ [T!Next]_(T!vars) => [W!Next]_(W!channelVars)
<1> SUFFICES ASSUME TunnelInv, [T!Next]_(T!vars)
             PROVE  [W!Next]_(W!channelVars)
  OBVIOUS
<1>t. /\ EndsType /\ FlowType /\ active = Cardinality(InUse)
      /\ \A c \in Clients : Together(c)
  BY DEF TunnelInv, TunnelType
<1>s. ASSUME UNCHANGED <<relay, got, waiting>>
      PROVE  [W!Next]_(W!channelVars)
  BY <1>s, FlowStays DEF W!channelVars, InUse, Finished
<1>1. ASSUME NEW c \in Clients, T!Open(c)
      PROVE  [W!Next]_(W!channelVars)
  <2>1. relay[c] = "none" /\ UNCHANGED <<got, waiting>>
    BY <1>1, <1>t DEF T!Open, Together
  <2>2. CASE active >= MaxTunnels
    BY <1>1, <1>s, <2>2 DEF T!Open
  <2>3. CASE ~ (active >= MaxTunnels)
    <3>1. relay' = [relay EXCEPT ![c] = "connecting"]
      BY <1>1, <2>3 DEF T!Open
    <3>2. c \notin InUse \cup Finished
      BY <2>1 DEF InUse, Finished
    <3>3. InUse' = InUse \cup {c} /\ Finished' = Finished
      <4>1. InUse' = InUse \cup {c} /\ Finished' = Finished \ {c}
        BY <3>1, RelayMoves
      <4>2. QED BY <3>2, <4>1
    <3>4. W!Cardinality(InUse) < MaxTunnels
      <4>1. active \in Int /\ MaxTunnels \in Nat
        BY <1>t, InstanceAssumptions DEF EndsType, T!TunnelAssumption
      <4>2. QED BY <1>t, <2>3, <4>1, ChannelSize
    <3>5. W!Begin(c)
      BY <2>1, <3>2, <3>3, <3>4, FlowStays DEF W!Begin
    <3>6. QED BY <3>5 DEF W!Next
  <2>4. QED BY <2>2, <2>3
<1>2. ASSUME NEW c \in Clients, T!OpenTooLate(c)
      PROVE  [W!Next]_(W!channelVars)
  <2>1. /\ relay[c] = "none" /\ relay' = [relay EXCEPT ![c] = "closed"]
        /\ UNCHANGED <<got, waiting>>
    BY <1>2, <1>t DEF T!OpenTooLate, Together
  <2>2. c \notin InUse \cup Finished
    BY <2>1 DEF InUse, Finished
  <2>3. InUse' = InUse /\ Finished' = Finished \cup {c}
    <3>1. InUse' = InUse \ {c} /\ Finished' = Finished \cup {c}
      BY <2>1, RelayMoves
    <3>2. QED BY <2>2, <3>1
  <2>4. W!TurnAway(c)
    BY <2>1, <2>2, <2>3, FlowStays DEF W!TurnAway
  <2>5. QED BY <2>4 DEF W!Next
<1>3. ASSUME NEW c \in Clients, T!Message(c)
      PROVE  [W!Next]_(W!channelVars)
  <2>1. relay[c] \in {"connecting", "piping"} /\ Together(c)
    BY <1>3, <1>t DEF T!Message, Together
  <2>2. got[c] \in Seq(Nat) /\ waiting[c] \in Seq(Nat) /\ sent[c] \in Nat
    BY <1>t DEF FlowType
  <2>3. /\ Stream[c] \in Seq(Nat) /\ Len(Stream[c]) = sent[c]
        /\ Stream[c] = got[c] \o waiting[c]
    <3>1. Stream[c] = got[c] \o waiting[c]
      BY DEF Stream
    <3>2. \/ waiting[c] = <<>> /\ Len(got[c]) = sent[c]
          \/ got[c] = <<>> /\ Len(waiting[c]) = sent[c]
      BY <2>1 DEF Together
    <3>3. QED BY <2>2, <3>1, <3>2, AppendIsLast
  <2>m. PICK m \in Nat : m = sent[c] + 1
    BY <2>2
  <2>4. c \in InUse
    BY <2>1 DEF InUse
  <2>5. ASSUME relay' = relay, NEW q \in {Through, [Through EXCEPT ![c] = m]}, Through' = q,
               Stream' = [Stream EXCEPT ![c] = Append(Stream[c], m)]
        PROVE  [W!Next]_(W!channelVars)
    <3>1. InUse' = InUse /\ Finished' = Finished
      BY <2>5 DEF InUse, Finished
    <3>2. Len(Stream'[c]) = m
      <4>1. Stream'[c] = Append(Stream[c], m)
        BY <2>5 DEF Stream
      <4>2. QED BY <2>m, <2>3, <4>1, AppendIsLast
    <3>3. W!PutIn(c)
      BY <2>m, <2>3, <2>4, <2>5, <3>1, <3>2 DEF W!PutIn
    <3>4. QED BY <3>3 DEF W!Next
  <2>6. CASE relay[c] = "piping"
    <3>1. got' = [got EXCEPT ![c] = Append(got[c], m)] /\ UNCHANGED <<relay, waiting>>
      BY <1>3, <2>m, <2>6 DEF T!Message
    <3>2. waiting[c] = <<>> /\ Len(got[c]) = sent[c]
      BY <2>1, <2>6 DEF Together
    <3>3. /\ Stream[c] = got[c] /\ Len(Append(got[c], m)) = m
          /\ Append(got[c], m) \o waiting[c] = Append(Stream[c], m)
      BY <2>m, <2>2, <2>3, <3>2, AppendIsLast
    <3>4. got'[c] = Append(got[c], m) /\ \A d \in Clients \ {c} : got'[d] = got[d]
      BY <1>t, <3>1 DEF FlowType
    <3>5. Stream' = [Stream EXCEPT ![c] = Append(Stream[c], m)]
      BY <3>1, <3>3, <3>4, StreamGrows
    <3>6. Through' = [Through EXCEPT ![c] = m]
      BY <3>3, <3>4 DEF Through
    <3>7. QED BY <2>5, <3>1, <3>5, <3>6
  <2>7. CASE relay[c] # "piping" /\ Len(waiting[c]) >= MaxPending
    <3>1. T!Cleanup(c, tcp[c]) /\ UNCHANGED <<got, waiting>>
      BY <1>3, <2>7 DEF T!Message
    <3>2. QED BY <2>1, <3>1, RelayEnds
  <2>8. CASE relay[c] # "piping" /\ ~ (Len(waiting[c]) >= MaxPending)
    <3>1. waiting' = [waiting EXCEPT ![c] = Append(waiting[c], m)] /\ UNCHANGED <<relay, got>>
      BY <1>3, <2>m, <2>8 DEF T!Message
    <3>2. got[c] \o Append(waiting[c], m) = Append(Stream[c], m)
      <4>1. got[c] \o Append(waiting[c], m) = Append(got[c] \o waiting[c], m)
        BY <2>2, <2>m, AppendIsLast
      <4>2. QED BY <2>3, <4>1
    <3>3. /\ waiting'[c] = Append(waiting[c], m)
          /\ \A d \in Clients \ {c} : waiting'[d] = waiting[d]
      BY <1>t, <3>1 DEF FlowType
    <3>4. Stream' = [Stream EXCEPT ![c] = Append(Stream[c], m)]
      BY <3>1, <3>2, <3>3, StreamGrows
    <3>5. Through' = Through
      BY <3>1 DEF Through
    <3>6. QED BY <2>5, <3>1, <3>4, <3>5
  <2>9. QED BY <2>6, <2>7, <2>8
<1>4. ASSUME NEW c \in Clients, T!SocketCloses(c)
      PROVE  [W!Next]_(W!channelVars)
  BY <1>4, <1>s DEF T!SocketCloses
<1>5. ASSUME NEW c \in Clients, T!SocketClosed(c)
      PROVE  [W!Next]_(W!channelVars)
  <2>1. relay[c] # "none" /\ UNCHANGED <<got, waiting>>
        /\ \E x : T!Cleanup(c, x)
    BY <1>5, <1>t DEF T!SocketClosed, Together
  <2>2. QED BY <2>1, RelayEnds
<1>6. ASSUME NEW c \in Clients, T!Connected(c)
      PROVE  [W!Next]_(W!channelVars)
  <2>1. CASE relay[c] = "closed"
    BY <1>6, <1>s, <2>1 DEF T!Connected
  <2>2. CASE relay[c] # "closed"
    <3>1. /\ relay' = [relay EXCEPT ![c] = "piping"]
          /\ got' = [got EXCEPT ![c] = got[c] \o waiting[c]]
          /\ waiting' = [waiting EXCEPT ![c] = <<>>] /\ tcp[c] = "dialling"
      BY <1>6, <2>2 DEF T!Connected
    <3>2. c \in InUse /\ c \notin Finished
      BY <1>t, <2>2, <3>1 DEF Together, EndsType, InUse, Finished
    <3>3. InUse' = InUse /\ Finished' = Finished
      <4>1. InUse' = InUse \cup {c} /\ Finished' = Finished \ {c}
        BY <3>1, RelayMoves
      <4>2. QED BY <3>2, <4>1
    <3>4. \A d \in Clients : /\ got'[d] = IF d = c THEN got[c] \o waiting[c] ELSE got[d]
                             /\ waiting'[d] = IF d = c THEN <<>> ELSE waiting[d]
      BY <1>t, <3>1 DEF FlowType
    <3>5. (got[c] \o waiting[c]) \o <<>> = got[c] \o waiting[c]
      BY <1>t DEF FlowType
    <3>6. Stream' = Stream
      BY <3>4, <3>5 DEF Stream
    <3>7. Through' = [Through EXCEPT ![c] = Len(Stream[c])]
      BY <3>4 DEF Through, Stream
    <3>8. W!ComeOut(c)
      BY <3>2, <3>3, <3>6, <3>7 DEF W!ComeOut
    <3>9. QED BY <3>8 DEF W!Next
  <2>3. QED BY <2>1, <2>2
<1>7. ASSUME NEW c \in Clients, T!UpstreamEnds(c)
      PROVE  [W!Next]_(W!channelVars)
  <2>1. relay[c] # "none" /\ UNCHANGED <<got, waiting>> /\ T!Cleanup(c, "destroyed")
    BY <1>7, <1>t DEF T!UpstreamEnds, Together
  <2>2. QED BY <2>1, RelayEnds
<1>8. CASE UNCHANGED T!vars
  BY <1>8, <1>s DEF T!vars
<1>9. QED
  BY <1>1, <1>2, <1>3, <1>4, <1>5, <1>6, <1>7, <1>8 DEF T!Next

(* The relay implements the channel it stands for: for any number of       *)
(* clients and messages, every callback is a step of "Channel" or one that *)
(* the client does not see.                                                *)
THEOREM TunnelsAreChannels == MCSpec => TunnelIsAChannel
<1>1. T!Spec => TunnelIsAChannel
  BY TunnelInit, TunnelStep, ChannelInit, ChannelStep, PTL
  DEF T!Spec, W!Spec, TunnelIsAChannel
<1>2. QED BY <1>1, PlatformAlone, PTL

-----------------------------------------------------------------------------

(* Alerts about errors.                                                    *)

ErrorRows == [count : Nat, seen : Nat, alerted : Nat \cup {E!Never},
              resolved : BOOLEAN, era : Nat]
Letters == [of : Fingerprints, at : Nat, count : Nat, era : Nat]

ErrorType ==
  /\ hour \in Nat /\ forgotten \in Nat
  /\ error \in [Fingerprints -> ErrorRows]
  /\ deciding \in SUBSET Letters /\ alerted \in SUBSET Letters
  /\ IsFiniteSet(deciding) /\ IsFiniteSet(alerted)

(* Stamps that have been set: with their mail out, or about to go out.     *)
Stamped == alerted \cup deciding

(* What the row of a fingerprint keeps of its stamps: the latest one of    *)
(* the time since an administrator took one back, until it is pruned.      *)
RowRemembers ==
  /\ \A f \in Fingerprints :
       /\ error[f].alerted <= error[f].seen /\ error[f].seen <= hour
       /\ error[f].count = 0 => error[f].alerted = E!Never
  /\ \A x \in Stamped :
       /\ x.at <= hour /\ x.era <= error[x.of].era
       /\ x.era = error[x.of].era =>
            x.at <= error[x.of].alerted \/ x.at + RealertAfter < hour
  /\ \A x \in deciding : x.at = hour

Spread(x, y) == x.at > y.at + RealertAfter \/ y.at > x.at + RealertAfter
Spaced ==
  \A x, y \in Stamped : x.of = y.of /\ x.era = y.era /\ x # y => Spread(x, y)

Widespread == \A x \in Stamped : x.of \in Client => x.count >= ClientMin

(* The stamps of this hour are in the rows, or were taken back.            *)
OfTheHour == {x \in Stamped : x.at = hour}
RowsOfTheHour == {f \in Fingerprints : error[f].alerted = hour}
StampsAreRows == Cardinality(OfTheHour) <= Cardinality(RowsOfTheHour) + forgotten

MailsOfTheHour == {m \in alerted : m.at = hour}
UnderCeiling == Cardinality(MailsOfTheHour) <= MaxAlerts + forgotten

ErrorInv ==
  ErrorType /\ RowRemembers /\ Spaced /\ Widespread /\ StampsAreRows /\ UnderCeiling

(* The instance's notion of size is the one of FiniteSets.                 *)
LEMMA ErrorSize ==
  /\ \A X : E!IsFiniteSet(X) <=> IsFiniteSet(X)
  /\ \A X : E!Cardinality(X) = Cardinality(X)
<1>1. \A X : E!IsFiniteSet(X) <=> IsFiniteSet(X)
  BY DEF E!IsFiniteSet, IsFiniteSet
<1>2. \A X : E!Cardinality(X) = Cardinality(X)
  BY <1>1 DEF E!Cardinality, Cardinality
<1>3. QED BY <1>1, <1>2

LEMMA ErrorConstants ==
  /\ IsFiniteSet(Fingerprints) /\ RealertAfter \in Nat /\ MaxAlerts \in Nat
  /\ KeepFor \in Nat /\ KeepFor >= RealertAfter
BY InstanceAssumptions, ErrorSize DEF E!ErrorAssumption

(* Whatever is stamped this hour is finitely much.                         *)
LEMMA HourIsFinite ==
  ErrorType => /\ IsFiniteSet(OfTheHour) /\ Cardinality(OfTheHour) \in Nat
               /\ IsFiniteSet(RowsOfTheHour) /\ Cardinality(RowsOfTheHour) \in Nat
               /\ IsFiniteSet(MailsOfTheHour) /\ Cardinality(MailsOfTheHour) \in Nat
<1> SUFFICES ASSUME ErrorType
             PROVE  /\ IsFiniteSet(OfTheHour) /\ Cardinality(OfTheHour) \in Nat
                    /\ IsFiniteSet(RowsOfTheHour) /\ Cardinality(RowsOfTheHour) \in Nat
                    /\ IsFiniteSet(MailsOfTheHour) /\ Cardinality(MailsOfTheHour) \in Nat
  OBVIOUS
<1>1. IsFiniteSet(Stamped)
  BY FS_Union DEF ErrorType, Stamped
<1>2. /\ OfTheHour \subseteq Stamped /\ RowsOfTheHour \subseteq Fingerprints
      /\ MailsOfTheHour \subseteq alerted
  BY DEF OfTheHour, RowsOfTheHour, MailsOfTheHour
<1>3. QED
  BY <1>1, <1>2, ErrorConstants, FS_Subset, FS_CardinalityType DEF ErrorType

LEMMA ErrorInit == E!Init => ErrorInv
<1> SUFFICES ASSUME E!Init
             PROVE  ErrorInv
  OBVIOUS
<1>1. /\ hour = 0 /\ forgotten = 0 /\ deciding = {} /\ alerted = {}
      /\ error = [f \in Fingerprints |-> E!NoRow]
  BY DEF E!Init
<1>2. E!NoRow \in ErrorRows /\ E!NoRow.alerted = E!Never /\ E!NoRow.seen = 0
  BY DEF E!NoRow, ErrorRows
<1>3. ErrorType
  BY <1>1, <1>2, FS_EmptySet DEF ErrorType
<1>4. OfTheHour = {} /\ MailsOfTheHour = {} /\ Stamped = {}
  BY <1>1 DEF OfTheHour, MailsOfTheHour, Stamped
<1>5. RowRemembers /\ Spaced /\ Widespread
  BY <1>1, <1>2, <1>4 DEF RowRemembers, Spaced, Widespread, E!Never
<1>6. StampsAreRows /\ UnderCeiling
  BY <1>1, <1>3, <1>4, HourIsFinite, ErrorConstants, FS_EmptySet DEF StampsAreRows, UnderCeiling
<1>7. QED BY <1>3, <1>5, <1>6 DEF ErrorInv

(* A capture that is loud sets the stamp of a row that had none recent.    *)
LEMMA LoudIsFirst ==
  ASSUME ErrorInv, NEW f \in Fingerprints, E!Loud(f, error[f])
  PROVE  /\ error[f].alerted = E!Never \/ error[f].alerted + RealertAfter < hour
         /\ f \in Client => error[f].count + 1 >= ClientMin
BY ErrorConstants DEF ErrorInv, ErrorType, ErrorRows, RowRemembers, E!Loud, E!Quiet, E!Never

LEMMA CaptureStep ==
  ASSUME ErrorInv, NEW f \in Fingerprints, E!Capture(f)
  PROVE  ErrorInv'
<1> DEFINE r == error[f]
           loud == E!Loud(f, r)
           d == [of |-> f, at |-> hour, count |-> r.count + 1, era |-> r.era]
           new == [r EXCEPT !.count = r.count + 1, !.seen = hour, !.resolved = FALSE,
                            !.alerted = IF loud THEN hour ELSE r.alerted]
<1>1. /\ error' = [error EXCEPT ![f] = new]
      /\ deciding' = IF loud THEN deciding \cup {d} ELSE deciding
      /\ UNCHANGED <<hour, alerted, forgotten>>
  BY DEF E!Capture, E!ShouldAlert
<1>2. /\ r \in ErrorRows /\ new \in ErrorRows /\ d \in Letters
      /\ new.count = r.count + 1 /\ new.seen = hour /\ new.era = r.era
      /\ new.alerted = IF loud THEN hour ELSE r.alerted
      /\ d.of = f /\ d.at = hour /\ d.count = r.count + 1 /\ d.era = r.era
  <2>1. r \in ErrorRows /\ hour \in Nat
    BY DEF ErrorInv, ErrorType
  <2> DEFINE After(x, n, t, a) ==
               [x EXCEPT !.count = n, !.seen = t, !.resolved = FALSE, !.alerted = a]
  <2>2. ASSUME NEW x \in ErrorRows, NEW n \in Nat, NEW t \in Nat, NEW a \in Nat \cup {E!Never}
        PROVE  /\ After(x, n, t, a) \in ErrorRows /\ After(x, n, t, a).count = n
               /\ After(x, n, t, a).seen = t /\ After(x, n, t, a).era = x.era
               /\ After(x, n, t, a).alerted = a
    BY DEF ErrorRows
  <2>3. r.count + 1 \in Nat /\ (IF loud THEN hour ELSE r.alerted) \in Nat \cup {E!Never}
    BY <2>1 DEF ErrorRows
  <2>4. /\ d \in Letters
        /\ d.of = f /\ d.at = hour /\ d.count = r.count + 1 /\ d.era = r.era
    BY <2>1 DEF ErrorRows, Letters
  <2> DEFINE a == IF loud THEN hour ELSE r.alerted
             n == r.count + 1
  <2>5. new = After(r, n, hour, a)
    OBVIOUS
  <2> HIDE DEF d, loud, new, After, a, n, r
  <2>6. /\ After(r, n, hour, a) \in ErrorRows /\ After(r, n, hour, a).count = n
        /\ After(r, n, hour, a).seen = hour /\ After(r, n, hour, a).era = r.era
        /\ After(r, n, hour, a).alerted = a
    <3>1. n \in Nat /\ a \in Nat \cup {E!Never}
      BY <2>3 DEF n, a
    <3>2. QED BY <2>1, <2>2, <3>1
  <2>7. /\ new \in ErrorRows /\ new.count = n /\ new.seen = hour /\ new.era = r.era
        /\ new.alerted = a
    BY <2>5, <2>6
  <2>8. QED BY <2>1, <2>4, <2>7 DEF n, a
<1> HIDE DEF d, new, loud
<1>t. ErrorType'
  <2>1. IsFiniteSet(deciding \cup {d})
    BY FS_AddElement DEF ErrorInv, ErrorType
  <2>2. IsFiniteSet(deciding')
    BY <1>1, <2>1 DEF ErrorInv, ErrorType
  <2>3. QED BY <1>1, <1>2, <2>2 DEF ErrorInv, ErrorType
<1>3. CASE ~loud
  <2>1. Stamped' = Stamped /\ OfTheHour' = OfTheHour /\ MailsOfTheHour' = MailsOfTheHour
    BY <1>1, <1>3 DEF Stamped, OfTheHour, MailsOfTheHour
  <2>2. \A g \in Fingerprints : /\ error'[g].alerted = error[g].alerted
                                /\ error'[g].era = error[g].era
    BY <1>1, <1>2, <1>3 DEF ErrorInv, ErrorType, ErrorRows
  <2>3. RowsOfTheHour' = RowsOfTheHour
    BY <1>1, <2>2 DEF RowsOfTheHour
  <2>4. RowRemembers'
    BY <1>1, <1>2, <1>3, <2>1, <2>2
    DEF ErrorInv, ErrorType, ErrorRows, Letters, RowRemembers, Stamped, E!Never
  <2>5. Spaced' /\ Widespread'
    BY <2>1 DEF ErrorInv, Spaced, Widespread, Spread
  <2>6. StampsAreRows' /\ UnderCeiling'
    BY <1>1, <2>1, <2>3 DEF ErrorInv, StampsAreRows, UnderCeiling
  <2>7. QED BY <1>t, <2>4, <2>5, <2>6 DEF ErrorInv
<1>4. CASE loud
  <2>1. /\ r.alerted = E!Never \/ r.alerted + RealertAfter < hour
        /\ f \in Client => d.count >= ClientMin
    BY <1>2, <1>4, LoudIsFirst DEF loud
  <2>2. Stamped' = Stamped \cup {d}
    BY <1>1, <1>4 DEF Stamped
  <2>3. \A x \in Stamped : x.of = f /\ x.era = r.era => x.at + RealertAfter < hour
    BY <1>2, <2>1, ErrorConstants
    DEF ErrorInv, ErrorType, ErrorRows, Letters, RowRemembers, Stamped, E!Never
  <2>4. RowRemembers'
    BY <1>1, <1>2, <1>4, <2>2, ErrorConstants
    DEF ErrorInv, ErrorType, ErrorRows, Letters, RowRemembers, Stamped, E!Never
  <2>5. Spaced' /\ Widespread'
    BY <1>2, <2>1, <2>2, <2>3 DEF ErrorInv, Spaced, Widespread, Spread
  <2>6. RowsOfTheHour' = RowsOfTheHour \cup {f} /\ f \notin RowsOfTheHour
    BY <1>1, <1>2, <1>4, <2>1, ErrorConstants
    DEF ErrorInv, ErrorType, ErrorRows, RowsOfTheHour, E!Never
  <2>7. OfTheHour' = OfTheHour \cup {d} /\ MailsOfTheHour' = MailsOfTheHour
    BY <1>1, <1>2, <2>2 DEF OfTheHour, MailsOfTheHour
  <2>8. /\ Cardinality(OfTheHour') <= Cardinality(OfTheHour) + 1
        /\ Cardinality(OfTheHour') \in Nat
    <3>1. Cardinality(OfTheHour \cup {d}) =
            IF d \in OfTheHour THEN Cardinality(OfTheHour) ELSE Cardinality(OfTheHour) + 1
      BY HourIsFinite, FS_AddElement DEF ErrorInv
    <3>2. QED BY <2>7, <3>1, HourIsFinite DEF ErrorInv
  <2>9. Cardinality(RowsOfTheHour') = Cardinality(RowsOfTheHour) + 1
    BY <2>6, HourIsFinite, FS_AddElement DEF ErrorInv
  <2>10. StampsAreRows' /\ UnderCeiling'
    BY <1>1, <2>7, <2>8, <2>9, HourIsFinite
    DEF ErrorInv, ErrorType, StampsAreRows, UnderCeiling
  <2>11. QED BY <1>t, <2>4, <2>5, <2>10 DEF ErrorInv
<1>5. QED BY <1>3, <1>4

(* What an administrator takes back makes room for one alert of the hour.  *)
LEMMA ResolveStep ==
  ASSUME ErrorInv, NEW f \in Fingerprints, NEW done \in BOOLEAN, E!Resolve(f, done)
  PROVE  ErrorInv'
<1> DEFINE r == error[f]
           n == r.era + (IF r.alerted = E!Never THEN 0 ELSE 1)
           After(x, e) == [x EXCEPT !.resolved = done, !.alerted = E!Never, !.era = e]
           new == After(r, n)
<1>1. /\ error' = [error EXCEPT ![f] = new]
      /\ forgotten' = forgotten + (IF r.alerted = hour THEN 1 ELSE 0)
      /\ UNCHANGED <<hour, deciding, alerted>>
  BY DEF E!Resolve, E!Forgets
<1>2. /\ r \in ErrorRows /\ r.count # 0
      /\ hour \in Nat /\ n \in Nat /\ n >= r.era
      /\ r.alerted # E!Never => n > r.era
  BY DEF ErrorInv, ErrorType, ErrorRows, E!Resolve
<1>3. /\ new \in ErrorRows /\ new.seen = r.seen /\ new.count = r.count
      /\ new.alerted = E!Never /\ new.era = n
  <2>1. ASSUME NEW x \in ErrorRows, NEW e \in Nat
        PROVE  /\ After(x, e) \in ErrorRows /\ After(x, e).seen = x.seen
               /\ After(x, e).count = x.count
               /\ After(x, e).alerted = E!Never /\ After(x, e).era = e
    BY DEF ErrorRows
  <2> HIDE DEF After, r, n
  <2>2. QED BY <1>2, <2>1
<1> HIDE DEF new, n
<1>4. ErrorType'
  BY <1>1, <1>2, <1>3 DEF ErrorInv, ErrorType
<1>5. Stamped' = Stamped /\ OfTheHour' = OfTheHour /\ MailsOfTheHour' = MailsOfTheHour
  BY <1>1 DEF Stamped, OfTheHour, MailsOfTheHour
<1>6. RowRemembers'
  <2>1. \A g \in Fingerprints : error'[g] = IF g = f THEN new ELSE error[g]
    BY <1>1 DEF ErrorInv, ErrorType
  <2>2. \A g \in Fingerprints :
          /\ error'[g].alerted <= error'[g].seen /\ error'[g].seen <= hour
          /\ error'[g].count = 0 => error'[g].alerted = E!Never
    BY <1>2, <1>3, <2>1 DEF ErrorInv, ErrorType, ErrorRows, RowRemembers, E!Never
  <2>3. ASSUME NEW x \in Stamped
        PROVE  /\ x.at <= hour /\ x.era <= error'[x.of].era
               /\ x.era = error'[x.of].era =>
                    x.at <= error'[x.of].alerted \/ x.at + RealertAfter < hour
    <3>1. /\ x.of \in Fingerprints /\ x.at \in Nat /\ x.era \in Nat
          /\ x.at <= hour /\ x.era <= error[x.of].era
          /\ x.era = error[x.of].era =>
               x.at <= error[x.of].alerted \/ x.at + RealertAfter < hour
      BY DEF ErrorInv, ErrorType, Letters, RowRemembers, Stamped
    <3>2. CASE x.of # f
      BY <2>1, <3>1, <3>2
    <3>3. CASE x.of = f /\ r.alerted = E!Never
      BY <1>2, <1>3, <2>1, <3>1, <3>3, ErrorConstants DEF n, ErrorRows, E!Never
    <3>4. CASE x.of = f /\ r.alerted # E!Never
      BY <1>2, <1>3, <2>1, <3>1, <3>4 DEF ErrorRows
    <3>5. QED BY <3>2, <3>3, <3>4
  <2>4. QED BY <1>1, <1>5, <2>2, <2>3 DEF ErrorInv, RowRemembers
<1>7. Spaced' /\ Widespread'
  BY <1>5 DEF ErrorInv, Spaced, Widespread, Spread
<1>8. RowsOfTheHour' = RowsOfTheHour \ {f}
  BY <1>1, <1>2, <1>3 DEF ErrorInv, ErrorType, RowsOfTheHour, E!Never
<1>9. Cardinality(RowsOfTheHour') =
        Cardinality(RowsOfTheHour) - (IF r.alerted = hour THEN 1 ELSE 0)
  <2>1. Cardinality(RowsOfTheHour \ {f}) =
          IF f \in RowsOfTheHour THEN Cardinality(RowsOfTheHour) - 1
                                 ELSE Cardinality(RowsOfTheHour)
    BY HourIsFinite, FS_RemoveElement DEF ErrorInv
  <2>2. f \in RowsOfTheHour <=> r.alerted = hour
    BY DEF RowsOfTheHour
  <2>3. QED BY <1>8, <2>1, <2>2, HourIsFinite DEF ErrorInv
<1>10. StampsAreRows' /\ UnderCeiling'
  BY <1>1, <1>5, <1>9, HourIsFinite, ErrorConstants
  DEF ErrorInv, ErrorType, StampsAreRows, UnderCeiling
<1>11. QED BY <1>4, <1>6, <1>7, <1>10 DEF ErrorInv

(* What is pruned has not been seen for longer than an alert stays recent. *)
LEMMA PruneStep ==
  ASSUME ErrorInv, NEW f \in Fingerprints, E!Prune(f)
  PROVE  ErrorInv'
<1> DEFINE r == error[f]
           After(x, e) == [x EXCEPT !.era = e]
           new == After(E!NoRow, r.era)
<1>1. /\ error' = [error EXCEPT ![f] = new]
      /\ UNCHANGED <<hour, deciding, alerted, forgotten>>
  BY DEF E!Prune
<1>2. /\ r \in ErrorRows /\ hour \in Nat /\ r.seen < hour - KeepFor
      /\ E!NoRow \in ErrorRows /\ E!NoRow.seen = 0 /\ E!NoRow.alerted = E!Never
  BY DEF ErrorInv, ErrorType, ErrorRows, E!Prune, E!NoRow
<1>3. /\ new \in ErrorRows /\ new.seen = 0 /\ new.alerted = E!Never /\ new.era = r.era
  <2>1. ASSUME NEW x \in ErrorRows, NEW e \in Nat
        PROVE  /\ After(x, e) \in ErrorRows /\ After(x, e).seen = x.seen
               /\ After(x, e).alerted = x.alerted /\ After(x, e).era = e
    BY DEF ErrorRows
  <2>2. r.era \in Nat
    BY <1>2 DEF ErrorRows
  <2> HIDE DEF After, r
  <2>3. QED BY <1>2, <2>1, <2>2
<1> HIDE DEF new
<1>4. ErrorType'
  BY <1>1, <1>2, <1>3 DEF ErrorInv, ErrorType
<1>5. Stamped' = Stamped /\ OfTheHour' = OfTheHour /\ MailsOfTheHour' = MailsOfTheHour
  BY <1>1 DEF Stamped, OfTheHour, MailsOfTheHour
<1>6. RowRemembers'
  <2>1. \A g \in Fingerprints : error'[g] = IF g = f THEN new ELSE error[g]
    BY <1>1 DEF ErrorInv, ErrorType
  <2>2. \A g \in Fingerprints :
          /\ error'[g].alerted <= error'[g].seen /\ error'[g].seen <= hour
          /\ error'[g].count = 0 => error'[g].alerted = E!Never
    BY <1>2, <1>3, <2>1 DEF ErrorInv, ErrorType, ErrorRows, RowRemembers, E!Never
  <2>3. ASSUME NEW x \in Stamped
        PROVE  /\ x.at <= hour /\ x.era <= error'[x.of].era
               /\ x.era = error'[x.of].era =>
                    x.at <= error'[x.of].alerted \/ x.at + RealertAfter < hour
    <3>1. /\ x.of \in Fingerprints /\ x.at \in Nat /\ x.era \in Nat
          /\ x.at <= hour /\ x.era <= error[x.of].era
          /\ x.era = error[x.of].era =>
               x.at <= error[x.of].alerted \/ x.at + RealertAfter < hour
      BY DEF ErrorInv, ErrorType, Letters, RowRemembers, Stamped
    <3>2. r.alerted <= r.seen
      BY DEF ErrorInv, RowRemembers
    <3>3. CASE x.of # f
      BY <2>1, <3>1, <3>3
    <3>4. CASE x.of = f
      BY <1>2, <1>3, <2>1, <3>1, <3>2, <3>4, ErrorConstants DEF ErrorRows, E!Never
    <3>5. QED BY <3>3, <3>4
  <2>4. QED BY <1>1, <1>5, <2>2, <2>3 DEF ErrorInv, RowRemembers
<1>7. Spaced' /\ Widespread'
  BY <1>5 DEF ErrorInv, Spaced, Widespread, Spread
<1>8. RowsOfTheHour' = RowsOfTheHour
  <2>1. r.alerted # hour
    BY <1>2, ErrorConstants DEF ErrorInv, ErrorRows, RowRemembers, E!Never
  <2>2. \A g \in Fingerprints : error'[g] = IF g = f THEN new ELSE error[g]
    BY <1>1 DEF ErrorInv, ErrorType
  <2>3. new.alerted # hour
    BY <1>2, <1>3 DEF E!Never
  <2>4. QED BY <1>1, <2>1, <2>2, <2>3 DEF RowsOfTheHour
<1>9. StampsAreRows' /\ UnderCeiling'
  BY <1>1, <1>5, <1>8 DEF ErrorInv, StampsAreRows, UnderCeiling
<1>10. QED BY <1>4, <1>6, <1>7, <1>9 DEF ErrorInv

LEMMA ErrorStep == ErrorInv /\ [E!Next]_(E!vars) => ErrorInv'
<1> SUFFICES ASSUME ErrorInv, [E!Next]_(E!vars)
             PROVE  ErrorInv'
  OBVIOUS
<1>1. ASSUME NEW d \in deciding, E!Alert(d) \/ E!AlertLost(d)
      PROVE  ErrorInv'
  <2>1. /\ deciding' = deciding \ {d}
        /\ alerted' = alerted \/ (alerted' = alerted \cup {d}
                                 /\ Cardinality(RowsOfTheHour) <= MaxAlerts)
        /\ UNCHANGED <<hour, error, forgotten>>
    <3>1. E!Recent = RowsOfTheHour
      BY DEF ErrorInv, ErrorType, ErrorRows, RowRemembers, E!Recent, RowsOfTheHour, E!Never
    <3>2. QED
      BY <1>1, <3>1, HourIsFinite, ErrorConstants, ErrorSize
      DEF ErrorInv, E!Alert, E!AlertLost
  <2>2. ErrorType'
    BY <2>1, FS_AddElement, FS_RemoveElement DEF ErrorInv, ErrorType
  <2>3. /\ Stamped' \subseteq Stamped /\ OfTheHour' \subseteq OfTheHour
        /\ MailsOfTheHour' \subseteq OfTheHour'
    BY <2>1 DEF Stamped, OfTheHour, MailsOfTheHour
  <2>4. RowRemembers' /\ Spaced' /\ Widespread'
    BY <2>1, <2>3 DEF ErrorInv, RowRemembers, Spaced, Widespread, Spread
  <2>5. RowsOfTheHour' = RowsOfTheHour
    BY <2>1 DEF RowsOfTheHour
  <2>6. /\ Cardinality(OfTheHour') <= Cardinality(OfTheHour)
        /\ Cardinality(OfTheHour') \in Nat
        /\ Cardinality(MailsOfTheHour') <= Cardinality(OfTheHour')
        /\ Cardinality(MailsOfTheHour') \in Nat
    BY <2>3, HourIsFinite, FS_Subset, FS_CardinalityType DEF ErrorInv
  <2>7. StampsAreRows'
    BY <2>1, <2>5, <2>6, HourIsFinite DEF ErrorInv, ErrorType, StampsAreRows
  <2>8. UnderCeiling'
    <3>1. CASE alerted' = alerted
      BY <2>1, <3>1 DEF ErrorInv, UnderCeiling, MailsOfTheHour
    <3>2. CASE Cardinality(RowsOfTheHour) <= MaxAlerts
      BY <2>1, <2>5, <2>6, <2>7, <3>2, HourIsFinite, ErrorConstants
      DEF ErrorInv, ErrorType, StampsAreRows, UnderCeiling
    <3>3. QED BY <2>1, <3>1, <3>2
  <2>9. QED BY <2>2, <2>4, <2>7, <2>8 DEF ErrorInv
<1>2. ASSUME NEW f \in Fingerprints, NEW done \in BOOLEAN, E!Resolve(f, done)
      PROVE  ErrorInv'
  BY <1>2, ResolveStep
<1>3. ASSUME NEW f \in Fingerprints, E!Prune(f)
      PROVE  ErrorInv'
  BY <1>3, PruneStep
<1>4. CASE E!HourPasses
  <2>1. /\ hour' = hour + 1 /\ deciding = {} /\ forgotten' = 0
        /\ UNCHANGED <<error, deciding, alerted>>
    BY <1>4 DEF E!HourPasses
  <2>2. Stamped' = Stamped /\ ErrorType'
    BY <2>1 DEF ErrorInv, ErrorType, Stamped
  <2>3. RowRemembers'
    BY <2>1, <2>2, ErrorConstants
    DEF ErrorInv, ErrorType, ErrorRows, Letters, RowRemembers, Stamped
  <2>4. Spaced' /\ Widespread'
    BY <2>2 DEF ErrorInv, Spaced, Widespread, Spread
  <2>5. OfTheHour' = {} /\ MailsOfTheHour' = {}
    BY <2>1, <2>2
      DEF ErrorInv, ErrorType, Letters, RowRemembers, OfTheHour, MailsOfTheHour, Stamped
  <2>6. IsFiniteSet(RowsOfTheHour')
    BY ErrorConstants, FS_Subset DEF RowsOfTheHour
  <2>7. StampsAreRows' /\ UnderCeiling'
    BY <2>1, <2>5, <2>6, FS_EmptySet, FS_CardinalityType, ErrorConstants
    DEF StampsAreRows, UnderCeiling
  <2>8. QED BY <2>2, <2>3, <2>4, <2>7 DEF ErrorInv
<1>5. CASE UNCHANGED E!vars
  BY <1>5 DEF E!vars, ErrorInv, ErrorType, RowRemembers, Spaced, Widespread, Spread,
    StampsAreRows, UnderCeiling, Stamped, OfTheHour, RowsOfTheHour, MailsOfTheHour
<1>6. QED
  BY <1>1, <1>2, <1>3, <1>4, <1>5, CaptureStep DEF E!Next

(* An alert about a fingerprint is followed by its cooldown unless an      *)
(* administrator handled it, an hour brings no more alerts than the        *)
(* ceiling and the stamps taken back in it, and a browser's error is not   *)
(* mailed before it is widespread: the checks of captureError, which run   *)
(* beside the others' and beside resolving and pruning.                    *)
THEOREM AlertsStaySpaced == MCSpec => []AlertsAreSpaced
<1>1. ErrorInv => AlertsAreSpaced
  <2>1. ErrorInv => E!AlertsAreSpaced
    BY ErrorSize
    DEF ErrorInv, Spaced, Widespread, UnderCeiling, MailsOfTheHour, Stamped, Spread,
      E!AlertsAreSpaced
  <2>2. QED BY <2>1 DEF AlertsAreSpaced
<1>2. QED BY <1>1, PlatformAlone, ErrorInit, ErrorStep, PTL DEF E!Spec

-----------------------------------------------------------------------------
(* The mails of the sweeps.                                                *)

Days0 == 0..LastDay
(* Mails whose stamp was written: about a milestone, or of a day.          *)
Vouched(d) == mails[d] - unstamped[d]

NoticeType ==
  /\ kind \in {"trial", "capacity", "backup"}
  /\ day \in Days0 /\ stamp \in {N!Never} \cup Days0
  /\ mails \in [Days0 -> Int] /\ unstamped \in [Days0 -> Int]
  /\ sweep \in [at : {"idle", "pick", "send", "stamp", "look", "claim", "alert"},
                step : {1, 2}]
  /\ alerts \in Nat

(* Whose mail a sweep is about to send, it found due, and nobody else sets *)
(* the stamp.                                                              *)
Underway == sweep.at \in {"send", "stamp"}
MilestoneOf(s) == IF s = 1 THEN 3 ELSE 0

TrialKept ==
  /\ stamp \in {N!Never, 3, 0}
  /\ stamp = N!Never => Vouched(3) = 0 /\ Vouched(0) = 0
  /\ stamp = 3 => Vouched(3) <= 1 /\ Vouched(0) = 0
  /\ stamp = 0 => Vouched(3) <= 1 /\ Vouched(0) <= 1
  /\ Underway => stamp = N!Never \/ stamp > MilestoneOf(sweep.step)

CapacityKept ==
  /\ \A d \in Days0 : Vouched(d) \in {0, 1} /\ (Vouched(d) = 1 => d <= stamp)
  /\ \A d, e \in Days0 :
       d < e /\ Vouched(d) = 1 /\ Vouched(e) = 1 => e - d > Cooldown
  /\ stamp <= day
  /\ Underway => stamp = N!Never \/ stamp < day - Cooldown

(* Either kind of mail has a sweep of four statements, and no reports.     *)
MailSweep ==
  sweep.at \in {"idle", "pick", "send", "stamp"} /\ ~report

(* A sweep of the backups has one round.  A good report that no sweep      *)
(* crossed finds none under way, and the claim of a sweep is still its own *)
(* when it sends.                                                          *)
BackupKept ==
  /\ sweep.step = 1 /\ sweep.at \in {"idle", "look", "claim", "alert"}
  /\ ~met =>
       /\ report => sweep.at = "idle" /\ alerts = 0
       /\ ~report =>
            /\ alerts <= 1
            /\ stamp # N!Never => unsent \/ alerts = 1
            /\ stamp = N!Never => alerts = 0 /\ sweep.at # "alert"
            /\ sweep.at = "alert" => unsent /\ alerts = 0

NoticeInv ==
  /\ NoticeType
  /\ kind = "trial" => MailSweep /\ TrialKept
  /\ kind = "capacity" => MailSweep /\ CapacityKept
  /\ kind = "backup" => BackupKept

LEMMA NoticeConstants ==
  /\ LastDay \in Nat /\ LastDay >= 3 /\ Trial \in Nat /\ Cooldown \in Nat
  /\ 0 \in Days0 /\ 3 \in Days0 /\ N!Never \notin Days0 /\ Days0 \subseteq Nat
BY InstanceAssumptions DEF N!NoticesAssumption, N!Never, Days0

LEMMA NoticeInit == N!Init => NoticeInv
<1> SUFFICES ASSUME N!Init
             PROVE  NoticeInv
  OBVIOUS
<1>1. /\ kind \in {"trial", "capacity", "backup"} /\ day = 0 /\ stamp = N!Never
      /\ sweep = N!Idle /\ ~report /\ alerts = 0
      /\ mails = [m \in Days0 |-> 0] /\ unstamped = mails
  BY DEF N!Init, Days0
<1>2. sweep.at = "idle" /\ sweep.step = 1
      /\ sweep \in [at : {"idle", "pick", "send", "stamp", "look", "claim", "alert"},
                    step : {1, 2}]
  BY <1>1 DEF N!Idle
<1>3. NoticeType
  BY <1>1, <1>2, NoticeConstants DEF NoticeType
<1>4. \A d \in Days0 : Vouched(d) = 0
  BY <1>1 DEF Vouched
<1>5. MailSweep /\ TrialKept
  BY <1>1, <1>2, <1>4, NoticeConstants DEF MailSweep, TrialKept, Underway
<1>6. CapacityKept
  BY <1>1, <1>2, <1>4, NoticeConstants DEF CapacityKept, Underway, N!Never
<1>7. BackupKept
  BY <1>1, <1>2 DEF BackupKept
<1>8. QED BY <1>3, <1>5, <1>6, <1>7 DEF NoticeInv

(* What a step does to the next statement of the sweep.                    *)
LEMMA NoticeSweeps ==
  ASSUME NoticeType, [N!Next]_(N!vars)
  PROVE  /\ sweep' \in [at : {"idle", "pick", "send", "stamp", "look", "claim", "alert"},
                        step : {1, 2}]
         /\ kind' = kind
<1>1. N!Idle \in [at : {"idle", "pick", "send", "stamp", "look", "claim", "alert"},
                  step : {1, 2}]
  BY DEF N!Idle
<1>2. QED
  BY <1>1 DEF NoticeType, N!Next, N!vars, N!Start, N!Pick, N!Send, N!SendFails, N!Stamp,
    N!StampFails, N!Look, N!Claim, N!SendAlert, N!AlertFails, N!StoreRun, N!ClearStamp,
    N!DayPasses, N!Entitle, N!Dies, N!Goes, N!Ends, N!GoesOn

LEMMA MilestoneIs ==
  ASSUME NoticeType
  PROVE  N!Milestone = MilestoneOf(sweep.step) /\ N!Milestone \in Days0
BY NoticeConstants DEF NoticeType, N!Milestone, N!Milestones, MilestoneOf

(* The mail sweep's steps: a stamp that is written is the stamp of a mail  *)
(* that went out, and nothing else moves the stamp or what it vouches for. *)
MailStays ==
  /\ stamp' = stamp
  /\ \A d \in Days0 : Vouched(d)' = Vouched(d)
  /\ Underway' => /\ day' = day
                  /\ \/ Underway /\ sweep'.step = sweep.step
                     \/ N!Due /\ sweep'.step = sweep.step
MailStamped(k) ==
  /\ stamp' = k /\ k \in Days0 /\ day' = day
  /\ \A d \in Days0 : Vouched(d)' = IF d = k THEN Vouched(d) + 1 ELSE Vouched(d)
  /\ Underway /\ ~Underway'

LEMMA MailStep ==
  ASSUME NoticeType, MailSweep, kind # "backup", [N!Next]_(N!vars)
  PROVE  /\ NoticeType' /\ MailSweep' /\ day' \in {day, day + 1}
         /\ MailStays \/ MailStamped(N!Key)
<1> USE NoticeSweeps
<1>1. N!Key \in Days0
  BY MilestoneIs DEF NoticeType, N!Key
<1>2. CASE N!Send
  <2>1. /\ sweep.at = "send" /\ sweep' = [sweep EXCEPT !.at = "stamp"]
        /\ mails' = [mails EXCEPT ![N!Key] = @ + 1]
        /\ unstamped' = [unstamped EXCEPT ![N!Key] = @ + 1]
        /\ UNCHANGED <<kind, day, stamp, alerts, report>>
    BY <1>2 DEF N!Send, N!Goes, N!Counted, N!backupVars
  <2>2. NoticeType' /\ MailSweep'
    BY <1>1, <2>1 DEF NoticeType, MailSweep
  <2>3. \A d \in Days0 : Vouched(d)' = Vouched(d)
    BY <1>1, <2>1 DEF NoticeType, Vouched
  <2>4. MailStays
    BY <2>1, <2>3 DEF NoticeType, MailStays, Underway
  <2>5. QED BY <2>1, <2>2, <2>4
<1>3. CASE N!Stamp
  <2>1. /\ sweep.at = "stamp" /\ N!GoesOn
        /\ unstamped' = [unstamped EXCEPT ![N!Key] = @ - 1] /\ stamp' = N!Key
        /\ UNCHANGED <<kind, day, mails, alerts, report>>
    BY <1>3 DEF N!Stamp, N!backupVars
  <2>2. sweep'.at \in {"idle", "pick"}
    BY <2>1 DEF N!GoesOn, N!Idle
  <2>3. NoticeType' /\ MailSweep'
    BY <1>1, <2>1, <2>2 DEF NoticeType, MailSweep
  <2>4. \A d \in Days0 : Vouched(d)' = IF d = N!Key THEN Vouched(d) + 1 ELSE Vouched(d)
    BY <1>1, <2>1 DEF NoticeType, Vouched
  <2>5. MailStamped(N!Key)
    BY <1>1, <2>1, <2>2, <2>4 DEF MailStamped, Underway
  <2>6. QED BY <2>1, <2>3, <2>5
<1>4. CASE N!Pick
  <2>1. /\ sweep.at = "pick" /\ IF N!Due THEN N!Goes("send") ELSE N!GoesOn
        /\ UNCHANGED <<kind, day, stamp, mails, unstamped, alerts, report>>
    BY <1>4 DEF N!Pick, N!mailVars, N!backupVars
  <2>2. NoticeType'
    BY <2>1 DEF NoticeType
  <2>3. CASE N!Due
    <3>1. sweep'.at = "send" /\ sweep'.step = sweep.step
      BY <2>1, <2>3 DEF NoticeType, N!Goes
    <3>2. QED BY <2>1, <2>2, <2>3, <3>1 DEF MailSweep, MailStays, Vouched
  <2>4. CASE ~N!Due
    <3>1. sweep'.at \in {"idle", "pick"}
      BY <2>1, <2>4 DEF N!GoesOn, N!Idle
    <3>2. QED BY <2>1, <2>2, <3>1 DEF MailSweep, MailStays, Vouched, Underway
  <2>5. QED BY <2>3, <2>4
<1>5. CASE N!Start \/ N!SendFails \/ N!StampFails \/ N!DayPasses \/ N!Dies
  <2>1. /\ UNCHANGED <<kind, stamp, mails, unstamped, alerts, report>>
        /\ day' = day \/ (day < LastDay /\ day' = day + 1)
    BY <1>5 DEF N!Start, N!SendFails, N!StampFails, N!DayPasses, N!Dies, N!mailVars,
      N!backupVars
  <2>2. sweep'.at \in {"idle", "pick"}
    BY <1>5 DEF N!Start, N!SendFails, N!StampFails, N!DayPasses, N!Dies, N!Goes, N!GoesOn,
      N!Ends, N!Idle, NoticeType
  <2>3. day' \in Days0
    BY <2>1, NoticeConstants DEF NoticeType, Days0
  <2>4. NoticeType'
    BY <2>1, <2>3 DEF NoticeType
  <2>5. QED BY <2>1, <2>2, <2>4 DEF MailSweep, MailStays, Vouched, Underway
<1>6. CASE N!Entitle \/ UNCHANGED N!vars
  <2>1. UNCHANGED <<kind, day, stamp, sweep, mails, unstamped, alerts, report>>
    BY <1>6 DEF N!Entitle, N!vars, N!mailVars, N!backupVars
  <2>2. QED BY <2>1 DEF NoticeType, MailSweep, MailStays, Vouched, Underway
<1>7. CASE N!Look \/ N!Claim \/ N!SendAlert \/ N!AlertFails \/ N!StoreRun \/ N!ClearStamp
  BY <1>7 DEF MailSweep, N!Look, N!Claim, N!SendAlert, N!AlertFails, N!StoreRun, N!ClearStamp
<1>8. QED BY <1>2, <1>3, <1>4, <1>5, <1>6, <1>7 DEF N!Next

LEMMA TrialStep ==
  ASSUME NoticeType, MailSweep, TrialKept, kind = "trial", [N!Next]_(N!vars)
  PROVE  TrialKept'
<1>1. NoticeType' /\ (MailStays \/ MailStamped(MilestoneOf(sweep.step)))
  BY MailStep, MilestoneIs DEF N!Key
<1>2. CASE MailStays
  <2>1. stamp' = stamp /\ Vouched(3)' = Vouched(3) /\ Vouched(0)' = Vouched(0)
    BY <1>2, NoticeConstants DEF MailStays
  <2>2. Underway' => stamp = N!Never \/ stamp > MilestoneOf(sweep'.step)
    BY <1>2, MilestoneIs DEF MailStays, TrialKept, N!Due
  <2>3. QED BY <2>1, <2>2 DEF TrialKept
<1>3. CASE MailStamped(MilestoneOf(sweep.step))
  <2>1. /\ stamp' = MilestoneOf(sweep.step) /\ ~Underway' /\ Underway
        /\ Vouched(3)' = IF stamp' = 3 THEN Vouched(3) + 1 ELSE Vouched(3)
        /\ Vouched(0)' = IF stamp' = 0 THEN Vouched(0) + 1 ELSE Vouched(0)
    BY <1>3, NoticeConstants DEF MailStamped
  <2>2. Vouched(3) \in Int /\ Vouched(0) \in Int
    BY NoticeConstants DEF NoticeType, Vouched
  <2>3. QED BY <2>1, <2>2 DEF TrialKept, MilestoneOf, N!Never
<1>4. QED BY <1>1, <1>2, <1>3

LEMMA CapacityStep ==
  ASSUME NoticeType, MailSweep, CapacityKept, kind = "capacity", [N!Next]_(N!vars)
  PROVE  CapacityKept'
<1>1. /\ NoticeType' /\ day' \in {day, day + 1}
      /\ MailStays \/ MailStamped(day)
  BY MailStep DEF N!Key
<1>2. CASE MailStays
  <2>1. stamp' = stamp /\ \A d \in Days0 : Vouched(d)' = Vouched(d)
    BY <1>2 DEF MailStays
  <2>2. Underway' => stamp = N!Never \/ stamp < day' - Cooldown
    BY <1>2 DEF MailStays, CapacityKept, N!Due
  <2>3. stamp' <= day'
    BY <1>1, <2>1, NoticeConstants DEF CapacityKept, NoticeType, N!Never
  <2>4. QED BY <2>1, <2>2, <2>3 DEF CapacityKept
<1>3. CASE MailStamped(day)
  <2>1. /\ stamp' = day /\ day' = day /\ ~Underway' /\ Underway /\ day \in Days0
        /\ \A d \in Days0 : Vouched(d)' = IF d = day THEN Vouched(d) + 1 ELSE Vouched(d)
    BY <1>3 DEF MailStamped
  <2>2. stamp = N!Never \/ stamp < day - Cooldown
    BY <2>1 DEF CapacityKept
  <2>3. \A d \in Days0 : Vouched(d) = 1 => d <= stamp /\ d < day - Cooldown
    BY <2>2, NoticeConstants DEF CapacityKept, NoticeType, N!Never
  <2>4. Vouched(day) = 0
    BY <2>1, <2>3, NoticeConstants DEF CapacityKept
  <2>5. \A d \in Days0 : Vouched(d)' \in {0, 1} /\ (Vouched(d)' = 1 => d <= day)
    BY <2>1, <2>3, <2>4, NoticeConstants DEF CapacityKept
  <2>6. \A d, e \in Days0 : d < e /\ Vouched(d)' = 1 /\ Vouched(e)' = 1 => e - d > Cooldown
    <3> SUFFICES ASSUME NEW d \in Days0, NEW e \in Days0, d < e, Vouched(d)' = 1, Vouched(e)' = 1
                 PROVE  e - d > Cooldown
      OBVIOUS
    <3>1. CASE e = day
      BY <2>1, <2>3, <3>1, NoticeConstants
    <3>2. CASE d = day
      BY <2>1, <2>3, <3>2, NoticeConstants
    <3>3. CASE e # day /\ d # day
      BY <2>1, <3>3 DEF CapacityKept
    <3>4. QED BY <3>1, <3>2, <3>3
  <2>7. QED BY <2>1, <2>5, <2>6, NoticeConstants DEF CapacityKept
<1>4. QED BY <1>1, <1>2, <1>3

(* One round of the freshness check, beside reports.                       *)
LEMMA BackupStep ==
  ASSUME NoticeType, BackupKept, kind = "backup", [N!Next]_(N!vars)
  PROVE  NoticeType' /\ BackupKept'
<1>1. CASE N!Start
  <2>1. /\ sweep.at = "idle" /\ sweep' = [sweep EXCEPT !.at = "look"]
        /\ met' <=> (met \/ report)
        /\ UNCHANGED <<kind, day, stamp, mails, unstamped, alerts, report, unsent>>
    BY <1>1 DEF N!Start, N!Goes, N!mailVars
  <2>2. NoticeType'
    BY <2>1, NoticeSweeps DEF NoticeType
  <2>3. sweep'.at = "look" /\ sweep'.step = sweep.step
    BY <2>1 DEF NoticeType
  <2>4. BackupKept'
    BY <2>1, <2>3 DEF BackupKept
  <2>5. QED BY <2>2, <2>4
<1>2. CASE N!Look
  <2>1. /\ sweep.at = "look"
        /\ UNCHANGED <<kind, day, stamp, mails, unstamped, alerts, report, unsent, met>>
    BY <1>2 DEF N!Look, N!mailVars, N!backupVars
  <2>2. sweep'.at \in {"claim", "idle"} /\ sweep'.step = 1
    BY <1>2 DEF NoticeType, BackupKept, N!Look, N!Goes, N!Ends, N!Idle
  <2>3. NoticeType'
    BY <2>1, NoticeSweeps DEF NoticeType
  <2>4. BackupKept'
    BY <2>1, <2>2 DEF BackupKept
  <2>5. QED BY <2>3, <2>4
<1>3. CASE N!Claim
  <2>1. CASE stamp # N!Never
    <3>1. /\ sweep.at = "claim" /\ sweep' = N!Idle
          /\ UNCHANGED <<kind, day, stamp, mails, unstamped, alerts, report, unsent, met>>
      BY <1>3, <2>1 DEF N!Claim, N!Ends, N!mailVars
    <3>2. NoticeType'
      BY <3>1, NoticeSweeps DEF NoticeType
    <3>3. BackupKept'
      BY <3>1 DEF BackupKept, N!Idle
    <3>4. QED BY <3>2, <3>3
  <2>2. CASE stamp = N!Never
    <3>1. /\ sweep.at = "claim" /\ sweep' = [sweep EXCEPT !.at = "alert"]
          /\ stamp' = day /\ unsent'
          /\ UNCHANGED <<kind, day, mails, unstamped, alerts, report, met>>
      BY <1>3, <2>2 DEF N!Claim, N!Goes, N!mailVars
    <3>2. sweep'.at = "alert" /\ sweep'.step = sweep.step
      BY <3>1 DEF NoticeType
    <3>3. NoticeType'
      BY <3>1, NoticeSweeps DEF NoticeType
    <3>4. BackupKept'
      BY <2>2, <3>1, <3>2, NoticeConstants DEF BackupKept, NoticeType
    <3>5. QED BY <3>3, <3>4
  <2>3. QED BY <2>1, <2>2
<1>4. CASE N!SendAlert
  <2>1. /\ sweep.at = "alert" /\ sweep' = N!Idle /\ alerts' = alerts + 1 /\ ~unsent'
        /\ UNCHANGED <<kind, day, stamp, mails, unstamped, report, met>>
    BY <1>4 DEF N!SendAlert, N!Ends, N!mailVars
  <2>2. NoticeType'
    BY <2>1, NoticeSweeps DEF NoticeType
  <2>3. BackupKept'
    BY <2>1 DEF BackupKept, N!Idle
  <2>4. QED BY <2>2, <2>3
<1>5. CASE N!AlertFails \/ N!Dies
  <2>1. /\ sweep.at # "idle" /\ sweep' = N!Idle
        /\ UNCHANGED <<kind, day, stamp, mails, unstamped, alerts, report, unsent, met>>
    <3>1. sweep = [at |-> sweep.at, step |-> sweep.step]
      BY DEF NoticeType
    <3>2. QED
      BY <1>5, <3>1 DEF BackupKept, N!AlertFails, N!Dies, N!Ends, N!mailVars, N!backupVars, N!Idle
  <2>2. NoticeType'
    BY <2>1, NoticeSweeps DEF NoticeType
  <2>3. BackupKept'
    BY <2>1 DEF BackupKept, N!Idle
  <2>4. QED BY <2>2, <2>3
<1>6. CASE N!StoreRun
  <2>1. /\ report' /\ alerts' = 0 /\ (~met' => sweep = N!Idle)
        /\ UNCHANGED <<kind, day, stamp, sweep, mails, unstamped, unsent>>
    BY <1>6 DEF N!StoreRun, N!mailVars
  <2>2. NoticeType'
    BY <2>1 DEF NoticeType
  <2>3. BackupKept'
    BY <2>1 DEF BackupKept, N!Idle
  <2>4. QED BY <2>2, <2>3
<1>7. CASE N!ClearStamp
  <2>1. /\ report /\ ~report' /\ stamp' = N!Never /\ ~unsent'
        /\ UNCHANGED <<kind, day, sweep, mails, unstamped, alerts, met>>
    BY <1>7 DEF N!ClearStamp, N!mailVars
  <2>2. NoticeType'
    BY <2>1 DEF NoticeType
  <2>3. BackupKept'
    BY <2>1 DEF BackupKept
  <2>4. QED BY <2>2, <2>3
<1>8. CASE N!DayPasses \/ N!Entitle \/ UNCHANGED N!vars
  <2>1. /\ day' = day \/ (day < LastDay /\ day' = day + 1)
        /\ UNCHANGED <<kind, stamp, sweep, mails, unstamped, alerts, report, unsent, met>>
    BY <1>8 DEF N!DayPasses, N!Entitle, N!vars, N!mailVars, N!backupVars
  <2>2. day' \in Days0
    BY <2>1, NoticeConstants DEF NoticeType, Days0
  <2>3. NoticeType'
    BY <2>1, <2>2 DEF NoticeType
  <2>4. BackupKept'
    BY <2>1 DEF BackupKept
  <2>5. QED BY <2>3, <2>4
<1>9. CASE N!Pick \/ N!Send \/ N!SendFails \/ N!Stamp \/ N!StampFails
  BY <1>9 DEF BackupKept, N!Pick, N!Send, N!SendFails, N!Stamp, N!StampFails
<1>10. QED
  BY <1>1, <1>2, <1>3, <1>4, <1>5, <1>6, <1>7, <1>8, <1>9 DEF N!Next

LEMMA NoticeStep == NoticeInv /\ [N!Next]_(N!vars) => NoticeInv'
<1> SUFFICES ASSUME NoticeInv, [N!Next]_(N!vars)
             PROVE  NoticeInv'
  OBVIOUS
<1>1. NoticeType /\ kind' = kind
  BY NoticeSweeps DEF NoticeInv
<1>2. CASE kind = "trial"
  <2>1. MailSweep /\ TrialKept
    BY <1>2 DEF NoticeInv
  <2>2. NoticeType' /\ MailSweep' /\ TrialKept'
    BY <1>1, <1>2, <2>1, MailStep, TrialStep
  <2>3. QED BY <1>1, <1>2, <2>2 DEF NoticeInv
<1>3. CASE kind = "capacity"
  <2>1. MailSweep /\ CapacityKept
    BY <1>3 DEF NoticeInv
  <2>2. NoticeType' /\ MailSweep' /\ CapacityKept'
    BY <1>1, <1>3, <2>1, MailStep, CapacityStep
  <2>3. QED BY <1>1, <1>3, <2>2 DEF NoticeInv
<1>4. CASE kind = "backup"
  BY <1>1, <1>4, BackupStep DEF NoticeInv
<1>5. QED BY <1>1, <1>2, <1>3, <1>4 DEF NoticeType

(* An owner is mailed once about a milestone and once in a cooldown, but   *)
(* for mails whose stamp was lost; operations once about a missing backup, *)
(* and an old stamp hides no new outage, but for an alert that got lost    *)
(* and a sweep that crossed a report: the sweeps stamp after the mail or   *)
(* before it, for any length of the trial and of the cooldown.             *)
THEOREM NoticesStayCounted == MCSpec => []NoticesAreCounted
<1>1. NoticeInv => NoticesAreCounted
  <2> SUFFICES ASSUME NoticeInv
               PROVE  N!NoticesAreCounted
    BY DEF NoticesAreCounted
  <2>1. CASE kind = "trial"
    <3>1. \A m \in {3, 0} : mails[m] - unstamped[m] <= 1
      <4>1. Vouched(3) <= 1 /\ Vouched(0) <= 1
        BY <2>1, NoticeConstants DEF NoticeInv, TrialKept, NoticeType
      <4>2. QED BY <4>1 DEF Vouched
    <3>2. QED BY <2>1, <3>1 DEF N!NoticesAreCounted
  <2>2. CASE kind = "capacity"
    <3>1. \A d, e \in 0..day :
            /\ d <= e /\ mails[d] > unstamped[d] /\ mails[e] > unstamped[e]
            => /\ d = e \/ e - d > Cooldown
               /\ mails[d] - unstamped[d] = 1
      <4> SUFFICES ASSUME NEW d \in 0..day, NEW e \in 0..day, d <= e,
                          mails[d] > unstamped[d], mails[e] > unstamped[e]
                   PROVE  /\ d = e \/ e - d > Cooldown
                          /\ mails[d] - unstamped[d] = 1
        OBVIOUS
      <4>1. d \in Days0 /\ e \in Days0 /\ day \in Nat
        BY NoticeConstants DEF NoticeInv, NoticeType, Days0
      <4>2. /\ mails[d] \in Int /\ unstamped[d] \in Int
            /\ mails[e] \in Int /\ unstamped[e] \in Int
        BY <4>1 DEF NoticeInv, NoticeType
      <4>3. Vouched(d) \in {0, 1} /\ Vouched(e) \in {0, 1}
        BY <2>2, <4>1 DEF NoticeInv, CapacityKept
      <4>4. Vouched(d) = 1 /\ Vouched(e) = 1
        BY <4>2, <4>3 DEF Vouched
      <4>5. d < e => e - d > Cooldown
        BY <2>2, <4>1, <4>4 DEF NoticeInv, CapacityKept
      <4>6. QED BY <4>1, <4>4, <4>5 DEF Vouched
    <3>2. QED BY <2>2, <3>1 DEF N!NoticesAreCounted
  <2>3. CASE kind = "backup"
    <3>1. met \/ (alerts <= 1 /\ (stamp # N!Never /\ ~report => unsent \/ alerts = 1))
      BY <2>3 DEF NoticeInv, BackupKept
    <3>2. QED BY <2>3, <3>1 DEF N!NoticesAreCounted
  <2>4. QED BY <2>1, <2>2, <2>3 DEF NoticeInv, NoticeType
<1>2. QED BY <1>1, NoticeInit, NoticeStep, PlatformAlone, PTL DEF N!Spec

-----------------------------------------------------------------------------
(* The ranking of the hosts.                                               *)

(* R puts any two of Z in an order, and is transitive and irreflexive.     *)
Orders(R, Z) ==
  /\ \A x \in Z : <<x, x>> \notin R
  /\ \A x, y \in Z : x # y => <<x, y>> \in R \/ <<y, x>> \in R
  /\ \A x, y, z \in Z : <<x, y>> \in R /\ <<y, z>> \in R => <<x, z>> \in R

SortedBy(r, R) == \A i, j \in DOMAIN r : i < j => <<r[i], r[j]>> \in R

(* A finite set can be listed in such an order: each element goes to the   *)
(* place that the number of those before it says.                          *)
LEMMA CanBeSorted ==
  ASSUME NEW Z, IsFiniteSet(Z), NEW R, Orders(R, Z)
  PROVE  \E r \in [1..Cardinality(Z) -> Z] : SortedBy(r, R)
<1> DEFINE n == Cardinality(Z)
           Ahead(x) == {y \in Z : <<y, x>> \in R}
           place == [x \in Z |-> Cardinality(Ahead(x)) + 1]
<1>1. n \in Nat
  BY FS_CardinalityType
<1>2. \A x \in Z : IsFiniteSet(Ahead(x)) /\ Cardinality(Ahead(x)) \in Nat
  <2> TAKE x \in Z
  <2>1. Ahead(x) \subseteq Z
    OBVIOUS
  <2>2. QED BY <2>1, FS_Subset, FS_CardinalityType
<1>3. \A x, y \in Z : <<x, y>> \in R =>
         Cardinality(Ahead(x)) < Cardinality(Ahead(y))
  <2> SUFFICES ASSUME NEW x \in Z, NEW y \in Z, <<x, y>> \in R
               PROVE  Cardinality(Ahead(x)) < Cardinality(Ahead(y))
    OBVIOUS
  <2>1. Ahead(x) \subseteq Ahead(y) /\ x \in Ahead(y) /\ x \notin Ahead(x)
    BY DEF Orders
  <2>2. Ahead(x) # Ahead(y)
    BY <2>1
  <2>3. Cardinality(Ahead(x)) <= Cardinality(Ahead(y))
    BY <1>2, <2>1, FS_Subset
  <2>4. Cardinality(Ahead(x)) # Cardinality(Ahead(y))
    BY <1>2, <2>1, <2>2, FS_Subset
  <2> HIDE DEF Ahead
  <2>5. QED BY <1>2, <2>3, <2>4
<1>4. place \in [Z -> 1..n]
  <2>1. \A x \in Z : Cardinality(Ahead(x)) + 1 \in 1..n
    <3> TAKE x \in Z
    <3>1. Ahead(x) \subseteq Z /\ x \notin Ahead(x)
      BY DEF Orders
    <3>2. Cardinality(Ahead(x)) <= n /\ Cardinality(Ahead(x)) # n
      BY <3>1, FS_Subset
    <3> HIDE DEF Ahead, n
    <3>3. QED BY <1>1, <1>2, <3>2
  <2>2. QED BY <2>1
<1>5. place \in Injection(Z, 1..n)
  <2>1. \A x, y \in Z : place[x] = place[y] => x = y
    <3> SUFFICES ASSUME NEW x \in Z, NEW y \in Z, x # y
                 PROVE  place[x] # place[y]
      OBVIOUS
    <3>1. place[x] = Cardinality(Ahead(x)) + 1 /\ place[y] = Cardinality(Ahead(y)) + 1
      OBVIOUS
    <3>2. <<x, y>> \in R \/ <<y, x>> \in R
      BY DEF Orders
    <3> HIDE DEF Ahead, place
    <3>3. QED BY <1>2, <1>3, <3>1, <3>2
  <2>2. DOMAIN place = Z
    OBVIOUS
  <2> HIDE DEF place, n
  <2>3. QED BY <1>4, <2>1, <2>2 DEF Injection, IsInjective
<1>6. place \in Surjection(Z, 1..n)
  <2>1. IsFiniteSet(1..n) /\ Cardinality(1..n) = n
    BY <1>1, FS_Interval
  <2> HIDE DEF place
  <2>2. QED BY <1>5, <2>1, FS_Injection DEF ExistsInjection
<1> DEFINE r == [i \in 1..n |-> CHOOSE x \in Z : place[x] = i]
<1>7. \A i \in 1..n : r[i] \in Z /\ place[r[i]] = i
  <2> HIDE DEF place
  <2>1. \A i \in 1..n : \E x \in Z : place[x] = i
    BY <1>6 DEF Surjection
  <2>2. QED BY <2>1
<1>8. SortedBy(r, R)
  <2> SUFFICES ASSUME NEW i \in 1..n, NEW j \in 1..n, i < j
               PROVE  <<r[i], r[j]>> \in R
    BY DEF SortedBy
  <2>1. r[i] # r[j]
    <3>1. place[r[i]] = i /\ place[r[j]] = j
      BY <1>7
    <3> HIDE DEF n, place, r
    <3>2. QED BY <1>1, <3>1
  <2>2. <<r[j], r[i]>> \notin R
    <3>1. \A x \in Z : place[x] = Cardinality(Ahead(x)) + 1
      OBVIOUS
    <3>2. r[i] \in Z /\ r[j] \in Z /\ place[r[i]] = i /\ place[r[j]] = j
      BY <1>7
    <3> HIDE DEF place, Ahead, r, n
    <3>3. SUFFICES ASSUME <<r[j], r[i]>> \in R
                   PROVE  FALSE
      OBVIOUS
    <3>4. Cardinality(Ahead(r[j])) < Cardinality(Ahead(r[i]))
      BY <1>3, <3>2, <3>3
    <3>5. j < i
      BY <1>2, <3>1, <3>2, <3>4
    <3>6. QED BY <3>5
  <2> HIDE DEF r
  <2>3. QED BY <1>7, <2>1, <2>2 DEF Orders
<1>9. r \in [1..n -> Z]
  <2> HIDE DEF place
  <2>1. QED BY <1>7
<1>10. QED BY <1>8, <1>9

(* A list in such an order has every element, once.                        *)
LEMMA SortedIsComplete ==
  ASSUME NEW Z, IsFiniteSet(Z), NEW R, Orders(R, Z),
         NEW r \in [1..Cardinality(Z) -> Z], SortedBy(r, R)
  PROVE  /\ {r[i] : i \in DOMAIN r} = Z
         /\ Len(r) = Cardinality(Z)
<1> DEFINE n == Cardinality(Z)
<1>1. n \in Nat
  BY FS_CardinalityType
<1>2. \A i, j \in 1..n : r[i] = r[j] => i = j
  <2> SUFFICES ASSUME NEW i \in 1..n, NEW j \in 1..n, i < j, r[i] = r[j]
               PROVE  FALSE
    BY <1>1
  <2>1. <<r[i], r[j]>> \in R
    BY DEF SortedBy
  <2>2. QED BY <2>1 DEF Orders
<1>3. r \in Injection(1..n, Z)
  BY <1>2 DEF Injection, IsInjective
<1>4. IsFiniteSet(1..n) /\ Cardinality(1..n) = n
  BY <1>1, FS_Interval
<1>5. r \in Surjection(1..n, Z)
  BY <1>3, <1>4, FS_Injection
<1>6. {r[i] : i \in DOMAIN r} = Z
  BY <1>5 DEF Surjection
<1>7. Len(r) = n
  <2> HIDE DEF n
  <2>1. r \in [1..n -> Z]
    BY DEF n
  <2>2. QED BY <1>1, <2>1
<1>8. QED BY <1>6, <1>7

HostType ==
  /\ cpu \in [Names -> 0..CpuTotal] /\ busy \in [Names -> Loads \cup {H!Never}]
  /\ age \in [Names -> Nat]

(* What the agents measured of late is what the ranking holds for fresh.   *)
KnownIsFresh ==
  known = [n \in Names |-> IF H!MeasurementFresh(n) THEN busy[n] ELSE H!Never]

HostInv == HostType /\ KnownIsFresh

LEMMA HostConstants ==
  /\ IsFiniteSet(Names) /\ Names \subseteq Nat
  /\ CpuTotal \in Nat /\ Sizes \subseteq Nat \ {0}
  /\ Loads \subseteq Nat /\ UsageStale \in Nat
  /\ \A X : H!Cardinality(X) = Cardinality(X)
<1>1. \A X : H!IsFiniteSet(X) <=> IsFiniteSet(X)
  BY DEF H!IsFiniteSet, IsFiniteSet
<1>2. \A X : H!Cardinality(X) = Cardinality(X)
  BY <1>1 DEF H!Cardinality, Cardinality
<1>3. QED BY <1>1, <1>2, InstanceAssumptions DEF H!PlacementAssumption

(* loadScore in steps of Bucket, of a host with room: the step of today's  *)
(* evidence.                                                               *)
LEMMA StepsOfShares ==
  ASSUME NEW x \in Nat, NEW c \in Nat \ {0}
  PROVE  x \div (c * 5) = (x \div c) \div 5
<1> DEFINE q == x \div c
           p == q \div 5
<1>1. q \in Nat /\ c * q <= x /\ x < c * (q + 1)
  OBVIOUS
<1>2. p \in Nat /\ 5 * p <= q /\ q + 1 <= 5 * (p + 1)
  <2> HIDE DEF q
  <2>1. QED BY <1>1
<1> HIDE DEF p, q
<1>3. c * (5 * p) <= c * q /\ c * (q + 1) <= c * (5 * (p + 1))
  BY <1>1, <1>2
<1>4. (c * 5) * p <= x /\ x < (c * 5) * (p + 1)
  BY <1>1, <1>2, <1>3
<1>5. x \div (c * 5) = p
  <2> DEFINE d == c * 5
  <2>1. d \in Nat \ {0}
    OBVIOUS
  <2>2. d * p <= x /\ x < d * (p + 1)
    BY <1>4
  <2> HIDE DEF d
  <2>3. x \div d = p
    BY <1>2, <2>1, <2>2
  <2>4. QED BY <2>3 DEF d
<1>6. QED BY <1>5 DEF p, q

LEMMA LoadIsStep ==
  ASSUME HostInv, NEW n \in Names, cpu[n] < CpuTotal
  PROVE  H!Evidence(n) \in Nat /\ H!Load(n) = H!Evidence(n) \div 5
<1>1. CASE H!MeasurementFresh(n)
  <2>1. known[n] = busy[n] /\ busy[n] # H!Never
    BY <1>1 DEF HostInv, KnownIsFresh, H!MeasurementFresh
  <2>2. busy[n] \in Loads
    BY <2>1 DEF HostInv, HostType
  <2>3. busy[n] \in Nat
    BY <2>2, HostConstants
  <2>4. QED BY <1>1, <2>1, <2>3 DEF H!Load, H!Evidence, H!Bucket
<1>2. CASE ~H!MeasurementFresh(n)
  <2>1. known[n] = H!Never
    BY <1>2 DEF HostInv, KnownIsFresh
  <2>2. CpuTotal \in Nat \ {0} /\ cpu[n] \in Nat /\ cpu[n] * 100 \in Nat
    BY HostConstants DEF HostInv, HostType
  <2>3. H!Evidence(n) = (cpu[n] * 100) \div CpuTotal
    BY <2>1 DEF H!Evidence
  <2>4. H!Load(n) = (cpu[n] * 100) \div (CpuTotal * 5)
    BY <1>2, <2>2 DEF H!Load, H!Bucket
  <2> DEFINE x == cpu[n] * 100
  <2>5. x \in Nat /\ x \div (CpuTotal * 5) = (x \div CpuTotal) \div 5
    BY <2>2, StepsOfShares
  <2> HIDE DEF x
  <2>6. x \div CpuTotal \in Nat
    BY <2>2, <2>5
  <2>7. QED BY <2>3, <2>4, <2>5, <2>6 DEF x
<1>3. QED BY <1>1, <1>2

(* rankHosts: among the hosts with room for a run, by the order of its     *)
(* comparison.                                                             *)
Roomy(v) == {n \in Names : H!Fits(n, v)}
Comparison(v) == {p \in Roomy(v) \X Roomy(v) : H!Before(p[1], p[2])}

LEMMA RoomIs ==
  ASSUME HostInv, NEW v \in Sizes
  PROVE  /\ IsFiniteSet(Roomy(v))
         /\ Roomy(v) = {n \in Names : cpu[n] + v <= CpuTotal}
         /\ \A n \in Roomy(v) : n \in Nat /\ cpu[n] < CpuTotal /\ H!Free(n) \in Nat
                                /\ H!Load(n) \in Int
<1>1. Roomy(v) \subseteq Names /\ v \in Nat \ {0} /\ CpuTotal \in Nat
  BY HostConstants DEF Roomy
<1>2. \A n \in Names : cpu[n] \in Nat
  BY <1>1 DEF HostInv, HostType
<1>3. IsFiniteSet(Roomy(v))
  BY <1>1, HostConstants, FS_Subset
<1>4. Roomy(v) = {n \in Names : cpu[n] + v <= CpuTotal}
  BY <1>1, <1>2 DEF Roomy, H!Fits, H!Free
<1>5. \A n \in Roomy(v) : n \in Nat /\ cpu[n] < CpuTotal /\ H!Free(n) \in Nat
  <2> TAKE n \in Roomy(v)
  <2>1. n \in Names /\ cpu[n] + v <= CpuTotal
    BY <1>4
  <2>2. n \in Nat /\ cpu[n] \in Nat
    BY <1>2, <2>1, HostConstants
  <2>3. QED BY <1>1, <2>1, <2>2 DEF H!Free
<1>6. \A n \in Roomy(v) : H!Load(n) \in Int
  BY <1>1, <1>5, LoadIsStep
<1>7. QED BY <1>3, <1>4, <1>5, <1>6

LEMMA ComparisonOrders ==
  ASSUME HostInv, NEW v \in Sizes
  PROVE  Orders(Comparison(v), Roomy(v))
<1>1. \A n \in Roomy(v) : n \in Nat /\ H!Free(n) \in Nat /\ H!Load(n) \in Int
  BY RoomIs
<1>2. \A a, b \in Roomy(v) : <<a, b>> \in Comparison(v) <=> H!Before(a, b)
  BY DEF Comparison
<1>3. \A x \in Roomy(v) : ~H!Before(x, x)
  BY <1>1 DEF H!Before
<1>4. \A x, y \in Roomy(v) : x # y => H!Before(x, y) \/ H!Before(y, x)
  BY <1>1 DEF H!Before
<1>5. \A x, y, z \in Roomy(v) : H!Before(x, y) /\ H!Before(y, z) => H!Before(x, z)
  BY <1>1 DEF H!Before
<1>6. QED BY <1>2, <1>3, <1>4, <1>5 DEF Orders

LEMMA RankingIsSorted ==
  ASSUME HostInv, NEW v \in Sizes
  PROVE  /\ H!RankHosts(v) \in [1..Cardinality(Roomy(v)) -> Roomy(v)]
         /\ SortedBy(H!RankHosts(v), Comparison(v))
<1> DEFINE fit == Roomy(v)
           Sorted(r) == \A i, j \in DOMAIN r : i < j => H!Before(r[i], r[j])
<1>1. \A r \in [1..Cardinality(fit) -> fit] :
         SortedBy(r, Comparison(v)) <=> Sorted(r)
  BY DEF SortedBy, Comparison
<1>2. \E r \in [1..Cardinality(fit) -> fit] : SortedBy(r, Comparison(v))
  BY RoomIs, ComparisonOrders, CanBeSorted
<1>3. H!RankHosts(v) = CHOOSE r \in [1..Cardinality(fit) -> fit] : Sorted(r)
  BY HostConstants DEF H!RankHosts, Roomy
<1> HIDE DEF fit, Sorted
<1>4. H!RankHosts(v) \in [1..Cardinality(fit) -> fit] /\ Sorted(H!RankHosts(v))
  BY <1>1, <1>2, <1>3
<1>5. QED BY <1>1, <1>4 DEF fit

LEMMA HostInit == H!Init => HostInv
BY HostConstants
DEF H!Init, HostInv, HostType, KnownIsFresh, H!MeasurementFresh, H!Never

LEMMA HostStep == HostInv /\ [H!Next]_(H!vars) => HostInv'
<1> SUFFICES ASSUME HostInv, [H!Next]_(H!vars)
             PROVE  HostInv'
  OBVIOUS
<1>1. CASE H!TimePasses
  <2>1. HostType'
    BY <1>1 DEF HostInv, HostType, H!TimePasses
  <2>2. KnownIsFresh'
    <3>1. \A n \in Names :
            known'[n] = IF busy[n] # H!Never /\ age'[n] <= UsageStale
                          THEN busy[n] ELSE H!Never
      <4> TAKE n \in Names
      <4>1. /\ age[n] \in Nat /\ UsageStale \in Nat
            /\ known[n] = IF busy[n] # H!Never /\ age[n] <= UsageStale
                            THEN busy[n] ELSE H!Never
        BY HostConstants DEF HostInv, HostType, KnownIsFresh, H!MeasurementFresh
      <4>2. /\ age'[n] = IF age[n] > UsageStale THEN age[n] ELSE age[n] + 1
            /\ known'[n] = IF age[n] >= UsageStale THEN H!Never ELSE known[n]
        BY <1>1 DEF H!TimePasses
      <4>3. QED BY <4>1, <4>2
    <3>2. known' = [n \in Names |-> known'[n]] /\ busy' = busy
      BY <1>1 DEF H!TimePasses
    <3>3. QED BY <3>1, <3>2 DEF KnownIsFresh, H!MeasurementFresh
  <2>3. QED BY <2>1, <2>2 DEF HostInv
<1>2. ASSUME NEW n \in Names, NEW load \in Loads, H!Measure(n, load)
      PROVE  HostInv'
  <2>1. load \in Nat /\ load # H!Never /\ 0 <= UsageStale
    BY HostConstants DEF H!Never
  <2>2. HostType'
    BY <1>2 DEF HostInv, HostType, H!Measure
  <2>3. KnownIsFresh'
    BY <1>2, <2>1
    DEF HostInv, HostType, KnownIsFresh, H!MeasurementFresh, H!Measure
  <2>4. QED BY <2>2, <2>3 DEF HostInv
<1>3. ASSUME NEW v \in Sizes, H!Place(v)
      PROVE  HostInv'
  <2> DEFINE r == H!RankHosts(v)
             fit == Roomy(v)
  <2>1. r \in [1..Cardinality(fit) -> fit] /\ Cardinality(fit) \in Nat /\ fit \subseteq Names
    BY RankingIsSorted, RoomIs, FS_CardinalityType DEF Roomy
  <2>2. Head(r) \in fit
    <3> HIDE DEF r, fit
    <3>1. r # <<>>
      BY <1>3 DEF H!Place, r
    <3>2. r \in Seq(fit)
      BY <2>1
    <3>3. QED BY <3>1, <3>2
  <2>3. cpu[Head(r)] + v \in 0..CpuTotal
    <3>1. cpu[Head(r)] + v <= CpuTotal /\ Head(r) \in Names
      BY <2>2, RoomIs
    <3> HIDE DEF r, fit
    <3>2. \A n \in Names : cpu[n] \in Nat
      BY HostConstants DEF HostInv, HostType
    <3>3. CpuTotal \in Nat /\ v \in Nat
      BY HostConstants
    <3>4. QED BY <3>1, <3>2, <3>3
  <2>4. cpu' = [cpu EXCEPT ![Head(r)] = cpu[Head(r)] + v] /\ UNCHANGED <<busy, age, known>>
    BY <1>3 DEF H!Place
  <2> HIDE DEF r, fit
  <2>5. QED BY <2>3, <2>4 DEF HostInv, HostType, KnownIsFresh, H!MeasurementFresh
<1>4. ASSUME NEW v \in Sizes, NEW n \in Names, H!Release(n, v)
      PROVE  HostInv'
  BY <1>4, HostConstants
  DEF HostInv, HostType, KnownIsFresh, H!MeasurementFresh, H!Release
<1>5. CASE UNCHANGED H!vars
  BY <1>5 DEF H!vars, HostInv, HostType, KnownIsFresh, H!MeasurementFresh
<1>6. QED BY <1>1, <1>2, <1>3, <1>4, <1>5 DEF H!Next

(* The ranking has every host with room, once, and none without; and a     *)
(* host is never ahead of one that by today's evidence is less loaded by a *)
(* step or more, for any number of hosts, sizes and measurements.          *)
THEOREM RankingFollowsEvidence == MCSpec => []LeastLoadedFirst
<1>1. HostInv => LeastLoadedFirst
  <2> SUFFICES ASSUME HostInv, NEW v \in Sizes
               PROVE  LET r == H!RankHosts(v) IN
                      /\ {r[i] : i \in DOMAIN r} = {n \in Names : cpu[n] + v <= CpuTotal}
                      /\ Len(r) = Cardinality({r[i] : i \in DOMAIN r})
                      /\ \A i, j \in DOMAIN r :
                           i < j => H!Evidence(r[i]) < H!Evidence(r[j]) + 5
    BY HostConstants DEF LeastLoadedFirst, H!LeastLoadedFirst, H!Bucket
  <2> DEFINE r == H!RankHosts(v)
  <2>1. r \in [1..Cardinality(Roomy(v)) -> Roomy(v)] /\ SortedBy(r, Comparison(v))
    BY RankingIsSorted
  <2>2. Orders(Comparison(v), Roomy(v)) /\ IsFiniteSet(Roomy(v))
    BY ComparisonOrders, RoomIs
  <2> HIDE DEF r
  <2>3. {r[i] : i \in DOMAIN r} = Roomy(v) /\ Len(r) = Cardinality(Roomy(v))
    BY <2>1, <2>2, SortedIsComplete
  <2>4. ASSUME NEW i \in DOMAIN r, NEW j \in DOMAIN r, i < j
        PROVE  H!Evidence(r[i]) < H!Evidence(r[j]) + 5
    <3>1. r[i] \in Roomy(v) /\ r[j] \in Roomy(v) /\ <<r[i], r[j]>> \in Comparison(v)
      BY <2>1, <2>4 DEF SortedBy
    <3>2. H!Before(r[i], r[j])
      BY <3>1 DEF Comparison
    <3>3. /\ H!Evidence(r[i]) \in Nat /\ H!Load(r[i]) = H!Evidence(r[i]) \div 5
          /\ H!Evidence(r[j]) \in Nat /\ H!Load(r[j]) = H!Evidence(r[j]) \div 5
      BY <3>1, RoomIs, LoadIsStep DEF Roomy
    <3>4. H!Load(r[i]) <= H!Load(r[j])
      BY <3>2, <3>3 DEF H!Before
    <3> DEFINE a == H!Evidence(r[i])
               b == H!Evidence(r[j])
    <3>5. a \in Nat /\ b \in Nat /\ a \div 5 <= b \div 5
      BY <3>3, <3>4
    <3> HIDE DEF a, b
    <3>6. a < b + 5
      BY <3>5
    <3>7. QED BY <3>6 DEF a, b
  <2>5. QED BY <2>3, <2>4, RoomIs DEF r
<1>2. QED BY <1>1, HostInit, HostStep, PlatformAlone, PTL DEF H!Spec

-----------------------------------------------------------------------------
(* The status page: its log is in the order of time, posts end after they  *)
(* begin, and the history has a row for every unit of time.                *)

Grades == 0..4
Shown == [Components -> Grades]
LogRows == [level : Grades, at : Nat]
PostStates ==
  {"investigating", "resolved", "scheduled", "in_progress", "completed", "published"}
PostRows == [type : {"incident", "maintenance", "announcement"}, impact : Grades,
             state : PostStates, keys : SUBSET Components, from : Nat, till : Int]

PageType ==
  /\ time \in 0..Units /\ up \subseteq Hosts
  /\ manual \in [Components -> Grades \cup {P!Unset}] /\ shown \in Shown
  /\ DOMAIN tick \subseteq Components /\ \A c \in DOMAIN tick : tick[c] \in Grades
  /\ log \in [Components -> Seq(LogRows)] /\ past \in Seq(Shown)
  /\ posts \subseteq PostRows

LogIsOrdered ==
  \A c \in Components :
    /\ \A i \in 1..Len(log[c]) : log[c][i].at <= time
    /\ \A i \in 1..Len(log[c]) - 1 : log[c][i].at <= log[c][i + 1].at
PostFits(p) ==
  /\ p.state \in P!States(p.type) /\ p.from <= time
  /\ p.till # P!Unset => p.from <= p.till /\ p.till <= time

PageInv ==
  /\ PageType /\ LogIsOrdered /\ Len(past) = time
  /\ \A p \in posts : PostFits(p)

LEMMA PageSize ==
  /\ \A X : P!IsFiniteSet(X) <=> IsFiniteSet(X)
  /\ \A X : P!Cardinality(X) = Cardinality(X)
<1>1. \A X : P!IsFiniteSet(X) <=> IsFiniteSet(X)
  BY DEF P!IsFiniteSet, IsFiniteSet
<1>2. \A X : P!Cardinality(X) = Cardinality(X)
  BY DEF P!Cardinality, Cardinality
<1>3. QED BY <1>1, <1>2

LEMMA PageConstants ==
  /\ Units \in Nat /\ P!Operational = 0 /\ P!Unset = -1
  /\ Impacts \subseteq Grades /\ ByHand \subseteq Grades
  /\ Subjects \subseteq SUBSET Components
  /\ DayLength \in Nat \ {0} /\ Days \in Nat \ {0}
  /\ \A c \in Components : PageType => P!Effective(c) \in Grades
<1>1. P!DeriveCompute \in Grades
  BY DEF P!DeriveCompute, P!Operational, P!MajorOutage, P!Degraded, Grades
<1>2. \A c \in Components : PageType => P!Effective(c) \in Grades
  BY <1>1 DEF P!Effective, PageType, P!Operational, Grades
<1>3. QED
  BY <1>2, InstanceAssumptions
  DEF P!StatusAssumption, P!Operational, P!Unset, Grades

LEMMA StatesOfPosts ==
  \A type \in {"incident", "maintenance", "announcement"} : P!States(type) \subseteq PostStates
BY DEF P!States, PostStates

LEMMA PageInit == P!Init => PageInv
<1> SUFFICES ASSUME P!Init
             PROVE  PageInv
  OBVIOUS
<1>1. /\ time = 0 /\ up = Hosts /\ posts = {} /\ tick = <<>> /\ past = <<>>
      /\ log = [c \in Components |-> <<>>]
      /\ manual = [c \in Components |-> P!Unset]
      /\ shown = [c \in Components |-> P!Operational]
  BY DEF P!Init
<1>2. PageType
  BY <1>1, PageConstants DEF PageType, Shown, Grades
<1>3. QED BY <1>1, <1>2 DEF PageInv, LogIsOrdered

(* A post that is written fits: what ends now began by now.                *)
LEMMA PostWritten ==
  ASSUME PageType, NEW p \in PostRows, p.from <= time, p.till = P!Ending(p.state),
         p.state \in P!States(p.type)
  PROVE  PostFits(p)
BY DEF PageType, PostFits, P!Ending

(* What is written about one component.                                    *)
LEMMA LogGrows ==
  ASSUME PageType, NEW c \in Components, NEW e \in LogRows,
         log' = [log EXCEPT ![c] = Append(@, e)]
  PROVE  /\ log' \in [Components -> Seq(LogRows)]
         /\ \A d \in Components \ {c} : log'[d] = log[d]
         /\ Len(log[c]) \in Nat /\ Len(log'[c]) = Len(log[c]) + 1
         /\ log'[c][Len(log[c]) + 1] = e
         /\ \A i \in 1..Len(log[c]) : log'[c][i] = log[c][i]
<1> DEFINE s == log[c]
           more == Append(s, e)
<1>1. log \in [Components -> Seq(LogRows)] /\ s \in Seq(LogRows)
  BY DEF PageType
<1>2. log'[c] = more /\ \A d \in Components \ {c} : log'[d] = log[d]
  BY <1>1
<1>3. /\ more \in Seq(LogRows) /\ Len(s) \in Nat /\ Len(more) = Len(s) + 1
      /\ more[Len(s) + 1] = e /\ \A i \in 1..Len(s) : more[i] = s[i]
  <2> HIDE DEF s
  <2>1. QED BY <1>1
<1> HIDE DEF more
<1>4. log' \in [Components -> Seq(LogRows)]
  BY <1>1, <1>2, <1>3 DEF more
<1>5. QED BY <1>2, <1>3, <1>4

LEMMA PageStep == PageInv /\ [P!Next]_(P!vars) => PageInv'
<1> SUFFICES ASSUME PageInv, [P!Next]_(P!vars)
             PROVE  PageInv'
  OBVIOUS
<1> USE DEF PageInv
<1>t. time \in Nat
  BY PageConstants DEF PageType
<1>1. CASE P!ReadStatuses
  <2>1. /\ tick' = [c \in Components |-> P!Effective(c)]
        /\ UNCHANGED <<time, up, manual, posts, log, shown, past>>
    BY <1>1 DEF P!ReadStatuses
  <2>2. DOMAIN tick' = Components /\ \A c \in Components : tick'[c] \in Grades
    BY <2>1, PageConstants
  <2>3. PageType'
    BY <2>1, <2>2 DEF PageType
  <2>4. QED BY <2>1, <2>3 DEF LogIsOrdered, PostFits
<1>2. CASE P!ClockTicks
  <2>1. /\ time < Units /\ time' = time + 1 /\ past' = Append(past, shown)
        /\ UNCHANGED <<up, manual, posts, log, tick, shown>>
    BY <1>2 DEF P!ClockTicks
  <2>2. past' \in Seq(Shown) /\ Len(past') = time'
    BY <2>1 DEF PageType
  <2>3. time' \in 0..Units
    BY <1>t, <2>1, PageConstants
  <2>4. PageType'
    BY <2>1, <2>2, <2>3 DEF PageType
  <2>5. LogIsOrdered'
    <3>1. \A c \in Components : \A i \in 1..Len(log[c]) : log[c][i].at \in Nat
      <4>1. \A c \in Components : \A i \in 1..Len(log[c]) : log[c][i] \in LogRows
        BY DEF PageType
      <4>2. QED BY <4>1 DEF LogRows
    <3>2. QED BY <1>t, <2>1, <3>1 DEF LogIsOrdered
  <2>6. \A p \in posts : PostFits(p)'
    BY <1>t, <2>1 DEF PostFits, PageType, PostRows
  <2>7. QED BY <2>1, <2>2, <2>4, <2>5, <2>6
<1>3. ASSUME NEW c \in Components, P!RecordOne(c)
      PROVE  PageInv'
  <2> DEFINE e == [level |-> tick[c], at |-> time]
  <2>1. /\ c \in DOMAIN tick /\ (log' = log \/ log' = [log EXCEPT ![c] = Append(@, e)])
        /\ shown' = [shown EXCEPT ![c] = tick[c]]
        /\ tick' = [d \in DOMAIN tick \ {c} |-> tick[d]]
        /\ UNCHANGED <<time, up, manual, posts, past>>
    BY <1>3 DEF P!RecordOne
  <2>2. e \in LogRows /\ e.at = time
    BY <1>t, <2>1 DEF PageType, LogRows
  <2> HIDE DEF e
  <2>3. log' \in [Components -> Seq(LogRows)] /\ LogIsOrdered'
    <3>1. CASE log' = log
      BY <2>1, <3>1 DEF PageType, LogIsOrdered
    <3>2. CASE log' = [log EXCEPT ![c] = Append(@, e)]
      <4>1. /\ log' \in [Components -> Seq(LogRows)]
            /\ \A d \in Components \ {c} : log'[d] = log[d]
            /\ Len(log[c]) \in Nat /\ Len(log'[c]) = Len(log[c]) + 1
            /\ log'[c][Len(log[c]) + 1] = e
            /\ \A i \in 1..Len(log[c]) : log'[c][i] = log[c][i]
        BY <2>2, <3>2, LogGrows
      <4>2. \A i \in 1..Len(log'[c]) : i = Len(log[c]) + 1 \/ i \in 1..Len(log[c])
        BY <4>1
      <4>3. \A i \in 1..Len(log'[c]) : log'[c][i].at <= time
        BY <1>t, <2>2, <4>1, <4>2 DEF LogIsOrdered
      <4>4. ASSUME NEW i \in 1..Len(log'[c]) - 1
            PROVE  log'[c][i].at <= log'[c][i + 1].at
        <5>1. CASE i = Len(log[c])
          BY <2>2, <4>1, <5>1 DEF LogIsOrdered
        <5>2. CASE i # Len(log[c])
          <6>1. i \in 1..Len(log[c]) - 1 /\ i + 1 \in 1..Len(log[c]) /\ i \in 1..Len(log[c])
            BY <4>1, <5>2
          <6>2. QED BY <4>1, <6>1 DEF LogIsOrdered
        <5>3. QED BY <5>1, <5>2
      <4>5. ASSUME NEW d \in Components
            PROVE  /\ \A i \in 1..Len(log'[d]) : log'[d][i].at <= time
                   /\ \A i \in 1..Len(log'[d]) - 1 : log'[d][i].at <= log'[d][i + 1].at
        <5>1. CASE d = c
          BY <4>3, <4>4, <5>1
        <5>2. CASE d # c
          BY <4>1, <5>2 DEF LogIsOrdered
        <5>3. QED BY <5>1, <5>2
      <4>6. QED BY <2>1, <4>1, <4>5 DEF LogIsOrdered
    <3>3. QED BY <2>1, <3>1, <3>2
  <2>4. PageType'
    BY <2>1, <2>3 DEF PageType, Shown
  <2>5. QED BY <2>1, <2>3, <2>4 DEF PostFits
<1>4. ASSUME NEW h \in Hosts, P!HostChanges(h)
      PROVE  PageInv'
  BY <1>4 DEF P!HostChanges, PageType, LogIsOrdered, PostFits
<1>5. ASSUME NEW c \in Components, NEW level \in Grades \cup {P!Unset}, P!SetManual(c, level)
      PROVE  PageInv'
  BY <1>5 DEF P!SetManual, PageType, LogIsOrdered, PostFits
<1>6. ASSUME UNCHANGED <<time, up, manual, tick, log, shown, past>>,
             NEW p \in PostRows, PostFits(p), posts' = posts \cup {p}
      PROVE  PageInv'
  BY <1>6 DEF PageType, LogIsOrdered, PostFits
<1> DEFINE Replaces(p, q) ==
             /\ posts' = (posts \ {p}) \cup {q}
             /\ UNCHANGED <<time, up, manual, tick, log, shown, past>>
<1>7. ASSUME NEW p \in posts, NEW q \in PostRows, PostFits(q), Replaces(p, q)
      PROVE  PageInv'
  BY <1>7 DEF PageType, LogIsOrdered, PostFits
<1>8. ASSUME NEW type \in {"incident", "maintenance", "announcement"},
             NEW state \in P!States(type), NEW impact \in Impacts, NEW keys \in Subjects,
             P!Publish(type, impact, state, keys)
      PROVE  PageInv'
  <2> DEFINE new == [type |-> type, impact |-> impact, state |-> state,
                     keys |-> keys, from |-> time, till |-> P!Ending(state)]
  <2>1. /\ posts' = posts \cup {new}
        /\ UNCHANGED <<time, up, manual, tick, log, shown, past>>
    BY <1>8 DEF P!Publish
  <2>2. P!Ending(state) \in Int
    BY <1>t, PageConstants DEF P!Ending
  <2>3. state \in PostStates /\ impact \in Grades /\ keys \in SUBSET Components
    BY StatesOfPosts, PageConstants
  <2>4. /\ new \in PostRows /\ new.from <= time /\ new.till = P!Ending(new.state)
        /\ new.state \in P!States(new.type)
    BY <1>t, <2>2, <2>3 DEF PostRows
  <2> HIDE DEF new
  <2>5. PostFits(new)
    BY <2>4, PostWritten
  <2>6. QED BY <1>6, <2>1, <2>4, <2>5
<1>9. ASSUME NEW p \in posts, P!DeletePost(p)
      PROVE  PageInv'
  <2>1. posts' = posts \ {p} /\ UNCHANGED <<time, up, manual, tick, log, shown, past>>
    BY <1>9 DEF P!DeletePost
  <2>2. QED BY <2>1 DEF PageType, LogIsOrdered, PostFits
<1>10. ASSUME NEW p \in posts, NEW impact \in Impacts, NEW keys \in Subjects,
              NEW state \in P!States(p.type), P!MovePost(p, impact, keys, state)
       PROVE  PageInv'
  <2> DEFINE Moved(i, k, s, t) == [p EXCEPT !.impact = i, !.keys = k, !.state = s, !.till = t]
             new == Moved(impact, keys, state, P!Ending(state))
  <2>1. Replaces(p, new)
    BY <1>10 DEF P!MovePost
  <2>2. p \in PostRows
    BY DEF PageType
  <2>3. ASSUME NEW i \in Grades, NEW k \in SUBSET Components, NEW s \in PostStates, NEW t \in Int
        PROVE  /\ Moved(i, k, s, t) \in PostRows
               /\ Moved(i, k, s, t).state = s /\ Moved(i, k, s, t).till = t
               /\ Moved(i, k, s, t).type = p.type /\ Moved(i, k, s, t).from = p.from
    BY <2>2 DEF PostRows
  <2>4. P!Ending(state) \in Int
    BY <1>t, PageConstants DEF P!Ending
  <2>5. state \in PostStates /\ impact \in Grades /\ keys \in SUBSET Components
    BY <2>2, StatesOfPosts, PageConstants DEF PostRows
  <2> HIDE DEF Moved
  <2>6. /\ new \in PostRows /\ new.from <= time /\ new.till = P!Ending(new.state)
        /\ new.state \in P!States(new.type)
    BY <2>3, <2>4, <2>5 DEF PostFits
  <2> HIDE DEF new, Replaces
  <2>7. PostFits(new)
    BY <2>6, PostWritten
  <2>8. QED BY <1>7, <2>1, <2>6, <2>7
<1>11. ASSUME NEW p \in posts, NEW impact \in Impacts, NEW keys \in Subjects,
              P!EditPost(p, impact, keys)
       PROVE  PageInv'
  <2> DEFINE new == [p EXCEPT !.impact = impact, !.keys = keys]
  <2>1. Replaces(p, new)
    BY <1>11 DEF P!EditPost
  <2>2. p \in PostRows /\ PostFits(p)
    BY DEF PageType
  <2>3. impact \in Grades /\ keys \in SUBSET Components
    BY PageConstants
  <2>4. /\ new \in PostRows /\ new.state = p.state /\ new.type = p.type
        /\ new.from = p.from /\ new.till = p.till
    BY <2>2, <2>3 DEF PostRows
  <2> HIDE DEF new, Replaces
  <2>5. PostFits(new)
    BY <2>2, <2>4 DEF PostFits
  <2>6. QED BY <1>7, <2>1, <2>4, <2>5
<1>12. CASE UNCHANGED P!vars
  BY <1>12 DEF P!vars, PageType, LogIsOrdered, PostFits
<1>13. \A level \in ByHand \cup {P!Unset} : level \in Grades \cup {P!Unset}
  BY PageConstants
<1>14. QED
  BY <1>1, <1>2, <1>3, <1>4, <1>5, <1>8, <1>9, <1>10, <1>11, <1>12, <1>13 DEF P!Next

LEMMA PageTyped == MCSpec => []P!TypeOK
<1>1. PageInv => P!TypeOK
  BY DEF PageInv, PageType, LogIsOrdered, PostFits, P!TypeOK
<1>2. QED BY <1>1, PlatformAlone, PageInit, PageStep, PTL DEF P!Spec

-----------------------------------------------------------------------------
(* The length of a union of spans, as the page works it out.               *)

(* Induction on the naturals, about a set of them instead of a predicate:  *)
(* were a number missing from the set, so would be one with no predecessor.*)
LEMMA Induction ==
  ASSUME NEW K \in SUBSET Nat, 0 \in K, \A n \in K : n + 1 \in K
  PROVE  K = Nat
<1> SUFFICES ASSUME K # Nat
             PROVE  FALSE
  OBVIOUS
<1> DEFINE R == OpToRel(<, Nat)
           Others == Nat \ K
<1>1. Others # {} /\ Others \subseteq Nat
  OBVIOUS
<1>2. IsWellFoundedOn(R, Nat)
  BY NatLessThanWellFounded
<1> HIDE DEF Others
<1>3. PICK x \in Others : \A y \in Others : ~ (<<y, x>> \in R)
  BY <1>1, <1>2, WFMin
<1>4. \A y \in Others : ~ (y < x)
  BY <1>1, <1>3 DEF OpToRel
<1>5. x \in Nat /\ x \notin K /\ x # 0
  BY DEF Others
<1>6. x - 1 \in Nat /\ x - 1 \notin K
  BY <1>5
<1>7. QED BY <1>4, <1>6 DEF Others

(* The sweep of unionLength over spans in some order, step by step.        *)
Spans == [start : Nat, end : Nat]
NoSpan == [total |-> 0, start |-> -1, end |-> -1]
Sweeps(acc, q, k) ==
  acc = [i \in 0..k |-> IF i = 0 THEN NoSpan ELSE P!UnionStep(acc[i - 1], q[i])]

(* The sweep is defined however many spans there are.                      *)
LEMMA SweepExists ==
  ASSUME NEW n \in Nat, NEW q
  PROVE  \E acc : Sweeps(acc, q, n)
<1> DEFINE K == {k \in Nat : \E acc : Sweeps(acc, q, k)}
<1>1. 0 \in K
  <2> DEFINE acc == [i \in 0..0 |-> NoSpan]
  <2>1. Sweeps(acc, q, 0)
    BY DEF Sweeps
  <2>2. QED BY <2>1
<1>2. ASSUME NEW k \in K
      PROVE  k + 1 \in K
  <2>1. PICK acc : Sweeps(acc, q, k)
    OBVIOUS
  <2> DEFINE more == [i \in 0..k + 1 |-> IF i <= k THEN acc[i]
                                         ELSE P!UnionStep(acc[k], q[k + 1])]
             Value(i) == IF i = 0 THEN NoSpan ELSE P!UnionStep(more[i - 1], q[i])
  <2>2. k \in Nat
    OBVIOUS
  <2>3. \A i \in 0..k : acc[i] = IF i = 0 THEN NoSpan ELSE P!UnionStep(acc[i - 1], q[i])
    <3> DEFINE g == [i \in 0..k |-> IF i = 0 THEN NoSpan ELSE P!UnionStep(acc[i - 1], q[i])]
    <3>1. acc = g
      BY <2>1 DEF Sweeps
    <3>2. \A i \in 0..k : g[i] = IF i = 0 THEN NoSpan ELSE P!UnionStep(acc[i - 1], q[i])
      OBVIOUS
    <3> HIDE DEF g
    <3>3. QED BY <3>1, <3>2
  <2>4. ASSUME NEW i \in 0..k + 1
        PROVE  more[i] = Value(i)
    <3>1. CASE i <= k
      <4>1. i \in 0..k /\ more[i] = acc[i]
        BY <2>2, <3>1
      <4>2. i # 0 => more[i - 1] = acc[i - 1]
        BY <2>2, <3>1
      <4> HIDE DEF more
      <4>3. QED BY <2>3, <4>1, <4>2
    <3>2. CASE i > k
      <4>1. i = k + 1 /\ i - 1 = k /\ i # 0 /\ k <= k /\ k \in 0..k + 1
        BY <2>2, <3>2
      <4>2. more[i] = P!UnionStep(acc[k], q[i]) /\ more[i - 1] = acc[k]
        BY <2>2, <4>1
      <4> HIDE DEF more
      <4>3. QED BY <4>1, <4>2
    <3>3. QED BY <2>2, <3>1, <3>2
  <2>5. DOMAIN more = 0..k + 1 /\ more = [i \in 0..k + 1 |-> more[i]]
    OBVIOUS
  <2> HIDE DEF more
  <2>6. more = [i \in 0..k + 1 |-> Value(i)]
    BY <2>4, <2>5
  <2>7. Sweeps(more, q, k + 1)
    BY <2>6 DEF Sweeps
  <2>8. QED BY <2>2, <2>7
<1> HIDE DEF K
<1>3. K = Nat
  <2>1. K \in SUBSET Nat
    BY DEF K
  <2>2. QED BY <1>1, <1>2, <2>1, Induction
<1>4. QED BY <1>3 DEF K

(* Spans have a length, and can be put in the order of their starts.       *)
SpanUnits(s) == s.start..s.end - 1
IsSpan(s) == s \in Spans /\ s.start < s.end
ByStart(q, Z) == \A i, j \in 1..Cardinality(Z) :
                   i < j => q[i] # q[j] /\ q[i].start <= q[j].start

LEMMA SpansCanBeSorted ==
  ASSUME NEW Z, IsFiniteSet(Z), \A s \in Z : IsSpan(s)
  PROVE  \E q \in [1..Cardinality(Z) -> Z] : ByStart(q, Z)
<1> DEFINE R == {p \in Z \X Z : \/ p[1].start < p[2].start
                                \/ p[1].start = p[2].start /\ p[1].end < p[2].end}
           n == Cardinality(Z)
<1>1. \A s \in Z : s = [start |-> s.start, end |-> s.end] /\ s.start \in Nat /\ s.end \in Nat
  BY DEF IsSpan, Spans
<1>2. \A x, y \in Z : <<x, y>> \in R <=> \/ x.start < y.start
                                         \/ x.start = y.start /\ x.end < y.end
  OBVIOUS
<1> HIDE DEF R
<1>3. \A x, y \in Z : x # y => x.start # y.start \/ x.end # y.end
  BY <1>1
<1>4. Orders(R, Z)
  BY <1>1, <1>2, <1>3 DEF Orders
<1>5. PICK q \in [1..n -> Z] : SortedBy(q, R)
  BY <1>4, CanBeSorted
<1>6. n \in Nat
  BY FS_CardinalityType
<1> HIDE DEF n
<1>7. ASSUME NEW i \in 1..n, NEW j \in 1..n, i < j
      PROVE  q[i] # q[j] /\ q[i].start <= q[j].start
  <2>1. q[i] \in Z /\ q[j] \in Z /\ <<q[i], q[j]>> \in R
    BY <1>5, <1>7 DEF SortedBy
  <2>2. q[i] # q[j]
    BY <1>4, <2>1 DEF Orders
  <2>3. q[i].start <= q[j].start
    BY <1>1, <1>2, <2>1
  <2>4. QED BY <2>2, <2>3
<1>8. QED BY <1>5, <1>7 DEF ByStart, n

(* What the sweep has covered, and what it knows of it.                    *)
Covered(q, k) == UNION {SpanUnits(q[i]) : i \in 1..k}
Behind(q, k, a) == {x \in Covered(q, k) : x < a.start}
Tracks(a, q, k) ==
  /\ a \in [total : Nat, start : Int, end : Int] /\ -1 <= a.start /\ a.start <= a.end
  /\ k = 0 => a.end = -1
  /\ k > 0 => a.start <= q[k].start
  /\ IsFiniteSet(Behind(q, k, a)) /\ a.total = Cardinality(Behind(q, k, a))
  /\ Covered(q, k) = Behind(q, k, a) \cup (a.start..a.end - 1)

(* The number of units from x up to y.                                     *)
LEMMA RunLength ==
  ASSUME NEW x \in Int, NEW y \in Int, x <= y
  PROVE  IsFiniteSet(x..y - 1) /\ Cardinality(x..y - 1) = y - x
<1> DEFINE z == y - 1
<1>1. z \in Int /\ (x > z => y - x = 0) /\ (x <= z => z - x + 1 = y - x)
  OBVIOUS
<1> HIDE DEF z
<1>2. IsFiniteSet(x..z) /\ Cardinality(x..z) = IF x > z THEN 0 ELSE z - x + 1
  BY <1>1, FS_Interval
<1>3. IsFiniteSet(x..z) /\ Cardinality(x..z) = y - x
  BY <1>1, <1>2
<1>4. QED BY <1>3 DEF z

(* Two runs that meet are one.                                             *)
LEMMA RunsJoin ==
  ASSUME NEW x \in Int, NEW y \in Int, NEW u \in Int, NEW v \in Int, NEW e \in {y, v},
         x <= u, u <= y, x <= y, u <= v, y <= e, v <= e
  PROVE  (x..y - 1) \cup (u..v - 1) = x..e - 1
<1>1. \A i \in Int : (x <= i /\ i <= y - 1) \/ (u <= i /\ i <= v - 1)
                       <=> x <= i /\ i <= e - 1
  OBVIOUS
<1>2. QED BY <1>1

(* A step of the sweep.                                                    *)
LEMMA SweepStep ==
  ASSUME NEW k \in Nat, NEW q, NEW a, Tracks(a, q, k), IsSpan(q[k + 1]),
         k > 0 => IsSpan(q[k]) /\ q[k].start <= q[k + 1].start
  PROVE  Tracks(P!UnionStep(a, q[k + 1]), q, k + 1)
<1> DEFINE s == q[k + 1]
           b == P!UnionStep(a, s)
<1>1. s.start \in Nat /\ s.end \in Nat /\ s.start < s.end
  BY DEF IsSpan, Spans
<1>2. a.start \in Int /\ a.end \in Int /\ a.total \in Nat /\ -1 <= a.start /\ a.start <= a.end
  BY DEF Tracks
<1>3. a.start <= s.start
  <2>1. CASE k = 0
    BY <1>1, <1>2, <2>1 DEF Tracks
  <2>2. CASE k > 0
    <3>1. q[k].start \in Nat
      BY <2>2 DEF IsSpan, Spans
    <3>2. QED BY <1>1, <1>2, <2>2, <3>1 DEF Tracks
  <2>3. QED BY <2>1, <2>2
<1>4. Covered(q, k + 1) = Covered(q, k) \cup SpanUnits(s)
  <2>1. 1..k + 1 = (1..k) \cup {k + 1}
    OBVIOUS
  <2>2. QED BY <2>1 DEF Covered
<1>5. Covered(q, k) = Behind(q, k, a) \cup (a.start..a.end - 1)
  BY DEF Tracks
<1>6. \A x \in Behind(q, k, a) : x \in Covered(q, k) /\ x < a.start
  BY DEF Behind
<1>7. \A x \in Covered(q, k) : x \in Int
  <2>1. \A i \in 1..k : SpanUnits(q[i]) \subseteq Int
    BY DEF SpanUnits
  <2>2. QED BY <2>1 DEF Covered
<1>8. SpanUnits(s) = s.start..s.end - 1
  BY DEF SpanUnits
<1>f. IsFiniteSet(Behind(q, k, a)) /\ a.total = Cardinality(Behind(q, k, a))
  BY DEF Tracks
<1> HIDE DEF s
<1>9. CASE s.start > a.end
  <2>1. /\ b = [total |-> a.total + a.end - a.start, start |-> s.start, end |-> s.end]
    BY <1>9 DEF P!UnionStep
  <2>2. b.start = s.start /\ b.end = s.end /\ b.total = a.total + a.end - a.start
    BY <2>1
  <2>3. b \in [total : Nat, start : Int, end : Int]
    BY <1>1, <1>2, <2>1
  <2> HIDE DEF b
  <2>4. Behind(q, k + 1, b) = Covered(q, k)
    <3>1. \A x \in Covered(q, k) : x < s.start
      BY <1>1, <1>2, <1>5, <1>6, <1>7, <1>9
    <3>2. \A x \in SpanUnits(s) : ~ (x < s.start)
      BY <1>1, <1>8
    <3>3. QED BY <1>4, <2>2, <3>1, <3>2 DEF Behind
  <2>5. IsFiniteSet(a.start..a.end - 1) /\ Cardinality(a.start..a.end - 1) = a.end - a.start
    BY <1>2, RunLength
  <2>6. Behind(q, k, a) \cap (a.start..a.end - 1) = {}
    BY <1>2, <1>6
  <2>7. IsFiniteSet(Covered(q, k)) /\ Cardinality(Covered(q, k)) = a.total + a.end - a.start
    <3>1. Cardinality({}) = 0
      BY FS_EmptySet
    <3> DEFINE old == Behind(q, k, a)
               run == a.start..a.end - 1
    <3>2. /\ IsFiniteSet(old \cup run)
          /\ Cardinality(old \cup run) = Cardinality(old) + Cardinality(run) - Cardinality(old \cap run)
      <4> HIDE DEF old, run
      <4>1. IsFiniteSet(old) /\ IsFiniteSet(run)
        BY <1>f, <2>5 DEF old, run
      <4>2. QED BY <4>1, FS_Union
    <3>3. Covered(q, k) = old \cup run
      BY <1>5
    <3>4. Cardinality(old) = a.total /\ Cardinality(run) = a.end - a.start
          /\ Cardinality(old \cap run) = 0
      BY <1>f, <2>5, <2>6, <3>1
    <3> HIDE DEF old, run
    <3>5. QED BY <1>2, <3>2, <3>3, <3>4
  <2>8. Covered(q, k + 1) = Behind(q, k + 1, b) \cup (b.start..b.end - 1)
    BY <1>4, <1>8, <2>2, <2>4
  <2>9. Tracks(b, q, k + 1)
    <3>1. -1 <= b.start /\ b.start <= b.end
      BY <1>1, <2>2
    <3>2. b.start <= q[k + 1].start /\ k + 1 # 0
      BY <1>1, <2>2 DEF s
    <3>3. IsFiniteSet(Behind(q, k + 1, b)) /\ b.total = Cardinality(Behind(q, k + 1, b))
      BY <2>2, <2>4, <2>7
    <3>4. QED BY <2>3, <2>8, <3>1, <3>2, <3>3 DEF Tracks
  <2>10. QED BY <2>9 DEF b, s
<1>10. CASE ~ (s.start > a.end)
  <2> DEFINE e == IF a.end < s.end THEN s.end ELSE a.end
  <2>1. b = [a EXCEPT !.end = e]
    BY <1>10 DEF P!UnionStep, P!Larger
  <2>2. e \in Int /\ a.end <= e /\ s.end <= e /\ e \in {a.end, s.end}
    BY <1>1, <1>2
  <2> HIDE DEF e
  <2>3. /\ b.start = a.start /\ b.end = e /\ b.total = a.total
        /\ b \in [total : Nat, start : Int, end : Int]
    BY <2>1, <2>2 DEF Tracks
  <2> HIDE DEF b
  <2>4. (a.start..a.end - 1) \cup SpanUnits(s) = a.start..e - 1
    <3>1. s.start <= a.end /\ s.start <= s.end
      BY <1>1, <1>2, <1>10
    <3>2. QED BY <1>1, <1>2, <1>3, <1>8, <2>2, <3>1, RunsJoin
  <2>5. Behind(q, k + 1, b) = Behind(q, k, a)
    <3>1. \A x \in SpanUnits(s) : ~ (x < a.start)
      BY <1>1, <1>2, <1>3, <1>8
    <3>2. QED BY <1>4, <2>3, <3>1 DEF Behind
  <2>6. Covered(q, k + 1) = Behind(q, k + 1, b) \cup (b.start..b.end - 1)
    BY <1>4, <1>5, <2>3, <2>4, <2>5
  <2>7. k # 0
    BY <1>1, <1>10 DEF Tracks
  <2>8. Tracks(b, q, k + 1)
    <3>1. -1 <= b.start /\ b.start <= b.end
      BY <1>1, <1>2, <2>2, <2>3
    <3>2. b.start <= q[k + 1].start /\ k + 1 # 0
      BY <1>3, <2>3 DEF s
    <3>3. IsFiniteSet(Behind(q, k + 1, b)) /\ b.total = Cardinality(Behind(q, k + 1, b))
      BY <1>f, <2>3, <2>5
    <3>4. QED BY <2>3, <2>6, <3>1, <3>2, <3>3 DEF Tracks
  <2>9. QED BY <2>8 DEF b, s
<1>11. QED BY <1>9, <1>10

(* unionLength counts every unit that one of the spans covers, once.       *)
LEMMA UnionIsCounted ==
  ASSUME NEW Z, IsFiniteSet(Z), \A s \in Z : IsSpan(s)
  PROVE  P!UnionLength(Z) = Cardinality(UNION {SpanUnits(s) : s \in Z})
<1> DEFINE n == P!Cardinality(Z)
           q == CHOOSE s \in [1..n -> Z] :
                  \A i, j \in 1..n : i < j => s[i] # s[j] /\ s[i].start <= s[j].start
           acc == CHOOSE f : Sweeps(f, q, n)
<1>0. n = Cardinality(Z)
  BY PageSize
<1>1. n \in Nat
  BY <1>0, FS_CardinalityType
<1>2. q \in [1..n -> Z] /\ ByStart(q, Z)
  <2>1. PICK s \in [1..n -> Z] : ByStart(s, Z)
    BY <1>0, SpansCanBeSorted
  <2>2. \A i, j \in 1..n : i < j => s[i] # s[j] /\ s[i].start <= s[j].start
    BY <1>0, <2>1 DEF ByStart
  <2>3. /\ q \in [1..n -> Z]
        /\ \A i, j \in 1..n : i < j => q[i] # q[j] /\ q[i].start <= q[j].start
    BY <2>2
  <2>4. QED BY <1>0, <2>3 DEF ByStart
<1>3. P!UnionLength(Z) = acc[n].total + acc[n].end - acc[n].start
  BY DEF P!UnionLength, Sweeps, NoSpan
<1> HIDE DEF q, n
<1>4. Sweeps(acc, q, n)
  BY <1>1, SweepExists
<1> HIDE DEF acc
<1>5. \A i \in 0..n : acc[i] = IF i = 0 THEN NoSpan ELSE P!UnionStep(acc[i - 1], q[i])
  <2> DEFINE g == [i \in 0..n |-> IF i = 0 THEN NoSpan ELSE P!UnionStep(acc[i - 1], q[i])]
  <2>1. acc = g
    BY <1>4 DEF Sweeps
  <2>2. \A i \in 0..n : g[i] = IF i = 0 THEN NoSpan ELSE P!UnionStep(acc[i - 1], q[i])
    OBVIOUS
  <2> HIDE DEF g
  <2>3. QED BY <2>1, <2>2
<1> DEFINE K == {k \in Nat : k <= n => Tracks(acc[k], q, k)}
<1>6. 0 \in K
  <2>1. acc[0] = NoSpan
    BY <1>1, <1>5
  <2>2. Covered(q, 0) = {} /\ Behind(q, 0, NoSpan) = {}
    BY DEF Covered, Behind
  <2>3. IsFiniteSet({}) /\ Cardinality({}) = 0
    BY FS_EmptySet
  <2>4. Tracks(NoSpan, q, 0)
    BY <2>2, <2>3 DEF Tracks, NoSpan
  <2>5. QED BY <2>1, <2>4
<1>7. ASSUME NEW k \in K
      PROVE  k + 1 \in K
  <2> SUFFICES ASSUME k + 1 <= n
               PROVE  Tracks(acc[k + 1], q, k + 1)
    OBVIOUS
  <2>1. k \in Nat /\ k <= n /\ k + 1 \in 1..n /\ k + 1 \in 0..n /\ k + 1 # 0 /\ k + 1 - 1 = k
    BY <1>1
  <2>2. acc[k + 1] = P!UnionStep(acc[k], q[k + 1])
    BY <1>5, <2>1
  <2>3. IsSpan(q[k + 1])
    BY <1>2, <2>1
  <2>4. k > 0 => IsSpan(q[k]) /\ q[k].start <= q[k + 1].start
    <3> SUFFICES ASSUME k > 0
                 PROVE  IsSpan(q[k]) /\ q[k].start <= q[k + 1].start
      OBVIOUS
    <3>1. k \in 1..n /\ k < k + 1
      BY <1>1, <2>1
    <3>2. QED BY <1>0, <1>2, <2>1, <3>1 DEF ByStart
  <2>5. Tracks(acc[k], q, k)
    BY <2>1
  <2>6. QED BY <2>1, <2>2, <2>3, <2>4, <2>5, SweepStep
<1>8. Tracks(acc[n], q, n)
  <2>1. K \in SUBSET Nat
    OBVIOUS
  <2> HIDE DEF K
  <2>2. K = Nat
    BY <1>6, <1>7, <2>1, Induction
  <2>3. n \in K
    BY <1>1, <2>2
  <2>4. QED BY <1>1, <2>3 DEF K
<1>9. {q[i] : i \in 1..n} = Z
  <2>1. ASSUME NEW i \in 1..n, NEW j \in 1..n, q[i] = q[j]
        PROVE  i = j
    <3>1. ~ (i < j) /\ ~ (j < i)
      BY <1>0, <1>2, <2>1 DEF ByStart
    <3>2. QED BY <1>1, <3>1
  <2>2. q \in Injection(1..n, Z)
    BY <1>2, <2>1 DEF Injection, IsInjective
  <2>3. IsFiniteSet(1..n) /\ Cardinality(1..n) = n
    BY <1>1, FS_Interval
  <2>4. q \in Surjection(1..n, Z)
    BY <1>0, <2>2, <2>3, FS_Injection
  <2>5. QED BY <2>4 DEF Surjection
<1>10. Covered(q, n) = UNION {SpanUnits(s) : s \in Z}
  BY <1>9 DEF Covered
<1>11. Cardinality(Covered(q, n)) = acc[n].total + acc[n].end - acc[n].start
  <2> DEFINE a == acc[n]
             old == Behind(q, n, a)
             run == a.start..a.end - 1
  <2>1. /\ a.total \in Nat /\ a.start \in Int /\ a.end \in Int /\ a.start <= a.end
        /\ IsFiniteSet(old) /\ Cardinality(old) = a.total /\ Covered(q, n) = old \cup run
    BY <1>8 DEF Tracks
  <2>2. \A x \in old : x < a.start
    BY DEF Behind
  <2>3. IsFiniteSet(run) /\ Cardinality(run) = a.end - a.start
    BY <2>1, RunLength
  <2>4. old \cap run = {}
    BY <2>1, <2>2
  <2>5. Cardinality({}) = 0
    BY FS_EmptySet
  <2> HIDE DEF old, run
  <2>6. Cardinality(old \cup run) = Cardinality(old) + Cardinality(run) - Cardinality(old \cap run)
    BY <2>1, <2>3, FS_Union
  <2> HIDE DEF a
  <2>7. Cardinality(Covered(q, n)) = Cardinality(old \cup run) /\ Cardinality(old \cap run) = 0
    BY <2>1, <2>4, <2>5
  <2>8. Cardinality(Covered(q, n)) = a.total + (a.end - a.start) - 0
    BY <2>1, <2>3, <2>6, <2>7
  <2>9. Cardinality(Covered(q, n)) = a.total + a.end - a.start
    BY <2>1, <2>8
  <2>10. QED BY <2>9 DEF a
<1>12. QED BY <1>3, <1>10, <1>11

-----------------------------------------------------------------------------
(* What the page tells is what happened.                                   *)

(* An event of the log stands until the next one of its component.         *)
Until(c, i) == IF i < Len(log[c]) THEN log[c][i + 1].at ELSE time
Covers(c, i, t) == log[c][i].at <= t /\ t < Until(c, i)
Newest(c) == IF Len(log[c]) = 0 THEN 0 ELSE log[c][Len(log[c])].level

(* The log tells what the ticks recorded: in every unit, the level of the  *)
(* event that stands, and nothing where none does.                         *)
Tells(c, t) ==
  /\ \A i \in 1..Len(log[c]) : Covers(c, i, t) => past[t + 1][c] = log[c][i].level
  /\ past[t + 1][c] # 0 => \E i \in 1..Len(log[c]) : Covers(c, i, t)
LogTells ==
  \A c \in Components : shown[c] = Newest(c) /\ \A t \in 0..time - 1 : Tells(c, t)

(* What is in the log, and that nothing in it lies in the future.          *)
LEMMA EventTypes ==
  ASSUME PageInv, NEW c \in Components
  PROVE  /\ Len(log[c]) \in Nat
         /\ \A i \in 1..Len(log[c]) :
              log[c][i] \in LogRows /\ log[c][i].level \in Grades /\ log[c][i].at \in Nat
                /\ log[c][i].at <= time
         /\ \A i \in 1..Len(log[c]) : Until(c, i) \in Nat /\ Until(c, i) <= time
<1>1. log[c] \in Seq(LogRows) /\ time \in Nat
  BY PageConstants DEF PageInv, PageType
<1>2. Len(log[c]) \in Nat /\ \A i \in 1..Len(log[c]) : log[c][i] \in LogRows
  BY <1>1
<1>3. \A i \in 1..Len(log[c]) : log[c][i].level \in Grades /\ log[c][i].at \in Nat
  BY <1>2 DEF LogRows
<1>4. \A i \in 1..Len(log[c]) : log[c][i].at <= time
  BY DEF PageInv, LogIsOrdered
<1>5. ASSUME NEW i \in 1..Len(log[c])
      PROVE  Until(c, i) \in Nat /\ Until(c, i) <= time
  <2>1. CASE i < Len(log[c])
    BY <1>2, <1>3, <1>4, <2>1 DEF Until
  <2>2. CASE ~ (i < Len(log[c]))
    BY <1>1, <2>2 DEF Until
  <2>3. QED BY <2>1, <2>2
<1>6. QED BY <1>2, <1>3, <1>4, <1>5

LEMMA LogTellsInit == P!Init => LogTells
<1> SUFFICES ASSUME P!Init
             PROVE  LogTells
  OBVIOUS
<1>1. /\ time = 0 /\ log = [c \in Components |-> <<>>]
      /\ shown = [c \in Components |-> P!Operational]
  BY DEF P!Init
<1>2. \A c \in Components : Len(log[c]) = 0 /\ shown[c] = 0
  BY <1>1, PageConstants
<1>3. 0..time - 1 = {}
  BY <1>1
<1>4. QED BY <1>2, <1>3 DEF LogTells, Newest

(* A unit of time is told of by the event that is the last at its end.     *)
LEMMA LogTellsOfTheClock ==
  ASSUME PageInv, LogTells, P!ClockTicks
  PROVE  LogTells'
<1>1. /\ time' = time + 1 /\ past' = Append(past, shown) /\ UNCHANGED <<log, shown>>
  BY DEF P!ClockTicks
<1>2. /\ time \in Nat /\ past \in Seq(Shown) /\ Len(past) = time
  BY PageConstants DEF PageInv, PageType
<1>3. past'[time + 1] = shown /\ \A t \in 0..time - 1 : past'[t + 1] = past[t + 1]
  BY <1>1, <1>2
<1>4. ASSUME NEW c \in Components
      PROVE  (shown[c] = Newest(c))' /\ \A t \in 0..time' - 1 : Tells(c, t)'
  <2>0. PICK n : n = Len(log[c])
    OBVIOUS
  <2>1. /\ n \in Nat /\ \A i \in 1..n : log[c][i].at \in Nat /\ log[c][i].at <= time
    BY <2>0, EventTypes
  <2>2. shown[c] = Newest(c) /\ \A t \in 0..time - 1 : Tells(c, t)
    BY DEF LogTells
  <2>3. (shown[c] = Newest(c))'
    BY <1>1, <2>2 DEF Newest
  <2>4. \A i \in 1..n : IF i = n THEN Until(c, i) = time /\ Until(c, i)' = time + 1
                        ELSE Until(c, i)' = Until(c, i) /\ Until(c, i) = log[c][i + 1].at
    BY <1>1, <2>0, <2>1 DEF Until
  <2>5. ASSUME NEW t \in 0..time - 1
        PROVE  Tells(c, t)'
    <3>1. \A i \in 1..n : Covers(c, i, t)' <=> Covers(c, i, t)
      <4>1. \A i \in 1..n : (t < Until(c, i))' <=> t < Until(c, i)
        BY <1>2, <2>4
      <4>2. QED BY <1>1, <4>1 DEF Covers
    <3>2. QED BY <1>1, <1>3, <2>0, <2>2, <3>1 DEF Tells
  <2>6. ASSUME NEW t, t = time
        PROVE  Tells(c, t)'
    <3>1. ASSUME NEW i \in 1..n, i # n
          PROVE  ~ Covers(c, i, t)'
      <4>1. i + 1 \in 1..n
        BY <2>1, <3>1
      <4>2. Until(c, i)' <= time /\ Until(c, i)' \in Nat
        BY <2>1, <2>4, <3>1, <4>1
      <4>3. ~ (t < Until(c, i)')
        BY <1>2, <2>6, <4>2
      <4>4. QED BY <4>3 DEF Covers
    <3>2. n > 0 => Covers(c, n, t)'
      <4> SUFFICES ASSUME n > 0
                   PROVE  Covers(c, n, t)'
        OBVIOUS
      <4>1. n \in 1..n
        BY <2>1
      <4>2. log[c][n].at <= time /\ Until(c, n)' = time + 1
        BY <2>1, <2>4, <4>1
      <4>3. log[c][n].at <= t /\ t < Until(c, n)'
        BY <1>2, <2>6, <4>2
      <4>4. QED BY <1>1, <4>3 DEF Covers
    <3>3. past'[t + 1][c] = Newest(c)
      BY <1>3, <2>2, <2>6
    <3>4. \A i \in 1..n : Covers(c, i, t)' => past'[t + 1][c] = log[c][i].level
      BY <2>0, <2>1, <3>1, <3>3 DEF Newest
    <3>5. past'[t + 1][c] # 0 => n > 0 /\ n \in 1..n
      BY <2>0, <2>1, <3>3 DEF Newest
    <3>6. past'[t + 1][c] # 0 => \E i \in 1..n : Covers(c, i, t)'
      BY <3>2, <3>5
    <3>7. QED BY <1>1, <2>0, <3>4, <3>6 DEF Tells
  <2>7. \A t \in 0..time' - 1 : t \in 0..time - 1 \/ t = time
    BY <1>1, <1>2
  <2>8. QED BY <2>3, <2>5, <2>6, <2>7
<1>5. QED BY <1>4 DEF LogTells

(* Recording a status ends what stood, and what is written now begins now. *)
LEMMA LogTellsOfARecord ==
  ASSUME PageInv, LogTells, NEW c \in Components, P!RecordOne(c)
  PROVE  LogTells'
<1> DEFINE e == [level |-> tick[c], at |-> time]
<1>1. /\ c \in DOMAIN tick /\ shown' = [shown EXCEPT ![c] = tick[c]]
      /\ log' = IF P!Changed(c) THEN [log EXCEPT ![c] = Append(@, e)] ELSE log
      /\ UNCHANGED <<time, past>>
  BY DEF P!RecordOne
<1>2. PageType /\ time \in Nat
  BY PageConstants DEF PageInv, PageType
<1>3. e \in LogRows /\ e.at = time /\ e.level = tick[c]
  BY <1>1, <1>2 DEF PageType, LogRows
<1>4. PICK n : n = Len(log[c])
  OBVIOUS
<1>5. n \in Nat /\ \A i \in 1..n : log[c][i].at \in Nat /\ log[c][i].at <= time
  BY <1>4, EventTypes
<1>6. shown'[c] = tick[c] /\ \A d \in Components \ {c} : shown'[d] = shown[d]
  BY <1>1, <1>2 DEF PageType, Shown
<1>7. P!Changed(c) <=> Newest(c) # tick[c]
  <2>1. log[c] \in Seq(LogRows)
    BY <1>2 DEF PageType
  <2>2. log[c] = <<>> <=> n = 0
    <3> DEFINE s == log[c]
    <3>1. s \in Seq(LogRows) /\ n = Len(s)
      BY <1>4, <2>1
    <3> HIDE DEF s
    <3>2. s = <<>> <=> n = 0
      BY <3>1
    <3>3. QED BY <3>2 DEF s
  <2>3. QED BY <1>4, <2>2, PageConstants DEF P!Changed, P!Last, Newest
<1> HIDE DEF e
<1>8. ASSUME NEW d \in Components, log'[d] = log[d], shown'[d] = Newest(d)
      PROVE  (shown[d] = Newest(d))' /\ \A t \in 0..time' - 1 : Tells(d, t)'
  <2>1. \A t \in 0..time - 1 : Tells(d, t)
    BY DEF LogTells
  <2>2. QED BY <1>1, <1>8, <2>1 DEF Newest, Tells, Covers, Until
<1>9. ASSUME NEW d \in Components \ {c}
      PROVE  (shown[d] = Newest(d))' /\ \A t \in 0..time' - 1 : Tells(d, t)'
  <2>1. log'[d] = log[d]
    BY <1>1, <1>2 DEF PageType
  <2>2. shown'[d] = Newest(d)
    BY <1>6 DEF LogTells
  <2>3. QED BY <1>8, <2>1, <2>2
<1>10. (shown[c] = Newest(c))' /\ \A t \in 0..time' - 1 : Tells(c, t)'
  <2>1. CASE ~ P!Changed(c)
    BY <1>1, <1>6, <1>7, <1>8, <2>1
  <2>2. CASE P!Changed(c)
    <3>1. /\ Len(log'[c]) = n + 1 /\ log'[c][n + 1] = e
          /\ \A i \in 1..n : log'[c][i] = log[c][i]
      BY <1>1, <1>2, <1>3, <1>4, <2>2, LogGrows
    <3>2. (shown[c] = Newest(c))'
      BY <1>3, <1>5, <1>6, <3>1 DEF Newest
    <3>3. ASSUME NEW i \in 1..n
          PROVE  Until(c, i)' = Until(c, i)
      <4>1. CASE i = n
        <5>1. Until(c, i) = time /\ Until(c, i)' = e.at
          BY <1>4, <1>5, <3>1, <4>1 DEF Until
        <5>2. QED BY <1>3, <5>1
      <4>2. CASE i # n
        <5>1. i < n /\ i < n + 1 /\ i + 1 \in 1..n
          BY <1>5, <4>2
        <5>2. Until(c, i) = log[c][i + 1].at /\ Until(c, i)' = log'[c][i + 1].at
          BY <1>4, <3>1, <5>1 DEF Until
        <5>3. QED BY <3>1, <5>1, <5>2
      <4>3. QED BY <4>1, <4>2
    <3>4. ASSUME NEW t \in 0..time - 1
          PROVE  Tells(c, t)'
      <4>1. Tells(c, t)
        BY DEF LogTells
      <4>2. \A i \in 1..n : Covers(c, i, t)' <=> Covers(c, i, t)
        BY <3>1, <3>3 DEF Covers
      <4>3. ASSUME NEW i, i = n + 1
            PROVE  ~ Covers(c, i, t)'
        <5>1. log'[c][i].at = time
          BY <1>3, <3>1, <4>3
        <5>2. ~ (time <= t)
          BY <1>2
        <5>3. QED BY <5>1, <5>2 DEF Covers
      <4>4. \A i \in 1..n + 1 : i \in 1..n \/ i = n + 1
        BY <1>5
      <4>5. \A i \in 1..n : i \in 1..n + 1
        BY <1>5
      <4>6. \A i \in 1..n + 1 : Covers(c, i, t)' => past'[t + 1][c] = log'[c][i].level
        BY <1>1, <1>4, <3>1, <4>1, <4>2, <4>3, <4>4 DEF Tells
      <4>7. past'[t + 1][c] # 0 => \E i \in 1..n + 1 : Covers(c, i, t)'
        BY <1>1, <1>4, <4>1, <4>2, <4>5 DEF Tells
      <4>8. QED BY <3>1, <4>6, <4>7 DEF Tells
    <3>5. QED BY <1>1, <3>2, <3>4
  <2>3. QED BY <2>1, <2>2
<1>11. QED BY <1>9, <1>10 DEF LogTells

(* The other steps touch neither the log nor the clock.                    *)
LEMMA LogTellsStep == PageInv /\ LogTells /\ [P!Next]_(P!vars) => LogTells'
<1> SUFFICES ASSUME PageInv, LogTells, [P!Next]_(P!vars)
             PROVE  LogTells'
  OBVIOUS
<1>1. ASSUME UNCHANGED <<time, log, shown, past>>
      PROVE  LogTells'
  BY <1>1 DEF LogTells, Newest, Tells, Covers, Until
<1>2. QED
  BY <1>1, LogTellsOfTheClock, LogTellsOfARecord
  DEF P!Next, P!ReadStatuses, P!HostChanges, P!SetManual, P!Publish, P!MovePost,
    P!EditPost, P!DeletePost, P!vars

(* The units of time that the page of the days up to "before" is about.    *)
Window(before) ==
  P!Larger(0, P!WindowStart(before))..P!Smaller(P!WindowEnd(before), time) - 1

(* The window is over by now, and holds every past unit of its days.       *)
LEMMA WindowIs ==
  ASSUME PageInv, NEW before \in 0..time
  PROVE  /\ P!WindowStart(before) \in Int /\ P!WindowEnd(before) \in Int
         /\ Window(before) \subseteq 0..time - 1
         /\ \A t \in Window(before) : P!WindowStart(before) <= t /\ t < P!WindowEnd(before)
         /\ \A t \in 0..time - 1 : P!WindowStart(before) <= t /\ t < P!WindowEnd(before)
                                   => t \in Window(before)
<1>1. time \in Nat /\ DayLength \in Nat \ {0} /\ Days \in Nat \ {0} /\ before \in Nat
  BY PageConstants DEF PageInv, PageType
<1>2. P!WindowEnd(before) \in Int
  <2>1. before \div DayLength \in Int
    BY <1>1
  <2>2. QED BY <1>1, <2>1 DEF P!WindowEnd
<1>3. P!WindowStart(before) \in Int
  BY <1>1, <1>2 DEF P!WindowStart
<1>4. QED BY <1>1, <1>2, <1>3 DEF Window, P!Larger, P!Smaller

(* A span is cut to the window, and only there.                            *)
LEMMA SpanIsCut ==
  ASSUME PageInv, NEW before \in 0..time, NEW K, NEW l, NEW from \in Nat, NEW till \in Int,
         till # P!Unset => till <= time,
         NEW ends, ends = IF till = P!Unset THEN time ELSE till,
         NEW s, s = P!Span(K, from, till, l, before)
  PROVE  /\ s.keys = K /\ s.level = l /\ s.start \in Nat /\ s.end \in Int
         /\ \A t \in Int : s.start <= t /\ t < s.end
                           <=> t \in Window(before) /\ from <= t /\ t < ends
<1> DEFINE ws == P!WindowStart(before)
           we == P!WindowEnd(before)
<1>1. /\ ws \in Int /\ we \in Int /\ time \in Nat
      /\ Window(before) = (IF 0 < ws THEN ws ELSE 0)..(IF we < time THEN we ELSE time) - 1
  BY WindowIs, PageConstants DEF PageInv, PageType, Window, P!Larger, P!Smaller
<1>2. ends \in Int /\ ends <= time
  BY <1>1
<1>3. /\ s.keys = K /\ s.level = l /\ s.start = (IF ws < from THEN from ELSE ws)
      /\ s.end = IF we < ends THEN we ELSE ends
  BY DEF P!Span, P!Larger, P!Smaller
<1> HIDE DEF ws, we
<1>4. s.start \in Nat /\ s.end \in Int
  BY <1>1, <1>2, <1>3
<1>5. ASSUME NEW t \in Int
      PROVE  s.start <= t /\ t < s.end <=> t \in Window(before) /\ from <= t /\ t < ends
  <2>1. s.start <= t <=> ws <= t /\ from <= t
    BY <1>1, <1>3
  <2>2. t < s.end <=> t < we /\ t < ends
    BY <1>1, <1>2, <1>3
  <2>3. t \in Window(before) <=> 0 <= t /\ ws <= t /\ t < we /\ t < time
    BY <1>1
  <2>4. QED BY <1>1, <1>2, <2>1, <2>2, <2>3
<1>6. QED BY <1>3, <1>4, <1>5

(* A post has a level, and is about components of the page.                *)
LEMMA PostsAre ==
  ASSUME PageInv, NEW p \in posts
  PROVE  /\ P!PostLevel(p) \in Grades /\ p.keys \subseteq Components
         /\ p.from \in Nat /\ p.till \in Int /\ (p.till # P!Unset => p.till <= time)
<1>1. p \in PostRows /\ PostFits(p)
  BY DEF PageInv, PageType
<1>2. P!PostLevel(p) \in Grades
  BY <1>1 DEF PostRows, P!PostLevel, P!Maintenance, P!Operational, Grades
<1>3. QED BY <1>1, <1>2 DEF PostRows, PostFits

(* The span of a post: the units of the window in which the post was open. *)
LEMMA SpanOfPost ==
  ASSUME PageInv, NEW before \in 0..time, NEW p \in posts,
         NEW s, s = P!Span(p.keys, p.from, p.till, P!PostLevel(p), before)
  PROVE  /\ s.keys = p.keys /\ s.level = P!PostLevel(p) /\ s.start \in Nat /\ s.end \in Int
         /\ \A t \in Int : s.start <= t /\ t < s.end
              <=> /\ t \in Window(before) /\ p.from <= t
                  /\ t < IF p.till = P!Unset THEN time ELSE p.till
<1>1. /\ p.from \in Nat /\ p.till \in Int /\ (p.till # P!Unset => p.till <= time)
  BY PostsAre
<1>2. QED BY <1>1, SpanIsCut

EventSpan(c, i, before) ==
  P!Span({c}, log[c][i].at, IF i < Len(log[c]) THEN log[c][i + 1].at ELSE P!Unset,
         log[c][i].level, before)

(* The span of an event: the units of the window in which it stood.        *)
LEMMA SpanOfEvent ==
  ASSUME PageInv, NEW before \in 0..time, NEW c \in Components, NEW i \in 1..Len(log[c]),
         NEW s, s = EventSpan(c, i, before)
  PROVE  /\ s.keys = {c} /\ s.level = log[c][i].level /\ s.start \in Nat /\ s.end \in Int
         /\ \A t \in Int : s.start <= t /\ t < s.end
              <=> t \in Window(before) /\ Covers(c, i, t)
<1> DEFINE till == IF i < Len(log[c]) THEN log[c][i + 1].at ELSE P!Unset
<1>1. /\ Len(log[c]) \in Nat
      /\ \A j \in 1..Len(log[c]) : log[c][j].at \in Nat /\ log[c][j].at <= time
  BY EventTypes
<1>2. /\ till \in Int /\ (till # P!Unset => till <= time)
      /\ Until(c, i) = IF till = P!Unset THEN time ELSE till
  <2>1. CASE i < Len(log[c])
    <3>1. log[c][i + 1].at \in Nat /\ log[c][i + 1].at <= time
      BY <1>1, <2>1
    <3>2. log[c][i + 1].at # P!Unset
      BY <3>1, PageConstants
    <3>3. QED BY <2>1, <3>1, <3>2 DEF Until
  <2>2. CASE ~ (i < Len(log[c]))
    BY <2>2, PageConstants DEF Until
  <2>3. QED BY <2>1, <2>2
<1>3. s = P!Span({c}, log[c][i].at, till, log[c][i].level, before)
  BY DEF EventSpan
<1> HIDE DEF till
<1>4. QED BY <1>1, <1>2, <1>3, SpanIsCut DEF Covers

(* The spans of a page are those of posts and of events of the log.        *)
LEMMA SpansAre ==
  ASSUME NEW keys, NEW before, NEW s
  PROVE  s \in P!Impairments(keys, before) <=>
           /\ \/ \E p \in posts : s = P!Span(p.keys, p.from, p.till, P!PostLevel(p), before)
              \/ \E c \in Components : \E i \in DOMAIN log[c] : s = EventSpan(c, i, before)
           /\ s.level # P!Operational /\ s.start < s.end /\ s.keys \cap keys # {}
<1>1. s \in P!PostSpans(before) <=>
        \E p \in posts : s = P!Span(p.keys, p.from, p.till, P!PostLevel(p), before)
  BY DEF P!PostSpans
<1>2. s \in P!LogSpans(before) <=>
        \E c \in Components : \E i \in DOMAIN log[c] : s = EventSpan(c, i, before)
  <2>1. P!LogSpans(before) =
          UNION {{EventSpan(c, i, before) : i \in DOMAIN log[c]} : c \in Components}
    BY DEF P!LogSpans, EventSpan
  <2>2. QED BY <2>1
<1>3. QED BY <1>1, <1>2 DEF P!Impairments

(* An impairment has a level, a length, and no unit outside the window.    *)
LEMMA ImpairmentIsASpan ==
  ASSUME PageInv, NEW before \in 0..time, NEW keys, NEW s \in P!Impairments(keys, before)
  PROVE  /\ s.level \in 1..4 /\ s.start \in Nat /\ s.end \in Nat /\ s.start < s.end
         /\ \A t \in Int : s.start <= t /\ t < s.end => t \in Window(before)
<1>1. s.level # 0 /\ s.start < s.end
  BY SpansAre, PageConstants
<1> DEFINE Within == /\ s.level \in Grades /\ s.start \in Nat /\ s.end \in Int
                     /\ \A t \in Int : s.start <= t /\ t < s.end => t \in Window(before)
<1>2. Within
  <2>1. ASSUME NEW p \in posts,
               s = P!Span(p.keys, p.from, p.till, P!PostLevel(p), before)
        PROVE  Within
    BY <2>1, SpanOfPost, PostsAre
  <2>2. ASSUME NEW c \in Components, NEW i \in DOMAIN log[c], s = EventSpan(c, i, before)
        PROVE  Within
    <3>1. i \in 1..Len(log[c])
      BY DEF PageInv, PageType
    <3>2. QED BY <2>2, <3>1, SpanOfEvent, EventTypes
  <2> HIDE DEF Within
  <2>3. QED BY <2>1, <2>2, SpansAre
<1>3. QED BY <1>1, <1>2 DEF Grades

(* What is reported of a unit was wrong with a component then ...          *)
LEMMA ReportedIsWrong ==
  ASSUME PageInv, LogTells, NEW before \in 0..time, NEW keys,
         NEW s \in P!Impairments(keys, before), NEW t \in Int, s.start <= t, t < s.end
  PROVE  t \in Window(before) /\ s.level \in P!WrongIn(keys, t)
<1>1. CASE \E p \in posts : s = P!Span(p.keys, p.from, p.till, P!PostLevel(p), before)
  <2>1. PICK p \in posts : s = P!Span(p.keys, p.from, p.till, P!PostLevel(p), before)
    BY <1>1
  <2>2. /\ s.keys = p.keys /\ s.level = P!PostLevel(p)
        /\ t \in Window(before) /\ p.from <= t
        /\ t < IF p.till = P!Unset THEN time ELSE p.till
    BY <2>1, SpanOfPost
  <2>3. s.keys \cap keys # {}
    BY SpansAre
  <2>4. QED BY <2>2, <2>3 DEF P!WrongIn
<1>2. CASE \E c \in Components : \E i \in DOMAIN log[c] : s = EventSpan(c, i, before)
  <2>1. PICK c \in Components : \E i \in DOMAIN log[c] : s = EventSpan(c, i, before)
    BY <1>2
  <2>2. PICK i \in 1..Len(log[c]) : s = EventSpan(c, i, before)
    BY <2>1 DEF PageInv, PageType
  <2>3. s.keys = {c} /\ s.level = log[c][i].level /\ t \in Window(before) /\ Covers(c, i, t)
    BY <2>2, SpanOfEvent
  <2>4. c \in keys
    BY <2>3, SpansAre
  <2>5. past[t + 1][c] = s.level
    <3>1. t \in 0..time - 1
      BY <2>3, WindowIs
    <3>2. Tells(c, t)
      BY <3>1 DEF LogTells
    <3>3. QED BY <2>3, <3>2 DEF Tells
  <2>6. QED BY <2>3, <2>4, <2>5 DEF P!WrongIn
<1>3. QED BY <1>1, <1>2, SpansAre

(* ... and what was wrong with one is reported.                            *)
LEMMA WrongIsReported ==
  ASSUME PageInv, LogTells, NEW before \in 0..time, NEW keys \in SUBSET Components,
         NEW t \in Window(before), NEW l \in P!WrongIn(keys, t), l # 0
  PROVE  \E s \in P!Impairments(keys, before) : s.level = l /\ s.start <= t /\ t < s.end
<1>1. t \in Int /\ t \in 0..time - 1
  BY WindowIs
<1>2. CASE \E c \in keys : l = past[t + 1][c]
  <2>1. PICK c \in keys : l = past[t + 1][c]
    BY <1>2
  <2>2. Tells(c, t)
    BY <1>1 DEF LogTells
  <2>3. PICK i \in 1..Len(log[c]) : Covers(c, i, t)
    BY <2>1, <2>2 DEF Tells
  <2>4. log[c][i].level = l
    BY <2>1, <2>2, <2>3 DEF Tells
  <2>5. PICK s : s = EventSpan(c, i, before)
    OBVIOUS
  <2>6. s.keys = {c} /\ s.level = l /\ s.start <= t /\ t < s.end
        /\ s.start \in Nat /\ s.end \in Int
    BY <1>1, <2>3, <2>4, <2>5, SpanOfEvent
  <2>7. s.start < s.end /\ s.level # P!Operational /\ s.keys \cap keys # {}
    BY <1>1, <2>1, <2>6, PageConstants
  <2>8. i \in DOMAIN log[c]
    BY <2>3 DEF PageInv, PageType
  <2>9. s \in P!Impairments(keys, before)
    BY <2>5, <2>7, <2>8, SpansAre
  <2>10. QED BY <2>6, <2>9
<1>3. CASE \E p \in posts : /\ l = P!PostLevel(p) /\ p.keys \cap keys # {} /\ p.from <= t
                            /\ t < IF p.till = P!Unset THEN time ELSE p.till
  <2>1. PICK p \in posts : /\ l = P!PostLevel(p) /\ p.keys \cap keys # {} /\ p.from <= t
                           /\ t < IF p.till = P!Unset THEN time ELSE p.till
    BY <1>3
  <2>2. PICK s : s = P!Span(p.keys, p.from, p.till, P!PostLevel(p), before)
    OBVIOUS
  <2>3. s.keys = p.keys /\ s.level = l /\ s.start <= t /\ t < s.end
        /\ s.start \in Nat /\ s.end \in Int
    BY <1>1, <2>1, <2>2, SpanOfPost
  <2>4. s.start < s.end /\ s.level # P!Operational /\ s.keys \cap keys # {}
    BY <1>1, <2>1, <2>3, PageConstants
  <2>5. s \in P!Impairments(keys, before)
    BY <2>2, <2>4, SpansAre
  <2>6. QED BY <2>3, <2>5
<1>4. QED BY <1>2, <1>3 DEF P!WrongIn

(* All of it has a place in the ranking of levels,                         *)
LEMMA WrongIsGraded ==
  ASSUME PageInv, NEW before \in 0..time, NEW keys \in SUBSET Components,
         NEW t \in Window(before)
  PROVE  P!WrongIn(keys, t) \subseteq Grades
<1>1. t \in 0..time - 1 /\ time \in Nat
  BY WindowIs, PageConstants DEF PageInv, PageType
<1>2. past[t + 1] \in Shown
  <2>1. past \in Seq(Shown) /\ Len(past) = time
    BY DEF PageInv, PageType
  <2>2. t + 1 \in 1..Len(past)
    BY <1>1, <2>1
  <2>3. QED BY <2>1, <2>2
<1>3. \A c \in keys : past[t + 1][c] \in Grades
  BY <1>2 DEF Shown
<1>4. QED BY <1>3, PostsAre DEF P!WrongIn

(* in which the worst is an outage when one of them is.                    *)
LEMMA WorstIs ==
  ASSUME NEW Z \in SUBSET Grades
  PROVE  P!Worst(Z) >= 3 <=> \E z \in Z : z >= 3
<1> DEFINE Y == Z \cup {0}
<1>1. P!Worst(Z) = P!Max(Y)
  BY PageConstants DEF P!Worst
<1>2. Y \subseteq Int /\ \E x \in Y : \A y \in Y : x >= y
  <2>1. CASE 4 \in Z
    BY <2>1 DEF Grades
  <2>2. CASE 4 \notin Z /\ 3 \in Z
    BY <2>2 DEF Grades
  <2>3. CASE 4 \notin Z /\ 3 \notin Z /\ 2 \in Z
    BY <2>3 DEF Grades
  <2>4. CASE 4 \notin Z /\ 3 \notin Z /\ 2 \notin Z /\ 1 \in Z
    BY <2>4 DEF Grades
  <2>5. CASE 4 \notin Z /\ 3 \notin Z /\ 2 \notin Z /\ 1 \notin Z
    BY <2>5 DEF Grades
  <2>6. QED BY <2>1, <2>2, <2>3, <2>4, <2>5
<1>3. P!Max(Y) \in Y /\ \A y \in Y : P!Max(Y) >= y
  <2> HIDE DEF Y
  <2>1. QED BY <1>2 DEF P!Max
<1>4. QED BY <1>1, <1>2, <1>3

(* The downtime of a page is the number of units with an outage.           *)
LEMMA DowntimeIsTrue ==
  ASSUME PageInv, LogTells, NEW before \in 0..time, NEW keys \in SUBSET Components
  PROVE  P!Downtime(keys, before) =
           P!Cardinality({t \in Window(before) : P!Worst(P!WrongIn(keys, t)) >= 3})
<1> DEFINE bad == {r \in P!Impairments(keys, before) : r.level >= 3}
           Z == {[start |-> s.start, end |-> s.end] : s \in bad}
           outage == {t \in Window(before) : P!Worst(P!WrongIn(keys, t)) >= 3}
<1>1. P!Downtime(keys, before) = P!UnionLength(Z)
  BY DEF P!Downtime, P!PartialOutage
<1>2. \A z \in Z : IsSpan(z) /\ z.end <= time
  <2>1. ASSUME NEW s \in bad
        PROVE  s.start \in Nat /\ s.end \in Nat /\ s.start < s.end /\ s.end <= time
    <3>1. s.start \in Nat /\ s.end \in Nat /\ s.start < s.end
          /\ s.end - 1 \in Window(before)
      <4>1. /\ s.start \in Nat /\ s.end \in Nat /\ s.start < s.end
            /\ \A t \in Int : s.start <= t /\ t < s.end => t \in Window(before)
        BY ImpairmentIsASpan
      <4>2. s.end - 1 \in Int /\ s.start <= s.end - 1 /\ s.end - 1 < s.end
        BY <4>1
      <4>3. QED BY <4>1, <4>2
    <3>2. s.end - 1 \in 0..time - 1 /\ time \in Nat
      BY <3>1, WindowIs, PageConstants DEF PageInv, PageType
    <3>3. QED BY <3>1, <3>2
  <2> HIDE DEF bad
  <2>2. QED BY <2>1 DEF IsSpan, Spans
<1>3. IsFiniteSet(Z)
  <2> DEFINE Times == 0..time
             f == [p \in Times \X Times |-> [start |-> p[1], end |-> p[2]]]
             All == {f[p] : p \in Times \X Times}
  <2>1. time \in Nat
    BY PageConstants DEF PageInv, PageType
  <2>2. IsFiniteSet(Times)
    BY <2>1, FS_Interval
  <2>3. IsFiniteSet(Times \X Times)
    <3> HIDE DEF Times
    <3>1. QED BY <2>2, FS_Product
  <2>4. f \in Surjection(Times \X Times, All)
    BY DEF Surjection
  <2>5. IsFiniteSet(All)
    <3> HIDE DEF f, All, Times
    <3>1. QED BY <2>3, <2>4, FS_Surjection
  <2>6. ASSUME NEW z \in Z
        PROVE  z \in All
    <3>1. z = [start |-> z.start, end |-> z.end] /\ z.start \in Times /\ z.end \in Times
      <4>1. z \in [start : Nat, end : Nat] /\ z.start < z.end /\ z.end <= time
        BY <1>2 DEF IsSpan, Spans
      <4>2. QED BY <2>1, <4>1
    <3>2. <<z.start, z.end>> \in Times \X Times /\ f[<<z.start, z.end>>] = z
      BY <3>1
    <3>3. QED BY <3>2
  <2> HIDE DEF All, Z
  <2>7. QED BY <2>5, <2>6, FS_Subset
<1>4. UNION {SpanUnits(z) : z \in Z} = outage
  <2>1. ASSUME NEW t
        PROVE  t \in UNION {SpanUnits(z) : z \in Z}
                 <=> \E s \in bad : t \in Int /\ s.start <= t /\ t < s.end
    <3>1. \A s \in bad : s.start \in Nat /\ s.end \in Nat
      BY ImpairmentIsASpan
    <3>2. \A s \in bad : t \in s.start..s.end - 1
                         <=> t \in Int /\ s.start <= t /\ t < s.end
      BY <3>1
    <3>3. t \in UNION {SpanUnits(z) : z \in Z} <=> \E s \in bad : t \in s.start..s.end - 1
      <4>1. \A s \in bad : SpanUnits([start |-> s.start, end |-> s.end]) = s.start..s.end - 1
        BY DEF SpanUnits
      <4> HIDE DEF bad
      <4>2. QED BY <4>1
    <3> HIDE DEF bad
    <3>4. QED BY <3>2, <3>3
  <2>2. ASSUME NEW t \in Window(before)
        PROVE  P!Worst(P!WrongIn(keys, t)) >= 3 <=> \E l \in P!WrongIn(keys, t) : l >= 3
    BY WrongIsGraded, WorstIs
  <2>3. ASSUME NEW t \in Int, NEW s \in bad, s.start <= t, t < s.end
        PROVE  t \in outage
    BY <2>2, <2>3, ReportedIsWrong
  <2>4. ASSUME NEW t \in outage
        PROVE  t \in Int /\ \E s \in bad : s.start <= t /\ t < s.end
    <3>1. PICK l \in P!WrongIn(keys, t) : l >= 3
      BY <2>2
    <3>2. l # 0 /\ t \in Int
      BY <3>1, WindowIs
    <3>3. PICK s \in P!Impairments(keys, before) : s.level = l /\ s.start <= t /\ t < s.end
      BY <3>2, WrongIsReported
    <3>4. QED BY <3>1, <3>2, <3>3
  <2> HIDE DEF Z, bad, outage
  <2>5. QED BY <2>1, <2>3, <2>4
<1> HIDE DEF Z, outage
<1>5. QED BY <1>1, <1>2, <1>3, <1>4, UnionIsCounted, PageSize DEF outage

(* The bar of a day is the worst of its units, and of the live status.     *)
LEMMA BarIsTrue ==
  ASSUME PageInv, LogTells, NEW before \in 0..time, NEW keys \in SUBSET Components,
         NEW i \in 0..Days - 1
  PROVE  LET first == P!WindowStart(before) + i * DayLength
             units == first..first + DayLength - 1
         IN  P!Bar(keys, before, i) =
               P!Worst((UNION {P!WrongIn(keys, t) : t \in units \cap Window(before)})
                       \cup IF time \in units THEN {P!Entry(keys)} ELSE {})
<1> DEFINE first == P!WindowStart(before) + i * DayLength
           units == first..first + DayLength - 1
           live == IF time \in units THEN {P!Entry(keys)} ELSE {}
           hit == {s \in P!Impairments(keys, before) :
                     s.start < first + DayLength /\ first < s.end}
           told == {s.level : s \in hit}
           wrong == UNION {P!WrongIn(keys, t) : t \in units \cap Window(before)}
<1>1. first \in Int /\ time \in Nat /\ DayLength \in Nat /\ DayLength > 0
  <2>1. i * DayLength \in Int
    BY PageConstants
  <2>2. QED BY <2>1, WindowIs, PageConstants DEF PageInv, PageType
<1> HIDE DEF first
<1>2. time \in units <=> first <= time /\ time < first + DayLength
  BY <1>1
<1>3. P!Bar(keys, before, i) = P!Worst(told \cup live)
  BY <1>2 DEF P!Bar, first
<1>4. ASSUME NEW l \in told
      PROVE  l \in wrong
  <2>1. PICK s \in hit : l = s.level
    OBVIOUS
  <2>2. s.start \in Nat /\ s.end \in Nat /\ s.start < s.end
    BY ImpairmentIsASpan
  <2>3. PICK t \in {s.start, first} : t \in Int /\ s.start <= t /\ first <= t
    BY <1>1, <2>2
  <2>4. t < s.end /\ t < first + DayLength
    BY <1>1, <2>2
  <2>5. t \in Window(before) /\ l \in P!WrongIn(keys, t)
    BY <2>1, <2>3, <2>4, ReportedIsWrong
  <2>6. t \in units
    BY <1>1, <2>3, <2>4
  <2>7. QED BY <2>5, <2>6
<1>5. ASSUME NEW l \in wrong, l # 0
      PROVE  l \in told
  <2>1. PICK t \in units \cap Window(before) : l \in P!WrongIn(keys, t)
    OBVIOUS
  <2>2. PICK s \in P!Impairments(keys, before) : s.level = l /\ s.start <= t /\ t < s.end
    BY <1>5, <2>1, WrongIsReported
  <2>3. s.start \in Nat /\ s.end \in Nat
    BY ImpairmentIsASpan
  <2>4. t \in Int /\ first <= t /\ t < first + DayLength
    BY <1>1, <2>1
  <2>5. s.start < first + DayLength /\ first < s.end
    BY <1>1, <2>2, <2>3, <2>4
  <2>6. QED BY <2>2, <2>5
<1> HIDE DEF told, wrong, live
<1>6. told \cup live \cup {0} = wrong \cup live \cup {0}
  BY <1>4, <1>5
<1>7. P!Worst(told \cup live) = P!Worst(wrong \cup live)
  BY <1>6, PageConstants DEF P!Worst
<1>8. QED BY <1>3, <1>7 DEF wrong, live, first

LEMMA PageIsTrue == PageInv /\ LogTells => P!HistoryIsTrue
<1> SUFFICES ASSUME PageInv, LogTells,
                    NEW keys \in SUBSET Components \ {{}}, NEW before \in 0..time
             PROVE  /\ P!Downtime(keys, before) =
                         P!Cardinality({t \in Window(before) :
                                          P!Worst(P!WrongIn(keys, t)) >= 3})
                    /\ \A i \in 0..Days - 1 :
                         LET first == P!WindowStart(before) + i * DayLength
                             units == first..first + DayLength - 1
                         IN  P!Bar(keys, before, i) =
                               P!Worst((UNION {P!WrongIn(keys, t) :
                                                 t \in units \cap Window(before)})
                                       \cup IF time \in units THEN {P!Entry(keys)} ELSE {})
  BY DEF P!HistoryIsTrue, Window, P!PartialOutage
<1>1. keys \in SUBSET Components
  OBVIOUS
<1>2. QED BY <1>1, DowntimeIsTrue, BarIsTrue

(* The public page tells what happened, for every component and group and  *)
(* whichever days are asked for: its downtime counts each unit of an       *)
(* outage once, however many overlapping events and posts report it, and   *)
(* each bar is the worst level of its day.                                 *)
THEOREM HistoryStaysTrue == MCSpec => []HistoryIsTrue
<1>1. PageInv /\ LogTells => HistoryIsTrue
  BY PageIsTrue DEF HistoryIsTrue
<1>2. QED
  BY <1>1, PlatformAlone, PageInit, PageStep, LogTellsInit, LogTellsStep, PTL DEF P!Spec

-----------------------------------------------------------------------------
(* The bounds of the other parts.                                          *)

ErrorBounds == hour <= Hours /\ \A f \in Fingerprints : error[f].count <= MaxCount

LEMMA ErrorsTyped == MCSpec => []E!TypeOK
<1>0. Hours \in Nat /\ MaxCount \in Nat
  BY InstanceAssumptions DEF E!ErrorAssumption
<1>1. E!Init => ErrorBounds
  BY <1>0 DEF E!Init, E!NoRow, ErrorBounds
<1>2. ErrorInv /\ ErrorBounds /\ [E!Next]_(E!vars) => ErrorBounds'
  <2> SUFFICES ASSUME ErrorType, ErrorBounds, [E!Next]_(E!vars)
               PROVE  ErrorBounds'
    BY DEF ErrorInv
  <2>1. ASSUME NEW f \in Fingerprints, NEW r, r.count <= MaxCount,
               error' = [error EXCEPT ![f] = r], hour' = hour
        PROVE  ErrorBounds'
    BY <2>1 DEF ErrorType, ErrorBounds
  <2>2. ASSUME NEW f \in Fingerprints, E!Capture(f)
        PROVE  ErrorBounds'
    <3> DEFINE a == IF E!Loud(f, error[f]) THEN hour ELSE error[f].alerted
               r == [error[f] EXCEPT !.count = error[f].count + 1, !.seen = hour,
                                     !.resolved = FALSE, !.alerted = a]
    <3>1. error' = [error EXCEPT ![f] = r] /\ hour' = hour
          /\ error[f].count < MaxCount
      BY <2>2 DEF E!Capture
    <3>2. error[f] \in ErrorRows /\ error[f].count \in Nat
      BY DEF ErrorType, ErrorRows
    <3> HIDE DEF a
    <3>3. r.count = error[f].count + 1
      BY <3>2 DEF ErrorRows
    <3> HIDE DEF r
    <3>4. r.count <= MaxCount
      BY <1>0, <3>1, <3>2, <3>3
    <3>5. QED BY <2>1, <3>1, <3>4
  <2>3. ASSUME NEW f \in Fingerprints, NEW done \in BOOLEAN, E!Resolve(f, done)
        PROVE  ErrorBounds'
    <3> DEFINE n == error[f].era + (IF error[f].alerted = E!Never THEN 0 ELSE 1)
               r == [error[f] EXCEPT !.resolved = done, !.alerted = E!Never, !.era = n]
    <3>1. error' = [error EXCEPT ![f] = r] /\ hour' = hour
      BY <2>3 DEF E!Resolve
    <3>2. error[f] \in ErrorRows
      BY DEF ErrorType
    <3> HIDE DEF n
    <3>3. r.count = error[f].count
      BY <3>2 DEF ErrorRows
    <3> HIDE DEF r
    <3>4. r.count <= MaxCount
      BY <3>3 DEF ErrorBounds
    <3>5. QED BY <2>1, <3>1, <3>4
  <2>4. ASSUME NEW f \in Fingerprints, E!Prune(f)
        PROVE  ErrorBounds'
    <3> DEFINE r == [E!NoRow EXCEPT !.era = error[f].era]
    <3>1. error' = [error EXCEPT ![f] = r] /\ hour' = hour
      BY <2>4 DEF E!Prune
    <3>2. r.count <= MaxCount
      BY <1>0 DEF E!NoRow
    <3> HIDE DEF r
    <3>3. QED BY <2>1, <3>1, <3>2
  <2>5. CASE E!HourPasses
    BY <1>0, <2>5 DEF E!HourPasses, ErrorType, ErrorBounds
  <2>6. ASSUME UNCHANGED <<hour, error>>
        PROVE  ErrorBounds'
    BY <2>6 DEF ErrorBounds
  <2>7. QED
    BY <2>2, <2>3, <2>4, <2>5, <2>6 DEF E!Next, E!Alert, E!AlertLost, E!vars
<1>3. ErrorInv /\ ErrorBounds => E!TypeOK
  <2> SUFFICES ASSUME ErrorInv, ErrorBounds
               PROVE  E!TypeOK
    OBVIOUS
  <2>1. hour \in 0..Hours
    BY <1>0 DEF ErrorInv, ErrorType, ErrorBounds
  <2>2. \A d \in deciding : d.of \in Fingerprints /\ d.at = hour
    BY DEF ErrorInv, ErrorType, Letters, RowRemembers
  <2>3. ASSUME NEW f \in Fingerprints
        PROVE  error[f].count \in 0..MaxCount /\ error[f].alerted \in E!Never..hour
    <3>1. /\ error[f].count \in Nat /\ error[f].seen \in Nat
          /\ error[f].alerted \in Nat \cup {-1} /\ hour \in Nat
      BY DEF ErrorInv, ErrorType, ErrorRows, E!Never
    <3>2. error[f].count <= MaxCount /\ error[f].alerted <= hour
      BY <3>1 DEF ErrorInv, ErrorBounds, RowRemembers
    <3>3. QED BY <1>0, <3>1, <3>2 DEF E!Never
  <2>4. QED BY <2>1, <2>2, <2>3 DEF E!TypeOK
<1>4. QED BY <1>1, <1>2, <1>3, PlatformAlone, ErrorInit, ErrorStep, PTL DEF E!Spec

(* A mail whose stamp is about to be written is one of those without.      *)
StampPending == sweep.at = "stamp" => unstamped[N!Key] >= 1
NoticeBounds ==
  /\ lastOk \in 0..day /\ \A d \in Days0 : unstamped[d] \in 0..mails[d]
  /\ StampPending

LEMMA NoticesTyped == MCSpec => []N!TypeOK
<1>1. N!Init => NoticeBounds
  BY NoticeConstants DEF N!Init, N!Idle, NoticeBounds, StampPending, Days0
<1>2. NoticeInv /\ NoticeBounds /\ [N!Next]_(N!vars) => NoticeBounds'
  <2> SUFFICES ASSUME NoticeType, NoticeBounds, [N!Next]_(N!vars)
               PROVE  NoticeBounds'
    BY DEF NoticeInv
  <2> USE NoticeConstants
  <2>0. N!Key \in Days0 /\ day \in Nat
    BY MilestoneIs DEF NoticeType, N!Key
  <2>1. CASE N!Send
    <3>1. /\ sweep' = [sweep EXCEPT !.at = "stamp"] /\ UNCHANGED <<kind, day, lastOk>>
          /\ mails' = [mails EXCEPT ![N!Key] = mails[N!Key] + 1]
          /\ unstamped' = [unstamped EXCEPT ![N!Key] = unstamped[N!Key] + 1]
      BY <2>1 DEF N!Send, N!Goes, N!Counted, N!backupVars
    <3>2. N!Key' = N!Key
      BY <3>1 DEF NoticeType, N!Key, N!Milestone
    <3>3. /\ unstamped[N!Key] \in 0..mails[N!Key] /\ mails[N!Key] \in Int
      BY <2>0 DEF NoticeBounds, NoticeType
    <3>4. \A d \in Days0 : unstamped'[d] \in 0..mails'[d]
      BY <2>0, <3>1, <3>3 DEF NoticeBounds, NoticeType
    <3>5. unstamped'[N!Key] >= 1
      BY <2>0, <3>1, <3>3 DEF NoticeType
    <3>6. QED BY <3>1, <3>2, <3>4, <3>5 DEF NoticeBounds, StampPending
  <2>2. CASE N!Stamp
    <3>1. /\ sweep.at = "stamp" /\ N!GoesOn /\ UNCHANGED <<kind, day, lastOk, mails>>
          /\ unstamped' = [unstamped EXCEPT ![N!Key] = unstamped[N!Key] - 1]
      BY <2>2 DEF N!Stamp, N!backupVars
    <3>2. sweep'.at # "stamp"
      BY <3>1 DEF N!GoesOn, N!Idle
    <3>3. unstamped[N!Key] \in 1..mails[N!Key] /\ mails[N!Key] \in Int
      BY <2>0, <3>1 DEF NoticeBounds, StampPending, NoticeType
    <3>4. \A d \in Days0 : unstamped'[d] \in 0..mails[d]
      BY <2>0, <3>1, <3>3 DEF NoticeBounds, NoticeType
    <3>5. QED BY <3>1, <3>2, <3>4 DEF NoticeBounds, StampPending
  <2>3. ASSUME UNCHANGED <<mails, unstamped>>, sweep'.at # "stamp", lastOk' \in 0..day'
        PROVE  NoticeBounds'
    BY <2>3 DEF NoticeBounds, StampPending
  <2>4. CASE \/ N!Start \/ N!Pick \/ N!SendFails \/ N!StampFails \/ N!Look \/ N!Claim
             \/ N!SendAlert \/ N!AlertFails \/ N!Dies
    <3>1. UNCHANGED <<mails, unstamped, lastOk, day>>
      BY <2>4 DEF N!Start, N!Pick, N!SendFails, N!StampFails, N!Look, N!Claim, N!SendAlert,
        N!AlertFails, N!Dies, N!mailVars, N!backupVars
    <3>2. sweep'.at # "stamp"
      BY <2>4 DEF N!Start, N!Pick, N!SendFails, N!StampFails, N!Look, N!Claim, N!SendAlert,
        N!AlertFails, N!Dies, N!Goes, N!GoesOn, N!Ends, N!Idle, NoticeType
    <3>3. QED BY <2>3, <3>1, <3>2 DEF NoticeBounds
  <2>5. CASE N!DayPasses
    <3>1. /\ UNCHANGED <<mails, unstamped, lastOk, sweep>> /\ day' = day + 1
          /\ sweep = N!Idle
      BY <2>5 DEF N!DayPasses, N!mailVars, N!backupVars
    <3>2. lastOk' \in 0..day'
      BY <2>0, <3>1 DEF NoticeBounds
    <3>3. QED BY <2>3, <3>1, <3>2 DEF N!Idle
  <2>6. CASE N!StoreRun \/ N!ClearStamp \/ N!Entitle \/ UNCHANGED N!vars
    <3>1. /\ UNCHANGED <<mails, unstamped, sweep, day, kind>> /\ lastOk' \in {lastOk, day}
      BY <2>6 DEF N!StoreRun, N!ClearStamp, N!Entitle, N!vars, N!mailVars, N!backupVars
    <3>2. N!Key' = N!Key /\ lastOk' \in 0..day
      BY <2>0, <3>1 DEF N!Key, N!Milestone, NoticeBounds
    <3>3. QED BY <3>1, <3>2 DEF NoticeBounds, StampPending
  <2>7. QED BY <2>1, <2>2, <2>4, <2>5, <2>6 DEF N!Next
<1>3. NoticeInv /\ NoticeBounds => N!TypeOK
  <2> SUFFICES ASSUME NoticeType, NoticeBounds
               PROVE  N!TypeOK
    BY DEF NoticeInv
  <2>1. DOMAIN mails = Days0 /\ day \in 0..LastDay
    BY DEF NoticeType, Days0
  <2>2. stamp \in N!Never..LastDay
    BY NoticeConstants DEF NoticeType, Days0, N!Never
  <2>3. QED BY <2>1, <2>2 DEF NoticeType, NoticeBounds, N!TypeOK
<1>4. QED BY <1>1, <1>2, <1>3, PlatformAlone, NoticeInit, NoticeStep, PTL DEF N!Spec

AgeBound == \A n \in Names : age[n] <= UsageStale + 1

LEMMA HostsTyped == MCSpec => []H!TypeOK
<1>1. H!Init => AgeBound
  BY HostConstants DEF H!Init, AgeBound
<1>2. HostInv /\ AgeBound /\ [H!Next]_(H!vars) => AgeBound'
  <2> SUFFICES ASSUME HostType, AgeBound, [H!Next]_(H!vars)
               PROVE  AgeBound'
    BY DEF HostInv
  <2>1. UsageStale \in Nat /\ age \in [Names -> Nat]
    BY HostConstants DEF HostType
  <2>2. CASE H!TimePasses
    BY <2>1, <2>2 DEF H!TimePasses, AgeBound
  <2>3. ASSUME NEW n \in Names, NEW load \in Loads, H!Measure(n, load)
        PROVE  AgeBound'
    BY <2>1, <2>3 DEF H!Measure, AgeBound
  <2>4. ASSUME UNCHANGED age
        PROVE  AgeBound'
    BY <2>4 DEF AgeBound
  <2>5. QED BY <2>2, <2>3, <2>4 DEF H!Next, H!Place, H!Release, H!vars
<1>3. HostInv /\ AgeBound => H!TypeOK
  BY HostConstants DEF HostInv, HostType, AgeBound, H!TypeOK
<1>4. QED BY <1>1, <1>2, <1>3, PlatformAlone, HostInit, HostStep, PTL DEF H!Spec

-----------------------------------------------------------------------------
(* The portal as a whole.                                                  *)

LEMMA TeamAlone == MCSpec => Spec
<1>1. MCInit => Init
  BY DEF MCInit
<1>2. [MCNext]_mcVars => [Next]_vars
  <2>1. UNCHANGED mcVars => UNCHANGED vars
    BY DEF mcVars
  <2>2. MCNext => Next \/ UNCHANGED vars
    BY DEF MCNext, FollowTeam, FollowSession, FollowFactor, FollowLink,
      FollowDevice, FollowTunnel, FollowPage, FollowErrors, FollowNotices,
      FollowHosts
  <2>3. QED BY <2>1, <2>2
<1>3. QED BY <1>1, <1>2, PTL DEF MCSpec, mcVars, Spec

OneFollowed ==
  focus \in {"team", "session", "factor", "link", "device",
             "tunnel", "page", "error", "notice", "host"}

LEMMA FollowsOne == MCSpec => []OneFollowed
<1>1. MCInit => OneFollowed
  BY DEF MCInit, OneFollowed
<1>2. OneFollowed /\ [MCNext]_mcVars => OneFollowed'
  BY DEF OneFollowed, MCNext, mcVars
<1>3. QED BY <1>1, <1>2, PTL DEF MCSpec, mcVars

(* The rows, the sockets, the clocks and the tasks in flight of every part *)
(* stay typed and within their bounds: members have accounts, clocks and   *)
(* codes stay in range, the log of the status page is in the order of time *)
(* and every mail without a stamp is a mail.                               *)
THEOREM PortalIsTyped == MCSpec => []TypesOK
<1>1. OneFollowed /\ TypeOK /\ S!TypeOK /\ F!TypeOK /\ L!TypeOK /\ D!TypeOK
      /\ T!TypeOK /\ P!TypeOK /\ E!TypeOK /\ N!TypeOK /\ H!TypeOK
      => TypesOK
  BY DEF OneFollowed, TypesOK
<1>2. QED
  BY <1>1, TeamAlone, FollowsOne, ForeignKeysHold, SessionsTyped, FactorTyped,
     LinksTyped, DeviceTyped, TunnelsStayWithinLimits, PageTyped, ErrorsTyped,
     NoticesTyped, HostsTyped, PTL
=============================================================================
