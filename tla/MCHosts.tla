------------------------------- MODULE MCHosts -------------------------------
(* Two instances of HostHealth side by side, one of which a behaviour       *)
(* follows: one poller on a host with runs whose accounting can drift, and  *)
(* two overlapping poller ticks on a host without runs.                     *)
EXTENDS HostHealth

CONSTANT Overlapping   \* the ticks of the second instance

VARIABLE focus         \* the instance this behaviour follows

Alerts == INSTANCE HostHealth WITH Pollers <- Overlapping, Envs <- {}

mcVars == <<vars, focus>>

MCInit ==
  \/ focus = "alerts" /\ Alerts!Init
  \/ focus = "books" /\ Init

FollowAlerts == focus = "alerts" /\ Alerts!Next /\ UNCHANGED focus
Books(A)     == focus = "books" /\ A /\ UNCHANGED focus
FollowBooks  == Books(Next)

MCNext == FollowAlerts \/ FollowBooks

(* HostHealth!FairSpec, for the instance it is about.                      *)
MCSpec ==
  /\ MCInit /\ [][MCNext]_mcVars
  /\ \A p \in Pollers : WF_mcVars(Books(Poll(p)))
  /\ WF_mcVars(Books(TimePasses))
  /\ WF_mcVars(Books(SendHeartbeat))
  /\ \A u \in Usage : SF_mcVars(Books(Heartbeat(u)))
  /\ \A e \in Envs : WF_mcVars(Books(Book(e)))

-----------------------------------------------------------------------------
(* HostHealth!TypeOK of the instance that is followed.                     *)
TypesOK == IF focus = "alerts" THEN Alerts!TypeOK ELSE TypeOK

(* A host whose agent is gone for good ends up with an open alert, though  *)
(* polls, heartbeats and the link fail or recover on their own             *)
(* (healthPoller.ts).                                                      *)
DeadHostIsAlerted == [](focus = "books" /\ agent = "down") ~> [](alerted)

(* A host whose agent runs is offered to the allocator again.              *)
LiveHostComesOnline == [](focus = "books" /\ agent = "up") ~> status = "online"

(* Once nothing is placed or torn down any more, the row agrees with what  *)
(* the agent of a running host counts, whatever failed before and in       *)
(* whatever order polls, heartbeats and bookings were applied.             *)
DriftHeals ==
  \A S \in SUBSET Envs :
    [](focus = "books" /\ agent = "up" /\ Quiet /\ vmOn = S)
      ~> [](used = Cardinality(S))
=============================================================================
