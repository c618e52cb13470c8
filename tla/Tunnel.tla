------------------------------- MODULE Tunnel -------------------------------
(***************************************************************************)
(* The relay between the CLI's WebSockets and one environment:             *)
(*   src/routes/tunnel.ts                                                  *)
(*                                                                         *)
(* Every callback is a step.  The client's bytes are messages, numbered in *)
(* the order they are sent; the other direction keeps nothing.             *)
(***************************************************************************)
EXTENDS Naturals, Sequences, FiniteSets

CONSTANTS
  Clients,      \* WebSockets to the environment
  MaxTunnels,   \* MAX_TUNNELS_PER_ENV
  MaxPending,   \* MAX_PENDING_BYTES, in messages
  MaxMessages   \* bound: messages of a client

TunnelAssumption == IsFiniteSet(Clients) /\ MaxTunnels \in Nat /\ MaxPending \in Nat

VARIABLES
  active,    \* activeTunnels of the environment
  socket,    \* the WebSocket: "new", "open", "closing"; then "closed", its
             \* event still to come, or "gone"
  relay,     \* "none", "connecting", "piping" or "closed"
  tcp,       \* the upstream socket: "none", "dialling", "open", "destroyed"
  pending,   \* messages that wait for the upstream
  sent, got  \* messages the client has sent, the upstream has received

vars == <<active, socket, relay, tcp, pending, sent, got>>

Init ==
  /\ active = 0
  /\ socket = [c \in Clients |-> "new"]
  /\ relay = [c \in Clients |-> "none"]
  /\ tcp = [c \in Clients |-> "none"]
  /\ pending = [c \in Clients |-> <<>>]
  /\ sent = [c \in Clients |-> 0]
  /\ got = [c \in Clients |-> <<>>]

-----------------------------------------------------------------------------
(* The tunnel is released once, the upstream goes, the client is told.     *)
Cleanup(c, upstream) ==
  /\ IF relay[c] = "closed" THEN UNCHANGED <<active, relay>>
     ELSE active' = active - 1 /\ relay' = [relay EXCEPT ![c] = "closed"]
  /\ tcp' = [tcp EXCEPT ![c] = upstream]

(* The handshake is over when the handler runs; the client may be gone.    *)
Open(c) ==
  /\ socket[c] = "new"
  /\ IF active >= MaxTunnels
     THEN socket' = [socket EXCEPT ![c] = "gone"] /\ UNCHANGED <<active, relay, tcp>>
     ELSE /\ active' = active + 1
          /\ socket' = [socket EXCEPT ![c] = "open"]
          /\ relay' = [relay EXCEPT ![c] = "connecting"]
          /\ tcp' = [tcp EXCEPT ![c] = "dialling"]
  /\ UNCHANGED <<pending, sent, got>>
OpenTooLate(c) ==
  /\ socket[c] = "new" /\ active < MaxTunnels
  /\ socket' = [socket EXCEPT ![c] = "gone"]
  /\ relay' = [relay EXCEPT ![c] = "closed"]
  /\ UNCHANGED <<active, tcp, pending, sent, got>>

(* socket.on('message')                                                    *)
Message(c) ==
  /\ socket[c] = "open" /\ sent[c] < MaxMessages
  /\ sent' = [sent EXCEPT ![c] = @ + 1]
  /\ IF relay[c] = "piping"
     THEN /\ got' = [got EXCEPT ![c] = Append(@, sent[c] + 1)]
          /\ UNCHANGED <<active, socket, relay, tcp, pending>>
     ELSE IF Len(pending[c]) >= MaxPending
     THEN /\ Cleanup(c, tcp[c]) /\ socket' = [socket EXCEPT ![c] = "closing"]
          /\ UNCHANGED <<pending, got>>
     ELSE /\ pending' = [pending EXCEPT ![c] = Append(@, sent[c] + 1)]
          /\ UNCHANGED <<active, socket, relay, tcp, got>>

(* The peer closes, or the close of the relay is through.                  *)
SocketCloses(c) ==
  /\ socket[c] \in {"open", "closing"}
  /\ socket' = [socket EXCEPT ![c] = "closed"]
  /\ UNCHANGED <<active, relay, tcp, pending, sent, got>>
SocketClosed(c) ==
  /\ socket[c] = "closed" /\ socket' = [socket EXCEPT ![c] = "gone"]
  /\ Cleanup(c, IF tcp[c] = "open" THEN "destroyed" ELSE tcp[c])
  /\ UNCHANGED <<pending, sent, got>>

(* Faulty variant of Connected, a slip the code could have: a client that  *)
(* left during the dial is not noticed.                                    *)
ConnectedAnyway(c) ==
  /\ tcp[c] = "dialling"
  /\ tcp' = [tcp EXCEPT ![c] = "open"]
  /\ relay' = [relay EXCEPT ![c] = IF @ = "closed" THEN @ ELSE "piping"]
  /\ got' = [got EXCEPT ![c] = @ \o pending[c]]
  /\ pending' = [pending EXCEPT ![c] = <<>>]
  /\ UNCHANGED <<active, socket, sent>>

(* connect() has an upstream; what waited is flushed before anything else. *)
Connected(c) ==
  /\ tcp[c] = "dialling"
  /\ IF relay[c] = "closed"
     THEN tcp' = [tcp EXCEPT ![c] = "destroyed"] /\ UNCHANGED <<relay, got, pending>>
     ELSE /\ tcp' = [tcp EXCEPT ![c] = "open"]
          /\ relay' = [relay EXCEPT ![c] = "piping"]
          /\ got' = [got EXCEPT ![c] = @ \o pending[c]]
          /\ pending' = [pending EXCEPT ![c] = <<>>]
  /\ UNCHANGED <<active, socket, sent>>

(* The dial fails or times out, the environment is not ready, or the       *)
(* upstream ends later: the client is told if it is still there.           *)
UpstreamEnds(c) ==
  /\ tcp[c] \in {"dialling", "open"}
  /\ Cleanup(c, "destroyed")
  /\ socket' = [socket EXCEPT ![c] = IF @ = "open" THEN "closing" ELSE @]
  /\ UNCHANGED <<pending, sent, got>>

Next ==
  \E c \in Clients :
    \/ Open(c) \/ OpenTooLate(c) \/ Message(c) \/ SocketCloses(c) \/ SocketClosed(c)
    \/ Connected(c) \/ UpstreamEnds(c)

Spec == Init /\ [][Next]_vars

-----------------------------------------------------------------------------
TypeOK ==
  /\ active \in 0..MaxTunnels
  /\ \A c \in Clients :
       /\ socket[c] \in {"new", "open", "closing", "closed", "gone"}
       /\ relay[c] \in {"none", "connecting", "piping", "closed"}
       /\ tcp[c] \in {"none", "dialling", "open", "destroyed"}
       /\ Len(pending[c]) <= MaxPending

(* The counter of the environment counts the relays that are in use, no    *)
(* relay that is closed keeps an upstream, and what the upstream receives  *)
(* is what the client sent, all of it and in order, while both live.       *)
RelayIsFaithful ==
  /\ active = Cardinality({c \in Clients : relay[c] \in {"connecting", "piping"}})
  /\ \A c \in Clients :
       /\ relay[c] = "closed" => tcp[c] # "open"
       /\ socket[c] = "gone" => relay[c] \in {"none", "closed"}
       /\ got[c] = [i \in 1..Len(got[c]) |-> i]
       /\ relay[c] = "piping" => Len(got[c]) = sent[c]
=============================================================================
