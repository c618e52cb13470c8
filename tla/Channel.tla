------------------------------ MODULE Channel ------------------------------
(***************************************************************************)
(* What the relay promises the clients of one environment, with sockets,   *)
(* buffers and dials left out: a client has a channel at most once, no     *)
(* more than Limit of them exist at a time, the bytes of a channel come    *)
(* out in the order they went in, and none come out once it is over.       *)
(***************************************************************************)
EXTENDS Naturals, Sequences, FiniteSets

CONSTANTS Clients, Limit

VARIABLES
  live,     \* clients whose channel exists
  over,     \* clients whose channel has been, or was refused for good
  stream,   \* what a client has put in, in messages numbered from one
  through   \* how many of them have come out

channelVars == <<live, over, stream, through>>

Init ==
  /\ live = {} /\ over = {}
  /\ stream = [c \in Clients |-> <<>>]
  /\ through = [c \in Clients |-> 0]

(* A channel begins where there is room for one, and it does so once.      *)
Begin(c) ==
  /\ c \notin live \cup over /\ Cardinality(live) < Limit
  /\ live' = live \cup {c}
  /\ UNCHANGED <<over, stream, through>>
TurnAway(c) ==
  /\ c \notin live \cup over /\ over' = over \cup {c}
  /\ UNCHANGED <<live, stream, through>>

(* A message goes in at the end; it comes out at once or stays.            *)
PutIn(c) ==
  /\ c \in live
  /\ stream' = [stream EXCEPT ![c] = Append(@, Len(@) + 1)]
  /\ through' \in {through, [through EXCEPT ![c] = Len(stream'[c])]}
  /\ UNCHANGED <<live, over>>

(* All that has stayed comes out.                                          *)
ComeOut(c) ==
  /\ c \in live /\ through' = [through EXCEPT ![c] = Len(stream[c])]
  /\ UNCHANGED <<live, over, stream>>

(* A channel ends; what has not come out by then never does.               *)
End(c) ==
  /\ c \in live
  /\ live' = live \ {c} /\ over' = over \cup {c}
  /\ UNCHANGED <<stream, through>>

Next ==
  \E c \in Clients : Begin(c) \/ TurnAway(c) \/ PutIn(c) \/ ComeOut(c) \/ End(c)

Spec == Init /\ [][Next]_channelVars
=============================================================================
