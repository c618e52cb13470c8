----------------------------- MODULE DeviceLogin -----------------------------
(***************************************************************************)
(* devplat login and the API tokens of a team:                             *)
(*   src/routes/deviceAuth.ts  start, approve, poll and logout             *)
(*   src/routes/tokens.ts      tokens made and revoked in the dashboard    *)
(*   src/plugins/auth.ts       requireApiTokenOrUser                       *)
(*                                                                         *)
(* One device code, polled by a CLI that may repeat a poll before the last *)
(* one has answered, and approved by members of several teams.             *)
(***************************************************************************)
EXTENDS Naturals, FiniteSets

CONSTANTS
  Polls,    \* polls in flight at once
  Tokens,   \* rows of api_tokens
  Teams

DeviceAssumption == IsFiniteSet(Polls) /\ IsFiniteSet(Tokens)

None == "none"

VARIABLES
  status,    \* device_auth_requests.status; "none" before the start
  team,      \* its team_id
  expired,   \* expires_at has passed
  poll,      \* per poll: its next statement and what it has read
  token,     \* api_tokens: team, state, and whether a login made it
  lost       \* history: polls that died between the claim and the token

vars == <<status, team, expired, poll, token, lost>>

Idle == [at |-> "idle", team |-> None]
NoToken == [team |-> None, state |-> "new", login |-> FALSE]

Init ==
  /\ status = None /\ team = None /\ expired = FALSE
  /\ poll = [p \in Polls |-> Idle]
  /\ token = [k \in Tokens |-> NoToken]
  /\ lost = 0

-----------------------------------------------------------------------------
(* Faulty variants of definitions below, each a slip the code could have.  *)

(* The claim does not look at the status again.                            *)
ClaimBlindly(p) == TRUE

-----------------------------------------------------------------------------
(* /auth/device/start                                                      *)
Start ==
  /\ status = None /\ status' = "pending"
  /\ UNCHANGED <<team, expired, poll, token, lost>>

(* /auth/device/approve by a member of team t                              *)
Approvable == status = "pending"
Approve(t) ==
  /\ Approvable /\ ~expired
  /\ status' = "approved" /\ team' = t
  /\ UNCHANGED <<expired, poll, token, lost>>

Expire ==
  /\ status # None /\ ~expired /\ expired' = TRUE
  /\ UNCHANGED <<status, team, poll, token, lost>>

(* A later start deletes requests that expired an hour ago.                *)
Sweep ==
  /\ expired /\ status # "gone" /\ status' = "gone"
  /\ UNCHANGED <<team, expired, poll, token, lost>>

(* /auth/device/token: the row is read; only an approved one goes on ...   *)
PollRead(p) ==
  /\ poll[p] = Idle /\ status = "approved" /\ ~expired
  /\ poll' = [poll EXCEPT ![p] = [at |-> "claim", team |-> None]]
  /\ UNCHANGED <<status, team, expired, token, lost>>

(* ... to the conditional UPDATE that claims it ...                        *)
Claimable(p) == status = "approved"
Claim(p) ==
  /\ poll[p].at = "claim"
  /\ IF Claimable(p)
     THEN status' = "completed" /\ poll' = [poll EXCEPT ![p] = [at |-> "mint", team |-> team]]
     ELSE UNCHANGED status /\ poll' = [poll EXCEPT ![p] = Idle]
  /\ UNCHANGED <<team, expired, token, lost>>

(* ... and to the token.                                                   *)
Mint(p, k) ==
  /\ poll[p].at = "mint" /\ token[k] = NoToken
  /\ token' = [token EXCEPT ![k] = [team |-> poll[p].team, state |-> "live", login |-> TRUE]]
  /\ poll' = [poll EXCEPT ![p] = Idle]
  /\ UNCHANGED <<status, team, expired, lost>>

Dies(p) ==
  /\ poll[p] # Idle
  /\ lost' = lost + (IF poll[p].at = "mint" THEN 1 ELSE 0)
  /\ poll' = [poll EXCEPT ![p] = Idle]
  /\ UNCHANGED <<status, team, expired, token>>

(* POST /tokens                                                            *)
CreateToken(t, k) ==
  /\ token[k] = NoToken
  /\ token' = [token EXCEPT ![k] = [team |-> t, state |-> "live", login |-> FALSE]]
  /\ UNCHANGED <<status, team, expired, poll, lost>>

(* DELETE /tokens/:id, logout, or the end of its lifetime.                 *)
EndToken(k) ==
  /\ token[k].state = "live"
  /\ token' = [token EXCEPT ![k].state = "ended"]
  /\ UNCHANGED <<status, team, expired, poll, lost>>

Next ==
  \/ Start \/ Expire \/ Sweep \/ \E t \in Teams : Approve(t)
  \/ \E p \in Polls : PollRead(p) \/ Claim(p) \/ Dies(p) \/ \E k \in Tokens : Mint(p, k)
  \/ \E k \in Tokens : EndToken(k) \/ \E t \in Teams : CreateToken(t, k)

Spec == Init /\ [][Next]_vars

-----------------------------------------------------------------------------
TypeOK ==
  /\ status \in {None, "pending", "approved", "completed", "gone"}
  /\ team \in Teams \cup {None} /\ expired \in BOOLEAN /\ lost \in Nat
  /\ \A p \in Polls : poll[p].at \in {"idle", "claim", "mint"}
  /\ \A k \in Tokens : token[k].state \in {"new", "live", "ended"}

(* A device code is worth one token, of the team that approved it: it was  *)
(* made, is being made, or was lost with its poll, once, and only for a    *)
(* code that is completed.                                                 *)
OneTokenPerCode ==
  LET made == {k \in Tokens : token[k].login}
      making == {p \in Polls : poll[p].at = "mint"}
      sum == Cardinality(made) + Cardinality(making) + lost
  IN  /\ sum <= 1
      /\ status = "completed" => sum = 1
      /\ status \in {None, "pending", "approved"} => sum = 0
      /\ \A k \in made : token[k].team = team
      /\ \A p \in making : poll[p].team = team
=============================================================================
