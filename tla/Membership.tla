----------------------------- MODULE Membership -----------------------------
(***************************************************************************)
(* Who belongs to which team, and in which role:                           *)
(*   src/routes/teams.ts   creation, invitations, roles, leaving, transfer *)
(*   src/routes/auth.ts    registration, e-mail verification, self-delete  *)
(*   src/routes/admin.ts   deletion of users and teams, plan overrides     *)
(*                                                                         *)
(* A request reads its caller's role in the preHandler, checks what it     *)
(* checks in statements of their own, and writes in a statement or a       *)
(* transaction; other requests run in between.  `at' is the statement that *)
(* comes next.  Which of his teams a caller acts in is chosen freely: the  *)
(* switch of teams and its fallback only decide among his memberships.     *)
(***************************************************************************)
EXTENDS Naturals, FiniteSets

CONSTANTS
  Users, Teams,    \* an account, once deleted, is not registered again
  Invites,         \* ids of invitations; an id is used once
  Handlers,        \* requests that may run at once
  FreeCap, PaidCap,\* plans.max_members of the two tiers of the model
  MaxOwned,        \* MAX_OWNED_TEAMS
  MaxRequests      \* bound: requests and changes of plan of a behaviour

ASSUME MembershipAssumption ==
  /\ IsFiniteSet(Users) /\ IsFiniteSet(Teams) /\ IsFiniteSet(Invites)
  /\ IsFiniteSet(Handlers) /\ Handlers # {}
  /\ FreeCap \in Nat \ {0} /\ PaidCap \in Nat /\ FreeCap <= PaidCap
  /\ MaxOwned \in Nat \ {0} /\ MaxRequests \in Nat

VARIABLES
  acct,     \* users: "absent", "unverified", "verified" or "deleted"
  trials,   \* trials granted to a user; trial_started_at is set by the first
  tier,     \* teams: "unused", effective tier "free" or "paid", or "deleted"
  role,     \* team_members
  invite,   \* team_invites: team, addressee, state
  req,      \* per handler: the request it runs, or Idle
  budget,   \* what MaxRequests leaves
  hist      \* history, per team: what has happened to it

teamVars == <<tier, role>>
vars == <<acct, trials, tier, role, invite, req, budget, hist>>

None == "none"
Roles == {None, "developer", "admin", "owner"}
Live(t) == tier[t] \in {"free", "paid"}
Cap(t) == IF tier[t] = "paid" THEN PaidCap ELSE FreeCap
Members(t) == {u \in Users : role[t][u] # None}
Owners(t) == {u \in Users : role[t][u] = "owner"}
Pending(t) == {i \in Invites : invite[i].st = "pending" /\ invite[i].team = t}
Used(t) == Cardinality(Members(t)) + Cardinality(Pending(t))

NoInvite == [st |-> "free", team |-> None, to |-> None]
FirstInvite == CHOOSE i \in Invites : TRUE
FreshInvite ==       \* ids do not matter; the bound on them ends invitations
  CHOOSE i \in Invites :
    invite[i].st = "free" \/ \A j \in Invites : invite[j].st # "free"

Idle == [op |-> "idle", by |-> None, team |-> None, on |-> None,
         inv |-> None, at |-> None, sole |-> {}]

(* The roles the preHandler and the handler's first lines ask for, and the *)
(* statement each request goes to next.                                    *)
Entry == [leave    |-> [may |-> {"admin", "developer"}, at |-> "write"],
          transfer |-> [may |-> {"owner"}, at |-> "check"],
          setRole  |-> [may |-> {"owner", "admin"}, at |-> "check"],
          remove   |-> [may |-> {"owner", "admin"}, at |-> "check"],
          invite   |-> [may |-> {"owner", "admin"}, at |-> "member"],
          revoke   |-> [may |-> {"owner", "admin"}, at |-> "write"],
          deleteTeam |-> [may |-> {"owner"}, at |-> "write"]]
Targeted == {"transfer", "setRole", "remove", "invite"}

(* Pairs of requests that can leave a team without an owner if they run at *)
(* once: the role or the number of members that one has checked changes.   *)
Clashing ==
  {{"transfer", o} : o \in {"setRole", "remove", "leave", "deleteMe",
                               "adminUser"}}
    \cup {{"deleteMe", o} : o \in {"accept", "verify"}}

(* A team with its owner, some members and at most one open invitation;    *)
(* the others are not registered, or are in no team (any more).            *)
Init ==
  \E u \in Users, t \in Teams, ms \in SUBSET Users, vs \in SUBSET Users :
    /\ u \in ms /\ ms \subseteq vs
    /\ acct = [v \in Users |-> IF v \in vs THEN "verified" ELSE "absent"]
    /\ trials = [v \in Users |-> IF v = u THEN 1 ELSE 0]
    /\ tier = [s \in Teams |-> IF s = t THEN "free" ELSE "unused"]
    /\ role = [s \in Teams |-> [v \in Users |->
                 IF s # t \/ v \notin ms THEN None
                 ELSE IF v = u THEN "owner" ELSE "developer"]]
    /\ \/ invite = [i \in Invites |-> NoInvite]
       \/ \E v \in Users \ ms :
            invite = [[i \in Invites |-> NoInvite] EXCEPT
              ![FirstInvite] = [st |-> "pending", team |-> t, to |-> v]]
    /\ Used(t) <= FreeCap
    /\ req = [h \in Handlers |-> Idle]
    /\ budget = MaxRequests
    /\ hist = [s \in Teams |-> {}]

-----------------------------------------------------------------------------
(* Beginnings.                                                             *)

Concerns(r, t) == r.op # "idle" /\ r.team \in {t, None}

(* What a new request r adds to the history of team t.                     *)
Overlap(r, t) ==
  LET others == {req[h].op : h \in {g \in Handlers : Concerns(req[g], t)}}
  IN  IF ~Concerns(r, t) THEN {}
      ELSE {x \in {"twin", "clash"} :
              IF x = "twin" THEN r.op = "transfer" /\ "transfer" \in others
              ELSE \E o \in others : {r.op, o} \in Clashing}

Begin(h, r) ==
  /\ req[h] = Idle /\ budget > 0
  /\ budget' = budget - 1
  /\ req' = [req EXCEPT ![h] = r]
  /\ hist' = [t \in Teams |-> hist[t] \cup Overlap(r, t)]
  /\ UNCHANGED <<acct, trials, tier, role, invite>>

(* A member's request on his team.                                         *)
TeamRequest(h) ==
  \E op \in DOMAIN Entry, u \in Users, t \in Teams, x \in Users :
    /\ acct[u] = "verified" /\ role[t][u] \in Entry[op].may
    /\ IF op \in Targeted THEN op = "transfer" => x # u ELSE x = u
    /\ \E i \in IF op = "revoke" THEN Invites ELSE {None} :
         Begin(h, [Idle EXCEPT !.op = op, !.by = u, !.team = t, !.on = x,
                               !.inv = i, !.at = Entry[op].at])

(* A user's request that is not about one of his teams: the link of an     *)
(* invitation to him, a new team, the end of his account.                  *)
UserRequest(h) ==
  \E u \in Users :
    /\ acct[u] = "verified"
    /\ \/ \E i \in Invites :
            /\ invite[i].st = "pending" /\ invite[i].to = u
            /\ Begin(h, [Idle EXCEPT !.op = "accept", !.by = u, !.inv = i,
                                     !.team = invite[i].team, !.at = "seats"])
       \/ Begin(h, [Idle EXCEPT !.op = "create", !.by = u, !.at = "write"])
       \/ Begin(h, [Idle EXCEPT !.op = "deleteMe", !.by = u, !.at = "check"])

(* A visitor: registration and the verification link.                      *)
Visitor(h) ==
  \E u \in Users :
    \/ /\ acct[u] = "absent"
       /\ Begin(h, [Idle EXCEPT !.op = "register", !.by = u, !.at = "check"])
    \/ /\ acct[u] = "unverified"
       /\ Begin(h, [Idle EXCEPT !.op = "verify", !.by = u, !.at = "write"])

(* A platform administrator.                                               *)
AdminRequest(h) ==
  \/ \E u \in Users :
       /\ acct[u] \in {"unverified", "verified"}
       /\ Begin(h, [Idle EXCEPT !.op = "adminUser", !.on = u, !.at = "write",
                      !.sole = {t \in Teams : Members(t) = {u}}])
  \/ \E t \in Teams :
       /\ Live(t)
       /\ Begin(h, [Idle EXCEPT !.op = "adminTeam", !.team = t, !.at = "write"])

-----------------------------------------------------------------------------
(* Faulty variants of definitions below, each a slip the code could have.  *)

(* The outgoing owner keeps his role.                                      *)
HandOverKeeping(r) ==
  role' = [role EXCEPT ![r.team][r.on] = IF @ = None THEN None ELSE "owner"]

(* A deletion of the team that leaves its invitations open.                *)
DropTeamsOnly(ts) ==
  /\ tier' = [t \in Teams |-> IF t \in ts THEN "deleted" ELSE tier[t]]
  /\ UNCHANGED invite

(* The trial is granted to whoever creates a team.                         *)
ClaimTrialAgain(u) == trials' = [trials EXCEPT ![u] = @ + 1]

(* An owner may delete his account if one other member is left.            *)
DeleteMeRefusedLate(u) ==
  \E t \in Teams : u \in Owners(t) /\ Cardinality(Members(t)) > 2

(* Invitations that are still open are not counted.                        *)
MembersOnly(t, adding) ==
  ~Live(t) \/ Cardinality(Members(t)) + adding <= Cap(t)

-----------------------------------------------------------------------------
(* Checks.                                                                 *)

Runs(h, op, at) == req[h].op = op /\ req[h].at = at
Done(h) == req' = [req EXCEPT ![h] = Idle]
GoOn(h, at) == req' = [req EXCEPT ![h].at = at]
OnlyRead == UNCHANGED <<acct, trials, tier, role, invite, budget, hist>>

(* The target's role: read here, written over by the next statement.       *)
CheckTarget(h) ==
  LET r == req[h]
      target == role[r.team][r.on]
  IN  /\ r.op \in {"transfer", "setRole", "remove"} /\ r.at = "check"
      /\ IF target = None \/ (target = "owner" /\ r.op # "transfer")
           THEN Done(h) ELSE GoOn(h, "write")
      /\ OnlyRead

(* seatLimitError; a team that is gone has no limit.                       *)
SeatsFree(t, adding) == ~Live(t) \/ Used(t) + adding <= Cap(t)

CheckAlreadyMember(h) ==
  /\ Runs(h, "invite", "member")
  /\ IF req[h].on \in Members(req[h].team) THEN Done(h) ELSE GoOn(h, "seats")
  /\ OnlyRead

CheckSeats(h) ==
  LET r == req[h] IN
  /\ r.op \in {"invite", "accept"} /\ r.at = "seats"
  /\ IF SeatsFree(r.team, IF r.op = "invite" THEN 1 ELSE 0)
       THEN GoOn(h, IF r.op = "invite" THEN "replace" ELSE "write")
       ELSE Done(h)
  /\ OnlyRead

(* Refused while he owns a team with other members.                        *)
DeleteMeRefused(u) == \E t \in Teams : u \in Owners(t) /\ Members(t) # {u}

CheckDeleteMe(h) ==
  LET u == req[h].by IN
  /\ Runs(h, "deleteMe", "check")
  /\ IF DeleteMeRefused(u)
       THEN Done(h) ELSE GoOn(h, "write")
  /\ OnlyRead

(* An address with a pending invitation gets no team of its own.           *)
CheckRegister(h) ==
  /\ Runs(h, "register", "check")
  /\ IF acct[req[h].by] # "absent" THEN Done(h)
     ELSE GoOn(h, IF \E i \in Invites : /\ invite[i].st = "pending"
                                        /\ invite[i].to = req[h].by
                  THEN "join" ELSE "found")
  /\ OnlyRead

-----------------------------------------------------------------------------
(* Writes.                                                                 *)

(* Rows of team_members that exist are updated, others are not made.       *)
HandOver(r) ==
  role' = [role EXCEPT ![r.team] = [u \in Users |->
             IF @[u] = None THEN None
             ELSE IF u = r.by THEN "admin"
             ELSE IF u = r.on THEN "owner" ELSE @[u]]]

WriteTransfer(h) ==
  /\ Runs(h, "transfer", "write")
  /\ HandOver(req[h])
  /\ Done(h)
  /\ UNCHANGED <<acct, trials, tier, invite, budget, hist>>

WriteRole(h) ==
  LET r == req[h] IN
  /\ Runs(h, "setRole", "write")
  /\ \E new \in {"admin", "developer"} :
       role' = [role EXCEPT ![r.team][r.on] = IF @ = None THEN None ELSE new]
  /\ Done(h)
  /\ UNCHANGED <<acct, trials, tier, invite, budget, hist>>

DeleteMember(h) ==
  LET r == req[h] IN
  /\ r.op \in {"leave", "remove"} /\ r.at = "write"
  /\ role' = [role EXCEPT ![r.team][r.on] = None]
  /\ Done(h)
  /\ UNCHANGED <<acct, trials, tier, invite, budget, hist>>

WriteRevoke(h) ==
  LET r == req[h] IN
  /\ Runs(h, "revoke", "write")
  /\ invite' = [invite EXCEPT ![r.inv].st =
                  IF r.inv \in Pending(r.team) THEN "gone" ELSE @]
  /\ Done(h)
  /\ UNCHANGED <<acct, trials, tier, role, budget, hist>>

(* A new invitation replaces the open ones to the same address ...         *)
ReplaceInvite(h) ==
  LET r == req[h] IN
  /\ Runs(h, "invite", "replace")
  /\ invite' = [i \in Invites |->
       IF /\ invite[i].team = r.team /\ invite[i].to = r.on
          /\ invite[i].st \in {"pending", "expired"}
       THEN [invite[i] EXCEPT !.st = "gone"] ELSE invite[i]]
  /\ GoOn(h, "insert")
  /\ UNCHANGED <<acct, trials, tier, role, budget, hist>>

(* ... in a second statement.  The row needs its team and its inviter.     *)
InsertInvite(h) ==
  LET r == req[h] IN
  /\ Runs(h, "invite", "insert")
  /\ IF Live(r.team) /\ acct[r.by] = "verified" /\ invite[FreshInvite].st = "free"
       THEN invite' = [invite EXCEPT ![FreshInvite] =
                         [st |-> "pending", team |-> r.team, to |-> r.on]]
       ELSE UNCHANGED invite
  /\ Done(h)
  /\ UNCHANGED <<acct, trials, tier, role, budget, hist>>

(* user u takes up the invitations is; whoever is a member stays what he   *)
(* is, and an invitation that was deleted meanwhile is not stamped.        *)
Join(u, is, ts) ==
  /\ role' = [t \in Teams |-> [role[t] EXCEPT ![u] =
                IF t \in ts /\ @ = None THEN "developer" ELSE @]]
  /\ invite' = [i \in Invites |-> IF i \in is /\ invite[i].st # "gone"
                  THEN [invite[i] EXCEPT !.st = "accepted"] ELSE invite[i]]

(* One transaction; it fails when the team or the account is gone.         *)
WriteAccept(h) ==
  LET r == req[h] IN
  /\ Runs(h, "accept", "write")
  /\ IF Live(r.team) /\ acct[r.by] = "verified"
       THEN Join(r.by, {r.inv}, {r.team}) ELSE UNCHANGED <<role, invite>>
  /\ Done(h)
  /\ UNCHANGED <<acct, trials, tier, budget, hist>>

(* The verification takes up every open invitation to the address, without *)
(* a look at the seats.                                                    *)
WriteVerify(h) ==
  LET u == req[h].by
      open == {i \in Invites : invite[i].st = "pending" /\ invite[i].to = u}
  IN  /\ Runs(h, "verify", "write")
      /\ IF acct[u] = "deleted" THEN UNCHANGED <<acct, role, invite>>
         ELSE /\ acct' = [acct EXCEPT ![u] = "verified"]
              /\ Join(u, open, {invite[i].team : i \in open})
      /\ Done(h)
      /\ UNCHANGED <<trials, tier, budget, hist>>

Found(u, t) ==
  /\ tier[t] = "unused"
  /\ tier' = [tier EXCEPT ![t] = "free"]
  /\ role' = [role EXCEPT ![t][u] = "owner"]

(* The unique address decides between two registrations.                   *)
WriteRegister(h) ==
  LET u == req[h].by IN
  /\ req[h].op = "register" /\ req[h].at \in {"join", "found"}
  /\ IF acct[u] # "absent" THEN UNCHANGED <<acct, trials, tier, role>>
     ELSE /\ acct' = [acct EXCEPT ![u] = "unverified"]
          /\ IF req[h].at = "join" THEN UNCHANGED <<trials, tier, role>>
             ELSE /\ \E t \in Teams : Found(u, t)
                  /\ trials' = [trials EXCEPT ![u] = @ + 1]
  /\ Done(h)
  /\ UNCHANGED <<invite, budget, hist>>

(* teamCreationBlocker, under the lock of the user's row.                  *)
Blocked(u) ==
  LET owned == {t \in Teams : u \in Owners(t)} IN
  /\ owned # {}
  /\ Cardinality(owned) >= MaxOwned \/ \A t \in owned : tier[t] = "free"

ClaimTrial(u) == trials' = [trials EXCEPT ![u] = IF @ = 0 THEN 1 ELSE @]

WriteCreate(h) ==
  LET u == req[h].by IN
  /\ Runs(h, "create", "write")
  /\ IF acct[u] = "deleted" \/ Blocked(u) THEN UNCHANGED <<trials, tier, role>>
     ELSE ClaimTrial(u) /\ \E t \in Teams : Found(u, t)
  /\ Done(h)
  /\ UNCHANGED <<acct, invite, budget, hist>>

(* Rows that hang on the deleted teams and users go with them.             *)
DropTeams(ts) ==
  /\ tier' = [t \in Teams |-> IF t \in ts THEN "deleted" ELSE tier[t]]
  /\ invite' = [i \in Invites |-> IF invite[i].team \in ts
                  THEN [invite[i] EXCEPT !.st = "gone"] ELSE invite[i]]

Drop(us, ts) ==
  /\ acct' = [u \in Users |-> IF u \in us THEN "deleted" ELSE acct[u]]
  /\ role' = [t \in Teams |-> [u \in Users |->
                IF u \in us \/ t \in ts THEN None ELSE role[t][u]]]
  /\ DropTeams(ts)

(* The owner's deletion takes every member who is in no other team along,  *)
(* the administrator's only those who never verified their address.        *)
WriteDeleteTeam(h) ==
  LET t == req[h].team
      stranded == {u \in Members(t) : \A s \in Teams \ {t} : u \notin Members(s)}
  IN  /\ req[h].op \in {"deleteTeam", "adminTeam"} /\ req[h].at = "write"
      /\ Drop(IF req[h].op = "deleteTeam" THEN stranded
              ELSE {u \in stranded : acct[u] = "unverified"},
              {t} \cap {s \in Teams : Live(s)})
      /\ Done(h)
      /\ UNCHANGED <<trials, budget, hist>>

(* The transaction looks again for teams of which he is the only member,   *)
(* but not whether he owns one with others.                                *)
WriteDeleteMe(h) ==
  LET u == req[h].by IN
  /\ Runs(h, "deleteMe", "write")
  /\ Drop({u}, {t \in Teams : Members(t) = {u}})
  /\ Done(h)
  /\ UNCHANGED <<trials, budget, hist>>

(* The administrator's deletion asks nobody and takes the teams along that *)
(* had no other member when it began.                                      *)
WriteDeleteUser(h) ==
  LET u == req[h].on IN
  /\ Runs(h, "adminUser", "write")
  /\ Drop({u}, {t \in req[h].sole : Live(t)})
  /\ hist' = [t \in Teams |-> IF u \in Owners(t) THEN hist[t] \cup {"admin"}
                              ELSE hist[t]]
  /\ Done(h)
  /\ UNCHANGED <<trials, budget>>

-----------------------------------------------------------------------------
(* plan_override by an administrator, plan_tier by a Stripe event.         *)
ChangePlan(t) ==
  /\ Live(t) /\ budget > 0 /\ budget' = budget - 1
  /\ tier' = [tier EXCEPT ![t] = IF @ = "free" THEN "paid" ELSE "free"]
  /\ hist' = [hist EXCEPT ![t] = @ \cup {"paid"}]
  /\ UNCHANGED <<acct, trials, role, invite, req>>

Expire(i) ==
  /\ invite[i].st = "pending"
  /\ invite' = [invite EXCEPT ![i].st = "expired"]
  /\ UNCHANGED <<acct, trials, tier, role, req, budget, hist>>

Handle(h) ==
  \/ CheckTarget(h) \/ CheckAlreadyMember(h) \/ CheckSeats(h)
  \/ CheckDeleteMe(h) \/ CheckRegister(h)
  \/ WriteTransfer(h) \/ WriteRole(h) \/ DeleteMember(h) \/ WriteRevoke(h)
  \/ ReplaceInvite(h) \/ InsertInvite(h) \/ WriteAccept(h) \/ WriteVerify(h)
  \/ WriteRegister(h) \/ WriteCreate(h) \/ WriteDeleteTeam(h)
  \/ WriteDeleteMe(h) \/ WriteDeleteUser(h)

Next ==
  \/ \E h \in Handlers :
       TeamRequest(h) \/ UserRequest(h) \/ Visitor(h) \/ AdminRequest(h) \/ Handle(h)
  \/ \E t \in Teams : ChangePlan(t)
  \/ \E i \in Invites : Expire(i)

Spec == Init /\ [][Next]_vars

-----------------------------------------------------------------------------
(* Types, and what the foreign keys promise: members are accounts of live  *)
(* teams, open invitations are to live teams.                              *)
TypeOK ==
  /\ acct \in [Users -> {"absent", "unverified", "verified", "deleted"}]
  /\ trials \in [Users -> Nat]
  /\ tier \in [Teams -> {"unused", "free", "paid", "deleted"}]
  /\ role \in [Teams -> [Users -> Roles]]
  /\ \A t \in Teams, u \in Users : role[t][u] # None =>
       Live(t) /\ acct[u] \in {"unverified", "verified"}
  /\ \A i \in Invites : invite[i].st = "pending" => Live(invite[i].team)
  /\ budget \in 0..MaxRequests
  /\ hist \in [Teams -> SUBSET {"twin", "clash", "admin", "paid"}]

(* A team gets a second owner only out of two transfers that ran at once:  *)
(* no order of role changes, departures, deletions, joins and single       *)
(* transfers makes two.                                                    *)
SecondOwnerNeedsTwoTransfers ==
  \A t \in Teams : "twin" \in hist[t] \/ Cardinality(Owners(t)) <= 1

(* A live team keeps its owner unless an administrator deleted him or one  *)
(* of the clashing pairs of requests ran at once.                          *)
OwnerKept ==
  \A t \in Teams :
    Live(t) /\ hist[t] \cap {"clash", "admin"} = {} => Owners(t) # {}

(* The trial belongs to the person: registrations and new teams, in any    *)
(* order and however many at once, grant an account one trial.             *)
TrialOnce == \A u \in Users : trials[u] <= 1

(* The seats in use, open invitations included, go beyond the largest      *)
(* limit the team has had by no more than the requests that ran beside the *)
(* one that took the last seat.                                            *)
SeatOvershootBounded ==
  \A t \in Teams :
    Used(t) <= (IF "paid" \in hist[t] THEN PaidCap ELSE FreeCap)
               + Cardinality(Handlers) - 1

-----------------------------------------------------------------------------
(* Statements of the repository's comments.                                *)

(* A team must never end up with two owners or none (teams.ts:874-875),    *)
(* and an owner's departure cannot orphan it (auth.ts:326-327).            *)
OneOwner ==
  \A t \in Teams :
    Live(t) /\ "admin" \notin hist[t] => Cardinality(Owners(t)) = 1
=============================================================================
