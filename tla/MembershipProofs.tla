-------------------------- MODULE MembershipProofs --------------------------
(***************************************************************************)
(* Theorems about Membership for every number of users, teams, invitations *)
(* and requests at once, and for every seat limit.                         *)
(***************************************************************************)
EXTENDS Membership, FiniteSetTheorems, TLAPS

-----------------------------------------------------------------------------
(* The domains of the rows and of the requests that run.                   *)

InviteRows == [st : {"free", "pending", "expired", "accepted", "gone"},
               team : Teams \cup {None}, to : Users \cup {None}]
Ops == {"idle", "leave", "transfer", "setRole", "remove", "invite", "revoke",
        "deleteTeam", "accept", "create", "deleteMe", "register", "verify",
        "adminUser", "adminTeam"}
Statements == {None, "write", "check", "member", "seats", "replace", "insert",
               "join", "found"}
RequestRows == [op : Ops, by : Users \cup {None}, team : Teams \cup {None},
                on : Users \cup {None}, inv : Invites \cup {None},
                at : Statements, sole : SUBSET Teams]

AccountsTyped ==
  /\ acct \in [Users -> {"absent", "unverified", "verified", "deleted"}]
  /\ trials \in [Users -> Nat]
TeamsTyped ==
  /\ tier \in [Teams -> {"unused", "free", "paid", "deleted"}]
  /\ role \in [Teams -> [Users -> Roles]]
  /\ hist \in [Teams -> SUBSET {"twin", "clash", "admin", "paid"}]
InvitesTyped == invite \in [Invites -> InviteRows]
RequestsTyped == req \in [Handlers -> RequestRows]

Typed == AccountsTyped /\ TeamsTyped /\ InvitesTyped /\ RequestsTyped

LEMMA EntryFacts ==
  \A op \in DOMAIN Entry :
    /\ op \in Ops \ {"idle", "accept", "create", "register", "verify",
                      "deleteMe", "adminUser", "adminTeam"}
    /\ Entry[op].at \in Statements /\ None \notin Entry[op].may
    /\ op = "transfer" => Entry[op].may = {"owner"}
    /\ op = "leave" => Entry[op].may = {"admin", "developer"}
    /\ op \in {"transfer", "setRole", "remove"} => Entry[op].at = "check"
    /\ op = "invite" => Entry[op].at = "member"
  BY DEF Entry, Ops, Statements, None

LEMMA NoRequest == Idle \in RequestRows
  BY DEF Idle, RequestRows, Ops, Statements

-----------------------------------------------------------------------------
(* Requests begin with a row of their own and leave the rest alone.  A     *)
(* transfer begins with an owner, a departure with another member, a new   *)
(* team with an account; what is about a member begins with a check.       *)

Fits(r) ==
  /\ r.op \in {"transfer", "setRole", "remove", "leave"} =>
       r.team \in Teams /\ r.by \in Users /\ r.on \in Users
  /\ r.op = "transfer" => r.by # r.on
  /\ r.op = "leave" => r.by = r.on
  /\ r.op \in {"deleteTeam", "adminTeam"} => r.team \in Teams
  /\ r.op \in {"deleteMe", "verify", "adminUser"} => r.team = None
  /\ r.op \in {"deleteMe", "create", "register"} => r.by \in Users

(* Who invites is a member; who accepts has an open invitation.            *)
Asks(r) ==
  /\ r.team \in Teams /\ r.by \in Users /\ r.on \in Users /\ r.at = "member"
  /\ role[r.team][r.by] # None
Answers(r) ==
  /\ r.inv \in Invites /\ r.by \in Users /\ invite[r.inv].st = "pending"
  /\ invite[r.inv].team = r.team /\ invite[r.inv].to = r.by

Rightful(r) ==
  /\ Fits(r)
  /\ r.op = "transfer" => role[r.team][r.by] = "owner"
  /\ r.op \in {"setRole", "remove"} => role[r.team][r.by] # None
  /\ r.op = "leave" => role[r.team][r.by] \in {"admin", "developer"}
  /\ r.op = "create" => acct[r.by] = "verified"
  /\ r.op \in {"transfer", "setRole", "remove", "deleteMe"} => r.at = "check"
  /\ r.op = "invite" => Asks(r)
  /\ r.op = "accept" => Answers(r)

Begins(h) == \E r \in RequestRows : Rightful(r) /\ Begin(h, r)

LEMMA RequestBegins ==
  ASSUME Typed, NEW h \in Handlers,
         TeamRequest(h) \/ UserRequest(h) \/ Visitor(h) \/ AdminRequest(h)
  PROVE  Begins(h)
<1> USE DEF Begins, Rightful, Fits, Asks, Answers, RequestRows, Idle, Statements
<1>1. CASE TeamRequest(h)
  <2>1. PICK op \in DOMAIN Entry, u \in Users, t \in Teams, x \in Users :
          /\ role[t][u] \in Entry[op].may
          /\ IF op \in Targeted THEN op = "transfer" => x # u ELSE x = u
          /\ \E i \in IF op = "revoke" THEN Invites ELSE {None} :
               Begin(h, [Idle EXCEPT !.op = op, !.by = u, !.team = t, !.on = x,
                                     !.inv = i, !.at = Entry[op].at])
    BY <1>1 DEF TeamRequest
  <2>2. PICK i \in Invites \cup {None} :
          Begin(h, [Idle EXCEPT !.op = op, !.by = u, !.team = t, !.on = x,
                                !.inv = i, !.at = Entry[op].at])
    BY <2>1
  <2> DEFINE r == [Idle EXCEPT !.op = op, !.by = u, !.team = t, !.on = x,
                               !.inv = i, !.at = Entry[op].at]
  <2>3. r \in RequestRows
    BY <2>1, <2>2, EntryFacts
  <2>4. Rightful(r)
    BY <2>1, <2>2, EntryFacts DEF Targeted
  <2>q. QED
    BY <2>2, <2>3, <2>4
<1>2. CASE UserRequest(h)
  <2>1. PICK u \in Users :
          /\ acct[u] = "verified"
          /\ \/ \E i \in Invites :
                  /\ invite[i].team \in Teams \cup {None}
                  /\ invite[i].st = "pending" /\ invite[i].to = u
                  /\ Begin(h, [Idle EXCEPT !.op = "accept", !.by = u, !.inv = i,
                                           !.team = invite[i].team, !.at = "seats"])
             \/ Begin(h, [Idle EXCEPT !.op = "create", !.by = u, !.at = "write"])
             \/ Begin(h, [Idle EXCEPT !.op = "deleteMe", !.by = u, !.at = "check"])
    BY <1>2 DEF UserRequest, Typed, InvitesTyped, InviteRows
  <2>q. QED
    BY <2>1 DEF Ops
<1>3. CASE Visitor(h)
  BY <1>3 DEF Visitor, Ops
<1>4. CASE AdminRequest(h)
  BY <1>4 DEF AdminRequest, Ops
<1>q. QED
  BY <1>1, <1>2, <1>3, <1>4

(* The other steps of a request end it or take it to its next statement.   *)
Continues(h) ==
  /\ req' \in [Handlers -> RequestRows]
  /\ \A g \in Handlers \ {h} : req'[g] = req[g]
  /\ \/ req'[h] = Idle
     \/ /\ req'[h].op = req[h].op /\ req'[h].by = req[h].by
        /\ req'[h].team = req[h].team /\ req'[h].on = req[h].on
        /\ req'[h].inv = req[h].inv

LEMMA DoneContinues ==
  ASSUME RequestsTyped, NEW h \in Handlers, Done(h) PROVE Continues(h)
  BY NoRequest DEF RequestsTyped, Done, Continues

LEMMA GoOnContinues ==
  ASSUME RequestsTyped, NEW h \in Handlers, NEW at \in Statements, GoOn(h, at)
  PROVE  Continues(h)
<1>1. req' = [req EXCEPT ![h].at = at]
  BY DEF GoOn
<1>2. req[h] \in RequestRows
  BY DEF RequestsTyped
<1>3. [req[h] EXCEPT !.at = at] \in RequestRows
  BY <1>2 DEF RequestRows
<1>q. QED
  BY <1>1, <1>2, <1>3 DEF RequestsTyped, Continues, RequestRows

LEMMA HandleContinues ==
  ASSUME RequestsTyped, NEW h \in Handlers, Handle(h) PROVE Continues(h)
<1> USE DoneContinues, GoOnContinues DEF Statements
<1>1. CASE CheckTarget(h) \/ CheckAlreadyMember(h) \/ CheckSeats(h)
           \/ CheckDeleteMe(h) \/ CheckRegister(h)
  BY <1>1 DEF CheckTarget, CheckAlreadyMember, CheckSeats, CheckDeleteMe, CheckRegister
<1>2. CASE WriteTransfer(h) \/ WriteRole(h) \/ DeleteMember(h) \/ WriteRevoke(h)
           \/ ReplaceInvite(h) \/ InsertInvite(h) \/ WriteAccept(h) \/ WriteVerify(h)
  BY <1>2 DEF WriteTransfer, WriteRole, DeleteMember, WriteRevoke, ReplaceInvite,
              InsertInvite, WriteAccept, WriteVerify
<1>3. CASE WriteRegister(h) \/ WriteCreate(h) \/ WriteDeleteTeam(h)
           \/ WriteDeleteMe(h) \/ WriteDeleteUser(h)
  BY <1>3 DEF WriteRegister, WriteCreate, WriteDeleteTeam, WriteDeleteMe, WriteDeleteUser
<1>q. QED
  BY <1>1, <1>2, <1>3 DEF Handle

-----------------------------------------------------------------------------
(* Trials.  An account that was ever there is never absent again, and only *)
(* an account that was not there yet gets a trial without a look at the    *)
(* trials it has had.                                                      *)

TrialsInv ==
  /\ \A u \in Users : trials[u] <= 1 /\ (acct[u] = "absent" => trials[u] = 0)
  /\ \A h \in Handlers :
       req[h].op = "create" => req[h].by \in Users /\ acct[req[h].by] # "absent"

Accounted(h) ==
  /\ AccountsTyped'
  /\ \A u \in Users :
       /\ acct'[u] = "absent" => acct[u] = "absent" /\ trials'[u] = trials[u]
       /\ \/ trials'[u] = trials[u]
          \/ trials[u] = 0 /\ trials'[u] = 1

LEMMA SameAccounts ==
  ASSUME AccountsTyped, NEW h, UNCHANGED <<acct, trials>> PROVE Accounted(h)
  BY DEF Accounted, AccountsTyped

LEMMA DropAccounts ==
  ASSUME AccountsTyped, NEW h, NEW us, NEW ts, Drop(us, ts), UNCHANGED trials
  PROVE  Accounted(h)
  BY DEF Drop, Accounted, AccountsTyped

LEMMA AccountStep ==
  ASSUME Typed, TrialsInv, NEW h \in Handlers, Handle(h)
  PROVE  Accounted(h)
<1> USE DEF Typed
<1>1. CASE UNCHANGED <<acct, trials>>
  BY <1>1, SameAccounts
<1>2. CASE CheckTarget(h) \/ CheckAlreadyMember(h) \/ CheckSeats(h)
           \/ CheckDeleteMe(h) \/ CheckRegister(h)
  BY <1>1, <1>2
     DEF CheckTarget, CheckAlreadyMember, CheckSeats, CheckDeleteMe, CheckRegister, OnlyRead
<1>3. CASE WriteTransfer(h) \/ WriteRole(h) \/ DeleteMember(h) \/ WriteRevoke(h)
           \/ ReplaceInvite(h) \/ InsertInvite(h) \/ WriteAccept(h)
  BY <1>1, <1>3 DEF WriteTransfer, WriteRole, DeleteMember, WriteRevoke,
                    ReplaceInvite, InsertInvite, WriteAccept
<1>4. CASE WriteVerify(h)
  <2>1. trials' = trials
    BY <1>4 DEF WriteVerify
  <2>2. acct' = acct \/ acct' = [acct EXCEPT ![req[h].by] = "verified"]
    BY <1>4 DEF WriteVerify
  <2>q. QED
    BY <2>1, <2>2 DEF Accounted, AccountsTyped
<1>5. CASE WriteRegister(h)
  <2> DEFINE u == req[h].by
  <2>1. CASE acct[u] = "absent"
    <3>1. acct' = [acct EXCEPT ![u] = "unverified"]
      BY <1>5, <2>1 DEF WriteRegister
    <3>2. trials' = trials \/ trials' = [trials EXCEPT ![u] = @ + 1]
      BY <1>5, <2>1 DEF WriteRegister
    <3>3. u \in Users => trials[u] = 0
      BY <2>1 DEF TrialsInv
    <3>4. AccountsTyped'
      <4>1. acct' \in [Users -> {"absent", "unverified", "verified", "deleted"}]
        BY <3>1 DEF AccountsTyped
      <4>2. trials \in [Users -> Nat]
        BY DEF AccountsTyped
      <4>3. [trials EXCEPT ![u] = @ + 1] \in [Users -> Nat]
        <5>1. ASSUME NEW v \in Users
              PROVE  [trials EXCEPT ![u] = @ + 1][v] \in Nat
          BY <4>2, <3>3
        <5>q. QED
          BY <4>2, <5>1
      <4>q. QED
        BY <3>2, <4>1, <4>2, <4>3 DEF AccountsTyped
    <3>5. ASSUME NEW v \in Users, acct'[v] = "absent"
          PROVE  acct[v] = "absent" /\ trials'[v] = trials[v]
      BY <3>1, <3>2, <3>5 DEF AccountsTyped
    <3>6. ASSUME NEW v \in Users
          PROVE  trials'[v] = trials[v] \/ (trials[v] = 0 /\ trials'[v] = 1)
      BY <3>2, <3>3 DEF AccountsTyped
    <3>q. QED
      BY <3>4, <3>5, <3>6 DEF Accounted
  <2>2. CASE acct[u] # "absent"
    BY <1>1, <1>5, <2>2 DEF WriteRegister
  <2>q. QED
    BY <2>1, <2>2
<1>6. CASE WriteCreate(h)
  <2> DEFINE u == req[h].by
  <2>1. acct' = acct /\ (trials' = trials \/ ClaimTrial(u))
    BY <1>6 DEF WriteCreate
  <2>2. u \in Users /\ acct[u] # "absent"
    BY <1>6 DEF WriteCreate, Runs, TrialsInv
  <2>q. QED
    BY <2>1, <2>2 DEF ClaimTrial, Accounted, AccountsTyped
<1>7. CASE WriteDeleteTeam(h) \/ WriteDeleteMe(h) \/ WriteDeleteUser(h)
  BY <1>7, DropAccounts DEF WriteDeleteTeam, WriteDeleteMe, WriteDeleteUser
<1>q. QED
  BY <1>2, <1>3, <1>4, <1>5, <1>6, <1>7 DEF Handle

-----------------------------------------------------------------------------
(* Owners.  Unless two transfers of a team ran at once, it has one owner   *)
(* at most, and while a transfer runs nobody but its caller; he may have   *)
(* lost the role meanwhile.                                                *)

TeamsInv ==
  /\ \A t \in Teams, u \in Users : tier[t] = "unused" => role[t][u] = None
  /\ \A i \in Invites, t \in Teams :
       invite[i].st = "pending" /\ invite[i].team = t => Live(t)

SoleOwner(t, o) == \A u \in Users : role[t][u] = "owner" => u = o
OwnersInv ==
  \A t \in Teams : "twin" \notin hist[t] =>
    /\ \A u \in Users : role[t][u] = "owner" => SoleOwner(t, u)
    /\ \A h \in Handlers : req[h].op = "transfer" /\ req[h].team = t =>
         /\ tier[t] # "unused" /\ SoleOwner(t, req[h].by)
         /\ \A g \in Handlers \ {h} : ~(req[g].op = "transfer" /\ req[g].team = t)

(* What a step of a request does to a team: it takes ownership away or     *)
(* leaves it, founds the team, or hands it over.                           *)
Keeps(t) ==
  /\ tier[t] = "unused" => tier'[t] = "unused" /\ role'[t] = role[t]
  /\ tier'[t] = "unused" => tier[t] = "unused"
  /\ \A u \in Users : role'[t][u] = "owner" => role[t][u] = "owner"
Founded(t) ==
  /\ tier[t] = "unused" /\ tier'[t] = "free"
  /\ \A u, v \in Users : role'[t][u] = "owner" /\ role'[t][v] = "owner" => u = v
HandedOver(h, t) ==
  /\ tier' = tier /\ req[h].op = "transfer" /\ req[h].team = t /\ req'[h] = Idle
  /\ \A u \in Users :
       /\ role[t][u] = None => role'[t][u] = None
       /\ role'[t][u] = "owner" /\ u # req[h].on =>
            role[t][u] = "owner" /\ u # req[h].by

TeamStep(h) ==
  /\ TeamsTyped'
  /\ \A t \in Teams : hist[t] \subseteq hist'[t]
  /\ \A t \in Teams : Keeps(t) \/ Founded(t) \/ HandedOver(h, t)

(* ... and to the invitations: open ones are to live teams.                *)
InvitesStep ==
  /\ InvitesTyped'
  /\ \A i \in Invites, t \in Teams :
       invite'[i].st = "pending" /\ invite'[i].team = t => tier'[t] \in {"free", "paid"}

LEMMA SameTeams ==
  ASSUME TeamsTyped, NEW h, UNCHANGED <<tier, role, hist>> PROVE TeamStep(h)
  BY DEF TeamsTyped, TeamStep, Keeps

(* Roles below "owner" are given, and only in teams that were founded.     *)
LEMMA LesserRoles ==
  ASSUME TeamsTyped, NEW h, UNCHANGED <<tier, hist>>,
         role' \in [Teams -> [Users -> Roles]],
         \A t \in Teams, u \in Users :
           role'[t][u] = role[t][u] \/ (tier[t] # "unused" /\ role'[t][u] # "owner")
  PROVE  TeamStep(h)
<1>1. ASSUME NEW t \in Teams, tier[t] = "unused" PROVE role'[t] = role[t]
  BY <1>1 DEF TeamsTyped
<1>q. QED
  BY <1>1 DEF TeamsTyped, TeamStep, Keeps

LEMMA JoinTeams ==
  ASSUME TeamsTyped, InvitesTyped, TeamsInv, NEW h, NEW u, NEW is, NEW ts,
         Join(u, is, ts), UNCHANGED <<tier, hist>>,
         \A t \in ts \cap Teams : Live(t)
  PROVE  TeamStep(h) /\ InvitesStep
<1>1. ASSUME NEW t \in Teams
      PROVE  /\ role'[t] = [role[t] EXCEPT ![u] =
                               IF t \in ts /\ @ = None THEN "developer" ELSE @]
             /\ role'[t] \in [Users -> Roles]
  BY DEF Join, TeamsTyped, Roles
<1>2. role' \in [Teams -> [Users -> Roles]]
  <2>1. role' = [t \in Teams |-> role'[t]]
    BY DEF Join
  <2>q. QED
    BY <1>1, <2>1
<1>3. ASSUME NEW t \in Teams, NEW v \in Users
      PROVE  role'[t][v] = role[t][v] \/ (tier[t] # "unused" /\ role'[t][v] # "owner")
  <2>1. t \in ts => tier[t] # "unused"
    BY DEF Live
  <2> DEFINE old == role[t]
             new == role'[t]
  <2>2. new = [old EXCEPT ![u] = IF t \in ts /\ @ = None THEN "developer" ELSE @]
    BY <1>1
  <2>3. old \in [Users -> Roles]
    BY DEF TeamsTyped
  <2> HIDE DEF old, new
  <2>4. new[v] = old[v] \/ (t \in ts /\ new[v] = "developer")
    BY <2>2, <2>3
  <2> USE DEF old, new
  <2>q. QED
    BY <2>1, <2>4
<1>4. TeamStep(h)
  BY <1>2, <1>3, LesserRoles
<1>5. InvitesStep
  BY DEF Join, InvitesTyped, InviteRows, InvitesStep, TeamsInv, Live
<1>q. QED
  BY <1>4, <1>5

LEMMA DropRows ==
  ASSUME TeamsTyped, InvitesTyped, TeamsInv, NEW h, NEW us, NEW ts, Drop(us, ts),
         hist' \in [Teams -> SUBSET {"twin", "clash", "admin", "paid"}],
         \A t \in Teams : hist[t] \subseteq hist'[t],
         \A t \in ts \cap Teams : tier[t] # "unused"
  PROVE  TeamStep(h) /\ InvitesStep
<1>1. TeamsTyped'
  BY DEF Drop, DropTeams, TeamsTyped, Roles, None
<1>2. ASSUME NEW t \in Teams PROVE Keeps(t)
  <2>1. tier'[t] = IF t \in ts THEN "deleted" ELSE tier[t]
    BY DEF Drop, DropTeams
  <2>2. role'[t] = [u \in Users |-> IF u \in us \/ t \in ts THEN None ELSE role[t][u]]
    BY DEF Drop
  <2>3. tier[t] = "unused" => role'[t] = role[t]
    BY <2>2 DEF TeamsInv, TeamsTyped
  <2>q. QED
    BY <2>1, <2>2, <2>3 DEF Keeps, None
<1>3. InvitesStep
  BY DEF Drop, DropTeams, InvitesTyped, InviteRows, InvitesStep, TeamsInv, Live
<1>q. QED
  BY <1>1, <1>2, <1>3 DEF TeamStep

LEMMA FoundTeam ==
  ASSUME TeamsTyped, TeamsInv, NEW h, NEW u, NEW s \in Teams, Found(u, s),
         UNCHANGED hist
  PROVE  TeamStep(h)
<1>1. /\ tier[s] = "unused" /\ tier' = [tier EXCEPT ![s] = "free"]
      /\ role' = [role EXCEPT ![s][u] = "owner"]
  BY DEF Found
<1>2. TeamsTyped'
  BY <1>1 DEF TeamsTyped, Roles
<1>3. Founded(s)
  BY <1>1 DEF TeamsTyped, TeamsInv, Founded, None
<1>4. ASSUME NEW t \in Teams, t # s PROVE Keeps(t)
  BY <1>1, <1>4 DEF TeamsTyped, Keeps
<1>q. QED
  BY <1>2, <1>3, <1>4 DEF TeamStep

LEMMA SameInvites ==
  ASSUME InvitesTyped, TeamsInv, UNCHANGED <<tier, invite>> PROVE InvitesStep
  BY DEF InvitesTyped, InvitesStep, TeamsInv, Live

(* No step of a request but the transfer itself hands a team over.         *)
LEMMA TransferHandsOver ==
  ASSUME Typed, NEW h \in Handlers, WriteTransfer(h) PROVE TeamStep(h)
<1> DEFINE r == req[h]
<1>1. /\ r.op = "transfer" /\ req'[h] = Idle /\ tier' = tier /\ hist' = hist
      /\ HandOver(r)
  BY DEF WriteTransfer, Runs, Done, Typed, RequestsTyped
<1>2. ASSUME NEW t \in Teams, t # r.team PROVE role'[t] = role[t]
  BY <1>1, <1>2 DEF HandOver, Typed, TeamsTyped
<1>3. ASSUME r.team \in Teams
      PROVE  role'[r.team] = [u \in Users |->
               IF role[r.team][u] = None THEN None
               ELSE IF u = r.by THEN "admin"
               ELSE IF u = r.on THEN "owner" ELSE role[r.team][u]]
  BY <1>1, <1>3 DEF HandOver, Typed, TeamsTyped
<1>4. TeamsTyped'
  <2>1. ASSUME NEW t \in Teams PROVE role'[t] \in [Users -> Roles]
    BY <1>2, <1>3 DEF Typed, TeamsTyped, Roles
  <2>2. role' = [t \in Teams |-> role'[t]]
    BY <1>1 DEF HandOver, Typed, TeamsTyped
  <2>3. role' \in [Teams -> [Users -> Roles]]
    BY <2>1, <2>2
  <2>q. QED
    BY <1>1, <2>3 DEF Typed, TeamsTyped
<1>5. ASSUME NEW t \in Teams PROVE Keeps(t) \/ HandedOver(h, t)
  <2>1. CASE t = r.team
    BY <1>1, <1>3, <2>1 DEF HandedOver, None
  <2>2. CASE t # r.team
    BY <1>1, <1>2, <2>2 DEF Keeps
  <2>q. QED
    BY <2>1, <2>2
<1>q. QED
  BY <1>1, <1>4, <1>5 DEF TeamStep

LEMMA HandleTeams ==
  ASSUME Typed, TeamsInv, NEW h \in Handlers, Handle(h)
  PROVE  TeamStep(h) /\ InvitesStep
<1> USE DEF Typed
<1>1. CASE CheckTarget(h) \/ CheckAlreadyMember(h) \/ CheckSeats(h)
           \/ CheckDeleteMe(h) \/ CheckRegister(h)
  BY <1>1, SameTeams, SameInvites
     DEF CheckTarget, CheckAlreadyMember, CheckSeats, CheckDeleteMe, CheckRegister, OnlyRead
<1>2. CASE WriteTransfer(h)
  BY <1>2, TransferHandsOver, SameInvites DEF WriteTransfer
<1>3. CASE WriteRole(h)
  <2> DEFINE r == req[h]
  <2>1. PICK new \in {"admin", "developer"} :
          role' = [role EXCEPT ![r.team][r.on] = IF @ = None THEN None ELSE new]
    BY <1>3 DEF WriteRole
  <2>2. role' \in [Teams -> [Users -> Roles]]
    BY <2>1 DEF TeamsTyped, Roles
  <2>3. ASSUME NEW t \in Teams, NEW u \in Users
        PROVE  role'[t][u] = role[t][u] \/ (tier[t] # "unused" /\ role'[t][u] # "owner")
    BY <2>1 DEF TeamsTyped, TeamsInv, Roles
  <2>4. TeamStep(h)
    BY <1>3, <2>2, <2>3, LesserRoles DEF WriteRole
  <2>q. QED
    BY <1>3, <2>4, SameInvites DEF WriteRole
<1>4. CASE DeleteMember(h)
  <2> DEFINE r == req[h]
  <2>1. role' = [role EXCEPT ![r.team][r.on] = None]
    BY <1>4 DEF DeleteMember
  <2>2. role' \in [Teams -> [Users -> Roles]]
    BY <2>1 DEF TeamsTyped, Roles
  <2>3. ASSUME NEW t \in Teams, NEW u \in Users
        PROVE  role'[t][u] = role[t][u] \/ (tier[t] # "unused" /\ role'[t][u] # "owner")
    BY <2>1 DEF TeamsTyped, TeamsInv, None
  <2>4. TeamStep(h)
    BY <1>4, <2>2, <2>3, LesserRoles DEF DeleteMember
  <2>q. QED
    BY <1>4, <2>4, SameInvites DEF DeleteMember
<1>5. CASE WriteRevoke(h) \/ ReplaceInvite(h) \/ InsertInvite(h)
  <2>1. TeamStep(h)
    BY <1>5, SameTeams DEF WriteRevoke, ReplaceInvite, InsertInvite
  <2>2. CASE WriteRevoke(h)
    BY <2>1, <2>2 DEF WriteRevoke, InvitesTyped, InviteRows, InvitesStep, TeamsInv, Live
  <2>3. CASE ReplaceInvite(h)
    BY <2>1, <2>3 DEF ReplaceInvite, InvitesTyped, InviteRows, InvitesStep, TeamsInv, Live
  <2>4. CASE InsertInvite(h)
    <3>1. CASE UNCHANGED invite
      BY <2>1, <2>4, <3>1, SameInvites DEF InsertInvite
    <3>2. CASE /\ Live(req[h].team)
               /\ invite' = [invite EXCEPT ![FreshInvite] =
                    [st |-> "pending", team |-> req[h].team, to |-> req[h].on]]
      BY <2>1, <2>4, <3>2 DEF InsertInvite, InvitesTyped, InviteRows, InvitesStep, TeamsInv, Live,
                        RequestsTyped, RequestRows
    <3>q. QED
      BY <2>4, <3>1, <3>2 DEF InsertInvite
  <2>q. QED
    BY <1>5, <2>1, <2>2, <2>3, <2>4
<1>6. CASE WriteAccept(h)
  <2>1. CASE Live(req[h].team) /\ Join(req[h].by, {req[h].inv}, {req[h].team})
    BY <1>6, <2>1, JoinTeams DEF WriteAccept
  <2>2. CASE UNCHANGED <<role, invite>>
    BY <1>6, <2>2, SameTeams, SameInvites DEF WriteAccept
  <2>q. QED
    BY <1>6, <2>1, <2>2 DEF WriteAccept
<1>7. CASE WriteVerify(h)
  <2> DEFINE open == {i \in Invites : invite[i].st = "pending" /\ invite[i].to = req[h].by}
  <2>1. CASE Join(req[h].by, open, {invite[i].team : i \in open})
    <3>1. \A t \in {invite[i].team : i \in open} \cap Teams : Live(t)
      BY DEF TeamsInv
    <3>q. QED
      BY <1>7, <2>1, <3>1, JoinTeams DEF WriteVerify
  <2>2. CASE UNCHANGED <<role, invite>>
    BY <1>7, <2>2, SameTeams, SameInvites DEF WriteVerify
  <2>q. QED
    BY <1>7, <2>1, <2>2 DEF WriteVerify
<1>8. CASE WriteRegister(h) \/ WriteCreate(h)
  <2>1. CASE UNCHANGED <<tier, role>>
    BY <1>8, <2>1, SameTeams, SameInvites DEF WriteRegister, WriteCreate
  <2>2. CASE \E t \in Teams : Found(req[h].by, t)
    <3>1. PICK t \in Teams : Found(req[h].by, t)
      BY <2>2
    <3>2. hist' = hist /\ invite' = invite
      BY <1>8 DEF WriteRegister, WriteCreate
    <3>3. TeamStep(h)
      BY <3>1, <3>2, FoundTeam
    <3>4. InvitesStep
      BY <3>1, <3>2 DEF Found, InvitesTyped, InvitesStep, TeamsInv, Live, TeamsTyped
    <3>q. QED
      BY <3>3, <3>4
  <2>q. QED
    BY <1>8, <2>1, <2>2 DEF WriteRegister, WriteCreate
<1>9. CASE WriteDeleteTeam(h)
  <2>1. \E us : Drop(us, {req[h].team} \cap {s \in Teams : Live(s)})
    BY <1>9 DEF WriteDeleteTeam
  <2>2. \A t \in {req[h].team} \cap {s \in Teams : Live(s)} : tier[t] # "unused"
    BY DEF Live
  <2>3. hist' = hist
    BY <1>9 DEF WriteDeleteTeam
  <2>q. QED
    BY <2>1, <2>2, <2>3, DropRows DEF TeamsTyped
<1>10. CASE WriteDeleteMe(h)
  <2> DEFINE u == req[h].by
             own == {t \in Teams : Members(t) = {u}}
  <2>1. Drop({u}, own) /\ hist' = hist
    BY <1>10 DEF WriteDeleteMe
  <2>2. ASSUME NEW t \in own PROVE tier[t] # "unused"
    <3>1. u \in Members(t)
      BY <2>2
    <3>q. QED
      BY <3>1 DEF Members, TeamsInv
  <2>q. QED
    BY <2>1, <2>2, DropRows DEF TeamsTyped
<1>11. CASE WriteDeleteUser(h)
  <2> DEFINE gone == {t \in req[h].sole : Live(t)}
  <2>1. Drop({req[h].on}, gone)
    BY <1>11 DEF WriteDeleteUser
  <2>2. \A t \in gone : tier[t] # "unused"
    BY DEF Live
  <2>3. /\ hist' \in [Teams -> SUBSET {"twin", "clash", "admin", "paid"}]
        /\ \A t \in Teams : hist[t] \subseteq hist'[t]
    BY <1>11 DEF WriteDeleteUser, TeamsTyped
  <2>q. QED
    BY <2>1, <2>2, <2>3, DropRows
<1>q. QED
  BY <1>1, <1>2, <1>3, <1>4, <1>5, <1>6, <1>7, <1>8, <1>9, <1>10, <1>11 DEF Handle

-----------------------------------------------------------------------------
(* The inductive invariant: every kind of step keeps it.                   *)

MembershipInv == Typed /\ TrialsInv /\ TeamsInv /\ OwnersInv

LEMMA InitEstablishes == Init => MembershipInv
<1> SUFFICES ASSUME Init PROVE MembershipInv
  OBVIOUS
<1>1. PICK u \in Users, t \in Teams, ms \in SUBSET Users, vs \in SUBSET Users :
        /\ u \in ms /\ ms \subseteq vs
        /\ acct = [v \in Users |-> IF v \in vs THEN "verified" ELSE "absent"]
        /\ trials = [v \in Users |-> IF v = u THEN 1 ELSE 0]
        /\ tier = [s \in Teams |-> IF s = t THEN "free" ELSE "unused"]
        /\ role = [s \in Teams |-> [v \in Users |->
                     IF s # t \/ v \notin ms THEN None
                     ELSE IF v = u THEN "owner" ELSE "developer"]]
        /\ \/ invite = [i \in Invites |-> NoInvite]
           \/ \E v \in Users \ ms :
                invite = [[i \in Invites |-> NoInvite] EXCEPT
                  ![FirstInvite] = [st |-> "pending", team |-> t, to |-> v]]
        /\ req = [h \in Handlers |-> Idle]
        /\ hist = [s \in Teams |-> {}]
  BY ZenonT(60) DEF Init
<1>2. AccountsTyped
  BY <1>1 DEF AccountsTyped
<1>3. TeamsTyped
  BY <1>1 DEF TeamsTyped, Roles
<1>4. /\ InvitesTyped
      /\ \A i \in Invites : invite[i].st = "pending" => invite[i].team = t
  <2>1. NoInvite \in InviteRows /\ NoInvite.st = "free"
    BY DEF NoInvite, InviteRows
  <2>2. CASE invite = [i \in Invites |-> NoInvite]
    BY <2>1, <2>2 DEF InvitesTyped
  <2>3. ASSUME NEW v \in Users,
               invite = [[i \in Invites |-> NoInvite] EXCEPT
                 ![FirstInvite] = [st |-> "pending", team |-> t, to |-> v]]
        PROVE  /\ InvitesTyped
               /\ \A i \in Invites : invite[i].st = "pending" => invite[i].team = t
    <3> DEFINE row == [st |-> "pending", team |-> t, to |-> v]
    <3>1. row \in InviteRows /\ row.team = t
      BY DEF InviteRows
    <3>2. invite = [[i \in Invites |-> NoInvite] EXCEPT ![FirstInvite] = row]
      BY <2>3
    <3> HIDE DEF row
    <3>3. \A i \in Invites : invite[i] = NoInvite \/ invite[i] = row
      BY <3>2
    <3>q. QED
      BY <2>1, <3>1, <3>2, <3>3 DEF InvitesTyped
  <2>q. QED
    BY <1>1, <2>2, <2>3
<1>5. RequestsTyped /\ \A h \in Handlers : req[h].op = "idle"
  BY <1>1, NoRequest DEF RequestsTyped, Idle
<1>6. TrialsInv
  BY <1>1, <1>5 DEF TrialsInv
<1>7. TeamsInv
  BY <1>1, <1>4 DEF TeamsInv, Live
<1>8. OwnersInv
  BY <1>1, <1>5 DEF OwnersInv, SoleOwner, None
<1>q. QED
  BY <1>2, <1>3, <1>4, <1>5, <1>6, <1>7, <1>8 DEF MembershipInv, Typed

(* A transfer that begins beside another one of its team is entered in the *)
(* history; one that begins alone begins with the only owner.              *)
LEMMA BeginKeeps ==
  ASSUME MembershipInv, NEW h \in Handlers, Begins(h) PROVE MembershipInv'
<1> USE DEF MembershipInv
<1>1. PICK r \in RequestRows : Rightful(r) /\ Begin(h, r)
  BY DEF Begins
<1>2. /\ req[h] = Idle /\ req' = [req EXCEPT ![h] = r]
      /\ hist' = [t \in Teams |-> hist[t] \cup Overlap(r, t)]
      /\ UNCHANGED <<acct, trials, tier, role, invite>>
  BY <1>1 DEF Begin
<1>3. /\ req'[h] = r
      /\ \A g \in Handlers \ {h} : req'[g] = req[g]
  BY <1>2 DEF Typed, RequestsTyped
<1>4. Typed'
  <2>1. AccountsTyped' /\ InvitesTyped'
    BY <1>2 DEF Typed, AccountsTyped, InvitesTyped
  <2>2. TeamsTyped'
    BY <1>2 DEF Typed, TeamsTyped, Overlap
  <2>3. RequestsTyped'
    BY <1>2 DEF Typed, RequestsTyped
  <2>q. QED
    BY <2>1, <2>2, <2>3 DEF Typed
<1>5. TrialsInv'
  BY <1>1, <1>2, <1>3 DEF TrialsInv, Rightful, Fits
<1>6. TeamsInv'
  BY <1>2 DEF TeamsInv, Live
<1>7. ASSUME NEW t \in Teams, "twin" \notin hist'[t], NEW g \in Handlers,
             g # h, req[g].op = "transfer", req[g].team = t
      PROVE  ~(r.op = "transfer" /\ r.team = t)
  <2>1. SUFFICES ASSUME r.op = "transfer", r.team = t PROVE "twin" \in Overlap(r, t)
    BY <1>2, <1>7
  <2>2. Concerns(r, t) /\ Concerns(req[g], t)
    BY <1>7, <2>1 DEF Concerns
  <2>q. QED
    BY <1>7, <2>1, <2>2 DEF Overlap
<1>8. OwnersInv'
  <2> SUFFICES ASSUME NEW t \in Teams, "twin" \notin hist'[t]
      PROVE  /\ \A u \in Users : role[t][u] = "owner" => SoleOwner(t, u)
             /\ \A k \in Handlers : req'[k].op = "transfer" /\ req'[k].team = t =>
                  /\ tier[t] # "unused" /\ SoleOwner(t, req'[k].by)
                  /\ \A g \in Handlers \ {k} :
                       ~(req'[g].op = "transfer" /\ req'[g].team = t)
    BY <1>2 DEF OwnersInv, SoleOwner
  <2>1. "twin" \notin hist[t]
    BY <1>2
  <2>2. \A u \in Users : role[t][u] = "owner" => SoleOwner(t, u)
    BY <2>1 DEF OwnersInv
  <2>3. ASSUME NEW k \in Handlers, req'[k].op = "transfer", req'[k].team = t
        PROVE  tier[t] # "unused" /\ SoleOwner(t, req'[k].by)
    <3>1. CASE k = h
      BY <1>1, <1>3, <2>2, <2>3, <3>1 DEF Rightful, Fits, TeamsInv, None
    <3>2. CASE k # h
      BY <1>3, <2>1, <2>3, <3>2 DEF OwnersInv
    <3>q. QED
      BY <3>1, <3>2
  <2>4. ASSUME NEW k \in Handlers, req'[k].op = "transfer", req'[k].team = t,
               NEW g \in Handlers \ {k}
        PROVE  ~(req'[g].op = "transfer" /\ req'[g].team = t)
    <3>1. CASE k = h
      BY <1>3, <1>7, <2>4, <3>1
    <3>2. CASE g = h
      BY <1>3, <1>7, <2>4, <3>2
    <3>3. CASE k # h /\ g # h
      BY <1>3, <2>1, <2>4, <3>3 DEF OwnersInv
    <3>q. QED
      BY <3>1, <3>2, <3>3
  <2>q. QED
    BY <2>2, <2>3, <2>4
<1>q. QED
  BY <1>4, <1>5, <1>6, <1>8

(* The member who is made the owner is the only one, because he who made   *)
(* him so was, and no other transfer ran.                                  *)
LEMMA HandleKeeps ==
  ASSUME MembershipInv, NEW h \in Handlers, Handle(h) PROVE MembershipInv'
<1> USE DEF MembershipInv
<1>1. Continues(h)
  BY HandleContinues DEF Typed
<1>2. Accounted(h)
  BY AccountStep
<1>3. TeamStep(h) /\ InvitesStep
  BY HandleTeams
<1>4. Typed'
  BY <1>1, <1>2, <1>3
     DEF Continues, Accounted, TeamStep, InvitesStep, Typed, RequestsTyped
<1>5. ASSUME NEW g \in Handlers, req'[g].op # "idle"
      PROVE  /\ req'[g].op = req[g].op /\ req'[g].by = req[g].by
             /\ req'[g].team = req[g].team /\ req'[g].on = req[g].on
  BY <1>1, <1>5 DEF Continues, Idle
<1>6. TrialsInv'
  <2>1. ASSUME NEW u \in Users
        PROVE  trials'[u] <= 1 /\ (acct'[u] = "absent" => trials'[u] = 0)
    BY <1>2 DEF Accounted, TrialsInv
  <2>2. ASSUME NEW g \in Handlers, req'[g].op = "create"
        PROVE  req'[g].by \in Users /\ acct'[req'[g].by] # "absent"
    BY <1>2, <1>5, <2>2 DEF Accounted, TrialsInv
  <2>q. QED
    BY <2>1, <2>2 DEF TrialsInv
<1>7. TeamsInv'
  <2>1. ASSUME NEW t \in Teams, NEW u \in Users, tier'[t] = "unused"
        PROVE  role'[t][u] = None
    BY <1>3, <2>1 DEF TeamStep, Keeps, Founded, HandedOver, TeamsInv
  <2>q. QED
    BY <1>3, <2>1 DEF TeamsInv, InvitesStep, Live
<1>8. ASSUME NEW t \in Teams, "twin" \notin hist'[t]
      PROVE  /\ \A u \in Users : role'[t][u] = "owner" =>
                  \A v \in Users : role'[t][v] = "owner" => v = u
             /\ \A k \in Handlers : req'[k].op = "transfer" /\ req'[k].team = t =>
                  /\ tier'[t] # "unused"
                  /\ \A v \in Users : role'[t][v] = "owner" => v = req'[k].by
                  /\ \A g \in Handlers \ {k} :
                       ~(req'[g].op = "transfer" /\ req'[g].team = t)
  <2>1. "twin" \notin hist[t]
    BY <1>3, <1>8 DEF TeamStep
  <2>2. \A k \in Handlers : req'[k].op = "transfer" /\ req'[k].team = t =>
          /\ req[k].op = "transfer" /\ req[k].team = t /\ req[k].by = req'[k].by
          /\ tier[t] # "unused"
          /\ \A v \in Users : role[t][v] = "owner" => v = req'[k].by
          /\ \A g \in Handlers \ {k} : ~(req'[g].op = "transfer" /\ req'[g].team = t)
    BY <1>5, <2>1 DEF OwnersInv, SoleOwner
  <2>3. \A u, v \in Users : role[t][u] = "owner" /\ role[t][v] = "owner" => v = u
    BY <2>1 DEF OwnersInv, SoleOwner
  <2>4. CASE Keeps(t)
    BY <2>2, <2>3, <2>4 DEF Keeps
  <2>5. CASE Founded(t)
    BY <2>2, <2>5 DEF Founded
  <2>6. CASE HandedOver(h, t)
    <3>1. \A k \in Handlers : ~(req'[k].op = "transfer" /\ req'[k].team = t)
      <4>1. \A k \in Handlers \ {h} : ~(req[k].op = "transfer" /\ req[k].team = t)
        BY <2>1, <2>6 DEF HandedOver, OwnersInv
      <4>2. req'[h].op = "idle"
        BY <2>6 DEF HandedOver, Idle
      <4>q. QED
        BY <2>2, <4>1, <4>2
    <3>2. \A v \in Users : role[t][v] = "owner" => v = req[h].by
      BY <2>1, <2>6 DEF HandedOver, OwnersInv, SoleOwner
    <3>3. \A v \in Users : role'[t][v] = "owner" => v = req[h].on
      BY <2>6, <3>2 DEF HandedOver
    <3>q. QED
      BY <3>1, <3>3
  <2>q. QED
    BY <1>3, <2>4, <2>5, <2>6 DEF TeamStep
<1>9. OwnersInv'
  BY <1>8 DEF OwnersInv, SoleOwner
<1>q. QED
  BY <1>4, <1>6, <1>7, <1>9

LEMMA OtherStepsKeep ==
  ASSUME MembershipInv,
         \/ \E t \in Teams : ChangePlan(t)
         \/ \E i \in Invites : Expire(i)
         \/ UNCHANGED vars
  PROVE  MembershipInv'
<1> USE DEF MembershipInv, Typed, AccountsTyped, TeamsTyped, InvitesTyped, RequestsTyped
<1>1. ASSUME NEW t \in Teams, ChangePlan(t) PROVE MembershipInv'
  <2>1. /\ tier[t] \in {"free", "paid"}
        /\ tier' = [tier EXCEPT ![t] = IF @ = "free" THEN "paid" ELSE "free"]
        /\ hist' = [hist EXCEPT ![t] = @ \cup {"paid"}]
        /\ UNCHANGED <<acct, trials, role, invite, req>>
    BY <1>1 DEF ChangePlan, Live
  <2>2. Typed' /\ TrialsInv'
    BY <2>1 DEF TrialsInv
  <2>3. TeamsInv'
    BY <2>1 DEF TeamsInv, Live
  <2>4. OwnersInv'
    BY <2>1 DEF OwnersInv, SoleOwner
  <2>q. QED
    BY <2>2, <2>3, <2>4
<1>2. ASSUME NEW i \in Invites, Expire(i) PROVE MembershipInv'
  <2>1. /\ invite' = [invite EXCEPT ![i].st = "expired"]
        /\ UNCHANGED <<acct, trials, tier, role, req, hist>>
    BY <1>2 DEF Expire
  <2>2. /\ invite' \in [Invites -> InviteRows]
        /\ \A j \in Invites : invite'[j].st = "pending" =>
             invite[j].st = "pending" /\ invite'[j].team = invite[j].team
    <3>1. invite[i] \in InviteRows /\ invite \in [Invites -> InviteRows]
      OBVIOUS
    <3>2. [invite[i] EXCEPT !.st = "expired"] \in InviteRows
      BY <3>1 DEF InviteRows
    <3>q. QED BY <2>1, <3>1, <3>2 DEF InviteRows
  <2>3. Typed'
    BY <2>1, <2>2
  <2>4. TeamsInv'
    BY <2>1, <2>2 DEF TeamsInv, Live
  <2>5. TrialsInv' /\ OwnersInv'
    BY <2>1 DEF TrialsInv, OwnersInv, SoleOwner
  <2>q. QED
    BY <2>3, <2>4, <2>5
<1>3. CASE UNCHANGED vars
  BY <1>3 DEF vars, TrialsInv, TeamsInv, OwnersInv, SoleOwner, Live
<1>q. QED
  BY <1>1, <1>2, <1>3

LEMMA InvariantHolds == Spec => []MembershipInv
<1>1. Init => MembershipInv
  BY InitEstablishes
<1>2. MembershipInv /\ [Next]_vars => MembershipInv'
  <2> SUFFICES ASSUME MembershipInv, [Next]_vars PROVE MembershipInv'
    OBVIOUS
  <2>1. ASSUME NEW h \in Handlers,
               TeamRequest(h) \/ UserRequest(h) \/ Visitor(h) \/ AdminRequest(h)
        PROVE  MembershipInv'
    BY <2>1, RequestBegins, BeginKeeps DEF MembershipInv
  <2>2. ASSUME NEW h \in Handlers, Handle(h) PROVE MembershipInv'
    BY <2>2, HandleKeeps
  <2>3. CASE \/ \E t \in Teams : ChangePlan(t)
             \/ \E i \in Invites : Expire(i)
             \/ UNCHANGED vars
    BY <2>3, OtherStepsKeep
  <2>q. QED
    BY <2>1, <2>2, <2>3 DEF Next
<1>q. QED
  BY <1>1, <1>2, PTL DEF Spec

-----------------------------------------------------------------------------
(* No account is granted a second trial, however many registrations and    *)
(* new teams of it run at once (auth.ts's registration, the conditional    *)
(* UPDATE of trial_started_at in the creation of a team).                  *)
THEOREM TrialGrantedOnce == Spec => []TrialOnce
<1>1. MembershipInv => TrialOnce
  BY DEF MembershipInv, TrialsInv, TrialOnce
<1>q. QED
  BY <1>1, InvariantHolds, PTL

(* A team never has two owners unless two of its transfers ran at once:    *)
(* the two UPDATEs of a transfer, its check of the roles before them, and  *)
(* every other request are safe in any order and number.                   *)
THEOREM SecondOwnerTakesTwoTransfers == Spec => []SecondOwnerNeedsTwoTransfers
<1>1. MembershipInv => SecondOwnerNeedsTwoTransfers
  <2> SUFFICES ASSUME MembershipInv, NEW t \in Teams, "twin" \notin hist[t]
      PROVE  Cardinality(Owners(t)) <= 1
    BY DEF SecondOwnerNeedsTwoTransfers
  <2>1. \A u, v \in Owners(t) : u = v
    BY DEF MembershipInv, OwnersInv, SoleOwner, Owners
  <2>2. CASE Owners(t) = {}
    BY <2>2, FS_EmptySet
  <2>3. ASSUME NEW u \in Owners(t) PROVE Cardinality(Owners(t)) <= 1
    <3>1. Owners(t) = {u}
      BY <2>1, <2>3
    <3>2. Cardinality({u}) = 1
      BY FS_Singleton
    <3>q. QED
      BY <3>1, <3>2
  <2>q. QED
    BY <2>2, <2>3
<1>q. QED
  BY <1>1, InvariantHolds, PTL

-----------------------------------------------------------------------------
(* Keeping an owner.  What a request has checked about the member it is    *)
(* going to change stays true until it writes, because the requests that   *)
(* could make it false clash with it and are in the history.               *)

MembersLive == \A t \in Teams, u \in Users : role[t][u] # None => Live(t)

Upsets == {"setRole", "remove", "leave", "deleteMe", "adminUser"}

(* No two of the requests that concern the team clash.                     *)
Apart(t) ==
  \A g, k \in Handlers : Concerns(req[g], t) /\ Concerns(req[k], t) =>
    /\ req[g].op = "transfer" => req[k].op \notin Upsets
    /\ req[g].op = "deleteMe" => req[k].op \notin {"accept", "verify"}

(* What request r may count on in team t.                                  *)
Stands(r, t) ==
  /\ r.op \in {"transfer", "setRole", "remove", "leave"} /\ r.team = t =>
       tier[t] # "unused"
  /\ r.op = "transfer" /\ r.team = t /\ r.at = "write" /\ Live(t) =>
       role[t][r.on] # None
  /\ r.op \in {"setRole", "remove"} /\ r.team = t /\ r.at = "write" =>
       role[t][r.on] # "owner"
  /\ r.op = "leave" /\ r.team = t => role[t][r.on] # "owner"
  /\ r.op = "deleteMe" /\ r.at = "write" /\ role[t][r.by] = "owner" =>
       \A u \in Users : role[t][u] # None => u = r.by

HasOwner(t) == \E u \in Users : role[t][u] = "owner"

Kept(t) ==
  "clash" \notin hist[t] =>
    /\ Apart(t) /\ \A g \in Handlers : Stands(req[g], t)
    /\ Live(t) /\ "admin" \notin hist[t] => HasOwner(t)

KeepersInv ==
  /\ MembersLive
  /\ \A h \in Handlers : Fits(req[h])
  /\ \A t \in Teams : Kept(t)

(* What the write of request h may do to team t.                           *)
Same(t) == tier'[t] = tier[t] /\ \A u \in Users : role'[t][u] = role[t][u]

GivesOver(h, t) ==
  /\ req[h].op = "transfer" /\ req[h].at = "write" /\ req[h].team = t
  /\ tier'[t] = tier[t]
  /\ \A u \in Users : role'[t][u] = IF role[t][u] = None THEN None
                                    ELSE IF u = req[h].by THEN "admin"
                                    ELSE IF u = req[h].on THEN "owner" ELSE role[t][u]

Lowers(h, t) ==
  /\ req[h].op \in {"setRole", "remove", "leave"} /\ req[h].team = t
  /\ req[h].at = "write" /\ tier'[t] = tier[t]
  /\ \A u \in Users : IF u = req[h].on
       THEN role'[t][u] # "owner" /\ (role[t][u] = None => role'[t][u] = None)
       ELSE role'[t][u] = role[t][u]

Joins(h, t) ==
  /\ \/ req[h].op = "accept" /\ req[h].team = t
     \/ req[h].op = "verify" /\ req[h].team = None
  /\ Live(t) /\ tier'[t] = tier[t]
  /\ \A u \in Users : \/ role'[t][u] = role[t][u]
                      \/ role[t][u] = None /\ role'[t][u] = "developer"

Founds(h, t) ==
  /\ tier[t] = "unused" /\ tier'[t] = "free" /\ req[h].by \in Users
  /\ \A u \in Users : role'[t][u] = IF u = req[h].by THEN "owner" ELSE None

Ends(t) == tier'[t] = "deleted" /\ \A u \in Users : role'[t][u] = None

(* The account u goes: the caller's own, which he may have checked, or the *)
(* one an administrator deletes.                                           *)
Quits(h, t, u) ==
  /\ tier'[t] = tier[t] /\ req[h].op \in {"deleteMe", "adminUser"}
  /\ req[h].team = None
  /\ \A v \in Users : role'[t][v] = IF v = u THEN None ELSE role[t][v]
  /\ role[t][u] = "owner" =>
       IF req[h].op = "deleteMe"
         THEN /\ req[h].at = "write" /\ u = req[h].by
              /\ \E v \in Users : v # u /\ role[t][v] # None
         ELSE "admin" \in hist'[t]

Changes(h, t) ==
  \/ Same(t) \/ GivesOver(h, t) \/ Lowers(h, t) \/ Joins(h, t) \/ Founds(h, t)
  \/ Ends(t) \/ \E u \in Users : Quits(h, t, u)

-----------------------------------------------------------------------------
(* A request that clashes with none keeps what the others count on.        *)

LEMMA ChangesKeepStanding ==
  ASSUME TeamsInv, MembersLive, NEW t \in Teams, NEW h \in Handlers,
         NEW g \in Handlers, g # h, Apart(t), Fits(req[g]), Fits(req[h]),
         req[h].op # "idle", Stands(req[g], t), Stands(req[h], t), Changes(h, t)
  PROVE  Stands(req[g], t)'  \/ req'[g] # req[g]
<1> SUFFICES ASSUME req'[g] = req[g] PROVE Stands(req[g], t)'
  OBVIOUS
<1> DEFINE r == req[g]
           s == req[h]
<1> USE DEF Stands, Live, None, Fits
<1>1. CASE Same(t)
  BY <1>1 DEF Same
<1>2. CASE GivesOver(h, t)
  <2>1. r.team = t \/ r.team = None => r.op \notin Upsets
    BY <1>2 DEF GivesOver, Apart, Concerns, Upsets
  <2>q. QED
    BY <1>2, <2>1 DEF GivesOver, Upsets
<1>3. CASE Lowers(h, t)
  <2>1. ~(r.op = "transfer" /\ r.team = t)
    BY <1>3 DEF Lowers, Apart, Concerns, Upsets
  <2>q. QED
    BY <1>3, <2>1 DEF Lowers
<1>4. CASE Joins(h, t)
  <2>1. r.op # "deleteMe"
    BY <1>4 DEF Joins, Apart, Concerns
  <2>q. QED
    BY <1>4, <2>1 DEF Joins
<1>5. CASE Founds(h, t)
  BY <1>5 DEF Founds, TeamsInv
<1>6. CASE Ends(t)
  BY <1>6 DEF Ends
<1>7. ASSUME NEW u \in Users, Quits(h, t, u) PROVE Stands(req[g], t)'
  <2>1. ~(r.op = "transfer" /\ r.team = t)
    BY <1>7 DEF Quits, Apart, Concerns, Upsets
  <2>q. QED
    BY <1>7, <2>1 DEF Quits
<1>q. QED
  BY <1>1, <1>2, <1>3, <1>4, <1>5, <1>6, <1>7 DEF Changes

(* ... and leaves the team an owner.                                       *)
LEMMA ChangesKeepOwner ==
  ASSUME MembersLive, NEW t \in Teams, NEW h \in Handlers, Fits(req[h]),
         Stands(req[h], t), Changes(h, t), hist[t] \subseteq hist'[t],
         Live(t) /\ "admin" \notin hist[t] => HasOwner(t),
         Live(t)', "admin" \notin hist'[t]
  PROVE  HasOwner(t)'
<1> USE DEF Stands, Live, None, Fits, HasOwner
<1>1. CASE Same(t)
  BY <1>1 DEF Same
<1>2. CASE GivesOver(h, t)
  BY <1>2 DEF GivesOver
<1>3. CASE Lowers(h, t)
  BY <1>3 DEF Lowers
<1>4. CASE Joins(h, t)
  BY <1>4 DEF Joins
<1>5. CASE Founds(h, t)
  BY <1>5 DEF Founds
<1>6. CASE Ends(t)
  BY <1>6 DEF Ends
<1>7. ASSUME NEW u \in Users, Quits(h, t, u) PROVE HasOwner(t)'
  <2>1. role[t][u] # "owner"
    BY <1>7 DEF Quits
  <2>q. QED
    BY <1>7, <2>1 DEF Quits
<1>q. QED
  BY <1>1, <1>2, <1>3, <1>4, <1>5, <1>6, <1>7 DEF Changes

LEMMA ChangesKeepLive ==
  ASSUME MembersLive, NEW t \in Teams, NEW h, Changes(h, t),
         NEW v \in Users, role'[t][v] # None
  PROVE  Live(t)'
  BY DEF MembersLive, Changes, Same, GivesOver, Lowers, Joins, Founds, Ends,
     Quits, Live, None

(* Every statement does one of these things to a team.                     *)
LEMMA DropChanges ==
  ASSUME TeamsTyped, NEW us, NEW ts, Drop(us, ts), NEW t \in Teams
  PROVE  /\ tier'[t] = IF t \in ts THEN "deleted" ELSE tier[t]
         /\ \A u \in Users :
              role'[t][u] = IF u \in us \/ t \in ts THEN None ELSE role[t][u]
  BY DEF Drop, DropTeams, TeamsTyped

LEMMA JoinChanges ==
  ASSUME TeamsTyped, NEW u, NEW is, NEW ts, Join(u, is, ts), NEW t \in Teams,
         NEW v \in Users
  PROVE  \/ role'[t][v] = role[t][v]
         \/ /\ v = u /\ t \in ts
            /\ role[t][v] = None /\ role'[t][v] = "developer"
<1> DEFINE old == role[t]
           new == role'[t]
<1>1. new = [old EXCEPT ![u] = IF t \in ts /\ @ = None THEN "developer" ELSE @]
  BY DEF Join
<1>2. old \in [Users -> Roles]
  BY DEF TeamsTyped
<1> HIDE DEF old, new
<1>3. \/ new[v] = old[v]
      \/ v = u /\ t \in ts /\ old[v] = None /\ new[v] = "developer"
  BY <1>1, <1>2
<1> USE DEF old, new
<1>q. QED
  BY <1>3

LEMMA HandleChanges ==
  ASSUME Typed, TeamsInv, MembersLive, NEW h \in Handlers, Fits(req[h]),
         Handle(h), NEW t \in Teams
  PROVE  Changes(h, t)
<1> USE DEF Typed, Changes
<1> DEFINE r == req[h]
<1>1. CASE CheckTarget(h) \/ CheckAlreadyMember(h) \/ CheckSeats(h)
           \/ CheckDeleteMe(h) \/ CheckRegister(h)
  BY <1>1 DEF CheckTarget, CheckAlreadyMember, CheckSeats, CheckDeleteMe,
     CheckRegister, OnlyRead, Same
<1>2. CASE WriteRevoke(h) \/ ReplaceInvite(h) \/ InsertInvite(h)
  BY <1>2 DEF WriteRevoke, ReplaceInvite, InsertInvite, Same
<1>3. CASE WriteTransfer(h)
  <2>1. /\ r.op = "transfer" /\ r.at = "write" /\ tier' = tier /\ HandOver(r)
    BY <1>3 DEF WriteTransfer, Runs
  <2>2. CASE t # r.team
    BY <2>1, <2>2 DEF HandOver, TeamsTyped, Same
  <2>3. CASE t = r.team
    <3>1. role'[t] = [u \in Users |->
            IF role[t][u] = None THEN None
            ELSE IF u = r.by THEN "admin"
            ELSE IF u = r.on THEN "owner" ELSE role[t][u]]
      BY <2>1, <2>3 DEF HandOver, TeamsTyped
    <3>q. QED
      BY <2>1, <2>3, <3>1 DEF GivesOver
  <2>q. QED
    BY <2>2, <2>3
<1>4. CASE WriteRole(h)
  <2>1. PICK new \in {"admin", "developer"} :
          role' = [role EXCEPT ![r.team][r.on] = IF @ = None THEN None ELSE new]
    BY <1>4 DEF WriteRole
  <2>2. r.op = "setRole" /\ r.at = "write" /\ tier' = tier
    BY <1>4 DEF WriteRole, Runs
  <2>q. QED
    BY <2>1, <2>2 DEF TeamsTyped, Roles, None, Same, Lowers
<1>5. CASE DeleteMember(h)
  BY <1>5 DEF DeleteMember, TeamsTyped, Roles, None, Same, Lowers
<1>6. CASE WriteAccept(h)
  <2>1. CASE Live(r.team) /\ Join(r.by, {r.inv}, {r.team})
    <3>1. r.op = "accept" /\ tier' = tier
      BY <1>6 DEF WriteAccept, Runs
    <3>2. CASE t = r.team
      <4>1. \A v \in Users : \/ role'[t][v] = role[t][v]
                             \/ role[t][v] = None /\ role'[t][v] = "developer"
        BY <2>1, JoinChanges
      <4>q. QED
        BY <2>1, <3>1, <3>2, <4>1 DEF Joins
    <3>3. CASE t # r.team
      BY <2>1, <3>1, <3>3, JoinChanges DEF Same
    <3>q. QED
      BY <3>2, <3>3
  <2>2. CASE UNCHANGED <<role, tier>>
    BY <2>2 DEF Same
  <2>q. QED
    BY <1>6, <2>1, <2>2 DEF WriteAccept
<1>7. CASE WriteVerify(h)
  <2> DEFINE open == {i \in Invites : invite[i].st = "pending" /\ invite[i].to = r.by}
  <2>1. CASE Join(r.by, open, {invite[i].team : i \in open})
    <3>1. r.op = "verify" /\ r.team = None /\ tier' = tier
      BY <1>7 DEF WriteVerify, Runs, Fits
    <3>2. CASE Live(t)
      <4>1. \A v \in Users : \/ role'[t][v] = role[t][v]
                             \/ role[t][v] = None /\ role'[t][v] = "developer"
        BY <2>1, JoinChanges
      <4>q. QED
        BY <3>1, <3>2, <4>1 DEF Joins
    <3>3. CASE ~Live(t)
      <4>1. t \notin {invite[i].team : i \in open}
        BY <3>3 DEF TeamsInv
      <4>q. QED
        BY <2>1, <3>1, <4>1, JoinChanges DEF Same
    <3>q. QED
      BY <3>2, <3>3
  <2>2. CASE UNCHANGED <<role, tier>>
    BY <2>2 DEF Same
  <2>q. QED
    BY <1>7, <2>1, <2>2 DEF WriteVerify
<1>8. CASE WriteRegister(h) \/ WriteCreate(h)
  <2>1. CASE UNCHANGED <<tier, role>>
    BY <2>1 DEF Same
  <2>2. ASSUME NEW s \in Teams, Found(r.by, s) PROVE Changes(h, t)
    <3>1. r.by \in Users
      BY <1>8 DEF WriteRegister, WriteCreate, Runs, Fits
    <3>2. CASE t = s
      BY <2>2, <3>1, <3>2 DEF Found, TeamsTyped, TeamsInv, Founds
    <3>3. CASE t # s
      BY <2>2, <3>3 DEF Found, TeamsTyped, Same
    <3>q. QED
      BY <3>2, <3>3
  <2>q. QED
    BY <1>8, <2>1, <2>2 DEF WriteRegister, WriteCreate
<1>9. CASE WriteDeleteTeam(h)
  <2> DEFINE s == r.team
             stranded == {u \in Members(s) : \A x \in Teams \ {s} : u \notin Members(x)}
             ts == {s} \cap {x \in Teams : Live(x)}
  <2>1. PICK us \in SUBSET stranded : Drop(us, ts)
    BY <1>9 DEF WriteDeleteTeam
  <2>2. s \in Teams
    BY <1>9 DEF WriteDeleteTeam, Fits
  <2>3. CASE t \in ts
    BY <2>1, <2>3, DropChanges DEF Ends
  <2>4. CASE t \notin ts
    <3>1. ASSUME NEW u \in Users, u \in us PROVE role[t][u] = None
      <4>1. CASE t = s
        BY <2>4, <4>1 DEF MembersLive
      <4>2. CASE t # s
        BY <2>1, <3>1, <4>2 DEF Members
      <4>q. QED
        BY <4>1, <4>2
    <3>q. QED
      BY <2>1, <2>4, <3>1, DropChanges DEF Same
  <2>q. QED
    BY <2>3, <2>4
<1>10. CASE WriteDeleteMe(h)
  <2> DEFINE u == r.by
             ts == {s \in Teams : Members(s) = {u}}
  <2>1. /\ Drop({u}, ts) /\ r.op = "deleteMe" /\ r.at = "write"
        /\ u \in Users /\ r.team = None
    BY <1>10 DEF WriteDeleteMe, Runs, Fits
  <2>2. CASE t \in ts
    BY <2>1, <2>2, DropChanges DEF Ends
  <2>3. CASE t \notin ts
    <3>1. role[t][u] = "owner" => \E v \in Users : v # u /\ role[t][v] # None
      BY <2>1, <2>3 DEF Members, None
    <3>q. QED
      BY <2>1, <2>3, <3>1, DropChanges DEF Quits
  <2>q. QED
    BY <2>2, <2>3
<1>11. CASE WriteDeleteUser(h)
  <2> DEFINE u == r.on
             ts == {s \in r.sole : Live(s)}
  <2>1. /\ Drop({u}, ts) /\ r.op = "adminUser" /\ r.team = None
        /\ u \in Owners(t) => "admin" \in hist'[t]
    BY <1>11 DEF WriteDeleteUser, Runs, Fits
  <2>2. CASE t \in ts
    BY <2>1, <2>2, DropChanges DEF Ends
  <2>3. CASE t \notin ts /\ u \in Users
    BY <2>1, <2>3, DropChanges DEF Quits, Owners
  <2>4. CASE t \notin ts /\ u \notin Users
    BY <2>1, <2>4, DropChanges DEF Same
  <2>q. QED
    BY <2>2, <2>3, <2>4
<1>q. QED
  BY <1>1, <1>2, <1>3, <1>4, <1>5, <1>6, <1>7, <1>8, <1>9, <1>10, <1>11 DEF Handle

(* A request that goes on has checked what it counts on.                   *)
LEMMA HandleStands ==
  ASSUME Typed, TeamsInv, MembersLive, NEW h \in Handlers, Fits(req[h]),
         Handle(h), NEW t \in Teams, Stands(req[h], t)
  PROVE  Stands(req[h], t)'
<1> USE DEF Typed
<1> DEFINE r == req[h]
<1>1. CASE req'[h] = Idle
  BY <1>1 DEF Stands, Idle
<1>2. CASE CheckTarget(h) /\ req'[h] # Idle
  <2>1. /\ r.op \in {"transfer", "setRole", "remove"}
        /\ role[r.team][r.on] # None
        /\ role[r.team][r.on] = "owner" => r.op = "transfer"
        /\ UNCHANGED <<tier, role>> /\ req' = [req EXCEPT ![h].at = "write"]
    BY <1>2 DEF CheckTarget, Done, GoOn, OnlyRead, RequestsTyped
  <2>2. /\ req'[h].op = r.op /\ req'[h].team = r.team /\ req'[h].on = r.on
    BY <2>1 DEF RequestsTyped, RequestRows
  <2>q. QED
    BY <2>1, <2>2 DEF Stands, Live
<1>3. CASE CheckDeleteMe(h) /\ req'[h] # Idle
  <2>1. /\ r.op = "deleteMe" /\ ~DeleteMeRefused(r.by)
        /\ UNCHANGED <<tier, role>> /\ req' = [req EXCEPT ![h].at = "write"]
    BY <1>3 DEF CheckDeleteMe, Runs, Done, GoOn, OnlyRead, RequestsTyped
  <2>2. req'[h].op = r.op /\ req'[h].by = r.by
    BY <2>1 DEF RequestsTyped, RequestRows
  <2>3. ASSUME NEW u \in Users, role[t][r.by] = "owner", role[t][u] # None
        PROVE  u = r.by
    <3>1. r.by \in Owners(t)
      BY <2>1, <2>3 DEF Owners, Fits
    <3>q. QED
      BY <2>1, <2>3, <3>1 DEF DeleteMeRefused, Members
  <2>q. QED
    BY <2>1, <2>2, <2>3 DEF Stands
<1>4. CASE r.op \in {"invite", "accept", "register"}
  <2>1. req'[h].op \in {r.op, "idle"}
    BY HandleContinues DEF Continues, Idle
  <2>q. QED
    BY <1>4, <2>1 DEF Stands
<1>5. CASE CheckAlreadyMember(h) \/ CheckSeats(h) \/ CheckRegister(h) \/ ReplaceInvite(h)
  BY <1>4, <1>5 DEF CheckAlreadyMember, CheckSeats, CheckRegister, ReplaceInvite, Runs
<1>6. CASE WriteTransfer(h) \/ WriteRole(h) \/ DeleteMember(h) \/ WriteRevoke(h)
           \/ InsertInvite(h) \/ WriteAccept(h) \/ WriteVerify(h)
           \/ WriteRegister(h) \/ WriteCreate(h) \/ WriteDeleteTeam(h)
           \/ WriteDeleteMe(h) \/ WriteDeleteUser(h)
  <2>1. Done(h)
    BY <1>6 DEF WriteTransfer, WriteRole, DeleteMember, WriteRevoke, InsertInvite,
       WriteAccept, WriteVerify, WriteRegister, WriteCreate, WriteDeleteTeam,
       WriteDeleteMe, WriteDeleteUser
  <2>q. QED
    BY <1>1, <2>1 DEF Done, RequestsTyped
<1>q. QED
  BY <1>1, <1>2, <1>3, <1>5, <1>6 DEF Handle

-----------------------------------------------------------------------------
(* The steps of every kind.                                                *)

LEMMA HandleKeepsOwner ==
  ASSUME Typed, TeamsInv, KeepersInv, NEW h \in Handlers, Handle(h)
  PROVE  KeepersInv'
<1> USE DEF KeepersInv
<1>1. Continues(h) /\ TeamStep(h)
  BY HandleContinues, HandleTeams DEF Typed
<1>2. ASSUME NEW g \in Handlers
      PROVE  /\ req'[g] = req[g] \/ g = h
             /\ \/ req'[g].op = "idle"
                \/ /\ req'[g].op = req[g].op /\ req'[g].by = req[g].by
                   /\ req'[g].team = req[g].team /\ req'[g].on = req[g].on
  BY <1>1 DEF Continues, Idle
<1>3. \A t \in Teams : Changes(h, t)
  BY HandleChanges
<1>4. MembersLive'
  BY <1>3, ChangesKeepLive DEF MembersLive
<1>5. ASSUME NEW g \in Handlers PROVE Fits(req'[g])
  BY <1>2 DEF Fits
<1>6. req[h].op # "idle"
  BY DEF Handle, CheckTarget, CheckAlreadyMember, CheckSeats, CheckDeleteMe,
     CheckRegister, WriteTransfer, WriteRole, DeleteMember, WriteRevoke,
     ReplaceInvite, InsertInvite, WriteAccept, WriteVerify, WriteRegister,
     WriteCreate, WriteDeleteTeam, WriteDeleteMe, WriteDeleteUser, Runs
<1>7. ASSUME NEW t \in Teams PROVE Kept(t)'
  <2> SUFFICES ASSUME "clash" \notin hist'[t]
      PROVE  /\ Apart(t)' /\ \A g \in Handlers : Stands(req[g], t)'
             /\ Live(t)' /\ "admin" \notin hist'[t] => HasOwner(t)'
    BY DEF Kept
  <2>1. hist[t] \subseteq hist'[t] /\ "clash" \notin hist[t]
    BY <1>1 DEF TeamStep
  <2>2. /\ Apart(t) /\ \A g \in Handlers : Stands(req[g], t)
        /\ Live(t) /\ "admin" \notin hist[t] => HasOwner(t)
    BY <2>1 DEF Kept
  <2>3. Apart(t)'
    <3>1. \A g \in Handlers : Concerns(req'[g], t) =>
            Concerns(req[g], t) /\ req'[g].op = req[g].op
      BY <1>2 DEF Concerns
    <3>q. QED
      BY <2>2, <3>1 DEF Apart, Concerns
  <2>4. ASSUME NEW g \in Handlers PROVE Stands(req[g], t)'
    <3>1. CASE g = h
      BY <2>2, <3>1, HandleStands
    <3>2. CASE g # h
      BY <1>2, <1>3, <1>6, <2>2, <3>2, ChangesKeepStanding
    <3>q. QED
      BY <3>1, <3>2
  <2>5. Live(t)' /\ "admin" \notin hist'[t] => HasOwner(t)'
    BY <1>3, <2>1, <2>2, ChangesKeepOwner
  <2>q. QED
    BY <2>3, <2>4, <2>5
<1>q. QED
  BY <1>4, <1>5, <1>7

(* A request that begins beside one it clashes with is in the history.     *)
LEMMA OverlapTells ==
  ASSUME NEW r, NEW t, NEW h \in Handlers, NEW g \in Handlers, g # h,
         req[h] = Idle, Concerns(r, t), Concerns(req[g], t),
         "clash" \notin Overlap(r, t)
  PROVE  /\ r.op = "transfer" => req[g].op \notin Upsets
         /\ req[g].op = "transfer" => r.op \notin Upsets
         /\ r.op = "deleteMe" => req[g].op \notin {"accept", "verify"}
         /\ req[g].op = "deleteMe" => r.op \notin {"accept", "verify"}
<1> DEFINE o == req[g].op
<1>1. {r.op, o} \notin Clashing
  BY DEF Overlap
<1>2. \A x \in Upsets : {"transfer", x} \in Clashing /\ {x, "transfer"} \in Clashing
  BY DEF Upsets, Clashing
<1>3. \A x \in {"accept", "verify"} :
        {"deleteMe", x} \in Clashing /\ {x, "deleteMe"} \in Clashing
  BY DEF Clashing
<1>q. QED
  BY <1>1, <1>2, <1>3

LEMMA BeginKeepsOwner ==
  ASSUME Typed, TeamsInv, KeepersInv, NEW h \in Handlers, Begins(h)
  PROVE  KeepersInv'
<1> USE DEF KeepersInv
<1>1. PICK r \in RequestRows : Rightful(r) /\ Begin(h, r)
  BY DEF Begins
<1>2. /\ req[h] = Idle /\ req' = [req EXCEPT ![h] = r]
      /\ hist' = [t \in Teams |-> hist[t] \cup Overlap(r, t)]
      /\ UNCHANGED <<acct, trials, tier, role, invite>>
  BY <1>1 DEF Begin
<1>3. /\ req'[h] = r
      /\ \A g \in Handlers \ {h} : req'[g] = req[g]
  BY <1>2 DEF Typed, RequestsTyped
<1>4. MembersLive' /\ \A g \in Handlers : Fits(req'[g])
  BY <1>1, <1>2, <1>3 DEF MembersLive, Live, Rightful
<1>5. ASSUME NEW t \in Teams PROVE Kept(t)'
  <2> SUFFICES ASSUME "clash" \notin hist'[t]
      PROVE  /\ Apart(t)' /\ \A g \in Handlers : Stands(req[g], t)'
             /\ Live(t)' /\ "admin" \notin hist'[t] => HasOwner(t)'
    BY DEF Kept
  <2>1. "clash" \notin hist[t] /\ "clash" \notin Overlap(r, t)
    BY <1>2
  <2>2. /\ Apart(t) /\ \A g \in Handlers : Stands(req[g], t)
        /\ Live(t) /\ "admin" \notin hist[t] => HasOwner(t)
    BY <2>1 DEF Kept
  <2>3. Apart(t)'
    <3>1. SUFFICES ASSUME NEW g \in Handlers, NEW k \in Handlers,
                          Concerns(req'[g], t), Concerns(req'[k], t)
          PROVE  /\ req'[g].op = "transfer" => req'[k].op \notin Upsets
                 /\ req'[g].op = "deleteMe" => req'[k].op \notin {"accept", "verify"}
      BY DEF Apart, Concerns
    <3>2. CASE g = k
      BY <3>2 DEF Upsets
    <3>3. CASE g # h /\ k # h
      BY <1>3, <2>2, <3>1, <3>3 DEF Apart
    <3>4. CASE g = h /\ k # h
      BY <1>2, <1>3, <2>1, <3>1, <3>4, OverlapTells
    <3>5. CASE g # h /\ k = h
      BY <1>2, <1>3, <2>1, <3>1, <3>5, OverlapTells
    <3>q. QED
      BY <3>2, <3>3, <3>4, <3>5
  <2>4. ASSUME NEW g \in Handlers PROVE Stands(req[g], t)'
    <3>1. CASE g # h
      BY <1>2, <1>3, <2>2, <3>1 DEF Stands, Live
    <3>2. Stands(r, t)'
      BY <1>1, <1>2 DEF Rightful, Fits, Stands, TeamsInv, None
    <3>q. QED
      BY <1>3, <3>1, <3>2
  <2>5. Live(t)' /\ "admin" \notin hist'[t] => HasOwner(t)'
    BY <1>2, <2>2 DEF Live, HasOwner
  <2>q. QED
    BY <2>3, <2>4, <2>5
<1>q. QED
  BY <1>4, <1>5

LEMMA OthersKeepOwner ==
  ASSUME Typed, TeamsInv, KeepersInv,
         \/ \E t \in Teams : ChangePlan(t)
         \/ \E i \in Invites : Expire(i)
         \/ UNCHANGED vars
  PROVE  KeepersInv'
<1>1. /\ role' = role /\ req' = req
      /\ \A t \in Teams : Live(t)' <=> Live(t)
      /\ \A t \in Teams : tier[t] # "unused" => tier'[t] # "unused"
      /\ \A t \in Teams, x \in {"clash", "admin"} : x \in hist[t] => x \in hist'[t]
  BY DEF ChangePlan, Expire, vars, Live, Typed, TeamsTyped
<1>q. QED
  BY <1>1 DEF KeepersInv, MembersLive, Kept, Apart, Concerns, Stands, HasOwner

LEMMA InitKeepers == Init => KeepersInv
<1> SUFFICES ASSUME Init PROVE KeepersInv
  OBVIOUS
<1>1. PICK u \in Users, t \in Teams, ms \in SUBSET Users, vs \in SUBSET Users :
        /\ u \in ms /\ ms \subseteq vs
        /\ acct = [v \in Users |-> IF v \in vs THEN "verified" ELSE "absent"]
        /\ trials = [v \in Users |-> IF v = u THEN 1 ELSE 0]
        /\ tier = [s \in Teams |-> IF s = t THEN "free" ELSE "unused"]
        /\ role = [s \in Teams |-> [v \in Users |->
                     IF s # t \/ v \notin ms THEN None
                     ELSE IF v = u THEN "owner" ELSE "developer"]]
        /\ req = [h \in Handlers |-> Idle]
  BY ZenonT(60) DEF Init
<1>2. \A h \in Handlers : req[h].op = "idle"
  BY <1>1 DEF Idle
<1>3. MembersLive
  BY <1>1 DEF MembersLive, Live
<1>4. \A s \in Teams : Live(s) => HasOwner(s)
  BY <1>1 DEF Live, HasOwner, None
<1>q. QED
  BY <1>2, <1>3, <1>4 DEF KeepersInv, Kept, Fits, Apart, Concerns, Stands

LEMMA KeepersHold == Spec => []KeepersInv
<1>1. Init => KeepersInv
  BY InitKeepers
<1>2. MembershipInv /\ KeepersInv /\ [Next]_vars => KeepersInv'
  <2> SUFFICES ASSUME Typed, TeamsInv, KeepersInv, MembershipInv, [Next]_vars
               PROVE  KeepersInv'
    BY DEF MembershipInv
  <2>1. ASSUME NEW h \in Handlers,
               TeamRequest(h) \/ UserRequest(h) \/ Visitor(h) \/ AdminRequest(h)
        PROVE  KeepersInv'
    BY <2>1, RequestBegins, BeginKeepsOwner
  <2>2. ASSUME NEW h \in Handlers, Handle(h) PROVE KeepersInv'
    BY <2>2, HandleKeepsOwner
  <2>3. CASE \/ \E t \in Teams : ChangePlan(t)
             \/ \E i \in Invites : Expire(i)
             \/ UNCHANGED vars
    BY <2>3, OthersKeepOwner
  <2>q. QED
    BY <2>1, <2>2, <2>3 DEF Next
<1>q. QED
  BY <1>1, <1>2, InvariantHolds, PTL DEF Spec

(* A live team has an owner as long as no administrator deleted him and    *)
(* none of the clashing pairs of requests ran at once: departures,         *)
(* removals, role changes, deletions and joins in any other order and      *)
(* number leave it one.                                                    *)
THEOREM TeamsKeepAnOwner == Spec => []OwnerKept
<1>1. KeepersInv => OwnerKept
  BY DEF KeepersInv, Kept, HasOwner, OwnerKept, Owners
<1>q. QED
  BY <1>1, KeepersHold, PTL

-----------------------------------------------------------------------------
(* Seats.  A seat that is taken was counted before: as the invitation of   *)
(* who joins, or as one that a request was allowed to write.               *)

(* The invitation that a request is to accept was there when it began, and *)
(* is to its caller; one who invites does so for a team that was founded.  *)
Grounded(r) ==
  /\ r.op = "accept" =>
       /\ r.inv \in Invites /\ r.by \in Users /\ r.team \in Teams
       /\ invite[r.inv].team = r.team /\ invite[r.inv].to = r.by
       /\ invite[r.inv].st # "free" /\ tier[r.team] # "unused"
  /\ r.op = "invite" =>
       /\ r.team \in Teams /\ r.on \in Users /\ tier[r.team] # "unused"

(* Seats that a team has given away: those of its members, those of users  *)
(* whose invitation was closed while they accept it, those of open         *)
(* invitations and of the ones that were allowed and are not yet written.  *)
Strays(r, u, t) ==
  /\ r.op = "accept" /\ r.by = u /\ r.team = t
  /\ invite[r.inv].st # "pending"
Seated(t) ==
  {u \in Users : role[t][u] # None \/ \E h \in Handlers : Strays(req[h], u, t)}
Reserves(r, t) == r.op = "invite" /\ r.team = t /\ r.at \in {"replace", "insert"}
Reserving(t) == {h \in Handlers : Reserves(req[h], t)}
Claims(t) ==
  Cardinality(Seated(t)) + Cardinality(Pending(t)) + Cardinality(Reserving(t))
Limit(t) ==
  (IF "paid" \in hist[t] THEN PaidCap ELSE FreeCap) + Cardinality(Handlers) - 1

SeatsInv ==
  /\ \A h \in Handlers : Grounded(req[h])
  /\ \A i \in Invites :
       invite[i].st = "pending" => invite[i].team \in Teams /\ invite[i].to \in Users
  /\ \A t \in Teams : tier[t] = "paid" => "paid" \in hist[t]
  /\ \A t \in Teams : Claims(t) <= Limit(t)

(* Invitation i of user u to team t is taken up, replaced, revoked, or it  *)
(* expires.                                                                *)
Closed(i, u, t) ==
  /\ invite[i].st = "pending" /\ invite[i].team = t /\ invite[i].to = u
  /\ invite'[i].st # "pending"
Closes ==
  \A i \in Invites :
    /\ invite'[i].team = invite[i].team /\ invite'[i].to = invite[i].to
    /\ \/ invite'[i].st = invite[i].st
       \/ invite'[i].st \in {"expired", "accepted", "gone"}

(* Team t gives no seat away but for an invitation that is closed.         *)
Trades(t) ==
  /\ Closes
  /\ \A g \in Handlers : Reserves(req'[g], t) => Reserves(req[g], t)
  /\ \A u \in Users : u \in Seated(t)' =>
       u \in Seated(t) \/ \E i \in Invites : Closed(i, u, t)

LEMMA SetsFinite ==
  ASSUME NEW t
  PROVE  /\ IsFiniteSet(Seated(t)) /\ IsFiniteSet(Pending(t))
         /\ IsFiniteSet(Reserving(t)) /\ IsFiniteSet(Members(t))
         /\ IsFiniteSet(Seated(t)') /\ IsFiniteSet(Pending(t)')
         /\ IsFiniteSet(Reserving(t)')
<1>1. /\ Seated(t) \in SUBSET Users /\ Seated(t)' \in SUBSET Users
      /\ Members(t) \in SUBSET Users
      /\ Pending(t) \in SUBSET Invites /\ Pending(t)' \in SUBSET Invites
      /\ Reserving(t) \in SUBSET Handlers /\ Reserving(t)' \in SUBSET Handlers
  BY DEF Seated, Members, Pending, Reserving
<1>q. QED
  BY <1>1, FS_Subset, MembershipAssumption

(* Who comes in addition can be matched with what has gone.                *)
LEMMA Matched ==
  ASSUME NEW W, NEW X, NEW P, NEW Q, NEW to,
         IsFiniteSet(W), IsFiniteSet(X), IsFiniteSet(P), Q \subseteq P,
         \A u \in X \ W : \E i \in P \ Q : to[i] = u
  PROVE  Cardinality(X) + Cardinality(Q) <= Cardinality(W) + Cardinality(P)
<1> DEFINE N == X \ W
           D == P \ Q
           f == [u \in N |-> CHOOSE i \in D : to[i] = u]
<1>1. f \in Injection(N, D)
  <2>1. \A u \in N : f[u] \in D /\ to[f[u]] = u
    OBVIOUS
  <2>2. f \in [N -> D]
    BY <2>1
  <2> HIDE DEF f
  <2>q. QED
    BY <2>1, <2>2 DEF Injection, IsInjective
<1>2. /\ IsFiniteSet(N) /\ IsFiniteSet(D) /\ IsFiniteSet(Q)
      /\ Cardinality(D) = Cardinality(P) - Cardinality(P \cap Q)
      /\ P \cap Q = Q
  BY FS_Difference, FS_Subset
<1>3. Cardinality(N) <= Cardinality(D)
  BY <1>1, <1>2, FS_Injection
<1>4. Cardinality(X) = Cardinality(N) + Cardinality(X \cap W)
  <2>1. Cardinality(N) = Cardinality(X) - Cardinality(X \cap W)
    BY FS_Difference
  <2>2. IsFiniteSet(X \cap W)
    BY FS_Intersection
  <2>q. QED
    BY <1>2, <2>1, <2>2, FS_CardinalityType
<1>5. Cardinality(X \cap W) <= Cardinality(W) /\ IsFiniteSet(X \cap W)
  BY FS_Intersection
<1>6. /\ Cardinality(N) \in Nat /\ Cardinality(D) \in Nat /\ Cardinality(P) \in Nat
      /\ Cardinality(Q) \in Nat /\ Cardinality(W) \in Nat
      /\ Cardinality(X \cap W) \in Nat
  BY <1>2, <1>5, FS_CardinalityType
<1>7. Cardinality(D) = Cardinality(P) - Cardinality(Q)
  BY <1>2
<1> HIDE DEF N, D
<1>q. QED
  BY <1>3, <1>4, <1>5, <1>6, <1>7

LEMMA TradesKeep ==
  ASSUME NEW t, Trades(t) PROVE Claims(t)' <= Claims(t)
<1> DEFINE to == [i \in Invites |-> invite[i].to]
<1>1. Pending(t)' \subseteq Pending(t) /\ Reserving(t)' \subseteq Reserving(t)
  BY DEF Trades, Closes, Pending, Reserving
<1>2. \A u \in Seated(t)' \ Seated(t) :
        \E i \in Pending(t) \ Pending(t)' : to[i] = u
  BY DEF Trades, Closed, Pending, Seated
<1>3. Cardinality(Seated(t)') + Cardinality(Pending(t)')
        <= Cardinality(Seated(t)) + Cardinality(Pending(t))
  <2> HIDE DEF to
  <2>q. QED
    BY <1>1, <1>2, SetsFinite, Matched
<1>4. Cardinality(Reserving(t)') <= Cardinality(Reserving(t))
  BY <1>1, SetsFinite, FS_Subset
<1>q. QED
  BY <1>3, <1>4, SetsFinite, FS_CardinalityType DEF Claims

(* Request h is allowed to invite to team t.                               *)
Allowed(h, t) ==
  /\ req[h].op = "invite" /\ req[h].team = t /\ req[h].at = "seats"
  /\ req'[h].op = "invite" /\ \A g \in Handlers \ {h} : req'[g] = req[g]
  /\ SeatsFree(t, 1)
  /\ UNCHANGED <<role, invite, tier, hist>>

(* Request h writes invitation i, for which it had a seat.                 *)
Opens(h, i) ==
  /\ req[h].op = "invite" /\ req[h].at = "insert"
  /\ invite[i].st = "free" /\ invite'[i].team = req[h].team
  /\ invite'[i].to = req[h].on
  /\ \A j \in Invites \ {i} : invite'[j] = invite[j]
  /\ req'[h] = Idle /\ \A g \in Handlers \ {h} : req'[g] = req[g]
  /\ UNCHANGED <<role, tier, hist>>

LEMMA SeatSizes ==
  ASSUME NEW t
  PROVE  /\ Cardinality(Seated(t)) \in Nat /\ Cardinality(Pending(t)) \in Nat
         /\ Cardinality(Reserving(t)) \in Nat /\ Cardinality(Members(t)) \in Nat
         /\ Cardinality(Seated(t)') \in Nat /\ Cardinality(Pending(t)') \in Nat
         /\ Cardinality(Reserving(t)') \in Nat
  BY SetsFinite, FS_CardinalityType

LEMMA OneMore ==
  ASSUME NEW S, NEW x, IsFiniteSet(S)
  PROVE  IsFiniteSet(S \cup {x}) /\ Cardinality(S \cup {x}) <= Cardinality(S) + 1
<1>1. Cardinality(S) \in Nat
  BY FS_CardinalityType
<1>2. /\ IsFiniteSet(S \cup {x})
      /\ Cardinality(S \cup {x}) = IF x \in S THEN Cardinality(S) ELSE Cardinality(S) + 1
  BY FS_AddElement
<1>q. QED
  BY <1>1, <1>2

LEMMA SomeHandler == Cardinality(Handlers) \in Nat \ {0}
  BY MembershipAssumption, FS_CardinalityType, FS_EmptySet

LEMMA LimitGrows ==
  ASSUME NEW t \in Teams, hist[t] \subseteq hist'[t] PROVE Limit(t) <= Limit(t)'
  BY SomeHandler, MembershipAssumption DEF Limit

(* All but request h may each have a seat that nobody counts yet.          *)
LEMMA AllowedKeeps ==
  ASSUME TeamsInv, MembersLive, NEW t \in Teams, NEW h \in Handlers, Allowed(h, t),
         tier[t] = "paid" => "paid" \in hist[t]
  PROVE  Claims(t)' <= Limit(t)'
<1> DEFINE Extra == Seated(t) \ Members(t)
           Guests == {g \in Handlers : \E u \in Users : Strays(req[g], u, t)}
           Inviters == Reserving(t)
           Others == Handlers \ {h}
           C == IF "paid" \in hist[t] THEN PaidCap ELSE FreeCap
           f == [u \in Extra |-> CHOOSE g \in Guests : req[g].by = u]
<1>1. f \in Injection(Extra, Guests)
  <2>1. ASSUME NEW u \in Extra PROVE \E g \in Guests : req[g].by = u
    <3>1. PICK g \in Handlers : Strays(req[g], u, t)
      BY DEF Seated, Members
    <3>q. QED
      BY <3>1 DEF Strays, Seated
  <2>2. \A u \in Extra : f[u] \in Guests /\ req[f[u]].by = u
    BY <2>1
  <2>3. f \in [Extra -> Guests]
    BY <2>2
  <2> HIDE DEF f
  <2>q. QED
    BY <2>2, <2>3 DEF Injection, IsInjective
<1>2. /\ Guests \subseteq Others /\ Inviters \subseteq Others
      /\ Guests \cap Inviters = {}
  BY DEF Allowed, Strays, Reserving, Reserves
<1>3. IsFiniteSet(Others) /\ Cardinality(Others) = Cardinality(Handlers) - 1
  BY MembershipAssumption, FS_RemoveElement
<1>4. IsFiniteSet(Guests) /\ IsFiniteSet(Inviters)
  BY <1>2, <1>3, FS_Subset
<1>5. Cardinality(Extra) <= Cardinality(Guests) /\ IsFiniteSet(Extra)
  BY <1>1, <1>4, FS_Injection
<1>sizes. /\ Cardinality(Extra) \in Nat /\ Cardinality(Guests) \in Nat
      /\ Cardinality(Inviters) \in Nat /\ C \in Nat
  BY <1>4, <1>5, FS_CardinalityType, MembershipAssumption
<1>6. Cardinality(Guests \cup Inviters) = Cardinality(Guests) + Cardinality(Inviters)
  <2> HIDE DEF Guests, Inviters
  <2>1. Cardinality(Guests \cup Inviters)
          = Cardinality(Guests) + Cardinality(Inviters) - Cardinality(Guests \cap Inviters)
    BY <1>4, FS_Union
  <2>2. Cardinality(Guests \cap Inviters) = 0
    BY <1>2, FS_EmptySet
  <2>q. QED
    BY <1>sizes, <2>1, <2>2
<1>7. Cardinality(Guests \cup Inviters) <= Cardinality(Others)
  BY <1>2, <1>3, FS_Subset
<1>8. Cardinality(Seated(t)') <= Cardinality(Members(t)) + Cardinality(Extra)
  <2>1. Seated(t)' = Members(t) \cup Extra
    <3>1. \A g \in Handlers, u \in Users : Strays(req[g], u, t)' <=> Strays(req[g], u, t)
      BY DEF Allowed, Strays
    <3>q. QED
      BY <3>1 DEF Allowed, Seated, Members
  <2>2. Cardinality(Members(t) \cap Extra) = 0
    <3>1. Members(t) \cap Extra = {}
      OBVIOUS
    <3>q. QED
      BY <3>1, FS_EmptySet
  <2> HIDE DEF Extra
  <2>3. Cardinality(Members(t) \cup Extra)
          = Cardinality(Members(t)) + Cardinality(Extra)
            - Cardinality(Members(t) \cap Extra)
    BY <1>5, SetsFinite, FS_Union
  <2>q. QED
    BY <1>sizes, <2>1, <2>2, <2>3, SeatSizes
<1>9. Pending(t)' = Pending(t)
  BY DEF Allowed, Pending
<1>10. Cardinality(Reserving(t)') <= Cardinality(Inviters) + 1
  <2>1. Reserving(t)' \subseteq Inviters \cup {h}
    BY DEF Allowed, Reserving
  <2>2. /\ IsFiniteSet(Inviters \cup {h})
        /\ Cardinality(Inviters \cup {h}) <= Cardinality(Inviters) + 1
    BY <1>4, OneMore
  <2>3. Cardinality(Reserving(t)') <= Cardinality(Inviters \cup {h})
    BY <2>1, <2>2, FS_Subset
  <2>q. QED
    BY <2>2, <2>3, <1>4, SetsFinite, FS_CardinalityType
<1>11. Cardinality(Members(t)) + Cardinality(Pending(t)) + 1 <= C
  <2>1. CASE Live(t)
    BY <2>1, MembershipAssumption, SeatSizes DEF Allowed, SeatsFree, Used, Cap, Live
  <2>2. CASE ~Live(t)
    <3>1. Members(t) = {} /\ Pending(t) = {}
      BY <2>2 DEF MembersLive, Members, TeamsInv, Pending
    <3>q. QED
      BY <3>1, FS_EmptySet, MembershipAssumption
  <2>q. QED
    BY <2>1, <2>2
<1>12. Limit(t)' = C + Cardinality(Handlers) - 1
  BY DEF Allowed, Limit
<1> HIDE DEF Extra, Guests, Inviters, Others, C
<1>q. QED
  BY <1>3, <1>5, <1>6, <1>7, <1>8, <1>9, <1>10, <1>11, <1>12, <1>sizes, SeatSizes,
     SomeHandler DEF Claims

(* A team that is founded has no seat given away yet.                      *)
LEMMA FoundsKeep ==
  ASSUME TeamsInv, NEW t \in Teams, NEW h \in Handlers, Founds(h, t), Continues(h),
         \A g \in Handlers : Grounded(req[g]), Closes
  PROVE  Claims(t)' <= Limit(t)'
<1> DEFINE u == req[h].by
<1>1. \A g \in Handlers : req'[g].op \in {"accept", "invite"} => req'[g].team # t
  <2>1. \A g \in Handlers : \/ req'[g].op = "idle"
                            \/ req'[g].op = req[g].op /\ req'[g].team = req[g].team
    BY DEF Continues, Idle
  <2>q. QED
    BY <2>1 DEF Grounded, Founds
<1>2. Seated(t)' \subseteq {u}
  BY <1>1 DEF Seated, Strays, Founds
<1>3. Pending(t)' = {}
  BY DEF Closes, Pending, TeamsInv, Founds, Live
<1>4. Reserving(t)' = {}
  BY <1>1 DEF Reserving, Reserves
<1>5. Cardinality(Seated(t)') <= 1
  <2>1. IsFiniteSet({u}) /\ Cardinality({u}) = 1
    BY FS_Singleton
  <2>q. QED
    BY <1>2, <2>1, FS_Subset
<1>6. 1 <= Limit(t)'
  BY SomeHandler, MembershipAssumption DEF Limit
<1>7. Limit(t)' \in Int
  BY SomeHandler, MembershipAssumption DEF Limit
<1>q. QED
  BY <1>3, <1>4, <1>5, <1>6, <1>7, FS_EmptySet, SeatSizes DEF Claims

LEMMA OpensKeep ==
  ASSUME NEW t \in Teams, NEW h \in Handlers, NEW i \in Invites, Opens(h, i),
         \A g \in Handlers : Grounded(req[g])
  PROVE  Claims(t)' <= Claims(t)
<1>1. Seated(t)' \subseteq Seated(t)
  <2>1. ASSUME NEW g \in Handlers, NEW u \in Users, Strays(req[g], u, t)'
        PROVE  Strays(req[g], u, t)
    <3>1. g # h /\ req'[g] = req[g]
      BY <2>1 DEF Opens, Idle, Strays
    <3>2. req[g].inv \in Invites \ {i}
      BY <2>1, <3>1 DEF Opens, Grounded, Strays
    <3>q. QED
      BY <2>1, <3>1, <3>2 DEF Opens, Strays
  <2>q. QED
    BY <2>1 DEF Opens, Seated
<1>2. Cardinality(Seated(t)') <= Cardinality(Seated(t))
  BY <1>1, SetsFinite, FS_Subset
<1>3. Reserving(t)' \subseteq Reserving(t) \ {h}
  BY DEF Opens, Reserving, Reserves, Idle
<1>4. CASE t = req[h].team
  <2>1. h \in Reserving(t)
    BY <1>4 DEF Opens, Reserving, Reserves
  <2>2. Cardinality(Reserving(t)') <= Cardinality(Reserving(t)) - 1
    <3>1. /\ IsFiniteSet(Reserving(t) \ {h})
          /\ Cardinality(Reserving(t) \ {h}) = Cardinality(Reserving(t)) - 1
      BY <2>1, SetsFinite, FS_RemoveElement
    <3>q. QED
      BY <1>3, <3>1, FS_Subset
  <2>3. Cardinality(Pending(t)') <= Cardinality(Pending(t)) + 1
    <3>1. Pending(t)' \subseteq Pending(t) \cup {i}
      BY DEF Opens, Pending
    <3>2. /\ IsFiniteSet(Pending(t) \cup {i})
          /\ Cardinality(Pending(t) \cup {i}) <= Cardinality(Pending(t)) + 1
      BY SetsFinite, OneMore
    <3>3. Cardinality(Pending(t)') <= Cardinality(Pending(t) \cup {i})
      BY <3>1, <3>2, FS_Subset
    <3>q. QED
      BY <3>2, <3>3, SeatSizes, FS_CardinalityType
  <2>q. QED
    BY <1>2, <2>2, <2>3, SeatSizes DEF Claims
<1>5. CASE t # req[h].team
  <2>1. Pending(t)' \subseteq Pending(t)
    BY <1>5 DEF Opens, Pending
  <2>2. /\ Cardinality(Pending(t)') <= Cardinality(Pending(t))
        /\ Cardinality(Reserving(t)') <= Cardinality(Reserving(t))
    <3>1. Reserving(t)' \subseteq Reserving(t)
      BY <1>3
    <3>q. QED
      BY <2>1, <3>1, SetsFinite, FS_Subset
  <2>q. QED
    BY <1>2, <2>2, SeatSizes DEF Claims
<1>q. QED
  BY <1>4, <1>5

-----------------------------------------------------------------------------
(* Every statement of a request does one of these things.                  *)

LEMMA DropCloses ==
  ASSUME InvitesTyped, NEW ts, DropTeams(ts) PROVE Closes
  BY DEF DropTeams, InvitesTyped, InviteRows, Closes

LEMMA JoinCloses ==
  ASSUME InvitesTyped, NEW u, NEW is, NEW ts, Join(u, is, ts) PROVE Closes
  BY DEF Join, InvitesTyped, InviteRows, Closes

LEMMA HandleInvites ==
  ASSUME Typed, NEW h \in Handlers, Handle(h)
  PROVE  Closes \/ \E i \in Invites : Opens(h, i)
<1> USE DEF Typed
<1>1. CASE UNCHANGED invite
  BY <1>1 DEF Closes
<1>2. CASE CheckTarget(h) \/ CheckAlreadyMember(h) \/ CheckSeats(h)
           \/ CheckDeleteMe(h) \/ CheckRegister(h) \/ WriteTransfer(h)
           \/ WriteRole(h) \/ DeleteMember(h) \/ WriteRegister(h) \/ WriteCreate(h)
  BY <1>1, <1>2 DEF CheckTarget, CheckAlreadyMember, CheckSeats, CheckDeleteMe,
     CheckRegister, WriteTransfer, WriteRole, DeleteMember, WriteRegister,
     WriteCreate, OnlyRead
<1>3. CASE WriteRevoke(h)
  BY <1>3 DEF WriteRevoke, InvitesTyped, InviteRows, Closes
<1>4. CASE ReplaceInvite(h)
  BY <1>4 DEF ReplaceInvite, InvitesTyped, InviteRows, Closes
<1>5. CASE InsertInvite(h)
  <2> DEFINE r == req[h]
             row == [st |-> "pending", team |-> r.team, to |-> r.on]
  <2>1. CASE /\ invite[FreshInvite].st = "free"
             /\ invite' = [invite EXCEPT ![FreshInvite] = row]
    <3>1. CASE FreshInvite \in Invites
      <4>1. /\ r.op = "invite" /\ r.at = "insert" /\ Done(h)
            /\ UNCHANGED <<role, tier, hist>>
        BY <1>5 DEF InsertInvite, Runs
      <4>2. req'[h] = Idle /\ \A g \in Handlers \ {h} : req'[g] = req[g]
        BY <4>1 DEF Done, RequestsTyped
      <4>3. /\ invite'[FreshInvite] = row
            /\ \A j \in Invites \ {FreshInvite} : invite'[j] = invite[j]
        BY <2>1, <3>1 DEF InvitesTyped
      <4>q. QED
        BY <2>1, <3>1, <4>1, <4>2, <4>3 DEF Opens
    <3>2. CASE FreshInvite \notin Invites
      BY <2>1, <3>2 DEF InvitesTyped, Closes
    <3>q. QED
      BY <3>1, <3>2
  <2>q. QED
    BY <1>1, <1>5, <2>1 DEF InsertInvite
<1>6. CASE WriteAccept(h)
  BY <1>1, <1>6, JoinCloses DEF WriteAccept
<1>7. CASE WriteVerify(h)
  BY <1>1, <1>7, JoinCloses DEF WriteVerify
<1>8. CASE WriteDeleteTeam(h) \/ WriteDeleteMe(h) \/ WriteDeleteUser(h)
  BY <1>8, DropCloses DEF WriteDeleteTeam, WriteDeleteMe, WriteDeleteUser, Drop
<1>q. QED
  BY <1>2, <1>3, <1>4, <1>5, <1>6, <1>7, <1>8 DEF Handle

LEMMA HandleReserves ==
  ASSUME Typed, NEW h \in Handlers, Handle(h), NEW t, Reserves(req'[h], t)
  PROVE  Reserves(req[h], t) \/ Allowed(h, t)
<1> DEFINE r == req[h]
<1>1. req'[h] # Idle /\ req'[h].op = "invite" /\ req'[h].at \in {"replace", "insert"}
  BY DEF Reserves, Idle
<1>2. r.op = "invite" /\ r.team = t
  BY <1>1, HandleContinues DEF Continues, Typed, Reserves
<1>3. ~Done(h)
  BY <1>1 DEF Done, Typed, RequestsTyped
<1>4. CASE CheckAlreadyMember(h)
  <2>1. GoOn(h, "seats")
    BY <1>3, <1>4 DEF CheckAlreadyMember
  <2>2. req'[h].at = "seats"
    BY <2>1 DEF GoOn, Typed, RequestsTyped, RequestRows
  <2>q. QED
    BY <1>1, <2>2
<1>5. CASE CheckSeats(h)
  <2>1. SeatsFree(t, 1) /\ r.at = "seats" /\ UNCHANGED <<role, invite, tier, hist>>
    BY <1>2, <1>3, <1>5 DEF CheckSeats, OnlyRead
  <2>2. \A g \in Handlers \ {h} : req'[g] = req[g]
    BY HandleContinues DEF Continues, Typed
  <2>q. QED
    BY <1>1, <1>2, <2>1, <2>2 DEF Allowed
<1>6. CASE ReplaceInvite(h)
  BY <1>2, <1>6 DEF ReplaceInvite, Runs, Reserves
<1>7. CASE CheckTarget(h) \/ CheckDeleteMe(h) \/ CheckRegister(h)
  BY <1>2, <1>7 DEF CheckTarget, CheckDeleteMe, CheckRegister, Runs
<1>q. QED
  BY <1>3, <1>4, <1>5, <1>6, <1>7 DEF Handle, WriteTransfer, WriteRole, DeleteMember,
     WriteRevoke, InsertInvite, WriteAccept, WriteVerify, WriteRegister, WriteCreate,
     WriteDeleteTeam, WriteDeleteMe, WriteDeleteUser

(* Who becomes a member takes up an invitation.                            *)
LEMMA JoinsTakeSeats ==
  ASSUME Typed, NEW h \in Handlers, Handle(h), Grounded(req[h]), NEW t \in Teams,
         req[h].op \in {"accept", "verify"}, NEW u \in Users, role'[t][u] # role[t][u]
  PROVE  Strays(req[h], u, t) \/ \E i \in Invites : Closed(i, u, t)
<1> USE DEF Typed
<1> DEFINE r == req[h]
<1>1. role' # role
  OBVIOUS
<1>2. CASE WriteAccept(h)
  <2>1. r.op = "accept" /\ Join(r.by, {r.inv}, {r.team})
    BY <1>1, <1>2 DEF WriteAccept, Runs
  <2>2. u = r.by /\ t = r.team
    BY <2>1, JoinChanges
  <2>3. r.inv \in Invites /\ invite[r.inv].team = t /\ invite[r.inv].to = u
    BY <2>1, <2>2 DEF Grounded
  <2>4. CASE invite[r.inv].st = "pending"
    <3>1. invite'[r.inv].st = "accepted"
      BY <2>1, <2>3, <2>4 DEF Join, InvitesTyped, InviteRows
    <3>q. QED
      BY <2>3, <2>4, <3>1 DEF Closed
  <2>5. CASE invite[r.inv].st # "pending"
    BY <2>1, <2>2, <2>5 DEF Strays
  <2>q. QED
    BY <2>4, <2>5
<1>3. CASE WriteVerify(h)
  <2> DEFINE open == {i \in Invites : invite[i].st = "pending" /\ invite[i].to = r.by}
  <2>1. Join(r.by, open, {invite[i].team : i \in open})
    BY <1>1, <1>3 DEF WriteVerify
  <2>2. u = r.by /\ t \in {invite[i].team : i \in open}
    BY <2>1, JoinChanges
  <2>3. PICK i \in open : invite[i].team = t
    BY <2>2
  <2>4. invite'[i].st = "accepted"
    BY <2>1, <2>3 DEF Join, InvitesTyped, InviteRows
  <2>q. QED
    BY <2>2, <2>3, <2>4 DEF Closed
<1>4. CASE CheckSeats(h)
  BY <1>1, <1>4 DEF CheckSeats, OnlyRead
<1>q. QED
  BY <1>2, <1>3, <1>4 DEF Handle, CheckTarget, CheckAlreadyMember, CheckDeleteMe,
     CheckRegister, WriteTransfer, WriteRole, DeleteMember, WriteRevoke, ReplaceInvite,
     InsertInvite, WriteRegister, WriteCreate, WriteDeleteTeam, WriteDeleteMe,
     WriteDeleteUser, Runs

-----------------------------------------------------------------------------
(* The steps of every kind.                                                *)

(* An invitation that closes while it is accepted is a seat that was       *)
(* counted.                                                                *)
LEMMA StepTrades ==
  ASSUME NEW t \in Teams, Closes, \A g \in Handlers : Grounded(req[g]),
         \A g \in Handlers : Reserves(req'[g], t) => Reserves(req[g], t),
         \A g \in Handlers : req'[g].op = "accept" =>
           \/ invite'[req'[g].inv].st = "pending"
           \/ /\ req[g].op = "accept" /\ req'[g].by = req[g].by
              /\ req'[g].team = req[g].team /\ req'[g].inv = req[g].inv,
         \A u \in Users : role'[t][u] # None =>
           \/ role[t][u] # None \/ u \in Seated(t)
           \/ \E i \in Invites : Closed(i, u, t)
  PROVE  Trades(t)
<1>1. ASSUME NEW g \in Handlers, NEW u \in Users, Strays(req[g], u, t)'
      PROVE  u \in Seated(t) \/ \E i \in Invites : Closed(i, u, t)
  <2> DEFINE r == req[g]
  <2>1. /\ r.op = "accept" /\ r.by = u /\ r.team = t
        /\ invite'[r.inv].st # "pending"
    BY <1>1 DEF Strays
  <2>2. r.inv \in Invites /\ invite[r.inv].team = t /\ invite[r.inv].to = u
    BY <2>1 DEF Grounded
  <2>3. CASE invite[r.inv].st = "pending"
    BY <2>1, <2>2, <2>3 DEF Closed
  <2>4. CASE invite[r.inv].st # "pending"
    BY <2>1, <2>4 DEF Strays, Seated
  <2>q. QED
    BY <2>3, <2>4
<1>2. ASSUME NEW u \in Users, u \in Seated(t)'
      PROVE  u \in Seated(t) \/ \E i \in Invites : Closed(i, u, t)
  <2>1. CASE role'[t][u] # None
    BY <2>1 DEF Seated
  <2>2. CASE \E g \in Handlers : Strays(req[g], u, t)'
    BY <1>1, <2>2
  <2>q. QED
    BY <1>2, <2>1, <2>2 DEF Seated
<1>q. QED
  BY <1>2 DEF Trades

LEMMA TradesStay ==
  ASSUME NEW t \in Teams, Trades(t), hist[t] \subseteq hist'[t],
         Claims(t) <= Limit(t)
  PROVE  Claims(t)' <= Limit(t)'
<1>1. /\ Claims(t) \in Int /\ Claims(t)' \in Int
      /\ Limit(t) \in Int /\ Limit(t)' \in Int
  BY SeatSizes, SomeHandler, MembershipAssumption DEF Claims, Limit
<1>q. QED
  BY <1>1, TradesKeep, LimitGrows

LEMMA HandleClaims ==
  ASSUME MembershipInv, KeepersInv, SeatsInv, NEW h \in Handlers, Handle(h),
         NEW t \in Teams
  PROVE  Claims(t)' <= Limit(t)'
<1> USE DEF MembershipInv, Typed, KeepersInv
<1>1. Continues(h) /\ Changes(h, t) /\ hist[t] \subseteq hist'[t]
  BY HandleContinues, HandleChanges, HandleTeams DEF TeamStep
<1>2. Claims(t) <= Limit(t) /\ \A g \in Handlers : Grounded(req[g])
  BY DEF SeatsInv
<1>3. ASSUME NEW i \in Invites, Opens(h, i) PROVE Claims(t)' <= Limit(t)'
  <2>1. /\ Claims(t) \in Int /\ Claims(t)' \in Int
        /\ Limit(t) \in Int /\ Limit(t)' \in Int
    BY SeatSizes, SomeHandler, MembershipAssumption DEF Claims, Limit
  <2>q. QED
    BY <1>1, <1>2, <1>3, <2>1, OpensKeep, LimitGrows
<1>4. CASE Allowed(h, t)
  BY <1>4, AllowedKeeps DEF SeatsInv
<1>5. CASE Closes /\ Founds(h, t)
  BY <1>1, <1>2, <1>5, FoundsKeep
<1>6. CASE Closes /\ ~Founds(h, t) /\ ~Allowed(h, t)
  <2>1. \A g \in Handlers : Reserves(req'[g], t) => Reserves(req[g], t)
    BY <1>1, <1>6, HandleReserves DEF Continues
  <2>2. \A g \in Handlers : req'[g].op = "accept" =>
          /\ req[g].op = "accept" /\ req'[g].by = req[g].by
          /\ req'[g].team = req[g].team /\ req'[g].inv = req[g].inv
    BY <1>1 DEF Continues, Idle
  <2>3. ASSUME NEW u \in Users, role'[t][u] # None, role[t][u] = None
        PROVE  u \in Seated(t) \/ \E i \in Invites : Closed(i, u, t)
    <3>1. Joins(h, t)
      BY <1>1, <1>6, <2>3 DEF Changes, Same, GivesOver, Lowers, Ends, Quits, None
    <3>2. req[h].op \in {"accept", "verify"}
      BY <3>1 DEF Joins
    <3>3. Strays(req[h], u, t) \/ \E i \in Invites : Closed(i, u, t)
      BY <1>2, <2>3, <3>2, JoinsTakeSeats
    <3>q. QED
      BY <3>3 DEF Seated
  <2>4. Trades(t)
    BY <1>2, <1>6, <2>1, <2>2, <2>3, StepTrades
  <2>q. QED
    BY <1>1, <1>2, <2>4, TradesStay
<1>q. QED
  BY <1>3, <1>4, <1>5, <1>6, HandleInvites

LEMMA HandleKeepsSeats ==
  ASSUME MembershipInv, KeepersInv, SeatsInv, NEW h \in Handlers, Handle(h)
  PROVE  SeatsInv'
<1> USE DEF MembershipInv, Typed, KeepersInv, SeatsInv
<1>1. /\ Continues(h) /\ TeamStep(h) /\ \A t \in Teams : Changes(h, t)
      /\ Closes \/ \E i \in Invites : Opens(h, i)
  BY HandleContinues, HandleChanges, HandleTeams, HandleInvites
<1>2. \A t \in Teams : tier[t] # "unused" => tier'[t] # "unused"
  BY <1>1 DEF TeamStep, Keeps, Founded, HandedOver
<1>3. ASSUME NEW g \in Handlers PROVE Grounded(req[g])'
  <2>1. \/ req'[g].op = "idle"
        \/ /\ req'[g].op = req[g].op /\ req'[g].by = req[g].by
           /\ req'[g].team = req[g].team /\ req'[g].on = req[g].on
           /\ req'[g].inv = req[g].inv
    BY <1>1 DEF Continues, Idle
  <2>2. \A i \in Invites : invite[i].st # "free" =>
          /\ invite'[i].st # "free"
          /\ invite'[i].team = invite[i].team /\ invite'[i].to = invite[i].to
    BY <1>1 DEF Closes, Opens
  <2>q. QED
    BY <1>2, <2>1, <2>2 DEF Grounded
<1>4. ASSUME NEW i \in Invites, invite'[i].st = "pending"
      PROVE  invite'[i].team \in Teams /\ invite'[i].to \in Users
  <2>1. CASE Closes
    BY <1>4, <2>1 DEF Closes
  <2>2. ASSUME NEW j \in Invites, Opens(h, j)
        PROVE  invite'[i].team \in Teams /\ invite'[i].to \in Users
    BY <1>4, <2>2 DEF Opens, Grounded
  <2>q. QED
    BY <1>1, <2>1, <2>2
<1>5. ASSUME NEW t \in Teams, tier'[t] = "paid" PROVE "paid" \in hist'[t]
  <2>1. tier[t] = "paid"
    BY <1>1, <1>5 DEF Changes, Same, GivesOver, Lowers, Joins, Founds, Ends, Quits
  <2>q. QED
    BY <1>1, <2>1 DEF TeamStep
<1>q. QED
  BY <1>3, <1>4, <1>5, HandleClaims

LEMMA BeginKeepsSeats ==
  ASSUME MembershipInv, SeatsInv, NEW h \in Handlers, Begins(h) PROVE SeatsInv'
<1> USE DEF MembershipInv, SeatsInv
<1>1. PICK r \in RequestRows : Rightful(r) /\ Begin(h, r)
  BY DEF Begins
<1>2. /\ req' = [req EXCEPT ![h] = r]
      /\ \A t \in Teams : hist[t] \subseteq hist'[t]
      /\ UNCHANGED <<tier, role, invite>>
  BY <1>1 DEF Begin
<1>3. req'[h] = r /\ \A g \in Handlers \ {h} : req'[g] = req[g]
  BY <1>2 DEF Typed, RequestsTyped
<1>4. ASSUME NEW g \in Handlers PROVE Grounded(req[g])'
  <2>1. CASE g = h
    <3>1. r.op = "accept" => r.team \in Teams /\ tier[r.team] # "unused"
      BY <1>1 DEF Rightful, Answers, TeamsInv, Live
    <3>2. r.op = "invite" => tier[r.team] # "unused"
      BY <1>1 DEF Rightful, Asks, TeamsInv
    <3>q. QED
      BY <1>1, <1>2, <1>3, <2>1, <3>1, <3>2 DEF Grounded, Rightful, Answers, Asks
  <2>2. CASE g # h
    BY <1>2, <1>3, <2>2 DEF Grounded
  <2>q. QED
    BY <2>1, <2>2
<1>5. ASSUME NEW t \in Teams PROVE Claims(t)' <= Limit(t)'
  <2>1. Closes
    BY <1>2 DEF Closes
  <2>2. \A g \in Handlers : Reserves(req'[g], t) => Reserves(req[g], t)
    BY <1>1, <1>3 DEF Reserves, Rightful, Asks
  <2>3. \A g \in Handlers : req'[g].op = "accept" =>
          invite'[req'[g].inv].st = "pending" \/ req'[g] = req[g]
    BY <1>1, <1>2, <1>3 DEF Rightful, Answers
  <2>4. Trades(t)
    BY <1>2, <2>1, <2>2, <2>3, StepTrades
  <2>q. QED
    BY <1>2, <2>4, TradesStay
<1>q. QED
  BY <1>2, <1>4, <1>5

LEMMA OthersKeepSeats ==
  ASSUME MembershipInv, SeatsInv,
         \/ \E t \in Teams : ChangePlan(t)
         \/ \E i \in Invites : Expire(i)
         \/ UNCHANGED vars
  PROVE  SeatsInv'
<1> USE DEF MembershipInv, Typed, SeatsInv
<1>1. /\ role' = role /\ req' = req
      /\ \A t \in Teams : hist[t] \subseteq hist'[t]
      /\ \A t \in Teams : tier[t] # "unused" => tier'[t] # "unused"
      /\ \A t \in Teams : tier'[t] = "paid" => "paid" \in hist'[t]
  BY DEF ChangePlan, Expire, vars, TeamsTyped, Live
<1>2. Closes
  BY DEF ChangePlan, Expire, vars, Closes, InvitesTyped, InviteRows
<1>3. \A g \in Handlers : Grounded(req[g])'
  BY <1>1, <1>2 DEF Grounded, Closes
<1>4. ASSUME NEW t \in Teams PROVE Claims(t)' <= Limit(t)'
  <2>1. Trades(t)
    BY <1>1, <1>2, StepTrades
  <2>q. QED
    BY <1>1, <2>1, TradesStay
<1>5. \A i \in Invites : invite'[i].st = "pending" =>
        invite'[i].team \in Teams /\ invite'[i].to \in Users
  BY <1>2 DEF Closes
<1>q. QED
  BY <1>1, <1>3, <1>4, <1>5

LEMMA InitSeats == Init => SeatsInv
<1> SUFFICES ASSUME Init PROVE SeatsInv
  OBVIOUS
<1>1. PICK u \in Users, t \in Teams, ms \in SUBSET Users :
        /\ tier = [s \in Teams |-> IF s = t THEN "free" ELSE "unused"]
        /\ role = [s \in Teams |-> [v \in Users |->
                     IF s # t \/ v \notin ms THEN None
                     ELSE IF v = u THEN "owner" ELSE "developer"]]
        /\ \/ invite = [i \in Invites |-> NoInvite]
           \/ \E v \in Users \ ms :
                invite = [[i \in Invites |-> NoInvite] EXCEPT
                  ![FirstInvite] = [st |-> "pending", team |-> t, to |-> v]]
        /\ Used(t) <= FreeCap
        /\ req = [h \in Handlers |-> Idle]
        /\ hist = [s \in Teams |-> {}]
  BY ZenonT(60) DEF Init
<1>2. \A h \in Handlers : req[h].op = "idle"
  BY <1>1 DEF Idle
<1>3. \A i \in Invites : invite[i].st = "pending" =>
        invite[i].team = t /\ invite[i].to \in Users
  <2>1. NoInvite.st = "free"
    BY DEF NoInvite
  <2>2. CASE invite = [i \in Invites |-> NoInvite]
    BY <2>1, <2>2
  <2>3. ASSUME NEW v \in Users,
               invite = [[i \in Invites |-> NoInvite] EXCEPT
                 ![FirstInvite] = [st |-> "pending", team |-> t, to |-> v]]
        PROVE  \A i \in Invites : invite[i].st = "pending" =>
                 invite[i].team = t /\ invite[i].to \in Users
    <3> DEFINE row == [st |-> "pending", team |-> t, to |-> v]
    <3>1. row.team = t /\ row.to = v
      OBVIOUS
    <3>2. invite = [[i \in Invites |-> NoInvite] EXCEPT ![FirstInvite] = row]
      BY <2>3
    <3> HIDE DEF row
    <3>3. \A i \in Invites : invite[i] = NoInvite \/ invite[i] = row
      BY <3>2
    <3>q. QED
      BY <2>1, <3>1, <3>3
  <2>q. QED
    BY <1>1, <2>2, <2>3
<1>4. ASSUME NEW s \in Teams PROVE Claims(s) <= Limit(s)
  <2>1. Seated(s) = Members(s) /\ Reserving(s) = {}
    BY <1>2 DEF Seated, Members, Strays, Reserving, Reserves
  <2>2. Limit(s) = FreeCap + Cardinality(Handlers) - 1
    BY <1>1 DEF Limit
  <2>3. CASE s = t
    <3>1. Claims(s) = Used(s)
      BY <2>1, FS_EmptySet, SeatSizes DEF Claims, Used
    <3>2. Used(s) <= FreeCap /\ Used(s) \in Int
      BY <1>1, <2>3, SeatSizes DEF Used
    <3>q. QED
      BY <2>2, <3>1, <3>2, SomeHandler, MembershipAssumption
  <2>4. CASE s # t
    <3>1. Members(s) = {} /\ Pending(s) = {}
      BY <1>1, <1>3, <2>4 DEF Members, Pending
    <3>2. Claims(s) = 0
      BY <2>1, <3>1, FS_EmptySet DEF Claims
    <3>q. QED
      BY <2>2, <3>2, SomeHandler, MembershipAssumption
  <2>q. QED
    BY <2>3, <2>4
<1>5. \A s \in Teams : tier[s] # "paid"
  BY <1>1
<1>6. \A h \in Handlers : Grounded(req[h])
  BY <1>2 DEF Grounded
<1>q. QED
  BY <1>1, <1>3, <1>4, <1>5, <1>6 DEF SeatsInv

LEMMA SeatsHold == Spec => []SeatsInv
<1>1. MembershipInv /\ KeepersInv /\ SeatsInv /\ [Next]_vars => SeatsInv'
  <2> SUFFICES ASSUME MembershipInv, KeepersInv, SeatsInv, [Next]_vars
               PROVE  SeatsInv'
    OBVIOUS
  <2>1. ASSUME NEW h \in Handlers,
               TeamRequest(h) \/ UserRequest(h) \/ Visitor(h) \/ AdminRequest(h)
        PROVE  SeatsInv'
    BY <2>1, RequestBegins, BeginKeepsSeats DEF MembershipInv
  <2>2. ASSUME NEW h \in Handlers, Handle(h) PROVE SeatsInv'
    BY <2>2, HandleKeepsSeats
  <2>3. CASE \/ \E t \in Teams : ChangePlan(t)
             \/ \E i \in Invites : Expire(i)
             \/ UNCHANGED vars
    BY <2>3, OthersKeepSeats
  <2>q. QED
    BY <2>1, <2>2, <2>3 DEF Next
<1>q. QED
  BY <1>1, InitSeats, KeepersHold, InvariantHolds, PTL DEF Spec

(* Members and open invitations exceed the largest limit a team has had by *)
(* fewer than there are requests at once: seatLimitError, read in a        *)
(* statement of its own before an invitation is written or accepted, lets  *)
(* through one too many for each request that runs beside it, and no       *)
(* verification, acceptance, revocation, expiry or change of plan adds one.*)
THEOREM SeatsStayNearLimit == Spec => []SeatOvershootBounded
<1>1. SeatsInv => SeatOvershootBounded
  <2> SUFFICES ASSUME SeatsInv, NEW t \in Teams PROVE Used(t) <= Limit(t)
    BY DEF SeatOvershootBounded, Limit
  <2>1. Members(t) \subseteq Seated(t)
    BY DEF Members, Seated
  <2>2. Cardinality(Members(t)) <= Cardinality(Seated(t))
    BY <2>1, SetsFinite, FS_Subset
  <2>3. Limit(t) \in Int
    BY SomeHandler, MembershipAssumption DEF Limit
  <2>q. QED
    BY <2>2, <2>3, SeatSizes DEF SeatsInv, Claims, Used
<1>q. QED
  BY <1>1, SeatsHold, PTL

-----------------------------------------------------------------------------
(* Foreign keys.  Whoever is in a team has an account: it is there when    *)
(* the row is written, and nothing takes it away without its rows.         *)

Enrolled(a) == a \in {"unverified", "verified"}
MembersHaveAccounts ==
  \A t \in Teams, u \in Users : role[t][u] # None => Enrolled(acct[u])

(* A step keeps it if it adds no members and takes no accounts away.       *)
NoneJoins ==
  \A t \in Teams, u \in Users :
    role'[t][u] # None => role[t][u] # None /\ acct'[u] = acct[u]

LEMMA NoneJoinsKeeps ==
  ASSUME MembersHaveAccounts, NoneJoins
  PROVE  MembersHaveAccounts'
BY DEF MembersHaveAccounts, NoneJoins

LEMMA JoinAdds ==
  ASSUME TeamsTyped, NEW u, NEW is, NEW ts, Join(u, is, ts)
  PROVE  \A t \in Teams, v \in Users : v # u => role'[t][v] = role[t][v]
BY DEF Join, TeamsTyped

LEMMA FoundAdds ==
  ASSUME TeamsTyped, NEW u, NEW t \in Teams, Found(u, t)
  PROVE  \A s \in Teams, v \in Users : v # u => role'[s][v] = role[s][v]
<1>1. role' = [role EXCEPT ![t][u] = "owner"]
  BY DEF Found
<1>2. QED BY <1>1 DEF TeamsTyped

LEMMA HandleKeepsAccounts ==
  ASSUME MembershipInv, KeepersInv, MembersHaveAccounts,
         NEW h \in Handlers, Handle(h)
  PROVE  MembersHaveAccounts'
<1> USE DEF MembershipInv, Typed
<1>1. CASE UNCHANGED <<role, acct>>
  BY <1>1, NoneJoinsKeeps DEF NoneJoins
<1>2. CASE CheckTarget(h) \/ CheckAlreadyMember(h) \/ CheckSeats(h)
           \/ CheckDeleteMe(h) \/ CheckRegister(h) \/ WriteRevoke(h)
           \/ ReplaceInvite(h) \/ InsertInvite(h)
  BY <1>1, <1>2
  DEF CheckTarget, CheckAlreadyMember, CheckSeats, CheckDeleteMe, CheckRegister,
    OnlyRead, WriteRevoke, ReplaceInvite, InsertInvite
<1>3. CASE WriteTransfer(h)
  <2>1. HandOver(req[h]) /\ acct' = acct
    BY <1>3 DEF WriteTransfer
  <2>2. NoneJoins
    BY <2>1 DEF HandOver, NoneJoins, TeamsTyped
  <2>3. QED BY <2>2, NoneJoinsKeeps
<1>4. CASE WriteRole(h)
  <2>1. PICK new \in {"admin", "developer"} :
          role' = [role EXCEPT ![req[h].team][req[h].on] = IF @ = None THEN None ELSE new]
    BY <1>4 DEF WriteRole
  <2>2. acct' = acct
    BY <1>4 DEF WriteRole
  <2>3. NoneJoins
    BY <2>1, <2>2 DEF NoneJoins, TeamsTyped
  <2>4. QED BY <2>3, NoneJoinsKeeps
<1>5. CASE DeleteMember(h)
  <2>1. role' = [role EXCEPT ![req[h].team][req[h].on] = None] /\ acct' = acct
    BY <1>5 DEF DeleteMember
  <2>2. NoneJoins
    BY <2>1 DEF NoneJoins, TeamsTyped
  <2>3. QED BY <2>2, NoneJoinsKeeps
<1>6. CASE WriteAccept(h)
  <2>1. CASE acct[req[h].by] = "verified" /\ Join(req[h].by, {req[h].inv}, {req[h].team})
    <3>1. acct' = acct
      BY <1>6 DEF WriteAccept
    <3>2. \A t \in Teams, v \in Users : v # req[h].by => role'[t][v] = role[t][v]
      BY <2>1, JoinAdds
    <3>3. QED BY <2>1, <3>1, <3>2 DEF MembersHaveAccounts, Enrolled
  <2>2. CASE UNCHANGED <<role, invite>>
    BY <1>1, <1>6, <2>2 DEF WriteAccept
  <2>3. QED BY <1>6, <2>1, <2>2 DEF WriteAccept
<1>7. CASE WriteVerify(h)
  <2> DEFINE u == req[h].by
             open == {i \in Invites : invite[i].st = "pending" /\ invite[i].to = u}
  <2>1. CASE UNCHANGED <<acct, role, invite>>
    BY <1>1, <2>1
  <2>2. CASE /\ acct' = [acct EXCEPT ![u] = "verified"]
             /\ Join(u, open, {invite[i].team : i \in open})
    <3>1. \A t \in Teams, v \in Users : v # u => role'[t][v] = role[t][v]
      <4> HIDE DEF open
      <4>1. QED BY <2>2, JoinAdds
    <3>2. \A v \in Users : acct'[v] = IF v = u THEN "verified" ELSE acct[v]
      BY <2>2 DEF AccountsTyped
    <3> HIDE DEF u, open
    <3>3. QED BY <3>1, <3>2 DEF MembersHaveAccounts, Enrolled
  <2>3. QED BY <1>7, <2>1, <2>2 DEF WriteVerify
<1>8. CASE WriteRegister(h)
  <2> DEFINE u == req[h].by
  <2>1. u \in Users
    BY <1>8 DEF WriteRegister, KeepersInv, Fits
  <2>2. CASE UNCHANGED <<acct, role>>
    BY <1>1, <2>2
  <2>3. CASE /\ acct' = [acct EXCEPT ![u] = "unverified"]
             /\ UNCHANGED role \/ \E t \in Teams : Found(u, t)
    <3>1. \A t \in Teams, v \in Users : v # u => role'[t][v] = role[t][v]
      BY <2>3, FoundAdds
    <3>2. \A v \in Users : acct'[v] = IF v = u THEN "unverified" ELSE acct[v]
      BY <2>3 DEF AccountsTyped
    <3> HIDE DEF u
    <3>3. QED BY <3>1, <3>2 DEF MembersHaveAccounts, Enrolled
  <2>4. QED BY <1>8, <2>2, <2>3 DEF WriteRegister
<1>9. CASE WriteCreate(h)
  <2> DEFINE u == req[h].by
  <2>1. u \in Users /\ acct[u] # "absent" /\ acct' = acct
    BY <1>9 DEF WriteCreate, Runs, TrialsInv
  <2>2. CASE UNCHANGED role
    BY <1>1, <2>1, <2>2
  <2>3. CASE acct[u] # "deleted" /\ \E t \in Teams : Found(u, t)
    <3>1. \A t \in Teams, v \in Users : v # u => role'[t][v] = role[t][v]
      BY <2>3, FoundAdds
    <3>2. Enrolled(acct[u])
      BY <2>1, <2>3 DEF AccountsTyped, Enrolled
    <3> HIDE DEF u
    <3>3. QED BY <2>1, <3>1, <3>2 DEF MembersHaveAccounts
  <2>4. QED BY <1>9, <2>2, <2>3 DEF WriteCreate
<1>10. CASE WriteDeleteTeam(h)
  <2> DEFINE t == req[h].team
             stranded == {u \in Members(t) : \A s \in Teams \ {t} : u \notin Members(s)}
             us == IF req[h].op = "deleteTeam" THEN stranded
                   ELSE {u \in stranded : acct[u] = "unverified"}
             ts == {t} \cap {s \in Teams : Live(s)}
  <2>1. Drop(us, ts)
    BY <1>10 DEF WriteDeleteTeam
  <2> HIDE DEF us, ts
  <2>2. NoneJoins
    BY <2>1 DEF Drop, NoneJoins
  <2>3. QED BY <2>2, NoneJoinsKeeps
<1>11. CASE WriteDeleteMe(h)
  <2> DEFINE ts == {t \in Teams : Members(t) = {req[h].by}}
  <2>1. Drop({req[h].by}, ts)
    BY <1>11 DEF WriteDeleteMe
  <2> HIDE DEF ts
  <2>2. NoneJoins
    BY <2>1 DEF Drop, NoneJoins
  <2>3. QED BY <2>2, NoneJoinsKeeps
<1>12. CASE WriteDeleteUser(h)
  <2> DEFINE ts == {t \in req[h].sole : Live(t)}
  <2>1. Drop({req[h].on}, ts)
    BY <1>12 DEF WriteDeleteUser
  <2> HIDE DEF ts
  <2>2. NoneJoins
    BY <2>1 DEF Drop, NoneJoins
  <2>3. QED BY <2>2, NoneJoinsKeeps
<1>q. QED
  BY <1>2, <1>3, <1>4, <1>5, <1>6, <1>7, <1>8, <1>9, <1>10, <1>11, <1>12 DEF Handle

LEMMA BudgetStep ==
  Typed /\ budget \in 0..MaxRequests /\ [Next]_vars => budget' \in 0..MaxRequests
<1> SUFFICES ASSUME Typed, budget \in 0..MaxRequests, [Next]_vars
             PROVE  budget' \in 0..MaxRequests
  OBVIOUS
<1>1. budget' = budget \/ (budget > 0 /\ budget' = budget - 1) => budget' \in 0..MaxRequests
  BY MembershipAssumption
<1>2. ASSUME NEW h \in Handlers,
             TeamRequest(h) \/ UserRequest(h) \/ Visitor(h) \/ AdminRequest(h)
      PROVE  budget' \in 0..MaxRequests
  BY <1>1, <1>2, RequestBegins DEF Begins, Begin
<1>3. ASSUME NEW h \in Handlers, Handle(h)
      PROVE  budget' \in 0..MaxRequests
  BY <1>1, <1>3
  DEF Handle, OnlyRead, CheckTarget, CheckAlreadyMember, CheckSeats, CheckDeleteMe,
    CheckRegister, WriteTransfer, WriteRole, DeleteMember, WriteRevoke, ReplaceInvite,
    InsertInvite, WriteAccept, WriteVerify, WriteRegister, WriteCreate, WriteDeleteTeam,
    WriteDeleteMe, WriteDeleteUser
<1>4. CASE \/ \E t \in Teams : ChangePlan(t)
           \/ \E i \in Invites : Expire(i)
           \/ UNCHANGED vars
  BY <1>1, <1>4 DEF ChangePlan, Expire, vars
<1>q. QED BY <1>2, <1>3, <1>4 DEF Next

KeysInv == MembersHaveAccounts /\ budget \in 0..MaxRequests

LEMMA KeysInit == Init => KeysInv
<1> SUFFICES ASSUME Init PROVE KeysInv
  OBVIOUS
<1>1. PICK u \in Users, t \in Teams, ms \in SUBSET Users, vs \in SUBSET Users :
        Init!(u, t, ms, vs)
  BY Zenon DEF Init
<1>2. ASSUME NEW s \in Teams, NEW v \in Users, role[s][v] # None
      PROVE  acct[v] = "verified"
  <2>1. /\ ms \subseteq vs
        /\ acct = [w \in Users |-> IF w \in vs THEN "verified" ELSE "absent"]
    BY <1>1, Zenon
  <2>2. role = [x \in Teams |-> [w \in Users |->
                  IF x # t \/ w \notin ms THEN None
                  ELSE IF w = u THEN "owner" ELSE "developer"]]
    BY <1>1, Zenon
  <2>3. v \in ms
    BY <1>2, <2>2
  <2>q. QED BY <2>1, <2>3
<1>3. budget = MaxRequests
  BY <1>1, Zenon
<1>4. MembersHaveAccounts
  BY <1>2 DEF MembersHaveAccounts, Enrolled
<1>q. QED BY <1>3, <1>4, MembershipAssumption DEF KeysInv

(* What the foreign keys and their cascades promise: whoever has a role    *)
(* has an account and the team is live, and no invitation to a team that   *)
(* is gone can be taken up, whatever was deleted under a request that was  *)
(* under way.                                                              *)
THEOREM ForeignKeysHold == Spec => []TypeOK
<1>1. MembershipInv /\ KeepersInv /\ KeysInv /\ [Next]_vars => KeysInv'
  <2> SUFFICES ASSUME MembershipInv, KeepersInv, KeysInv, [Next]_vars
               PROVE  KeysInv'
    OBVIOUS
  <2>1. ASSUME NEW h \in Handlers,
               TeamRequest(h) \/ UserRequest(h) \/ Visitor(h) \/ AdminRequest(h)
        PROVE  UNCHANGED <<role, acct>>
    BY <2>1, RequestBegins DEF MembershipInv, Begins, Begin
  <2>2. ASSUME NEW h \in Handlers, Handle(h) PROVE MembersHaveAccounts'
    BY <2>2, HandleKeepsAccounts DEF KeysInv
  <2>3. ASSUME \/ \E t \in Teams : ChangePlan(t)
               \/ \E i \in Invites : Expire(i)
               \/ UNCHANGED vars
        PROVE  MembersHaveAccounts'
    BY <2>3 DEF ChangePlan, Expire, vars, KeysInv, MembersHaveAccounts
  <2>4. UNCHANGED <<role, acct>> => MembersHaveAccounts'
    BY DEF KeysInv, MembersHaveAccounts
  <2>5. MembersHaveAccounts'
    <3>1. CASE UNCHANGED vars
      BY <2>3, <3>1
    <3>2. CASE Next
      BY <2>1, <2>2, <2>3, <2>4, <3>2 DEF Next
    <3>q. QED
      BY <3>1, <3>2
  <2>6. budget' \in 0..MaxRequests
    BY BudgetStep DEF MembershipInv, KeysInv
  <2>q. QED
    BY <2>5, <2>6 DEF KeysInv
<1>2. MembershipInv /\ KeepersInv /\ SeatsInv /\ KeysInv => TypeOK
  <2> SUFFICES ASSUME MembershipInv, KeepersInv, SeatsInv, KeysInv PROVE TypeOK
    OBVIOUS
  <2>1. \A i \in Invites : invite[i].st = "pending" => Live(invite[i].team)
    BY DEF MembershipInv, TeamsInv, SeatsInv
  <2>2. \A t \in Teams, u \in Users : role[t][u] # None =>
          Live(t) /\ acct[u] \in {"unverified", "verified"}
    BY DEF KeepersInv, MembersLive, KeysInv, MembersHaveAccounts, Enrolled
  <2>q. QED
    BY <2>1, <2>2 DEF MembershipInv, Typed, AccountsTyped, TeamsTyped, KeysInv, TypeOK
<1>q. QED
  BY <1>1, <1>2, KeysInit, SeatsHold, KeepersHold, InvariantHolds, PTL DEF Spec
=============================================================================
