-------------------------------- MODULE Links --------------------------------
(***************************************************************************)
(* The one-time links of one account (verification_tokens) and the address *)
(* it is reached at:                                                       *)
(*   src/routes/auth.ts  createOneTimeToken and its callers: resend-       *)
(*                       verification, forgot-password, change-email; and  *)
(*                       the handlers that take a link                     *)
(*                                                                         *)
(* A link is in the hands of whoever reads the mailbox it was sent to.     *)
(* Each statement of a request is a step; a transaction is one step.       *)
(***************************************************************************)
EXTENDS Naturals, FiniteSets

CONSTANTS
  Tasks,       \* requests in flight at once
  Tokens,      \* links that can be created
  Mailboxes,   \* addresses
  Home,        \* the one the account was registered with
  Types        \* of "verify_email", "password_reset", "email_change"

LinksAssumption ==
  /\ IsFiniteSet(Tasks) /\ Home \in Mailboxes
  /\ Types \subseteq {"verify_email", "password_reset", "email_change"}

None == "none"

VARIABLES
  links,     \* verification_tokens: type, state, and the mailbox of the mail
  email,     \* users.email
  pending,   \* users.pending_email
  verified,  \* users.email_verified_at is set
  task,      \* per task: next statement, type, link and address it works on
  used,      \* history: links that have done what they are for
  proven,    \* history: mailboxes a link from them has been used of
  latest,    \* history: per type, the last link that was created
  crossed    \* history: types of which requests have crossed each other

vars == <<links, email, pending, verified, task, used, proven, latest, crossed>>

NoLink == [type |-> None, state |-> "new", to |-> None]
Dead == [NoLink EXCEPT !.state = "dead"]     \* used, deleted or expired
Idle == [at |-> "idle", type |-> None, link |-> None, to |-> None, from |-> None]

Init ==
  /\ links = [l \in Tokens |-> NoLink]
  /\ email = Home /\ pending = None /\ verified = FALSE
  /\ task = [h \in Tasks |-> Idle]
  /\ used = {} /\ proven = {Home}
  /\ latest = [y \in Types |-> None]
  /\ crossed = {}

-----------------------------------------------------------------------------
(* Faulty variants of definitions below, each a slip the code could have.  *)

(* Earlier links stay in force.                                            *)
KeepEarlier(type) == UNCHANGED links

(* A link is not marked used.                                              *)
NeverUsed(l) == UNCHANGED links

-----------------------------------------------------------------------------
Live(l) == links[l].state = "live"
Put(h, r) == task' = [task EXCEPT ![h] = r]
Ends(h) == Put(h, Idle)

(* A request that is creating a link of this type.                         *)
Issuing(type) == {h \in Tasks : task[h].type = type /\ task[h].at \in {"pending", "delete", "insert"}}
Meets(h, type) ==
  crossed' = crossed \cup (IF Issuing(type) \ {h} # {} THEN {type} ELSE {})

(* resend-verification (an account that is not verified), forgot-password, *)
(* and change-email to an address other than the present one.              *)
Ask(h, type, to) ==
  /\ task[h] = Idle
  /\ CASE type = "verify_email"   -> ~verified /\ to = email
       [] type = "password_reset" -> to = email
       [] type = "email_change"   -> to # email
  /\ Put(h, [Idle EXCEPT !.at = IF type = "email_change" THEN "pending" ELSE "delete",
                         !.type = type, !.to = to])
  /\ Meets(h, type)
  /\ UNCHANGED <<links, email, pending, verified, used, proven, latest>>

WritePending(h) ==
  /\ task[h].at = "pending"
  /\ pending' = task[h].to
  /\ Put(h, [task[h] EXCEPT !.at = "delete"])
  /\ UNCHANGED <<links, email, verified, used, proven, latest, crossed>>

(* createOneTimeToken: the earlier ones of the type go, then the new one   *)
(* is stored and mailed.                                                   *)
DeleteEarlier(type) ==
  links' = [l \in Tokens |-> IF links[l].type = type
                             THEN Dead ELSE links[l]]
Delete(h) ==
  /\ task[h].at = "delete" /\ DeleteEarlier(task[h].type)
  /\ Put(h, [task[h] EXCEPT !.at = "insert"])
  /\ UNCHANGED <<email, pending, verified, used, proven, latest, crossed>>
Fresh == CHOOSE l \in Tokens : links[l] = NoLink
Insert(h) ==
  LET l == Fresh IN
  /\ task[h].at = "insert" /\ \E k \in Tokens : links[k] = NoLink
  /\ links' = [links EXCEPT ![l] = [type |-> task[h].type, state |-> "live",
                                    to |-> task[h].to]]
  /\ latest' = [latest EXCEPT ![task[h].type] = l]
  /\ Ends(h)
  /\ UNCHANGED <<email, pending, verified, used, proven, crossed>>

(* verify-email, reset-password, change-email/confirm: the link is looked  *)
(* up, with the pending address of the moment for the last one.            *)
LookUp(h, l) ==
  /\ task[h] = Idle /\ Live(l)
  /\ links[l].type = "email_change" => pending # None
  /\ Put(h, [at |-> "use", type |-> links[l].type, link |-> l, to |-> pending,
             from |-> links[l].to])
  /\ Meets(h, links[l].type)
  /\ UNCHANGED <<links, email, pending, verified, used, proven, latest>>

(* The transaction, whatever the link has become since.                    *)
MarkUsed(l) == links' = [links EXCEPT ![l] = Dead]
Use(h) ==
  LET l == task[h].link IN
  /\ task[h].at = "use" /\ MarkUsed(l)
  /\ IF task[h].type = "email_change"
     THEN email' = task[h].to /\ pending' = None ELSE UNCHANGED <<email, pending>>
  /\ verified' = TRUE
  /\ used' = used \cup {l} /\ proven' = proven \cup {task[h].from}
  /\ Ends(h)
  /\ UNCHANGED <<latest, crossed>>

Expire(l) ==
  /\ Live(l) /\ links' = [links EXCEPT ![l] = Dead]
  /\ UNCHANGED <<email, pending, verified, task, used, proven, latest, crossed>>

(* A request dies; a new address may stay pending without its link.        *)
Dies(h) ==
  /\ task[h] # Idle /\ Ends(h)
  /\ crossed' = crossed \cup IF h \in Issuing(task[h].type) THEN {task[h].type} ELSE {}
  /\ UNCHANGED <<links, email, pending, verified, used, proven, latest>>

Next ==
  \/ \E h \in Tasks :
       \/ \E y \in Types, to \in Mailboxes : Ask(h, y, to)
       \/ WritePending(h) \/ Delete(h) \/ Insert(h) \/ Use(h) \/ Dies(h)
       \/ \E l \in Tokens : LookUp(h, l)
  \/ \E l \in Tokens : Expire(l)

Spec == Init /\ [][Next]_vars

-----------------------------------------------------------------------------
TypeOK ==
  /\ \A l \in Tokens :
       /\ links[l].type \in Types \cup {None} /\ links[l].to \in Mailboxes \cup {None}
       /\ links[l].state \in {"new", "live", "dead"}
  /\ email \in Mailboxes /\ pending \in Mailboxes \cup {None}
  /\ crossed \subseteq Types

(* A link that still works has not done its work yet, and only the latest  *)
(* one of its type works, unless two requests for such links crossed.      *)
LatestLinkWorks ==
  \A l \in Tokens :
    Live(l) => /\ l \notin used
               /\ latest[links[l].type] = l \/ links[l].type \in crossed

(* The address of an account is one whose mailbox has proved it, unless a  *)
(* change of address was asked for, or broken off, during another one.     *)
AddressIsProven ==
  email \in proven \/ "email_change" \in crossed
=============================================================================
