------------------------------ MODULE Sessions ------------------------------
(***************************************************************************)
(* The sessions of one account and the credentials they rest on:           *)
(*   src/plugins/auth.ts       sessions, their cut-off, requireUser        *)
(*   src/routes/auth.ts        login, change-password, the end of a reset  *)
(*                             and of a change of address                  *)
(*   src/routes/sessions.ts    revoking one session or all others          *)
(*   src/routes/twofactor.ts   enabling and disabling the second factor,   *)
(*   src/routes/admin.ts       reset-2fa: as changes of the credentials    *)
(*                             (module TwoFactor has what they write)      *)
(*                                                                         *)
(* A request is a task; each of its statements is a step, and what runs    *)
(* between two of them (bcrypt, the breach check, the mail) is where other *)
(* requests come in.  The caller gives the right password: a request that  *)
(* is refused changes nothing.  A unit of the clock is a second.           *)
(***************************************************************************)
EXTENDS Naturals, Sequences, FiniteSets

CONSTANTS
  Tasks,                  \* requests in flight at once
  MaxTime, MaxSessions    \* bounds of an instance

SessionsAssumption ==
  IsFiniteSet(Tasks) /\ {MaxTime, MaxSessions} \subseteq Nat \ {0}

VARIABLES
  now,        \* the clock, in whole seconds
  cutoff,     \* users.sessions_valid_from, 0 for none
  sessions,   \* user_sessions in the order they were created; "rests" is
              \* history: on the credentials of "today", on "old" ones, or
              \* "late" when they were old before the session was created
  task,       \* per task: its next statement; "rests" as for a session
  unrevoked   \* history: a change whose cut-off has not been written

vars == <<now, cutoff, sessions, task, unrevoked>>

Idle == [at |-> "idle", rests |-> "today"]

(* An account after its first sign-in.                                     *)
Init ==
  /\ now = 1 /\ cutoff = 0
  /\ sessions = <<[live |-> TRUE, iat |-> 1, rests |-> "today"]>>
  /\ task = [h \in Tasks |-> Idle]
  /\ unrevoked = FALSE

-----------------------------------------------------------------------------
(* Faulty variants of definitions below, each a slip the code could have.  *)

(* The cut-off is forgotten.                                               *)
RevokeNothing == UNCHANGED cutoff

-----------------------------------------------------------------------------
(* requireUser: not revoked on its own, and not older than the cut-off;    *)
(* iat has whole seconds, so the second of the cut-off itself passes.      *)
Accepts(s) == sessions[s].live /\ cutoff <= sessions[s].iat
SignedIn == \E s \in DOMAIN sessions : Accepts(s)

Goes(h, at) == task' = [task EXCEPT ![h].at = at]
Ends(h) == task' = [task EXCEPT ![h] = Idle]

(* login: the row is read and the password (and the code) checked.         *)
Login(h) ==
  /\ task[h] = Idle /\ Goes(h, "session")
  /\ UNCHANGED <<now, cutoff, sessions, unrevoked>>

(* createSession and signSession, of a login or of a handler that signs    *)
(* its caller in again.                                                    *)
CreateSession(h) ==
  /\ task[h].at = "session" /\ Len(sessions) < MaxSessions
  /\ sessions' = Append(sessions, [live |-> TRUE, iat |-> now,
                   rests |-> IF task[h].rests = "old" THEN "late" ELSE "today"])
  /\ Ends(h)
  /\ UNCHANGED <<now, cutoff, unrevoked>>

(* The new cut-off, in a statement of its own or with the change.          *)
CutOff == cutoff' = now

(* A change makes what rests on the credentials old.                       *)
Age(x) == IF x.rests = "today" THEN [x EXCEPT !.rests = "old"] ELSE x
AgeAll(own) ==
  /\ sessions' = [s \in DOMAIN sessions |-> Age(sessions[s])]
  /\ task' = [g \in Tasks |-> IF g \in DOMAIN own THEN own[g]
                              ELSE IF task[g] = Idle THEN Idle ELSE Age(task[g])]

(* change-password, 2fa/enable, 2fa/disable: a signed-in caller is checked *)
(* in one statement, the credentials are written in another.               *)
ChangeRead(h) ==
  /\ task[h] = Idle /\ SignedIn /\ Goes(h, "change")
  /\ UNCHANGED <<now, cutoff, sessions, unrevoked>>
Change(h) ==
  /\ task[h].at = "change"
  /\ AgeAll([g \in {h} |-> [Idle EXCEPT !.at = "revoke"]]) /\ unrevoked' = TRUE
  /\ UNCHANGED <<now, cutoff>>

(* revokeSessions                                                          *)
Revoke(h) ==
  /\ task[h].at = "revoke" /\ CutOff /\ unrevoked' = FALSE
  /\ Goes(h, "session")
  /\ UNCHANGED <<now, sessions>>

(* admin: reset-2fa, which signs nobody in.                                *)
AdminReset(h) ==
  /\ task[h] = Idle
  /\ AgeAll([g \in {h} |-> [Idle EXCEPT !.at = "cut"]]) /\ unrevoked' = TRUE
  /\ UNCHANGED <<now, cutoff>>
AdminRevoke(h) ==
  /\ task[h].at = "cut" /\ CutOff /\ unrevoked' = FALSE /\ Ends(h)
  /\ UNCHANGED <<now, sessions>>

(* The transaction that ends a reset or a change of address.               *)
ChangeInOne ==
  /\ AgeAll(<<>>) /\ CutOff /\ unrevoked' = FALSE
  /\ UNCHANGED now

(* sessions/:id of a session r, and revoke-others of the caller's own s.   *)
Others(s) == DOMAIN sessions \ {s}
RevokeSet(gone) ==
  /\ sessions' = [r \in DOMAIN sessions |->
       IF r \in gone THEN [sessions[r] EXCEPT !.live = FALSE] ELSE sessions[r]]
  /\ UNCHANGED <<now, cutoff, task, unrevoked>>
RevokeOne(r) == SignedIn /\ RevokeSet({r})
RevokeOthers(s) == Accepts(s) /\ RevokeSet(Others(s))

ClockTicks ==
  /\ now < MaxTime /\ now' = now + 1
  /\ UNCHANGED <<cutoff, sessions, task, unrevoked>>

Dies(h) ==
  /\ task[h] # Idle /\ Ends(h)
  /\ UNCHANGED <<now, cutoff, sessions, unrevoked>>

Request(h) ==
  \/ Login(h) \/ CreateSession(h)
  \/ ChangeRead(h) \/ Change(h) \/ Revoke(h)
  \/ AdminReset(h) \/ AdminRevoke(h)

Next ==
  \/ \E h \in Tasks : Request(h) \/ Dies(h)
  \/ ChangeInOne \/ ClockTicks
  \/ \E s \in DOMAIN sessions : RevokeOne(s) \/ RevokeOthers(s)

Spec == Init /\ [][Next]_vars

-----------------------------------------------------------------------------
TypeOK ==
  /\ now \in 1..MaxTime /\ cutoff \in 0..now /\ unrevoked \in BOOLEAN
  /\ Len(sessions) <= MaxSessions
  /\ \A s \in DOMAIN sessions :
       sessions[s].iat \in 1..now /\ sessions[s].rests \in {"today", "old", "late"}
  /\ \A h \in Tasks : task[h].at \in {"idle", "session", "change", "revoke", "cut"}

(* A session that is still accepted rests on the credentials of today: the *)
(* password and the second factor.  The exceptions are all there are: one  *)
(* of the second of the cut-off, one whose request was under way when the  *)
(* credentials changed, and any of them between the change and its cut-off.*)
CutOffHolds ==
  \A s \in DOMAIN sessions :
    Accepts(s) => \/ sessions[s].rests # "old"
                  \/ sessions[s].iat = cutoff
                  \/ unrevoked
=============================================================================
