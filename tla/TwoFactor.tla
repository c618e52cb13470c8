------------------------------ MODULE TwoFactor ------------------------------
(***************************************************************************)
(* The second factor of one account:                                       *)
(*   src/routes/twofactor.ts  enrolment, recovery codes and removal        *)
(*   src/routes/auth.ts       verifySecondFactor of a login                *)
(*   src/routes/admin.ts      reset-2fa                                    *)
(*   src/lib/totp.ts          the steps a code is good for                 *)
(*                                                                         *)
(* Every request is by the account's holder, with a good password and the  *)
(* code of a step of the secret it works on; one that is refused changes   *)
(* nothing.  What the handlers do to the sessions is module Sessions.      *)
(***************************************************************************)
EXTENDS Naturals, FiniteSets

CONSTANTS
  Tasks,                   \* requests in flight at once
  Codes,                   \* recovery codes in a set
  MaxStep, MaxSecrets      \* bounds of an instance

TwoFactorAssumption ==
  IsFiniteSet(Tasks) /\ {Codes, MaxSecrets} \subseteq Nat /\ MaxStep \in Nat \ {0}

VARIABLES
  step,      \* the clock, in steps of 30 s
  secret,    \* users.totp_secret: number of the secret, 0 for none
  enabled,   \* users.totp_enabled_at is set
  last,      \* users.totp_last_step, 0 for none
  left,      \* unused rows of two_factor_recovery_codes
  task,      \* per task: its next statement and what it has read
  minted,    \* history: secrets generated
  proven,    \* history: secrets confirmed by a code
  accepted,  \* history: pairs of secret and step that signed somebody in
  marks      \* history: "replayed" for such a pair a second time, and the
             \* races "steps" and "secret": a write over what was not read

userVars == <<secret, enabled, last, left>>
vars == <<step, userVars, task, minted, proven, accepted, marks>>

Idle == [at |-> "idle", secret |-> 0, last |-> 0, t |-> 0, stale |-> FALSE]
Mark(m, when) == marks' = marks \cup (IF when THEN {m} ELSE {})

(* A verified account without a second factor.                             *)
Init ==
  /\ step = 1 /\ secret = 0 /\ enabled = FALSE /\ last = 0 /\ left = 0
  /\ task = [h \in Tasks |-> Idle]
  /\ minted = 0 /\ proven = {} /\ accepted = {} /\ marks = {}

-----------------------------------------------------------------------------
(* Faulty variants of definitions below, each a slip the code could have.  *)

(* The step of a code is not compared with the last one.                   *)
FreshAlways(h, t) == TRUE

(* Setup does not refuse an account that is enrolled.                      *)
SetupAllowed == TRUE

(* The recovery codes of an enrolment are added to those of an earlier one.*)
MoreCodes == left' = left + Codes

-----------------------------------------------------------------------------
(* verifyTotp takes the code of this step or of one to either side.        *)
GoodSteps == {t \in 1..MaxStep : t + 1 >= step /\ t <= step + 1}

Reads(h, at, r) == task[h] = Idle /\ task' = [task EXCEPT ![h] = [r EXCEPT !.at = at]]
Ends(h) == task' = [task EXCEPT ![h] = Idle]

(* Changes of totp_enabled_at make stale what the others have read.        *)
Turns(h) == task' = [g \in Tasks |-> IF g = h \/ task[g] = Idle THEN Idle
                                     ELSE [task[g] EXCEPT !.stale = TRUE]]

(* login reads the row ...                                                 *)
LoginRead(h) ==
  /\ enabled /\ secret # 0
  /\ Reads(h, "login", [Idle EXCEPT !.secret = secret, !.last = last])
  /\ UNCHANGED <<step, userVars, minted, proven, accepted, marks>>

(* ... and verifySecondFactor checks a code of the authenticator           *)
Fresh(h, t) == task[h].last < t
LoginTotp(h, t) ==
  LET pair == <<task[h].secret, t>> IN
  /\ task[h].at = "login" /\ Fresh(h, t)
  /\ last' = t
  /\ accepted' = accepted \cup {pair}
  /\ marks' = marks \cup (IF pair \in accepted THEN {"replayed"} ELSE {})
                    \cup (IF last # task[h].last \/ task[h].stale THEN {"steps"} ELSE {})
  /\ Ends(h)
  /\ UNCHANGED <<step, secret, enabled, left, minted, proven>>

(* or a recovery code, which one UPDATE finds and marks used.              *)
BurnCode(h, next) ==
  /\ IF left > 0 THEN left' = left - 1 /\ task' = [task EXCEPT ![h] = next]
                 ELSE UNCHANGED left /\ Ends(h)
  /\ UNCHANGED <<step, secret, enabled, last, minted, proven, accepted, marks>>
LoginRecovery(h) == task[h].at = "login" /\ BurnCode(h, Idle)

-----------------------------------------------------------------------------
(* 2fa/setup replaces a secret that was not confirmed.                     *)
NotEnrolled == ~enabled
SetupRead(h) ==
  /\ NotEnrolled /\ Reads(h, "setup", Idle)
  /\ UNCHANGED <<step, userVars, minted, proven, accepted, marks>>
WriteSetup(h) ==
  /\ task[h].at = "setup" /\ minted < MaxSecrets
  /\ minted' = minted + 1 /\ secret' = minted + 1
  /\ Mark("secret", task[h].stale) /\ Ends(h)
  /\ UNCHANGED <<step, enabled, last, left, proven, accepted>>

(* 2fa/enable: a code of the secret, then the transaction.                 *)
NewCodes == left' = Codes
EnableRead(h, t) ==
  /\ ~enabled /\ secret # 0
  /\ Reads(h, "enable", [Idle EXCEPT !.secret = secret, !.t = t])
  /\ UNCHANGED <<step, userVars, minted, proven, accepted, marks>>
WriteEnable(h) ==
  /\ task[h].at = "enable"
  /\ enabled' = TRUE /\ last' = task[h].t /\ NewCodes
  /\ proven' = proven \cup {task[h].secret}
  /\ marks' = marks \cup (IF task[h].stale THEN {"steps"} ELSE {})
                    \cup (IF secret # task[h].secret THEN {"secret"} ELSE {})
  /\ Turns(h)
  /\ UNCHANGED <<step, secret, minted, accepted>>

(* 2fa/recovery-codes/regenerate                                           *)
RegenerateRead(h) ==
  /\ enabled /\ secret # 0 /\ Reads(h, "codes", Idle)
  /\ UNCHANGED <<step, userVars, minted, proven, accepted, marks>>
WriteCodes(h) ==
  /\ task[h].at = "codes" /\ NewCodes /\ Ends(h)
  /\ UNCHANGED <<step, secret, enabled, last, minted, proven, accepted, marks>>

(* 2fa/disable, with a code of the authenticator or a recovery code, and   *)
(* reset-2fa of an administrator.                                          *)
DisableRead(h) ==
  /\ enabled
  /\ \E at \in {"burn", "disable"} : (at = "disable" => secret # 0) /\ Reads(h, at, Idle)
  /\ UNCHANGED <<step, userVars, minted, proven, accepted, marks>>
DisableBurn(h) == task[h].at = "burn" /\ BurnCode(h, [task[h] EXCEPT !.at = "disable"])
ResetRead(h) ==
  /\ enabled /\ Reads(h, "disable", Idle)
  /\ UNCHANGED <<step, userVars, minted, proven, accepted, marks>>
WriteDisable(h) ==
  /\ task[h].at = "disable"
  /\ secret' = 0 /\ enabled' = FALSE /\ last' = 0 /\ left' = 0
  /\ Turns(h)
  /\ UNCHANGED <<step, minted, proven, accepted, marks>>

-----------------------------------------------------------------------------
ClockTicks ==
  /\ step < MaxStep /\ step' = step + 1
  /\ UNCHANGED <<userVars, task, minted, proven, accepted, marks>>

Dies(h) ==
  /\ task[h] # Idle /\ Ends(h)
  /\ UNCHANGED <<step, userVars, minted, proven, accepted, marks>>

Request(h) ==
  \/ LoginRead(h) \/ LoginRecovery(h)
  \/ \E t \in GoodSteps : LoginTotp(h, t) \/ EnableRead(h, t)
  \/ SetupRead(h) \/ WriteSetup(h) \/ WriteEnable(h)
  \/ RegenerateRead(h) \/ WriteCodes(h)
  \/ DisableRead(h) \/ DisableBurn(h) \/ ResetRead(h) \/ WriteDisable(h)

Next == (\E h \in Tasks : Request(h) \/ Dies(h)) \/ ClockTicks

Spec == Init /\ [][Next]_vars

-----------------------------------------------------------------------------
TypeOK ==
  /\ step \in 1..MaxStep /\ last \in 0..MaxStep
  /\ {secret, minted} \subseteq 0..MaxSecrets /\ enabled \in BOOLEAN
  /\ left \in 0..Codes
  /\ proven \subseteq 1..MaxSecrets
  /\ accepted \subseteq (1..MaxSecrets) \X (1..MaxStep)
  /\ marks \subseteq {"replayed", "steps", "secret"}

(* No code of the authenticator signs in twice, unless a login or a second *)
(* enrolment wrote a step over one that it had not read.                   *)
CodesSignInOnce == "replayed" \in marks => "steps" \in marks

(* A second factor in force has been confirmed by a code of its secret,    *)
(* unless a setup or an enrolment wrote over what it had not read.         *)
SecretIsConfirmed == enabled => secret \in proven \/ "secret" \in marks
=============================================================================
