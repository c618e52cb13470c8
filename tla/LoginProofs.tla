---------------------------- MODULE LoginProofs ----------------------------
(***************************************************************************)
(* Proofs about what stands between a user and the scheduler: sessions,    *)
(* the second factor, one-time links and the device login, as MCPortal     *)
(* runs them side by side.  Each is proved about its own specification;    *)
(* "LoginAlone" carries the result over to theirs.                         *)
(***************************************************************************)
EXTENDS MCPortal, FiniteSetTheorems, TLAPS

mcVars == <<focus, vars, sVars, fVars, lVars, dVars, tVars, pVars, eVars,
            nVars, hVars>>

(* A behaviour of the portal is one of each of its parts: they share no    *)
(* variable, and what follows one leaves the others as they are.           *)
LEMMA LoginAlone ==
  MCSpec => S!Spec /\ F!Spec /\ L!Spec /\ D!Spec
<1>1. MCInit => S!Init /\ F!Init /\ L!Init /\ D!Init
  BY DEF MCInit
<1>2. [MCNext]_mcVars =>
        /\ [S!Next]_(S!vars) /\ [F!Next]_(F!vars)
        /\ [L!Next]_(L!vars) /\ [D!Next]_(D!vars)
  <2>1. UNCHANGED mcVars => UNCHANGED <<S!vars, F!vars, L!vars, D!vars>>
    BY DEF mcVars, sVars, fVars, lVars, dVars, S!vars, F!vars, F!userVars,
      L!vars, D!vars
  <2>2. MCNext => /\ S!Next \/ UNCHANGED S!vars
                  /\ F!Next \/ UNCHANGED F!vars
                  /\ L!Next \/ UNCHANGED L!vars
                  /\ D!Next \/ UNCHANGED D!vars
    BY DEF MCNext, FollowTeam, FollowSession, FollowFactor, FollowLink,
      FollowDevice, FollowTunnel, FollowPage, FollowErrors, FollowNotices,
      FollowHosts, sVars, fVars, lVars, dVars, S!vars, F!vars, F!userVars,
      L!vars, D!vars
  <2>3. QED BY <2>1, <2>2
<1>3. QED
  BY <1>1, <1>2, PTL DEF MCSpec, mcVars, S!Spec, F!Spec, L!Spec, D!Spec

-----------------------------------------------------------------------------
(* Sessions.                                                               *)

Entries == [live : BOOLEAN, iat : Nat, rests : {"today", "old", "late"}]
Working == [at : {"idle", "session", "change", "revoke", "cut"},
            rests : {"today", "old", "late"}]

SessionsType ==
  /\ now \in Nat \ {0} /\ cutoff \in Nat /\ cutoff <= now
  /\ sessions \in Seq(Entries)
  /\ \A s \in 1..Len(sessions) : sessions[s].iat \in 1..now
  /\ sTask \in [Handlers -> Working]

(* Behind the cut-off: a session of old credentials was issued before it,  *)
(* or in its second, as soon as the change has written it.                 *)
BehindCutOff ==
  \A s \in 1..Len(sessions) :
    sessions[s].rests = "old" /\ ~unrevoked => sessions[s].iat <= cutoff

SessionsInv == SessionsType /\ BehindCutOff

(* A change of the credentials ages the sessions and leaves their times.   *)
LEMMA Ageing ==
  ASSUME SessionsType, NEW own, S!AgeAll(own)
  PROVE  /\ sessions' \in Seq(Entries) /\ Len(sessions') = Len(sessions)
         /\ \A s \in 1..Len(sessions) : sessions'[s].iat = sessions[s].iat
<1>1. ASSUME NEW r \in Entries
      PROVE  S!Age(r) \in Entries /\ S!Age(r).iat = r.iat
  BY DEF S!Age, Entries
<1>2. sessions' = [s \in 1..Len(sessions) |-> S!Age(sessions[s])]
  BY DEF SessionsType, S!AgeAll
<1>3. QED BY <1>1, <1>2 DEF SessionsType

LEMMA AgeingTasks ==
  ASSUME SessionsType, NEW own, S!AgeAll(own),
         \A g \in DOMAIN own : own[g] \in Working
  PROVE  sTask' \in [Handlers -> Working]
BY DEF SessionsType, S!AgeAll, S!Age, S!Idle, Working

LEMMA SessionsStep == SessionsInv /\ [S!Next]_(S!vars) => SessionsInv'
<1> SUFFICES ASSUME SessionsInv, [S!Next]_(S!vars)
             PROVE  SessionsInv'
  OBVIOUS
<1> USE DEF SessionsInv
<1>1. ASSUME NEW h \in Handlers,
             \/ S!Login(h) \/ S!CreateSession(h) \/ S!ChangeRead(h)
             \/ S!Revoke(h) \/ S!AdminRevoke(h) \/ S!Dies(h)
      PROVE  SessionsInv'
  <2>1. CASE S!CreateSession(h)
    <3> DEFINE new == [live |-> TRUE, iat |-> now,
                       rests |-> IF sTask[h].rests = "old" THEN "late" ELSE "today"]
    <3>1. /\ new \in Entries /\ new.iat = now /\ new.rests # "old"
          /\ sessions' = Append(sessions, new)
      BY <2>1 DEF SessionsType, S!CreateSession, Entries
    <3>2. sTask' \in [Handlers -> Working]
      BY <2>1 DEF SessionsType, S!CreateSession, S!Ends, S!Idle, Working
    <3> HIDE DEF new
    <3>3. /\ sessions' \in Seq(Entries) /\ Len(sessions') = Len(sessions) + 1
          /\ \A s \in 1..Len(sessions) : sessions'[s] = sessions[s]
          /\ sessions'[Len(sessions) + 1] = new
      BY <3>1 DEF SessionsType
    <3>4. \A s \in 1..Len(sessions') : s = Len(sessions) + 1 \/ s \in 1..Len(sessions)
      BY <3>3 DEF SessionsType
    <3>5. now' = now /\ cutoff' = cutoff /\ unrevoked' = unrevoked
      BY <2>1 DEF S!CreateSession
    <3>6. SessionsType'
      <4>1. \A s \in 1..Len(sessions') : sessions'[s].iat \in 1..now
        BY <3>1, <3>3, <3>4 DEF SessionsType
      <4>2. QED BY <3>2, <3>3, <3>5, <4>1 DEF SessionsType
    <3>7. BehindCutOff'
      BY <3>1, <3>3, <3>4, <3>5 DEF BehindCutOff
    <3>8. QED BY <3>6, <3>7
  <2>2. CASE S!Login(h) \/ S!ChangeRead(h) \/ S!Dies(h)
    BY <1>1, <2>2 DEF SessionsType, BehindCutOff, S!Login, S!ChangeRead, S!Dies,
      S!Ends, S!Goes, S!Idle, Working
  <2>3. CASE S!Revoke(h) \/ S!AdminRevoke(h)
    <3>1. sTask' \in [Handlers -> Working]
      BY <2>3 DEF SessionsType, S!Revoke, S!AdminRevoke, S!Ends, S!Goes, S!Idle, Working
    <3>2. QED
      BY <2>3, <3>1 DEF SessionsType, BehindCutOff, S!Revoke, S!AdminRevoke, S!CutOff
  <2>4. QED BY <1>1, <2>1, <2>2, <2>3
<1>2. ASSUME NEW h \in Handlers, S!Change(h) \/ S!AdminReset(h)
      PROVE  SessionsInv'
  <2>1. PICK own : /\ S!AgeAll(own) /\ \A g \in DOMAIN own : own[g] \in Working
    BY <1>2 DEF S!Change, S!AdminReset, S!Idle, Working
  <2>2. QED
    BY <1>2, <2>1, Ageing, AgeingTasks
    DEF SessionsType, BehindCutOff, S!Change, S!AdminReset
<1>3. ASSUME S!ChangeInOne
      PROVE  SessionsInv'
  <2>1. S!AgeAll(<<>>) /\ DOMAIN <<>> = {}
    BY <1>3 DEF S!ChangeInOne
  <2>2. QED
    BY <1>3, <2>1, Ageing, AgeingTasks
    DEF SessionsType, BehindCutOff, S!ChangeInOne, S!CutOff
<1>4. ASSUME NEW gone, S!RevokeSet(gone)
      PROVE  SessionsInv'
  <2> DEFINE After(s) == IF s \in gone THEN [sessions[s] EXCEPT !.live = FALSE]
                         ELSE sessions[s]
  <2>1. \A s \in 1..Len(sessions) : sessions[s] \in Entries
    BY DEF SessionsType
  <2>2. \A s \in 1..Len(sessions) : /\ After(s) \in Entries
                                    /\ After(s).iat = sessions[s].iat
                                    /\ After(s).rests = sessions[s].rests
    BY <2>1 DEF Entries
  <2>3. sessions' = [s \in 1..Len(sessions) |-> After(s)]
    BY <1>4 DEF SessionsType, S!RevokeSet
  <2> HIDE DEF After
  <2>4. /\ sessions' \in Seq(Entries) /\ Len(sessions') = Len(sessions)
        /\ \A s \in 1..Len(sessions) : sessions'[s] = After(s)
    BY <2>2, <2>3 DEF SessionsType
  <2>5. QED
    BY <1>4, <2>2, <2>4 DEF SessionsType, BehindCutOff, S!RevokeSet
<1>5. ASSUME S!ClockTicks \/ UNCHANGED S!vars
      PROVE  SessionsInv'
  BY <1>5 DEF SessionsType, BehindCutOff, S!ClockTicks, S!vars
<1>6. QED
  BY <1>1, <1>2, <1>3, <1>4, <1>5
  DEF S!Next, S!Request, S!RevokeOne, S!RevokeOthers

LEMMA SessionsInit == S!Init => SessionsInv
<1> SUFFICES ASSUME S!Init
             PROVE  SessionsInv
  OBVIOUS
<1>1. sTask \in [Handlers -> Working]
  BY DEF S!Init, S!Idle, Working
<1>2. sessions = <<[live |-> TRUE, iat |-> 1, rests |-> "today"]>>
  BY DEF S!Init
<1>3. sessions \in Seq(Entries) /\ Len(sessions) = 1 /\ sessions[1].iat = 1
      /\ sessions[1].rests = "today"
  BY <1>2 DEF Entries
<1>4. QED
  BY <1>1, <1>3 DEF S!Init, SessionsInv, SessionsType, BehindCutOff

(* The inductive invariant holds the property: a session that is accepted  *)
(* is not older than the cut-off, one of old credentials not younger.      *)
THEOREM OldSessionsAreCutOff == MCSpec => []CutOffHolds
<1>1. SessionsInv => CutOffHolds
  BY DEF SessionsInv, SessionsType, BehindCutOff, CutOffHolds, S!CutOffHolds,
    S!Accepts
<1>2. QED
  BY <1>1, SessionsInit, SessionsStep, LoginAlone, PTL DEF S!Spec

-----------------------------------------------------------------------------
(* The second factor.                                                      *)

Work == [at : {"idle", "login", "setup", "enable", "codes", "burn", "disable"},
         secret : Nat, last : Nat, t : Nat, stale : BOOLEAN]

FactorType ==
  /\ last \in Nat /\ minted \in Nat /\ secret \in 0..minted
  /\ fTask \in [Handlers -> Work]
  /\ \A s, t : <<s, t>> \in accepted => s \in 1..minted /\ t \in Nat
  /\ \A h \in Handlers : fTask[h].at = "login" => fTask[h].secret \in 1..minted

(* What a request has read of totp_enabled_at still holds until somebody   *)
(* turns it.                                                               *)
ReadsStand ==
  \A h \in Handlers :
    ~fTask[h].stale => /\ fTask[h].at = "login" => enabled
                       /\ fTask[h].at \in {"setup", "enable"} => ~enabled

(* The last step bounds the steps that have signed somebody in with this   *)
(* secret.                                                                 *)
Bounded(s) == \A t : <<s, t>> \in accepted => t <= last

(* Until a step is written over one that was not read: a secret not in     *)
(* force has signed nobody in, and the last step on record bounds the      *)
(* steps of the secret in force and of the one a login has read.           *)
StepsBound ==
  "steps" \notin marks =>
    /\ enabled => Bounded(secret)
    /\ ~enabled => \A t : <<secret, t>> \notin accepted
    /\ \A h \in Handlers :
         fTask[h].at = "login" /\ ~fTask[h].stale =>
           fTask[h].last <= last /\ Bounded(fTask[h].secret)

FactorInv ==
  /\ FactorType /\ ReadsStand /\ StepsBound
  /\ F!CodesSignInOnce /\ F!SecretIsConfirmed

(* The requests that write none of what the invariant is about besides     *)
(* their own entry, which reads the moment or ends.                        *)
LEMMA FactorReads ==
  ASSUME FactorInv, NEW h \in Handlers, NEW r \in Work,
         fTask' = [fTask EXCEPT ![h] = r],
         r.at = "login" => /\ enabled /\ r.last = last
                           /\ r.secret = secret /\ secret # 0,
         r.at \in {"setup", "enable"} => ~enabled,
         UNCHANGED <<secret, enabled, last, minted, proven, accepted, marks>>
  PROVE  FactorInv'
<1>1. /\ fTask'[h] = r /\ fTask' \in [Handlers -> Work]
      /\ \A g \in Handlers \ {h} : fTask'[g] = fTask[g]
  BY DEF FactorInv, FactorType
<1>2. FactorType' /\ ReadsStand'
  BY <1>1 DEF FactorInv, FactorType, ReadsStand
<1>3. StepsBound'
  BY <1>1 DEF FactorInv, FactorType, StepsBound, Bounded
<1>4. QED
  BY <1>2, <1>3 DEF FactorInv, F!CodesSignInOnce, F!SecretIsConfirmed

LEMMA FactorStep == FactorInv /\ [F!Next]_(F!vars) => FactorInv'
<1> SUFFICES ASSUME FactorInv, [F!Next]_(F!vars)
             PROVE  FactorInv'
  OBVIOUS
<1>idle. F!Idle \in Work
  BY DEF F!Idle, Work
<1>1. ASSUME NEW h \in Handlers,
             \/ F!LoginRead(h) \/ F!LoginRecovery(h)
             \/ \E t \in F!GoodSteps : F!EnableRead(h, t)
             \/ F!SetupRead(h) \/ F!RegenerateRead(h) \/ F!WriteCodes(h)
             \/ F!DisableRead(h) \/ F!DisableBurn(h) \/ F!ResetRead(h) \/ F!Dies(h)
      PROVE  FactorInv'
  <2>1. PICK r \in Work :
             /\ fTask' = [fTask EXCEPT ![h] = r]
             /\ r.at = "login" => /\ enabled /\ r.last = last
                                  /\ r.secret = secret /\ secret # 0
             /\ r.at \in {"setup", "enable"} => ~enabled
    <3> DEFINE Fit(r) ==
          /\ r \in Work /\ fTask' = [fTask EXCEPT ![h] = r]
          /\ r.at = "login" => /\ enabled /\ r.last = last
                               /\ r.secret = secret /\ secret # 0
          /\ r.at \in {"setup", "enable"} => ~enabled
    <3> DEFINE Reading(x, n, l) == [x EXCEPT !.secret = n, !.last = l]
    <3>a. ASSUME NEW x \in Work, NEW n \in Nat, NEW l \in Nat
          PROVE  /\ Reading(x, n, l) \in Work
                 /\ Reading(x, n, l).secret = n /\ Reading(x, n, l).last = l
      BY DEF Work
    <3>b. ASSUME NEW x \in Work, NEW n \in Nat, NEW t \in Nat
          PROVE  [x EXCEPT !.secret = n, !.t = t] \in Work
      BY DEF Work
    <3>c. ASSUME NEW x \in Work, NEW at \in {"login", "setup", "enable", "codes", "burn", "disable"}
          PROVE  LET r == [x EXCEPT !.at = at]
                 IN  r \in Work /\ r.at = at /\ r.secret = x.secret /\ r.last = x.last
      BY DEF Work
    <3>d. secret \in Nat /\ last \in Nat /\ F!GoodSteps \subseteq Nat
      BY DEF FactorInv, FactorType, F!GoodSteps
    <3>1. CASE F!LoginRead(h)
      <4> DEFINE x == Reading(F!Idle, secret, last)
      <4>1. fTask' = [fTask EXCEPT ![h] = [x EXCEPT !.at = "login"]] /\ enabled /\ secret # 0
        BY <3>1 DEF F!LoginRead, F!Reads
      <4> HIDE DEF Reading
      <4>2. x \in Work /\ x.secret = secret /\ x.last = last
        BY <1>idle, <3>a, <3>d
      <4> HIDE DEF x
      <4>3. QED BY <4>1, <4>2, <3>c
    <3>2. CASE \E t \in F!GoodSteps : F!EnableRead(h, t)
      <4> PICK t \in F!GoodSteps : F!EnableRead(h, t)
        BY <3>2
      <4> DEFINE x == [F!Idle EXCEPT !.secret = secret, !.t = t]
      <4>1. fTask' = [fTask EXCEPT ![h] = [x EXCEPT !.at = "enable"]] /\ ~enabled
        BY DEF F!EnableRead, F!Reads
      <4>2. x \in Work
        BY <1>idle, <3>b, <3>d
      <4> HIDE DEF x
      <4>3. QED BY <4>1, <4>2, <3>c
    <3>3. CASE F!DisableBurn(h)
      <4> DEFINE r == [fTask[h] EXCEPT !.at = "disable"]
      <4>1. r \in Work /\ r.at = "disable"
        BY DEF FactorInv, FactorType, Work
      <4>2. fTask' = [fTask EXCEPT ![h] = r] \/ fTask' = [fTask EXCEPT ![h] = F!Idle]
        BY <3>3 DEF F!DisableBurn, F!BurnCode, F!Ends
      <4>3. F!Idle.at = "idle"
        BY DEF F!Idle
      <4> HIDE DEF r
      <4>4. QED BY <4>1, <4>2, <4>3, <1>idle
    <3>4. CASE \/ F!LoginRecovery(h) \/ F!WriteCodes(h) \/ F!Dies(h)
      <4>1. fTask' = [fTask EXCEPT ![h] = F!Idle]
        BY <3>4 DEF F!LoginRecovery, F!BurnCode, F!WriteCodes, F!Dies, F!Ends
      <4>2. F!Idle.at = "idle"
        BY DEF F!Idle
      <4>3. QED BY <4>1, <4>2, <1>idle
    <3>5. CASE F!SetupRead(h) \/ F!RegenerateRead(h) \/ F!DisableRead(h) \/ F!ResetRead(h)
      <4> DEFINE r(at) == [F!Idle EXCEPT !.at = at]
      <4>1. PICK at \in {"setup", "codes", "burn", "disable"} :
              fTask' = [fTask EXCEPT ![h] = r(at)] /\ (at = "setup" => ~enabled)
        BY <3>5
          DEF F!SetupRead, F!NotEnrolled, F!RegenerateRead, F!DisableRead, F!ResetRead,
            F!Reads
      <4>2. r(at) \in Work /\ r(at).at = at
        BY DEF F!Idle, Work
      <4> HIDE DEF r
      <4>3. QED BY <4>1, <4>2
    <3>6. QED BY <1>1, <3>1, <3>2, <3>3, <3>4, <3>5
  <2>2. UNCHANGED <<secret, enabled, last, minted, proven, accepted, marks>>
    BY <1>1 DEF F!LoginRead, F!LoginRecovery, F!EnableRead, F!SetupRead,
      F!RegenerateRead, F!WriteCodes, F!DisableRead, F!DisableBurn, F!BurnCode,
      F!ResetRead, F!Dies, F!userVars
  <2>3. QED BY <2>1, <2>2, FactorReads
<1>2. ASSUME NEW h \in Handlers, NEW t \in F!GoodSteps, F!LoginTotp(h, t)
      PROVE  FactorInv'
  <2>1. t \in Nat /\ fTask[h] \in Work /\ fTask[h].last < t
    BY <1>2 DEF FactorInv, FactorType, F!GoodSteps, F!LoginTotp, F!Fresh
  <2>2. /\ fTask' = [fTask EXCEPT ![h] = F!Idle]
        /\ last' = t /\ accepted' = accepted \cup {<<fTask[h].secret, t>>}
        /\ UNCHANGED <<secret, enabled, minted, proven>>
    BY <1>2 DEF F!LoginTotp, F!Ends
  <2>3. /\ fTask'[h] = F!Idle /\ fTask' \in [Handlers -> Work]
        /\ \A g \in Handlers \ {h} : fTask'[g] = fTask[g]
    BY <2>2, <1>idle DEF FactorInv, FactorType
  <2>4. F!Idle.at = "idle"
    BY DEF F!Idle
  <2>5. FactorType' /\ ReadsStand'
    BY <1>2, <2>1, <2>2, <2>3, <2>4 DEF FactorInv, FactorType, ReadsStand, F!LoginTotp
  <2>6. ASSUME "steps" \notin marks'
        PROVE  /\ "steps" \notin marks /\ last = fTask[h].last /\ ~fTask[h].stale
               /\ <<fTask[h].secret, t>> \notin accepted
               /\ enabled
    BY <1>2, <2>1, <2>6 DEF FactorInv, FactorType, StepsBound, Bounded, ReadsStand, F!LoginTotp
  <2>7. StepsBound'
    <3> SUFFICES ASSUME "steps" \notin marks'
                 PROVE  StepsBound'
      BY DEF StepsBound
    <3> DEFINE BoundedNext(s) == \A u : <<s, u>> \in accepted' => u <= last'
    <3>1. /\ last < t /\ Bounded(secret)
          /\ \A g \in Handlers :
               fTask[g].at = "login" /\ ~fTask[g].stale =>
                 fTask[g].last <= last /\ Bounded(fTask[g].secret)
      BY <2>1, <2>6 DEF FactorInv, StepsBound
    <3>2. ASSUME NEW s, Bounded(s)
          PROVE  BoundedNext(s)
      BY <2>1, <2>2, <3>1, <3>2 DEF FactorInv, FactorType, Bounded
    <3>3. \A g \in Handlers : fTask[g].last \in Nat
      BY DEF FactorInv, FactorType, Work
    <3>4. /\ BoundedNext(secret)
          /\ \A g \in Handlers \ {h} :
               fTask[g].at = "login" /\ ~fTask[g].stale =>
                 fTask[g].last <= t /\ BoundedNext(fTask[g].secret)
      <4> HIDE DEF BoundedNext
      <4>1. QED BY <2>1, <3>1, <3>2, <3>3 DEF FactorInv, FactorType
    <3>5. QED
      BY <2>2, <2>3, <2>4, <2>6, <3>4 DEF StepsBound, Bounded
  <2>8. F!CodesSignInOnce'
    BY <1>2, <2>6 DEF FactorInv, F!CodesSignInOnce, F!LoginTotp
  <2>9. F!SecretIsConfirmed'
    BY <1>2, <2>2 DEF FactorInv, F!SecretIsConfirmed, F!LoginTotp
  <2>10. QED BY <2>5, <2>7, <2>8, <2>9 DEF FactorInv
<1>3. ASSUME NEW h \in Handlers, F!WriteSetup(h)
      PROVE  FactorInv'
  <2>1. /\ fTask' = [fTask EXCEPT ![h] = F!Idle]
        /\ minted' = minted + 1 /\ secret' = minted + 1
        /\ marks' = marks \cup (IF fTask[h].stale THEN {"secret"} ELSE {})
        /\ UNCHANGED <<enabled, last, proven, accepted>>
    BY <1>3 DEF F!WriteSetup, F!Ends, F!Mark
  <2>2. /\ fTask'[h] = F!Idle /\ fTask' \in [Handlers -> Work]
        /\ \A g \in Handlers \ {h} : fTask'[g] = fTask[g]
    BY <2>1, <1>idle DEF FactorInv, FactorType
  <2>3. F!Idle.at = "idle"
    BY DEF F!Idle
  <2>4. FactorType' /\ ReadsStand'
    BY <2>1, <2>2, <2>3 DEF FactorInv, FactorType, ReadsStand
  <2>5. StepsBound'
    BY <2>1, <2>2, <2>3 DEF FactorInv, FactorType, StepsBound, Bounded
  <2>6. F!CodesSignInOnce' /\ F!SecretIsConfirmed'
    BY <1>3, <2>1 DEF FactorInv, ReadsStand, F!CodesSignInOnce, F!SecretIsConfirmed, F!WriteSetup
  <2>7. QED BY <2>4, <2>5, <2>6 DEF FactorInv
<1>4. ASSUME NEW h \in Handlers, F!WriteEnable(h) \/ F!WriteDisable(h)
      PROVE  FactorInv'
  <2>1. /\ fTask' \in [Handlers -> Work]
        /\ \A g \in Handlers : fTask'[g].at = "idle" \/ fTask'[g].stale
        /\ \A g \in Handlers : fTask'[g].at = "login" =>
             fTask[g].at = "login" /\ fTask'[g].secret = fTask[g].secret
    <3>1. fTask' = [g \in Handlers |-> IF g = h \/ fTask[g] = F!Idle THEN F!Idle
                                       ELSE [fTask[g] EXCEPT !.stale = TRUE]]
      BY <1>4 DEF F!WriteEnable, F!WriteDisable, F!Turns
    <3>2. ASSUME NEW r \in Work
          PROVE  LET x == [r EXCEPT !.stale = TRUE]
                 IN  x \in Work /\ x.stale /\ x.at = r.at /\ x.secret = r.secret
      BY DEF Work
    <3>3. F!Idle.at = "idle"
      BY DEF F!Idle
    <3>4. QED BY <1>idle, <3>1, <3>2, <3>3 DEF FactorInv, FactorType
  <2>2. CASE F!WriteEnable(h)
    <3>1. FactorType' /\ ReadsStand'
      BY <2>1, <2>2 DEF FactorInv, FactorType, ReadsStand, Work, F!WriteEnable
    <3>2. StepsBound'
      BY <2>1, <2>2
        DEF FactorInv, FactorType, ReadsStand, StepsBound, Bounded, Work, F!WriteEnable
    <3>3. F!CodesSignInOnce' /\ F!SecretIsConfirmed'
      BY <2>2 DEF FactorInv, F!CodesSignInOnce, F!SecretIsConfirmed, F!WriteEnable
    <3>4. QED BY <3>1, <3>2, <3>3 DEF FactorInv
  <2>3. CASE F!WriteDisable(h)
    <3>1. FactorType' /\ ReadsStand'
      BY <2>1, <2>3 DEF FactorInv, FactorType, ReadsStand, F!WriteDisable
    <3>2. StepsBound'
      BY <2>1, <2>3 DEF FactorInv, FactorType, StepsBound, Bounded, F!WriteDisable
    <3>3. F!CodesSignInOnce' /\ F!SecretIsConfirmed'
      BY <2>3 DEF FactorInv, F!CodesSignInOnce, F!SecretIsConfirmed, F!WriteDisable
    <3>4. QED BY <3>1, <3>2, <3>3 DEF FactorInv
  <2>4. QED BY <1>4, <2>2, <2>3
<1>5. ASSUME F!ClockTicks \/ UNCHANGED F!vars
      PROVE  FactorInv'
  BY <1>5 DEF FactorInv, FactorType, ReadsStand, StepsBound, Bounded, F!CodesSignInOnce,
    F!SecretIsConfirmed, F!ClockTicks, F!vars, F!userVars
<1>6. QED
  BY <1>1, <1>2, <1>3, <1>4, <1>5 DEF F!Next, F!Request

LEMMA FactorStart == F!Init => FactorInv
BY DEF F!Init, F!Idle, FactorInv, FactorType, Work, ReadsStand, StepsBound, Bounded,
  F!CodesSignInOnce, F!SecretIsConfirmed

(* No code of the authenticator signs in twice, unless a step was written  *)
(* over one that had not been read.                                        *)
THEOREM CodesAreSpent == MCSpec => []CodesSignInOnce
<1>1. FactorInv => CodesSignInOnce
  BY DEF FactorInv, CodesSignInOnce
<1>2. QED
  BY <1>1, FactorStart, FactorStep, LoginAlone, PTL DEF F!Spec

(* A second factor in force was confirmed with its own secret, unless a    *)
(* setup or an enrolment wrote over what it had not read.                  *)
THEOREM FactorIsConfirmed == MCSpec => []SecretIsConfirmed
<1>1. FactorInv => SecretIsConfirmed
  BY DEF FactorInv, SecretIsConfirmed
<1>2. QED
  BY <1>1, FactorStart, FactorStep, LoginAlone, PTL DEF F!Spec

-----------------------------------------------------------------------------
(* One-time links.                                                         *)

Rows == [type : Types \cup {L!None}, state : {"new", "live", "dead"},
         to : Mailboxes \cup {L!None}]
Jobs == [at : {"idle", "pending", "delete", "insert", "use"},
         type : Types \cup {L!None}, link : Tokens \cup {L!None},
         to : Mailboxes \cup {L!None}, from : Mailboxes \cup {L!None}]

Issues(h) == lTask[h].at \in {"pending", "delete", "insert"}

LinksType ==
  /\ links \in [Tokens -> Rows]
  /\ lTask \in [Handlers -> Jobs]
  /\ pending \in Mailboxes \cup {L!None}
  /\ latest \in [Types -> Tokens \cup {L!None}]
  /\ L!None \notin Types
  /\ \A l \in Tokens : links[l].state = "live" => links[l].type \in Types
  /\ \A h \in Handlers : Issues(h) => lTask[h].type \in Types
  /\ \A h \in Handlers : lTask[h].at = "pending" => lTask[h].type = "email_change"
  /\ \A h \in Handlers :
       lTask[h].at = "use" => /\ lTask[h].link \in Tokens
                              /\ links[lTask[h].link].state # "new"
  /\ \A l \in used : l \in Tokens /\ links[l].state = "dead"

(* Requests that create links of one type at once have crossed.            *)
IssuersCross ==
  \A g, h \in Handlers :
    g # h /\ Issues(g) /\ Issues(h) /\ lTask[g].type = lTask[h].type =>
      lTask[h].type \in crossed

(* A request about to store its link has no working link of its type left. *)
EarlierGone ==
  \A h \in Handlers, l \in Tokens :
    lTask[h].at = "insert" /\ lTask[h].type \notin crossed =>
      ~(links[l].state = "live" /\ links[l].type = lTask[h].type)

(* Unless changes of address crossed: the address that is pending is the   *)
(* one of the change under way, else of the link that works, and who has   *)
(* looked up a link has read the address it was sent to.                   *)
PendingFits ==
  "email_change" \notin crossed =>
    /\ \A h \in Handlers :
         lTask[h].at \in {"delete", "insert"} /\ lTask[h].type = "email_change" =>
           pending \in {L!None, lTask[h].to}
    /\ (\A h \in Handlers : ~(Issues(h) /\ lTask[h].type = "email_change")) =>
         \A l \in Tokens :
           links[l].state = "live" /\ links[l].type = "email_change" =>
             pending \in {L!None, links[l].to}
    /\ \A h \in Handlers :
         lTask[h].at = "use" /\ lTask[h].type = "email_change" =>
           lTask[h].to = lTask[h].from

LinksInv ==
  /\ LinksType /\ IssuersCross /\ EarlierGone /\ PendingFits
  /\ L!LatestLinkWorks /\ L!AddressIsProven

LEMMA LinksInit == L!Init => LinksInv
BY InstanceAssumptions DEF L!LinksAssumption, L!Init, L!None, L!Idle, L!NoLink, LinksInv,
  LinksType, Issues, Rows, Jobs, IssuersCross, EarlierGone, PendingFits,
  L!LatestLinkWorks, L!Live, L!AddressIsProven

LEMMA LinksStep == LinksInv /\ [L!Next]_(L!vars) => LinksInv'
<1> SUFFICES ASSUME LinksInv, [L!Next]_(L!vars)
             PROVE  LinksInv'
  OBVIOUS
<1> USE DEF LinksInv
<1>i. /\ L!Idle \in Jobs /\ L!Idle.at = "idle"
      /\ L!Dead \in Rows /\ L!Dead.state = "dead" /\ L!Dead.type = L!None
      /\ L!NoLink.state = "new"
  BY DEF L!Idle, L!Dead, L!NoLink, Jobs, Rows
<1>1. ASSUME NEW h \in Handlers, NEW y \in Types, NEW to \in Mailboxes, L!Ask(h, y, to)
      PROVE  LinksInv'
  <2> DEFINE r == [L!Idle EXCEPT !.at = IF y = "email_change" THEN "pending" ELSE "delete",
                                 !.type = y, !.to = to]
  <2>1. /\ r \in Jobs /\ r.type = y
        /\ r.at = IF y = "email_change" THEN "pending" ELSE "delete"
    BY DEF L!Idle, Jobs
  <2>2. lTask' = [lTask EXCEPT ![h] = r] /\ lTask[h].at = "idle"
        /\ UNCHANGED <<links, email, pending, verified, used, provenAt, latest>>
        /\ crossed \subseteq crossed'
        /\ (L!Issuing(y) \ {h} # {} => y \in crossed')
    BY <1>1, <1>i DEF L!Ask, L!Put, L!Meets
  <2> HIDE DEF r
  <2>3. /\ lTask'[h] = r /\ lTask' \in [Handlers -> Jobs]
        /\ \A g \in Handlers \ {h} : lTask'[g] = lTask[g]
    BY <2>1, <2>2 DEF LinksType
  <2>4. LinksType'
    BY <2>1, <2>2, <2>3 DEF LinksType, Issues
  <2>5. IssuersCross'
    BY <2>1, <2>2, <2>3 DEF LinksType, IssuersCross, Issues, L!Issuing
  <2>6. EarlierGone' /\ PendingFits'
    BY <2>1, <2>2, <2>3 DEF LinksType, EarlierGone, PendingFits, Issues
  <2>7. L!LatestLinkWorks' /\ L!AddressIsProven'
    BY <2>2 DEF L!LatestLinkWorks, L!AddressIsProven, L!Live
  <2>8. QED BY <2>4, <2>5, <2>6, <2>7
<1>2. ASSUME NEW h \in Handlers, L!WritePending(h)
      PROVE  LinksInv'
  BY <1>2 DEF LinksType, IssuersCross, EarlierGone, PendingFits, Issues, Jobs, L!LatestLinkWorks,
     L!AddressIsProven, L!Live, L!WritePending, L!Put
<1>3. ASSUME NEW h \in Handlers, L!Delete(h)
      PROVE  LinksInv'
  BY <1>3, <1>i
    DEF LinksType, IssuersCross, EarlierGone, PendingFits, Issues, Jobs, L!LatestLinkWorks,
     L!AddressIsProven, L!Live, L!Delete, L!DeleteEarlier, L!Put
<1>4. ASSUME NEW h \in Handlers, L!Insert(h)
      PROVE  LinksInv'
  <2> DEFINE l == L!Fresh
             y == lTask[h].type
             r == [type |-> y, state |-> "live", to |-> lTask[h].to]
  <2>1. l \in Tokens /\ links[l] = L!NoLink
    BY <1>4 DEF L!Insert, L!Fresh
  <2>2. /\ lTask[h].at = "insert" /\ y \in Types /\ r \in Rows
    BY <1>4 DEF L!Insert, LinksType, Issues, Jobs, Rows
  <2>3. /\ links' = [links EXCEPT ![l] = r] /\ latest' = [latest EXCEPT ![y] = l]
        /\ lTask' = [lTask EXCEPT ![h] = L!Idle]
        /\ UNCHANGED <<email, pending, verified, used, provenAt, crossed>>
    BY <1>4 DEF L!Insert, L!Ends, L!Put
  <2> HIDE DEF l
  <2>4. /\ links' \in [Tokens -> Rows] /\ links'[l] = r
        /\ \A k \in Tokens \ {l} : links'[k] = links[k]
        /\ latest' \in [Types -> Tokens \cup {L!None}] /\ latest'[y] = l
        /\ \A z \in Types \ {y} : latest'[z] = latest[z]
        /\ lTask' \in [Handlers -> Jobs] /\ lTask'[h] = L!Idle
        /\ \A g \in Handlers \ {h} : lTask'[g] = lTask[g]
    BY <1>i, <2>1, <2>2, <2>3 DEF LinksType
  <2> HIDE DEF y
  <2>5. LinksType' /\ IssuersCross'
    BY <1>i, <2>1, <2>2, <2>3, <2>4 DEF LinksType, IssuersCross, Issues
  <2>6. EarlierGone'
    BY <1>i, <2>2, <2>3, <2>4 DEF LinksType, IssuersCross, EarlierGone, Issues, y
  <2>7. PendingFits'
    BY <1>i, <2>2, <2>3, <2>4 DEF LinksType, IssuersCross, EarlierGone, PendingFits, Issues, y
  <2>8. L!LatestLinkWorks' /\ L!AddressIsProven'
    BY <1>i, <2>1, <2>2, <2>3, <2>4
    DEF LinksType, EarlierGone, L!LatestLinkWorks, L!AddressIsProven, L!Live, y
  <2>9. QED BY <2>5, <2>6, <2>7, <2>8
<1>5. ASSUME NEW h \in Handlers, NEW l \in Tokens, L!LookUp(h, l)
      PROVE  LinksInv'
  <2> DEFINE r == [at |-> "use", type |-> links[l].type, link |-> l, to |-> pending,
                   from |-> links[l].to]
  <2>1. /\ lTask' = [lTask EXCEPT ![h] = r] /\ lTask[h].at = "idle"
        /\ UNCHANGED <<links, email, pending, verified, used, provenAt, latest>>
        /\ crossed \subseteq crossed'
        /\ (L!Issuing(links[l].type) \ {h} # {} => links[l].type \in crossed')
    BY <1>5, <1>i DEF L!LookUp, L!Put, L!Meets
  <2>2. /\ links[l].state = "live" /\ links[l].type \in Types
        /\ links[l].type = "email_change" => pending # L!None
        /\ r \in Jobs
    BY <1>5 DEF L!LookUp, L!Live, LinksType, Rows, Jobs
  <2>3. /\ lTask'[h] = r /\ \A g \in Handlers \ {h} : lTask'[g] = lTask[g]
    BY <2>1 DEF LinksType
  <2>4. LinksType' /\ IssuersCross' /\ EarlierGone'
    BY <2>1, <2>2, <2>3 DEF LinksType, IssuersCross, EarlierGone, Issues
  <2>5. PendingFits'
    BY <2>1, <2>2, <2>3 DEF LinksType, PendingFits, Issues, L!Issuing
  <2>6. L!LatestLinkWorks' /\ L!AddressIsProven'
    BY <2>1 DEF L!LatestLinkWorks, L!AddressIsProven, L!Live
  <2>7. QED BY <2>4, <2>5, <2>6
<1>6. ASSUME NEW h \in Handlers, L!Use(h)
      PROVE  LinksInv'
  BY <1>6, <1>i
    DEF LinksType, IssuersCross, EarlierGone, PendingFits, Issues, Jobs, L!LatestLinkWorks,
     L!AddressIsProven, L!Live, L!Use, L!MarkUsed, L!Ends, L!Put
<1>7. ASSUME NEW h \in Handlers, L!Dies(h)
      PROVE  LinksInv'
  BY <1>7, <1>i
    DEF LinksType, IssuersCross, EarlierGone, PendingFits, Issues, Jobs, L!LatestLinkWorks,
     L!AddressIsProven, L!Live, L!Dies, L!Ends, L!Put, L!Issuing
<1>8. ASSUME NEW l \in Tokens, L!Expire(l)
      PROVE  LinksInv'
  BY <1>8, <1>i
    DEF LinksType, IssuersCross, EarlierGone, PendingFits, Issues, Jobs, L!LatestLinkWorks,
     L!AddressIsProven, L!Live, L!Expire
<1>9. CASE UNCHANGED L!vars
  BY <1>9 DEF LinksType, IssuersCross, EarlierGone, PendingFits, Issues, L!LatestLinkWorks,
     L!AddressIsProven, L!Live, L!vars
<1>10. QED
  BY <1>1, <1>2, <1>3, <1>4, <1>5, <1>6, <1>7, <1>8, <1>9 DEF L!Next

(* A one-time link that works is unused and the latest of its type, unless *)
(* two requests for such links crossed: no order of requests, uses, expiry *)
(* and deaths between the statements revives an earlier link.              *)
THEOREM OnlyTheLatestLinkWorks == MCSpec => []LatestLinkWorks
<1>1. LinksInv => LatestLinkWorks
  BY DEF LinksInv, LatestLinkWorks
<1>2. QED
  BY <1>1, LinksInit, LinksStep, LoginAlone, PTL DEF L!Spec

(* The address of an account is one whose mailbox has proved it, unless a  *)
(* change of address crossed another one or broke off: the address that a  *)
(* confirmation writes is the one its own link was sent to.                *)
THEOREM AddressWasProven == MCSpec => []AddressIsProven
<1>1. LinksInv => AddressIsProven
  BY DEF LinksInv, AddressIsProven
<1>2. QED
  BY <1>1, LinksInit, LinksStep, LoginAlone, PTL DEF L!Spec

-----------------------------------------------------------------------------
(* The device login.                                                       *)

Grants == [team : Teams \cup {D!None}, state : {"new", "live", "ended"}, login : BOOLEAN]
Asking == [at : {"idle", "claim", "mint"}, team : Teams \cup {D!None}]

DeviceType ==
  /\ lost \in Nat /\ team \in Teams \cup {D!None}
  /\ poll \in [Handlers -> Asking]
  /\ token \in [ApiTokens -> Grants]

(* The three places the one token of a code can be in.                     *)
Made == {k \in ApiTokens : token[k].login}
Making == {p \in Handlers : poll[p].at = "mint"}
Worth == Cardinality(Made) + Cardinality(Making) + lost

OneWorth ==
  /\ Worth <= 1
  /\ status = "completed" => Worth = 1
  /\ status \in {D!None, "pending", "approved"} => Worth = 0
  /\ \A k \in Made : token[k].team = team
  /\ \A p \in Making : poll[p].team = team

DeviceInv == DeviceType /\ OneWorth

(* The instance's notion of size is the one of FiniteSets.                 *)
LEMMA DeviceSize ==
  /\ \A X : D!IsFiniteSet(X) <=> IsFiniteSet(X)
  /\ \A X : D!Cardinality(X) = Cardinality(X)
<1>1. \A X : D!IsFiniteSet(X) <=> IsFiniteSet(X)
  BY DEF D!IsFiniteSet, IsFiniteSet
<1>2. \A X : D!Cardinality(X) = Cardinality(X)
  BY DEF D!Cardinality, Cardinality
<1>3. QED BY <1>1, <1>2

LEMMA DeviceFinite ==
  /\ IsFiniteSet(Made) /\ IsFiniteSet(Making)
  /\ Cardinality(Made) \in Nat /\ Cardinality(Making) \in Nat
<1>1. IsFiniteSet(ApiTokens) /\ IsFiniteSet(Handlers)
  BY InstanceAssumptions, DeviceSize DEF D!DeviceAssumption
<1>2. Made \subseteq ApiTokens /\ Making \subseteq Handlers
  BY DEF Made, Making
<1>3. QED BY <1>1, <1>2, FS_Subset, FS_CardinalityType

LEMMA DeviceInit == D!Init => DeviceInv
<1> SUFFICES ASSUME D!Init
             PROVE  DeviceInv
  OBVIOUS
<1>1. DeviceType
  BY DEF D!Init, DeviceType, D!Idle, D!NoToken, Grants, Asking
<1>2. Made = {} /\ Making = {} /\ lost = 0 /\ status = D!None
  BY DEF D!Init, Made, Making, D!Idle, D!NoToken
<1>3. Worth = 0
  BY <1>2, FS_EmptySet DEF Worth
<1>4. QED
  BY <1>1, <1>2, <1>3 DEF DeviceInv, OneWorth, D!None

LEMMA DeviceStep == DeviceInv /\ [D!Next]_(D!vars) => DeviceInv'
<1> SUFFICES ASSUME DeviceInv, [D!Next]_(D!vars)
             PROVE  DeviceInv'
  OBVIOUS
<1> USE DEF DeviceInv
<1>n. /\ Cardinality(Made) \in Nat /\ Cardinality(Making) \in Nat /\ lost \in Nat
  BY DeviceFinite DEF DeviceType
<1>i. D!Idle \in Asking /\ D!Idle.at = "idle"
  BY DEF D!Idle, Asking
<1>1. CASE \/ D!Start \/ D!Expire \/ D!Sweep \/ \E t \in Teams : D!Approve(t)
           \/ UNCHANGED D!vars
  <2>1. UNCHANGED <<poll, token, lost>>
    BY <1>1 DEF D!Start, D!Expire, D!Sweep, D!Approve, D!vars
  <2>2. UNCHANGED <<Made, Making, Worth>>
    BY <2>1 DEF Made, Making, Worth
  <2>3. /\ team' \in Teams \cup {D!None}
        /\ team' = team \/ status = "pending"
        /\ \/ status' = status \/ status' = "gone"
           \/ (status \in {D!None, "pending"} /\ status' # "completed")
    BY <1>1 DEF DeviceType, D!Start, D!Expire, D!Sweep, D!Approve, D!Approvable, D!vars, D!None
  <2>4. Worth = 0 => Made = {} /\ Making = {}
    BY <1>n, DeviceFinite, FS_EmptySet, FS_CardinalityType DEF Worth
  <2>5. QED
    <3>1. DeviceType'
      BY <2>1, <2>3 DEF DeviceType
    <3>2. Worth' = Worth /\ Made' = Made /\ Making' = Making
      BY <2>2
    <3>3. /\ Worth' <= 1
          /\ status' = "completed" => Worth' = 1
          /\ status' \in {D!None, "pending", "approved"} => Worth' = 0
      BY <2>3, <3>2 DEF OneWorth, D!None
    <3>4. /\ \A k \in Made : token[k].team = team'
          /\ \A p \in Making : poll[p].team = team'
      BY <2>3, <2>4 DEF OneWorth
    <3>5. QED
      BY <2>1, <3>1, <3>2, <3>3, <3>4 DEF OneWorth
<1>2. ASSUME NEW p \in Handlers, D!PollRead(p) \/ D!Claim(p) \/ D!Dies(p)
      PROVE  DeviceInv'
  <2>1. /\ UNCHANGED <<team, token, Made>>
        /\ poll' \in [Handlers -> Asking]
        /\ \A q \in Handlers \ {p} : poll'[q] = poll[q]
    BY <1>2, <1>i DEF DeviceType, Asking, Made, D!PollRead, D!Claim, D!Dies
  <2>2. CASE D!Claim(p) /\ D!Claimable(p)
    <3>1. /\ status = "approved" /\ status' = "completed" /\ lost' = lost
          /\ poll[p].at = "claim" /\ poll'[p].at = "mint" /\ poll'[p].team = team
      BY <2>2 DEF DeviceType, D!Claim, D!Claimable
    <3>2. Making' = Making \cup {p} /\ p \notin Making
      BY <2>1, <3>1 DEF Making
    <3>3. Cardinality(Making') = Cardinality(Making) + 1
      BY <3>2, DeviceFinite, FS_AddElement
    <3>4. Worth = 0 /\ Worth' = 1
      BY <1>n, <2>1, <3>1, <3>3 DEF OneWorth, Worth
    <3>5. QED
      <4>1. DeviceType'
        BY <2>1, <3>1 DEF DeviceType
      <4>2. OneWorth'
        BY <2>1, <3>1, <3>2, <3>4 DEF OneWorth, D!None, Making
      <4>3. QED BY <4>1, <4>2
  <2>3. CASE D!PollRead(p) \/ (D!Claim(p) /\ ~D!Claimable(p))
    <3>1. /\ status' = status /\ lost' = lost
          /\ poll[p].at # "mint" /\ poll'[p].at # "mint"
      BY <2>3, <1>i DEF DeviceType, D!PollRead, D!Claim
    <3>2. Making' = Making
      BY <2>1, <3>1 DEF Making
    <3>3. Worth' = Worth
      BY <2>1, <3>1, <3>2 DEF Worth
    <3>4. QED
      BY <2>1, <3>1, <3>2, <3>3 DEF DeviceType, OneWorth, Making
  <2>4. CASE D!Dies(p) /\ poll[p].at # "mint"
    <3>1. /\ status' = status /\ lost' = lost /\ poll'[p].at # "mint"
      BY <2>4, <1>i DEF DeviceType, D!Dies
    <3>2. Making' = Making
      BY <2>1, <2>4, <3>1 DEF Making
    <3>3. Worth' = Worth
      BY <2>1, <3>1, <3>2 DEF Worth
    <3>4. QED
      BY <2>1, <2>4, <3>1, <3>2, <3>3 DEF DeviceType, OneWorth, Making
  <2>5. CASE D!Dies(p) /\ poll[p].at = "mint"
    <3>1. /\ status' = status /\ lost' = lost + 1 /\ poll'[p].at # "mint"
      BY <2>5, <1>i DEF DeviceType, D!Dies
    <3>2. Making' = Making \ {p} /\ p \in Making
      BY <2>1, <2>5, <3>1 DEF Making
    <3>3. Cardinality(Making') = Cardinality(Making) - 1
      BY <3>2, DeviceFinite, FS_RemoveElement
    <3>4. Worth' = Worth
      BY <1>n, <2>1, <3>1, <3>3 DEF Worth
    <3>5. QED
      BY <2>1, <3>1, <3>2, <3>4 DEF DeviceType, OneWorth, Making
  <2>6. QED BY <1>2, <2>2, <2>3, <2>4, <2>5
<1>3. ASSUME NEW p \in Handlers, NEW k \in ApiTokens, D!Mint(p, k)
      PROVE  DeviceInv'
  <2> DEFINE new == [team |-> poll[p].team, state |-> "live", login |-> TRUE]
  <2>1. /\ UNCHANGED <<status, team, lost>>
        /\ poll[p].at = "mint" /\ token[k] = D!NoToken
        /\ token' = [token EXCEPT ![k] = new] /\ poll' = [poll EXCEPT ![p] = D!Idle]
    BY <1>3 DEF D!Mint
  <2>2. /\ new \in Grants /\ new.login /\ new.team = poll[p].team /\ ~D!NoToken.login
    BY DEF DeviceType, Asking, Grants, D!NoToken
  <2> HIDE DEF new
  <2>3. /\ poll' \in [Handlers -> Asking] /\ poll'[p] = D!Idle
        /\ \A q \in Handlers \ {p} : poll'[q] = poll[q]
        /\ token' \in [ApiTokens -> Grants] /\ token'[k] = new
        /\ \A j \in ApiTokens \ {k} : token'[j] = token[j]
    BY <1>i, <2>1, <2>2 DEF DeviceType
  <2>4. /\ Making' = Making \ {p} /\ p \in Making
        /\ Made' = Made \cup {k} /\ k \notin Made
    BY <1>i, <2>1, <2>2, <2>3 DEF Made, Making
  <2>5. /\ Cardinality(Making') = Cardinality(Making) - 1
        /\ Cardinality(Made') = Cardinality(Made) + 1
    BY <2>4, DeviceFinite, FS_AddElement, FS_RemoveElement
  <2>6. Worth' = Worth
    BY <1>n, <2>1, <2>5 DEF Worth
  <2>7. QED
    BY <2>1, <2>2, <2>3, <2>4, <2>6 DEF DeviceType, OneWorth
<1>4. ASSUME NEW k \in ApiTokens, D!EndToken(k) \/ \E t \in Teams : D!CreateToken(t, k)
      PROVE  DeviceInv'
  <2>1. /\ UNCHANGED <<status, team, poll, lost>>
        /\ DeviceType'
        /\ \A j \in ApiTokens : /\ token'[j].login <=> token[j].login
                                /\ token[j].login => token'[j].team = token[j].team
    <3>1. CASE D!EndToken(k)
      BY <3>1 DEF DeviceType, Grants, D!EndToken
    <3>2. ASSUME NEW t \in Teams, D!CreateToken(t, k)
          PROVE  /\ UNCHANGED <<status, team, poll, lost>>
                 /\ DeviceType'
                 /\ \A j \in ApiTokens : /\ token'[j].login <=> token[j].login
                                         /\ token[j].login => token'[j].team = token[j].team
      <4> DEFINE new == [team |-> t, state |-> "live", login |-> FALSE]
      <4>1. new \in Grants /\ ~new.login
        BY DEF Grants
      <4>2. ~token[k].login
        BY <3>2 DEF D!CreateToken, D!NoToken
      <4>3. /\ UNCHANGED <<status, team, poll, lost>>
            /\ token' = [token EXCEPT ![k] = new]
        BY <3>2 DEF D!CreateToken
      <4> HIDE DEF new
      <4>4. /\ token' \in [ApiTokens -> Grants] /\ token'[k] = new
            /\ \A j \in ApiTokens \ {k} : token'[j] = token[j]
        BY <4>1, <4>3 DEF DeviceType
      <4>5. DeviceType'
        BY <4>3, <4>4 DEF DeviceType
      <4>6. \A j \in ApiTokens : /\ token'[j].login <=> token[j].login
                                 /\ token[j].login => token'[j].team = token[j].team
        BY <4>1, <4>2, <4>4, Zenon
      <4>7. QED BY <4>3, <4>5, <4>6
    <3>3. QED BY <1>4, <3>1, <3>2
  <2>2. UNCHANGED <<Made, Making, Worth>>
    BY <2>1 DEF Made, Making, Worth
  <2>3. QED BY <2>1, <2>2 DEF Made, OneWorth
<1>5. QED
  BY <1>1, <1>2, <1>3, <1>4 DEF D!Next

(* A device code is worth one token, of the team that approved it: for any *)
(* number of polls at once, dying anywhere, it was made, is being made, or *)
(* was lost, once, and only for a code that is completed.                  *)
THEOREM CodeIsWorthOneToken == MCSpec => []OneTokenPerCode
<1>1. DeviceInv => OneTokenPerCode
  BY DeviceSize DEF DeviceInv, OneWorth, Worth, Made, Making, OneTokenPerCode,
    D!OneTokenPerCode
<1>2. QED
  BY <1>1, DeviceInit, DeviceStep, LoginAlone, PTL DEF D!Spec

-----------------------------------------------------------------------------
(* The types of the four, and their bounds: each adds to what was proved   *)
(* above what its TypeOK says besides.                                     *)

SessionBounds ==
  now <= MaxTime /\ Len(sessions) <= MaxSessions /\ unrevoked \in BOOLEAN

LEMMA SessionBoundsStep ==
  SessionsInv /\ SessionBounds /\ [S!Next]_(S!vars) => SessionBounds'
<1> SUFFICES ASSUME SessionsInv, SessionBounds, [S!Next]_(S!vars)
             PROVE  SessionBounds'
  OBVIOUS
<1>0. /\ {MaxTime, MaxSessions} \subseteq Nat /\ now \in Nat /\ sessions \in Seq(Entries)
  BY InstanceAssumptions DEF S!SessionsAssumption, SessionsInv, SessionsType
<1>1. now' <= MaxTime
  <2>1. now' = now \/ (now < MaxTime /\ now' = now + 1)
    BY DEF S!Next, S!Request, S!Login, S!CreateSession, S!ChangeRead, S!Change,
      S!Revoke, S!AdminReset, S!AdminRevoke, S!ChangeInOne, S!RevokeOne,
      S!RevokeOthers, S!RevokeSet, S!ClockTicks, S!Dies, S!vars
  <2>2. QED BY <1>0, <2>1 DEF SessionBounds
<1>2. Len(sessions') <= MaxSessions
  <2>1. CASE sessions' = sessions \/ \E own : S!AgeAll(own)
    BY <1>0, <2>1, Ageing DEF SessionBounds, SessionsInv
  <2>2. ASSUME NEW h \in Handlers, S!CreateSession(h)
        PROVE  Len(sessions') <= MaxSessions
    BY <1>0, <2>2 DEF S!CreateSession
  <2>3. ASSUME NEW gone, S!RevokeSet(gone)
        PROVE  Len(sessions') <= MaxSessions
    <3>1. sessions' = [r \in 1..Len(sessions) |-> sessions'[r]]
      BY <1>0, <2>3 DEF S!RevokeSet
    <3>2. Len(sessions') = Len(sessions)
      BY <1>0, <3>1
    <3>3. QED BY <3>2 DEF SessionBounds
  <2>4. QED
    BY <2>1, <2>2, <2>3 DEF S!Next, S!Request, S!Login, S!ChangeRead, S!Change,
      S!Revoke, S!AdminReset, S!AdminRevoke, S!ChangeInOne, S!RevokeOne,
      S!RevokeOthers, S!ClockTicks, S!Dies, S!vars
<1>3. unrevoked' \in BOOLEAN
  BY DEF SessionBounds, S!Next, S!Request, S!Login, S!CreateSession, S!ChangeRead,
    S!Change, S!Revoke, S!AdminReset, S!AdminRevoke, S!ChangeInOne, S!RevokeOne,
    S!RevokeOthers, S!RevokeSet, S!ClockTicks, S!Dies, S!vars
<1>4. QED BY <1>1, <1>2, <1>3 DEF SessionBounds

LEMMA SessionsTyped == MCSpec => []S!TypeOK
<1>1. S!Init => SessionBounds
  <2> SUFFICES ASSUME S!Init
               PROVE  SessionBounds
    OBVIOUS
  <2>1. now = 1 /\ Len(sessions) = 1 /\ unrevoked = FALSE
    BY DEF S!Init
  <2>2. 1 <= MaxTime /\ 1 <= MaxSessions
    BY InstanceAssumptions DEF S!SessionsAssumption
  <2>3. QED BY <2>1, <2>2 DEF SessionBounds
<1>2. SessionsInv /\ SessionBounds => S!TypeOK
  <2> SUFFICES ASSUME SessionsType, SessionBounds
               PROVE  S!TypeOK
    BY DEF SessionsInv
  <2>1. \A s \in 1..Len(sessions) : sessions[s] \in Entries
    BY DEF SessionsType
  <2>2. \A s \in DOMAIN sessions :
          sessions[s].iat \in 1..now /\ sessions[s].rests \in {"today", "old", "late"}
    BY <2>1 DEF SessionsType, Entries
  <2>3. \A h \in Handlers : sTask[h].at \in {"idle", "session", "change", "revoke", "cut"}
    BY DEF SessionsType, Working
  <2>4. now \in 1..MaxTime /\ cutoff \in 0..now
    BY InstanceAssumptions DEF SessionsType, SessionBounds, S!SessionsAssumption
  <2>5. QED BY <2>2, <2>3, <2>4 DEF SessionBounds, S!TypeOK
<1>3. QED
  BY <1>1, <1>2, SessionsInit, SessionsStep, SessionBoundsStep, LoginAlone, PTL DEF S!Spec

(* A code that is about to be confirmed is of a secret that was made, and  *)
(* of a step of the clock.                                                 *)
FactorBounds ==
  /\ step \in 1..MaxStep /\ last <= MaxStep /\ minted <= MaxSecrets
  /\ enabled \in BOOLEAN /\ left \in 0..Codes /\ proven \subseteq 1..MaxSecrets
  /\ marks \subseteq {"replayed", "steps", "secret"}
  /\ accepted \subseteq (1..MaxSecrets) \X (1..MaxStep)
  /\ \A h \in Handlers :
       fTask[h].at = "enable" => fTask[h].secret \in 1..minted /\ fTask[h].t \in 1..MaxStep

LEMMA FactorBoundsStep ==
  FactorInv /\ FactorBounds /\ [F!Next]_(F!vars) => FactorBounds'
<1> SUFFICES ASSUME FactorInv, FactorBounds, [F!Next]_(F!vars)
             PROVE  FactorBounds'
  OBVIOUS
<1>0. /\ MaxStep \in Nat \ {0} /\ MaxSecrets \in Nat /\ Codes \in Nat
      /\ fTask \in [Handlers -> Work] /\ last \in Nat /\ minted \in Nat
      /\ secret \in 0..minted /\ F!GoodSteps \subseteq 1..MaxStep
      /\ \A h \in Handlers : fTask[h].at = "login" => fTask[h].secret \in 1..minted
  BY InstanceAssumptions DEF F!TwoFactorAssumption, FactorInv, FactorType, F!GoodSteps
<1>i. F!Idle.at = "idle" /\ F!Idle \in Work
  BY DEF F!Idle, Work
<1> DEFINE Confirms(r) == r.secret \in 1..minted /\ r.t \in 1..MaxStep
(* Steps that write no column ...                                          *)
<1>1. ASSUME NEW h \in Handlers, NEW r, fTask' = [fTask EXCEPT ![h] = r],
             r.at = "enable" => Confirms(r),
             UNCHANGED <<step, secret, enabled, last, minted, proven, accepted, marks>>,
             left' \in 0..Codes
      PROVE  FactorBounds'
  BY <1>0, <1>1 DEF FactorBounds
<1>2. ASSUME NEW h \in Handlers, NEW at \in {"login", "setup", "codes", "burn", "disable"},
             NEW x \in Work, F!Reads(h, at, x),
             UNCHANGED <<step, secret, enabled, last, left, minted, proven, accepted, marks>>
      PROVE  FactorBounds'
  <2> DEFINE r == [x EXCEPT !.at = at]
  <2>1. fTask' = [fTask EXCEPT ![h] = r] /\ r.at = at
    BY <1>2 DEF F!Reads, Work
  <2> HIDE DEF r
  <2>2. QED BY <1>1, <1>2, <2>1 DEF FactorBounds
<1>3. ASSUME NEW h \in Handlers, NEW next, next.at # "enable", F!BurnCode(h, next)
      PROVE  FactorBounds'
  <2>1. left' \in 0..Codes
    BY <1>0, <1>3 DEF F!BurnCode, FactorBounds
  <2>2. fTask' = [fTask EXCEPT ![h] = next] \/ fTask' = [fTask EXCEPT ![h] = F!Idle]
    BY <1>3 DEF F!BurnCode, F!Ends
  <2>3. QED BY <1>1, <1>3, <1>i, <2>1, <2>2 DEF F!BurnCode
<1>4. ASSUME NEW h \in Handlers, F!LoginRead(h)
      PROVE  FactorBounds'
  <2> DEFINE Reading(y, n, l) == [y EXCEPT !.secret = n, !.last = l]
             x == Reading(F!Idle, secret, last)
  <2>1. x \in Work
    <3>1. ASSUME NEW y \in Work, NEW n \in Nat, NEW l \in Nat
          PROVE  Reading(y, n, l) \in Work
      BY DEF Work
    <3>2. secret \in Nat
      BY <1>0
    <3> HIDE DEF Reading
    <3>3. QED BY <1>0, <1>i, <3>1, <3>2
  <2> HIDE DEF x
  <2>2. F!Reads(h, "login", x)
    BY <1>4 DEF F!LoginRead, x
  <2>3. QED BY <1>2, <1>4, <2>1, <2>2 DEF F!LoginRead, F!userVars
<1>5. ASSUME NEW h \in Handlers, NEW t \in F!GoodSteps, F!LoginTotp(h, t)
      PROVE  FactorBounds'
  <2>1. /\ fTask' = [fTask EXCEPT ![h] = F!Idle] /\ fTask[h].secret \in 1..minted
        /\ t \in 1..MaxStep /\ last' = t /\ accepted' = accepted \cup {<<fTask[h].secret, t>>}
        /\ UNCHANGED <<step, secret, enabled, left, minted, proven>>
    BY <1>0, <1>5 DEF F!LoginTotp, F!Ends
  <2>2. fTask[h].secret \in 1..MaxSecrets
    BY <1>0, <2>1 DEF FactorBounds
  <2>3. marks' \subseteq {"replayed", "steps", "secret"}
    BY <1>5 DEF F!LoginTotp, FactorBounds
  <2>4. accepted' \subseteq (1..MaxSecrets) \X (1..MaxStep)
    BY <2>1, <2>2 DEF FactorBounds
  <2>5. QED BY <1>0, <1>i, <2>1, <2>3, <2>4 DEF FactorBounds
<1>6. ASSUME NEW h \in Handlers, NEW t \in F!GoodSteps, F!EnableRead(h, t)
      PROVE  FactorBounds'
  <2> DEFINE x == [F!Idle EXCEPT !.secret = secret, !.t = t]
             r == [x EXCEPT !.at = "enable"]
  <2>1. fTask' = [fTask EXCEPT ![h] = r] /\ secret \in 1..minted
    BY <1>0, <1>6 DEF F!EnableRead, F!Reads
  <2>2. Confirms(r)
    BY <1>0, <2>1 DEF F!Idle
  <2> HIDE DEF r
  <2>3. QED BY <1>1, <1>6, <2>1, <2>2 DEF F!EnableRead, F!userVars, FactorBounds
<1>7. ASSUME NEW h \in Handlers, F!WriteSetup(h)
      PROVE  FactorBounds'
  <2>1. /\ fTask' = [fTask EXCEPT ![h] = F!Idle] /\ minted' = minted + 1
        /\ minted < MaxSecrets
        /\ UNCHANGED <<step, enabled, last, left, proven, accepted>>
    BY <1>7 DEF F!WriteSetup, F!Ends
  <2>2. marks' \subseteq {"replayed", "steps", "secret"}
    BY <1>7 DEF F!WriteSetup, F!Mark, FactorBounds
  <2>3. QED BY <1>0, <1>i, <2>1, <2>2 DEF FactorBounds
<1>8. ASSUME NEW h \in Handlers, F!WriteEnable(h) \/ F!WriteDisable(h)
      PROVE  FactorBounds'
  <2>1. /\ \A g \in Handlers : fTask'[g].at = "enable" =>
             /\ fTask[g].at = "enable"
             /\ fTask'[g].secret = fTask[g].secret /\ fTask'[g].t = fTask[g].t
        /\ UNCHANGED <<step, minted, accepted>>
    <3>1. fTask' = [g \in Handlers |-> IF g = h \/ fTask[g] = F!Idle THEN F!Idle
                                       ELSE [fTask[g] EXCEPT !.stale = TRUE]]
      BY <1>8 DEF F!WriteEnable, F!WriteDisable, F!Turns
    <3>2. ASSUME NEW r \in Work
          PROVE  LET x == [r EXCEPT !.stale = TRUE]
                 IN  x.at = r.at /\ x.secret = r.secret /\ x.t = r.t
      BY DEF Work
    <3>3. QED BY <1>0, <1>8, <1>i, <3>1, <3>2 DEF F!WriteEnable, F!WriteDisable
  <2>2. marks' \subseteq {"replayed", "steps", "secret"}
    BY <1>8 DEF F!WriteEnable, F!WriteDisable, FactorBounds
  <2>3. enabled' \in BOOLEAN
    BY <1>8 DEF F!WriteEnable, F!WriteDisable
  <2>4. fTask[h].at = "enable" => fTask[h].secret \in 1..MaxSecrets
    BY <1>0 DEF FactorBounds
  <2>5. last' <= MaxStep /\ left' \in 0..Codes /\ proven' \subseteq 1..MaxSecrets
    <3>1. CASE F!WriteEnable(h)
      <4>1. /\ fTask[h].at = "enable" /\ last' = fTask[h].t /\ left' = Codes
            /\ proven' = proven \cup {fTask[h].secret}
        BY <3>1 DEF F!WriteEnable, F!NewCodes
      <4>2. fTask[h].t \in 1..MaxStep /\ proven \subseteq 1..MaxSecrets
        BY <4>1 DEF FactorBounds
      <4>3. last' <= MaxStep
        BY <1>0, <4>1, <4>2
      <4>4. left' \in 0..Codes
        BY <1>0, <4>1
      <4>5. proven' \subseteq 1..MaxSecrets
        BY <2>4, <4>1, <4>2
      <4>6. QED BY <4>3, <4>4, <4>5
    <3>2. CASE F!WriteDisable(h)
      BY <1>0, <3>2 DEF F!WriteDisable, FactorBounds
    <3>3. QED BY <1>8, <3>1, <3>2
  <2>6. QED BY <2>1, <2>2, <2>3, <2>5 DEF FactorBounds
<1>9. ASSUME NEW h \in Handlers,
             \/ F!SetupRead(h) \/ F!RegenerateRead(h) \/ F!DisableRead(h) \/ F!ResetRead(h)
      PROVE  FactorBounds'
  <2>1. \E at \in {"setup", "codes", "burn", "disable"} : F!Reads(h, at, F!Idle)
    BY <1>9 DEF F!SetupRead, F!RegenerateRead, F!DisableRead, F!ResetRead
  <2>2. QED
    BY <1>2, <1>9, <1>i, <2>1 DEF F!SetupRead, F!RegenerateRead, F!DisableRead,
      F!ResetRead, F!userVars
<1>10. ASSUME NEW h \in Handlers, F!LoginRecovery(h) \/ F!DisableBurn(h)
       PROVE  FactorBounds'
  <2>1. [fTask[h] EXCEPT !.at = "disable"].at = "disable"
    BY <1>0 DEF Work
  <2>2. QED BY <1>3, <1>10, <1>i, <2>1 DEF F!LoginRecovery, F!DisableBurn
<1>11. ASSUME NEW h \in Handlers, F!WriteCodes(h) \/ F!Dies(h)
       PROVE  FactorBounds'
  <2>1. /\ fTask' = [fTask EXCEPT ![h] = F!Idle]
        /\ UNCHANGED <<step, secret, enabled, last, minted, proven, accepted, marks>>
    BY <1>11 DEF F!WriteCodes, F!Dies, F!Ends, F!userVars
  <2>2. left' \in 0..Codes
    BY <1>0, <1>11 DEF F!WriteCodes, F!Dies, F!NewCodes, F!userVars, FactorBounds
  <2>3. QED BY <1>1, <1>i, <2>1, <2>2
<1>12. ASSUME F!ClockTicks \/ UNCHANGED F!vars
       PROVE  FactorBounds'
  <2>1. UNCHANGED <<secret, enabled, last, left, fTask, minted, proven, accepted, marks>>
    BY <1>12 DEF F!ClockTicks, F!vars, F!userVars
  <2>2. step' = step \/ (step < MaxStep /\ step' = step + 1)
    BY <1>12 DEF F!ClockTicks, F!vars
  <2>3. step' \in 1..MaxStep
    BY <1>0, <2>2 DEF FactorBounds
  <2>4. QED BY <2>1, <2>3 DEF FactorBounds
<1>13. QED
  BY <1>4, <1>5, <1>6, <1>7, <1>8, <1>9, <1>10, <1>11, <1>12 DEF F!Next, F!Request

LEMMA FactorTyped == MCSpec => []F!TypeOK
<1>1. F!Init => FactorBounds
  <2>1. 1 \in 1..MaxStep /\ 0 <= MaxStep /\ 0 <= MaxSecrets /\ 0 \in 0..Codes
    BY InstanceAssumptions DEF F!TwoFactorAssumption
  <2>2. F!Init => /\ step = 1 /\ last = 0 /\ minted = 0 /\ left = 0 /\ enabled = FALSE
                  /\ proven = {} /\ marks = {} /\ accepted = {}
                  /\ \A h \in Handlers : fTask[h].at # "enable"
    BY DEF F!Init, F!Idle
  <2>3. QED BY <2>1, <2>2 DEF FactorBounds
<1>2. FactorInv /\ FactorBounds => F!TypeOK
  BY InstanceAssumptions
  DEF FactorInv, FactorType, FactorBounds, F!TypeOK, F!TwoFactorAssumption
<1>3. QED
  BY <1>1, <1>2, FactorStart, FactorStep, FactorBoundsStep, LoginAlone, PTL DEF F!Spec

(* Who has looked up a change of address has read an address.              *)
LinkBounds ==
  /\ email \in Mailboxes /\ crossed \subseteq Types
  /\ \A h \in Handlers : lTask[h].at = "use" /\ lTask[h].type = "email_change" =>
       lTask[h].to \in Mailboxes

LEMMA LinkBoundsStep ==
  LinksInv /\ LinkBounds /\ [L!Next]_(L!vars) => LinkBounds'
<1> SUFFICES ASSUME LinksInv, LinkBounds, [L!Next]_(L!vars)
             PROVE  LinkBounds'
  OBVIOUS
<1>0. LinksType
  BY DEF LinksInv
<1>i. L!Idle.at = "idle"
  BY DEF L!Idle
<1>1. ASSUME NEW h \in Handlers, NEW y \in Types, NEW to \in Mailboxes, L!Ask(h, y, to)
      PROVE  LinkBounds'
  <2> DEFINE r == [L!Idle EXCEPT !.at = IF y = "email_change" THEN "pending" ELSE "delete",
                                 !.type = y, !.to = to]
  <2>1. r.at # "use"
    BY DEF L!Idle
  <2>2. lTask' = [lTask EXCEPT ![h] = r] /\ email' = email /\ crossed' \subseteq Types
    BY <1>1 DEF L!Ask, L!Put, L!Meets, LinkBounds
  <2> HIDE DEF r
  <2>3. QED BY <1>0, <2>1, <2>2 DEF LinksType, LinkBounds
<1>2. ASSUME NEW h \in Handlers, NEW at \in {"delete", "insert"},
             L!Put(h, [lTask[h] EXCEPT !.at = at]), UNCHANGED <<email, crossed>>
      PROVE  LinkBounds'
  <2> DEFINE r == [lTask[h] EXCEPT !.at = at]
  <2>1. r.at # "use"
    BY <1>0 DEF LinksType, Jobs
  <2>2. lTask' = [lTask EXCEPT ![h] = r]
    BY <1>2 DEF L!Put
  <2> HIDE DEF r
  <2>3. QED BY <1>0, <1>2, <2>1, <2>2 DEF LinksType, LinkBounds
<1>3. ASSUME NEW h \in Handlers, NEW l \in Tokens, L!LookUp(h, l)
      PROVE  LinkBounds'
  <2> DEFINE r == [at |-> "use", type |-> links[l].type, link |-> l, to |-> pending,
                   from |-> links[l].to]
  <2>1. lTask' = [lTask EXCEPT ![h] = r] /\ email' = email /\ crossed' \subseteq Types
    BY <1>0, <1>3 DEF L!LookUp, L!Live, L!Put, L!Meets, LinksType, LinkBounds
  <2>2. r.type = "email_change" => r.to \in Mailboxes
    BY <1>0, <1>3 DEF L!LookUp, LinksType
  <2> HIDE DEF r
  <2>3. QED BY <1>0, <2>1, <2>2 DEF LinksType, LinkBounds
<1>4. ASSUME NEW h \in Handlers, L!Insert(h) \/ L!Use(h) \/ L!Dies(h)
      PROVE  LinkBounds'
  <2>1. lTask' = [lTask EXCEPT ![h] = L!Idle]
    BY <1>4 DEF L!Insert, L!Use, L!Dies, L!Ends, L!Put
  <2>2. email' \in Mailboxes
    BY <1>4 DEF L!Insert, L!Use, L!Dies, LinkBounds
  <2>3. crossed' \subseteq Types
    BY <1>0, <1>4 DEF L!Insert, L!Use, L!Dies, L!Issuing, LinksType, Issues, LinkBounds
  <2>4. QED BY <1>0, <1>i, <2>1, <2>2, <2>3 DEF LinksType, LinkBounds
<1>5. ASSUME UNCHANGED <<email, lTask, crossed>>
      PROVE  LinkBounds'
  BY <1>5 DEF LinkBounds
<1>6. QED
  BY <1>1, <1>2, <1>3, <1>4, <1>5
  DEF L!Next, L!WritePending, L!Delete, L!Expire, L!vars

LEMMA LinksTyped == MCSpec => []L!TypeOK
<1>1. L!Init => LinkBounds
  BY InstanceAssumptions DEF L!Init, L!Idle, LinkBounds, L!LinksAssumption
<1>2. LinksInv /\ LinkBounds => L!TypeOK
  BY DEF LinksInv, LinksType, Rows, LinkBounds, L!TypeOK
<1>3. QED
  BY <1>1, <1>2, LinksInit, LinksStep, LinkBoundsStep, LoginAlone, PTL DEF L!Spec

CodeState ==
  status \in {D!None, "pending", "approved", "completed", "gone"} /\ expired \in BOOLEAN

LEMMA DeviceTyped == MCSpec => []D!TypeOK
<1>1. D!Init => CodeState
  BY DEF D!Init, CodeState
<1>2. CodeState /\ [D!Next]_(D!vars) => CodeState'
  BY DEF CodeState, D!Next, D!Start, D!Expire, D!Sweep, D!Approve, D!PollRead, D!Claim,
    D!Dies, D!Mint, D!EndToken, D!CreateToken, D!vars
<1>3. DeviceInv /\ CodeState => D!TypeOK
  BY DEF DeviceInv, DeviceType, Asking, Grants, CodeState, D!TypeOK
<1>4. QED
  BY <1>1, <1>2, <1>3, DeviceInit, DeviceStep, LoginAlone, PTL DEF D!Spec
=============================================================================
