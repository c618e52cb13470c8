------------------------------ MODULE Notices ------------------------------
(***************************************************************************)
(* Mails that must not go out twice, and the sweeps that send them:        *)
(*   src/scheduler/trialNotices.ts     the end of a team's trial           *)
(*   src/scheduler/capacityNotices.ts  a team that keeps queueing          *)
(*   src/lib/capacityPressure.ts       which teams those are               *)
(*   src/scheduler/maintenance.ts      backups that stopped reporting      *)
(*   src/routes/backups.ts             their reports                       *)
(*                                                                         *)
(* One team with one owner, one kind of mail in a behaviour.  The advisory *)
(* lock of a kind lets one sweep run at a time.  A unit of time is a day.  *)
(***************************************************************************)
EXTENDS Integers

CONSTANTS
  Trial,          \* days left at the beginning
  Cooldown,       \* COOLDOWN_DAYS
  StaleAfter,     \* BACKUP_STALE_HOURS, in days
  MaxTime, MaxMails  \* bounds of an instance: days, mails about one thing

NoticesAssumption ==
  {Trial, Cooldown, StaleAfter} \subseteq Nat /\ MaxTime \in Nat /\ MaxTime >= 3

Never == -1
Milestones == <<3, 0>>

VARIABLES
  kind,      \* "trial", "capacity" or "backup"
  now,
  entitled,  \* the team is on the free plan, its owner's address verified;
             \* or it has waited often enough in the window
  stamp,     \* trial_notice_sent_at_days, capacity_notice_sent_at (a day),
             \* backup_alerted_at (a day)
  lastOk,    \* the day of the last good backup
  sweep,     \* the sweep under way: its next statement and its milestone
  report,    \* a report of a good backup has stored its run, not yet
             \* cleared the stamp
  mails,     \* history: mails, by milestone or by day
  unstamped, \* history: those among them whose stamp was not written
  alerts,    \* history: backup alerts since the last good backup
  unsent,    \* history: a stamp whose alert did not go out
  crossed    \* history: a sweep ran beside the last report

vars == <<kind, now, entitled, stamp, lastOk, sweep, report, mails, unstamped,
          alerts, unsent, crossed>>

backupVars == <<lastOk, report, alerts, unsent, crossed>>
mailVars == <<mails, unstamped>>

Idle == [at |-> "idle", step |-> 1]

Init ==
  /\ kind \in {"trial", "capacity", "backup"}
  /\ now = 0 /\ entitled \in BOOLEAN /\ stamp = Never /\ lastOk = 0
  /\ sweep = Idle /\ report = FALSE
  /\ mails = [m \in 0..MaxTime |-> 0] /\ unstamped = mails
  /\ alerts = 0 /\ unsent = FALSE /\ crossed = FALSE

-----------------------------------------------------------------------------
Milestone == Milestones[sweep.step]
Left == Trial - now
Goes(at) == sweep' = [sweep EXCEPT !.at = at]
Ends == sweep' = Idle

(* The next milestone; the capacity sweep has one round.                   *)
GoesOn ==
  sweep' = IF kind = "trial" /\ sweep.step = 1 THEN [at |-> "pick", step |-> 2] ELSE Idle

Start ==
  /\ sweep.at = "idle"
  /\ Goes(IF kind = "backup" THEN "look" ELSE "pick")
  /\ crossed' = (crossed \/ report)
  /\ UNCHANGED <<kind, now, entitled, stamp, mailVars, lastOk, report, alerts, unsent>>

(* Faulty variant of Due, a slip the code could have: the cooldown and the *)
(* milestone are off by one.                                               *)
DueEarly ==
  /\ entitled
  /\ IF kind = "trial" THEN Left <= Milestone /\ (stamp = Never \/ stamp >= Milestone)
     ELSE stamp = Never \/ stamp <= now - Cooldown

(* The rows a sweep selects.                                               *)
Due ==
  /\ entitled
  /\ IF kind = "trial" THEN Left <= Milestone /\ (stamp = Never \/ stamp > Milestone)
     ELSE stamp = Never \/ stamp < now - Cooldown

Pick ==
  /\ sweep.at = "pick" /\ IF Due THEN Goes("send") ELSE GoesOn
  /\ UNCHANGED <<kind, now, entitled, stamp, mailVars, backupVars>>

Key == IF kind = "trial" THEN Milestone ELSE now
Counted(f, k) == [f EXCEPT ![k] = @ + 1]

(* The mail; the stamp is written only after it.                           *)
Send ==
  /\ sweep.at = "send" /\ mails[Key] < MaxMails /\ Goes("stamp")
  /\ mails' = Counted(mails, Key) /\ unstamped' = Counted(unstamped, Key)
  /\ UNCHANGED <<kind, now, entitled, stamp, backupVars>>
SendFails ==
  /\ sweep.at = "send" /\ GoesOn
  /\ UNCHANGED <<kind, now, entitled, stamp, mailVars, backupVars>>
Stamp ==
  /\ sweep.at = "stamp" /\ GoesOn
  /\ stamp' = Key /\ unstamped' = [unstamped EXCEPT ![Key] = @ - 1]
  /\ UNCHANGED <<kind, now, entitled, mails, backupVars>>
StampFails ==
  /\ sweep.at = "stamp" /\ GoesOn
  /\ UNCHANGED <<kind, now, entitled, stamp, mailVars, backupVars>>

-----------------------------------------------------------------------------
(* checkBackupFreshness: the alert is claimed before it is sent.           *)
Stale == lastOk < now - StaleAfter
Look ==
  /\ sweep.at = "look"
  /\ IF Stale /\ stamp = Never THEN Goes("claim") ELSE Ends
  /\ UNCHANGED <<kind, now, entitled, stamp, mailVars, backupVars>>
Claim ==
  /\ sweep.at = "claim"
  /\ IF stamp # Never THEN Ends /\ UNCHANGED <<stamp, unsent>>
     ELSE Goes("alert") /\ stamp' = now /\ unsent' = TRUE
  /\ UNCHANGED <<kind, now, entitled, lastOk, report, alerts, crossed, mailVars>>
SendAlert ==
  /\ sweep.at = "alert" /\ Ends
  /\ alerts' = alerts + 1 /\ unsent' = FALSE
  /\ UNCHANGED <<kind, now, entitled, stamp, lastOk, report, crossed, mailVars>>
AlertFails ==
  /\ sweep.at = "alert" /\ Ends
  /\ UNCHANGED <<kind, now, entitled, stamp, mailVars, backupVars>>

(* POST /internal/backup-report of a good backup: two statements.          *)
StoreRun ==
  /\ kind = "backup" /\ ~report /\ report' = TRUE /\ lastOk' = now
  /\ alerts' = 0 /\ crossed' = (sweep # Idle)
  /\ UNCHANGED <<kind, now, entitled, stamp, sweep, unsent, mailVars>>
ClearStamp ==
  /\ report /\ report' = FALSE /\ stamp' = Never /\ unsent' = FALSE
  /\ UNCHANGED <<kind, now, entitled, lastOk, sweep, alerts, crossed, mailVars>>

-----------------------------------------------------------------------------
DayPasses ==
  /\ now < MaxTime /\ now' = now + 1
  /\ sweep = Idle /\ ~report      \* neither lasts for days
  /\ UNCHANGED <<kind, entitled, stamp, sweep, mailVars, backupVars>>

(* Plans, verified addresses and the load of the window change.            *)
Entitle ==
  /\ kind # "backup" /\ entitled' = ~entitled
  /\ UNCHANGED <<kind, now, stamp, sweep, mailVars, backupVars>>

Dies ==
  /\ sweep # Idle /\ Ends
  /\ UNCHANGED <<kind, now, entitled, stamp, mailVars, backupVars>>

Next ==
  \/ Start \/ Pick \/ Send \/ SendFails \/ Stamp \/ StampFails
  \/ Look \/ Claim \/ SendAlert \/ AlertFails \/ StoreRun \/ ClearStamp
  \/ DayPasses \/ Entitle \/ Dies

Spec == Init /\ [][Next]_vars

-----------------------------------------------------------------------------
TypeOK ==
  /\ now \in 0..MaxTime /\ stamp \in Never..MaxTime
  /\ lastOk \in 0..now /\ \A m \in DOMAIN mails : unstamped[m] \in 0..mails[m]
  /\ sweep.at \in {"idle", "pick", "send", "stamp", "look", "claim", "alert"}

(* An owner is mailed once about a milestone and once in a cooldown, but   *)
(* for mails whose stamp was lost.  Operations are alerted once about a    *)
(* backup that is missing, and a stamp keeps only that outage quiet: but   *)
(* for an alert that got lost, and a sweep that crossed a report.          *)
NoticesAreCounted ==
  CASE kind = "trial" ->
         \A m \in {3, 0} : mails[m] - unstamped[m] <= 1
    [] kind = "capacity" ->
         \A d, e \in 0..now :
           /\ d <= e /\ mails[d] > unstamped[d] /\ mails[e] > unstamped[e]
           => /\ d = e \/ e - d > Cooldown
              /\ mails[d] - unstamped[d] = 1
    [] kind = "backup" ->
         \/ crossed
         \/ alerts <= 1 /\ (stamp # Never /\ ~report => unsent \/ alerts = 1)
=============================================================================
