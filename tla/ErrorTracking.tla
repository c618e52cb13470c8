---------------------------- MODULE ErrorTracking ----------------------------
(***************************************************************************)
(* Errors grouped by fingerprint, and the alerts they raise:               *)
(*   src/lib/errorTracking.ts      captureError                            *)
(*   src/routes/errors.ts          an administrator marks one as resolved  *)
(*   src/scheduler/maintenance.ts  resolved ones are pruned                *)
(*                                                                         *)
(* A unit of time is an hour; a capture ends within its hour.  What an     *)
(* error is called (redaction, normalisation, hash) is its fingerprint.    *)
(***************************************************************************)
EXTENDS Integers, FiniteSets

CONSTANTS
  Fingerprints, Client,  \* and those of them that come from browsers
  RealertAfter,          \* REALERT_AFTER_MS
  ClientMin,             \* CLIENT_ALERT_MIN_COUNT
  MaxAlerts,             \* MAX_ALERTS_PER_HOUR
  KeepFor,               \* 90 days
  MaxTime, MaxCount, MaxResolves  \* bounds of an instance

ErrorAssumption ==
  /\ IsFiniteSet(Fingerprints) /\ Client \subseteq Fingerprints
  /\ {RealertAfter, MaxAlerts, KeepFor, MaxTime, MaxCount} \subseteq Nat
  /\ KeepFor >= RealertAfter

Never == -1

VARIABLES
  now,
  row,       \* error_events
  deciding,  \* captures that have stamped their row and are to alert
  mails,     \* history: alerts that went out
  forgotten  \* history: stamps of this hour that were taken back

vars == <<now, row, deciding, mails, forgotten>>

NoRow == [count |-> 0, seen |-> 0, alerted |-> Never, resolved |-> FALSE, era |-> 0]

Init ==
  /\ now = 0
  /\ row = [f \in Fingerprints |-> NoRow]
  /\ deciding = {} /\ mails = {} /\ forgotten = 0

-----------------------------------------------------------------------------
(* The statement that inserts the row or counts it up.                     *)
Quiet(r) == r.alerted # Never /\ r.alerted >= now - RealertAfter
Loud(f, r) ==
  IF r.count = 0 THEN f \notin Client
  ELSE ~Quiet(r) /\ (f \in Client => r.count + 1 >= ClientMin)

(* Faulty variant of ShouldAlert, a slip the code has had: the stamp only  *)
(* looks recent.                                                           *)
LooksRecent(f, r) == Loud(f, r) \/ r.alerted = now

(* This statement has set the stamp.                                       *)
ShouldAlert(f, r) == Loud(f, r)

Capture(f) ==
  LET r == row[f] IN
  /\ r.count < MaxCount
  /\ row' = [row EXCEPT ![f] =
       [r EXCEPT !.count = r.count + 1, !.seen = now, !.resolved = FALSE,
                 !.alerted = IF Loud(f, r) THEN now ELSE r.alerted]]
  /\ deciding' = IF ShouldAlert(f, r)
                 THEN deciding \cup {[of |-> f, at |-> now, count |-> r.count + 1,
                                      era |-> r.era]}
                 ELSE deciding
  /\ UNCHANGED <<now, mails, forgotten>>

(* The ceiling of the hour, counted over the rows: a stamp counts whether  *)
(* or not its mail went out.                                               *)
Recent == {f \in Fingerprints : row[f].alerted > now - 1}
Alert(d) ==
  /\ deciding' = deciding \ {d}
  /\ mails' = IF Cardinality(Recent) > MaxAlerts THEN mails ELSE mails \cup {d}
  /\ UNCHANGED <<now, row, forgotten>>
AlertLost(d) ==
  /\ deciding' = deciding \ {d}
  /\ UNCHANGED <<now, row, mails, forgotten>>

(* PATCH /admin/errors/:id                                                 *)
Forgets(f) == forgotten' = forgotten + (IF row[f].alerted = now THEN 1 ELSE 0)
Resolve(f, done) ==
  /\ row[f].count > 0 /\ row[f].era < MaxResolves
  /\ row' = [row EXCEPT ![f] =
       [row[f] EXCEPT !.resolved = done, !.alerted = Never,
                      !.era = row[f].era + (IF row[f].alerted = Never THEN 0 ELSE 1)]]
  /\ Forgets(f)
  /\ UNCHANGED <<now, deciding, mails>>

(* runMaintenance                                                          *)
Prune(f) ==
  /\ row[f].resolved /\ row[f].seen < now - KeepFor
  /\ row' = [row EXCEPT ![f] = [NoRow EXCEPT !.era = row[f].era]]
  /\ UNCHANGED <<now, deciding, mails, forgotten>>

HourPasses ==
  /\ now < MaxTime /\ deciding = {}
  /\ now' = now + 1 /\ forgotten' = 0
  /\ UNCHANGED <<row, deciding, mails>>

Next ==
  \/ HourPasses
  \/ \E f \in Fingerprints :
       Capture(f) \/ Prune(f) \/ \E done \in BOOLEAN : Resolve(f, done)
  \/ \E d \in deciding : Alert(d) \/ AlertLost(d)

Spec == Init /\ [][Next]_vars

-----------------------------------------------------------------------------
TypeOK ==
  /\ now \in 0..MaxTime /\ \A d \in deciding : d.of \in Fingerprints /\ d.at = now
  /\ \A f \in Fingerprints :
       row[f].count \in 0..MaxCount /\ row[f].alerted \in Never..now

(* A fingerprint is quiet for its cooldown after an alert, unless an       *)
(* administrator handled it in between; an hour brings no more alerts than *)
(* the ceiling and the stamps that were taken back in it; and a browser's  *)
(* error is not mailed before it is widespread.                            *)
AlertsAreSpaced ==
  /\ \A m, n \in mails :
       m.of = n.of /\ m.era = n.era /\ m # n =>
         m.at > n.at + RealertAfter \/ n.at > m.at + RealertAfter
  /\ Cardinality({m \in mails : m.at = now}) <= MaxAlerts + forgotten
  /\ \A m \in mails : m.of \in Client => m.count >= ClientMin
=============================================================================
