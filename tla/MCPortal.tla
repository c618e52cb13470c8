------------------------------ MODULE MCPortal ------------------------------
(* The portal around the scheduler for TLC: instances of Membership,       *)
(* Sessions, TwoFactor, Links, DeviceLogin, Tunnel, StatusPage,            *)
(* ErrorTracking, Notices and Placement side by side.  They share no       *)
(* state; a behaviour follows one of them.                                 *)
EXTENDS Membership, Sequences, TLC

CONSTANTS
  MaxTime, MaxSessions,
  Codes, MaxStep, MaxSecrets,
  Tokens, Mailboxes, Home, Types,
  ApiTokens,
  Clients, MaxTunnels, MaxPending, MaxMessages,
  Components, Compute, Hosts, Impacts, ByHand, Subjects,
  DayLength, Days, Units, MaxPosts, MaxChanges,
  Fingerprints, Client, RealertAfter, ClientMin, MaxAlerts, KeepFor, Hours,
  MaxCount, MaxResolves,
  Trial, Cooldown, BackupStale, LastDay, MaxMails,
  Names, CpuTotal, Sizes, Loads, UsageStale

VARIABLES
  focus,
  now, cutoff, sessions, sTask, unrevoked,
  step, secret, enabled, last, left, fTask, minted, proven, accepted, marks,
  links, email, pending, verified, lTask, used, provenAt, latest, crossed,
  status, team, expired, poll, token, lost,
  active, socket, relay, tcp, waiting, sent, got,
  time, up, manual, posts, log, tick, changes, ticked, shown, past,
  hour, error, deciding, alerted, forgotten,
  kind, day, entitled, stamp, lastOk, sweep, report, mails, unstamped,
  alerts, unsent, met,
  cpu, busy, age, known

sVars == <<now, cutoff, sessions, sTask, unrevoked>>
fVars == <<step, secret, enabled, last, left, fTask, minted, proven, accepted, marks>>
lVars == <<links, email, pending, verified, lTask, used, provenAt, latest, crossed>>
dVars == <<status, team, expired, poll, token, lost>>
tVars == <<active, socket, relay, tcp, waiting, sent, got>>
pVars == <<time, up, manual, posts, log, tick, changes, ticked, shown, past>>
eVars == <<hour, error, deciding, alerted, forgotten>>
nVars == <<kind, day, entitled, stamp, lastOk, sweep, report, mails,
           unstamped, alerts, unsent, met>>
hVars == <<cpu, busy, age, known>>

S == INSTANCE Sessions WITH Tasks <- Handlers, task <- sTask
F == INSTANCE TwoFactor WITH Tasks <- Handlers, task <- fTask
L == INSTANCE Links WITH Tasks <- Handlers, task <- lTask, proven <- provenAt
D == INSTANCE DeviceLogin WITH Polls <- Handlers, Tokens <- ApiTokens
T == INSTANCE Tunnel WITH pending <- waiting
P == INSTANCE StatusPage WITH now <- time, MaxTime <- Units
E == INSTANCE ErrorTracking WITH now <- hour, row <- error, mails <- alerted,
       MaxTime <- Hours
N == INSTANCE Notices WITH now <- day, crossed <- met,
       StaleAfter <- BackupStale, MaxTime <- LastDay
H == INSTANCE Placement WITH used <- cpu, StaleAfter <- UsageStale

(* What a tunnel is to its client.                                         *)
InUse == {c \in Clients : relay[c] \in {"connecting", "piping"}}
Finished == {c \in Clients : relay[c] = "closed"}
Stream == [c \in Clients |-> got[c] \o waiting[c]]
Through == [c \in Clients |-> Len(got[c])]
W == INSTANCE Channel WITH Limit <- MaxTunnels, live <- InUse, over <- Finished,
       stream <- Stream, through <- Through

ASSUME InstanceAssumptions ==
  /\ S!SessionsAssumption /\ F!TwoFactorAssumption /\ L!LinksAssumption
  /\ D!DeviceAssumption /\ T!TunnelAssumption /\ P!StatusAssumption
  /\ E!ErrorAssumption /\ N!NoticesAssumption /\ H!PlacementAssumption

(* The accounts start with one user; the inputs of the other instances     *)
(* vary only where they are followed.                                      *)
MCInit ==
  /\ Init /\ S!Init /\ F!Init /\ L!Init /\ D!Init
  /\ T!Init /\ P!Init /\ E!Init /\ N!Init /\ H!Init
  /\ focus \in {"team", "session", "factor", "link", "device",
                "tunnel", "page", "error", "notice", "host"}
  /\ focus # "team" =>
       /\ acct = [u \in Users |-> IF u = CHOOSE v \in Users : TRUE
                                  THEN "verified" ELSE "absent"]
       /\ tier[CHOOSE t \in Teams : TRUE] = "free"
       /\ \A i \in Invites : invite[i] = NoInvite
  /\ focus # "notice" => kind = "trial" /\ entitled
  /\ focus # "host" => \A n \in Names : cpu[n] = 0

FollowTeam    == focus = "team" /\ Next
  /\ UNCHANGED <<sVars, fVars, lVars, dVars, tVars, pVars, eVars, nVars, hVars>>
FollowSession == focus = "session" /\ S!Next
  /\ UNCHANGED <<vars, fVars, lVars, dVars, tVars, pVars, eVars, nVars, hVars>>
FollowFactor  == focus = "factor" /\ F!Next
  /\ UNCHANGED <<vars, sVars, lVars, dVars, tVars, pVars, eVars, nVars, hVars>>
FollowLink    == focus = "link" /\ L!Next
  /\ UNCHANGED <<vars, sVars, fVars, dVars, tVars, pVars, eVars, nVars, hVars>>
FollowDevice  == focus = "device" /\ D!Next
  /\ UNCHANGED <<vars, sVars, fVars, lVars, tVars, pVars, eVars, nVars, hVars>>
FollowTunnel  == focus = "tunnel" /\ T!Next
  /\ UNCHANGED <<vars, sVars, fVars, lVars, dVars, pVars, eVars, nVars, hVars>>
FollowPage    == focus = "page" /\ P!Next
  /\ UNCHANGED <<vars, sVars, fVars, lVars, dVars, tVars, eVars, nVars, hVars>>
FollowErrors  == focus = "error" /\ E!Next
  /\ UNCHANGED <<vars, sVars, fVars, lVars, dVars, tVars, pVars, nVars, hVars>>
FollowNotices == focus = "notice" /\ N!Next
  /\ UNCHANGED <<vars, sVars, fVars, lVars, dVars, tVars, pVars, eVars, hVars>>
FollowHosts   == focus = "host" /\ H!Next
  /\ UNCHANGED <<vars, sVars, fVars, lVars, dVars, tVars, pVars, eVars, nVars>>

MCNext ==
  /\ \/ FollowTeam \/ FollowSession \/ FollowFactor \/ FollowLink \/ FollowDevice
     \/ FollowTunnel \/ FollowPage \/ FollowErrors \/ FollowNotices \/ FollowHosts
  /\ UNCHANGED focus

MCSpec ==
  MCInit /\ [][MCNext]_<<focus, vars, sVars, fVars, lVars, dVars, tVars, pVars,
                         eVars, nVars, hVars>>

Symmetry ==
  Permutations(Users) \cup Permutations(Teams) \cup Permutations(Handlers)

-----------------------------------------------------------------------------
(* The properties of the modules, each about the instance that moves.      *)
TypesOK ==
  CASE focus = "team"    -> TypeOK
    [] focus = "session" -> S!TypeOK
    [] focus = "factor"  -> F!TypeOK
    [] focus = "link"    -> L!TypeOK
    [] focus = "device"  -> D!TypeOK
    [] focus = "tunnel"  -> T!TypeOK
    [] focus = "page"    -> P!TypeOK
    [] focus = "error"   -> E!TypeOK
    [] focus = "notice"  -> N!TypeOK
    [] focus = "host"    -> H!TypeOK

(* A session that is still accepted rests on the credentials of today,     *)
(* with the exceptions named in Sessions.                                  *)
CutOffHolds == focus = "session" => S!CutOffHolds

(* No code of the authenticator signs in twice, unless steps were written  *)
(* over ones that had not been read.                                       *)
CodesSignInOnce == focus = "factor" => F!CodesSignInOnce

(* A second factor in force has been confirmed by a code of its secret,    *)
(* unless a setup or an enrolment wrote over what it had not read.         *)
SecretIsConfirmed == focus = "factor" => F!SecretIsConfirmed

(* A one-time link that works is unused and the latest of its type, unless *)
(* two requests for such links crossed.                                    *)
LatestLinkWorks == focus = "link" => L!LatestLinkWorks

(* The address of an account is one whose mailbox has proved it, unless    *)
(* changes of address crossed or broke off.                                *)
AddressIsProven == focus = "link" => L!AddressIsProven

(* A device code is worth one token, of the team that approved it.         *)
OneTokenPerCode == focus = "device" => D!OneTokenPerCode

(* Relays are counted while they live, closed at both ends, and deliver in *)
(* order.                                                                  *)
RelayIsFaithful == focus = "tunnel" => T!RelayIsFaithful

(* Whatever the order of the callbacks, a tunnel is a channel: one of at    *)
(* most MaxTunnels, begun once, first in first out, and silent once over.  *)
TunnelIsAChannel == W!Spec

(* The bars and the uptime of the status page tell what happened.          *)
HistoryIsTrue == focus = "page" => P!HistoryIsTrue

(* Alerts about errors keep their cooldown, their ceiling and their floor. *)
AlertsAreSpaced == focus = "error" => E!AlertsAreSpaced

(* One mail per milestone and cooldown, one alert per missing backup.      *)
NoticesAreCounted == focus = "notice" => N!NoticesAreCounted

(* The ranking of the hosts follows today's evidence of their load.        *)
LeastLoadedFirst == focus = "host" => H!LeastLoadedFirst
=============================================================================
