----------------------------- MODULE StatusPage -----------------------------
(***************************************************************************)
(* The public status page:                                                 *)
(*   src/lib/status.ts     the status of a component, the log the health   *)
(*                         poller keeps of it, daily bars and uptime       *)
(*   src/routes/status.ts  components set by hand, posts and their states  *)
(*                                                                         *)
(* A component is derived from the hosts ("compute"), or set by hand.  A   *)
(* tick of the poller reads all statuses and then writes them one by one.  *)
(* Time is counted in units; a day has DayLength of them.                  *)
(***************************************************************************)
EXTENDS Integers, FiniteSets, SequencesExt

CONSTANTS
  Components,          \* keys of status_components
  Compute,             \* the one that is derived from the hosts
  Hosts,
  Impacts, ByHand,     \* levels of incidents, levels an administrator sets
  Subjects,            \* sets of components that posts are about
  DayLength, Days,     \* units of a day, days of the page's history
  MaxTime, MaxPosts,
  MaxChanges           \* bounds of an instance: changes of hosts, hands, posts

StatusAssumption ==
  /\ Compute \in Components /\ IsFiniteSet(Hosts)
  /\ Impacts \cup ByHand \subseteq 0..4 /\ Subjects \subseteq SUBSET Components
  /\ DayLength \in Nat \ {0} /\ Days \in Nat \ {0} /\ MaxTime \in Nat

(* RANK                                                                    *)
Operational == 0
Maintenance == 1
Degraded == 2
PartialOutage == 3
MajorOutage == 4
Unset == -1

VARIABLES
  now,      \* the clock
  up,       \* hosts that are online or draining
  manual,   \* status_components.manual_status
  posts,    \* status_posts, deleted ones excepted
  log,      \* status_component_events, per component: a query is about one
  tick,     \* what the tick under way has read and has not yet recorded
  changes,  \* what MaxChanges leaves
  ticked,   \* a tick has begun in this unit
  shown,    \* history: the status last recorded, per component
  past      \* history: shown, per unit of time

vars == <<now, up, manual, posts, changes, log, tick, ticked, shown, past>>

Init ==
  /\ now = 0 /\ up = Hosts
  /\ manual = [c \in Components |-> Unset]
  /\ log = [c \in Components |-> <<>>] /\ tick = <<>>
  /\ posts = {} /\ changes = MaxChanges /\ ticked = FALSE
  /\ shown = [c \in Components |-> Operational] /\ past = <<>>

-----------------------------------------------------------------------------
(* worst, and the status of a component.                                   *)
Worst(levels) == Max(levels \cup {Operational})

DeriveCompute ==
  IF Hosts = {} \/ up = Hosts THEN Operational
  ELSE IF up = {} THEN MajorOutage ELSE Degraded

Effective(c) ==
  IF manual[c] # Unset THEN manual[c]
  ELSE IF c = Compute THEN DeriveCompute ELSE Operational

(* postLevel                                                               *)
PostLevel(p) ==
  CASE p.type = "maintenance"  -> Maintenance
    [] p.type = "announcement" -> Operational
    [] p.type = "incident"     -> p.impact

(* Posts that are shown as active: not over, and not only scheduled.       *)
Active == {p \in posts : p.till = Unset /\ p.state # "scheduled"}
Leaf(c) ==
  Worst({Effective(c)} \cup {PostLevel(p) : p \in {q \in Active : c \in q.keys}})
Entry(keys) == Worst({Leaf(c) : c \in keys})
Overall == Worst({Entry(Components)} \cup {PostLevel(p) : p \in Active})

-----------------------------------------------------------------------------
(* recordComponentStatuses                                                 *)
ReadStatuses ==
  /\ tick = <<>> /\ ~ticked /\ ticked' = TRUE
  /\ tick' = [c \in Components |-> Effective(c)]
  /\ UNCHANGED <<changes, now, up, manual, posts, log, shown, past>>

(* Faulty variant of Changed, a slip the code could have: a recovery is not *)
(* logged.                                                                 *)
ChangedForWorse(c) ==
  IF log[c] = <<>> THEN tick[c] # Operational ELSE Last(log[c]).level < tick[c]

(* The log of a component begins with its first impairment.                *)
Changed(c) ==
  IF log[c] = <<>> THEN tick[c] # Operational ELSE Last(log[c]).level # tick[c]
RecordOne(c) ==
  /\ c \in DOMAIN tick
  /\ log' = IF Changed(c)
            THEN [log EXCEPT ![c] = Append(@, [level |-> tick[c], at |-> now])]
            ELSE log
  /\ shown' = [shown EXCEPT ![c] = tick[c]]
  /\ tick' = [d \in DOMAIN tick \ {c} |-> tick[d]]
  /\ UNCHANGED <<changes, now, up, manual, posts, ticked, past>>

(* The hosts, and the hand of the administrator.                           *)
Passes == changes > 0 /\ changes' = changes - 1
HostChanges(h) ==
  /\ Passes /\ up' = IF h \in up THEN up \ {h} ELSE up \cup {h}
  /\ UNCHANGED <<now, manual, posts, log, tick, ticked, shown, past>>
SetManual(c, level) ==
  /\ Passes /\ manual' = [manual EXCEPT ![c] = level]
  /\ UNCHANGED <<now, up, posts, log, tick, ticked, shown, past>>

(* Posts; a new state settles anew whether and when the post is over.      *)
States(type) ==
  CASE type = "incident"     -> {"investigating", "resolved"}
    [] type = "maintenance"  -> {"scheduled", "in_progress", "completed"}
    [] type = "announcement" -> {"published"}
Ending(state) == IF state \in {"resolved", "completed"} THEN now ELSE Unset

Publish(type, impact, state, keys) ==
  /\ Passes /\ Cardinality(posts) < MaxPosts /\ state \in States(type)
  /\ posts' = posts \cup {[type |-> type, impact |-> impact, state |-> state,
                           keys |-> keys, from |-> now, till |-> Ending(state)]}
  /\ UNCHANGED <<now, up, manual, log, tick, ticked, shown, past>>
EditPost(p, impact, keys) ==
  /\ Passes /\ posts' = (posts \ {p}) \cup {[p EXCEPT !.impact = impact, !.keys = keys]}
  /\ UNCHANGED <<now, up, manual, log, tick, ticked, shown, past>>
MovePost(p, impact, keys, state) ==
  /\ Passes /\ state \in States(p.type)
  /\ posts' = (posts \ {p}) \cup {[p EXCEPT !.impact = impact, !.keys = keys,
                                          !.state = state, !.till = Ending(state)]}
  /\ UNCHANGED <<now, up, manual, log, tick, ticked, shown, past>>
DeletePost(p) ==
  /\ Passes /\ posts' = posts \ {p}
  /\ UNCHANGED <<now, up, manual, log, tick, ticked, shown, past>>

ClockTicks ==
  /\ now < MaxTime /\ now' = now + 1
  /\ past' = Append(past, shown) /\ ticked' = FALSE
  /\ UNCHANGED <<changes, up, manual, posts, log, tick, shown>>

Next ==
  \/ ReadStatuses \/ ClockTicks
  \/ \E c \in Components : RecordOne(c)
  \/ \E h \in Hosts : HostChanges(h)
  \/ \E c \in Components, level \in ByHand \cup {Unset} : SetManual(c, level)
  \/ \E type \in {"incident", "maintenance", "announcement"} :
       \E state \in States(type), impact \in Impacts, keys \in Subjects :
         Publish(type, impact, state, keys)
  \/ \E p \in posts :
       \/ DeletePost(p)
       \/ \E impact \in Impacts, keys \in Subjects :
            \/ EditPost(p, impact, keys)
            \/ \E state \in States(p.type) : MovePost(p, impact, keys, state)

Spec == Init /\ [][Next]_vars

-----------------------------------------------------------------------------
(* componentHistories: the page of the days that end with the day of       *)
(* `before'; an entry is a component, or a group of them.                  *)
WindowEnd(before) == (before \div DayLength + 1) * DayLength
WindowStart(before) == WindowEnd(before) - Days * DayLength
Smaller(a, b) == IF a < b THEN a ELSE b
Larger(a, b) == IF a < b THEN b ELSE a

(* The spans of posts and of the log, cut to the window.                   *)
Span(keys, from, till, level, before) ==
  [keys |-> keys, level |-> level, start |-> Larger(WindowStart(before), from),
   end |-> Smaller(WindowEnd(before), IF till = Unset THEN now ELSE till)]
PostSpans(before) ==
  {Span(p.keys, p.from, p.till, PostLevel(p), before) : p \in posts}
LogSpans(before) ==
  UNION {{Span({c}, log[c][i].at, IF i < Len(log[c]) THEN log[c][i + 1].at ELSE Unset,
               log[c][i].level, before) : i \in DOMAIN log[c]} : c \in Components}
Impairments(keys, before) ==
  {s \in PostSpans(before) \cup LogSpans(before) :
     s.level # Operational /\ s.start < s.end /\ s.keys \cap keys # {}}

(* The bar of day i of the window, the live status folded into today's.    *)
Bar(keys, before, i) ==
  LET dayStart == WindowStart(before) + i * DayLength
      dayEnd == dayStart + DayLength
      hit == {s \in Impairments(keys, before) : s.start < dayEnd /\ dayStart < s.end}
      today == dayStart <= now /\ now < dayEnd
  IN  Worst({s.level : s \in hit} \cup IF today THEN {Entry(keys)} ELSE {})

(* unionLength: spans in the order of their starts, the current one grows  *)
(* while the next begins inside it.                                        *)
UnionStep(acc, s) ==
  IF s.start > acc.end
  THEN [total |-> acc.total + acc.end - acc.start, start |-> s.start, end |-> s.end]
  ELSE [acc EXCEPT !.end = Larger(@, s.end)]
UnionLength(spans) ==
  LET n == Cardinality(spans)
      sorted == CHOOSE s \in [1..n -> spans] : \A i, j \in 1..n :
                  i < j => s[i] # s[j] /\ s[i].start <= s[j].start
      acc[i \in 0..n] == IF i = 0 THEN [total |-> 0, start |-> -1, end |-> -1]
                         ELSE UnionStep(acc[i - 1], sorted[i])
  IN  acc[n].total + acc[n].end - acc[n].start

Downtime(keys, before) ==
  UnionLength({[start |-> s.start, end |-> s.end] :
    s \in {r \in Impairments(keys, before) : r.level >= PartialOutage}})

-----------------------------------------------------------------------------
TypeOK ==
  /\ now \in 0..MaxTime /\ up \subseteq Hosts /\ Len(past) = now
  /\ \A p \in posts :
       p.state \in States(p.type) /\ (p.till # Unset => p.from <= p.till)
  /\ \A c \in Components : \A i \in 1..Len(log[c]) - 1 : log[c][i].at <= log[c][i + 1].at

(* What was wrong with one of the components in unit t: as a tick recorded *)
(* it, or as a post says.                                                  *)
WrongIn(keys, t) ==
  {past[t + 1][c] : c \in keys}
    \cup {PostLevel(p) : p \in {q \in posts :
            /\ q.keys \cap keys # {} /\ q.from <= t
            /\ t < IF q.till = Unset THEN now ELSE q.till}}

(* The page tells what happened, of components and of groups, whichever    *)
(* days are asked for: an uptime that counts each unit of an outage once,  *)
(* however many spans of the log and of posts cover it, and the worst      *)
(* level of each day.                                                      *)
HistoryIsTrue ==
  \A keys \in SUBSET Components \ {{}}, before \in 0..now :
    LET units == Larger(0, WindowStart(before))..Smaller(WindowEnd(before), now) - 1
    IN  /\ Downtime(keys, before) =
             Cardinality({t \in units : Worst(WrongIn(keys, t)) >= PartialOutage})
        /\ \A i \in 0..Days - 1 :
             LET first == WindowStart(before) + i * DayLength
                 day == first..first + DayLength - 1
             IN  Bar(keys, before, i) =
                   Worst((UNION {WrongIn(keys, t) : t \in day \cap units})
                         \cup IF now \in day THEN {Entry(keys)} ELSE {})
=============================================================================
