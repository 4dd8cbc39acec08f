---------------------------- MODULE FeedMonitors ----------------------------
(***************************************************************************)
(* Three questions about the feeds, each answered from what is stored and  *)
(* asked at any time: which dates a feed is missing (monitoring/           *)
(* completeness.py, from Raw), which came after their deadline             *)
(* (monitoring/lateness.py, from the delivery registry), and where each    *)
(* feed stands on a date (monitoring/feed_status.py, from the registry).   *)
(*                                                                         *)
(* They only read, so each is an operator of the state.  The actions are   *)
(* what changes it: Transports that are received and fail, deliveries and  *)
(* their corrections, ingests, tables that cannot be read, and the trim of *)
(* Raw by its keep rules.                                                  *)
(***************************************************************************)
EXTENDS Clock, KeepRules, Sequences

CONSTANTS
  Daily, Weekly,     \* the feeds, by cadence; each has an expected_by of 07:00
  WeekOf,            \* per date, its ISO week; later dates in no earlier week
  MaxArrivals,       \* bound: deliveries of one feed for one date
  MaxHands           \* bound: Transports, late and second deliveries,
                     \* and tables that cannot be read

Feeds == Daily \union Weekly
Dates == DOMAIN MonthOf

ASSUME FeedMonitorsAssumptions ==
  /\ Daily \intersect Weekly = {}
  /\ IsFiniteSet(Dates) /\ WeekOf \in [Dates -> Nat]
  /\ \A d, e \in Dates : d <= e => WeekOf[d] <= WeekOf[e]
  /\ MaxArrivals \in Nat /\ MaxHands \in Nat

VARIABLES
  arrivals,      \* registry.delivery: per feed and date, whether each was past
                 \* the deadline when it arrived
  receipt,       \* transport_receipt: per feed and date, the latest's status
  committed,     \* registry.delivery_committed, as <<feed, date>>
  raw,           \* per feed, the dates of its raw table on main
  unreadable,    \* the feeds whose raw table cannot be read now
  hands

feedVars == <<arrivals, receipt, committed, raw, unreadable, hands>>

Hand == hands < MaxHands /\ hands' = hands + 1

(***************************************************************************)
(* What happens to the feeds.  A date's data exists once its day is over.  *)
(***************************************************************************)
Over(d) == Today > d

\* 07:00 of the next day, the end of that day's first tick.
PastDeadline(d) == now > (d + 1) * Day

Receive(f, d) ==
  /\ Over(d) /\ receipt[f, d] # "received" /\ Hand
  /\ receipt' = [receipt EXCEPT ![<<f, d>>] = "received"]
  /\ UNCHANGED <<arrivals, committed, raw, unreadable>>

Fail(f, d) ==
  /\ receipt[f, d] = "received"
  /\ receipt' = [receipt EXCEPT ![<<f, d>>] = "failed"]
  /\ UNCHANGED <<arrivals, committed, raw, unreadable, hands>>

Arrive(f, d) ==
  /\ Over(d) /\ Len(arrivals[f, d]) < MaxArrivals
  /\ IF arrivals[f, d] = <<>> /\ ~PastDeadline(d) THEN UNCHANGED hands ELSE Hand
  /\ arrivals' = [arrivals EXCEPT ![<<f, d>>] = Append(@, PastDeadline(d))]
  /\ UNCHANGED <<receipt, committed, raw, unreadable>>

Ingested(f, d) ==
  /\ arrivals[f, d] # <<>> /\ <<f, d>> \notin committed
  /\ committed' = committed \union {<<f, d>>}
  /\ raw' = [raw EXCEPT ![f] = @ \union {d}]
  /\ UNCHANGED <<arrivals, receipt, unreadable, hands>>

Break(f) ==
  /\ f \notin unreadable /\ Hand
  /\ unreadable' = unreadable \union {f}
  /\ UNCHANGED <<arrivals, receipt, committed, raw>>

Mend(f) ==
  /\ f \in unreadable
  /\ unreadable' = unreadable \ {f}
  /\ UNCHANGED <<arrivals, receipt, committed, raw, hands>>

\* Retention of the raw tables of F.
Trim(F) ==
  /\ raw' = [f \in Feeds |-> IF f \in F THEN KeepSet(raw[f]) ELSE raw[f]]
  /\ UNCHANGED <<arrivals, receipt, committed, unreadable, hands>>

\* What `past` names came in time and is in Raw.
FeedsInit(past) ==
  /\ arrivals = [fd \in Feeds \X Dates |-> IF fd \in past THEN <<FALSE>> ELSE <<>>]
  /\ receipt = [fd \in Feeds \X Dates |-> "none"]
  /\ committed = past /\ unreadable = {}
  /\ raw = [f \in Feeds |-> {d \in Dates : <<f, d>> \in past}]

(***************************************************************************)
(* Completeness.                                                           *)
(***************************************************************************)
\* An unreadable table says nothing about which days were business days.
Checked == Feeds \ unreadable
Calendar == UNION {raw[f] : f \in Checked}

\* Mutant of Window: every date there is.
Window_All == Calendar

\* The newest dates, as many as Raw keeps.
Window == Newest(Calendar, KeepDays)

\* Up to its own last date: a later one is late, not missing.
Expected(f) ==
  {d \in Window : \E a, b \in raw[f] : a <= d /\ d <= b}

Weeks(S) == {WeekOf[d] : d \in S}

\* The periods a feed is missing: dates, or ISO weeks.
Missing(f) ==
  CASE f \in Daily \intersect Checked -> Expected(f) \ raw[f]
    [] f \in Weekly \intersect Checked -> Weeks(Expected(f)) \ Weeks(raw[f])
    [] OTHER -> {}

Unreadable == Feeds \ Checked
NeverDelivered ==
  {f \in Checked : raw[f] = {} /\ \A d \in Dates : arrivals[f, d] = <<>>}

(***************************************************************************)
(* Lateness and the status page.                                           *)
(***************************************************************************)
\* By the first: a correction is not the original being late.
ArrivedLate(f, d) == arrivals[f, d] # <<>> /\ arrivals[f, d][1]

Delivered(f) == {d \in Dates : arrivals[f, d] # <<>>}
Late(f) == {d \in Newest(Delivered(f), KeepDays) : ArrivedLate(f, d)}

\* A weekly feed owes nothing in a week of which it has delivered a date.
IsExpected(f, d) == f \in Daily \/ WeekOf[d] \notin Weeks(Delivered(f))

\* Of a date nothing has been delivered for.
Awaited(f, d) ==
  CASE receipt[f, d] = "failed" -> "FAILED"
    [] receipt[f, d] = "received" -> "RECEIVED"
    [] receipt[f, d] = "none" -> IF PastDeadline(d) THEN "MISSING" ELSE "WAITING"

UnderWay(f, d) ==
  IF <<f, d>> \in committed THEN "COMPLETE"
  ELSE IF arrivals[f, d] # <<>> THEN "PROCESSING" ELSE Awaited(f, d)

\* Mutant of Status: a failed Transport is looked at first.
Status_FailedFirst(f, d) ==
  IF ~IsExpected(f, d) THEN "NOT_EXPECTED"
  ELSE IF receipt[f, d] = "failed" THEN "FAILED" ELSE UnderWay(f, d)

Status(f, d) == IF IsExpected(f, d) THEN UnderWay(f, d) ELSE "NOT_EXPECTED"
=============================================================================
