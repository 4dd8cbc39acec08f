----------------------------- MODULE Monitoring -----------------------------
(***************************************************************************)
(* The monitors beside what they watch: feeds that deliver, and the        *)
(* nightly run, whose trim of Raw is what the completeness check must not  *)
(* take for a gap.                                                         *)
(***************************************************************************)
EXTENDS FeedMonitors, Watchdog

CONSTANTS
  Start,       \* bound: the night time starts at
  Scenarios    \* bounds: what of the budgets is spent, which dates come, what
               \* has come already, and the review window and age of the platform

VARIABLE coming      \* the dates whose data may arrive

vars == <<now, feedVars, watchVars, coming>>

ASSUME MonitoringAssumptions ==
  /\ Start \in 0 .. MaxTick /\ Start % Day = Day - 1
  /\ \A s \in Scenarios :
       /\ s.hands \in 0 .. MaxHands /\ s.faults \in 0 .. MaxFaults /\ s.coming \subseteq Dates
       /\ s.past \subseteq Feeds \X {d \in Dates : d < DayOf(Start)}
       /\ s.review \in ReviewWindows /\ s.fresh \in BOOLEAN

Init ==
  /\ now = Start
  /\ \E s \in Scenarios : /\ hands = s.hands /\ faults = s.faults /\ review = s.review
                          /\ coming = s.coming /\ FeedsInit(s.past) /\ WatchInit(s.fresh)

FeedStep ==
  \/ \E f \in Feeds, d \in coming :
       Receive(f, d) \/ Fail(f, d) \/ Arrive(f, d) \/ Ingested(f, d)
  \/ coming # {} /\ \E f \in Feeds : Break(f) \/ Mend(f)

NightStep ==
  \/ StartRun \/ RunFails \/ Wedge \/ Unwedge \/ Sweep \/ DeferredDeletes \/ Report
  \/ Migrated \/ Parsed \/ Unparsed \/ TablesLost \/ Pause \/ Unpause
  \/ \E db \in {"metadata", "gc"} : Outage(db) \/ Restored(db)

TrimStep == \E F \in SUBSET Feeds : Trim(F) /\ TablesTrimmed(F = Feeds)

Tick == MayPass /\ Passes

Next ==
  \/ FeedStep /\ UNCHANGED <<now, watchVars, coming>>
  \/ NightStep /\ UNCHANGED <<now, feedVars, coming>>
  \/ TrimStep /\ UNCHANGED <<now, coming>>
  \/ Tick /\ UNCHANGED <<feedVars, watchVars, coming>>

Spec == Init /\ [][Next]_vars

(***************************************************************************)
(* Properties.                                                             *)
(***************************************************************************)
Alerting == Alerts # {}

\* Types of the state; only what was committed is in Raw.
TypeOK ==
  /\ now \in 0 .. MaxTick /\ coming \subseteq Dates
  /\ arrivals \in [Feeds \X Dates -> Seq(BOOLEAN)]
  /\ receipt \in [Feeds \X Dates -> {"none", "received", "failed"}]
  /\ committed \subseteq Feeds \X Dates
  /\ raw \in [Feeds -> SUBSET Dates] /\ \A f \in Feeds : {f} \X raw[f] \subseteq committed
  /\ unreadable \subseteq Feeds /\ hands \in 0 .. MaxHands
  /\ run \in [pc : {"none", "sweep", "deletes", "rows", "report"}, night : Nat, start : 0 .. now,
              stuck : BOOLEAN, error : BOOLEAN]
  /\ lastSuccess \in 0 .. now \union {NotYet} /\ recorded \subseteq 0 .. now
  /\ listing \in {"no_schema", "absent", "inactive", "active"}
  /\ tables \in BOOLEAN /\ review \in ReviewWindows
  /\ paused \in BOOLEAN /\ down \subseteq {"metadata", "gc"} /\ faults \in 0 .. MaxFaults

Never(f, d) == <<f, d>> \notin committed

\* What the completeness check calls missing was never ingested: not a date
\* that retention has expired, whichever tables can be read and wherever the
\* night's trim has got to (completeness.find_gaps, run's lookback).
GapsAreReal ==
  \A f \in Feeds : \A x \in Missing(f) :
    \A d \in Dates : (IF f \in Daily THEN d = x ELSE WeekOf[d] = x) => Never(f, d)

Settled == {"PROCESSING", "COMPLETE"}

Stands(f, d) ==
  /\ Status(f, d) = "COMPLETE" => Status(f, d)' = "COMPLETE"
  /\ Status(f, d) \in Settled => Status(f, d)' \in Settled
  /\ Status(f, d) \in {"RECEIVED", "FAILED"} => Status(f, d)' \notin {"WAITING", "MISSING"}
  /\ d \in Delivered(f) /\ ~ArrivedLate(f, d) => (d \notin Late(f))'

\* What the monitors have said of a feed's date in its favour stands: complete
\* stays complete, what has arrived is not WAITING, MISSING or FAILED again,
\* and what came in time is never late, whatever Transports and corrections
\* follow (feed_status.status_of, lateness.run).
VerdictsStand == [][\A f \in Daily, d \in Dates : Stands(f, d)]_vars

\* A date that has been delivered is shown as such, which the status page does
\* not do for a weekly feed.
DeliveredIsShown == \A f \in Feeds : \A d \in Delivered(f) : Status(f, d) \in Settled

\* While the watchdog raises no alert, no file has been awaiting deletion for
\* longer than the review window and the age it allows the last success:
\* however the nights fail, the two checks leave no silence between them
\* (watchdog.check_orchestrator, check_deferred_backlog).
SilenceMeansReclaimed ==
  Alerting \/ \A t \in recorded : now - t <= review + MaxAgeTicks

\* Where nothing has gone wrong, a platform that has yet to succeed is told
\* nothing else; and once a night has succeeded the only alert left is of files
\* that came of age while the last such night was at work, whatever the review
\* window.  Of the two instants that check_deferred_backlog compares one is the
\* run's end, so that files which its pass met too young count as left behind.
AlarmsAreEarned ==
  faults = 0 =>
    /\ Alerts \subseteq IF Succeeded THEN {"deferred_backlog"}
                         ELSE {"dag_present", "dag_paused", "housekeeping_freshness"}
    /\ \A t \in Overdue : t + review \in (lastSuccess - RunTicks) .. lastSuccess

\* A platform where nothing has gone wrong is told nothing once a night has
\* succeeded, which a window of whole nights does not give.
QuietWhenWell == faults = 0 /\ Succeeded => ~Alerting
=============================================================================
