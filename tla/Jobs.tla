-------------------------------- MODULE Jobs --------------------------------
(***************************************************************************)
(* The console's background builds: ui/jobs.py and ui/feedtest.py.  A job  *)
(* is a thread of the console that opens a branch, runs dbt as a process   *)
(* tree of its own group, reads its output to the end and deletes the      *)
(* branch.  A deadline's timer and a cancel request may each stop it.      *)
(***************************************************************************)
EXTENDS Integers, FiniteSets

CONSTANTS
  Builds,     \* the jobs that may be started
  Trees,      \* of processes: which of "leader" and "rest" ignore SIGTERM,
              \* and whether the rest may outlive its leader
  MaxBuilds,  \* bound: builds asked for
  MaxBroken   \* bound: calls of a job that raise

ASSUME JobAssumptions ==
  /\ Trees \subseteq [deaf : SUBSET {"leader", "rest"}, lingers : BOOLEAN]
  /\ MaxBuilds \in Nat /\ MaxBroken \in Nat

Stoppers == {"timeout", "cancel"}

VARIABLES
  job,      \* [status, stage, tree, code, stopped] of each job
  alive,    \* the processes of its tree that hold its output
  attached, \* jobs whose process stop() can see
  timer,    \* jobs whose deadline is armed
  signal,   \* where each stopper of a job is
  branch,   \* jobs whose branch exists
  asked,    \* builds asked for so far
  broken

jobVars == <<job, alive, attached, timer, signal, branch, asked, broken>>

NoTree == [deaf |-> {}, lingers |-> FALSE]
NoJob == [status |-> "none", stage |-> "none", tree |-> NoTree, code |-> 0,
          stopped |-> "no"]
Running(j) == job[j].status = "running"
At(j, s) == Running(j) /\ job[j].stage = s
Move(j, s) == job' = [job EXCEPT ![j].stage = s]
End(j, result) == job' = [job EXCEPT ![j].status = result, ![j].stage = "ended"]
NoSignal == [w \in Stoppers |-> "none"]

(***************************************************************************)
(* jobs.start: is another job running? then register this one.             *)
(***************************************************************************)
Ask(j) ==
  /\ job[j] = NoJob
  /\ \A i \in Builds : ~Running(i)
  /\ asked < MaxBuilds /\ asked' = asked + 1
  /\ Move(j, "asked")
  /\ UNCHANGED <<alive, attached, timer, signal, branch, broken>>

Register(j) ==
  /\ job[j].stage = "asked"
  /\ job' = [job EXCEPT ![j].status = "running", ![j].stage = "open"]
  /\ UNCHANGED <<alive, attached, timer, signal, branch, asked, broken>>

(***************************************************************************)
(* feedtest's target, on the job's own thread.                             *)
(***************************************************************************)
OpenBranch(j) ==
  /\ At(j, "open")
  /\ branch' = branch \union {j}
  /\ Move(j, "spawn")
  /\ UNCHANGED <<alive, attached, timer, signal, asked, broken>>

OpenBranchFails(j) ==
  /\ At(j, "open") /\ broken < MaxBroken
  /\ broken' = broken + 1
  /\ End(j, "failed")
  /\ UNCHANGED <<alive, attached, timer, signal, branch, asked>>

Spawn(j) ==
  /\ At(j, "spawn")
  /\ \E t \in Trees :
       job' = [job EXCEPT ![j].tree = t, ![j].stage = "attach", ![j].code = 1]
  /\ alive' = [alive EXCEPT ![j] = {"leader", "rest"}]
  /\ UNCHANGED <<attached, timer, signal, branch, asked, broken>>

\* Mutant of Attach: a job with no deadline.
Attach_NoDeadline(j) ==
  /\ At(j, "attach")
  /\ attached' = attached \union {j}
  /\ Move(j, "read")
  /\ UNCHANGED <<alive, timer, signal, branch, asked, broken>>

\* stop() can see the process, and the deadline runs.
Attach(j) ==
  /\ At(j, "attach")
  /\ attached' = attached \union {j}
  /\ timer' = timer \union {j}
  /\ Move(j, "read")
  /\ UNCHANGED <<alive, signal, branch, asked, broken>>

\* The output ends when nobody holds it any more.
OutputEnds(j) ==
  /\ At(j, "read") /\ alive[j] = {}
  /\ attached' = attached \ {j} /\ timer' = timer \ {j}
  /\ Move(j, IF job[j].code = 0 THEN "close" ELSE "raise")
  /\ UNCHANGED <<alive, signal, branch, asked, broken>>

DeleteBranch(j) ==
  /\ At(j, "close")
  /\ branch' = branch \ {j}
  /\ End(j, "success")
  /\ UNCHANGED <<alive, attached, timer, signal, asked, broken>>

\* Logged; the job is a success all the same.
DeleteBranchFails(j) ==
  /\ At(j, "close") /\ broken < MaxBroken
  /\ broken' = broken + 1
  /\ End(j, "success")
  /\ UNCHANGED <<alive, attached, timer, signal, branch, asked>>

BuildFailed(j) ==
  /\ At(j, "raise")
  /\ End(j, "failed")
  /\ UNCHANGED <<alive, attached, timer, signal, branch, asked, broken>>

(***************************************************************************)
(* dbt itself: it may end, or never.                                       *)
(***************************************************************************)
Exit(j, code) ==
  /\ "leader" \in alive[j]
  /\ job' = [job EXCEPT ![j].code = code]
  /\ alive' = [alive EXCEPT ![j] =
                 IF job[j].tree.lingers THEN @ \ {"leader"} ELSE {}]
  /\ UNCHANGED <<attached, timer, signal, branch, asked, broken>>

(***************************************************************************)
(* Job.stop and _signal_group, on the stopper's thread.                    *)
(***************************************************************************)
Stop(j, why) ==
  IF j \in attached /\ "leader" \in alive[j]
  THEN /\ job' = [job EXCEPT ![j].stopped = why]
       /\ signal' = [signal EXCEPT ![j][why] = "term"]
  ELSE UNCHANGED <<job, signal>>

Deadline(j) ==
  /\ j \in timer
  /\ timer' = timer \ {j}
  /\ Stop(j, "timeout")
  /\ UNCHANGED <<alive, attached, branch, asked, broken>>

\* (One request at a time stops a job.)
Cancel(j) ==
  /\ Running(j) /\ signal[j]["cancel"] = "none"
  /\ Stop(j, "cancel")
  /\ UNCHANGED <<alive, attached, timer, branch, asked, broken>>

Terminate(j, why) ==
  /\ signal[j][why] = "term"
  /\ alive' = [alive EXCEPT ![j] = @ \intersect job[j].tree.deaf]
  /\ signal' = [signal EXCEPT ![j][why] = "wait"]
  /\ UNCHANGED <<job, attached, timer, branch, asked, broken>>

\* What is left is killed if the leader outlived its grace, and only then.
Kill(j, why) ==
  /\ signal[j][why] = "wait"
  /\ signal' = [signal EXCEPT ![j][why] = "none"]
  /\ alive' = IF "leader" \in alive[j] THEN [alive EXCEPT ![j] = {}] ELSE alive
  /\ UNCHANGED <<job, attached, timer, branch, asked, broken>>

JobsInit ==
  /\ job = [j \in Builds |-> NoJob]
  /\ alive = [j \in Builds |-> {}]
  /\ attached = {} /\ timer = {}
  /\ signal = [j \in Builds |-> NoSignal]
  /\ branch = {} /\ broken = 0

\* The console's own steps; a restart of its container ends them all.
Thread(j) ==
  \/ Register(j)
  \/ OpenBranch(j) \/ OpenBranchFails(j)
  \/ Spawn(j) \/ Attach(j) \/ OutputEnds(j)
  \/ DeleteBranch(j) \/ DeleteBranchFails(j) \/ BuildFailed(j)

Stopper(j) ==
  \/ Deadline(j)
  \/ \E why \in Stoppers : Terminate(j, why) \/ Kill(j, why)

Killed ==
  /\ job' = [j \in Builds |-> NoJob]
  /\ alive' = [j \in Builds |-> {}]
  /\ attached' = {} /\ timer' = {}
  /\ signal' = [j \in Builds |-> NoSignal]
  /\ UNCHANGED <<branch, asked, broken>>
=============================================================================
