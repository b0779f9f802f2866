---------------------------- MODULE BudgetGuard ----------------------------
(***************************************************************************)
(* The guard of one job (crates/rs_cam_core/src/budget/guard.rs): a cancel *)
(* flag that anybody may set, a reason that is written once, the watch     *)
(* thread that probes the memory of the process, the threads of the        *)
(* algorithm that may poll the guard themselves, and the three programs    *)
(* that read the reason: the two heavy lanes of the GUI, which join the    *)
(* watcher first (compute/worker.rs), and the command line's walk of a     *)
(* generation plan, which reads it while the watcher still runs            *)
(* (rs_cam_cli/project.rs).                                                *)
(*                                                                         *)
(* The guard of an analysis job owns the lane's own cancel flag, and the   *)
(* lane asks for the reason first.  The guard of a toolpath job owns the   *)
(* job's flag; the lane has another one, which it asks before the reason,  *)
(* and a cancel stores both, the lane's first.                             *)
(*                                                                         *)
(* A reading is what the stop rule makes of it: under or over the limit,   *)
(* or unknown.  The rate limit of a poll only decides whether it probes.   *)
(***************************************************************************)
EXTENDS Naturals

CONSTANTS
  Watcher,    \* the thread of BudgetGuard::watch
  Pollers,    \* the threads of an algorithm that calls BudgetGuard::poll
  Surfaces,   \* which of the three programs run the job
  MaxSteps,   \* bound of the model: steps of a walk
  None        \* Option::None

Probers == {Watcher} \cup Pollers

\* What a job, or a step of a walk, returns.
Answers == {"ok", "error", "cancelled"}

ASSUME ThreadsAssumption  == Watcher \notin Pollers
ASSUME SurfacesAssumption == Surfaces \subseteq {"toolpath", "analysis", "cli"}
ASSUME StepsAssumption    == MaxSteps \in Nat \ {0}
ASSUME NoneAssumption     == None \notin {"user", "over", "budget", "failed", "finished"} \cup Answers

Levels == {"under", "over", "unknown"}
Steps  == {"generate", "simulate"}

VARIABLES
  surface,  \* the program that runs the job
  hands,    \* the pollers this job has
  limited,  \* MemoryBudget::is_limited
  used,     \* what the probe would read now
  flag,     \* BudgetGuard::flag
  reason,   \* BudgetGuard::reason
  armed,    \* BudgetGuard::armed
  done,     \* BudgetWatch::done
  loc,      \* where each prober is in probe_now
  found,    \* was_set: what each prober's flag swap returned
  plan,     \* the steps of the walk; a lane's job is one step
  step,     \* the step that runs
  pc,       \* "working", "asking" for the reason, "dropping" the watch, "ended"
  laneFlag, \* LaneQueue::cancel of the toolpath lane; the analysis lane's is flag
  telling,  \* a cancel has stored laneFlag and not yet the job's flag
  answer,   \* what the job of a lane returned
  verdict,  \* what the program reports
  \* History:
  owner     \* whose write of true to the flag was the first

jobVars   == <<surface, hands, limited, plan>>
guardVars == <<flag, reason, armed, owner>>
walkVars  == <<step, pc, answer, verdict, done>>
laneVars  == <<laneFlag, telling>>
vars == <<jobVars, guardVars, walkVars, laneVars, used, loc, found>>

-----------------------------------------------------------------------------

\* A heavy lane of the GUI runs the job.
OnLane == surface # "cli"

Plans == UNION {[1..n -> Steps] : n \in 1..MaxSteps}

\* A guard with no limit starts no watcher, and the spawn of one may fail.
Init ==
  /\ surface \in Surfaces
  /\ hands \in SUBSET Pollers
  /\ limited \in BOOLEAN
  /\ plan \in CASE surface = "toolpath" -> {[i \in {1} |-> "generate"]}
               [] surface = "analysis" -> {[i \in {1} |-> "simulate"]}
               [] surface = "cli"      -> Plans
  /\ used \in Levels
  /\ flag = FALSE /\ reason = None /\ armed = FALSE /\ owner = None
  /\ loc \in [Probers -> {"idle", "exited"}]
  /\ \A t \in Pollers : loc[t] = "idle"
  /\ ~ limited => loc[Watcher] = "exited"
  /\ found = [t \in Probers |-> FALSE]
  /\ done = FALSE
  /\ laneFlag = FALSE /\ telling = FALSE
  /\ step = 1 /\ pc = "working" /\ answer = None /\ verdict = None

\* The memory of the whole process moves: other jobs hold and free it too.
UsageMoves ==
  /\ pc # "ended"
  /\ used' \in Levels \ {used}
  /\ UNCHANGED <<jobVars, guardVars, walkVars, laneVars, loc, found>>

\* A cancel is a plain store of the flag, which knows nothing of the guard.
StoreFlag ==
  /\ flag' = TRUE
  /\ owner' = IF flag THEN owner ELSE "user"

\* The operator's cancel button, or a resubmit, of a simulation or a collision
\* check: the lane's flag is the guard's.  The command line has no such button.
CancelAnalysis ==
  /\ surface = "analysis" /\ pc # "ended"
  /\ StoreFlag
  /\ UNCHANGED <<jobVars, reason, armed, walkVars, laneVars, used, loc, found>>

\* The same of a toolpath job: two stores under the lane's mutex, which the
\* worker reads without it.
CancelToolpath ==
  /\ surface = "toolpath" /\ pc # "ended" /\ ~ telling
  /\ laneFlag' = TRUE /\ telling' = TRUE
  /\ UNCHANGED <<jobVars, guardVars, walkVars, used, loc, found>>

\* The second store; the job may have given its verdict, but the mutex keeps it
\* from forgetting the flag.
CancelToolpathJob ==
  /\ telling
  /\ telling' = FALSE
  /\ StoreFlag
  /\ UNCHANGED <<jobVars, reason, armed, walkVars, laneFlag, used, loc, found>>

Cancel == CancelAnalysis \/ CancelToolpath \/ CancelToolpathJob

-----------------------------------------------------------------------------
(* probe_now, by the watcher or by a polling thread of the job *)

Go(t, to) == loc' = [loc EXCEPT ![t] = to]

\* Where a probe that answers "stop" leaves its thread.
Stopped(t) == IF t = Watcher THEN "exited" ELSE "idle"

\* Mutant: the loop never looks at its own done flag.
WatchesForever(t) == FALSE

\* The watch loop reads done before every probe.
SeesDone(t) == t = Watcher /\ done

\* The first load of the flag.  A poll happens only in a step of the job, and
\* probes only when there is a limit and its rate limit allows.
LoadFlag(t) ==
  /\ loc[t] = "idle"
  /\ t \in Pollers => t \in hands /\ pc = "working" /\ (flag \/ limited)
  /\ Go(t, IF SeesDone(t) THEN "exited" ELSE IF flag THEN Stopped(t) ELSE "reading")
  /\ UNCHANGED <<jobVars, guardVars, walkVars, laneVars, used, found>>

\* The reading is taken, and is acted on later.
ReadUsage(t) ==
  /\ loc[t] = "reading"
  /\ Go(t, CASE used = "under" -> "arming" [] used = "over" -> "judging"
             [] used = "unknown" -> "answering")
  /\ UNCHANGED <<jobVars, guardVars, walkVars, laneVars, used, found>>

Arm(t) ==
  /\ loc[t] = "arming"
  /\ armed' = TRUE
  /\ Go(t, "answering")
  /\ UNCHANGED <<jobVars, flag, reason, owner, walkVars, laneVars, used, found>>

\* A reading over the limit stops the job only when the guard is armed.
Judge(t) ==
  /\ loc[t] = "judging"
  /\ Go(t, IF armed THEN "stopping" ELSE "answering")
  /\ UNCHANGED <<jobVars, guardVars, walkVars, laneVars, used, found>>

\* Mutant: the swap's answer is not looked at.
SwapBlind(t) ==
  /\ loc[t] = "stopping"
  /\ flag' = TRUE
  /\ owner' = IF flag THEN owner ELSE "budget"
  /\ found' = [found EXCEPT ![t] = FALSE]
  /\ Go(t, "recording")
  /\ UNCHANGED <<jobVars, reason, armed, walkVars, laneVars, used>>

\* stop, first half: the swap orders the writers of the flag.
Swap(t) ==
  /\ loc[t] = "stopping"
  /\ flag' = TRUE
  /\ owner' = IF flag THEN owner ELSE "budget"
  /\ found' = [found EXCEPT ![t] = flag]
  /\ Go(t, "recording")
  /\ UNCHANGED <<jobVars, reason, armed, walkVars, laneVars, used>>

\* stop, second half: the reason is written once.
Record(t) ==
  /\ loc[t] = "recording"
  /\ reason' = IF reason # None THEN reason ELSE IF found[t] THEN "user" ELSE "over"
  /\ Go(t, "answering")
  /\ UNCHANGED <<jobVars, flag, armed, owner, walkVars, laneVars, used, found>>

\* Mutant: the watcher ends after its first probe.
AnswersOnce(t) ==
  /\ loc[t] = "answering"
  /\ Go(t, Stopped(t))
  /\ UNCHANGED <<jobVars, guardVars, walkVars, laneVars, used, found>>

\* probe_now returns the flag; the watcher parks and goes round, or ends.
Answer(t) ==
  /\ loc[t] = "answering"
  /\ Go(t, IF flag THEN Stopped(t) ELSE "idle")
  /\ UNCHANGED <<jobVars, guardVars, walkVars, laneVars, used, found>>

Probe(t) == \/ LoadFlag(t) \/ ReadUsage(t) \/ Arm(t) \/ Judge(t)
            \/ Swap(t) \/ Record(t) \/ Answer(t)

-----------------------------------------------------------------------------
(* The program *)

\* stop_reason as the readers of it match on it: a flag without a reason reads
\* as User, which both treat like no reason at all.
OverBudget == reason = "over"

\* A step returns: cancelled when it has read the flag, else done or failed, and
\* never while a thread of it is still in a poll.
Return(a) ==
  /\ pc = "working" /\ \A t \in hands : loc[t] = "idle"
  /\ a = "cancelled" => flag

\* The lane drops the watch whatever the job answered.
LaneReturns(a) ==
  /\ OnLane
  /\ Return(a)
  /\ answer' = a
  /\ pc' = "dropping" /\ done' = TRUE
  /\ UNCHANGED <<jobVars, guardVars, laneVars, step, verdict, used, loc, found>>

\* Mutant: the lane does not join its watcher.
DropUnjoined ==
  /\ pc = "dropping"
  /\ pc' = IF OnLane THEN "asking" ELSE "ended"
  /\ UNCHANGED <<jobVars, guardVars, laneVars, step, answer, verdict, done, used, loc, found>>

\* Drop for BudgetWatch joins the thread.
Join ==
  /\ pc = "dropping" /\ loc[Watcher] = "exited"
  /\ pc' = IF OnLane THEN "asking" ELSE "ended"
  /\ UNCHANGED <<jobVars, guardVars, laneVars, step, answer, verdict, done, used, loc, found>>

\* A lane has its verdict and sends it.
Reports(told) ==
  /\ pc = "asking"
  /\ verdict' = told
  /\ pc' = "ended"
  /\ UNCHANGED <<jobVars, guardVars, laneVars, step, answer, done, used, loc, found>>

\* over_budget_stop comes first: a budget stop wins over every other answer, and
\* the flag turns a finished job into a cancelled one.
AnalysisReports ==
  /\ surface = "analysis"
  /\ Reports(IF OverBudget THEN "over"
             ELSE IF flag /\ answer = "ok" THEN "cancelled"
             ELSE answer)

\* The lane's flag comes first, and over_budget_stop after it.  The reason stands
\* still by now, so the two reads are one step.
ToolpathReports ==
  /\ surface = "toolpath"
  /\ Reports(IF laneFlag THEN "cancelled"
             ELSE IF OverBudget THEN "over"
             ELSE answer)

LaneReports == AnalysisReports \/ ToolpathReports

\* Mutant: the walk runs on past its plan.
NextStepPast ==
  IF step \in DOMAIN plan
  THEN step' = step + 1 /\ pc' = "working" /\ UNCHANGED <<verdict, done>>
  ELSE verdict' = "finished" /\ pc' = "dropping" /\ done' = TRUE /\ UNCHANGED step

\* A step that succeeds leads to the next; after the last the walk is finished
\* and its locals drop, the watch among them.
NextStep ==
  IF step + 1 \in DOMAIN plan
  THEN step' = step + 1 /\ pc' = "working" /\ UNCHANGED <<verdict, done>>
  ELSE verdict' = "finished" /\ pc' = "dropping" /\ done' = TRUE /\ UNCHANGED step

WalkReturns(a) ==
  /\ surface = "cli"
  /\ Return(a)
  /\ IF a = "ok" THEN NextStep
     ELSE pc' = "asking" /\ UNCHANGED <<step, verdict, done>>
  /\ UNCHANGED <<jobVars, guardVars, laneVars, answer, used, loc, found>>

\* A failed step asks for the reason with the watcher still running.  Over budget
\* ends the walk; any other failure ends it at a simulation only, and a failed
\* generation is a warning.
WalkAsks ==
  /\ surface = "cli" /\ pc = "asking"
  /\ IF OverBudget \/ plan[step] = "simulate"
       THEN /\ verdict' = IF OverBudget THEN "over" ELSE "failed"
            /\ pc' = "dropping" /\ done' = TRUE /\ UNCHANGED step
       ELSE NextStep
  /\ UNCHANGED <<jobVars, guardVars, laneVars, answer, used, loc, found>>

-----------------------------------------------------------------------------

Program == \/ \E a \in Answers : LaneReturns(a) \/ WalkReturns(a)
           \/ Join \/ LaneReports \/ WalkAsks

Next == UsageMoves \/ Cancel \/ Program \/ \E t \in Probers : Probe(t)

Spec == Init /\ [][Next]_vars

\* The watch thread is scheduled, and a program that has its answer goes on.  A
\* step may run for ever and a thread that polls may never poll.
FairSpec == /\ Spec
            /\ WF_vars(Probe(Watcher))
            /\ WF_vars(Join \/ LaneReports \/ WalkAsks)

-----------------------------------------------------------------------------
(* Properties *)

Places == {"idle", "reading", "arming", "judging", "stopping", "recording", "answering",
           "exited"}

\* Every variable keeps its type.
TypeOK ==
  /\ surface \in Surfaces /\ hands \in SUBSET Pollers /\ limited \in BOOLEAN
  /\ used \in Levels
  /\ flag \in BOOLEAN /\ armed \in BOOLEAN /\ done \in BOOLEAN
  /\ reason \in {None, "user", "over"} /\ owner \in {None, "user", "budget"}
  /\ loc \in [Probers -> Places] /\ found \in [Probers -> BOOLEAN]
  /\ plan \in Plans /\ step \in DOMAIN plan
  /\ pc \in {"working", "asking", "dropping", "ended"}
  /\ laneFlag \in BOOLEAN /\ telling \in BOOLEAN /\ answer \in Answers \cup {None}
  /\ verdict \in {None, "over", "failed", "finished"} \cup Answers

\* A cancel by the operator that is the first write of the flag stays one: no
\* reading, however it interleaves with the store, ever turns it into an
\* over-budget stop, and "over budget" is only ever told of a job the guard
\* itself stopped.
CancelWins ==
  /\ owner = "user" => reason # "over"
  /\ verdict = "over" => owner = "budget"

\* A lane whose algorithms only read the flag names whoever stopped its job.  It
\* reports over budget exactly when the watcher's swap was the first write of the
\* flag, except that a toolpath job whose lane was cancelled before the verdict
\* reports the cancel (a superseded one must), even after a budget stop; and no
\* job whose flag is set is told as done.  The two halves of a stop are one step
\* for everybody who reads the reason after the join, and a cancel's two stores
\* are in the order in which the lane can tell them.
LaneNamesTheOwner ==
  [][OnLane /\ hands = {} /\ verdict' # verdict
       => /\ verdict' = "over" <=>
               owner = "budget" /\ ~ (surface = "toolpath" /\ laneFlag)
          /\ verdict' = "ok" => ~ flag]_vars

\* A job the process outgrows is stopped: once the guard is armed, usage that
\* stays over the limit sets the flag, or the job is over.
OutgrownJobStops ==
  (armed /\ used = "over" /\ loc[Watcher] # "exited")
    ~> (flag \/ used # "over" \/ pc # "working")

\* Dropping the watch never hangs the program.
DropReturns == pc = "dropping" ~> pc # "dropping"
=============================================================================
