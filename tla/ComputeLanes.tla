---------------------------- MODULE ComputeLanes ----------------------------
(***************************************************************************)
(* The threaded compute backend of the GUI                                 *)
(* (crates/rs_cam_viz/src/compute/worker.rs): one worker thread per lane,  *)
(* the frame loop that submits, cancels and drains, the memory ledger the  *)
(* two heavy lanes share, the bounded result channel, and the backend's    *)
(* Drop.                                                                   *)
(*                                                                         *)
(* A request is numbered by its submission.  A lane's VecDeque only grows  *)
(* at the back, so it is the SET of its requests, oldest number first.     *)
(***************************************************************************)
EXTENDS Naturals, Sequences

CONSTANTS
  Lanes,         \* the lanes of this instance, among AllLanes
  Toolpaths,     \* toolpath ids
  Estimates,     \* what SimulationNeed::bytes may answer
  Limits,        \* memory limits the operator may set
  Readings,      \* what the usage probe may read
  ChannelCap,    \* capacity of the sync_channel (64 in the code)
  MaxSubmits,    \* bound of the model: submissions in a behaviour
  Powers,        \* bound of the model: what this instance's operator may do
  None           \* Option::None

AllLanes == {"toolpath", "analysis", "reach", "job"}

ASSUME LanesAssumption    == Lanes \subseteq AllLanes
ASSUME BytesAssumption    == Estimates \subseteq Nat /\ Limits \subseteq Nat
ASSUME ReadingsAssumption == Readings \subseteq Nat \cup {None}
ASSUME BoundsAssumption   == /\ ChannelCap \in Nat \ {0} /\ MaxSubmits \in Nat
                             /\ Powers \subseteq {"cancel", "budget", "drop"}

\* Toolpath and analysis jobs take ledger tickets and run under a budget guard.
Heavy == Lanes \cap {"toolpath", "analysis"}
\* Lanes whose requests carry a cancel flag of their own.
OwnFlag == Lanes \cap {"toolpath", "job"}
\* Lanes whose worker swallows a panicked job without an answer.
Silent == Lanes \cap {"analysis", "reach"}

Request == [serial : Nat, tp : Toolpaths \cup {None}, est : Estimates \cup {None}]
Answers == {"ok", "error", "cancelled", "overBudget"}
Message == [lane : Lanes, serial : Nat, tp : Toolpaths \cup {None}, answer : Answers]

ASSUME NoneAssumption == None \notin Nat \cup Toolpaths /\ None \notin Request \cup Answers

VARIABLES
  queue,       \* LaneInner::queue
  state,       \* LaneInner::state
  shown,       \* LaneInner::current_job: the request whose label is shown
  active,      \* LaneInner::{started_at, active_toolpath_id, active_cancel}
  laneFlag,    \* LaneQueue::cancel
  ownFlags,    \* per lane, the serials whose request's own cancel flag is set
  closing,     \* per lane: "open", "stored" (LaneQueue::shutdown), "notified"
  pc,          \* where the lane's worker thread is
  job,         \* the request the worker holds
  verdict,     \* the result the worker is about to send
  ticket,      \* the bytes of the worker's LedgerTicket
  guarded,     \* the job's BudgetGuard has a limit
  overBudget,  \* the job's BudgetGuard recorded StopReason::OverBudget
  seenLimit,   \* the limit admit read before it took the ledger lock
  limit,       \* BudgetCell::budget.limit_bytes
  reserved,    \* LedgerState::reserved_bytes
  running,     \* LedgerState::running
  channel,     \* the result channel
  submitted,   \* number of submissions
  \* History:
  superseded,  \* serials a submit cancelled while they were active
  cancelled,   \* serials an operator cancel reached
  outgrown     \* serials a budget guard stopped

laneVars   == <<queue, state, shown, active, laneFlag, ownFlags>>
workerVars == <<pc, job, verdict, guarded, overBudget, seenLimit>>
ledgerVars == <<ticket, reserved, running>>
frameVars  == <<closing, limit, submitted>>
blameVars  == <<superseded, cancelled, outgrown>>
vars == <<laneVars, workerVars, ledgerVars, frameVars, blameVars, channel>>

-----------------------------------------------------------------------------

\* Mutant: a job submit clears its lane.
ReplacesJobs(l, r, q) == l # "toolpath" \/ r.tp = q.tp

\* A submit replaces work that shares its key: the toolpath id on the toolpath
\* lane, the whole lane on analysis and reach, nothing on the job lane.
Replaces(l, r, q) == CASE l = "toolpath" -> r.tp = q.tp
                       [] l = "job"      -> FALSE
                       [] OTHER          -> TRUE

OldestOf(S) == {r \in S : \A q \in S : r.serial <= q.serial}

\* Two prologue steps keep the lane mutex; whoever needs it waits.
LockFree(l) == pc[l] \notin {"admitting", "dozing"}

\* LaneQueue::shutdown.
Shutdown(l) == closing[l] # "open"

\* The backend's owner is not in Drop.
Open == \A l \in Lanes : closing[l] = "open"

\* The flag the running job polls reads true.
Flagged(l) == IF l \in OwnFlag THEN job[l].serial \in ownFlags[l] ELSE laneFlag[l]

Init ==
  /\ queue = [l \in Lanes |-> {}]
  /\ state = [l \in Lanes |-> "Idle"]
  /\ shown = [l \in Lanes |-> None]
  /\ active = [l \in Lanes |-> None]
  /\ laneFlag = [l \in Lanes |-> FALSE]
  /\ ownFlags = [l \in Lanes |-> {}]
  /\ closing = [l \in Lanes |-> "open"]
  /\ pc = [l \in Lanes |-> "prologue"]
  /\ job = [l \in Lanes |-> None]
  /\ verdict = [l \in Lanes |-> None]
  /\ ticket = [l \in Lanes |-> None]
  /\ guarded = [l \in Lanes |-> FALSE]
  /\ overBudget = [l \in Lanes |-> FALSE]
  /\ seenLimit = [l \in Lanes |-> None]
  /\ limit \in Limits \cup {None}
  /\ reserved = 0
  /\ running = 0
  /\ channel = <<>>
  /\ submitted = 0
  /\ superseded = {}
  /\ cancelled = {}
  /\ outgrown = {}

-----------------------------------------------------------------------------
(* The frame loop *)

\* The request replaces the job the lane runs.
Hits(l, r) == active[l] # None /\ Replaces(l, r, active[l])

\* One submit under the lane mutex.  The work it replaces leaves the queue; an
\* active job it replaces gets the lane flag and its own flag.
Submit(l, tp, est) ==
  LET r    == [serial |-> submitted + 1, tp |-> tp, est |-> est]
      hits == Hits(l, r)
  IN
  /\ Open /\ LockFree(l) /\ submitted < MaxSubmits
  /\ submitted' = submitted + 1
  /\ queue' = [queue EXCEPT ![l] = {q \in @ : ~ Replaces(l, r, q)} \cup {r}]
  /\ laneFlag' = [laneFlag EXCEPT ![l] = @ \/ hits]
  /\ superseded' = superseded \cup (IF hits THEN {active[l].serial} ELSE {})
  /\ ownFlags' = [ownFlags EXCEPT ![l] =
                    @ \cup IF hits /\ l \in OwnFlag THEN {active[l].serial} ELSE {}]
  /\ state' = [state EXCEPT ![l] = IF hits THEN "Cancelling"
                                   ELSE IF active[l] = None THEN "Queued" ELSE @]
  /\ \E front \in OldestOf(queue'[l]) :
       shown' = [shown EXCEPT ![l] = IF active[l] = None THEN front ELSE @]
  /\ pc' = [pc EXCEPT ![l] = IF @ = "asleep" THEN "prologue" ELSE @]
  /\ UNCHANGED <<active, closing, job, verdict, guarded, overBudget, seenLimit,
                 limit, cancelled, outgrown, ledgerVars, channel>>

SubmitToolpath(tp) == "toolpath" \in Lanes /\ Submit("toolpath", tp, None)

\* The estimate counts only while the budget has a limit.
SubmitSimulation(est) ==
  "analysis" \in Lanes /\ Submit("analysis", None, IF limit = None THEN None ELSE est)

SubmitCollision == "analysis" \in Lanes /\ Submit("analysis", None, None)

SubmitReach == "reach" \in Lanes /\ Submit("reach", None, None)

SubmitJob == "job" \in Lanes /\ Submit("job", None, None)

\* A cancel reaches only the job the lane runs; queued requests stay.
CancelActive(l) ==
  /\ "cancel" \in Powers
  /\ LockFree(l) /\ active[l] # None
  /\ laneFlag' = [laneFlag EXCEPT ![l] = TRUE]
  /\ ownFlags' = [ownFlags EXCEPT ![l] =
                    @ \cup IF l \in OwnFlag THEN {active[l].serial} ELSE {}]
  /\ state' = [state EXCEPT ![l] = "Cancelling"]
  /\ cancelled' = cancelled \cup {active[l].serial}
  /\ UNCHANGED <<queue, shown, active, workerVars, ledgerVars, frameVars,
                 superseded, outgrown, channel>>

CancelLane(l) == Open /\ CancelActive(l)

\* GenerationControl: the MCP server thread cancels the toolpath lane without
\* the frame loop, also while the backend drops.
RequestCancel == "toolpath" \in Lanes /\ CancelActive("toolpath")

\* The progress row cancels exactly one Job submit, by that submit's own flag,
\* whether it is queued or running.
CancelJob(r) ==
  /\ "cancel" \in Powers
  /\ Open
  /\ r.serial \notin ownFlags["job"]
  /\ ownFlags' = [ownFlags EXCEPT !["job"] = @ \cup {r.serial}]
  /\ cancelled' = cancelled \cup {r.serial}
  /\ UNCHANGED <<queue, state, shown, active, laneFlag, workerVars, ledgerVars,
                 frameVars, superseded, outgrown, channel>>

CancelSomeJob ==
  /\ "job" \in Lanes
  /\ \E r \in queue["job"] \cup ({active["job"]} \ {None}) : CancelJob(r)

\* File > Preferences > Apply.  The wake-up of a waiting lane is Recheck.
SetBudget(b) ==
  /\ "budget" \in Powers
  /\ Open /\ b # limit
  /\ limit' = b
  /\ UNCHANGED <<laneVars, workerVars, ledgerVars, closing, submitted, blameVars,
                 channel>>

DrainResults ==
  /\ Open /\ channel # <<>>
  /\ channel' = <<>>
  /\ UNCHANGED <<laneVars, workerVars, ledgerVars, frameVars, blameVars>>

\* Drop stores the shutdown flags in the order of the lanes, then notifies the
\* condvars in the same order; neither happens under a lane mutex.
Earlier(k, l) == <<k, l>> \in {<<"toolpath", "analysis">>, <<"toolpath", "reach">>,
                               <<"toolpath", "job">>, <<"analysis", "reach">>,
                               <<"analysis", "job">>, <<"reach", "job">>}

StoreShutdown(l) ==
  /\ "drop" \in Powers
  /\ closing[l] = "open"
  /\ \A k \in Lanes : Earlier(k, l) => closing[k] = "stored"
  /\ closing' = [closing EXCEPT ![l] = "stored"]
  /\ UNCHANGED <<laneVars, workerVars, ledgerVars, limit, submitted, blameVars, channel>>

NotifyShutdown(l) ==
  /\ closing[l] = "stored"
  /\ \A k \in Lanes : closing[k] # "open" /\ (Earlier(k, l) => closing[k] = "notified")
  /\ closing' = [closing EXCEPT ![l] = "notified"]
  /\ pc' = [pc EXCEPT ![l] = IF @ = "asleep" THEN "prologue" ELSE @]
  /\ UNCHANGED <<laneVars, job, verdict, guarded, overBudget, seenLimit, ledgerVars,
                 limit, submitted, blameVars, channel>>

-----------------------------------------------------------------------------
(* The lane worker: the dequeue prologue *)

\* The prologue sees the shutdown flag.
SeeShutdown(l) ==
  /\ pc[l] = "prologue" /\ Shutdown(l)
  /\ pc' = [pc EXCEPT ![l] = "exited"]
  /\ UNCHANGED <<laneVars, job, verdict, guarded, overBudget, seenLimit, ledgerVars,
                 frameVars, blameVars, channel>>

\* The queue is empty and the shutdown flag reads false; the mutex stays held.
Doze(l) ==
  /\ pc[l] = "prologue" /\ queue[l] = {} /\ ~ Shutdown(l)
  /\ pc' = [pc EXCEPT ![l] = "dozing"]
  /\ UNCHANGED <<laneVars, job, verdict, guarded, overBudget, seenLimit, ledgerVars,
                 frameVars, blameVars, channel>>

\* go_idle, and the wait on the condvar, which gives the mutex back.
Sleep(l) ==
  /\ pc[l] = "dozing"
  /\ pc' = [pc EXCEPT ![l] = "asleep"]
  /\ state' = [state EXCEPT ![l] = "Idle"]
  /\ shown' = [shown EXCEPT ![l] = None]
  /\ active' = [active EXCEPT ![l] = None]
  /\ UNCHANGED <<queue, laneFlag, ownFlags, job, verdict, guarded, overBudget,
                 seenLimit, ledgerVars, frameVars, blameVars, channel>>

\* admit reads the budget cell before it takes the ledger lock.
ReadLimit(l) ==
  /\ l \in Heavy
  /\ pc[l] = "prologue" /\ queue[l] # {} /\ ~ Shutdown(l)
  /\ seenLimit' = [seenLimit EXCEPT ![l] = limit]
  /\ pc' = [pc EXCEPT ![l] = "admitting"]
  /\ UNCHANGED <<laneVars, job, verdict, guarded, overBudget, ledgerVars, frameVars,
                 blameVars, channel>>

\* Mutant: an idle ledger refuses too.
MustWaitAlone(l, r, used) ==
  seenLimit[l] # None /\ r.est # None /\ used # None /\ used + reserved + r.est > seenLimit[l]

\* The wait rule of BudgetLedger, for one reading of the probe.
MustWait(l, r, used) ==
  /\ seenLimit[l] # None /\ r.est # None
  /\ running > 0
  /\ used # None
  /\ used + reserved + r.est > seenLimit[l]

\* Admission::Wait: the job stays at the front and the mutex is given back.
WaitForLedger(l) ==
  /\ pc[l] = "admitting"
  /\ \E r \in OldestOf(queue[l]), used \in Readings :
       /\ MustWait(l, r, used)
       /\ shown' = [shown EXCEPT ![l] = r]
  /\ state' = [state EXCEPT ![l] = "Queued"]
  /\ pc' = [pc EXCEPT ![l] = "waiting"]
  /\ seenLimit' = [seenLimit EXCEPT ![l] = None]
  /\ UNCHANGED <<queue, active, laneFlag, ownFlags, job, verdict, guarded,
                 overBudget, ledgerVars, frameVars, blameVars, channel>>

\* wait_for_release returns: a ticket dropped, or LEDGER_RECHECK passed.
Recheck(l) ==
  /\ pc[l] = "waiting"
  /\ pc' = [pc EXCEPT ![l] = "prologue"]
  /\ UNCHANGED <<laneVars, job, verdict, guarded, overBudget, seenLimit, ledgerVars,
                 frameVars, blameVars, channel>>

\* The condvar returns without a notification.
WakeSpuriously(l) ==
  /\ pc[l] = "asleep"
  /\ pc' = [pc EXCEPT ![l] = "prologue"]
  /\ UNCHANGED <<laneVars, job, verdict, guarded, overBudget, seenLimit, ledgerVars,
                 frameVars, blameVars, channel>>

\* Mutant: the flag of the last job survives.
TakeKeepsFlag(l, r) ==
  /\ queue' = [queue EXCEPT ![l] = @ \ {r}]
  /\ state' = [state EXCEPT ![l] = "Running"]
  /\ shown' = [shown EXCEPT ![l] = r]
  /\ active' = [active EXCEPT ![l] = r]
  /\ job' = [job EXCEPT ![l] = r]
  /\ pc' = [pc EXCEPT ![l] = "taken"]
  /\ UNCHANGED <<laneFlag, ownFlags, verdict, guarded, overBudget, frameVars, blameVars,
                 channel>>

\* The worker takes the front request: the lane flag of the last job is cleared
\* and the lane reads Running.
Take(l, r) ==
  /\ queue' = [queue EXCEPT ![l] = @ \ {r}]
  /\ laneFlag' = [laneFlag EXCEPT ![l] = FALSE]
  /\ state' = [state EXCEPT ![l] = "Running"]
  /\ shown' = [shown EXCEPT ![l] = r]
  /\ active' = [active EXCEPT ![l] = r]
  /\ job' = [job EXCEPT ![l] = r]
  /\ pc' = [pc EXCEPT ![l] = "taken"]
  /\ UNCHANGED <<ownFlags, verdict, guarded, overBudget, frameVars, blameVars, channel>>

\* Admission::Run.
TakeReserved(l) ==
  /\ l \in Heavy /\ pc[l] = "admitting"
  /\ \E r \in OldestOf(queue[l]), used \in Readings :
       /\ ~ MustWait(l, r, used)
       /\ Take(l, r)
       /\ ticket' = [ticket EXCEPT ![l] = IF r.est = None THEN 0 ELSE r.est]
       /\ reserved' = reserved + ticket'[l]
       /\ running' = running + 1
       /\ seenLimit' = [seenLimit EXCEPT ![l] = None]

TakeUnreserved(l) ==
  /\ l \notin Heavy
  /\ pc[l] = "prologue" /\ queue[l] # {} /\ ~ Shutdown(l)
  /\ \E r \in OldestOf(queue[l]) : Take(l, r)
  /\ UNCHANGED <<seenLimit, ledgerVars>>

-----------------------------------------------------------------------------
(* The lane worker: one job *)

\* Mutant: the bytes are given back by hand and by the drop.
DropTicketTwice(l) ==
  /\ ticket' = [ticket EXCEPT ![l] = None]
  /\ reserved' = IF ticket[l] = None THEN reserved ELSE reserved - ticket[l] - ticket[l]
  /\ running' = IF ticket[l] = None THEN running ELSE running - 1

\* The worker's locals drop at the end of an iteration, the ticket among them.
DropTicket(l) ==
  /\ ticket' = [ticket EXCEPT ![l] = None]
  /\ reserved' = IF ticket[l] = None THEN reserved ELSE reserved - ticket[l]
  /\ running' = IF ticket[l] = None THEN running ELSE running - 1

\* The second shutdown check: the taken request is dropped without a run.
AbandonJob(l) ==
  /\ pc[l] = "taken" /\ Shutdown(l)
  /\ pc' = [pc EXCEPT ![l] = "exited"]
  /\ job' = [job EXCEPT ![l] = None]
  /\ DropTicket(l)
  /\ UNCHANGED <<laneVars, verdict, guarded, overBudget, seenLimit, frameVars,
                 blameVars, channel>>

\* Mutant: the flag is cleared as the job starts, off the lane mutex.
StartJobClears(l) ==
  /\ pc[l] = "taken" /\ ~ Shutdown(l)
  /\ pc' = [pc EXCEPT ![l] = "running"]
  /\ laneFlag' = [laneFlag EXCEPT ![l] = FALSE]
  /\ guarded' = [guarded EXCEPT ![l] = l \in Heavy /\ limit # None]
  /\ overBudget' = [overBudget EXCEPT ![l] = FALSE]
  /\ UNCHANGED <<queue, state, shown, active, ownFlags, job, verdict, seenLimit,
                 ledgerVars, frameVars, blameVars, channel>>

\* A heavy job copies the budget into its guard; a limit starts the watcher.
StartJob(l) ==
  /\ pc[l] = "taken" /\ ~ Shutdown(l)
  /\ pc' = [pc EXCEPT ![l] = "running"]
  /\ guarded' = [guarded EXCEPT ![l] = l \in Heavy /\ limit # None]
  /\ overBudget' = [overBudget EXCEPT ![l] = FALSE]
  /\ UNCHANGED <<laneVars, job, verdict, seenLimit, ledgerVars, frameVars, blameVars,
                 channel>>

\* The watcher's stop wins the flag: it was clear, so the reason is OverBudget.
\* (A stop that finds the flag set records User and changes nothing here.)
BudgetStop(l) ==
  /\ pc[l] = "running" /\ guarded[l] /\ ~ Flagged(l)
  /\ overBudget' = [overBudget EXCEPT ![l] = TRUE]
  /\ outgrown' = outgrown \cup {job[l].serial}
  /\ IF l \in OwnFlag
       THEN /\ ownFlags' = [ownFlags EXCEPT ![l] = @ \cup {job[l].serial}]
            /\ UNCHANGED laneFlag
       ELSE /\ laneFlag' = [laneFlag EXCEPT ![l] = TRUE]
            /\ UNCHANGED ownFlags
  /\ UNCHANGED <<queue, state, shown, active, pc, job, verdict, guarded, seenLimit,
                 ledgerVars, frameVars, superseded, cancelled, channel>>

\* What the work step may return: it stops for a set flag, or ends before its
\* next read of it.  The job lane's steps have no cancelled variant.
Returns(l) == (IF l = "reach" THEN {"ok"} ELSE {"ok", "error"})
                \cup (IF Flagged(l) /\ l # "job" THEN {"cancelled"} ELSE {})

\* How each lane turns that answer into its result.
Verdict(l, a) ==
  CASE l = "toolpath" -> IF laneFlag[l] THEN "cancelled"
                         ELSE IF overBudget[l] THEN "overBudget" ELSE a
    [] l = "analysis" -> IF overBudget[l] THEN "overBudget"
                         ELSE IF laneFlag[l] /\ a = "ok" THEN "cancelled" ELSE a
    [] l = "job"      -> IF Flagged(l) \/ laneFlag[l] THEN "cancelled" ELSE a
    [] l = "reach"    -> IF laneFlag[l] THEN "cancelled" ELSE a

FinishJob(l) ==
  /\ pc[l] = "running"
  /\ \E a \in Returns(l) : verdict' = [verdict EXCEPT ![l] = Verdict(l, a)]
  /\ pc' = [pc EXCEPT ![l] = "judged"]
  /\ UNCHANGED <<laneVars, job, guarded, overBudget, seenLimit, ledgerVars, frameVars,
                 blameVars, channel>>

\* Mutant: every caught panic goes unanswered, as on the silent lanes.
PanicUnanswered(l) ==
  /\ pc[l] = "running"
  /\ pc' = [pc EXCEPT ![l] = "judged"]
  /\ UNCHANGED <<laneVars, job, verdict, guarded, overBudget, seenLimit, ledgerVars,
                 frameVars, blameVars, channel>>

\* The caught panic.  The toolpath lane reports an error whatever its flags
\* say, the job lane judges its error, the silent lanes have no result.
PanicJob(l) ==
  /\ pc[l] = "running"
  /\ verdict' = [verdict EXCEPT ![l] = CASE l = "toolpath" -> "error"
                                         [] l = "job"      -> Verdict(l, "error")
                                         [] OTHER          -> None]
  /\ pc' = [pc EXCEPT ![l] = "judged"]
  /\ UNCHANGED <<laneVars, job, guarded, overBudget, seenLimit, ledgerVars, frameVars,
                 blameVars, channel>>

\* Mutant: the lane reads Idle whatever is queued.
ResetToIdle(l) ==
  /\ pc[l] = "judged"
  /\ active' = [active EXCEPT ![l] = None]
  /\ state' = [state EXCEPT ![l] = "Idle"]
  /\ shown' = [shown EXCEPT ![l] = None]
  /\ pc' = [pc EXCEPT ![l] = IF verdict[l] = None THEN "releasing" ELSE "sending"]
  /\ UNCHANGED <<queue, laneFlag, ownFlags, job, verdict, guarded, overBudget,
                 seenLimit, ledgerVars, frameVars, blameVars, channel>>

\* The lane forgets the job under the mutex, after its result was decided.
ResetLane(l) ==
  /\ pc[l] = "judged"
  /\ active' = [active EXCEPT ![l] = None]
  /\ IF queue[l] = {}
       THEN /\ state' = [state EXCEPT ![l] = "Idle"]
            /\ shown' = [shown EXCEPT ![l] = None]
       ELSE /\ state' = [state EXCEPT ![l] = "Queued"]
            /\ \E r \in OldestOf(queue[l]) : shown' = [shown EXCEPT ![l] = r]
  /\ pc' = [pc EXCEPT ![l] = IF verdict[l] = None THEN "releasing" ELSE "sending"]
  /\ UNCHANGED <<queue, laneFlag, ownFlags, job, verdict, guarded, overBudget,
                 seenLimit, ledgerVars, frameVars, blameVars, channel>>

\* The send blocks while the channel is full.  The ticket is still held.
SendResult(l) ==
  /\ pc[l] = "sending" /\ Len(channel) < ChannelCap
  /\ channel' = Append(channel, [lane |-> l, serial |-> job[l].serial,
                                 tp |-> job[l].tp, answer |-> verdict[l]])
  /\ pc' = [pc EXCEPT ![l] = "releasing"]
  /\ UNCHANGED <<laneVars, job, verdict, guarded, overBudget, seenLimit, ledgerVars,
                 frameVars, blameVars>>

\* Mutant: a job that has no result to send keeps its ticket.
EndIterationLeaky(l) ==
  /\ pc[l] = "releasing"
  /\ pc' = [pc EXCEPT ![l] = "prologue"]
  /\ job' = [job EXCEPT ![l] = None]
  /\ verdict' = [verdict EXCEPT ![l] = None]
  /\ guarded' = [guarded EXCEPT ![l] = FALSE]
  /\ overBudget' = [overBudget EXCEPT ![l] = FALSE]
  /\ IF verdict[l] = None THEN UNCHANGED ledgerVars ELSE DropTicket(l)
  /\ UNCHANGED <<laneVars, seenLimit, frameVars, blameVars, channel>>

EndIteration(l) ==
  /\ pc[l] = "releasing"
  /\ pc' = [pc EXCEPT ![l] = "prologue"]
  /\ job' = [job EXCEPT ![l] = None]
  /\ verdict' = [verdict EXCEPT ![l] = None]
  /\ guarded' = [guarded EXCEPT ![l] = FALSE]
  /\ overBudget' = [overBudget EXCEPT ![l] = FALSE]
  /\ DropTicket(l)
  /\ UNCHANGED <<laneVars, seenLimit, frameVars, blameVars, channel>>

-----------------------------------------------------------------------------

Worker(l) ==
  \/ SeeShutdown(l) \/ Doze(l) \/ Sleep(l) \/ ReadLimit(l) \/ WaitForLedger(l)
  \/ Recheck(l) \/ TakeReserved(l) \/ TakeUnreserved(l) \/ AbandonJob(l)
  \/ StartJob(l) \/ FinishJob(l) \/ PanicJob(l) \/ ResetLane(l) \/ SendResult(l)
  \/ EndIteration(l)

Operator ==
  \/ \E tp \in Toolpaths : SubmitToolpath(tp)
  \/ \E est \in Estimates : SubmitSimulation(est)
  \/ SubmitCollision \/ SubmitReach \/ SubmitJob
  \/ \E l \in Lanes : CancelLane(l)
  \/ RequestCancel
  \/ CancelSomeJob
  \/ \E b \in Limits \cup {None} : SetBudget(b)

Dropping == \E l \in Lanes : StoreShutdown(l) \/ NotifyShutdown(l)

Next ==
  \/ Operator
  \/ DrainResults
  \/ Dropping
  \/ \E l \in Lanes : Worker(l) \/ BudgetStop(l) \/ WakeSpuriously(l)

Spec == Init /\ [][Next]_vars

\* The worker threads run, the frame loop keeps draining, a job that runs ends,
\* and a Drop that has begun goes on to its joins.  Nobody has to submit.
Fairness ==
  /\ \A l \in Lanes : WF_vars(Worker(l))
  /\ WF_vars(DrainResults)
  /\ WF_vars(~ Open /\ Dropping)

FairSpec == Spec /\ Fairness

-----------------------------------------------------------------------------
(* Properties *)

\* Every variable keeps its type.
TypeOK ==
  /\ queue \in [Lanes -> SUBSET Request]
  /\ state \in [Lanes -> {"Idle", "Queued", "Running", "Cancelling"}]
  /\ shown \in [Lanes -> Request \cup {None}]
  /\ active \in [Lanes -> Request \cup {None}]
  /\ laneFlag \in [Lanes -> BOOLEAN]
  /\ ownFlags \in [Lanes -> SUBSET Nat]
  /\ closing \in [Lanes -> {"open", "stored", "notified"}]
  /\ pc \in [Lanes -> {"prologue", "dozing", "asleep", "admitting", "waiting", "taken",
                       "running", "judged", "sending", "releasing", "exited"}]
  /\ job \in [Lanes -> Request \cup {None}]
  /\ verdict \in [Lanes -> Answers \cup {None}]
  /\ ticket \in [Lanes -> Nat \cup {None}]
  /\ guarded \in [Lanes -> BOOLEAN]
  /\ overBudget \in [Lanes -> BOOLEAN]
  /\ seenLimit \in [Lanes -> Limits \cup {None}]
  /\ limit \in Limits \cup {None}
  /\ reserved \in Nat /\ running \in Nat
  /\ channel \in Seq(Message)
  /\ submitted \in Nat
  /\ superseded \in SUBSET Nat /\ cancelled \in SUBSET Nat /\ outgrown \in SUBSET Nat

\* Where a worker holds a request it has not finished with.
Busy == {"taken", "running", "judged", "sending"}

Held(l)  == IF l \in Lanes /\ ticket[l] # None THEN 1 ELSE 0
Bytes(l) == IF l \in Lanes /\ ticket[l] # None THEN ticket[l] ELSE 0

\* The ledger counts exactly the tickets that are out: a lane holds one from the
\* admission of its job to the end of that iteration and at no other time, on
\* every path (answer, cancel, caught panic, shutdown), and the reserved bytes
\* are the sum of the tickets.  A leak would make every later simulation wait.
LedgerBalance ==
  /\ \A l \in Lanes : ticket[l] # None <=> l \in Heavy /\ pc[l] \in Busy \cup {"releasing"}
  /\ running = Held("toolpath") + Held("analysis")
  /\ reserved = Bytes("toolpath") + Bytes("analysis")

\* While a newer request that replaces it is queued, a running job always has
\* the flag it polls set: the operator never waits for a whole stale job.
StaleRunIsStopped ==
  \A l \in Lanes :
    pc[l] \in {"taken", "running"} /\ (\E r \in queue[l] : Replaces(l, r, job[l]))
      => Flagged(l)

\* An answer names the true cause.  "Cancelled" goes only to a job that a cancel
\* or a newer request reached, never to its successor on the lane, and "over
\* budget" only to a job its own guard stopped.
BlamesTheCause ==
  \A i \in 1..Len(channel) :
    LET m == channel[i] IN
      /\ m.answer = "cancelled"  => m.serial \in cancelled \cup superseded
      /\ m.answer = "overBudget" => m.serial \in outgrown

\* What lane_snapshot shows agrees with what the lane does: idle means nothing is
\* queued or runs, queued shows the front request, and a lane that reads
\* Cancelling runs a job whose lane flag is set.
SnapshotHonest ==
  \A l \in Lanes : LockFree(l) =>
    CASE state[l] = "Idle"       -> queue[l] = {} /\ active[l] = None /\ shown[l] = None
      [] state[l] = "Queued"     -> active[l] = None /\ shown[l] \in OldestOf(queue[l])
      [] state[l] = "Running"    -> active[l] # None /\ shown[l] = active[l]
      [] state[l] = "Cancelling" -> active[l] # None /\ shown[l] = active[l] /\ laneFlag[l]

\* A request somebody may still be waiting for.
InFlight(s) ==
  \/ \E l \in Lanes : (\E r \in queue[l] : r.serial = s)
                        \/ (pc[l] \in Busy /\ job[l].serial = s)
  \/ \E i \in 1..Len(channel) : channel[i].serial = s

\* While the backend lives every request leaves its lane: its answer is drained,
\* or a newer request replaced it, or its run ended silently.  In particular a
\* simulation whose estimate is over the limit waits but is never refused.
EveryRequestSettles ==
  \A s \in 1..MaxSubmits : InFlight(s) ~> (~ InFlight(s) \/ ~ Open)

\* The lanes do what LaneContract says: one job at a time, oldest first, each
\* request answered at most once, and nothing dropped but by a newer request of
\* the same key, a silent lane's panic or the shutdown.
Contract == INSTANCE LaneContract WITH
  waiting <- queue,
  busy    <- [l \in Lanes |-> IF pc[l] \in Busy THEN job[l] ELSE None],
  outbox  <- channel,
  issued  <- submitted,
  closed  <- ~ Open

KeepsContract == Contract!Spec

\* The shutdown flag and the joins of Drop end every worker thread.
DropReturns == (~ Open) ~> (\A l \in Lanes : pc[l] = "exited")
=============================================================================
