-------------------------- MODULE StaleRuns_proofs --------------------------
(***************************************************************************)
(* A running job that a queued request replaces always has its flag set.   *)
(* The submit that queues the request sets the flag of the job the lane    *)
(* announces, so the announcement must agree with the worker's own job,    *)
(* and no request may leave behind a second one for the same work when it  *)
(* is taken.                                                               *)
(***************************************************************************)
EXTENDS ComputeLanes_proofs

Working == {"taken", "running"}

\* While a job is taken or runs the lane announces exactly that job.
Announced == \A l \in Lanes : pc[l] \in Working => active[l] = job[l]

\* No two queued requests are for the same work.
QueueDistinct ==
  \A l \in Lanes : \A r, q \in queue[l] : r # q => ~ Replaces(l, r, q)

StaleInv == TypeOK /\ WorkerHolds /\ Announced /\ QueueDistinct /\ StaleRunIsStopped

\* Being for the same work goes both ways.
LEMMA ReplacesIsSymmetric ==
  ASSUME NEW l \in Lanes, NEW r \in Request, NEW q \in Request, Replaces(l, r, q)
  PROVE  Replaces(l, q, r)
BY LanesAssumption DEF Replaces, AllLanes

\* A step that leaves queues, jobs, announcements and worker places alone and
\* clears no flag keeps the invariant.
LEMMA RaisingFlagsKeepsStale ==
  ASSUME StaleInv, TypeOK', WorkerHolds',
         UNCHANGED <<queue, active, job, pc>>,
         \A l \in Lanes : laneFlag[l] => laneFlag'[l],
         \A l \in Lanes : ownFlags[l] \subseteq ownFlags'[l]
  PROVE  StaleInv'
<1>1. Announced' /\ QueueDistinct'
  BY DEF StaleInv, Announced, QueueDistinct
<1>2. StaleRunIsStopped'
  BY DEF StaleInv, StaleRunIsStopped, Flagged
<1>3. QED BY <1>1, <1>2 DEF StaleInv

\* A step of a worker that is not working on a job afterwards, and that leaves
\* queues, announcements of other lanes and flags alone, keeps the invariant.
LEMMA LeavingWorkKeepsStale ==
  ASSUME StaleInv, TypeOK', WorkerHolds', NEW l \in Lanes,
         \A k \in Lanes \ {l} : /\ pc'[k] = pc[k] /\ job'[k] = job[k]
                                /\ active'[k] = active[k],
         pc'[l] \notin Working,
         UNCHANGED <<queue, laneFlag, ownFlags>>
  PROVE  StaleInv'
<1>1. Announced'
  BY DEF StaleInv, Announced
<1>2. QueueDistinct'
  BY DEF StaleInv, QueueDistinct
<1>3. StaleRunIsStopped'
  BY DEF StaleInv, StaleRunIsStopped, Flagged, Working
<1>4. QED BY <1>1, <1>2, <1>3 DEF StaleInv

LEMMA SubmitKeepsStale ==
  ASSUME StaleInv, TypeOK', WorkerHolds',
         NEW l \in Lanes, NEW tp \in Toolpaths \cup {None}, NEW est \in Estimates \cup {None},
         Submit(l, tp, est)
  PROVE  StaleInv'
<1> DEFINE r == [serial |-> submitted + 1, tp |-> tp, est |-> est]
<1>1. /\ queue \in [Lanes -> SUBSET Request] /\ queue' \in [Lanes -> SUBSET Request]
      /\ pc \in [Lanes -> {"prologue", "dozing", "asleep", "admitting", "waiting", "taken",
                           "running", "judged", "sending", "releasing", "exited"}]
      /\ laneFlag \in [Lanes -> BOOLEAN] /\ ownFlags \in [Lanes -> SUBSET Nat]
  BY DEF StaleInv, TypeOK
<1>2. /\ queue' = [queue EXCEPT ![l] = {q \in @ : ~ Replaces(l, r, q)} \cup {r}]
      /\ UNCHANGED <<active, job>>
      /\ \A k \in Lanes : pc[k] \in Working => pc'[k] = pc[k]
      /\ \A k \in Lanes : pc'[k] \in Working => pc[k] \in Working
  BY <1>1 DEF Submit, Working
<1>3. r \in Request
  BY <1>1, <1>2
<1>4. Announced'
  BY <1>2 DEF StaleInv, Announced
<1>5. QueueDistinct'
  <2> SUFFICES ASSUME NEW k \in Lanes, NEW p \in queue'[k], NEW q \in queue'[k], p # q
               PROVE  ~ Replaces(k, p, q)
    BY DEF QueueDistinct
  <2>1. CASE k # l
    BY <1>1, <1>2, <2>1 DEF StaleInv, QueueDistinct
  <2>2. CASE k = l
    <3>1. p \in Request /\ q \in Request
      BY <1>1
    <3>2. queue'[k] = {x \in queue[l] : ~ Replaces(l, r, x)} \cup {r}
      BY <1>1, <1>2, <2>2
    <3>3. CASE p = r
      BY <2>2, <3>2, <3>3
    <3>4. CASE q = r
      BY <1>3, <2>2, <3>1, <3>2, <3>4, ReplacesIsSymmetric
    <3>5. CASE p # r /\ q # r
      BY <2>2, <3>2, <3>5 DEF StaleInv, QueueDistinct
    <3>6. QED BY <3>3, <3>4, <3>5
  <2>3. QED BY <2>1, <2>2
<1>6. /\ \A k \in Lanes : laneFlag[k] => laneFlag'[k]
      /\ \A k \in Lanes : ownFlags[k] \subseteq ownFlags'[k]
  BY <1>1 DEF Submit
<1>7. StaleRunIsStopped'
  <2> SUFFICES ASSUME NEW k \in Lanes, pc'[k] \in Working,
                      NEW q \in queue'[k], Replaces(k, q, job'[k])
               PROVE  Flagged(k)'
    BY DEF StaleRunIsStopped, Working
  <2>1. pc[k] \in Working /\ active[k] = job[k] /\ job'[k] = job[k] /\ job[k] # None
    BY <1>2 DEF StaleInv, Announced, WorkerHolds, Busy, Working
  <2>2. CASE q \in queue[k]
    <3>1. Flagged(k)
      BY <2>1, <2>2 DEF StaleInv, StaleRunIsStopped, Working
    <3>2. QED BY <1>6, <2>1, <3>1 DEF Flagged
  <2>3. CASE q \notin queue[k]
    <3>1. k = l /\ q = r
      BY <1>1, <1>2, <2>3
    <3>2. Hits(l, r)
      BY <2>1, <3>1 DEF Hits
    <3>3. laneFlag'[l] /\ (l \in OwnFlag => active[l].serial \in ownFlags'[l])
      BY <1>1, <3>2 DEF Submit
    <3>4. QED BY <2>1, <3>1, <3>3 DEF Flagged
  <2>4. QED BY <2>2, <2>3
<1>8. QED BY <1>4, <1>5, <1>7 DEF StaleInv

\* The oldest request is the only one for its work, so what it leaves queued is
\* for other work, and clearing the lane flag loses nothing.
LEMMA TakeKeepsStale ==
  ASSUME StaleInv, TypeOK', WorkerHolds', NEW l \in Lanes, NEW r \in queue[l], Take(l, r)
  PROVE  StaleInv'
<1>1. /\ queue \in [Lanes -> SUBSET Request] /\ laneFlag \in [Lanes -> BOOLEAN]
      /\ job \in [Lanes -> Request \cup {None}] /\ active \in [Lanes -> Request \cup {None}]
      /\ pc \in [Lanes -> {"prologue", "dozing", "asleep", "admitting", "waiting", "taken",
                           "running", "judged", "sending", "releasing", "exited"}]
  BY DEF StaleInv, TypeOK
<1>2. /\ queue' = [queue EXCEPT ![l] = @ \ {r}]
      /\ laneFlag' = [laneFlag EXCEPT ![l] = FALSE]
      /\ active' = [active EXCEPT ![l] = r]
      /\ job' = [job EXCEPT ![l] = r]
      /\ pc' = [pc EXCEPT ![l] = "taken"]
      /\ UNCHANGED ownFlags
  BY DEF Take
<1>3. Announced'
  BY <1>1, <1>2 DEF StaleInv, Announced
<1>4. QueueDistinct'
  BY <1>1, <1>2 DEF StaleInv, QueueDistinct
<1>5. StaleRunIsStopped'
  <2> SUFFICES ASSUME NEW k \in Lanes, pc'[k] \in Working,
                      NEW q \in queue'[k], Replaces(k, q, job'[k])
               PROVE  Flagged(k)'
    BY DEF StaleRunIsStopped, Working
  <2>1. CASE k = l
    <3>1. q \in queue[l] /\ q # r /\ job'[l] = r
      BY <1>1, <1>2, <2>1
    <3>2. QED BY <2>1, <3>1 DEF StaleInv, QueueDistinct
  <2>2. CASE k # l
    BY <1>1, <1>2, <2>2 DEF StaleInv, StaleRunIsStopped, Working, Flagged
  <2>3. QED BY <2>1, <2>2
<1>6. QED BY <1>3, <1>4, <1>5 DEF StaleInv

\* What one worker step does to the parts this invariant speaks of.
LEMMA WorkerKeepsStale ==
  ASSUME StaleInv, TypeOK', WorkerHolds', NEW l \in Lanes,
         Worker(l) \/ BudgetStop(l) \/ WakeSpuriously(l)
  PROVE  StaleInv'
<1> USE DEF laneVars, workerVars, ledgerVars, frameVars, blameVars
<1>1. /\ pc \in [Lanes -> {"prologue", "dozing", "asleep", "admitting", "waiting", "taken",
                           "running", "judged", "sending", "releasing", "exited"}]
      /\ active \in [Lanes -> Request \cup {None}]
      /\ job \in [Lanes -> Request \cup {None}]
      /\ laneFlag \in [Lanes -> BOOLEAN] /\ ownFlags \in [Lanes -> SUBSET Nat]
  BY DEF StaleInv, TypeOK
<1>2. CASE SeeShutdown(l) \/ Doze(l) \/ ReadLimit(l) \/ WaitForLedger(l) \/ Recheck(l)
           \/ WakeSpuriously(l)
  <2>1. /\ \E p \in {"exited", "dozing", "admitting", "waiting", "prologue"} :
             pc' = [pc EXCEPT ![l] = p]
        /\ UNCHANGED <<queue, active, laneFlag, ownFlags, job>>
    BY <1>2 DEF SeeShutdown, Doze, ReadLimit, WaitForLedger, Recheck, WakeSpuriously
  <2>2. QED BY <1>1, <2>1, LeavingWorkKeepsStale DEF Working
<1>3. CASE Sleep(l) \/ ResetLane(l)
  <2>1. /\ \E p \in {"asleep", "releasing", "sending"} : pc' = [pc EXCEPT ![l] = p]
        /\ active' = [active EXCEPT ![l] = None]
        /\ UNCHANGED <<queue, laneFlag, ownFlags, job>>
    BY <1>3 DEF Sleep, ResetLane
  <2>2. QED BY <1>1, <2>1, LeavingWorkKeepsStale DEF Working
<1>4. CASE AbandonJob(l) \/ EndIteration(l)
  <2>1. /\ \E p \in {"exited", "prologue"} : pc' = [pc EXCEPT ![l] = p]
        /\ job' = [job EXCEPT ![l] = None]
        /\ UNCHANGED <<queue, active, laneFlag, ownFlags>>
    BY <1>4 DEF AbandonJob, EndIteration
  <2>2. QED BY <1>1, <2>1, LeavingWorkKeepsStale DEF Working
<1>5. CASE FinishJob(l) \/ PanicJob(l) \/ SendResult(l)
  <2>1. /\ \E p \in {"judged", "releasing"} : pc' = [pc EXCEPT ![l] = p]
        /\ UNCHANGED <<queue, active, laneFlag, ownFlags, job>>
    BY <1>5 DEF FinishJob, PanicJob, SendResult
  <2>2. QED BY <1>1, <2>1, LeavingWorkKeepsStale DEF Working
<1>6. CASE StartJob(l)
  <2>1. /\ pc[l] = "taken" /\ pc' = [pc EXCEPT ![l] = "running"]
        /\ UNCHANGED <<queue, active, laneFlag, ownFlags, job>>
    BY <1>6 DEF StartJob
  <2>2. Announced' /\ QueueDistinct'
    BY <1>1, <2>1 DEF StaleInv, Announced, QueueDistinct, Working
  <2>3. StaleRunIsStopped'
    BY <1>1, <2>1 DEF StaleInv, StaleRunIsStopped, Flagged
  <2>4. QED BY <2>2, <2>3 DEF StaleInv
<1>7. CASE BudgetStop(l)
  <2>1. /\ UNCHANGED <<queue, active, job, pc>>
        /\ \A k \in Lanes : laneFlag[k] => laneFlag'[k]
        /\ \A k \in Lanes : ownFlags[k] \subseteq ownFlags'[k]
    BY <1>1, <1>7 DEF BudgetStop
  <2>2. QED BY <2>1, RaisingFlagsKeepsStale
<1>8. CASE TakeReserved(l) \/ TakeUnreserved(l)
  BY <1>8, TakeKeepsStale DEF TakeReserved, TakeUnreserved, OldestOf
<1>9. QED
  BY <1>2, <1>3, <1>4, <1>5, <1>6, <1>7, <1>8 DEF Worker

\* The frame loop's other steps set flags at most; the notification of Drop only
\* wakes a sleeping worker.
LEMMA FrameKeepsStale ==
  ASSUME StaleInv, TypeOK', WorkerHolds',
         \/ \E l \in Lanes : CancelActive(l)
         \/ CancelSomeJob
         \/ \E b \in Limits \cup {None} : SetBudget(b)
         \/ DrainResults
         \/ Dropping
         \/ UNCHANGED vars
  PROVE  StaleInv'
<1> USE DEF laneVars, workerVars, ledgerVars, frameVars, blameVars
<1>1. laneFlag \in [Lanes -> BOOLEAN] /\ ownFlags \in [Lanes -> SUBSET Nat]
  BY DEF StaleInv, TypeOK
<1>2. ASSUME NEW l \in Lanes, CancelActive(l) PROVE StaleInv'
  <2>1. /\ UNCHANGED <<queue, active, job, pc>>
        /\ \A k \in Lanes : laneFlag[k] => laneFlag'[k]
        /\ \A k \in Lanes : ownFlags[k] \subseteq ownFlags'[k]
    BY <1>1, <1>2 DEF CancelActive
  <2>2. QED BY <2>1, RaisingFlagsKeepsStale
<1>3. CASE CancelSomeJob
  <2>1. /\ UNCHANGED <<queue, active, job, pc, laneFlag>>
        /\ \A k \in Lanes : ownFlags[k] \subseteq ownFlags'[k]
    BY <1>1, <1>3 DEF CancelSomeJob, CancelJob
  <2>2. QED BY <2>1, RaisingFlagsKeepsStale
<1>4. CASE \/ \E b \in Limits \cup {None} : SetBudget(b)
           \/ DrainResults
           \/ \E l \in Lanes : StoreShutdown(l)
           \/ UNCHANGED vars
  <2>1. UNCHANGED <<queue, active, job, pc, laneFlag, ownFlags>>
    BY <1>4 DEF SetBudget, DrainResults, StoreShutdown, vars
  <2>2. QED BY <2>1, RaisingFlagsKeepsStale
<1>5. ASSUME NEW l \in Lanes, NotifyShutdown(l) PROVE StaleInv'
  <2>1. /\ UNCHANGED <<queue, active, job, laneFlag, ownFlags>>
        /\ pc' = [pc EXCEPT ![l] = IF @ = "asleep" THEN "prologue" ELSE @]
    BY <1>5 DEF NotifyShutdown
  <2>2. CASE pc[l] = "asleep"
    <3>1. pc' = [pc EXCEPT ![l] = "prologue"] /\ DOMAIN pc = Lanes
      BY <2>1, <2>2 DEF StaleInv, TypeOK
    <3>2. pc'[l] \notin Working /\ \A k \in Lanes \ {l} : pc'[k] = pc[k]
      BY <3>1 DEF Working
    <3>3. QED BY <2>1, <3>2, LeavingWorkKeepsStale
  <2>3. CASE pc[l] # "asleep"
    <3>1. pc' = pc
      BY <2>1, <2>3 DEF StaleInv, TypeOK
    <3>2. QED BY <2>1, <3>1, RaisingFlagsKeepsStale
  <2>4. QED BY <2>2, <2>3
<1>6. QED BY <1>2, <1>3, <1>4, <1>5 DEF Dropping

LEMMA StaleInvariant == Spec => []StaleInv
<1>1. Init => StaleInv
  <2>1. Init => TypeOK /\ WorkerHolds
    BY LedgerInit DEF LedgerInv
  <2>2. Init => Announced /\ QueueDistinct /\ StaleRunIsStopped
    BY DEF Init, Announced, QueueDistinct, StaleRunIsStopped, Working
  <2>3. QED BY <2>1, <2>2 DEF StaleInv
<1>2. LedgerInv /\ LedgerInv' /\ StaleInv /\ [Next]_vars => StaleInv'
  <2> SUFFICES ASSUME LedgerInv, LedgerInv', StaleInv, [Next]_vars PROVE StaleInv'
    OBVIOUS
  <2>1. TypeOK' /\ WorkerHolds'
    BY DEF LedgerInv
  <2>2. CASE Operator
    <3>1. ASSUME NEW tp \in Toolpaths, SubmitToolpath(tp) PROVE StaleInv'
      BY <2>1, <3>1, SubmitKeepsStale DEF SubmitToolpath
    <3>2. ASSUME NEW est \in Estimates, SubmitSimulation(est) PROVE StaleInv'
      BY <2>1, <3>2, SubmitKeepsStale DEF SubmitSimulation
    <3>3. CASE SubmitCollision \/ SubmitReach \/ SubmitJob
      BY <2>1, <3>3, SubmitKeepsStale DEF SubmitCollision, SubmitReach, SubmitJob
    <3>4. CASE RequestCancel \/ \E l \in Lanes : CancelLane(l)
      BY <2>1, <3>4, FrameKeepsStale DEF RequestCancel, CancelLane
    <3>5. QED
      BY <2>1, <2>2, <3>1, <3>2, <3>3, <3>4, FrameKeepsStale DEF Operator
  <2>3. ASSUME NEW l \in Lanes, Worker(l) \/ BudgetStop(l) \/ WakeSpuriously(l)
        PROVE  StaleInv'
    BY <2>1, <2>3, WorkerKeepsStale
  <2>4. QED BY <2>1, <2>2, <2>3, FrameKeepsStale DEF Next
<1>3. QED BY <1>1, <1>2, LedgerInvariant, PTL DEF Spec

\* The operator never waits for a whole stale run: on every lane, for any number
\* of toolpaths and submissions, the running job a queued request replaces has
\* the flag it polls set (submit_* and cancel_lane of worker.rs).
THEOREM StaleRunsStop == Spec => []StaleRunIsStopped
<1>1. StaleInv => StaleRunIsStopped
  BY DEF StaleInv
<1>2. QED BY <1>1, StaleInvariant, PTL
=============================================================================
