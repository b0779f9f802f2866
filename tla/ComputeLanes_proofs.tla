------------------------- MODULE ComputeLanes_proofs -------------------------
(***************************************************************************)
(* Proofs about ComputeLanes, for every set of lanes, toolpaths, estimates,*)
(* limits and readings, and any number of submissions.                     *)
(***************************************************************************)
EXTENDS ComputeLanes, TLAPS

\* A worker past its dequeue holds a request, and one that sends has a result.
WorkerHolds ==
  \A l \in Lanes :
    /\ pc[l] \in Busy \cup {"releasing"} => job[l] # None
    /\ pc[l] = "sending" => verdict[l] # None

\* The inductive invariant of the ledger.
LedgerInv == TypeOK /\ WorkerHolds /\ LedgerBalance

\* The initial state satisfies it.
LEMMA LedgerInit == Init => LedgerInv
<1> USE LanesAssumption, NoneAssumption DEF AllLanes
<1>1. Init => TypeOK
  BY DEF Init, TypeOK
<1>2. Init => WorkerHolds /\ LedgerBalance
  BY DEF Init, WorkerHolds, LedgerBalance, Busy, Held, Bytes
<1>3. QED BY <1>1, <1>2 DEF LedgerInv

LEMMA SubmitKeepsLedger ==
  ASSUME LedgerInv, NEW l \in Lanes, NEW tp \in Toolpaths \cup {None}, NEW est \in Estimates \cup {None},
         Submit(l, tp, est)
  PROVE  LedgerInv'
<1> USE LanesAssumption, NoneAssumption DEF AllLanes
<1> DEFINE r == [serial |-> submitted + 1, tp |-> tp, est |-> est]
<1>1. TypeOK'
  <2> USE DEF LedgerInv, TypeOK
  <2>1. r \in Request /\ submitted' = submitted + 1
    BY DEF Request, Submit
  <2>2. queue' \in [Lanes -> SUBSET Request]
    <3>1. queue' = [queue EXCEPT ![l] = {q \in @ : ~ Replaces(l, r, q)} \cup {r}]
      BY DEF Submit
    <3>2. {q \in queue[l] : ~ Replaces(l, r, q)} \cup {r} \in SUBSET Request
      BY <2>1
    <3>3. QED BY <3>1, <3>2
  <2>3. shown' \in [Lanes -> Request \cup {None}]
    <3>1. PICK front \in queue'[l] :
            shown' = [shown EXCEPT ![l] = IF active[l] = None THEN front ELSE @]
      BY DEF Submit, OldestOf
    <3>2. front \in Request
      BY <2>2, <3>1
    <3>3. QED BY <3>1, <3>2
  <2>4. active[l] # None => active[l].serial \in Nat
    BY DEF Request
  <2>5. ownFlags' \in [Lanes -> SUBSET Nat] /\ superseded' \in SUBSET Nat
    BY <2>4 DEF Submit, Hits
  <2>6. /\ state' \in [Lanes -> {"Idle", "Queued", "Running", "Cancelling"}]
        /\ laneFlag' \in [Lanes -> BOOLEAN]
    BY DEF Submit
  <2>7. pc' \in [Lanes -> {"prologue", "dozing", "asleep", "admitting", "waiting", "taken",
                            "running", "judged", "sending", "releasing", "exited"}]
    BY DEF Submit
  <2>8. UNCHANGED <<active, closing, job, verdict, guarded, overBudget, seenLimit,
                    limit, cancelled, outgrown, ticket, reserved, running, channel>>
    BY DEF Submit, ledgerVars
  <2>9. QED BY <2>1, <2>2, <2>3, <2>5, <2>6, <2>7, <2>8
<1>2. WorkerHolds'
  BY DEF LedgerInv, TypeOK, WorkerHolds, Submit, Busy
<1>3. LedgerBalance'
  BY DEF LedgerInv, TypeOK, LedgerBalance, Submit, Busy, Held, Bytes, ledgerVars
<1>4. QED BY <1>1, <1>2, <1>3 DEF LedgerInv

\* A cancel touches flags, the shown state and the history only.
LEMMA CancelKeepsLedger ==
  ASSUME LedgerInv, NEW l \in Lanes, CancelActive(l)
  PROVE  LedgerInv'
<1> USE DEF LedgerInv, TypeOK
<1>1. active[l].serial \in Nat
  BY DEF CancelActive, Request
<1>2. TypeOK'
  BY <1>1 DEF CancelActive, workerVars, ledgerVars, frameVars
<1>3. WorkerHolds' /\ LedgerBalance'
  BY DEF CancelActive, workerVars, ledgerVars, WorkerHolds, LedgerBalance, Held, Bytes
<1>4. QED BY <1>2, <1>3

LEMMA CancelJobKeepsLedger ==
  ASSUME LedgerInv, CancelSomeJob
  PROVE  LedgerInv'
<1> USE DEF LedgerInv, TypeOK
<1>1. PICK r \in Request : CancelJob(r)
  BY DEF CancelSomeJob
<1>2. TypeOK'
  <2>1. r.serial \in Nat
    BY DEF Request
  <2>2. ownFlags["job"] \cup {r.serial} \in SUBSET Nat /\ cancelled \cup {r.serial} \in SUBSET Nat
    BY <2>1 DEF CancelSomeJob
  <2>3. ownFlags' \in [Lanes -> SUBSET Nat] /\ cancelled' \in SUBSET Nat
    BY <1>1, <2>2 DEF CancelJob
  <2>4. UNCHANGED <<queue, state, shown, active, laneFlag, closing, pc, job, verdict,
                    ticket, guarded, overBudget, seenLimit, limit, reserved, running,
                    channel, submitted, superseded, outgrown>>
    BY <1>1 DEF CancelJob, workerVars, ledgerVars, frameVars
  <2>5. QED BY <2>3, <2>4
<1>3. WorkerHolds' /\ LedgerBalance'
  BY <1>1 DEF CancelJob, workerVars, ledgerVars, WorkerHolds, LedgerBalance, Held, Bytes
<1>4. QED BY <1>2, <1>3

\* The rest of the frame loop never touches a worker's request or a ticket.
LEMMA FrameKeepsLedger ==
  ASSUME LedgerInv,
         \/ \E b \in Limits \cup {None} : SetBudget(b)
         \/ DrainResults
         \/ Dropping
         \/ UNCHANGED vars
  PROVE  LedgerInv'
<1> USE DEF LedgerInv, TypeOK, laneVars, workerVars, ledgerVars, frameVars, blameVars
<1>1. CASE \E b \in Limits \cup {None} : SetBudget(b)
  BY <1>1 DEF SetBudget, WorkerHolds, LedgerBalance, Held, Bytes
<1>2. CASE DrainResults
  BY <1>2 DEF DrainResults, WorkerHolds, LedgerBalance, Held, Bytes
<1>3. ASSUME NEW l \in Lanes, StoreShutdown(l) PROVE LedgerInv'
  BY <1>3 DEF StoreShutdown, WorkerHolds, LedgerBalance, Held, Bytes
<1>4. ASSUME NEW l \in Lanes, NotifyShutdown(l) PROVE LedgerInv'
  <2>1. TypeOK' BY <1>4 DEF NotifyShutdown
  <2>2. WorkerHolds' BY <1>4 DEF NotifyShutdown, WorkerHolds, Busy
  <2>3. LedgerBalance' BY <1>4 DEF NotifyShutdown, LedgerBalance, Held, Bytes, Busy
  <2>4. QED BY <2>1, <2>2, <2>3
<1>5. CASE UNCHANGED vars
  BY <1>5 DEF vars, WorkerHolds, LedgerBalance, Held, Bytes
<1>6. QED BY <1>1, <1>2, <1>3, <1>4, <1>5 DEF Dropping

\* The prologue steps that take no job hold no ticket before or after.
LEMMA PrologueKeepsLedger ==
  ASSUME LedgerInv, NEW l \in Lanes,
         \/ SeeShutdown(l) \/ Doze(l) \/ Sleep(l) \/ ReadLimit(l)
         \/ WaitForLedger(l) \/ Recheck(l) \/ WakeSpuriously(l)
  PROVE  LedgerInv'
<1> USE DEF LedgerInv, TypeOK
<1>1. TypeOK'
  <2> USE DEF laneVars, workerVars, ledgerVars, frameVars, blameVars
  <2>1. CASE SeeShutdown(l) \/ Doze(l) \/ Recheck(l) \/ WakeSpuriously(l)
    <3>1. \E p \in {"exited", "dozing", "prologue"} : pc' = [pc EXCEPT ![l] = p]
      BY <2>1 DEF SeeShutdown, Doze, Recheck, WakeSpuriously
    <3>2. pc' \in [Lanes -> {"prologue", "dozing", "asleep", "admitting", "waiting", "taken",
                              "running", "judged", "sending", "releasing", "exited"}]
      BY <3>1
    <3>3. UNCHANGED <<queue, state, shown, active, laneFlag, ownFlags, closing, job, verdict,
                      ticket, guarded, overBudget, seenLimit, limit, reserved, running,
                      channel, submitted, superseded, cancelled, outgrown>>
      BY <2>1 DEF SeeShutdown, Doze, Recheck, WakeSpuriously
    <3>4. QED BY <3>2, <3>3
  <2>2. CASE Sleep(l)
    BY <2>2 DEF Sleep
  <2>3. CASE ReadLimit(l)
    BY <2>3 DEF ReadLimit
  <2>4. CASE WaitForLedger(l)
    <3>1. PICK r \in queue[l] : shown' = [shown EXCEPT ![l] = r]
      BY <2>4 DEF WaitForLedger, OldestOf
    <3>2. r \in Request
      OBVIOUS
    <3>3. QED BY <2>4, <3>1, <3>2 DEF WaitForLedger
  <2>5. QED BY <2>1, <2>2, <2>3, <2>4
<1>2. /\ \E p \in {"exited", "dozing", "asleep", "admitting", "waiting", "prologue"} :
           pc' = [pc EXCEPT ![l] = p]
      /\ pc[l] \in {"prologue", "dozing", "admitting", "waiting", "asleep"}
      /\ UNCHANGED <<job, verdict, ticket, reserved, running>>
  BY DEF SeeShutdown, Doze, Sleep, ReadLimit, WaitForLedger, Recheck, WakeSpuriously,
         ledgerVars
<1>3. WorkerHolds'
  BY <1>2 DEF WorkerHolds, Busy
<1>4. LedgerBalance'
  BY <1>2 DEF LedgerBalance, Busy, Held, Bytes
<1>5. QED BY <1>1, <1>3, <1>4

\* Taking a job takes exactly one ticket on a heavy lane, and none elsewhere.
LEMMA TakeKeepsLedger ==
  ASSUME LedgerInv, NEW l \in Lanes, TakeReserved(l) \/ TakeUnreserved(l)
  PROVE  LedgerInv'
<1> USE LanesAssumption, BytesAssumption, NoneAssumption DEF LedgerInv, TypeOK
<1>1. PICK r \in queue[l] : Take(l, r)
  BY DEF TakeReserved, TakeUnreserved, OldestOf
<1>2. r \in Request /\ r # None
  OBVIOUS
<1>3. ticket[l] = None /\ pc[l] \in {"admitting", "prologue"}
  BY DEF TakeReserved, TakeUnreserved, LedgerBalance, Busy
<1>4. /\ queue' \in [Lanes -> SUBSET Request]
      /\ laneFlag' \in [Lanes -> BOOLEAN]
      /\ state' \in [Lanes -> {"Idle", "Queued", "Running", "Cancelling"}]
      /\ shown' \in [Lanes -> Request \cup {None}]
      /\ active' \in [Lanes -> Request \cup {None}]
      /\ UNCHANGED <<ownFlags, verdict, guarded, overBudget, frameVars, blameVars, channel>>
  BY <1>1, <1>2 DEF Take
<1>5. /\ job' = [job EXCEPT ![l] = r]
      /\ pc' = [pc EXCEPT ![l] = "taken"]
  BY <1>1 DEF Take
<1>6. WorkerHolds'
  BY <1>2, <1>4, <1>5 DEF WorkerHolds, Busy
<1>7. CASE TakeReserved(l)
  <2>1. PICK q \in queue[l] :
          /\ ticket' = [ticket EXCEPT ![l] = IF q.est = None THEN 0 ELSE q.est]
          /\ reserved' = reserved + ticket'[l]
          /\ running' = running + 1
          /\ seenLimit' = [seenLimit EXCEPT ![l] = None]
    BY <1>7 DEF TakeReserved, OldestOf
  <2>2. ticket'[l] \in Nat
    <3>1. q \in Request
      OBVIOUS
    <3>2. q.est \in Nat \cup {None}
      BY <3>1 DEF Request
    <3>3. QED BY <2>1, <3>2
  <2>3. l \in Heavy
    BY <1>7 DEF TakeReserved
  <2>4. TypeOK'
    BY <1>2, <1>4, <1>5, <2>1, <2>2 DEF frameVars, blameVars
  <2>5. LedgerBalance'
    <3>1. \A k \in Lanes : ticket[k] # None <=> k \in Heavy /\ pc[k] \in Busy \cup {"releasing"}
      BY DEF LedgerBalance
    <3>2. \A k \in Lanes : ticket'[k] # None <=> k \in Heavy /\ pc'[k] \in Busy \cup {"releasing"}
      BY <1>5, <2>1, <2>2, <2>3, <3>1 DEF Busy
    <3>3. l \in {"toolpath", "analysis"} /\ \A k \in Lanes \ {l} : ticket'[k] = ticket[k]
      BY <2>1, <2>3 DEF Heavy
    <3>4. running' = Held("toolpath")' + Held("analysis")'
      BY <1>3, <2>1, <2>2, <3>3 DEF LedgerBalance, Held
    <3>5. reserved' = Bytes("toolpath")' + Bytes("analysis")'
      BY <1>3, <2>1, <2>2, <3>3 DEF LedgerBalance, Bytes
    <3>6. QED BY <3>2, <3>4, <3>5 DEF LedgerBalance
  <2>6. QED BY <1>6, <2>4, <2>5
<1>8. CASE TakeUnreserved(l)
  <2>1. l \notin Heavy /\ UNCHANGED <<seenLimit, ticket, reserved, running>>
    BY <1>8 DEF TakeUnreserved, ledgerVars
  <2>2. TypeOK'
    BY <1>2, <1>4, <1>5, <2>1 DEF frameVars, blameVars
  <2>3. LedgerBalance'
    BY <1>5, <2>1 DEF LedgerBalance, Held, Bytes, Busy
  <2>4. QED BY <1>6, <2>2, <2>3
<1>9. QED BY <1>7, <1>8

\* From the start of a job to the send of its result its ticket stays out.
LEMMA JobKeepsLedger ==
  ASSUME LedgerInv, NEW l \in Lanes,
         \/ StartJob(l) \/ BudgetStop(l) \/ FinishJob(l) \/ PanicJob(l)
         \/ ResetLane(l) \/ SendResult(l)
  PROVE  LedgerInv'
<1> USE LanesAssumption, NoneAssumption DEF LedgerInv, TypeOK
<1>1. job[l] \in Request
  BY DEF StartJob, BudgetStop, FinishJob, PanicJob, ResetLane, SendResult, WorkerHolds, Busy
<1>2. job[l].serial \in Nat /\ job[l].tp \in Toolpaths \cup {None}
  BY <1>1 DEF Request
<1>3. /\ pc[l] \in Busy
      /\ \E p \in Busy \cup {"releasing"} : pc' = [pc EXCEPT ![l] = p]
      /\ UNCHANGED <<job, ticket, reserved, running>>
  BY DEF StartJob, BudgetStop, FinishJob, PanicJob, ResetLane, SendResult, Busy, ledgerVars
<1>4. LedgerBalance'
  BY <1>3 DEF LedgerBalance, Busy, Held, Bytes
<1>5. CASE StartJob(l)
  <2>1. TypeOK'
    BY <1>5 DEF StartJob, laneVars, ledgerVars, frameVars, blameVars
  <2>2. WorkerHolds'
    BY <1>5 DEF StartJob, WorkerHolds, Busy
  <2>3. QED BY <1>4, <2>1, <2>2
<1>6. CASE BudgetStop(l)
  <2>1. /\ ownFlags' \in [Lanes -> SUBSET Nat] /\ outgrown' \in SUBSET Nat
        /\ laneFlag' \in [Lanes -> BOOLEAN]
        /\ overBudget' \in [Lanes -> BOOLEAN]
    <3>1. /\ outgrown' = outgrown \cup {job[l].serial}
          /\ overBudget' = [overBudget EXCEPT ![l] = TRUE]
      BY <1>6 DEF BudgetStop
    <3>2. ownFlags' \in {ownFlags, [ownFlags EXCEPT ![l] = @ \cup {job[l].serial}]}
      BY <1>6 DEF BudgetStop
    <3>3. laneFlag' \in {laneFlag, [laneFlag EXCEPT ![l] = TRUE]}
      BY <1>6 DEF BudgetStop
    <3>4. [ownFlags EXCEPT ![l] = @ \cup {job[l].serial}] \in [Lanes -> SUBSET Nat]
      <4>1. ownFlags[l] \cup {job[l].serial} \in SUBSET Nat
        BY <1>2
      <4>2. QED BY <4>1
    <3>5. /\ outgrown \cup {job[l].serial} \in SUBSET Nat
          /\ [laneFlag EXCEPT ![l] = TRUE] \in [Lanes -> BOOLEAN]
          /\ [overBudget EXCEPT ![l] = TRUE] \in [Lanes -> BOOLEAN]
      BY <1>2
    <3>6. QED BY <3>1, <3>2, <3>3, <3>4, <3>5
  <2>2. TypeOK'
    BY <1>6, <2>1 DEF BudgetStop, ledgerVars, frameVars
  <2>3. WorkerHolds'
    BY <1>6 DEF BudgetStop, WorkerHolds, Busy
  <2>4. QED BY <1>4, <2>2, <2>3
<1>7. CASE FinishJob(l) \/ PanicJob(l)
  <2>1. \E v \in Answers \cup {None} : verdict' = [verdict EXCEPT ![l] = v]
    <3>1. \A a \in Answers : Verdict(l, a) \in Answers
      BY DEF Verdict, Answers, AllLanes
    <3>2. Returns(l) \subseteq Answers
      BY DEF Returns, Answers
    <3>3. "error" \in Answers
      BY DEF Answers
    <3>4. QED BY <1>7, <3>1, <3>2, <3>3 DEF FinishJob, PanicJob
  <2>2. /\ pc' = [pc EXCEPT ![l] = "judged"]
        /\ UNCHANGED <<laneVars, guarded, overBudget, seenLimit, frameVars, blameVars, channel>>
    BY <1>7 DEF FinishJob, PanicJob
  <2>3. TypeOK'
    BY <1>3, <2>1, <2>2 DEF laneVars, frameVars, blameVars
  <2>4. WorkerHolds'
    BY <1>3, <2>1, <2>2 DEF WorkerHolds, Busy
  <2>5. QED BY <1>4, <2>3, <2>4
<1>8. CASE ResetLane(l)
  <2>1. /\ state' \in [Lanes -> {"Idle", "Queued", "Running", "Cancelling"}]
        /\ shown' \in [Lanes -> Request \cup {None}]
    <3>1. CASE queue[l] = {}
      BY <1>8, <3>1 DEF ResetLane
    <3>2. CASE queue[l] # {}
      <4>1. PICK r \in queue[l] : shown' = [shown EXCEPT ![l] = r]
        BY <1>8, <3>2 DEF ResetLane, OldestOf
      <4>2. r \in Request
        OBVIOUS
      <4>3. QED BY <1>8, <3>2, <4>1, <4>2 DEF ResetLane
    <3>3. QED BY <3>1, <3>2
  <2>2. TypeOK'
    BY <1>3, <1>8, <2>1 DEF ResetLane, frameVars, blameVars, Busy
  <2>3. WorkerHolds'
    BY <1>8 DEF ResetLane, WorkerHolds, Busy
  <2>4. QED BY <1>4, <2>2, <2>3
<1>9. CASE SendResult(l)
  <2>1. [lane |-> l, serial |-> job[l].serial, tp |-> job[l].tp, answer |-> verdict[l]]
          \in Message
    BY <1>2, <1>9 DEF SendResult, WorkerHolds, Message
  <2>2. channel' \in Seq(Message)
    BY <1>9, <2>1 DEF SendResult
  <2>3. TypeOK'
    BY <1>9, <2>2 DEF SendResult, laneVars, ledgerVars, frameVars, blameVars
  <2>4. WorkerHolds'
    BY <1>9 DEF SendResult, WorkerHolds, Busy
  <2>5. QED BY <1>4, <2>3, <2>4
<1>10. QED BY <1>5, <1>6, <1>7, <1>8, <1>9

\* Both ends of an iteration give back exactly what the lane reserved.
LEMMA ReleaseKeepsLedger ==
  ASSUME LedgerInv, NEW l \in Lanes, AbandonJob(l) \/ EndIteration(l)
  PROVE  LedgerInv'
<1> USE LanesAssumption, NoneAssumption DEF LedgerInv, TypeOK
<1>1. /\ DropTicket(l)
      /\ job' = [job EXCEPT ![l] = None]
      /\ pc[l] \in Busy \cup {"releasing"}
      /\ \E p \in {"exited", "prologue"} : pc' = [pc EXCEPT ![l] = p]
      /\ verdict' \in [Lanes -> Answers \cup {None}]
      /\ \A k \in Lanes \ {l} : verdict'[k] = verdict[k]
  BY DEF AbandonJob, EndIteration, Busy
<1>2. WorkerHolds'
  BY <1>1 DEF WorkerHolds, Busy
<1>3. \A k \in Lanes : ticket[k] # None <=> k \in Heavy /\ pc[k] \in Busy \cup {"releasing"}
  BY DEF LedgerBalance
<1>4. ticket' = [ticket EXCEPT ![l] = None]
  BY <1>1 DEF DropTicket
<1>5. \A k \in Lanes : ticket'[k] # None <=> k \in Heavy /\ pc'[k] \in Busy \cup {"releasing"}
  BY <1>1, <1>3, <1>4 DEF Busy
<1>6. ticket[l] # None => l \in {"toolpath", "analysis"}
  BY <1>3 DEF Heavy
<1>7. running' = Held("toolpath")' + Held("analysis")' /\ running' \in Nat
  BY <1>1, <1>4, <1>6 DEF LedgerBalance, Held, DropTicket
<1>8. reserved' = Bytes("toolpath")' + Bytes("analysis")' /\ reserved' \in Nat
  <2>1. /\ Bytes("toolpath") \in Nat /\ Bytes("analysis") \in Nat
        /\ reserved = Bytes("toolpath") + Bytes("analysis")
    BY DEF LedgerBalance, Bytes
  <2>2. Bytes(l)' = 0 /\ \A k \in AllLanes \ {l} : Bytes(k)' = Bytes(k)
    BY <1>4 DEF Bytes, AllLanes
  <2>3. CASE ticket[l] = None
    BY <1>1, <2>1, <2>2, <2>3, <1>4 DEF DropTicket, Bytes, AllLanes
  <2>4. CASE ticket[l] # None
    <3>1. Bytes(l) = ticket[l] /\ reserved' = reserved - ticket[l]
      BY <1>1, <2>4 DEF DropTicket, Bytes
    <3>2. CASE l = "toolpath"
      BY <2>1, <2>2, <3>1, <3>2 DEF AllLanes
    <3>3. CASE l = "analysis"
      BY <2>1, <2>2, <3>1, <3>3 DEF AllLanes
    <3>4. QED BY <1>6, <2>4, <3>2, <3>3
  <2>5. QED BY <2>3, <2>4
<1>9. TypeOK'
  BY <1>1, <1>4, <1>7, <1>8 DEF AbandonJob, EndIteration, laneVars, frameVars, blameVars
<1>10. QED BY <1>2, <1>5, <1>7, <1>8, <1>9 DEF LedgerBalance

\* The ledger's invariant holds in every reachable state.
THEOREM LedgerInvariant == Spec => []LedgerInv
<1>1. LedgerInv /\ [Next]_vars => LedgerInv'
  <2>1. ASSUME LedgerInv, Operator PROVE LedgerInv'
    <3>1. ASSUME NEW tp \in Toolpaths, SubmitToolpath(tp) PROVE LedgerInv'
      BY <2>1, <3>1, SubmitKeepsLedger DEF SubmitToolpath
    <3>2. ASSUME NEW est \in Estimates, SubmitSimulation(est) PROVE LedgerInv'
      BY <2>1, <3>2, SubmitKeepsLedger DEF SubmitSimulation
    <3>3. ASSUME SubmitCollision \/ SubmitReach \/ SubmitJob PROVE LedgerInv'
      BY <2>1, <3>3, SubmitKeepsLedger DEF SubmitCollision, SubmitReach, SubmitJob
    <3>4. ASSUME RequestCancel \/ \E l \in Lanes : CancelLane(l) PROVE LedgerInv'
      BY <2>1, <3>4, CancelKeepsLedger DEF RequestCancel, CancelLane
    <3>5. QED
      BY <2>1, <3>1, <3>2, <3>3, <3>4, CancelJobKeepsLedger, FrameKeepsLedger DEF Operator
  <2>2. ASSUME LedgerInv, NEW l \in Lanes, Worker(l) \/ BudgetStop(l) \/ WakeSpuriously(l)
        PROVE  LedgerInv'
    BY <2>2, PrologueKeepsLedger, TakeKeepsLedger, JobKeepsLedger, ReleaseKeepsLedger DEF Worker
  <2>3. QED
    BY <2>1, <2>2, FrameKeepsLedger DEF Next
<1>2. QED
  BY <1>1, LedgerInit, PTL DEF Spec

\* Every variable of the backend keeps its type.
THEOREM TypeCorrect == Spec => []TypeOK
BY LedgerInvariant, PTL DEF LedgerInv

\* The ledger never leaks or loses a reservation: its count and its bytes are
\* those of the tickets out, on every path of every job.
THEOREM LedgerBalanced == Spec => []LedgerBalance
BY LedgerInvariant, PTL DEF LedgerInv
=============================================================================
