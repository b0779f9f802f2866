------------------------- MODULE LaneContract_proofs -------------------------
(***************************************************************************)
(* The worker lanes implement LaneContract: every step of ComputeLanes is  *)
(* a step of the contract or leaves what the contract speaks of alone.     *)
(***************************************************************************)
EXTENDS ComputeLanes_proofs

\* What the contract sees of a lane's worker.
BusyWith == [l \in Lanes |-> IF pc[l] \in Busy THEN job[l] ELSE None]

\* A verdict is missing only after a panic on a silent lane.
JudgedAnswers == \A l \in Lanes : pc[l] = "judged" /\ verdict[l] = None => l \in Silent

ContractInv == LedgerInv /\ JudgedAnswers

LEMMA InitContract == Init => ContractInv
<1>1. Init => LedgerInv
  BY LedgerInit
<1>2. Init => JudgedAnswers
  BY DEF Init, JudgedAnswers
<1>3. QED BY <1>1, <1>2 DEF ContractInv

\* A verdict is an answer.
LEMMA VerdictIsAnswer ==
  ASSUME NEW l \in Lanes, NEW a \in Answers
  PROVE  Verdict(l, a) \in Answers
BY LanesAssumption DEF Verdict, Answers, AllLanes

LEMMA StepKeepsJudged ==
  ASSUME LedgerInv, JudgedAnswers, [Next]_vars
  PROVE  JudgedAnswers'
<1> USE DEF laneVars, workerVars, ledgerVars, frameVars, blameVars
<1>1. /\ pc \in [Lanes -> {"prologue", "dozing", "asleep", "admitting", "waiting", "taken",
                           "running", "judged", "sending", "releasing", "exited"}]
      /\ verdict \in [Lanes -> Answers \cup {None}]
  BY DEF LedgerInv, TypeOK
<1> SUFFICES ASSUME NEW k \in Lanes, pc'[k] = "judged", verdict'[k] = None
             PROVE  k \in Silent
  BY DEF JudgedAnswers
<1>2. CASE pc'[k] = pc[k] /\ verdict'[k] = verdict[k]
  BY <1>2 DEF JudgedAnswers
<1>3. CASE FinishJob(k)
  <2>1. PICK a \in Returns(k) : verdict' = [verdict EXCEPT ![k] = Verdict(k, a)]
    BY <1>3 DEF FinishJob
  <2>2. a \in Answers
    BY DEF Returns, Answers
  <2>3. verdict'[k] \in Answers
    BY <1>1, <2>1, <2>2, VerdictIsAnswer
  <2>4. QED BY <2>3, NoneAssumption
<1>4. CASE PanicJob(k)
  <2>1. verdict'[k] = CASE k = "toolpath" -> "error"
                        [] k = "job"      -> Verdict(k, "error")
                        [] OTHER          -> None
    BY <1>1, <1>4 DEF PanicJob
  <2>2. "error" \in Answers /\ Verdict(k, "error") \in Answers
    BY VerdictIsAnswer DEF Answers
  <2>3. k # "toolpath" /\ k # "job"
    BY <2>1, <2>2, NoneAssumption
  <2>4. QED BY <2>3, LanesAssumption DEF Silent, AllLanes
<1>5. ASSUME NEW l \in Lanes, Worker(l) \/ BudgetStop(l) \/ WakeSpuriously(l)
      PROVE  k \in Silent
  <2>1. CASE FinishJob(l) \/ PanicJob(l)
    BY <1>1, <1>2, <1>3, <1>4, <2>1 DEF FinishJob, PanicJob
  <2>2. CASE BudgetStop(l) \/ WakeSpuriously(l) \/ SeeShutdown(l) \/ Doze(l) \/ Sleep(l)
             \/ ReadLimit(l) \/ WaitForLedger(l) \/ Recheck(l) \/ AbandonJob(l)
             \/ StartJob(l) \/ ResetLane(l) \/ SendResult(l)
    <3>1. /\ verdict' = verdict
          /\ \E p \in {"exited", "dozing", "asleep", "admitting", "waiting", "prologue",
                       "running", "sending", "releasing"} :
               pc' = pc \/ pc' = [pc EXCEPT ![l] = p]
      BY <2>2 DEF BudgetStop, WakeSpuriously, SeeShutdown, Doze, Sleep, ReadLimit,
                  WaitForLedger, Recheck, AbandonJob, StartJob, ResetLane, SendResult
    <3>2. QED BY <1>1, <1>2, <3>1
  <2>3. CASE TakeReserved(l) \/ TakeUnreserved(l)
    <3>1. pc' = [pc EXCEPT ![l] = "taken"] /\ verdict' = verdict
      BY <2>3 DEF TakeReserved, TakeUnreserved, Take
    <3>2. QED BY <1>1, <1>2, <3>1
  <2>4. CASE EndIteration(l)
    <3>1. pc' = [pc EXCEPT ![l] = "prologue"] /\ verdict' = [verdict EXCEPT ![l] = None]
      BY <2>4 DEF EndIteration
    <3>2. QED BY <1>1, <1>2, <3>1
  <2>5. QED BY <1>5, <2>1, <2>2, <2>3, <2>4 DEF Worker
<1>6. ASSUME Operator \/ DrainResults \/ Dropping \/ UNCHANGED vars
      PROVE  k \in Silent
  <2>1. ASSUME NEW l \in Lanes, NEW tp \in Toolpaths \cup {None}, NEW est \in Estimates \cup {None},
               Submit(l, tp, est)
        PROVE  k \in Silent
    BY <1>1, <1>2, <2>1 DEF Submit
  <2>2. ASSUME NEW l \in Lanes, CancelActive(l) \/ StoreShutdown(l) PROVE k \in Silent
    BY <1>2, <2>2 DEF CancelActive, StoreShutdown
  <2>3. ASSUME NEW l \in Lanes, NotifyShutdown(l) PROVE k \in Silent
    BY <1>1, <1>2, <2>3 DEF NotifyShutdown
  <2>4. ASSUME CancelSomeJob \/ (\E b \in Limits \cup {None} : SetBudget(b)) \/ DrainResults
               \/ UNCHANGED vars
        PROVE  k \in Silent
    BY <1>2, <2>4 DEF CancelSomeJob, CancelJob, SetBudget, DrainResults, vars
  <2>5. CASE Operator
    BY <2>1, <2>2, <2>4, <2>5
       DEF Operator, SubmitToolpath, SubmitSimulation, SubmitCollision, SubmitReach,
           SubmitJob, CancelLane, RequestCancel
  <2>6. QED BY <1>6, <2>2, <2>3, <2>4, <2>5 DEF Dropping
<1>7. QED BY <1>5, <1>6 DEF Next

\* The initial states are the contract's.
LEMMA InitImplements == Init => Contract!Init
BY DEF Init, Contract!Init, Open, Busy

\* A submit is an acceptance.
LEMMA SubmitAccepts ==
  ASSUME LedgerInv, NEW l \in Lanes, NEW tp \in Toolpaths \cup {None},
         NEW est \in Estimates \cup {None}, Submit(l, tp, est)
  PROVE  Contract!Accept(l, tp, est)
<1> DEFINE r == [serial |-> submitted + 1, tp |-> tp, est |-> est]
<1>1. /\ queue' = [queue EXCEPT ![l] = {q \in @ : ~ Replaces(l, r, q)} \cup {r}]
      /\ submitted' = submitted + 1
      /\ Open
      /\ UNCHANGED <<closing, job, channel>>
  BY DEF Submit
<1>2. \A q : Replaces(l, r, q) = Contract!SameWork(l, r, q)
  BY DEF Replaces, Contract!SameWork
<1>3. queue' = [queue EXCEPT ![l] = {q \in @ : ~ Contract!SameWork(l, r, q)} \cup {r}]
  BY <1>1, <1>2
<1>4. BusyWith' = BusyWith
  BY DEF Submit, BusyWith, LedgerInv, TypeOK, Busy
<1>5. Open' = Open
  BY <1>1 DEF Open
<1>6. QED BY <1>1, <1>3, <1>4, <1>5 DEF Contract!Accept, BusyWith

\* A worker that takes a request begins it.
LEMMA TakeBegins ==
  ASSUME LedgerInv, NEW l \in Lanes, TakeReserved(l) \/ TakeUnreserved(l)
  PROVE  \E r \in queue[l] : Contract!Begin(l, r)
<1>1. PICK r \in OldestOf(queue[l]) : Take(l, r)
  BY DEF TakeReserved, TakeUnreserved
<1>2. r \in queue[l] /\ \A q \in queue[l] : r.serial <= q.serial
  BY DEF OldestOf
<1>3. pc[l] \in {"admitting", "prologue"}
  BY DEF TakeReserved, TakeUnreserved
<1>4. /\ queue' = [queue EXCEPT ![l] = @ \ {r}]
      /\ job' = [job EXCEPT ![l] = r] /\ pc' = [pc EXCEPT ![l] = "taken"]
      /\ UNCHANGED <<channel, submitted, closing>>
  BY <1>1 DEF Take, frameVars
<1>5. BusyWith[l] = None /\ BusyWith' = [BusyWith EXCEPT ![l] = r]
  BY <1>3, <1>4 DEF BusyWith, Busy, LedgerInv, TypeOK
<1>6. Open' = Open
  BY <1>4 DEF Open
<1>7. Contract!Begin(l, r)
  BY <1>2, <1>4, <1>5, <1>6 DEF Contract!Begin, BusyWith
<1>8. QED BY <1>2, <1>7

\* A send is an answer.
LEMMA SendAnswers ==
  ASSUME LedgerInv, NEW l \in Lanes, SendResult(l), NEW a \in Answers, verdict[l] = a
  PROVE  Contract!Answer(l, a)
<1>1. /\ job[l] # None
      /\ BusyWith[l] = job[l] /\ BusyWith' = [BusyWith EXCEPT ![l] = None]
  BY DEF SendResult, LedgerInv, TypeOK, WorkerHolds, BusyWith, Busy
<1>2. /\ channel' = Append(channel, [lane |-> l, serial |-> BusyWith[l].serial,
                                     tp |-> BusyWith[l].tp, answer |-> a])
      /\ UNCHANGED <<queue, submitted, closing>>
  BY <1>1 DEF SendResult, laneVars, frameVars
<1>3. Open' = Open
  BY <1>2 DEF Open
<1>4. QED BY <1>1, <1>2, <1>3 DEF Contract!Answer, BusyWith

\* A job that ends unanswered was given up: the shutdown, or a silent panic.
LEMMA UnansweredGivesUp ==
  ASSUME ContractInv, NEW l \in Lanes, AbandonJob(l) \/ (ResetLane(l) /\ verdict[l] = None)
  PROVE  Contract!GiveUp(l)
<1>1. UNCHANGED <<queue, channel, submitted, closing>>
  BY DEF AbandonJob, ResetLane, laneVars, frameVars
<1>2. BusyWith[l] # None /\ BusyWith' = [BusyWith EXCEPT ![l] = None]
  <2>1. /\ DOMAIN pc = Lanes /\ pc[l] \in {"taken", "judged"} /\ job[l] # None
        /\ \E p \in {"exited", "releasing"} : pc' = [pc EXCEPT ![l] = p]
        /\ \A k \in Lanes \ {l} : job'[k] = job[k]
    BY DEF AbandonJob, ResetLane, ContractInv, LedgerInv, TypeOK, WorkerHolds, Busy
  <2>2. BusyWith[l] # None
    BY <2>1 DEF BusyWith, Busy
  <2>3. BusyWith' = [BusyWith EXCEPT ![l] = None]
    BY <2>1 DEF BusyWith, Busy
  <2>4. QED BY <2>2, <2>3
<1>3. l \in Silent \/ ~ Open
  BY DEF AbandonJob, ResetLane, ContractInv, JudgedAnswers, Shutdown, Open
<1>4. Open' = Open
  BY <1>1 DEF Open
<1>5. QED BY <1>1, <1>2, <1>3, <1>4 DEF Contract!GiveUp, BusyWith

\* Every other worker step leaves the contract's state alone.
LEMMA WorkerStutters ==
  ASSUME LedgerInv, NEW l \in Lanes,
         \/ SeeShutdown(l) \/ Doze(l) \/ Sleep(l) \/ ReadLimit(l) \/ WaitForLedger(l)
         \/ Recheck(l) \/ WakeSpuriously(l) \/ StartJob(l) \/ BudgetStop(l)
         \/ FinishJob(l) \/ PanicJob(l) \/ (ResetLane(l) /\ verdict[l] # None)
         \/ EndIteration(l)
  PROVE  UNCHANGED Contract!vars
<1> USE DEF laneVars, workerVars, ledgerVars, frameVars, blameVars
<1>1. UNCHANGED <<queue, channel, submitted, closing>>
  BY DEF SeeShutdown, Doze, Sleep, ReadLimit, WaitForLedger, Recheck, WakeSpuriously,
         StartJob, BudgetStop, FinishJob, PanicJob, ResetLane, EndIteration
<1>2. BusyWith' = BusyWith
  <2>1. CASE EndIteration(l)
    BY <2>1 DEF EndIteration, BusyWith, Busy, LedgerInv, TypeOK
  <2>2. CASE ~ EndIteration(l)
    <3>1. /\ job' = job
          /\ pc[l] \in Busy => \E p \in Busy : pc' = [pc EXCEPT ![l] = p]
          /\ pc[l] \notin Busy => \E p \in {"exited", "dozing", "asleep", "admitting",
                                            "waiting", "prologue"} :
                                    pc' = [pc EXCEPT ![l] = p]
      BY <2>2 DEF SeeShutdown, Doze, Sleep, ReadLimit, WaitForLedger, Recheck,
                  WakeSpuriously, StartJob, BudgetStop, FinishJob, PanicJob, ResetLane,
                  Busy, LedgerInv, TypeOK
    <3>2. QED BY <3>1 DEF BusyWith, Busy, LedgerInv, TypeOK
  <2>3. QED BY <2>1, <2>2
<1>3. Open' = Open
  BY <1>1 DEF Open
<1>4. QED BY <1>1, <1>2, <1>3 DEF Contract!vars, BusyWith

\* So do cancels and a new budget; a drain collects; Drop closes once.
LEMMA FrameImplements ==
  ASSUME LedgerInv,
         \/ \E l \in Lanes : CancelActive(l)
         \/ CancelSomeJob
         \/ \E b \in Limits \cup {None} : SetBudget(b)
         \/ DrainResults
         \/ Dropping
         \/ UNCHANGED vars
  PROVE  Contract!Collect \/ Contract!Close \/ UNCHANGED Contract!vars
<1> USE DEF laneVars, workerVars, ledgerVars, frameVars, blameVars
<1>1. CASE \/ \E l \in Lanes : CancelActive(l)
           \/ CancelSomeJob
           \/ \E b \in Limits \cup {None} : SetBudget(b)
           \/ UNCHANGED vars
  <2>1. UNCHANGED <<queue, channel, submitted, closing, pc, job>>
    BY <1>1 DEF CancelActive, CancelSomeJob, CancelJob, SetBudget, vars
  <2>2. BusyWith' = BusyWith /\ Open' = Open
    BY <2>1 DEF BusyWith, Open
  <2>3. QED BY <2>1, <2>2 DEF Contract!vars, BusyWith
<1>2. CASE DrainResults
  <2>1. channel' = <<>> /\ UNCHANGED <<queue, submitted, closing, pc, job>>
    BY <1>2 DEF DrainResults
  <2>2. BusyWith' = BusyWith /\ Open' = Open
    BY <2>1 DEF BusyWith, Open
  <2>3. QED BY <2>1, <2>2 DEF Contract!Collect, BusyWith
<1>3. ASSUME NEW l \in Lanes, StoreShutdown(l) PROVE Contract!Close
  <2>1. /\ UNCHANGED <<queue, channel, submitted, pc, job>>
        /\ closing' = [closing EXCEPT ![l] = "stored"]
    BY <1>3 DEF StoreShutdown
  <2>2. BusyWith' = BusyWith /\ ~ Open'
    BY <2>1 DEF BusyWith, Open, LedgerInv, TypeOK
  <2>3. QED BY <2>1, <2>2 DEF Contract!Close, BusyWith
<1>4. ASSUME NEW l \in Lanes, NotifyShutdown(l) PROVE UNCHANGED Contract!vars
  <2>1. /\ UNCHANGED <<queue, channel, submitted, job>>
        /\ pc' = [pc EXCEPT ![l] = IF @ = "asleep" THEN "prologue" ELSE @]
        /\ closing' = [closing EXCEPT ![l] = "notified"]
        /\ closing[l] = "stored"
    BY <1>4 DEF NotifyShutdown
  <2>2. BusyWith' = BusyWith
    BY <2>1 DEF BusyWith, Busy, LedgerInv, TypeOK
  <2>3. ~ Open /\ ~ Open'
    BY <2>1 DEF Open, LedgerInv, TypeOK
  <2>4. QED BY <2>1, <2>2, <2>3 DEF Contract!vars, BusyWith
<1>5. QED BY <1>1, <1>2, <1>3, <1>4 DEF Dropping

\* Every step of the backend is a step of its contract or leaves it alone.
LEMMA StepImplements ==
  ASSUME ContractInv, [Next]_vars
  PROVE  [Contract!Next]_Contract!vars
<1>1. LedgerInv
  BY DEF ContractInv
<1>2. ASSUME NEW l \in Lanes, NEW tp \in Toolpaths \cup {None},
             NEW est \in Estimates \cup {None}, Submit(l, tp, est)
      PROVE  Contract!Next
  BY <1>1, <1>2, SubmitAccepts DEF Contract!Next
<1>3. CASE Operator
  <2>1. CASE (\E l \in Lanes : CancelLane(l)) \/ RequestCancel \/ CancelSomeJob
             \/ \E b \in Limits \cup {None} : SetBudget(b)
    BY <1>1, <2>1, FrameImplements DEF CancelLane, RequestCancel, Contract!Next
  <2>2. CASE \/ \E tp \in Toolpaths : SubmitToolpath(tp)
             \/ \E est \in Estimates : SubmitSimulation(est)
             \/ SubmitCollision \/ SubmitReach \/ SubmitJob
    BY <1>2, <2>2 DEF SubmitToolpath, SubmitSimulation, SubmitCollision, SubmitReach,
                      SubmitJob
  <2>3. QED BY <1>3, <2>1, <2>2 DEF Operator
<1>4. CASE DrainResults \/ Dropping \/ UNCHANGED vars
  BY <1>1, <1>4, FrameImplements DEF Contract!Next
<1>5. ASSUME NEW l \in Lanes, Worker(l) \/ BudgetStop(l) \/ WakeSpuriously(l)
      PROVE  [Contract!Next]_Contract!vars
  <2>1. CASE TakeReserved(l) \/ TakeUnreserved(l)
    BY <1>1, <2>1, TakeBegins DEF Contract!Next
  <2>2. CASE SendResult(l)
    <3>1. PICK a \in Answers : verdict[l] = a
      BY <2>2 DEF SendResult, ContractInv, LedgerInv, TypeOK, WorkerHolds
    <3>2. Contract!Answer(l, a)
      BY <1>1, <2>2, <3>1, SendAnswers
    <3>3. QED BY <3>2 DEF Contract!Next
  <2>3. CASE AbandonJob(l) \/ (ResetLane(l) /\ verdict[l] = None)
    BY <2>3, UnansweredGivesUp DEF Contract!Next
  <2>4. CASE \/ SeeShutdown(l) \/ Doze(l) \/ Sleep(l) \/ ReadLimit(l) \/ WaitForLedger(l)
             \/ Recheck(l) \/ WakeSpuriously(l) \/ StartJob(l) \/ BudgetStop(l)
             \/ FinishJob(l) \/ PanicJob(l) \/ (ResetLane(l) /\ verdict[l] # None)
             \/ EndIteration(l)
    BY <1>1, <2>4, WorkerStutters
  <2>5. QED BY <1>5, <2>1, <2>2, <2>3, <2>4 DEF Worker
<1>6. QED BY <1>3, <1>4, <1>5 DEF Next

\* The lanes implement LaneContract: a lane works on one request at a time,
\* oldest first, answers it at most once, and drops none but for a newer request
\* of the same key, a silent lane's panic or the shutdown.
THEOREM LanesKeepContract == Spec => KeepsContract
<1>1. ContractInv /\ [Next]_vars /\ LedgerInv' => ContractInv'
  BY StepKeepsJudged DEF ContractInv
<1>2. Init => Contract!Init
  BY InitImplements
<1>3. ContractInv /\ [Next]_vars => [Contract!Next]_Contract!vars
  BY StepImplements
<1>4. QED
  BY <1>1, <1>2, <1>3, InitContract, LedgerInvariant, PTL
     DEF Spec, KeepsContract, Contract!Spec
=============================================================================
