------------------------ MODULE BudgetGuard_proofs ------------------------
(***************************************************************************)
(* For every set of polling threads and every plan: the types, and that an *)
(* operator's cancel is never turned into an over-budget stop.  For both   *)
(* heavy lanes, when their algorithms only read the flag: the report names *)
(* who stopped the job.                                                    *)
(***************************************************************************)
EXTENDS BudgetGuard, TLAPS

\* The flag is set by whoever owns the stop, "over" is recorded only for a stop
\* the guard owns, and a swap that found the flag clear made the guard the owner.
Causes ==
  /\ flag <=> owner # None
  /\ reason = "over" => owner = "budget"
  /\ \A t \in Probers : loc[t] = "recording" /\ ~ found[t] => owner = "budget"
  /\ verdict = "over" => reason = "over"

\* With the watcher as the only prober, the reason disagrees with the owner only
\* between the two halves of its stop, and no longer once it is joined.
Alone ==
  /\ \A t \in Pollers : t \notin hands => loc[t] = "idle"
  /\ hands = {} =>
       /\ loc[Watcher] = "recording" /\ found[Watcher] => owner = "user"
       /\ reason = "user" => owner = "user"
       /\ owner = "budget" => \/ reason = "over" /\ loc[Watcher] \in {"answering", "exited"}
                              \/ loc[Watcher] = "recording" /\ ~ found[Watcher]
  /\ OnLane /\ pc \in {"asking", "ended"} => loc[Watcher] = "exited"

\* A cancel of a toolpath job tells its lane before the job.
LaneFirst ==
  /\ telling => surface = "toolpath" /\ laneFlag
  /\ surface = "toolpath" /\ owner = "user" => laneFlag

IInv == TypeOK /\ Causes /\ Alone /\ LaneFirst

-----------------------------------------------------------------------------

LEMMA InitTypeOK == Init => TypeOK
<1> SUFFICES ASSUME Init PROVE TypeOK
    OBVIOUS
<1>1. plan \in Plans /\ 1 \in DOMAIN plan
  <2>1. ASSUME NEW kind \in Steps, plan = [i \in {1} |-> kind]
        PROVE  plan \in Plans /\ 1 \in DOMAIN plan
    <3>1. 1 \in 1..MaxSteps /\ 1..1 = {1}
          BY StepsAssumption
    <3>2. plan \in [1..1 -> Steps]
          BY <2>1, <3>1
    <3>3. QED BY <2>1, <3>1, <3>2 DEF Plans
  <2>2. CASE surface = "toolpath"
        BY <2>1, <2>2 DEF Init, Steps
  <2>3. CASE surface = "analysis"
        BY <2>1, <2>3 DEF Init, Steps
  <2>4. CASE surface = "cli"
    <3>1. PICK n \in 1..MaxSteps : plan \in [1..n -> Steps]
          BY <2>4 DEF Init, Plans
    <3>2. 1 \in 1..n
          BY <3>1, StepsAssumption
    <3>3. QED BY <2>4, <3>1, <3>2 DEF Init
  <2>5. QED BY <2>2, <2>3, <2>4, SurfacesAssumption DEF Init
<1>2. loc \in [Probers -> Places] /\ found \in [Probers -> BOOLEAN]
      BY DEF Init, Places
<1>3. surface \in Surfaces /\ hands \in SUBSET Pollers /\ limited \in BOOLEAN
      BY DEF Init
<1>4. QED BY <1>1, <1>2, <1>3 DEF Init, TypeOK

\* What a prober changes keeps its type.
LEMMA ProbeTypes ==
  ASSUME TypeOK, NEW t \in Probers, Probe(t)
  PROVE  TypeOK'
<1> USE DEF TypeOK, Go, jobVars, guardVars, walkVars, laneVars, Places
<1>1. CASE LoadFlag(t)  BY <1>1 DEF LoadFlag, Stopped
<1>2. CASE ReadUsage(t) BY <1>2 DEF ReadUsage, Levels
<1>3. CASE Arm(t)       BY <1>3 DEF Arm
<1>4. CASE Judge(t)     BY <1>4 DEF Judge
<1>5. CASE Swap(t)      BY <1>5 DEF Swap
<1>6. CASE Record(t)    BY <1>6 DEF Record
<1>7. CASE Answer(t)    BY <1>7 DEF Answer, Stopped
<1>8. QED BY <1>1, <1>2, <1>3, <1>4, <1>5, <1>6, <1>7 DEF Probe

\* The program's own steps keep the types: the walk stays inside its plan.
LEMMA ProgramTypes ==
  ASSUME TypeOK, Program
  PROVE  TypeOK'
<1> USE DEF TypeOK, jobVars, guardVars, walkVars, laneVars
<1>1. ASSUME NEW a \in Answers, LaneReturns(a) PROVE TypeOK'
      BY <1>1 DEF LaneReturns, Return
<1>2. ASSUME NEW a \in Answers, WalkReturns(a) PROVE TypeOK'
      BY <1>2 DEF WalkReturns, Return, NextStep
<1>3. CASE Join        BY <1>3 DEF Join
<1>4. CASE LaneReports
      BY <1>4 DEF LaneReports, AnalysisReports, ToolpathReports, Reports, Answers
<1>5. CASE WalkAsks    BY <1>5 DEF WalkAsks, NextStep
<1>6. QED BY <1>1, <1>2, <1>3, <1>4, <1>5 DEF Program

LEMMA NextTypeOK == TypeOK /\ [Next]_vars => TypeOK'
<1> SUFFICES ASSUME TypeOK, [Next]_vars PROVE TypeOK'
    OBVIOUS
<1>1. CASE UsageMoves
      BY <1>1 DEF UsageMoves, TypeOK, jobVars, guardVars, walkVars, laneVars
<1>2. CASE Cancel
  <2>1. /\ UNCHANGED <<jobVars, reason, armed, walkVars, used, loc, found>>
        /\ laneFlag' \in {laneFlag, TRUE} /\ telling' \in BOOLEAN
        /\ StoreFlag \/ UNCHANGED <<flag, owner>>
        BY <1>2 DEF Cancel, CancelAnalysis, CancelToolpath, CancelToolpathJob, laneVars,
                    guardVars, TypeOK
  <2>2. flag' \in BOOLEAN /\ owner' \in {None, "user", "budget"}
        BY <2>1 DEF StoreFlag, TypeOK
  <2>3. QED BY <2>1, <2>2 DEF TypeOK, jobVars, walkVars
<1>3. CASE Program
      BY <1>3, ProgramTypes
<1>4. ASSUME NEW t \in Probers, Probe(t) PROVE TypeOK'
      BY <1>4, ProbeTypes
<1>5. CASE UNCHANGED vars
      BY <1>5 DEF vars, jobVars, guardVars, walkVars, laneVars, TypeOK
<1>6. QED BY <1>1, <1>2, <1>3, <1>4, <1>5 DEF Next

\* Every variable keeps its type.
THEOREM TypeCorrect == Spec => []TypeOK
BY InitTypeOK, NextTypeOK, PTL DEF Spec

-----------------------------------------------------------------------------

LEMMA InitIInv == Init => IInv
<1> SUFFICES ASSUME Init PROVE IInv
    OBVIOUS
<1>1. TypeOK BY InitTypeOK
<1>2. Causes BY NoneAssumption, <1>1 DEF Init, Causes, TypeOK
<1>3. Alone  BY NoneAssumption, <1>1 DEF Init, Alone, TypeOK, Probers
<1>4. LaneFirst BY NoneAssumption DEF Init, LaneFirst
<1>5. QED BY <1>1, <1>2, <1>3, <1>4 DEF IInv

\* A prober keeps the causes right: only its own place and answer change, and
\* the reason is written once.
LEMMA ProbeIInv ==
  ASSUME IInv, NEW t \in Probers, Probe(t)
  PROVE  Causes' /\ Alone' /\ LaneFirst'
<1> USE NoneAssumption, ThreadsAssumption
    DEF IInv, TypeOK, Causes, Alone, LaneFirst, OnLane, Go, jobVars, guardVars, walkVars, laneVars, Places, Probers
<1>1. CASE LoadFlag(t)  BY <1>1 DEF LoadFlag, Stopped
<1>2. CASE ReadUsage(t) BY <1>2 DEF ReadUsage, Levels
<1>3. CASE Arm(t)       BY <1>3 DEF Arm
<1>4. CASE Judge(t)     BY <1>4 DEF Judge
<1>5. CASE Swap(t)      BY <1>5 DEF Swap
<1>6. CASE Record(t)    BY <1>6 DEF Record
<1>7. CASE Answer(t)    BY <1>7 DEF Answer, Stopped
<1>8. QED BY <1>1, <1>2, <1>3, <1>4, <1>5, <1>6, <1>7 DEF Probe

LEMMA ProgramIInv ==
  ASSUME IInv, Program
  PROVE  Causes' /\ Alone' /\ LaneFirst'
<1> USE NoneAssumption
    DEF IInv, TypeOK, Causes, Alone, LaneFirst, OnLane, jobVars, guardVars, walkVars, laneVars, Probers
<1>1. ASSUME NEW a \in Answers, LaneReturns(a) PROVE Causes' /\ Alone' /\ LaneFirst'
      BY <1>1 DEF LaneReturns, Return
<1>2. ASSUME NEW a \in Answers, WalkReturns(a) PROVE Causes' /\ Alone' /\ LaneFirst'
      BY <1>2 DEF WalkReturns, Return, NextStep
<1>3. CASE Join        BY <1>3 DEF Join
<1>4. CASE LaneReports
      BY <1>4 DEF LaneReports, AnalysisReports, ToolpathReports, Reports, OverBudget, Answers
<1>5. CASE WalkAsks    BY <1>5 DEF WalkAsks, NextStep, OverBudget
<1>6. QED BY <1>1, <1>2, <1>3, <1>4, <1>5 DEF Program

LEMMA NextIInv == IInv /\ [Next]_vars => IInv'
<1> SUFFICES ASSUME IInv, [Next]_vars PROVE IInv'
    OBVIOUS
<1>1. TypeOK'
      BY NextTypeOK DEF IInv
<1>2. CASE UsageMoves
      BY <1>1, <1>2 DEF UsageMoves, IInv, Causes, Alone, LaneFirst, OnLane, jobVars, guardVars, walkVars, laneVars
<1>3. CASE Cancel
      BY <1>1, <1>3, NoneAssumption
         DEF Cancel, CancelAnalysis, CancelToolpath, CancelToolpathJob, StoreFlag, IInv, TypeOK,
             Causes, Alone, LaneFirst, OnLane, jobVars, guardVars, walkVars, laneVars, Probers
<1>4. CASE Program
      BY <1>1, <1>4, ProgramIInv DEF IInv
<1>5. ASSUME NEW t \in Probers, Probe(t) PROVE IInv'
      BY <1>1, <1>5, ProbeIInv DEF IInv
<1>6. CASE UNCHANGED vars
      BY <1>1, <1>6 DEF vars, jobVars, guardVars, walkVars, laneVars, IInv, Causes, Alone,
             LaneFirst, OnLane
<1>7. QED BY <1>2, <1>3, <1>4, <1>5, <1>6 DEF Next

LEMMA Invariance == Spec => []IInv
BY InitIInv, NextIInv, PTL DEF Spec

\* An operator's cancel stays one, and over budget is told only of a job the
\* guard stopped, whatever threads probe and however they interleave.
THEOREM CancelAlwaysWins == Spec => []CancelWins
<1>1. IInv => CancelWins
      BY DEF IInv, Causes, CancelWins
<1>2. QED BY <1>1, Invariance, PTL

\* A heavy lane whose only prober is the watcher tells over budget exactly when
\* the watcher's swap was the first write of the flag, unless the toolpath lane
\* was cancelled before its verdict; and it never tells a stopped job as done.
THEOREM LanesNameTheOwner == Spec => LaneNamesTheOwner
<1> DEFINE Tells == OnLane /\ hands = {} /\ verdict' # verdict
                      => /\ verdict' = "over" <=>
                              owner = "budget" /\ ~ (surface = "toolpath" /\ laneFlag)
                         /\ verdict' = "ok" => ~ flag
<1>1. IInv /\ [Next]_vars => [Tells]_vars
  <2> SUFFICES ASSUME IInv, Next, OnLane, hands = {}, verdict' # verdict
               PROVE  /\ verdict' = "over" <=>
                           owner = "budget" /\ ~ (surface = "toolpath" /\ laneFlag)
                      /\ verdict' = "ok" => ~ flag
      OBVIOUS
  <2>1. LaneReports
        BY DEF Next, UsageMoves, Cancel, CancelAnalysis, CancelToolpath, CancelToolpathJob,
               Program, LaneReturns, WalkReturns, WalkAsks, Join, LoadFlag, ReadUsage, Arm,
               Judge, Swap, Record, Answer, Probe, OnLane, walkVars
  <2>2. loc[Watcher] = "exited"
        BY <2>1 DEF IInv, Alone, LaneReports, AnalysisReports, ToolpathReports, Reports
  <2>3. reason = "over" <=> owner = "budget"
        BY <2>2 DEF IInv, Causes, Alone
  <2>4. answer # "over" /\ (flag => owner \in {"user", "budget"})
        BY NoneAssumption DEF IInv, TypeOK, Causes, Answers
  <2>5. CASE AnalysisReports
        BY <2>3, <2>4, <2>5 DEF AnalysisReports, Reports, OverBudget
  <2>6. CASE ToolpathReports
        BY <2>3, <2>4, <2>6 DEF ToolpathReports, Reports, OverBudget, IInv, LaneFirst
  <2>7. QED BY <2>1, <2>5, <2>6 DEF LaneReports
<1>2. QED BY <1>1, Invariance, PTL DEF Spec, LaneNamesTheOwner
=============================================================================
