--------------------------- MODULE GenerationPlan ---------------------------
(***************************************************************************)
(* The driver that makes a scope of a project current                      *)
(* (rs_cam_viz/src/controller/events/compute.rs and generate_all.rs, with  *)
(* the step order of rs_cam_core/src/session/generation_plan.rs), composed *)
(* with SessionResults: generate a row, simulate what the next rest row    *)
(* starts from, and so on, while answers of older submits, edits, cancels, *)
(* simulations and resubmits come in between.                              *)
(*                                                                         *)
(* The controller is one thread.  pump_plan loops until a step is in       *)
(* flight; each round of that loop is a step here, and the controller does *)
(* nothing else while plan.pumping.  The toolpath lane's worker runs       *)
(* beside it: the first Len(ran) handles of the lane have left its queue,  *)
(* the last of them is still running while busy.                           *)
(***************************************************************************)
EXTENDS SessionResults

CONSTANTS
  Acts,    \* what the operator, the sweep and MCP callers do in this instance
  MaxActs  \* bound of the model: how often they do it

ASSUME ActsAssumption == MaxActs \in Nat

VARIABLES
  plan,        \* AppController::plan, or None
  ran,         \* per handle that left the queue: is its cancel flag set?
  busy,        \* the last of them is the lane's active job
  superseded,  \* superseded_toolpaths
  stale,       \* rows with a stale_since stamp, for the sweep
  waiters,     \* pending_mcp.toolpath: rows a generate_toolpath call waits on
  others,      \* history: what came in the way of the plan that runs
  acts         \* acts so far

driverVars == <<ran, busy, superseded, stale, waiters, others, acts>>
sessionVars == vars
planVars == <<plan, driverVars, sessionVars>>

\* The controller is inside pump_plan, or not.
Pumping == IF plan = None THEN FALSE ELSE plan.pumping
Free    == ~Pumping

-----------------------------------------------------------------------------
(* The steps of a plan.                                                    *)

Generate(r)   == [kind |-> "generate", of |-> r]
Simulate(s)   == [kind |-> "simulate", of |-> s]
SimulateAll   == [kind |-> "simulateAll", of |-> NumSetups]

\* The edges of one consumer.
Sources(r) == StockEdges(project, r) \cup ({project.regions[r]} \ {None})

\* ancestors: r and all it depends on.
Ancestors(r) ==
  LET Grow[set \in SUBSET Rows] ==
        LET more == set \cup UNION {Sources(x) : x \in set \cap Present(project)}
        IN IF more = set THEN set ELSE Grow[more]
  IN Grow[{r}]

\* The elements of a list that are in a set, in their order.
Only(s, set) ==
  LET Kept[i \in 0..Len(s)] ==
        IF i = 0 THEN <<>>
        ELSE IF s[i] \in set THEN Append(Kept[i - 1], s[i]) ELSE Kept[i - 1]
  IN Kept[Len(s)]

CutOrder ==
  LET Upto[s \in 0..NumSetups] == IF s = 0 THEN <<>> ELSE Upto[s - 1] \o project.order[s]
  IN Upto[NumSetups]

\* Mutant: off by one.
SimulateShort(r) == <<Simulate(SetupOf(project, r) - 1)>>

\* A rest row starts from a simulation of its setup and those before.
SimulateBefore(r) == <<Simulate(SetupOf(project, r))>>

\* plan: the enabled rows of the scope in cut order, each rest row behind a
\* simulation when its snapshot is not current or something before it moves.
StepsFor(rows) ==
  LET todo == Only(CutOrder, rows \cap project.enabled)
      Walked[i \in 0..Len(todo)] ==
        IF i = 0 THEN [steps |-> <<>>, gains |-> {}, moved |-> FALSE]
        ELSE LET w == Walked[i - 1]
                 r == todo[i]
                 rest == r \in project.rest
                 simulate == rest /\ (w.moved \/ ~SnapshotIsCurrent(r))
                 gains == \/ result[r] = None
                          \/ rest /\ w.gains # {}
                          \/ Sources(r) \cap w.gains # {}
             IN [steps |-> w.steps
                             \o (IF simulate THEN SimulateBefore(r) ELSE <<>>)
                             \o <<Generate(r)>>,
                 gains |-> IF gains THEN w.gains \cup {r} ELSE w.gains,
                 moved |-> gains \/ (w.moved /\ ~simulate)]
  IN Walked[Len(todo)].steps

\* plan_steps, and the closing simulation of a plan that simulates.
WithClosing(steps) == IF steps = <<>> THEN <<>> ELSE Append(steps, SimulateAll)
OnlyGenerates(steps) == Only(steps, {Generate(r) : r \in Rows})

-----------------------------------------------------------------------------
(* The plan's record.                                                      *)

NewPlan(steps, target) ==
  [steps    |-> steps,
   outcomes |-> [i \in DOMAIN steps |-> "pending"],
   cursor   |-> 1,
   inFlight |-> FALSE,
   pumping  |-> TRUE,
   cancelled |-> FALSE,
   edited   |-> FALSE,   \* edit_counter moved since start_plan
   target   |-> target,
   generated |-> FALSE,  \* generated_anything
   stuck    |-> {}]      \* blocked_setups

\* Mutant: the last step is never taken.
AtLast(p)  == p.cursor >= Len(p.steps)
AtEnd(p)  == p.cursor > Len(p.steps)
Current(p) == p.steps[p.cursor]
OnRow(p, r) == ~AtEnd(p) /\ Current(p) = Generate(r)
OnSimulation(p) == ~AtEnd(p) /\ Current(p).kind # "generate"
Halted(p)  == p.cancelled \/ p.edited

\* Mutant: the step stays in flight.
ClosedInFlight(p, outcome) ==
  [p EXCEPT !.outcomes[p.cursor] = outcome, !.cursor = @ + 1, !.pumping = TRUE]

\* record_step_outcome: close the step in flight and pump.
Closed(p, outcome) ==
  [p EXCEPT !.outcomes[p.cursor] = outcome,
            !.inFlight = FALSE, !.cursor = @ + 1, !.pumping = TRUE]

\* Mutant: only a success is a completion.
CompletedWhenDone(p, r, outcome) ==
  IF p = None \/ ~p.inFlight \/ ~OnRow(p, r) \/ outcome # "done" THEN p
  ELSE Closed([p EXCEPT !.generated = TRUE], outcome)

\* record_plan_toolpath_completion: an answer closes the step in flight if
\* it names its row.  A cancelled generation stops the plan.
Completed(p, r, outcome) ==
  IF p = None \/ ~p.inFlight \/ ~OnRow(p, r) THEN p
  ELSE LET here == IF r \in Present(project) THEN {SetupOf(project, r)} ELSE {}
       IN Closed([p EXCEPT
                    !.generated = @ \/ outcome = "done",
                    !.stuck     = @ \cup IF outcome \in {"blocked", "failed"} THEN here ELSE {},
                    !.cancelled = @ \/ outcome = "cancelled"], outcome)

\* plan_simulation_landed: any simulation closes a simulation step.
Simulated(p, outcome) ==
  IF p = None \/ ~p.inFlight \/ ~OnSimulation(p) THEN p
  ELSE Closed([p EXCEPT !.cancelled = @ \/ outcome # "done"], outcome)

\* toolpath_completion_landed
Landed(p, r, outcome) ==
  /\ waiters' = waiters \ {r}
  /\ plan' = Completed(p, r, outcome)

-----------------------------------------------------------------------------
(* Submitting.                                                             *)

\* stamp_stale of a command: the rows it has dropped.
Stamped == {x \in Rows : result[x] # None /\ result'[x] = None}

\* submit_toolpath_compute, for a plan p or for none: refused at once, or
\* queued behind what has left the queue.  A submit that hits the lane's
\* active job sets its flag and marks its row.
SubmitToolpath(p, r, stamps) ==
  \/ /\ ~CanStart(r)
     /\ Forget(r, lane)
     /\ Landed(p, r, IF r \in project.rest /\ ~SnapshotIsCurrent(r)
                     THEN "blocked" ELSE "failed")
     /\ stale' = stamps \cup (Stamped \ {r})
     /\ UNCHANGED <<ran, busy, superseded>>
  \/ /\ CanStart(r)
     /\ LET n      == Len(ran)
            queued == {i \in (n + 1)..Len(lane) : lane[i].row = r}
            kept   == IF queued = {} THEN lane ELSE Dequeued(lane, CHOOSE i \in queued : TRUE)
            hits   == busy /\ lane[n].row = r
        IN /\ Len(kept) < MaxLane
           /\ lane' = Append(kept, [row |-> r, live |-> TRUE, answer |-> Generated(r)])
           /\ ran' = IF hits THEN [ran EXCEPT ![n] = TRUE] ELSE ran
           /\ superseded' = IF hits THEN superseded \cup {r} ELSE superseded
     /\ result' = [result EXCEPT ![r] = None]
     /\ plan' = p
     /\ stale' = stamps \ {r}
     /\ UNCHANGED <<project, sim, stamp, runs, edits, busy, waiters>>

\* A row that is gone, or that holds a result and is not the plan's target.
GenerateStep(p) ==
  LET r == Current(p).of
  IN /\ Current(p).kind = "generate"
     /\ IF r \notin Present(project) \/ (p.target # r /\ result[r] # None)
        THEN /\ plan' = Closed(p, "skipped")
             /\ UNCHANGED <<ran, busy, superseded, stale, waiters, sessionVars>>
        ELSE SubmitToolpath(p, r, stale)

\* A prefix simulation of a setup whose row is stuck can unlock nothing; the
\* closing one has nothing to show when nothing was generated.
SimulationIsMoot(p) ==
  \/ Current(p).kind = "simulate" /\ Current(p).of \in p.stuck
  \/ Current(p).kind = "simulateAll" /\ ~p.generated
  \/ ~CanSimulate(Current(p).of)

SimulateStep(p) ==
  /\ OnSimulation(p)
  /\ \/ /\ SimulationIsMoot(p)
        /\ plan' = Closed(p, "skipped")
        /\ UNCHANGED sessionVars
     \/ /\ ~SimulationIsMoot(p)
        /\ \E s \in Setups : Current(p).of = s /\ SubmitSimulation(s)
        /\ plan' = p
  /\ UNCHANGED <<ran, busy, superseded, stale, waiters>>

-----------------------------------------------------------------------------
(* pump_plan.                                                              *)

PumpWaits ==
  /\ Pumping /\ plan.inFlight
  /\ plan' = [plan EXCEPT !.pumping = FALSE]
  /\ UNCHANGED <<driverVars, sessionVars>>

\* submit_plan_step; inFlight is set before it, for a refusal to close.
PumpSubmits ==
  /\ Pumping /\ ~plan.inFlight /\ ~Halted(plan) /\ ~AtEnd(plan)
  /\ LET p == [plan EXCEPT !.inFlight = TRUE]
     IN GenerateStep(p) \/ SimulateStep(p)
  /\ UNCHANGED <<others, acts>>

\* finish_plan, after the last step or once the plan was cancelled or the
\* project edited.
FinishPlan ==
  /\ Pumping /\ ~plan.inFlight
  /\ Halted(plan) \/ AtEnd(plan)
  /\ plan' = None
  /\ UNCHANGED <<driverVars, sessionVars>>

Pump == PumpWaits \/ PumpSubmits \/ FinishPlan

-----------------------------------------------------------------------------
(* The lane's worker, and the answers the controller drains.               *)

Take ==
  /\ ~busy /\ Len(ran) < Len(lane)
  /\ busy' = TRUE /\ ran' = Append(ran, FALSE)
  /\ UNCHANGED <<plan, superseded, stale, waiters, others, acts, sessionVars>>

Finish ==
  /\ busy
  /\ busy' = FALSE
  /\ UNCHANGED <<plan, ran, superseded, stale, waiters, others, acts, sessionVars>>

\* Mutant: the mark of the row outlives the answer.
DrainingKeepsMark(r) ==
  /\ Free
  /\ Len(ran) > (IF busy THEN 1 ELSE 0)
  /\ r = Head(lane).row
  /\ ran' = Tail(ran)
  /\ UNCHANGED <<busy, superseded, others, acts>>

\* adopt_toolpath_result takes the oldest finished answer; the mark of its
\* row goes whatever the answer is.
Draining(r) ==
  /\ Free
  /\ Len(ran) > (IF busy THEN 1 ELSE 0)
  /\ r = Head(lane).row
  /\ ran' = Tail(ran)
  /\ superseded' = superseded \ {r}
  /\ UNCHANGED <<busy, others, acts>>

\* The answer is adopted, or refused by its revision; the run ends Done.
DrainOk(r) ==
  /\ Draining(r) /\ r \in Present(project)
  /\ LandOk
  /\ Landed(plan, r, "done")
  /\ stale' = stale \cup Stamped

DrainError(r) ==
  /\ Draining(r) /\ r \in Present(project)
  /\ Forget(r, Tail(lane))
  /\ Landed(plan, r, "failed")
  /\ stale' = stale \cup (Stamped \ {r})

\* The Cancelled of a superseded run is no outcome.
DrainCancelled(r) ==
  /\ Draining(r) /\ r \in Present(project) /\ Head(ran)
  /\ IF r \in superseded
     THEN /\ lane' = Tail(lane)
          /\ UNCHANGED <<plan, stale, waiters, project, result, sim, stamp, runs, edits>>
     ELSE /\ Forget(r, Tail(lane))
          /\ Landed(plan, r, "cancelled")
          /\ stale' = stale \cup (Stamped \ {r})

\* The row was removed: the answer closes what waits and changes nothing else.
DrainRemoved(r) ==
  /\ Draining(r) /\ r \notin Present(project)
  /\ lane' = Tail(lane)
  /\ Landed(plan, r, "failed")
  /\ UNCHANGED <<stale, project, result, sim, stamp, runs, edits>>

Drain == \E r \in Rows : DrainOk(r) \/ DrainError(r) \/ DrainCancelled(r) \/ DrainRemoved(r)

\* adopt_simulation_result; a run of a removed row is discarded as cancelled.
\* A cancel or a later run of the lane may have cancelled it.
DrainSimulation ==
  /\ Free
  /\ \/ /\ LandSimulation
        /\ plan' = Simulated(plan, IF Head(runs).rows \subseteq Present(project)
                                   THEN "done" ELSE "cancelled")
     \/ /\ LoseSimulation
        /\ \/ plan' = Simulated(plan, "failed")
           \/ /\ "cancel" \in others \/ Len(runs) > 1
              /\ plan' = Simulated(plan, "cancelled")
  /\ stale' = stale \cup Stamped
  /\ UNCHANGED <<ran, busy, superseded, waiters, others, acts>>

-----------------------------------------------------------------------------
(* Everybody else.                                                         *)

Act(kind) == kind \in Acts /\ acts < MaxActs /\ acts' = acts + 1

\* start_gui_plan and mcp_start_generate_all refuse while a plan runs.
StartPlan(steps, target) ==
  /\ plan = None
  /\ plan' = NewPlan(steps, target)
  /\ others' = (others \cap {"cancel"})
                 \cup {"generation" : i \in DOMAIN lane} \cup {"simulation" : i \in DOMAIN runs}
  /\ UNCHANGED <<ran, busy, superseded, stale, sessionVars>>

GenerateAll ==
  /\ Act("all") /\ project.enabled \cap Present(project) # {}
  /\ StartPlan(WithClosing(StepsFor(Rows)), None)
  /\ UNCHANGED waiters

\* MCP generate_all with fixpoint: false runs no simulation.
GenerateAllOnce ==
  /\ Act("once") /\ project.enabled \cap Present(project) # {}
  /\ StartPlan(OnlyGenerates(StepsFor(Rows)), None)
  /\ UNCHANGED waiters

GenerateSetupOnly(s) ==
  /\ Act("setup")
  /\ StartPlan(WithClosing(StepsFor(Range(project.order[s]))), None)
  /\ UNCHANGED waiters

\* A GUI Generate of one row, or MCP generate_toolpath, which waits on it.
GenerateToolpath(r) ==
  /\ r \in Present(project)
  /\ StartPlan(WithClosing(StepsFor(Ancestors(r))), r)
  /\ \/ Act("row") /\ UNCHANGED waiters
     \/ Act("mcp") /\ waiters' = waiters \cup {r}

\* process_auto_regen submits a row whose inputs moved; not while a plan runs.
AutoRegen(r) ==
  /\ Act("sweep") /\ plan = None
  /\ r \in Present(project) \cap stale
  /\ SubmitToolpath(None, r, stale \ {r})
  /\ UNCHANGED others

\* The flag of the job the lane runs; queued requests stay.
FlagActive == IF busy THEN [ran EXCEPT ![Len(ran)] = TRUE] ELSE ran

\* Mutant: the cancel pumps whether a step is in flight or not.
CancelPlanPumps ==
  /\ Act("cancel") /\ Free /\ plan # None
  /\ plan' = [plan EXCEPT !.cancelled = TRUE, !.pumping = TRUE]
  /\ ran' = FlagActive /\ others' = others \cup {"cancel"}
  /\ UNCHANGED <<busy, superseded, stale, waiters, sessionVars>>

\* cancel_generation_plan
CancelPlan ==
  /\ Act("cancel") /\ Free /\ plan # None
  /\ plan' = [plan EXCEPT !.cancelled = TRUE, !.pumping = ~plan.inFlight]
  /\ ran' = FlagActive /\ others' = others \cup {"cancel"}
  /\ UNCHANGED <<busy, superseded, stale, waiters, sessionVars>>

\* MCP cancel_generation, on the server's thread: the lane and not the plan.
CancelGeneration ==
  /\ Act("cancelLane") /\ busy
  /\ ran' = FlagActive /\ others' = others \cup {"cancel"}
  /\ UNCHANGED <<plan, busy, superseded, stale, waiters, sessionVars>>

\* An operator's own Run Simulation, beside a plan or not.
RunSimulation ==
  /\ Act("simulate") /\ Free
  /\ SubmitSimulation(NumSetups)
  /\ others' = others \cup {"simulation"}
  /\ UNCHANGED <<plan, ran, busy, superseded, stale, waiters>>

\* The analysis worker panics, or a collision check clears its queue: no
\* message tells the controller.
AnalysisFalls ==
  /\ Act("panic")
  /\ VanishSimulation
  /\ others' = others \cup {"panic"}
  /\ UNCHANGED <<plan, ran, busy, superseded, stale, waiters>>

\* mark_edited: the plan sees the edit when it pumps next.  An edit stamps
\* the rows whose revision it moves, at most all of them.
EditProject ==
  /\ Free
  /\ SomeEdit
  /\ plan' = IF plan = None THEN None ELSE [plan EXCEPT !.edited = TRUE]
  /\ stale' = Rows
  /\ UNCHANGED <<ran, busy, superseded, waiters, others, acts>>

PlanInit ==
  /\ Init
  /\ plan = None
  /\ ran = <<>> /\ busy = FALSE
  /\ superseded = {} /\ stale = Rows /\ waiters = {} /\ others = {} /\ acts = 0

PlanNext ==
  \/ Pump \/ Take \/ Finish \/ Drain \/ DrainSimulation
  \/ GenerateAll \/ GenerateAllOnce
  \/ \E s \in Setups : GenerateSetupOnly(s)
  \/ \E r \in Rows : GenerateToolpath(r) \/ AutoRegen(r)
  \/ CancelPlan \/ CancelGeneration \/ RunSimulation \/ AnalysisFalls \/ EditProject

PlanSpec == PlanInit /\ [][PlanNext]_planVars

\* The controller's loop runs and drains, and the workers answer.
FairPlanSpec ==
  /\ PlanSpec
  /\ WF_planVars(Pump) /\ WF_planVars(Take) /\ WF_planVars(Finish)
  /\ WF_planVars(Drain) /\ WF_planVars(DrainSimulation)

-----------------------------------------------------------------------------
(* Properties.                                                             *)

\* The plan's record is in order: exactly the steps before the cursor have an
\* outcome, and a step in flight is a step of the plan.
PlanTypeOK ==
  /\ plan # None =>
       /\ Range(plan.outcomes) \subseteq {"pending", "done", "blocked", "failed",
                                          "cancelled", "skipped"}
       /\ plan.cursor \in 1..(Len(plan.steps) + 1)
       /\ \A i \in DOMAIN plan.steps : plan.outcomes[i] = "pending" <=> i >= plan.cursor
       /\ plan.inFlight => ~AtEnd(plan)
  /\ Len(ran) <= Len(lane) /\ (busy => ran # <<>>)
  /\ superseded \cup stale \cup waiters \subseteq Rows
  /\ others \subseteq {"cancel", "generation", "simulation", "panic"}

\* A plan outside pump_plan waits for a step in flight, and pump_plan never
\* meets a cancelled or edited plan that still has one: the step lands by
\* itself before the plan stops, and the branch of pump_plan that would cancel
\* the lanes for it is dead.
StepLandsFirst ==
  plan # None =>
    /\ plan.pumping \/ plan.inFlight
    /\ plan.pumping /\ plan.inFlight => ~Halted(plan)

\* Driver, lane and drain together only do what SessionResults allows: every
\* handle that goes in is answered in order, a failed or cancelled one is
\* forgotten by the core, and only an answer that a newer submit of its row
\* replaced has no outcome at all.
StaysInSession == Spec

\* "The plan cannot miss a completion": whatever is refused, fails, is
\* cancelled, superseded or removed under it, every plan ends and lets the
\* next one start, unless the analysis worker lost a simulation silently.
PlanEnds == plan # None ~> plan = None \/ "panic" \in others

Ends == plan # None /\ plan' = None

\* A plan that walks to its end, nobody else's generation in its way, leaves
\* no row of its scope behind: each holds a result that is fresh once its
\* inputs are there, or the plan has reported it blocked or failed.
AllAccountedFor ==
  [][Ends /\ ~Halted(plan) /\ "generation" \notin others =>
       \A i \in DOMAIN plan.steps :
         LET r == plan.steps[i].of
         IN plan.steps[i].kind = "generate" =>
              \/ result[r] # None /\ (InputsHeld(r) => IsFresh(r))
              \/ plan.outcomes[i] \in {"blocked", "failed"}]_planVars

Simulates(p) == p # None /\ \E i \in DOMAIN p.steps : p.steps[i] = SimulateAll

\* The plan simulates what its next rest row starts from: undisturbed, it
\* reports a row as waiting for prior stock only when a row before that one
\* has nothing to cut it with.
BlockedHasACause ==
  [][\A i \in IF Simulates(plan) /\ plan' # None /\ others = {} THEN DOMAIN plan.steps ELSE {} :
       plan'.outcomes[i] = "blocked" /\ plan.outcomes[i] = "pending" =>
         LET r == plan.steps[i].of
         IN \E x \in CarveOrderBefore(project, r) \cap project.enabled : result[x] = None]_planVars

\* "A cancelled generation must resolve any pending MCP generate_toolpath
\* waiter instead of leaving it hanging": a caller waits only while a plan
\* or a generation of its row is under way.
NoCallerIsLeft ==
  \A r \in waiters : plan # None \/ \E i \in DOMAIN lane : lane[i].row = r
=============================================================================
