# rs_cam: verification project

rs_cam is a CAM program: it turns models and operation settings into toolpaths,
simulates the stock they leave, and exports G-code. This directory holds TLA+
specifications of the parts of it whose correctness depends on order and
interleaving, the TLC configurations that check them on small instances, and
proofs that TLAPS checks for every instance. Paths below are relative to the
repository; `core` is `src/crates/rs_cam_core/src`, `viz` is
`src/crates/rs_cam_viz/src`.

## 1. The system

### 1.1 Components

| Component | State it keeps | Operations | Hard behaviour | What makes it correct |
|---|---|---|---|---|
| Compute backend (`viz/compute/worker.rs`) | four lanes, each a queue, a worker thread, an active job, a status label and cancel flags; a memory ledger; a bounded result channel | submit, cancel a lane, cancel all, cancel one job, set the memory limit, drain, drop | one thread per lane against the frame loop; flags shared by successive jobs; admission waits; panics; shutdown | a replaced run is told to stop; every request settles once with the right cause; the ledger balances; the status is honest |
| Session result cache (`core/session`) | toolpath rows in setups, their results, a revision per row, one simulation with prior-stock snapshots and their records, a simulation epoch | about sixty commands; generate handles; adopt and forget; the currency rule of a snapshot | results are functions of earlier results and of a simulation, and all of them arrive late | no result outlives its inputs; a snapshot judged current is the true stock; a ready row can always be unblocked |
| Controller (`viz/controller`) | runs per row, one stamp for the simulation in flight, `superseded_toolpaths`, a generation plan, MCP waiters | submit and adopt results, forget failures, the auto-regeneration sweep, the plan pump | late and superseded answers, edits in the middle of a plan | each answer lands on the right request; a plan ends and reports every step once |
| Generation plan (`core/session/generation_plan.rs`, CLI `project.rs`) | nothing; a pure order of steps | plan, ancestors, run | order between setups, region edges, phantoms | executing the plan leaves no enabled row without a result or a reason |
| Memory budget (`core/budget`) | flag, first stop reason, probe clock, watch thread | stop, poll, watch | two writers of one reason | the first cause is the reported one |
| MCP proxy (`rs_cam_mcp_proxy/src/proxy.rs`) | a child process slot with a generation, requests in flight, a start queue | route, spawn, handshake, stop, restart, shutdown | three threads per child, exits racing reads, restarts racing shutdown | each client request is answered exactly once; one child at a time |
| MCP bridge and server (`viz/mcp_*.rs`) | one-shot senders | request and reply to the frame loop | waiters of replaced work | every waiter is answered |
| Simulation kernel (`core/compute/simulate.rs`, `core/dexel_stock`) | none between calls | simulate groups of toolpaths, carry stock between setups | floating-point geometry | which stock a group starts from is the recorded one |
| Operations, finishing, adaptive, dressups, feeds, G-code, import, geometry, diagnostics, settings | none, or configuration | pure functions of their inputs | numerical | tested numerically; not modelled |
| App shell, UI, rendering | view state | draw, emit events | none beyond the controller | not modelled |

### 1.2 How they interact

The frame loop owns the controller, and the controller owns the session and the
backend. User events and MCP requests become session commands; a command that
changes inputs drops results and reports `Effects`. To generate a row the
controller asks the session for a *handle* (all inputs captured by value, with
the row's revision) and submits it to the toolpath lane. To simulate, it builds
groups from the held results, stamps the simulation epoch and submits to the
analysis lane. Workers answer through one channel, which the frame loop drains;
an answer becomes an `AdoptResult`, `ForgetResult` or `AdoptSimulation` command
with the captured revision or the stamp, and the session refuses it if these
moved.

`ComputeLanes` models the backend with all its threads and `SessionResults` the
session with the controller's submit and adopt doors. They meet at the lane:
`LaneContract` is what the first promises, and the two queues of
`SessionResults` (`lane`, `runs`) use no more than that: answers come oldest
first, at most once, a queued request of the same row is replaced, and a
replaced *running* request may still answer anything. `GenerationPlan` composes
`SessionResults` with the driver that works through a plan, the lane's active
job and the supersede marks. `BudgetGuard` opens up one atomic step of
`ComputeLanes`, the guard's stop. `ProxySupervisor` stands alone: the proxy is
another process, and meets the GUI only through pipes.

## 2. Modules

| Module | Kind | About |
|---|---|---|
| `LaneContract` | abstract specification | lanes without threads, locks or flags |
| `ComputeLanes` | component | the threaded backend; its properties; the refinement mapping to `LaneContract` |
| `ComputeLanes_proofs` | proofs | types and the ledger |
| `StaleRuns_proofs` | proofs | a replaced run has been told to stop |
| `LaneAnswers_proofs` | proofs | answers name their cause; the status is honest |
| `LaneContract_proofs` | proofs | the lanes implement the contract |
| `SessionResults` | component | commands, walk, sweep, snapshots, currency, the two GUI queues |
| `SessionResults_proofs` | proofs | types; accepted snapshots are true, kept results fresh; what a simulation unblocks |
| `GenerationPlan` | composition | the plan driver, the sweep, waiters and cancels over `SessionResults` |
| `GenerationPlan_proofs` | proofs | the driver implements `SessionResults`; a plan's record stays in order; a step lands before its plan stops; an undisturbed plan leaves no row behind |
| `BudgetGuard` | component | flag, reason and watch thread of one job, in the toolpath lane, the analysis lane or the command line's walk |
| `BudgetGuard_proofs` | proofs | a cancel is never told as over budget; each heavy lane names whoever stopped its job |
| `ProxySupervisor` | component | the MCP proxy, its threads, its children and its client |
| `ProxySupervisor_proofs` | proofs | types; each request answered at most once, none lost; one GUI; ready is complete |
| `MCComputeLanes`, `MCSessionResults`, `MCGenerationPlan`, `MCBudgetGuard` | TLC instances | lanes, limits, projects and surfaces of the runs |

Operators whose comment begins with "Mutant" are variants of the definition
next to them with a plausible mistake. No specification uses them; they
document which mistake each property would expose. `PROJECT.json` pairs them
and maps every definition to its source lines.

### 2.1 ComputeLanes

*State.* A request is a record of its submission number, toolpath and
simulation estimate; since queues grow only at the back, a queue is the set of
its requests. `pc` places each worker in its loop: `prologue` (the top of the
loop, lane mutex free), `dozing` and `asleep` (before and in the condvar wait),
`admitting` (between reading the limit and the ledger lock), `waiting` (for a
ledger release), `taken`, `running`, `judged` (verdict computed, lane not yet
reset), `sending`, `releasing` (ticket not yet dropped), `exited`. A step that
the code performs under one mutex is one action; wherever it releases and takes
a lock again there is a `pc` value between, which is where the races are.
`dozing` and `admitting` keep the lane mutex, which `LockFree` tells the frame
loop's actions.

*Actions.* One per handler of the frame loop (`SubmitToolpath`,
`SubmitSimulation`, `SubmitCollision`, `SubmitReach`, `SubmitJob`, `CancelLane`,
`RequestCancel`, `CancelSomeJob`, `SetBudget`, `DrainResults`, and the two
steps of `Drop`) and one per step of a worker. `BudgetStop` is the guard's
probe or watch thread stopping a limited job. `PanicJob` is a caught panic.
The variables under "History" record causes and only properties read them.

*Abstractions.* A job's body is "it ends, errs or panics at some time, or sees
the flag it polls". The usage probe answers a member of `Readings`. Progress
counters, labels and the simulation prefix memo are left out.

### 2.2 SessionResults

*State.* `project` is the session's configuration that the properties can tell
apart: the order of rows in each setup, and per row whether it is enabled,
whether it starts from remaining stock ("rest"), whose rest regions clip it,
whether its rest analysis is on, and its settings (`param`; those in
`IdleParams` generate an empty toolpath, those in `FineParams` use a tool that
needs a finer cell); per setup a face and whether a stock change is enabled.
`Project` is its type; `OnePlace` is the partition that the code checks in debug
builds (`toolpath_partition_holds`), assumed of a project that is opened and
proved of every one an edit makes.
`result` is what each row holds, a record of the inputs that produced it, which
makes "stale" expressible: a result is fresh when the record is what the
project would give now. `sim` maps each row with a prior-stock snapshot to the
record of its source (`SourceStock`); a result generated from fresh stock has
none (`NoSource`). `lane` and `runs` are the generations and
simulations in flight. A handle and the stamp keep `live`, that is "the
revision (epoch) I captured is still the current one": counters that only grow
and are compared for equality carry no more information.

*Actions.* `SetParam` stands for each setter of a row's own configuration
(settings, heights, dressups, tool, model), which all go through
`invalidate_result_chain`; the other edits are the commands of the same name. An
edit is one action with all that its command does: new configuration, drops by
the walk (`Walk`, a fixpoint over Stock and Regions edges), the sweep over rest
records (`Swept`, run after *every* command by `try_with_effects`), the
revisions of both, and `drop_simulation`. `Submit`, `LandOk`, `LandErr`,
`SubmitSimulation`, `LandSimulation` and `LoseSimulation` are the controller:
a submit that is refused forgets the row's result; a stale answer is refused;
an error or cancel forgets, unless it is the `Cancelled` of a run that was
superseded.

*Abstractions.* (1) A generator is a function of what its handle captured.
(2) Moves are compared as what they were generated from; moves are in the
setup's own frame, so the digest does not see a face edit, the worst case for
the currency rule. (3) The resolution is Auto. (4) A face edit stays on the
tool axis of its setup, so `Lateral` is constant. (5) Feed modulation changes
feeds and no move, so it is left out. (6) What a later `Add` brings is fixed in
the initial project. (7) Commands that drop all results (stock, pins, machine,
model refresh, tool edits) are not there yet: they use the same doors with more
rows as seeds.

### 2.3 GenerationPlan

*State.* `plan` is `AppController::plan`: its steps, their outcomes, the cursor,
whether a step is in flight, whether the controller is inside `pump_plan`, and
the flags that stop it. The lane of `SessionResults` gets what the driver depends on:
the first `Len(ran)` handles have left the queue, each with its cancel flag, and
the last of them still runs while `busy`. `superseded`, `stale` and `waiters`
are the controller's sets of rows with a supersede mark, with a stale stamp, and
with an MCP caller waiting. `others` is history: what came in the way of the
plan that runs, so that a property can say "undisturbed".

*Actions.* Starting a plan in its four forms (`GenerateAll`, its MCP form
without simulations, one setup, one row with its ancestors, the last also for
an MCP caller); each round of the pump (`PumpWaits`, `PumpSubmits`,
`FinishPlan`); the worker (`Take`, `Finish`); the drain, one action per kind of
answer; the sweep (`AutoRegen`); the plan's cancel and the lane's
cancel; the operator's own simulation; a silent panic of the analysis worker;
any edit of `SessionResults`. The controller is one thread: while
`plan.pumping` it does nothing else, which `Free` says.

*Abstractions.* A `Simulate` step keeps its setup and not the row it goes up
to, which only messages name. The several ways in which a submit is
refused (validation, lateral setup, missing tool) are the refusal of
`SessionResults`; preflights, confirmations and the counters of the reply are
left out (section 6).

### 2.4 BudgetGuard

*State.* The guard's atomics (`flag`, `reason`, `armed`), the watch's `done`,
and where each prober is inside `probe_now` (`loc`, with `found` the value its
swap returned). `surface` says which of three programs runs the job: the toolpath
lane or the analysis lane, which join the watcher before they ask for the
reason, or the command line's walk over a plan, which asks while the watcher
still runs. The guard of an analysis job owns the lane's own flag; the guard of
a toolpath job owns the job's flag (`worker.rs:1500`), and `laneFlag` is the
other one, the lane's. `answer` is what the job returned, `telling` that a
cancel stands between its two stores. `owner` is history: whose write of the
job's flag was the first.

*Actions.* One per atomic access of a probe (`LoadFlag`, `ReadUsage`, `Arm`,
`Judge`, `Swap`, `Record`, `Answer`), the operator's stores, the job's return,
the join, and the three readers of the reason. A cancel or a supersede of an
analysis job is one store (`CancelAnalysis`), of a toolpath job two, the lane's
first (`CancelToolpath`, `CancelToolpathJob`). `AnalysisReports` asks for the
reason first and for the flag after it (`worker.rs:1639`), `ToolpathReports`
for the lane's flag first (`worker.rs:1518`). Usage moves freely. A reading is
under, over or unknown, which is all the stop rule uses. The rate limit of
a poll only decides whether it probes, so it is a free choice.

### 2.5 ProxySupervisor

*State.* `Inner` field by field (`slot`, `nextGen`, `queue`, `waits`,
`restarting`, `shutting`), the children (`proc`, what they have been sent, what
is in their stdout pipe), the client's progress, and one program counter per
thread: the initialize greeter, each stop, each restart, each child's waiter and
reader. `abandoned` is history: requests whose child's slot was overwritten.

*Actions.* One region under the state lock is one action, so threads interleave
exactly where the code lets go of the lock. A wait with a deadline may end at
any moment. The child is external: it answers any request it holds, or exits,
or closes its stdout, at any time.

## 3. What the runs check

All runs set `CHECK_DEADLOCK FALSE`: every behaviour of these instances ends
once its bounded submissions or edits are used up and its answers are drained,
and the backend also ends in `Drop`; a state with nothing left to do is normal.
That something is left undone is the subject of the liveness properties.

Times are for two TLC workers on an otherwise idle machine.

### 3.1 Compute lanes

| Run | States, time | Instance | Question |
|---|---|---|---|
| `lanes_heavy` | 183,500, 80 s | toolpath and analysis lanes, two toolpaths, cancels, a limit set and lifted, fair workers | does the ledger count the tickets that are out on every path; does an answer blame only what reached its own job; is a replaced run told to stop, and only its own toolpath's; does each request leave its lane; do the two lanes implement `LaneContract` |
| `lanes_light` | 600,367, 60 s | reach and job lanes, cancel and drop | is the status honest; do they implement `LaneContract` |
| `lanes_shutdown` | small | the job lane | a statement of the repository that does not hold, see section 5 |

*Bounds.* On the light lanes three submissions are enough for a running job, a
queued one and one that replaces either; on the two heavy lanes two are enough
for a job on each, and for a predecessor and its successor, of the same
toolpath or of another, on one. The two heavy lanes are all that share the
ledger; a channel of one message (64 in the code) makes the blocking send
happen; a limit of 4 against an estimate of 5 makes a simulation over the limit,
which must wait for the other lane and then run alone. `Powers` gives each
instance the operator actions its question is about. Three light or heavy lanes
at once add only products of independent states. The safety properties are
proved for all instances (section 4), so their bounds matter for liveness only.

*Fairness* (`lanes_heavy`, `lanes_shutdown`): weak fairness of each worker
thread (the scheduler runs a runnable thread, and a job's body ends), of
draining (the frame loop and the off-frame pump drain on every tick), and of a
`Drop` that has begun. Nothing is assumed of submits, cancels, budget stops,
panics or spurious wake-ups. Weak fairness is enough because the step a worker
waits for stays enabled until it takes it.

### 3.2 Session results

| Run | States, time | Instance | Question |
|---|---|---|---|
| `results_fresh` | 470,051, 116 s | two projects over two setups, one edit of any kind but a reorder or a new row, two generations in flight, empty generations and the fine cell | does an enabled row ever hold a result that its inputs no longer give; is an accepted snapshot the true stock; does a simulation give a ready row one that is accepted |
| `results_overlap` | 579,579, 128 s | two rows beside, into and out of a lateral setup, or one and a row to add; three edits of settings, order, rows and stock changes; two simulations in flight | are setups a partition of the rows; is an accepted snapshot the true stock even when the stamp is taken by the wrong run, or a setup neither takes nor hands on stock; is a result kept through a disable, a reorder or a late answer fresh |
| `results_stamp`, `results_reorder`, `results_lateral` | small | minimal | see section 5 |

*Properties.* `HeldResultsAreFresh` compares each held result with what
generating now would give. It looks at enabled rows (a disabled one may keep
anything) whose inputs are held: while a source is being regenerated, its
consumer's record cannot be compared with anything. It is a statement about
whole histories: an edit, a late answer, a forget and a simulation of an older
project all have to go wrong together. `OrderedResultsAreFresh` is the part of
it that survives a reorder. `CurrentSnapshotIsTrue` is the soundness of the
currency rule and `SimulationUnblocks` its completeness: a rule that accepted
nothing would satisfy the first and make every rest row impossible.
`OrderedSnapshotIsTrue` is the part of soundness that survives a reorder while
two simulations are in flight. `AdoptedSimulationIsLive` is the promise of the
epoch stamp, which `results_stamp` refutes.

*Bounds.* One edit between two arbitrary prefixes of generating and
simulating reaches every state in which the edit finds some results held, some
in flight and some missing; two or three edits are given to smaller projects
where the order of edits is the question. In `results_fresh` a lane of two
handles holds a superseded run and its replacement, and one simulation is in
flight, since with two the session may adopt the older one after a face edit or
a move. `results_overlap` has the two in flight, and the edits for which its
properties hold: all that keep a row in its setup and the setup as it lies.
There one handle is in flight, which is enough for an answer that is late.
Two or three rows over two or three setups give each dependency shape: above in
the same setup, previous setup, no edge at all (the record alone must notice),
and regions.

### 3.3 Generation plan

| Run | States, time | Instance | Question |
|---|---|---|---|
| `plan_steps` | 160,786, 119 s | a rest row on a row, a third on both across a flip and clipped by the first; any three acts, a row removed at any moment, three handles and two simulations in flight | does every plan end; is the record in order and the step in flight the only one; does an undisturbed plan account for every row; does it simulate what its next rest row needs; do driver, lane and drain do only what `SessionResults` allows |
| `plan_waiter` | small | an MCP call and a cancel on a rest pair | see section 5 |

*Bounds.* Three acts are a plan and two disturbances: a cancel and a second
plan, the sweep and a plan's own submit of the same row, a simulation of the
operator's and a panic. `MaxLane = 3` holds a superseded run, its replacement
and a third row; `MaxRuns = 2` the plan's simulation and another.
The edit of this run is a removal, which moves indices, drops results, and takes
a row out from under its step; the kinds of edits are the question of
`results_fresh`.

*Fairness* (`FairPlanSpec`): the controller's loop pumps and drains, the
toolpath worker takes and finishes, and a simulation in flight is answered.
`PlanEnds` excuses a silent panic, which the code never tells the controller of.

### 3.4 Memory guard

| Run | States, time | Instance | Question |
|---|---|---|---|
| `guard_stop` | 97,563, 14 s | the watcher, two polling threads, an operator; a job of each heavy lane and walks of two steps | is a cancel ever told as over budget; does each lane name whoever stopped its job; is an outgrown job stopped; does dropping the watch return |

Two polling threads beside the watcher give any pair of racing swaps. No
algorithm of the program polls the guard today (only the watcher probes);
the model lets them, since `poll` is the guard's public door, and
`LaneNamesTheOwner` is about the job without them, as the lanes run it. It says
that a lane tells over budget exactly when the watcher's swap was the first
write of the job's flag, with the exception that the toolpath lane makes on
purpose: a job whose lane was cancelled or superseded before the verdict is told
as cancelled, even if the budget had stopped it first (`worker.rs:1514`). It
also says that no job whose flag is set is told as done, which on the toolpath
lane rests on the order of a cancel's two stores. A swap of the two questions of
the toolpath lane, or of the two stores, violates it, and so does a lane that
does not join its watcher. `LaneNamesTheOwner` is also why `BudgetStop` may be one step in `ComputeLanes`.
*Fairness:* the watch thread is scheduled and a program goes on once it has its
answer; a step may run for ever.

### 3.5 Proxy

| Run | States, time | Instance | Question |
|---|---|---|---|
| `proxy_calls` | 501,426, 142 s | one request, a `gui_stop`, a `gui_restart`, two children, one fault, two of a stop, a restart, a cancel, the close and `--auto-restart` | is a request answered twice, or lost but by the one way `abandoned` names; is there ever a second GUI; is a ready child complete; does every proxy tool answer |

*Bounds.* Two children are a child and its replacement, which is what
generation numbers tell apart. One fault at any point of a handshake, a stop or
a restart; two calls race each other, and each races the fault. One request is
enough for a second answer or a loss, which the proofs extend to any number.

*Exception.* A stop gives up on a child after its deadlines (`proxy.rs:979`). A
restart that follows overwrites the slot of that child, and the requests in
flight to it are answered by nobody. `NothingLost` names them (`abandoned`) and
says that there is no other way to lose one; `FEATURE_CATALOG.md:204` promises
an answer to each.

*Fairness:* the thread of each proxy tool runs, and its waits end, by an answer
or by their deadline. The child and the client owe nothing.

## 4. What is proved

TLAPS proves the following for all values of the constants, from the named
assumptions of each module (the bounds are naturals, `None` is none of the
values it stands beside, lanes are among the four, a channel has room for one
message, thread and call names are distinct). `Max...`, `Powers`, `Acts` and
`Edits` only restrict behaviours, so the theorems cover any number of
submissions, edits, calls and faults.

* `TypeCorrect` and `LedgerBalanced` (`ComputeLanes_proofs`). `LedgerBalance`
  says when a worker has a ticket and that the two counters are the sums of the
  tickets. It is not inductive: a ticket is issued for the request a worker is
  about to hold, so one also has to know when `job` and `verdict` are present.
  `WorkerHolds` says so, and `LedgerInv == TypeOK /\ WorkerHolds /\
  LedgerBalance` is inductive. One lemma per group of actions; the two heavy
  lanes are told apart by cases because the counters are shared.
* `StaleRunsStop` (`StaleRuns_proofs`). The submit that queues a request sets
  the flag of the job the *lane* announces, while the property is about the job
  the *worker* holds, so `Announced` relates the two; and taking a request must
  not leave another of the same work behind, which is `QueueDistinct`. With
  types and the property itself these make `StaleInv`.
* `AnswersBlameTheCause` (`LaneAnswers_proofs`). By the time an answer is sent
  the flags that decided it may belong to the next job, so the invariant
  accounts for every flag as it is set: `LaneBlame` says that a flag the working
  job is judged by, and then its verdict, has a cause in the history, and
  `LaneOrder` that submissions are numbered in queue order, so that the flag a
  guard sets for its own job is never read for another. `BlameInv` adds
  `Announced`, which ties a cancel of what the lane announces to the job the
  worker holds.
* `SnapshotsAreHonest` (`LaneAnswers_proofs`). The status is stronger than the
  property states: it is right in the two steps that keep the mutex as well.
  `Shows` adds that a dozing worker's queue is empty, and where in its loop a
  worker may have left a job announced.
* `LanesKeepContract` (`LaneContract_proofs`). Step simulation under the
  refinement mapping of `ComputeLanes`: a submit maps to `Accept`, a take to
  `Begin`, a send to an answer, a silent panic to giving up, and
  each other step to a stutter. It uses `LedgerInv`, and that a worker about
  to send has a verdict which is an answer (`JudgedAnswers`).
* `TypeCorrect` (`SessionResults_proofs`): the setups stay a partition of the
  rows through every edit, and only rows of the project hold results. `Typed`
  adds to `TypeOK` the shape of every record that an answer, a handle, a
  snapshot or a run carries, and that the rows they name were given out. What
  the walk and the sweep return is the hard part: `Walk` and `Swept` are
  recursive functions on sets of rows, and `ClosureSettles` shows, by
  well-founded induction on the growing sets, that they end in a set that one
  more step leaves alone.
* `OrderedSnapshotsAreTrue`, `NoFalseSnapshot`, `KeptResultsAreFresh` and
  `NoStaleResult` (`SessionResults_proofs`): the soundness of the currency rule and the
  freshness of results. None of their properties is inductive, since they
  compare with the project of the moment and say nothing of what is off at
  present: a disabled row, a snapshot that is refused now, a handle in flight.
  `Fresh == Typed /\ SnapshotsTold(Ordered) /\ HeldTold /\ LaneTold` is: each record of a
  snapshot, of a held result and of a live handle still tells where its entries
  sit and what they were carved with (face, carried setups, order), so that
  when the rule finds the same moves it finds the same stock; and a held result
  or a live handle tells the row's settings and regions as they are. One lemma
  per kind of edit says what it carries over (`ParamCarries` to `MoveCarries`),
  `CommandKeeps` what a walk and a sweep leave, and `CurrentIsTrue` is the step
  from the rule to the stock. The rule compares moves and not places or faces,
  so the theorems need one of two things: that no edit of the instance is a face
  edit or a move (`PlacesFixed`), or that every adopted simulation has seen
  every edit (`AdoptedSimulationIsLive`). Under the first they hold for any
  number of simulations in flight, whichever of them takes the stamp: this is
  what the code keeps. The second is a hypothesis that the code does not
  guarantee, as `results_stamp` shows; it is for the behaviours in which no
  simulation takes the stamp of another. Neither can be dropped: with two simulations in flight and a
  face edit, or moves between setups that lie differently, TLC finds a
  behaviour in which even `OrderedSnapshotIsTrue` fails, and with a reorder one
  in which `CurrentSnapshotIsTrue` does (section 5), so `NoFalseSnapshot`
  excludes reorders under the first. `NoStaleResult` excludes reorders under both, since
  `results_reorder` refutes it with them.
* `RefusedOnlyForWhatIsLeftOut` and `SimulationAlwaysUnblocks`
  (`SessionResults_proofs`): for any set of lateral setups, the snapshot that a
  simulation makes for a row with nothing left to generate before it is accepted
  *exactly* when no setup left out of its stock cuts or changes anything. So
  without lateral setups a ready row is always unblocked, and `results_lateral`
  shows the only way in which it is not.
* `DriverStaysInSession` (`GenerationPlan_proofs`). A refinement of
  specifications: each step of plan, lane and drain is a step of
  `SessionResults` or leaves the session alone. The hard part is a swallowed
  answer: a supersede mark must belong to a handle behind which a newer one of
  the same row waits (`LaneInOrder`, `MarkedHasNewer`), or the driver would drop
  an answer that the session still owes.
* `StepAlwaysLandsFirst` (`GenerationPlan_proofs`): `Settled` is the inductive
  form; the branch of `pump_plan` that would cancel the lanes for a cancelled
  plan with a step in flight is dead code.
* `PlanStaysInOrder` (`GenerationPlan_proofs`): `PlanTypeOK`, from the shape of
  a plan (`IsPlan`), `LaneInOrder` and the session's `TypeCorrect`, which the
  driver inherits. That `StepsFor` is a list of steps of the project's rows and
  setups takes three recursions along lists (`Only`, `CutOrder` and the walk of
  `StepsFor`); `IterateExists` and `StepsKeep` are the two facts about such
  functions, each by a least counterexample.
* `DriverKeepsResultsFresh` (`GenerationPlan_proofs`): types, true snapshots and
  fresh results for the composed system, under any plans, sweeps, cancels and
  supersedes and under the same condition, both as far as what was read still
  cuts before the row.
* `PlanLeavesNoRowBehind` and `EditedInPlaceNoRowIsLeft`
  (`GenerationPlan_proofs`): `AllAccountedFor`, for any project and scope. The
  difficulty is that every answer that lands drops rows, by a walk and then a
  sweep, and may drop what the plan has made. The invariant is `WalksOn`: while
  nobody halts the plan and no older generation is in its way, the steps left
  are in cut order, every row before the cursor holds a result or was reported
  (`Accounted`), and the lane is idle or holds just the step in flight
  (`Awaited`), whose recorded source is current and behind whose row everything
  out of date lies. So what lands is kept, and what it drops cuts later. It
  rests on three things: plans list their steps in cut order (`PlannedInOrder`,
  through the recursions of `CutOrder`, `Only` and `StepsFor`); walks and
  sweeps that start at a row stay behind it (`WalkGoesOn`, `CommandGoesOn`); and
  a lane with no live handle leaves nothing out of date (`IdleIsSettled`), since
  a submit takes a result away without a sweep and only its answer sweeps.
  The freshness half is `NoStaleResult`. Three hypotheses: no reorder, which
  `results_reorder` refutes; places fixed or adopted simulations live, as for the
  session; and a boundary names only a row that cuts earlier (`RegionsInOrder`),
  without which the consumer is generated first and its source's answer then
  drops it (TLC finds the behaviour when a boundary names a later row).
  `EditedInPlaceNoRowIsLeft` has them from the constants: for the edits that
  neither add, move nor clip a row, `plan_steps`' among them, it suffices that
  the projects open with their boundaries in order. Nothing is assumed of
  lateral setups. Both take from the constants that `None` is no record, as does
  every model value.
* `TypeCorrect`, `CancelAlwaysWins` and `LanesNameTheOwner`
  (`BudgetGuard_proofs`), for any number of polling threads: `IInv` follows the
  value of the swap through the two halves of a stop. `LanesNameTheOwner` is
  about both heavy lanes, each with its order of the verdicts; `LaneFirst` says
  that a toolpath job's flag is not set by a cancel before its lane's is.
* `TypeCorrect` (`ProxySupervisor_proofs`), on which the others rest.
* `NoSecondAnswer` and `NoRequestLost` (`ProxySupervisor_proofs`): `Books`
  says that the queue and the slot's requests in flight are disjoint and sent,
  that a request in either has no answer yet, and that a restart which has not
  told its caller has not answered it. An answer therefore goes only to a
  request that the same region takes out of its place.

* `NeverTwoGUIs` (`ProxySupervisor_proofs`): a child that nobody killed is the
  one in the slot (`LivingHeld`). `Succession` follows each stop through its
  stages (`Cleared`), since the slot is given up only behind a SIGKILL or a
  reaped child; it lets one restart own the proxy (`Turns`), and says that a
  generation number beyond the counter was never spawned (`Births`).
* `ReadyMeansReady` (`ProxySupervisor_proofs`): `ready` is set in one region
  and undone in many. `Hands` says where the client's half of the handshake
  stands while the greeter still owes it the `initialize`: not yet
  `initialized`, so that no child can have been made ready on it.

*Recursion.* The library's induction theorems take an operator as a parameter,
which none of the installed provers can instantiate. Where a theorem needs what
a recursive function computes, the proofs use a minimal or maximal counterexample
instead (`WFMin` over naturals or over finite subsets), which needs no operator.

*Model-checked only.* The liveness properties (`EveryRequestSettles`,
`OutgrownJobStops`, `DropReturns`, `PlanEnds`, `ToolsAnswer`): temporal proofs
under fairness are out of the prover's reach. `BlockedHasACause` of
`GenerationPlan`: it holds only without lateral setups, and its invariant would
relate the simulations a plan has left to what its next rest row starts from.
TLC checks it.

## 5. Disagreements found

Five runs end in a counterexample; each contradicts a sentence of the
repository, which `PROJECT.json` quotes with its line.

1. `lanes_shutdown`: `Drop` stores the flag and notifies without the lane
   mutex, so a worker between its check and its wait sleeps through both, and
   the join does not return.
2. `results_reorder`: moving a rest row above its source (or the source below
   it) leaves the row its result. The walk runs on the new order, where the edge
   is gone; the currency rule asks whether a carved row still holds the same
   moves, never whether it still cuts before.
3. `results_lateral`: after a lateral setup that cuts, a rest row of a later
   setup can never be generated. The record leaves lateral rows out and rule
   (3) asks for them, so the advice to simulate first and regenerate does not
   help.
4. `plan_waiter`: an MCP `generate_toolpath` waits on its row while a plan
   generates the row's ancestors. When the plan stops before the row,
   `finish_plan` answers nobody, although `tests/mcp_cancel.rs:7` says that a
   cancelled generation must resolve the waiter. A plan whose target is disabled
   or that a memory preflight refuses ends the same way.
5. `results_stamp`: two simulations can be in flight, and share one stamp field
   (`events/compute.rs:889`). A run that is past its last look at the lane's
   cancel flag when an edit and a second submit come lands with the second one's
   stamp, and the session adopts it as live, although `state/simulation.rs:1224`
   says that a second submit cancels the first, "so at most one result can
   arrive per stamp". `results_overlap` and `OrderedSnapshotsAreTrue` show that
   the currency rule still refuses its snapshots under edits of settings,
   switches, rows and stock changes. After a face edit, a move or a reorder it
   accepts them: the rule compares the moves of an entry and neither its face
   nor its place, so a rest row may be generated from stock that is not there.
   (TLC reaches it in eight steps with `CurrentSnapshotIsTrue` as an invariant of
   `Results_stamp.cfg`: submit a simulation, turn the face, submit another, and
   the first lands with the stamp of the second.)

Five more are reachable in the code and visible in the models, and have no run of
their own:

* The toolpath worker judges its job before it forgets it under the mutex
  (`worker.rs:1518`, `:1526`). A submit in between reports `SupersededActive`,
  yet the job's own answer drains and not the `Cancelled` that
  `compute/mod.rs:427` announces.
* The command line's walk asks for the stop reason while the watcher runs
  (`project.rs:451`) and may hear `User` between the two writes of a budget stop;
  it then goes on, although `:448` says that over budget ends the run.
* `gui_stop` between a waiter's copy of the stop reason and its decision
  (`proxy.rs:950`) answers, and the automatic restart then starts the GUI again,
  against `tools.rs:59`.
* `superseded_toolpaths` is a set (`controller.rs:156`). A row superseded twice,
  the second time after its replacement has started, answers two `Cancelled`;
  the second stops a plan as though the operator had cancelled it.
* A simulation of the operator's own that lands during a plan's simulation step
  closes the step early, although `events/compute.rs:2191` says that it leaves
  the cursor alone. `BlockedHasACause` excuses it.

## 6. Not modelled

Most of the repository is numerical: geometry, operations, feeds, tool and
material tables, diagnostics. Floating-point code without states whose order
matters has no finite abstraction that would say anything about it; G-code
formatting, importers, project files and settings are sequential I/O; widgets
and rendering keep view state. This is why the modules map only a small share of
the repository's 430,000 lines: what they map is where its control is
concurrent, asynchronous or history-dependent. `PROJECT.json` lists every
component with its status.

Inside the modelled components:

* *Lanes.* The simulation prefix memo, progress counters, labels, job bodies.
* *Session.* Commands that drop every result (stock, pins, machine, model
  refresh, tool edits) and the removal of a setup: they use the two modelled
  doors with more rows as seeds.
* *Plan.* Memory preflights, the confirmation of a resolution, and collision
  checks, except that one can clear the analysis queue; the different refusals
  of a submit are one. An edit stamps every row stale, where the code stamps the
  rows whose revision moved, so the sweep may do more here. A few MCP commands
  change the project without `mark_edited` (`runtime.rs:366`): a plan then
  goes on, as it does here after the sweep's own submits. A boundary that
  names a row of a later setup as its source is not in the plan's instance:
  its consumer is then generated before its source.
* *Guard.* The two-prober race on the reason cannot occur while only the watcher
  probes; `check_estimate` and `request_cancel` have no caller outside tests.
* *Proxy.* Notifications, `tools/list_changed`, `gui_status` and its probe,
  `discover`, the stderr tail and all wording. The spawn, which happens outside
  the lock, is merged with the installation of the slot, and the greeter's
  check of the generation with the failing of the queue that follows it. What
  becomes of a child that a restart spawns after the shutdown's stop is not
  followed: the model ends with the proxy.
  The spawned process and the GUI are one process here. The code keeps the two
  apart (`proxy.rs:1001`, `:1012`, `procinfo.rs:74`): the launcher of the
  repository `exec`s the GUI (`scripts/gui_logged.sh:47`), so they are one and
  `OneGui` speaks of the GUI; with a launcher that does not, the launcher's exit
  buries the slot while the GUI it started may hang on, and `OneGui` speaks of
  launchers only.

## 7. Plan

Done: `ComputeLanes`, `LaneContract`, `SessionResults`, `GenerationPlan` (with
the supersede marks), `BudgetGuard`, `ProxySupervisor`, and the proofs of
section 4, among them every state invariant that a run checks. What would come
next, in order of what an error would cost:

1. `BlockedHasACause` as a theorem, without lateral setups: to `WalksOn` it would
   add what the simulations left in a plan bring up to date.
2. `SessionResults`: the commands that drop everything, setup removal and tool
   edits as commands of their own.
3. Which boundary edits, moves and additions keep `RegionsInOrder`.
4. The collision checks and the memory preflight in `GenerationPlan`.

## 8. Running it

| Configuration | Module |
|---|---|
| `Lanes_*.cfg` | `MCComputeLanes` |
| `Results_*.cfg` | `MCSessionResults` |
| `Plan_*.cfg` | `MCGenerationPlan` |
| `Guard_stop.cfg` | `MCBudgetGuard` |
| `Proxy_calls.cfg` | `ProxySupervisor` |

For example `tlc -config Lanes_heavy.cfg MCComputeLanes`, and `tlapm` on each
`*_proofs.tla`.
