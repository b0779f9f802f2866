--------------------------- MODULE SessionResults ---------------------------
(***************************************************************************)
(* The result cache of a project session and the currency rules of its     *)
(* rest stock (crates/rs_cam_core/src/session), with the GUI that drives   *)
(* them: one FIFO lane that generates toolpaths and one that simulates.    *)
(*                                                                         *)
(* A toolpath ("row") cuts in the order of its setup.  A REST row is       *)
(* generated against the stock the rows before it leave, read from a       *)
(* snapshot that only a simulation makes.  Every command drops the results *)
(* its edit moved (a walk over the dependency edges), and then sweeps the  *)
(* rest results whose recorded source stock is no longer the project's.    *)
(*                                                                         *)
(* Revisions and the simulation epoch only grow and are only compared for  *)
(* equality: a handle keeps "no bump since I started" (live), and the      *)
(* simulation stamp keeps "no bump since I was stamped".  A generator is a *)
(* function of what it reads.  Face edits stay on the tool axis of their   *)
(* setup, so Lateral is constant.                                          *)
(***************************************************************************)
EXTENDS Naturals, Sequences, FiniteSets, Functions

CONSTANTS
  Rows,        \* toolpath ids, those a later Add mints included
  NumSetups,   \* setups are numbered in cut order
  Lateral,     \* setups whose tool axis is a global X or Y axis
  Params,      \* what the settings of a row may be
  IdleParams,  \* settings whose generation comes out empty
  FineParams,  \* settings whose tool asks for the fine cell
  Projects,    \* the projects a session may open with
  Edits,       \* the kinds of edit this instance makes
  MaxEdits,    \* bound of the model: edits in a behaviour
  MaxLane,     \* bound of the model: handles in the toolpath lane
  MaxRuns,     \* bound of the model: simulations in flight
  None

Setups == 1..NumSetups

ASSUME SetupsAssumption == NumSetups \in Nat \ {0} /\ Lateral \subseteq Setups
ASSUME ParamsAssumption == IdleParams \cup FineParams \subseteq Params
ASSUME BoundsAssumption == {MaxEdits, MaxLane, MaxRuns} \subseteq Nat
ASSUME RowsAssumption   == IsFiniteSet(Rows) /\ None \notin Rows

VARIABLES
  project,  \* toolpath_configs and setups
  result,   \* results: what each row holds, or None
  sim,      \* simulation: consumer -> the source of its snapshot, or None
  stamp,    \* submitted_simulation_epoch is Some(the live epoch)
  lane,     \* generations in flight, oldest first
  runs,     \* simulations in flight, oldest first
  edits     \* edits made so far

vars == <<project, result, sim, stamp, lane, runs, edits>>

-----------------------------------------------------------------------------
(* Where a row sits in a project p.                                        *)

Project == [order   : [Setups -> Seq(Rows)],  \* the rows of each setup
            enabled : SUBSET Rows,
            rest    : SUBSET Rows,            \* start from remaining stock
            regions : [Rows -> Rows \cup {None}],
            analysis : SUBSET Rows,
            param   : [Rows -> Params],
            face    : [Setups -> 0..1],
            changed : SUBSET Setups,          \* an enabled stock change
            minted  : SUBSET Rows]            \* ids given out so far

Present(p)     == UNION {Range(p.order[s]) : s \in Setups}
SetupOf(p, r)  == CHOOSE s \in Setups : r \in Range(p.order[s])
Position(p, r) == LET rows == p.order[SetupOf(p, r)]
                  IN CHOOSE i \in DOMAIN rows : rows[i] = r
Above(p, r)    == LET rows == p.order[SetupOf(p, r)]
                  IN {rows[i] : i \in 1..(Position(p, r) - 1)}
RowsOf(p, ss)  == UNION {Range(p.order[s]) : s \in ss}

\* A row sits at one place of one setup (debug_check_toolpath_partition).
OnePlace(p) ==
  \A s, t \in Setups : \A i \in DOMAIN p.order[s], j \in DOMAIN p.order[t] :
    p.order[s][i] = p.order[t][j] => s = t /\ i = j

\* What a project file holds, and every edit keeps.
ProjectOK(p) == p \in Project /\ OnePlace(p) /\ Present(p) \subseteq p.minted

ASSUME ProjectsAssumption == \A p \in Projects : ProjectOK(p)

\* Every row of every earlier setup, then the rows above: lateral or not.
CarveOrderBefore(p, r) == RowsOf(p, 1..(SetupOf(p, r) - 1)) \cup Above(p, r)

\* The setups whose final stock the simulator carries into setup s.
CarriesInto(s) == IF s \in Lateral THEN {} ELSE (1..(s - 1)) \ Lateral

\* The rows whose cuts are in the stock the simulator hands to r.
StockRows(p, r) == RowsOf(p, CarriesInto(SetupOf(p, r))) \cup Above(p, r)

\* simulation_resolution_mm, under Auto: one cell for the whole project.
Cell(p) == IF \E r \in Present(p) \cap p.enabled : p.param[r] \in FineParams
           THEN "fine" ELSE "coarse"

-----------------------------------------------------------------------------
(* Results, the moves they hold, and the stock a simulation carves.        *)

NoMotion == [param |-> None, stock |-> None, regions |-> None]

\* Option::None where a record of the source stock may be.
NoSource == [cell |-> "none", carved |-> {}, changes |-> {}]

\* What carves: an empty entry of a record changes no material.
Carves(source) == [source EXCEPT !.carved = {e \in @ : e.moves # NoMotion}]

\* What carve_digest reads of a result: its moves, in the frame of its setup.
Moves(x) == IF x.param \in IdleParams THEN NoMotion
            ELSE [param   |-> x.param,
                  stock   |-> Carves(x.source),
                  regions |-> x.regions]

HeldIn(res)       == {r \in Rows : res[r] # None}
CutsIn(res, r)    == res[r] # None /\ Moves(res[r]) # NoMotion
Dropped(res, out) == [r \in Rows |-> IF r \in out THEN None ELSE res[r]]

\* snapshot_sources: the record of the stock simulated before r.
SourceOf(p, res, r) ==
  [cell    |-> Cell(p),
   carved  |-> {[row |-> x, moves |-> Moves(res[x]), face |-> p.face[SetupOf(p, x)]] :
                  x \in StockRows(p, r) \cap p.enabled \cap HeldIn(res)},
   changes |-> p.changed \cap (CarriesInto(SetupOf(p, r)) \cup {SetupOf(p, r)})]

\* Mutant: an empty generation counts as none.
PhantomsCutting(p, res, s) ==
  {r \in Range(p.order[s]) \cap p.enabled \cap p.rest :
     /\ res[r] = None
     /\ \A x \in Above(p, r) \cap p.enabled : CutsIn(res, x)}

\* PhantomPriorStockScan: the first enabled row with no result, if it is a rest row.
Phantoms(p, res, s) ==
  {r \in Range(p.order[s]) \cap p.enabled \cap p.rest :
     /\ res[r] = None
     /\ Above(p, r) \cap p.enabled \subseteq HeldIn(res)}

\* The snapshots of a simulation of setups 1..k.
Snapshots(p, res, k) ==
  [r \in UNION {(Range(p.order[s]) \cap p.enabled \cap HeldIn(res))
                  \cup Phantoms(p, res, s) : s \in 1..k}
     |-> SourceOf(p, res, r)]

\* Mutants: an entry stands whatever its row now holds; what cuts since the
\* record was made is not looked for.
EntryHeld(p, res, e) ==
  e.row \in Present(p) \cap p.enabled /\ res[e.row] # None
NoNewChange(p, res, r, source) ==
  p.changed \cap (1..SetupOf(p, r)) \subseteq source.changes

\* source_is_current: is this record the stock the project would make for r?
EntryStands(p, res, e) ==
  /\ e.row \in Present(p) \cap p.enabled
  /\ res[e.row] # None
  /\ Moves(res[e.row]) = e.moves

NothingNewBefore(p, res, r, source) ==
  /\ p.changed \cap (1..SetupOf(p, r)) \subseteq source.changes
  /\ \A x \in CarveOrderBefore(p, r) \cap p.enabled :
       CutsIn(res, x) => \E e \in source.carved : e.row = x

SourceIsCurrent(p, res, r, source) ==
  /\ source.cell = Cell(p)
  /\ source.changes \subseteq p.changed
  /\ \A e \in source.carved : EntryStands(p, res, e)
  /\ NothingNewBefore(p, res, r, source)

SnapshotIsCurrent(r) ==
  /\ sim # None
  /\ r \in DOMAIN sim
  /\ SourceIsCurrent(project, result, r, sim[r])

-----------------------------------------------------------------------------
(* Invalidation.                                                           *)

\* The Stock edges of r: the rows above, and the previous setup's when no
\* row above is enabled.
StockEdges(p, r) ==
  IF r \notin p.enabled \cap p.rest THEN {}
  ELSE LET above == Above(p, r)
       IN above \cup (IF above \cap p.enabled # {} THEN {}
                      ELSE RowsOf(p, {SetupOf(p, r) - 1} \cap Setups))

\* The rows the walk dirties, its seeds left out: a Stock edge hits when its
\* source's contribution moved, a Regions edge when its source is dirty.
Walk(p, seeds, chain) ==
  LET stock == [r \in Present(p) |-> StockEdges(p, r)]
      Spread[dirty \in SUBSET Rows] ==
        LET moved == chain \cup ((dirty \ seeds) \cap p.enabled)
            newly == {r \in Present(p) \ dirty :
                        stock[r] \cap moved # {} \/ p.regions[r] \in dirty}
        IN IF newly = {} THEN dirty ELSE Spread[dirty \cup newly]
  IN Spread[seeds] \ seeds

\* rest_results_out_of_date
OutOfDate(p, res) ==
  {r \in Present(p) \cap p.rest \cap HeldIn(res) :
     res[r].source # NoSource /\ ~SourceIsCurrent(p, res, r, res[r].source)}

\* Mutant: no sweep.
SweptNothing(p, res) == {}

\* drop_out_of_date_rest_results: the rows the sweep after a command drops.
Swept(p, res) ==
  LET Sweep[gone \in SUBSET Rows] ==
        LET hits == OutOfDate(p, Dropped(res, gone))
        IN IF hits = {} THEN gone ELSE Sweep[gone \cup hits \cup Walk(p, hits, hits)]
  IN Sweep[{}]

\* Mutant: a drop moves no revision.
OutdateNothing(handles, out) == handles

\* drop_result bumps the row's revision: its handles answer old inputs.
Outdate(handles, out) ==
  [i \in DOMAIN handles |-> [handles[i] EXCEPT !.live = @ /\ handles[i].row \notin out]]

\* try_with_effects: the command left project p, results res and dropped
\* `out`; `handles` are the generations still in flight.
Command(p, res, out, handles) ==
  LET gone == out \cup Swept(p, Dropped(res, out))
  IN /\ project' = p
     /\ result'  = Dropped(res, gone)
     /\ lane'    = Outdate(handles, gone)

\* drop_simulation: the simulation goes and the epoch moves.
DropSimulation ==
  /\ sim'   = None
  /\ stamp' = FALSE
  /\ runs'  = [i \in DOMAIN runs |-> [runs[i] EXCEPT !.live = FALSE]]

\* An edit of kind k that leaves project p and drops `out`.
Edit(k, p, out) ==
  /\ k \in Edits
  /\ Command(p, result, out, lane)
  /\ DropSimulation
  /\ edits' = edits + 1

IfEnabled(p, r) == {r} \cap p.enabled

\* invalidate_result_chain
ResultChain(p, r) == {r} \cup Walk(p, {r}, IfEnabled(p, r))

-----------------------------------------------------------------------------
(* The edits.                                                              *)

Init ==
  /\ project \in Projects
  /\ result = [r \in Rows |-> None]
  /\ sim = None /\ stamp = FALSE
  /\ lane = <<>> /\ runs = <<>>
  /\ edits = 0

\* Every setter of a row's own settings; its tool is one of them.
SetParam(r, v) ==
  LET p == [project EXCEPT !.param[r] = v]
  IN Edit("param", p, ResultChain(p, r))

\* The row keeps its own result for a later re-enable.
SetEnabled(r) ==
  LET p == [project EXCEPT !.enabled = IF r \in @ THEN @ \ {r} ELSE @ \cup {r}]
  IN Edit("enable", p, Walk(p, {r}, {r}))

SetStockSource(r) ==
  LET p == [project EXCEPT !.rest = IF r \in @ THEN @ \ {r} ELSE @ \cup {r}]
  IN Edit("stock_source", p, ResultChain(p, r))

\* The new source must produce rest regions: its analysis is switched on.
SetBoundary(r, source) ==
  LET p == [project EXCEPT !.regions[r] = source,
                           !.analysis = @ \cup ({source} \ {None})]
  IN Edit("boundary", p, ResultChain(p, r) \cup (p.analysis \ project.analysis))

\* What is left of a list when its i-th element leaves it.
Dequeued(s, i)   == SubSeq(s, 1, i - 1) \o SubSeq(s, i + 1, Len(s))
Without(s, r)    == Dequeued(s, CHOOSE i \in DOMAIN s : s[i] = r)
Insert(s, at, r) == SubSeq(s, 1, at - 1) \o <<r>> \o SubSeq(s, at, Len(s))

\* Mutant: the row is inserted and not removed.
ReorderedCopies(r, target) ==
  LET s == SetupOf(project, r)
  IN IF SetupOf(project, target) # s THEN project
     ELSE [project EXCEPT !.order[s] = Insert(@, Position(project, target), r)]

\* Remove at the place of r, insert at the place target had.
Reordered(r, target) ==
  LET s == SetupOf(project, r)
  IN IF SetupOf(project, target) # s THEN project
     ELSE [project EXCEPT !.order[s] =
             Insert(Without(@, r), Position(project, target), r)]

Reorder(r, target) ==
  /\ r # target
  /\ LET p == Reordered(r, target)
     IN Edit("reorder", p, Walk(p, {r}, {r}) \cup Walk(p, {target}, {target}))

\* The walk runs while the row is still in the setup it leaves.
MoveToSetup(r, s, at) ==
  LET off == [project EXCEPT !.order[SetupOf(project, r)] = Without(@, r)]
      p   == [off EXCEPT !.order[s] = Insert(@, at, r)]
  IN /\ at <= Len(off.order[s]) + 1
     /\ Edit("move", p, {r} \cup Walk(project, {r}, {r}))

\* Indices shift: every row's revision moves, every other result stays.
Remove(r) ==
  LET p    == [project EXCEPT !.order[SetupOf(project, r)] = Without(@, r)]
      out  == {r} \cup Walk(project, {r}, {r})
  IN /\ "remove" \in Edits
     /\ Command(p, result, out, Outdate(lane, Rows))
     /\ DropSimulation
     /\ edits' = edits + 1

\* A new row goes to the end of the setup and drops no result itself.
Add(r, s) ==
  /\ r \notin project.minted
  /\ Edit("add", [project EXCEPT !.minted = @ \cup {r},
                                 !.order[s] = Append(@, r)], {})

\* A Bore goes in right after its Drill, with the Drill's stock source.
AddBore(bore, drill) ==
  LET Like(set) == IF drill \in set THEN set \cup {bore} ELSE set \ {bore}
      p == [project EXCEPT !.minted = @ \cup {bore},
                           !.order[SetupOf(project, drill)] =
                             Insert(@, Position(project, drill) + 1, bore),
                           !.param[bore] = project.param[drill],
                           !.enabled = Like(@), !.rest = Like(@)]
  IN /\ bore \notin project.minted
     /\ Edit("bore", p, Walk(p, {bore}, {bore}))

\* drop_setup_results: the rows of the setup, and no walk.
SetFace(s) ==
  LET p == [project EXCEPT !.face[s] = 1 - @]
  IN Edit("face", p, Range(p.order[s]))

\* drop_stock_change_dependents: the rest rows from this setup on.
SetStockChange(s) ==
  LET p     == [project EXCEPT !.changed = IF s \in @ THEN @ \ {s} ELSE @ \cup {s}]
      seeds == RowsOf(p, s..NumSetups) \cap p.rest
  IN Edit("change", p, seeds \cup Walk(p, seeds, seeds \cap p.enabled))

SomeEdit ==
  /\ edits < MaxEdits
  /\ \/ \E r \in Present(project) :
          \/ \E v \in Params \ {project.param[r]} : SetParam(r, v)
          \/ SetEnabled(r)
          \/ SetStockSource(r)
          \/ \E source \in Present(project) \cup {None} : SetBoundary(r, source)
          \/ \E target \in Present(project) : Reorder(r, target)
          \/ \E s \in Setups : \E at \in 1..(Len(project.order[s]) + 1) : MoveToSetup(r, s, at)
          \/ Remove(r)
          \/ \E bore \in Rows : AddBore(bore, r)
     \/ \E r \in Rows, s \in Setups : Add(r, s)
     \/ \E s \in Setups : SetFace(s) \/ SetStockChange(s)

-----------------------------------------------------------------------------
(* The GUI's two lanes.                                                    *)

\* ForgetResult, after a generation that was blocked, refused or failed.
Forget(r, handles) ==
  /\ Command(project, result, {r}, handles)
  /\ UNCHANGED <<sim, stamp, runs, edits>>

\* The preconditions of start_generate_toolpath.
CanStart(r) ==
  LET source == project.regions[r]
  IN /\ r \in project.rest => SnapshotIsCurrent(r)
     /\ source # None => /\ source \in Present(project) \ {r}
                         /\ result[source] # None
                         /\ result[source].produced

\* capture_generate_handle: what generating r now answers.
Generated(r) ==
  [param    |-> project.param[r],
   face     |-> project.face[SetupOf(project, r)],
   source   |-> IF r \in project.rest THEN sim[r] ELSE NoSource,
   regions  |-> IF project.regions[r] = None THEN None
                ELSE Moves(result[project.regions[r]]),
   produced |-> r \in project.analysis]

\* A resubmit replaces the queued handle of its row; one that has left the
\* queue is answered, or running and only flagged, and stays.
Submit(r) ==
  \/ ~CanStart(r) /\ Forget(r, lane)
  \/ /\ CanStart(r)
     /\ \E kept \in {lane} \cup {Dequeued(lane, i) : i \in {j \in DOMAIN lane : lane[j].row = r}} :
          /\ Len(kept) < MaxLane
          /\ lane' = Append(kept, [row |-> r, live |-> TRUE, answer |-> Generated(r)])
     /\ result' = [result EXCEPT ![r] = None]
     /\ UNCHANGED <<project, sim, stamp, runs, edits>>

\* AdoptResult: a handle whose row is gone or whose revision moved is refused.
LandOk ==
  /\ lane # <<>>
  /\ LET h == Head(lane)
         r == h.row
     IN IF r \in Present(project) /\ h.live
        THEN Command(project, [result EXCEPT ![r] = h.answer],
                     Walk(project, {r}, {}), Tail(lane))
        ELSE lane' = Tail(lane) /\ UNCHANGED <<project, result>>
  /\ UNCHANGED <<sim, stamp, runs, edits>>

\* A cancelled or failed generation is forgotten; the Cancelled of a
\* superseded one is no outcome.
LandErr ==
  /\ lane # <<>>
  /\ LET r == Head(lane).row
     IN \/ /\ r \in Present(project)
           /\ Forget(r, Tail(lane))
        \/ /\ r \in Present(project) => \E i \in 2..Len(lane) : lane[i].row = r
           /\ lane' = Tail(lane)
           /\ UNCHANGED <<project, result, sim, stamp, runs, edits>>

\* build_simulation_groups finds a row or a stock change in setups 1..k.
CanSimulate(k) ==
  DOMAIN Snapshots(project, result, k) # {} \/ project.changed \cap (1..k) # {}

\* submit_simulation_for_groups, for the groups of setups 1..k.  A submit
\* replaces the queued run; the n oldest have left the queue.
SubmitSimulation(k) ==
  /\ CanSimulate(k)
  /\ \E n \in 0..Len(runs) :
       /\ n < MaxRuns
       /\ runs' = Append(SubSeq(runs, 1, n),
                         [prior |-> Snapshots(project, result, k),
                          rows  |-> RowsOf(project, 1..k) \cap project.enabled \cap HeldIn(result),
                          live  |-> TRUE])
  /\ stamp' = TRUE
  /\ UNCHANGED <<project, result, sim, lane, edits>>

\* adopt_simulation_result: it takes the stamp; the core adopts a live one.
LandSimulation ==
  /\ runs # <<>>
  /\ runs' = Tail(runs)
  /\ stamp' = FALSE
  /\ IF stamp /\ Head(runs).rows \subseteq Present(project)
     THEN /\ sim' = Head(runs).prior
          /\ Command(project, result, {}, lane)
     ELSE UNCHANGED <<sim, project, result, lane>>
  /\ UNCHANGED edits

\* A cancelled, failed or refused run takes the stamp too.
LoseSimulation ==
  /\ runs # <<>>
  /\ runs' = Tail(runs)
  /\ stamp' = FALSE
  /\ UNCHANGED <<project, result, sim, lane, edits>>

\* No answer comes of a run whose worker panicked, or that a collision check
\* took the queue from.
VanishSimulation ==
  /\ \E i \in DOMAIN runs : runs' = Dequeued(runs, i)
  /\ UNCHANGED <<project, result, sim, stamp, lane, edits>>

Next ==
  \/ SomeEdit
  \/ \E r \in Present(project) : Submit(r)
  \/ LandOk
  \/ LandErr
  \/ \E k \in Setups : SubmitSimulation(k)
  \/ LandSimulation
  \/ LoseSimulation
  \/ VanishSimulation

Spec == Init /\ [][Next]_vars

-----------------------------------------------------------------------------
(* Properties.                                                             *)

SourceOK(source) ==
  /\ source.cell \in {"none", "fine", "coarse"}
  /\ source.changes \subseteq Setups
  /\ \A e \in source.carved : e.row \in Rows /\ e.face \in 0..1

ResultOK(x) ==
  /\ x.param \in Params /\ x.face \in 0..1 /\ x.produced \in BOOLEAN
  /\ SourceOK(x.source)

\* The fields keep their types, every row of the project sits at one place of
\* one setup, and only rows of the project hold results.
TypeOK ==
  /\ ProjectOK(project)
  /\ DOMAIN result = Rows /\ \A r \in HeldIn(result) : ResultOK(result[r])
  /\ HeldIn(result) \subseteq Present(project)
  /\ sim # None => \A r \in DOMAIN sim : r \in Rows /\ SourceOK(sim[r])
  /\ stamp \in BOOLEAN /\ edits \in 0..MaxEdits
  /\ Len(lane) <= MaxLane /\ Len(runs) <= MaxRuns
  /\ \A i \in DOMAIN lane : lane[i].row \in Rows /\ lane[i].live \in BOOLEAN
                           /\ ResultOK(lane[i].answer)

\* The stock a simulation of the project as it stands hands to r.
TrueStock(r) == Carves(SourceOf(project, result, r))

\* Everything a generation of r would read is there.
InputsHeld(r) ==
  /\ r \in project.rest => StockRows(project, r) \cap project.enabled \subseteq HeldIn(result)
  /\ project.regions[r] # None => project.regions[r] \in HeldIn(result)

\* What r holds is what generating it now would answer.
IsFresh(r) ==
  /\ result[r].param = project.param[r]
  /\ result[r].face = project.face[SetupOf(project, r)]
  /\ IF r \in project.rest
     THEN Carves(result[r].source) = TrueStock(r)
     ELSE result[r].source = NoSource
  /\ result[r].regions = IF project.regions[r] = None THEN None
                         ELSE Moves(result[project.regions[r]])

\* "session.results[idx] is either absent or a fresh result produced from
\* the current toolpath config" (insert_result): once the rows it reads are
\* generated, no enabled row holds a result of another stock, of other
\* regions, of old settings or of an old face, whatever edits, adoptions and
\* late answers came before.
HeldResultsAreFresh ==
  \A r \in HeldIn(result) \cap project.enabled : InputsHeld(r) => IsFresh(r)

\* The same of the rows whose recorded source still cuts before them: what
\* is left of HeldResultsAreFresh under every edit, a reorder included.
OrderedResultsAreFresh ==
  \A r \in HeldIn(result) \cap project.enabled :
    (/\ InputsHeld(r)
     /\ \A e \in result[r].source.carved : e.row \in StockRows(project, r))
    => IsFresh(r)

\* A snapshot that snapshot_is_current accepts is the stock the project now
\* leaves before its row: same cell, same cuts in the same place, same stock
\* changes.  Nothing else keeps a rest tool out of material it does not know.
CurrentSnapshotIsTrue ==
  \A r \in Present(project) \cap project.rest :
    SnapshotIsCurrent(r) => Carves(sim[r]) = TrueStock(r)

\* The same of the snapshots whose carved rows all still cut before their row:
\* what is left of CurrentSnapshotIsTrue under a reorder when a simulation can
\* land with the stamp of a later one.
OrderedSnapshotIsTrue ==
  \A r \in Present(project) \cap project.rest :
    (/\ SnapshotIsCurrent(r)
     /\ \A e \in sim[r].carved : e.row \in StockRows(project, r))
    => Carves(sim[r]) = TrueStock(r)

\* "Run a simulation of the preceding operations first, then regenerate":
\* when every enabled row before a rest row holds a result, the simulation of
\* its setup makes it a snapshot that the currency rule accepts.
SimulationUnblocks ==
  \A r \in Present(project) \cap project.rest \cap project.enabled :
    CarveOrderBefore(project, r) \cap project.enabled \subseteq HeldIn(result) =>
      LET prior == Snapshots(project, result, SetupOf(project, r))
      IN r \in DOMAIN prior /\ SourceIsCurrent(project, result, r, prior[r])

\* "At most one result can arrive per stamp", and the stamp says which project
\* its run answers (D7): so the session adopts a simulation only when nothing it
\* read was edited since it was submitted.  Claimed of the submit door, and false:
\* a run that is past its last look at the cancel flag when an edit and a second
\* submit come takes the second one's stamp.
AdoptedSimulationIsLive ==
  [][sim' # sim /\ sim' # None => Head(runs).live]_vars
=============================================================================
