-------------------------- MODULE ProxySupervisor --------------------------
(***************************************************************************)
(* The stdio supervisor in front of the GUI                                *)
(* (crates/rs_cam_mcp_proxy/src/proxy.rs): it forwards the client's        *)
(* requests to one child process, queues them while the child starts,      *)
(* replays the MCP handshake to a new child, and stops, restarts and       *)
(* buries children.  Every action is one region under the state lock; the  *)
(* threads between their regions, the pipes and the processes interleave.  *)
(*                                                                         *)
(* A wait with a deadline may end at any moment.  A GUI takes no notice of *)
(* the wording of a line, so a message is its request or one of the three  *)
(* requests the proxy itself sends.                                        *)
(***************************************************************************)
EXTENDS Naturals, FiniteSets

CONSTANTS
  Requests,    \* client requests for the GUI, one id each
  Stops,       \* gui_stop calls
  Restarts,    \* gui_restart calls
  Close,       \* the thread that shuts the proxy down
  MaxGen,      \* bound of the model: children; a later spawn fails
  MaxFaults,   \* bound of the model: exits, closed stdouts, refusals, failed spawns
  MaxCalls,    \* bound of the model: tool calls, cancels, the close, --auto-restart
  None         \* Option::None

Gens  == 1..MaxGen
Tools == Stops \cup Restarts
Calls == Requests \cup Tools

Slot == [gen : Gens, open : BOOLEAN, init : BOOLEAN, ready : BOOLEAN, stop : BOOLEAN,
         flight : SUBSET Requests]

ASSUME CallsAssumption    == Requests \cap Tools = {} /\ Stops \cap Restarts = {} /\ Close \notin Calls
ASSUME BoundsAssumption   == MaxFaults \in Nat /\ MaxCalls \in Nat
ASSUME GenAssumption      == MaxGen \in Nat \ {0} /\ Gens \cap (Calls \cup {Close}) = {}
ASSUME NoneAssumption     == None \notin Gens \cup Calls \cup {Close} \cup Slot

\* Who runs restart: a gui_restart call, or the waiter of the child that exited.
Restarters == Restarts \cup Gens
\* Who runs stop_child.
Stoppers == Stops \cup Restarters \cup {Close}
\* The client's initialize as the proxy forwards it, its replay, the tools probe.
Internal == {"initialize", "replay", "list"}

VARIABLES
  hello,       \* the client: "none", "sent", "answered" initialize, "initialized"
  sent,        \* the calls the client has made
  answers,     \* how many answers each call got
  cancelled,   \* the requests the client cancelled
  slot,        \* Inner::child
  nextGen,     \* Inner::next_generation
  queue,       \* Inner::queue, its requests
  waits,       \* Inner::waiters and their channels, per internal request
  restarting,  \* Inner::restart_in_progress: who restarts
  shutting,    \* Inner::shutting_down
  auto,        \* Config::auto_restart
  faults,      \* bound of the model: the faults so far
  exited,      \* the proxy process has ended
  proc,        \* the child processes
  inbox,       \* what each child has been sent and not answered
  pipe,        \* what each child wrote to its stdout and nobody read yet
  greeter,     \* the client_initialize thread and its generation
  aim,         \* whom each stop_child is stopping
  stage,       \* how far it is
  rpc,         \* how far each restart is, and its new generation
  waiter,      \* each child's waiter, and the stop it read with the exit
  \* History:
  abandoned    \* requests in flight to a child whose slot was overwritten

clientVars == <<hello, sent, cancelled>>
env        == <<auto, faults>>
innerVars  == <<slot, nextGen, queue, waits, restarting, shutting>>
childVars  == <<proc, inbox, pipe>>
threadVars == <<greeter, aim, stage, rpc, waiter>>
vars == <<clientVars, answers, innerVars, env, exited, childVars, threadVars, abandoned>>

-----------------------------------------------------------------------------

HasGen(g) == slot # None /\ slot.gen = g

\* Inner::state.
State == IF slot # None /\ slot.ready THEN "connected"
         ELSE IF restarting # None THEN "restarting"
         ELSE IF slot # None THEN "starting" ELSE "down"

Count(rs) == [c \in Calls |-> answers[c] + IF c \in rs THEN 1 ELSE 0]
Reply(rs) == answers' = Count(rs)

\* A line goes nowhere once the child reads no more,
Into(g, lines) == inbox' = IF proc[g] = "alive" THEN [inbox EXCEPT ![g] = @ \cup lines]
                           ELSE inbox

\* and not even that far once its stdin is closed.
Deliver(lines) == IF slot.open THEN Into(slot.gen, lines) ELSE UNCHANGED inbox

Becomes(g, p) ==
  /\ proc' = [proc EXCEPT ![g] = p]
  /\ inbox' = [inbox EXCEPT ![g] = {}]

\* Bounds of the model.
Fault == faults < MaxFaults /\ faults' = faults + 1 /\ UNCHANGED auto
MayCall ==
  Cardinality(sent \cap Tools) + Cardinality(cancelled)
    + Cardinality({b \in {<<"close", shutting>>, <<"auto", auto>>} : b[2]}) < MaxCalls

\* Mutant: the slot carries the generation of the child before.
NewSlotStale(g) == [gen |-> g - 1, open |-> TRUE, init |-> FALSE, ready |-> FALSE,
                    stop |-> FALSE, flight |-> {}]

NewSlot(g) == [gen |-> g, open |-> TRUE, init |-> FALSE, ready |-> FALSE, stop |-> FALSE,
               flight |-> {}]

\* The proxy starts its first child at once.
Init ==
  /\ hello = "none" /\ sent = {} /\ cancelled = {}
  /\ answers = [c \in Calls |-> 0]
  /\ slot = NewSlot(1) /\ nextGen = 1
  /\ queue = {} /\ waits = [i \in Internal |-> None]
  /\ restarting = None /\ shutting = FALSE /\ exited = FALSE
  /\ auto \in BOOLEAN /\ faults = 0
  /\ proc = [g \in Gens |-> IF g = 1 THEN "alive" ELSE "unborn"]
  /\ inbox = [g \in Gens |-> {}] /\ pipe = [g \in Gens |-> {}]
  /\ greeter = [at |-> "idle", gen |-> None]
  /\ aim = [t \in Stoppers |-> None] /\ stage = [t \in Stoppers |-> "idle"]
  /\ rpc = [t \in Restarters |-> [at |-> "idle", gen |-> None, ok |-> FALSE]]
  /\ waiter = [g \in Gens |-> [at |-> "watching", stop |-> FALSE]]
  /\ abandoned = {}

-----------------------------------------------------------------------------
(* The client's lines *)

SendInitialize ==
  /\ hello = "none" /\ ~ shutting
  /\ hello' = "sent"
  /\ greeter' = [greeter EXCEPT !.at = "choosing"]
  /\ UNCHANGED <<sent, cancelled, answers, innerVars, env, exited, childVars, aim, stage,
                 rpc, waiter, abandoned>>

\* mark_ready: the child is initialized, and the queue moves to it.
MarkReady ==
  /\ slot' = [slot EXCEPT !.init = TRUE, !.ready = TRUE, !.flight = @ \cup queue]
  /\ queue' = {}
  /\ Deliver(queue)

\* notifications/initialized completes a handshake the child has answered.
SendInitialized ==
  /\ hello = "answered" /\ ~ shutting
  /\ hello' = "initialized"
  /\ IF slot # None /\ slot.init /\ ~ slot.ready THEN MarkReady
     ELSE UNCHANGED <<slot, queue, inbox>>
  /\ UNCHANGED <<sent, cancelled, answers, nextGen, waits, restarting, shutting, env,
                 exited, proc, pipe, threadVars, abandoned>>

\* route_request: a tools/list never waits, the proxy has tools of its own to tell of.
Route(r, isList) ==
  CASE State = "connected" ->
         /\ slot' = [slot EXCEPT !.flight = @ \cup {r}]
         /\ Deliver({r})
         /\ UNCHANGED <<queue, answers>>
    [] State # "connected" /\ (isList \/ State = "down") ->
         Reply({r}) /\ UNCHANGED <<slot, inbox, queue>>
    [] OTHER ->
         queue' = queue \cup {r} /\ UNCHANGED <<slot, inbox, answers>>

SendRequest(r) ==
  /\ hello = "initialized" /\ r \notin sent /\ ~ shutting
  /\ sent' = sent \cup {r}
  /\ \E isList \in BOOLEAN : Route(r, isList)
  /\ UNCHANGED <<hello, cancelled, nextGen, waits, restarting, shutting, env, exited, proc,
                 pipe, threadVars, abandoned>>

\* A cancelled request in flight is forgotten; one that waits in the queue stays.
SendCancelled(r) ==
  /\ r \in sent \ cancelled /\ answers[r] = 0 /\ ~ shutting /\ MayCall
  /\ cancelled' = cancelled \cup {r}
  /\ slot' = IF slot = None THEN None ELSE [slot EXCEPT !.flight = @ \ {r}]
  /\ UNCHANGED <<hello, sent, answers, nextGen, queue, waits, restarting, shutting, env,
                 exited, childVars, threadVars, abandoned>>

\* A proxy tool call runs on a thread of its own.
SendStop(t) ==
  /\ hello = "initialized" /\ t \notin sent /\ ~ shutting /\ MayCall
  /\ sent' = sent \cup {t}
  /\ stage' = [stage EXCEPT ![t] = "starting"]
  /\ UNCHANGED <<hello, cancelled, answers, innerVars, env, exited, childVars, greeter, aim,
                 rpc, waiter, abandoned>>

SendRestart(t) ==
  /\ hello = "initialized" /\ t \notin sent /\ ~ shutting /\ MayCall
  /\ sent' = sent \cup {t}
  /\ rpc' = [rpc EXCEPT ![t].at = "called"]
  /\ UNCHANGED <<hello, cancelled, answers, innerVars, env, exited, childVars, greeter, aim,
                 stage, waiter, abandoned>>

\* The client closes stdin: shutdown sets its flag, and stops the child.
CloseStdin ==
  /\ ~ shutting /\ MayCall
  /\ shutting' = TRUE
  /\ stage' = [stage EXCEPT ![Close] = "starting"]
  /\ UNCHANGED <<clientVars, answers, slot, nextGen, queue, waits, restarting, env, exited,
                 childVars, greeter, aim, rpc, waiter, abandoned>>

-----------------------------------------------------------------------------
(* Requests of the proxy's own, and the handshake *)

\* begin_internal: refused when the generation or its stdin is gone.
CanBegin(g) == HasGen(g) /\ slot.open

Begin(i, g) ==
  /\ waits' = [waits EXCEPT ![i] = [gen |-> g, got |-> "pending"]]
  /\ Into(g, {i})

\* The thread has given up on the answer.
Forget(i) == waits' = [waits EXCEPT ![i] = None]

Got(i) == waits[i].got

\* Mutant: the child is ready as soon as it has answered.
InitializedAlways(g) ==
  IF HasGen(g) THEN MarkReady ELSE UNCHANGED <<slot, queue, inbox>>

\* on_child_initialized.
OnChildInitialized(g) ==
  IF ~ HasGen(g) THEN UNCHANGED <<slot, queue, inbox>>
  ELSE IF hello = "initialized" THEN MarkReady
  ELSE slot' = [slot EXCEPT !.init = TRUE] /\ UNCHANGED <<queue, inbox>>

Greeted == [at |-> "done", gen |-> None]

\* client_initialize chooses the child of the moment, and without one answers itself.
GreeterChooses ==
  /\ greeter.at = "choosing"
  /\ IF slot = None
       THEN greeter' = Greeted /\ hello' = "answered"
       ELSE greeter' = [at |-> "sending", gen |-> slot.gen] /\ UNCHANGED hello
  /\ UNCHANGED <<sent, cancelled, answers, innerVars, env, exited, childVars, aim, stage,
                 rpc, waiter, abandoned>>

GreeterSends ==
  /\ greeter.at = "sending"
  /\ IF CanBegin(greeter.gen)
       THEN /\ Begin("initialize", greeter.gen)
            /\ greeter' = [greeter EXCEPT !.at = "waiting"] /\ UNCHANGED hello
       ELSE /\ greeter' = Greeted /\ hello' = "answered"
            /\ UNCHANGED <<waits, inbox>>
  /\ UNCHANGED <<sent, cancelled, answers, slot, nextGen, queue, restarting, shutting, env,
                 exited, proc, pipe, aim, stage, rpc, waiter, abandoned>>

\* The child answered initialize, in time or late: its own answer completes the
\* handshake; a refusal in time, or a child that is gone, is answered by the proxy.
GreeterHears ==
  /\ greeter.at \in {"waiting", "late"} /\ Got("initialize") # "pending"
  /\ IF Got("initialize") = "ok" THEN OnChildInitialized(greeter.gen) /\ UNCHANGED answers
     ELSE /\ UNCHANGED <<slot, inbox>>
          /\ IF greeter.at = "late" /\ HasGen(greeter.gen)
               THEN Reply(queue) /\ queue' = {} ELSE UNCHANGED <<answers, queue>>
  /\ hello' = IF greeter.at = "waiting" THEN "answered" ELSE hello
  /\ greeter' = Greeted
  /\ Forget("initialize")
  /\ UNCHANGED <<sent, cancelled, nextGen, restarting, shutting, env, exited, proc, pipe, aim,
                 stage, rpc, waiter, abandoned>>

\* The init timeout: the proxy answers the client and goes on listening.
GreeterTimesOut ==
  /\ greeter.at = "waiting" /\ Got("initialize") = "pending"
  /\ greeter' = [greeter EXCEPT !.at = "late"] /\ hello' = "answered"
  /\ UNCHANGED <<sent, cancelled, answers, innerVars, env, exited, childVars, aim, stage,
                 rpc, waiter, abandoned>>

\* LATE_HANDSHAKE_LIMIT: the queue fails while the generation is still there.
GreeterGivesUp ==
  /\ greeter.at = "late" /\ Got("initialize") = "pending"
  /\ IF HasGen(greeter.gen) THEN Reply(queue) /\ queue' = {}
     ELSE UNCHANGED <<answers, queue>>
  /\ greeter' = Greeted
  /\ Forget("initialize")
  /\ UNCHANGED <<clientVars, slot, nextGen, restarting, shutting, env, exited, childVars,
                 aim, stage, rpc, waiter, abandoned>>

Greeter == GreeterChooses \/ GreeterSends \/ GreeterHears \/ GreeterTimesOut \/ GreeterGivesUp

-----------------------------------------------------------------------------
(* Stopping a child *)

\* stop_child marks the slot, closes its stdin, and remembers the generation.
StopStarts(t) ==
  /\ stage[t] = "starting"
  /\ IF slot = None
       THEN stage' = [stage EXCEPT ![t] = "done"] /\ UNCHANGED <<slot, aim>>
       ELSE /\ slot' = [slot EXCEPT !.stop = TRUE, !.open = FALSE]
            /\ aim' = [aim EXCEPT ![t] = slot.gen]
            /\ stage' = [stage EXCEPT ![t] = "waiting"]
  /\ UNCHANGED <<clientVars, answers, nextGen, queue, waits, restarting, shutting, env,
                 exited, childVars, greeter, rpc, waiter, abandoned>>

\* The generation is gone: stopped.
StopSeesGone(t) ==
  /\ stage[t] \in {"waiting", "killed"} /\ ~ HasGen(aim[t])
  /\ stage' = [stage EXCEPT ![t] = "done"] /\ aim' = [aim EXCEPT ![t] = None]
  /\ UNCHANGED <<clientVars, answers, innerVars, env, exited, childVars, greeter, rpc,
                 waiter, abandoned>>

\* Mutant: the stop gives up without the SIGKILL.
StopGivesUpEarly(t) ==
  /\ stage[t] = "waiting" /\ HasGen(aim[t])
  /\ stage' = [stage EXCEPT ![t] = "killed"]
  /\ UNCHANGED <<clientVars, answers, innerVars, env, exited, childVars, greeter, aim, rpc,
                 waiter, abandoned>>

\* The grace after stdin closed and the one after SIGTERM have passed: SIGKILL.
StopKills(t) ==
  /\ stage[t] = "waiting" /\ HasGen(aim[t])
  /\ stage' = [stage EXCEPT ![t] = "killed"]
  /\ Becomes(aim[t], IF proc[aim[t]] = "dead" THEN "dead" ELSE "dying")
  /\ UNCHANGED <<clientVars, answers, innerVars, env, exited, pipe, greeter, aim, rpc,
                 waiter, abandoned>>

\* Still not reaped after SIGKILL: the stop gives up all the same.
StopGivesUp(t) ==
  /\ stage[t] = "killed" /\ HasGen(aim[t])
  /\ stage' = [stage EXCEPT ![t] = "done"] /\ aim' = [aim EXCEPT ![t] = None]
  /\ UNCHANGED <<clientVars, answers, innerVars, env, exited, childVars, greeter, rpc,
                 waiter, abandoned>>

\* gui_stop answers with the status.
StopAnswers(t) ==
  /\ stage[t] = "done" /\ answers[t] = 0
  /\ Reply({t})
  /\ UNCHANGED <<clientVars, innerVars, env, exited, childVars, threadVars, abandoned>>

\* run returns after the stop, and the process ends with all its threads.
Exit ==
  /\ stage[Close] = "done"
  /\ exited' = TRUE
  /\ UNCHANGED <<clientVars, answers, innerVars, env, childVars, threadVars, abandoned>>

Stopper(t) == \/ StopStarts(t) \/ StopSeesGone(t) \/ StopKills(t) \/ StopGivesUp(t)
              \/ t \in Stops /\ StopAnswers(t)

-----------------------------------------------------------------------------
(* Restarting *)

At(t, to) == rpc' = [rpc EXCEPT ![t].at = to]
Done(t)   == rpc' = [rpc EXCEPT ![t] = [at |-> "done", gen |-> None, ok |-> FALSE]]
Ready(t)  == rpc' = [rpc EXCEPT ![t] = [at |-> "ending", gen |-> @.gen, ok |-> TRUE]]

\* A call of gui_restart answers; an automatic one only logs.
Tell(t) == Reply({t} \cap Restarts)

\* One restart at a time, and none during a shutdown.
RestartStarts(t) ==
  /\ rpc[t].at = "called"
  /\ IF restarting # None \/ shutting
       THEN Tell(t) /\ Done(t) /\ UNCHANGED <<restarting, stage>>
       ELSE /\ restarting' = t /\ At(t, "stopping")
            /\ stage' = [stage EXCEPT ![t] = "starting"]
            /\ UNCHANGED answers
  /\ UNCHANGED <<clientVars, slot, nextGen, queue, waits, shutting, env, exited, childVars,
                 greeter, aim, waiter, abandoned>>

\* spawn_child puts a new slot in place, over whatever is still there.
RestartSpawns(t) ==
  /\ rpc[t].at = "stopping" /\ stage[t] = "done" /\ nextGen < MaxGen
  /\ LET g == nextGen + 1 IN
       /\ nextGen' = g
       /\ proc' = [proc EXCEPT ![g] = "alive"]
       /\ slot' = NewSlot(g)
       /\ abandoned' = abandoned \cup (IF slot = None THEN {} ELSE slot.flight)
       /\ rpc' = [rpc EXCEPT ![t] = [at |-> "params", gen |-> g, ok |-> FALSE]]
       /\ stage' = [stage EXCEPT ![t] = "idle"]
  /\ UNCHANGED <<clientVars, answers, queue, waits, restarting, shutting, env, exited, inbox,
                 pipe, greeter, aim, waiter>>

\* The command cannot be run.
RestartSpawnFails(t) ==
  /\ rpc[t].at = "stopping" /\ stage[t] = "done"
  /\ IF nextGen < MaxGen THEN Fault ELSE UNCHANGED env
  /\ At(t, "ending")
  /\ UNCHANGED <<clientVars, answers, innerVars, exited, childVars, greeter, aim, stage,
                 waiter, abandoned>>

\* Without a client initialize there is nothing to replay.
RestartReplays(t) ==
  /\ rpc[t].at = "params"
  /\ IF hello = "none"
       THEN Ready(t) /\ UNCHANGED <<waits, inbox>>
     ELSE IF CanBegin(rpc[t].gen) THEN Begin("replay", rpc[t].gen) /\ At(t, "greeting")
     ELSE At(t, "ending") /\ UNCHANGED <<waits, inbox>>
  /\ UNCHANGED <<clientVars, answers, slot, nextGen, queue, restarting, shutting, env, exited,
                 proc, pipe, greeter, aim, stage, waiter, abandoned>>

RestartGreeted(t) ==
  /\ rpc[t].at = "greeting" /\ Got("replay") = "ok"
  /\ OnChildInitialized(rpc[t].gen)
  /\ At(t, "asking")
  /\ Forget("replay")
  /\ UNCHANGED <<clientVars, answers, nextGen, restarting, shutting, env, exited, proc, pipe,
                 greeter, aim, stage, waiter, abandoned>>

RestartAsks(t) ==
  /\ rpc[t].at = "asking"
  /\ IF CanBegin(rpc[t].gen) THEN Begin("list", rpc[t].gen) /\ At(t, "listing")
     ELSE At(t, "ending") /\ UNCHANGED <<waits, inbox>>
  /\ UNCHANGED <<clientVars, answers, slot, nextGen, queue, restarting, shutting, env, exited,
                 proc, pipe, greeter, aim, stage, waiter, abandoned>>

RestartListed(t) ==
  /\ rpc[t].at = "listing" /\ Got("list") = "ok"
  /\ Ready(t)
  /\ Forget("list")
  /\ UNCHANGED <<clientVars, answers, slot, nextGen, queue, restarting, shutting, env, exited,
                 childVars, greeter, aim, stage, waiter, abandoned>>

\* Mutant: internal_request waits for as long as the child lives.
RestartWaitsOn(t) ==
  /\ \E i \in {"replay", "list"} :
       /\ rpc[t].at = (IF i = "replay" THEN "greeting" ELSE "listing")
       /\ Got(i) \in {"error", "lost"}
       /\ Forget(i)
  /\ At(t, "ending")
  /\ UNCHANGED <<clientVars, answers, slot, nextGen, queue, restarting, shutting, env, exited,
                 childVars, greeter, aim, stage, waiter, abandoned>>

\* A refusal, the child's exit, or the deadline.
RestartFails(t) ==
  /\ \E i \in {"replay", "list"} :
       /\ rpc[t].at = (IF i = "replay" THEN "greeting" ELSE "listing")
       /\ Got(i) # "ok"
       /\ Forget(i)
  /\ At(t, "ending")
  /\ UNCHANGED <<clientVars, answers, slot, nextGen, queue, restarting, shutting, env, exited,
                 childVars, greeter, aim, stage, waiter, abandoned>>

RestartEnds(t) ==
  /\ rpc[t].at = "ending"
  /\ restarting' = None
  /\ At(t, "telling")
  /\ UNCHANGED <<clientVars, answers, slot, nextGen, queue, waits, shutting, env, exited,
                 childVars, greeter, aim, stage, waiter, abandoned>>

\* A restart that failed fails the queue, after it has let go of the proxy.
RestartTells(t) ==
  /\ rpc[t].at = "telling"
  /\ IF rpc[t].ok THEN Tell(t) /\ UNCHANGED queue
     ELSE Reply(queue \cup ({t} \cap Restarts)) /\ queue' = {}
  /\ Done(t)
  /\ UNCHANGED <<clientVars, slot, nextGen, waits, restarting, shutting, env, exited,
                 childVars, greeter, aim, stage, waiter, abandoned>>

Restarter(t) == \/ RestartStarts(t) \/ RestartSpawns(t) \/ RestartSpawnFails(t)
                \/ RestartReplays(t) \/ RestartGreeted(t) \/ RestartAsks(t) \/ RestartListed(t)
                \/ RestartFails(t) \/ RestartEnds(t) \/ RestartTells(t)

-----------------------------------------------------------------------------
(* The child, its reader and its waiter *)

\* The GUI answers something it was sent; initialize and the list may be refused.
ChildAnswers(g) ==
  /\ proc[g] = "alive"
  /\ \E m \in inbox[g] :
       /\ inbox' = [inbox EXCEPT ![g] = @ \ {m}]
       /\ \E ok \in BOOLEAN :
            /\ IF ok THEN UNCHANGED env ELSE m \in Internal /\ Fault
            /\ pipe' = [pipe EXCEPT ![g] = @ \cup {<<m, ok>>}]
  /\ UNCHANGED <<clientVars, answers, innerVars, exited, proc, threadVars, abandoned>>

\* It exits or crashes, or closes its stdout, or dies of a SIGKILL.
ChildExits(g) ==
  /\ proc[g] \in {"alive", "mute", "dying"}
  /\ Becomes(g, "dead")
  /\ IF proc[g] = "alive" /\ HasGen(g) /\ slot.open THEN Fault ELSE UNCHANGED env
  /\ UNCHANGED <<clientVars, answers, innerVars, exited, pipe, threadVars,
                 abandoned>>

ChildClosesStdout(g) ==
  /\ proc[g] = "alive"
  /\ Becomes(g, "mute")
  /\ Fault
  /\ UNCHANGED <<clientVars, answers, innerVars, exited, pipe, threadVars,
                 abandoned>>

\* The reader has come to the end: on_child_stdout_closed kills a child that stays.
ReaderKills(g) ==
  /\ proc[g] = "mute" /\ pipe[g] = {} /\ HasGen(g)
  /\ Becomes(g, "dying")
  /\ UNCHANGED <<clientVars, answers, innerVars, env, exited, pipe, threadVars,
                 abandoned>>

\* Mutant: an answer is passed on whatever the slot says of it.
ReaderTrusts(g) ==
  \E m \in pipe[g] :
    /\ pipe' = [pipe EXCEPT ![g] = @ \ {m}]
    /\ IF m[1] \in Internal
         THEN /\ waits' = IF waits[m[1]] # None /\ waits[m[1]].gen = g
                            THEN [waits EXCEPT ![m[1]].got = IF m[2] THEN "ok" ELSE "error"]
                            ELSE waits
              /\ UNCHANGED <<slot, answers>>
         ELSE /\ Reply({m[1]})
              /\ slot' = IF HasGen(g) THEN [slot EXCEPT !.flight = @ \ {m[1]}] ELSE slot
              /\ UNCHANGED waits
    /\ UNCHANGED <<clientVars, nextGen, queue, restarting, shutting, env, exited, proc, inbox,
                   threadVars, abandoned>>

\* on_child_line: an answer goes to whoever still waits for it from this
\* generation, and is dropped otherwise.
ReaderReads(g) ==
  \E m \in pipe[g] :
    /\ pipe' = [pipe EXCEPT ![g] = @ \ {m}]
    /\ IF m[1] \in Internal
         THEN /\ waits' = IF waits[m[1]] # None /\ waits[m[1]].gen = g
                            THEN [waits EXCEPT ![m[1]].got = IF m[2] THEN "ok" ELSE "error"]
                            ELSE waits
              /\ UNCHANGED <<slot, answers>>
         ELSE /\ IF HasGen(g) /\ m[1] \in slot.flight
                   THEN Reply({m[1]}) /\ slot' = [slot EXCEPT !.flight = @ \ {m[1]}]
                   ELSE UNCHANGED <<slot, answers>>
              /\ UNCHANGED waits
    /\ UNCHANGED <<clientVars, nextGen, queue, restarting, shutting, env, exited, proc, inbox,
                   threadVars, abandoned>>

\* The waiter reaps the process and reads the slot's stop reason with its facts;
\* then it looks for evidence of an OOM kill without the lock.
WaiterReaps(g) ==
  /\ waiter[g].at = "watching" /\ proc[g] = "dead"
  /\ waiter' = [waiter EXCEPT ![g] = IF HasGen(g) THEN [at |-> "recording", stop |-> slot.stop]
                                     ELSE [at |-> "done", stop |-> FALSE]]
  /\ UNCHANGED <<clientVars, answers, innerVars, env, exited, childVars, greeter, aim, stage,
                 rpc, abandoned>>

\* Mutant: the requests in flight die with the slot.
BuryForgets(g) ==
  /\ Reply(IF restarting = None THEN queue ELSE {})
  /\ queue' = IF restarting = None THEN {} ELSE queue

\* The requests in flight fail with the child, and the queue too unless a restart
\* has a new child for it.
Bury(g) ==
  /\ Reply(slot.flight \cup IF restarting = None THEN queue ELSE {})
  /\ queue' = IF restarting = None THEN {} ELSE queue

\* on_child_exit, second half.  The automatic restart goes by the stop reason the
\* waiter read first; the gap since the last one may forbid it.
WaiterBuries(g) ==
  /\ waiter[g].at = "recording"
  /\ IF ~ HasGen(g)
       THEN /\ UNCHANGED <<slot, queue, waits, answers, rpc>>
            /\ waiter' = [waiter EXCEPT ![g] = [at |-> "done", stop |-> FALSE]]
       ELSE /\ slot' = None
            /\ waits' = [i \in Internal |->
                           IF waits[i] # None /\ waits[i].gen = g
                             THEN [waits[i] EXCEPT !.got = IF @ = "pending" THEN "lost" ELSE @]
                             ELSE waits[i]]
            /\ Bury(g)
            /\ waiter' = [waiter EXCEPT ![g] = [at |-> "done", stop |-> FALSE]]
            /\ \/ /\ auto /\ ~ waiter[g].stop /\ ~ shutting /\ restarting = None
                  /\ At(g, "called")
               \/ UNCHANGED rpc
  /\ UNCHANGED <<clientVars, nextGen, restarting, shutting, env, exited, childVars, greeter,
                 aim, stage, abandoned>>

Child(g) == ChildAnswers(g) \/ ChildExits(g) \/ ChildClosesStdout(g)
Keeper(g) == ReaderKills(g) \/ ReaderReads(g) \/ WaiterReaps(g) \/ WaiterBuries(g)

-----------------------------------------------------------------------------

Client == \/ SendInitialize \/ SendInitialized \/ CloseStdin
          \/ \E r \in Requests : SendRequest(r) \/ SendCancelled(r)
          \/ \E t \in Stops : SendStop(t)
          \/ \E t \in Restarts : SendRestart(t)

Proxy == \/ Greeter \/ Exit
         \/ \E t \in Stoppers : Stopper(t)
         \/ \E t \in Restarters : Restarter(t)
         \/ \E g \in Gens : Keeper(g)

\* The model follows the children no longer than the proxy.
Next == ~ exited /\ (Client \/ Proxy \/ \E g \in Gens : Child(g))

Spec == Init /\ [][Next]_vars

\* The thread of a proxy tool runs, and its waits end.
Tool(t) == Stopper(t) \/ (t \in Restarts /\ Restarter(t))
FairSpec == Spec /\ \A t \in Tools : WF_vars(~ exited /\ Tool(t))

-----------------------------------------------------------------------------
(* Properties *)

Waiting == [gen : Gens, got : {"pending", "ok", "error", "lost"}]

\* What the client said and what the proxy keeps under its lock.
CoreTypes ==
  /\ hello \in {"none", "sent", "answered", "initialized"}
  /\ sent \in SUBSET Calls /\ cancelled \in SUBSET Requests /\ abandoned \in SUBSET Requests
  /\ answers \in [Calls -> Nat]
  /\ slot \in Slot \cup {None} /\ nextGen \in Gens /\ queue \in SUBSET Requests
  /\ rpc \in [Restarters -> [at : {"idle", "called", "stopping", "params", "greeting", "asking",
                                   "listing", "ending", "telling", "done"},
                             gen : Gens \cup {None}, ok : BOOLEAN]]

\* Every variable keeps its type.
TypeOK ==
  /\ CoreTypes
  /\ waits \in [Internal -> Waiting \cup {None}]
  /\ restarting \in Restarters \cup {None}
  /\ faults \in 0..MaxFaults /\ shutting \in BOOLEAN /\ auto \in BOOLEAN /\ exited \in BOOLEAN
  /\ proc \in [Gens -> {"unborn", "alive", "mute", "dying", "dead"}]
  /\ inbox \in [Gens -> SUBSET (Requests \cup Internal)]
  /\ pipe \in [Gens -> SUBSET ((Requests \cup Internal) \X BOOLEAN)]
  /\ greeter \in [at : {"idle", "choosing", "sending", "waiting", "late", "done"},
                  gen : Gens \cup {None}]
  /\ aim \in [Stoppers -> Gens \cup {None}]
  /\ stage \in [Stoppers -> {"idle", "starting", "waiting", "killed", "done"}]
  /\ waiter \in [Gens -> [at : {"watching", "recording", "done"}, stop : BOOLEAN]]

\* No request gets two answers: neither the child's and the proxy's when the child
\* exits with its answer still in the pipe, nor two from the proxy's own threads
\* that fail the queue.
AnsweredOnce == \A c \in Calls : answers[c] <= 1

\* No request is lost: until it is answered it waits in the queue or is in flight
\* to the child of the moment.  The one exception is a child that was not reaped
\* within 5 s of its SIGKILL, whose slot a restart overwrites.
NothingLost ==
  \A r \in Requests \cap sent :
    answers[r] = 0 => r \in queue \cup cancelled \cup abandoned
                        \/ (slot # None /\ r \in slot.flight)

\* Never two GUIs: a child that was not sent SIGKILL is the one in the slot.
OneGui == \A g \in Gens : proc[g] \in {"alive", "mute"} => HasGen(g)

\* The proxy counts the child ready only when both halves of the handshake are
\* done, and nothing the client sent earlier is still waiting behind it.
ReadyIsComplete ==
  slot # None /\ slot.ready => slot.init /\ hello = "initialized" /\ queue = {}

\* Every proxy tool call is answered, however the GUI behaves.
ToolsAnswer == \A t \in Tools : t \in sent ~> (answers[t] = 1 \/ exited)
=============================================================================
