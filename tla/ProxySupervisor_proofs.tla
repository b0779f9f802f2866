----------------------- MODULE ProxySupervisor_proofs -----------------------
(***************************************************************************)
(* Proofs about ProxySupervisor, for any sets of calls, any number of      *)
(* children and any number of faults.                                      *)
(***************************************************************************)
EXTENDS ProxySupervisor, TLAPS

\* The requests in flight to the child of the moment.
Flight == IF slot = None THEN {} ELSE slot.flight

\* The books: what waits or is in flight was sent and has no answer, nothing waits
\* in two places, and a restart that is not done has not answered its call.
Booked ==
  /\ queue \cup Flight \subseteq sent
  /\ queue \cap Flight = {}
  /\ \A r \in Requests : r \in queue \cup Flight \/ r \notin sent => answers[r] = 0
  /\ \A t \in Restarts : /\ t \notin sent => rpc[t].at = "idle"
                         /\ rpc[t].at # "done" => answers[t] = 0

Books == CoreTypes /\ Booked /\ AnsweredOnce /\ NothingLost

USE DEF Tools, Calls, Restarters, Slot

-----------------------------------------------------------------------------
(* The slot and the queue *)

\* A slot with other requests in flight is a slot.
LEMMA SlotWithFlight ==
  ASSUME NEW s \in Slot, NEW rs \in SUBSET Requests
  PROVE  [s EXCEPT !.flight = rs] \in Slot /\ [s EXCEPT !.flight = rs].flight = rs
  OBVIOUS

\* A slot that is told to stop, or whose child has answered, keeps its requests.
LEMMA SlotMarks ==
  ASSUME NEW s \in Slot
  PROVE  /\ [s EXCEPT !.stop = TRUE, !.open = FALSE] \in Slot
         /\ [s EXCEPT !.stop = TRUE, !.open = FALSE].flight = s.flight
         /\ [s EXCEPT !.init = TRUE] \in Slot
         /\ [s EXCEPT !.init = TRUE].flight = s.flight
  OBVIOUS

\* mark_ready moves what waited to the child.
LEMMA MarkReadyMoves ==
  ASSUME CoreTypes, slot \in Slot, MarkReady
  PROVE  /\ slot' \in Slot /\ slot'.flight = slot.flight \cup queue
         /\ queue' = {}
  <1>1. ASSUME NEW s \in Slot, NEW q \in SUBSET Requests
        PROVE  /\ [s EXCEPT !.init = TRUE, !.ready = TRUE, !.flight = @ \cup q] \in Slot
               /\ [s EXCEPT !.init = TRUE, !.ready = TRUE, !.flight = @ \cup q].flight
                    = s.flight \cup q
    OBVIOUS
  <1> QED BY <1>1 DEF CoreTypes, MarkReady

\* on_child_initialized moves the requests or leaves them where they are.
LEMMA InitializedMoves ==
  ASSUME CoreTypes, NEW g, OnChildInitialized(g)
  PROVE  /\ slot' \in Slot \cup {None} /\ queue' \in SUBSET Requests
         /\ \/ queue' = {} /\ Flight' = Flight \cup queue
            \/ queue' = queue /\ Flight' = Flight
  <1>1. CASE ~ HasGen(g)
    BY <1>1 DEF CoreTypes, OnChildInitialized, Flight
  <1>2. CASE HasGen(g)
    <2>1. slot \in Slot /\ slot # None
      BY <1>2 DEF CoreTypes, HasGen
    <2>2. CASE hello = "initialized"
      BY <1>2, <2>1, <2>2, MarkReadyMoves, NoneAssumption DEF OnChildInitialized, Flight
    <2>3. CASE hello # "initialized"
      <3>1. slot' = [slot EXCEPT !.init = TRUE] /\ queue' = queue
        BY <1>2, <2>3 DEF OnChildInitialized
      <3>2. slot' \in Slot /\ slot'.flight = slot.flight
        BY <2>1, <3>1, SlotMarks
      <3> QED BY <2>1, <3>1, <3>2, NoneAssumption DEF Flight, CoreTypes
    <2> QED BY <2>2, <2>3
  <1> QED BY <1>1, <1>2

-----------------------------------------------------------------------------
(* Every step keeps the books *)

\* A restart goes on as it was: none that was not called starts, none starts over.
Onward == \A t \in Restarts : /\ t \notin sent => rpc'[t].at = rpc[t].at
                              /\ rpc'[t].at # "done" => rpc[t].at # "done"

\* A restart that has not ended has not answered.
LEMMA Unanswered ==
  ASSUME Books, NEW t \in Restarts, rpc[t].at # "done"
  PROVE  answers[t] = 0
  BY DEF Books, Booked

LEMMA Uncalled ==
  ASSUME Books, NEW t \in Restarts, t \notin sent
  PROVE  rpc[t].at = "idle"
  BY DEF Books, Booked

\* Requests that leave the queue and the flight with an answer each, or change
\* places between the two, and tools that are answered as they end, leave the books
\* in order.
LEMMA Moved ==
  ASSUME Books, CoreTypes', NEW rs \in SUBSET Calls, Reply(rs),
         rs \cap Requests \subseteq queue \cup Flight,
         \A t \in rs \cap Tools : answers[t] = 0 /\ (t \in Restarts => rpc'[t].at = "done"),
         queue' \cup Flight' = (queue \cup Flight) \ rs, queue' \cap Flight' = {},
         UNCHANGED <<sent, cancelled, abandoned>>, Onward
  PROVE  Books'
  <1>1. \A c \in Calls : answers'[c] = IF c \in rs THEN answers[c] + 1 ELSE answers[c]
    BY DEF Books, CoreTypes, Reply, Count
  <1>2. Booked'
    <2>1. \A r \in Requests : r \in (queue \cup Flight)' \/ r \notin sent' => answers'[r] = 0
      BY <1>1 DEF Books, Booked
    <2>2. \A t \in Restarts : /\ t \notin sent' => rpc'[t].at = "idle"
                              /\ rpc'[t].at # "done" => answers'[t] = 0
      <3> SUFFICES ASSUME NEW t \in Restarts
                   PROVE  /\ t \notin sent => rpc'[t].at = "idle"
                          /\ rpc'[t].at # "done" => answers'[t] = 0
        OBVIOUS
      <3>1. t \notin sent => rpc'[t].at = "idle"
        BY Uncalled DEF Onward
      <3>2. ASSUME rpc'[t].at # "done" PROVE answers'[t] = 0
        <4>1. t \notin rs
          BY <3>2
        <4>2. answers[t] = 0
          BY <3>2, Unanswered DEF Onward
        <4> QED BY <1>1, <4>1, <4>2
      <3> QED BY <3>1, <3>2
    <2>3. (queue \cup Flight)' \subseteq sent' /\ (queue \cap Flight)' = {}
      BY DEF Books, Booked
    <2> QED BY <2>1, <2>2, <2>3 DEF Booked
  <1>3. AnsweredOnce'
    BY <1>1 DEF Books, Booked, AnsweredOnce, CoreTypes
  <1>4. NothingLost'
    BY <1>1 DEF Books, Booked, CoreTypes, NothingLost, Flight
  <1> QED BY <1>2, <1>3, <1>4 DEF Books

\* The same without an answer.
LEMMA Shifted ==
  ASSUME Books, CoreTypes', UNCHANGED <<answers, sent, cancelled, abandoned>>, Onward,
         queue' \cup Flight' = queue \cup Flight, queue' \cap Flight' = {}
  PROVE  Books'
  <1>1. Reply({})
    BY DEF Books, CoreTypes, Reply, Count
  <1> QED BY <1>1, Moved

LEMMA BooksInit == Init => Books
  BY CallsAssumption, GenAssumption
  DEF Init, Books, CoreTypes, Booked, AnsweredOnce, NothingLost, Flight, Gens, NewSlot

LEMMA BooksSendInitialize ==
  ASSUME Books, SendInitialize
  PROVE  Books'
  BY CallsAssumption, GenAssumption, NoneAssumption
  DEF Books, CoreTypes, Booked,
      AnsweredOnce, NothingLost, Flight, SendInitialize, clientVars, innerVars, threadVars

LEMMA BooksSendInitialized ==
  ASSUME Books, SendInitialized
  PROVE  Books'
  <1>1. UNCHANGED <<answers, sent, cancelled, abandoned, rpc, nextGen>> /\ hello' = "initialized"
    BY DEF SendInitialized, threadVars
  <1>2. Onward
    BY <1>1 DEF Onward
  <1>3. CASE slot # None /\ slot.init /\ ~ slot.ready
    <2>1. MarkReady /\ slot \in Slot
      BY <1>3 DEF SendInitialized, Books, CoreTypes
    <2>2. slot' \in Slot /\ slot'.flight = slot.flight \cup queue /\ queue' = {}
      BY <2>1, MarkReadyMoves DEF Books
    <2>3. Flight' = Flight \cup queue
      BY <1>3, <2>2, NoneAssumption DEF Flight
    <2>4. CoreTypes'
      BY <1>1, <2>2 DEF Books, CoreTypes
    <2> QED BY <1>1, <1>2, <2>2, <2>3, <2>4, Shifted
  <1>4. CASE ~ (slot # None /\ slot.init /\ ~ slot.ready)
    <2>1. UNCHANGED <<slot, queue>>
      BY <1>4 DEF SendInitialized
    <2> QED BY <1>1, <1>2, <2>1, Shifted DEF Books, CoreTypes, Booked, Flight
  <1> QED BY <1>3, <1>4

LEMMA BooksCloseStdin ==
  ASSUME Books, CloseStdin
  PROVE  Books'
  BY CallsAssumption, GenAssumption, NoneAssumption
  DEF Books, CoreTypes, Booked,
      AnsweredOnce, NothingLost, Flight, CloseStdin, clientVars, innerVars, threadVars

LEMMA BooksSendRequest ==
  ASSUME Books, NEW r \in Requests, SendRequest(r)
  PROVE  Books'
  BY CallsAssumption, GenAssumption, NoneAssumption
  DEF Books, CoreTypes, Booked,
      AnsweredOnce, NothingLost, Flight, SendRequest, Route, State, Deliver, Into, Reply,
      Count, clientVars, innerVars, threadVars

LEMMA BooksSendCancelled ==
  ASSUME Books, NEW r \in Requests, SendCancelled(r)
  PROVE  Books'
  BY CallsAssumption, GenAssumption, NoneAssumption
  DEF Books, CoreTypes, Booked,
      AnsweredOnce, NothingLost, Flight, SendCancelled, clientVars, innerVars, threadVars

LEMMA BooksSendStop ==
  ASSUME Books, NEW t \in Stops, SendStop(t)
  PROVE  Books'
  BY CallsAssumption, GenAssumption, NoneAssumption
  DEF Books, CoreTypes, Booked,
      AnsweredOnce, NothingLost, Flight, SendStop, clientVars, innerVars, threadVars

LEMMA BooksSendRestart ==
  ASSUME Books, NEW t \in Restarts, SendRestart(t)
  PROVE  Books'
  <1>1. /\ UNCHANGED <<hello, answers, slot, queue, cancelled, abandoned, nextGen>>
        /\ sent' = sent \cup {t} /\ rpc' = [rpc EXCEPT ![t].at = "called"]
    BY DEF SendRestart, innerVars
  <1>2. CoreTypes'
    BY <1>1 DEF Books, CoreTypes
  <1>3. \A u \in Restarts : rpc'[u].at = IF u = t THEN "called" ELSE rpc[u].at
    BY <1>1 DEF Books, CoreTypes
  <1>4. answers[t] = 0
    BY Unanswered, Uncalled DEF SendRestart
  <1>5. Booked'
    BY <1>1, <1>3, <1>4, CallsAssumption DEF Books, Booked, Flight
  <1> QED BY <1>1, <1>2, <1>5, CallsAssumption DEF Books, AnsweredOnce, NothingLost

LEMMA BooksGreeterChooses ==
  ASSUME Books, GreeterChooses
  PROVE  Books'
  BY CallsAssumption, GenAssumption, NoneAssumption
  DEF Books, CoreTypes, Booked,
      AnsweredOnce, NothingLost, Flight, GreeterChooses, Greeted, clientVars, innerVars,
      threadVars

LEMMA BooksGreeterSends ==
  ASSUME Books, GreeterSends
  PROVE  Books'
  BY CallsAssumption, GenAssumption, NoneAssumption
  DEF Books, CoreTypes, Booked,
      AnsweredOnce, NothingLost, Flight, GreeterSends, Greeted, clientVars, innerVars,
      threadVars

LEMMA BooksGreeterHears ==
  ASSUME Books, GreeterHears
  PROVE  Books'
  <1>1. /\ UNCHANGED <<sent, cancelled, abandoned, rpc, nextGen>>
        /\ hello' \in {"answered", hello}
    BY DEF GreeterHears
  <1>2. Onward
    BY <1>1 DEF Onward
  <1>3. CASE Got("initialize") = "ok"
    <2>1. OnChildInitialized(greeter.gen) /\ UNCHANGED answers
      BY <1>3 DEF GreeterHears
    <2>2. CoreTypes
      BY DEF Books
    <2>3. /\ slot' \in Slot \cup {None} /\ queue' \in SUBSET Requests
          /\ \/ queue' = {} /\ Flight' = Flight \cup queue
             \/ queue' = queue /\ Flight' = Flight
      BY <2>1, <2>2, InitializedMoves
    <2>4. CoreTypes'
      BY <1>1, <2>1, <2>2, <2>3 DEF CoreTypes
    <2> QED BY <1>1, <1>2, <2>1, <2>3, <2>4, Shifted DEF Books, Booked
  <1>4. CASE Got("initialize") # "ok"
    <2>1. /\ slot' = slot
          /\ (Reply(queue) /\ queue' = {}) \/ UNCHANGED <<answers, queue>>
      BY <1>4 DEF GreeterHears
    <2>2. CASE Reply(queue) /\ queue' = {}
      <3>1. CoreTypes'
        BY <1>1, <2>1, <2>2 DEF Books, CoreTypes, Reply, Count
      <3> QED BY <1>1, <1>2, <2>1, <2>2, <3>1, Moved, CallsAssumption
              DEF Books, Booked, CoreTypes, Flight
    <2>3. CASE UNCHANGED <<answers, queue>>
      BY <1>1, <1>2, <2>1, <2>3, Shifted DEF Books, Booked, CoreTypes, Flight
    <2> QED BY <2>1, <2>2, <2>3
  <1> QED BY <1>3, <1>4

LEMMA BooksGreeterTimesOut ==
  ASSUME Books, GreeterTimesOut
  PROVE  Books'
  BY CallsAssumption, GenAssumption, NoneAssumption
  DEF Books, CoreTypes, Booked,
      AnsweredOnce, NothingLost, Flight, GreeterTimesOut, clientVars, innerVars, threadVars

LEMMA BooksGreeterGivesUp ==
  ASSUME Books, GreeterGivesUp
  PROVE  Books'
  BY CallsAssumption, GenAssumption, NoneAssumption
  DEF Books, CoreTypes, Booked,
      AnsweredOnce, NothingLost, Flight, GreeterGivesUp, Reply, Count, Greeted, clientVars,
      innerVars, threadVars

LEMMA BooksExit ==
  ASSUME Books, Exit
  PROVE  Books'
  BY CallsAssumption, GenAssumption, NoneAssumption
  DEF Books, CoreTypes, Booked,
      AnsweredOnce, NothingLost, Flight, Exit, clientVars, innerVars, threadVars

LEMMA BooksStopStarts ==
  ASSUME Books, NEW t \in Stoppers, StopStarts(t)
  PROVE  Books'
  <1>1. UNCHANGED <<hello, answers, sent, cancelled, abandoned, rpc, nextGen, queue>>
    BY DEF StopStarts, clientVars
  <1>2. slot' \in Slot \cup {None} /\ Flight' = Flight
    <2>1. CASE slot = None
      BY <2>1 DEF StopStarts, Flight
    <2>2. CASE slot # None
      <3>1. slot \in Slot /\ slot' = [slot EXCEPT !.stop = TRUE, !.open = FALSE]
        BY <2>2 DEF StopStarts, Books, CoreTypes
      <3>2. slot' \in Slot /\ slot'.flight = slot.flight
        BY <3>1, SlotMarks
      <3> QED BY <2>2, <3>2, NoneAssumption DEF Flight
    <2> QED BY <2>1, <2>2
  <1>3. CoreTypes' /\ Onward
    BY <1>1, <1>2 DEF Books, CoreTypes, Onward
  <1> QED BY <1>1, <1>2, <1>3, Shifted DEF Books, Booked

LEMMA BooksStopSeesGone ==
  ASSUME Books, NEW t \in Stoppers, StopSeesGone(t)
  PROVE  Books'
  BY CallsAssumption, GenAssumption, NoneAssumption
  DEF Books, CoreTypes, Booked,
      AnsweredOnce, NothingLost, Flight, StopSeesGone, clientVars, innerVars, threadVars

LEMMA BooksStopKills ==
  ASSUME Books, NEW t \in Stoppers, StopKills(t)
  PROVE  Books'
  BY CallsAssumption, GenAssumption, NoneAssumption
  DEF Books, CoreTypes, Booked,
      AnsweredOnce, NothingLost, Flight, StopKills, clientVars, innerVars, threadVars

LEMMA BooksStopGivesUp ==
  ASSUME Books, NEW t \in Stoppers, StopGivesUp(t)
  PROVE  Books'
  BY CallsAssumption, GenAssumption, NoneAssumption
  DEF Books, CoreTypes, Booked,
      AnsweredOnce, NothingLost, Flight, StopGivesUp, clientVars, innerVars, threadVars

LEMMA BooksStopAnswers ==
  ASSUME Books, NEW t \in Stops, StopAnswers(t)
  PROVE  Books'
  BY CallsAssumption, GenAssumption, NoneAssumption
  DEF Books, CoreTypes, Booked,
      AnsweredOnce, NothingLost, Flight, StopAnswers, Reply, Count, clientVars, innerVars,
      threadVars

LEMMA BooksRestartStarts ==
  ASSUME Books, NEW t \in Restarters, RestartStarts(t)
  PROVE  Books'
  <1>1. UNCHANGED <<hello, sent, cancelled, abandoned, nextGen, slot, queue>>
    BY DEF RestartStarts, clientVars
  <1>2. rpc[t].at = "called"
    BY DEF RestartStarts
  <1>3. CASE restarting # None \/ shutting
    <2>1. /\ Reply({t} \cap Restarts)
          /\ rpc' = [rpc EXCEPT ![t] = [at |-> "done", gen |-> None, ok |-> FALSE]]
      <3>1. Tell(t) /\ rpc' = [rpc EXCEPT ![t] = [at |-> "done", gen |-> None, ok |-> FALSE]]
        BY <1>3 DEF RestartStarts, Done
      <3> QED BY <3>1 DEF Tell
    <2>2. CoreTypes' /\ Onward
      BY <1>1, <1>2, <2>1 DEF Books, Booked, CoreTypes, Onward, Reply, Count
    <2>3. rpc'[t].at = "done" /\ (t \in Restarts => answers[t] = 0)
      BY <1>2, <2>1, Unanswered DEF Books, CoreTypes
    <2> QED BY <1>1, <2>1, <2>2, <2>3, Moved, CallsAssumption DEF Books, Booked, Flight, CoreTypes
  <1>4. CASE ~ (restarting # None \/ shutting)
    <2>1. rpc' = [rpc EXCEPT ![t].at = "stopping"] /\ UNCHANGED answers
      BY <1>4 DEF RestartStarts, At
    <2>2. CoreTypes' /\ Onward
      BY <1>1, <1>2, <2>1 DEF Books, Booked, CoreTypes, Onward
    <2> QED BY <1>1, <2>1, <2>2, Shifted DEF Books, Booked, Flight
  <1> QED BY <1>3, <1>4

LEMMA BooksRestartSpawns ==
  ASSUME Books, NEW t \in Restarters, RestartSpawns(t)
  PROVE  Books'
  BY CallsAssumption, GenAssumption, NoneAssumption
  DEF Books, CoreTypes, Booked,
      AnsweredOnce, NothingLost, Flight, RestartSpawns, NewSlot, Gens, clientVars,
      innerVars, threadVars

LEMMA BooksRestartSpawnFails ==
  ASSUME Books, NEW t \in Restarters, RestartSpawnFails(t)
  PROVE  Books'
  BY CallsAssumption, GenAssumption, NoneAssumption
  DEF Books, CoreTypes, Booked,
      AnsweredOnce, NothingLost, Flight, RestartSpawnFails, At, clientVars, innerVars,
      threadVars

LEMMA BooksRestartReplays ==
  ASSUME Books, NEW t \in Restarters, RestartReplays(t)
  PROVE  Books'
  <1>1. /\ UNCHANGED <<hello, answers, slot, queue, sent, cancelled, abandoned, nextGen>>
        /\ rpc[t].at = "params"
    BY DEF RestartReplays, clientVars
  <1>2. Ready(t) \/ At(t, "greeting") \/ At(t, "ending")
    BY DEF RestartReplays
  <1>3. CASE Ready(t)
    <2>1. CoreTypes' /\ Onward
      BY <1>1, <1>3 DEF Books, Booked, CoreTypes, Onward, Ready
    <2> QED BY <1>1, <2>1, Shifted DEF Books, Booked, Flight
  <1>4. CASE At(t, "greeting") \/ At(t, "ending")
    <2>1. CoreTypes' /\ Onward
      BY <1>1, <1>4 DEF Books, Booked, CoreTypes, Onward, At
    <2> QED BY <1>1, <2>1, Shifted DEF Books, Booked, Flight
  <1> QED BY <1>2, <1>3, <1>4

LEMMA BooksRestartGreeted ==
  ASSUME Books, NEW t \in Restarters, RestartGreeted(t)
  PROVE  Books'
  <1>1. /\ UNCHANGED <<hello, answers, sent, cancelled, abandoned, nextGen>>
        /\ rpc[t].at = "greeting" /\ rpc' = [rpc EXCEPT ![t].at = "asking"]
        /\ OnChildInitialized(rpc[t].gen)
    BY DEF RestartGreeted, clientVars, At
  <1>2. CoreTypes
    BY DEF Books
  <1>3. /\ slot' \in Slot \cup {None} /\ queue' \in SUBSET Requests
        /\ \/ queue' = {} /\ Flight' = Flight \cup queue
           \/ queue' = queue /\ Flight' = Flight
    BY <1>1, <1>2, InitializedMoves
  <1>4. CoreTypes' /\ Onward
    BY <1>1, <1>2, <1>3 DEF Books, CoreTypes, Booked, Onward
  <1> QED BY <1>1, <1>3, <1>4, Shifted DEF Books, Booked

LEMMA BooksRestartAsks ==
  ASSUME Books, NEW t \in Restarters, RestartAsks(t)
  PROVE  Books'
  BY CallsAssumption, GenAssumption, NoneAssumption
  DEF Books, CoreTypes, Booked,
      AnsweredOnce, NothingLost, Flight, RestartAsks, At, clientVars, innerVars, threadVars

LEMMA BooksRestartListed ==
  ASSUME Books, NEW t \in Restarters, RestartListed(t)
  PROVE  Books'
  BY CallsAssumption, GenAssumption, NoneAssumption
  DEF Books, CoreTypes, Booked, AnsweredOnce, NothingLost, Flight, RestartListed, Ready, clientVars,
      innerVars, threadVars

LEMMA BooksRestartFails ==
  ASSUME Books, NEW t \in Restarters, RestartFails(t)
  PROVE  Books'
  BY CallsAssumption, GenAssumption, NoneAssumption
  DEF Books, CoreTypes, Booked,
      AnsweredOnce, NothingLost, Flight, RestartFails, At, clientVars, innerVars, threadVars

LEMMA BooksRestartEnds ==
  ASSUME Books, NEW t \in Restarters, RestartEnds(t)
  PROVE  Books'
  BY CallsAssumption, GenAssumption, NoneAssumption
  DEF Books, CoreTypes, Booked,
      AnsweredOnce, NothingLost, Flight, RestartEnds, At, clientVars, innerVars, threadVars

LEMMA BooksRestartTells ==
  ASSUME Books, NEW t \in Restarters, RestartTells(t)
  PROVE  Books'
  <1>1. /\ UNCHANGED <<hello, sent, cancelled, abandoned, nextGen, slot>>
        /\ rpc' = [rpc EXCEPT ![t] = [at |-> "done", gen |-> None, ok |-> FALSE]]
        /\ rpc[t].at = "telling"
    BY DEF RestartTells, clientVars, Done
  <1>2. rpc'[t].at = "done" /\ (t \in Restarts => answers[t] = 0)
    BY <1>1, Unanswered DEF Books, CoreTypes
  <1>3. PICK rs \in SUBSET Calls :
          /\ Reply(rs) /\ queue' = queue \ rs
          /\ rs \cap Requests \subseteq queue /\ rs \cap Tools \subseteq {t} \cap Restarts
    <2>1. CASE rpc[t].ok
      BY <2>1, CallsAssumption DEF RestartTells, Tell, Books, CoreTypes
    <2>2. CASE ~ rpc[t].ok
      BY <2>2, CallsAssumption DEF RestartTells, Books, CoreTypes
    <2> QED BY <2>1, <2>2
  <1>4. CoreTypes' /\ Onward
    BY <1>1, <1>3 DEF Books, Booked, CoreTypes, Onward, Reply, Count
  <1>5. queue' \cup Flight' = (queue \cup Flight) \ rs /\ queue' \cap Flight' = {}
    BY <1>1, <1>3 DEF Books, Booked, Flight, CoreTypes
  <1> QED BY <1>1, <1>2, <1>3, <1>4, <1>5, Moved

LEMMA BooksReaderKills ==
  ASSUME Books, NEW g \in Gens, ReaderKills(g)
  PROVE  Books'
  BY CallsAssumption, GenAssumption, NoneAssumption
  DEF Books, CoreTypes, Booked,
      AnsweredOnce, NothingLost, Flight, ReaderKills, clientVars, innerVars, threadVars

LEMMA BooksReaderReads ==
  ASSUME Books, NEW g \in Gens, ReaderReads(g)
  PROVE  Books'
  BY CallsAssumption, GenAssumption, NoneAssumption
  DEF Books, CoreTypes, Booked,
      AnsweredOnce, NothingLost, Flight, ReaderReads, HasGen, Reply, Count, clientVars,
      innerVars, threadVars

LEMMA BooksWaiterReaps ==
  ASSUME Books, NEW g \in Gens, WaiterReaps(g)
  PROVE  Books'
  BY CallsAssumption, GenAssumption, NoneAssumption
  DEF Books, CoreTypes, Booked,
      AnsweredOnce, NothingLost, Flight, WaiterReaps, clientVars, innerVars, threadVars

LEMMA BooksWaiterBuries ==
  ASSUME Books, NEW g \in Gens, WaiterBuries(g)
  PROVE  Books'
  BY CallsAssumption, GenAssumption, NoneAssumption
  DEF Books, CoreTypes, Booked,
      AnsweredOnce, NothingLost, Flight, WaiterBuries, HasGen, Bury, Reply, Count, At,
      clientVars, innerVars, threadVars

LEMMA BooksChildAnswers ==
  ASSUME Books, NEW g \in Gens, ChildAnswers(g)
  PROVE  Books'
  BY CallsAssumption, GenAssumption, NoneAssumption
  DEF Books, CoreTypes, Booked,
      AnsweredOnce, NothingLost, Flight, ChildAnswers, clientVars, innerVars, threadVars

LEMMA BooksChildExits ==
  ASSUME Books, NEW g \in Gens, ChildExits(g)
  PROVE  Books'
  BY CallsAssumption, GenAssumption, NoneAssumption
  DEF Books, CoreTypes, Booked,
      AnsweredOnce, NothingLost, Flight, ChildExits, clientVars, innerVars, threadVars

LEMMA BooksChildClosesStdout ==
  ASSUME Books, NEW g \in Gens, ChildClosesStdout(g)
  PROVE  Books'
  BY CallsAssumption, GenAssumption, NoneAssumption
  DEF Books, CoreTypes, Booked,
      AnsweredOnce, NothingLost, Flight, ChildClosesStdout, clientVars, innerVars,
      threadVars

LEMMA BooksStutter ==
  ASSUME Books, UNCHANGED vars
  PROVE  Books'
  BY DEF Books, CoreTypes, Booked, AnsweredOnce, NothingLost, Flight, vars, clientVars,
         innerVars, threadVars

LEMMA BooksStep ==
  ASSUME Books, [Next]_vars
  PROVE  Books'
  <1>1. CASE Client
    BY <1>1, BooksSendInitialize, BooksSendInitialized, BooksCloseStdin, BooksSendRequest,
       BooksSendCancelled, BooksSendStop, BooksSendRestart DEF Client
  <1>2. CASE Greeter \/ Exit
    BY <1>2, BooksGreeterChooses, BooksGreeterSends, BooksGreeterHears, BooksGreeterTimesOut,
       BooksGreeterGivesUp, BooksExit DEF Greeter
  <1>3. ASSUME NEW t \in Stoppers, Stopper(t)
        PROVE  Books'
    BY <1>3, BooksStopStarts, BooksStopSeesGone, BooksStopKills, BooksStopGivesUp,
       BooksStopAnswers DEF Stopper
  <1>4. ASSUME NEW t \in Restarters, Restarter(t)
        PROVE  Books'
    BY <1>4, BooksRestartStarts, BooksRestartSpawns, BooksRestartSpawnFails,
       BooksRestartReplays, BooksRestartGreeted, BooksRestartAsks, BooksRestartListed,
       BooksRestartFails, BooksRestartEnds, BooksRestartTells DEF Restarter
  <1>5. ASSUME NEW g \in Gens, Keeper(g) \/ Child(g)
        PROVE  Books'
    BY <1>5, BooksReaderKills, BooksReaderReads, BooksWaiterReaps, BooksWaiterBuries,
       BooksChildAnswers, BooksChildExits, BooksChildClosesStdout DEF Keeper, Child
  <1>6. CASE UNCHANGED vars
    BY <1>6, BooksStutter
  <1> QED BY <1>1, <1>2, <1>3, <1>4, <1>5, <1>6 DEF Next, Proxy

-----------------------------------------------------------------------------
(* Every variable keeps its type *)

\* What Books leaves to say of the types: the threads and the children.
ThreadTypes ==
  /\ waits \in [Internal -> Waiting \cup {None}]
  /\ restarting \in Restarters \cup {None}
  /\ faults \in 0..MaxFaults /\ shutting \in BOOLEAN /\ auto \in BOOLEAN /\ exited \in BOOLEAN
  /\ proc \in [Gens -> {"unborn", "alive", "mute", "dying", "dead"}]
  /\ inbox \in [Gens -> SUBSET (Requests \cup Internal)]
  /\ pipe \in [Gens -> SUBSET ((Requests \cup Internal) \X BOOLEAN)]
  /\ greeter \in [at : {"idle", "choosing", "sending", "waiting", "late", "done"},
                  gen : Gens \cup {None}]
  /\ aim \in [Stoppers -> Gens \cup {None}]
  /\ stage \in [Stoppers -> {"idle", "starting", "waiting", "killed", "done"}]
  /\ waiter \in [Gens -> [at : {"watching", "recording", "done"}, stop : BOOLEAN]]

LEMMA TypesSplit == TypeOK <=> CoreTypes /\ ThreadTypes
  BY DEF TypeOK, ThreadTypes

LEMMA TypesInit ==
  ASSUME Init
  PROVE  ThreadTypes
  <1>1. waits \in [Internal -> Waiting \cup {None}] /\ restarting \in Restarters \cup {None}
    BY DEF Init
  <1>2. faults \in 0..MaxFaults
    BY BoundsAssumption DEF Init
  <1>3. shutting \in BOOLEAN /\ auto \in BOOLEAN /\ exited \in BOOLEAN
    BY Zenon DEF Init
  <1>4. /\ proc \in [Gens -> {"unborn", "alive", "mute", "dying", "dead"}]
        /\ inbox \in [Gens -> SUBSET (Requests \cup Internal)]
        /\ pipe \in [Gens -> SUBSET ((Requests \cup Internal) \X BOOLEAN)]
    BY DEF Init
  <1>5. /\ greeter \in [at : {"idle", "choosing", "sending", "waiting", "late", "done"},
                        gen : Gens \cup {None}]
        /\ aim \in [Stoppers -> Gens \cup {None}]
        /\ stage \in [Stoppers -> {"idle", "starting", "waiting", "killed", "done"}]
        /\ waiter \in [Gens -> [at : {"watching", "recording", "done"}, stop : BOOLEAN]]
    BY DEF Init
  <1> QED BY <1>1, <1>2, <1>3, <1>4, <1>5 DEF ThreadTypes

LEMMA TypesClient ==
  ASSUME CoreTypes, ThreadTypes, Client
  PROVE  ThreadTypes'
  <1>1. CASE SendInitialize
    BY <1>1 DEF ThreadTypes, SendInitialize, innerVars, env, childVars
  <1>2. CASE SendInitialized
    BY <1>2 DEF ThreadTypes, CoreTypes, SendInitialized, MarkReady, Deliver, Into, env, threadVars
  <1>3. CASE CloseStdin
    BY <1>3 DEF ThreadTypes, CloseStdin, env, childVars, Stoppers
  <1>4. ASSUME NEW r \in Requests, SendRequest(r) PROVE ThreadTypes'
    BY <1>4 DEF ThreadTypes, CoreTypes, SendRequest, Route, Deliver, Into, env, threadVars
  <1>5. ASSUME NEW r \in Requests, SendCancelled(r) PROVE ThreadTypes'
    BY <1>5 DEF ThreadTypes, SendCancelled, env, childVars, threadVars
  <1>6. ASSUME NEW t \in Stops, SendStop(t) PROVE ThreadTypes'
    BY <1>6 DEF ThreadTypes, SendStop, innerVars, env, childVars, Stoppers
  <1>7. ASSUME NEW t \in Restarts, SendRestart(t) PROVE ThreadTypes'
    BY <1>7 DEF ThreadTypes, SendRestart, innerVars, env, childVars
  <1> QED BY <1>1, <1>2, <1>3, <1>4, <1>5, <1>6, <1>7 DEF Client

\* A message that goes to a child is one of its requests.
LEMMA IntoTypes ==
  ASSUME ThreadTypes, NEW g, NEW lines \in SUBSET (Requests \cup Internal), Into(g, lines)
  PROVE  inbox' \in [Gens -> SUBSET (Requests \cup Internal)]
  BY DEF ThreadTypes, Into

LEMMA BeginTypes ==
  ASSUME CoreTypes, ThreadTypes, NEW i \in Internal, NEW g, CanBegin(g), Begin(i, g)
  PROVE  /\ inbox' \in [Gens -> SUBSET (Requests \cup Internal)]
         /\ waits' \in [Internal -> Waiting \cup {None}]
  <1>1. g \in Gens
    BY DEF CoreTypes, CanBegin, HasGen
  <1>2. Into(g, {i})
    BY DEF Begin
  <1>3. inbox' \in [Gens -> SUBSET (Requests \cup Internal)]
    BY <1>2, IntoTypes
  <1>4. [gen |-> g, got |-> "pending"] \in Waiting
    BY <1>1 DEF Waiting
  <1>5. waits' \in [Internal -> Waiting \cup {None}]
    BY <1>4 DEF Begin, ThreadTypes
  <1> QED BY <1>3, <1>5

LEMMA InitializedTypes ==
  ASSUME CoreTypes, ThreadTypes, NEW g, OnChildInitialized(g)
  PROVE  inbox' \in [Gens -> SUBSET (Requests \cup Internal)]
  <1>1. MarkReady => Deliver(queue)
    BY DEF MarkReady
  <1>2. ASSUME Deliver(queue) PROVE inbox' \in [Gens -> SUBSET (Requests \cup Internal)]
    BY <1>2, IntoTypes DEF Deliver, CoreTypes, ThreadTypes
  <1>3. MarkReady \/ UNCHANGED inbox
    BY DEF OnChildInitialized
  <1> QED BY <1>1, <1>2, <1>3 DEF ThreadTypes

LEMMA ForgetTypes ==
  ASSUME ThreadTypes, NEW i \in Internal, Forget(i)
  PROVE  waits' \in [Internal -> Waiting \cup {None}]
  BY DEF ThreadTypes, Forget

LEMMA TypesGreeter ==
  ASSUME CoreTypes, ThreadTypes, Greeter
  PROVE  ThreadTypes'
  <1> USE DEF Greeted
  <1>0. "initialize" \in Internal
    BY DEF Internal
  <1>1. CASE GreeterChooses
    BY <1>1 DEF ThreadTypes, CoreTypes, GreeterChooses, innerVars, env, childVars
  <1>2. CASE GreeterSends
    <2>1. CASE CanBegin(greeter.gen)
      BY <1>0, <1>2, <2>1, BeginTypes DEF ThreadTypes, GreeterSends, env
    <2>2. CASE ~ CanBegin(greeter.gen)
      BY <1>2, <2>2 DEF ThreadTypes, GreeterSends, env
    <2> QED BY <2>1, <2>2
  <1>3. CASE GreeterHears
    <2>1. waits' \in [Internal -> Waiting \cup {None}]
      BY <1>0, <1>3, ForgetTypes DEF GreeterHears
    <2>2. inbox' \in [Gens -> SUBSET (Requests \cup Internal)]
      BY <1>3, InitializedTypes DEF GreeterHears, ThreadTypes
    <2> QED BY <1>3, <2>1, <2>2 DEF ThreadTypes, GreeterHears, env
  <1>4. CASE GreeterTimesOut
    BY <1>4 DEF ThreadTypes, GreeterTimesOut, innerVars, env, childVars
  <1>5. CASE GreeterGivesUp
    BY <1>0, <1>5, ForgetTypes DEF ThreadTypes, GreeterGivesUp, env, childVars
  <1> QED BY <1>1, <1>2, <1>3, <1>4, <1>5 DEF Greeter

LEMMA TypesStopper ==
  ASSUME CoreTypes, ThreadTypes, NEW t \in Stoppers, Stopper(t)
  PROVE  ThreadTypes'
  <1>1. CASE StopStarts(t)
    BY <1>1 DEF ThreadTypes, CoreTypes, StopStarts, env, childVars
  <1>2. CASE StopSeesGone(t)
    BY <1>2 DEF ThreadTypes, StopSeesGone, innerVars, env, childVars
  <1>3. CASE StopKills(t)
    BY <1>3 DEF ThreadTypes, StopKills, Becomes, innerVars, env
  <1>4. CASE StopGivesUp(t)
    BY <1>4 DEF ThreadTypes, StopGivesUp, innerVars, env, childVars
  <1>5. CASE t \in Stops /\ StopAnswers(t)
    BY <1>5 DEF ThreadTypes, StopAnswers, innerVars, env, childVars, threadVars
  <1> QED BY <1>1, <1>2, <1>3, <1>4, <1>5 DEF Stopper

LEMMA TypesRestarter ==
  ASSUME CoreTypes, ThreadTypes, NEW t \in Restarters, Restarter(t)
  PROVE  ThreadTypes'
  <1>0. t \in Stoppers /\ {"replay", "list"} \subseteq Internal
    BY DEF Stoppers, Internal
  <1>1. CASE RestartStarts(t)
    BY <1>0, <1>1 DEF ThreadTypes, RestartStarts, env, childVars
  <1>2. CASE RestartSpawns(t)
    BY <1>0, <1>2 DEF ThreadTypes, RestartSpawns, env
  <1>3. CASE RestartSpawnFails(t)
    BY <1>3, BoundsAssumption DEF ThreadTypes, RestartSpawnFails, Fault, innerVars, env, childVars
  <1>4. CASE RestartReplays(t)
    BY <1>0, <1>4, BeginTypes DEF ThreadTypes, RestartReplays, env
  <1>5. CASE RestartGreeted(t)
    <2>1. waits' \in [Internal -> Waiting \cup {None}]
      BY <1>0, <1>5, ForgetTypes DEF RestartGreeted
    <2>2. inbox' \in [Gens -> SUBSET (Requests \cup Internal)]
      BY <1>5, InitializedTypes DEF RestartGreeted
    <2> QED BY <1>5, <2>1, <2>2 DEF ThreadTypes, RestartGreeted, env
  <1>6. CASE RestartAsks(t)
    BY <1>0, <1>6, BeginTypes DEF ThreadTypes, RestartAsks, env
  <1>7. CASE RestartListed(t)
    BY <1>0, <1>7, ForgetTypes DEF ThreadTypes, RestartListed, env, childVars
  <1>8. CASE RestartFails(t)
    <2>1. waits' \in [Internal -> Waiting \cup {None}]
      BY <1>0, <1>8, ForgetTypes DEF RestartFails
    <2> QED BY <1>8, <2>1 DEF ThreadTypes, RestartFails, env, childVars
  <1>9. CASE RestartEnds(t)
    BY <1>9 DEF ThreadTypes, RestartEnds, env, childVars
  <1>10. CASE RestartTells(t)
    BY <1>10 DEF ThreadTypes, RestartTells, env, childVars
  <1> QED BY <1>1, <1>2, <1>3, <1>4, <1>5, <1>6, <1>7, <1>8, <1>9, <1>10 DEF Restarter

LEMMA TypesKeeper ==
  ASSUME CoreTypes, ThreadTypes, NEW g \in Gens, Keeper(g)
  PROVE  ThreadTypes'
  <1>1. CASE ReaderKills(g)
    BY <1>1 DEF ThreadTypes, ReaderKills, Becomes, innerVars, env, threadVars
  <1>2. CASE ReaderReads(g)
    <2>1. PICK m \in pipe[g] :
            /\ pipe' = [pipe EXCEPT ![g] = @ \ {m}]
            /\ \/ waits' = waits
               \/ /\ waits[m[1]] # None
                  /\ waits' = [waits EXCEPT ![m[1]].got = IF m[2] THEN "ok" ELSE "error"]
      BY <1>2 DEF ReaderReads
    <2>2. waits' \in [Internal -> Waiting \cup {None}]
      BY <2>1 DEF ThreadTypes, Waiting
    <2>3. pipe' \in [Gens -> SUBSET ((Requests \cup Internal) \X BOOLEAN)]
      BY <2>1 DEF ThreadTypes
    <2> QED BY <1>2, <2>2, <2>3 DEF ThreadTypes, ReaderReads, env, threadVars
  <1>3. CASE WaiterReaps(g)
    BY <1>3 DEF ThreadTypes, CoreTypes, WaiterReaps, HasGen, innerVars, env, childVars
  <1>4. CASE WaiterBuries(g)
    <2>1. waits' \in [Internal -> Waiting \cup {None}]
      <3>1. CASE ~ HasGen(g)
        BY <1>4, <3>1 DEF WaiterBuries, ThreadTypes
      <3>2. CASE HasGen(g)
        <4>1. waits' = [i \in Internal |->
                          IF waits[i] # None /\ waits[i].gen = g
                            THEN [waits[i] EXCEPT !.got = IF @ = "pending" THEN "lost" ELSE @]
                            ELSE waits[i]]
          BY <1>4, <3>2 DEF WaiterBuries
        <4>2. \A w \in Waiting : [w EXCEPT !.got = IF @ = "pending" THEN "lost" ELSE @] \in Waiting
          BY DEF Waiting
        <4>3. \A i \in Internal : waits[i] \in Waiting \cup {None}
          BY DEF ThreadTypes
        <4> QED BY <4>1, <4>2, <4>3
      <3> QED BY <3>1, <3>2
    <2>2. waiter' = [waiter EXCEPT ![g] = [at |-> "done", stop |-> FALSE]]
      BY <1>4 DEF WaiterBuries
    <2>3. waiter' \in [Gens -> [at : {"watching", "recording", "done"}, stop : BOOLEAN]]
      BY <2>2 DEF ThreadTypes
    <2>4. UNCHANGED <<restarting, faults, shutting, auto, exited, proc, inbox, pipe, greeter, aim,
                      stage>>
      BY <1>4 DEF WaiterBuries, env, childVars
    <2> QED BY <2>1, <2>3, <2>4 DEF ThreadTypes
  <1> QED BY <1>1, <1>2, <1>3, <1>4 DEF Keeper

LEMMA TypesChild ==
  ASSUME CoreTypes, ThreadTypes, NEW g \in Gens, Child(g)
  PROVE  ThreadTypes'
  <1>1. CASE ChildAnswers(g)
    <2>1. PICK m \in inbox[g], ok \in BOOLEAN :
            /\ inbox' = [inbox EXCEPT ![g] = @ \ {m}]
            /\ pipe' = [pipe EXCEPT ![g] = @ \cup {<<m, ok>>}]
            /\ UNCHANGED env \/ Fault
      BY <1>1 DEF ChildAnswers
    <2>2. UNCHANGED <<waits, restarting, shutting, exited, proc, threadVars>>
      BY <1>1 DEF ChildAnswers, innerVars
    <2> QED BY <2>1, <2>2, BoundsAssumption DEF ThreadTypes, Fault, env, threadVars
  <1>2. CASE ChildExits(g)
    BY <1>2, BoundsAssumption
    DEF ThreadTypes, ChildExits, Becomes, Fault, innerVars, env, threadVars
  <1>3. CASE ChildClosesStdout(g)
    BY <1>3, BoundsAssumption
    DEF ThreadTypes, ChildClosesStdout, Becomes, Fault, innerVars, env, threadVars
  <1> QED BY <1>1, <1>2, <1>3 DEF Child

LEMMA TypesStep ==
  ASSUME CoreTypes, ThreadTypes, [Next]_vars
  PROVE  ThreadTypes'
  <1>1. CASE Exit
    BY <1>1 DEF ThreadTypes, Exit, innerVars, env, childVars, threadVars
  <1>2. CASE UNCHANGED vars
    BY <1>2 DEF ThreadTypes, vars, innerVars, env, childVars, threadVars
  <1> QED BY <1>1, <1>2, TypesClient, TypesGreeter, TypesStopper, TypesRestarter, TypesKeeper,
             TypesChild DEF Next, Proxy

-----------------------------------------------------------------------------
(* One child at a time *)

\* The child of the slot.
Held == IF slot = None THEN None ELSE slot.gen

\* Where a restart owns the proxy.
Busy == {"stopping", "params", "greeting", "asking", "listing", "ending"}

\* restart_in_progress names the one restart under way; it alone may be stopping a
\* child for itself, and the waiter of a child restarts at most once.
Turns ==
  /\ \A t \in Restarters : rpc[t].at \in Busy <=> restarting = t
  /\ \A t \in Restarters : stage[t] \in {"starting", "waiting", "killed"} => rpc[t].at = "stopping"
  /\ \A g \in Gens : waiter[g].at # "done" => rpc[g].at = "idle"

\* Generations are given out in order, and only a reaped child is buried.
Births ==
  /\ Held # None => Held <= nextGen
  /\ \A g \in Gens : g > nextGen => proc[g] = "unborn"
  /\ \A g \in Gens : waiter[g].at = "recording" => proc[g] = "dead"

\* The restart that is about to spawn found the slot empty, or has killed whoever is
\* in it: nobody else changed the slot's child in the meantime.
Cleared ==
  \A t \in Restarters :
    rpc[t].at = "stopping" /\ Held # None =>
      /\ (stage[t] \in {"waiting", "killed"} => aim[t] = Held)
      /\ (stage[t] \in {"killed", "done"} => proc[Held] \in {"dying", "dead"})

LivingHeld == \A g \in Gens : proc[g] \in {"alive", "mute"} => Held = g

Succession == Turns /\ Births /\ Cleared /\ LivingHeld

LEMMA HeldIs ==
  ASSUME CoreTypes
  PROVE  /\ Held \in Gens \cup {None} /\ (Held = None <=> slot = None)
         /\ \A g \in Gens : HasGen(g) <=> Held = g
  BY NoneAssumption DEF CoreTypes, Held, HasGen

LEMMA NoneNoGen == None \notin Gens
  BY NoneAssumption

\* A new mark or other requests in flight are about the same child.
LEMMA SameChild ==
  ASSUME CoreTypes, slot # None, NEW s \in Slot, slot' = s, s.gen = slot.gen
  PROVE  Held' = Held
  BY NoneAssumption DEF Held

LEMMA MarkReadyHeld ==
  ASSUME CoreTypes, slot # None, MarkReady
  PROVE  Held' = Held
  <1>1. ASSUME NEW s \in Slot, NEW q \in SUBSET Requests
        PROVE  /\ [s EXCEPT !.init = TRUE, !.ready = TRUE, !.flight = @ \cup q] \in Slot
               /\ [s EXCEPT !.init = TRUE, !.ready = TRUE, !.flight = @ \cup q].gen = s.gen
    OBVIOUS
  <1>2. slot \in Slot /\ queue \in SUBSET Requests
    BY DEF CoreTypes
  <1>3. slot' = [slot EXCEPT !.init = TRUE, !.ready = TRUE, !.flight = @ \cup queue]
    BY DEF MarkReady
  <1> QED BY <1>1, <1>2, <1>3, SameChild

LEMMA InitializedHeld ==
  ASSUME CoreTypes, NEW g, OnChildInitialized(g)
  PROVE  Held' = Held
  <1>1. CASE ~ HasGen(g)
    BY <1>1 DEF OnChildInitialized, Held
  <1>2. CASE HasGen(g) /\ hello = "initialized"
    BY <1>2, MarkReadyHeld DEF OnChildInitialized, HasGen
  <1>3. CASE HasGen(g) /\ hello # "initialized"
    <2>1. slot # None /\ slot \in Slot /\ slot' = [slot EXCEPT !.init = TRUE]
      BY <1>3 DEF OnChildInitialized, HasGen, CoreTypes
    <2>2. [slot EXCEPT !.init = TRUE] \in Slot /\ [slot EXCEPT !.init = TRUE].gen = slot.gen
      BY <2>1
    <2> QED BY <2>1, <2>2, SameChild
  <1> QED BY <1>1, <1>2, <1>3

\* Other requests in flight to the same child.
LEMMA FlightHeld ==
  ASSUME CoreTypes, NEW rs \in SUBSET Requests,
         slot' = slot \/ (slot # None /\ slot' = [slot EXCEPT !.flight = rs])
  PROVE  Held' = Held
  <1>1. CASE slot' = slot
    BY <1>1 DEF Held
  <1>2. CASE slot # None /\ slot' = [slot EXCEPT !.flight = rs]
    <2>1. slot \in Slot
      BY <1>2 DEF CoreTypes
    <2>2. [slot EXCEPT !.flight = rs] \in Slot /\ [slot EXCEPT !.flight = rs].gen = slot.gen
      BY <2>1
    <2> QED BY <1>2, <2>2, SameChild
  <1> QED BY <1>1, <1>2

LEMMA SuccessionInit ==
  ASSUME Init
  PROVE  Succession
  <1>1. 1 \in Gens /\ Held = 1 /\ nextGen = 1
    <2>1. 1 \in Gens
      BY GenAssumption DEF Gens
    <2>2. NewSlot(1) \in Slot /\ NewSlot(1).gen = 1
      BY <2>1 DEF NewSlot
    <2> QED BY <2>1, <2>2, NoneAssumption DEF Init, Held
  <1>2. Turns
    BY NoneAssumption DEF Init, Turns, Busy, Stoppers
  <1>3. Births
    BY <1>1, GenAssumption DEF Init, Births, Gens
  <1>4. Cleared /\ LivingHeld
    BY <1>1 DEF Init, Cleared, LivingHeld
  <1> QED BY <1>2, <1>3, <1>4 DEF Succession

\* Steps that leave the children and the restarts alone.
LEMMA Undisturbed ==
  ASSUME Succession, UNCHANGED <<Held, nextGen, proc, restarting, aim, stage, rpc, waiter>>
  PROVE  Succession'
  BY DEF Succession, Turns, Births, Cleared, LivingHeld

\* A stop that is not part of a restart concerns none.
LEMMA StopsApart == Restarters \cap (Stops \cup {Close}) = {}
  BY CallsAssumption, GenAssumption

LEMMA SuccessionClient ==
  ASSUME Books, ThreadTypes, Succession, Client
  PROVE  Succession'
  <1>0. CoreTypes
    BY DEF Books
  <1>1. CASE SendInitialize
    <2>1. UNCHANGED <<Held, nextGen, proc, restarting, aim, stage, rpc, waiter>>
      BY <1>1 DEF SendInitialize, innerVars, childVars, Held
    <2> QED BY <2>1, Undisturbed
  <1>2. CASE SendInitialized
    <2>1. UNCHANGED Held
      BY <1>0, <1>2, MarkReadyHeld DEF SendInitialized, Held
    <2>2. UNCHANGED <<nextGen, proc, restarting, aim, stage, rpc, waiter>>
      BY <1>2 DEF SendInitialized, threadVars
    <2> QED BY <2>1, <2>2, Undisturbed
  <1>3. CASE CloseStdin
    <2>1. /\ UNCHANGED <<Held, nextGen, proc, restarting, aim, rpc, waiter>>
          /\ stage' = [stage EXCEPT ![Close] = "starting"]
      BY <1>3 DEF CloseStdin, childVars, Held
    <2>2. \A t \in Restarters : stage'[t] = stage[t]
      BY <2>1, StopsApart DEF ThreadTypes, Stoppers
    <2> QED BY <2>1, <2>2 DEF Succession, Turns, Births, Cleared, LivingHeld
  <1>4. ASSUME NEW r \in Requests, SendRequest(r) PROVE Succession'
    <2>1. UNCHANGED <<nextGen, proc, restarting, aim, stage, rpc, waiter>>
      BY <1>4 DEF SendRequest, threadVars
    <2>2. \/ slot' = slot
          \/ State = "connected" /\ slot' = [slot EXCEPT !.flight = slot.flight \cup {r}]
      BY <1>4 DEF SendRequest, Route
    <2>3. State = "connected" => slot # None /\ slot.flight \cup {r} \in SUBSET Requests
      BY <1>0 DEF State, CoreTypes
    <2>4. UNCHANGED Held
      BY <1>0, <2>2, <2>3, FlightHeld DEF Held
    <2> QED BY <2>1, <2>4, Undisturbed
  <1>5. ASSUME NEW r \in Requests, SendCancelled(r) PROVE Succession'
    <2>1. UNCHANGED <<nextGen, proc, restarting, aim, stage, rpc, waiter>>
      BY <1>5 DEF SendCancelled, childVars, threadVars
    <2>2. slot # None => slot.flight \ {r} \in SUBSET Requests
      BY <1>0 DEF CoreTypes
    <2>3. UNCHANGED Held
      BY <1>0, <1>5, <2>2, FlightHeld DEF SendCancelled, Held
    <2> QED BY <2>1, <2>3, Undisturbed
  <1>6. ASSUME NEW t \in Stops, SendStop(t) PROVE Succession'
    <2>1. /\ UNCHANGED <<Held, nextGen, proc, restarting, aim, rpc, waiter>>
          /\ stage' = [stage EXCEPT ![t] = "starting"]
      BY <1>6 DEF SendStop, childVars, innerVars, Held
    <2>2. \A u \in Restarters : stage'[u] = stage[u]
      BY <2>1, StopsApart DEF ThreadTypes, Stoppers
    <2> QED BY <2>1, <2>2 DEF Succession, Turns, Births, Cleared, LivingHeld
  <1>7. ASSUME NEW t \in Restarts, SendRestart(t) PROVE Succession'
    <2>1. /\ UNCHANGED <<Held, nextGen, proc, restarting, aim, stage, waiter>>
          /\ rpc' = [rpc EXCEPT ![t].at = "called"] /\ t \notin sent
      BY <1>7 DEF SendRestart, childVars, innerVars, Held
    <2>2. \A u \in Restarters : rpc'[u].at = IF u = t THEN "called" ELSE rpc[u].at
      BY <1>0, <2>1 DEF CoreTypes
    <2>3. rpc[t].at = "idle" /\ t \notin Gens
      BY <2>1, Uncalled, GenAssumption
    <2> QED BY <2>1, <2>2, <2>3 DEF Succession, Turns, Busy, Births, Cleared, LivingHeld
  <1> QED BY <1>1, <1>2, <1>3, <1>4, <1>5, <1>6, <1>7 DEF Client

LEMMA SuccessionGreeter ==
  ASSUME CoreTypes, Succession, Greeter
  PROVE  Succession'
  <1>1. UNCHANGED <<nextGen, proc, restarting, aim, stage, rpc, waiter>>
    BY DEF Greeter, GreeterChooses, GreeterSends, GreeterHears, GreeterTimesOut, GreeterGivesUp,
           innerVars, childVars
  <1>2. CASE GreeterHears
    <2>1. UNCHANGED Held
      BY <1>2, InitializedHeld DEF GreeterHears, Held
    <2> QED BY <1>1, <2>1, Undisturbed
  <1>3. CASE ~ GreeterHears
    <2>1. UNCHANGED Held
      BY <1>3 DEF Greeter, GreeterChooses, GreeterSends, GreeterTimesOut, GreeterGivesUp,
                  innerVars, Held
    <2> QED BY <1>1, <2>1, Undisturbed
  <1> QED BY <1>2, <1>3

LEMMA SuccessionStopper ==
  ASSUME CoreTypes, ThreadTypes, Succession, NEW t \in Stoppers, Stopper(t)
  PROVE  Succession'
  <1>1. CASE StopStarts(t)
    <2>1. UNCHANGED <<nextGen, proc, restarting, rpc, waiter>> /\ stage[t] = "starting"
      BY <1>1 DEF StopStarts, childVars
    <2>2. UNCHANGED Held
      <3>1. CASE slot = None
        BY <1>1, <3>1 DEF StopStarts, Held
      <3>2. CASE slot # None
        <4>1. slot \in Slot /\ slot' = [slot EXCEPT !.stop = TRUE, !.open = FALSE]
          BY <1>1, <3>2 DEF StopStarts, CoreTypes
        <4>2. slot' \in Slot /\ slot'.gen = slot.gen
          BY <4>1
        <4> QED BY <3>2, <4>2, SameChild
      <3> QED BY <3>1, <3>2
    <2>3. \/ Held = None /\ stage' = [stage EXCEPT ![t] = "done"] /\ aim' = aim
          \/ aim' = [aim EXCEPT ![t] = Held] /\ stage' = [stage EXCEPT ![t] = "waiting"]
      BY <1>1 DEF StopStarts, Held
    <2>4. \A u \in Restarters : /\ u # t => aim'[u] = aim[u] /\ stage'[u] = stage[u]
                                /\ u = t => \/ Held = None /\ stage'[t] = "done"
                                            \/ aim'[t] = Held /\ stage'[t] = "waiting"
      BY <2>3 DEF ThreadTypes, Stoppers
    <2> QED BY <2>1, <2>2, <2>4 DEF Succession, Turns, Births, Cleared, LivingHeld
  <1>2. CASE StopSeesGone(t)
    <2>1. /\ UNCHANGED <<Held, nextGen, proc, restarting, rpc, waiter>>
          /\ stage' = [stage EXCEPT ![t] = "done"] /\ aim' = [aim EXCEPT ![t] = None]
          /\ stage[t] \in {"waiting", "killed"} /\ ~ HasGen(aim[t])
      BY <1>2 DEF StopSeesGone, innerVars, childVars, Held
    <2>2. \A u \in Restarters : /\ u # t => aim'[u] = aim[u] /\ stage'[u] = stage[u]
                                /\ u = t => stage'[t] = "done"
      BY <2>1 DEF ThreadTypes, Stoppers
    <2>3. aim[t] = Held => Held = None
      BY <2>1 DEF Held, HasGen
    <2> QED BY <2>1, <2>2, <2>3 DEF Succession, Turns, Births, Cleared, LivingHeld
  <1>3. CASE StopKills(t)
    <2> DEFINE p == IF proc[aim[t]] = "dead" THEN "dead" ELSE "dying"
    <2>1. /\ UNCHANGED <<Held, nextGen, aim, restarting, rpc, waiter>>
          /\ stage' = [stage EXCEPT ![t] = "killed"]
          /\ proc' = [proc EXCEPT ![aim[t]] = p]
          /\ stage[t] = "waiting" /\ HasGen(aim[t])
      BY <1>3 DEF StopKills, Becomes, innerVars, Held
    <2>2. Held = aim[t] /\ aim[t] \in Gens
      BY <2>1 DEF Held, HasGen, CoreTypes
    <2>3. \A g \in Gens : proc'[g] = IF g = Held THEN p ELSE proc[g]
      BY <2>1, <2>2 DEF ThreadTypes
    <2>4. \A u \in Restarters : stage'[u] = IF u = t THEN "killed" ELSE stage[u]
      BY <2>1 DEF ThreadTypes, Stoppers
    <2>5. Births'
      <3>1. Held <= nextGen /\ Held \in Nat /\ nextGen \in Nat
        BY <2>2, NoneNoGen DEF Succession, Births, CoreTypes, Gens
      <3>2. \A g \in Gens : g > nextGen => g # Held
        BY <3>1
      <3>3. \A g \in Gens : proc[g] = "dead" => proc'[g] = "dead"
        BY <2>2, <2>3
      <3> QED BY <2>1, <2>3, <3>1, <3>2, <3>3 DEF Succession, Births
    <2>6. Turns'
      BY <2>1, <2>4 DEF Succession, Turns
    <2>7. Cleared' /\ LivingHeld'
      BY <2>1, <2>2, <2>3, <2>4 DEF Succession, Cleared, LivingHeld
    <2> QED BY <2>5, <2>6, <2>7 DEF Succession
  <1>4. CASE StopGivesUp(t)
    <2>1. /\ UNCHANGED <<Held, nextGen, proc, restarting, rpc, waiter>>
          /\ stage' = [stage EXCEPT ![t] = "done"] /\ aim' = [aim EXCEPT ![t] = None]
          /\ stage[t] = "killed"
      BY <1>4 DEF StopGivesUp, innerVars, childVars, Held
    <2>2. \A u \in Restarters : /\ u # t => aim'[u] = aim[u] /\ stage'[u] = stage[u]
                                /\ u = t => stage'[t] = "done"
      BY <2>1 DEF ThreadTypes, Stoppers
    <2> QED BY <2>1, <2>2 DEF Succession, Turns, Births, Cleared, LivingHeld
  <1>5. CASE t \in Stops /\ StopAnswers(t)
    <2>1. UNCHANGED <<Held, nextGen, proc, restarting, aim, stage, rpc, waiter>>
      BY <1>5 DEF StopAnswers, innerVars, childVars, threadVars, Held
    <2> QED BY <2>1, Undisturbed
  <1> QED BY <1>1, <1>2, <1>3, <1>4, <1>5 DEF Stopper

\* Where a restart goes, and what it means for the others.
LEMMA Goes ==
  ASSUME CoreTypes, NEW t \in Restarters, NEW r, rpc' = [rpc EXCEPT ![t] = r]
  PROVE  \A u \in Restarters : rpc'[u] = IF u = t THEN r ELSE rpc[u]
  BY DEF CoreTypes

LEMMA SuccessionRestarter ==
  ASSUME CoreTypes, ThreadTypes, Succession, NEW t \in Restarters, Restarter(t)
  PROVE  Succession'
  <1>0. t \in Stoppers
    BY DEF Stoppers
  <1>1. ASSUME RestartStarts(t) PROVE Succession'
    <2>1. /\ UNCHANGED <<Held, nextGen, proc, aim, waiter>>
          /\ rpc[t].at = "called"
      BY <1>1 DEF RestartStarts, childVars, Held
    <2>2. \A g \in Gens : g = t => waiter[g].at = "done"
      BY <2>1 DEF Succession, Turns
    <2>3. CASE restarting # None \/ shutting
      <3>1. \A u \in Restarters : rpc'[u].at = IF u = t THEN "done" ELSE rpc[u].at
        BY <1>1, <2>3 DEF RestartStarts, Done, CoreTypes
      <3>2. UNCHANGED <<restarting, stage>>
        BY <1>1, <2>3 DEF RestartStarts
      <3> QED BY <2>1, <2>2, <3>1, <3>2 DEF Succession, Turns, Busy, Births, Cleared, LivingHeld
    <2>4. CASE ~ (restarting # None \/ shutting)
      <3>1. \A u \in Restarters : /\ rpc'[u].at = IF u = t THEN "stopping" ELSE rpc[u].at
                                  /\ stage'[u] = IF u = t THEN "starting" ELSE stage[u]
        BY <1>0, <1>1, <2>4 DEF RestartStarts, At, CoreTypes, ThreadTypes, Stoppers
      <3>2. restarting = None /\ restarting' = t
        BY <1>1, <2>4 DEF RestartStarts
      <3>3. None \notin Restarters
        BY NoneAssumption
      <3> QED BY <2>1, <2>2, <3>1, <3>2, <3>3
              DEF Succession, Turns, Busy, Births, Cleared, LivingHeld
    <2> QED BY <2>3, <2>4
  <1>2. ASSUME RestartSpawns(t) PROVE Succession'
    <2> DEFINE g == nextGen + 1
    <2>1. /\ nextGen' = g /\ nextGen < MaxGen /\ proc' = [proc EXCEPT ![g] = "alive"]
          /\ slot' = NewSlot(g) /\ UNCHANGED <<restarting, aim, waiter>>
          /\ rpc[t].at = "stopping" /\ stage[t] = "done"
          /\ rpc' = [rpc EXCEPT ![t] = [at |-> "params", gen |-> g, ok |-> FALSE]]
          /\ stage' = [stage EXCEPT ![t] = "idle"]
      BY <1>2 DEF RestartSpawns
    <2>2. nextGen \in Nat /\ g \in Gens /\ g \in Nat
      BY <2>1, GenAssumption DEF CoreTypes, Gens
    <2>3. Held' = g
      <3>1. NewSlot(g) \in Slot /\ NewSlot(g).gen = g
        BY <2>2 DEF NewSlot
      <3> QED BY <2>1, <3>1, NoneAssumption DEF Held
    <2>4. \A u \in Restarters : /\ rpc'[u].at = IF u = t THEN "params" ELSE rpc[u].at
                                /\ stage'[u] = IF u = t THEN "idle" ELSE stage[u]
      BY <1>0, <2>1 DEF CoreTypes, ThreadTypes, Stoppers
    <2>5. \A h \in Gens : proc'[h] = IF h = g THEN "alive" ELSE proc[h]
      BY <2>1, <2>2 DEF ThreadTypes
    <2>6. Turns'
      BY <2>1, <2>4 DEF Succession, Turns, Busy
    <2>7. Births'
      <3>1. proc[g] = "unborn"
        BY <2>2 DEF Succession, Births
      <3>2. \A h \in Gens : h > g => h > nextGen /\ h # g
        BY <2>2 DEF Gens
      <3>3. \A h \in Gens : waiter'[h].at = "recording" => proc'[h] = "dead"
        BY <2>1, <2>5, <3>1 DEF Succession, Births
      <3>4. \A h \in Gens : h > nextGen' => proc'[h] = "unborn"
        BY <2>1, <2>5, <3>2 DEF Succession, Births
      <3>5. Held' <= nextGen'
        BY <2>1, <2>2, <2>3
      <3> QED BY <3>3, <3>4, <3>5 DEF Births
    <2>8. Cleared'
      BY <2>1, <2>4 DEF Succession, Turns, Busy, Cleared
    <2>9. LivingHeld'
      BY <2>1, <2>3, <2>5, NoneNoGen DEF Succession, Cleared, LivingHeld
    <2> QED BY <2>6, <2>7, <2>8, <2>9 DEF Succession
  <1>3. ASSUME NEW to, UNCHANGED <<Held, nextGen, proc, restarting, aim, stage, waiter>>,
               \A u \in Restarters : rpc'[u].at = IF u = t THEN to ELSE rpc[u].at,
               rpc[t].at \in Busy, to \in Busy \ {"stopping"},
               stage[t] \notin {"starting", "waiting", "killed"}
        PROVE  Succession'
    <2>1. \A h \in Gens : h = t => waiter[h].at = "done"
      BY <1>3 DEF Succession, Turns, Busy
    <2> QED BY <1>3, <2>1 DEF Succession, Turns, Busy, Births, Cleared, LivingHeld
  <1>4. rpc[t].at # "stopping" => stage[t] \notin {"starting", "waiting", "killed"}
    BY DEF Succession, Turns
  <1>5. ASSUME RestartSpawnFails(t) PROVE Succession'
    <2>1. UNCHANGED <<Held, nextGen, proc, restarting, aim, stage, waiter>>
      BY <1>5 DEF RestartSpawnFails, innerVars, childVars, Held
    <2>2. /\ \A u \in Restarters : rpc'[u].at = IF u = t THEN "ending" ELSE rpc[u].at
          /\ rpc[t].at = "stopping" /\ stage[t] = "done"
      BY <1>5 DEF RestartSpawnFails, At, CoreTypes
    <2> QED BY <1>3, <2>1, <2>2 DEF Busy
  <1>6. ASSUME RestartReplays(t) \/ RestartGreeted(t) \/ RestartAsks(t) \/ RestartListed(t)
                 \/ RestartFails(t)
        PROVE  Succession'
    <2>1. UNCHANGED <<nextGen, proc, restarting, aim, stage, waiter>>
      BY <1>6 DEF RestartReplays, RestartGreeted, RestartAsks, RestartListed, RestartFails,
                  childVars
    <2>2. UNCHANGED Held
      <3>1. CASE RestartGreeted(t)
        BY <3>1, InitializedHeld DEF RestartGreeted
      <3>2. CASE ~ RestartGreeted(t)
        BY <1>6, <3>2 DEF RestartReplays, RestartAsks, RestartListed, RestartFails, Held
      <3> QED BY <3>1, <3>2
    <2>3. rpc[t].at \in Busy \ {"stopping"}
      BY <1>6 DEF RestartReplays, RestartGreeted, RestartAsks, RestartListed, RestartFails, Busy
    <2>4. PICK to \in Busy \ {"stopping"} : rpc'[t].at = to
      BY <1>6 DEF RestartReplays, RestartGreeted, RestartAsks, RestartListed, RestartFails, Busy,
                  Ready, At, CoreTypes
    <2>5. \A u \in Restarters \ {t} : rpc'[u] = rpc[u]
      BY <1>6 DEF RestartReplays, RestartGreeted, RestartAsks, RestartListed, RestartFails, Ready,
                  At, CoreTypes
    <2> QED BY <1>3, <1>4, <2>1, <2>2, <2>3, <2>4, <2>5
  <1>7. ASSUME RestartEnds(t) \/ RestartTells(t) PROVE Succession'
    <2>1. UNCHANGED <<Held, nextGen, proc, aim, stage, waiter>>
      BY <1>7 DEF RestartEnds, RestartTells, childVars, Held
    <2>2. PICK to \in {"telling", "done"} :
            \A u \in Restarters : rpc'[u].at = IF u = t THEN to ELSE rpc[u].at
      BY <1>7 DEF RestartEnds, RestartTells, At, Done, CoreTypes
    <2>3. \/ rpc[t].at = "ending" /\ restarting' = None
          \/ rpc[t].at = "telling" /\ restarting' = restarting
      BY <1>7 DEF RestartEnds, RestartTells
    <2>4. restarting' = IF restarting = t THEN None ELSE restarting
      BY <2>3 DEF Succession, Turns, Busy
    <2>5. None \notin Restarters
      BY NoneAssumption
    <2>6. \A h \in Gens : h = t => waiter[h].at = "done"
      BY <2>3 DEF Succession, Turns
    <2>7. Turns'
      BY <1>4, <2>1, <2>2, <2>3, <2>4, <2>5, <2>6 DEF Succession, Turns, Busy
    <2> QED BY <2>1, <2>2, <2>7 DEF Succession, Births, Cleared, LivingHeld
  <1> QED BY <1>1, <1>2, <1>5, <1>6, <1>7 DEF Restarter

\* A child that is alive, mute or dying moves on towards its death.
LEMMA Ages ==
  ASSUME CoreTypes, ThreadTypes, Succession, NEW g \in Gens, NEW p \in {"mute", "dying", "dead"},
         proc[g] \in {"alive", "mute", "dying"}, p = "mute" => proc[g] = "alive",
         proc' = [proc EXCEPT ![g] = p], p = "dying" \/ p = "mute" => proc[g] # "dying",
         UNCHANGED <<Held, nextGen, restarting, aim, stage, rpc, waiter>>
  PROVE  Succession'
  <1>1. \A h \in Gens : proc'[h] = IF h = g THEN p ELSE proc[h]
    BY DEF ThreadTypes
  <1>2. Turns'
    BY DEF Succession, Turns
  <1>3. Births'
    BY <1>1 DEF Succession, Births
  <1>4. Cleared'
    <2>1. Held # None => Held \in Gens
      BY HeldIs
    <2> QED BY <1>1, <2>1 DEF Succession, Cleared
  <1>5. LivingHeld'
    BY <1>1 DEF Succession, LivingHeld
  <1> QED BY <1>2, <1>3, <1>4, <1>5 DEF Succession

LEMMA SuccessionKeeper ==
  ASSUME CoreTypes, ThreadTypes, Succession, NEW g \in Gens, Keeper(g)
  PROVE  Succession'
  <1>1. CASE ReaderKills(g)
    <2>1. UNCHANGED <<Held, nextGen, restarting, aim, stage, rpc, waiter>>
      BY <1>1 DEF ReaderKills, innerVars, threadVars, Held
    <2> QED BY <1>1, <2>1, Ages DEF ReaderKills, Becomes
  <1>2. CASE ReaderReads(g)
    <2>1. UNCHANGED <<nextGen, proc, restarting, aim, stage, rpc, waiter>>
      BY <1>2 DEF ReaderReads, threadVars
    <2>2. PICK m \in pipe[g] :
            slot' = slot \/ (slot # None /\ slot' = [slot EXCEPT !.flight = slot.flight \ {m[1]}])
      BY <1>2 DEF ReaderReads, HasGen
    <2>3. slot # None => slot.flight \ {m[1]} \in SUBSET Requests
      BY DEF CoreTypes
    <2>4. UNCHANGED Held
      BY <2>2, <2>3, FlightHeld DEF Held
    <2> QED BY <2>1, <2>4, Undisturbed
  <1>3. CASE WaiterReaps(g)
    <2>1. UNCHANGED <<Held, nextGen, proc, restarting, aim, stage, rpc>>
      BY <1>3 DEF WaiterReaps, innerVars, childVars, Held
    <2>2. waiter[g].at = "watching" /\ proc[g] = "dead"
      BY <1>3 DEF WaiterReaps
    <2>3. \A h \in Gens : h # g => waiter'[h] = waiter[h]
      BY <1>3 DEF WaiterReaps, ThreadTypes
    <2> QED BY <2>1, <2>2, <2>3 DEF Succession, Turns, Births, Cleared, LivingHeld
  <1>4. CASE WaiterBuries(g)
    <2>1. UNCHANGED <<nextGen, proc, restarting, aim, stage>> /\ waiter[g].at = "recording"
      BY <1>4 DEF WaiterBuries, childVars
    <2>2. \A h \in Gens : /\ h # g => waiter'[h] = waiter[h]
                          /\ h = g => waiter'[h].at = "done"
      BY <1>4 DEF WaiterBuries, ThreadTypes
    <2>3. /\ proc[g] = "dead"
          /\ rpc[g].at = "idle" /\ g \in Restarters
      BY <2>1 DEF Succession, Births, Turns
    <2>4. /\ \A u \in Restarters : u # g => rpc'[u].at = rpc[u].at
          /\ rpc'[g].at \in {"idle", "called"}
      BY <1>4, <2>3 DEF WaiterBuries, At, CoreTypes
    <2>5. Held' = Held \/ (Held = g /\ Held' = None)
      BY <1>4 DEF WaiterBuries, Held, HasGen
    <2>6. Turns'
      BY <2>1, <2>2, <2>3, <2>4 DEF Succession, Turns, Busy
    <2>7. Births'
      BY <2>1, <2>2, <2>5 DEF Succession, Births
    <2>8. Cleared'
      BY <2>1, <2>3, <2>4, <2>5 DEF Succession, Cleared
    <2>9. LivingHeld'
      BY <2>1, <2>3, <2>5 DEF Succession, LivingHeld
    <2> QED BY <2>6, <2>7, <2>8, <2>9 DEF Succession
  <1> QED BY <1>1, <1>2, <1>3, <1>4 DEF Keeper

LEMMA SuccessionChild ==
  ASSUME CoreTypes, ThreadTypes, Succession, NEW g \in Gens, Child(g)
  PROVE  Succession'
  <1>1. UNCHANGED <<Held, nextGen, restarting, aim, stage, rpc, waiter>>
    BY DEF Child, ChildAnswers, ChildExits, ChildClosesStdout, innerVars, threadVars, Held
  <1>2. CASE ChildAnswers(g)
    BY <1>1, <1>2, Undisturbed DEF ChildAnswers
  <1>3. CASE ChildExits(g)
    BY <1>1, <1>3, Ages DEF ChildExits, Becomes
  <1>4. CASE ChildClosesStdout(g)
    BY <1>1, <1>4, Ages DEF ChildClosesStdout, Becomes
  <1> QED BY <1>2, <1>3, <1>4 DEF Child

LEMMA SuccessionStep ==
  ASSUME Books, ThreadTypes, Succession, [Next]_vars
  PROVE  Succession'
  <1>0. CoreTypes
    BY DEF Books
  <1>1. CASE Exit \/ UNCHANGED vars
    <2>1. UNCHANGED <<Held, nextGen, proc, restarting, aim, stage, rpc, waiter>>
      BY <1>1 DEF Exit, vars, innerVars, childVars, threadVars, Held
    <2> QED BY <2>1, Undisturbed
  <1> QED BY <1>0, <1>1, SuccessionClient, SuccessionGreeter, SuccessionStopper,
             SuccessionRestarter, SuccessionKeeper, SuccessionChild DEF Next, Proxy

-----------------------------------------------------------------------------
(* The handshake *)

\* While the greeter owes the client its initialize, the client goes no further.
Hands ==
  /\ hello = "none" => greeter.at = "idle"
  /\ greeter.at \in {"choosing", "sending", "waiting"} => hello = "sent"

Handshake == Hands /\ ReadyIsComplete

\* A step that neither makes a child ready, nor queues anything, nor takes back the
\* client's part of the handshake.
LEMMA StaysComplete ==
  ASSUME ReadyIsComplete, queue' \subseteq queue,
         hello = "initialized" => hello' = "initialized",
         \/ slot' = None \/ ~ slot'.ready
         \/ slot # None /\ slot'.ready = slot.ready /\ (slot.init => slot'.init)
  PROVE  ReadyIsComplete'
  BY DEF ReadyIsComplete

\* mark_ready leaves nothing behind.
LEMMA MarkedComplete ==
  ASSUME CoreTypes, slot # None, MarkReady, hello' = "initialized"
  PROVE  ReadyIsComplete'
  <1>1. ASSUME NEW s \in Slot, NEW q \in SUBSET Requests
        PROVE  [s EXCEPT !.init = TRUE, !.ready = TRUE, !.flight = @ \cup q].init
    OBVIOUS
  <1>2. slot \in Slot /\ queue \in SUBSET Requests
    BY DEF CoreTypes
  <1>3. slot' = [slot EXCEPT !.init = TRUE, !.ready = TRUE, !.flight = @ \cup queue] /\ queue' = {}
    BY DEF MarkReady
  <1>4. slot'.init
    BY <1>1, <1>2, <1>3
  <1> QED BY <1>3, <1>4 DEF ReadyIsComplete

\* on_child_initialized makes a child ready only behind the client's own half.
LEMMA InitializedComplete ==
  ASSUME CoreTypes, ReadyIsComplete, NEW g, OnChildInitialized(g),
         hello' = hello \/ (hello = "sent" /\ hello' = "answered")
  PROVE  ReadyIsComplete'
  <1>1. CASE ~ HasGen(g)
    <2>1. UNCHANGED <<slot, queue>>
      BY <1>1 DEF OnChildInitialized
    <2> QED BY <2>1 DEF ReadyIsComplete
  <1>2. CASE HasGen(g) /\ hello = "initialized"
    <2>1. MarkReady /\ slot # None /\ hello' = "initialized"
      BY <1>2 DEF OnChildInitialized, HasGen
    <2> QED BY <2>1, MarkedComplete
  <1>3. CASE HasGen(g) /\ hello # "initialized"
    <2>1. slot \in Slot /\ slot # None /\ slot' = [slot EXCEPT !.init = TRUE] /\ queue' = queue
      BY <1>3 DEF OnChildInitialized, HasGen, CoreTypes
    <2>2. [slot EXCEPT !.init = TRUE].ready = slot.ready
      BY <2>1
    <2> QED BY <1>3, <2>1, <2>2 DEF ReadyIsComplete
  <1> QED BY <1>1, <1>2, <1>3

LEMMA HandshakeInit ==
  ASSUME Init
  PROVE  Handshake
  BY DEF Init, Handshake, Hands, ReadyIsComplete, NewSlot

LEMMA HandshakeClient ==
  ASSUME CoreTypes, ThreadTypes, Handshake, Client
  PROVE  Handshake'
  <1>1. CASE SendInitialize
    <2>1. Hands'
      BY <1>1 DEF SendInitialize, Handshake, Hands
    <2>2. ReadyIsComplete'
      BY <1>1 DEF SendInitialize, Handshake, ReadyIsComplete, innerVars
    <2> QED BY <2>1, <2>2 DEF Handshake
  <1>2. CASE SendInitialized
    <2>1. Hands'
      BY <1>2 DEF SendInitialized, Handshake, Hands, threadVars
    <2>2. ReadyIsComplete'
      <3>1. CASE slot # None /\ slot.init /\ ~ slot.ready
        BY <1>2, <3>1, MarkedComplete DEF SendInitialized
      <3>2. CASE ~ (slot # None /\ slot.init /\ ~ slot.ready)
        BY <1>2, <3>2 DEF SendInitialized, Handshake, ReadyIsComplete
      <3> QED BY <3>1, <3>2
    <2> QED BY <2>1, <2>2 DEF Handshake
  <1>3. CASE CloseStdin
    BY <1>3 DEF CloseStdin, clientVars, Handshake, Hands, ReadyIsComplete
  <1>4. ASSUME NEW r \in Requests, SendRequest(r) PROVE Handshake'
    <2>1. Hands'
      BY <1>4 DEF SendRequest, Handshake, Hands, threadVars
    <2>2. CASE State = "connected"
      <3>1. slot \in Slot /\ slot # None /\ slot.ready
        BY <2>2, NoneAssumption DEF State, CoreTypes
      <3>2. slot' = [slot EXCEPT !.flight = slot.flight \cup {r}] /\ UNCHANGED <<queue, hello>>
        BY <1>4, <2>2 DEF SendRequest, Route
      <3>3. slot'.ready = slot.ready /\ slot'.init = slot.init
        BY <3>1, <3>2
      <3> QED BY <2>1, <3>1, <3>2, <3>3 DEF Handshake, ReadyIsComplete
    <2>3. CASE State # "connected"
      <3>1. ~ (slot # None /\ slot.ready) /\ UNCHANGED slot
        BY <1>4, <2>3 DEF SendRequest, Route, State
      <3> QED BY <2>1, <3>1 DEF Handshake, ReadyIsComplete
    <2> QED BY <2>2, <2>3
  <1>5. ASSUME NEW r \in Requests, SendCancelled(r) PROVE Handshake'
    <2>1. Hands'
      BY <1>5 DEF SendCancelled, Handshake, Hands, threadVars
    <2>2. UNCHANGED <<queue, hello>>
      BY <1>5 DEF SendCancelled
    <2>3. slot' = None \/ (slot # None /\ slot'.ready = slot.ready /\ slot'.init = slot.init)
      BY <1>5 DEF SendCancelled, CoreTypes
    <2> QED BY <2>1, <2>2, <2>3, StaysComplete DEF Handshake
  <1>6. ASSUME NEW t \in Stops, SendStop(t) PROVE Handshake'
    BY <1>6 DEF SendStop, innerVars, Handshake, Hands, ReadyIsComplete
  <1>7. ASSUME NEW t \in Restarts, SendRestart(t) PROVE Handshake'
    BY <1>7 DEF SendRestart, innerVars, Handshake, Hands, ReadyIsComplete
  <1> QED BY <1>1, <1>2, <1>3, <1>4, <1>5, <1>6, <1>7 DEF Client

LEMMA HandshakeGreeter ==
  ASSUME CoreTypes, ThreadTypes, Handshake, Greeter
  PROVE  Handshake'
  <1>1. CASE GreeterChooses
    <2>1. Hands'
      BY <1>1 DEF GreeterChooses, Greeted, Handshake, Hands
    <2>2. ReadyIsComplete'
      BY <1>1 DEF GreeterChooses, Handshake, Hands, ReadyIsComplete, innerVars
    <2> QED BY <2>1, <2>2 DEF Handshake
  <1>2. CASE GreeterSends
    <2>1. Hands'
      BY <1>2 DEF GreeterSends, Greeted, Handshake, Hands, ThreadTypes
    <2>2. ReadyIsComplete'
      BY <1>2 DEF GreeterSends, Handshake, Hands, ReadyIsComplete
    <2> QED BY <2>1, <2>2 DEF Handshake
  <1>3. CASE GreeterHears
    <2>1. Hands'
      BY <1>3 DEF GreeterHears, Greeted, Handshake, Hands
    <2>2. hello' = hello \/ (hello = "sent" /\ hello' = "answered")
      BY <1>3 DEF GreeterHears, Handshake, Hands
    <2>3. CASE Got("initialize") = "ok"
      <3>1. OnChildInitialized(greeter.gen)
        BY <1>3, <2>3 DEF GreeterHears
      <3>2. ReadyIsComplete'
        BY <2>2, <3>1, InitializedComplete DEF Handshake
      <3> QED BY <2>1, <3>2 DEF Handshake
    <2>4. CASE Got("initialize") # "ok"
      <3>1. slot' = slot /\ queue' \subseteq queue
        BY <1>3, <2>4 DEF GreeterHears
      <3>2. ReadyIsComplete'
        BY <2>2, <3>1 DEF Handshake, ReadyIsComplete
      <3> QED BY <2>1, <3>2 DEF Handshake
    <2> QED BY <2>3, <2>4
  <1>4. CASE GreeterTimesOut
    <2>1. Hands'
      BY <1>4 DEF GreeterTimesOut, Handshake, Hands, ThreadTypes
    <2>2. ReadyIsComplete'
      BY <1>4 DEF GreeterTimesOut, Handshake, Hands, ReadyIsComplete, innerVars
    <2> QED BY <2>1, <2>2 DEF Handshake
  <1>5. CASE GreeterGivesUp
    <2>1. Hands'
      BY <1>5 DEF GreeterGivesUp, Greeted, clientVars, Handshake, Hands
    <2>2. ReadyIsComplete'
      BY <1>5 DEF GreeterGivesUp, clientVars, Handshake, ReadyIsComplete
    <2> QED BY <2>1, <2>2 DEF Handshake
  <1> QED BY <1>1, <1>2, <1>3, <1>4, <1>5 DEF Greeter

LEMMA HandshakeStopper ==
  ASSUME CoreTypes, Handshake, NEW t \in Stoppers, Stopper(t)
  PROVE  Handshake'
  <1>1. UNCHANGED <<hello, greeter, queue>>
    BY DEF Stopper, StopStarts, StopSeesGone, StopKills, StopGivesUp, StopAnswers, clientVars,
           innerVars, threadVars
  <1>2. slot' = slot \/ (slot # None /\ slot' = [slot EXCEPT !.stop = TRUE, !.open = FALSE])
    BY DEF Stopper, StopStarts, StopSeesGone, StopKills, StopGivesUp, StopAnswers, innerVars
  <1>3. slot' = slot \/ (slot # None /\ slot'.ready = slot.ready /\ slot'.init = slot.init)
    <2>1. \A s \in Slot : LET n == [s EXCEPT !.stop = TRUE, !.open = FALSE]
                          IN  n.ready = s.ready /\ n.init = s.init
      OBVIOUS
    <2> QED BY <1>2, <2>1 DEF CoreTypes
  <1> QED BY <1>1, <1>3 DEF Handshake, Hands, ReadyIsComplete

LEMMA HandshakeRestarter ==
  ASSUME CoreTypes, Handshake, NEW t \in Restarters, Restarter(t)
  PROVE  Handshake'
  <1>1. UNCHANGED <<hello, greeter>>
    BY DEF Restarter, RestartStarts, RestartSpawns, RestartSpawnFails, RestartReplays,
           RestartGreeted, RestartAsks, RestartListed, RestartFails, RestartEnds, RestartTells,
           clientVars
  <1>2. Hands'
    BY <1>1 DEF Handshake, Hands
  <1>3. CASE RestartGreeted(t)
    BY <1>1, <1>2, <1>3, InitializedComplete DEF RestartGreeted, Handshake
  <1>4. CASE ~ RestartGreeted(t)
    <2>1. queue' \subseteq queue
      BY <1>4 DEF Restarter, RestartStarts, RestartSpawns, RestartSpawnFails, RestartReplays,
                  RestartAsks, RestartListed, RestartFails, RestartEnds, RestartTells, innerVars
    <2>2. slot' = slot \/ ~ slot'.ready
      BY <1>4 DEF Restarter, RestartStarts, RestartSpawns, RestartSpawnFails, RestartReplays,
                  RestartAsks, RestartListed, RestartFails, RestartEnds, RestartTells, innerVars,
                  NewSlot
    <2>3. ReadyIsComplete'
      BY <1>1, <2>1, <2>2 DEF Handshake, ReadyIsComplete
    <2> QED BY <1>2, <2>3 DEF Handshake
  <1> QED BY <1>3, <1>4

LEMMA HandshakeKeeper ==
  ASSUME CoreTypes, Handshake, NEW g \in Gens, Keeper(g) \/ Child(g)
  PROVE  Handshake'
  <1>1. UNCHANGED <<hello, greeter>> /\ queue' \subseteq queue
    BY DEF Keeper, Child, ReaderKills, ReaderReads, WaiterReaps, WaiterBuries, Bury, ChildAnswers,
           ChildExits, ChildClosesStdout, clientVars, innerVars, threadVars
  <1>2. slot' = None \/ slot' = slot
          \/ (slot # None /\ slot'.ready = slot.ready /\ slot'.init = slot.init)
    <2>1. CASE ReaderReads(g)
      <3>1. PICK m \in pipe[g] :
              slot' = slot \/ (slot # None /\ slot' = [slot EXCEPT !.flight = @ \ {m[1]}])
        BY <2>1 DEF ReaderReads, HasGen
      <3> QED BY <3>1 DEF CoreTypes
    <2>2. CASE ~ ReaderReads(g)
      BY <2>2 DEF Keeper, Child, ReaderKills, WaiterReaps, WaiterBuries, ChildAnswers, ChildExits,
                  ChildClosesStdout, innerVars
    <2> QED BY <2>1, <2>2
  <1>3. ReadyIsComplete'
    BY <1>1, <1>2, StaysComplete DEF Handshake, ReadyIsComplete
  <1> QED BY <1>1, <1>3 DEF Handshake, Hands

LEMMA HandshakeStep ==
  ASSUME CoreTypes, ThreadTypes, Handshake, [Next]_vars
  PROVE  Handshake'
  <1>1. CASE Exit \/ UNCHANGED vars
    BY <1>1 DEF Exit, vars, clientVars, innerVars, threadVars, Handshake, Hands, ReadyIsComplete
  <1> QED BY <1>1, HandshakeClient, HandshakeGreeter, HandshakeStopper, HandshakeRestarter,
             HandshakeKeeper DEF Next, Proxy

-----------------------------------------------------------------------------
(* What the client can count on *)

\* The inductive invariant of the proxy.
IInv == Books /\ ThreadTypes /\ Succession /\ Handshake

LEMMA IInvAlways == Spec => []IInv
  <1>1. Init => IInv
    BY BooksInit, TypesInit, SuccessionInit, HandshakeInit DEF IInv
  <1>2. IInv /\ [Next]_vars => IInv'
    <2>1. Books => CoreTypes
      BY DEF Books
    <2> QED BY <2>1, BooksStep, TypesStep, SuccessionStep, HandshakeStep DEF IInv
  <1> QED BY <1>1, <1>2, PTL DEF Spec

\* Every variable of the proxy keeps its type (Inner, its threads and its children).
THEOREM TypeCorrect == Spec => []TypeOK
  <1>1. IInv => TypeOK
    BY TypesSplit DEF IInv, Books
  <1> QED BY <1>1, IInvAlways, PTL

\* No call ever gets two answers (route_request, on_child_line, on_child_exit,
\* fail_queue and run_proxy_tool answer under different locks).
THEOREM NoSecondAnswer == Spec => []AnsweredOnce
  <1>1. IInv => AnsweredOnce
    BY DEF IInv, Books
  <1> QED BY <1>1, IInvAlways, PTL

\* Every request without an answer is in the queue or in flight to the child of the
\* moment, unless the client cancelled it or a restart overwrote an unreaped child.
THEOREM NoRequestLost == Spec => []NothingLost
  <1>1. IInv => NothingLost
    BY DEF IInv, Books
  <1> QED BY <1>1, IInvAlways, PTL

\* A child that was not sent SIGKILL is the one in the slot: spawn_child overwrites
\* only the slot of a child that stop_child has killed, and on_child_exit empties only
\* that of a child that is reaped.
THEOREM NeverTwoGUIs == Spec => []OneGui
  <1>1. IInv => OneGui
    <2> SUFFICES ASSUME IInv
                 PROVE  \A g \in Gens : proc[g] \in {"alive", "mute"} => HasGen(g)
      BY DEF OneGui
    <2>1. CoreTypes /\ LivingHeld
      BY DEF IInv, Books, Succession
    <2> QED BY <2>1, HeldIs DEF LivingHeld
  <1> QED BY <1>1, IInvAlways, PTL

\* mark_ready is reached only behind both halves of the handshake, whichever of the
\* client, its greeter and a restart comes last, and nothing stays in the queue.
THEOREM ReadyMeansReady == Spec => []ReadyIsComplete
  <1>1. IInv => ReadyIsComplete
    BY DEF IInv, Handshake
  <1> QED BY <1>1, IInvAlways, PTL
=============================================================================
