---------------------------- MODULE LaneContract ----------------------------
(***************************************************************************)
(* What the compute backend promises its callers, without threads, locks,  *)
(* flags or the ledger: a lane keeps a queue, works on at most one request *)
(* at a time, oldest first, and every request it took is answered at most  *)
(* once.  Only a newer request for the same work removes a queued one.     *)
(***************************************************************************)
EXTENDS Naturals, Sequences

CONSTANTS Lanes, Silent, Toolpaths, Estimates, None, Answers

VARIABLES waiting,  \* per lane, the queued requests
          busy,     \* per lane, the request it works on
          outbox,   \* the answers nobody collected yet, in order
          issued,   \* number of submissions
          closed    \* the backend is being dropped

vars == <<waiting, busy, outbox, issued, closed>>

SameWork(l, r, q) == CASE l = "toolpath" -> r.tp = q.tp
                       [] l = "job"      -> FALSE
                       [] OTHER          -> TRUE

Init ==
  /\ waiting = [l \in Lanes |-> {}]
  /\ busy = [l \in Lanes |-> None]
  /\ outbox = <<>>
  /\ issued = 0
  /\ closed = FALSE

Accept(l, tp, est) ==
  LET r == [serial |-> issued + 1, tp |-> tp, est |-> est] IN
  /\ ~ closed
  /\ issued' = r.serial
  /\ waiting' = [waiting EXCEPT ![l] = {q \in @ : ~ SameWork(l, r, q)} \cup {r}]
  /\ UNCHANGED <<busy, outbox, closed>>

Begin(l, r) ==
  /\ busy[l] = None
  /\ r \in waiting[l] /\ \A q \in waiting[l] : r.serial <= q.serial
  /\ waiting' = [waiting EXCEPT ![l] = @ \ {r}]
  /\ busy' = [busy EXCEPT ![l] = r]
  /\ UNCHANGED <<outbox, issued, closed>>

Answer(l, a) ==
  /\ busy[l] # None
  /\ outbox' = Append(outbox, [lane |-> l, serial |-> busy[l].serial,
                                 tp |-> busy[l].tp, answer |-> a])
  /\ busy' = [busy EXCEPT ![l] = None]
  /\ UNCHANGED <<waiting, issued, closed>>

\* A crash on a lane nobody waits on, or the shutdown, gives no answer.
GiveUp(l) ==
  /\ busy[l] # None
  /\ l \in Silent \/ closed
  /\ busy' = [busy EXCEPT ![l] = None]
  /\ UNCHANGED <<waiting, outbox, issued, closed>>

\* The caller collects every answer at once.
Collect == outbox' = <<>> /\ UNCHANGED <<waiting, busy, issued, closed>>

Close == closed' = TRUE /\ UNCHANGED <<waiting, busy, outbox, issued>>

Next ==
  \/ \E l \in Lanes, tp \in Toolpaths \cup {None}, est \in Estimates \cup {None} :
       Accept(l, tp, est)
  \/ \E l \in Lanes : \E r \in waiting[l] : Begin(l, r)
  \/ \E l \in Lanes, a \in Answers : Answer(l, a)
  \/ \E l \in Lanes : GiveUp(l)
  \/ Collect
  \/ Close

Spec == Init /\ [][Next]_vars
=============================================================================
