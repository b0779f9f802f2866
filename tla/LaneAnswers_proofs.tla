------------------------- MODULE LaneAnswers_proofs -------------------------
(***************************************************************************)
(* What a lane tells: each answer names its true cause, and the status a   *)
(* lane shows is the one it is in.  Blame needs a history: every way to    *)
(* set a flag the worker judges by is a cancel, a newer request or the     *)
(* job's own guard, and no flag set for one job is read for the next.      *)
(***************************************************************************)
EXTENDS StaleRuns_proofs

\* An operator's cancel or a newer request reached the submission s.
Caused(s) == s \in cancelled \cup superseded

\* What the flags and the verdict of one lane owe to their causes.
LaneBlame(l) ==
  /\ pc[l] \in Working /\ laneFlag[l]
       => Caused(job[l].serial) \/ (l \notin OwnFlag /\ overBudget[l])
  /\ pc[l] \in Working /\ job[l].serial \in ownFlags[l]
       => Caused(job[l].serial) \/ overBudget[l]
  /\ overBudget[l] => /\ l \in Heavy /\ job[l].serial \in outgrown
                      /\ pc[l] \in {"running", "judged", "sending", "releasing"}
  /\ guarded[l] => l \in Heavy
  /\ pc[l] \in {"judged", "sending"} /\ verdict[l] = "cancelled" => Caused(job[l].serial)
  /\ pc[l] \in {"judged", "sending"} /\ verdict[l] = "overBudget" => job[l].serial \in outgrown

\* Queued requests are younger than the job, and a flag of their own that is
\* set already was set by a cancel.
LaneOrder(l) ==
  /\ \A r \in queue[l] :
       /\ r.serial <= submitted
       /\ job[l] # None => job[l].serial < r.serial
       /\ r.serial \in ownFlags[l] => Caused(r.serial)
  /\ \A r, q \in queue[l] : r # q => r.serial # q.serial
  /\ job[l] # None => job[l].serial <= submitted
  /\ active[l] # None => active[l].serial <= submitted
  /\ \A s \in ownFlags[l] : s <= submitted

BlameInv ==
  /\ TypeOK /\ WorkerHolds /\ Announced
  /\ \A l \in Lanes : LaneBlame(l) /\ LaneOrder(l)
  /\ BlamesTheCause

\* Causes are never forgotten and submissions are only added.
HistoryGrows ==
  /\ superseded \subseteq superseded' /\ cancelled \subseteq cancelled'
  /\ outgrown \subseteq outgrown' /\ submitted <= submitted'

\* The step leaves the lane k alone.
Untouched(k) ==
  /\ queue'[k] = queue[k] /\ active'[k] = active[k] /\ laneFlag'[k] = laneFlag[k]
  /\ ownFlags'[k] = ownFlags[k] /\ pc'[k] = pc[k] /\ job'[k] = job[k]
  /\ verdict'[k] = verdict[k] /\ guarded'[k] = guarded[k]
  /\ overBudget'[k] = overBudget[k]

LEMMA LaneTypes ==
  ASSUME TypeOK
  PROVE  /\ queue \in [Lanes -> SUBSET Request]
         /\ active \in [Lanes -> Request \cup {None}]
         /\ laneFlag \in [Lanes -> BOOLEAN]
         /\ ownFlags \in [Lanes -> SUBSET Nat]
         /\ pc \in [Lanes -> {"prologue", "dozing", "asleep", "admitting", "waiting",
                              "taken", "running", "judged", "sending", "releasing",
                              "exited"}]
         /\ job \in [Lanes -> Request \cup {None}]
         /\ verdict \in [Lanes -> Answers \cup {None}]
         /\ guarded \in [Lanes -> BOOLEAN] /\ overBudget \in [Lanes -> BOOLEAN]
         /\ channel \in Seq(Message) /\ submitted \in Nat
BY DEF TypeOK

\* A lane the step leaves alone owes no more than before.
LEMMA UntouchedKeepsBlame ==
  ASSUME TypeOK, TypeOK', NEW k \in Lanes, Untouched(k), HistoryGrows,
         LaneBlame(k), LaneOrder(k)
  PROVE  LaneBlame(k)' /\ LaneOrder(k)'
<1>1. LaneBlame(k)'
  BY DEF LaneBlame, Untouched, HistoryGrows, Caused
<1>2. LaneOrder(k)'
  <2>1. /\ submitted \in Nat /\ submitted' \in Nat /\ submitted <= submitted'
        /\ queue[k] \subseteq Request /\ job[k] \in Request \cup {None}
        /\ active[k] \in Request \cup {None} /\ ownFlags[k] \subseteq Nat
    BY LaneTypes DEF TypeOK, HistoryGrows
  <2>2. \A r \in Request : r.serial \in Nat
    BY DEF Request
  <2>3. \A n \in Nat : n <= submitted => n <= submitted'
    BY <2>1
  <2>4. \A s : Caused(s) => Caused(s)'
    BY DEF Caused, HistoryGrows
  <2>5. QED
    BY <2>1, <2>2, <2>3, <2>4 DEF LaneOrder, Untouched
<1>3. QED BY <1>1, <1>2

\* Answers on their way keep their causes while the channel does not grow.
LEMMA ChannelKeepsBlame ==
  ASSUME BlamesTheCause, HistoryGrows, channel' = channel \/ channel' = <<>>
  PROVE  BlamesTheCause'
BY DEF BlamesTheCause, HistoryGrows

\* It is enough to look at the lane a step acts on and at the channel.
LEMMA OneLaneKeepsBlame ==
  ASSUME BlameInv, TypeOK', WorkerHolds', Announced', HistoryGrows,
         NEW l \in Lanes, \A k \in Lanes \ {l} : Untouched(k),
         LaneBlame(l)', LaneOrder(l)', BlamesTheCause'
  PROVE  BlameInv'
<1>1. ASSUME NEW k \in Lanes PROVE LaneBlame(k)' /\ LaneOrder(k)'
  <2>1. CASE k = l
    BY <2>1
  <2>2. CASE k # l
    BY <2>2, UntouchedKeepsBlame DEF BlameInv
  <2>3. QED BY <2>1, <2>2
<1>2. QED BY <1>1 DEF BlameInv

LEMMA SubmitKeepsBlame ==
  ASSUME BlameInv, TypeOK', WorkerHolds', Announced',
         NEW l \in Lanes, NEW tp \in Toolpaths \cup {None}, NEW est \in Estimates \cup {None},
         Submit(l, tp, est)
  PROVE  BlameInv'
<1> DEFINE r == [serial |-> submitted + 1, tp |-> tp, est |-> est]
<1> USE DEF laneVars, workerVars, ledgerVars, frameVars, blameVars
<1>1. TypeOK /\ LaneBlame(l) /\ LaneOrder(l) /\ Announced /\ WorkerHolds /\ BlamesTheCause
  BY DEF BlameInv
<1>2. /\ queue' = [queue EXCEPT ![l] = {q \in @ : ~ Replaces(l, r, q)} \cup {r}]
      /\ laneFlag' = [laneFlag EXCEPT ![l] = @ \/ Hits(l, r)]
      /\ superseded' = superseded \cup (IF Hits(l, r) THEN {active[l].serial} ELSE {})
      /\ ownFlags' = [ownFlags EXCEPT ![l] =
                        @ \cup IF Hits(l, r) /\ l \in OwnFlag THEN {active[l].serial} ELSE {}]
      /\ pc' = [pc EXCEPT ![l] = IF @ = "asleep" THEN "prologue" ELSE @]
      /\ submitted' = submitted + 1
      /\ UNCHANGED <<active, job, verdict, guarded, overBudget, cancelled, outgrown, channel>>
  BY DEF Submit
<1>3. HistoryGrows /\ \A k \in Lanes \ {l} : Untouched(k)
  BY <1>1, <1>2, LaneTypes DEF HistoryGrows, Untouched
<1>4. BlamesTheCause'
  BY <1>1, <1>2, <1>3, ChannelKeepsBlame
<1>5. Hits(l, r) => active[l] # None /\ Caused(active[l].serial)'
  BY <1>2 DEF Hits, Caused
<1>6. \A s : Caused(s) => Caused(s)'
  BY <1>3 DEF Caused, HistoryGrows
<1>7. /\ pc[l] \in Working => active[l] = job[l]
      /\ \A P \in {Working, {"running", "judged", "sending", "releasing"}, {"judged", "sending"}} :
           pc'[l] \in P => pc[l] \in P /\ pc'[l] = pc[l]
      /\ overBudget[l] => pc'[l] = pc[l]
  BY <1>1, <1>2, LaneTypes DEF Announced, Working, LaneBlame
<1>8. /\ laneFlag'[l] => laneFlag[l] \/ Hits(l, r)
      /\ \A s \in ownFlags'[l] : s \in ownFlags[l] \/ (Hits(l, r) /\ s = active[l].serial)
  BY <1>1, <1>2, LaneTypes
<1>9. LaneBlame(l)'
  <2>1. /\ pc'[l] \in Working /\ laneFlag'[l]
             => (Caused(job[l].serial) \/ (l \notin OwnFlag /\ overBudget[l]))'
        /\ pc'[l] \in Working /\ job'[l].serial \in ownFlags'[l]
             => (Caused(job[l].serial) \/ overBudget[l])'
    BY <1>1, <1>2, <1>5, <1>6, <1>7, <1>8 DEF LaneBlame
  <2>2. QED
    BY <1>1, <1>2, <1>6, <1>7, <2>1 DEF LaneBlame
<1>10. LaneOrder(l)'
  <2>1. /\ submitted \in Nat /\ queue[l] \subseteq Request
        /\ job[l] \in Request \cup {None} /\ active[l] \in Request \cup {None}
        /\ ownFlags[l] \subseteq Nat /\ \A q \in Request : q.serial \in Nat
    BY <1>1, LaneTypes DEF Request
  <2>2. /\ \A q \in queue'[l] : q \in queue[l] \/ q = r
        /\ r.serial = submitted + 1 /\ submitted' = submitted + 1
    BY <1>1, <1>2, LaneTypes
  <2>3. \A s \in ownFlags'[l] : s \in Nat /\ s <= submitted
    BY <1>1, <1>5, <1>8, <2>1 DEF LaneOrder
  <2>4. \A q \in queue'[l] :
           /\ q.serial <= submitted'
           /\ job'[l] # None => job'[l].serial < q.serial
           /\ q.serial \in ownFlags'[l] => Caused(q.serial)'
    <3> SUFFICES ASSUME NEW q \in queue'[l]
                 PROVE  /\ q.serial <= submitted'
                        /\ job'[l] # None => job'[l].serial < q.serial
                        /\ q.serial \in ownFlags'[l] => Caused(q.serial)'
      OBVIOUS
    <3>1. CASE q \in queue[l]
      BY <1>1, <1>2, <1>5, <1>6, <1>8, <2>1, <2>2, <3>1 DEF LaneOrder
    <3>2. CASE q = r
      BY <1>1, <1>2, <2>1, <2>2, <2>3, <3>2 DEF LaneOrder
    <3>3. QED BY <2>2, <3>1, <3>2
  <2>5. \A p, q \in queue'[l] : p # q => p.serial # q.serial
    BY <1>1, <2>1, <2>2 DEF LaneOrder
  <2>6. QED
    BY <1>1, <1>2, <2>1, <2>2, <2>3, <2>4, <2>5 DEF LaneOrder
<1>11. QED BY <1>3, <1>4, <1>9, <1>10, OneLaneKeepsBlame

\* Setting flags of the announced job of a lane, or the own flag of a request of
\* its queue, with the cause recorded.
LEMMA CancelKeepsBlame ==
  ASSUME BlameInv, TypeOK', WorkerHolds', Announced', NEW l \in Lanes,
         CancelActive(l) \/ (l = "job" /\ CancelSomeJob)
  PROVE  BlameInv'
<1> USE DEF laneVars, workerVars, ledgerVars, frameVars, blameVars
<1>1. TypeOK /\ LaneBlame(l) /\ LaneOrder(l) /\ Announced /\ BlamesTheCause
  BY DEF BlameInv
<1>2. PICK s :
        /\ cancelled' = cancelled \cup {s}
        /\ \/ active[l] # None /\ s = active[l].serial
           \/ /\ laneFlag' = laneFlag
              /\ \E r \in queue[l] : s = r.serial
        /\ \A k \in Lanes \ {l} : laneFlag'[k] = laneFlag[k] /\ ownFlags'[k] = ownFlags[k]
        /\ ownFlags[l] \subseteq ownFlags'[l] /\ ownFlags'[l] \subseteq ownFlags[l] \cup {s}
        /\ UNCHANGED <<queue, active, workerVars, submitted, superseded, outgrown, channel>>
  <2>1. CASE CancelActive(l)
    BY <1>1, <2>1, LaneTypes DEF CancelActive
  <2>2. CASE l = "job" /\ CancelSomeJob
    <3>1. PICK r \in queue["job"] \cup ({active["job"]} \ {None}) : CancelJob(r)
      BY <2>2 DEF CancelSomeJob
    <3>2. QED BY <1>1, <2>2, <3>1, LaneTypes DEF CancelJob
  <2>3. QED BY <2>1, <2>2
<1>3. HistoryGrows /\ \A k \in Lanes \ {l} : Untouched(k)
  BY <1>1, <1>2, LaneTypes DEF HistoryGrows, Untouched
<1>4. BlamesTheCause'
  BY <1>1, <1>2, <1>3, ChannelKeepsBlame
<1>5. Caused(s)' /\ \A t : Caused(t) => Caused(t)'
  BY <1>2, <1>3 DEF Caused, HistoryGrows
<1>6. s \in Nat /\ s <= submitted
  BY <1>1, <1>2, LaneTypes DEF LaneOrder, Request
<1>7. pc[l] \in Working => active[l] = job[l]
  BY <1>1 DEF Announced
<1>8. LaneBlame(l)'
  BY <1>1, <1>2, <1>5, <1>7 DEF LaneBlame
<1>9. LaneOrder(l)'
  BY <1>1, <1>2, <1>5, <1>6 DEF LaneOrder
<1>10. QED BY <1>3, <1>4, <1>8, <1>9, OneLaneKeepsBlame

\* The front request carries no flag but one a cancel set, and the lane flag of
\* its predecessor is cleared.
LEMMA TakeKeepsBlame ==
  ASSUME BlameInv, TypeOK', WorkerHolds', Announced', NEW l \in Lanes,
         NEW r \in OldestOf(queue[l]), pc[l] \in {"prologue", "admitting"}, Take(l, r)
  PROVE  BlameInv'
<1> USE DEF laneVars, workerVars, ledgerVars, frameVars, blameVars
<1>1. TypeOK /\ LaneBlame(l) /\ LaneOrder(l) /\ BlamesTheCause
  BY DEF BlameInv
<1>2. /\ queue' = [queue EXCEPT ![l] = @ \ {r}]
      /\ laneFlag' = [laneFlag EXCEPT ![l] = FALSE]
      /\ active' = [active EXCEPT ![l] = r]
      /\ job' = [job EXCEPT ![l] = r]
      /\ pc' = [pc EXCEPT ![l] = "taken"]
      /\ UNCHANGED <<ownFlags, verdict, guarded, overBudget, submitted,
                     superseded, cancelled, outgrown, channel>>
  BY DEF Take
<1>3. HistoryGrows /\ \A k \in Lanes \ {l} : Untouched(k)
  BY <1>1, <1>2, LaneTypes DEF HistoryGrows, Untouched
<1>4. BlamesTheCause'
  BY <1>1, <1>2, <1>3, ChannelKeepsBlame
<1>5. /\ r \in queue[l] /\ r \in Request /\ r # None
      /\ \A q \in queue[l] : r.serial <= q.serial
  BY <1>1, LaneTypes, NoneAssumption DEF OldestOf
<1>6. LaneBlame(l)'
  BY <1>1, <1>2, <1>5, LaneTypes DEF LaneBlame, LaneOrder, Caused, Working
<1>7. LaneOrder(l)'
  <2>1. \A q \in queue'[l] : q \in queue[l] /\ q # r /\ r.serial < q.serial
    BY <1>1, <1>2, <1>5, LaneTypes DEF LaneOrder, Request
  <2>2. QED BY <1>1, <1>2, <1>5, <2>1, LaneTypes DEF LaneOrder, Caused
<1>8. QED BY <1>3, <1>4, <1>6, <1>7, OneLaneKeepsBlame

\* The guard's stop sets the flag of its own job and leaves its own mark.
LEMMA BudgetStopKeepsBlame ==
  ASSUME BlameInv, TypeOK', WorkerHolds', Announced', NEW l \in Lanes, BudgetStop(l)
  PROVE  BlameInv'
<1> USE DEF laneVars, workerVars, ledgerVars, frameVars, blameVars
<1>1. TypeOK /\ WorkerHolds /\ LaneBlame(l) /\ LaneOrder(l) /\ BlamesTheCause
  BY DEF BlameInv
<1>2. /\ pc[l] = "running" /\ guarded[l]
      /\ overBudget' = [overBudget EXCEPT ![l] = TRUE]
      /\ outgrown' = outgrown \cup {job[l].serial}
      /\ \A k \in Lanes \ {l} : laneFlag'[k] = laneFlag[k] /\ ownFlags'[k] = ownFlags[k]
      /\ l \in OwnFlag => laneFlag'[l] = laneFlag[l]
      /\ ownFlags[l] \subseteq ownFlags'[l]
      /\ ownFlags'[l] \subseteq ownFlags[l] \cup {job[l].serial}
      /\ UNCHANGED <<queue, active, pc, job, verdict, guarded, submitted,
                     superseded, cancelled, channel>>
  BY <1>1, LaneTypes DEF BudgetStop
<1>3. HistoryGrows /\ \A k \in Lanes \ {l} : Untouched(k)
  BY <1>1, <1>2, LaneTypes DEF HistoryGrows, Untouched
<1>4. BlamesTheCause'
  BY <1>1, <1>2, <1>3, ChannelKeepsBlame
<1>5. overBudget'[l] /\ job[l] # None /\ l \in Heavy
  BY <1>1, <1>2, LaneTypes DEF WorkerHolds, Busy, LaneBlame
<1>6. LaneBlame(l)'
  BY <1>1, <1>2, <1>5 DEF LaneBlame, Caused, Working
<1>7. LaneOrder(l)'
  <2>1. \A q \in queue[l] : q.serial # job[l].serial
    BY <1>1, <1>5, LaneTypes DEF LaneOrder, Request
  <2>2. QED BY <1>1, <1>2, <1>5, <2>1 DEF LaneOrder, Caused
<1>8. QED BY <1>3, <1>4, <1>6, <1>7, OneLaneKeepsBlame

\* Judging: each lane calls a job cancelled or over budget only on a flag or a
\* reason that has that cause.
LEMMA JudgingKeepsBlame ==
  ASSUME BlameInv, TypeOK', WorkerHolds', Announced', NEW l \in Lanes,
         FinishJob(l) \/ PanicJob(l)
  PROVE  BlameInv'
<1> USE DEF laneVars, workerVars, ledgerVars, frameVars, blameVars
<1>1. TypeOK /\ LaneBlame(l) /\ LaneOrder(l) /\ BlamesTheCause
  BY DEF BlameInv
<1>2. /\ pc[l] = "running" /\ pc' = [pc EXCEPT ![l] = "judged"]
      /\ \E v \in Answers \cup {None} : verdict' = [verdict EXCEPT ![l] = v]
      /\ UNCHANGED <<queue, active, laneFlag, ownFlags, job, guarded, overBudget,
                     submitted, superseded, cancelled, outgrown, channel>>
  <2>1. \A a \in Answers : Verdict(l, a) \in Answers \cup {None}
    BY LanesAssumption DEF Verdict, Answers, AllLanes
  <2>2. Returns(l) \subseteq Answers
    BY DEF Returns, Answers
  <2>3. CASE FinishJob(l)
    BY <2>1, <2>2, <2>3 DEF FinishJob
  <2>4. CASE PanicJob(l)
    BY <2>1, <2>4, LanesAssumption DEF PanicJob, Answers, AllLanes
  <2>5. QED BY <2>3, <2>4
<1>3. HistoryGrows /\ \A k \in Lanes \ {l} : Untouched(k)
  BY <1>1, <1>2, LaneTypes DEF HistoryGrows, Untouched
<1>4. BlamesTheCause'
  BY <1>1, <1>2, <1>3, ChannelKeepsBlame
<1>5. /\ l \in OwnFlag /\ laneFlag[l] => Caused(job[l].serial)
      /\ laneFlag[l] => Caused(job[l].serial) \/ overBudget[l]
      /\ Flagged(l) => Caused(job[l].serial) \/ overBudget[l]
      /\ overBudget[l] => l \in Heavy /\ job[l].serial \in outgrown
  BY <1>1, <1>2 DEF LaneBlame, Flagged, Working
<1>6. \A a \in Returns(l) \cup {"error"} :
        /\ Verdict(l, a) = "cancelled" => Caused(job[l].serial)
        /\ Verdict(l, a) = "overBudget" => job[l].serial \in outgrown
  BY <1>5, LanesAssumption DEF Returns, Verdict, Heavy, OwnFlag, AllLanes
<1>7. /\ verdict'[l] = "cancelled" => Caused(job[l].serial)
      /\ verdict'[l] = "overBudget" => job[l].serial \in outgrown
  <2>1. CASE FinishJob(l)
    BY <1>1, <1>6, <2>1, LaneTypes DEF FinishJob
  <2>2. CASE PanicJob(l)
    BY <1>1, <1>6, <2>2, LaneTypes, NoneAssumption DEF PanicJob, Answers
  <2>3. QED BY <2>1, <2>2
<1>8. LaneBlame(l)'
  BY <1>1, <1>2, <1>7, LaneTypes DEF LaneBlame, Caused, Working
<1>9. LaneOrder(l)'
  BY <1>1, <1>2 DEF LaneOrder, Caused
<1>10. QED BY <1>3, <1>4, <1>8, <1>9, OneLaneKeepsBlame

\* The answer on the channel is the verdict of the job.
LEMMA SendKeepsBlame ==
  ASSUME BlameInv, TypeOK', WorkerHolds', Announced', NEW l \in Lanes, SendResult(l)
  PROVE  BlameInv'
<1> USE DEF laneVars, workerVars, ledgerVars, frameVars, blameVars
<1> DEFINE m == [lane |-> l, serial |-> job[l].serial, tp |-> job[l].tp, answer |-> verdict[l]]
<1>1. TypeOK /\ LaneBlame(l) /\ LaneOrder(l) /\ BlamesTheCause
  BY DEF BlameInv
<1>2. /\ pc[l] = "sending" /\ pc' = [pc EXCEPT ![l] = "releasing"]
      /\ channel' = Append(channel, m)
      /\ UNCHANGED <<queue, active, laneFlag, ownFlags, job, verdict, guarded, overBudget,
                     submitted, superseded, cancelled, outgrown>>
  BY DEF SendResult
<1>3. HistoryGrows /\ \A k \in Lanes \ {l} : Untouched(k)
  BY <1>1, <1>2, LaneTypes DEF HistoryGrows, Untouched
<1>4. BlamesTheCause'
  <2>1. /\ m.answer = "cancelled" => Caused(m.serial)
        /\ m.answer = "overBudget" => m.serial \in outgrown
    BY <1>1, <1>2 DEF LaneBlame
  <2>2. channel \in Seq(Message) /\ channel' \in Seq(Message)
    BY <1>1 DEF TypeOK
  <2>3. /\ Len(channel') = Len(channel) + 1 /\ channel'[Len(channel) + 1] = m
        /\ \A i \in 1..Len(channel) : channel'[i] = channel[i]
    BY <1>2, <2>2
  <2>4. \A i \in 1..Len(channel') : i \in 1..Len(channel) \/ i = Len(channel) + 1
    BY <2>2, <2>3
  <2>5. QED BY <1>1, <1>2, <2>1, <2>3, <2>4 DEF BlamesTheCause, Caused
<1>5. LaneBlame(l)'
  BY <1>1, <1>2, LaneTypes DEF LaneBlame, Caused, Working
<1>6. LaneOrder(l)'
  BY <1>1, <1>2 DEF LaneOrder, Caused
<1>7. QED BY <1>3, <1>4, <1>5, <1>6, OneLaneKeepsBlame

\* The other steps of a worker raise no flag, and what they leave of the job and
\* its verdict was accounted for.
LEMMA WorkerKeepsBlame ==
  ASSUME BlameInv, TypeOK', WorkerHolds', Announced', NEW l \in Lanes,
         Worker(l) \/ BudgetStop(l) \/ WakeSpuriously(l)
  PROVE  BlameInv'
<1> USE DEF laneVars, workerVars, ledgerVars, frameVars, blameVars
<1>1. TypeOK /\ LaneBlame(l) /\ LaneOrder(l) /\ BlamesTheCause
  BY DEF BlameInv
<1>2. ASSUME /\ \E p \in {"exited", "dozing", "asleep", "admitting", "waiting", "prologue",
                          "releasing", "sending"} :
                  /\ p \in {"releasing", "sending"} <=> pc[l] = "judged"
                  /\ pc' = [pc EXCEPT ![l] = p]
             /\ active' = active \/ active' = [active EXCEPT ![l] = None]
             /\ \/ UNCHANGED <<job, verdict, guarded, overBudget>>
                   /\ (pc[l] = "judged" \/ ~ overBudget[l])
                \/ /\ job' = [job EXCEPT ![l] = None]
                   /\ ~ overBudget'[l]
                   /\ \A k \in Lanes \ {l} :
                        /\ verdict'[k] = verdict[k] /\ guarded'[k] = guarded[k]
                        /\ overBudget'[k] = overBudget[k]
                   /\ guarded'[l] => guarded[l]
                   /\ pc'[l] \in {"exited", "prologue"}
             /\ UNCHANGED <<queue, laneFlag, ownFlags, submitted, superseded, cancelled,
                            outgrown, channel>>
      PROVE  BlameInv'
  <2>1. HistoryGrows /\ \A k \in Lanes \ {l} : Untouched(k)
    BY <1>1, <1>2, LaneTypes DEF HistoryGrows, Untouched
  <2>2. BlamesTheCause'
    BY <1>1, <1>2, <2>1, ChannelKeepsBlame
  <2>3. pc'[l] \notin Working /\ pc'[l] # "judged"
    BY <1>1, <1>2, LaneTypes DEF Working
  <2>4. LaneBlame(l)'
    <3>1. CASE UNCHANGED <<job, verdict, guarded, overBudget>>
      BY <1>1, <1>2, <2>3, <3>1, LaneTypes DEF LaneBlame, Caused
    <3>2. CASE ~ overBudget'[l] /\ pc'[l] \in {"exited", "prologue"} /\ (guarded'[l] => guarded[l])
      BY <1>1, <2>3, <3>2 DEF LaneBlame
    <3>3. QED BY <1>2, <3>1, <3>2
  <2>5. LaneOrder(l)'
    BY <1>1, <1>2, LaneTypes DEF LaneOrder, Caused
  <2>6. QED BY <2>1, <2>2, <2>4, <2>5, OneLaneKeepsBlame
<1>3. CASE SeeShutdown(l) \/ Doze(l) \/ ReadLimit(l) \/ WaitForLedger(l) \/ Recheck(l)
           \/ WakeSpuriously(l) \/ Sleep(l)
  <2>1. /\ \E p \in {"exited", "dozing", "asleep", "admitting", "waiting", "prologue"} :
             pc' = [pc EXCEPT ![l] = p]
        /\ pc[l] \in {"prologue", "dozing", "asleep", "admitting", "waiting"}
        /\ active' = active \/ active' = [active EXCEPT ![l] = None]
        /\ UNCHANGED <<queue, laneFlag, ownFlags, job, verdict, guarded, overBudget, submitted,
                       superseded, cancelled, outgrown, channel>>
    BY <1>3 DEF SeeShutdown, Doze, ReadLimit, WaitForLedger, Recheck, WakeSpuriously, Sleep
  <2>2. ~ overBudget[l]
    BY <1>1, <2>1 DEF LaneBlame
  <2>3. QED BY <1>2, <2>1, <2>2
<1>4. CASE ResetLane(l)
  <2>1. /\ \E p \in {"releasing", "sending"} : pc' = [pc EXCEPT ![l] = p]
        /\ pc[l] = "judged"
        /\ active' = [active EXCEPT ![l] = None]
        /\ UNCHANGED <<queue, laneFlag, ownFlags, job, verdict, guarded, overBudget, submitted,
                       superseded, cancelled, outgrown, channel>>
    BY <1>4 DEF ResetLane
  <2>2. QED BY <1>2, <2>1
<1>5. CASE AbandonJob(l)
  <2>1. ~ overBudget[l]
    BY <1>1, <1>5 DEF AbandonJob, LaneBlame
  <2>2. QED BY <1>1, <1>2, <1>5, <2>1, LaneTypes DEF AbandonJob
<1>6. CASE EndIteration(l)
  BY <1>1, <1>2, <1>6, LaneTypes DEF EndIteration
<1>7. CASE StartJob(l)
  <2>1. /\ pc[l] = "taken" /\ pc' = [pc EXCEPT ![l] = "running"]
        /\ guarded' = [guarded EXCEPT ![l] = l \in Heavy /\ limit # None]
        /\ overBudget' = [overBudget EXCEPT ![l] = FALSE]
        /\ UNCHANGED <<queue, active, laneFlag, ownFlags, job, verdict, submitted, superseded,
                       cancelled, outgrown, channel>>
    BY <1>7 DEF StartJob
  <2>2. HistoryGrows /\ \A k \in Lanes \ {l} : Untouched(k)
    BY <1>1, <2>1, LaneTypes DEF HistoryGrows, Untouched
  <2>3. BlamesTheCause'
    BY <1>1, <2>1, <2>2, ChannelKeepsBlame
  <2>4. ~ overBudget[l]
    BY <1>1, <2>1 DEF LaneBlame
  <2>5. LaneBlame(l)'
    BY <1>1, <2>1, <2>4, LaneTypes DEF LaneBlame, Caused, Working
  <2>6. LaneOrder(l)'
    BY <1>1, <2>1 DEF LaneOrder, Caused
  <2>7. QED BY <2>2, <2>3, <2>5, <2>6, OneLaneKeepsBlame
<1>8. CASE TakeReserved(l)
  BY <1>8, TakeKeepsBlame DEF TakeReserved
<1>9. CASE TakeUnreserved(l)
  BY <1>9, TakeKeepsBlame DEF TakeUnreserved
<1>10. QED
  BY <1>3, <1>4, <1>5, <1>6, <1>7, <1>8, <1>9, BudgetStopKeepsBlame, JudgingKeepsBlame,
     SendKeepsBlame DEF Worker

\* The frame loop's other steps leave flags and jobs alone.
LEMMA FrameKeepsBlame ==
  ASSUME BlameInv, TypeOK', WorkerHolds', Announced',
         \/ \E b \in Limits \cup {None} : SetBudget(b)
         \/ DrainResults
         \/ Dropping
         \/ UNCHANGED vars
  PROVE  BlameInv'
<1> USE DEF laneVars, workerVars, ledgerVars, frameVars, blameVars
<1>1. TypeOK /\ BlamesTheCause /\ \A k \in Lanes : LaneBlame(k) /\ LaneOrder(k)
  BY DEF BlameInv
<1>2. /\ UNCHANGED <<queue, active, laneFlag, ownFlags, job, verdict, guarded, overBudget,
                     submitted, superseded, cancelled, outgrown>>
      /\ channel' = channel \/ channel' = <<>>
      /\ \A k \in Lanes : pc'[k] = pc[k] \/ (pc[k] = "asleep" /\ pc'[k] = "prologue")
  BY <1>1, LaneTypes
     DEF SetBudget, DrainResults, Dropping, StoreShutdown, NotifyShutdown, vars
<1>3. HistoryGrows
  BY <1>1, <1>2, LaneTypes DEF HistoryGrows
<1>4. BlamesTheCause'
  BY <1>1, <1>2, <1>3, ChannelKeepsBlame
<1>5. ASSUME NEW k \in Lanes PROVE LaneBlame(k)' /\ LaneOrder(k)'
  <2>1. LaneBlame(k)'
    BY <1>1, <1>2 DEF LaneBlame, Caused, Working
  <2>2. LaneOrder(k)'
    BY <1>1, <1>2 DEF LaneOrder, Caused
  <2>3. QED BY <2>1, <2>2
<1>6. QED BY <1>4, <1>5 DEF BlameInv

LEMMA BlameInvariant == Spec => []BlameInv
<1>1. Init => BlameInv
  <2>1. Init => TypeOK /\ WorkerHolds /\ Announced
    BY LedgerInit DEF LedgerInv, Init, Announced, Working
  <2>2. ASSUME Init, NEW l \in Lanes PROVE LaneBlame(l) /\ LaneOrder(l)
    BY <2>2 DEF Init, LaneBlame, LaneOrder, Working
  <2>3. Init => BlamesTheCause
    BY DEF Init, BlamesTheCause
  <2>4. QED BY <2>1, <2>2, <2>3 DEF BlameInv
<1>2. StaleInv' /\ BlameInv /\ [Next]_vars => BlameInv'
  <2> SUFFICES ASSUME StaleInv', BlameInv, [Next]_vars PROVE BlameInv'
    OBVIOUS
  <2>1. TypeOK' /\ WorkerHolds' /\ Announced'
    BY DEF StaleInv
  <2>2. CASE Operator
    <3>1. ASSUME NEW tp \in Toolpaths, SubmitToolpath(tp) PROVE BlameInv'
      BY <2>1, <3>1, SubmitKeepsBlame DEF SubmitToolpath
    <3>2. ASSUME NEW est \in Estimates, SubmitSimulation(est) PROVE BlameInv'
      BY <2>1, <3>2, SubmitKeepsBlame DEF SubmitSimulation
    <3>3. CASE SubmitCollision \/ SubmitReach \/ SubmitJob
      BY <2>1, <3>3, SubmitKeepsBlame DEF SubmitCollision, SubmitReach, SubmitJob
    <3>4. CASE RequestCancel \/ (\E l \in Lanes : CancelLane(l)) \/ CancelSomeJob
      BY <2>1, <3>4, CancelKeepsBlame DEF RequestCancel, CancelLane, CancelSomeJob
    <3>5. QED
      BY <2>1, <2>2, <3>1, <3>2, <3>3, <3>4, FrameKeepsBlame DEF Operator
  <2>3. ASSUME NEW l \in Lanes, Worker(l) \/ BudgetStop(l) \/ WakeSpuriously(l)
        PROVE  BlameInv'
    BY <2>1, <2>3, WorkerKeepsBlame
  <2>4. QED BY <2>1, <2>2, <2>3, FrameKeepsBlame DEF Next
<1>3. QED BY <1>1, <1>2, StaleInvariant, PTL DEF Spec

\* No answer blames what did not happen to its own job: for any lanes, toolpaths
\* and number of submissions, "cancelled" goes only to a submission that a cancel
\* or a newer request reached, and "over budget" only to one its own guard
\* stopped (the answer mapping of the four workers in worker.rs).
THEOREM AnswersBlameTheCause == Spec => []BlamesTheCause
<1>1. BlameInv => BlamesTheCause
  BY DEF BlameInv
<1>2. QED BY <1>1, BlameInvariant, PTL

-----------------------------------------------------------------------------

\* Where a worker may have left its last job announced.
MayAnnounce == {"taken", "running", "judged", "exited"}

\* What the snapshot of one lane shows, whoever holds its mutex, and what the
\* two steps that keep the mutex know.
Shows(l) ==
  /\ state[l] = "Idle"       => queue[l] = {} /\ active[l] = None /\ shown[l] = None
  /\ state[l] = "Queued"     => active[l] = None /\ shown[l] \in OldestOf(queue[l])
  /\ state[l] = "Running"    => active[l] # None /\ shown[l] = active[l]
  /\ state[l] = "Cancelling" => active[l] # None /\ shown[l] = active[l] /\ laneFlag[l]
  /\ pc[l] = "dozing" => queue[l] = {}
  /\ pc[l] \notin MayAnnounce => active[l] = None

ShowInv == TypeOK /\ \A l \in Lanes : Shows(l)

LEMMA ShowTypes ==
  ASSUME TypeOK
  PROVE  /\ state \in [Lanes -> {"Idle", "Queued", "Running", "Cancelling"}]
         /\ shown \in [Lanes -> Request \cup {None}]
BY DEF TypeOK

\* It is enough to look at the lane a step acts on.
LEMMA OneLaneKeepsShow ==
  ASSUME ShowInv, TypeOK', NEW l \in Lanes, Shows(l)',
         \A k \in Lanes \ {l} :
           /\ queue'[k] = queue[k] /\ state'[k] = state[k] /\ shown'[k] = shown[k]
           /\ active'[k] = active[k] /\ laneFlag'[k] = laneFlag[k] /\ pc'[k] = pc[k]
  PROVE  ShowInv'
<1>1. ASSUME NEW k \in Lanes, k # l PROVE Shows(k)'
  BY <1>1 DEF ShowInv, Shows, OldestOf
<1>2. QED BY <1>1 DEF ShowInv

LEMMA SubmitKeepsShow ==
  ASSUME ShowInv, TypeOK', NEW l \in Lanes,
         NEW tp \in Toolpaths \cup {None}, NEW est \in Estimates \cup {None},
         Submit(l, tp, est)
  PROVE  ShowInv'
<1> DEFINE r == [serial |-> submitted + 1, tp |-> tp, est |-> est]
<1> USE DEF laneVars, workerVars, ledgerVars, frameVars, blameVars
<1>1. TypeOK /\ Shows(l)
  BY DEF ShowInv
<1>2. /\ pc[l] \notin {"admitting", "dozing"}
      /\ queue' = [queue EXCEPT ![l] = {q \in @ : ~ Replaces(l, r, q)} \cup {r}]
      /\ laneFlag' = [laneFlag EXCEPT ![l] = @ \/ Hits(l, r)]
      /\ state' = [state EXCEPT ![l] = IF Hits(l, r) THEN "Cancelling"
                                       ELSE IF active[l] = None THEN "Queued" ELSE @]
      /\ \E front \in OldestOf(queue'[l]) :
           shown' = [shown EXCEPT ![l] = IF active[l] = None THEN front ELSE @]
      /\ pc' = [pc EXCEPT ![l] = IF @ = "asleep" THEN "prologue" ELSE @]
      /\ UNCHANGED active
  BY DEF Submit, LockFree
<1>3. /\ pc'[l] # "dozing" /\ (pc'[l] \notin MayAnnounce => pc[l] \notin MayAnnounce)
      /\ active'[l] = active[l]
  BY <1>1, <1>2, LaneTypes DEF MayAnnounce
<1>4. Shows(l)'
  <2>1. CASE active[l] = None
    <3>1. state'[l] = "Queued" /\ shown'[l] \in OldestOf(queue'[l])
      BY <1>1, <1>2, <2>1, ShowTypes DEF Hits
    <3>2. QED BY <1>3, <2>1, <3>1 DEF Shows, OldestOf
  <2>2. CASE active[l] # None /\ Hits(l, r)
    <3>1. state'[l] = "Cancelling" /\ shown'[l] = shown[l] /\ laneFlag'[l]
      BY <1>1, <1>2, <2>2, ShowTypes, LaneTypes
    <3>2. shown[l] = active[l]
      BY <1>1, <2>2, ShowTypes DEF Shows
    <3>3. QED BY <1>1, <1>3, <2>2, <3>1, <3>2 DEF Shows
  <2>3. CASE active[l] # None /\ ~ Hits(l, r)
    <3>1. /\ state'[l] = state[l] /\ shown'[l] = shown[l]
          /\ laneFlag[l] => laneFlag'[l]
      BY <1>1, <1>2, <2>3, ShowTypes, LaneTypes
    <3>2. state[l] \in {"Running", "Cancelling"}
      BY <1>1, <2>3, ShowTypes DEF Shows
    <3>3. QED BY <1>1, <1>3, <2>3, <3>1, <3>2 DEF Shows
  <2>4. QED BY <2>1, <2>2, <2>3
<1>5. \A k \in Lanes \ {l} :
        /\ queue'[k] = queue[k] /\ state'[k] = state[k] /\ shown'[k] = shown[k]
        /\ active'[k] = active[k] /\ laneFlag'[k] = laneFlag[k] /\ pc'[k] = pc[k]
  BY <1>1, <1>2, ShowTypes, LaneTypes
<1>6. QED BY <1>4, <1>5, OneLaneKeepsShow

LEMMA WorkerKeepsShow ==
  ASSUME ShowInv, TypeOK', NEW l \in Lanes, Worker(l) \/ BudgetStop(l) \/ WakeSpuriously(l)
  PROVE  ShowInv'
<1> USE DEF laneVars, workerVars, ledgerVars, frameVars, blameVars
<1>1. TypeOK /\ Shows(l)
  BY DEF ShowInv
<1>2. ASSUME NEW p \in {"exited", "dozing", "admitting", "waiting", "prologue", "running",
                        "judged", "sending", "releasing"},
             UNCHANGED <<queue, state, shown, active, laneFlag>>,
             pc' = [pc EXCEPT ![l] = p],
             p = "dozing" => queue[l] = {},
             p \notin MayAnnounce => pc[l] \notin MayAnnounce
      PROVE  ShowInv'
  <2>1. Shows(l)'
    BY <1>1, <1>2, LaneTypes DEF Shows, OldestOf
  <2>2. QED BY <1>1, <1>2, <2>1, LaneTypes, OneLaneKeepsShow
<1>3. CASE SeeShutdown(l) \/ Recheck(l) \/ WakeSpuriously(l) \/ ReadLimit(l)
  BY <1>2, <1>3 DEF SeeShutdown, Recheck, WakeSpuriously, ReadLimit, MayAnnounce
<1>4. CASE Doze(l)
  BY <1>2, <1>4 DEF Doze, MayAnnounce
<1>5. CASE StartJob(l) \/ FinishJob(l) \/ PanicJob(l) \/ AbandonJob(l)
  BY <1>2, <1>5 DEF StartJob, FinishJob, PanicJob, AbandonJob, MayAnnounce
<1>6. CASE SendResult(l) \/ EndIteration(l)
  BY <1>2, <1>6 DEF SendResult, EndIteration, MayAnnounce
<1>7. CASE Sleep(l)
  <2>1. Shows(l)'
    BY <1>1, <1>7, ShowTypes, LaneTypes DEF Sleep, Shows
  <2>2. QED BY <1>1, <1>7, <2>1, ShowTypes, LaneTypes, OneLaneKeepsShow DEF Sleep
<1>8. CASE WaitForLedger(l)
  <2>1. active[l] = None
    BY <1>1, <1>8 DEF WaitForLedger, Shows, MayAnnounce
  <2>2. Shows(l)'
    BY <1>1, <1>8, <2>1, ShowTypes, LaneTypes DEF WaitForLedger, Shows, OldestOf
  <2>3. QED BY <1>1, <1>8, <2>2, ShowTypes, LaneTypes, OneLaneKeepsShow DEF WaitForLedger
<1>9. CASE TakeReserved(l) \/ TakeUnreserved(l)
  <2>1. PICK r \in queue[l] : Take(l, r)
    BY <1>9 DEF TakeReserved, TakeUnreserved, OldestOf
  <2>2. r # None
    BY <1>1, LaneTypes, NoneAssumption
  <2>3. Shows(l)'
    BY <1>1, <2>1, <2>2, ShowTypes, LaneTypes DEF Take, Shows, MayAnnounce
  <2>4. QED BY <1>1, <2>1, <2>3, ShowTypes, LaneTypes, OneLaneKeepsShow DEF Take
<1>10. CASE ResetLane(l)
  <2>1. CASE queue[l] = {}
    <3>1. Shows(l)'
      BY <1>1, <1>10, <2>1, ShowTypes, LaneTypes DEF ResetLane, Shows
    <3>2. QED BY <1>1, <1>10, <2>1, <3>1, ShowTypes, LaneTypes, OneLaneKeepsShow DEF ResetLane
  <2>2. CASE queue[l] # {}
    <3>1. PICK r \in OldestOf(queue[l]) :
            /\ active' = [active EXCEPT ![l] = None]
            /\ state' = [state EXCEPT ![l] = "Queued"]
            /\ shown' = [shown EXCEPT ![l] = r]
            /\ \E p \in {"releasing", "sending"} : pc' = [pc EXCEPT ![l] = p]
            /\ UNCHANGED <<queue, laneFlag>>
      BY <1>10, <2>2 DEF ResetLane
    <3>2. Shows(l)'
      BY <1>1, <3>1, ShowTypes, LaneTypes DEF Shows, OldestOf
    <3>3. QED BY <1>1, <3>1, <3>2, ShowTypes, LaneTypes, OneLaneKeepsShow
  <2>3. QED BY <2>1, <2>2
<1>11. CASE BudgetStop(l)
  <2>1. /\ UNCHANGED <<queue, state, shown, active, pc>>
        /\ laneFlag[l] => laneFlag'[l]
        /\ \A k \in Lanes \ {l} : laneFlag'[k] = laneFlag[k]
    BY <1>1, <1>11, LaneTypes DEF BudgetStop
  <2>2. Shows(l)'
    BY <1>1, <2>1 DEF Shows, OldestOf
  <2>3. QED BY <2>1, <2>2, OneLaneKeepsShow
<1>12. QED
  BY <1>3, <1>4, <1>5, <1>6, <1>7, <1>8, <1>9, <1>10, <1>11 DEF Worker

LEMMA FrameKeepsShow ==
  ASSUME ShowInv, TypeOK',
         \/ \E l \in Lanes : CancelActive(l)
         \/ CancelSomeJob
         \/ \E b \in Limits \cup {None} : SetBudget(b)
         \/ DrainResults
         \/ Dropping
         \/ UNCHANGED vars
  PROVE  ShowInv'
<1> USE DEF laneVars, workerVars, ledgerVars, frameVars, blameVars
<1>1. TypeOK /\ \A k \in Lanes : Shows(k)
  BY DEF ShowInv
<1>2. ASSUME NEW l \in Lanes, CancelActive(l) PROVE ShowInv'
  <2>1. /\ active[l] # None
        /\ laneFlag' = [laneFlag EXCEPT ![l] = TRUE]
        /\ state' = [state EXCEPT ![l] = "Cancelling"]
        /\ UNCHANGED <<queue, shown, active, pc>>
    BY <1>2 DEF CancelActive
  <2>2. shown[l] = active[l]
    BY <1>1, <2>1, ShowTypes DEF Shows
  <2>3. Shows(l)'
    BY <1>1, <2>1, <2>2, ShowTypes, LaneTypes DEF Shows
  <2>4. QED BY <1>1, <2>1, <2>3, ShowTypes, LaneTypes, OneLaneKeepsShow
<1>3. CASE \/ CancelSomeJob
           \/ \E b \in Limits \cup {None} : SetBudget(b)
           \/ DrainResults
           \/ Dropping
           \/ UNCHANGED vars
  <2>1. /\ UNCHANGED <<queue, state, shown, active, laneFlag>>
        /\ \A k \in Lanes : pc'[k] = pc[k] \/ (pc[k] = "asleep" /\ pc'[k] = "prologue")
    BY <1>1, <1>3, LaneTypes DEF CancelSomeJob, CancelJob, SetBudget, DrainResults, Dropping,
       StoreShutdown, NotifyShutdown, vars
  <2>2. \A k \in Lanes : Shows(k)'
    BY <1>1, <2>1 DEF Shows, OldestOf, MayAnnounce
  <2>3. QED BY <2>2 DEF ShowInv
<1>4. QED BY <1>2, <1>3

\* The status is never a lie: on every lane and in every order of submits,
\* cancels and worker steps, what lane_snapshot shows under the lane mutex agrees
\* with the queue, the announced job and the lane's flag.
THEOREM SnapshotsAreHonest == Spec => []SnapshotHonest
<1>1. Init => ShowInv
  <2>1. Init => TypeOK
    BY LedgerInit DEF LedgerInv
  <2>2. Init => \A l \in Lanes : Shows(l)
    BY DEF Init, Shows
  <2>3. QED BY <2>1, <2>2 DEF ShowInv
<1>2. LedgerInv' /\ ShowInv /\ [Next]_vars => ShowInv'
  <2> SUFFICES ASSUME LedgerInv', ShowInv, [Next]_vars PROVE ShowInv'
    OBVIOUS
  <2>1. TypeOK'
    BY DEF LedgerInv
  <2>2. CASE Operator
    <3>1. ASSUME NEW tp \in Toolpaths, SubmitToolpath(tp) PROVE ShowInv'
      BY <2>1, <3>1, SubmitKeepsShow DEF SubmitToolpath
    <3>2. ASSUME NEW est \in Estimates, SubmitSimulation(est) PROVE ShowInv'
      BY <2>1, <3>2, SubmitKeepsShow DEF SubmitSimulation
    <3>3. CASE SubmitCollision \/ SubmitReach \/ SubmitJob
      BY <2>1, <3>3, SubmitKeepsShow DEF SubmitCollision, SubmitReach, SubmitJob
    <3>4. CASE RequestCancel \/ \E l \in Lanes : CancelLane(l)
      BY <2>1, <3>4, FrameKeepsShow DEF RequestCancel, CancelLane
    <3>5. QED
      BY <2>1, <2>2, <3>1, <3>2, <3>3, <3>4, FrameKeepsShow DEF Operator
  <2>3. ASSUME NEW l \in Lanes, Worker(l) \/ BudgetStop(l) \/ WakeSpuriously(l)
        PROVE  ShowInv'
    BY <2>1, <2>3, WorkerKeepsShow
  <2>4. QED BY <2>1, <2>2, <2>3, FrameKeepsShow DEF Next
<1>3. ShowInv => SnapshotHonest
  BY ShowTypes DEF ShowInv, Shows, SnapshotHonest
<1>4. QED BY <1>1, <1>2, <1>3, LedgerInvariant, PTL DEF Spec
=============================================================================
