----------------------- MODULE GenerationPlan_proofs -----------------------
(***************************************************************************)
(* Whatever the driver, the sweep, the operators and the lane's worker do, *)
(* session and lanes only take steps of SessionResults.  The step that is  *)
(* not obvious is the Cancelled that nobody is told of: the mark it is     *)
(* read by always belongs to a run with a newer handle behind it.          *)
(*                                                                         *)
(* Then the plan itself: its record stays in order, and its steps list the *)
(* rows of its scope in cut order, so that no answer of a row takes away   *)
(* what a step before it made.                                             *)
(***************************************************************************)
EXTENDS GenerationPlan, SessionResults_proofs

\* Every marked row has a run that has left the queue and a handle behind it.
MarkedHasNewer ==
  \A r \in superseded : \E i \in 1..Len(ran), j \in 1..Len(lane) :
    i < j /\ lane[i].row = r /\ lane[j].row = r

LaneInOrder ==
  /\ RecordsWith("row", lane)
  /\ ran \in Seq(BOOLEAN)
  /\ Len(ran) <= Len(lane)
  /\ busy => ran # <<>>
  /\ MarkedHasNewer

LEMMA LaneFacts ==
  ASSUME LaneInOrder
  PROVE  /\ Len(lane) \in Nat /\ DOMAIN lane = 1..Len(lane)
         /\ Len(ran) \in Nat /\ DOMAIN ran = 1..Len(ran)
         /\ busy => Len(ran) >= 1
<1>1. PICK S : lane \in Seq(S)
      BY DEF LaneInOrder, RecordsWith
<1>2. ran # <<>> => Len(ran) \in Nat \ {0}
      BY EmptySeq DEF LaneInOrder
<1>3. QED BY <1>1, <1>2, LenProperties DEF LaneInOrder

-----------------------------------------------------------------------------
(* The three things that happen to the lane.                               *)

\* Its handles are outdated, or nothing happens to them; its runs are flagged
\* or joined by the next.
LEMMA SameRowsKeepOrder ==
  ASSUME LaneInOrder, RecordsWith("row", lane'), SameRows(lane, lane'),
         ran' \in Seq(BOOLEAN), Len(ran') >= Len(ran), Len(ran') <= Len(lane),
         busy' => ran' # <<>>, superseded' \subseteq superseded
  PROVE  LaneInOrder'
<1>1. Len(lane') = Len(lane) /\ \A i \in 1..Len(lane) : lane'[i].row = lane[i].row
      BY DEF SameRows
<1>2. Len(ran) \in Nat /\ Len(ran') \in Nat /\ Len(lane) \in Nat
      BY LaneFacts, LenProperties
<1>3. MarkedHasNewer'
  <2> SUFFICES ASSUME NEW r \in superseded'
               PROVE  \E i \in 1..Len(ran'), j \in 1..Len(lane') :
                        i < j /\ lane'[i].row = r /\ lane'[j].row = r
      BY DEF MarkedHasNewer
  <2>1. PICK i \in 1..Len(ran), j \in 1..Len(lane) :
               i < j /\ lane[i].row = r /\ lane[j].row = r
        BY DEF LaneInOrder, MarkedHasNewer
  <2>2. i \in 1..Len(ran') /\ i \in 1..Len(lane) /\ j \in 1..Len(lane')
        BY <1>1, <1>2, <2>1
  <2>3. QED BY <1>1, <2>1, <2>2
<1>4. QED BY <1>1, <1>3 DEF LaneInOrder

\* The oldest answer is drained, and its row loses its mark.
LEMMA DrainKeepsOrder ==
  ASSUME LaneInOrder, NEW r, Draining(r),
         RecordsWith("row", lane'), SameRows(Tail(lane), lane')
  PROVE  LaneInOrder'
<1>1. PICK S : lane \in Seq(S)
      BY DEF LaneInOrder, RecordsWith
<1>2. /\ Len(lane) \in Nat /\ Len(ran) \in Nat /\ Len(ran) >= 1
      /\ busy => Len(ran) >= 2
      BY LaneFacts DEF Draining
<1>3. lane # <<>> /\ ran # <<>>
      BY <1>2, EmptySeq DEF LaneInOrder
<1>4. /\ Len(lane') = Len(lane) - 1
      /\ \A i \in 1..(Len(lane) - 1) : lane'[i].row = lane[i + 1].row
      BY <1>1, <1>3, HeadTailProperties DEF SameRows
<1>5. ran' \in Seq(BOOLEAN) /\ Len(ran') = Len(ran) - 1
      BY <1>3, HeadTailProperties DEF LaneInOrder, Draining
<1>6. busy' => ran' # <<>>
  <2>1. busy' => Len(ran') >= 1
        BY <1>2, <1>5 DEF Draining
  <2>2. Len(<<>>) = 0
        OBVIOUS
  <2>3. QED BY <2>1, <2>2
<1>7. MarkedHasNewer'
  <2> SUFFICES ASSUME NEW x \in superseded'
               PROVE  \E i \in 1..Len(ran'), j \in 1..Len(lane') :
                        i < j /\ lane'[i].row = x /\ lane'[j].row = x
      BY DEF MarkedHasNewer
  <2>1. x \in superseded /\ x # r /\ r = lane[1].row
        BY <1>1, <1>3 DEF Draining
  <2>2. PICK i \in 1..Len(ran), j \in 1..Len(lane) :
               i < j /\ lane[i].row = x /\ lane[j].row = x
        BY <2>1 DEF LaneInOrder, MarkedHasNewer
  <2>3. /\ i - 1 \in 1..Len(ran') /\ i - 1 \in 1..(Len(lane) - 1)
        /\ j - 1 \in 1..Len(lane') /\ i - 1 < j - 1
        BY <1>2, <1>4, <1>5, <2>1, <2>2
  <2>4. lane'[i - 1].row = x /\ lane'[j - 1].row = x
    <3>1. \A k \in Int : (k - 1) + 1 = k
          OBVIOUS
    <3>2. i \in Int /\ j \in Int /\ j - 1 \in 1..(Len(lane) - 1)
          BY <1>2, <1>4, <2>2, <2>3
    <3>3. lane'[i - 1].row = lane[(i - 1) + 1].row /\ lane'[j - 1].row = lane[(j - 1) + 1].row
          BY <1>4, <2>3, <3>2
    <3>4. QED BY <2>2, <3>1, <3>2, <3>3
  <2>5. QED BY <2>3, <2>4
<1>8. QED BY <1>4, <1>5, <1>6, <1>7 DEF LaneInOrder

\* A sequence that loses its i-th element.
LEMMA DequeuedFacts ==
  ASSUME NEW f, NEW s, RecordsWith(f, s), NEW i \in 1..Len(s)
  PROVE  /\ RecordsWith(f, Dequeued(s, i))
         /\ Len(Dequeued(s, i)) = Len(s) - 1
         /\ \A k \in 1..(i - 1) : Dequeued(s, i)[k] = s[k]
         /\ \A k \in (i + 1)..Len(s) : Dequeued(s, i)[k - 1] = s[k]
<1> DEFINE left  == SubSeq(s, 1, i - 1)
           right == SubSeq(s, i + 1, Len(s))
<1>1. PICK S : s \in Seq(S) /\ \A x \in S : f \in DOMAIN x
      BY DEF RecordsWith
<1>2. Len(s) \in Nat /\ \A k \in 1..Len(s) : s[k] \in S
      BY <1>1, LenProperties, ElementOfSeq
<1>3. /\ left \in Seq(S) /\ Len(left) = i - 1
      /\ \A k \in 1..(i - 1) : left[k] = s[k]
  <2>1. \A k \in 1..(i - 1) : s[k] \in S
        BY <1>2
  <2>2. 1 \in Int /\ i - 1 \in Int
        BY <1>2
  <2>3. QED BY <1>2, <2>1, <2>2, SubSeqProperties
<1>4. /\ right \in Seq(S) /\ Len(right) = Len(s) - i
      /\ \A k \in 1..(Len(s) - i) : right[k] = s[i + k]
  <2>1. \A k \in (i + 1)..Len(s) : s[k] \in S
        BY <1>2
  <2>2. i + 1 \in Int /\ Len(s) \in Int
        BY <1>2
  <2>3. QED BY <1>2, <2>1, <2>2, SubSeqProperties
<1>5. /\ left \o right \in Seq(S)
      /\ Len(left \o right) = Len(s) - 1
      /\ \A k \in 1..(Len(s) - 1) : (left \o right)[k] =
             IF k <= i - 1 THEN left[k] ELSE right[k - (i - 1)]
  <2> HIDE DEF left, right
  <2>1. /\ left \o right \in Seq(S)
        /\ Len(left \o right) = Len(left) + Len(right)
        /\ \A k \in 1..(Len(left) + Len(right)) : (left \o right)[k] =
               IF k <= Len(left) THEN left[k] ELSE right[k - Len(left)]
        BY <1>3, <1>4, ConcatProperties
  <2>2. Len(left) + Len(right) = Len(s) - 1
        BY <1>2, <1>3, <1>4
  <2>3. QED BY <1>3, <2>1, <2>2
<1>6. Dequeued(s, i) = left \o right
      BY DEF Dequeued
<1>7. RecordsWith(f, Dequeued(s, i))
      BY <1>1, <1>5, <1>6 DEF RecordsWith
<1>8. ASSUME NEW k \in 1..(i - 1) PROVE Dequeued(s, i)[k] = s[k]
  <2> HIDE DEF left, right
  <2>1. k \in 1..(Len(s) - 1) /\ k <= i - 1
        BY <1>2
  <2>2. (left \o right)[k] = left[k]
        BY <1>5, <2>1
  <2>3. left[k] = s[k]
        BY <1>3
  <2>4. QED BY <1>6, <2>2, <2>3
<1>9. ASSUME NEW k \in (i + 1)..Len(s) PROVE Dequeued(s, i)[k - 1] = s[k]
  <2> HIDE DEF left, right
  <2>1. k - 1 \in 1..(Len(s) - 1) /\ ~(k - 1 <= i - 1) /\ (k - 1) - (i - 1) = k - i
        BY <1>2
  <2>2. (left \o right)[k - 1] = right[k - i]
        BY <1>5, <2>1
  <2>3. k - i \in 1..(Len(s) - i) /\ i + (k - i) = k
        BY <1>2
  <2>4. right[k - i] = s[i + (k - i)]
        BY <1>4, <2>3
  <2>5. QED BY <1>6, <2>2, <2>3, <2>4
<1>10. QED BY <1>5, <1>6, <1>7, <1>8, <1>9

\* A submit: refused, or the queued handle of its row gives way to a new one.
LEMMA SubmitKeepsOrder ==
  ASSUME LaneInOrder, NEW p, NEW r, NEW stamps, SubmitToolpath(p, r, stamps)
  PROVE  LaneInOrder' /\ Submit(r)
<1> DEFINE n      == Len(ran)
           queued == {i \in (n + 1)..Len(lane) : lane[i].row = r}
           kept   == IF queued = {} THEN lane ELSE Dequeued(lane, CHOOSE i \in queued : TRUE)
           hits   == busy /\ lane[n].row = r
           handle == [row |-> r, live |-> TRUE, answer |-> Generated(r)]
<1>1. CASE ~CanStart(r) /\ Forget(r, lane) /\ UNCHANGED <<ran, busy, superseded>>
  <2>1. RecordsWith("row", lane') /\ SameRows(lane, lane')
        BY <1>1, CommandKeepsRows DEF Forget, LaneInOrder
  <2>2. LaneInOrder'
        BY <1>1, <2>1, LaneFacts, SameRowsKeepOrder DEF LaneInOrder
  <2>3. QED BY <1>1, <2>2 DEF Submit
<1>2. CASE /\ CanStart(r)
           /\ Len(kept) < MaxLane
           /\ lane' = Append(kept, handle)
           /\ ran' = IF hits THEN [ran EXCEPT ![n] = TRUE] ELSE ran
           /\ superseded' = IF hits THEN superseded \cup {r} ELSE superseded
           /\ result' = [result EXCEPT ![r] = None]
           /\ UNCHANGED <<project, sim, stamp, runs, edits, busy>>
  <2>1. /\ Len(lane) \in Nat /\ DOMAIN lane = 1..Len(lane) /\ n \in Nat /\ n <= Len(lane)
        /\ busy => n >= 1
        BY LaneFacts DEF LaneInOrder
  <2>2. /\ kept \in {lane} \cup {Dequeued(lane, i) : i \in {j \in DOMAIN lane : lane[j].row = r}}
        /\ RecordsWith("row", kept)
        /\ Len(kept) \in Nat /\ n <= Len(kept)
        /\ \A i \in 1..n : kept[i] = lane[i]
        /\ \A j \in 1..Len(lane) : lane[j].row # r =>
              \E k \in 1..Len(kept) : kept[k] = lane[j] /\ (j <= n => k = j) /\ (n < j => n < k)
    <3>1. CASE queued = {}
          BY <2>1, <3>1 DEF LaneInOrder
    <3>2. CASE queued # {}
      <4> DEFINE i == CHOOSE i \in queued : TRUE
      <4>1. i \in (n + 1)..Len(lane) /\ lane[i].row = r
            BY <3>2
      <4>2. kept = Dequeued(lane, i)
            BY <3>2
      <4> HIDE DEF i, kept, queued, n
      <4>3. i \in 1..Len(lane)
            BY <2>1, <4>1
      <4>4. /\ RecordsWith("row", kept)
            /\ Len(kept) = Len(lane) - 1
            /\ \A k \in 1..(i - 1) : kept[k] = lane[k]
            /\ \A k \in (i + 1)..Len(lane) : kept[k - 1] = lane[k]
            BY <4>2, <4>3, DequeuedFacts DEF LaneInOrder
      <4>5. Len(kept) \in Nat /\ n <= Len(kept) /\ \A k \in 1..n : k \in 1..(i - 1)
            BY <2>1, <4>1, <4>3, <4>4
      <4>6. ASSUME NEW j \in 1..Len(lane), lane[j].row # r
            PROVE  \E k \in 1..Len(kept) :
                     kept[k] = lane[j] /\ (j <= n => k = j) /\ (n < j => n < k)
        <5>1. CASE j < i
              BY <2>1, <4>1, <4>4, <5>1
        <5>2. CASE j > i
          <6>1. j \in (i + 1)..Len(lane) /\ j - 1 \in 1..Len(kept) /\ ~(j <= n) /\ n < j - 1
                BY <2>1, <4>1, <4>3, <4>4, <5>2
          <6>2. kept[j - 1] = lane[j]
                BY <4>4, <6>1
          <6>3. QED BY <6>1, <6>2
        <5>3. QED BY <4>1, <4>3, <4>6, <5>1, <5>2
      <4>7. QED BY <2>1, <4>1, <4>2, <4>3, <4>4, <4>5, <4>6
    <3>3. QED BY <3>1, <3>2
  <2>3. Submit(r)
        BY <1>2, <2>2 DEF Submit
  <2> HIDE DEF kept, handle, queued
  <2>4. PICK S : kept \in Seq(S) /\ \A x \in S : "row" \in DOMAIN x
        BY <2>2 DEF RecordsWith
  <2>5. handle.row = r /\ "row" \in DOMAIN handle
        BY DEF handle
  <2>6. /\ lane' \in Seq(S \cup {handle})
        /\ Len(lane') = Len(kept) + 1
        /\ \A i \in 1..Len(kept) : lane'[i] = kept[i]
        /\ lane'[Len(kept) + 1] = handle
    <3>1. kept \in Seq(S \cup {handle})
          BY <2>4, SeqMonotonic
    <3>2. QED BY <1>2, <3>1, AppendProperties
  <2>7. RecordsWith("row", lane')
        BY <2>4, <2>5, <2>6 DEF RecordsWith
  <2>8. ran' \in Seq(BOOLEAN) /\ Len(ran') = n
    <3>1. ran \in Seq(BOOLEAN)
          BY DEF LaneInOrder
    <3>2. CASE hits
      <4>1. n \in 1..Len(ran)
            BY <2>1, <3>2
      <4>2. QED BY <1>2, <3>1, <3>2, <4>1, ExceptSeq
    <3>3. CASE ~hits
          BY <1>2, <3>1, <3>3
    <3>4. QED BY <3>2, <3>3
  <2>9. busy' => ran' # <<>>
    <3>1. busy' => Len(ran') >= 1
          BY <1>2, <2>1, <2>8
    <3>2. Len(<<>>) = 0
          OBVIOUS
    <3>3. QED BY <3>1, <3>2
  <2>10. MarkedHasNewer'
    <3> SUFFICES ASSUME NEW x \in superseded'
                 PROVE  \E i \in 1..Len(ran'), j \in 1..Len(lane') :
                          i < j /\ lane'[i].row = x /\ lane'[j].row = x
        BY DEF MarkedHasNewer
    <3>1. ASSUME NEW i \in 1..n, lane[i].row = r, x = r
          PROVE  /\ i \in 1..Len(ran') /\ Len(kept) + 1 \in 1..Len(lane')
                 /\ i < Len(kept) + 1
                 /\ lane'[i].row = x /\ lane'[Len(kept) + 1].row = x
          BY <2>1, <2>2, <2>5, <2>6, <2>8, <3>1
    <3>2. CASE x \in superseded
      <4>1. PICK i \in 1..n, j \in 1..Len(lane) :
                   i < j /\ lane[i].row = x /\ lane[j].row = x
            BY <3>2 DEF LaneInOrder, MarkedHasNewer
      <4>2. CASE x = r
            BY <3>1, <4>1, <4>2
      <4>3. CASE x # r
        <5>1. PICK k \in 1..Len(kept) :
                     kept[k] = lane[j] /\ (j <= n => k = j) /\ (n < j => n < k)
              BY <2>2, <4>1, <4>3
        <5>2. i < k /\ i \in 1..Len(kept) /\ i \in 1..Len(ran') /\ k \in 1..Len(lane')
              BY <2>1, <2>2, <2>6, <2>8, <4>1, <5>1
        <5>3. lane'[i].row = x /\ lane'[k].row = x
              BY <2>2, <2>6, <4>1, <5>1, <5>2
        <5>4. QED BY <5>2, <5>3
      <4>4. QED BY <4>2, <4>3
    <3>3. CASE x \notin superseded
      <4>1. x = r /\ busy /\ lane[n].row = r
            BY <1>2, <3>3
      <4>2. n \in 1..n
            BY <2>1, <4>1
      <4>3. QED BY <3>1, <4>1, <4>2
    <3>4. QED BY <3>2, <3>3
  <2>11. Len(ran') <= Len(lane')
        BY <2>1, <2>2, <2>6, <2>8
  <2>12. QED BY <2>3, <2>7, <2>8, <2>9, <2>10, <2>11 DEF LaneInOrder
<1>3. QED BY <1>1, <1>2 DEF SubmitToolpath

-----------------------------------------------------------------------------
(* Every step of the driver is a step of the session, or none.             *)

\* A drained answer is adopted, forgotten, or the Cancelled of a marked run,
\* which has a newer handle of its row behind it.
LEMMA DrainIsLanding ==
  ASSUME LaneInOrder, Drain
  PROVE  LaneInOrder' /\ (LandOk \/ LandErr)
<1>1. PICK r \in Rows : DrainOk(r) \/ DrainError(r) \/ DrainCancelled(r) \/ DrainRemoved(r)
      BY DEF Drain
<1>2. PICK S : lane \in Seq(S) /\ \A x \in S : "row" \in DOMAIN x
      BY DEF LaneInOrder, RecordsWith
<1>3. Draining(r)
      BY <1>1 DEF DrainOk, DrainError, DrainCancelled, DrainRemoved
<1>4. Len(lane) \in Nat /\ Len(lane) >= 1 /\ lane # <<>>
      BY <1>3, LaneFacts DEF LaneInOrder, Draining
<1>5. RecordsWith("row", Tail(lane)) /\ SameRows(Tail(lane), Tail(lane))
  <2>1. Tail(lane) \in Seq(S)
        BY <1>2, <1>4, HeadTailProperties
  <2>2. QED BY <1>2, <2>1 DEF RecordsWith, SameRows
<1>6. ASSUME NEW res, NEW out, Command(project, res, out, Tail(lane))
      PROVE  LaneInOrder'
      BY <1>3, <1>5, <1>6, CommandKeepsRows, DrainKeepsOrder
<1>7. ASSUME lane' = Tail(lane)
      PROVE  LaneInOrder'
      BY <1>3, <1>5, <1>7, DrainKeepsOrder
<1>8. CASE DrainOk(r)
  <2>1. LandOk
        BY <1>8 DEF DrainOk
  <2>2. LaneInOrder'
        BY <1>6, <1>7, <2>1 DEF LandOk
  <2>3. QED BY <2>1, <2>2
<1>9. ASSUME r \in Present(project), Forget(r, Tail(lane))
      PROVE  LaneInOrder' /\ LandErr
  <2>1. LandErr
        BY <1>3, <1>4, <1>9 DEF LandErr, Draining
  <2>2. LaneInOrder'
        BY <1>6, <1>9 DEF Forget
  <2>3. QED BY <2>1, <2>2
<1>10. CASE DrainError(r)
       BY <1>9, <1>10 DEF DrainError
<1>11. CASE DrainCancelled(r)
  <2>1. CASE r \notin superseded
        BY <1>9, <1>11, <2>1 DEF DrainCancelled
  <2>2. CASE r \in superseded
    <3>1. /\ lane' = Tail(lane)
          /\ UNCHANGED <<project, result, sim, stamp, runs, edits>>
          BY <1>11, <2>2 DEF DrainCancelled
    <3>2. PICK i \in 1..Len(ran), j \in 1..Len(lane) :
                 i < j /\ lane[i].row = r /\ lane[j].row = r
          BY <2>2 DEF LaneInOrder, MarkedHasNewer
    <3>3. j \in 2..Len(lane) /\ Head(lane).row = r
          BY <1>3, <1>4, <3>2, LaneFacts DEF Draining
    <3>4. LandErr
          BY <1>4, <3>1, <3>2, <3>3 DEF LandErr
    <3>5. QED BY <1>7, <3>1, <3>4
  <2>3. QED BY <2>1, <2>2
<1>12. CASE DrainRemoved(r)
  <2>1. LandErr
        BY <1>3, <1>4, <1>12 DEF LandErr, DrainRemoved, Draining
  <2>2. QED BY <1>7, <1>12, <2>1 DEF DrainRemoved
<1>13. QED BY <1>1, <1>8, <1>10, <1>11, <1>12

\* Steps that leave the lane as it is.
LEMMA LaneStaysInOrder ==
  ASSUME LaneInOrder, UNCHANGED <<lane, ran, busy, superseded>>
  PROVE  LaneInOrder'
BY DEF LaneInOrder, MarkedHasNewer

\* A flag for the active job moves nothing else.
LEMMA FlagKeepsOrder ==
  ASSUME LaneInOrder, ran' = FlagActive, UNCHANGED <<lane, busy, superseded>>
  PROVE  LaneInOrder'
<1>1. ran' \in Seq(BOOLEAN) /\ Len(ran') = Len(ran)
  <2>1. CASE busy
    <3>1. Len(ran) \in 1..Len(ran)
          BY <2>1, LaneFacts
    <3>2. QED BY <2>1, <3>1, ExceptSeq DEF LaneInOrder, FlagActive
  <2>2. CASE ~busy
        BY <2>2 DEF LaneInOrder, FlagActive
  <2>3. QED BY <2>1, <2>2
<1>2. busy' => ran' # <<>>
  <2>1. busy' => Len(ran') >= 1
        BY <1>1, LaneFacts
  <2>2. Len(<<>>) = 0
        OBVIOUS
  <2>3. QED BY <2>1, <2>2
<1>3. QED BY <1>1, <1>2 DEF LaneInOrder, MarkedHasNewer

LEMMA TakeKeepsOrder ==
  ASSUME LaneInOrder, Take
  PROVE  LaneInOrder'
<1>1. ran' \in Seq(BOOLEAN) /\ Len(ran') = Len(ran) + 1 /\ ran' # <<>>
  <2>1. PICK flag \in BOOLEAN : ran \in Seq(BOOLEAN) /\ ran' = Append(ran, flag)
        BY DEF Take, LaneInOrder
  <2>2. QED BY <2>1, AppendProperties
<1>2. UNCHANGED <<lane, superseded>> /\ Len(ran) < Len(lane)
      BY DEF Take, sessionVars, vars
<1>3. RecordsWith("row", lane') /\ SameRows(lane, lane')
      BY <1>2 DEF LaneInOrder, SameRows
<1>4. Len(ran') >= Len(ran) /\ Len(ran') <= Len(lane)
      BY <1>1, <1>2, LaneFacts
<1>5. QED BY <1>1, <1>2, <1>3, <1>4, SameRowsKeepOrder

LEMMA PumpSteps ==
  ASSUME LaneInOrder, Pump
  PROVE  LaneInOrder' /\ [Next]_vars
<1>1. CASE PumpWaits \/ FinishPlan
      BY <1>1, LaneStaysInOrder DEF PumpWaits, FinishPlan, driverVars, sessionVars, vars
<1>2. CASE PumpSubmits
  <2> DEFINE p == [plan EXCEPT !.inFlight = TRUE]
  <2>1. CASE GenerateStep(p)
    <3>1. CASE SubmitToolpath(p, Current(p).of, stale) /\ Current(p).of \in Present(project)
          BY <3>1, SubmitKeepsOrder DEF Next
    <3>2. CASE UNCHANGED <<ran, busy, superseded, stale, waiters, sessionVars>>
          BY <3>2, LaneStaysInOrder DEF sessionVars, vars
    <3>3. QED BY <2>1, <3>1, <3>2 DEF GenerateStep
  <2>2. CASE SimulateStep(p)
    <3>1. UNCHANGED sessionVars \/ \E s \in Setups : SubmitSimulation(s)
          BY <2>2 DEF SimulateStep
    <3>2. [Next]_vars
          BY <3>1 DEF Next, sessionVars
    <3>3. UNCHANGED <<lane, ran, busy, superseded>>
          BY <2>2, <3>1 DEF SimulateStep, SubmitSimulation, sessionVars, vars
    <3>4. QED BY <3>2, <3>3, LaneStaysInOrder
  <2>3. QED BY <1>2, <2>1, <2>2 DEF PumpSubmits
<1>3. QED BY <1>1, <1>2 DEF Pump

\* A simulation is answered, submitted or lost beside the lane.
LEMMA SimulationSteps ==
  ASSUME LaneInOrder, DrainSimulation \/ RunSimulation \/ AnalysisFalls
  PROVE  LaneInOrder' /\ [Next]_vars
<1>1. UNCHANGED <<ran, busy, superseded>>
      BY DEF DrainSimulation, RunSimulation, AnalysisFalls
<1>2. \/ LandSimulation \/ LoseSimulation \/ VanishSimulation
      \/ SubmitSimulation(NumSetups)
      BY DEF DrainSimulation, RunSimulation, AnalysisFalls
<1>3. [Next]_vars
      BY <1>2, SetupsAssumption DEF Next, Setups
<1>4. UNCHANGED lane \/ Command(project, result, {}, lane)
      BY <1>2 DEF LandSimulation, LoseSimulation, VanishSimulation, SubmitSimulation
<1>5. CASE UNCHANGED lane
      BY <1>1, <1>3, <1>5, LaneStaysInOrder
<1>6. CASE Command(project, result, {}, lane)
  <2>1. RecordsWith("row", lane') /\ SameRows(lane, lane')
        BY <1>6, CommandKeepsRows DEF LaneInOrder
  <2>2. LaneInOrder'
        BY <1>1, <2>1, LaneFacts, SameRowsKeepOrder DEF LaneInOrder
  <2>3. QED BY <1>3, <2>2
<1>7. QED BY <1>4, <1>5, <1>6

LEMMA EditSteps ==
  ASSUME LaneInOrder, EditProject
  PROVE  LaneInOrder' /\ [Next]_vars
<1>1. RecordsWith("row", lane') /\ SameRows(lane, lane')
      BY EditKeepsRows DEF EditProject, LaneInOrder
<1>2. LaneInOrder'
      BY <1>1, LaneFacts, SameRowsKeepOrder DEF EditProject, LaneInOrder
<1>3. QED BY <1>2 DEF EditProject, Next

\* Plans and cancels touch the session only through the pump.
LEMMA OperatorSteps ==
  ASSUME LaneInOrder,
         \/ GenerateAll \/ GenerateAllOnce \/ CancelPlan \/ CancelGeneration
         \/ \E s \in Setups : GenerateSetupOnly(s)
         \/ \E r \in Rows : GenerateToolpath(r)
  PROVE  LaneInOrder' /\ [Next]_vars
<1>1. UNCHANGED vars /\ UNCHANGED <<busy, superseded>> /\ (ran' = ran \/ ran' = FlagActive)
      BY DEF GenerateAll, GenerateAllOnce, GenerateSetupOnly, GenerateToolpath, StartPlan,
             CancelPlan, CancelGeneration, sessionVars
<1>2. UNCHANGED lane
      BY <1>1 DEF vars
<1>3. QED BY <1>1, <1>2, LaneStaysInOrder, FlagKeepsOrder

LEMMA PlanStep ==
  ASSUME LaneInOrder, [PlanNext]_planVars
  PROVE  LaneInOrder' /\ [Next]_vars
<1>1. CASE Pump
      BY <1>1, PumpSteps
<1>2. CASE Take
      BY <1>2, TakeKeepsOrder DEF Take, sessionVars
<1>3. CASE Finish
  <2>1. UNCHANGED <<lane, ran, superseded>> /\ ~busy' /\ UNCHANGED vars
        BY <1>3 DEF Finish, sessionVars, vars
  <2>2. QED BY <2>1 DEF LaneInOrder, MarkedHasNewer
<1>4. CASE Drain
      BY <1>4, DrainIsLanding DEF Next
<1>5. CASE DrainSimulation \/ RunSimulation \/ AnalysisFalls
      BY <1>5, SimulationSteps
<1>6. CASE \/ GenerateAll \/ GenerateAllOnce \/ CancelPlan \/ CancelGeneration
           \/ \E s \in Setups : GenerateSetupOnly(s)
           \/ \E r \in Rows : GenerateToolpath(r)
      BY <1>6, OperatorSteps
<1>7. CASE \E r \in Rows : AutoRegen(r)
      BY <1>7, SubmitKeepsOrder DEF AutoRegen, Next
<1>8. CASE EditProject
      BY <1>8, EditSteps
<1>9. CASE UNCHANGED planVars
      BY <1>9, LaneStaysInOrder DEF planVars, driverVars, sessionVars, vars
<1>10. QED BY <1>1, <1>2, <1>3, <1>4, <1>5, <1>6, <1>7, <1>8, <1>9 DEF PlanNext

\* Driver, lane, drain, sweep and cancels together do only what SessionResults
\* allows, for any project and any number of plans: each answer reaches the
\* core once, in order, and only one that a newer handle of its row replaces
\* is passed over.
THEOREM DriverStaysInSession == PlanSpec => StaysInSession
<1>1. PlanInit => Init /\ LaneInOrder
      BY EmptyRecords, EmptySeq DEF PlanInit, Init, LaneInOrder, MarkedHasNewer
<1>2. LaneInOrder /\ [PlanNext]_planVars => LaneInOrder' /\ [Next]_vars
      BY PlanStep
<1>3. QED BY <1>1, <1>2, PTL DEF PlanSpec, StaysInSession, Spec

-----------------------------------------------------------------------------
(* The pump.                                                               *)

Fields == {"outcomes", "cursor", "inFlight", "pumping", "cancelled", "edited", "generated", "stuck"}

\* A plan that is not pumped waits for a step, and one that is pumped with a
\* step in flight is not halted.
Settled(p) ==
  p # None => /\ Fields \subseteq DOMAIN p
              /\ p.pumping \/ p.inFlight
              /\ p.pumping /\ p.inFlight => ~Halted(p)

\* Closing a step hands the plan to the pump with nothing in flight.
LEMMA ClosedIsSettled ==
  ASSUME NEW p, Fields \subseteq DOMAIN p, NEW outcome
  PROVE  Settled(Closed(p, outcome))
BY DEF Settled, Closed, Fields

LEMMA LandedIsSettled ==
  ASSUME NEW p, Settled(p), NEW r, NEW outcome
  PROVE  Settled(Completed(p, r, outcome)) /\ Settled(Simulated(p, outcome))
<1>1. CASE p = None
      BY <1>1 DEF Completed, Simulated, Settled
<1>2. CASE p # None
  <2>1. Fields \subseteq DOMAIN p
        BY <1>2 DEF Settled
  <2>2. Completed(p, r, outcome) = p \/
        \E q, o : Fields \subseteq DOMAIN q /\ Completed(p, r, outcome) = Closed(q, o)
        BY <2>1 DEF Completed
  <2>3. Simulated(p, outcome) = p \/
        \E q, o : Fields \subseteq DOMAIN q /\ Simulated(p, outcome) = Closed(q, o)
        BY <2>1 DEF Simulated
  <2>4. QED BY <2>2, <2>3, ClosedIsSettled
<1>3. QED BY <1>1, <1>2

LEMMA PumpSettles ==
  ASSUME Settled(plan), Pump
  PROVE  Settled(plan')
<1>1. plan # None /\ plan.pumping /\ Fields \subseteq DOMAIN plan
      BY DEF Pump, PumpWaits, PumpSubmits, FinishPlan, Pumping, Settled
<1>2. CASE PumpWaits
      BY <1>1, <1>2 DEF PumpWaits, Settled, Fields, Halted
<1>3. CASE FinishPlan
      BY <1>3 DEF FinishPlan, Settled
<1>4. CASE PumpSubmits
  <2> DEFINE p == [plan EXCEPT !.inFlight = TRUE]
  <2>1. Settled(p) /\ Fields \subseteq DOMAIN p
        BY <1>1, <1>4 DEF PumpSubmits, Settled, Fields, Halted
  <2> HIDE DEF p
  <2>2. \/ plan' = p \/ plan' = Closed(p, "skipped")
        \/ \E r, outcome : plan' = Completed(p, r, outcome)
        BY <1>4 DEF PumpSubmits, GenerateStep, SimulateStep, SubmitToolpath, Landed, p
  <2>3. QED BY <2>1, <2>2, ClosedIsSettled, LandedIsSettled
<1>5. QED BY <1>2, <1>3, <1>4 DEF Pump

LEMMA SettledStep ==
  ASSUME Settled(plan), [PlanNext]_planVars
  PROVE  Settled(plan')
<1>1. CASE Pump
      BY <1>1, PumpSettles
<1>2. CASE Drain
  <2>1. plan' = plan \/ \E r, outcome : plan' = Completed(plan, r, outcome)
        BY <1>2 DEF Drain, DrainOk, DrainError, DrainCancelled, DrainRemoved, Landed
  <2>2. QED BY <2>1, LandedIsSettled
<1>3. CASE DrainSimulation
  <2>1. \E outcome : plan' = Simulated(plan, outcome)
        BY <1>3 DEF DrainSimulation
  <2>2. QED BY <2>1, LandedIsSettled
<1>4. ASSUME NEW steps, NEW target, StartPlan(steps, target)
      PROVE  Settled(plan')
      BY <1>4 DEF StartPlan, NewPlan, Settled, Fields, Halted
<1>5. CASE \/ GenerateAll \/ GenerateAllOnce \/ \E s \in Setups : GenerateSetupOnly(s)
           \/ \E r \in Rows : GenerateToolpath(r)
      BY <1>4, <1>5 DEF GenerateAll, GenerateAllOnce, GenerateSetupOnly, GenerateToolpath
<1>6. CASE \E r \in Rows : AutoRegen(r)
  <2>1. plan' = None \/ \E r, outcome : plan' = Completed(None, r, outcome)
        BY <1>6 DEF AutoRegen, SubmitToolpath, Landed
  <2>2. QED BY <2>1 DEF Completed, Settled
<1>7. CASE CancelPlan
      BY <1>7 DEF CancelPlan, Free, Pumping, Settled, Fields, Halted
<1>8. CASE EditProject
      BY <1>8 DEF EditProject, Free, Pumping, Settled, Fields, Halted
<1>9. CASE \/ Take \/ Finish \/ CancelGeneration \/ RunSimulation \/ AnalysisFalls
           \/ UNCHANGED planVars
      BY <1>9 DEF Take, Finish, CancelGeneration, RunSimulation, AnalysisFalls, planVars
<1>10. QED BY <1>1, <1>2, <1>3, <1>5, <1>6, <1>7, <1>8, <1>9 DEF PlanNext

\* No cancel and no edit ever finds the pump with a step in flight: a halted
\* plan lets its step land first, so the lanes are never cancelled from there.
THEOREM StepAlwaysLandsFirst == PlanSpec => []StepLandsFirst
<1>1. PlanInit => Settled(plan)
      BY DEF PlanInit, Settled
<1>2. Settled(plan) /\ [PlanNext]_planVars => Settled(plan)'
      BY SettledStep
<1>3. Settled(plan) => StepLandsFirst
      BY DEF Settled, StepLandsFirst
<1>4. QED BY <1>1, <1>2, <1>3, PTL DEF PlanSpec

-----------------------------------------------------------------------------
(* Recursion along a list: each value is made of the one before.           *)

Iterates(n, a, G, f) == f = [i \in 0..n |-> IF i = 0 THEN a ELSE G[i][f[i - 1]]]

LEMMA LeastNatural ==
  ASSUME NEW T \in SUBSET Nat, T # {}
  PROVE  \E m \in T : \A k \in T : m <= k
<1>1. PICK m \in T : \A k \in T : <<k, m>> \notin OpToRel(<, Nat)
      BY NatLessThanWellFounded, WFMin, Zenon
<1>2. \A k \in T : ~(k < m)
      BY <1>1, Zenon DEF OpToRel
<1>3. QED BY <1>2

\* What holds of the first value and carries over every step holds of all.
LEMMA StepsKeepEach ==
  ASSUME NEW n \in Nat, NEW V, NEW f, f[0] \in V[0],
         \A i \in 1..n : f[i - 1] \in V[i - 1] => f[i] \in V[i]
  PROVE  \A i \in 0..n : f[i] \in V[i]
<1> DEFINE T == {i \in 0..n : f[i] \notin V[i]}
<1>1. SUFFICES ASSUME T # {} PROVE FALSE
      OBVIOUS
<1>2. T \in SUBSET Nat
      OBVIOUS
<1>3. PICK m \in T : \A k \in T : m <= k
  <2> HIDE DEF T
  <2>1. QED BY <1>1, <1>2, LeastNatural
<1>4. m \in 1..n /\ m - 1 \in 0..n /\ f[m] \notin V[m]
      OBVIOUS
<1>5. f[m - 1] \in V[m - 1]
      BY <1>3, <1>4
<1>6. QED BY <1>4, <1>5

LEMMA StepsKeep ==
  ASSUME NEW n \in Nat, NEW S, NEW f, f[0] \in S,
         \A i \in 1..n : f[i - 1] \in S => f[i] \in S
  PROVE  \A i \in 0..n : f[i] \in S
<1> DEFINE V == [i \in 0..n |-> S]
<1>1. \A i \in 0..n : V[i] = S
      OBVIOUS
<1>2. 0 \in 0..n /\ \A i \in 1..n : i \in 0..n /\ i - 1 \in 0..n
      OBVIOUS
<1> HIDE DEF V
<1>3. QED BY <1>1, <1>2, StepsKeepEach

\* Such a function is there when its steps stay in a set.
LEMMA IterateExists ==
  ASSUME NEW n \in Nat, NEW S, NEW a \in S, NEW G,
         \A i \in 1..n : \A x \in S : G[i][x] \in S
  PROVE  \E f \in [0..n -> S] : Iterates(n, a, G, f)
<1> DEFINE T == {m \in 0..n : ~ \E f \in [0..m -> S] : Iterates(m, a, G, f)}
<1>1. SUFFICES ASSUME T # {} PROVE FALSE
      OBVIOUS
<1>2. T \in SUBSET Nat
      OBVIOUS
<1>3. PICK m \in T : \A k \in T : m <= k
  <2> HIDE DEF T
  <2>1. QED BY <1>1, <1>2, LeastNatural
<1>4. m \in 0..n /\ \A f \in [0..m -> S] : ~Iterates(m, a, G, f)
      OBVIOUS
<1>5. CASE m = 0
  <2> DEFINE f == [i \in 0..0 |-> a]
  <2>1. f \in [0..0 -> S] /\ Iterates(0, a, G, f)
        BY DEF Iterates
  <2>2. QED BY <1>4, <1>5, <2>1
<1>6. CASE m # 0
  <2>1. m - 1 \in 0..n /\ m - 1 \notin T
        BY <1>3, <1>4, <1>6
  <2>2. PICK g \in [0..(m - 1) -> S] : Iterates(m - 1, a, G, g)
        BY <2>1
  <2> DEFINE f == [i \in 0..m |-> IF i = m THEN G[m][g[m - 1]] ELSE g[i]]
  <2>3. \A i \in 0..(m - 1) : g[i] = IF i = 0 THEN a ELSE G[i][g[i - 1]]
        BY <2>2 DEF Iterates
  <2>4. f \in [0..m -> S]
    <3>1. G[m][g[m - 1]] \in S
          BY <1>4, <1>6, <2>2
    <3>2. \A i \in 0..m : i # m => g[i] \in S
          BY <1>4, <1>6, <2>2
    <3>3. QED BY <3>1, <3>2
  <2>5. \A i \in 0..m : f[i] = IF i = 0 THEN a ELSE G[i][f[i - 1]]
    <3>1. ASSUME NEW i \in 0..m PROVE f[i] = IF i = 0 THEN a ELSE G[i][f[i - 1]]
      <4>1. CASE i = m
            BY <1>4, <1>6, <4>1
      <4>2. CASE i # m
            BY <1>4, <2>3, <4>2
      <4>3. QED BY <4>1, <4>2
    <3>2. QED BY <3>1
  <2>6. Iterates(m, a, G, f)
    <3>1. f = [i \in 0..m |-> f[i]]
          OBVIOUS
    <3> HIDE DEF f
    <3>2. QED BY <2>5, <3>1 DEF Iterates
  <2> HIDE DEF f
  <2>7. QED BY <1>4, <2>4, <2>6
<1>7. QED BY <1>5, <1>6

\* Only goes along the list.
LEMMA OnlyIs ==
  ASSUME NEW S, NEW s \in Seq(S), NEW set
  PROVE  \E f : /\ f[0] = <<>> /\ Only(s, set) = f[Len(s)]
                /\ \A i \in 1..Len(s) :
                     f[i] = IF s[i] \in set THEN Append(f[i - 1], s[i]) ELSE f[i - 1]
<1> DEFINE U == Seq(S)
           step(i, x) == IF s[i] \in set THEN Append(x, s[i]) ELSE x
           G == [i \in 1..Len(s) |-> [x \in U |-> step(i, x)]]
<1>1. Len(s) \in Nat /\ \A i \in 1..Len(s) : s[i] \in S
      BY LenProperties, ElementOfSeq
<1>2. <<>> \in U
      BY EmptySeq
<1>3. ASSUME NEW i \in 1..Len(s), NEW x \in U PROVE step(i, x) \in U
      BY <1>1, <1>3, AppendProperties
<1> HIDE DEF U
<1>4. \A i \in 1..Len(s) : \A x \in U : G[i][x] \in U
      BY <1>3
<1>5. PICK g \in [0..Len(s) -> U] : Iterates(Len(s), <<>>, G, g)
  <2> HIDE DEF G
  <2>1. QED BY <1>1, <1>2, <1>4, IterateExists
<1>6. g = [i \in 0..Len(s) |-> IF i = 0 THEN <<>>
                               ELSE IF s[i] \in set THEN Append(g[i - 1], s[i]) ELSE g[i - 1]]
  <2>1. \A i \in 0..Len(s) : g[i] = IF i = 0 THEN <<>> ELSE G[i][g[i - 1]]
    <3> HIDE DEF G
    <3>1. QED BY <1>5 DEF Iterates
  <2>2. \A i \in 1..Len(s) : i - 1 \in 0..Len(s) /\ g[i - 1] \in U
        BY <1>1
  <2>3. \A i \in 1..Len(s) : G[i][g[i - 1]] = step(i, g[i - 1])
        BY <2>2
  <2>4. \A i \in 0..Len(s) : i # 0 => i \in 1..Len(s)
        BY <1>1
  <2>5. g = [i \in 0..Len(s) |-> g[i]]
        OBVIOUS
  <2> HIDE DEF G
  <2>6. QED BY <2>1, <2>3, <2>4, <2>5
<1>7. PICK f : /\ f = [i \in 0..Len(s) |->
                         IF i = 0 THEN <<>>
                         ELSE IF s[i] \in set THEN Append(f[i - 1], s[i]) ELSE f[i - 1]]
               /\ Only(s, set) = f[Len(s)]
      BY <1>6, Zenon DEF Only
<1>8. f[0] = <<>> /\ \A i \in 1..Len(s) : f[i] = step(i, f[i - 1])
  <2>1. 0 \in 0..Len(s) /\ \A i \in 1..Len(s) : i \in 0..Len(s) /\ i # 0
        BY <1>1
  <2>2. \A i \in 0..Len(s) : f[i] = IF i = 0 THEN <<>>
                        ELSE IF s[i] \in set THEN Append(f[i - 1], s[i]) ELSE f[i - 1]
        BY <1>7, Zenon
  <2>3. QED BY <2>1, <2>2
<1>9. QED BY <1>7, <1>8

\* Only keeps elements of the list that are in the set.
LEMMA OnlyKeeps ==
  ASSUME NEW S, NEW s \in Seq(S), NEW set
  PROVE  Only(s, set) \in Seq(S \cap set)
<1> DEFINE U == Seq(S \cap set)
<1>1. Len(s) \in Nat /\ \A i \in 1..Len(s) : s[i] \in S
      BY LenProperties, ElementOfSeq
<1>2. PICK f : /\ f[0] = <<>> /\ Only(s, set) = f[Len(s)]
               /\ \A i \in 1..Len(s) :
                    f[i] = IF s[i] \in set THEN Append(f[i - 1], s[i]) ELSE f[i - 1]
      BY OnlyIs
<1>3. ASSUME NEW i \in 1..Len(s), f[i - 1] \in U PROVE f[i] \in U
  <2>1. CASE s[i] \in set
    <3>1. f[i] = Append(f[i - 1], s[i]) /\ s[i] \in S \cap set
          BY <1>1, <1>2, <2>1
    <3>2. QED BY <1>3, <3>1, AppendProperties
  <2>2. CASE s[i] \notin set
        BY <1>2, <1>3, <2>2
  <2>3. QED BY <2>1, <2>2
<1>4. f[0] \in U
      BY <1>2, EmptySeq
<1>5. \A i \in 0..Len(s) : f[i] \in U
  <2> HIDE DEF U
  <2>1. QED BY <1>1, <1>3, <1>4, StepsKeep
<1>6. QED BY <1>1, <1>2, <1>5

LEMMA OrderLists ==
  ASSUME ProjectOK(project), NEW s \in 1..NumSetups
  PROVE  project.order[s] \in Seq(Present(project))
<1>1. s \in Setups
      BY DEF Setups
<1>2. project.order[s] \in Seq(Rows)
      BY <1>1 DEF ProjectOK, Project
<1>3. \A i \in 1..Len(project.order[s]) : project.order[s][i] \in Present(project)
      BY <1>1, <1>2, LenProperties DEF Present, Range
<1>4. QED BY <1>2, <1>3, LenProperties

\* The rows of the project, setup by setup.
LEMMA CutOrderIs ==
  ASSUME ProjectOK(project)
  PROVE  \E f : /\ f[0] = <<>> /\ CutOrder = f[NumSetups]
                /\ \A s \in 1..NumSetups : f[s] = f[s - 1] \o project.order[s]
<1> DEFINE U == Seq(Present(project))
           G == [s \in 1..NumSetups |-> [x \in U |-> x \o project.order[s]]]
<1>1. NumSetups \in Nat /\ Setups = 1..NumSetups
      BY SetupsAssumption DEF Setups
<1>2. ASSUME NEW s \in 1..NumSetups PROVE project.order[s] \in U
      BY OrderLists
<1>3. <<>> \in U
      BY EmptySeq
<1>4. ASSUME NEW s \in 1..NumSetups, NEW x \in U PROVE x \o project.order[s] \in U
      BY <1>2, <1>4, ConcatProperties
<1> HIDE DEF U
<1>5. \A s \in 1..NumSetups : \A x \in U : G[s][x] \in U
      BY <1>4
<1>6. PICK g \in [0..NumSetups -> U] : Iterates(NumSetups, <<>>, G, g)
  <2> HIDE DEF G
  <2>1. QED BY <1>1, <1>3, <1>5, IterateExists
<1>7. g = [s \in 0..NumSetups |-> IF s = 0 THEN <<>> ELSE g[s - 1] \o project.order[s]]
  <2>1. \A s \in 0..NumSetups : g[s] = IF s = 0 THEN <<>> ELSE G[s][g[s - 1]]
    <3> HIDE DEF G
    <3>1. QED BY <1>6 DEF Iterates
  <2>2. \A s \in 1..NumSetups : s - 1 \in 0..NumSetups /\ g[s - 1] \in U
        BY <1>1
  <2>3. \A s \in 1..NumSetups : G[s][g[s - 1]] = g[s - 1] \o project.order[s]
        BY <2>2
  <2>4. \A s \in 0..NumSetups : s # 0 => s \in 1..NumSetups
        BY <1>1
  <2>5. g = [s \in 0..NumSetups |-> g[s]]
        OBVIOUS
  <2> HIDE DEF G
  <2>6. QED BY <2>1, <2>3, <2>4, <2>5
<1>8. PICK f : /\ f = [s \in 0..NumSetups |->
                         IF s = 0 THEN <<>> ELSE f[s - 1] \o project.order[s]]
               /\ CutOrder = f[NumSetups]
      BY <1>7, Zenon DEF CutOrder
<1>9. f[0] = <<>> /\ \A s \in 1..NumSetups : f[s] = f[s - 1] \o project.order[s]
  <2>1. 0 \in 0..NumSetups /\ \A s \in 1..NumSetups : s \in 0..NumSetups /\ s # 0
        BY <1>1
  <2>2. \A s \in 0..NumSetups :
          f[s] = IF s = 0 THEN <<>> ELSE f[s - 1] \o project.order[s]
        BY <1>8, Zenon
  <2>3. QED BY <2>1, <2>2
<1>10. QED BY <1>8, <1>9

LEMMA CutOrderLists ==
  ASSUME ProjectOK(project)
  PROVE  CutOrder \in Seq(Present(project))
<1> DEFINE U == Seq(Present(project))
<1>1. NumSetups \in Nat
      BY SetupsAssumption
<1>2. PICK f : /\ f[0] = <<>> /\ CutOrder = f[NumSetups]
               /\ \A s \in 1..NumSetups : f[s] = f[s - 1] \o project.order[s]
      BY CutOrderIs
<1>3. ASSUME NEW s \in 1..NumSetups, f[s - 1] \in U PROVE f[s] \in U
      BY <1>2, <1>3, OrderLists, ConcatProperties
<1>4. f[0] \in U
      BY <1>2, EmptySeq
<1>5. \A s \in 0..NumSetups : f[s] \in U
  <2> HIDE DEF U
  <2>1. QED BY <1>1, <1>3, <1>4, StepsKeep
<1>6. QED BY <1>1, <1>2, <1>5

-----------------------------------------------------------------------------
(* The steps of a plan.                                                    *)

PlanSteps == [kind : {"generate"}, of : Rows] \cup [kind : {"simulate", "simulateAll"}, of : Setups]

\* What the walk of StepsFor has after i rows.
Walks == [steps : Seq(PlanSteps), gains : SUBSET Rows, moved : BOOLEAN]

\* What it makes of w at row r, whose snapshot is current or not.
WalkedOn(w, r, current) ==
  LET rest == r \in project.rest
      simulate == rest /\ (w.moved \/ ~current)
      gains == \/ result[r] = None
               \/ rest /\ w.gains # {}
               \/ Sources(r) \cap w.gains # {}
  IN [steps |-> w.steps \o (IF simulate THEN SimulateBefore(r) ELSE <<>>) \o <<Generate(r)>>,
      gains |-> IF gains THEN w.gains \cup {r} ELSE w.gains,
      moved |-> gains \/ (w.moved /\ ~simulate)]

LEMMA WalkedOnIs ==
  ASSUME ProjectOK(project), NEW w \in Walks, NEW r \in Present(project), NEW current
  PROVE  WalkedOn(w, r, current) \in Walks
<1> DEFINE simulate == r \in project.rest /\ (w.moved \/ ~current)
           gains == \/ result[r] = None
                    \/ r \in project.rest /\ w.gains # {}
                    \/ Sources(r) \cap w.gains # {}
           before == IF simulate THEN SimulateBefore(r) ELSE <<>>
<1>1. SetupOf(project, r) \in Setups /\ r \in Rows
      BY Places DEF ProjectOK, Project
<1>2. Generate(r) \in PlanSteps /\ Simulate(SetupOf(project, r)) \in PlanSteps
      BY <1>1 DEF Generate, Simulate, PlanSteps
<1>3. before \in Seq(PlanSteps) /\ <<Generate(r)>> \in Seq(PlanSteps)
  <2> HIDE DEF simulate
  <2>1. <<>> \in Seq(PlanSteps)
        BY EmptySeq
  <2>2. QED BY <1>2, <2>1 DEF SimulateBefore
<1>4. w.steps \in Seq(PlanSteps) /\ w.gains \in SUBSET Rows /\ w.moved \in BOOLEAN
      BY DEF Walks
<1> HIDE DEF before, simulate, gains
<1>5. w.steps \o before \o <<Generate(r)>> \in Seq(PlanSteps)
      BY <1>3, <1>4, ConcatProperties
<1>6. (IF gains THEN w.gains \cup {r} ELSE w.gains) \in SUBSET Rows
      BY <1>1, <1>4
<1>7. (gains \/ (w.moved /\ ~simulate)) \in BOOLEAN
      BY Zenon
<1>8. [steps |-> w.steps \o before \o <<Generate(r)>>,
       gains |-> IF gains THEN w.gains \cup {r} ELSE w.gains,
       moved |-> gains \/ (w.moved /\ ~simulate)] \in Walks
      BY <1>5, <1>6, <1>7, Zenon DEF Walks
<1>9. QED BY <1>8, Zenon DEF WalkedOn, before, simulate, gains

ToDo(rows) == Only(CutOrder, rows \cap project.enabled)
Unplanned == [steps |-> <<>>, gains |-> {}, moved |-> FALSE]

\* StepsFor walks along the rows there are to do.
LEMMA StepsForIs ==
  ASSUME ProjectOK(project), NEW rows
  PROVE  \E f : /\ f[0] = Unplanned /\ StepsFor(rows) = f[Len(ToDo(rows))].steps
                /\ \A i \in 1..Len(ToDo(rows)) : \E current :
                     f[i] = WalkedOn(f[i - 1], ToDo(rows)[i], current)
                /\ \A i \in 0..Len(ToDo(rows)) : f[i] \in Walks
                /\ ToDo(rows) \in Seq(Present(project) \cap project.enabled)
<1> DEFINE todo == Only(CutOrder, rows \cap project.enabled)
           start == [steps |-> <<>>, gains |-> {}, moved |-> FALSE]
           step(i, w) == WalkedOn(w, todo[i], SnapshotIsCurrent(todo[i]))
           G == [i \in 1..Len(todo) |-> [w \in Walks |-> step(i, w)]]
<1>1. Len(todo) \in Nat /\ \A i \in 1..Len(todo) : todo[i] \in Present(project)
  <2>1. todo \in Seq(Present(project) \cap (rows \cap project.enabled))
        BY CutOrderLists, OnlyKeeps
  <2> HIDE DEF todo
  <2>2. QED BY <2>1, LenProperties, ElementOfSeq
<1> HIDE DEF todo
<1>2. start \in Walks
      BY EmptySeq DEF Walks
<1>3. ASSUME NEW i \in 1..Len(todo), NEW w \in Walks PROVE step(i, w) \in Walks
      BY <1>1, <1>3, WalkedOnIs
<1> HIDE DEF start
<1>4. \A i \in 1..Len(todo) : \A w \in Walks : G[i][w] \in Walks
      BY <1>3
<1>5. PICK g \in [0..Len(todo) -> Walks] : Iterates(Len(todo), start, G, g)
  <2> HIDE DEF G
  <2>1. QED BY <1>1, <1>2, <1>4, IterateExists
<1>6. g = [i \in 0..Len(todo) |-> IF i = 0 THEN start ELSE step(i, g[i - 1])]
  <2>1. \A i \in 0..Len(todo) : g[i] = IF i = 0 THEN start ELSE G[i][g[i - 1]]
    <3> HIDE DEF G
    <3>1. QED BY <1>5 DEF Iterates
  <2>2. \A i \in 1..Len(todo) : i - 1 \in 0..Len(todo) /\ g[i - 1] \in Walks
        BY <1>1
  <2>3. \A i \in 1..Len(todo) : G[i][g[i - 1]] = step(i, g[i - 1])
        BY <2>2
  <2>4. \A i \in 0..Len(todo) : i # 0 => i \in 1..Len(todo)
        BY <1>1
  <2>5. g = [i \in 0..Len(todo) |-> g[i]]
        OBVIOUS
  <2> HIDE DEF G
  <2>6. QED BY <2>1, <2>3, <2>4, <2>5
<1>7. PICK f : /\ f = [i \in 0..Len(todo) |-> IF i = 0 THEN start ELSE step(i, f[i - 1])]
               /\ StepsFor(rows) = f[Len(todo)].steps
      BY <1>6, ZenonT(120) DEF StepsFor, WalkedOn, start, todo
<1>8. f[0] = start /\ \A i \in 1..Len(todo) : f[i] = step(i, f[i - 1])
  <2> HIDE DEF step
  <2>1. 0 \in 0..Len(todo) /\ \A i \in 1..Len(todo) : i \in 0..Len(todo) /\ i # 0
        BY <1>1
  <2>2. \A i \in 0..Len(todo) : f[i] = IF i = 0 THEN start ELSE step(i, f[i - 1])
        BY <1>7, Zenon
  <2>3. QED BY <2>1, <2>2
<1>9. \A i \in 0..Len(todo) : f[i] \in Walks
  <2> HIDE DEF step
  <2>1. \A i \in 1..Len(todo) : f[i - 1] \in Walks => f[i] \in Walks
        BY <1>3, <1>8
  <2>2. f[0] \in Walks
        BY <1>2, <1>8
  <2>3. QED BY <1>1, <2>1, <2>2, StepsKeep
<1>10. \A i \in 1..Len(todo) : \E current : f[i] = WalkedOn(f[i - 1], todo[i], current)
       BY <1>8
<1>11. todo \in Seq(Present(project) \cap project.enabled)
  <2>1. Only(CutOrder, rows \cap project.enabled)
          \in Seq(Present(project) \cap (rows \cap project.enabled))
        BY CutOrderLists, OnlyKeeps
  <2>2. QED BY <2>1, SeqMonotonic DEF todo
<1>12. QED BY <1>7, <1>8, <1>9, <1>10, <1>11 DEF todo, start, ToDo, Unplanned

LEMMA StepsForLists ==
  ASSUME ProjectOK(project), NEW rows
  PROVE  StepsFor(rows) \in Seq(PlanSteps)
<1>1. PICK f : /\ StepsFor(rows) = f[Len(ToDo(rows))].steps
               /\ \A i \in 0..Len(ToDo(rows)) : f[i] \in Walks
               /\ ToDo(rows) \in Seq(Present(project) \cap project.enabled)
      BY StepsForIs
<1>2. Len(ToDo(rows)) \in Nat
      BY <1>1, LenProperties
<1>3. QED BY <1>1, <1>2 DEF Walks

LEMMA PlannedLists ==
  ASSUME ProjectOK(project), NEW rows
  PROVE  /\ WithClosing(StepsFor(rows)) \in Seq(PlanSteps)
         /\ OnlyGenerates(StepsFor(rows)) \in Seq(PlanSteps)
<1>1. StepsFor(rows) \in Seq(PlanSteps)
      BY StepsForLists
<1>2. SimulateAll \in PlanSteps
      BY SetupsAssumption DEF SimulateAll, PlanSteps, Setups
<1>3. WithClosing(StepsFor(rows)) \in Seq(PlanSteps)
      BY <1>1, <1>2, EmptySeq, AppendProperties DEF WithClosing
<1> DEFINE made == {Generate(r) : r \in Rows}
<1>4. Only(StepsFor(rows), made) \in Seq(PlanSteps \cap made)
      BY <1>1, OnlyKeeps
<1> HIDE DEF made
<1>5. Only(StepsFor(rows), made) \in Seq(PlanSteps)
      BY <1>4, SeqMonotonic
<1>6. QED BY <1>3, <1>5 DEF OnlyGenerates, made

-----------------------------------------------------------------------------
(* The plan's record.                                                      *)

Outcomes == {"pending", "done", "blocked", "failed", "cancelled", "skipped"}

\* A plan in order: the steps before the cursor have an outcome, no other has.
IsPlan(p) ==
  /\ Fields \cup {"steps"} \subseteq DOMAIN p
  /\ p.steps \in Seq(PlanSteps)
  /\ p.outcomes \in [1..Len(p.steps) -> Outcomes]
  /\ p.cursor \in 1..(Len(p.steps) + 1)
  /\ \A i \in 1..Len(p.steps) : p.outcomes[i] = "pending" <=> i >= p.cursor
  /\ p.inFlight => ~AtEnd(p)

LEMMA NewIsPlan ==
  ASSUME NEW steps \in Seq(PlanSteps), NEW target
  PROVE  IsPlan(NewPlan(steps, target))
<1>1. Len(steps) \in Nat /\ DOMAIN steps = 1..Len(steps)
      BY LenProperties
<1>2. QED BY <1>1 DEF IsPlan, NewPlan, Fields, Outcomes

\* Closing the step at the cursor gives it its outcome and moves on.
LEMMA ClosedIsPlan ==
  ASSUME NEW p, IsPlan(p), ~AtEnd(p), NEW outcome \in Outcomes \ {"pending"}
  PROVE  IsPlan(Closed(p, outcome))
<1> DEFINE q == Closed(p, outcome)
<1>1. /\ DOMAIN q = DOMAIN p /\ q.steps = p.steps
      /\ q.outcomes = [p.outcomes EXCEPT ![p.cursor] = outcome]
      /\ q.cursor = p.cursor + 1 /\ q.inFlight = FALSE
      BY DEF Closed, IsPlan, Fields
<1>2. Len(p.steps) \in Nat /\ p.cursor \in 1..Len(p.steps)
      BY LenProperties DEF IsPlan, AtEnd
<1>3. q.outcomes \in [1..Len(p.steps) -> Outcomes]
      BY <1>1, <1>2 DEF IsPlan
<1>4. ASSUME NEW i \in 1..Len(p.steps)
      PROVE  q.outcomes[i] = "pending" <=> i >= q.cursor
  <2>1. CASE i = p.cursor
        BY <1>1, <1>2, <2>1 DEF IsPlan
  <2>2. CASE i # p.cursor
        BY <1>1, <1>2, <2>2 DEF IsPlan
  <2>3. QED BY <2>1, <2>2
<1> HIDE DEF q
<1>5. q.cursor \in 1..(Len(q.steps) + 1)
      BY <1>1, <1>2
<1>6. IsPlan(q)
      BY <1>1, <1>3, <1>4, <1>5 DEF IsPlan
<1>7. QED BY <1>6 DEF q

\* Fields the order does not read.
LEMMA NotedIsPlan ==
  ASSUME NEW p, IsPlan(p), NEW q, DOMAIN q = DOMAIN p, q.steps = p.steps,
         q.outcomes = p.outcomes, q.cursor = p.cursor, q.inFlight => ~AtEnd(p)
  PROVE  IsPlan(q) /\ (AtEnd(q) <=> AtEnd(p))
BY DEF IsPlan, AtEnd

LEMMA LandedIsPlan ==
  ASSUME NEW p, p # None => IsPlan(p), NEW r, NEW outcome \in Outcomes \ {"pending"}
  PROVE  /\ Completed(p, r, outcome) = p \/ IsPlan(Completed(p, r, outcome))
         /\ Simulated(p, outcome) = p \/ IsPlan(Simulated(p, outcome))
<1>1. ASSUME Completed(p, r, outcome) # p PROVE IsPlan(Completed(p, r, outcome))
  <2> DEFINE here == IF r \in Present(project) THEN {SetupOf(project, r)} ELSE {}
             q == [p EXCEPT !.generated = @ \/ outcome = "done",
                            !.stuck     = @ \cup IF outcome \in {"blocked", "failed"} THEN here ELSE {},
                            !.cancelled = @ \/ outcome = "cancelled"]
  <2>1. p # None /\ p.inFlight /\ OnRow(p, r) /\ Completed(p, r, outcome) = Closed(q, outcome)
        BY <1>1 DEF Completed
  <2>2. IsPlan(p) /\ ~AtEnd(p)
        BY <2>1 DEF OnRow
  <2>3. DOMAIN q = DOMAIN p /\ q.steps = p.steps /\ q.outcomes = p.outcomes
        /\ q.cursor = p.cursor
        OBVIOUS
  <2> HIDE DEF q
  <2>4. IsPlan(q) /\ ~AtEnd(q)
        BY <2>2, <2>3, NotedIsPlan
  <2>5. QED BY <2>1, <2>4, ClosedIsPlan
<1>2. ASSUME Simulated(p, outcome) # p PROVE IsPlan(Simulated(p, outcome))
  <2> DEFINE q == [p EXCEPT !.cancelled = @ \/ outcome # "done"]
  <2>1. p # None /\ p.inFlight /\ OnSimulation(p) /\ Simulated(p, outcome) = Closed(q, outcome)
        BY <1>2 DEF Simulated
  <2>2. IsPlan(p) /\ ~AtEnd(p)
        BY <2>1 DEF OnSimulation
  <2>3. DOMAIN q = DOMAIN p /\ q.steps = p.steps /\ q.outcomes = p.outcomes
        /\ q.cursor = p.cursor
        OBVIOUS
  <2> HIDE DEF q
  <2>4. IsPlan(q) /\ ~AtEnd(q)
        BY <2>2, <2>3, NotedIsPlan
  <2>5. QED BY <2>1, <2>4, ClosedIsPlan
<1>3. QED BY <1>1, <1>2

-----------------------------------------------------------------------------
(* Every step keeps the plan's types.                                      *)

PlanTyped ==
  /\ plan # None => IsPlan(plan)
  /\ superseded \cup stale \cup waiters \subseteq Rows
  /\ others \subseteq {"cancel", "generation", "simulation", "panic"}

\* A submit that is refused closes the step it was made for.
LEMMA SubmitKeepsPlan ==
  ASSUME superseded \cup stale \cup waiters \subseteq Rows, NEW p, p # None => IsPlan(p),
         NEW r \in Rows, NEW stamps \in SUBSET Rows, SubmitToolpath(p, r, stamps)
  PROVE  /\ plan' = p \/ IsPlan(plan')
         /\ superseded' \cup stale' \cup waiters' \subseteq Rows
<1>1. Stamped \subseteq Rows
      BY DEF Stamped
<1>2. CASE CanStart(r)
      BY <1>1, <1>2 DEF SubmitToolpath
<1>3. CASE ~CanStart(r)
  <2>1. PICK outcome \in {"blocked", "failed"} :
               waiters' = waiters \ {r} /\ plan' = Completed(p, r, outcome)
        BY <1>3, Zenon DEF SubmitToolpath, Landed
  <2>2. outcome \in Outcomes \ {"pending"}
        BY DEF Outcomes
  <2>3. superseded' = superseded /\ stale' = stamps \cup (Stamped \ {r})
        BY <1>3 DEF SubmitToolpath
  <2>4. QED BY <1>1, <2>1, <2>2, <2>3, LandedIsPlan
<1>4. QED BY <1>2, <1>3

LEMMA PumpKeepsPlan ==
  ASSUME PlanTyped, ProjectOK(project), Pump
  PROVE  PlanTyped' /\ (FinishPlan \/ IsPlan(plan'))
<1>1. plan # None /\ IsPlan(plan)
      BY DEF Pump, PumpWaits, PumpSubmits, FinishPlan, Pumping, PlanTyped
<1>2. Present(project) \subseteq Rows
      BY DEF ProjectOK, Project
<1>3. CASE PumpWaits
  <2>1. IsPlan(plan')
    <3>1. /\ DOMAIN plan' = DOMAIN plan /\ plan'.steps = plan.steps
          /\ plan'.outcomes = plan.outcomes /\ plan'.cursor = plan.cursor
          /\ plan'.inFlight = plan.inFlight
      <4>1. plan' = [plan EXCEPT !.pumping = FALSE]
            BY <1>3 DEF PumpWaits
      <4>2. QED BY <1>1, <4>1 DEF IsPlan, Fields
    <3>2. QED BY <1>1, <3>1, NotedIsPlan DEF IsPlan
  <2>2. QED BY <1>3, <2>1 DEF PumpWaits, PlanTyped, driverVars
<1>4. CASE FinishPlan
      BY <1>4 DEF FinishPlan, PlanTyped, driverVars
<1>5. CASE PumpSubmits
  <2> DEFINE p == [plan EXCEPT !.inFlight = TRUE]
  <2>1. ~AtEnd(plan) /\ (GenerateStep(p) \/ SimulateStep(p)) /\ others' = others
        BY <1>5 DEF PumpSubmits
  <2>2. IsPlan(p) /\ ~AtEnd(p)
    <3>1. DOMAIN p = DOMAIN plan /\ p.steps = plan.steps /\ p.outcomes = plan.outcomes
          /\ p.cursor = plan.cursor
          OBVIOUS
    <3> HIDE DEF p
    <3>2. QED BY <1>1, <2>1, <3>1, NotedIsPlan
  <2> HIDE DEF p
  <2>3. "skipped" \in Outcomes \ {"pending"}
        BY DEF Outcomes
  <2>4. IsPlan(Closed(p, "skipped"))
        BY <2>2, <2>3, ClosedIsPlan
  <2>5. CASE GenerateStep(p)
    <3> DEFINE r == Current(p).of
    <3>1. \/ /\ plan' = Closed(p, "skipped")
             /\ UNCHANGED <<superseded, stale, waiters>>
          \/ r \in Present(project) /\ SubmitToolpath(p, r, stale)
          BY <2>5 DEF GenerateStep
    <3> HIDE DEF r
    <3>2. CASE UNCHANGED <<superseded, stale, waiters>> /\ plan' = Closed(p, "skipped")
          BY <2>1, <2>4, <3>2 DEF PlanTyped
    <3>3. CASE r \in Present(project) /\ SubmitToolpath(p, r, stale)
      <4>1. r \in Rows /\ stale \in SUBSET Rows
            BY <1>2, <3>3 DEF PlanTyped
      <4>2. /\ IsPlan(plan')
            /\ superseded' \cup stale' \cup waiters' \subseteq Rows
            BY <2>2, <3>3, <4>1, SubmitKeepsPlan DEF PlanTyped
      <4>3. QED BY <2>1, <4>2 DEF PlanTyped
    <3>4. QED BY <3>1, <3>2, <3>3
  <2>6. CASE SimulateStep(p)
        BY <2>1, <2>2, <2>4, <2>6 DEF SimulateStep, PlanTyped
  <2>7. QED BY <2>1, <2>5, <2>6
<1>6. QED BY <1>3, <1>4, <1>5 DEF Pump

LEMMA DrainKeepsPlan ==
  ASSUME PlanTyped, Drain \/ DrainSimulation
  PROVE  PlanTyped' /\ (plan' = plan \/ IsPlan(plan'))
<1>1. Stamped \subseteq Rows /\ {"done", "failed", "cancelled"} \subseteq Outcomes \ {"pending"}
      BY DEF Stamped, Outcomes
<1>2. CASE Drain
  <2>1. PICK r \in Rows : DrainOk(r) \/ DrainError(r) \/ DrainCancelled(r) \/ DrainRemoved(r)
        BY <1>2 DEF Drain
  <2>2. superseded' \subseteq superseded /\ others' = others
        BY <2>1 DEF DrainOk, DrainError, DrainCancelled, DrainRemoved, Draining
  <2>3. \/ UNCHANGED <<plan, waiters>>
        \/ \E outcome \in {"done", "failed", "cancelled"} :
             waiters' = waiters \ {r} /\ plan' = Completed(plan, r, outcome)
        BY <2>1 DEF DrainOk, DrainError, DrainCancelled, DrainRemoved, Landed
  <2>4. stale' \subseteq stale \cup Stamped
        BY <2>1 DEF DrainOk, DrainError, DrainCancelled, DrainRemoved
  <2>5. (plan' = plan \/ IsPlan(plan')) /\ waiters' \subseteq waiters
        BY <1>1, <2>3, LandedIsPlan DEF PlanTyped
  <2>6. QED BY <1>1, <2>2, <2>4, <2>5 DEF PlanTyped
<1>3. CASE DrainSimulation
  <2>1. PICK outcome \in {"done", "failed", "cancelled"} : plan' = Simulated(plan, outcome)
        BY <1>3 DEF DrainSimulation
  <2>2. plan' = plan \/ IsPlan(plan')
        BY <1>1, <2>1, LandedIsPlan DEF PlanTyped
  <2>3. UNCHANGED <<superseded, waiters, others>> /\ stale' = stale \cup Stamped
        BY <1>3 DEF DrainSimulation
  <2>4. QED BY <1>1, <2>2, <2>3 DEF PlanTyped
<1>4. QED BY <1>2, <1>3

LEMMA OperatorKeepsPlan ==
  ASSUME PlanTyped, ProjectOK(project),
         \/ GenerateAll \/ GenerateAllOnce
         \/ \E s \in Setups : GenerateSetupOnly(s)
         \/ \E r \in Rows : GenerateToolpath(r)
  PROVE  PlanTyped'
<1>1. ASSUME NEW steps \in Seq(PlanSteps), NEW target, StartPlan(steps, target)
      PROVE  /\ IsPlan(plan') /\ UNCHANGED <<superseded, stale>>
             /\ others' \subseteq {"cancel", "generation", "simulation", "panic"}
      BY <1>1, NewIsPlan DEF StartPlan
<1>2. \A rows : WithClosing(StepsFor(rows)) \in Seq(PlanSteps)
                /\ OnlyGenerates(StepsFor(rows)) \in Seq(PlanSteps)
      BY PlannedLists
<1>3. PICK steps \in Seq(PlanSteps) : \E target : StartPlan(steps, target)
      BY <1>2 DEF GenerateAll, GenerateAllOnce, GenerateSetupOnly, GenerateToolpath
<1>4. waiters' \subseteq Rows
      BY DEF GenerateAll, GenerateAllOnce, GenerateSetupOnly, GenerateToolpath, PlanTyped
<1>5. QED BY <1>1, <1>3, <1>4 DEF PlanTyped

LEMMA PlanTypedStep ==
  ASSUME PlanTyped, ProjectOK(project), [PlanNext]_planVars
  PROVE  PlanTyped'
<1>1. CASE Pump
      BY <1>1, PumpKeepsPlan
<1>2. CASE Drain \/ DrainSimulation
      BY <1>2, DrainKeepsPlan
<1>3. CASE \/ GenerateAll \/ GenerateAllOnce
           \/ \E s \in Setups : GenerateSetupOnly(s)
           \/ \E r \in Rows : GenerateToolpath(r)
      BY <1>3, OperatorKeepsPlan
<1>4. ASSUME NEW r \in Rows, AutoRegen(r) PROVE PlanTyped'
  <2>1. plan = None /\ SubmitToolpath(None, r, stale \ {r}) /\ others' = others
        BY <1>4 DEF AutoRegen
  <2>2. stale \ {r} \in SUBSET Rows
        BY DEF PlanTyped
  <2>3. /\ plan' # None => IsPlan(plan')
        /\ superseded' \cup stale' \cup waiters' \subseteq Rows
        BY <2>1, <2>2, SubmitKeepsPlan DEF PlanTyped
  <2>4. QED BY <2>1, <2>3 DEF PlanTyped
<1>5. ASSUME plan' # None => /\ plan # None /\ DOMAIN plan' = DOMAIN plan
                            /\ plan'.steps = plan.steps /\ plan'.outcomes = plan.outcomes
                            /\ plan'.cursor = plan.cursor /\ plan'.inFlight = plan.inFlight,
             UNCHANGED <<superseded, waiters>>, stale' \subseteq Rows,
             others' \subseteq others \cup {"cancel", "simulation", "panic"}
      PROVE  PlanTyped'
  <2>1. plan' # None => IsPlan(plan')
        BY <1>5, NotedIsPlan DEF PlanTyped, IsPlan
  <2>2. QED BY <1>5, <2>1 DEF PlanTyped
<1>6. CASE CancelPlan
      BY <1>5, <1>6 DEF CancelPlan, PlanTyped
<1>7. CASE EditProject
      BY <1>5, <1>7 DEF EditProject, PlanTyped
<1>8. CASE \/ Take \/ Finish \/ CancelGeneration \/ RunSimulation \/ AnalysisFalls
           \/ UNCHANGED planVars
      BY <1>5, <1>8 DEF Take, Finish, CancelGeneration, RunSimulation, AnalysisFalls,
                        planVars, driverVars, PlanTyped
<1>9. QED BY <1>1, <1>2, <1>3, <1>4, <1>6, <1>7, <1>8 DEF PlanNext

\* The record of every plan is in order, whatever lands, is edited, is cancelled
\* or is submitted beside it: the steps before the cursor are those with an
\* outcome, and a step in flight is one of the plan (record_step_outcome).
THEOREM PlanStaysInOrder == PlanSpec => []PlanTypeOK
<1>1. PlanInit => PlanTyped /\ LaneInOrder
      BY EmptyRecords, EmptySeq DEF PlanInit, Init, PlanTyped, LaneInOrder, MarkedHasNewer
<1>2. LaneInOrder /\ [PlanNext]_planVars => LaneInOrder'
      BY PlanStep
<1>3. PlanTyped /\ TypeOK /\ [PlanNext]_planVars => PlanTyped'
      BY PlanTypedStep DEF TypeOK
<1>4. PlanTyped /\ LaneInOrder => PlanTypeOK
  <2>1. SUFFICES ASSUME PlanTyped, LaneInOrder PROVE PlanTypeOK
        OBVIOUS
  <2>2. ASSUME plan # None
        PROVE  /\ Range(plan.outcomes) \subseteq {"pending", "done", "blocked", "failed",
                                                  "cancelled", "skipped"}
               /\ plan.cursor \in 1..(Len(plan.steps) + 1)
               /\ \A i \in DOMAIN plan.steps : plan.outcomes[i] = "pending" <=> i >= plan.cursor
               /\ plan.inFlight => ~AtEnd(plan)
    <3>1. IsPlan(plan)
          BY <2>1, <2>2 DEF PlanTyped
    <3>2. DOMAIN plan.steps = 1..Len(plan.steps)
          BY <3>1, LenProperties DEF IsPlan
    <3>3. QED BY <3>1, <3>2 DEF IsPlan, Range, Outcomes
  <2>3. QED BY <2>1, <2>2 DEF PlanTyped, LaneInOrder, PlanTypeOK
<1>5. Spec => []TypeOK
      BY TypeCorrect
<1>6. PlanSpec => Spec
      BY DriverStaysInSession DEF StaysInSession
<1>7. QED BY <1>1, <1>2, <1>3, <1>4, <1>5, <1>6, PTL DEF PlanSpec

\* The driver inherits what the session keeps: while no edit moves a row to
\* another setup or turns one over, or every adopted simulation has seen every
\* edit, no plan, sweep, cancel or late answer leaves a row with a result its own
\* inputs no longer give, or lets a rest row start from a snapshot that is not
\* the stock, as far as what the record names still cuts before the row.
THEOREM DriverKeepsResultsFresh ==
  PlanSpec /\ (PlacesFixed \/ AdoptedSimulationIsLive)
    => [](TypeOK /\ OrderedSnapshotIsTrue /\ OrderedResultsAreFresh)
<1>1. PlanSpec => Spec
      BY DriverStaysInSession DEF StaysInSession
<1>2. QED BY <1>1, TypeCorrect, OrderedSnapshotsAreTrue, KeptResultsAreFresh, PTL

-----------------------------------------------------------------------------
(* The steps of a plan are in cut order.                                   *)

\* Of two elements of a list the earlier is related to the later.
InOrder(R, s) == \A i, j \in 1..Len(s) : i < j => <<s[i], s[j]>> \in R

LEMMA AppendInOrder ==
  ASSUME NEW S, NEW s \in Seq(S), NEW x \in S, NEW R, InOrder(R, s),
         \A i \in 1..Len(s) : <<s[i], x>> \in R
  PROVE  InOrder(R, Append(s, x))
<1> DEFINE t == Append(s, x)
<1>1. Len(s) \in Nat /\ Len(t) = Len(s) + 1 /\ t[Len(s) + 1] = x
      /\ \A i \in 1..Len(s) : t[i] = s[i]
      BY LenProperties, AppendProperties
<1> HIDE DEF t
<1>2. ASSUME NEW i \in 1..(Len(s) + 1), NEW j \in 1..(Len(s) + 1), i < j
      PROVE  <<t[i], t[j]>> \in R
  <2>1. i \in 1..Len(s)
        BY <1>1, <1>2
  <2>2. CASE j = Len(s) + 1
        BY <1>1, <2>1, <2>2
  <2>3. CASE j # Len(s) + 1
    <3>1. j \in 1..Len(s)
          BY <1>1, <2>3
    <3>2. QED BY <1>1, <1>2, <2>1, <3>1 DEF InOrder
  <2>4. QED BY <2>2, <2>3
<1>3. QED BY <1>1, <1>2 DEF InOrder, t

LEMMA ConcatInOrder ==
  ASSUME NEW S, NEW s \in Seq(S), NEW t \in Seq(S), NEW R, InOrder(R, s), InOrder(R, t),
         \A i \in 1..Len(s), j \in 1..Len(t) : <<s[i], t[j]>> \in R
  PROVE  InOrder(R, s \o t)
<1> DEFINE u == s \o t
<1>1. /\ Len(s) \in Nat /\ Len(t) \in Nat /\ Len(u) = Len(s) + Len(t)
      /\ \A i \in 1..(Len(s) + Len(t)) : u[i] = IF i <= Len(s) THEN s[i] ELSE t[i - Len(s)]
      BY LenProperties, ConcatProperties
<1> HIDE DEF u
<1>2. ASSUME NEW i \in 1..(Len(s) + Len(t)), NEW j \in 1..(Len(s) + Len(t)), i < j
      PROVE  <<u[i], u[j]>> \in R
  <2>1. CASE j <= Len(s)
    <3>1. i \in 1..Len(s) /\ j \in 1..Len(s) /\ u[i] = s[i] /\ u[j] = s[j]
          BY <1>1, <1>2, <2>1
    <3>2. QED BY <1>2, <3>1 DEF InOrder
  <2>2. CASE i <= Len(s) /\ ~(j <= Len(s))
    <3>1. i \in 1..Len(s) /\ j - Len(s) \in 1..Len(t) /\ u[i] = s[i] /\ u[j] = t[j - Len(s)]
          BY <1>1, <1>2, <2>2
    <3>2. QED BY <3>1
  <2>3. CASE ~(i <= Len(s))
    <3>1. /\ i - Len(s) \in 1..Len(t) /\ j - Len(s) \in 1..Len(t) /\ i - Len(s) < j - Len(s)
          /\ u[i] = t[i - Len(s)] /\ u[j] = t[j - Len(s)]
          BY <1>1, <1>2, <2>3
    <3>2. QED BY <3>1 DEF InOrder
  <2>4. QED BY <1>1, <2>1, <2>2, <2>3
<1>3. QED BY <1>1, <1>2 DEF InOrder, u

\* What is kept of a list keeps its order.
LEMMA OnlyInOrder ==
  ASSUME NEW S, NEW s \in Seq(S), NEW set, NEW R, InOrder(R, s)
  PROVE  InOrder(R, Only(s, set))
<1>1. \E f : /\ f[0] = <<>> /\ Only(s, set) = f[Len(s)]
            /\ \A i \in 1..Len(s) :
                 f[i] = IF s[i] \in set THEN Append(f[i - 1], s[i]) ELSE f[i - 1]
      BY OnlyIs
<1> DEFINE Kept(i) == {q \in Seq(S) : /\ InOrder(R, q)
                                      /\ \A k \in 1..Len(q) : \E j \in 1..i : q[k] = s[j]}
           V == [i \in 0..Len(s) |-> Kept(i)]
<1>2. Len(s) \in Nat /\ \A i \in 1..Len(s) : s[i] \in S
      BY LenProperties, ElementOfSeq
<1>3. PICK f : /\ f[0] = <<>> /\ Only(s, set) = f[Len(s)]
               /\ \A i \in 1..Len(s) :
                    f[i] = IF s[i] \in set THEN Append(f[i - 1], s[i]) ELSE f[i - 1]
      BY <1>1
<1>4. ASSUME NEW i \in 1..Len(s), f[i - 1] \in Kept(i - 1) PROVE f[i] \in Kept(i)
  <2> DEFINE q == f[i - 1]
  <2>1. /\ q \in Seq(S) /\ InOrder(R, q) /\ Len(q) \in Nat /\ s[i] \in S
        /\ \A k \in 1..Len(q) : \E j \in 1..(i - 1) : q[k] = s[j]
        BY <1>2, <1>4, LenProperties
  <2>2. CASE s[i] \notin set
    <3>1. f[i] = q
          BY <1>3, <2>2
    <3>2. \A j \in 1..(i - 1) : j \in 1..i
          OBVIOUS
    <3> HIDE DEF q
    <3>3. QED BY <2>1, <3>1, <3>2
  <2>3. CASE s[i] \in set
    <3>1. f[i] = Append(q, s[i])
          BY <1>3, <2>3
    <3> HIDE DEF q
    <3>2. \A j \in 1..(i - 1) : j \in 1..i /\ j \in 1..Len(s) /\ j < i
          BY <1>2
    <3>3. \A k \in 1..Len(q) : <<q[k], s[i]>> \in R
          BY <2>1, <3>2 DEF InOrder
    <3>4. InOrder(R, Append(q, s[i]))
          BY <2>1, <3>3, AppendInOrder
    <3>5. /\ Append(q, s[i]) \in Seq(S) /\ Len(Append(q, s[i])) = Len(q) + 1
          /\ Append(q, s[i])[Len(q) + 1] = s[i]
          /\ \A k \in 1..Len(q) : Append(q, s[i])[k] = q[k]
          BY <2>1, AppendProperties
    <3>6. ASSUME NEW k \in 1..(Len(q) + 1)
          PROVE  \E j \in 1..i : Append(q, s[i])[k] = s[j]
      <4>1. CASE k = Len(q) + 1
        <5>1. i \in 1..i
              OBVIOUS
        <5>2. QED BY <3>5, <4>1, <5>1
      <4>2. CASE k # Len(q) + 1
        <5>1. k \in 1..Len(q)
              BY <2>1, <4>2
        <5>2. QED BY <2>1, <3>2, <3>5, <5>1
      <4>3. QED BY <4>1, <4>2
    <3>7. QED BY <3>1, <3>4, <3>5, <3>6
  <2>4. QED BY <2>2, <2>3
<1>5. f[0] \in Kept(0)
  <2>1. <<>> \in Seq(S) /\ Len(<<>>) = 0
        BY EmptySeq
  <2>2. QED BY <1>3, <2>1 DEF InOrder
<1>6. \A i \in 0..Len(s) : f[i] \in V[i]
  <2>1. \A i \in 0..Len(s) : V[i] = Kept(i)
        OBVIOUS
  <2>2. 0 \in 0..Len(s) /\ \A i \in 1..Len(s) : i \in 0..Len(s) /\ i - 1 \in 0..Len(s)
        BY <1>2
  <2> HIDE DEF V, Kept
  <2>3. f[0] \in V[0] /\ \A i \in 1..Len(s) : f[i - 1] \in V[i - 1] => f[i] \in V[i]
        BY <1>4, <1>5, <2>1, <2>2
  <2>4. QED BY <1>2, <2>3, StepsKeepEach
<1>7. f[Len(s)] \in Kept(Len(s))
      BY <1>2, <1>6
<1>8. QED BY <1>3, <1>7

\* Pairs of rows, and of steps, the first of which cuts before the second.
RowOrder  == {c \in Present(project) \X Present(project) : c[1] \in CarveOrderBefore(project, c[2])}
StepOrder == {c \in PlanSteps \X PlanSteps :
                c[1].kind = "generate" /\ c[2].kind = "generate" => <<c[1].of, c[2].of>> \in RowOrder}

LEMMA OrderInOrder ==
  ASSUME ProjectOK(project), NEW s \in 1..NumSetups
  PROVE  /\ InOrder(RowOrder, project.order[s])
         /\ \A i \in 1..Len(project.order[s]) : SetupOf(project, project.order[s][i]) = s
<1> DEFINE o == project.order[s]
<1>1. s \in Setups
      BY DEF Setups
<1>2. o \in Seq(Present(project)) /\ Len(o) \in Nat /\ DOMAIN o = 1..Len(o)
      /\ \A i \in 1..Len(o) : o[i] \in Present(project)
      BY OrderLists, LenProperties, ElementOfSeq
<1>3. \A i \in 1..Len(o) : SetupOf(project, o[i]) = s
      BY <1>1, <1>2, Places DEF Range
<1>4. ASSUME NEW i \in 1..Len(o), NEW j \in 1..Len(o), i < j
      PROVE  <<o[i], o[j]>> \in RowOrder
  <2> HIDE DEF o
  <2>1. Precedes(o, o[i], o[j])
        BY <1>4 DEF Precedes
  <2>2. o[i] \in CarveOrderBefore(project, o[j])
        BY <1>2, <1>3, <2>1, CutsBeforeIs DEF o
  <2>3. QED BY <1>2, <2>2 DEF RowOrder
<1>5. QED BY <1>3, <1>4 DEF InOrder

LEMMA CutOrderInOrder ==
  ASSUME ProjectOK(project)
  PROVE  InOrder(RowOrder, CutOrder)
<1> DEFINE P == Present(project)
           Cut(s) == {q \in Seq(P) : /\ InOrder(RowOrder, q)
                                     /\ \A k \in 1..Len(q) : SetupOf(project, q[k]) <= s}
           V == [s \in 0..NumSetups |-> Cut(s)]
<1>1. NumSetups \in Nat /\ \A r \in P : SetupOf(project, r) \in Nat
      BY SetupsAssumption, Places DEF Setups
<1>2. PICK f : /\ f[0] = <<>> /\ CutOrder = f[NumSetups]
               /\ \A s \in 1..NumSetups : f[s] = f[s - 1] \o project.order[s]
      BY CutOrderIs
<1>3. ASSUME NEW s \in 1..NumSetups, f[s - 1] \in Cut(s - 1) PROVE f[s] \in Cut(s)
  <2> DEFINE q == f[s - 1]
             o == project.order[s]
  <2>1. /\ q \in Seq(P) /\ InOrder(RowOrder, q) /\ Len(q) \in Nat
        /\ \A k \in 1..Len(q) : q[k] \in P /\ SetupOf(project, q[k]) <= s - 1
        BY <1>3, LenProperties, ElementOfSeq
  <2>2. /\ o \in Seq(P) /\ InOrder(RowOrder, o) /\ Len(o) \in Nat
        /\ \A k \in 1..Len(o) : o[k] \in P /\ SetupOf(project, o[k]) = s
        BY OrderLists, OrderInOrder, LenProperties, ElementOfSeq
  <2>3. f[s] = q \o o
        BY <1>2
  <2> HIDE DEF P, q, o
  <2>4. ASSUME NEW i \in 1..Len(q), NEW j \in 1..Len(o) PROVE <<q[i], o[j]>> \in RowOrder
    <3>1. SetupOf(project, q[i]) < SetupOf(project, o[j])
          BY <1>1, <2>1, <2>2
    <3>2. q[i] \in CarveOrderBefore(project, o[j])
          BY <2>1, <2>2, <3>1, CutsBeforeIs DEF P
    <3>3. QED BY <2>1, <2>2, <3>2 DEF RowOrder, P
  <2>5. InOrder(RowOrder, q \o o)
        BY <2>1, <2>2, <2>4, ConcatInOrder
  <2>6. /\ q \o o \in Seq(P) /\ Len(q \o o) = Len(q) + Len(o)
        /\ \A k \in 1..(Len(q) + Len(o)) : (q \o o)[k] = IF k <= Len(q) THEN q[k] ELSE o[k - Len(q)]
        BY <2>1, <2>2, ConcatProperties
  <2>7. ASSUME NEW k \in 1..(Len(q) + Len(o)) PROVE SetupOf(project, (q \o o)[k]) <= s
    <3>1. CASE k <= Len(q)
      <4>1. k \in 1..Len(q)
            BY <2>1, <3>1
      <4>2. SetupOf(project, q[k]) <= s
            BY <1>1, <2>1, <4>1
      <4>3. QED BY <2>6, <3>1, <4>2
    <3>2. CASE ~(k <= Len(q))
      <4>1. k - Len(q) \in 1..Len(o)
            BY <2>1, <2>2, <3>2
      <4>2. SetupOf(project, o[k - Len(q)]) <= s
            BY <2>2, <4>1
      <4>3. QED BY <2>6, <3>2, <4>2
    <3>3. QED BY <3>1, <3>2
  <2>8. QED BY <2>3, <2>5, <2>6, <2>7
<1>4. f[0] \in Cut(0)
  <2>1. <<>> \in Seq(P) /\ Len(<<>>) = 0
        BY EmptySeq
  <2>2. QED BY <1>2, <2>1 DEF InOrder
<1>5. \A s \in 0..NumSetups : f[s] \in V[s]
  <2>1. \A s \in 0..NumSetups : V[s] = Cut(s)
        OBVIOUS
  <2>2. 0 \in 0..NumSetups /\ \A s \in 1..NumSetups : s \in 0..NumSetups /\ s - 1 \in 0..NumSetups
        BY <1>1
  <2> HIDE DEF V, Cut
  <2>3. f[0] \in V[0] /\ \A s \in 1..NumSetups : f[s - 1] \in V[s - 1] => f[s] \in V[s]
        BY <1>3, <1>4, <2>1, <2>2
  <2>4. QED BY <1>1, <2>3, StepsKeepEach
<1>6. f[NumSetups] \in Cut(NumSetups)
      BY <1>1, <1>5
<1>7. QED BY <1>2, <1>6

\* The rows of the generate steps are rows to generate.
StepRows(s) == {s[i].of : i \in {j \in 1..Len(s) : s[j].kind = "generate"}}

\* One step more, that cuts after the rows generated before it.
LEMMA StepMore ==
  ASSUME NEW u \in Seq(PlanSteps), InOrder(StepOrder, u), NEW x \in PlanSteps,
         x.kind = "generate" => \A y \in StepRows(u) : <<y, x.of>> \in RowOrder
  PROVE  LET t == u \o <<x>>
         IN /\ t \in Seq(PlanSteps) /\ InOrder(StepOrder, t)
            /\ StepRows(t) \subseteq StepRows(u) \cup (IF x.kind = "generate" THEN {x.of} ELSE {})
<1> DEFINE one == <<x>>
           t == u \o one
<1>1. one \in Seq(PlanSteps) /\ Len(one) = 1 /\ one[1] = x
      OBVIOUS
<1> HIDE DEF one
<1>2. /\ Len(u) \in Nat /\ t \in Seq(PlanSteps) /\ Len(t) = Len(u) + 1
      /\ \A i \in 1..(Len(u) + 1) : t[i] = IF i <= Len(u) THEN u[i] ELSE one[i - Len(u)]
  <2>1. Len(u) \in Nat
        BY LenProperties
  <2>2. /\ t \in Seq(PlanSteps) /\ Len(t) = Len(u) + Len(one)
        /\ \A i \in 1..(Len(u) + Len(one)) : t[i] = IF i <= Len(u) THEN u[i] ELSE one[i - Len(u)]
        BY <1>1, ConcatProperties
  <2> HIDE DEF t
  <2>3. QED BY <1>1, <2>1, <2>2
<1>3. \A i \in 1..Len(u) : u[i] \in PlanSteps
      BY <1>2, ElementOfSeq
<1>4. ASSUME NEW i \in 1..Len(u), NEW j \in 1..Len(one) PROVE <<u[i], one[j]>> \in StepOrder
  <2>1. one[j] = x /\ u[i] \in PlanSteps
        BY <1>1, <1>3
  <2>2. u[i].kind = "generate" => u[i].of \in StepRows(u)
        BY DEF StepRows
  <2>3. QED BY <2>1, <2>2 DEF StepOrder
<1>5. InOrder(StepOrder, one)
      BY <1>1 DEF InOrder
<1>6. InOrder(StepOrder, t)
      BY <1>1, <1>4, <1>5, ConcatInOrder
<1>7. ASSUME NEW i \in 1..(Len(u) + 1), t[i].kind = "generate"
      PROVE  t[i].of \in StepRows(u) \cup (IF x.kind = "generate" THEN {x.of} ELSE {})
  <2> HIDE DEF t
  <2>1. CASE i <= Len(u)
    <3>1. i \in 1..Len(u) /\ t[i] = u[i]
          BY <1>2, <2>1
    <3>2. QED BY <1>7, <3>1 DEF StepRows
  <2>2. CASE ~(i <= Len(u))
    <3>1. t[i] = x
          BY <1>1, <1>2, <2>2
    <3>2. QED BY <1>7, <3>1
  <2>3. QED BY <2>1, <2>2
<1>8. StepRows(t) \subseteq StepRows(u) \cup (IF x.kind = "generate" THEN {x.of} ELSE {})
  <2> HIDE DEF t
  <2>1. QED BY <1>2, <1>7 DEF StepRows
<1>9. QED BY <1>2, <1>6, <1>8 DEF one

\* A list of steps of rows of a set, in the order they cut.
Lists(s, set) == s \in Seq(PlanSteps) /\ InOrder(StepOrder, s) /\ StepRows(s) \subseteq set

\* What the walk adds at row r keeps the order when the rows before it cut before r.
LEMMA WalkedOnLists ==
  ASSUME ProjectOK(project), NEW set, NEW w \in Walks, Lists(w.steps, set),
         NEW r \in Present(project), \A y \in set : <<y, r>> \in RowOrder, NEW current
  PROVE  Lists(WalkedOn(w, r, current).steps, set \cup {r})
<1> DEFINE simulate == r \in project.rest /\ (w.moved \/ ~current)
           before == IF simulate THEN SimulateBefore(r) ELSE <<>>
           made == Generate(r)
<1>1. SetupOf(project, r) \in Setups /\ r \in Rows
      BY Places
<1>2. /\ made \in PlanSteps /\ made.kind = "generate" /\ made.of = r
      /\ Simulate(SetupOf(project, r)) \in PlanSteps
      /\ Simulate(SetupOf(project, r)).kind # "generate"
      BY <1>1 DEF Generate, Simulate, PlanSteps
<1> HIDE DEF simulate, made
<1>3. Lists(w.steps \o before, set)
  <2>1. CASE simulate
        BY <1>2, <2>1, StepMore DEF Lists, SimulateBefore
  <2>2. CASE ~simulate
    <3>1. w.steps \o <<>> = w.steps
          BY ConcatEmptySeq DEF Lists
    <3>2. QED BY <2>2, <3>1
  <2>3. QED BY <2>1, <2>2
<1> HIDE DEF before
<1>4. Lists(w.steps \o before \o <<made>>, set \cup {r})
      BY <1>2, <1>3, StepMore DEF Lists
<1>5. WalkedOn(w, r, current).steps = w.steps \o before \o <<made>>
      BY DEF WalkedOn, before, simulate, made
<1>6. QED BY <1>4, <1>5

LEMMA StepsForInOrder ==
  ASSUME ProjectOK(project), NEW rows
  PROVE  Lists(StepsFor(rows), Present(project) \cap project.enabled)
<1> DEFINE todo == ToDo(rows)
           P == Present(project) \cap project.enabled
<1>1. PICK f : /\ f[0] = Unplanned /\ StepsFor(rows) = f[Len(ToDo(rows))].steps
               /\ \A i \in 1..Len(ToDo(rows)) : \E current :
                    f[i] = WalkedOn(f[i - 1], ToDo(rows)[i], current)
               /\ \A i \in 0..Len(ToDo(rows)) : f[i] \in Walks
               /\ ToDo(rows) \in Seq(Present(project) \cap project.enabled)
      BY StepsForIs
<1>2. InOrder(RowOrder, todo)
      BY CutOrderLists, CutOrderInOrder, OnlyInOrder DEF ToDo
<1> HIDE DEF todo
<1>3. todo \in Seq(P) /\ Len(todo) \in Nat /\ \A i \in 1..Len(todo) : todo[i] \in P
      BY <1>1, LenProperties, ElementOfSeq DEF todo
<1> DEFINE done(i) == {todo[j] : j \in 1..i}
           V == [i \in 0..Len(todo) |-> {w \in Walks : Lists(w.steps, done(i))}]
<1>4. ASSUME NEW i \in 1..Len(todo), f[i - 1] \in Walks, Lists(f[i - 1].steps, done(i - 1))
      PROVE  f[i] \in Walks /\ Lists(f[i].steps, done(i))
  <2>1. PICK current : f[i] = WalkedOn(f[i - 1], todo[i], current)
        BY <1>1 DEF todo
  <2>2. \A y \in done(i - 1) : <<y, todo[i]>> \in RowOrder
    <3>1. \A j \in 1..(i - 1) : j \in 1..Len(todo) /\ j < i
          BY <1>3
    <3>2. QED BY <1>2, <3>1 DEF InOrder
  <2>3. done(i - 1) \cup {todo[i]} \subseteq done(i)
    <3>1. \A j \in 1..(i - 1) : j \in 1..i
          BY <1>3
    <3>2. i \in 1..i
          BY <1>3
    <3>3. QED BY <3>1, <3>2
  <2> DEFINE before == done(i - 1)
             here == done(i)
  <2>4. Lists(f[i - 1].steps, before) /\ (\A y \in before : <<y, todo[i]>> \in RowOrder)
        /\ before \cup {todo[i]} \subseteq here /\ todo[i] \in Present(project)
        BY <1>3, <1>4, <2>2, <2>3
  <2> HIDE DEF before, here, done
  <2>5. Lists(f[i].steps, before \cup {todo[i]})
        BY <1>4, <2>1, <2>4, WalkedOnLists
  <2>6. Lists(f[i].steps, here)
        BY <2>4, <2>5 DEF Lists
  <2>7. f[i] \in Walks
        BY <1>1, <1>3 DEF todo
  <2>8. QED BY <2>6, <2>7 DEF here
<1>5. f[0] \in Walks /\ Lists(f[0].steps, done(0))
  <2>1. <<>> \in Seq(PlanSteps) /\ Len(<<>>) = 0
        BY EmptySeq
  <2>2. f[0] \in Walks /\ f[0].steps = <<>>
        BY <1>1, <1>3 DEF todo, Unplanned
  <2>3. QED BY <2>1, <2>2 DEF Lists, InOrder, StepRows
<1>6. \A i \in 0..Len(todo) : f[i] \in V[i]
  <2>1. \A i \in 0..Len(todo) : V[i] = {w \in Walks : Lists(w.steps, done(i))}
        OBVIOUS
  <2>2. 0 \in 0..Len(todo) /\ \A i \in 1..Len(todo) : i \in 0..Len(todo) /\ i - 1 \in 0..Len(todo)
        BY <1>3
  <2> HIDE DEF V, done
  <2>3. f[0] \in V[0] /\ \A i \in 1..Len(todo) : f[i - 1] \in V[i - 1] => f[i] \in V[i]
        BY <1>4, <1>5, <2>1, <2>2
  <2>4. QED BY <1>3, <2>3, StepsKeepEach
<1>7. Lists(StepsFor(rows), done(Len(todo)))
  <2>1. Len(todo) \in 0..Len(todo)
        BY <1>3
  <2> HIDE DEF done
  <2>2. Lists(f[Len(todo)].steps, done(Len(todo)))
        BY <1>6, <2>1
  <2>3. QED BY <1>1, <2>2 DEF todo
<1>8. done(Len(todo)) \subseteq P
      BY <1>3
<1> HIDE DEF done
<1>9. QED BY <1>7, <1>8 DEF Lists

\* So is every plan.
LEMMA PlannedInOrder ==
  ASSUME ProjectOK(project), NEW rows
  PROVE  /\ Lists(WithClosing(StepsFor(rows)), Present(project) \cap project.enabled)
         /\ Lists(OnlyGenerates(StepsFor(rows)), Present(project) \cap project.enabled)
<1> DEFINE s == StepsFor(rows)
           P == Present(project) \cap project.enabled
           made == {Generate(r) : r \in Rows}
           only == Only(s, made)
<1>1. Lists(s, P)
      BY StepsForInOrder
<1> HIDE DEF s, P, made
<1>2. Lists(WithClosing(s), P)
  <2>1. CASE s = <<>>
        BY <1>1, <2>1 DEF WithClosing
  <2>2. CASE s # <<>>
    <3>1. SimulateAll \in PlanSteps /\ SimulateAll.kind # "generate"
          BY SetupsAssumption DEF SimulateAll, PlanSteps, Setups
    <3>2. Append(s, SimulateAll) = s \o <<SimulateAll>>
          BY <1>1, <3>1, AppendIsConcat DEF Lists
    <3>3. QED BY <1>1, <2>2, <3>1, <3>2, StepMore DEF Lists, WithClosing
  <2>3. QED BY <2>1, <2>2
<1>3. Lists(only, P)
  <2>1. only \in Seq(PlanSteps)
    <3>1. only \in Seq(PlanSteps \cap made)
          BY <1>1, OnlyKeeps DEF Lists
    <3> HIDE DEF only
    <3>2. QED BY <3>1, SeqMonotonic
  <2>2. InOrder(StepOrder, only)
        BY <1>1, OnlyInOrder DEF Lists
  <2>3. StepRows(only) \subseteq P
    <3>1. s \in Seq({s[i] : i \in 1..Len(s)})
          BY <1>1, LenProperties DEF Lists
    <3>2. only \in Seq({s[i] : i \in 1..Len(s)} \cap made)
          BY <3>1, OnlyKeeps
    <3> HIDE DEF only
    <3>3. \A k \in 1..Len(only) : \E i \in 1..Len(s) : only[k] = s[i]
          BY <3>2, ElementOfSeq
    <3>4. QED BY <1>1, <3>3 DEF Lists, StepRows
  <2>4. QED BY <2>1, <2>2, <2>3 DEF Lists
<1>4. QED BY <1>2, <1>3 DEF OnlyGenerates, s, P, made

-----------------------------------------------------------------------------
(* What an undisturbed plan has done.                                      *)

\* The rows of the steps before the cursor: generated, or reported.
Accounted(res, p) ==
  \A i \in 1..Len(p.steps) : i < p.cursor /\ p.steps[i].kind = "generate" =>
    res[p.steps[i].of] # None \/ p.outcomes[i] \in {"blocked", "failed"}

InWalk(res, p) ==
  /\ IsPlan(p)
  /\ Lists(p.steps, Present(project) \cap project.enabled)
  /\ Accounted(res, p)

\* The lane is idle, or runs the step in flight on what the project says:
\* all that is out of date cuts after its row.
Awaited(res, s, p) ==
  \/ Len(s) = 0
  \/ LET h == s[1]
     IN /\ Len(s) = 1 /\ h.live
        /\ p.inFlight /\ OnRow(p, h.row)
        /\ OutOfDate(project, res) \subseteq CutsAfter(project, h.row)
        /\ h.answer.source # NoSource =>
             SourceIsCurrent(project, res, h.row, h.answer.source)

\* Nobody halts the plan, and no older generation was in its way.
Undisturbed == plan # None /\ ~Halted(plan) /\ "generation" \notin others
Going(res, s, p) == InWalk(res, p) /\ Awaited(res, s, p)
WalksOn == Undisturbed => Going(result, lane, plan)

LEMMA StepAtCursor ==
  ASSUME NEW p, IsPlan(p), ~AtEnd(p)
  PROVE  /\ p.cursor \in 1..Len(p.steps) /\ Len(p.steps) \in Nat
         /\ Current(p) = p.steps[p.cursor] /\ Current(p) \in PlanSteps
         /\ Current(p).kind = "generate" =>
              OnRow(p, Current(p).of) /\ Current(p).of \in StepRows(p.steps)
<1>1. p.cursor \in 1..Len(p.steps) /\ Len(p.steps) \in Nat
      BY LenProperties DEF IsPlan, AtEnd
<1>2. Current(p) = p.steps[p.cursor] /\ Current(p) \in PlanSteps
      BY <1>1, ElementOfSeq DEF IsPlan, Current
<1>3. ASSUME Current(p).kind = "generate"
      PROVE  Current(p) = Generate(Current(p).of)
      BY <1>2, <1>3 DEF PlanSteps, Generate
<1>4. QED BY <1>1, <1>2, <1>3 DEF OnRow, StepRows

\* The rows of the steps before the cursor cut before the row at it.
LEMMA DoneCutsBefore ==
  ASSUME NEW p, InWalk(result, p), NEW r, OnRow(p, r)
  PROVE  /\ r \in Present(project) \cap project.enabled
         /\ \A i \in 1..Len(p.steps) : i < p.cursor /\ p.steps[i].kind = "generate" =>
              p.steps[i].of \in CarveOrderBefore(project, r)
<1>1. /\ p.cursor \in 1..Len(p.steps)
      /\ p.steps[p.cursor].kind = "generate" /\ p.steps[p.cursor].of = r
      BY StepAtCursor DEF OnRow, InWalk, Generate
<1>2. r \in Present(project) \cap project.enabled
      BY <1>1 DEF InWalk, Lists, StepRows
<1>3. ASSUME NEW i \in 1..Len(p.steps), i < p.cursor, p.steps[i].kind = "generate"
      PROVE  p.steps[i].of \in CarveOrderBefore(project, r)
  <2>1. <<p.steps[i], p.steps[p.cursor]>> \in StepOrder
        BY <1>1, <1>3 DEF InWalk, Lists, InOrder
  <2>2. <<p.steps[i].of, r>> \in RowOrder
        BY <1>1, <1>3, <2>1 DEF StepOrder
  <2>3. QED BY <2>2 DEF RowOrder
<1>4. QED BY <1>2, <1>3

\* What keeps the results that cut before the row at the cursor keeps the account.
LEMMA AccountStays ==
  ASSUME NEW p, InWalk(result, p), NEW r, OnRow(p, r), NEW now,
         \A x \in CarveOrderBefore(project, r) : result[x] # None => now[x] # None
  PROVE  Accounted(now, p)
BY DoneCutsBefore DEF Accounted, InWalk

\* A step closes.
Advances(p, q, outcome) ==
  /\ q.steps = p.steps
  /\ q.outcomes = [p.outcomes EXCEPT ![p.cursor] = outcome]
  /\ q.cursor = p.cursor + 1
  /\ Halted(p) \/ outcome = "cancelled" => Halted(q)

LEMMA AdvanceAccounts ==
  ASSUME NEW p, IsPlan(p), ~AtEnd(p), NEW q, NEW outcome, Advances(p, q, outcome),
         NEW now, Accounted(now, p),
         Current(p).kind = "generate" =>
           now[Current(p).of] # None \/ outcome \in {"blocked", "failed"}
  PROVE  Accounted(now, q)
<1>1. p.cursor \in 1..Len(p.steps) /\ Len(p.steps) \in Nat /\ Current(p) = p.steps[p.cursor]
      BY StepAtCursor
<1>2. ASSUME NEW i \in 1..Len(p.steps), i < p.cursor + 1, p.steps[i].kind = "generate"
      PROVE  now[p.steps[i].of] # None \/ q.outcomes[i] \in {"blocked", "failed"}
  <2>1. CASE i = p.cursor
        BY <1>1, <1>2, <2>1 DEF Advances, IsPlan
  <2>2. CASE i # p.cursor
    <3>1. i < p.cursor /\ q.outcomes[i] = p.outcomes[i]
          BY <1>1, <1>2, <2>2 DEF Advances, IsPlan
    <3>2. QED BY <1>2, <3>1 DEF Accounted
  <2>3. QED BY <2>1, <2>2
<1>3. QED BY <1>2 DEF Accounted, Advances

LEMMA ClosedAdvances ==
  ASSUME NEW p, IsPlan(p), NEW outcome, outcome # "cancelled"
  PROVE  Advances(p, Closed(p, outcome), outcome)
BY DEF Advances, Closed, IsPlan, Fields, Halted

LEMMA CompletedAdvances ==
  ASSUME NEW p, IsPlan(p), p # None, NEW r, NEW outcome, p.inFlight, OnRow(p, r)
  PROVE  Advances(p, Completed(p, r, outcome), outcome)
<1> DEFINE here == IF r \in Present(project) THEN {SetupOf(project, r)} ELSE {}
           q == [p EXCEPT !.generated = @ \/ outcome = "done",
                          !.stuck     = @ \cup IF outcome \in {"blocked", "failed"} THEN here ELSE {},
                          !.cancelled = @ \/ outcome = "cancelled"]
<1>1. Completed(p, r, outcome) = Closed(q, outcome)
      BY DEF Completed
<1>2. /\ DOMAIN q = DOMAIN p /\ q.steps = p.steps /\ q.outcomes = p.outcomes
      /\ q.cursor = p.cursor
      /\ q.edited = p.edited
      /\ q.cancelled = (p.cancelled \/ outcome = "cancelled")
      BY DEF IsPlan, Fields
<1> HIDE DEF q
<1>3. LET c == Closed(q, outcome)
      IN /\ c.steps = q.steps /\ c.outcomes = [q.outcomes EXCEPT ![q.cursor] = outcome]
         /\ c.cursor = q.cursor + 1
         /\ c.edited = q.edited /\ c.cancelled = q.cancelled
      BY <1>2 DEF Closed, IsPlan, Fields
<1>4. Halted(p) \/ outcome = "cancelled" => Halted(Closed(q, outcome))
      BY <1>2, <1>3 DEF Halted
<1>5. QED BY <1>1, <1>2, <1>3, <1>4 DEF Advances

LEMMA SimulatedAdvances ==
  ASSUME NEW p, p # None => IsPlan(p), NEW outcome
  PROVE  \/ Simulated(p, outcome) = p
         \/ /\ p # None /\ ~AtEnd(p) /\ Current(p).kind # "generate"
            /\ Advances(p, Simulated(p, outcome), outcome)
<1> DEFINE q == [p EXCEPT !.cancelled = @ \/ outcome # "done"]
<1>1. SUFFICES ASSUME p # None, p.inFlight, OnSimulation(p)
               PROVE  Advances(p, Simulated(p, outcome), outcome)
      BY DEF Simulated, OnSimulation
<1>2. Simulated(p, outcome) = Closed(q, outcome)
      BY <1>1 DEF Simulated
<1>3. /\ DOMAIN q = DOMAIN p /\ q.steps = p.steps /\ q.outcomes = p.outcomes
      /\ q.cursor = p.cursor
      /\ q.edited = p.edited
      /\ q.cancelled = (p.cancelled \/ outcome # "done")
      BY <1>1 DEF IsPlan, Fields
<1> HIDE DEF q
<1>4. LET c == Closed(q, outcome)
      IN /\ c.steps = q.steps /\ c.outcomes = [q.outcomes EXCEPT ![q.cursor] = outcome]
         /\ c.cursor = q.cursor + 1
         /\ c.edited = q.edited /\ c.cancelled = q.cancelled
      BY <1>3 DEF Closed, IsPlan, Fields
<1>5. Halted(p) \/ outcome = "cancelled" => Halted(Closed(q, outcome))
      BY <1>3, <1>4 DEF Halted
<1>6. QED BY <1>2, <1>3, <1>4, <1>5 DEF Advances

-----------------------------------------------------------------------------
(* Each step of the session under the plan.                               *)

\* The walk reads the project, and no step under an undisturbed plan edits it.
LEMMA GoingHere ==
  ASSUME project' = project, Going(result', lane', plan')
  PROVE  Going(result, lane, plan)'
<1>1. StepOrder' = StepOrder
      BY DEF StepOrder, RowOrder
<1>2. QED BY <1>1 DEF Going, InWalk, Awaited, Lists

\* The step at the cursor gets its outcome, and the lane is idle.
LEMMA StepDone ==
  ASSUME NEW p, InWalk(result, p), NEW r, OnRow(p, r), NEW now,
         \A x \in Rows : result[x] # None /\ x \notin From(project, r) => now[x] # None,
         NEW q, IsPlan(q), NEW outcome, Advances(p, q, outcome),
         now[r] # None \/ outcome \in {"blocked", "failed"},
         NEW s, Len(s) = 0, ProjectOK(project)
  PROVE  Going(now, s, q)
<1>1. r \in Present(project) /\ Present(project) \subseteq Rows /\ IsPlan(p)
      BY DoneCutsBefore, Places DEF InWalk
<1>2. \A x \in CarveOrderBefore(project, r) : x \in Rows /\ x \notin From(project, r)
      BY <1>1, BeforeIsNotFrom, CutOrderIsStrict
<1>3. Accounted(now, p)
      BY <1>2, AccountStays
<1>4. ~AtEnd(p) /\ Current(p).of = r
      BY DEF OnRow, Generate
<1>5. Accounted(now, q)
      BY <1>1, <1>3, <1>4, AdvanceAccounts
<1>6. QED BY <1>5 DEF Going, InWalk, Awaited, Advances

\* The row at the cursor is refused or fails, and is forgotten.
LEMMA ForgottenGoesOn ==
  ASSUME Ordered, Typed, HeldTold, RegionsInOrder(project),
         NEW p, InWalk(result, p), NEW r, OnRow(p, r),
         OutOfDate(project, result) \subseteq CutsAfter(project, r),
         NEW handles, AreHandles(handles), Len(handles) = 0,
         Command(project, result, {r}, handles),
         NEW q, IsPlan(q), NEW outcome \in {"blocked", "failed"}, Advances(p, q, outcome)
  PROVE  project' = project /\ Going(result', lane', q)
<1>1. ProjectOK(project) /\ AreResults(result) /\ r \in Present(project)
      BY DoneCutsBefore DEF Typed
<1>2. {r} \in SUBSET From(project, r)
      BY DEF From
<1>3. /\ project' = project
      /\ \A x \in Rows : \/ result'[x] = result[x]
                         \/ result'[x] = None /\ x \in {r} \cup CutsAfter(project, r)
      /\ Len(lane') = Len(handles)
      BY <1>1, <1>2, CommandGoesOn
<1>4. \A x \in Rows : result[x] # None /\ x \notin From(project, r) => result'[x] # None
      BY <1>3 DEF From
<1>5. QED BY <1>1, <1>3, <1>4, StepDone

\* Its answer is adopted, and stays: nothing that cuts before it is dropped.
LEMMA AdoptedGoesOn ==
  ASSUME Ordered, Typed, HeldTold, LaneTold, RegionsInOrder(project),
         \A x : ResultOK(x) => x # None,
         NEW p, Going(result, lane, p), Len(lane) # 0, LandOk,
         NEW q, IsPlan(q), Advances(p, q, "done")
  PROVE  project' = project /\ Going(result', lane', q)
<1> DEFINE h == lane[1]
           r == h.row
           res == [result EXCEPT ![r] = h.answer]
           out == Walk(project, {r}, {})
<1>1. /\ ProjectOK(project) /\ AreResults(result) /\ AreHandles(lane)
      /\ Present(project) \subseteq Rows
      BY Places DEF Typed
<1>2. /\ Len(lane) = 1 /\ h.live /\ OnRow(p, r) /\ InWalk(result, p)
      /\ OutOfDate(project, result) \subseteq CutsAfter(project, r)
      /\ h.answer.source # NoSource => SourceIsCurrent(project, result, r, h.answer.source)
      BY DEF Going, Awaited
<1>3. lane # <<>> /\ Head(lane) = h /\ AreHandles(Tail(lane)) /\ Len(Tail(lane)) = 0
  <2>1. lane # <<>>
        BY DEF LandOk
  <2>2. QED BY <1>1, <1>2, <2>1, TailList, FewerAre DEF AreHandles
<1>4. r \in Present(project) /\ IsHandle(h)
      BY <1>1, <1>2, DoneCutsBefore DEF AreHandles
<1>5. Command(project, res, out, Tail(lane))
      BY <1>2, <1>3, <1>4 DEF LandOk
<1>6. Told(project, r, h.answer.source, HeldIn(result) \cup Ahead(lane, 1), Ordered)
  <2>1. 1 \in 1..Len(lane)
        BY <1>2
  <2>2. QED BY <1>2, <2>1 DEF LaneTold, LaneReads
<1>7. r \in Rows /\ IsAnswer(h.answer) /\ DOMAIN result = Rows /\ h.answer # None
      BY <1>1, <1>4 DEF IsHandle, AreResults, IsAnswer
<1>8. /\ res[r] = h.answer /\ \A x \in Rows \ {r} : res[x] = result[x]
      /\ AreResults(res)
      BY <1>1, <1>7 DEF HeldIn, AreResults
<1> HIDE DEF res, h, r
<1>9. out \subseteq CutsAfter(project, r) /\ out \in SUBSET From(project, r)
  <2>1. {r} \in SUBSET From(project, r) /\ {} \in SUBSET From(project, r)
        BY DEF From
  <2>2. QED BY <1>1, <1>4, <2>1, WalkGoesOn DEF From
<1> HIDE DEF out
<1>10. HoldsCurrent(project, result, res, r)
  <2>1. SUFFICES ASSUME h.answer.source # NoSource
                 PROVE  \A e \in h.answer.source.carved : e.row \in CarveOrderBefore(project, r)
        BY <1>2, <1>8 DEF HoldsCurrent
  <2>2. \A e \in h.answer.source.carved : e.row \in HeldIn(result) \cup Ahead(lane, 1)
        BY <1>1, <1>2, <2>1 DEF SourceIsCurrent, EntryStands, HeldIn
  <2>3. QED BY <1>1, <1>4, <1>6, <2>2, ToldCutsBefore
<1>11. /\ project' = project
       /\ \A x \in Rows : \/ result'[x] = res[x]
                          \/ result'[x] = None /\ x \in out \cup CutsAfter(project, r)
       /\ Len(lane') = Len(Tail(lane))
       BY <1>1, <1>2, <1>3, <1>4, <1>5, <1>8, <1>9, <1>10, CommandGoesOn
<1>12. r \notin out \cup CutsAfter(project, r)
       BY <1>1, <1>4, <1>9, CutOrderIsStrict DEF CutsAfter
<1>13. result'[r] # None
       BY <1>7, <1>8, <1>11, <1>12
<1>14. \A x \in Rows : result[x] # None /\ x \notin From(project, r) => result'[x] # None
       BY <1>8, <1>9, <1>11 DEF From
<1>15. QED BY <1>1, <1>2, <1>3, <1>11, <1>13, <1>14, StepDone

\* A simulation is adopted under the plan.
LEMMA SweepGoesOn ==
  ASSUME Ordered, Typed, HeldTold, LaneTold, RegionsInOrder(project), IdleIsSettled,
         NEW p, Going(result, lane, p), Command(project, result, {}, lane)
  PROVE  project' = project /\ Going(result', lane', p)
<1>1. ProjectOK(project) /\ AreResults(result) /\ AreHandles(lane) /\ Present(project) \subseteq Rows
      BY Places DEF Typed
<1>2. CASE Len(lane) = 0
  <2>1. OutOfDate(project, result) = {}
        BY <1>2 DEF IdleIsSettled, NothingLives
  <2>2. /\ project' = project /\ \A x \in Rows : result'[x] = result[x]
        /\ Len(lane') = 0
        BY <1>1, <1>2, <2>1, CommandIdles
  <2>3. \A i \in 1..Len(p.steps) : p.steps[i].kind = "generate" => p.steps[i].of \in Rows
        BY <1>1 DEF Going, InWalk, Lists, StepRows
  <2>4. Accounted(result', p)
        BY <2>2, <2>3 DEF Going, InWalk, Accounted
  <2>5. QED BY <2>2, <2>4 DEF Going, InWalk, Awaited
<1>3. CASE Len(lane) # 0
  <2> DEFINE h == lane[1]
             r == h.row
             src == h.answer.source
  <2>1. /\ Len(lane) = 1 /\ h.live /\ p.inFlight /\ OnRow(p, r) /\ InWalk(result, p)
        /\ OutOfDate(project, result) \subseteq CutsAfter(project, r)
        /\ src # NoSource => SourceIsCurrent(project, result, r, src)
        BY <1>3 DEF Going, Awaited
  <2>2. r \in Present(project) /\ Told(project, r, src, HeldIn(result) \cup Ahead(lane, 1), Ordered)
    <3>1. 1 \in 1..Len(lane)
          BY <2>1
    <3>2. Told(project, r, src, HeldIn(result) \cup Ahead(lane, 1), Ordered)
          BY <2>1, <3>1 DEF LaneTold, LaneReads
    <3> HIDE DEF h, r, src
    <3>3. QED BY <2>1, <3>2, DoneCutsBefore
  <2>3. ASSUME src # NoSource
        PROVE  \A e \in src.carved : e.row \in CarveOrderBefore(project, r)
    <3>1. \A e \in src.carved : e.row \in HeldIn(result) \cup Ahead(lane, 1)
          BY <1>1, <2>1, <2>3 DEF SourceIsCurrent, EntryStands, HeldIn
    <3> HIDE DEF h, r, src
    <3>2. QED BY <1>1, <2>2, <3>1, ToldCutsBefore
  <2>4. r \notin CutsAfter(project, r)
        BY <1>1, <2>2, CutOrderIsStrict DEF CutsAfter
  <2>5. r \in HeldIn(result) \ {} => HoldsCurrent(project, result, result, r)
        BY <2>1, <2>4, HeldIsCurrent
  <2>6. /\ project' = project /\ OutOfDate(project, result') = {}
        /\ \A x \in Rows : \/ result'[x] = result[x]
                           \/ result'[x] = None /\ x \in {} \cup CutsAfter(project, r)
        /\ Len(lane') = Len(lane)
        /\ \A i \in 1..Len(lane) :
             /\ lane'[i].row = lane[i].row /\ lane'[i].answer = lane[i].answer
             /\ lane[i].live /\ lane[i].row \notin {} \cup CutsAfter(project, r) => lane'[i].live
    <3> HIDE DEF h, r, src
    <3>1. {} \in SUBSET From(project, r)
          OBVIOUS
    <3>2. QED BY <1>1, <2>1, <2>2, <2>5, <3>1, CommandGoesOn
  <2>7. Len(lane') = 1 /\ lane'[1].row = r /\ lane'[1].answer = h.answer /\ lane'[1].live
    <3>1. 1 \in 1..Len(lane)
          BY <2>1
    <3>2. QED BY <2>1, <2>4, <2>6, <3>1
  <2> HIDE DEF h, r, src
  <2>8. \A x \in Rows : x \notin From(project, r) => result'[x] = result[x]
        BY <2>6 DEF From
  <2>9. Accounted(result', p)
    <3>1. \A x \in CarveOrderBefore(project, r) : x \in Rows /\ x \notin From(project, r)
          BY <1>1, <2>2, BeforeIsNotFrom, CutOrderIsStrict
    <3>2. QED BY <2>1, <2>8, <3>1, AccountStays
  <2>10. src # NoSource => SourceIsCurrent(project, result', r, src)
         BY <1>1, <2>1, <2>2, <2>3, <2>4, <2>8, CurrencyStays
  <2>11. Awaited(result', lane', p)
         BY <2>1, <2>6, <2>7, <2>10 DEF Awaited, src
  <2>12. QED BY <2>1, <2>6, <2>9, <2>11 DEF Going, InWalk
<1>4. QED BY <1>2, <1>3

\* What the walk does not read.
LEMMA SameWalk ==
  ASSUME NEW res, NEW s, NEW p, Going(res, s, p), NEW q, IsPlan(q), q.steps = p.steps,
         q.outcomes = p.outcomes, q.cursor = p.cursor, q.inFlight = p.inFlight
  PROVE  Going(res, s, q)
<1>1. \A r : OnRow(q, r) <=> OnRow(p, r)
      BY DEF OnRow, AtEnd, Current
<1>2. QED BY <1>1 DEF Going, InWalk, Awaited, Accounted

\* A row of the plan is submitted while the lane is idle.
LEMMA SubmitGoesOn ==
  ASSUME Ordered, Fresh, LaneInOrder, RegionsInOrder(project),
         \A x : IsPlan(x) => x # None,
         NEW p, InWalk(result, p), p.inFlight, NEW r, OnRow(p, r),
         OutOfDate(project, result) = {}, Len(lane) = 0,
         NEW stamps, SubmitToolpath(p, r, stamps), IsPlan(plan')
  PROVE  project' = project /\ Going(result', lane', plan')
<1>1. /\ Typed /\ HeldTold /\ SnapshotsTold(Ordered) /\ ProjectOK(project) /\ AreResults(result)
      /\ AreHandles(lane) /\ Present(project) \subseteq Rows
      BY Places DEF Fresh, Typed
<1>2. r \in Present(project) /\ r \notin CutsAfter(project, r)
      BY <1>1, DoneCutsBefore, CutOrderIsStrict DEF CutsAfter
<1>3. CASE ~CanStart(r)
  <2>1. PICK outcome \in {"blocked", "failed"} :
          Command(project, result, {r}, lane) /\ plan' = Completed(p, r, outcome)
        BY <1>3, Zenon DEF SubmitToolpath, Landed, Forget
  <2>2. Advances(p, Completed(p, r, outcome), outcome)
        BY CompletedAdvances DEF InWalk
  <2>3. OutOfDate(project, result) \subseteq CutsAfter(project, r)
        OBVIOUS
  <2>4. QED BY <1>1, <2>1, <2>2, <2>3, ForgottenGoesOn
<1>4. CASE CanStart(r)
  <2> DEFINE h == [row |-> r, live |-> TRUE, answer |-> Generated(r)]
             src == Generated(r).source
             res == [result EXCEPT ![r] = None]
  <2>1. Len(ran) \in Nat /\ {i \in (Len(ran) + 1)..Len(lane) : lane[i].row = r} = {}
        BY LaneFacts
  <2>2. /\ lane' = Append(lane, h) /\ result' = res
        /\ plan' = p /\ project' = project
        BY <1>4, <2>1 DEF SubmitToolpath
  <2>3. /\ h.row = r /\ h.live /\ h.answer.source = src
        OBVIOUS
  <2> HIDE DEF h
  <2>4. Len(lane') = 1 /\ lane'[1] = h
        BY <1>1, <2>2, AppendList, ListIs DEF AreHandles
  <2>5. /\ \A x \in Rows : x # r => res[x] = result[x]
        /\ HeldIn(res) \subseteq HeldIn(result) \ {r}
        BY <1>1 DEF AreResults, HeldIn
  <2> HIDE DEF res
  <2>6. \A x \in Present(project) \ From(project, r) : res[x] = result[x]
        BY <1>1, <2>5 DEF From
  <2>7. Accounted(res, p)
    <3>1. \A x \in CarveOrderBefore(project, r) : x \in Present(project) \ From(project, r)
          BY <1>1, <1>2, BeforeIsNotFrom, CutOrderIsStrict
    <3>2. QED BY <2>6, <3>1, AccountStays
  <2>8. OutOfDate(project, res) \subseteq CutsAfter(project, r)
    <3>1. SUFFICES ASSUME NEW y \in OutOfDate(project, res), y \notin CutsAfter(project, r)
                   PROVE  FALSE
          OBVIOUS
    <3>2. /\ y \in Present(project) /\ y \in HeldIn(result) /\ y # r /\ res[y] = result[y]
          /\ res[y].source # NoSource /\ ~SourceIsCurrent(project, res, y, res[y].source)
          BY <1>1, <2>5 DEF OutOfDate
    <3>3. /\ \A e \in res[y].source.carved : e.row \in CarveOrderBefore(project, y)
          /\ SourceIsCurrent(project, result, y, res[y].source)
          BY <1>1, <3>2, HeldIsCurrent DEF HoldsCurrent
    <3>4. SourceIsCurrent(project, res, y, res[y].source)
          BY <1>1, <1>2, <2>6, <3>1, <3>2, <3>3, CurrencyStays
    <3>5. QED BY <3>2, <3>4
  <2>9. ASSUME src # NoSource
        PROVE  SourceIsCurrent(project, res, r, src)
    <3>1. SourceIsCurrent(project, result, r, src)
          BY <1>4, <2>9 DEF Generated, CanStart, SnapshotIsCurrent
    <3>2. Told(project, r, src, Present(project), Ordered)
          BY <1>1, <1>2, <1>4, GeneratedIsTold
    <3> HIDE DEF src
    <3>3. \A e \in src.carved : e.row \in Present(project)
          BY <3>1 DEF SourceIsCurrent, EntryStands
    <3>4. \A e \in src.carved : e.row \in CarveOrderBefore(project, r)
          BY <1>1, <1>2, <3>2, <3>3, ToldCutsBefore
    <3>5. QED BY <1>1, <1>2, <2>6, <3>1, <3>4, CurrencyStays
  <2> HIDE DEF src
  <2>10. Awaited(res, lane', p)
         BY <2>3, <2>4, <2>8, <2>9 DEF Awaited
  <2>11. QED BY <2>2, <2>7, <2>10 DEF Going, InWalk
<1>5. QED BY <1>3, <1>4

\* The pump closes a step, or submits the one at the cursor on an idle lane.
LEMMA PumpGoesOn ==
  ASSUME Ordered, Fresh, LaneInOrder, RegionsInOrder(project), IdleIsSettled,
         \A x : IsPlan(x) => x # None,
         PlanTyped, PlanTyped', WalksOn, Pump, Undisturbed'
  PROVE  project' = project /\ Going(result', lane', plan')
<1>1. plan # None /\ IsPlan(plan) /\ plan' # None /\ IsPlan(plan') /\ others' = others
      BY DEF Pump, PumpWaits, PumpSubmits, FinishPlan, Pumping, PlanTyped, Undisturbed, driverVars
<1>2. CASE PumpWaits
  <2>1. /\ plan'.steps = plan.steps /\ plan'.outcomes = plan.outcomes
        /\ plan'.cursor = plan.cursor /\ plan'.inFlight = plan.inFlight
        /\ plan'.cancelled = plan.cancelled /\ plan'.edited = plan.edited
        BY <1>1, <1>2 DEF PumpWaits, IsPlan, Fields
  <2>2. Undisturbed
        BY <1>1, <2>1 DEF Undisturbed, Halted
  <2>3. UNCHANGED <<project, result, lane>>
        BY <1>2 DEF PumpWaits, sessionVars, vars
  <2>4. QED BY <1>1, <2>1, <2>2, <2>3, SameWalk DEF WalksOn
<1>3. CASE FinishPlan
      BY <1>1, <1>3 DEF FinishPlan
<1>4. CASE PumpSubmits
  <2> DEFINE p == [plan EXCEPT !.inFlight = TRUE]
             r == Current(p).of
  <2>1. /\ ~plan.inFlight /\ ~Halted(plan) /\ ~AtEnd(plan)
        /\ GenerateStep(p) \/ SimulateStep(p)
        BY <1>4 DEF PumpSubmits
  <2>2. Going(result, lane, plan)
        BY <1>1, <2>1 DEF WalksOn, Undisturbed
  <2>3. Len(lane) = 0
        BY <2>1, <2>2 DEF Going, Awaited
  <2>4. OutOfDate(project, result) = {}
        BY <2>3 DEF IdleIsSettled, NothingLives
  <2>5. /\ DOMAIN p = DOMAIN plan /\ p.steps = plan.steps /\ p.outcomes = plan.outcomes
        /\ p.cursor = plan.cursor /\ p.inFlight
        BY <1>1 DEF IsPlan, Fields
  <2> HIDE DEF p
  <2>6. IsPlan(p) /\ ~AtEnd(p)
        BY <1>1, <2>1, <2>5, NotedIsPlan
  <2>7. InWalk(result, p)
        BY <2>2, <2>5, <2>6 DEF Going, InWalk, Accounted
  <2>8. ASSUME plan' = Closed(p, "skipped"), UNCHANGED sessionVars,
               Current(p).kind = "generate" => result[Current(p).of] # None
        PROVE  project' = project /\ Going(result', lane', plan')
    <3>1. Advances(p, plan', "skipped")
          BY <2>6, <2>8, ClosedAdvances
    <3>2. Accounted(result, plan')
          BY <2>6, <2>7, <2>8, <3>1, AdvanceAccounts DEF InWalk
    <3>3. UNCHANGED <<project, result, lane>>
          BY <2>8 DEF sessionVars, vars
    <3>4. QED BY <1>1, <2>3, <2>7, <3>1, <3>2, <3>3 DEF Going, InWalk, Awaited, Advances
  <2>9. CASE GenerateStep(p)
    <3>1. OnRow(p, r) /\ r \in Present(project) /\ Current(p).kind = "generate"
      <4>1. Current(p).kind = "generate"
            BY <2>9 DEF GenerateStep
      <4>2. OnRow(p, r)
            BY <2>6, <4>1, StepAtCursor
      <4>3. QED BY <2>7, <4>1, <4>2, DoneCutsBefore
    <3>2. CASE p.target # r /\ result[r] # None
          BY <2>8, <2>9, <3>1, <3>2 DEF GenerateStep
    <3>3. CASE ~(p.target # r /\ result[r] # None)
      <4>1. SubmitToolpath(p, r, stale)
            BY <2>9, <3>1, <3>3 DEF GenerateStep
      <4> HIDE DEF r
      <4>2. QED BY <1>1, <2>3, <2>4, <2>5, <2>7, <3>1, <4>1, SubmitGoesOn
    <3>4. QED BY <3>2, <3>3
  <2>10. CASE SimulateStep(p)
    <3>1. Current(p).kind # "generate"
          BY <2>10 DEF SimulateStep, OnSimulation
    <3>2. CASE plan' = Closed(p, "skipped") /\ UNCHANGED sessionVars
          BY <2>8, <3>1, <3>2
    <3>3. CASE plan' = p /\ \E s \in Setups : SubmitSimulation(s)
      <4>1. UNCHANGED <<project, result, lane>>
            BY <3>3 DEF SubmitSimulation
      <4>2. QED BY <2>3, <2>7, <3>3, <4>1 DEF Going, Awaited
    <3>4. QED BY <2>10, <3>2, <3>3 DEF SimulateStep
  <2>11. QED BY <2>1, <2>9, <2>10
<1>5. QED BY <1>2, <1>3, <1>4 DEF Pump

\* An answer is drained.
LEMMA DrainGoesOn ==
  ASSUME Ordered, Fresh, LaneInOrder, RegionsInOrder(project),
         \A x : ResultOK(x) \/ IsPlan(x) => x # None,
         PlanTyped, PlanTyped', WalksOn, Drain, Undisturbed'
  PROVE  project' = project /\ Going(result', lane', plan')
<1>1. PICK r \in Rows : DrainOk(r) \/ DrainError(r) \/ DrainCancelled(r) \/ DrainRemoved(r)
      BY DEF Drain
<1>2. Draining(r) /\ others' = others /\ Len(lane) # 0 /\ r = Head(lane).row
  <2>1. Draining(r)
        BY <1>1 DEF DrainOk, DrainError, DrainCancelled, DrainRemoved
  <2>2. Len(ran) > 0 /\ Len(ran) <= Len(lane)
        BY <2>1, LaneFacts DEF Draining, LaneInOrder
  <2>3. QED BY <2>1, <2>2, LaneFacts DEF Draining
<1>3. /\ Typed /\ HeldTold /\ LaneTold /\ AreHandles(lane)
      /\ plan' # None /\ IsPlan(plan') /\ ~Halted(plan') /\ "generation" \notin others'
      BY DEF Fresh, Typed, PlanTyped, Undisturbed
<1>4. \/ plan' = plan
      \/ \E outcome : plan' = Completed(plan, r, outcome)
      BY <1>1 DEF DrainOk, DrainError, DrainCancelled, DrainRemoved, Landed
<1>5. plan # None
      BY <1>3, <1>4 DEF Completed
<1>6. IsPlan(plan)
      BY <1>5 DEF PlanTyped
<1>7. ~Halted(plan)
  <2>1. CASE plan' = plan
        BY <1>3, <2>1
  <2>2. CASE ~plan.inFlight \/ ~OnRow(plan, r)
        BY <1>3, <1>4, <2>2 DEF Completed
  <2>3. CASE plan.inFlight /\ OnRow(plan, r) /\ plan' # plan
    <3>1. PICK outcome : plan' = Completed(plan, r, outcome)
          BY <1>4, <2>3
    <3>2. Advances(plan, plan', outcome)
          BY <1>5, <1>6, <2>3, <3>1, CompletedAdvances
    <3>3. QED BY <1>3, <3>2 DEF Advances
  <2>4. QED BY <2>1, <2>2, <2>3
<1>8. Going(result, lane, plan) /\ InWalk(result, plan)
      BY <1>2, <1>3, <1>5, <1>7 DEF WalksOn, Undisturbed, Going
<1>9. lane # <<>> /\ Head(lane) = lane[1] /\ AreHandles(Tail(lane)) /\ Len(Tail(lane)) = 0
  <2>1. lane # <<>>
        BY <1>2, EmptyList
  <2>2. Len(lane) = 1
        BY <1>2, <1>8 DEF Going, Awaited
  <2>3. QED BY <1>3, <2>1, <2>2, TailList, FewerAre DEF AreHandles
<1>10. /\ Len(lane) = 1 /\ plan.inFlight /\ OnRow(plan, r)
       /\ OutOfDate(project, result) \subseteq CutsAfter(project, r)
       BY <1>2, <1>8, <1>9 DEF Going, Awaited
<1>11. r \in Present(project)
       BY <1>8, <1>10, DoneCutsBefore
<1>12. \A outcome : plan' = Completed(plan, r, outcome) => Advances(plan, plan', outcome)
       BY <1>5, <1>6, <1>10, CompletedAdvances
<1>13. CASE DrainOk(r)
  <2>1. LandOk /\ Advances(plan, plan', "done")
        BY <1>12, <1>13 DEF DrainOk, Landed
  <2>2. QED BY <1>2, <1>3, <1>8, <2>1, AdoptedGoesOn
<1>14. CASE DrainError(r)
  <2>1. Command(project, result, {r}, Tail(lane)) /\ Advances(plan, plan', "failed")
        BY <1>12, <1>14 DEF DrainError, Landed, Forget
  <2>2. QED BY <1>3, <1>8, <1>9, <1>10, <2>1, ForgottenGoesOn
<1>15. CASE DrainCancelled(r)
  <2>1. CASE r \in superseded
    <3>1. PICK i \in 1..Len(ran), j \in 1..Len(lane) : i < j
          BY <2>1 DEF LaneInOrder, MarkedHasNewer
    <3>2. QED BY <1>10, <3>1, LaneFacts
  <2>2. CASE r \notin superseded
    <3>1. Advances(plan, plan', "cancelled")
          BY <1>12, <1>15, <2>2 DEF DrainCancelled, Landed
    <3>2. QED BY <1>3, <3>1 DEF Advances
  <2>3. QED BY <2>1, <2>2
<1>16. CASE DrainRemoved(r)
       BY <1>11, <1>16 DEF DrainRemoved
<1>17. QED BY <1>1, <1>13, <1>14, <1>15, <1>16

\* A simulation is adopted, or lost.
LEMMA DrainSimulationGoesOn ==
  ASSUME Ordered, Fresh, RegionsInOrder(project), IdleIsSettled,
         PlanTyped, PlanTyped', WalksOn, DrainSimulation, Undisturbed'
  PROVE  project' = project /\ Going(result', lane', plan')
<1>1. /\ Typed /\ HeldTold /\ LaneTold /\ others' = others
      /\ plan' # None /\ IsPlan(plan') /\ ~Halted(plan') /\ "generation" \notin others'
      BY DEF Fresh, PlanTyped, Undisturbed, DrainSimulation
<1>2. PICK outcome : plan' = Simulated(plan, outcome)
      BY DEF DrainSimulation
<1>3. plan # None
      BY <1>1, <1>2 DEF Simulated
<1>4. IsPlan(plan)
      BY <1>3 DEF PlanTyped
<1>5. \/ plan' = plan
      \/ ~AtEnd(plan) /\ Current(plan).kind # "generate" /\ Advances(plan, plan', outcome)
      BY <1>2, <1>4, SimulatedAdvances
<1>6. Going(result, lane, plan)
      BY <1>1, <1>3, <1>5 DEF WalksOn, Undisturbed, Advances
<1>7. project' = project /\ Going(result', lane', plan)
  <2>1. \/ Command(project, result, {}, lane)
        \/ UNCHANGED <<project, result, lane>>
        BY DEF DrainSimulation, LandSimulation, LoseSimulation
  <2>2. CASE UNCHANGED <<project, result, lane>>
        BY <1>6, <2>2
  <2>3. CASE Command(project, result, {}, lane)
        BY <1>1, <1>6, <2>3, SweepGoesOn
  <2>4. QED BY <2>1, <2>2, <2>3
<1>8. CASE plan' = plan
      BY <1>7, <1>8
<1>9. CASE ~AtEnd(plan) /\ Current(plan).kind # "generate" /\ Advances(plan, plan', outcome)
  <2>1. Accounted(result', plan')
        BY <1>4, <1>7, <1>9, AdvanceAccounts DEF Going, InWalk
  <2>2. \A r : ~OnRow(plan, r)
        BY <1>9 DEF OnRow, Generate
  <2>3. Len(lane') = 0
        BY <1>7, <2>2 DEF Going, Awaited
  <2>4. QED BY <1>1, <1>7, <1>9, <2>1, <2>3 DEF Going, InWalk, Awaited, Advances
<1>10. QED BY <1>5, <1>8, <1>9

\* A plan starts, behind no older generation.
LEMMA StartGoesOn ==
  ASSUME Typed, NEW rows, NEW steps, NEW target, StartPlan(steps, target),
         steps \in {WithClosing(StepsFor(rows)), OnlyGenerates(StepsFor(rows))},
         Undisturbed'
  PROVE  project' = project /\ Going(result', lane', plan')
<1>1. ProjectOK(project) /\ AreHandles(lane)
      BY DEF Typed
<1>2. UNCHANGED <<project, result, lane>> /\ plan' = NewPlan(steps, target)
      BY DEF StartPlan, sessionVars, vars
<1>3. Len(lane) = 0
  <2>1. DOMAIN lane = {}
        BY DEF StartPlan, Undisturbed
  <2>2. Len(lane) \in Nat /\ DOMAIN lane = 1..Len(lane)
        BY <1>1, ListIs DEF AreHandles
  <2>3. QED BY <2>1, <2>2
<1>4. Lists(steps, Present(project) \cap project.enabled) /\ steps \in Seq(PlanSteps)
      BY <1>1, PlannedInOrder, PlannedLists
<1>5. IsPlan(plan')
      BY <1>2, <1>4, NewIsPlan
<1>6. plan'.steps = steps /\ plan'.cursor = 1
      BY <1>2 DEF NewPlan
<1>7. Accounted(result, plan')
      BY <1>6 DEF Accounted
<1>8. QED BY <1>2, <1>3, <1>4, <1>5, <1>6, <1>7 DEF Going, InWalk, Awaited

\* Nobody else keeps a plan undisturbed and touches what it walks on.
LEMMA OthersGoOn ==
  ASSUME Typed, PlanTyped, WalksOn, Undisturbed',
         \/ Take \/ Finish \/ UNCHANGED planVars
         \/ GenerateAll \/ GenerateAllOnce
         \/ \E s \in Setups : GenerateSetupOnly(s)
         \/ \E r \in Rows : GenerateToolpath(r) \/ AutoRegen(r)
         \/ CancelPlan \/ CancelGeneration \/ RunSimulation \/ AnalysisFalls \/ EditProject
  PROVE  project' = project /\ Going(result', lane', plan')
<1>1. CASE \/ Take \/ Finish \/ UNCHANGED planVars
           \/ CancelGeneration \/ RunSimulation \/ AnalysisFalls
  <2>1. UNCHANGED <<plan, project, result, lane>> /\ others \subseteq others'
        BY <1>1 DEF Take, Finish, CancelGeneration, RunSimulation, AnalysisFalls,
                    SubmitSimulation, VanishSimulation, planVars, driverVars, sessionVars, vars
  <2>2. Undisturbed
        BY <2>1 DEF Undisturbed
  <2>3. QED BY <2>1, <2>2 DEF WalksOn
<1>2. CASE GenerateAll \/ GenerateAllOnce \/ (\E s \in Setups : GenerateSetupOnly(s))
           \/ (\E r \in Rows : GenerateToolpath(r))
  <2>1. PICK rows, steps, target :
          /\ StartPlan(steps, target)
          /\ steps \in {WithClosing(StepsFor(rows)), OnlyGenerates(StepsFor(rows))}
        BY <1>2 DEF GenerateAll, GenerateAllOnce, GenerateSetupOnly, GenerateToolpath
  <2>2. QED BY <2>1, StartGoesOn
<1>3. CASE CancelPlan \/ EditProject
  <2>1. plan' # None /\ ~Halted(plan')
        BY DEF Undisturbed
  <2>2. plan # None
        BY <1>3, <2>1 DEF CancelPlan, EditProject
  <2>3. IsPlan(plan)
        BY <2>2 DEF PlanTyped
  <2>4. plan'.cancelled \/ plan'.edited
        BY <1>3, <2>2, <2>3 DEF CancelPlan, EditProject, IsPlan, Fields
  <2>5. QED BY <2>1, <2>4 DEF Halted
<1>4. CASE \E r \in Rows : AutoRegen(r)
  <2>1. plan' = None
        BY <1>4 DEF AutoRegen, SubmitToolpath, Landed, Completed
  <2>2. QED BY <2>1 DEF Undisturbed
<1>5. QED BY <1>1, <1>2, <1>3, <1>4

\* Every step keeps the walk of a plan that stays undisturbed.
LEMMA WalkGoesOnStep ==
  ASSUME Ordered, Fresh, LaneInOrder, RegionsInOrder(project), IdleIsSettled,
         \A x : ResultOK(x) \/ IsPlan(x) => x # None,
         PlanTyped, WalksOn, [PlanNext]_planVars
  PROVE  WalksOn'
<1>1. SUFFICES ASSUME Undisturbed' PROVE Going(result, lane, plan)'
      BY DEF WalksOn
<1>2. Typed /\ ProjectOK(project)
      BY DEF Fresh, Typed
<1>3. PlanTyped'
      BY <1>2, PlanTypedStep
<1>4. project' = project /\ Going(result', lane', plan')
  <2>1. CASE Pump
        BY <1>1, <1>3, <2>1, PumpGoesOn
  <2>2. CASE Drain
        BY <1>1, <1>3, <2>2, DrainGoesOn
  <2>3. CASE DrainSimulation
        BY <1>1, <1>3, <2>3, DrainSimulationGoesOn
  <2>4. CASE ~(Pump \/ Drain \/ DrainSimulation)
        BY <1>1, <1>2, <2>4, OthersGoOn DEF PlanNext
  <2>5. QED BY <2>1, <2>2, <2>3, <2>4
<1>5. QED BY <1>4, GoingHere

\* A plan goes away when the pump finishes it, and by no other step.
LEMMA OnlyFinishEnds ==
  ASSUME PlanTyped, ProjectOK(project), \A x : IsPlan(x) => x # None,
         [PlanNext]_planVars, Ends
  PROVE  FinishPlan
<1>1. plan # None /\ plan' = None /\ IsPlan(plan) /\ ~IsPlan(None)
      BY DEF Ends, PlanTyped
<1>2. CASE Pump
      BY <1>1, <1>2, PumpKeepsPlan
<1>3. CASE Drain \/ DrainSimulation
      BY <1>1, <1>3, DrainKeepsPlan
<1>4. CASE \/ GenerateAll \/ GenerateAllOnce
           \/ (\E s \in Setups : GenerateSetupOnly(s))
           \/ (\E r \in Rows : GenerateToolpath(r))
  <2>1. plan = None
        BY <1>4 DEF GenerateAll, GenerateAllOnce, GenerateSetupOnly, GenerateToolpath, StartPlan
  <2>2. QED BY <1>1, <2>1
<1>5. CASE \E r \in Rows : AutoRegen(r)
      BY <1>1, <1>5 DEF AutoRegen
<1>6. CASE CancelPlan \/ EditProject
  <2>1. PICK p : /\ plan' = p /\ DOMAIN p = DOMAIN plan /\ p.steps = plan.steps
                 /\ p.outcomes = plan.outcomes /\ p.cursor = plan.cursor
                 /\ p.inFlight = plan.inFlight
        BY <1>1, <1>6 DEF CancelPlan, EditProject, IsPlan, Fields
  <2>2. IsPlan(plan')
        BY <1>1, <2>1, NotedIsPlan DEF IsPlan
  <2>3. QED BY <1>1, <2>2
<1>7. CASE \/ Take \/ Finish \/ UNCHANGED planVars
           \/ CancelGeneration \/ RunSimulation \/ AnalysisFalls
  <2>1. plan' = plan
        BY <1>7 DEF Take, Finish, CancelGeneration, RunSimulation, AnalysisFalls, planVars
  <2>2. QED BY <1>1, <2>1
<1>8. QED BY <1>2, <1>3, <1>4, <1>5, <1>6, <1>7 DEF PlanNext

\* At its end the account covers every step.
LEMMA EndAccounts ==
  ASSUME ProjectOK(project), HeldResultsAreFresh, InWalk(result, plan), AtEnd(plan),
         NEW i \in DOMAIN plan.steps, plan.steps[i].kind = "generate"
  PROVE  LET r == plan.steps[i].of
         IN \/ result[r] # None /\ (InputsHeld(r) => IsFresh(r))
            \/ plan.outcomes[i] \in {"blocked", "failed"}
<1> DEFINE r == plan.steps[i].of
<1>1. i \in 1..Len(plan.steps) /\ Len(plan.steps) \in Nat
      BY LenProperties DEF InWalk, IsPlan
<1>2. i < plan.cursor
      BY <1>1 DEF InWalk, IsPlan, AtEnd
<1>3. r \in Present(project) \cap project.enabled /\ Present(project) \subseteq Rows
      BY <1>1, Places DEF InWalk, Lists, StepRows
<1>4. result[r] # None \/ plan.outcomes[i] \in {"blocked", "failed"}
      BY <1>1, <1>2 DEF InWalk, Accounted
<1>5. result[r] # None => (InputsHeld(r) => IsFresh(r))
      BY <1>3 DEF HeldResultsAreFresh, HeldIn
<1>6. QED BY <1>4, <1>5

\* A plan that walks to its end undisturbed (pump_plan, finish_plan) has made
\* every row of its scope current or reported it, whatever failed, was simulated,
\* removed or resubmitted under it: as long as there is no reorder; no row
\* changes setups and no setup is turned over, or no adopted simulation is older
\* than an edit; and a boundary is clipped only by a row that cuts earlier.
\* None is no record.
THEOREM PlanLeavesNoRowBehind ==
  ASSUME "reorder" \notin Edits, \A x : ResultOK(x) \/ IsPlan(x) => x # None
  PROVE  PlanSpec /\ (PlacesFixed \/ AdoptedSimulationIsLive) /\ []RegionsInOrder(project)
           => AllAccountedFor
<1> DEFINE Kept == Fresh /\ LaneInOrder /\ PlanTyped /\ HeldResultsAreFresh
                   /\ RegionsInOrder(project)
           Idle == NewestLives(lane) /\ IdleIsSettled
           Account ==
             [Ends /\ ~Halted(plan) /\ "generation" \notin others =>
                \A i \in DOMAIN plan.steps :
                  LET r == plan.steps[i].of
                  IN plan.steps[i].kind = "generate" =>
                       \/ result[r] # None /\ (InputsHeld(r) => IsFresh(r))
                       \/ plan.outcomes[i] \in {"blocked", "failed"}]_planVars
<1>1. PlanInit => LaneInOrder /\ PlanTyped /\ Idle /\ WalksOn
  <2>1. PlanInit => LaneInOrder /\ PlanTyped
        BY EmptyRecords, EmptySeq DEF PlanInit, Init, PlanTyped, LaneInOrder, MarkedHasNewer
  <2>2. PlanInit => Idle
        BY SettledIdleInit DEF PlanInit
  <2>3. PlanInit => WalksOn
        BY DEF PlanInit, WalksOn, Undisturbed
  <2>4. QED BY <2>1, <2>2, <2>3
<1>2. LaneInOrder /\ [PlanNext]_planVars => LaneInOrder' /\ [Next]_vars
      BY PlanStep
<1>3. PlanTyped /\ TypeOK /\ [PlanNext]_planVars => PlanTyped'
      BY PlanTypedStep DEF TypeOK
<1>4. Fresh /\ Idle /\ [Next]_vars => Idle'
      BY SettledIdleStep DEF Fresh
<1>5. Kept /\ Idle /\ WalksOn /\ [PlanNext]_planVars => WalksOn'
      BY WalkGoesOnStep DEF Ordered
<1>6. Kept /\ WalksOn /\ [PlanNext]_planVars => Account
  <2>1. SUFFICES ASSUME Kept, WalksOn, [PlanNext]_planVars, Ends, ~Halted(plan),
                        "generation" \notin others,
                        NEW i \in DOMAIN plan.steps, plan.steps[i].kind = "generate"
                 PROVE  LET r == plan.steps[i].of
                        IN \/ result[r] # None /\ (InputsHeld(r) => IsFresh(r))
                           \/ plan.outcomes[i] \in {"blocked", "failed"}
        BY Zenon
  <2>2. ProjectOK(project) /\ PlanTyped /\ HeldResultsAreFresh
        BY <2>1 DEF Fresh, Typed
  <2>3. AtEnd(plan)
        BY <2>1, <2>2, OnlyFinishEnds DEF FinishPlan
  <2>4. InWalk(result, plan)
        BY <2>1 DEF WalksOn, Undisturbed, Going, Ends
  <2>5. QED BY <2>1, <2>2, <2>3, <2>4, EndAccounts
<1>7. PlanSpec => Spec /\ []TypeOK
      BY DriverStaysInSession, TypeCorrect, PTL DEF StaysInSession
<1>8. Spec /\ (PlacesFixed \/ AdoptedSimulationIsLive) => []Fresh
      BY FreshAlways
<1>9. Spec /\ (PlacesFixed \/ AdoptedSimulationIsLive) => []HeldResultsAreFresh
      BY NoStaleResult
<1>10. PlanSpec => [](LaneInOrder /\ PlanTyped)
       BY <1>1, <1>2, <1>3, <1>7, PTL DEF PlanSpec
<1>11. PlanSpec /\ []Fresh => []Idle
       BY <1>1, <1>2, <1>4, <1>10, PTL DEF PlanSpec
<1>12. PlanSpec /\ []Kept /\ []Idle => []WalksOn
       BY <1>1, <1>5, PTL DEF PlanSpec
<1>13. QED BY <1>6, <1>7, <1>8, <1>9, <1>10, <1>11, <1>12, PTL DEF PlanSpec, AllAccountedFor

\* Rows that stay where they are stay in the order of their boundaries.
LEMMA RegionsStay ==
  ASSUME NEW p, ProjectOK(p), RegionsInOrder(p), NEW q, ProjectOK(q),
         q.regions = p.regions, Present(q) \subseteq Present(p), StayPut(p, q, Present(q), TRUE)
  PROVE  RegionsInOrder(q)
<1>1. SUFFICES ASSUME NEW r \in Present(q), NEW x \in Present(q), q.regions[r] = x
               PROVE  x \in CarveOrderBefore(q, r)
      BY DEF RegionsInOrder
<1>2. r \in Present(p) /\ x \in Present(p) /\ x \in CarveOrderBefore(p, r)
      BY <1>1 DEF RegionsInOrder
<1>3. SetupOf(q, r) = SetupOf(p, r) /\ SetupOf(q, x) = SetupOf(p, x)
      BY <1>1 DEF StayPut
<1>4. CASE x \in Above(p, r)
  <2>1. x \in StockRows(q, r)
        BY <1>1, <1>4 DEF StockRows, StayPut
  <2>2. QED BY <1>1, <2>1, StockIsBefore
<1>5. CASE x \in RowsOf(p, 1..(SetupOf(p, r) - 1))
  <2>1. PICK s \in 1..(SetupOf(p, r) - 1) : x \in Range(p.order[s])
        BY <1>5 DEF RowsOf
  <2>2. s \in Setups
        BY <1>2, <2>1, Places, SetupsAssumption DEF Setups
  <2>3. SetupOf(q, x) = s /\ x \in Range(q.order[s])
        BY <1>1, <1>3, <2>1, <2>2, Places
  <2>4. QED BY <1>3, <2>1, <2>3 DEF CarveOrderBefore, RowsOf
<1>6. QED BY <1>2, <1>4, <1>5 DEF CarveOrderBefore

\* The edits that neither add, move nor clip a row.
EditsInPlace == Edits \cap {"face", "move", "reorder", "boundary", "add", "bore"} = {}

\* Such edits, and whatever else the session does, keep the boundaries in order.
LEMMA RegionsStep ==
  ASSUME EditsInPlace, Typed, RegionsInOrder(project), [Next]_vars
  PROVE  RegionsInOrder(project')
<1>1. ProjectOK(project)
      BY DEF Typed
<1>2. CASE SomeEdit
  <2>1. PICK kind \in Edits : \E q, out, handles :
          Command(q, result, out, handles) /\ KeepsOthers(project, q, kind, out)
        BY <1>1, <1>2, EditCarries
  <2>2. PICK out : KeepsOthers(project, project', kind, out)
        BY <2>1 DEF Command
  <2>3. project'.regions = project.regions /\ project'.minted = project.minted
    <3>1. ASSUME NEW k, NEW q, NEW dropped, Edit(k, q, dropped)
          PROVE  project' = q /\ k \notin {"face", "move", "reorder", "boundary", "add", "bore"}
          BY <3>1 DEF Edit, Command, EditsInPlace
    <3>2. \/ \E r \in Present(project) : \E v \in Params : SetParam(r, v)
          \/ \E r \in Present(project) : SetEnabled(r) \/ SetStockSource(r) \/ Remove(r)
          \/ \E s \in Setups : SetStockChange(s)
          BY <1>2, <3>1, Zenon DEF SomeEdit, SetBoundary, Reorder, MoveToSetup, AddBore, Add, SetFace
    <3>3. CASE \E r \in Present(project) : \E v \in Params : SetParam(r, v)
          BY <1>1, <3>1, <3>3 DEF SetParam, ProjectOK, Project
    <3>4. CASE \E r \in Present(project) : SetEnabled(r)
          BY <1>1, <3>1, <3>4 DEF SetEnabled, ProjectOK, Project
    <3>5. CASE \E r \in Present(project) : SetStockSource(r)
          BY <1>1, <3>1, <3>5 DEF SetStockSource, ProjectOK, Project
    <3>6. CASE \E r \in Present(project) : Remove(r)
          BY <1>1, <3>1, <3>6 DEF Remove, Command, ProjectOK, Project
    <3>7. CASE \E s \in Setups : SetStockChange(s)
          BY <1>1, <3>1, <3>7 DEF SetStockChange, ProjectOK, Project
    <3>8. QED BY <3>2, <3>3, <3>4, <3>5, <3>6, <3>7
  <2>4. Present(project') \subseteq Present(project)
        BY <2>2, <2>3 DEF KeepsOthers, ProjectOK
  <2>5. kind \notin {"face", "move", "reorder"}
        BY DEF EditsInPlace
  <2>6. StayPut(project, project', Present(project'), TRUE)
    <3>1. PICK moved : /\ moved = {}
                       /\ StayPut(project, project', (Present(project) \cap Present(project')) \ moved, TRUE)
          BY <2>2, <2>5 DEF KeepsOthers
    <3>2. (Present(project) \cap Present(project')) \ moved = Present(project')
          BY <2>4, <3>1
    <3>3. QED BY <3>1, <3>2
  <2>7. ProjectOK(project')
        BY <2>2 DEF KeepsOthers
  <2>8. QED BY <1>1, <2>3, <2>4, <2>6, <2>7, RegionsStay
<1>3. CASE ~SomeEdit
  <2>1. project' = project
        BY <1>3 DEF Next, Submit, Forget, LandOk, LandErr, SubmitSimulation, LandSimulation,
                    LoseSimulation, VanishSimulation, Command, vars
  <2>2. QED BY <2>1
<1>4. QED BY <1>2, <1>3

\* The same from the constants alone: the edits leave rows and boundaries where
\* the project has them, and every project opens with its boundaries in order.
THEOREM EditedInPlaceNoRowIsLeft ==
  ASSUME EditsInPlace, \A p \in Projects : RegionsInOrder(p),
         \A x : ResultOK(x) \/ IsPlan(x) => x # None
  PROVE  PlanSpec => AllAccountedFor
<1>1. Init => RegionsInOrder(project)
      BY DEF Init
<1>2. Fresh /\ RegionsInOrder(project) /\ [Next]_vars => RegionsInOrder(project)'
      BY RegionsStep DEF Fresh
<1>3. PlacesFixed /\ "reorder" \notin Edits
      BY DEF PlacesFixed, EditsInPlace
<1>4. Spec => []Fresh
      BY <1>3, FreshAlways
<1>5. Spec => []RegionsInOrder(project)
      BY <1>1, <1>2, <1>4, PTL DEF Spec
<1>6. PlanSpec => Spec
      BY DriverStaysInSession DEF StaysInSession
<1>7. PlanSpec /\ (PlacesFixed \/ AdoptedSimulationIsLive) /\ []RegionsInOrder(project)
        => AllAccountedFor
      BY <1>3, PlanLeavesNoRowBehind
<1>8. QED BY <1>3, <1>5, <1>6, <1>7, PTL

=============================================================================
