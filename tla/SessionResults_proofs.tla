----------------------- MODULE SessionResults_proofs -----------------------
(***************************************************************************)
(* What SessionResults promises for every project, setup and edit.         *)
(*                                                                         *)
(* The walk and the sweep are recursive functions over growing sets of     *)
(* rows: that they close is shown once (ClosureSettles), by well-founded   *)
(* induction on what is left to take.  An edit is then told by what it     *)
(* leaves alone (KeepsOthers), a command by what its sweep leaves          *)
(* (CommandIs), and the stock records of snapshots, results and handles by *)
(* what they still say of the project (SnapshotsTold, HeldTold, LaneTold). *)
(***************************************************************************)
EXTENDS SessionResults, SequenceTheorems, FiniteSetTheorems, WellFoundedInduction, TLAPS

-----------------------------------------------------------------------------
(* Recursion that adds to a set until a step adds nothing, over the sets   *)
(* of a finite set R.  N[d] is what the step adds to d.                    *)

Grows(R, N) ==
  /\ N \in [SUBSET R -> SUBSET R]
  /\ \A d \in SUBSET R : N[d] # {} => ~(N[d] \subseteq d)

Closes(R, N, f) == f = [d \in SUBSET R |-> IF N[d] = {} THEN d ELSE f[d \cup N[d]]]

\* The families of sets that d and every later step from d are in.
Orbits(R, N, d) == {A \in SUBSET SUBSET R : d \in A /\ \A c \in A : c \cup N[c] \in A}
Orbit(R, N, d)  == {c \in SUBSET R : \A A \in Orbits(R, N, d) : c \in A}

\* A set that its step leaves alone is its own limit; any other has the limit of
\* the set its step makes of it.
LEMMA OrbitSteps ==
  ASSUME NEW R, NEW N, Grows(R, N), NEW d \in SUBSET R
  PROVE  /\ N[d] = {} => UNION Orbit(R, N, d) = d
         /\ d \cup N[d] \in SUBSET R
         /\ N[d] # {} => UNION Orbit(R, N, d) = UNION Orbit(R, N, d \cup N[d])
<1> DEFINE e == d \cup N[d]
<1>1. e \in SUBSET R /\ \A c \in SUBSET R : c \cup N[c] \in SUBSET R
      BY DEF Grows
<1>2. \A c \in SUBSET R : c \in Orbit(R, N, c)
      BY DEF Orbit, Orbits
<1>3. \A c, b \in SUBSET R : b \in Orbit(R, N, c) => b \cup N[b] \in Orbit(R, N, c)
      BY <1>1 DEF Orbit, Orbits
<1>4. ASSUME N[d] = {} PROVE UNION Orbit(R, N, d) = d
  <2>1. {d} \in Orbits(R, N, d)
        BY <1>4 DEF Orbits
  <2>2. Orbit(R, N, d) = {d}
        BY <2>1, <1>2 DEF Orbit
  <2>3. QED BY <2>2
<1>5. Orbit(R, N, d) = {d} \cup Orbit(R, N, e)
  <2>1. {d} \cup Orbit(R, N, e) \in Orbits(R, N, d)
    <3>1. {d} \cup Orbit(R, N, e) \in SUBSET SUBSET R
          BY DEF Orbit
    <3>2. \A c \in {d} \cup Orbit(R, N, e) : c \cup N[c] \in {d} \cup Orbit(R, N, e)
          BY <1>1, <1>2, <1>3 DEF Orbit
    <3>3. QED BY <3>1, <3>2 DEF Orbits
  <2>2. Orbit(R, N, d) \in Orbits(R, N, e)
    <3>1. e \in Orbit(R, N, d)
          BY <1>2, <1>3
    <3>2. QED BY <1>3, <3>1 DEF Orbits, Orbit
  <2>3. QED BY <1>2, <2>1, <2>2 DEF Orbit
<1>6. UNION Orbit(R, N, d) = UNION Orbit(R, N, e)
  <2>1. d \subseteq UNION Orbit(R, N, e)
        BY <1>1, <1>2
  <2>2. QED BY <1>5, <2>1
<1>7. QED BY <1>1, <1>4, <1>6

\* So there is a function that the recursion defines.
LEMMA ClosureExists == ASSUME NEW R, NEW N, Grows(R, N) PROVE \E f : Closes(R, N, f)
<1> DEFINE f == [d \in SUBSET R |-> UNION Orbit(R, N, d)]
<1>1. ASSUME NEW d \in SUBSET R
      PROVE  f[d] = IF N[d] = {} THEN d ELSE f[d \cup N[d]]
  <2>1. /\ N[d] = {} => UNION Orbit(R, N, d) = d
        /\ d \cup N[d] \in SUBSET R
        /\ N[d] # {} => UNION Orbit(R, N, d) = UNION Orbit(R, N, d \cup N[d])
        BY OrbitSteps
  <2>2. f[d] = UNION Orbit(R, N, d) /\ f[d \cup N[d]] = UNION Orbit(R, N, d \cup N[d])
        BY <2>1
  <2> HIDE DEF f
  <2>3. CASE N[d] = {}
        BY <2>1, <2>2, <2>3
  <2>4. CASE N[d] # {}
        BY <2>1, <2>2, <2>4
  <2>5. QED BY <2>3, <2>4
<1>2. f = [d \in SUBSET R |-> f[d]]
      OBVIOUS
<1>3. \A d \in SUBSET R : f[d] = IF N[d] = {} THEN d ELSE f[d \cup N[d]]
      BY <1>1
<1> HIDE DEF f
<1>4. f = [d \in SUBSET R |-> IF N[d] = {} THEN d ELSE f[d \cup N[d]]]
      BY <1>2, <1>3, Zenon
<1>5. QED BY <1>4 DEF Closes

\* In a finite set of sets there is a largest.
LEMMA FiniteMax ==
  ASSUME NEW R, IsFiniteSet(R), NEW T \in SUBSET SUBSET R, T # {}
  PROVE  \E x \in T : \A y \in T : x \subseteq y => x = y
<1> DEFINE U == {R \ t : t \in T}
<1>1. IsWellFoundedOn(StrictSubsetOrdering(R), SUBSET R)
      BY FS_StrictSubsetOrderingWellFounded, FS_FiniteSubsetsOfFinite
<1>2. U \subseteq SUBSET R /\ U # {}
  <2>1. PICK t \in T : TRUE
        OBVIOUS
  <2>2. R \ t \in U
        BY <2>1
  <2>3. U \subseteq SUBSET R
        OBVIOUS
  <2> HIDE DEF U
  <2>4. QED BY <2>2, <2>3
<1>3. PICK u \in U : \A v \in U : <<v, u>> \notin StrictSubsetOrdering(R)
      BY <1>1, <1>2, WFMin, Zenon
<1>4. PICK x \in T : u = R \ x
      BY <1>3
<1>5. ASSUME NEW y \in T, x \subseteq y PROVE x = y
  <2>1. <<R \ y, R \ x>> \notin StrictSubsetOrdering(R)
        BY <1>3, <1>4
  <2>2. ~(R \ y \subseteq R \ x /\ R \ y # R \ x)
        BY <2>1 DEF StrictSubsetOrdering
  <2>3. QED BY <1>5, <2>2
<1>6. QED BY <1>5

\* Every such function ends in a set that its step leaves alone.
LEMMA ClosureSettles ==
  ASSUME NEW R, IsFiniteSet(R), NEW N, Grows(R, N), NEW f, Closes(R, N, f),
         NEW d \in SUBSET R
  PROVE  f[d] \in SUBSET R /\ d \subseteq f[d] /\ N[d] \subseteq f[d] /\ N[f[d]] = {}
<1> DEFINE P(c) == f[c] \in SUBSET R /\ c \subseteq f[c] /\ N[c] \subseteq f[c] /\ N[f[c]] = {}
           T == {c \in SUBSET R : ~P(c)}
<1>1. \A c \in SUBSET R : f[c] = IF N[c] = {} THEN c ELSE f[c \cup N[c]]
      BY DEF Closes
<1>2. SUFFICES ASSUME T # {} PROVE FALSE
      OBVIOUS
<1> HIDE DEF P
<1>3. T \in SUBSET SUBSET R
      OBVIOUS
<1>4. PICK c \in T : \A y \in T : c \subseteq y => c = y
  <2> HIDE DEF T
  <2>1. QED BY <1>2, <1>3, FiniteMax
<1>5. c \in SUBSET R /\ ~P(c)
      OBVIOUS
<1>6. CASE N[c] = {}
      BY <1>1, <1>5, <1>6 DEF P
<1>7. CASE N[c] # {}
  <2>1. c \cup N[c] \in SUBSET R /\ c \cup N[c] # c
        BY <1>5, <1>7 DEF Grows
  <2>2. P(c \cup N[c])
        BY <1>4, <2>1
  <2>3. f[c] = f[c \cup N[c]]
        BY <1>1, <1>5, <1>7
  <2>4. QED BY <1>5, <2>2, <2>3 DEF P
<1>8. QED BY <1>6, <1>7

\* A closure stays in a set that its steps do not leave.
LEMMA ClosureStays ==
  ASSUME NEW R, IsFiniteSet(R), NEW N, Grows(R, N), NEW f, Closes(R, N, f),
         NEW A \in SUBSET R, \A d \in SUBSET A : N[d] \subseteq A,
         NEW d \in SUBSET A
  PROVE  f[d] \subseteq A
<1> DEFINE T == {c \in SUBSET A : ~(f[c] \subseteq A)}
<1>1. \A c \in SUBSET R : f[c] = IF N[c] = {} THEN c ELSE f[c \cup N[c]]
      BY DEF Closes
<1>2. SUFFICES ASSUME T # {} PROVE FALSE
      OBVIOUS
<1>3. T \in SUBSET SUBSET R
      OBVIOUS
<1>4. PICK c \in T : \A y \in T : c \subseteq y => c = y
  <2> HIDE DEF T
  <2>1. QED BY <1>2, <1>3, FiniteMax
<1>5. c \in SUBSET A /\ c \in SUBSET R /\ ~(f[c] \subseteq A)
      OBVIOUS
<1>6. N[c] # {}
      BY <1>1, <1>5
<1>7. c \cup N[c] \in SUBSET A /\ c \cup N[c] # c
      BY <1>5, <1>6 DEF Grows
<1>8. c \cup N[c] \notin T
      BY <1>4, <1>7
<1>9. QED BY <1>1, <1>5, <1>6, <1>7, <1>8

\* What a step of the walk dirties.
Newly(p, seeds, chain, dirty) ==
  {r \in Present(p) \ dirty :
     \/ StockEdges(p, r) \cap (chain \cup ((dirty \ seeds) \cap p.enabled)) # {}
     \/ p.regions[r] \in dirty}

Taken(p, seeds, chain) == [dirty \in SUBSET Rows |-> Newly(p, seeds, chain, dirty)]

\* The walk is the closure of its steps.
LEMMA WalkCloses ==
  ASSUME NEW p, Present(p) \subseteq Rows, NEW seeds \in SUBSET Rows, NEW chain
  PROVE  /\ Grows(Rows, Taken(p, seeds, chain))
         /\ \E f : /\ Closes(Rows, Taken(p, seeds, chain), f)
                   /\ Walk(p, seeds, chain) = f[seeds] \ seeds
<1> DEFINE N == Taken(p, seeds, chain)
           stock == [r \in Present(p) |-> StockEdges(p, r)]
<1>1. Grows(Rows, N)
  <2>1. \A d \in SUBSET Rows : Newly(p, seeds, chain, d) \subseteq Rows \ d
        BY DEF Newly
  <2>2. QED BY <2>1 DEF Grows, Taken
<1>2. PICK g : Closes(Rows, N, g)
      BY <1>1, ClosureExists
<1>3. ASSUME NEW dirty \in SUBSET Rows
      PROVE  {r \in Present(p) \ dirty :
                stock[r] \cap (chain \cup ((dirty \ seeds) \cap p.enabled)) # {}
                  \/ p.regions[r] \in dirty} = N[dirty]
      BY DEF Newly, Taken
<1>4. ASSUME NEW f
      PROVE  f = [dirty \in SUBSET Rows |->
                   LET moved == chain \cup ((dirty \ seeds) \cap p.enabled)
                       newly == {r \in Present(p) \ dirty :
                                   stock[r] \cap moved # {} \/ p.regions[r] \in dirty}
                   IN IF newly = {} THEN dirty ELSE f[dirty \cup newly]]
             <=> Closes(Rows, N, f)
  <2> HIDE DEF N, stock
  <2>1. [dirty \in SUBSET Rows |->
                   LET moved == chain \cup ((dirty \ seeds) \cap p.enabled)
                       newly == {r \in Present(p) \ dirty :
                                   stock[r] \cap moved # {} \/ p.regions[r] \in dirty}
                   IN IF newly = {} THEN dirty ELSE f[dirty \cup newly]]
        = [dirty \in SUBSET Rows |-> IF N[dirty] = {} THEN dirty ELSE f[dirty \cup N[dirty]]]
        BY <1>3
  <2>2. QED BY <2>1 DEF Closes
<1>5. \E f : Closes(Rows, N, f) /\ Walk(p, seeds, chain) = f[seeds] \ seeds
  <2> HIDE DEF N
  <2>1. QED BY <1>2, <1>4, Zenon DEF Walk
<1>6. QED BY <1>1, <1>5

\* The walk takes every row that is clipped by a seed, and no seed.
LEMMA WalkReaches ==
  ASSUME NEW p, Present(p) \subseteq Rows, NEW seeds \in SUBSET Rows, NEW chain
  PROVE  /\ Walk(p, seeds, chain) \subseteq Rows \ seeds
         /\ \A r \in Present(p) \ seeds :
              p.regions[r] \in seeds => r \in Walk(p, seeds, chain)
<1> DEFINE N == Taken(p, seeds, chain)
<1>1. PICK f : Closes(Rows, N, f) /\ Walk(p, seeds, chain) = f[seeds] \ seeds
      BY WalkCloses
<1>2. f[seeds] \in SUBSET Rows /\ N[seeds] \subseteq f[seeds]
  <2>1. Grows(Rows, N)
        BY WalkCloses
  <2> HIDE DEF N
  <2>2. QED BY <1>1, <2>1, ClosureSettles, RowsAssumption
<1>3. \A r \in Present(p) \ seeds : p.regions[r] \in seeds => r \in N[seeds]
      BY DEF Newly, Taken
<1>4. QED BY <1>1, <1>2, <1>3

\* It takes no row that its steps do not reach.
LEMMA WalkStays ==
  ASSUME NEW p, Present(p) \subseteq Rows, NEW seeds \in SUBSET Rows, NEW chain,
         NEW A \in SUBSET Rows,
         \A d \in SUBSET (seeds \cup A) : Newly(p, seeds, chain, d) \subseteq A
  PROVE  Walk(p, seeds, chain) \subseteq A
<1> DEFINE N == Taken(p, seeds, chain)
           B == seeds \cup A
<1>1. PICK f : Closes(Rows, N, f) /\ Walk(p, seeds, chain) = f[seeds] \ seeds
      BY WalkCloses
<1>2. Grows(Rows, N)
      BY WalkCloses
<1>3. B \in SUBSET Rows /\ seeds \in SUBSET B /\ \A d \in SUBSET B : N[d] \subseteq B
      BY DEF Taken
<1>4. f[seeds] \subseteq B
  <2> HIDE DEF N, B
  <2>1. QED BY <1>1, <1>2, <1>3, ClosureStays, RowsAssumption
<1>5. QED BY <1>1, <1>4

\* Dropping twice is dropping once.
LEMMA DroppedTwice ==
  ASSUME NEW res, NEW out, NEW more
  PROVE  Dropped(Dropped(res, out), more) = Dropped(res, out \cup more)
BY DEF Dropped

\* What a round of the sweep adds to what is gone.
Hit(p, res) ==
  [gone \in SUBSET Rows |->
     LET hits == OutOfDate(p, Dropped(res, gone))
     IN IF hits = {} THEN {} ELSE hits \cup Walk(p, hits, hits)]

\* The sweep is the closure of its rounds.
LEMMA SweptCloses ==
  ASSUME NEW p, Present(p) \subseteq Rows, NEW res
  PROVE  /\ Grows(Rows, Hit(p, res))
         /\ \E f : Closes(Rows, Hit(p, res), f) /\ Swept(p, res) = f[{}]
<1> DEFINE hits(gone) == OutOfDate(p, Dropped(res, gone))
           N == [gone \in SUBSET Rows |->
                   IF hits(gone) = {} THEN {} ELSE hits(gone) \cup Walk(p, hits(gone), hits(gone))]
<1>1. \A gone : hits(gone) \subseteq Rows \ gone
      BY DEF OutOfDate, HeldIn, Dropped
<1>2. N = Hit(p, res)
      BY DEF Hit
<1> HIDE DEF hits
<1>3. Grows(Rows, N)
  <2>1. \A gone \in SUBSET Rows : Walk(p, hits(gone), hits(gone)) \subseteq Rows
        BY <1>1, WalkReaches
  <2>2. N \in [SUBSET Rows -> SUBSET Rows]
        BY <1>1, <2>1
  <2>3. \A gone \in SUBSET Rows : N[gone] # {} => ~(N[gone] \subseteq gone)
        BY <1>1
  <2>4. QED BY <2>2, <2>3 DEF Grows
<1>4. PICK g : Closes(Rows, N, g)
      BY <1>3, ClosureExists
<1>5. ASSUME NEW f
      PROVE  f = [gone \in SUBSET Rows |->
                   LET now == OutOfDate(p, Dropped(res, gone))
                   IN IF now = {} THEN gone ELSE f[gone \cup now \cup Walk(p, now, now)]]
             <=> Closes(Rows, N, f)
  <2>1. [gone \in SUBSET Rows |->
                   LET now == OutOfDate(p, Dropped(res, gone))
                   IN IF now = {} THEN gone ELSE f[gone \cup now \cup Walk(p, now, now)]]
        = [gone \in SUBSET Rows |-> IF N[gone] = {} THEN gone ELSE f[gone \cup N[gone]]]
    <3>1. ASSUME NEW gone \in SUBSET Rows
          PROVE  (IF hits(gone) = {} THEN gone
                  ELSE f[gone \cup hits(gone) \cup Walk(p, hits(gone), hits(gone))])
                 = IF N[gone] = {} THEN gone ELSE f[gone \cup N[gone]]
      <4>1. CASE hits(gone) = {}
            BY <4>1
      <4>2. CASE hits(gone) # {}
        <5>1. N[gone] = hits(gone) \cup Walk(p, hits(gone), hits(gone))
              BY <4>2
        <5> HIDE DEF N
        <5>2. N[gone] # {} /\ gone \cup N[gone] =
                gone \cup hits(gone) \cup Walk(p, hits(gone), hits(gone))
              BY <4>2, <5>1
        <5>3. QED BY <4>2, <5>2
      <4>3. QED BY <4>1, <4>2
    <3> HIDE DEF N
    <3>2. QED BY <3>1 DEF hits
  <2>2. QED BY <2>1 DEF Closes
<1>6. \E f : Closes(Rows, N, f) /\ Swept(p, res) = f[{}]
  <2> HIDE DEF N
  <2>1. QED BY <1>4, <1>5, Zenon DEF Swept
<1>7. QED BY <1>2, <1>3, <1>6, Zenon

\* The sweep leaves no rest result that is out of date.
LEMMA SweptSettles ==
  ASSUME NEW p, Present(p) \subseteq Rows, NEW res
  PROVE  /\ Swept(p, res) \subseteq Rows
         /\ OutOfDate(p, Dropped(res, Swept(p, res))) = {}
<1> DEFINE N == Hit(p, res)
<1>1. PICK f : Closes(Rows, N, f) /\ Swept(p, res) = f[{}]
      BY SweptCloses
<1>2. f[{}] \in SUBSET Rows /\ N[f[{}]] = {}
  <2>1. Grows(Rows, N)
        BY SweptCloses
  <2> HIDE DEF N
  <2>2. QED BY <1>1, <2>1, ClosureSettles, RowsAssumption
<1>3. OutOfDate(p, Dropped(res, f[{}])) = {}
      BY <1>2 DEF Hit
<1>4. QED BY <1>1, <1>2, <1>3

\* It drops no row that its rounds do not reach.
LEMMA SweptStays ==
  ASSUME NEW p, Present(p) \subseteq Rows, NEW res, NEW A \in SUBSET Rows,
         \A gone \in SUBSET A : Hit(p, res)[gone] \subseteq A
  PROVE  Swept(p, res) \subseteq A
<1> DEFINE N == Hit(p, res)
<1>1. PICK f : Closes(Rows, N, f) /\ Swept(p, res) = f[{}]
      BY SweptCloses
<1>2. Grows(Rows, N) /\ \A gone \in SUBSET A : N[gone] \subseteq A
      BY SweptCloses
<1> HIDE DEF N
<1>3. f[{}] \subseteq A
      BY <1>1, <1>2, ClosureStays, RowsAssumption
<1>4. QED BY <1>1, <1>3

\* What a command leaves: it drops at least `out`, and nothing out of date.
LEMMA CommandSettles ==
  ASSUME NEW p, Present(p) \subseteq Rows, NEW res, NEW out, NEW handles,
         Command(p, res, out, handles)
  PROVE  \E gone : /\ out \subseteq gone /\ gone \subseteq out \cup Swept(p, Dropped(res, out))
                   /\ result' = Dropped(res, gone)
                   /\ lane' = Outdate(handles, gone)
                   /\ project' = p
                   /\ OutOfDate(p, Dropped(res, gone)) = {}
<1> DEFINE gone == out \cup Swept(p, Dropped(res, out))
<1>1. OutOfDate(p, Dropped(res, gone)) = {}
      BY SweptSettles, DroppedTwice
<1>2. WITNESS gone
<1>3. QED BY <1>1 DEF Command

-----------------------------------------------------------------------------
(* Lists: where the elements of an edited list are.                        *)

\* A list without its i-th element, and one with an element put in: place by place.
LEMMA DequeuedIs ==
  ASSUME NEW S, NEW s \in Seq(S), NEW i \in 1..Len(s)
  PROVE  /\ Dequeued(s, i) \in Seq(S)
         /\ Len(Dequeued(s, i)) = Len(s) - 1
         /\ \A j \in 1..(Len(s) - 1) :
              Dequeued(s, i)[j] = IF j < i THEN s[j] ELSE s[j + 1]
<1> DEFINE u == SubSeq(s, 1, i - 1)
           v == SubSeq(s, i + 1, Len(s))
<1>1. Len(s) \in Nat /\ \A j \in 1..Len(s) : s[j] \in S
      BY LenProperties, ElementOfSeq
<1>2. u \in Seq(S) /\ Len(u) = i - 1 /\ \A j \in 1..(i - 1) : u[j] = s[j]
      BY <1>1, SubSeqProperties
<1>3. v \in Seq(S) /\ Len(v) = Len(s) - i /\ \A j \in 1..(Len(s) - i) : v[j] = s[i + j]
  <2>1. i + 1 \in Int /\ Len(s) \in Int /\ \A j \in (i + 1)..Len(s) : s[j] \in S
        BY <1>1
  <2>2. /\ v \in Seq(S)
        /\ Len(v) = IF i + 1 <= Len(s) THEN Len(s) - (i + 1) + 1 ELSE 0
        /\ \A j \in 1..(Len(s) - (i + 1) + 1) : v[j] = s[i + 1 + j - 1]
        BY <2>1, SubSeqProperties
  <2>3. QED BY <1>1, <2>2
<1> HIDE DEF u, v
<1>4. /\ u \o v \in Seq(S)
      /\ Len(u \o v) = Len(u) + Len(v)
      /\ \A j \in 1..(Len(u) + Len(v)) :
           (u \o v)[j] = IF j <= Len(u) THEN u[j] ELSE v[j - Len(u)]
      BY <1>2, <1>3, ConcatProperties
<1>5. Len(u \o v) = Len(s) - 1
      BY <1>1, <1>2, <1>3, <1>4
<1>6. ASSUME NEW j \in 1..(Len(s) - 1)
      PROVE  (u \o v)[j] = IF j < i THEN s[j] ELSE s[j + 1]
  <2>1. j \in 1..(Len(u) + Len(v)) /\ j \in Nat
        BY <1>1, <1>2, <1>3
  <2>2. (u \o v)[j] = IF j <= i - 1 THEN u[j] ELSE v[j - (i - 1)]
        BY <1>2, <1>4, <2>1
  <2>3. CASE j < i
        BY <1>2, <2>1, <2>2, <2>3
  <2>4. CASE ~(j < i)
    <3>1. j - (i - 1) \in 1..(Len(s) - i) /\ i + (j - (i - 1)) = j + 1
          BY <1>1, <2>1, <2>4
    <3>2. QED BY <1>3, <2>1, <2>2, <2>4, <3>1
  <2>5. QED BY <2>3, <2>4
<1>7. QED BY <1>4, <1>5, <1>6 DEF Dequeued, u, v

-----------------------------------------------------------------------------
(* Lists without repetition, and the order of two elements in one.         *)

Once(s)           == \A i, j \in 1..Len(s) : s[i] = s[j] => i = j
Precedes(s, x, y) == \E i, j \in 1..Len(s) : i < j /\ s[i] = x /\ s[j] = y

\* t holds what s holds but r, once each, in the order of s.
LEMMA DequeuedKeeps ==
  ASSUME NEW S, NEW s \in Seq(S), Once(s), NEW i \in 1..Len(s), NEW t, t = Dequeued(s, i)
  PROVE  /\ t \in Seq(S) /\ Once(t) /\ Range(t) = Range(s) \ {s[i]}
         /\ \A x, y : Precedes(s, x, y) /\ s[i] \notin {x, y} => Precedes(t, x, y)
<1>1. Len(s) \in Nat /\ DOMAIN s = 1..Len(s)
      BY LenProperties
<1>2. /\ t \in Seq(S) /\ Len(t) = Len(s) - 1
      /\ \A j \in 1..(Len(s) - 1) : t[j] = IF j < i THEN s[j] ELSE s[j + 1]
      BY DequeuedIs
<1>3. DOMAIN t = 1..(Len(s) - 1)
      BY <1>2, LenProperties
<1> DEFINE to(j) == IF j < i THEN j ELSE j - 1
<1>4. \A j \in 1..Len(s) : j # i => to(j) \in 1..Len(t) /\ t[to(j)] = s[j]
      BY <1>1, <1>2
<1>5. Once(t)
      BY <1>1, <1>2 DEF Once
<1>6. Range(t) = Range(s) \ {s[i]}
  <2>1. ASSUME NEW j \in 1..(Len(s) - 1) PROVE t[j] \in Range(s) \ {s[i]}
    <3>1. PICK k \in 1..Len(s) : t[j] = s[k] /\ k # i
          BY <1>1, <1>2
    <3>2. s[k] # s[i]
          BY <3>1 DEF Once
    <3>3. QED BY <1>1, <3>1, <3>2 DEF Range
  <2>2. ASSUME NEW j \in 1..Len(s), s[j] # s[i] PROVE s[j] \in Range(t)
    <3>1. to(j) \in 1..Len(t) /\ t[to(j)] = s[j]
          BY <1>4, <2>2
    <3> HIDE DEF to
    <3>2. QED BY <1>2, <1>3, <3>1 DEF Range
  <2>3. QED BY <1>1, <1>3, <2>1, <2>2 DEF Range
<1>7. ASSUME NEW x, NEW y, Precedes(s, x, y), s[i] \notin {x, y} PROVE Precedes(t, x, y)
  <2>1. PICK j, k \in 1..Len(s) : j < k /\ s[j] = x /\ s[k] = y
        BY <1>7 DEF Precedes
  <2>2. j # i /\ k # i
        BY <1>7, <2>1
  <2>3. to(j) < to(k)
        BY <1>1, <2>1, <2>2
  <2>4. /\ to(j) \in 1..Len(t) /\ t[to(j)] = x
        /\ to(k) \in 1..Len(t) /\ t[to(k)] = y
        BY <1>4, <2>1, <2>2
  <2> HIDE DEF to
  <2>5. QED BY <2>3, <2>4 DEF Precedes
<1>8. QED BY <1>2, <1>5, <1>6, <1>7

LEMMA InsertKeeps ==
  ASSUME NEW S, NEW s \in Seq(S), Once(s), NEW at \in 1..(Len(s) + 1),
         NEW r \in S, r \notin Range(s), NEW t, t = Insert(s, at, r)
  PROVE  /\ t \in Seq(S) /\ Once(t) /\ Range(t) = Range(s) \cup {r}
         /\ \A x, y : Precedes(s, x, y) => Precedes(t, x, y)
<1>1. Len(s) \in Nat /\ DOMAIN s = 1..Len(s)
      BY LenProperties
<1>2. /\ t \in Seq(S) /\ Len(t) = Len(s) + 1
      /\ \A j \in 1..(Len(s) + 1) :
           t[j] = IF j < at THEN s[j] ELSE IF j = at THEN r ELSE s[j - 1]
  <2> DEFINE u == SubSeq(s, 1, at - 1)
             v == SubSeq(s, at, Len(s))
             m == u \o <<r>>
  <2>1. Len(s) \in Nat /\ \A j \in 1..Len(s) : s[j] \in S
        BY LenProperties, ElementOfSeq
  <2>2. u \in Seq(S) /\ Len(u) = at - 1 /\ \A j \in 1..(at - 1) : u[j] = s[j]
        BY <2>1, SubSeqProperties
  <2>3. v \in Seq(S) /\ Len(v) = Len(s) - at + 1 /\ \A j \in 1..(Len(s) - at + 1) : v[j] = s[at + j - 1]
    <3>1. at \in Int /\ Len(s) \in Int /\ \A j \in at..Len(s) : s[j] \in S
          BY <2>1
    <3>2. /\ v \in Seq(S)
          /\ Len(v) = IF at <= Len(s) THEN Len(s) - at + 1 ELSE 0
          /\ \A j \in 1..(Len(s) - at + 1) : v[j] = s[at + j - 1]
          BY <3>1, SubSeqProperties
    <3>3. QED BY <2>1, <3>2
  <2>4. <<r>> \in Seq(S) /\ Len(<<r>>) = 1 /\ <<r>>[1] = r
        OBVIOUS
  <2> HIDE DEF u, v
  <2>5. /\ m \in Seq(S) /\ Len(m) = at
        /\ \A j \in 1..at : m[j] = IF j < at THEN s[j] ELSE r
    <3>1. /\ m \in Seq(S) /\ Len(m) = Len(u) + 1
          /\ \A j \in 1..(Len(u) + 1) : m[j] = IF j <= Len(u) THEN u[j] ELSE <<r>>[j - Len(u)]
          BY <2>2, <2>4, ConcatProperties
    <3> HIDE DEF m
    <3>2. QED BY <2>1, <2>2, <2>4, <3>1
  <2> HIDE DEF m
  <2>6. /\ m \o v \in Seq(S)
        /\ Len(m \o v) = Len(m) + Len(v)
        /\ \A j \in 1..(Len(m) + Len(v)) :
             (m \o v)[j] = IF j <= Len(m) THEN m[j] ELSE v[j - Len(m)]
        BY <2>3, <2>5, ConcatProperties
  <2>7. Len(m \o v) = Len(s) + 1
        BY <2>1, <2>3, <2>5, <2>6
  <2>8. ASSUME NEW j \in 1..(Len(s) + 1)
        PROVE  (m \o v)[j] = IF j < at THEN s[j] ELSE IF j = at THEN r ELSE s[j - 1]
        BY <2>1, <2>3, <2>5, <2>6
  <2>9. QED BY <2>6, <2>7, <2>8 DEF Insert, m, u, v
<1>3. DOMAIN t = 1..(Len(s) + 1)
      BY <1>2, LenProperties
<1> DEFINE to(j) == IF j < at THEN j ELSE j + 1
<1>4. \A j \in 1..Len(s) : to(j) \in 1..Len(t) /\ t[to(j)] = s[j]
      BY <1>1, <1>2
<1>5. \A j \in 1..Len(s) : s[j] # r
      BY <1>1 DEF Range
<1>6. Once(t)
      BY <1>1, <1>2, <1>5 DEF Once
<1>7. Range(t) = Range(s) \cup {r}
  <2>1. ASSUME NEW j \in 1..(Len(s) + 1) PROVE t[j] \in Range(s) \cup {r}
    <3>1. t[j] = r \/ \E k \in 1..Len(s) : t[j] = s[k]
          BY <1>1, <1>2
    <3>2. QED BY <1>1, <3>1 DEF Range
  <2>2. ASSUME NEW j \in 1..Len(s) PROVE s[j] \in Range(t)
    <3>1. to(j) \in 1..Len(t) /\ t[to(j)] = s[j]
          BY <1>4
    <3> HIDE DEF to
    <3>2. QED BY <1>2, <1>3, <3>1 DEF Range
  <2>3. r \in Range(t)
    <3>1. at \in DOMAIN t /\ t[at] = r
          BY <1>1, <1>2, <1>3
    <3>2. QED BY <3>1 DEF Range
  <2>4. QED BY <1>1, <1>3, <2>1, <2>2, <2>3 DEF Range
<1>8. ASSUME NEW x, NEW y, Precedes(s, x, y) PROVE Precedes(t, x, y)
  <2>1. PICK j, k \in 1..Len(s) : j < k /\ s[j] = x /\ s[k] = y
        BY <1>8 DEF Precedes
  <2>2. to(j) < to(k)
        BY <1>1, <2>1
  <2>3. /\ to(j) \in 1..Len(t) /\ t[to(j)] = x
        /\ to(k) \in 1..Len(t) /\ t[to(k)] = y
        BY <1>4, <2>1
  <2> HIDE DEF to
  <2>4. QED BY <2>2, <2>3 DEF Precedes
<1>9. QED BY <1>2, <1>6, <1>7, <1>8

\* Appending is inserting at the end.
LEMMA AppendKeeps ==
  ASSUME NEW S, NEW s \in Seq(S), Once(s),
         NEW r \in S, r \notin Range(s)
  PROVE  /\ Append(s, r) \in Seq(S) /\ Once(Append(s, r))
         /\ Range(Append(s, r)) = Range(s) \cup {r}
         /\ \A x, y : Precedes(s, x, y) => Precedes(Append(s, r), x, y)
<1>1. Len(s) \in Nat /\ DOMAIN s = 1..Len(s)
      BY LenProperties
<1>2. Append(s, r) = Insert(s, Len(s) + 1, r)
  <2>1. SubSeq(s, 1, Len(s) + 1 - 1) = s
        BY <1>1, SubSeqFull
  <2>2. SubSeq(s, Len(s) + 1, Len(s)) = <<>>
        BY <1>1, SubSeqEmpty
  <2>3. Append(s, r) = s \o <<r>>
        BY AppendIsConcat
  <2>4. s \o <<r>> \in Seq(S)
        BY <2>3, AppendProperties
  <2>5. QED BY <2>1, <2>2, <2>3, <2>4, ConcatEmptySeq DEF Insert
<1>3. Len(s) + 1 \in 1..(Len(s) + 1)
      BY <1>1
<1>4. QED BY <1>2, <1>3, InsertKeeps

-----------------------------------------------------------------------------
(* Where the rows of a well-formed project are.                            *)

\* Every setup lists its rows once, and no row of another setup.
Listed(p) ==
  /\ \A s \in Setups : p.order[s] \in Seq(Rows) /\ Once(p.order[s])
  /\ \A s, t \in Setups : s # t => Range(p.order[s]) \cap Range(p.order[t]) = {}

\* A row at one place of one setup: no setup lists it twice, no two setups list it.
LEMMA ListedIsOnePlace ==
  ASSUME NEW p, p \in Project
  PROVE  OnePlace(p) <=> Listed(p)
<1>1. \A s \in Setups : p.order[s] \in Seq(Rows)
      BY DEF Project
<1>2. \A s \in Setups : DOMAIN p.order[s] = 1..Len(p.order[s]) /\ Len(p.order[s]) \in Nat
      BY <1>1, LenProperties
<1>3. ASSUME OnePlace(p) PROVE Listed(p)
  <2>1. \A s \in Setups : Once(p.order[s])
        BY <1>2, <1>3 DEF OnePlace, Once
  <2>2. \A s, t \in Setups : s # t => Range(p.order[s]) \cap Range(p.order[t]) = {}
        BY <1>2, <1>3 DEF OnePlace, Range
  <2>3. QED BY <1>1, <2>1, <2>2 DEF Listed
<1>4. ASSUME Listed(p) PROVE OnePlace(p)
  <2> SUFFICES ASSUME NEW s \in Setups, NEW t \in Setups,
                      NEW i \in DOMAIN p.order[s], NEW j \in DOMAIN p.order[t],
                      p.order[s][i] = p.order[t][j]
               PROVE  s = t /\ i = j
      BY DEF OnePlace
  <2>1. p.order[s][i] \in Range(p.order[s]) \cap Range(p.order[t])
        BY DEF Range
  <2>2. s = t
        BY <1>4, <2>1 DEF Listed
  <2>3. QED BY <1>2, <1>4, <2>2 DEF Listed, Once
<1>5. QED BY <1>3, <1>4

\* Where the rows of a project sit.
LEMMA Places ==
  ASSUME NEW p, ProjectOK(p)
  PROVE  /\ Present(p) \subseteq Rows
         /\ \A s \in Setups : Range(p.order[s]) \subseteq Present(p)
         /\ \A s \in Setups : \A r \in Range(p.order[s]) : SetupOf(p, r) = s
         /\ \A r \in Present(p) : SetupOf(p, r) \in Setups /\ r \in Range(p.order[SetupOf(p, r)])
<1>1. Listed(p)
      BY ListedIsOnePlace DEF ProjectOK
<1>2. \A s \in Setups : Range(p.order[s]) \subseteq Rows
      BY <1>1, RangeOfSeq DEF Listed
<1>3. \A s \in Setups : Range(p.order[s]) \subseteq Present(p)
      BY DEF Present
<1>4. \A r \in Present(p) : \E s \in Setups : r \in Range(p.order[s])
      BY DEF Present
<1>5. \A r \in Present(p) : SetupOf(p, r) \in Setups /\ r \in Range(p.order[SetupOf(p, r)])
      BY <1>4 DEF SetupOf
<1>6. \A s \in Setups : \A r \in Range(p.order[s]) : SetupOf(p, r) = s
      BY <1>1, <1>3, <1>5 DEF Listed
<1>7. QED BY <1>2, <1>3, <1>4, <1>5, <1>6

LEMMA RowsOfIs ==
  ASSUME NEW p, ProjectOK(p), NEW ss, ss \subseteq Setups
  PROVE  RowsOf(p, ss) = {x \in Present(p) : SetupOf(p, x) \in ss}
BY Places DEF RowsOf

LEMMA PositionIs ==
  ASSUME NEW p, ProjectOK(p), NEW r \in Present(p)
  PROVE  /\ Position(p, r) \in 1..Len(p.order[SetupOf(p, r)])
         /\ p.order[SetupOf(p, r)][Position(p, r)] = r
<1>1. SetupOf(p, r) \in Setups /\ r \in Range(p.order[SetupOf(p, r)])
      BY Places
<1>2. p.order[SetupOf(p, r)] \in Seq(Rows)
      BY <1>1 DEF ProjectOK, Project
<1>3. DOMAIN p.order[SetupOf(p, r)] = 1..Len(p.order[SetupOf(p, r)])
      BY <1>2, LenProperties
<1>4. \E i \in DOMAIN p.order[SetupOf(p, r)] : p.order[SetupOf(p, r)][i] = r
      BY <1>1 DEF Range
<1>5. QED BY <1>3, <1>4 DEF Position

\* The rows above r are those that precede it in its setup.
LEMMA AboveIs ==
  ASSUME NEW p, ProjectOK(p), NEW r \in Present(p), NEW x
  PROVE  /\ x \in Above(p, r) <=> Precedes(p.order[SetupOf(p, r)], x, r)
         /\ x \in Above(p, r) => x \in Range(p.order[SetupOf(p, r)]) /\ x # r
<1> DEFINE o == p.order[SetupOf(p, r)]
           at == Position(p, r)
<1>1. SetupOf(p, r) \in Setups
      BY Places
<1>2. o \in Seq(Rows) /\ Once(o)
      BY <1>1, ListedIsOnePlace DEF ProjectOK, Listed
<1>3. Len(o) \in Nat /\ DOMAIN o = 1..Len(o)
      BY <1>2, LenProperties
<1>4. at \in 1..Len(o) /\ o[at] = r
      BY PositionIs
<1>5. x \in Above(p, r) <=> \E i \in 1..(at - 1) : o[i] = x
      BY DEF Above
<1> HIDE DEF o, at
<1>6. \A j \in 1..Len(o) : o[j] = r <=> j = at
      BY <1>2, <1>4 DEF Once
<1>7. x \in Above(p, r) <=> Precedes(o, x, r)
  <2>1. ASSUME x \in Above(p, r) PROVE Precedes(o, x, r)
    <3>1. PICK i \in 1..(at - 1) : o[i] = x
          BY <1>5, <2>1
    <3>2. i \in 1..Len(o) /\ i < at
          BY <1>3, <1>4, <3>1
    <3>3. QED BY <1>4, <3>1, <3>2 DEF Precedes
  <2>2. ASSUME Precedes(o, x, r) PROVE x \in Above(p, r)
    <3>1. PICK i, j \in 1..Len(o) : i < j /\ o[i] = x /\ o[j] = r
          BY <2>2 DEF Precedes
    <3>2. j = at
          BY <1>6, <3>1
    <3>3. i \in 1..(at - 1)
          BY <1>3, <1>4, <3>1, <3>2
    <3>4. QED BY <1>5, <3>1, <3>3
  <2>3. QED BY <2>1, <2>2
<1>8. ASSUME x \in Above(p, r) PROVE x \in Range(o) /\ x # r
  <2>1. PICK i \in 1..(at - 1) : o[i] = x
        BY <1>5, <1>8
  <2>2. i \in 1..Len(o) /\ i # at
        BY <1>3, <1>4, <2>1
  <2>3. QED BY <1>3, <1>6, <2>1, <2>2 DEF Range
<1>9. QED BY <1>7, <1>8 DEF o

\* What the simulator hands to a row was cut before it, in another place.
LEMMA StockIsBefore ==
  ASSUME NEW p, ProjectOK(p), NEW r \in Present(p)
  PROVE  /\ CarriesInto(SetupOf(p, r)) \subseteq 1..(SetupOf(p, r) - 1)
         /\ CarriesInto(SetupOf(p, r)) \subseteq Setups
         /\ StockRows(p, r) = {x \in Present(p) :
              \/ SetupOf(p, x) \in CarriesInto(SetupOf(p, r))
              \/ Precedes(p.order[SetupOf(p, r)], x, r)}
         /\ StockRows(p, r) \subseteq CarveOrderBefore(p, r)
         /\ r \notin StockRows(p, r)
<1> DEFINE s == SetupOf(p, r)
<1>1. s \in Setups /\ NumSetups \in Nat
      BY Places, SetupsAssumption
<1>2. CarriesInto(s) \subseteq 1..(s - 1) /\ 1..(s - 1) \subseteq Setups
  <2>1. 1..(s - 1) \subseteq Setups
        BY <1>1 DEF Setups
  <2>2. CarriesInto(s) \subseteq 1..(s - 1)
        BY DEF CarriesInto
  <2>3. QED BY <2>1, <2>2
<1>3. RowsOf(p, CarriesInto(s)) = {x \in Present(p) : SetupOf(p, x) \in CarriesInto(s)}
      BY <1>2, RowsOfIs
<1>4. \A x : x \in Above(p, r) <=> Precedes(p.order[s], x, r)
      BY AboveIs
<1>5. Above(p, r) \subseteq Present(p) \ {r}
      BY <1>1, AboveIs, Places
<1>6. StockRows(p, r) = {x \in Present(p) :
        SetupOf(p, x) \in CarriesInto(s) \/ Precedes(p.order[s], x, r)}
      BY <1>3, <1>4, <1>5 DEF StockRows
<1>7. RowsOf(p, CarriesInto(s)) \subseteq RowsOf(p, 1..(s - 1))
      BY <1>2 DEF RowsOf
<1>8. StockRows(p, r) \subseteq CarveOrderBefore(p, r)
      BY <1>7 DEF StockRows, CarveOrderBefore
<1>9. r \notin StockRows(p, r)
  <2>1. s \notin 1..(s - 1)
        BY <1>1 DEF Setups
  <2>2. QED BY <1>2, <1>3, <1>5, <2>1 DEF StockRows
<1>10. QED BY <1>2, <1>6, <1>8, <1>9

\* What stays in its setup, in its order, stays in the stock.
LEMMA StockRowsStay ==
  ASSUME NEW p, ProjectOK(p), NEW q, ProjectOK(q), NEW K,
         \A x \in K : /\ x \in Present(p) /\ x \in Present(q)
                      /\ SetupOf(q, x) = SetupOf(p, x),
         \A s \in Setups : \A x, y \in K :
           Precedes(p.order[s], x, y) => Precedes(q.order[s], x, y),
         NEW r \in K, NEW x \in K, x \in StockRows(p, r)
  PROVE  x \in StockRows(q, r)
<1>1. \/ SetupOf(p, x) \in CarriesInto(SetupOf(p, r))
      \/ Precedes(p.order[SetupOf(p, r)], x, r)
      BY StockIsBefore
<1>2. SetupOf(p, r) \in Setups
      BY Places
<1>3. \/ SetupOf(q, x) \in CarriesInto(SetupOf(q, r))
      \/ Precedes(q.order[SetupOf(q, r)], x, r)
      BY <1>1, <1>2
<1>4. QED BY <1>3, StockIsBefore

-----------------------------------------------------------------------------
(* What an edit leaves alone.                                              *)

\* The rows in K stay where they are.
StayPut(p, q, K, ordered) ==
  /\ \A r \in K : /\ SetupOf(q, r) = SetupOf(p, r)
                  /\ q.face[SetupOf(p, r)] = p.face[SetupOf(p, r)]
  /\ ordered => \A r, x \in K : x \in StockRows(p, r) => x \in StockRows(q, r)

\* An edit of this kind takes project p to q and drops `out`: the rows that
\* are not dropped keep their settings, only dropped rows move, only a face
\* edit or a move to another setup moves them, and no row comes back.
KeepsOthers(p, q, kind, out) ==
  /\ ProjectOK(q)
  /\ p.minted \subseteq q.minted /\ Present(q) \cap p.minted \subseteq Present(p)
  /\ \A r \in Present(p) \ out :
       /\ r \in Present(q)
       /\ q.param[r] = p.param[r]
       /\ r \in q.rest <=> r \in p.rest
       /\ q.regions[r] = p.regions[r]
  /\ \E moved : /\ moved \subseteq out
                /\ kind \notin {"face", "move"} => moved = {}
                /\ StayPut(p, q, (Present(p) \cap Present(q)) \ moved, kind # "reorder")

\* An edit that leaves the lists alone.
LEMMA SameLists ==
  ASSUME NEW p, ProjectOK(p), NEW q, q \in Project, q.order = p.order,
         p.minted \subseteq q.minted
  PROVE  /\ ProjectOK(q) /\ Present(q) = Present(p)
         /\ Present(q) \cap p.minted \subseteq Present(p)
         /\ q.face = p.face => StayPut(p, q, Present(p), TRUE)
<1>1. Present(q) = Present(p) /\ OnePlace(q)
      BY DEF Present, OnePlace, ProjectOK
<1>2. \A r : SetupOf(q, r) = SetupOf(p, r)
      BY DEF SetupOf
<1>3. \A r : Position(q, r) = Position(p, r)
      BY <1>2 DEF Position
<1>4. \A r : StockRows(q, r) = StockRows(p, r)
      BY <1>2, <1>3 DEF StockRows, RowsOf, Above
<1>5. QED BY <1>1, <1>2, <1>4 DEF ProjectOK, StayPut

\* Another list for setup s.
LEMMA Relisted ==
  ASSUME NEW p, ProjectOK(p), NEW q, q \in Project, NEW s \in Setups,
         NEW t \in Seq(Rows), Once(t), q.order = [p.order EXCEPT ![s] = t],
         Range(t) \cap (Present(p) \ Range(p.order[s])) = {},
         Range(t) \subseteq q.minted, p.minted \subseteq q.minted
  PROVE  /\ ProjectOK(q)
         /\ Present(q) = (Present(p) \ Range(p.order[s])) \cup Range(t)
         /\ \A x \in Present(q) : SetupOf(q, x) = IF x \in Range(t) THEN s ELSE SetupOf(p, x)
<1>1. Listed(p) /\ Present(p) \subseteq p.minted
      BY ListedIsOnePlace DEF ProjectOK
<1>2. /\ q.order[s] = t
      /\ \A u \in Setups : u # s => q.order[u] = p.order[u]
      BY DEF ProjectOK, Project
<1>3. \A u \in Setups : u # s => Range(p.order[u]) \subseteq Present(p) \ Range(p.order[s])
  <2>1. \A u \in Setups : u # s => Range(p.order[u]) \cap Range(p.order[s]) = {}
        BY <1>1 DEF Listed
  <2>2. QED BY <2>1, Places
<1>4. Listed(q)
  <2>1. \A u \in Setups : q.order[u] \in Seq(Rows) /\ Once(q.order[u])
        BY <1>1, <1>2 DEF Listed
  <2>2. \A u \in Setups : u # s => Range(q.order[u]) \cap Range(t) = {}
        BY <1>2, <1>3
  <2>3. \A u, v \in Setups : u # v => Range(q.order[u]) \cap Range(q.order[v]) = {}
        BY <1>1, <1>2, <2>2 DEF Listed
  <2>4. QED BY <2>1, <2>3 DEF Listed
<1>5. Present(q) = (Present(p) \ Range(p.order[s])) \cup Range(t)
  <2>1. ASSUME NEW x \in Present(p) \ Range(p.order[s]) PROVE x \in Present(q)
    <3>1. PICK u \in Setups : x \in Range(p.order[u])
          BY DEF Present
    <3>2. QED BY <1>2, <3>1 DEF Present
  <2>2. Range(t) \subseteq Present(q)
        BY <1>2 DEF Present
  <2>3. ASSUME NEW x \in Present(q) PROVE x \in (Present(p) \ Range(p.order[s])) \cup Range(t)
    <3>1. PICK u \in Setups : x \in Range(q.order[u])
          BY DEF Present
    <3>2. QED BY <1>2, <1>3, <3>1
  <2>4. QED BY <2>1, <2>2, <2>3
<1>6. ProjectOK(q)
      BY <1>1, <1>4, <1>5, ListedIsOnePlace DEF ProjectOK
<1>7. ASSUME NEW x \in Present(q)
      PROVE  SetupOf(q, x) = IF x \in Range(t) THEN s ELSE SetupOf(p, x)
  <2>1. CASE x \in Range(t)
        BY <1>2, <1>6, <2>1, Places
  <2>2. CASE x \notin Range(t)
    <3>1. x \in Present(p) \ Range(p.order[s])
          BY <1>5, <2>2
    <3>2. SetupOf(p, x) \in Setups /\ x \in Range(p.order[SetupOf(p, x)])
          BY <3>1, Places
    <3>3. SetupOf(p, x) # s
          BY <3>1, <3>2
    <3>4. x \in Range(q.order[SetupOf(p, x)])
          BY <1>2, <3>2, <3>3
    <3>5. QED BY <1>6, <2>2, <3>2, <3>4, Places
  <2>3. QED BY <2>1, <2>2
<1>8. QED BY <1>5, <1>6, <1>7

\* Where the list keeps the order of the rows in K, they stay put.
LEMMA RelistedStay ==
  ASSUME NEW p, ProjectOK(p), NEW q, ProjectOK(q), NEW s \in Setups, NEW t,
         q.order = [p.order EXCEPT ![s] = t], q.face = p.face,
         NEW K, K \subseteq Present(p) \cap Present(q),
         \A x \in K : SetupOf(q, x) = SetupOf(p, x),
         \A x, y \in K : Precedes(p.order[s], x, y) => Precedes(t, x, y)
  PROVE  StayPut(p, q, K, TRUE)
<1>1. \A u \in Setups : u # s => q.order[u] = p.order[u]
      BY DEF ProjectOK, Project
<1>2. q.order[s] = t
      BY DEF ProjectOK, Project
<1>3. \A u \in Setups : \A x, y \in K : Precedes(p.order[u], x, y) => Precedes(q.order[u], x, y)
      BY <1>1, <1>2
<1>4. \A r, x \in K : x \in StockRows(p, r) => x \in StockRows(q, r)
      BY <1>3, StockRowsStay
<1>5. QED BY <1>4 DEF StayPut

\* Rows that stay among many stay among fewer.
LEMMA StayPutWeaker ==
  ASSUME NEW p, NEW q, NEW K, StayPut(p, q, K, TRUE), NEW ordered \in BOOLEAN
  PROVE  StayPut(p, q, K, ordered)
BY DEF StayPut

\* An edit that moves no row and no face.
LEMMA SettingsCarry ==
  ASSUME NEW p, ProjectOK(p), NEW q, q \in Project, q.order = p.order,
         q.minted = p.minted, q.face = p.face, NEW kind, NEW out,
         \A r \in Present(p) \ out : /\ q.param[r] = p.param[r]
                                     /\ r \in q.rest <=> r \in p.rest
                                     /\ q.regions[r] = p.regions[r]
  PROVE  KeepsOthers(p, q, kind, out)
<1>1. /\ ProjectOK(q) /\ Present(q) = Present(p)
      /\ StayPut(p, q, Present(p), TRUE)
      BY SameLists
<1>2. StayPut(p, q, (Present(p) \cap Present(q)) \ {}, kind # "reorder")
  <2>1. (Present(p) \cap Present(q)) \ {} = Present(p)
        BY <1>1
  <2>2. QED BY <1>1, <2>1, StayPutWeaker
<1>3. \E moved : /\ moved \subseteq out
                 /\ kind \notin {"face", "move"} => moved = {}
                 /\ StayPut(p, q, (Present(p) \cap Present(q)) \ moved, kind # "reorder")
  <2> WITNESS {}
  <2>1. QED BY <1>2
<1>4. /\ ProjectOK(q)
      /\ p.minted \subseteq q.minted /\ Present(q) \cap p.minted \subseteq Present(p)
      /\ \A r \in Present(p) \ out :
           /\ r \in Present(q)
           /\ q.param[r] = p.param[r]
           /\ r \in q.rest <=> r \in p.rest
           /\ q.regions[r] = p.regions[r]
      BY <1>1
<1>5. QED BY <1>3, <1>4 DEF KeepsOthers

\* Edit by edit: SetParam, SetEnabled, SetStockSource, SetBoundary, SetFace and
\* SetStockChange leave the lists alone.
LEMMA ParamCarries ==
  ASSUME ProjectOK(project), NEW r \in Present(project), NEW v \in Params, SetParam(r, v)
  PROVE  \E q, out : Edit("param", q, out) /\ KeepsOthers(project, q, "param", out)
<1> DEFINE q == [project EXCEPT !.param[r] = v]
<1>1. Edit("param", q, ResultChain(q, r))
      BY DEF SetParam
<1>2. /\ q \in Project /\ q.order = project.order /\ q.minted = project.minted
      /\ q.face = project.face /\ q.rest = project.rest /\ q.regions = project.regions
      /\ \A x \in Rows : x # r => q.param[x] = project.param[x]
      BY DEF ProjectOK, Project
<1> HIDE DEF q
<1>3. r \in ResultChain(q, r) /\ Present(project) \subseteq Rows
      BY Places DEF ResultChain
<1>4. KeepsOthers(project, q, "param", ResultChain(q, r))
      BY <1>2, <1>3, SettingsCarry
<1>5. QED BY <1>1, <1>4

LEMMA EnabledCarries ==
  ASSUME ProjectOK(project), NEW r \in Present(project), SetEnabled(r)
  PROVE  \E q, out : Edit("enable", q, out) /\ KeepsOthers(project, q, "enable", out)
<1> DEFINE on == IF r \in project.enabled THEN project.enabled \ {r} ELSE project.enabled \cup {r}
           q == [project EXCEPT !.enabled = on]
<1>1. q = [project EXCEPT !.enabled = IF r \in @ THEN @ \ {r} ELSE @ \cup {r}]
      OBVIOUS
<1>2. Edit("enable", q, Walk(q, {r}, {r}))
      BY <1>1 DEF SetEnabled
<1>3. on \in SUBSET Rows
      BY Places DEF ProjectOK, Project
<1> HIDE DEF on
<1>4. /\ q \in Project /\ q.order = project.order /\ q.minted = project.minted
      /\ q.face = project.face /\ q.rest = project.rest /\ q.regions = project.regions
      /\ q.param = project.param
      BY <1>3 DEF ProjectOK, Project
<1> HIDE DEF q
<1>5. KeepsOthers(project, q, "enable", Walk(q, {r}, {r}))
      BY <1>4, SettingsCarry
<1>6. QED BY <1>2, <1>5

LEMMA StockSourceCarries ==
  ASSUME ProjectOK(project), NEW r \in Present(project), SetStockSource(r)
  PROVE  \E q, out : Edit("stock_source", q, out) /\ KeepsOthers(project, q, "stock_source", out)
<1> DEFINE on == IF r \in project.rest THEN project.rest \ {r} ELSE project.rest \cup {r}
           q == [project EXCEPT !.rest = on]
<1>1. q = [project EXCEPT !.rest = IF r \in @ THEN @ \ {r} ELSE @ \cup {r}]
      OBVIOUS
<1>2. Edit("stock_source", q, ResultChain(q, r))
      BY <1>1 DEF SetStockSource
<1>3. on \in SUBSET Rows /\ \A x : x # r => (x \in on <=> x \in project.rest)
      BY Places DEF ProjectOK, Project
<1> HIDE DEF on
<1>4. /\ q \in Project /\ q.order = project.order /\ q.minted = project.minted
      /\ q.face = project.face /\ q.rest = on /\ q.regions = project.regions
      /\ q.param = project.param
      BY <1>3 DEF ProjectOK, Project
<1> HIDE DEF q
<1>5. r \in ResultChain(q, r)
      BY DEF ResultChain
<1>6. KeepsOthers(project, q, "stock_source", ResultChain(q, r))
      BY <1>3, <1>4, <1>5, SettingsCarry
<1>7. QED BY <1>2, <1>6

LEMMA BoundaryCarries ==
  ASSUME ProjectOK(project), NEW r \in Present(project),
         NEW source \in Present(project) \cup {None}, SetBoundary(r, source)
  PROVE  \E q, out : Edit("boundary", q, out) /\ KeepsOthers(project, q, "boundary", out)
<1> DEFINE more == project.analysis \cup ({source} \ {None})
           q == [project EXCEPT !.regions[r] = source, !.analysis = more]
           out == ResultChain(q, r) \cup (q.analysis \ project.analysis)
<1>1. q = [project EXCEPT !.regions[r] = source, !.analysis = @ \cup ({source} \ {None})]
      BY DEF ProjectOK, Project
<1>2. Edit("boundary", q, out)
      BY <1>1 DEF SetBoundary
<1>3. more \in SUBSET Rows /\ Present(project) \subseteq Rows
      BY Places DEF ProjectOK, Project
<1> HIDE DEF more
<1>4. /\ q \in Project /\ q.order = project.order /\ q.minted = project.minted
      /\ q.face = project.face /\ q.rest = project.rest
      /\ \A x \in Rows : x # r => q.regions[x] = project.regions[x]
      /\ q.param = project.param
      BY <1>3 DEF ProjectOK, Project
<1> HIDE DEF q
<1>5. r \in out
      BY DEF ResultChain
<1>6. KeepsOthers(project, q, "boundary", out)
      BY <1>3, <1>4, <1>5, SettingsCarry
<1>7. QED BY <1>2, <1>6

LEMMA FaceCarries ==
  ASSUME ProjectOK(project), NEW s \in Setups, SetFace(s)
  PROVE  \E q, out : Edit("face", q, out) /\ KeepsOthers(project, q, "face", out)
<1> DEFINE q == [project EXCEPT !.face[s] = 1 - @]
           out == Range(q.order[s])
<1>1. Edit("face", q, out)
      BY DEF SetFace
<1>2. /\ q \in Project /\ q.order = project.order /\ q.minted = project.minted
      /\ q.rest = project.rest /\ q.regions = project.regions /\ q.param = project.param
      /\ \A t \in Setups : t # s => q.face[t] = project.face[t]
  <2>1. project \in Project /\ project.face \in [Setups -> 0..1]
        BY DEF ProjectOK, Project
  <2>2. 1 - project.face[s] \in 0..1
        BY <2>1
  <2> DEFINE flip == [project.face EXCEPT ![s] = 1 - @]
  <2>3. flip \in [Setups -> 0..1] /\ \A t \in Setups : t # s => flip[t] = project.face[t]
        BY <2>1, <2>2
  <2>4. q = [project EXCEPT !.face = flip]
        BY <2>1 DEF Project
  <2> HIDE DEF flip, q
  <2>5. QED BY <2>1, <2>3, <2>4 DEF Project
<1> HIDE DEF q
<1>3. /\ ProjectOK(q) /\ Present(q) = Present(project)
      BY <1>2, SameLists
<1>4. \A r : SetupOf(q, r) = SetupOf(project, r)
      BY <1>2 DEF SetupOf
<1>5. \A r : StockRows(q, r) = StockRows(project, r)
  <2>1. \A r : Position(q, r) = Position(project, r)
        BY <1>2, <1>4 DEF Position
  <2>2. QED BY <1>2, <1>4, <2>1 DEF StockRows, RowsOf, Above
<1>6. StayPut(project, q, (Present(project) \cap Present(q)) \ out, TRUE)
  <2>1. \A r \in Present(project) \ out : SetupOf(project, r) \in Setups \ {s}
        BY <1>2, Places
  <2>2. QED BY <1>2, <1>4, <1>5, <2>1 DEF StayPut
<1>7. KeepsOthers(project, q, "face", out)
  <2> HIDE DEF out
  <2>1. StayPut(project, q, (Present(project) \cap Present(q)) \ out, "face" # "reorder")
        BY <1>6 DEF StayPut
  <2>2. QED BY <1>2, <1>3, <2>1 DEF KeepsOthers
<1>8. QED BY <1>1, <1>7

LEMMA ChangeCarries ==
  ASSUME ProjectOK(project), NEW s \in Setups, SetStockChange(s)
  PROVE  \E q, out : Edit("change", q, out) /\ KeepsOthers(project, q, "change", out)
<1> DEFINE on == IF s \in project.changed THEN project.changed \ {s} ELSE project.changed \cup {s}
           q == [project EXCEPT !.changed = on]
<1>1. q = [project EXCEPT !.changed = IF s \in @ THEN @ \ {s} ELSE @ \cup {s}]
      OBVIOUS
<1>2. PICK out : Edit("change", q, out)
      BY <1>1 DEF SetStockChange
<1>3. on \in SUBSET Setups
      BY DEF ProjectOK, Project
<1> HIDE DEF on
<1>4. /\ q \in Project /\ q.order = project.order /\ q.minted = project.minted
      /\ q.face = project.face /\ q.rest = project.rest /\ q.regions = project.regions
      /\ q.param = project.param
      BY <1>3 DEF ProjectOK, Project
<1> HIDE DEF q
<1>5. KeepsOthers(project, q, "change", out)
      BY <1>4, SettingsCarry
<1>6. QED BY <1>2, <1>5

\* Taking a row out of its list.
LEMMA WithoutKeeps ==
  ASSUME NEW p, ProjectOK(p), NEW r \in Present(p)
  PROVE  LET o == p.order[SetupOf(p, r)]
             t == Without(o, r)
         IN  /\ o \in Seq(Rows) /\ Once(o) /\ r \in Range(o)
             /\ t \in Seq(Rows) /\ Once(t) /\ Range(t) = Range(o) \ {r}
             /\ Len(t) = Len(o) - 1
             /\ \A x, y : Precedes(o, x, y) /\ r \notin {x, y} => Precedes(t, x, y)
<1> DEFINE o == p.order[SetupOf(p, r)]
           t == Without(o, r)
<1>1. SetupOf(p, r) \in Setups /\ r \in Range(o)
      BY Places
<1>2. o \in Seq(Rows) /\ Once(o)
      BY <1>1, ListedIsOnePlace DEF ProjectOK, Listed
<1> DEFINE i == CHOOSE i \in DOMAIN o : o[i] = r
<1>3. i \in 1..Len(o) /\ o[i] = r
  <2>1. DOMAIN o = 1..Len(o)
        BY <1>2, LenProperties
  <2>2. \E k \in DOMAIN o : o[k] = r
        BY <1>1 DEF Range
  <2>3. QED BY <2>1, <2>2
<1>4. t = Dequeued(o, i)
      BY DEF Without
<1> HIDE DEF i, t
<1>5. /\ t \in Seq(Rows) /\ Once(t) /\ Range(t) = Range(o) \ {o[i]}
      /\ \A x, y : Precedes(o, x, y) /\ o[i] \notin {x, y} => Precedes(t, x, y)
      BY <1>2, <1>3, <1>4, DequeuedKeeps
<1>6. Len(t) = Len(o) - 1
      BY <1>2, <1>3, <1>4, DequeuedIs
<1>7. QED BY <1>1, <1>2, <1>3, <1>5, <1>6 DEF t

\* Project q lists setup s anew as t: it holds the rows in `new`, that no
\* project held, and none of the rows in `gone`, that are dropped.
Relists(p, q, s, t, kind, out, new, gone) ==
  /\ q \in Project /\ s \in Setups /\ t \in Seq(Rows) /\ Once(t)
  /\ q.order = [p.order EXCEPT ![s] = t] /\ q.face = p.face
  /\ Range(t) = (Range(p.order[s]) \ gone) \cup new
  /\ new \cap p.minted = {} /\ q.minted = p.minted \cup new /\ gone \subseteq out
  /\ kind = "reorder" \/ \A x, y : Precedes(p.order[s], x, y) /\ {x, y} \cap gone = {}
                                      => Precedes(t, x, y)
  /\ \A r \in Present(p) \ out : /\ q.param[r] = p.param[r]
                                 /\ r \in q.rest <=> r \in p.rest
                                 /\ q.regions[r] = p.regions[r]

\* An edit of one list: the rows that stay keep their order.
LEMMA ListCarries ==
  ASSUME NEW p, ProjectOK(p), NEW q, NEW s, NEW t, NEW kind, NEW out, NEW new, NEW gone,
         Relists(p, q, s, t, kind, out, new, gone)
  PROVE  /\ KeepsOthers(p, q, kind, out)
         /\ Present(q) = (Present(p) \ (gone \cap Range(p.order[s]))) \cup new
<1>0. /\ q \in Project /\ s \in Setups /\ t \in Seq(Rows) /\ Once(t)
      /\ q.order = [p.order EXCEPT ![s] = t] /\ q.face = p.face
      /\ Range(t) = (Range(p.order[s]) \ gone) \cup new
      /\ new \cap p.minted = {} /\ q.minted = p.minted \cup new /\ gone \subseteq out
      BY DEF Relists
<1>1. Range(p.order[s]) \subseteq Present(p) /\ Present(p) \subseteq p.minted
      BY <1>0, Places DEF ProjectOK
<1>2. Range(t) \cap (Present(p) \ Range(p.order[s])) = {}
      BY <1>0, <1>1
<1>3. Range(t) \subseteq q.minted /\ p.minted \subseteq q.minted
      BY <1>0, <1>1
<1>4. /\ ProjectOK(q)
      /\ Present(q) = (Present(p) \ Range(p.order[s])) \cup Range(t)
      /\ \A x \in Present(q) : SetupOf(q, x) = IF x \in Range(t) THEN s ELSE SetupOf(p, x)
      BY <1>0, <1>2, <1>3, Relisted
<1>5. Present(q) = (Present(p) \ (gone \cap Range(p.order[s]))) \cup new
      BY <1>0, <1>1, <1>4
<1> DEFINE K == (Present(p) \cap Present(q)) \ {}
<1>6. \A x \in K : SetupOf(q, x) = SetupOf(p, x) /\ (x \in Range(p.order[s]) => x \notin gone)
  <2>1. \A x \in Range(p.order[s]) : SetupOf(p, x) = s
        BY <1>0, Places
  <2>2. QED BY <1>0, <1>1, <1>4, <1>5, <2>1
<1>7. StayPut(p, q, K, kind # "reorder")
  <2>1. CASE kind = "reorder"
    <3>1. \A r \in K : SetupOf(q, r) = SetupOf(p, r)
                       /\ q.face[SetupOf(p, r)] = p.face[SetupOf(p, r)]
          BY <1>0, <1>6
    <3>2. QED BY <2>1, <3>1 DEF StayPut
  <2>2. CASE kind # "reorder"
    <3>1. \A x, y \in K : Precedes(p.order[s], x, y) => Precedes(t, x, y)
      <4>1. SUFFICES ASSUME NEW x \in K, NEW y \in K, Precedes(p.order[s], x, y)
                     PROVE  Precedes(t, x, y)
            OBVIOUS
      <4>2. DOMAIN p.order[s] = 1..Len(p.order[s])
            BY <1>0, LenProperties DEF ProjectOK, Project
      <4>3. x \in Range(p.order[s]) /\ y \in Range(p.order[s])
            BY <4>1, <4>2 DEF Precedes, Range
      <4>4. {x, y} \cap gone = {}
            BY <1>6, <4>3
      <4>5. QED BY <2>2, <4>1, <4>4 DEF Relists
    <3>2. K \subseteq Present(p) \cap Present(q)
          OBVIOUS
    <3> HIDE DEF K
    <3>3. StayPut(p, q, K, TRUE)
          BY <1>0, <1>4, <1>6, <3>1, <3>2, RelistedStay
    <3>4. QED BY <3>3, StayPutWeaker
  <2>3. QED BY <2>1, <2>2
<1>8. \E moved : /\ moved \subseteq out
                 /\ kind \notin {"face", "move"} => moved = {}
                 /\ StayPut(p, q, (Present(p) \cap Present(q)) \ moved, kind # "reorder")
  <2> WITNESS {}
  <2>1. QED BY <1>7
<1>9. /\ ProjectOK(q)
      /\ p.minted \subseteq q.minted /\ Present(q) \cap p.minted \subseteq Present(p)
      /\ \A r \in Present(p) \ out :
           /\ r \in Present(q)
           /\ q.param[r] = p.param[r]
           /\ r \in q.rest <=> r \in p.rest
           /\ q.regions[r] = p.regions[r]
      BY <1>0, <1>4, <1>5, <1>1 DEF Relists
<1>10. QED BY <1>5, <1>8, <1>9 DEF KeepsOthers

LEMMA AddCarries ==
  ASSUME ProjectOK(project), NEW r \in Rows, NEW s \in Setups, Add(r, s)
  PROVE  \E q, out : Edit("add", q, out) /\ KeepsOthers(project, q, "add", out)
<1> DEFINE t == Append(project.order[s], r)
           q == [project EXCEPT !.minted = @ \cup {r}, !.order[s] = Append(@, r)]
<1>1. r \notin project.minted /\ Edit("add", q, {})
      BY DEF Add
<1>2. r \notin Present(project) /\ Range(project.order[s]) \subseteq Present(project)
      BY <1>1, Places DEF ProjectOK
<1>3. project.order[s] \in Seq(Rows) /\ Once(project.order[s])
      BY ListedIsOnePlace DEF ProjectOK, Listed
<1>4. /\ t \in Seq(Rows) /\ Once(t) /\ Range(t) = Range(project.order[s]) \cup {r}
      /\ \A x, y : Precedes(project.order[s], x, y) => Precedes(t, x, y)
  <2> DEFINE o == project.order[s]
  <2>1. r \notin Range(o) /\ o \in Seq(Rows) /\ Once(o)
        BY <1>2, <1>3
  <2> HIDE DEF o
  <2>2. /\ Append(o, r) \in Seq(Rows) /\ Once(Append(o, r))
        /\ Range(Append(o, r)) = Range(o) \cup {r}
        /\ \A x, y : Precedes(o, x, y) => Precedes(Append(o, r), x, y)
        BY <2>1, AppendKeeps
  <2>3. QED BY <2>2 DEF o
<1>5. /\ q.order = [project.order EXCEPT ![s] = t] /\ q.minted = project.minted \cup {r}
      /\ q.face = project.face /\ q.rest = project.rest /\ q.regions = project.regions
      /\ q.param = project.param
      BY DEF ProjectOK, Project
<1>6. q \in Project
  <2>1. [project.order EXCEPT ![s] = t] \in [Setups -> Seq(Rows)]
        BY <1>4 DEF ProjectOK, Project
  <2>2. q = [project EXCEPT !.minted = project.minted \cup {r},
                            !.order = [project.order EXCEPT ![s] = t]]
        BY DEF ProjectOK, Project
  <2> HIDE DEF q, t
  <2>3. QED BY <2>1, <2>2 DEF ProjectOK, Project
<1> HIDE DEF q, t
<1>7. KeepsOthers(project, q, "add", {})
  <2>1. /\ Range(t) = (Range(project.order[s]) \ {}) \cup {r}
        /\ {r} \cap project.minted = {}
        BY <1>1, <1>4
  <2>2. Relists(project, q, s, t, "add", {}, {r}, {})
        BY <1>4, <1>5, <1>6, <2>1 DEF Relists
  <2>3. QED BY <2>2, ListCarries
<1>8. QED BY <1>1, <1>7

\* The row is gone; every handle is outdated.
LEMMA RemoveCarries ==
  ASSUME ProjectOK(project), NEW r \in Present(project), Remove(r)
  PROVE  \E q, out : /\ "remove" \in Edits
                     /\ Command(q, result, out, Outdate(lane, Rows))
                     /\ DropSimulation /\ edits' = edits + 1
                     /\ KeepsOthers(project, q, "remove", out)
<1> DEFINE s == SetupOf(project, r)
           o == project.order[s]
           t == Without(o, r)
           q == [project EXCEPT !.order[s] = Without(@, r)]
           out == {r} \cup Walk(project, {r}, {r})
<1>1. /\ "remove" \in Edits
      /\ Command(q, result, out, Outdate(lane, Rows))
      /\ DropSimulation /\ edits' = edits + 1
      BY DEF Remove
<1>2. /\ t \in Seq(Rows) /\ Once(t) /\ Range(t) = Range(o) \ {r}
      /\ \A x, y : Precedes(o, x, y) /\ r \notin {x, y} => Precedes(t, x, y)
      BY WithoutKeeps
<1>3. s \in Setups
      BY Places
<1>4. /\ q.order = [project.order EXCEPT ![s] = t] /\ q.minted = project.minted
      /\ q.face = project.face /\ q.rest = project.rest /\ q.regions = project.regions
      /\ q.param = project.param
      BY DEF ProjectOK, Project
<1>5. q \in Project
  <2>1. [project.order EXCEPT ![s] = t] \in [Setups -> Seq(Rows)]
        BY <1>2 DEF ProjectOK, Project
  <2>2. q = [project EXCEPT !.order = [project.order EXCEPT ![s] = t]]
        BY DEF ProjectOK, Project
  <2> HIDE DEF q, t
  <2>3. QED BY <2>1, <2>2 DEF ProjectOK, Project
<1>6. r \in out
      OBVIOUS
<1> HIDE DEF q, t, s, out
<1>7. Relists(project, q, s, t, "remove", out, {}, {r})
      BY <1>2, <1>3, <1>4, <1>5, <1>6 DEF Relists
<1>8. QED BY <1>1, <1>7, ListCarries

LEMMA ReorderCarries ==
  ASSUME ProjectOK(project), NEW r \in Present(project), NEW target \in Present(project),
         Reorder(r, target)
  PROVE  \E q, out : Edit("reorder", q, out) /\ KeepsOthers(project, q, "reorder", out)
<1> DEFINE q == Reordered(r, target)
           s == SetupOf(project, r)
<1>1. PICK out : Edit("reorder", q, out)
      BY DEF Reorder
<1>2. CASE SetupOf(project, target) # s
  <2>1. q = project
        BY <1>2 DEF Reordered
  <2>2. KeepsOthers(project, q, "reorder", out)
        BY <2>1, SettingsCarry DEF ProjectOK
  <2>3. QED BY <1>1, <2>2
<1>3. CASE SetupOf(project, target) = s
  <2> DEFINE o == project.order[s]
             u == Without(o, r)
             at == Position(project, target)
             t == Insert(u, at, r)
  <2>1. s \in Setups /\ r \in Rows
        BY Places
  <2>2. /\ o \in Seq(Rows) /\ r \in Range(o) /\ u \in Seq(Rows) /\ Once(u)
        /\ Range(u) = Range(o) \ {r} /\ Len(u) = Len(o) - 1
        BY WithoutKeeps
  <2>3. at \in 1..(Len(u) + 1)
    <3>1. at \in 1..Len(o)
          BY <1>3, PositionIs
    <3>2. Len(o) \in Nat
          BY <2>2, LenProperties
    <3>3. QED BY <2>2, <3>1, <3>2
  <2>4. t \in Seq(Rows) /\ Once(t) /\ Range(t) = Range(o)
    <3>1. r \notin Range(u)
          BY <2>2
    <3> HIDE DEF u, at
    <3>2. t \in Seq(Rows) /\ Once(t) /\ Range(t) = Range(u) \cup {r}
          BY <2>1, <2>2, <2>3, <3>1, InsertKeeps
    <3>3. QED BY <2>2, <3>2
  <2>5. q = [project EXCEPT !.order = [project.order EXCEPT ![s] = t]]
        BY <1>3 DEF Reordered, ProjectOK, Project
  <2> HIDE DEF q, t, o, s
  <2>6. [project.order EXCEPT ![s] = t] \in [Setups -> Seq(Rows)]
        BY <2>4 DEF ProjectOK, Project
  <2>7. /\ q \in Project
        /\ q.order = [project.order EXCEPT ![s] = t] /\ q.minted = project.minted
        /\ q.face = project.face /\ q.rest = project.rest /\ q.regions = project.regions
        /\ q.param = project.param
        BY <2>5, <2>6 DEF ProjectOK, Project
  <2>8. Relists(project, q, s, t, "reorder", out, {}, {})
        BY <2>1, <2>4, <2>7 DEF Relists, o
  <2>9. QED BY <1>1, <2>8, ListCarries DEF q
<1>4. QED BY <1>2, <1>3

LEMMA BoreCarries ==
  ASSUME ProjectOK(project), NEW drill \in Present(project), NEW bore \in Rows,
         AddBore(bore, drill)
  PROVE  \E q, out : Edit("bore", q, out) /\ KeepsOthers(project, q, "bore", out)
<1> DEFINE s == SetupOf(project, drill)
           o == project.order[s]
           at == Position(project, drill) + 1
           t == Insert(o, at, bore)
           Like(set) == IF drill \in set THEN set \cup {bore} ELSE set \ {bore}
           q == [project EXCEPT !.minted = @ \cup {bore},
                                !.order[s] = Insert(@, at, bore),
                                !.param[bore] = project.param[drill],
                                !.enabled = Like(@), !.rest = Like(@)]
<1>1. bore \notin project.minted /\ Edit("bore", q, Walk(q, {bore}, {bore}))
      BY DEF AddBore
<1>2. s \in Setups /\ drill \in Rows /\ Range(o) \subseteq Present(project)
      BY Places
<1>3. o \in Seq(Rows) /\ Once(o)
      BY <1>2, ListedIsOnePlace DEF ProjectOK, Listed
<1>4. at \in 1..(Len(o) + 1)
  <2>1. Position(project, drill) \in 1..Len(o) /\ Len(o) \in Nat
        BY <1>3, PositionIs, LenProperties
  <2>2. QED BY <2>1
<1>5. bore \notin Present(project)
      BY <1>1 DEF ProjectOK
<1>6. /\ t \in Seq(Rows) /\ Once(t) /\ Range(t) = Range(o) \cup {bore}
      /\ \A x, y : Precedes(o, x, y) => Precedes(t, x, y)
  <2>1. bore \notin Range(o)
        BY <1>2, <1>5
  <2> HIDE DEF o, at
  <2>2. QED BY <1>3, <1>4, <2>1, InsertKeeps
<1> HIDE DEF at, o
<1>7. /\ Like(project.enabled) \in SUBSET Rows /\ Like(project.rest) \in SUBSET Rows
      /\ \A x \in Present(project) : x \in Like(project.rest) <=> x \in project.rest
      BY <1>5 DEF ProjectOK, Project
<1> DEFINE en == Like(project.enabled)
           re == Like(project.rest)
           pa == [project.param EXCEPT ![bore] = project.param[drill]]
           or == [project.order EXCEPT ![s] = t]
<1>8. or \in [Setups -> Seq(Rows)] /\ pa \in [Rows -> Params]
      BY <1>2, <1>6 DEF ProjectOK, Project
<1>9. q = [project EXCEPT !.minted = project.minted \cup {bore}, !.order = or,
                          !.param = pa, !.enabled = en, !.rest = re]
      BY DEF ProjectOK, Project, o
<1>10. \A x \in Present(project) : pa[x] = project.param[x]
      BY <1>5, Places DEF ProjectOK, Project
<1>11. en \in SUBSET Rows /\ re \in SUBSET Rows
       /\ \A x \in Present(project) : x \in re <=> x \in project.rest
      BY <1>7
<1> HIDE DEF en, re, pa
<1>12. or = [project.order EXCEPT ![s] = t]
      OBVIOUS
<1> HIDE DEF or, q
<1>13. /\ q \in Project
       /\ q.order = or /\ q.minted = project.minted \cup {bore}
       /\ q.face = project.face /\ q.rest = re /\ q.regions = project.regions
       /\ q.param = pa
       BY <1>8, <1>9, <1>11 DEF ProjectOK, Project
<1>14. Relists(project, q, s, t, "bore", Walk(q, {bore}, {bore}), {bore}, {})
  <2>1. Range(t) = (Range(project.order[s]) \ {}) \cup {bore}
        BY <1>6 DEF o
  <2>2. \A x, y : Precedes(project.order[s], x, y) => Precedes(t, x, y)
        BY <1>6 DEF o
  <2>3. {bore} \cap project.minted = {} /\ t \in Seq(Rows) /\ Once(t)
        BY <1>1, <1>6
  <2> HIDE DEF s, t
  <2>4. QED BY <1>2, <1>10, <1>11, <1>12, <1>13, <2>1, <2>2, <2>3 DEF Relists
<1>15. QED BY <1>1, <1>14, ListCarries

\* The row leaves one list and enters another: both keep their order.
LEMMA MoveCarries ==
  ASSUME ProjectOK(project), NEW r \in Present(project), NEW s \in Setups,
         NEW at \in 1..(Len(project.order[s]) + 1), MoveToSetup(r, s, at)
  PROVE  \E q, out : Edit("move", q, out) /\ KeepsOthers(project, q, "move", out)
<1> DEFINE s0  == SetupOf(project, r)
           t0  == Without(project.order[s0], r)
           off == [project EXCEPT !.order[s0] = Without(@, r)]
           t   == Insert(off.order[s], at, r)
           q   == [off EXCEPT !.order[s] = Insert(@, at, r)]
           out == {r} \cup Walk(project, {r}, {r})
           K   == (Present(project) \cap Present(q)) \ {r}
<1>1. at <= Len(off.order[s]) + 1 /\ Edit("move", q, out)
      BY DEF MoveToSetup
<1>2. s0 \in Setups /\ r \in Rows /\ r \in Range(project.order[s0]) /\ r \in project.minted
      BY Places DEF ProjectOK
<1>3. /\ t0 \in Seq(Rows) /\ Once(t0) /\ Range(t0) = Range(project.order[s0]) \ {r}
      /\ \A x, y : Precedes(project.order[s0], x, y) /\ r \notin {x, y} => Precedes(t0, x, y)
      BY WithoutKeeps
<1>4. off = [project EXCEPT !.order = [project.order EXCEPT ![s0] = t0]]
      BY DEF ProjectOK, Project
<1>5. q = [off EXCEPT !.order = [off.order EXCEPT ![s] = t]]
      BY DEF ProjectOK, Project
<1>6. r \in out
      OBVIOUS
<1> HIDE DEF s0, t0, off, t, q, out
<1>7. /\ off \in Project
      /\ off.order = [project.order EXCEPT ![s0] = t0] /\ off.minted = project.minted
      /\ off.face = project.face /\ off.rest = project.rest
      /\ off.regions = project.regions /\ off.param = project.param
  <2>1. [project.order EXCEPT ![s0] = t0] \in [Setups -> Seq(Rows)]
        BY <1>3 DEF ProjectOK, Project
  <2>2. QED BY <1>4, <2>1 DEF ProjectOK, Project
<1>8. Relists(project, off, s0, t0, "remove", {r}, {}, {r})
      BY <1>2, <1>3, <1>7 DEF Relists
<1>9. ProjectOK(off)
      BY <1>8, ListCarries DEF KeepsOthers
<1>10. Present(off) = Present(project) \ {r}
      BY <1>2, <1>8, ListCarries
<1>11. StayPut(project, off, Present(off), TRUE)
  <2>1. PICK moved : /\ moved = {}
                     /\ StayPut(project, off, (Present(project) \cap Present(off)) \ moved, "remove" # "reorder")
    <3>1. KeepsOthers(project, off, "remove", {r})
          BY <1>8, ListCarries
    <3>2. "remove" \notin {"face", "move"}
          OBVIOUS
    <3>3. QED BY <3>1, <3>2 DEF KeepsOthers
  <2>2. (Present(project) \cap Present(off)) \ moved = Present(off)
        BY <1>10, <2>1
  <2>3. ("remove" # "reorder") = TRUE
        OBVIOUS
  <2>4. QED BY <2>1, <2>2, <2>3
<1>12. off.order[s] \in Seq(Rows) /\ Once(off.order[s])
      BY <1>9, ListedIsOnePlace DEF ProjectOK, Listed
<1>13. r \notin Range(off.order[s]) /\ Range(off.order[s]) \subseteq Present(off)
      BY <1>9, <1>10, Places
<1>14. at \in 1..(Len(off.order[s]) + 1)
  <2>1. Len(off.order[s]) \in Nat /\ Len(project.order[s]) \in Nat
        BY <1>12, LenProperties DEF ProjectOK, Project
  <2>2. QED BY <1>1, <2>1
<1>15. /\ t \in Seq(Rows) /\ Once(t) /\ Range(t) = Range(off.order[s]) \cup {r}
       /\ \A x, y : Precedes(off.order[s], x, y) => Precedes(t, x, y)
      BY <1>2, <1>12, <1>13, <1>14, InsertKeeps DEF t
<1>16. /\ q \in Project
       /\ q.order = [off.order EXCEPT ![s] = t] /\ q.minted = project.minted
       /\ q.face = project.face /\ q.rest = project.rest
       /\ q.regions = project.regions /\ q.param = project.param
  <2>1. [off.order EXCEPT ![s] = t] \in [Setups -> Seq(Rows)]
        BY <1>7, <1>15 DEF Project
  <2>2. QED BY <1>5, <1>7, <2>1 DEF Project
<1>17. /\ ProjectOK(q)
       /\ Present(q) = (Present(off) \ Range(off.order[s])) \cup Range(t)
       /\ \A x \in Present(q) : SetupOf(q, x) = IF x \in Range(t) THEN s ELSE SetupOf(off, x)
  <2>1. /\ Range(t) \cap (Present(off) \ Range(off.order[s])) = {}
        /\ Range(t) \subseteq q.minted /\ off.minted \subseteq q.minted
        BY <1>2, <1>7, <1>9, <1>10, <1>13, <1>15, <1>16 DEF ProjectOK
  <2>2. QED BY <1>9, <1>15, <1>16, <2>1, Relisted
<1>18. Present(q) = Present(project)
      BY <1>10, <1>13, <1>15, <1>17, <1>2
<1>19. StayPut(off, q, Present(off), TRUE)
  <2>1. \A x \in Present(off) : SetupOf(q, x) = SetupOf(off, x)
        BY <1>9, <1>10, <1>15, <1>17, <1>18, Places
  <2>2. q.face = off.face /\ Present(off) \subseteq Present(off) \cap Present(q)
        BY <1>7, <1>10, <1>16, <1>18
  <2>3. QED BY <1>9, <1>15, <1>16, <1>17, <2>1, <2>2, RelistedStay
<1>20. StayPut(project, q, Present(off), TRUE)
      BY <1>11, <1>19, <1>16, <1>7 DEF StayPut
<1>21. \E moved : /\ moved \subseteq out
                  /\ "move" \notin {"face", "move"} => moved = {}
                  /\ StayPut(project, q, (Present(project) \cap Present(q)) \ moved, "move" # "reorder")
  <2>1. (Present(project) \cap Present(q)) \ {r} = Present(off)
        BY <1>10, <1>18
  <2>2. ("move" # "reorder") = TRUE
        OBVIOUS
  <2> WITNESS {r}
  <2>3. QED BY <1>6, <1>20, <2>1, <2>2
<1>22. KeepsOthers(project, q, "move", out)
  <2>1. /\ ProjectOK(q)
        /\ project.minted \subseteq q.minted
        /\ Present(q) \cap project.minted \subseteq Present(project)
        /\ \A x \in Present(project) \ out :
             /\ x \in Present(q)
             /\ q.param[x] = project.param[x]
             /\ x \in q.rest <=> x \in project.rest
             /\ q.regions[x] = project.regions[x]
        BY <1>16, <1>17, <1>18
  <2>2. QED BY <1>21, <2>1 DEF KeepsOthers
<1>23. QED BY <1>1, <1>22

\* Every edit: a command on the project, with all handles outdated or none,
\* that drops the simulation and keeps the other rows.
LEMMA EditCarries ==
  ASSUME ProjectOK(project), SomeEdit
  PROVE  \E kind \in Edits : \E q, out, handles :
           /\ Command(q, result, out, handles)
           /\ handles \in {lane, Outdate(lane, Rows)}
           /\ KeepsOthers(project, q, kind, out)
           /\ DropSimulation /\ edits' = edits + 1 /\ edits < MaxEdits
<1>1. ASSUME NEW kind, NEW q, NEW out, Edit(kind, q, out), KeepsOthers(project, q, kind, out)
      PROVE  \E k \in Edits : \E p, o, handles :
               /\ Command(p, result, o, handles)
               /\ handles \in {lane, Outdate(lane, Rows)}
               /\ KeepsOthers(project, p, k, o)
               /\ DropSimulation /\ edits' = edits + 1
      BY <1>1 DEF Edit
<1>2. ASSUME NEW r \in Present(project), Remove(r)
      PROVE  \E k \in Edits : \E p, o, handles :
               /\ Command(p, result, o, handles)
               /\ handles \in {lane, Outdate(lane, Rows)}
               /\ KeepsOthers(project, p, k, o)
               /\ DropSimulation /\ edits' = edits + 1
      BY <1>2, RemoveCarries
<1>3. \/ \E r \in Present(project) : Remove(r)
      \/ \E kind, q, out : Edit(kind, q, out) /\ KeepsOthers(project, q, kind, out)
  <2>1. \A r \in Present(project) : \A v \in Params : SetParam(r, v) =>
          \E q, out : Edit("param", q, out) /\ KeepsOthers(project, q, "param", out)
        BY ParamCarries
  <2>2. \A r \in Present(project) : SetEnabled(r) =>
          \E q, out : Edit("enable", q, out) /\ KeepsOthers(project, q, "enable", out)
        BY EnabledCarries
  <2>3. \A r \in Present(project) : SetStockSource(r) =>
          \E q, out : Edit("stock_source", q, out) /\ KeepsOthers(project, q, "stock_source", out)
        BY StockSourceCarries
  <2>4. \A r \in Present(project) : \A source \in Present(project) \cup {None} :
          SetBoundary(r, source) =>
            \E q, out : Edit("boundary", q, out) /\ KeepsOthers(project, q, "boundary", out)
        BY BoundaryCarries
  <2>5. \A r, target \in Present(project) : Reorder(r, target) =>
          \E q, out : Edit("reorder", q, out) /\ KeepsOthers(project, q, "reorder", out)
        BY ReorderCarries
  <2>6. \A r \in Present(project) : \A s \in Setups : \A at \in 1..(Len(project.order[s]) + 1) :
          MoveToSetup(r, s, at) =>
            \E q, out : Edit("move", q, out) /\ KeepsOthers(project, q, "move", out)
        BY MoveCarries
  <2>7. \A r \in Present(project) : \A bore \in Rows : AddBore(bore, r) =>
          \E q, out : Edit("bore", q, out) /\ KeepsOthers(project, q, "bore", out)
        BY BoreCarries
  <2>8. \A r \in Rows, s \in Setups : Add(r, s) =>
          \E q, out : Edit("add", q, out) /\ KeepsOthers(project, q, "add", out)
        BY AddCarries
  <2>9. \A s \in Setups :
          /\ SetFace(s) =>
               \E q, out : Edit("face", q, out) /\ KeepsOthers(project, q, "face", out)
          /\ SetStockChange(s) =>
               \E q, out : Edit("change", q, out) /\ KeepsOthers(project, q, "change", out)
        BY FaceCarries, ChangeCarries
  <2>10. CASE \E r \in Present(project) : \/ \E v \in Params \ {project.param[r]} : SetParam(r, v)
                                          \/ SetEnabled(r)
                                          \/ SetStockSource(r)
         BY <2>1, <2>2, <2>3, <2>10
  <2>11. CASE \E r \in Present(project) :
                \/ \E source \in Present(project) \cup {None} : SetBoundary(r, source)
                \/ \E target \in Present(project) : Reorder(r, target)
         BY <2>4, <2>5, <2>11
  <2>12. CASE \E r \in Present(project) :
                \/ \E s \in Setups : \E at \in 1..(Len(project.order[s]) + 1) : MoveToSetup(r, s, at)
                \/ \E bore \in Rows : AddBore(bore, r)
         BY <2>6, <2>7, <2>12
  <2>13. CASE \/ \E r \in Rows, s \in Setups : Add(r, s)
              \/ \E s \in Setups : SetFace(s) \/ SetStockChange(s)
         BY <2>8, <2>9, <2>13
  <2>14. QED BY <2>10, <2>11, <2>12, <2>13 DEF SomeEdit
<1>4. edits < MaxEdits
      BY DEF SomeEdit
<1>5. QED BY <1>1, <1>2, <1>3, <1>4

-----------------------------------------------------------------------------
(* Lists of records.                                                       *)

IsList(s) == \E S : s \in Seq(S)

\* Lists whose elements are not known.
LEMMA ListIs ==
  ASSUME NEW s, IsList(s)
  PROVE  Len(s) \in Nat /\ DOMAIN s = 1..Len(s) /\ (s # <<>> => Len(s) # 0)
BY LenProperties, EmptySeq DEF IsList

LEMMA EmptyList == IsList(<<>>) /\ Len(<<>>) = 0
<1> DEFINE none == {}
<1>1. <<>> \in Seq(none) /\ Len(<<>>) = 0
      BY EmptySeq
<1> HIDE DEF none
<1>2. QED BY <1>1 DEF IsList

LEMMA TailList ==
  ASSUME NEW s, IsList(s), s # <<>>
  PROVE  /\ IsList(Tail(s)) /\ Len(Tail(s)) = Len(s) - 1 /\ Head(s) = s[1]
         /\ Len(s) \in Nat \ {0}
         /\ \A i \in 1..(Len(s) - 1) : Tail(s)[i] = s[i + 1]
<1>1. PICK S : s \in Seq(S)
      BY DEF IsList
<1>2. /\ Tail(s) \in Seq(S) /\ Len(Tail(s)) = Len(s) - 1
      /\ \A i \in 1..Len(Tail(s)) : Tail(s)[i] = s[i + 1]
      BY <1>1, HeadTailProperties
<1>3. Len(s) \in Nat \ {0} /\ Head(s) = s[1]
      BY <1>1, EmptySeq
<1>4. QED BY <1>2, <1>3 DEF IsList

LEMMA DequeuedList ==
  ASSUME NEW s, IsList(s), NEW i \in 1..Len(s)
  PROVE  /\ IsList(Dequeued(s, i)) /\ Len(Dequeued(s, i)) = Len(s) - 1
         /\ \A j \in 1..(Len(s) - 1) :
              Dequeued(s, i)[j] = IF j < i THEN s[j] ELSE s[j + 1]
<1>1. PICK S : s \in Seq(S)
      BY DEF IsList
<1>2. /\ Dequeued(s, i) \in Seq(S) /\ Len(Dequeued(s, i)) = Len(s) - 1
      /\ \A j \in 1..(Len(s) - 1) :
           Dequeued(s, i)[j] = IF j < i THEN s[j] ELSE s[j + 1]
      BY <1>1, DequeuedIs
<1>3. QED BY <1>2 DEF IsList

LEMMA AppendList ==
  ASSUME NEW s, IsList(s), NEW x
  PROVE  /\ IsList(Append(s, x)) /\ Len(Append(s, x)) = Len(s) + 1
         /\ Append(s, x)[Len(s) + 1] = x
         /\ \A i \in 1..Len(s) : Append(s, x)[i] = s[i]
<1>1. PICK S : s \in Seq(S)
      BY DEF IsList
<1> DEFINE T == S \cup {x}
<1>2. s \in Seq(T) /\ x \in T
      BY <1>1, SeqMonotonic
<1> HIDE DEF T
<1>3. /\ Append(s, x) \in Seq(T) /\ Len(Append(s, x)) = Len(s) + 1
      /\ \A i \in 1..Len(s) : Append(s, x)[i] = s[i]
      /\ Append(s, x)[Len(s) + 1] = x
      BY <1>2, AppendProperties
<1>4. QED BY <1>3 DEF IsList

LEMMA PrefixList ==
  ASSUME NEW s, IsList(s), NEW n \in 0..Len(s)
  PROVE  /\ IsList(SubSeq(s, 1, n)) /\ Len(SubSeq(s, 1, n)) = n
         /\ \A i \in 1..n : SubSeq(s, 1, n)[i] = s[i]
<1>1. PICK S : s \in Seq(S)
      BY DEF IsList
<1>2. Len(s) \in Nat /\ \A i \in 1..n : s[i] \in S
      BY <1>1, LenProperties, ElementOfSeq
<1>3. /\ SubSeq(s, 1, n) \in Seq(S) /\ Len(SubSeq(s, 1, n)) = IF 1 <= n THEN n - 1 + 1 ELSE 0
      /\ \A i \in 1..(n - 1 + 1) : SubSeq(s, 1, n)[i] = s[1 + i - 1]
      BY <1>2, SubSeqProperties
<1>4. QED BY <1>2, <1>3 DEF IsList

\* Any list, element by element.
LEMMA MapList ==
  ASSUME NEW s, IsList(s), NEW f, f = [i \in DOMAIN s |-> f[i]]
  PROVE  IsList(f) /\ Len(f) = Len(s)
<1>1. Len(s) \in Nat /\ DOMAIN s = 1..Len(s)
      BY ListIs
<1> DEFINE S == {f[i] : i \in 1..Len(s)}
<1>2. f \in [1..Len(s) -> S]
      BY <1>1
<1>3. f \in Seq(S) /\ Len(f) = Len(s)
      BY <1>1, <1>2
<1> HIDE DEF S
<1>4. QED BY <1>3 DEF IsList

-----------------------------------------------------------------------------
(* Types, with the shape of every record a field is read of.               *)

IsEntry(e)  == e = [row |-> e.row, moves |-> e.moves, face |-> e.face]
IsSource(x) == /\ SourceOK(x)
               /\ x = [cell |-> x.cell, carved |-> x.carved, changes |-> x.changes]
               /\ \A e \in x.carved : IsEntry(e)
IsAnswer(x) == ResultOK(x) /\ IsSource(x.source)
IsHandle(h) == /\ h = [row |-> h.row, live |-> h.live, answer |-> h.answer]
               /\ h.row \in Rows /\ h.live \in BOOLEAN /\ IsAnswer(h.answer)
IsRun(x)    == x = [prior |-> x.prior, rows |-> x.rows, live |-> x.live]

\* A simulation's snapshots: of rows the project has or had.
IsPrior(p, prior) ==
  \A r \in DOMAIN prior : /\ r \in p.minted /\ IsSource(prior[r])
                          /\ \A e \in prior[r].carved : e.row \in p.minted

AreResults(res) == DOMAIN res = Rows /\ \A r \in HeldIn(res) : IsAnswer(res[r])
AreHandles(s)   == IsList(s) /\ \A i \in 1..Len(s) : IsHandle(s[i])
AreRuns(p, s)   == IsList(s) /\ \A i \in 1..Len(s) : IsRun(s[i]) /\ IsPrior(p, s[i].prior)

Typed ==
  /\ ProjectOK(project)
  /\ AreResults(result) /\ HeldIn(result) \subseteq Present(project)
  /\ sim # None => IsPrior(project, sim)
  /\ AreHandles(lane) /\ Len(lane) <= MaxLane
  /\ AreRuns(project, runs) /\ Len(runs) <= MaxRuns
  /\ stamp \in BOOLEAN /\ edits \in 0..MaxEdits

\* The inductive invariant gives the types.
LEMMA TypedIsTypeOK == Typed => TypeOK
<1>1. SUFFICES ASSUME Typed PROVE TypeOK
      OBVIOUS
<1>2. ProjectOK(project) /\ HeldIn(result) \subseteq Present(project)
      BY <1>1 DEF Typed
<1>3. DOMAIN result = Rows /\ \A r \in HeldIn(result) : ResultOK(result[r])
      BY <1>1 DEF Typed, AreResults, IsAnswer
<1>4. project.minted \subseteq Rows
      BY <1>2 DEF ProjectOK, Project
<1>5. sim # None => \A r \in DOMAIN sim : r \in Rows /\ SourceOK(sim[r])
      BY <1>1, <1>4 DEF Typed, IsPrior, IsSource
<1>6. \A i \in DOMAIN lane : lane[i].row \in Rows /\ lane[i].live \in BOOLEAN
                             /\ ResultOK(lane[i].answer)
      BY <1>1, ListIs DEF Typed, AreHandles, IsHandle, IsAnswer
<1>7. QED BY <1>1, <1>2, <1>3, <1>5, <1>6 DEF Typed, TypeOK

\* A drop keeps every handle and its answer, and silences those of its rows.
LEMMA OutdateIs ==
  ASSUME NEW s, AreHandles(s), NEW out
  PROVE  /\ AreHandles(Outdate(s, out)) /\ Len(Outdate(s, out)) = Len(s)
         /\ \A i \in 1..Len(s) :
              /\ Outdate(s, out)[i].row = s[i].row
              /\ Outdate(s, out)[i].answer = s[i].answer
              /\ Outdate(s, out)[i].live <=> s[i].live /\ s[i].row \notin out
<1> DEFINE t == Outdate(s, out)
<1>1. IsList(s) /\ DOMAIN s = 1..Len(s)
      BY ListIs DEF AreHandles
<1>2. t = [i \in DOMAIN s |-> t[i]]
      BY DEF Outdate
<1>3. IsList(t) /\ Len(t) = Len(s)
  <2> HIDE DEF t
  <2>1. QED BY <1>1, <1>2, MapList
<1>4. ASSUME NEW i \in 1..Len(s)
      PROVE  /\ IsHandle(t[i])
             /\ t[i].row = s[i].row /\ t[i].answer = s[i].answer
             /\ t[i].live <=> s[i].live /\ s[i].row \notin out
  <2>1. t[i] = [s[i] EXCEPT !.live = @ /\ s[i].row \notin out]
        BY <1>1 DEF Outdate
  <2>2. /\ s[i] = [row |-> s[i].row, live |-> s[i].live, answer |-> s[i].answer]
        /\ s[i].row \in Rows /\ s[i].live \in BOOLEAN /\ IsAnswer(s[i].answer)
        BY DEF AreHandles, IsHandle
  <2> DEFINE on == s[i].live /\ s[i].row \notin out
  <2>3. t[i] = [row |-> s[i].row, live |-> on, answer |-> s[i].answer]
        BY <2>1, <2>2
  <2>4. on \in BOOLEAN
        OBVIOUS
  <2> HIDE DEF t, on
  <2>5. IsHandle(t[i]) /\ t[i].row = s[i].row /\ t[i].answer = s[i].answer /\ t[i].live = on
        BY <2>2, <2>3, <2>4 DEF IsHandle
  <2>6. QED BY <2>5 DEF on
<1>5. QED BY <1>3, <1>4 DEF AreHandles

LEMMA HeldInDropped ==
  ASSUME NEW res, NEW out
  PROVE  /\ HeldIn(Dropped(res, out)) = HeldIn(res) \ out
         /\ \A r \in HeldIn(res) \ out : Dropped(res, out)[r] = res[r]
BY DEF HeldIn, Dropped

LEMMA DroppedTypes ==
  ASSUME NEW res, AreResults(res), NEW out
  PROVE  AreResults(Dropped(res, out))
BY HeldInDropped DEF AreResults, Dropped

\* A command drops `out` and what its sweep drops, of results and handles.
LEMMA CommandDrops ==
  ASSUME NEW q, ProjectOK(q), NEW res, AreResults(res), NEW out,
         NEW handles, AreHandles(handles), Command(q, res, out, handles)
  PROVE  \E gone :
           /\ out \subseteq gone /\ gone \subseteq out \cup Swept(q, Dropped(res, out))
           /\ project' = q
           /\ AreResults(result') /\ HeldIn(result') = HeldIn(res) \ gone
           /\ \A r \in HeldIn(result') : result'[r] = res[r]
           /\ OutOfDate(q, result') = {}
           /\ AreHandles(lane') /\ Len(lane') = Len(handles)
           /\ \A i \in 1..Len(handles) :
                /\ lane'[i].row = handles[i].row
                /\ lane'[i].answer = handles[i].answer
                /\ lane'[i].live <=> handles[i].live /\ handles[i].row \notin gone
<1>1. PICK gone : /\ out \subseteq gone /\ gone \subseteq out \cup Swept(q, Dropped(res, out))
                  /\ result' = Dropped(res, gone)
                  /\ lane' = Outdate(handles, gone)
                  /\ project' = q
                  /\ OutOfDate(q, Dropped(res, gone)) = {}
      BY CommandSettles, Places
<1>2. /\ AreResults(Dropped(res, gone))
      /\ HeldIn(Dropped(res, gone)) = HeldIn(res) \ gone
      /\ \A r \in HeldIn(res) \ gone : Dropped(res, gone)[r] = res[r]
      BY DroppedTypes, HeldInDropped
<1>3. /\ AreHandles(Outdate(handles, gone)) /\ Len(Outdate(handles, gone)) = Len(handles)
      /\ \A i \in 1..Len(handles) :
           /\ Outdate(handles, gone)[i].row = handles[i].row
           /\ Outdate(handles, gone)[i].answer = handles[i].answer
           /\ Outdate(handles, gone)[i].live <=> handles[i].live /\ handles[i].row \notin gone
      BY OutdateIs
<1>4. WITNESS gone
<1>5. QED BY <1>1, <1>2, <1>3

\* What a command leaves: it drops at least `out`, the handles of what it
\* drops answer old inputs, and no rest result that is left is out of date.
LEMMA CommandIs ==
  ASSUME NEW q, ProjectOK(q), NEW res, AreResults(res), NEW out,
         NEW handles, AreHandles(handles), Command(q, res, out, handles)
  PROVE  \E gone :
           /\ out \subseteq gone
           /\ project' = q
           /\ AreResults(result') /\ HeldIn(result') = HeldIn(res) \ gone
           /\ \A r \in HeldIn(result') : result'[r] = res[r]
           /\ OutOfDate(q, result') = {}
           /\ AreHandles(lane') /\ Len(lane') = Len(handles)
           /\ \A i \in 1..Len(handles) :
                /\ lane'[i].row = handles[i].row
                /\ lane'[i].answer = handles[i].answer
                /\ lane'[i].live <=> handles[i].live /\ handles[i].row \notin gone
<1>1. PICK gone :
           /\ out \subseteq gone /\ gone \subseteq out \cup Swept(q, Dropped(res, out))
           /\ project' = q
           /\ AreResults(result') /\ HeldIn(result') = HeldIn(res) \ gone
           /\ \A r \in HeldIn(result') : result'[r] = res[r]
           /\ OutOfDate(q, result') = {}
           /\ AreHandles(lane') /\ Len(lane') = Len(handles)
           /\ \A i \in 1..Len(handles) :
                /\ lane'[i].row = handles[i].row
                /\ lane'[i].answer = handles[i].answer
                /\ lane'[i].live <=> handles[i].live /\ handles[i].row \notin gone
      BY CommandDrops
<1>2. WITNESS gone
<1>3. QED BY <1>1

\* The record of the stock before a row of the project.
LEMMA SourceOfIs ==
  ASSUME NEW p, ProjectOK(p), NEW res, NEW r \in Present(p)
  PROVE  /\ IsSource(SourceOf(p, res, r))
         /\ SourceOf(p, res, r).cell = Cell(p) /\ SourceOf(p, res, r) # NoSource
         /\ \A e \in SourceOf(p, res, r).carved :
              /\ e.row \in StockRows(p, r) \cap p.enabled \cap HeldIn(res)
              /\ e.moves = Moves(res[e.row])
              /\ e.face = p.face[SetupOf(p, e.row)]
         /\ \A x \in StockRows(p, r) \cap p.enabled \cap HeldIn(res) :
              \E e \in SourceOf(p, res, r).carved : e.row = x
         /\ SourceOf(p, res, r).changes = p.changed \cap (CarriesInto(SetupOf(p, r)) \cup {SetupOf(p, r)})
<1> DEFINE x == SourceOf(p, res, r)
           entry(y) == [row |-> y, moves |-> Moves(res[y]), face |-> p.face[SetupOf(p, y)]]
           cut == StockRows(p, r) \cap p.enabled \cap HeldIn(res)
           marks == p.changed \cap (CarriesInto(SetupOf(p, r)) \cup {SetupOf(p, r)})
<1>1. x = [cell |-> Cell(p), carved |-> {entry(y) : y \in cut}, changes |-> marks]
      BY DEF SourceOf
<1>2. \A y : entry(y).row = y /\ entry(y).moves = Moves(res[y])
             /\ entry(y).face = p.face[SetupOf(p, y)] /\ IsEntry(entry(y))
      BY DEF IsEntry
<1>3. cut \subseteq Present(p) /\ Present(p) \subseteq Rows
      BY Places, StockIsBefore
<1>4. \A y \in cut : p.face[SetupOf(p, y)] \in 0..1
      BY <1>3, Places DEF ProjectOK, Project
<1>5. marks \subseteq Setups
      BY DEF ProjectOK, Project
<1>6. Cell(p) \in {"fine", "coarse"}
      BY DEF Cell
<1> HIDE DEF entry, cut, marks, x
<1>7. x.cell = Cell(p) /\ x.carved = {entry(y) : y \in cut} /\ x.changes = marks
      BY <1>1
<1>8. \A e \in x.carved : \E y \in cut : e = entry(y)
      BY <1>7
<1>9. SourceOK(x)
      BY <1>2, <1>3, <1>4, <1>5, <1>6, <1>7, <1>8 DEF SourceOK
<1>10. IsSource(x)
      BY <1>1, <1>2, <1>7, <1>8, <1>9 DEF IsSource
<1>11. x # NoSource
      BY <1>6, <1>7 DEF NoSource
<1>12. \A e \in x.carved : /\ e.row \in cut /\ e.moves = Moves(res[e.row])
                           /\ e.face = p.face[SetupOf(p, e.row)]
      BY <1>2, <1>8
<1>13. \A y \in cut : \E e \in x.carved : e.row = y
      BY <1>2, <1>7
<1>14. QED BY <1>7, <1>10, <1>11, <1>12, <1>13 DEF x, cut, marks

\* The snapshots of a simulation are the stock before their rows.
LEMMA SnapshotsAre ==
  ASSUME NEW p, ProjectOK(p), NEW res, NEW k \in Setups
  PROVE  /\ DOMAIN Snapshots(p, res, k) \subseteq Present(p)
         /\ \A r \in DOMAIN Snapshots(p, res, k) : Snapshots(p, res, k)[r] = SourceOf(p, res, r)
         /\ IsPrior(p, Snapshots(p, res, k))
<1> DEFINE D == UNION {(Range(p.order[s]) \cap p.enabled \cap HeldIn(res))
                         \cup Phantoms(p, res, s) : s \in 1..k}
<1>1. 1..k \subseteq Setups
      BY SetupsAssumption DEF Setups
<1>2. D \subseteq Present(p)
      BY <1>1, Places DEF Phantoms
<1>3. Snapshots(p, res, k) = [r \in D |-> SourceOf(p, res, r)]
      BY DEF Snapshots
<1> HIDE DEF D
<1>4. DOMAIN Snapshots(p, res, k) = D /\ \A r \in D : Snapshots(p, res, k)[r] = SourceOf(p, res, r)
      BY <1>3
<1>5. ASSUME NEW r \in D
      PROVE  /\ r \in p.minted /\ IsSource(SourceOf(p, res, r))
             /\ \A e \in SourceOf(p, res, r).carved : e.row \in p.minted
  <2>1. r \in Present(p) /\ StockRows(p, r) \subseteq Present(p) /\ Present(p) \subseteq p.minted
        BY <1>2, StockIsBefore DEF ProjectOK
  <2>2. QED BY <2>1, SourceOfIs
<1>6. QED BY <1>2, <1>4, <1>5 DEF IsPrior

\* Ids given out are not taken back.
LEMMA PriorStays ==
  ASSUME NEW p, NEW q, p.minted \subseteq q.minted
  PROVE  /\ \A prior : IsPrior(p, prior) => IsPrior(q, prior)
         /\ \A s : AreRuns(p, s) => AreRuns(q, s)
BY DEF IsPrior, AreRuns

\* A run that leaves, and the handles that stay.
LEMMA FewerAre ==
  /\ \A p, s : AreRuns(p, s) /\ s # <<>> => AreRuns(p, Tail(s)) /\ Len(Tail(s)) = Len(s) - 1
  /\ \A p, s : AreRuns(p, s) => \A i \in 1..Len(s) :
       AreRuns(p, Dequeued(s, i)) /\ Len(Dequeued(s, i)) = Len(s) - 1
  /\ \A s : AreHandles(s) /\ s # <<>> => AreHandles(Tail(s)) /\ Len(Tail(s)) = Len(s) - 1
  /\ \A s : AreHandles(s) => \A i \in 1..Len(s) :
       AreHandles(Dequeued(s, i)) /\ Len(Dequeued(s, i)) = Len(s) - 1
<1>1. ASSUME NEW s, IsList(s), s # <<>>
      PROVE  \A j \in 1..Len(Tail(s)) : \E k \in 1..Len(s) : Tail(s)[j] = s[k]
  <2>1. Len(Tail(s)) = Len(s) - 1 /\ Len(s) \in Nat \ {0}
        /\ \A i \in 1..(Len(s) - 1) : Tail(s)[i] = s[i + 1]
        BY <1>1, TailList
  <2>2. QED BY <2>1
<1>2. ASSUME NEW s, IsList(s), NEW i \in 1..Len(s)
      PROVE  \A j \in 1..Len(Dequeued(s, i)) : \E k \in 1..Len(s) : Dequeued(s, i)[j] = s[k]
  <2>1. /\ Len(Dequeued(s, i)) = Len(s) - 1 /\ Len(s) \in Nat
        /\ \A j \in 1..(Len(s) - 1) : Dequeued(s, i)[j] = IF j < i THEN s[j] ELSE s[j + 1]
        BY <1>2, DequeuedList, ListIs
  <2>2. QED BY <2>1
<1>3. \A p, s : AreRuns(p, s) /\ s # <<>> => AreRuns(p, Tail(s)) /\ Len(Tail(s)) = Len(s) - 1
      BY <1>1, TailList DEF AreRuns
<1>4. \A s : AreHandles(s) /\ s # <<>> => AreHandles(Tail(s)) /\ Len(Tail(s)) = Len(s) - 1
      BY <1>1, TailList DEF AreHandles
<1>5. ASSUME NEW p, NEW s, AreRuns(p, s), NEW i \in 1..Len(s)
      PROVE  AreRuns(p, Dequeued(s, i)) /\ Len(Dequeued(s, i)) = Len(s) - 1
  <2>1. IsList(s) /\ \A k \in 1..Len(s) : IsRun(s[k]) /\ IsPrior(p, s[k].prior)
        BY <1>5 DEF AreRuns
  <2>2. IsList(Dequeued(s, i)) /\ Len(Dequeued(s, i)) = Len(s) - 1
        BY <2>1, DequeuedList
  <2>3. \A j \in 1..Len(Dequeued(s, i)) : \E k \in 1..Len(s) : Dequeued(s, i)[j] = s[k]
        BY <1>2, <2>1
  <2> QED BY <2>1, <2>2, <2>3 DEF AreRuns
<1>6. \A s : AreHandles(s) => \A i \in 1..Len(s) :
        AreHandles(Dequeued(s, i)) /\ Len(Dequeued(s, i)) = Len(s) - 1
      BY <1>2, DequeuedList DEF AreHandles
<1>7. QED BY <1>3, <1>4, <1>5, <1>6

\* A command that keeps the project, on results and handles of their types.
LEMMA CommandTypes ==
  ASSUME Typed, NEW res, AreResults(res), NEW out, HeldIn(res) \subseteq Present(project),
         NEW handles, AreHandles(handles), Len(handles) <= MaxLane,
         Command(project, res, out, handles)
  PROVE  /\ project' = project
         /\ AreResults(result') /\ HeldIn(result') \subseteq Present(project)
         /\ AreHandles(lane') /\ Len(lane') <= MaxLane
BY CommandIs DEF Typed

\* Step by step, every variable keeps its type.
LEMMA GeneratedIs ==
  ASSUME Typed, NEW r \in Present(project), CanStart(r)
  PROVE  IsAnswer(Generated(r))
<1>1. r \in Rows /\ SetupOf(project, r) \in Setups
      BY Places DEF Typed
<1>2. project.param[r] \in Params /\ project.face[SetupOf(project, r)] \in 0..1
      BY <1>1 DEF Typed, ProjectOK, Project
<1>3. IsSource(NoSource)
      BY DEF NoSource, IsSource, SourceOK
<1>4. r \in project.rest => IsSource(sim[r])
      BY DEF CanStart, SnapshotIsCurrent, Typed, IsPrior
<1>5. IsSource(IF r \in project.rest THEN sim[r] ELSE NoSource)
      BY <1>3, <1>4
<1> DEFINE src == IF r \in project.rest THEN sim[r] ELSE NoSource
           cut == IF project.regions[r] = None THEN None ELSE Moves(result[project.regions[r]])
<1>6. Generated(r) = [param |-> project.param[r], face |-> project.face[SetupOf(project, r)],
                      source |-> src, regions |-> cut, produced |-> r \in project.analysis]
      BY DEF Generated
<1>7. (r \in project.analysis) \in BOOLEAN /\ IsSource(src)
      BY <1>5
<1> HIDE DEF src, cut
<1>8. QED BY <1>2, <1>6, <1>7 DEF IsAnswer, ResultOK, IsSource

LEMMA SubmitTypes == ASSUME Typed, NEW r \in Present(project), Submit(r) PROVE Typed'
<1>1. CASE Forget(r, lane)
  <2>1. /\ project' = project
        /\ AreResults(result') /\ HeldIn(result') \subseteq Present(project)
        /\ AreHandles(lane') /\ Len(lane') <= MaxLane
        BY <1>1, CommandTypes DEF Forget, Typed
  <2>2. UNCHANGED <<sim, stamp, runs, edits>>
        BY <1>1 DEF Forget
  <2>3. QED BY <2>1, <2>2 DEF Typed
<1>2. CASE CanStart(r) /\ ~Forget(r, lane)
  <2> DEFINE h == [row |-> r, live |-> TRUE, answer |-> Generated(r)]
  <2>1. PICK kept \in {lane} \cup {Dequeued(lane, i) : i \in {j \in DOMAIN lane : lane[j].row = r}} :
          /\ Len(kept) < MaxLane
          /\ lane' = Append(kept, h)
        BY <1>2 DEF Submit
  <2>2. result' = [result EXCEPT ![r] = None] /\ UNCHANGED <<project, sim, stamp, runs, edits>>
        BY <1>2 DEF Submit
  <2>3. AreHandles(kept)
    <3>1. AreHandles(lane) /\ DOMAIN lane = 1..Len(lane)
          BY ListIs DEF Typed, AreHandles
    <3>2. QED BY <2>1, <3>1, FewerAre
  <2>4. r \in Rows /\ IsAnswer(Generated(r))
        BY <1>2, GeneratedIs, Places DEF Typed
  <2>5. IsHandle(h)
        BY <2>4 DEF IsHandle
  <2> HIDE DEF h
  <2>6. AreHandles(lane') /\ Len(lane') <= MaxLane
    <3>1. IsList(kept) /\ Len(kept) \in Nat /\ \A i \in 1..Len(kept) : IsHandle(kept[i])
          BY <2>3, ListIs DEF AreHandles
    <3>2. /\ IsList(lane') /\ Len(lane') = Len(kept) + 1
          /\ lane'[Len(kept) + 1] = h
          /\ \A i \in 1..Len(kept) : lane'[i] = kept[i]
          BY <2>1, <3>1, AppendList
    <3>3. \A i \in 1..(Len(kept) + 1) : IsHandle(lane'[i])
          BY <2>5, <3>1, <3>2
    <3>4. MaxLane \in Nat
          BY BoundsAssumption
    <3>5. QED BY <2>1, <3>1, <3>2, <3>3, <3>4 DEF AreHandles
  <2>7. AreResults(result') /\ HeldIn(result') \subseteq Present(project)
        BY <2>2 DEF Typed, AreResults, HeldIn
  <2>8. QED BY <2>2, <2>6, <2>7 DEF Typed
<1>3. QED BY <1>1, <1>2 DEF Submit

LEMMA LandTypes == ASSUME Typed, LandOk \/ LandErr PROVE Typed'
<1>1. lane # <<>> /\ AreHandles(lane) /\ IsList(lane)
      BY DEF LandOk, LandErr, Typed, AreHandles
<1>2. /\ AreHandles(Tail(lane)) /\ Len(Tail(lane)) <= MaxLane
      /\ IsHandle(Head(lane))
  <2>1. Len(lane) \in Nat \ {0} /\ Head(lane) = lane[1]
        BY <1>1, TailList
  <2>2. IsHandle(lane[1])
        BY <1>1, <2>1 DEF AreHandles
  <2>3. AreHandles(Tail(lane)) /\ Len(Tail(lane)) = Len(lane) - 1
        BY <1>1, FewerAre
  <2>4. Len(lane) <= MaxLane /\ MaxLane \in Nat
        BY BoundsAssumption DEF Typed
  <2>5. QED BY <2>1, <2>2, <2>3, <2>4
<1>3. CASE LandOk
  <2> DEFINE h == Head(lane)
             res == [result EXCEPT ![h.row] = h.answer]
  <2>1. CASE h.row \in Present(project) /\ h.live
    <3>1. Command(project, res, Walk(project, {h.row}, {}), Tail(lane))
          BY <1>3, <2>1 DEF LandOk
    <3>2. AreResults(res) /\ HeldIn(res) \subseteq Present(project)
          BY <1>2, <2>1 DEF Typed, AreResults, HeldIn, IsHandle
    <3> HIDE DEF res
    <3>3. /\ project' = project
          /\ AreResults(result') /\ HeldIn(result') \subseteq Present(project)
          /\ AreHandles(lane') /\ Len(lane') <= MaxLane
          BY <1>2, <3>1, <3>2, CommandTypes
    <3>4. UNCHANGED <<sim, stamp, runs, edits>>
          BY <1>3 DEF LandOk
    <3>5. QED BY <3>3, <3>4 DEF Typed
  <2>2. CASE ~(h.row \in Present(project) /\ h.live)
        BY <1>2, <1>3, <2>2 DEF LandOk, Typed
  <2>3. QED BY <2>1, <2>2
<1>4. CASE LandErr
  <2>1. CASE Forget(Head(lane).row, Tail(lane))
    <3>1. /\ project' = project
          /\ AreResults(result') /\ HeldIn(result') \subseteq Present(project)
          /\ AreHandles(lane') /\ Len(lane') <= MaxLane
          BY <1>2, <2>1, CommandTypes DEF Forget, Typed
    <3>2. UNCHANGED <<sim, stamp, runs, edits>>
          BY <2>1 DEF Forget
    <3>3. QED BY <3>1, <3>2 DEF Typed
  <2>2. CASE lane' = Tail(lane) /\ UNCHANGED <<project, result, sim, stamp, runs, edits>>
        BY <1>2, <2>2 DEF Typed
  <2>3. QED BY <1>4, <2>1, <2>2 DEF LandErr
<1>5. QED BY <1>3, <1>4

LEMMA SimulationTypes ==
  ASSUME Typed,
         \/ \E k \in Setups : SubmitSimulation(k)
         \/ LandSimulation \/ LoseSimulation \/ VanishSimulation
  PROVE  Typed'
<1>1. /\ IsList(runs) /\ AreRuns(project, runs) /\ Len(runs) \in Nat /\ DOMAIN runs = 1..Len(runs)
      /\ Len(runs) <= MaxRuns /\ MaxRuns \in Nat
      BY ListIs, BoundsAssumption DEF Typed, AreRuns
<1>2. ASSUME NEW k \in Setups, SubmitSimulation(k) PROVE Typed'
  <2> DEFINE x == [prior |-> Snapshots(project, result, k),
                   rows  |-> RowsOf(project, 1..k) \cap project.enabled \cap HeldIn(result),
                   live  |-> TRUE]
  <2>1. PICK n \in 0..Len(runs) : n < MaxRuns /\ runs' = Append(SubSeq(runs, 1, n), x)
        BY <1>2 DEF SubmitSimulation
  <2>2. IsRun(x) /\ IsPrior(project, x.prior)
        BY SnapshotsAre DEF IsRun, Typed
  <2> HIDE DEF x
  <2> DEFINE kept == SubSeq(runs, 1, n)
  <2>3. IsList(kept) /\ Len(kept) = n /\ \A i \in 1..n : kept[i] = runs[i]
        BY <1>1, PrefixList
  <2>4. runs' = Append(kept, x)
        BY <2>1
  <2> HIDE DEF kept
  <2>5. /\ IsList(runs') /\ Len(runs') = n + 1 /\ runs'[n + 1] = x
        /\ \A i \in 1..n : runs'[i] = runs[i]
        BY <2>3, <2>4, AppendList
  <2>6. \A i \in 1..(n + 1) : IsRun(runs'[i]) /\ IsPrior(project, runs'[i].prior)
    <3>1. \A i \in 1..n : IsRun(runs[i]) /\ IsPrior(project, runs[i].prior)
          BY <1>1 DEF AreRuns
    <3>2. QED BY <2>2, <2>5, <3>1
  <2>7. AreRuns(project, runs') /\ Len(runs') <= MaxRuns
        BY <1>1, <2>1, <2>5, <2>6 DEF AreRuns
  <2>8. stamp' = TRUE /\ UNCHANGED <<project, result, sim, lane, edits>>
        BY <1>2 DEF SubmitSimulation
  <2>9. QED BY <2>7, <2>8 DEF Typed
<1>3. ASSUME runs # <<>> PROVE AreRuns(project, Tail(runs)) /\ Len(Tail(runs)) <= MaxRuns
  <2>1. AreRuns(project, Tail(runs)) /\ Len(Tail(runs)) = Len(runs) - 1
        BY <1>1, <1>3, FewerAre
  <2>2. QED BY <1>1, <2>1
<1>4. CASE LandSimulation
  <2>1. runs # <<>> /\ runs' = Tail(runs) /\ stamp' = FALSE /\ UNCHANGED edits
        BY <1>4 DEF LandSimulation
  <2>2. CASE UNCHANGED <<sim, project, result, lane>>
        BY <1>3, <2>1, <2>2 DEF Typed
  <2>3. CASE sim' = Head(runs).prior /\ Command(project, result, {}, lane)
    <3>1. /\ project' = project
          /\ AreResults(result') /\ HeldIn(result') \subseteq Present(project)
          /\ AreHandles(lane') /\ Len(lane') <= MaxLane
          BY <2>3, CommandTypes DEF Typed
    <3>2. Head(runs) = runs[1] /\ 1 \in 1..Len(runs)
          BY <1>1, <2>1, TailList
    <3>3. IsPrior(project, sim')
          BY <1>1, <2>3, <3>2 DEF AreRuns
    <3>4. QED BY <1>3, <2>1, <3>1, <3>3 DEF Typed
  <2>4. QED BY <1>4, <2>2, <2>3 DEF LandSimulation
<1>5. CASE LoseSimulation
      BY <1>3, <1>5 DEF LoseSimulation, Typed
<1>6. CASE VanishSimulation
  <2>1. PICK i \in 1..Len(runs) : runs' = Dequeued(runs, i)
        BY <1>1, <1>6 DEF VanishSimulation
  <2>2. AreRuns(project, runs') /\ Len(runs') = Len(runs) - 1
        BY <1>1, <2>1, FewerAre
  <2>3. Len(runs') <= MaxRuns
        BY <1>1, <2>2
  <2>4. UNCHANGED <<project, result, sim, stamp, lane, edits>>
        BY <1>6 DEF VanishSimulation
  <2>5. QED BY <2>2, <2>3, <2>4 DEF Typed
<1>7. QED BY <1>2, <1>4, <1>5, <1>6

\* An edit drops the simulation and leaves the runs their snapshots.
LEMMA DropIs ==
  ASSUME Typed, DropSimulation
  PROVE  /\ sim' = None /\ stamp' = FALSE
         /\ AreRuns(project, runs') /\ Len(runs') = Len(runs)
         /\ \A i \in 1..Len(runs) : runs'[i].prior = runs[i].prior /\ ~runs'[i].live
<1>1. IsList(runs) /\ DOMAIN runs = 1..Len(runs)
      BY ListIs DEF Typed, AreRuns
<1> DEFINE t == [i \in DOMAIN runs |-> [runs[i] EXCEPT !.live = FALSE]]
<1>2. t = [i \in DOMAIN runs |-> t[i]]
      OBVIOUS
<1>3. IsList(t) /\ Len(t) = Len(runs)
  <2> HIDE DEF t
  <2>1. QED BY <1>1, <1>2, MapList
<1>4. ASSUME NEW i \in 1..Len(runs)
      PROVE  IsRun(t[i]) /\ IsPrior(project, t[i].prior) /\ t[i].prior = runs[i].prior /\ ~t[i].live
  <2>1. t[i] = [runs[i] EXCEPT !.live = FALSE]
        BY <1>1
  <2>2. /\ runs[i] = [prior |-> runs[i].prior, rows |-> runs[i].rows, live |-> runs[i].live]
        /\ IsPrior(project, runs[i].prior)
        BY DEF Typed, AreRuns, IsRun
  <2>3. t[i] = [prior |-> runs[i].prior, rows |-> runs[i].rows, live |-> FALSE]
        BY <2>1, <2>2
  <2> HIDE DEF t
  <2>4. QED BY <2>2, <2>3 DEF IsRun
<1>5. runs' = t
      BY DEF DropSimulation
<1> HIDE DEF t
<1>6. QED BY <1>3, <1>4, <1>5 DEF DropSimulation, AreRuns

LEMMA EditTypes == ASSUME Typed, SomeEdit PROVE Typed'
<1>1. PICK kind \in Edits : \E q, out, handles :
        /\ Command(q, result, out, handles)
        /\ handles \in {lane, Outdate(lane, Rows)}
        /\ KeepsOthers(project, q, kind, out)
        /\ DropSimulation /\ edits' = edits + 1 /\ edits < MaxEdits
      BY EditCarries DEF Typed
<1>2. PICK q, out, handles :
        /\ Command(q, result, out, handles)
        /\ handles \in {lane, Outdate(lane, Rows)}
        /\ KeepsOthers(project, q, kind, out)
        /\ DropSimulation /\ edits' = edits + 1 /\ edits < MaxEdits
      BY <1>1
<1>3. AreHandles(handles) /\ Len(handles) = Len(lane)
      BY <1>2, OutdateIs DEF Typed
<1>4. ProjectOK(q) /\ project.minted \subseteq q.minted /\ AreResults(result)
      BY <1>2 DEF KeepsOthers, Typed
<1>5. PICK gone :
           /\ out \subseteq gone
           /\ project' = q
           /\ AreResults(result') /\ HeldIn(result') = HeldIn(result) \ gone
           /\ AreHandles(lane') /\ Len(lane') = Len(handles)
      BY <1>2, <1>3, <1>4, CommandIs
<1>6. HeldIn(result') \subseteq Present(q)
      BY <1>2, <1>5 DEF KeepsOthers, Typed
<1>7. /\ sim' = None /\ stamp' = FALSE
      /\ AreRuns(project, runs') /\ Len(runs') = Len(runs)
      BY <1>2, DropIs
<1>8. AreRuns(project', runs')
      BY <1>4, <1>5, <1>7, PriorStays
<1>9. edits' \in 0..MaxEdits
      BY <1>2, BoundsAssumption DEF Typed
<1>10. QED BY <1>3, <1>4, <1>5, <1>6, <1>7, <1>8, <1>9 DEF Typed

LEMMA TypedStep == ASSUME Typed, [Next]_vars PROVE Typed'
<1>1. CASE SomeEdit
      BY <1>1, EditTypes
<1>2. CASE \E r \in Present(project) : Submit(r)
      BY <1>2, SubmitTypes
<1>3. CASE LandOk \/ LandErr
      BY <1>3, LandTypes
<1>4. CASE \/ \E k \in Setups : SubmitSimulation(k)
           \/ LandSimulation \/ LoseSimulation \/ VanishSimulation
      BY <1>4, SimulationTypes
<1>5. CASE UNCHANGED vars
      BY <1>5 DEF vars, Typed
<1>6. QED BY <1>1, <1>2, <1>3, <1>4, <1>5 DEF Next

LEMMA TypedInit == Init => Typed
<1>1. SUFFICES ASSUME Init PROVE Typed
      OBVIOUS
<1>2. ProjectOK(project)
      BY <1>1, ProjectsAssumption DEF Init
<1>3. AreResults(result) /\ HeldIn(result) = {}
      BY <1>1 DEF Init, AreResults, HeldIn
<1>4. AreHandles(lane) /\ AreRuns(project, runs) /\ Len(lane) = 0 /\ Len(runs) = 0
      BY <1>1, EmptyList DEF Init, AreHandles, AreRuns
<1>5. sim = None /\ stamp = FALSE /\ edits = 0
      BY <1>1 DEF Init
<1>6. MaxEdits \in Nat /\ MaxLane \in Nat /\ MaxRuns \in Nat
      BY BoundsAssumption
<1>7. /\ stamp \in BOOLEAN /\ edits \in 0..MaxEdits
      /\ Len(lane) <= MaxLane /\ Len(runs) <= MaxRuns
  <2>1. stamp \in BOOLEAN
        BY <1>5
  <2>2. 0 \in 0..MaxEdits /\ 0 <= MaxLane /\ 0 <= MaxRuns
        BY <1>6
  <2>3. QED BY <1>4, <1>5, <2>1, <2>2
<1>8. HeldIn(result) \subseteq Present(project) /\ (sim # None => IsPrior(project, sim))
      BY <1>3, <1>5
<1>9. QED BY <1>2, <1>3, <1>4, <1>7, <1>8 DEF Typed

\* Every reachable state is well typed: every row of the project sits at one
\* place of one setup (debug_check_toolpath_partition), only rows of the project
\* hold results, and no list outgrows its bound.
THEOREM TypeCorrect == Spec => []TypeOK
<1>1. Init => Typed
      BY TypedInit
<1>2. Typed /\ [Next]_vars => Typed'
      BY TypedStep
<1>3. Typed => TypeOK
      BY TypedIsTypeOK
<1>4. QED BY <1>1, <1>2, <1>3, PTL DEF Spec

\* What the record of a simulation leaves out and the rule asks for: rows that
\* cut and stock changes, of setups that are not carried into the row's own.
LeftOut(p, res, r) ==
  \/ \E x \in (CarveOrderBefore(p, r) \ StockRows(p, r)) \cap p.enabled : CutsIn(res, x)
  \/ p.changed \cap ((1..(SetupOf(p, r) - 1)) \ CarriesInto(SetupOf(p, r))) # {}

\* The stock a simulation of the rows as they are records is current, unless it
\* leaves something out.
LEMMA RecordIsCurrent ==
  ASSUME NEW p, ProjectOK(p), NEW res, NEW r \in Present(p)
  PROVE  SourceIsCurrent(p, res, r, SourceOf(p, res, r)) <=> ~LeftOut(p, res, r)
<1> DEFINE x == SourceOf(p, res, r)
           s == SetupOf(p, r)
<1>1. /\ x.cell = Cell(p)
      /\ \A e \in x.carved : /\ e.row \in StockRows(p, r) \cap p.enabled \cap HeldIn(res)
                             /\ e.moves = Moves(res[e.row])
      /\ \A y \in StockRows(p, r) \cap p.enabled \cap HeldIn(res) : \E e \in x.carved : e.row = y
      /\ x.changes = p.changed \cap (CarriesInto(s) \cup {s})
      BY SourceOfIs
<1>2. /\ StockRows(p, r) \subseteq CarveOrderBefore(p, r)
      /\ StockRows(p, r) \subseteq Present(p) /\ Present(p) \subseteq Rows
      BY StockIsBefore, Places
<1>3. s \in Nat \ {0} /\ CarriesInto(s) \subseteq 1..(s - 1)
      BY StockIsBefore, Places, SetupsAssumption DEF Setups
<1> HIDE DEF x, s
<1>4. \A e \in x.carved : EntryStands(p, res, e)
      BY <1>1, <1>2 DEF EntryStands, HeldIn
<1>5. p.changed \cap (1..s) \subseteq x.changes
        <=> p.changed \cap ((1..(s - 1)) \ CarriesInto(s)) = {}
  <2>1. 1..s = (1..(s - 1)) \cup {s}
        BY <1>3
  <2>2. QED BY <1>1, <1>3, <2>1
<1>6. (\A y \in CarveOrderBefore(p, r) \cap p.enabled : CutsIn(res, y) => \E e \in x.carved : e.row = y)
        <=> ~ \E y \in (CarveOrderBefore(p, r) \ StockRows(p, r)) \cap p.enabled : CutsIn(res, y)
  <2>1. ASSUME NEW y \in CarveOrderBefore(p, r) \cap p.enabled, CutsIn(res, y)
        PROVE  (\E e \in x.carved : e.row = y) <=> y \in StockRows(p, r)
    <3>1. y \in StockRows(p, r) => y \in HeldIn(res)
          BY <1>2, <2>1 DEF CutsIn, HeldIn
    <3>2. QED BY <1>1, <3>1
  <2>2. QED BY <2>1
<1>7. SourceIsCurrent(p, res, r, x) <=> NothingNewBefore(p, res, r, x)
      BY <1>1, <1>4 DEF SourceIsCurrent
<1>8. NothingNewBefore(p, res, r, x) <=> ~LeftOut(p, res, r)
      BY <1>5, <1>6 DEF NothingNewBefore, LeftOut, s
<1>9. QED BY <1>7, <1>8 DEF x

\* With no lateral setup, or no other setup, the simulator carries every earlier one.
LEMMA NothingLeftOut ==
  ASSUME NEW p, ProjectOK(p), Lateral = {} \/ NumSetups = 1, NEW res, NEW r \in Present(p)
  PROVE  ~LeftOut(p, res, r)
<1> DEFINE s == SetupOf(p, r)
<1>1. s \in 1..NumSetups /\ NumSetups \in Nat
      BY Places, SetupsAssumption DEF Setups
<1> HIDE DEF s
<1>2. CarriesInto(s) = 1..(s - 1)
  <2>1. CASE Lateral = {}
        BY <2>1 DEF CarriesInto
  <2>2. CASE NumSetups = 1
    <3>1. 1..(s - 1) = {}
          BY <1>1, <2>2
    <3>2. QED BY <3>1 DEF CarriesInto
  <2>3. QED BY <2>1, <2>2
<1>3. QED BY <1>1, <1>2 DEF LeftOut, StockRows, CarveOrderBefore, s

\* The simulation of the setups up to its own has a snapshot for a row all of
\* whose predecessors hold results.
LEMMA ReadyIsInPrior ==
  ASSUME NEW p, ProjectOK(p), NEW res, NEW r \in Present(p) \cap p.rest \cap p.enabled,
         CarveOrderBefore(p, r) \cap p.enabled \subseteq HeldIn(res)
  PROVE  r \in DOMAIN Snapshots(p, res, SetupOf(p, r))
<1> DEFINE s == SetupOf(p, r)
<1>1. s \in Setups /\ r \in Range(p.order[s]) /\ r \in Rows
      BY Places
<1>2. r \in HeldIn(res) \/ r \in Phantoms(p, res, s)
  <2>1. Above(p, r) \cap p.enabled \subseteq HeldIn(res)
        BY DEF CarveOrderBefore
  <2>2. QED BY <1>1, <2>1 DEF Phantoms, HeldIn
<1>3. s \in 1..s
      BY <1>1 DEF Setups
<1>4. r \in (Range(p.order[s]) \cap p.enabled \cap HeldIn(res)) \cup Phantoms(p, res, s)
      BY <1>1, <1>2
<1> HIDE DEF s
<1>5. r \in UNION {(Range(p.order[t]) \cap p.enabled \cap HeldIn(res))
                     \cup Phantoms(p, res, t) : t \in 1..s}
      BY <1>3, <1>4
<1>6. r \in DOMAIN Snapshots(p, res, s)
      BY <1>5 DEF Snapshots
<1>7. QED BY <1>6 DEF s

\* What SimulationUnblocks comes down to: the snapshot that the simulation of its
\* setup makes for a row with nothing left to generate before it is accepted,
\* exactly when no setup left out of its stock cuts or changes anything.
UnblocksUnlessLeftOut ==
  \A r \in Present(project) \cap project.rest \cap project.enabled :
    CarveOrderBefore(project, r) \cap project.enabled \subseteq HeldIn(result) =>
      LET prior == Snapshots(project, result, SetupOf(project, r))
      IN /\ r \in DOMAIN prior
         /\ SourceIsCurrent(project, result, r, prior[r]) <=> ~LeftOut(project, result, r)

\* Why rest rows are refused for ever (results_lateral), and that nothing else
\* does it: source_is_current asks for what the record of snapshot_sources never
\* lists, the rows and changes of setups that are not carried into this one.
THEOREM RefusedOnlyForWhatIsLeftOut == Spec => []UnblocksUnlessLeftOut
<1>1. Init => Typed
      BY TypedInit
<1>2. Typed /\ [Next]_vars => Typed'
      BY TypedStep
<1>3. Typed => UnblocksUnlessLeftOut
  <2>1. SUFFICES ASSUME Typed, NEW r \in Present(project) \cap project.rest \cap project.enabled,
                        CarveOrderBefore(project, r) \cap project.enabled \subseteq HeldIn(result)
                 PROVE  LET prior == Snapshots(project, result, SetupOf(project, r))
                        IN /\ r \in DOMAIN prior
                           /\ SourceIsCurrent(project, result, r, prior[r])
                                <=> ~LeftOut(project, result, r)
        BY DEF UnblocksUnlessLeftOut
  <2>2. ProjectOK(project)
        BY <2>1 DEF Typed
  <2>3. r \in DOMAIN Snapshots(project, result, SetupOf(project, r))
        BY <2>1, <2>2, ReadyIsInPrior
  <2>4. Snapshots(project, result, SetupOf(project, r))[r] = SourceOf(project, result, r)
        BY <2>2, <2>3, SnapshotsAre, Places
  <2>5. SourceIsCurrent(project, result, r, SourceOf(project, result, r))
          <=> ~LeftOut(project, result, r)
        BY <2>2, RecordIsCurrent
  <2>6. QED BY <2>3, <2>4, <2>5
<1>4. QED BY <1>1, <1>2, <1>3, PTL DEF Spec

\* Where no setup is lateral, or there is only one, a rest row with nothing left
\* to generate before it is never refused for ever.
THEOREM SimulationAlwaysUnblocks ==
  ASSUME Lateral = {} \/ NumSetups = 1 PROVE Spec => []SimulationUnblocks
<1>1. TypeOK /\ UnblocksUnlessLeftOut => SimulationUnblocks
  <2>1. SUFFICES ASSUME TypeOK, UnblocksUnlessLeftOut PROVE SimulationUnblocks
        OBVIOUS
  <2>2. \A r \in Present(project) : ~LeftOut(project, result, r)
        BY <2>1, NothingLeftOut DEF TypeOK
  <2>3. QED BY <2>1, <2>2 DEF UnblocksUnlessLeftOut, SimulationUnblocks
<1>2. QED BY <1>1, TypeCorrect, RefusedOnlyForWhatIsLeftOut, PTL

-----------------------------------------------------------------------------
(* Records in sequences.                                                   *)

\* A sequence of records that have a field f.
RecordsWith(f, s) == \E S : s \in Seq(S) /\ \A x \in S : f \in DOMAIN x

LEMMA EmptyRecords == ASSUME NEW f PROVE RecordsWith(f, <<>>)
<1> DEFINE none == {}
<1>1. <<>> \in Seq(none) /\ \A x \in none : f \in DOMAIN x
      BY EmptySeq
<1> HIDE DEF none
<1>2. QED BY <1>1 DEF RecordsWith

-----------------------------------------------------------------------------
(* Handles keep their number, order and rows through a drop.               *)

SameRows(s, t) == Len(t) = Len(s) /\ \A i \in 1..Len(s) : t[i].row = s[i].row

LEMMA OutdateKeepsRows ==
  ASSUME NEW s, RecordsWith("row", s), NEW out
  PROVE  RecordsWith("row", Outdate(s, out)) /\ SameRows(s, Outdate(s, out))
<1> DEFINE new(x) == [x EXCEPT !.live = @ /\ x.row \notin out]
           t == Outdate(s, out)
<1>1. PICK S : s \in Seq(S) /\ \A x \in S : "row" \in DOMAIN x
      BY DEF RecordsWith
<1>2. Len(s) \in Nat /\ DOMAIN s = 1..Len(s) /\ \A i \in 1..Len(s) : s[i] \in S
      BY <1>1, LenProperties, ElementOfSeq
<1>3. t = [i \in 1..Len(s) |-> new(s[i])]
      BY <1>2 DEF Outdate
<1>4. \A x \in S : "row" \in DOMAIN new(x) /\ new(x).row = x.row
      BY <1>1
<1>5. t \in Seq({new(x) : x \in S}) /\ Len(t) = Len(s)
  <2>1. t \in [1..Len(s) -> {new(x) : x \in S}]
        BY <1>2, <1>3
  <2>2. QED BY <1>2, <2>1
<1>6. RecordsWith("row", t)
  <2>1. \A y \in {new(x) : x \in S} : "row" \in DOMAIN y
        BY <1>4
  <2>2. QED BY <1>5, <2>1 DEF RecordsWith
<1>7. SameRows(s, t)
  <2>1. \A i \in 1..Len(s) : t[i] = new(s[i])
        BY <1>3
  <2>2. QED BY <1>2, <1>4, <1>5, <2>1 DEF SameRows
<1>8. QED BY <1>6, <1>7

LEMMA CommandKeepsRows ==
  ASSUME NEW p, NEW res, NEW out, NEW handles,
         RecordsWith("row", handles), Command(p, res, out, handles)
  PROVE  RecordsWith("row", lane') /\ SameRows(handles, lane')
BY OutdateKeepsRows DEF Command

\* Every edit is a command on the handles in flight.
LEMMA EditKeepsRows ==
  ASSUME RecordsWith("row", lane), SomeEdit
  PROVE  RecordsWith("row", lane') /\ SameRows(lane, lane')
<1>1. ASSUME NEW k, NEW p, NEW out, Edit(k, p, out)
      PROVE  RecordsWith("row", lane') /\ SameRows(lane, lane')
      BY <1>1, CommandKeepsRows DEF Edit
<1>2. ASSUME NEW r, Remove(r)
      PROVE  RecordsWith("row", lane') /\ SameRows(lane, lane')
  <2> DEFINE moved == Outdate(lane, Rows)
  <2>1. RecordsWith("row", moved) /\ SameRows(lane, moved)
        BY OutdateKeepsRows
  <2>2. PICK p, out : Command(p, result, out, moved)
        BY <1>2 DEF Remove
  <2>3. RecordsWith("row", lane') /\ SameRows(moved, lane')
        BY <2>1, <2>2, CommandKeepsRows
  <2>4. SameRows(lane, lane')
        BY <2>1, <2>3 DEF SameRows
  <2>5. QED BY <1>2, <2>3, <2>4 DEF Remove
<1>3. (\E r \in Present(project) : Remove(r)) \/ (\E k, p, out : Edit(k, p, out))
      BY DEF SomeEdit, SetParam, SetEnabled, SetStockSource, SetBoundary, Reorder,
             MoveToSetup, AddBore, Add, SetFace, SetStockChange
<1>4. QED BY <1>1, <1>2, <1>3

-----------------------------------------------------------------------------
(* What a record of stock says of the rows of a project.                   *)

\* The record of the stock before r names stock changes that reach r; of the
\* rows in `rows` it has the face, and (if `ordered`) those that cut before r.
Told(p, r, src, rows, ordered) ==
  /\ src.changes \subseteq CarriesInto(SetupOf(p, r)) \cup {SetupOf(p, r)}
  /\ \A e \in src.carved :
       /\ e.row # r
       /\ e.row \in rows =>
            /\ e.face = p.face[SetupOf(p, e.row)]
            /\ ordered => e.row \in StockRows(p, r)

LEMMA CarvesIs ==
  ASSUME NEW x, IsSource(x)
  PROVE  Carves(x) = [cell |-> x.cell, carved |-> {e \in x.carved : e.moves # NoMotion},
                      changes |-> x.changes]
BY DEF Carves, IsSource

\* A record that is current, and right about faces and order, is the stock.
LEMMA CurrentIsTrue ==
  ASSUME NEW p, ProjectOK(p), NEW res, NEW r \in Present(p), NEW src, IsSource(src),
         NEW rows, NEW ordered, Told(p, r, src, rows, ordered),
         \A e \in src.carved : e.row \in rows /\ e.row \in StockRows(p, r),
         SourceIsCurrent(p, res, r, src)
  PROVE  Carves(src) = Carves(SourceOf(p, res, r))
<1> DEFINE x == SourceOf(p, res, r)
           cutting(y) == {e \in y.carved : e.moves # NoMotion}
<1>1. /\ IsSource(x) /\ x.cell = Cell(p)
      /\ \A e \in x.carved : /\ e.row \in StockRows(p, r) \cap p.enabled \cap HeldIn(res)
                             /\ e.moves = Moves(res[e.row])
                             /\ e.face = p.face[SetupOf(p, e.row)]
      /\ \A y \in StockRows(p, r) \cap p.enabled \cap HeldIn(res) : \E e \in x.carved : e.row = y
      /\ x.changes = p.changed \cap (CarriesInto(SetupOf(p, r)) \cup {SetupOf(p, r)})
      BY SourceOfIs
<1> HIDE DEF x
<1>2. /\ src.cell = Cell(p) /\ src.changes \subseteq p.changed
      /\ \A e \in src.carved : /\ e.row \in Present(p) \cap p.enabled
                               /\ res[e.row] # None /\ Moves(res[e.row]) = e.moves
      /\ p.changed \cap (1..SetupOf(p, r)) \subseteq src.changes
      /\ \A y \in CarveOrderBefore(p, r) \cap p.enabled :
           CutsIn(res, y) => \E e \in src.carved : e.row = y
      BY DEF SourceIsCurrent, EntryStands, NothingNewBefore
<1>3. Present(p) \subseteq Rows /\ StockRows(p, r) \subseteq CarveOrderBefore(p, r)
      BY Places, StockIsBefore
<1>4. src.changes = x.changes
  <2>1. CarriesInto(SetupOf(p, r)) \cup {SetupOf(p, r)} \subseteq 1..SetupOf(p, r)
    <3>1. CarriesInto(SetupOf(p, r)) \subseteq 1..(SetupOf(p, r) - 1)
          BY StockIsBefore
    <3>2. SetupOf(p, r) \in 1..NumSetups /\ NumSetups \in Nat
          BY Places, SetupsAssumption DEF Setups
    <3>3. QED BY <3>1, <3>2
  <2>2. QED BY <1>1, <1>2, <2>1 DEF Told
<1>5. \A e \in src.carved : /\ IsEntry(e) /\ e.row \in StockRows(p, r) \cap p.enabled \cap HeldIn(res)
                            /\ e.moves = Moves(res[e.row])
                            /\ e.face = p.face[SetupOf(p, e.row)]
      BY <1>2, <1>3 DEF IsSource, Told, HeldIn
<1>6. \A e \in x.carved : IsEntry(e)
      BY <1>1 DEF IsSource
<1>7. ASSUME NEW e \in src.carved, NEW f \in x.carved, e.row = f.row PROVE e = f
      BY <1>1, <1>5, <1>6, <1>7 DEF IsEntry
<1>8. cutting(src) \subseteq cutting(x)
  <2>1. ASSUME NEW e \in src.carved PROVE e \in x.carved
    <3>1. PICK f \in x.carved : f.row = e.row
          BY <1>1, <1>5
    <3>2. QED BY <1>7, <3>1
  <2>2. QED BY <2>1
<1>9. cutting(x) \subseteq cutting(src)
  <2>1. ASSUME NEW f \in x.carved, f.moves # NoMotion PROVE f \in src.carved
    <3>1. CutsIn(res, f.row) /\ f.row \in CarveOrderBefore(p, r) \cap p.enabled
          BY <1>1, <1>3, <2>1 DEF CutsIn, HeldIn
    <3>2. PICK e \in src.carved : e.row = f.row
          BY <1>2, <3>1
    <3>3. QED BY <1>7, <3>2
  <2>2. QED BY <2>1
<1>10. Carves(src) = [cell |-> src.cell, carved |-> cutting(src), changes |-> src.changes]
      BY CarvesIs
<1>11. Carves(x) = [cell |-> x.cell, carved |-> cutting(x), changes |-> x.changes]
      BY <1>1, CarvesIs
<1>12. Carves(src) = Carves(x)
      BY <1>1, <1>2, <1>4, <1>8, <1>9, <1>10, <1>11
<1>13. QED BY <1>12 DEF x

-----------------------------------------------------------------------------
(* Snapshots, in the session and in flight.                                *)

\* No edit of this session moves a row to another setup or turns a setup over.
PlacesFixed == Edits \cap {"face", "move"} = {}

\* Nor one past another.
Ordered == "reorder" \notin Edits

\* What a run that saw an edit still says: of faces, and (if `ordered`) of order.
Fixed(ordered) == PlacesFixed /\ (ordered => Ordered)

\* A step adopts no run but one that saw no edit (AdoptedSimulationIsLive).
AdoptsLive == [sim' # sim /\ sim' # None => Head(runs).live]_vars

PriorTold(p, prior, ordered) ==
  \A r \in DOMAIN prior \cap Present(p) : Told(p, r, prior[r], Present(p), ordered)

SnapshotsTold(ordered) ==
  /\ sim # None => PriorTold(project, sim, ordered)
  /\ \A i \in 1..Len(runs) :
       Fixed(ordered) \/ runs[i].live => PriorTold(project, runs[i].prior, ordered)

\* A simulation that is submitted says what the project says.
LEMMA SnapshotsAreTold ==
  ASSUME NEW p, ProjectOK(p), NEW res, NEW k \in Setups, NEW ordered
  PROVE  PriorTold(p, Snapshots(p, res, k), ordered)
<1>1. SUFFICES ASSUME NEW r \in DOMAIN Snapshots(p, res, k) \cap Present(p)
               PROVE  Told(p, r, SourceOf(p, res, r), Present(p), ordered)
      BY SnapshotsAre DEF PriorTold
<1>2. \A e \in SourceOf(p, res, r).carved : e.row \in StockRows(p, r) /\ e.face = p.face[SetupOf(p, e.row)]
      BY SourceOfIs
<1>3. SourceOf(p, res, r).changes \subseteq CarriesInto(SetupOf(p, r)) \cup {SetupOf(p, r)}
      BY SourceOfIs
<1>4. QED BY <1>2, <1>3, StockIsBefore DEF Told

\* An edit that keeps every row in its setup, and the setup as it lies, leaves
\* every snapshot as right as it was, but for the order it may change.
LEMMA PriorStaysTold ==
  ASSUME NEW p, ProjectOK(p), NEW q, NEW kind, NEW out, KeepsOthers(p, q, kind, out),
         kind \notin {"face", "move"}, NEW ordered, ordered => kind # "reorder",
         NEW prior, IsPrior(p, prior), PriorTold(p, prior, ordered)
  PROVE  PriorTold(q, prior, ordered)
<1> DEFINE K == Present(p) \cap Present(q)
<1>1. /\ Present(q) \cap p.minted \subseteq Present(p)
      /\ \E moved : moved = {} /\ StayPut(p, q, K \ moved, kind # "reorder")
      BY DEF KeepsOthers
<1>2. StayPut(p, q, K, kind # "reorder")
  <2>1. K \ {} = K
        OBVIOUS
  <2>2. QED BY <1>1, <2>1
<1>3. SUFFICES ASSUME NEW r \in DOMAIN prior \cap Present(q)
               PROVE  Told(q, r, prior[r], Present(q), ordered)
      BY DEF PriorTold
<1>4. r \in K /\ \A e \in prior[r].carved : e.row \in Present(q) => e.row \in K
      BY <1>1 DEF IsPrior
<1>5. Told(p, r, prior[r], Present(p), ordered)
      BY <1>4 DEF PriorTold
<1>6. SetupOf(q, r) = SetupOf(p, r)
      BY <1>2, <1>4 DEF StayPut
<1>7. \A e \in prior[r].carved : e.row \in Present(q) =>
        /\ e.face = q.face[SetupOf(q, e.row)]
        /\ ordered => e.row \in StockRows(q, r)
      BY <1>2, <1>4, <1>5 DEF Told, StayPut
<1>8. QED BY <1>5, <1>6, <1>7 DEF Told

LEMMA EditKeepsSnapshots ==
  ASSUME Typed, NEW ordered, SnapshotsTold(ordered), SomeEdit
  PROVE  SnapshotsTold(ordered)'
<1>1. PICK kind \in Edits : \E q, out, handles :
        /\ Command(q, result, out, handles)
        /\ KeepsOthers(project, q, kind, out)
        /\ DropSimulation
      BY EditCarries DEF Typed
<1>2. PICK q, out : /\ project' = q
                    /\ KeepsOthers(project, q, kind, out)
                    /\ DropSimulation
      BY <1>1 DEF Command
<1>3. /\ sim' = None /\ stamp' = FALSE
      /\ Len(runs') = Len(runs)
      /\ \A i \in 1..Len(runs) : runs'[i].prior = runs[i].prior /\ ~runs'[i].live
      BY <1>2, DropIs
<1>4. ASSUME NEW i \in 1..Len(runs), Fixed(ordered)
      PROVE  PriorTold(q, runs[i].prior, ordered)
  <2>1. kind \notin {"face", "move"} /\ (ordered => kind # "reorder")
        BY <1>4 DEF Fixed, PlacesFixed, Ordered
  <2>2. IsPrior(project, runs[i].prior) /\ ProjectOK(project)
        BY DEF Typed, AreRuns
  <2>3. PriorTold(project, runs[i].prior, ordered)
        BY <1>4 DEF SnapshotsTold
  <2>4. QED BY <1>2, <2>1, <2>2, <2>3, PriorStaysTold
<1>5. QED BY <1>2, <1>3, <1>4 DEF SnapshotsTold

\* Adopting is the only step that trusts what a run read when it was submitted.
LEMMA SimulationKeepsSnapshots ==
  ASSUME Typed, NEW ordered, SnapshotsTold(ordered), Fixed(ordered) \/ AdoptsLive,
         \/ \E k \in Setups : SubmitSimulation(k)
         \/ LandSimulation \/ LoseSimulation \/ VanishSimulation
  PROVE  SnapshotsTold(ordered)'
<1> DEFINE RunTold(x) == Fixed(ordered) \/ x.live => PriorTold(project, x.prior, ordered)
<1>1. /\ IsList(runs) /\ Len(runs) \in Nat /\ DOMAIN runs = 1..Len(runs)
      /\ \A i \in 1..Len(runs) : RunTold(runs[i])
      BY ListIs DEF Typed, AreRuns, SnapshotsTold
<1>2. project' = project
      BY DEF SubmitSimulation, LandSimulation, Command, LoseSimulation, VanishSimulation
<1>3. ASSUME \A i \in 1..Len(runs') : RunTold(runs'[i]), sim' # None => PriorTold(project, sim', ordered)
      PROVE  SnapshotsTold(ordered)'
      BY <1>2, <1>3 DEF SnapshotsTold
<1> HIDE DEF RunTold
<1>4. ASSUME NEW k \in Setups, SubmitSimulation(k) PROVE SnapshotsTold(ordered)'
  <2> DEFINE x == [prior |-> Snapshots(project, result, k),
                   rows  |-> RowsOf(project, 1..k) \cap project.enabled \cap HeldIn(result),
                   live  |-> TRUE]
  <2>1. PICK n \in 0..Len(runs) : runs' = Append(SubSeq(runs, 1, n), x)
        BY <1>4 DEF SubmitSimulation
  <2>2. RunTold(x)
        BY SnapshotsAreTold DEF Typed, RunTold
  <2> HIDE DEF x
  <2> DEFINE kept == SubSeq(runs, 1, n)
  <2>3. IsList(kept) /\ Len(kept) = n /\ \A i \in 1..n : kept[i] = runs[i]
        BY <1>1, PrefixList
  <2>4. runs' = Append(kept, x)
        BY <2>1
  <2> HIDE DEF kept
  <2>5. /\ Len(runs') = n + 1 /\ runs'[n + 1] = x
        /\ \A i \in 1..n : runs'[i] = runs[i]
        BY <2>3, <2>4, AppendList
  <2>6. \A i \in 1..(n + 1) : RunTold(runs'[i])
        BY <1>1, <2>2, <2>5
  <2>7. sim' = sim
        BY <1>4 DEF SubmitSimulation
  <2>8. QED BY <1>3, <2>5, <2>6, <2>7 DEF SnapshotsTold
<1>5. ASSUME runs # <<>>, runs' = Tail(runs)
      PROVE  \A i \in 1..Len(runs') : RunTold(runs'[i])
  <2>1. /\ Len(runs') = Len(runs) - 1
        /\ \A i \in 1..(Len(runs) - 1) : runs'[i] = runs[i + 1]
        BY <1>1, <1>5, TailList
  <2>2. \A i \in 1..Len(runs') : i \in 1..(Len(runs) - 1) /\ i + 1 \in 1..Len(runs)
        BY <1>1, <2>1
  <2>3. QED BY <1>1, <2>1, <2>2
<1>6. CASE LandSimulation
  <2>1. runs # <<>> /\ runs' = Tail(runs)
        BY <1>6 DEF LandSimulation
  <2>2. sim' # None => PriorTold(project, sim', ordered)
    <3>1. CASE sim' = sim
          BY <3>1 DEF SnapshotsTold
    <3>2. CASE sim' # sim /\ sim' # None
      <4>1. sim' = Head(runs).prior
            BY <1>6, <3>2 DEF LandSimulation
      <4>2. Head(runs) = runs[1] /\ 1 \in 1..Len(runs)
            BY <1>1, <2>1, TailList
      <4>3. Fixed(ordered) \/ runs[1].live
            BY <3>2, <4>2 DEF AdoptsLive, vars
      <4>4. QED BY <1>1, <4>1, <4>2, <4>3 DEF RunTold
    <3>3. QED BY <3>1, <3>2
  <2>3. QED BY <1>3, <1>5, <2>1, <2>2
<1>7. CASE LoseSimulation
      BY <1>3, <1>5, <1>7 DEF LoseSimulation, SnapshotsTold
<1>8. CASE VanishSimulation
  <2>1. PICK i \in 1..Len(runs) : runs' = Dequeued(runs, i)
        BY <1>1, <1>8 DEF VanishSimulation
  <2>2. /\ Len(runs') = Len(runs) - 1
        /\ \A j \in 1..(Len(runs) - 1) : runs'[j] = IF j < i THEN runs[j] ELSE runs[j + 1]
        BY <1>1, <2>1, DequeuedList
  <2>3. \A j \in 1..Len(runs') : \E m \in 1..Len(runs) : runs'[j] = runs[m]
        BY <1>1, <2>2
  <2>4. \A j \in 1..Len(runs') : RunTold(runs'[j])
        BY <1>1, <2>3
  <2>5. sim' = sim
        BY <1>8 DEF VanishSimulation
  <2>6. QED BY <1>3, <2>4, <2>5 DEF SnapshotsTold
<1>9. QED BY <1>4, <1>6, <1>7, <1>8

LEMMA SnapshotsStep ==
  ASSUME Typed, NEW ordered, SnapshotsTold(ordered), [Next]_vars,
         Fixed(ordered) \/ AdoptsLive
  PROVE  SnapshotsTold(ordered)'
<1>1. CASE SomeEdit
      BY <1>1, EditKeepsSnapshots
<1>2. CASE (\E r \in Present(project) : Submit(r)) \/ LandOk \/ LandErr \/ UNCHANGED vars
  <2>1. UNCHANGED <<project, sim, stamp, runs>>
        BY <1>2 DEF Submit, LandOk, LandErr, Forget, Command, vars
  <2>2. QED BY <2>1 DEF SnapshotsTold
<1>3. CASE \/ \E k \in Setups : SubmitSimulation(k)
           \/ LandSimulation \/ LoseSimulation \/ VanishSimulation
      BY <1>3, SimulationKeepsSnapshots
<1>4. QED BY <1>1, <1>2, <1>3 DEF Next

\* A snapshot that is told and current is the stock, if what it carved cuts
\* before its row.
LEMMA ToldIsTrue ==
  ASSUME Typed, NEW ordered, SnapshotsTold(ordered), NEW r \in Present(project),
         SnapshotIsCurrent(r), \A e \in sim[r].carved : e.row \in StockRows(project, r)
  PROVE  Carves(sim[r]) = TrueStock(r)
<1>1. /\ sim # None /\ r \in DOMAIN sim
      /\ SourceIsCurrent(project, result, r, sim[r])
      BY DEF SnapshotIsCurrent
<1>2. /\ IsSource(sim[r]) /\ ProjectOK(project)
      /\ Told(project, r, sim[r], Present(project), ordered)
      BY <1>1 DEF Typed, IsPrior, SnapshotsTold, PriorTold
<1>3. \A e \in sim[r].carved : e.row \in Present(project)
      BY <1>1 DEF SourceIsCurrent, EntryStands
<1>4. Carves(sim[r]) = Carves(SourceOf(project, result, r))
      BY <1>1, <1>2, <1>3, CurrentIsTrue
<1>5. QED BY <1>4 DEF TrueStock

\* It does, if the order is told as well.
LEMMA ToldIsOrdered ==
  ASSUME SnapshotsTold(TRUE), NEW r \in Present(project), SnapshotIsCurrent(r),
         NEW e \in sim[r].carved
  PROVE  e.row \in StockRows(project, r)
<1>1. /\ sim # None /\ r \in DOMAIN sim
      /\ e.row \in Present(project)
      BY DEF SnapshotIsCurrent, SourceIsCurrent, EntryStands
<1>2. QED BY <1>1 DEF SnapshotsTold, PriorTold, Told

-----------------------------------------------------------------------------
(* Answers, held and in flight.                                            *)

\* What x was generated from is what the project and the results now say,
\* as far as the results are there.
Reads(p, res, r, x) ==
  /\ r \in Present(p)
  /\ x.param = p.param[r] /\ x.face = p.face[SetupOf(p, r)]
  /\ r \in p.rest <=> x.source # NoSource
  /\ p.regions[r] = None => x.regions = None
  /\ p.regions[r] # None => p.regions[r] # r
  /\ p.regions[r] \in HeldIn(res) /\ p.regions[r] # None => x.regions = Moves(res[p.regions[r]])

\* The record source would be current if the rows it names held results.
Standing(p, res, r, source) ==
  /\ source.cell = Cell(p) /\ source.changes \subseteq p.changed
  /\ \A e \in source.carved :
       /\ e.row \in Present(p) \cap p.enabled
       /\ e.row \in HeldIn(res) => Moves(res[e.row]) = e.moves
  /\ NothingNewBefore(p, res, r, source)

\* The rows whose answers may land before handle i does.
Ahead(s, i) == {s[j].row : j \in {k \in 1..(i - 1) : s[k].live}}

HeldReads(p, res, out) ==
  \A r \in HeldIn(res) \ out :
    /\ Reads(p, res, r, res[r])
    /\ Told(p, r, res[r].source, HeldIn(res), Ordered)

LaneReads(p, res, s, out) ==
  \A i \in 1..Len(s) : s[i].live /\ s[i].row \notin out =>
    /\ Reads(p, res, s[i].row, s[i].answer)
    /\ Told(p, s[i].row, s[i].answer.source, HeldIn(res) \cup Ahead(s, i), Ordered)

HeldTold ==
  \A r \in HeldIn(result) :
    /\ Reads(project, result, r, result[r])
    /\ Told(project, r, result[r].source, Present(project), Ordered)
    /\ result[r].source # NoSource => Standing(project, result, r, result[r].source)

LaneTold == LaneReads(project, result, lane, {})

\* What is told of many rows is told of fewer.
LEMMA ToldOfFewer ==
  ASSUME NEW p, NEW r, NEW src, NEW rows, NEW ordered, Told(p, r, src, rows, ordered),
         NEW fewer, \A e \in src.carved : e.row \in fewer => e.row \in rows
  PROVE  Told(p, r, src, fewer, ordered)
BY DEF Told

\* Fewer results leave less to agree with.
LEMMA ReadsOfFewer ==
  ASSUME NEW p, NEW res, NEW r, NEW x, Reads(p, res, r, x),
         NEW less, \A y \in HeldIn(less) : y = p.regions[r] => y \in HeldIn(res) /\ less[y] = res[y]
  PROVE  Reads(p, less, r, x)
BY DEF Reads

\* An edit that does not drop r.
LEMMA ReadsStays ==
  ASSUME NEW p, NEW q, NEW kind, NEW out, KeepsOthers(p, q, kind, out),
         NEW res, NEW r, r \notin out, NEW x, Reads(p, res, r, x)
  PROVE  Reads(q, res, r, x)
<1>1. /\ r \in Present(q) /\ q.param[r] = p.param[r]
      /\ r \in q.rest <=> r \in p.rest
      /\ q.regions[r] = p.regions[r]
      BY DEF KeepsOthers, Reads
<1>2. SetupOf(q, r) = SetupOf(p, r) /\ q.face[SetupOf(p, r)] = p.face[SetupOf(p, r)]
      BY <1>1 DEF KeepsOthers, StayPut, Reads
<1>3. QED BY <1>1, <1>2 DEF Reads

\* An edit leaves what is told of the rows it neither drops nor moves.
LEMMA ToldStays ==
  ASSUME NEW p, NEW q, NEW kind, NEW out, KeepsOthers(p, q, kind, out),
         Ordered => kind # "reorder", NEW r \in Present(p), r \notin out, NEW src,
         NEW rows, Told(p, r, src, rows, Ordered),
         NEW fewer, fewer \subseteq rows, fewer \subseteq Present(p) \ out
  PROVE  Told(q, r, src, fewer, Ordered)
<1>1. PICK moved : /\ moved \subseteq out
                   /\ StayPut(p, q, (Present(p) \cap Present(q)) \ moved, kind # "reorder")
      BY DEF KeepsOthers
<1> DEFINE K == (Present(p) \cap Present(q)) \ moved
<1>2. r \in K /\ fewer \subseteq K
      BY <1>1 DEF KeepsOthers
<1>3. /\ \A y \in K : /\ SetupOf(q, y) = SetupOf(p, y)
                      /\ q.face[SetupOf(p, y)] = p.face[SetupOf(p, y)]
      /\ Ordered => \A y, x \in K : x \in StockRows(p, y) => x \in StockRows(q, y)
      BY <1>1 DEF StayPut
<1> HIDE DEF K
<1>4. \A e \in src.carved :
        /\ e.row # r
        /\ e.row \in fewer => /\ e.face = q.face[SetupOf(q, e.row)]
                              /\ Ordered => e.row \in StockRows(q, r)
      BY <1>2, <1>3 DEF Told
<1>5. src.changes \subseteq CarriesInto(SetupOf(q, r)) \cup {SetupOf(q, r)}
      BY <1>2, <1>3 DEF Told
<1>6. QED BY <1>4, <1>5 DEF Told

\* What every command keeps: out of results and handles that agree with
\* project p but for the rows it drops, it leaves ones that agree with q.
LEMMA CommandKeeps ==
  ASSUME NEW p, ProjectOK(p), NEW q, NEW kind, NEW out, KeepsOthers(p, q, kind, out),
         Ordered => kind # "reorder",
         NEW res, AreResults(res), HeldIn(res) \subseteq Present(p), HeldReads(p, res, out),
         NEW handles, AreHandles(handles), LaneReads(p, res, handles, out),
         Command(q, res, out, handles)
  PROVE  HeldTold' /\ LaneTold'
<1>1. ProjectOK(q) /\ \A r \in Present(p) \ out : r \in Present(q)
      BY DEF KeepsOthers
<1>2. PICK gone :
        /\ out \subseteq gone
        /\ project' = q
        /\ AreResults(result') /\ HeldIn(result') = HeldIn(res) \ gone
        /\ \A r \in HeldIn(result') : result'[r] = res[r]
        /\ OutOfDate(q, result') = {}
        /\ AreHandles(lane') /\ Len(lane') = Len(handles)
        /\ \A i \in 1..Len(handles) :
             /\ lane'[i].row = handles[i].row
             /\ lane'[i].answer = handles[i].answer
             /\ lane'[i].live <=> handles[i].live /\ handles[i].row \notin gone
      BY <1>1, CommandIs
<1>3. HeldIn(result') \subseteq Present(p) \ out /\ HeldIn(result') \subseteq Rows
      BY <1>2 DEF HeldIn
<1>4. ASSUME NEW r \in HeldIn(result')
      PROVE  /\ Reads(q, result', r, result'[r])
             /\ Told(q, r, result'[r].source, Present(q), Ordered)
             /\ result'[r].source # NoSource => Standing(q, result', r, result'[r].source)
  <2>1. r \in HeldIn(res) \ out /\ result'[r] = res[r]
        BY <1>2
  <2>2. Reads(q, result', r, result'[r])
    <3>1. Reads(q, res, r, res[r])
          BY <2>1, ReadsStays DEF HeldReads
    <3>2. QED BY <1>2, <2>1, <3>1, ReadsOfFewer
  <2>3. ASSUME result'[r].source # NoSource
        PROVE  SourceIsCurrent(q, result', r, result'[r].source)
    <3>1. r \in Present(q) \cap q.rest
          BY <2>2, <2>3 DEF Reads
    <3>2. QED BY <1>2, <2>3, <3>1 DEF OutOfDate
  <2>4. \A e \in result'[r].source.carved : e.row \in HeldIn(result')
    <3>1. CASE result'[r].source = NoSource
          BY <3>1 DEF NoSource
    <3>2. CASE result'[r].source # NoSource
          BY <1>1, <2>3, <3>2, Places DEF SourceIsCurrent, EntryStands, HeldIn
    <3>3. QED BY <3>1, <3>2
  <2>5. Told(q, r, result'[r].source, HeldIn(result'), Ordered)
    <3>1. Told(p, r, result'[r].source, HeldIn(res), Ordered)
          BY <2>1 DEF HeldReads
    <3>2. QED BY <1>2, <1>3, <2>1, <3>1, ToldStays
  <2>6. Told(q, r, result'[r].source, Present(q), Ordered)
        BY <2>4, <2>5, ToldOfFewer
  <2>7. ASSUME result'[r].source # NoSource
        PROVE  Standing(q, result', r, result'[r].source)
        BY <2>3, <2>7 DEF SourceIsCurrent, EntryStands, Standing, HeldIn
  <2>8. QED BY <2>2, <2>6, <2>7
<1>5. ASSUME NEW i \in 1..Len(lane'), lane'[i].live
      PROVE  /\ Reads(q, result', lane'[i].row, lane'[i].answer)
             /\ Told(q, lane'[i].row, lane'[i].answer.source,
                     HeldIn(result') \cup Ahead(lane', i), Ordered)
  <2> DEFINE r == handles[i].row
             x == handles[i].answer
  <2>1. /\ i \in 1..Len(handles) /\ lane'[i].row = r /\ lane'[i].answer = x
        /\ handles[i].live /\ r \notin gone /\ r \notin out
        BY <1>2, <1>5
  <2>2. Reads(p, res, r, x) /\ Told(p, r, x.source, HeldIn(res) \cup Ahead(handles, i), Ordered)
        BY <2>1 DEF LaneReads
  <2>3. Ahead(lane', i) \subseteq Ahead(handles, i) \ out /\ Ahead(lane', i) \subseteq Present(p)
    <3>1. ASSUME NEW j \in 1..(i - 1), lane'[j].live
          PROVE  /\ lane'[j].row \in Ahead(handles, i) /\ lane'[j].row \notin out
                 /\ lane'[j].row \in Present(p)
      <4>1. j \in 1..Len(handles) /\ Len(handles) \in Nat
            BY <2>1, ListIs DEF AreHandles
      <4>2. /\ lane'[j].row = handles[j].row /\ handles[j].live
            /\ handles[j].row \notin out
            BY <1>2, <3>1, <4>1
      <4>3. Reads(p, res, handles[j].row, handles[j].answer)
            BY <4>1, <4>2 DEF LaneReads
      <4>4. QED BY <4>2, <4>3 DEF Ahead, Reads
    <3>2. QED BY <3>1 DEF Ahead
  <2>4. Reads(q, result', r, x)
    <3>1. Reads(q, res, r, x)
          BY <2>1, <2>2, ReadsStays
    <3>2. QED BY <1>2, <3>1, ReadsOfFewer
  <2>5. Told(q, r, x.source, HeldIn(result') \cup Ahead(lane', i), Ordered)
    <3>1. HeldIn(result') \cup Ahead(lane', i) \subseteq HeldIn(res) \cup Ahead(handles, i)
          BY <1>2, <2>3
    <3>2. HeldIn(result') \cup Ahead(lane', i) \subseteq Present(p) \ out
          BY <1>3, <2>3
    <3>3. r \in Present(p)
          BY <2>2 DEF Reads
    <3>4. QED BY <2>1, <2>2, <3>1, <3>2, <3>3, ToldStays
  <2>6. QED BY <2>1, <2>4, <2>5
<1>6. HeldTold'
      BY <1>2, <1>4 DEF HeldTold
<1>7. LaneTold'
      BY <1>2, <1>5 DEF LaneTold, LaneReads
<1>8. QED BY <1>6, <1>7

-----------------------------------------------------------------------------
(* Every step keeps what is told.                                          *)

\* What is held now is what a command starts from.
LEMMA HeldStays ==
  ASSUME Typed, HeldTold, NEW out
  PROVE  HeldReads(project, result, out)
<1>1. SUFFICES ASSUME NEW r \in HeldIn(result) \ out
               PROVE  /\ Reads(project, result, r, result[r])
                      /\ Told(project, r, result[r].source, HeldIn(result), Ordered)
      BY DEF HeldReads
<1>2. HeldIn(result) \subseteq Present(project)
      BY DEF Typed
<1>3. /\ Reads(project, result, r, result[r])
      /\ Told(project, r, result[r].source, Present(project), Ordered)
      BY <1>1 DEF HeldTold
<1>4. QED BY <1>2, <1>3, ToldOfFewer

LEMMA SameProject ==
  ASSUME Typed, NEW out
  PROVE  KeepsOthers(project, project, "param", out)
BY SettingsCarry DEF Typed, ProjectOK

\* When the oldest handle leaves: the results may now hold its row.
LEMMA TailReads ==
  ASSUME NEW p, NEW res, NEW s, AreHandles(s), s # <<>>, LaneReads(p, res, s, {}),
         NEW more, HeldIn(more) \subseteq HeldIn(res) \cup Ahead(s, 2), NEW out,
         \A r, x : r \notin out /\ Reads(p, res, r, x) => Reads(p, more, r, x)
  PROVE  LaneReads(p, more, Tail(s), out)
<1>1. /\ Len(Tail(s)) = Len(s) - 1 /\ Len(s) \in Nat \ {0}
      /\ \A i \in 1..(Len(s) - 1) : Tail(s)[i] = s[i + 1]
      BY TailList DEF AreHandles
<1>2. SUFFICES ASSUME NEW i \in 1..(Len(s) - 1), s[i + 1].live, s[i + 1].row \notin out
               PROVE  /\ Reads(p, more, s[i + 1].row, s[i + 1].answer)
                      /\ Told(p, s[i + 1].row, s[i + 1].answer.source,
                              HeldIn(more) \cup Ahead(Tail(s), i), Ordered)
      BY <1>1 DEF LaneReads
<1>3. i + 1 \in 1..Len(s)
      BY <1>1
<1>4. /\ Reads(p, res, s[i + 1].row, s[i + 1].answer)
      /\ Told(p, s[i + 1].row, s[i + 1].answer.source, HeldIn(res) \cup Ahead(s, i + 1), Ordered)
      BY <1>2, <1>3 DEF LaneReads
<1>5. Ahead(Tail(s), i) \subseteq Ahead(s, i + 1)
  <2>1. ASSUME NEW j \in 1..(i - 1), Tail(s)[j].live
        PROVE  Tail(s)[j].row \in Ahead(s, i + 1)
    <3>1. j \in 1..(Len(s) - 1) /\ j + 1 \in 1..((i + 1) - 1)
          BY <1>1
    <3>2. Tail(s)[j] = s[j + 1]
          BY <1>1, <3>1
    <3>3. QED BY <2>1, <3>1, <3>2 DEF Ahead
  <2>2. QED BY <2>1 DEF Ahead
<1>6. Ahead(s, 2) \subseteq Ahead(s, i + 1)
  <2>1. \A k \in 1..(2 - 1) : k \in 1..((i + 1) - 1)
        OBVIOUS
  <2>2. QED BY <2>1 DEF Ahead
<1>7. HeldIn(more) \cup Ahead(Tail(s), i) \subseteq HeldIn(res) \cup Ahead(s, i + 1)
      BY <1>5, <1>6
<1>8. QED BY <1>2, <1>4, <1>7, ToldOfFewer

\* An edit leaves results and handles that say what the project now says.
LEMMA EditKeepsTold ==
  ASSUME Typed, HeldTold, LaneTold, SomeEdit
  PROVE  HeldTold' /\ LaneTold'
<1>1. PICK kind \in Edits : \E q, out, handles :
        /\ Command(q, result, out, handles)
        /\ handles \in {lane, Outdate(lane, Rows)}
        /\ KeepsOthers(project, q, kind, out)
      BY EditCarries DEF Typed
<1>2. PICK q, out, handles :
        /\ Command(q, result, out, handles)
        /\ handles \in {lane, Outdate(lane, Rows)}
        /\ KeepsOthers(project, q, kind, out)
      BY <1>1
<1>3. Ordered => kind # "reorder"
      BY DEF Ordered
<1>4. /\ ProjectOK(project) /\ AreResults(result) /\ HeldIn(result) \subseteq Present(project)
      /\ AreHandles(lane)
      BY DEF Typed
<1>5. AreHandles(handles) /\ LaneReads(project, result, handles, out)
  <2>1. CASE handles = lane
        BY <1>4, <2>1 DEF LaneTold, LaneReads
  <2>2. CASE handles = Outdate(lane, Rows)
    <3>1. AreHandles(handles) /\ Len(handles) = Len(lane)
          BY <1>4, <2>2, OutdateIs
    <3>2. \A i \in 1..Len(lane) : ~handles[i].live
          BY <1>4, <2>2, OutdateIs DEF AreHandles, IsHandle
    <3>3. QED BY <3>1, <3>2 DEF LaneReads
  <2>3. QED BY <1>2, <2>1, <2>2
<1>6. HeldReads(project, result, out)
      BY HeldStays
<1>7. QED BY <1>2, <1>3, <1>4, <1>5, <1>6, CommandKeeps

\* ForgetResult and the sweep that follows an adopted simulation.
LEMMA ForgetKeepsTold ==
  ASSUME Typed, HeldTold, NEW out, NEW handles, AreHandles(handles),
         LaneReads(project, result, handles, out), Command(project, result, out, handles)
  PROVE  HeldTold' /\ LaneTold'
<1>1. /\ ProjectOK(project) /\ AreResults(result) /\ HeldIn(result) \subseteq Present(project)
      BY DEF Typed
<1>2. Ordered => "param" # "reorder"
      OBVIOUS
<1>3. QED BY <1>1, <1>2, HeldStays, SameProject, CommandKeeps

\* An adopted answer: the rows it clips are walked to and dropped.
LEMMA LandOkKeepsTold ==
  ASSUME Typed, HeldTold, LaneTold, LandOk
  PROVE  HeldTold' /\ LaneTold'
<1> DEFINE h == lane[1]
           r == h.row
           res == [result EXCEPT ![r] = h.answer]
           out == Walk(project, {r}, {})
<1>1. /\ ProjectOK(project) /\ AreResults(result) /\ HeldIn(result) \subseteq Present(project)
      /\ AreHandles(lane) /\ lane # <<>>
      /\ Present(project) \subseteq Rows /\ HeldIn(result) \subseteq Rows
      BY Places DEF Typed, LandOk, HeldIn
<1>2. /\ AreHandles(Tail(lane)) /\ Head(lane) = h /\ 1 \in 1..Len(lane)
      /\ IsHandle(h)
  <2>1. Len(lane) \in Nat \ {0} /\ Head(lane) = h
        BY <1>1, TailList DEF AreHandles
  <2>2. QED BY <1>1, <2>1, FewerAre DEF AreHandles
<1>3. \A x, y : Reads(project, result, x, y) => Reads(project, result, x, y)
      OBVIOUS
<1>4. CASE r \in Present(project) /\ h.live
  <2>1. Command(project, res, out, Tail(lane))
        BY <1>2, <1>4 DEF LandOk
  <2>2. r \in Rows /\ IsAnswer(h.answer) /\ DOMAIN result = Rows
        BY <1>1, <1>2 DEF IsHandle, AreResults
  <2>3. /\ res[r] = h.answer /\ \A y \in Rows : y # r => res[y] = result[y]
        /\ HeldIn(res) \subseteq HeldIn(result) \cup {r}
        /\ AreResults(res) /\ HeldIn(res) \subseteq Present(project)
        BY <1>1, <1>4, <2>2 DEF HeldIn, AreResults
  <2>4. /\ r \notin out
        /\ \A y \in Present(project) \ {r} : project.regions[y] = r => y \in out
        BY <1>1, <2>2, WalkReaches
  <2>5. /\ Reads(project, result, r, h.answer)
        /\ Told(project, r, h.answer.source, HeldIn(result) \cup Ahead(lane, 1), Ordered)
        BY <1>2, <1>4 DEF LaneTold, LaneReads
  <2> HIDE DEF res, out, h, r
  <2>6. ASSUME NEW x, NEW y, x \notin out, Reads(project, result, x, y)
        PROVE  Reads(project, res, x, y)
    <3>1. CASE project.regions[x] # r
          BY <1>1, <2>3, <2>6, <3>1, ReadsOfFewer
    <3>2. CASE project.regions[x] = r
      <4>1. x \in Present(project) /\ x # r
            BY <2>2, <2>6, <3>2, RowsAssumption DEF Reads
      <4>2. QED BY <2>4, <2>6, <3>2, <4>1
    <3>3. QED BY <3>1, <3>2
  <2>7. HeldReads(project, res, out)
    <3>1. SUFFICES ASSUME NEW y \in HeldIn(res) \ out
                   PROVE  /\ Reads(project, res, y, res[y])
                          /\ Told(project, y, res[y].source, HeldIn(res), Ordered)
          BY DEF HeldReads
    <3>2. CASE y = r
      <4>1. Told(project, r, h.answer.source, HeldIn(res), Ordered)
        <5>1. \A e \in h.answer.source.carved : e.row # r
              BY <2>5 DEF Told
        <5>2. QED BY <2>3, <2>5, <5>1, ToldOfFewer
      <4>2. QED BY <2>3, <2>4, <2>5, <2>6, <3>2, <4>1
    <3>3. CASE y # r
      <4>1. y \in HeldIn(result) /\ y \in Rows /\ res[y] = result[y]
            BY <1>1, <2>3, <3>3
      <4>2. /\ Reads(project, result, y, result[y])
            /\ Told(project, y, result[y].source, Present(project), Ordered)
            BY <4>1 DEF HeldTold
      <4>3. Told(project, y, result[y].source, HeldIn(res), Ordered)
            BY <2>3, <4>2, ToldOfFewer
      <4>4. QED BY <2>6, <3>1, <4>1, <4>2, <4>3
    <3>4. QED BY <3>2, <3>3
  <2>8. r \in Ahead(lane, 2)
    <3>1. 1 \in 1..(2 - 1)
          OBVIOUS
    <3>2. QED BY <1>4, <3>1 DEF Ahead, h, r
  <2>9. LaneReads(project, res, Tail(lane), out)
    <3>1. HeldIn(res) \subseteq HeldIn(result) \cup Ahead(lane, 2)
          BY <2>3, <2>8
    <3>2. QED BY <1>1, <2>6, <3>1, TailReads DEF LaneTold
  <2>10. Ordered => "param" # "reorder"
        OBVIOUS
  <2>11. QED BY <1>1, <1>2, <2>1, <2>3, <2>7, <2>9, <2>10, SameProject, CommandKeeps
<1>5. CASE ~(r \in Present(project) /\ h.live)
  <2>1. lane' = Tail(lane) /\ UNCHANGED <<project, result>>
        BY <1>2, <1>5 DEF LandOk
  <2>2. LaneReads(project, result, Tail(lane), {})
        BY <1>1, <1>3, TailReads DEF LaneTold
  <2>3. QED BY <2>1, <2>2 DEF HeldTold, LaneTold
<1>6. QED BY <1>4, <1>5

LEMMA LandErrKeepsTold ==
  ASSUME Typed, HeldTold, LaneTold, LandErr
  PROVE  HeldTold' /\ LaneTold'
<1>1. AreHandles(lane) /\ lane # <<>>
      BY DEF Typed, LandErr
<1>2. AreHandles(Tail(lane))
      BY <1>1, FewerAre
<1>3. \A out : LaneReads(project, result, Tail(lane), out)
      BY <1>1, TailReads DEF LaneTold
<1>4. CASE Forget(Head(lane).row, Tail(lane))
      BY <1>2, <1>3, <1>4, ForgetKeepsTold DEF Forget
<1>5. CASE lane' = Tail(lane) /\ UNCHANGED <<project, result>>
      BY <1>3, <1>5 DEF HeldTold, LaneTold
<1>6. QED BY <1>4, <1>5 DEF LandErr

LEMMA DequeuedReads ==
  ASSUME NEW p, NEW res, NEW s, AreHandles(s), LaneReads(p, res, s, {}), NEW n \in 1..Len(s)
  PROVE  LaneReads(p, res, Dequeued(s, n), {})
<1> DEFINE t == Dequeued(s, n)
           was(i) == IF i < n THEN i ELSE i + 1
<1>1. /\ Len(t) = Len(s) - 1 /\ Len(s) \in Nat
      /\ \A i \in 1..(Len(s) - 1) : was(i) \in 1..Len(s) /\ t[i] = s[was(i)]
  <2>1. /\ Len(t) = Len(s) - 1 /\ Len(s) \in Nat
        /\ \A i \in 1..(Len(s) - 1) : t[i] = IF i < n THEN s[i] ELSE s[i + 1]
        BY DequeuedList, ListIs DEF AreHandles
  <2> HIDE DEF t
  <2>2. QED BY <2>1
<1>2. ASSUME NEW i \in 1..(Len(s) - 1), NEW j \in 1..(i - 1)
      PROVE  was(j) \in 1..(was(i) - 1)
  <2>1. n \in Int /\ i \in Int /\ j \in Int
        OBVIOUS
  <2>2. QED BY <2>1
<1> HIDE DEF t, was
<1>3. SUFFICES ASSUME NEW i \in 1..(Len(s) - 1), t[i].live
               PROVE  /\ Reads(p, res, t[i].row, t[i].answer)
                      /\ Told(p, t[i].row, t[i].answer.source, HeldIn(res) \cup Ahead(t, i), Ordered)
      BY <1>1 DEF LaneReads, t
<1>4. /\ Reads(p, res, t[i].row, t[i].answer)
      /\ Told(p, t[i].row, t[i].answer.source, HeldIn(res) \cup Ahead(s, was(i)), Ordered)
      BY <1>1, <1>3 DEF LaneReads
<1>5. Ahead(t, i) \subseteq Ahead(s, was(i))
  <2>1. ASSUME NEW j \in 1..(i - 1), t[j].live PROVE t[j].row \in Ahead(s, was(i))
    <3>1. j \in 1..(Len(s) - 1) /\ was(j) \in 1..(was(i) - 1)
          BY <1>1, <1>2
    <3>2. t[j] = s[was(j)]
          BY <1>1, <3>1
    <3>3. QED BY <2>1, <3>1, <3>2 DEF Ahead
  <2>2. QED BY <2>1 DEF Ahead
<1>6. QED BY <1>4, <1>5, ToldOfFewer

\* What a generation reads when it is submitted is what the project says.
LEMMA GeneratedIsTold ==
  ASSUME Typed, SnapshotsTold(Ordered), NEW r \in Present(project), CanStart(r)
  PROVE  /\ Reads(project, result, r, Generated(r))
         /\ \A rows : Told(project, r, Generated(r).source, rows, Ordered)
<1> DEFINE x == Generated(r)
<1>1. /\ x.param = project.param[r] /\ x.face = project.face[SetupOf(project, r)]
      /\ x.source = IF r \in project.rest THEN sim[r] ELSE NoSource
      /\ x.regions = IF project.regions[r] = None THEN None ELSE Moves(result[project.regions[r]])
      BY DEF Generated
<1> HIDE DEF x
<1>2. CASE r \in project.rest
  <2>1. /\ sim # None /\ r \in DOMAIN sim
        /\ SourceIsCurrent(project, result, r, sim[r])
        BY <1>2 DEF CanStart, SnapshotIsCurrent
  <2>2. Told(project, r, sim[r], Present(project), Ordered)
        BY <2>1 DEF SnapshotsTold, PriorTold
  <2>3. \A e \in sim[r].carved : e.row \in Present(project)
        BY <2>1 DEF SourceIsCurrent, EntryStands
  <2>4. \A rows : Told(project, r, sim[r], rows, Ordered)
        BY <2>2, <2>3 DEF Told
  <2>5. sim[r] # NoSource
        BY <2>1 DEF SourceIsCurrent, NoSource, Cell
  <2>6. QED BY <1>1, <1>2, <2>4, <2>5 DEF Reads, CanStart, x
<1>3. CASE r \notin project.rest
  <2>1. x.source = NoSource
        BY <1>1, <1>3
  <2>2. \A rows : Told(project, r, NoSource, rows, Ordered)
        BY DEF Told, NoSource
  <2>3. QED BY <1>1, <1>3, <2>1, <2>2 DEF Reads, CanStart, x
<1>4. QED BY <1>2, <1>3

\* A submit takes the old result away; what it will answer is told.
LEMMA SubmitKeepsTold ==
  ASSUME Typed, SnapshotsTold(Ordered), HeldTold, LaneTold, NEW r \in Present(project), Submit(r)
  PROVE  HeldTold' /\ LaneTold'
<1>1. AreHandles(lane) /\ DOMAIN lane = 1..Len(lane) /\ IsList(lane)
      BY ListIs DEF Typed, AreHandles
<1>2. CASE Forget(r, lane)
  <2>1. LaneReads(project, result, lane, {r})
        BY DEF LaneTold, LaneReads
  <2>2. QED BY <1>1, <1>2, <2>1, ForgetKeepsTold DEF Forget
<1>3. CASE CanStart(r) /\ ~Forget(r, lane)
  <2> DEFINE h == [row |-> r, live |-> TRUE, answer |-> Generated(r)]
  <2>1. PICK kept \in {lane} \cup {Dequeued(lane, i) : i \in {j \in DOMAIN lane : lane[j].row = r}} :
          lane' = Append(kept, h)
        BY <1>3 DEF Submit
  <2>2. result' = [result EXCEPT ![r] = None] /\ project' = project
        BY <1>3 DEF Submit
  <2>3. /\ HeldIn(result') \subseteq HeldIn(result)
        /\ \A y \in HeldIn(result') : result'[y] = result[y]
    <3>1. DOMAIN result = Rows
          BY DEF Typed, AreResults
    <3>2. QED BY <2>2, <3>1 DEF HeldIn
  <2>4. HeldTold'
    <3>1. SUFFICES ASSUME NEW y \in HeldIn(result')
                   PROVE  /\ Reads(project, result', y, result[y])
                          /\ Told(project, y, result[y].source, Present(project), Ordered)
                          /\ result[y].source # NoSource =>
                               Standing(project, result', y, result[y].source)
          BY <2>2, <2>3 DEF HeldTold
    <3>2. /\ Reads(project, result, y, result[y])
          /\ Told(project, y, result[y].source, Present(project), Ordered)
          /\ result[y].source # NoSource => Standing(project, result, y, result[y].source)
          BY <2>3 DEF HeldTold
    <3>3. Reads(project, result', y, result[y])
          BY <2>3, <3>2, ReadsOfFewer
    <3>4. ASSUME result[y].source # NoSource
          PROVE  Standing(project, result', y, result[y].source)
      <4>1. \A x \in CarveOrderBefore(project, y) : CutsIn(result', x) => CutsIn(result, x)
        <5>1. ASSUME NEW x, CutsIn(result', x) PROVE CutsIn(result, x)
          <6>1. result'[x] = result[x]
            <7>1. DOMAIN result = Rows
                  BY DEF Typed, AreResults
            <7>2. CASE x = r
              <8>1. x \in Rows
                    BY <7>2, Places DEF Typed
              <8>2. result'[x] = None
                    BY <2>2, <7>1, <7>2, <8>1
              <8>3. QED BY <5>1, <8>2 DEF CutsIn
            <7>3. CASE x # r
                  BY <2>2, <7>3
            <7>4. QED BY <7>2, <7>3
          <6>2. QED BY <5>1, <6>1 DEF CutsIn
        <5>2. QED BY <5>1
      <4>2. QED BY <2>3, <3>2, <3>4, <4>1 DEF Standing, NothingNewBefore
    <3>5. QED BY <3>2, <3>3, <3>4
  <2>5. AreHandles(kept) /\ LaneReads(project, result, kept, {})
        BY <1>1, <2>1, FewerAre, DequeuedReads DEF LaneTold
  <2>6. /\ Reads(project, result, r, h.answer)
        /\ \A rows : Told(project, r, h.answer.source, rows, Ordered)
        /\ h.row = r
        BY <1>3, GeneratedIsTold
  <2> HIDE DEF h
  <2>7. /\ Len(kept) \in Nat /\ Len(lane') = Len(kept) + 1 /\ lane'[Len(kept) + 1] = h
        /\ \A i \in 1..Len(kept) : lane'[i] = kept[i]
        BY <2>1, <2>5, AppendList, ListIs DEF AreHandles
  <2>8. ASSUME NEW i \in 1..(Len(kept) + 1), lane'[i].live
        PROVE  /\ Reads(project, result', lane'[i].row, lane'[i].answer)
               /\ Told(project, lane'[i].row, lane'[i].answer.source,
                       HeldIn(result') \cup Ahead(lane', i), Ordered)
    <3>1. CASE i = Len(kept) + 1
          BY <2>3, <2>6, <2>7, <3>1, ReadsOfFewer
    <3>2. CASE i # Len(kept) + 1
      <4>1. i \in 1..Len(kept) /\ lane'[i] = kept[i]
            BY <2>7, <3>2
      <4>2. /\ Reads(project, result, kept[i].row, kept[i].answer)
            /\ Told(project, kept[i].row, kept[i].answer.source,
                    HeldIn(result) \cup Ahead(kept, i), Ordered)
            BY <2>5, <2>8, <4>1 DEF LaneReads
      <4>3. Ahead(lane', i) = Ahead(kept, i)
        <5>1. \A j \in 1..(i - 1) : lane'[j] = kept[j]
              BY <2>7, <4>1
        <5>2. QED BY <5>1 DEF Ahead
      <4>4. Reads(project, result', kept[i].row, kept[i].answer)
            BY <2>3, <4>2, ReadsOfFewer
      <4>5. QED BY <2>3, <4>1, <4>2, <4>3, <4>4, ToldOfFewer
    <3>3. QED BY <3>1, <3>2
  <2>9. LaneTold'
        BY <2>2, <2>7, <2>8 DEF LaneTold, LaneReads
  <2>10. QED BY <2>4, <2>9
<1>4. QED BY <1>2, <1>3 DEF Submit

\* Every step keeps what is told.
LEMMA ToldStep ==
  ASSUME Typed, SnapshotsTold(Ordered), HeldTold, LaneTold, [Next]_vars
  PROVE  HeldTold' /\ LaneTold'
<1>1. CASE SomeEdit
      BY <1>1, EditKeepsTold
<1>2. CASE \E r \in Present(project) : Submit(r)
      BY <1>2, SubmitKeepsTold
<1>3. CASE LandOk
      BY <1>3, LandOkKeepsTold
<1>4. CASE LandErr
      BY <1>4, LandErrKeepsTold
<1>5. CASE LandSimulation
  <2>1. CASE Command(project, result, {}, lane)
        BY <2>1, ForgetKeepsTold DEF LaneTold, Typed
  <2>2. CASE UNCHANGED <<project, result, lane>>
        BY <2>2 DEF HeldTold, LaneTold
  <2>3. QED BY <1>5, <2>1, <2>2 DEF LandSimulation
<1>6. CASE \/ \E k \in Setups : SubmitSimulation(k)
           \/ LoseSimulation \/ VanishSimulation \/ UNCHANGED vars
  <2>1. UNCHANGED <<project, result, lane>>
        BY <1>6 DEF SubmitSimulation, LoseSimulation, VanishSimulation, vars
  <2>2. QED BY <2>1 DEF HeldTold, LaneTold
<1>7. QED BY <1>1, <1>2, <1>3, <1>4, <1>5, <1>6 DEF Next

\* A result whose source cuts before its row is what the row would now give,
\* once everything it reads is there.
LEMMA ToldIsFresh ==
  ASSUME Typed, HeldTold, NEW r \in HeldIn(result) \cap project.enabled, InputsHeld(r),
         \A e \in result[r].source.carved : e.row \in StockRows(project, r)
  PROVE  IsFresh(r)
<1> DEFINE x == result[r]
<1>1. /\ ProjectOK(project) /\ r \in Present(project) /\ IsSource(x.source)
      BY DEF Typed, AreResults, IsAnswer
<1>2. /\ Reads(project, result, r, x)
      /\ Told(project, r, x.source, Present(project), Ordered)
      /\ x.source # NoSource => Standing(project, result, r, x.source)
      BY DEF HeldTold
<1>3. StockRows(project, r) \subseteq Present(project)
      BY <1>1, StockIsBefore
<1>4. ASSUME r \in project.rest
      PROVE  Carves(x.source) = Carves(SourceOf(project, result, r))
  <2>1. Standing(project, result, r, x.source)
        BY <1>2, <1>4 DEF Reads
  <2>2. StockRows(project, r) \cap project.enabled \subseteq HeldIn(result)
        BY <1>4 DEF InputsHeld
  <2>3. SourceIsCurrent(project, result, r, x.source)
        BY <2>1, <2>2 DEF Standing, SourceIsCurrent, EntryStands, HeldIn
  <2>4. \A e \in x.source.carved : e.row \in Present(project) /\ e.row \in StockRows(project, r)
        BY <1>3
  <2> HIDE DEF x
  <2>5. QED BY <1>1, <1>2, <2>3, <2>4, CurrentIsTrue
<1>5. x.regions = IF project.regions[r] = None THEN None
                  ELSE Moves(result[project.regions[r]])
      BY <1>2 DEF Reads, InputsHeld
<1>6. QED BY <1>2, <1>4, <1>5 DEF IsFresh, TrueStock, Reads

Fresh == Typed /\ SnapshotsTold(Ordered) /\ HeldTold /\ LaneTold

LEMMA SnapshotsInit == ASSUME Init, NEW ordered PROVE SnapshotsTold(ordered)
BY EmptyList DEF Init, SnapshotsTold

LEMMA FreshInit == Init => Fresh
<1>1. SUFFICES ASSUME Init PROVE HeldTold /\ LaneTold
      BY TypedInit, SnapshotsInit DEF Fresh
<1>2. HeldIn(result) = {} /\ Len(lane) = 0
      BY <1>1, EmptyList DEF Init, HeldIn
<1>3. QED BY <1>2 DEF HeldTold, LaneTold, LaneReads

\* The session adopts no simulation that is older than an edit, or no edit
\* moves a row to another setup or turns a setup over.
LEMMA FreshAlways == Spec /\ (PlacesFixed \/ AdoptedSimulationIsLive) => []Fresh
<1>1. Init => Fresh
      BY FreshInit
<1>2. Fresh /\ [Next]_vars /\ AdoptsLive => Fresh'
      BY TypedStep, SnapshotsStep, ToldStep DEF Fresh
<1>3. ASSUME PlacesFixed PROVE Spec => []Fresh
  <2>1. Fixed(Ordered)
        BY <1>3 DEF Fixed
  <2>2. Fresh /\ [Next]_vars => Fresh'
        BY <2>1, TypedStep, SnapshotsStep, ToldStep DEF Fresh
  <2>3. QED BY <1>1, <2>2, PTL DEF Spec
<1>4. Spec /\ AdoptedSimulationIsLive => []Fresh
      BY <1>1, <1>2, PTL DEF Spec, AdoptedSimulationIsLive, AdoptsLive
<1>5. QED BY <1>3, <1>4

\* The currency rule accepts no snapshot but the stock the project now leaves
\* (source_is_current), whatever the session adopts and however rows are
\* reordered, as far as the carved rows still cut before the snapshot's row:
\* as long as no row changes setups and no setup is turned over, or the
\* session adopts no simulation that is older than an edit.
THEOREM OrderedSnapshotsAreTrue ==
  Spec /\ (PlacesFixed \/ AdoptedSimulationIsLive) => []OrderedSnapshotIsTrue
<1>1. Fresh => OrderedSnapshotIsTrue
      BY ToldIsTrue DEF Fresh, OrderedSnapshotIsTrue
<1>2. QED BY <1>1, FreshAlways, PTL

\* The carved rows need no proviso when rows are not reordered either, or
\* when the session adopts no simulation that is older than an edit.
THEOREM NoFalseSnapshot ==
  Spec /\ ((PlacesFixed /\ "reorder" \notin Edits) \/ AdoptedSimulationIsLive)
    => []CurrentSnapshotIsTrue
<1> DEFINE Kept == Typed /\ SnapshotsTold(TRUE)
<1>1. Init => Kept
      BY TypedInit, SnapshotsInit
<1>2. Kept /\ [Next]_vars /\ AdoptsLive => Kept'
      BY TypedStep, SnapshotsStep
<1>3. Kept => CurrentSnapshotIsTrue
      BY ToldIsTrue, ToldIsOrdered DEF CurrentSnapshotIsTrue
<1>4. ASSUME PlacesFixed /\ "reorder" \notin Edits PROVE Spec => []Kept
  <2>1. Fixed(TRUE)
        BY <1>4 DEF Fixed, Ordered
  <2>2. Kept /\ [Next]_vars => Kept'
        BY <2>1, TypedStep, SnapshotsStep
  <2>3. QED BY <1>1, <2>2, PTL DEF Spec
<1>5. Spec /\ AdoptedSimulationIsLive => []Kept
      BY <1>1, <1>2, PTL DEF Spec, AdoptedSimulationIsLive, AdoptsLive
<1>6. Spec /\ ((PlacesFixed /\ "reorder" \notin Edits) \/ AdoptedSimulationIsLive) => []Kept
      BY <1>4, <1>5
<1>7. QED BY <1>3, <1>6, PTL

\* Under the same condition, and whatever generations, late answers and edits came
\* before (a reorder included), an enabled row whose inputs are there, and whose
\* recorded source still cuts before it, holds exactly what generating it now
\* would give.
THEOREM KeptResultsAreFresh ==
  Spec /\ (PlacesFixed \/ AdoptedSimulationIsLive) => []OrderedResultsAreFresh
<1>1. Fresh => OrderedResultsAreFresh
      BY ToldIsFresh DEF Fresh, OrderedResultsAreFresh
<1>2. QED BY <1>1, FreshAlways, PTL

\* Without a reorder the sources need no proviso: only a row that changes
\* places with its source can keep a result that is not what it would be.
THEOREM NoStaleResult ==
  ASSUME "reorder" \notin Edits
  PROVE  Spec /\ (PlacesFixed \/ AdoptedSimulationIsLive) => []HeldResultsAreFresh
<1>1. Fresh => HeldResultsAreFresh
  <2>1. SUFFICES ASSUME Typed, HeldTold, NEW r \in HeldIn(result) \cap project.enabled, InputsHeld(r)
                 PROVE  IsFresh(r)
        BY DEF Fresh, HeldResultsAreFresh
  <2>2. /\ Told(project, r, result[r].source, Present(project), Ordered)
        /\ result[r].source # NoSource => Standing(project, result, r, result[r].source)
        BY <2>1 DEF HeldTold
  <2>3. \A e \in result[r].source.carved : e.row \in StockRows(project, r)
    <3>1. CASE result[r].source = NoSource
          BY <3>1 DEF NoSource
    <3>2. CASE result[r].source # NoSource
          BY <2>2, <3>2 DEF Told, Standing, Ordered
    <3>3. QED BY <3>1, <3>2
  <2>4. QED BY <2>1, <2>3, ToldIsFresh
<1>2. QED BY <1>1, FreshAlways, PTL

-----------------------------------------------------------------------------
(* The order in which the rows of a project cut.                           *)

\* The rows that cut after r.
CutsAfter(p, r) == {x \in Present(p) : r \in CarveOrderBefore(p, x)}

LEMMA PrecedesIs ==
  ASSUME NEW o, o \in Seq(Rows), Once(o), NEW x, NEW y, NEW z,
         Precedes(o, x, y)
  PROVE  /\ x \in Range(o) /\ y \in Range(o) /\ x # y
         /\ Precedes(o, y, z) => Precedes(o, x, z)
<1>1. Len(o) \in Nat /\ DOMAIN o = 1..Len(o)
      BY LenProperties
<1>2. PICK i, j \in 1..Len(o) : i < j /\ o[i] = x /\ o[j] = y
      BY DEF Precedes
<1>3. x \in Range(o) /\ y \in Range(o) /\ x # y
      BY <1>1, <1>2 DEF Range, Once
<1>4. ASSUME Precedes(o, y, z) PROVE Precedes(o, x, z)
  <2>1. PICK k, l \in 1..Len(o) : k < l /\ o[k] = y /\ o[l] = z
        BY <1>4 DEF Precedes
  <2>2. k = j
        BY <1>2, <2>1 DEF Once
  <2>3. i < l
        BY <1>1, <1>2, <2>1, <2>2
  <2>4. QED BY <1>2, <2>1, <2>3 DEF Precedes
<1>5. QED BY <1>3, <1>4

\* One row cuts before another in an earlier setup, or above it in its own.
LEMMA CutsBeforeIs ==
  ASSUME NEW p, ProjectOK(p), NEW y \in Present(p), NEW x
  PROVE  x \in CarveOrderBefore(p, y) <=>
           /\ x \in Present(p)
           /\ SetupOf(p, x) < SetupOf(p, y) \/ Precedes(p.order[SetupOf(p, y)], x, y)
<1> DEFINE s == SetupOf(p, y)
<1>1. s \in Setups /\ s \in Nat /\ NumSetups \in Nat
      BY Places, SetupsAssumption DEF Setups
<1>2. 1..(s - 1) \subseteq Setups
      BY <1>1 DEF Setups
<1>3. RowsOf(p, 1..(s - 1)) = {z \in Present(p) : SetupOf(p, z) \in 1..(s - 1)}
      BY <1>2, RowsOfIs
<1>4. \A z \in Present(p) : SetupOf(p, z) \in 1..(s - 1) <=> SetupOf(p, z) < s
  <2>1. \A z \in Present(p) : SetupOf(p, z) \in 1..NumSetups
        BY Places DEF Setups
  <2> HIDE DEF s
  <2>2. QED BY <1>1, <2>1
<1>5. x \in Above(p, y) <=> x \in Present(p) /\ Precedes(p.order[s], x, y)
      BY <1>1, AboveIs, Places
<1>6. QED BY <1>3, <1>4, <1>5 DEF CarveOrderBefore

\* To cut before is a strict order.
LEMMA CutOrderIsStrict ==
  ASSUME NEW p, ProjectOK(p), NEW y \in Present(p)
  PROVE  /\ y \notin CarveOrderBefore(p, y)
         /\ CarveOrderBefore(p, y) \subseteq Present(p)
         /\ \A x \in CarveOrderBefore(p, y) :
              CarveOrderBefore(p, x) \subseteq CarveOrderBefore(p, y)
<1>1. \A z \in Present(p) : /\ SetupOf(p, z) \in Nat /\ SetupOf(p, z) \in Setups
                            /\ p.order[SetupOf(p, z)] \in Seq(Rows)
                            /\ Once(p.order[SetupOf(p, z)])
      BY Places, ListedIsOnePlace DEF ProjectOK, Listed, Setups
<1>2. y \notin CarveOrderBefore(p, y)
      BY <1>1, CutsBeforeIs, PrecedesIs
<1>3. CarveOrderBefore(p, y) \subseteq Present(p)
      BY CutsBeforeIs
<1>4. ASSUME NEW x \in CarveOrderBefore(p, y), NEW w \in CarveOrderBefore(p, x)
      PROVE  w \in CarveOrderBefore(p, y)
  <2>1. /\ x \in Present(p)
        /\ SetupOf(p, x) < SetupOf(p, y) \/ Precedes(p.order[SetupOf(p, y)], x, y)
        BY <1>4, CutsBeforeIs
  <2>2. /\ w \in Present(p)
        /\ SetupOf(p, w) < SetupOf(p, x) \/ Precedes(p.order[SetupOf(p, x)], w, x)
        BY <1>4, <2>1, CutsBeforeIs
  <2>3. ASSUME NEW a, NEW b \in Present(p), Precedes(p.order[SetupOf(p, b)], a, b)
        PROVE  SetupOf(p, a) = SetupOf(p, b)
    <3>1. a \in Range(p.order[SetupOf(p, b)])
          BY <1>1, <2>3, PrecedesIs
    <3>2. QED BY <1>1, <3>1, Places
  <2>4. \/ SetupOf(p, w) < SetupOf(p, y)
        \/ Precedes(p.order[SetupOf(p, y)], w, y)
    <3>1. CASE SetupOf(p, w) < SetupOf(p, x)
      <4>1. SetupOf(p, x) <= SetupOf(p, y)
            BY <1>1, <2>1, <2>3
      <4>2. QED BY <1>1, <2>1, <2>2, <3>1, <4>1
    <3>2. CASE Precedes(p.order[SetupOf(p, x)], w, x)
      <4>1. CASE SetupOf(p, x) < SetupOf(p, y)
            BY <2>1, <2>3, <3>2, <4>1
      <4>2. CASE Precedes(p.order[SetupOf(p, y)], x, y)
            BY <1>1, <2>1, <2>3, <3>2, <4>2, PrecedesIs
      <4>3. QED BY <2>1, <4>1, <4>2
    <3>3. QED BY <2>2, <3>1, <3>2
  <2>5. QED BY <2>2, <2>4, CutsBeforeIs
<1>5. QED BY <1>2, <1>3, <1>4

\* The stock of a row comes from rows that cut before it.
LEMMA StockEdgesCutBefore ==
  ASSUME NEW p, ProjectOK(p), NEW y \in Present(p)
  PROVE  StockEdges(p, y) \subseteq CarveOrderBefore(p, y)
<1>1. SetupOf(p, y) \in Nat /\ SetupOf(p, y) \in Setups
      BY Places DEF Setups
<1>2. {SetupOf(p, y) - 1} \cap Setups \subseteq 1..(SetupOf(p, y) - 1)
      BY <1>1 DEF Setups
<1>3. RowsOf(p, {SetupOf(p, y) - 1} \cap Setups) \subseteq RowsOf(p, 1..(SetupOf(p, y) - 1))
      BY <1>2 DEF RowsOf
<1>4. QED BY <1>3 DEF StockEdges, CarveOrderBefore

-----------------------------------------------------------------------------
(* Walks and sweeps that start at r go on to rows that cut after it.       *)

\* A row whose boundary is clipped by another's rest regions cuts after it.
RegionsInOrder(p) ==
  \A r \in Present(p) : p.regions[r] \in Present(p) => p.regions[r] \in CarveOrderBefore(p, r)

From(p, r) == {r} \cup CutsAfter(p, r)

LEMMA FromGoesOn ==
  ASSUME NEW p, ProjectOK(p), NEW r \in Present(p), NEW x \in Present(p),
         NEW y \in From(p, r), y \in CarveOrderBefore(p, x)
  PROVE  x \in CutsAfter(p, r)
<1>1. CASE y = r
      BY <1>1 DEF CutsAfter
<1>2. CASE y \in CutsAfter(p, r)
      BY <1>2, CutOrderIsStrict DEF CutsAfter
<1>3. QED BY <1>1, <1>2 DEF From

LEMMA WalkGoesOn ==
  ASSUME NEW p, ProjectOK(p), RegionsInOrder(p), NEW r \in Present(p),
         NEW seeds \in SUBSET From(p, r), NEW chain \in SUBSET From(p, r)
  PROVE  Walk(p, seeds, chain) \subseteq CutsAfter(p, r)
<1>1. Present(p) \subseteq Rows /\ CutsAfter(p, r) \in SUBSET Rows /\ seeds \in SUBSET Rows
      /\ From(p, r) \subseteq Present(p)
      BY Places DEF CutsAfter, From
<1>2. ASSUME NEW d \in SUBSET (seeds \cup CutsAfter(p, r)), NEW x \in Newly(p, seeds, chain, d)
      PROVE  x \in CutsAfter(p, r)
  <2>1. d \subseteq From(p, r)
        BY DEF From
  <2>2. x \in Present(p)
        BY DEF Newly
  <2>3. \/ \E y \in StockEdges(p, x) : y \in From(p, r)
        \/ p.regions[x] \in From(p, r)
        BY <2>1 DEF Newly
  <2>4. PICK y \in From(p, r) : y \in CarveOrderBefore(p, x)
        BY <1>1, <2>2, <2>3, StockEdgesCutBefore DEF RegionsInOrder
  <2>5. QED BY <2>2, <2>4, FromGoesOn
<1>3. QED BY <1>1, <1>2, WalkStays

\* A record of rows that cut before y is as current as it was when nothing
\* but rows from r on has changed, and y does not cut after r.
LEMMA CurrencyStays ==
  ASSUME NEW p, ProjectOK(p), NEW r \in Present(p), NEW y \in Present(p) \ CutsAfter(p, r),
         NEW now, NEW res, \A x \in Present(p) \ From(p, r) : res[x] = now[x],
         NEW src, \A e \in src.carved : e.row \in CarveOrderBefore(p, y),
         SourceIsCurrent(p, now, y, src)
  PROVE  SourceIsCurrent(p, res, y, src)
<1>1. \A x \in CarveOrderBefore(p, y) : x \in Present(p) /\ res[x] = now[x]
      BY FromGoesOn, CutOrderIsStrict
<1>2. \A e \in src.carved : EntryStands(p, res, e)
      BY <1>1 DEF SourceIsCurrent, EntryStands
<1>3. NothingNewBefore(p, res, y, src)
      BY <1>1 DEF SourceIsCurrent, NothingNewBefore, CutsIn
<1>4. QED BY <1>2, <1>3 DEF SourceIsCurrent

\* What y holds is of a source that is current among the results `now`.
HoldsCurrent(p, now, res, y) ==
  res[y].source # NoSource =>
    /\ \A e \in res[y].source.carved : e.row \in CarveOrderBefore(p, y)
    /\ SourceIsCurrent(p, now, y, res[y].source)

LEMMA SweptGoesOn ==
  ASSUME NEW p, ProjectOK(p), RegionsInOrder(p), NEW r \in Present(p), NEW now, NEW res,
         \A x \in Present(p) \ From(p, r) : res[x] = now[x],
         \A y \in (Present(p) \cap HeldIn(res)) \ CutsAfter(p, r) : HoldsCurrent(p, now, res, y)
  PROVE  Swept(p, res) \subseteq CutsAfter(p, r)
<1> DEFINE A == CutsAfter(p, r)
<1>1. Present(p) \subseteq Rows /\ A \in SUBSET Rows
      BY Places DEF CutsAfter
<1>2. ASSUME NEW gone \in SUBSET A
      PROVE  Hit(p, res)[gone] \subseteq A
  <2> DEFINE hits == OutOfDate(p, Dropped(res, gone))
  <2>1. gone \in SUBSET Rows
        BY <1>1
  <2>2. ASSUME NEW y \in hits, y \notin A PROVE FALSE
    <3>1. /\ y \in Present(p) \ CutsAfter(p, r) /\ y \in Rows /\ y \notin gone
          /\ Dropped(res, gone)[y] = res[y] /\ Dropped(res, gone)[y] # None
          BY <1>1, <2>2 DEF OutOfDate, HeldIn, Dropped
    <3>2. /\ res[y].source # NoSource
          /\ ~SourceIsCurrent(p, Dropped(res, gone), y, res[y].source)
          BY <2>2, <3>1 DEF OutOfDate
    <3>3. HoldsCurrent(p, now, res, y)
          BY <3>1 DEF HeldIn
    <3>4. \A x \in Present(p) \ From(p, r) : Dropped(res, gone)[x] = now[x]
          BY <1>1 DEF Dropped, From
    <3>5. SourceIsCurrent(p, Dropped(res, gone), y, res[y].source)
          BY <3>1, <3>2, <3>3, <3>4, CurrencyStays DEF HoldsCurrent
    <3>6. QED BY <3>2, <3>5
  <2>3. hits \in SUBSET From(p, r)
        BY <2>2 DEF From
  <2>4. Walk(p, hits, hits) \subseteq A
        BY <2>3, WalkGoesOn
  <2>5. Hit(p, res)[gone] \subseteq hits \cup Walk(p, hits, hits)
        BY <2>1 DEF Hit
  <2> HIDE DEF hits
  <2>6. QED BY <2>2, <2>4, <2>5
<1>3. QED BY <1>1, <1>2, SweptStays

\* Where nothing is out of date the sweep drops nothing.
LEMMA NothingToSweep ==
  ASSUME NEW p, Present(p) \subseteq Rows, NEW res, OutOfDate(p, Dropped(res, {})) = {}
  PROVE  Swept(p, res) = {}
<1>1. \A gone \in SUBSET {} : Hit(p, res)[gone] \subseteq {}
      BY DEF Hit
<1>2. QED BY <1>1, SweptStays

\* Only the results of rows count.
LEMMA OutOfDateOf ==
  ASSUME NEW p, ProjectOK(p), NEW res
  PROVE  OutOfDate(p, Dropped(Dropped(res, {}), {})) = OutOfDate(p, res)
<1> DEFINE other == Dropped(Dropped(res, {}), {})
<1>1. \A x \in Rows : other[x] = res[x]
      BY DEF Dropped
<1>2. Present(p) \subseteq Rows
      BY Places
<1> HIDE DEF other
<1>3. ASSUME NEW y \in Present(p), NEW src
      PROVE  SourceIsCurrent(p, other, y, src) <=> SourceIsCurrent(p, res, y, src)
  <2>1. \A e \in src.carved : EntryStands(p, other, e) <=> EntryStands(p, res, e)
        BY <1>1, <1>2 DEF EntryStands
  <2>2. \A x \in CarveOrderBefore(p, y) : CutsIn(other, x) <=> CutsIn(res, x)
        BY <1>1, <1>2, CutOrderIsStrict DEF CutsIn
  <2>3. QED BY <2>1, <2>2 DEF SourceIsCurrent, NothingNewBefore
<1>4. QED BY <1>1, <1>2, <1>3 DEF OutOfDate, HeldIn, other

-----------------------------------------------------------------------------
(* A submit takes a result away and sweeps nothing: what rests on it is    *)
(* swept when the answer lands.                                            *)

\* Of two handles of a row the later is live if the earlier is.
NewestLives(s) ==
  \A i, j \in 1..Len(s) : i < j /\ s[i].row = s[j].row /\ s[i].live => s[j].live

NothingLives(s) == \A i \in 1..Len(s) : ~s[i].live

\* While no answer is awaited, nothing is out of date.
IdleIsSettled == NothingLives(lane) => OutOfDate(project, result) = {}

LEMMA CommandSettlesIdle ==
  ASSUME NEW q, ProjectOK(q), NEW res, AreResults(res), NEW out,
         NEW handles, AreHandles(handles), NewestLives(handles), Command(q, res, out, handles)
  PROVE  NewestLives(lane') /\ OutOfDate(project', result') = {}
<1>1. PICK gone :
        /\ project' = q /\ OutOfDate(q, result') = {} /\ Len(lane') = Len(handles)
        /\ \A i \in 1..Len(handles) :
             /\ lane'[i].row = handles[i].row
             /\ lane'[i].live <=> handles[i].live /\ handles[i].row \notin gone
      BY CommandIs
<1>2. NewestLives(lane')
      BY <1>1 DEF NewestLives
<1>3. QED BY <1>1, <1>2

LEMMA TailLives ==
  ASSUME NEW s, AreHandles(s), s # <<>>, NewestLives(s)
  PROVE  /\ NewestLives(Tail(s))
         /\ NothingLives(Tail(s)) /\ ~s[1].live => NothingLives(s)
         /\ \A i \in 2..Len(s) : s[i].row = s[1].row /\ s[1].live => ~NothingLives(Tail(s))
<1>1. /\ Len(Tail(s)) = Len(s) - 1 /\ Len(s) \in Nat \ {0}
      /\ \A i \in 1..(Len(s) - 1) : Tail(s)[i] = s[i + 1]
      BY TailList DEF AreHandles
<1>2. NewestLives(Tail(s))
  <2>1. SUFFICES ASSUME NEW i \in 1..(Len(s) - 1), NEW j \in 1..(Len(s) - 1), i < j,
                        Tail(s)[i].row = Tail(s)[j].row, Tail(s)[i].live
                 PROVE  Tail(s)[j].live
        BY <1>1 DEF NewestLives
  <2>2. i + 1 \in 1..Len(s) /\ j + 1 \in 1..Len(s) /\ i + 1 < j + 1
        BY <1>1, <2>1
  <2>3. QED BY <1>1, <2>1, <2>2 DEF NewestLives
<1>3. ASSUME NEW i \in 2..Len(s)
      PROVE  i - 1 \in 1..(Len(s) - 1) /\ Tail(s)[i - 1] = s[i]
  <2>1. i - 1 \in 1..(Len(s) - 1) /\ (i - 1) + 1 = i
        BY <1>1
  <2>2. QED BY <1>1, <2>1
<1>4. ASSUME NothingLives(Tail(s)), ~s[1].live PROVE NothingLives(s)
  <2>1. \A i \in 1..Len(s) : i = 1 \/ i \in 2..Len(s)
        BY <1>1
  <2>2. \A i \in 2..Len(s) : ~s[i].live
        BY <1>1, <1>3, <1>4 DEF NothingLives
  <2>3. QED BY <1>4, <2>1, <2>2 DEF NothingLives
<1>5. ASSUME NEW i \in 2..Len(s), s[i].row = s[1].row, s[1].live
      PROVE  ~NothingLives(Tail(s))
  <2>1. 1 \in 1..Len(s) /\ i \in 1..Len(s) /\ 1 < i
        BY <1>1
  <2>2. s[i].live
        BY <1>5, <2>1 DEF NewestLives
  <2>3. QED BY <1>1, <1>3, <2>2 DEF NothingLives
<1>6. QED BY <1>2, <1>4, <1>5

LEMMA DequeuedLives ==
  ASSUME NEW s, AreHandles(s), NewestLives(s), NEW n \in 1..Len(s)
  PROVE  NewestLives(Dequeued(s, n))
<1> DEFINE t == Dequeued(s, n)
           was(i) == IF i < n THEN i ELSE i + 1
<1>1. /\ Len(t) = Len(s) - 1 /\ Len(s) \in Nat
      /\ \A i \in 1..(Len(s) - 1) : was(i) \in 1..Len(s) /\ t[i] = s[was(i)]
  <2>1. /\ Len(t) = Len(s) - 1 /\ Len(s) \in Nat
        /\ \A i \in 1..(Len(s) - 1) : t[i] = IF i < n THEN s[i] ELSE s[i + 1]
        BY DequeuedList, ListIs DEF AreHandles
  <2> HIDE DEF t
  <2>2. QED BY <2>1
<1>2. ASSUME NEW i \in 1..(Len(s) - 1), NEW j \in 1..(Len(s) - 1), i < j
      PROVE  was(i) < was(j)
  <2>1. n \in Int /\ i \in Int /\ j \in Int
        OBVIOUS
  <2>2. QED BY <1>2, <2>1
<1> HIDE DEF t, was
<1>3. SUFFICES ASSUME NEW i \in 1..(Len(s) - 1), NEW j \in 1..(Len(s) - 1), i < j,
                      t[i].row = t[j].row, t[i].live
               PROVE  t[j].live
      BY <1>1 DEF NewestLives, t
<1>4. was(i) < was(j) /\ was(i) \in 1..Len(s) /\ was(j) \in 1..Len(s)
      /\ t[i] = s[was(i)] /\ t[j] = s[was(j)]
      BY <1>1, <1>2, <1>3
<1>5. QED BY <1>3, <1>4 DEF NewestLives

LEMMA SubmitSettlesIdle ==
  ASSUME Typed, NewestLives(lane), IdleIsSettled, NEW r \in Present(project), Submit(r)
  PROVE  NewestLives(lane') /\ IdleIsSettled'
<1>1. CASE Forget(r, lane)
      BY <1>1, CommandSettlesIdle DEF Forget, Typed, IdleIsSettled
<1>2. CASE ~Forget(r, lane)
  <2> DEFINE h == [row |-> r, live |-> TRUE, answer |-> Generated(r)]
  <2>1. PICK kept \in {lane} \cup {Dequeued(lane, i) : i \in {j \in DOMAIN lane : lane[j].row = r}} :
          lane' = Append(kept, h)
        BY <1>2 DEF Submit
  <2>2. AreHandles(kept) /\ NewestLives(kept)
        BY <2>1, FewerAre, DequeuedLives, ListIs DEF Typed, AreHandles
  <2>3. h.live
        OBVIOUS
  <2> HIDE DEF h
  <2>4. /\ Len(kept) \in Nat /\ Len(lane') = Len(kept) + 1 /\ lane'[Len(kept) + 1] = h
        /\ \A i \in 1..Len(kept) : lane'[i] = kept[i]
        BY <2>1, <2>2, AppendList, ListIs DEF AreHandles
  <2>5. NewestLives(lane')
    <3>1. SUFFICES ASSUME NEW i \in 1..(Len(kept) + 1), NEW j \in 1..(Len(kept) + 1), i < j,
                          lane'[i].row = lane'[j].row, lane'[i].live
                   PROVE  lane'[j].live
          BY <2>4 DEF NewestLives
    <3>2. CASE j = Len(kept) + 1
          BY <2>3, <2>4, <3>2
    <3>3. CASE j # Len(kept) + 1
      <4>1. i \in 1..Len(kept) /\ j \in 1..Len(kept)
            BY <2>4, <3>1, <3>3
      <4>2. QED BY <2>2, <2>4, <3>1, <4>1 DEF NewestLives
    <3>4. QED BY <3>2, <3>3
  <2>6. Len(kept) + 1 \in 1..Len(lane')
        BY <2>4
  <2>7. QED BY <2>3, <2>4, <2>5, <2>6 DEF IdleIsSettled, NothingLives
<1>3. QED BY <1>1, <1>2

LEMMA LandSettlesIdle ==
  ASSUME Typed, LaneTold, NewestLives(lane), IdleIsSettled, LandOk \/ LandErr
  PROVE  NewestLives(lane') /\ IdleIsSettled'
<1> DEFINE h == lane[1]
           r == h.row
<1>1. /\ ProjectOK(project) /\ AreResults(result)
      /\ AreHandles(lane) /\ lane # <<>>
      BY DEF Typed, LandOk, LandErr
<1>2. /\ AreHandles(Tail(lane)) /\ Head(lane) = h /\ 1 \in 1..Len(lane)
      /\ IsHandle(h) /\ NewestLives(Tail(lane))
  <2>1. Len(lane) \in Nat \ {0} /\ Head(lane) = h
        BY <1>1, TailList DEF AreHandles
  <2>2. QED BY <1>1, <2>1, FewerAre, TailLives DEF AreHandles
<1>3. h.live => r \in Present(project)
      BY <1>2 DEF LaneTold, LaneReads, Reads
<1> HIDE DEF h, r
<1>4. ASSUME NEW res, AreResults(res), NEW out, Command(project, res, out, Tail(lane))
      PROVE  NewestLives(lane') /\ IdleIsSettled'
      BY <1>1, <1>2, <1>4, CommandSettlesIdle DEF IdleIsSettled
<1>5. ASSUME lane' = Tail(lane), UNCHANGED <<project, result>>,
             h.live => \E i \in 2..Len(lane) : lane[i].row = r
      PROVE  NewestLives(lane') /\ IdleIsSettled'
      BY <1>1, <1>2, <1>5, TailLives DEF IdleIsSettled, h, r
<1>6. CASE LandOk
  <2>1. CASE r \in Present(project) /\ h.live
    <3> DEFINE res == [result EXCEPT ![r] = h.answer]
    <3>1. Command(project, res, Walk(project, {r}, {}), Tail(lane))
          BY <1>2, <1>6, <2>1 DEF LandOk, r
    <3>2. AreResults(res)
      <4>1. r \in Rows /\ IsAnswer(h.answer) /\ DOMAIN result = Rows
            BY <1>1, <1>2 DEF IsHandle, AreResults, r
      <4>2. QED BY <1>1, <4>1 DEF HeldIn, AreResults
    <3>3. QED BY <1>4, <3>1, <3>2
  <2>2. CASE ~(r \in Present(project) /\ h.live)
        BY <1>2, <1>3, <1>5, <1>6, <2>2 DEF LandOk, r
  <2>3. QED BY <2>1, <2>2
<1>7. CASE LandErr
  <2>1. \/ Forget(r, Tail(lane))
        \/ /\ r \in Present(project) => \E i \in 2..Len(lane) : lane[i].row = r
           /\ lane' = Tail(lane) /\ UNCHANGED <<project, result>>
        BY <1>2, <1>7 DEF LandErr, r
  <2>2. CASE Forget(r, Tail(lane))
        BY <1>1, <1>4, <2>2 DEF Forget
  <2>3. QED BY <1>3, <1>5, <2>1, <2>2
<1>8. QED BY <1>6, <1>7

LEMMA SettledIdleStep ==
  ASSUME Typed, LaneTold, NewestLives(lane), IdleIsSettled, [Next]_vars
  PROVE  NewestLives(lane') /\ IdleIsSettled'
<1>1. ProjectOK(project) /\ AreResults(result) /\ AreHandles(lane)
      BY DEF Typed
<1>2. CASE SomeEdit
  <2>1. PICK kind \in Edits : \E q, out, handles :
          /\ Command(q, result, out, handles)
          /\ handles \in {lane, Outdate(lane, Rows)}
          /\ KeepsOthers(project, q, kind, out)
        BY <1>1, <1>2, EditCarries
  <2>2. PICK q, out, handles :
          /\ Command(q, result, out, handles)
          /\ handles \in {lane, Outdate(lane, Rows)}
          /\ KeepsOthers(project, q, kind, out)
        BY <2>1
  <2>3. AreHandles(Outdate(lane, Rows)) /\ NewestLives(Outdate(lane, Rows))
    <3>1. /\ AreHandles(Outdate(lane, Rows)) /\ Len(Outdate(lane, Rows)) = Len(lane)
          /\ \A i \in 1..Len(lane) :
               Outdate(lane, Rows)[i].live <=> lane[i].live /\ lane[i].row \notin Rows
          BY <1>1, OutdateIs
    <3>2. \A i \in 1..Len(lane) : lane[i].row \in Rows
          BY <1>1 DEF AreHandles, IsHandle
    <3>3. QED BY <3>1, <3>2 DEF NewestLives
  <2>4. ProjectOK(q)
        BY <2>2 DEF KeepsOthers
  <2>5. QED BY <1>1, <2>2, <2>3, <2>4, CommandSettlesIdle DEF IdleIsSettled
<1>3. CASE \E r \in Present(project) : Submit(r)
      BY <1>3, SubmitSettlesIdle
<1>4. CASE LandOk \/ LandErr
      BY <1>4, LandSettlesIdle
<1>5. CASE LandSimulation
      BY <1>1, <1>5, CommandSettlesIdle DEF LandSimulation, IdleIsSettled
<1>6. CASE \/ \E k \in Setups : SubmitSimulation(k)
           \/ LoseSimulation \/ VanishSimulation \/ UNCHANGED vars
  <2>1. UNCHANGED <<project, result, lane>>
        BY <1>6 DEF SubmitSimulation, LoseSimulation, VanishSimulation, vars
  <2>2. QED BY <2>1 DEF IdleIsSettled
<1>7. QED BY <1>2, <1>3, <1>4, <1>5, <1>6 DEF Next

LEMMA SettledIdleInit == Init => NewestLives(lane) /\ IdleIsSettled
<1>1. SUFFICES ASSUME Init PROVE NewestLives(lane) /\ IdleIsSettled
      OBVIOUS
<1>2. Len(lane) = 0 /\ HeldIn(result) = {}
      BY <1>1, EmptyList DEF Init, HeldIn
<1>3. QED BY <1>2 DEF NewestLives, IdleIsSettled, OutOfDate

-----------------------------------------------------------------------------
(* Commands while a plan's row is the only one in the lane.                *)

\* What cuts before r is not r and does not cut after it.
LEMMA BeforeIsNotFrom ==
  ASSUME NEW p, ProjectOK(p), NEW r \in Present(p), NEW x \in CarveOrderBefore(p, r)
  PROVE  x \notin From(p, r)
BY CutOrderIsStrict DEF From, CutsAfter

\* The record of a told source names rows that cut before its row.
LEMMA ToldCutsBefore ==
  ASSUME Ordered, NEW p, ProjectOK(p), NEW r \in Present(p), NEW src, NEW rows,
         Told(p, r, src, rows, Ordered), \A e \in src.carved : e.row \in rows
  PROVE  \A e \in src.carved : e.row \in CarveOrderBefore(p, r)
BY StockIsBefore DEF Told

\* A held result that the sweep would leave.
LEMMA HeldIsCurrent ==
  ASSUME Ordered, Typed, HeldTold, NEW y \in HeldIn(result) \ OutOfDate(project, result)
  PROVE  HoldsCurrent(project, result, result, y)
<1>1. ProjectOK(project) /\ y \in Present(project)
      BY DEF Typed
<1>2. SUFFICES ASSUME result[y].source # NoSource
               PROVE  /\ \A e \in result[y].source.carved : e.row \in CarveOrderBefore(project, y)
                      /\ SourceIsCurrent(project, result, y, result[y].source)
      BY DEF HoldsCurrent
<1>3. /\ y \in project.rest
      /\ Told(project, y, result[y].source, Present(project), Ordered)
      /\ \A e \in result[y].source.carved : e.row \in Present(project)
      BY <1>2 DEF HeldTold, Reads, Standing
<1>4. SourceIsCurrent(project, result, y, result[y].source)
      BY <1>1, <1>2, <1>3 DEF OutOfDate
<1>5. QED BY <1>1, <1>3, <1>4, ToldCutsBefore

\* A command that changes only what r holds, while all that is out of date
\* cuts after r, drops only what it names and rows that cut after r.
LEMMA CommandGoesOn ==
  ASSUME Ordered, Typed, HeldTold, RegionsInOrder(project), NEW r \in Present(project),
         OutOfDate(project, result) \subseteq CutsAfter(project, r),
         NEW res, AreResults(res), \A x \in Rows \ {r} : res[x] = result[x],
         NEW out \in SUBSET From(project, r),
         r \in HeldIn(res) \ out => HoldsCurrent(project, result, res, r),
         NEW handles, AreHandles(handles), Command(project, res, out, handles)
  PROVE  /\ project' = project
         /\ OutOfDate(project, result') = {}
         /\ \A x \in Rows : result'[x] = res[x] \/ (result'[x] = None /\ x \in out \cup CutsAfter(project, r))
         /\ Len(lane') = Len(handles)
         /\ \A i \in 1..Len(handles) :
              /\ lane'[i].row = handles[i].row /\ lane'[i].answer = handles[i].answer
              /\ handles[i].live /\ handles[i].row \notin out \cup CutsAfter(project, r)
                   => lane'[i].live
<1> DEFINE left == Dropped(res, out)
<1>1. ProjectOK(project) /\ Present(project) \subseteq Rows
      BY Places DEF Typed
<1>2. PICK gone :
           /\ out \subseteq gone /\ gone \subseteq out \cup Swept(project, left)
           /\ project' = project
           /\ AreResults(result') /\ HeldIn(result') = HeldIn(res) \ gone
           /\ \A x \in HeldIn(result') : result'[x] = res[x]
           /\ OutOfDate(project, result') = {}
           /\ AreHandles(lane') /\ Len(lane') = Len(handles)
           /\ \A i \in 1..Len(handles) :
                /\ lane'[i].row = handles[i].row
                /\ lane'[i].answer = handles[i].answer
                /\ lane'[i].live <=> handles[i].live /\ handles[i].row \notin gone
      BY <1>1, CommandDrops
<1>3. \A x \in Rows : left[x] = IF x \in out THEN None ELSE res[x]
      BY DEF Dropped
<1> HIDE DEF left
<1>4. \A x \in Present(project) \ From(project, r) : left[x] = result[x]
      BY <1>1, <1>3 DEF From
<1>5. ASSUME NEW y \in (Present(project) \cap HeldIn(left)) \ CutsAfter(project, r)
      PROVE  HoldsCurrent(project, result, left, y)
  <2>1. y \in Rows /\ y \notin out /\ left[y] = res[y] /\ y \in HeldIn(res)
        BY <1>1, <1>3 DEF HeldIn
  <2>2. CASE y = r
        BY <2>1, <2>2 DEF HoldsCurrent
  <2>3. CASE y # r
    <3>1. res[y] = result[y] /\ y \in HeldIn(result)
          BY <2>1, <2>3 DEF HeldIn
    <3>2. HoldsCurrent(project, result, result, y)
          BY <3>1, HeldIsCurrent
    <3>3. QED BY <2>1, <3>1, <3>2 DEF HoldsCurrent
  <2>4. QED BY <2>2, <2>3
<1>6. Swept(project, left) \subseteq CutsAfter(project, r)
      BY <1>1, <1>4, <1>5, SweptGoesOn
<1>7. ASSUME NEW x \in Rows
      PROVE  result'[x] = res[x] \/ (result'[x] = None /\ x \in out \cup CutsAfter(project, r))
  <2>1. /\ x \in HeldIn(result') <=> x \in HeldIn(res) /\ x \notin gone
        /\ x \in HeldIn(result') => result'[x] = res[x]
        BY <1>2
  <2>2. x \in gone => x \in out \cup CutsAfter(project, r)
        BY <1>2, <1>6
  <2>3. (x \in HeldIn(result') <=> result'[x] # None) /\ (x \in HeldIn(res) <=> res[x] # None)
        BY DEF HeldIn
  <2>4. QED BY <2>1, <2>2, <2>3
<1>8. QED BY <1>2, <1>6, <1>7

\* Where nothing is out of date, a command that changes nothing drops nothing.
LEMMA CommandIdles ==
  ASSUME Typed, OutOfDate(project, result) = {}, NEW handles, AreHandles(handles),
         Command(project, result, {}, handles)
  PROVE  /\ project' = project
         /\ OutOfDate(project, result') = {}
         /\ \A x \in Rows : result'[x] = result[x]
         /\ Len(lane') = Len(handles)
<1>1. ProjectOK(project) /\ Present(project) \subseteq Rows /\ AreResults(result)
      BY Places DEF Typed
<1>2. Swept(project, Dropped(result, {})) = {}
      BY <1>1, OutOfDateOf, NothingToSweep
<1>3. PICK gone :
           /\ {} \subseteq gone /\ gone \subseteq {} \cup Swept(project, Dropped(result, {}))
           /\ project' = project
           /\ AreResults(result') /\ HeldIn(result') = HeldIn(result) \ gone
           /\ \A x \in HeldIn(result') : result'[x] = result[x]
           /\ OutOfDate(project, result') = {}
           /\ AreHandles(lane') /\ Len(lane') = Len(handles)
           /\ \A i \in 1..Len(handles) :
                /\ lane'[i].row = handles[i].row
                /\ lane'[i].answer = handles[i].answer
                /\ lane'[i].live <=> handles[i].live /\ handles[i].row \notin gone
      BY <1>1, CommandDrops
<1>4. QED BY <1>2, <1>3 DEF HeldIn

=============================================================================
