-------------------------- MODULE MCSessionResults --------------------------
(***************************************************************************)
(* Small projects for SessionResults.  Each is opened with its rows fresh  *)
(* of any result; a row that no setup lists is the one an edit may add.    *)
(***************************************************************************)
EXTENDS SessionResults

CONSTANTS a, b, c, d

Opened(order, rest, regions) ==
  [order    |-> order,
   enabled  |-> Rows,
   rest     |-> rest,
   regions  |-> [r \in Rows |-> IF r \in DOMAIN regions THEN regions[r] ELSE None],
   analysis |-> Range(regions),
   param    |-> [r \in Rows |-> "plain"],
   face     |-> [s \in Setups |-> 0],
   changed  |-> {},
   minted   |-> UNION {Range(order[s]) : s \in Setups}]

\* b rests on a; the second setup is empty.
Pair == Opened(<<<<a, b>>, <<>>>>, {b}, <<>>)

\* c rests on a and b, and no dependency edge joins it to a.
Across == Opened(<<<<a>>, <<b, c>>>>, {c}, <<>>)

\* b rests on a, and c on both across the flip; c is clipped by the rest
\* regions of a.
Clipped == Opened(<<<<a, b>>, <<c>>>>, {b, c}, [r \in {c} |-> a])

\* The middle one of three setups is lateral: it is empty, or holds a row
\* that rests, or the row before the one that rests.
Beside == Opened(<<<<a, b>>, <<>>, <<>>>>, {b}, <<>>)
Into   == Opened(<<<<a>>, <<b>>, <<>>>>, {b}, <<>>)
Out    == Opened(<<<<>>, <<a>>, <<b>>>>, {b}, <<>>)

\* One row that rests on nothing yet: the edits may add a beside it.
Lone == Opened(<<<<>>, <<>>, <<b>>>>, {b}, <<>>)

PairOnly   == {Pair}
AcrossOnly == {Across}
SideSetups == {Beside, Into, Out, Lone}
FlatSetups == {Across, Clipped}
=============================================================================
