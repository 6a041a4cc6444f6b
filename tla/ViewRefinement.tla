--------------------------- MODULE ViewRefinement ---------------------------
(***************************************************************************)
(* The View keeps the promise of Merge.                                    *)
(***************************************************************************)
EXTENDS View

\* What a filter asks for of a set of bags.
Request(bags, f) ==
  [b \in Bags |->
     IF b \in bags
     THEN {m \in Messages(b) : f.all \/ TopicOf(m) \in f.topics}
     ELSE {}]

Earlier(m, n) ==
  /\ Normalised(TimeOf(m)) /\ Normalised(TimeOf(n))
  /\ to_nsec(TimeOf(m)) < to_nsec(TimeOf(n))

\* What iterator x has shown, and what it has still to show of bag b.
Shown(x) == {x.out[k] : k \in DOMAIN x.out}
Left(x, b) ==
  IF b \in query[x.query].bags \ x.lost
  THEN Requested(x.query, b) \ Shown(x)
  ELSE {}

\* The message operator* returns, and during ++ the one it returned before.
Shows(i) ==
  LET x == iter[i] IN
  IF Resting(i)
  THEN IF x.queue = {} THEN None ELSE wrapper[x.query][x.top].current
  ELSE IF x.out = <<>> THEN None ELSE x.out[Len(x.out)]

\* The refinement mapping.
Iteration(i) ==
  IF Exclusive(i)
  THEN [st    |-> IF Resting(i) THEN "ready" ELSE "busy",
        left  |-> [b \in Bags |-> Left(iter[i], b)],
        shows |-> Shows(i)]
  ELSE [st |-> "off", left |-> [b \in Bags |-> {}], shows |-> None]

Abstract == INSTANCE Merge WITH
  Requests <- {Request(bags, f) : bags \in SUBSET Bags, f \in Filter},
  iteration <- [i \in Iterators |-> Iteration(i)]

(***************************************************************************)
(* The View implements the merge: every begin(), ++ and copy does what     *)
(* Merge allows, and every step in between, chunks, records and other      *)
(* queries, is invisible (view.cc, begin, operator++, readMessage).        *)
(***************************************************************************)
ImplementsMerge == Abstract!Spec

=============================================================================
