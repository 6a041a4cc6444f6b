------------------------------- MODULE Merge -------------------------------
(***************************************************************************)
(* What iterating over a View promises, without chunks, buffers, wrappers  *)
(* or queues.  An iteration has messages left to show, those of each bag   *)
(* in the order of the file.  It shows one that no other bag's next        *)
(* message precedes in time, and it shows nothing only at the end.         *)
(*                                                                         *)
(* The promise holds for an iteration that begins on a fresh query and     *)
(* that no other iterator disturbs; any other one is "off".                *)
(***************************************************************************)
CONSTANTS
  Bags, Iterators, None,
  Requests,          \* what can be asked for: functions from Bags to sets of messages
  FileBefore(_, _),  \* m precedes n in their file
  Earlier(_, _)      \* the time of m is before the time of n

\* iteration[i]: its state ("off", "busy" or "ready"), what is left of each
\* bag, and the message it shows.
VARIABLE iteration

Nothing == [b \in Bags |-> {}]

Off == [st |-> "off", left |-> Nothing, shows |-> None]

\* The next messages of the bags.
Heads(left) ==
  UNION {{m \in left[b] : \A n \in left[b] : ~FileBefore(n, m)} : b \in Bags}

\* What may be shown when this is left.
Earliest(left) ==
  IF left = Nothing
  THEN {None}
  ELSE {m \in Heads(left) : \A n \in Heads(left) : ~Earlier(n, m)}

Init == iteration = [i \in Iterators |-> Off]

(***************************************************************************)
(* How an iteration changes from x to y.  Each predicate says what y is,   *)
(* so that checking a step does not enumerate what it might have been.     *)
(***************************************************************************)

\* begin()
Started(y) ==
  /\ y = [st |-> "busy", left |-> y.left, shows |-> None]
  /\ y.left \in Requests

\* begin() or ++ returns.
Ready(x, y) ==
  /\ x.st = "busy"
  /\ y = [x EXCEPT !.st = "ready", !.shows = y.shows]
  /\ y.shows \in Earliest(x.left)

\* ++ begins: the message that was shown is done with.
Step(x, y) ==
  /\ x.st = "ready"
  /\ x.shows # None
  /\ y = [x EXCEPT !.st = "busy", !.left[x.shows.bag] = @ \ {x.shows}]

\* ++ throws: the rest of that bag is given up, and the iteration can go on.
GiveUp(x, y) ==
  /\ x.st = "busy"
  /\ x.shows # None
  /\ y = [st |-> "ready", left |-> [x.left EXCEPT ![x.shows.bag] = {}], shows |-> y.shows]
  /\ y.shows \in Earliest(y.left)

\* The iterator is assigned another one.
Copied(i, y) == \E j \in Iterators \ {i} : iteration[j].st = "ready" /\ y = iteration[j]

\* begin() throws, or finds wrappers in use, or the iterator is overwritten.
Stopped(y) == y = Off

\* One iteration changes, and that may disturb others.
Next ==
  LET next == iteration' IN
  /\ next = [j \in Iterators |-> next[j]]
  /\ \E i \in Iterators :
       /\ \A j \in Iterators \ {i} : next[j] \in {iteration[j], Off}
       /\ \/ Stopped(next[i]) \/ Copied(i, next[i])
          \/ Ready(iteration[i], next[i]) \/ Step(iteration[i], next[i])
          \/ GiveUp(iteration[i], next[i])
          \/ Started(next[i])

Spec == Init /\ [][Next]_iteration

=============================================================================
