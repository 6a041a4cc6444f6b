------------------------------- MODULE MCView -------------------------------
(***************************************************************************)
(* Values for the constants of View: small bags, each with a feature that  *)
(* makes reading hard.                                                     *)
(***************************************************************************)
EXTENDS ViewRefinement, TLC

T(s, n) == [secs |-> s, nsecs |-> n]

\* Records with one unit of lengths and header, and one of data.
Record(op, id, t, len) == [op |-> op, conn |-> id, ts |-> t, head |-> 1, len |-> len]
Msg(id, t) == Record("MESSAGE_DATA", id, t, 1)
Con(id) == Record("CONNECTION", id, T(0, 0), 1)

Damaged(offset, size, compression, ok, good, records) ==
  [offset |-> offset, size |-> size, compression |-> compression, ok |-> ok, good |-> good,
   records |-> records, start_time |-> T(0, 0), end_time |-> T(0, 0)]

Chunk(offset, size, records) == Damaged(offset, size, "lz4", TRUE, size, records)
Plain(offset, size, records) == Damaged(offset, size, "none", TRUE, size, records)

Conn(topic, blocks) == [topic |-> topic, blocks |-> blocks]

Bag(chunks, connections) == [chunks |-> chunks, connections |-> connections]

\* Both topics in two chunks, which the index lists against the file order.
SortedBagContents ==
  Bag(<<Chunk(20, 4, 0 :> Con(1) @@ 2 :> Msg(1, T(2, 0))),
        Chunk(10, 4, 0 :> Msg(0, T(1, 1)) @@ 2 :> Msg(1, T(1, 3)))>>,
      0 :> Conn("a", {2}) @@ 1 :> Conn("b", {1, 2}))

\* A later message first, and two connections of one topic.
UnsortedBagContents ==
  Bag(<<Chunk(10, 6, 0 :> Msg(0, T(2, 1)) @@ 2 :> Msg(1, T(1, 2)) @@ 4 :> Msg(0, T(2, 1)))>>,
      0 :> Conn("a", {1}) @@ 1 :> Conn("a", {1}))

\* The time stamp of one message equals one of the sorted bag.
TieBagContents ==
  Bag(<<Chunk(10, 2, 0 :> Msg(0, T(1, 3))), Chunk(30, 2, 0 :> Msg(0, T(2, 2)))>>,
      0 :> Conn("b", {1, 2}))

\* A chunk that lz4 gives up on after its first record, behind a sound one.
BrokenBagContents ==
  Bag(<<Chunk(10, 4, 0 :> Msg(0, T(1, 0)) @@ 2 :> Msg(1, T(1, 1))),
        Damaged(20, 6, "lz4", FALSE, 2, 0 :> Msg(0, T(2, 0)) @@ 2 :> Msg(0, T(2, 1)) @@ 4 :> Msg(0, T(2, 2))),
        Chunk(30, 2, 0 :> Msg(1, T(3, 0)))>>,
      0 :> Conn("a", {1, 2}) @@ 1 :> Conn("b", {1, 3}))

\* The same before a sound chunk, and no more.
TornBagContents ==
  Bag(<<Damaged(10, 4, "lz4", FALSE, 2, 0 :> Msg(0, T(1, 0)) @@ 2 :> Msg(0, T(1, 1))),
        Chunk(20, 2, 0 :> Msg(1, T(2, 0)))>>,
      0 :> Conn("a", {1}) @@ 1 :> Conn("b", {2}))

\* A chunk that bz2 fills in part, after one whose last message has no data.
ShortBagContents ==
  Bag(<<Chunk(10, 3, 0 :> Msg(0, T(1, 0)) @@ 2 :> Record("MESSAGE_DATA", 1, T(1, 1), 0)),
        Damaged(20, 4, "bz2", TRUE, 2, 0 :> Msg(0, T(2, 0)) @@ 2 :> Msg(1, T(2, 1)))>>,
      0 :> Conn("a", {1, 2}) @@ 1 :> Conn("b", {1, 2}))

\* A record of another kind between two messages, one of them without data.
OddBagContents ==
  Bag(<<Chunk(10, 5, 0 :> Record("MESSAGE_DATA", 0, T(1, 0), 0)
                     @@ 1 :> Record("OTHER", 0, T(0, 0), 1) @@ 3 :> Msg(0, T(1, 1))),
        Plain(20, 2, 0 :> Msg(1, T(1, 2)))>>,
      0 :> Conn("a", {1}) @@ 1 :> Conn(NoTopic, {2}))

\* A whole chunk whose last message has no data.
EmptyTailBagContents ==
  Bag(<<Chunk(10, 3, 0 :> Msg(0, T(1, 0)) @@ 2 :> Record("MESSAGE_DATA", 1, T(1, 1), 0))>>,
      0 :> Conn("a", {1}) @@ 1 :> Conn("b", {1}))

\* A time stamp that nobody normalised between two that are.
RawBagContents ==
  Bag(<<Chunk(10, 6, 0 :> Msg(0, T(1, 0)) @@ 2 :> Msg(0, T(1, 6)) @@ 4 :> Msg(0, T(2, 1)))>>,
      0 :> Conn("a", {1}))

Contents ==
  "sorted" :> SortedBagContents @@ "unsorted" :> UnsortedBagContents
    @@ "tie" :> TieBagContents @@ "broken" :> BrokenBagContents
    @@ "torn" :> TornBagContents @@ "short" :> ShortBagContents
    @@ "odd" :> OddBagContents @@ "raw" :> RawBagContents @@ "emptytail" :> EmptyTailBagContents

MCchunks == [b \in Bags |-> Contents[b].chunks]
MCconnections == [b \in Bags |-> Contents[b].connections]

\* Queries, and iterators, differ by their names only.
Symmetry == Permutations(Queries) \cup Permutations(Iterators)

=============================================================================
