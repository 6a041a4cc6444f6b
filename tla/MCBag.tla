------------------------------- MODULE MCBag -------------------------------
(***************************************************************************)
(* Files for Bag: the complete ones, and what damage makes of one.         *)
(***************************************************************************)
EXTENDS Bag, TLC

Connection(id, topic, def) == [kind |-> "connection", id |-> id, topic |-> topic, def |-> def]
ChunkInfo(p, count) == [kind |-> "chunk_info", chunk_pos |-> p, count |-> count]
ChunkAt(next, data) == [supported |-> TRUE, next |-> next, data |-> data]
IndexData(id, count) == [conn |-> id, count |-> count]

\* Two connections of one topic, with different definitions, one connection
\* of another and one without a topic; three chunks in any order.
ThreeChunks ==
  10 :> ChunkAt(15, <<IndexData(0, 2), IndexData(1, 1)>>)
    @@ 20 :> ChunkAt(25, <<IndexData(2, 1)>>)
    @@ 30 :> ChunkAt(35, <<IndexData(1, 1), IndexData(3, 2), IndexData(0, 1)>>)

Complete(first, second, third) ==
  [magic |-> TRUE, conn_count |-> 4, chunk_count |-> 3,
   index |-> <<Connection(1, "a", "d1"), Connection(0, "a", "d2"),
               Connection(3, NoTopic, "d1"), Connection(2, "b", "bad"),
               ChunkInfo(first, Len(ThreeChunks[first].data)),
               ChunkInfo(second, Len(ThreeChunks[second].data)),
               ChunkInfo(third, Len(ThreeChunks[third].data))>>,
   chunks |-> ThreeChunks]

CompleteFiles ==
  {Complete(10, 20, 30), Complete(30, 10, 20), Complete(20, 30, 10)}

\* A recording that was cut off: no index.
Unindexed == [Complete(10, 20, 30) EXCEPT !.conn_count = 0, !.chunk_count = 0, !.index = <<>>]

DamagedFiles ==
  LET f == Complete(10, 20, 30) IN
  {Unindexed,
   [f EXCEPT !.magic = FALSE],
   [f EXCEPT !.conn_count = 5],
   [f EXCEPT !.chunk_count = 2],
   [f EXCEPT !.chunk_count = 4],
   [f EXCEPT !.index = SubSeq(@, 1, 6)],
   [f EXCEPT !.index[5].count = 1],
   [f EXCEPT !.index[5].count = 3],
   [f EXCEPT !.index[6].chunk_pos = 11],
   [f EXCEPT !.index[6].chunk_pos = 10],
   [f EXCEPT !.chunks[30].supported = FALSE]}

MCFiles == CompleteFiles \cup DamagedFiles

=============================================================================
