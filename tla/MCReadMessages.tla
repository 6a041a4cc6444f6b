--------------------------- MODULE MCReadMessages ---------------------------
(***************************************************************************)
(* Values for the constants of ReadMessages: a sound bag on bytes with a   *)
(* topic whose definition cannot be parsed, a file with a topic of two     *)
(* connections and one without a topic, a file with a damaged chunk, and   *)
(* the bytes of a bag whose recorder wrote no chunk.                       *)
(***************************************************************************)
EXTENDS ReadMessages

T(s, n) == [secs |-> s, nsecs |-> n]

Msg(id, t) == [op |-> "MESSAGE_DATA", conn |-> id, ts |-> t, head |-> 1, len |-> 1]

Chunk(offset, start, end, records) ==
  [offset |-> offset, size |-> 2 * Cardinality(DOMAIN records), compression |-> "lz4",
   ok |-> TRUE, good |-> 2 * Cardinality(DOMAIN records), records |-> records,
   start_time |-> start, end_time |-> end]

Conn(topic, blocks) == [topic |-> topic, blocks |-> blocks]
Data(sender, def, count) ==
  [sender |-> sender, message_definition |-> def, message_count |-> count]

Contents ==
  "bytes" :>
    [chunks |-> <<Chunk(10, T(1, 0), T(1, 2), 0 :> Msg(0, T(1, 2)) @@ 2 :> Msg(1, T(1, 0))),
                  Chunk(20, T(2, 1), T(2, 1), 0 :> Msg(0, T(2, 1)))>>,
     connections |-> 0 :> Conn("a", {1, 2}) @@ 1 :> Conn("b", {1}),
     data |-> 0 :> Data("camera", "image", 2) @@ 1 :> Data("driver", "bad", 1),
     map |-> "a" :> <<0>> @@ "b" :> <<1>>]
  @@ "file" :>
    [chunks |-> <<Chunk(10, T(1, 1), T(1, 1), 0 :> Msg(1, T(1, 1))),
                  Chunk(20, T(1, 3), T(2, 2),
                        0 :> Msg(0, T(1, 3)) @@ 2 :> Msg(2, T(2, 2)))>>,
     connections |-> 0 :> Conn("a", {2}) @@ 1 :> Conn("a", {1}) @@ 2 :> Conn(NoTopic, {2}),
     data |-> 0 :> Data("camera", "scan", 1) @@ 1 :> Data("camera", "scan", 1)
                @@ 2 :> Data("nobody", "scan", 1),
     map |-> "a" :> <<1, 0>>]
  @@ "broken" :>
    [chunks |-> <<Chunk(10, T(1, 0), T(1, 0), 0 :> Msg(0, T(1, 0))),
                  [Chunk(20, T(1, 3), T(2, 0), 0 :> Msg(0, T(1, 3)) @@ 2 :> Msg(0, T(2, 0)))
                     EXCEPT !.ok = FALSE, !.good = 2]>>,
     connections |-> 0 :> Conn("b", {1, 2}),
     data |-> 0 :> Data("driver", "speed", 3),
     map |-> "b" :> <<0>>]
  @@ "crashed" :>
    [chunks |-> <<>>, connections |-> <<>>, data |-> <<>>, map |-> <<>>]

MCchunks == [b \in Bags |-> Contents[b].chunks]
MCconnections == [b \in Bags |-> Contents[b].connections]
MCdata == [b \in Bags |-> Contents[b].data]
MCmap == [b \in Bags |-> Contents[b].map]

=============================================================================
