-------------------------------- MODULE Bag --------------------------------
(***************************************************************************)
(* Opening a bag and asking it about its topics: Bag of lib/embag.h and    *)
(* lib/embag.cc.  The constructor reads the header, the CONNECTION and     *)
(* CHUNK_INFO records of the index section, and then, for every chunk, the *)
(* CHUNK record and the INDEX_DATA records behind it.  It keeps vectors,   *)
(* and pointers into these vectors.                                        *)
(*                                                                         *)
(* A file is described by its records.  index is the sequence of records   *)
(* from index_pos on; chunks[p] is the CHUNK record at position p, next    *)
(* the position behind it and data the INDEX_DATA records that follow.     *)
(* Reading a record of another kind, or past the end of the file, throws:  *)
(* the header fields that the code asks for are not there.                 *)
(***************************************************************************)
EXTENDS Integers, Sequences, FiniteSetsExt

CONSTANTS
  Files,       \* the files, as records of the form above
  Topics,      \* names, those of topics in the files among them
  NoTopic,     \* the empty topic
  Unparsable,  \* message definitions that parseMsgDef rejects
  Null         \* a null pointer to a schema

(***************************************************************************)
(* Counts are unsigned and ids are below conn_count: an id that is not     *)
(* would index the vector of connections out of its bounds, where the code *)
(* has no defined behaviour.                                               *)
(***************************************************************************)
ASSUME FilesAssumption ==
  /\ NoTopic \notin Topics
  /\ \A f \in Files :
       /\ f.conn_count \in Nat /\ f.chunk_count \in Nat
       /\ Len(f.index) \in Nat /\ DOMAIN f.index = 1..Len(f.index)
       /\ IsFiniteSet(DOMAIN f.chunks)
       /\ \A p \in DOMAIN f.chunks :
            LET data == f.chunks[p].data IN
            /\ Len(data) \in Nat /\ DOMAIN data = 1..Len(data)
            /\ \A j \in DOMAIN data : data[j].count \in Nat
       /\ \A k \in DOMAIN f.index : LET r == f.index[k] IN
            /\ r.kind = "connection" =>
                 /\ r.topic \in Topics \cup {NoTopic}
                 /\ r.topic # NoTopic => r.id \in 0..f.conn_count-1
            /\ r.kind = "chunk_info" =>
                 /\ r.count \in Nat
                 /\ r.chunk_pos \in DOMAIN f.chunks =>
                      \A j \in DOMAIN f.chunks[r.chunk_pos].data :
                        f.chunks[r.chunk_pos].data[j].conn \in 0..f.conn_count-1

VARIABLES
  file,                  \* the file that is opened
  pc,                    \* where the constructor is, or what came of it
  pos,                   \* the position of the stream in the index section
  info,                  \* index of the chunk that is being read, from 1
  pending,               \* INDEX_DATA records of that chunk still to be read
  connections_,          \* connection id -> connection_record_t
  topic_connection_map_, \* topic -> sequence of ids of its connections
  chunk_infos_,          \* sequence of chunk_info_t
  chunks_,               \* vector of chunk_t
  message_schemata_      \* topic -> parsed definition

loaded == <<connections_, topic_connection_map_, chunk_infos_, chunks_>>
vars == <<file, pc, pos, info, pending, loaded, message_schemata_>>

-----------------------------------------------------------------------------
(***************************************************************************)
(* std::vector, where pointers into it matter: store names the memory its  *)
(* elements are in, which push_back replaces when the capacity is used up. *)
(***************************************************************************)
EmptyVector == [store |-> 0, cap |-> 0, elems |-> <<>>]

Reserve(v, n) ==
  IF n > v.cap THEN [store |-> v.store + 1, cap |-> n, elems |-> v.elems] ELSE v

PushBack(v, x) ==
  [Reserve(v, IF Len(v.elems) = v.cap THEN 2 * v.cap + 1 ELSE v.cap)
     EXCEPT !.elems = Append(@, x)]

\* &v[i], and whether it may be dereferenced.
AddressOf(v, i) == [store |-> v.store, at |-> i]
Valid(v, p) == p.store = v.store /\ p.at \in DOMAIN v.elems

\* A function with one more argument, or another value for one it has.
Put(f, x, y) == [z \in DOMAIN f \cup {x} |-> IF z = x THEN y ELSE f[z]]

-----------------------------------------------------------------------------
NoConnection == [id |-> 0, topic |-> NoTopic, blocks |-> <<>>, def |-> Null, message_count |-> 0]

Init ==
  /\ file \in Files
  /\ pc = "stream"
  /\ pos = 1 /\ info = 1 /\ pending = 0
  /\ connections_ = <<>>
  /\ topic_connection_map_ = <<>>
  /\ chunk_infos_ = <<>>
  /\ chunks_ = EmptyVector
  /\ message_schemata_ = <<>>

\* The constructor throws, and there is no bag.
Fail ==
  /\ pc' = "failed"
  /\ UNCHANGED <<file, pos, info, pending, loaded, message_schemata_>>

\* Mutant: no memory is reserved for the chunks.
ReadBagHeaderNoReserve ==
  /\ pc = "stream"
  /\ IF file.magic
     THEN /\ connections_' = [id \in 0..file.conn_count-1 |-> NoConnection]
          /\ pc' = "connections"
          /\ UNCHANGED <<file, pos, info, pending, topic_connection_map_, chunk_infos_, chunks_,
                         message_schemata_>>
     ELSE Fail

\* readStream: the magic string, the version and the newline; then the
\* BAG_HEADER record, which sizes the vectors.
ReadBagHeader ==
  /\ pc = "stream"
  /\ \/ /\ ~file.magic
        /\ Fail
     \/ /\ file.magic
        /\ connections_' = [id \in 0..file.conn_count-1 |-> NoConnection]
        /\ chunks_' = Reserve(chunks_, file.chunk_count)
        /\ pc' = "connections"
        /\ UNCHANGED <<file, pos, info, pending, topic_connection_map_, chunk_infos_,
                       message_schemata_>>

\* The next record of the index section is of this kind.
NextIs(kind) == pos \in DOMAIN file.index /\ file.index[pos].kind = kind

KnownConnections(r) ==
  IF r.topic \in DOMAIN topic_connection_map_ THEN topic_connection_map_[r.topic] ELSE <<>>

\* Mutants: a record too many is read; the stream is not moved past a
\* connection with the empty topic.
ReadConnectionsTo(last, step(_)) ==
  LET r == file.index[pos] IN
  /\ pc = "connections"
  /\ pos <= last
  /\ IF NextIs("connection")
     THEN /\ pos' = pos + step(r)
          /\ connections_' = IF r.topic = NoTopic THEN connections_
               ELSE [connections_ EXCEPT ![r.id] = [@ EXCEPT !.topic = r.topic, !.def = r.def]]
          /\ topic_connection_map_' = IF r.topic = NoTopic THEN topic_connection_map_
               ELSE Put(topic_connection_map_, r.topic, Append(KnownConnections(r), r.id))
          /\ UNCHANGED <<file, pc, info, pending, chunk_infos_, chunks_, message_schemata_>>
     ELSE Fail
ReadConnectionTooMany == ReadConnectionsTo(file.conn_count + 1, LAMBDA r : 1)
ReadConnectionStuck ==
  ReadConnectionsTo(file.conn_count, LAMBDA r : IF r.topic = NoTopic THEN 0 ELSE 1)

\* A connection with the empty topic is passed over.  pos counts records.
ReadConnection ==
  LET r == file.index[pos] IN
  /\ pc = "connections"
  /\ pos <= file.conn_count
  /\ \/ /\ ~NextIs("connection")
        /\ Fail
     \/ /\ NextIs("connection")
        /\ pos' = pos + 1
        /\ \/ /\ r.topic = NoTopic
              /\ UNCHANGED <<connections_, topic_connection_map_>>
           \/ /\ r.topic # NoTopic
              /\ connections_' = [connections_ EXCEPT ![r.id] =
                   [id |-> r.id, topic |-> r.topic, blocks |-> @.blocks, def |-> r.def,
                    message_count |-> 0]]
              /\ topic_connection_map_' =
                   Put(topic_connection_map_, r.topic,
                       IF r.topic \in DOMAIN topic_connection_map_
                       THEN Append(topic_connection_map_[r.topic], r.id)
                       ELSE <<r.id>>)
        /\ UNCHANGED <<file, pc, info, pending, chunk_infos_, chunks_, message_schemata_>>

ConnectionsRead ==
  /\ pc = "connections"
  /\ pos > file.conn_count
  /\ pc' = "infos"
  /\ UNCHANGED <<file, pos, info, pending, loaded, message_schemata_>>

ReadChunkInfo ==
  LET r == file.index[pos] IN
  /\ pc = "infos"
  /\ Len(chunk_infos_) < file.chunk_count
  /\ \/ /\ ~NextIs("chunk_info")
        /\ Fail
     \/ /\ NextIs("chunk_info")
        /\ pos' = pos + 1
        /\ chunk_infos_' = Append(chunk_infos_,
             [chunk_pos |-> r.chunk_pos, connection_count |-> r.count, message_count |-> 0])
        /\ UNCHANGED <<file, pc, info, pending, connections_, topic_connection_map_,
                       chunks_, message_schemata_>>

ChunkInfosRead ==
  /\ pc = "infos"
  /\ Len(chunk_infos_) = file.chunk_count
  /\ pc' = "chunks"
  /\ UNCHANGED <<file, pos, info, pending, loaded, message_schemata_>>

\* The CHUNK record that chunk info number info points to.
ChunkRecord == file.chunks[chunk_infos_[info].chunk_pos]

ReadChunk ==
  /\ pc = "chunks"
  /\ info <= file.chunk_count
  /\ \/ /\ ~(chunk_infos_[info].chunk_pos \in DOMAIN file.chunks /\ ChunkRecord.supported)
        /\ Fail
     \/ /\ chunk_infos_[info].chunk_pos \in DOMAIN file.chunks /\ ChunkRecord.supported
        /\ pending' = chunk_infos_[info].connection_count
        /\ pc' = "index_data"
        /\ UNCHANGED <<file, pos, info, loaded, message_schemata_>>

\* Mutants: two records are counted at once; all blocks point to one place.
TakeIndexData(r, address, step) ==
  /\ chunk_infos_' = [chunk_infos_ EXCEPT ![info].message_count = @ + r.count]
  /\ connections_' = [connections_ EXCEPT
       ![r.conn].blocks = Append(@, address), ![r.conn].message_count = @ + r.count]
  /\ pending' = pending - step
  /\ UNCHANGED <<file, pc, pos, info, topic_connection_map_, chunks_, message_schemata_>>
ReadIndexDataTwo ==
  /\ pc = "index_data" /\ pending > 0 /\ ChunkRecord.data # <<>>
  /\ TakeIndexData(ChunkRecord.data[1], AddressOf(chunks_, info), 2)
ReadIndexDataOnePlace ==
  LET j == chunk_infos_[info].connection_count - pending + 1 IN
  /\ pc = "index_data" /\ pending > 0
  /\ IF j \in DOMAIN ChunkRecord.data
     THEN TakeIndexData(ChunkRecord.data[j], AddressOf(chunks_, 1), 1)
     ELSE Fail

\* The block points to the place where the chunk is going to be.
ReadIndexData ==
  LET j == chunk_infos_[info].connection_count - pending + 1
      r == ChunkRecord.data[j]
  IN
  /\ pc = "index_data"
  /\ pending > 0
  /\ \/ /\ j \notin DOMAIN ChunkRecord.data
        /\ Fail
     \/ /\ j \in DOMAIN ChunkRecord.data
        /\ chunk_infos_' = [chunk_infos_ EXCEPT ![info].message_count = @ + r.count]
        /\ connections_' = [connections_ EXCEPT
             ![r.conn].blocks = Append(@, AddressOf(chunks_, info)),
             ![r.conn].message_count = @ + r.count]
        /\ pending' = pending - 1
        /\ UNCHANGED <<file, pc, pos, info, topic_connection_map_, chunks_, message_schemata_>>

\* Mutant: the info is copied before its messages were counted.
PushChunkEarly ==
  /\ pc = "index_data"
  /\ pending = 0
  /\ chunks_' = PushBack(chunks_,
       [offset |-> ChunkRecord.next, info |-> [chunk_infos_[info] EXCEPT !.message_count = 0]])
  /\ info' = info + 1
  /\ pc' = "chunks"
  /\ UNCHANGED <<file, pos, pending, connections_, topic_connection_map_, chunk_infos_,
                 message_schemata_>>

\* chunk.info = info; chunks_.push_back(chunk)
PushChunk ==
  /\ pc = "index_data"
  /\ pending = 0
  /\ chunks_' = PushBack(chunks_, [offset |-> ChunkRecord.next, info |-> chunk_infos_[info]])
  /\ info' = info + 1
  /\ pc' = "chunks"
  /\ UNCHANGED <<file, pos, pending, connections_, topic_connection_map_, chunk_infos_,
                 message_schemata_>>

ChunksRead ==
  /\ pc = "chunks"
  /\ info > file.chunk_count
  /\ pc' = "open"
  /\ UNCHANGED <<file, pos, info, pending, loaded, message_schemata_>>

-----------------------------------------------------------------------------
(* Questions to an open bag.                                               *)

topics == DOMAIN topic_connection_map_

topicInBag(t) == t \in DOMAIN topic_connection_map_

\* operator[] of the map inserts the topic when it is not there.
connectionsForTopic(t) ==
  /\ pc = "open"
  /\ topic_connection_map_' =
       IF topicInBag(t) THEN topic_connection_map_ ELSE Put(topic_connection_map_, t, <<>>)
  /\ UNCHANGED <<file, pc, pos, info, pending, connections_, chunk_infos_, chunks_,
                 message_schemata_>>

\* parseMsgDef, the grammar left out.
Parse(def) == [members_of |-> def]

\* The definition of a topic is the one of its first connection.
DefinitionOf(t) == connections_[topic_connection_map_[t][1]].def

\* Mutant: the definition of another topic is taken.
msgDefForAnyTopic(t) ==
  /\ pc = "open"
  /\ t \notin DOMAIN message_schemata_
  /\ \E u \in topics : topic_connection_map_[u] # <<>>
       /\ message_schemata_' = Put(message_schemata_, t, Parse(DefinitionOf(u)))
  /\ topicInBag(t) /\ topic_connection_map_[t] # <<>>
  /\ UNCHANGED <<file, pc, pos, info, pending, loaded>>

(***************************************************************************)
(* msgDefForTopic parses the definition of a topic once.  In the statement *)
(* message_schemata_[topic] = parseMsgDef(...) C++11 lets the compiler     *)
(* insert the key before the call, which may throw.                        *)
(***************************************************************************)
msgDefForTopic(t) ==
  /\ pc = "open"
  /\ \/ /\ t \in DOMAIN message_schemata_
        /\ UNCHANGED message_schemata_
     \/ /\ t \notin DOMAIN message_schemata_
        /\ IF topicInBag(t) /\ topic_connection_map_[t] # <<>>
           THEN IF DefinitionOf(t) \in Unparsable
                THEN \/ UNCHANGED message_schemata_
                     \/ message_schemata_' = Put(message_schemata_, t, Null)
                ELSE message_schemata_' = Put(message_schemata_, t, Parse(DefinitionOf(t)))
           ELSE UNCHANGED message_schemata_
  /\ UNCHANGED <<file, pc, pos, info, pending, loaded>>

Load ==
  \/ ReadBagHeader \/ ReadConnection \/ ConnectionsRead
  \/ ReadChunkInfo \/ ChunkInfosRead
  \/ ReadChunk \/ ReadIndexData \/ PushChunk \/ ChunksRead

Next ==
  \/ Load
  \/ \E t \in Topics : connectionsForTopic(t)
  \/ \E t \in Topics : msgDefForTopic(t)

Spec == Init /\ [][Next]_vars

\* The constructor runs to its end.
FairSpec == Spec /\ WF_vars(Load)

-----------------------------------------------------------------------------
(* Properties.                                                             *)

\* The variables have their types.
TypeOK ==
  /\ file \in Files
  /\ pc \in {"stream", "connections", "infos", "chunks", "index_data", "open", "failed"}
  /\ pos \in Nat /\ info \in Nat /\ pending \in Nat
  /\ \A id \in DOMAIN connections_ :
       /\ connections_[id].message_count \in Nat
       /\ \A k \in DOMAIN connections_[id].blocks :
            connections_[id].blocks[k] \in [store : Nat, at : Nat]
  /\ \A t \in topics : topic_connection_map_[t] \in Seq(DOMAIN connections_)
  /\ chunks_.store \in Nat /\ chunks_.cap \in Nat
  /\ DOMAIN message_schemata_ \subseteq Topics

\* A file as rosbag writes it when a recording ends: the counts of the
\* header and of the chunk infos are right, every chunk is listed once.
WellFormed(f) ==
  /\ f.magic
  /\ Len(f.index) = f.conn_count + f.chunk_count
  /\ Cardinality(DOMAIN f.chunks) = f.chunk_count
  /\ \A k \in 1..f.conn_count : f.index[k].kind = "connection"
  /\ \A k \in f.conn_count+1..Len(f.index) :
       /\ f.index[k].kind = "chunk_info"
       /\ f.index[k].chunk_pos \in DOMAIN f.chunks
       /\ f.index[k].count = Len(f.chunks[f.index[k].chunk_pos].data)
  /\ \A k, l \in 1..f.conn_count : k # l => f.index[k].id # f.index[l].id
  /\ \A k, l \in f.conn_count+1..Len(f.index) :
       k # l => f.index[k].chunk_pos # f.index[l].chunk_pos
  /\ \A p \in DOMAIN f.chunks : f.chunks[p].supported

\* The pointers in the blocks of connection id.
Blocks(id) == {connections_[id].blocks[k] : k \in DOMAIN connections_[id].blocks}

(***************************************************************************)
(* The blocks of a connection never dangle: the vector of chunks is not    *)
(* moved once pointers into it were taken, and in an open bag each points  *)
(* to a chunk (embag.cc:169 and 288).                                      *)
(***************************************************************************)
BlocksPointToChunks ==
  pc # "failed" =>
    \A id \in DOMAIN connections_ : \A p \in Blocks(id) :
      /\ p.store = chunks_.store
      /\ pc = "open" => Valid(chunks_, p)

\* The connections that a topic leads to.
ConnectionsOf(t) ==
  IF topicInBag(t) THEN {topic_connection_map_[t][k] : k \in DOMAIN topic_connection_map_[t]}
  ELSE {}

(***************************************************************************)
(* In an open bag a topic leads to all its connections and to no others,   *)
(* and a connection to exactly the chunks that hold its messages: that     *)
(* lets getMessages choose chunks by topic, whatever was asked of the bag  *)
(* since it was opened.                                                    *)
(***************************************************************************)
IndexExact ==
  pc = "open" /\ WellFormed(file) =>
    /\ \A t \in Topics : ConnectionsOf(t) = {id \in DOMAIN connections_ : connections_[id].topic = t}
    /\ \A id \in DOMAIN connections_ :
         {chunks_.elems[p.at].offset : p \in Blocks(id)} =
         {file.chunks[c].next :
            c \in {d \in DOMAIN file.chunks :
                     \E j \in DOMAIN file.chunks[d].data : file.chunks[d].data[j].conn = id}}

(***************************************************************************)
(* The messages counted per connection and those counted per chunk, in the *)
(* copy of the info that the chunk keeps, are the same number, for any     *)
(* file that opens.                                                        *)
(***************************************************************************)
CountsAgree ==
  pc = "open" =>
    MapThenSumSet(LAMBDA id : connections_[id].message_count, DOMAIN connections_) =
    MapThenSumSet(LAMBDA k : chunks_.elems[k].info.message_count, DOMAIN chunks_.elems)

\* A file with a complete index opens.
WellFormedOpens == WellFormed(file) => pc # "failed"

(***************************************************************************)
(* A schema that msgDefForTopic keeps was parsed from the definition of    *)
(* the topic; a null one is kept only where parsing fails.                 *)
(***************************************************************************)
SchemataSound ==
  \A t \in DOMAIN message_schemata_ :
    message_schemata_[t] =
      (IF DefinitionOf(t) \in Unparsable THEN Null ELSE Parse(DefinitionOf(t)))

\* The constructor ends: the loops follow counts and never go back.
LoadEnds == <>(pc \in {"open", "failed"})

=============================================================================
